------------------------------ MODULE Instants ------------------------------
(***************************************************************************)
(* core/src/instant.rs: how a moment is named.  A name is its fields, from *)
(* the year to the millisecond, each of a fixed width, so that names sort  *)
(* as strings as the fields do one after another, up to the year 9999.     *)
(*                                                                         *)
(* A moment is <<the days since 1970-01-01, the millisecond of the day>>;  *)
(* one before 1970 is the first of that day.                               *)
(***************************************************************************)
EXTENDS Integers, Sequences

DayMillis == 86400000
Moments == Nat \X (0..(DayMillis - 1))

\* civil_from_days: the year of the era, March first; the leap days of every 4, 100 and 400 years.
CivilFromDays(days) ==
    LET z == days + 719468
        era == z \div 146097
        doe == z - era * 146097
        yoe == (doe - (doe \div 1460) + (doe \div 36524) - (doe \div 146096)) \div 365
        y == yoe + era * 400
        doy == doe - (365 * yoe + (yoe \div 4) - (yoe \div 100))
        mp == (5 * doy + 2) \div 153
        m == IF mp < 10 THEN mp + 3 ELSE mp - 9
    IN  <<IF m <= 2 THEN y + 1 ELSE y, m, doy - ((153 * mp + 2) \div 5) + 1>>

FormatUtc(moment) ==
    LET second == moment[2] \div 1000 IN
    CivilFromDays(moment[1]) \o
        <<second \div 3600, (second % 3600) \div 60, second % 60, moment[2] % 1000>>

\* The order of names of one length as strings.
SortsBefore(a, b) ==
    \E k \in DOMAIN a : a[k] < b[k] /\ \A j \in 1..(k - 1) : a[j] = b[j]
-----------------------------------------------------------------------------
(* The calendar as everybody knows it, for reference. *)

Leap(year) == year % 4 = 0 /\ (year % 100 # 0 \/ year % 400 = 0)

MonthDays(year, month) ==
    IF month = 2 THEN IF Leap(year) THEN 29 ELSE 28
    ELSE IF month \in {4, 6, 9, 11} THEN 30 ELSE 31

NextDate(date) ==
    LET year == date[1]  month == date[2]  day == date[3] IN
    IF day < MonthDays(year, month) THEN <<year, month, day + 1>>
    ELSE IF month < 12 THEN <<year, month + 1, 1>> ELSE <<year + 1, 1, 1>>
=============================================================================
