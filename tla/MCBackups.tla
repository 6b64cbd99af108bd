----------------------------- MODULE MCBackups -----------------------------
(***************************************************************************)
(* Three changes and one listing.  Three changes are enough for a torn     *)
(* directory between two whole ones, for two names in one millisecond and  *)
(* for a name that sorts before an older one.                              *)
(***************************************************************************)
EXTENDS Backups, TLC

\* The last millisecond of a leap February and the first of March, in 2028.
MCClock == << <<21243, DayMillis - 1>>, <<21244, 0>> >>

\* Every day until 2100 is the one after the day before, and the first is 1970-01-01.
ASSUME CalendarAssumption ==
    /\ CivilFromDays(0) = <<1970, 1, 1>>
    /\ \A day \in 0..47500 : CivilFromDays(day + 1) = NextDate(CivilFromDays(day))

Symmetry == Permutations(Requests)
=============================================================================
