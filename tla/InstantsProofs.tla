--------------------------- MODULE InstantsProofs ---------------------------
(***************************************************************************)
(* The names instant.rs gives sort as the moments they name, and the dates *)
(* in them are the calendar's, whatever the moments: the arithmetic of     *)
(* civil_from_days, which divides by lengths that are not the lengths of   *)
(* its years, never puts a day in the wrong year.                          *)
(***************************************************************************)
EXTENDS Instants, SequenceTheorems, TLAPS

\* The year of the era a day of the era is in, and the days of the era before a year.
YearOf(doe) == (doe - (doe \div 1460) + (doe \div 36524) - (doe \div 146096)) \div 365
DaysBefore(y) == 365 * y + (y \div 4) - (y \div 100)

\* The year of a day of the era is one of 400, and the day is within its year.
LEMMA YearBounds ==
    ASSUME NEW doe \in Nat, doe <= 146096
    PROVE  /\ YearOf(doe) \in 0..399
           /\ doe - DaysBefore(YearOf(doe)) \in 0..365
<1>1. CASE doe = 146096
  BY <1>1, SMT DEF YearOf, DaysBefore
<1>2. CASE doe # 146096
  <2>1. PICK a \in Nat : a = doe \div 1460
    BY SMT
  <2>2. 1460 * a <= doe /\ doe < 1460 * a + 1460
    BY <2>1, SMT
  <2>3. PICK b \in Nat : b = doe \div 36524
    BY SMT
  <2>4. 36524 * b <= doe /\ doe < 36524 * b + 36524 /\ b <= 3
    BY <1>2, <2>3, SMT
  <2>5. doe \div 146096 = 0
    BY <1>2, SMT
  <2>6. PICK m \in Nat : m = doe - a + b
    <3>1. doe - a + b \in Nat
      BY <2>2, SMT
    <3> QED
      BY <3>1, SMT
  <2>7. PICK y \in Nat : y = m \div 365
    BY SMT
  <2>8. 365 * y <= doe - a + b /\ doe - a + b < 365 * y + 365
    BY <2>6, <2>7, SMT
  <2>9. YearOf(doe) = y
    BY <2>1, <2>3, <2>5, <2>6, <2>7, SMT DEF YearOf
  <2>10. PICK h \in Nat : h = y \div 100
    BY SMT
  <2>11. 100 * h <= y /\ y < 100 * h + 100
    BY <2>10, SMT
  <2>12. h = b
    <3>1. CASE b = 0
      BY <2>2, <2>4, <2>8, <2>11, <3>1, SMT
    <3>2. CASE b = 1
      BY <2>2, <2>4, <2>8, <2>11, <3>2, SMT
    <3>3. CASE b = 2
      BY <2>2, <2>4, <2>8, <2>11, <3>3, SMT
    <3>4. CASE b = 3
      BY <2>2, <2>4, <2>8, <2>11, <3>4, SMT
    <3> QED
      BY <2>4, <3>1, <3>2, <3>3, <3>4, SMT
  <2>13. PICK f \in Nat : f = y \div 4
    BY SMT
  <2>14. PICK r \in 0..3 : y = 4 * f + r
    <3>1. y - 4 * f \in 0..3 /\ y = 4 * f + (y - 4 * f)
      BY <2>13, SMT
    <3> QED
      BY <3>1, SMT
  <2>15. a = f \/ a = f + 1
    BY <2>2, <2>4, <2>8, <2>11, <2>12, <2>14, SMT
  <2>16. y \in 0..399 /\ doe - (365 * y + f - b) \in 0..365
    BY <2>2, <2>4, <2>8, <2>11, <2>12, <2>14, <2>15, SMT
  <2>17. DaysBefore(y) = 365 * y + f - b
    BY <2>10, <2>12, <2>13, SMT DEF DaysBefore
  <2> QED
    BY <2>9, <2>16, <2>17, SMT
<1> QED
  BY <1>1, <1>2, SMT

\* A later day of the era is in no earlier year.
LEMMA YearGrows ==
    ASSUME NEW d \in Nat, NEW e \in Nat, d < e, e <= 146096
    PROVE  YearOf(d) <= YearOf(e)
<1>1. PICK a \in Nat : a = d \div 1460
  BY SMT
<1>2. PICK i \in Nat : i = e \div 1460
  BY SMT
<1>3. d - a <= e - i /\ d - a \in Nat /\ e - i \in Nat
  <2>1. 1460 * a <= d /\ d < 1460 * a + 1460 /\ 1460 * i <= e /\ e < 1460 * i + 1460
    BY <1>1, <1>2, SMT
  <2> QED
    BY <2>1, SMT
<1>4. PICK b \in Nat : b = d \div 36524
  BY SMT
<1>5. PICK j \in Nat : j = e \div 36524
  BY SMT
<1>6. b <= j
  BY <1>4, <1>5, SMT
<1>7. d \div 146096 = 0
  BY SMT
<1>8. PICK k \in Nat : k = e \div 146096
  BY SMT
<1>9. d - a + b <= e - i + j - k
  <2>1. CASE e = 146096
    <3>1. i = 100 /\ j = 4 /\ k = 1
      BY <1>2, <1>5, <1>8, <2>1, SMT
    <3>2. 1460 * a <= d /\ d < 1460 * a + 1460 /\ 36524 * b <= d /\ d < 36524 * b + 36524
      BY <1>1, <1>4, SMT
    <3> QED
      BY <2>1, <3>1, <3>2, SMT
  <2>2. CASE e # 146096
    <3>1. k = 0
      BY <1>8, <2>2, SMT
    <3> QED
      BY <1>3, <1>6, <3>1, SMT
  <2> QED
    BY <2>1, <2>2, SMT
<1>10. PICK m \in Nat : m = d - a + b
  <2>1. d - a + b \in Nat
    BY <1>3, SMT
  <2> QED
    BY <2>1, SMT
<1>11. PICK n \in Nat : n = e - i + j - k
  <2>1. e - i + j - k \in Nat
    BY <1>9, <1>10, SMT
  <2> QED
    BY <2>1, SMT
<1>12. m \div 365 <= n \div 365
  BY <1>9, <1>10, <1>11, SMT
<1>13. YearOf(d) = m \div 365 /\ YearOf(e) = n \div 365
  BY <1>1, <1>2, <1>4, <1>5, <1>7, <1>8, <1>10, <1>11, SMT DEF YearOf
<1> QED
  BY <1>12, <1>13, SMT
-----------------------------------------------------------------------------
(* From the day of the year, March first, to the month and the day. *)

MonthOf(doy) == LET mp == (5 * doy + 2) \div 153 IN IF mp < 10 THEN mp + 3 ELSE mp - 9
DayOf(doy) == LET mp == (5 * doy + 2) \div 153 IN doy - ((153 * mp + 2) \div 5) + 1
YearOn(y, doy) == IF MonthOf(doy) <= 2 THEN y + 1 ELSE y

\* The order of dates, year before month before day.
Earlier(y, m, d, year, month, day) ==
    y < year \/ (y = year /\ (m < month \/ (m = month /\ d < day)))

\* A month is one of twelve; January and February are the last ones of the year.
LEMMA MonthBounds ==
    ASSUME NEW doy \in Nat, doy <= 365
    PROVE  /\ MonthOf(doy) \in Nat /\ DayOf(doy) \in Int
           /\ MonthOf(doy) <= 12
<1>1. PICK mp \in Nat : mp = (5 * doy + 2) \div 153
  BY SMT
<1>2. mp <= 11
  BY <1>1, SMT
<1>3. PICK s \in Nat : s = (153 * mp + 2) \div 5
  BY SMT
<1>4. MonthOf(doy) = IF mp < 10 THEN mp + 3 ELSE mp - 9
  BY <1>1 DEF MonthOf
<1>5. DayOf(doy) = doy - s + 1
  BY <1>1, <1>3 DEF DayOf
<1> QED
  BY <1>2, <1>4, <1>5, SMT

\* Within a year counted from March, a later day has a later date.
LEMMA DatesGrowInYear ==
    ASSUME NEW y \in Nat, NEW g \in Nat, NEW h \in Nat, g < h, h <= 365
    PROVE  Earlier(YearOn(y, g), MonthOf(g), DayOf(g), YearOn(y, h), MonthOf(h), DayOf(h))
<1>1. PICK p \in Nat : p = (5 * g + 2) \div 153
  BY SMT
<1>2. PICK q \in Nat : q = (5 * h + 2) \div 153
  BY SMT
<1>3. p <= q /\ q <= 11
  BY <1>1, <1>2, SMT
<1>4. PICK s \in Nat : s = (153 * p + 2) \div 5
  BY SMT
<1>5. PICK t \in Nat : t = (153 * q + 2) \div 5
  BY SMT
<1>6. /\ MonthOf(g) = IF p < 10 THEN p + 3 ELSE p - 9
      /\ MonthOf(h) = IF q < 10 THEN q + 3 ELSE q - 9
  BY <1>1, <1>2 DEF MonthOf
<1>7. DayOf(g) = g - s + 1 /\ DayOf(h) = h - t + 1
  BY <1>1, <1>2, <1>4, <1>5 DEF DayOf
<1>8. p = q => s = t
  BY <1>4, <1>5
<1> QED
  BY <1>3, <1>6, <1>7, <1>8, SMT DEF Earlier, YearOn

\* So has a day of a later year.
LEMMA DatesGrowWithYear ==
    ASSUME NEW y \in Nat, NEW z \in Nat, y < z,
           NEW g \in Nat, NEW h \in Nat, g <= 365, h <= 365
    PROVE  Earlier(YearOn(y, g), MonthOf(g), DayOf(g), YearOn(z, h), MonthOf(h), DayOf(h))
<1>1. PICK p \in Nat : p = (5 * g + 2) \div 153
  BY SMT
<1>2. PICK q \in Nat : q = (5 * h + 2) \div 153
  BY SMT
<1>3. p <= 11 /\ q <= 11
  BY <1>1, <1>2, SMT
<1>4. /\ MonthOf(g) = IF p < 10 THEN p + 3 ELSE p - 9
      /\ MonthOf(h) = IF q < 10 THEN q + 3 ELSE q - 9
  BY <1>1, <1>2 DEF MonthOf
<1> QED
  BY <1>3, <1>4, SMT DEF Earlier, YearOn
-----------------------------------------------------------------------------
(* civil_from_days and format_utc. *)

EraOf(days) == (days + 719468) \div 146097
DayOfEra(days) == (days + 719468) - EraOf(days) * 146097
YearFromMarch(days) == YearOf(DayOfEra(days)) + EraOf(days) * 400
DayOfYear(days) == DayOfEra(days) - DaysBefore(YearOf(DayOfEra(days)))

\* What civil_from_days computes, by its parts.
LEMMA CivilParts ==
    ASSUME NEW days \in Nat
    PROVE  CivilFromDays(days) =
               <<YearOn(YearFromMarch(days), DayOfYear(days)), MonthOf(DayOfYear(days)),
                 DayOf(DayOfYear(days))>>
<1>1. PICK doe : doe = DayOfEra(days)
  OBVIOUS
<1>2. PICK yoe : yoe = YearOf(doe)
  OBVIOUS
<1>3. yoe = (doe - (doe \div 1460) + (doe \div 36524) - (doe \div 146096)) \div 365
  BY <1>2, SMT DEF YearOf
<1>4. PICK doy : doy = doe - (365 * yoe + (yoe \div 4) - (yoe \div 100))
  OBVIOUS
<1>5. DayOfYear(days) = doy /\ YearFromMarch(days) = yoe + EraOf(days) * 400
  BY <1>1, <1>2, <1>4, SMT DEF DayOfYear, YearFromMarch, DaysBefore
<1> QED
  BY <1>1, <1>3, <1>4, <1>5, SMT DEF CivilFromDays, DayOfEra, EraOf, YearOn, MonthOf, DayOf

\* The parts are in range, and the era's days are 146097.
LEMMA DayBounds ==
    ASSUME NEW days \in Nat
    PROVE  /\ EraOf(days) \in Nat /\ DayOfEra(days) \in Nat /\ DayOfEra(days) <= 146096
           /\ days + 719468 = 146097 * EraOf(days) + DayOfEra(days)
           /\ YearOf(DayOfEra(days)) \in Nat /\ YearOf(DayOfEra(days)) <= 399
           /\ YearFromMarch(days) \in Nat
           /\ DayOfYear(days) \in Nat /\ DayOfYear(days) <= 365
<1>1. /\ EraOf(days) \in Nat /\ DayOfEra(days) \in Nat /\ DayOfEra(days) <= 146096
      /\ days + 719468 = 146097 * EraOf(days) + DayOfEra(days)
  <2>1. PICK era \in Nat : era = (days + 719468) \div 146097
    BY SMT
  <2>2. 146097 * era <= days + 719468 /\ days + 719468 < 146097 * era + 146097
    BY <2>1, SMT
  <2>3. EraOf(days) = era /\ DayOfEra(days) = (days + 719468) - era * 146097
    BY <2>1, SMT DEF EraOf, DayOfEra
  <2> QED
    BY <2>2, <2>3, SMT
<1>2. /\ YearOf(DayOfEra(days)) \in 0..399
      /\ DayOfYear(days) \in 0..365
  BY <1>1, YearBounds, SMT DEF DayOfYear
<1> QED
  BY <1>1, <1>2, SMT DEF YearFromMarch

\* A later day has a later date.
THEOREM DatesSort ==
    ASSUME NEW a \in Nat, NEW b \in Nat, a < b
    PROVE  Earlier(CivilFromDays(a)[1], CivilFromDays(a)[2], CivilFromDays(a)[3],
                   CivilFromDays(b)[1], CivilFromDays(b)[2], CivilFromDays(b)[3])
<1>1. PICK i \in Nat : i = EraOf(a)
  BY DayBounds, SMT
<1>2. PICK j \in Nat : j = EraOf(b)
  BY DayBounds, SMT
<1>3. PICK d \in Nat : d = DayOfEra(a)
  BY DayBounds, SMT
<1>4. PICK e \in Nat : e = DayOfEra(b)
  BY DayBounds, SMT
<1>5. PICK y \in Nat : y = YearOf(d)
  BY DayBounds, <1>3, SMT
<1>6. PICK z \in Nat : z = YearOf(e)
  BY DayBounds, <1>4, SMT
<1>7. PICK g \in Nat : g = DayOfYear(a) /\ g <= 365
  BY DayBounds, SMT
<1>8. PICK h \in Nat : h = DayOfYear(b) /\ h <= 365
  BY DayBounds, SMT
<1>9. /\ a + 719468 = 146097 * i + d /\ d <= 146096 /\ y <= 399
      /\ b + 719468 = 146097 * j + e /\ e <= 146096 /\ z <= 399
  BY DayBounds, <1>1, <1>2, <1>3, <1>4, <1>5, <1>6, SMT
<1>10. i < j \/ (i = j /\ d < e)
  BY <1>9, SMT
<1>11. g = d - DaysBefore(y) /\ h = e - DaysBefore(z)
  BY <1>3, <1>4, <1>5, <1>6, <1>7, <1>8, SMT DEF DayOfYear
<1>12. YearFromMarch(a) = y + i * 400 /\ YearFromMarch(b) = z + j * 400
  BY <1>1, <1>2, <1>3, <1>4, <1>5, <1>6, SMT DEF YearFromMarch
<1>13. \/ y + i * 400 < z + j * 400
       \/ y + i * 400 = z + j * 400 /\ g < h
  <2>1. CASE i < j
    BY <1>9, <2>1, SMT
  <2>2. CASE i = j /\ d < e
    <3>1. y <= z
      BY YearGrows, <1>5, <1>6, <1>9, <2>2, SMT
    <3>2. y = z => g < h
      <4>1. DaysBefore(y) \in Int
        BY SMT DEF DaysBefore
      <4> QED
        BY <1>11, <2>2, <4>1, SMT
    <3> QED
      BY <2>2, <3>1, <3>2, SMT
  <2> QED
    BY <1>10, <2>1, <2>2, SMT
<1>14. y + i * 400 \in Nat /\ z + j * 400 \in Nat
  BY SMT
<1>15. Earlier(YearOn(y + i * 400, g), MonthOf(g), DayOf(g),
               YearOn(z + j * 400, h), MonthOf(h), DayOf(h))
  BY <1>7, <1>8, <1>13, <1>14, DatesGrowInYear, DatesGrowWithYear, SMT
<1> QED
  BY <1>7, <1>8, <1>12, <1>15, CivilParts, SMT

\* Three fields and four fields are seven.
LEMMA SevenFields ==
    ASSUME NEW s \in Seq(Int), NEW t \in Seq(Int), Len(s) = 3, Len(t) = 4
    PROVE  /\ DOMAIN (s \o t) = 1..7
           /\ \A k \in 1..3 : (s \o t)[k] = s[k]
           /\ \A k \in 1..4 : (s \o t)[k + 3] = t[k]
<1>1. PICK u : u = s \o t
  OBVIOUS
<1>2. u \in Seq(Int) /\ Len(u) = Len(s) + Len(t)
  BY <1>1, ConcatProperties, Zenon
<1>3. Len(u) = 7
  BY <1>2, SMT
<1>4. DOMAIN u = 1..7
  BY <1>2, <1>3, LenProperties
<1>5. \A i \in 1 .. Len(s) + Len(t) : (s \o t)[i] = IF i <= Len(s) THEN s[i] ELSE t[i - Len(s)]
  BY ConcatProperties, Zenon
<1>6. \A i \in 1..7 : u[i] = IF i <= Len(s) THEN s[i] ELSE t[i - Len(s)]
  <2>1. Len(s) + Len(t) = 7
    BY SMT
  <2> QED
    BY <1>1, <1>5, <2>1, Zenon
<1>7. \A i \in 1..7 : u[i] = IF i <= 3 THEN s[i] ELSE t[i - 3]
  BY <1>6
<1>8. \A k \in 1..3 : u[k] = s[k]
  BY <1>7, SMT
<1>9. ASSUME NEW k \in 1..4 PROVE u[k + 3] = t[k]
  <2>1. k + 3 \in 1..7 /\ ~(k + 3 <= 3) /\ (k + 3) - 3 = k
    BY SMT
  <2>2. u[k + 3] = t[(k + 3) - 3]
    BY <1>7, <2>1, Zenon
  <2> QED
    BY <2>1, <2>2
<1> QED
  BY <1>1, <1>4, <1>8, <1>9

\* A name's fields: the date's, and the time's.
LEMMA NameParts ==
    ASSUME NEW moment \in Moments
    PROVE  /\ DOMAIN FormatUtc(moment) = 1..7
           /\ \A k \in 1..3 : FormatUtc(moment)[k] = CivilFromDays(moment[1])[k]
           /\ FormatUtc(moment)[4] = (moment[2] \div 1000) \div 3600
           /\ FormatUtc(moment)[5] = ((moment[2] \div 1000) % 3600) \div 60
           /\ FormatUtc(moment)[6] = (moment[2] \div 1000) % 60
           /\ FormatUtc(moment)[7] = moment[2] % 1000
<1>1. PICK days \in Nat : days = moment[1]
  BY SMT DEF Moments
<1>2. PICK millis \in Nat : millis = moment[2]
  BY SMT DEF Moments
<1>3. PICK second \in Nat : second = millis \div 1000
  BY SMT
<1>4. PICK hour \in Nat, minute \in Nat, sec \in Nat, milli \in Nat :
          /\ hour = second \div 3600 /\ minute = (second % 3600) \div 60
          /\ sec = second % 60 /\ milli = millis % 1000
  BY SMT
<1>5. PICK date : date = CivilFromDays(days)
  OBVIOUS
<1>6. date \in Seq(Int) /\ Len(date) = 3
  <2>1. DayOfYear(days) \in Nat /\ DayOfYear(days) <= 365 /\ YearFromMarch(days) \in Nat
    BY DayBounds
  <2>2. MonthOf(DayOfYear(days)) \in Int /\ DayOf(DayOfYear(days)) \in Int
    BY <2>1, MonthBounds, SMT
  <2>3. YearOn(YearFromMarch(days), DayOfYear(days)) \in Int
    BY <2>1, SMT DEF YearOn
  <2>4. PICK year \in Int, month \in Int, day \in Int : date = <<year, month, day>>
    BY <1>5, <2>2, <2>3, CivilParts
  <2> QED
    BY <2>4, SMT
<1>7. PICK time : time = <<hour, minute, sec, milli>>
  OBVIOUS
<1>8. /\ time \in Seq(Int) /\ Len(time) = 4
      /\ time[1] = hour /\ time[2] = minute /\ time[3] = sec /\ time[4] = milli
  BY <1>7, SMT
<1>9. FormatUtc(moment) = date \o time
  <2>1. FormatUtc(moment) =
            CivilFromDays(moment[1]) \o
                <<(moment[2] \div 1000) \div 3600, ((moment[2] \div 1000) % 3600) \div 60,
                  (moment[2] \div 1000) % 60, moment[2] % 1000>>
    BY SMT DEF FormatUtc
  <2>2. time = <<(moment[2] \div 1000) \div 3600, ((moment[2] \div 1000) % 3600) \div 60,
                 (moment[2] \div 1000) % 60, moment[2] % 1000>>
    BY <1>2, <1>3, <1>4, <1>7, SMT
  <2> QED
    BY <1>1, <1>5, <2>1, <2>2, SMT
<1>10. /\ DOMAIN (date \o time) = 1..7
       /\ \A k \in 1..3 : (date \o time)[k] = date[k]
       /\ \A k \in 1..4 : (date \o time)[k + 3] = time[k]
  BY <1>6, <1>8, SevenFields
<1>11. PICK name : name = FormatUtc(moment)
  OBVIOUS
<1>12. /\ DOMAIN name = 1..7
       /\ \A k \in 1..3 : name[k] = date[k]
       /\ \A k \in 1..4 : name[k + 3] = time[k]
  BY <1>9, <1>10, <1>11
<1>13. name[4] = time[1] /\ name[5] = time[2] /\ name[6] = time[3] /\ name[7] = time[4]
  BY <1>12, SMT
<1> QED
  BY <1>1, <1>2, <1>3, <1>4, <1>5, <1>8, <1>11, <1>12, <1>13

\* One field decides the order of two names of seven fields when the ones before it are the same, and
\* only one can.
LEMMA FieldDecides ==
    ASSUME NEW a, NEW b, DOMAIN a = 1..7, DOMAIN b = 1..7, NEW k \in 1..7,
           \A i \in 1..7 : a[i] \in Int /\ b[i] \in Int,
           a[k] < b[k], \A i \in 1..(k - 1) : a[i] = b[i]
    PROVE  SortsBefore(a, b) /\ ~SortsBefore(b, a) /\ a # b
<1>1. SortsBefore(a, b)
  BY DEF SortsBefore
<1>2. ASSUME NEW i \in 1..7, b[i] < a[i], \A j \in 1..(i - 1) : b[j] = a[j]
      PROVE  FALSE
  <2>1. a[i] \in Int /\ b[i] \in Int /\ a[k] \in Int /\ b[k] \in Int
    OBVIOUS
  <2>2. CASE i < k
    <3>1. i \in 1..(k - 1)
      BY <2>2
    <3> QED
      BY <1>2, <2>1, <3>1
  <2>3. CASE k < i
    <3>1. k \in 1..(i - 1)
      BY <2>3
    <3> QED
      BY <1>2, <2>1, <3>1
  <2>4. CASE k = i
    BY <1>2, <2>1, <2>4
  <2> QED
    BY <2>2, <2>3, <2>4
<1>3. ~SortsBefore(b, a)
  BY <1>2 DEF SortsBefore
<1>4. a # b
  <2>1. a[k] \in Int /\ a[k] < b[k]
    OBVIOUS
  <2> QED
    BY <2>1
<1> QED
  BY <1>1, <1>3, <1>4

\* Every field is a number.
LEMMA NameIntegers ==
    ASSUME NEW moment \in Moments
    PROVE  \A i \in 1..7 : FormatUtc(moment)[i] \in Int
<1>1. moment[1] \in Nat /\ moment[2] \in Nat
  BY SMT DEF Moments
<1>2. PICK days \in Nat : days = moment[1]
  BY <1>1
<1>3. PICK millis \in Nat : millis = moment[2]
  BY <1>1
<1>4. PICK name : name = FormatUtc(moment)
  OBVIOUS
<1>5. name[1] \in Int /\ name[2] \in Int /\ name[3] \in Int
  <2>1. DayOfYear(days) \in Nat /\ DayOfYear(days) <= 365 /\ YearFromMarch(days) \in Nat
    BY DayBounds
  <2>2. MonthOf(DayOfYear(days)) \in Int /\ DayOf(DayOfYear(days)) \in Int
    BY <2>1, MonthBounds, SMT
  <2>3. YearOn(YearFromMarch(days), DayOfYear(days)) \in Int
    BY <2>1, SMT DEF YearOn
  <2>4. PICK year \in Int, month \in Int, day \in Int : CivilFromDays(days) = <<year, month, day>>
    BY <2>2, <2>3, CivilParts
  <2>5. /\ name[1] = CivilFromDays(days)[1] /\ name[2] = CivilFromDays(days)[2]
        /\ name[3] = CivilFromDays(days)[3]
    BY <1>2, <1>4, NameParts
  <2> QED
    BY <2>4, <2>5
<1>6. /\ (millis \div 1000) \div 3600 \in Int /\ ((millis \div 1000) % 3600) \div 60 \in Int
      /\ (millis \div 1000) % 60 \in Int /\ millis % 1000 \in Int
  <2>1. PICK second \in Nat : second = millis \div 1000
    BY SMT
  <2>2. PICK rest \in Nat : rest = second % 3600
    BY SMT
  <2> QED
    BY <2>1, <2>2, SMT
<1>7. name[4] \in Int /\ name[5] \in Int /\ name[6] \in Int /\ name[7] \in Int
  BY <1>3, <1>4, <1>6, NameParts
<1> QED
  BY <1>4, <1>5, <1>7

\* Within a day, the four fields sort as the milliseconds do.
LEMMA TimesSort ==
    ASSUME NEW x \in Nat, NEW y \in Nat, x < y,
           NEW h, NEW i, NEW m, NEW n, NEW u, NEW v,
           h = (x \div 1000) \div 3600, i = (y \div 1000) \div 3600,
           m = ((x \div 1000) % 3600) \div 60, n = ((y \div 1000) % 3600) \div 60,
           u = (x \div 1000) % 60, v = (y \div 1000) % 60
    PROVE  \/ h < i
           \/ h = i /\ m < n
           \/ h = i /\ m = n /\ u < v
           \/ h = i /\ m = n /\ u = v /\ x % 1000 < y % 1000
<1>1. PICK s \in Nat : s = x \div 1000
  BY SMT
<1>2. PICK t \in Nat : t = y \div 1000
  BY SMT
<1>3. s < t \/ (s = t /\ x % 1000 < y % 1000)
  BY <1>1, <1>2, SMT
<1>4. s < t => \/ s \div 3600 < t \div 3600
               \/ s \div 3600 = t \div 3600 /\ s % 3600 < t % 3600
  BY SMT
<1>5. PICK p \in Nat : p = s % 3600
  BY SMT
<1>6. PICK q \in Nat : q = t % 3600
  BY SMT
<1>7. p < q => \/ p \div 60 < q \div 60
               \/ p \div 60 = q \div 60 /\ p % 60 < q % 60
  BY SMT
<1>8. p % 60 = s % 60 /\ q % 60 = t % 60
  BY <1>5, <1>6, SMT
<1> QED
  BY <1>1, <1>2, <1>3, <1>4, <1>5, <1>6, <1>7, <1>8, SMT

\* instant.rs: names sort as the moments they name.
THEOREM NamesSort ==
    ASSUME NEW a \in Moments, NEW b \in Moments,
           a[1] < b[1] \/ (a[1] = b[1] /\ a[2] < b[2])
    PROVE  /\ SortsBefore(FormatUtc(a), FormatUtc(b))
           /\ ~SortsBefore(FormatUtc(b), FormatUtc(a))
           /\ FormatUtc(a) # FormatUtc(b)
<1>1. PICK s : s = FormatUtc(a)
  OBVIOUS
<1>2. PICK t : t = FormatUtc(b)
  OBVIOUS
<1>3. DOMAIN s = 1..7 /\ DOMAIN t = 1..7
  BY <1>1, <1>2, NameParts
<1>4. /\ s[1] = CivilFromDays(a[1])[1] /\ s[2] = CivilFromDays(a[1])[2]
      /\ s[3] = CivilFromDays(a[1])[3]
      /\ t[1] = CivilFromDays(b[1])[1] /\ t[2] = CivilFromDays(b[1])[2]
      /\ t[3] = CivilFromDays(b[1])[3]
  BY <1>1, <1>2, NameParts
<1>5. \A i \in 1..7 : s[i] \in Int /\ t[i] \in Int
  BY <1>1, <1>2, NameIntegers
<1>6. PICK k \in 1..7 : s[k] < t[k] /\ \A i \in 1..(k - 1) : s[i] = t[i]
  <2>1. CASE a[1] < b[1]
    <3>1. Earlier(s[1], s[2], s[3], t[1], t[2], t[3])
      <4>1. a[1] \in Nat /\ b[1] \in Nat
        BY DEF Moments
      <4> QED
        BY <1>4, <2>1, <4>1, DatesSort
    <3>2. CASE s[1] < t[1]
      BY <3>2
    <3>3. CASE s[1] = t[1] /\ s[2] < t[2]
      BY <3>3
    <3>4. CASE s[1] = t[1] /\ s[2] = t[2] /\ s[3] < t[3]
      BY <3>4
    <3> QED
      BY <3>1, <3>2, <3>3, <3>4 DEF Earlier
  <2>2. CASE a[1] = b[1] /\ a[2] < b[2]
    <3>1. s[1] = t[1] /\ s[2] = t[2] /\ s[3] = t[3]
      BY <1>4, <2>2
    <3>2. \/ s[4] < t[4]
          \/ s[4] = t[4] /\ s[5] < t[5]
          \/ s[4] = t[4] /\ s[5] = t[5] /\ s[6] < t[6]
          \/ s[4] = t[4] /\ s[5] = t[5] /\ s[6] = t[6] /\ s[7] < t[7]
      <4>1. a[2] \in Nat /\ b[2] \in Nat
        BY SMT DEF Moments
      <4>2. PICK x \in Nat : x = a[2]
        BY <4>1
      <4>3. PICK y \in Nat : y = b[2]
        BY <4>1
      <4>4. /\ s[4] = (x \div 1000) \div 3600 /\ t[4] = (y \div 1000) \div 3600
            /\ s[5] = ((x \div 1000) % 3600) \div 60 /\ t[5] = ((y \div 1000) % 3600) \div 60
            /\ s[6] = (x \div 1000) % 60 /\ t[6] = (y \div 1000) % 60
            /\ s[7] = x % 1000 /\ t[7] = y % 1000
        BY <1>1, <1>2, <4>2, <4>3, NameParts
      <4>5. x < y
        BY <2>2, <4>2, <4>3
      <4> QED
        BY <4>4, <4>5, TimesSort
    <3>3. CASE s[4] < t[4]
      BY <3>1, <3>3
    <3>4. CASE s[4] = t[4] /\ s[5] < t[5]
      BY <3>1, <3>4
    <3>5. CASE s[4] = t[4] /\ s[5] = t[5] /\ s[6] < t[6]
      BY <3>1, <3>5
    <3>6. CASE s[4] = t[4] /\ s[5] = t[5] /\ s[6] = t[6] /\ s[7] < t[7]
      BY <3>1, <3>6
    <3> QED
      BY <3>2, <3>3, <3>4, <3>5, <3>6
  <2> QED
    BY <2>1, <2>2
<1> QED
  BY <1>1, <1>2, <1>3, <1>5, <1>6, FieldDecides
-----------------------------------------------------------------------------
(* The dates are the calendar's: the day after a date's day has the next date. *)

\* The days of the era before a year, the leap day of the era's last year counted.
DaysUpTo(y) == DaysBefore(y) + (y \div 400)

\* The months counted from March, and the day of the year each starts on.
MonthSpan(doy, mp, start) ==
    \/ mp = 0 /\ start = 0 /\ doy < 31
    \/ mp = 1 /\ start = 31 /\ doy < 61
    \/ mp = 2 /\ start = 61 /\ doy < 92
    \/ mp = 3 /\ start = 92 /\ doy < 122
    \/ mp = 4 /\ start = 122 /\ doy < 153
    \/ mp = 5 /\ start = 153 /\ doy < 184
    \/ mp = 6 /\ start = 184 /\ doy < 214
    \/ mp = 7 /\ start = 214 /\ doy < 245
    \/ mp = 8 /\ start = 245 /\ doy < 275
    \/ mp = 9 /\ start = 275 /\ doy < 306
    \/ mp = 10 /\ start = 306 /\ doy < 337
    \/ mp = 11 /\ start = 337

\* A day is in one of the twelve months.
LEMMA MonthTable ==
    ASSUME NEW doy \in Nat, doy <= 365
    PROVE  \E mp \in 0..11, s \in Nat :
               /\ MonthOf(doy) = IF mp < 10 THEN mp + 3 ELSE mp - 9
               /\ DayOf(doy) = doy - s + 1
               /\ s <= doy
               /\ MonthSpan(doy, mp, s)
<1>1. PICK mp \in Nat : mp = (5 * doy + 2) \div 153
  BY SMT
<1>2. 153 * mp <= 5 * doy + 2 /\ 5 * doy + 2 < 153 * mp + 153
  BY <1>1, SMT
<1>3. PICK s \in Nat : s = (153 * mp + 2) \div 5
  BY SMT
<1>4. MonthOf(doy) = IF mp < 10 THEN mp + 3 ELSE mp - 9
  BY <1>1 DEF MonthOf
<1>5. DayOf(doy) = doy - s + 1
  BY <1>1, <1>3 DEF DayOf
<1>6. 5 * s <= 153 * mp + 2 /\ 153 * mp + 2 < 5 * s + 5
  BY <1>3, SMT
<1>7. mp <= 11 /\ s <= doy
  BY <1>2, <1>6, SMT
<1>8. MonthSpan(doy, mp, s)
  BY <1>2, <1>6, <1>7, SMT DEF MonthSpan
<1>9. mp \in 0..11
  BY <1>7, SMT
<1> QED
  BY <1>4, <1>5, <1>7, <1>8, <1>9

\* Within a year counted from March the next day has the next date.  The year ends with February, of
\* 29 days where the year January is in is a leap year.
LEMMA NextInYear ==
    ASSUME NEW y \in Nat, NEW doy \in Nat,
           doy + 1 < IF Leap(y + 1) THEN 366 ELSE 365
    PROVE  NextDate(<<YearOn(y, doy), MonthOf(doy), DayOf(doy)>>) =
               <<YearOn(y, doy + 1), MonthOf(doy + 1), DayOf(doy + 1)>>
<1>1. PICK next \in Nat : next = doy + 1
  BY SMT
<1>2. doy <= 365 /\ next <= 365
  BY <1>1, SMT
<1>3. PICK mp \in 0..11, s \in Nat :
               /\ MonthOf(doy) = IF mp < 10 THEN mp + 3 ELSE mp - 9
               /\ DayOf(doy) = doy - s + 1
               /\ s <= doy
               /\ MonthSpan(doy, mp, s)
  BY <1>2, MonthTable
<1>4. PICK np \in 0..11, t \in Nat :
               /\ MonthOf(next) = IF np < 10 THEN np + 3 ELSE np - 9
               /\ DayOf(next) = next - t + 1
               /\ t <= next
               /\ MonthSpan(next, np, t)
  BY <1>2, MonthTable
<1>5. PICK year : year = YearOn(y, doy)
  OBVIOUS
<1>6. PICK month : month = MonthOf(doy)
  OBVIOUS
<1>7. PICK day : day = DayOf(doy)
  OBVIOUS
<1>8. /\ month = IF mp < 10 THEN mp + 3 ELSE mp - 9
      /\ day = doy - s + 1
      /\ year = IF mp < 10 THEN y ELSE y + 1
  BY <1>3, <1>5, <1>6, <1>7, SMT DEF YearOn
<1>9. /\ month \in 1..12 /\ day \in Nat /\ year \in Nat
  BY <1>3, <1>8, SMT
<1>10. YearOn(y, next) = IF np < 10 THEN y ELSE y + 1
  BY <1>4, SMT DEF YearOn
<1>11. MonthDays(year, month) = IF month = 2 THEN IF Leap(y + 1) THEN 29 ELSE 28
                                ELSE IF month \in {4, 6, 9, 11} THEN 30 ELSE 31
  BY <1>8, SMT DEF MonthDays
<1>12. PICK length \in 28..31 : length = MonthDays(year, month)
  BY <1>11, SMT
<1>13. PICK leap \in BOOLEAN : leap = Leap(y + 1)
  BY DEF Leap
<1>14. /\ length = IF month = 2 THEN IF leap THEN 29 ELSE 28
                   ELSE IF month \in {4, 6, 9, 11} THEN 30 ELSE 31
       /\ next < IF leap THEN 366 ELSE 365
  BY <1>1, <1>11, <1>12, <1>13
<1>15. NextDate(<<year, month, day>>) =
           IF day < length THEN <<year, month, day + 1>>
           ELSE IF month < 12 THEN <<year, month + 1, 1>> ELSE <<year + 1, 1, 1>>
  BY <1>12 DEF NextDate
<1>16. CASE day < length
  <2>1. np = mp /\ t = s
    BY <1>1, <1>2, <1>3, <1>4, <1>8, <1>14, <1>16, SMT DEF MonthSpan
  <2>2. /\ YearOn(y, next) = year /\ MonthOf(next) = month /\ DayOf(next) = day + 1
    BY <1>1, <1>3, <1>4, <1>8, <1>10, <2>1, SMT
  <2> QED
    BY <1>1, <1>5, <1>6, <1>7, <1>15, <1>16, <2>2
<1>17. CASE ~(day < length)
  <2>1. np = mp + 1 /\ t = next
    BY <1>1, <1>2, <1>3, <1>4, <1>8, <1>9, <1>14, <1>17, SMT DEF MonthSpan
  <2>2. DayOf(next) = 1
    BY <1>4, <2>1, SMT
  <2>3. CASE month < 12
    <3>1. YearOn(y, next) = year /\ MonthOf(next) = month + 1
      BY <1>3, <1>4, <1>8, <1>10, <2>1, <2>3, SMT
    <3> QED
      BY <1>1, <1>5, <1>6, <1>7, <1>15, <1>17, <2>2, <2>3, <3>1
  <2>4. CASE ~(month < 12)
    <3>1. YearOn(y, next) = year + 1 /\ MonthOf(next) = 1
      BY <1>3, <1>4, <1>8, <1>9, <1>10, <2>1, <2>4, SMT
    <3> QED
      BY <1>1, <1>5, <1>6, <1>7, <1>15, <1>17, <2>2, <2>4, <3>1
  <2> QED
    BY <2>3, <2>4
<1> QED
  BY <1>16, <1>17

\* The day after the last of February is the first of the next year's March.
LEMMA NextOfYear ==
    ASSUME NEW y \in Nat, NEW doy \in Nat,
           doy + 1 = IF Leap(y + 1) THEN 366 ELSE 365
    PROVE  NextDate(<<YearOn(y, doy), MonthOf(doy), DayOf(doy)>>) =
               <<YearOn(y + 1, 0), MonthOf(0), DayOf(0)>>
<1>1. PICK leap \in BOOLEAN : leap = Leap(y + 1)
  BY DEF Leap
<1>2. doy = IF leap THEN 365 ELSE 364
  BY <1>1, SMT
<1>3. MonthOf(doy) = 2 /\ DayOf(doy) = IF leap THEN 29 ELSE 28
  BY <1>2, SMT DEF MonthOf, DayOf
<1>4. MonthOf(0) = 3 /\ DayOf(0) = 1
  BY SMT DEF MonthOf, DayOf
<1>5. YearOn(y, doy) = y + 1 /\ YearOn(y + 1, 0) = y + 1
  BY <1>3, <1>4, SMT DEF YearOn
<1>6. MonthDays(y + 1, 2) = DayOf(doy)
  BY <1>1, <1>3 DEF MonthDays
<1>7. NextDate(<<y + 1, 2, DayOf(doy)>>) = <<y + 1, 3, 1>>
  BY <1>3, <1>6, SMT DEF NextDate
<1> QED
  BY <1>3, <1>4, <1>5, <1>7

\* The first day of a year of the era is in that year.
LEMMA FirstDay ==
    ASSUME NEW y \in 0..399
    PROVE  DaysBefore(y) \in Nat /\ DaysBefore(y) <= 146096 /\ YearOf(DaysBefore(y)) = y
<1>1. PICK f \in Nat, r \in 0..3 : y = 4 * f + r
  <2>1. PICK f \in Nat : f = y \div 4
    BY SMT
  <2>2. y - 4 * f \in 0..3 /\ y = 4 * f + (y - 4 * f)
    BY <2>1, SMT
  <2> QED
    BY <2>2
<1>2. PICK h \in 0..3, q \in 0..24 : f = 25 * h + q
  <2>1. PICK h \in Nat : h = f \div 25
    BY SMT
  <2>2. f - 25 * h \in 0..24 /\ f = 25 * h + (f - 25 * h) /\ h \in 0..3
    BY <1>1, <2>1, SMT
  <2> QED
    BY <2>2
<1>3. y \div 4 = f /\ y \div 100 = h
  BY <1>1, <1>2, SMT
<1>4. PICK doe \in Nat : doe = 365 * y + f - h
  <2>1. 365 * y + f - h \in Nat
    BY <1>2, SMT
  <2> QED
    BY <2>1
<1>5. DaysBefore(y) = doe
  BY <1>3, <1>4, SMT DEF DaysBefore
<1>6. doe < 146096
  BY <1>1, <1>2, <1>4, SMT
<1>7. doe \div 1460 = f
  <2>1. 1460 * f <= doe /\ doe < 1460 * f + 1460
    BY <1>1, <1>2, <1>4, SMT
  <2> QED
    BY <2>1, SMT
<1>8. doe \div 36524 = h
  <2>1. 36524 * h <= doe /\ doe < 36524 * h + 36524
    BY <1>1, <1>2, <1>4, SMT
  <2> QED
    BY <2>1, SMT
<1>9. doe \div 146096 = 0
  BY <1>6, SMT
<1>10. YearOf(doe) = (365 * y) \div 365
  <2>1. doe - f + h - 0 = 365 * y
    BY <1>4, SMT
  <2> QED
    BY <1>7, <1>8, <1>9, <2>1 DEF YearOf
<1> QED
  BY <1>5, <1>6, <1>10, SMT

\* The year of a day of the era is the one whose days it is among.
LEMMA YearExact ==
    ASSUME NEW doe \in Nat, doe <= 146096
    PROVE  doe + 1 <= DaysUpTo(YearOf(doe) + 1)
<1>1. PICK y \in 0..399 : y = YearOf(doe)
  BY YearBounds
<1>2. CASE y = 399
  BY <1>1, <1>2, SMT DEF DaysUpTo, DaysBefore
<1>3. CASE y # 399
  <2>1. PICK z \in Nat : z = y + 1 /\ z <= 399
    BY <1>3, SMT
  <2>2. PICK first \in Nat : first = DaysBefore(z)
    <3>1. DaysBefore(z) \in Nat
      BY SMT DEF DaysBefore
    <3> QED
      BY <3>1
  <2>3. first <= 146096 /\ YearOf(first) = z
    <3>1. z \in 0..399
      BY <2>1, SMT
    <3> QED
      BY <2>2, <3>1, FirstDay, SMT
  <2>4. doe < first
    <3>1. SUFFICES ASSUME first <= doe PROVE FALSE
      BY SMT
    <3>2. first = doe \/ first < doe
      BY <3>1, SMT
    <3>3. z <= y
      BY <1>1, <2>3, <3>2, YearGrows, SMT
    <3> QED
      BY <2>1, <3>3, SMT
  <2>5. DaysUpTo(y + 1) = first
    BY <2>1, <2>2, SMT DEF DaysUpTo
  <2> QED
    BY <1>1, <2>4, <2>5, SMT
<1> QED
  BY <1>2, <1>3

\* A year of the era is as long as the calendar has the one that follows it in number: its February
\* is that one's.
LEMMA YearLength ==
    ASSUME NEW y \in 0..399, NEW era \in Nat
    PROVE  DaysUpTo(y + 1) = DaysBefore(y) + IF Leap(y + era * 400 + 1) THEN 366 ELSE 365
<1>1. PICK z \in 1..400 : z = y + 1
  BY SMT
<1>2. PICK year \in Nat : year = z + 400 * era
  BY SMT
<1>3. year = y + era * 400 + 1
  BY <1>1, <1>2, SMT
<1>4. PICK f \in Nat, r \in 0..3 : y = 4 * f + r
  <2>1. PICK f \in Nat : f = y \div 4
    BY SMT
  <2>2. y - 4 * f \in 0..3 /\ y = 4 * f + (y - 4 * f)
    BY <2>1, SMT
  <2> QED
    BY <2>2
<1>5. PICK h \in 0..3, q \in 0..24 : f = 25 * h + q
  <2>1. PICK h \in Nat : h = f \div 25
    BY SMT
  <2>2. f - 25 * h \in 0..24 /\ f = 25 * h + (f - 25 * h) /\ h \in 0..3
    BY <1>4, <2>1, SMT
  <2> QED
    BY <2>2
<1>6. y \div 4 = f /\ y \div 100 = h
  BY <1>4, <1>5, SMT
<1>7. /\ z \div 4 = IF r = 3 THEN f + 1 ELSE f
      /\ z \div 100 = IF r = 3 /\ q = 24 THEN h + 1 ELSE h
      /\ z \div 400 = IF z = 400 THEN 1 ELSE 0
      /\ z = 400 <=> r = 3 /\ q = 24 /\ h = 3
  BY <1>1, <1>4, <1>5, SMT
<1>8. /\ year % 4 = 0 <=> r = 3
      /\ year % 100 = 0 <=> r = 3 /\ q = 24
      /\ year % 400 = 0 <=> r = 3 /\ q = 24 /\ h = 3
  BY <1>1, <1>2, <1>4, <1>5, SMT
<1>9. Leap(year) <=> r = 3 /\ (q # 24 \/ h = 3)
  BY <1>8 DEF Leap
<1>10. DaysUpTo(z) = DaysBefore(y) + IF r = 3 /\ (q # 24 \/ h = 3) THEN 366 ELSE 365
  BY <1>1, <1>6, <1>7, SMT DEF DaysUpTo, DaysBefore
<1> QED
  BY <1>1, <1>3, <1>9, <1>10

\* The next day is the next day of the year, or the first of the next year where the year is over.
LEMMA NextDayOfYear ==
    ASSUME NEW days \in Nat
    PROVE  IF DayOfYear(days) + 1 < IF Leap(YearFromMarch(days) + 1) THEN 366 ELSE 365
           THEN /\ YearFromMarch(days + 1) = YearFromMarch(days)
                /\ DayOfYear(days + 1) = DayOfYear(days) + 1
           ELSE /\ DayOfYear(days) + 1 = IF Leap(YearFromMarch(days) + 1) THEN 366 ELSE 365
                /\ YearFromMarch(days + 1) = YearFromMarch(days) + 1
                /\ DayOfYear(days + 1) = 0
<1>1. PICK next \in Nat : next = days + 1
  BY SMT
<1>2. PICK era \in Nat : era = EraOf(days)
  BY DayBounds
<1>3. PICK doe \in Nat : doe = DayOfEra(days) /\ doe <= 146096
  BY DayBounds, SMT
<1>4. PICK y \in 0..399 : y = YearOf(doe)
  BY YearBounds, <1>3, SMT
<1>5. PICK leap \in BOOLEAN : leap = Leap(y + era * 400 + 1)
  BY DEF Leap
<1>6. PICK start \in Int : start = DaysBefore(y)
  BY SMT DEF DaysBefore
<1>7. /\ YearFromMarch(days) = y + era * 400
      /\ DayOfYear(days) = doe - start
  BY <1>2, <1>3, <1>4, <1>6 DEF YearFromMarch, DayOfYear
<1>8. DaysUpTo(y + 1) = start + IF leap THEN 366 ELSE 365
  <2>1. DaysUpTo(y + 1) = DaysBefore(y) + IF Leap(y + era * 400 + 1) THEN 366 ELSE 365
    BY YearLength, SMTT(60)
  <2> QED
    BY <1>5, <1>6, <2>1
<1>9. doe + 1 <= start + IF leap THEN 366 ELSE 365
  <2>1. doe + 1 <= DaysUpTo(y + 1)
    BY <1>3, <1>4, YearExact
  <2> QED
    BY <1>8, <2>1
<1>10. start <= doe
  BY <1>3, <1>4, <1>6, YearBounds, SMT
<1>11. days + 719468 = 146097 * era + doe
  BY <1>2, <1>3, DayBounds
<1>12. CASE doe = 146096
  <2>1. EraOf(next) = era + 1 /\ DayOfEra(next) = 0
    <3>1. /\ EraOf(next) \in Nat /\ DayOfEra(next) \in Nat /\ DayOfEra(next) <= 146096
          /\ next + 719468 = 146097 * EraOf(next) + DayOfEra(next)
      BY DayBounds
    <3> QED
      BY <1>1, <1>11, <1>12, <3>1, SMT
  <2>2. YearOf(0) = 0 /\ DaysBefore(0) = 0
    BY SMT DEF YearOf, DaysBefore
  <2>3. y = 399
    BY <1>4, <1>12, SMT DEF YearOf
  <2>4. start = 145731
    BY <1>6, <2>3, SMT DEF DaysBefore
  <2>5. YearFromMarch(next) = (era + 1) * 400 /\ DayOfYear(next) = 0
    BY <2>1, <2>2, SMT DEF YearFromMarch, DayOfYear
  <2>6. leap /\ doe - start + 1 = 366
    BY <1>9, <1>12, <2>4, SMT
  <2>7. (era + 1) * 400 = y + era * 400 + 1
    BY <2>3, SMT
  <2> QED
    BY <1>1, <1>5, <1>7, <2>5, <2>6, <2>7
<1>13. CASE doe # 146096
  <2>1. PICK e \in Nat : e = doe + 1 /\ e <= 146096
    BY <1>3, <1>13, SMT
  <2>2. EraOf(next) = era /\ DayOfEra(next) = e
    <3>1. /\ EraOf(next) \in Nat /\ DayOfEra(next) \in Nat /\ DayOfEra(next) <= 146096
          /\ next + 719468 = 146097 * EraOf(next) + DayOfEra(next)
      BY DayBounds
    <3> QED
      BY <1>1, <1>11, <2>1, <3>1, SMT
  <2>3. PICK z \in 0..399 : z = YearOf(e)
    BY <2>1, YearBounds
  <2>4. YearFromMarch(next) = z + era * 400 /\ DayOfYear(next) = e - DaysBefore(z)
    BY <2>2, <2>3 DEF YearFromMarch, DayOfYear
  <2>5. y <= z
    BY <1>3, <1>4, <2>1, <2>3, YearGrows, SMT
  <2>6. CASE doe + 1 < start + IF leap THEN 366 ELSE 365
    <3>1. z = y
      <4>1. SUFFICES ASSUME z # y PROVE FALSE
        OBVIOUS
      <4>2. DaysBefore(z) <= e
        <5>1. DaysBefore(z) \in Int
          BY SMT DEF DaysBefore
        <5> QED
          <6>1. e - DaysBefore(YearOf(e)) \in 0..365
            BY <2>1, YearBounds, SMT
          <6> QED
            BY <2>3, <5>1, <6>1, SMT
      <4>3. DaysUpTo(y + 1) <= DaysBefore(z)
        <5>1. y + 1 <= z /\ y + 1 <= 399
          BY <2>5, <4>1, SMT
        <5> QED
          BY <5>1, SMT DEF DaysUpTo, DaysBefore
      <4>4. DaysBefore(z) \in Int
        BY SMT DEF DaysBefore
      <4> QED
        BY <1>8, <2>1, <2>6, <4>2, <4>3, <4>4, SMT
    <3>2. DayOfYear(next) = doe - start + 1
      BY <1>6, <2>1, <2>4, <3>1, SMT
    <3>3. doe - start + 1 < IF leap THEN 366 ELSE 365
      BY <2>6, SMT
    <3> QED
      BY <1>1, <1>5, <1>7, <2>4, <3>1, <3>2, <3>3
  <2>7. CASE ~(doe + 1 < start + IF leap THEN 366 ELSE 365)
    <3>1. doe + 1 = start + IF leap THEN 366 ELSE 365
      BY <1>9, <2>7, SMT
    <3>2. e = DaysUpTo(y + 1)
      BY <1>8, <2>1, <3>1, SMT
    <3>3. y + 1 <= 399 /\ e = DaysBefore(y + 1)
      <4>1. y # 399
        BY <1>13, <2>1, <3>2, SMT DEF DaysUpTo, DaysBefore
      <4> QED
        <5>1. PICK x \in 1..399 : x = y + 1
          BY <4>1, SMT
        <5>2. x \div 400 = 0 /\ DaysBefore(x) \in Int
          BY SMT DEF DaysBefore
        <5>3. DaysUpTo(x) = DaysBefore(x)
          BY <5>2, SMT DEF DaysUpTo
        <5> QED
          BY <3>2, <5>1, <5>3, SMT
    <3>4. z = y + 1
      BY <2>1, <2>3, <3>3, FirstDay
    <3>5. DayOfYear(next) = 0
      BY <2>1, <2>4, <3>3, <3>4, SMT
    <3>6. z + era * 400 = (y + era * 400) + 1
      BY <3>4, SMT
    <3>7. doe - start + 1 = IF leap THEN 366 ELSE 365
      BY <3>1, SMT
    <3> QED
      BY <1>1, <1>5, <1>7, <2>4, <3>5, <3>6, <3>7, SMT
  <2> QED
    BY <2>6, <2>7
<1> QED
  BY <1>12, <1>13

\* civil_from_days: day 0 is 1970-01-01, and the day after any day has the calendar's next date.
THEOREM DatesAreRight ==
    /\ CivilFromDays(0) = <<1970, 1, 1>>
    /\ \A days \in Nat : CivilFromDays(days + 1) = NextDate(CivilFromDays(days))
<1>1. CivilFromDays(0) = <<1970, 1, 1>>
  BY SMT DEF CivilFromDays
<1>2. ASSUME NEW days \in Nat
      PROVE  CivilFromDays(days + 1) = NextDate(CivilFromDays(days))
  <2>1. days + 1 \in Nat
    BY SMT
  <2>2. PICK y \in Nat : y = YearFromMarch(days)
    BY DayBounds
  <2>3. PICK doy \in Nat : doy = DayOfYear(days)
    BY DayBounds
  <2>4. CivilFromDays(days) = <<YearOn(y, doy), MonthOf(doy), DayOf(doy)>>
    BY <2>2, <2>3, CivilParts
  <2>5. CivilFromDays(days + 1) =
            <<YearOn(YearFromMarch(days + 1), DayOfYear(days + 1)), MonthOf(DayOfYear(days + 1)),
              DayOf(DayOfYear(days + 1))>>
    BY <2>1, CivilParts
  <2>6. CASE doy + 1 < IF Leap(y + 1) THEN 366 ELSE 365
    <3>1. YearFromMarch(days + 1) = y /\ DayOfYear(days + 1) = doy + 1
      BY <2>2, <2>3, <2>6, NextDayOfYear
    <3> QED
      BY <2>4, <2>5, <2>6, <3>1, NextInYear
  <2>7. CASE ~(doy + 1 < IF Leap(y + 1) THEN 366 ELSE 365)
    <3>1. /\ YearFromMarch(days + 1) = y + 1 /\ DayOfYear(days + 1) = 0
          /\ doy + 1 = IF Leap(y + 1) THEN 366 ELSE 365
      BY <2>2, <2>3, <2>7, NextDayOfYear
    <3> QED
      BY <2>4, <2>5, <3>1, NextOfYear
  <2> QED
    BY <2>6, <2>7
<1> QED
  BY <1>1, <1>2
=============================================================================
