--------------------------- MODULE CalendarProofs ---------------------------
(* Proofs about Calendar, for all periods and bounds.                      *)
EXTENDS Calendar, TLAPS

(* Division and remainder of a successor, for the cycles of the calendar.  *)
LEMMA Cycle4 ==
  ASSUME NEW r \in Nat
  PROVE  (r + 1) \div 4 = r \div 4 + (IF (r + 1) % 4 = 0 THEN 1 ELSE 0)
PROOF BY SMTT(30)

LEMMA Cycle100 ==
  ASSUME NEW r \in Nat
  PROVE  (r + 1) \div 100 = r \div 100 + (IF (r + 1) % 100 = 0 THEN 1 ELSE 0)
PROOF BY SMTT(30)

LEMMA Era ==
  ASSUME NEW y \in Int
  PROVE  /\ (y + 1) % 400 = 0 => (y + 1) \div 400 = y \div 400 + 1 /\ y % 400 = 399
         /\ (y + 1) % 400 # 0 => /\ (y + 1) \div 400 = y \div 400
                                 /\ (y + 1) % 400 = (y % 400) + 1
         /\ y % 400 \in 0 .. 399
PROOF BY SMTT(30)

LEMMA InEra ==
  ASSUME NEW y \in Int
  PROVE  (y % 400) % 4 = y % 4 /\ (y % 400) % 100 = y % 100
PROOF BY SMTT(30)

(* Days before March 1st of year a, up to a constant.                      *)
DaysToMarch(a) ==
  (a \div 400) * 146097 + (a % 400) * 365 + (a % 400) \div 4 - (a % 400) \div 100

LEMMA YearLength ==
  ASSUME NEW y \in Int
  PROVE  DaysToMarch(y + 1) = DaysToMarch(y) + (IF IsLeap(y + 1) THEN 366 ELSE 365)
<1> DEFINE r == y % 400
           s == (y + 1) % 400
<1>1. r \in 0 .. 399 /\ s \in 0 .. 399 /\ y \div 400 \in Int /\ (y + 1) \div 400 \in Int
  BY Era, SMTT(30)
<1>2. CASE s = 0
  <2>1. (y + 1) \div 400 = y \div 400 + 1 /\ r = 399
    BY <1>2, Era
  <2>2. (y + 1) % 4 = 0
    BY <1>2, InEra, SMTT(30)
  <2>3. IsLeap(y + 1)
    BY <1>2, <2>2 DEF IsLeap
  <2>4. DaysToMarch(y) = (y \div 400) * 146097 + 399 * 365 + 99 - 3
    BY <2>1 DEF DaysToMarch
  <2>5. DaysToMarch(y + 1) = (y \div 400 + 1) * 146097
    BY <2>1, <1>2 DEF DaysToMarch
  <2> QED BY <1>1, <2>3, <2>4, <2>5
<1>3. CASE s # 0
  <2>1. (y + 1) \div 400 = y \div 400 /\ s = r + 1
    BY <1>3, Era
  <2>2. (r + 1) \div 4 = r \div 4 + (IF (r + 1) % 4 = 0 THEN 1 ELSE 0)
    BY <1>1, Cycle4
  <2>3. (r + 1) \div 100 = r \div 100 + (IF (r + 1) % 100 = 0 THEN 1 ELSE 0)
    BY <1>1, Cycle100
  <2>4. s % 4 = (y + 1) % 4 /\ s % 100 = (y + 1) % 100
    BY InEra
  <2>5. (r + 1) % 100 = 0 => (r + 1) % 4 = 0
    BY <1>1, SMTT(30)
  <2>6. IsLeap(y + 1) <=> (r + 1) % 4 = 0 /\ (r + 1) % 100 # 0
    BY <1>3, <2>1, <2>4 DEF IsLeap
  <2>7. r \div 4 \in Int /\ r \div 100 \in Int
    BY <1>1
  <2> HIDE DEF r, s
  <2>8. DaysToMarch(y) = (y \div 400) * 146097 + r * 365 + r \div 4 - r \div 100
    BY DEF DaysToMarch, r
  <2>9. DaysToMarch(y + 1) = (y \div 400) * 146097 + (r + 1) * 365 + (r + 1) \div 4 - (r + 1) \div 100
    BY <2>1 DEF DaysToMarch, s
  <2> QED BY <1>1, <2>2, <2>3, <2>5, <2>6, <2>7, <2>8, <2>9
<1> QED BY <1>2, <1>3

-----------------------------------------------------------------------------
(* The day after each kind of day.                                         *)

LEMMA NextDay ==
  ASSUME NEW y \in Int, NEW m \in 1 .. 12, NEW d \in Int
  PROVE  DaysFromCivil(y, m, d + 1) = DaysFromCivil(y, m, d) + 1
PROOF BY SMTT(30) DEF DaysFromCivil

LEMMA NextMonth ==
  ASSUME NEW y \in Int, NEW m \in 1 .. 11
  PROVE  DaysFromCivil(y, m + 1, 1) = DaysFromCivil(y, m, DaysInMonth(y, m)) + 1
<1>1. CASE m = 2
  <2>1. DaysToMarch(y) = DaysToMarch(y - 1) + (IF IsLeap(y) THEN 366 ELSE 365)
    BY YearLength, y - 1 \in Int, (y - 1) + 1 = y
  <2>2. DaysToMarch(y - 1) \in Int
    BY SMTT(30) DEF DaysToMarch
  <2>3. DaysFromCivil(y, 3, 1) = DaysToMarch(y) - 719468
    BY SMTT(30) DEF DaysFromCivil, DaysToMarch
  <2>4. \A d \in Int : DaysFromCivil(y, 2, d) = DaysToMarch(y - 1) + 337 + d - 1 - 719468
    BY SMTT(30) DEF DaysFromCivil, DaysToMarch
  <2>5. CASE IsLeap(y)
    <3>1. DaysInMonth(y, 2) = 29
      BY <2>5 DEF DaysInMonth
    <3> QED BY <1>1, <2>1, <2>2, <2>3, <2>4, <2>5, <3>1
  <2>6. CASE ~IsLeap(y)
    <3>1. DaysInMonth(y, 2) = 28
      BY <2>6 DEF DaysInMonth
    <3> QED BY <1>1, <2>1, <2>2, <2>3, <2>4, <2>6, <3>1
  <2> QED BY <2>5, <2>6
<1>2. CASE m # 2
  BY <1>2, SMTT(60) DEF DaysFromCivil, DaysInMonth
<1> QED BY <1>1, <1>2

LEMMA NextYear ==
  ASSUME NEW y \in Int
  PROVE  DaysFromCivil(y + 1, 1, 1) = DaysFromCivil(y, 12, DaysInMonth(y, 12)) + 1
PROOF BY SMTT(30) DEF DaysFromCivil, DaysInMonth

-----------------------------------------------------------------------------
(* What normalize does to the arguments that Ends gives it.                *)

LEMMA DaysInMonthRange ==
  ASSUME NEW y \in Int, NEW m \in 1 .. 12
  PROVE  DaysInMonth(y, m) \in 28 .. 31
PROOF BY DEF DaysInMonth

LEMMA NothingToCarry ==
  ASSUME NEW y \in Int, NEW m \in 1 .. 12, NEW d \in 1 .. DaysInMonth(y, m), NEW h \in 0 .. 23
  PROVE  Normalized(y, m, d, h) = HoursFromCivil(y, m, d, h)
<1>1. h \div 24 = 0 /\ h % 24 = h
  BY SMTT(30)
<1>2. d + 0 = d /\ d <= DaysInMonth(y, m)
  BY DaysInMonthRange
<1> QED BY <1>1, <1>2 DEF Normalized

LEMMA CarryHours ==
  ASSUME NEW y \in Int, NEW m \in 1 .. 12, NEW d \in Int
  PROVE  Normalized(y, m, d, 24) = Normalized(y, m, d + 1, 0)
<1>1. 24 \div 24 = 1 /\ 24 % 24 = 0 /\ 0 \div 24 = 0 /\ 0 % 24 = 0
  BY SMTT(30)
<1>2. d + 1 + 0 = d + 1
  OBVIOUS
<1> QED BY <1>1, <1>2 DEF Normalized

(* The day that follows d, with d the month's last day or not.             *)
LEMMA CarryDays ==
  ASSUME NEW y \in Int, NEW m \in 1 .. 12, NEW d \in 1 .. DaysInMonth(y, m)
  PROVE  /\ d < DaysInMonth(y, m) =>
              Normalized(y, m, d + 1, 0) = HoursFromCivil(y, m, d + 1, 0)
         /\ d = DaysInMonth(y, m) /\ m < 12 =>
              Normalized(y, m, d + 1, 0) = HoursFromCivil(y, m + 1, 1, 0)
         /\ d = DaysInMonth(y, m) /\ m = 12 =>
              Normalized(y, m, d + 1, 0) = HoursFromCivil(y + 1, 1, 1, 0)
<1>1. 0 \div 24 = 0 /\ 0 % 24 = 0
  BY SMTT(30)
<1>2. DaysInMonth(y, m) \in 28 .. 31
  BY DaysInMonthRange
<1>3. CASE d < DaysInMonth(y, m)
  BY <1>1, <1>2, <1>3 DEF Normalized
<1>4. CASE d = DaysInMonth(y, m)
  <2>1. d + 1 + 0 > DaysInMonth(y, m) /\ d + 1 + 0 - DaysInMonth(y, m) = 1
    BY <1>2, <1>4
  <2> QED BY <1>1, <1>2, <1>4, <2>1 DEF Normalized
<1> QED BY <1>2, <1>3, <1>4

-----------------------------------------------------------------------------
(* Periods as they are built and as they are read.                         *)

(* All that the proofs need to know of the width of a year.                *)
LEMMA U16Int == U16 \in Nat /\ U16 > 1
PROOF BY SMT DEF U16

LEMMA YearIsPeriod ==
  ASSUME NEW y \in 0 .. U16 - 1
  PROVE  IsPeriod(Year(y)) /\ Validate(Year(y)) /\ Year(y).g = "Year"
<1>1. Year(y) \in Components
  BY U16Int DEF Year, Components, Granularities
<1> QED BY <1>1 DEF IsPeriod, Validate, Year

LEMMA MonthIsPeriod ==
  ASSUME NEW y \in 0 .. U16 - 1, NEW m \in 1 .. 12
  PROVE  IsPeriod(Month(y, m)) /\ Validate(Month(y, m)) /\ Month(y, m).g = "Month"
<1>1. Month(y, m) \in Components
  BY U16Int DEF Month, Components, Granularities
<1> QED BY <1>1 DEF IsPeriod, Validate, Month

LEMMA DayIsPeriod ==
  ASSUME NEW y \in 0 .. U16 - 1, NEW m \in 1 .. 12, NEW d \in 1 .. DaysInMonth(y, m)
  PROVE  IsPeriod(Day(y, m, d)) /\ Validate(Day(y, m, d)) /\ Day(y, m, d).g = "Day"
<1>1. DaysInMonth(y, m) \in 28 .. 31
  BY DaysInMonthRange, U16Int
<1>2. Day(y, m, d) \in Components
  BY <1>1, U16Int DEF Day, Components, Granularities
<1> QED BY <1>2 DEF IsPeriod, Validate, Day

LEMMA HourIsPeriod ==
  ASSUME NEW y \in 0 .. U16 - 1, NEW m \in 1 .. 12, NEW d \in 1 .. DaysInMonth(y, m),
         NEW h \in 0 .. 23
  PROVE  IsPeriod(Hour(y, m, d, h)) /\ Validate(Hour(y, m, d, h)) /\ Hour(y, m, d, h).g = "Hour"
<1>1. DaysInMonth(y, m) \in 28 .. 31
  BY DaysInMonthRange, U16Int
<1>2. Hour(y, m, d, h) \in Components
  BY <1>1, U16Int DEF Hour, Components, Granularities
<1> QED BY <1>2 DEF IsPeriod, Validate, Hour

(* What a valid period holds.                                              *)
Fields(p) ==
  /\ p = [g |-> p.g, y |-> p.y, m |-> p.m, d |-> p.d, h |-> p.h]
  /\ p.g \in Granularities /\ p.y \in 0 .. U16 - 1
  /\ p.m \in Int /\ p.d \in Int /\ p.h \in Int
  /\ p.g = "Year" => p.m = 0 /\ p.d = 0 /\ p.h = 0
  /\ p.g = "Month" => p.m \in 1 .. 12 /\ p.d = 0 /\ p.h = 0
  /\ p.g = "Day" => p.m \in 1 .. 12 /\ p.d \in 1 .. DaysInMonth(p.y, p.m) /\ p.h = 0
  /\ p.g = "Hour" => /\ p.m \in 1 .. 12 /\ p.d \in 1 .. DaysInMonth(p.y, p.m)
                     /\ p.h \in 0 .. 23

LEMMA ValidFields ==
  ASSUME NEW p, IsPeriod(p), Validate(p)
  PROVE  Fields(p)
<1>1. p \in Components
  BY DEF IsPeriod
<1>2. /\ p = [g |-> p.g, y |-> p.y, m |-> p.m, d |-> p.d, h |-> p.h]
      /\ p.g \in Granularities /\ p.y \in 0 .. U16 - 1
      /\ p.m \in 0 .. 255 /\ p.d \in 0 .. 255 /\ p.h \in 0 .. 255
  BY <1>1 DEF Components
<1>3. p.g = "Hour" => p.h \in 0 .. 23
  BY <1>2 DEF Validate
<1> QED BY <1>2, <1>3 DEF IsPeriod, Validate, Fields

-----------------------------------------------------------------------------
(* One step of the walk, by granularity: between two valid periods p and q *)
(* the next period is valid, begins when p ends, and does not pass q.      *)

Follows(p, q) ==
  LET n == NextPeriod(p) IN
  /\ IsPeriod(n) /\ Validate(n) /\ n.g = p.g
  /\ ~Precedes(q, n)
  /\ Begins(n) = Ends(p)

LEMMA YearFollows ==
  ASSUME NEW y \in 0 .. U16 - 1, NEW z \in 0 .. U16 - 1, y < z
  PROVE  Follows(Year(y), Year(z))
<1>1. YearAfter(y) = y + 1
  BY SMTT(30), U16Int DEF YearAfter
<1>2. NextPeriod(Year(y)) = Year(y + 1)
  BY <1>1 DEF NextPeriod, Year
<1>3. y + 1 \in 0 .. U16 - 1 /\ y + 1 \in Int
  BY U16Int
<1>4. DaysInMonth(y + 1, 1) = 31
  BY DEF DaysInMonth
<1>5. Ends(Year(y)) = HoursFromCivil(y + 1, 1, 1, 0)
  BY <1>3, <1>4, NothingToCarry DEF Ends, Year
<1>6. Begins(Year(y + 1)) = HoursFromCivil(y + 1, 1, 1, 0)
  BY DEF Begins, Year
<1>7. ~Precedes(Year(z), Year(y + 1))
  BY U16Int DEF Precedes, Year
<1> QED BY <1>2, <1>3, <1>5, <1>6, <1>7, YearIsPeriod DEF Follows, Year

LEMMA MonthFollows ==
  ASSUME NEW y \in 0 .. U16 - 1, NEW m \in 1 .. 12,
         NEW z \in 0 .. U16 - 1, NEW k \in 1 .. 12,
         y < z \/ (y = z /\ m < k)
  PROVE  Follows(Month(y, m), Month(z, k))
<1>1. y \in Int /\ Month(y, m).g = "Month"
  BY U16Int DEF Month
<1>2. CASE m < 12
  <2>1. NextPeriod(Month(y, m)) = Month(y, m + 1) /\ m + 1 \in 1 .. 12
    BY <1>2 DEF NextPeriod, Month
  <2>2. DaysInMonth(y, m + 1) \in 28 .. 31
    BY <1>1, <2>1, DaysInMonthRange
  <2>3. Ends(Month(y, m)) = HoursFromCivil(y, m + 1, 1, 0)
    <3>1. Ends(Month(y, m)) = Normalized(y, m + 1, 1, 0)
      BY <1>2 DEF Ends, Month
    <3> QED BY <1>1, <2>1, <2>2, <3>1, NothingToCarry, SMTT(30)
  <2>4. Begins(Month(y, m + 1)) = HoursFromCivil(y, m + 1, 1, 0)
    BY <2>1 DEF Begins, Month
  <2>5. ~Precedes(Month(z, k), Month(y, m + 1))
    BY U16Int DEF Precedes, Month
  <2>6. IsPeriod(Month(y, m + 1)) /\ Validate(Month(y, m + 1)) /\ Month(y, m + 1).g = "Month"
    BY <2>1, MonthIsPeriod
  <2> QED BY <1>1, <2>1, <2>3, <2>4, <2>5, <2>6 DEF Follows
<1>3. CASE m = 12
  <2>1. y < z
    BY <1>3, U16Int
  <2>2. YearAfter(y) = y + 1 /\ y + 1 \in 0 .. U16 - 1 /\ y + 1 \in Int
    BY <2>1, SMTT(30), U16Int DEF YearAfter
  <2>3. NextPeriod(Month(y, m)) = Month(y + 1, 1)
    BY <1>3, <2>2 DEF NextPeriod, Month
  <2>4. DaysInMonth(y + 1, 1) = 31
    BY DEF DaysInMonth
  <2>5. Ends(Month(y, m)) = HoursFromCivil(y + 1, 1, 1, 0)
    <3>1. Ends(Month(y, m)) = Normalized(y + 1, 1, 1, 0)
      BY <1>3 DEF Ends, Month
    <3> QED BY <2>2, <2>4, <3>1, NothingToCarry
  <2>6. Begins(Month(y + 1, 1)) = HoursFromCivil(y + 1, 1, 1, 0)
    BY DEF Begins, Month
  <2>7. ~Precedes(Month(z, k), Month(y + 1, 1))
    BY <2>1, U16Int DEF Precedes, Month
  <2>8. IsPeriod(Month(y + 1, 1)) /\ Validate(Month(y + 1, 1)) /\ Month(y + 1, 1).g = "Month"
    BY <2>2, MonthIsPeriod
  <2> QED BY <1>1, <2>3, <2>5, <2>6, <2>7, <2>8 DEF Follows
<1> QED BY <1>2, <1>3

(* The day after (y, m, d), which is not the last of the last year.        *)
IsDayAfter(y, m, d, a, b, c) ==
  /\ c \in 1 .. DaysInMonth(a, b)
  /\ DayAfter(y, m, d) = Day(a, b, c)
  /\ Normalized(y, m, d + 1, 0) = HoursFromCivil(a, b, c, 0)
  /\ \/ a = y /\ b = m /\ c = d + 1
     \/ a = y /\ b = m + 1 /\ c = 1 /\ d = DaysInMonth(y, m)
     \/ a = y + 1 /\ b = 1 /\ c = 1 /\ d = DaysInMonth(y, m) /\ m = 12

LEMMA DayAfterBegins ==
  ASSUME NEW y \in 0 .. U16 - 1, NEW m \in 1 .. 12, NEW d \in 1 .. DaysInMonth(y, m),
         d = DaysInMonth(y, m) /\ m = 12 => y < U16 - 1
  PROVE  \E a \in 0 .. U16 - 1, b \in 1 .. 12, c \in Int : IsDayAfter(y, m, d, a, b, c)
<1>1. DaysInMonth(y, m) \in 28 .. 31 /\ y \in Int /\ d \in Int
  BY DaysInMonthRange, U16Int
<1>2. CASE d < DaysInMonth(y, m)
  <2>1. DayAfter(y, m, d) = Day(y, m, d + 1)
    BY <1>2 DEF DayAfter
  <2>2. Normalized(y, m, d + 1, 0) = HoursFromCivil(y, m, d + 1, 0)
    BY <1>1, <1>2, CarryDays
  <2>3. d + 1 \in 1 .. DaysInMonth(y, m)
    BY <1>1, <1>2
  <2>4. IsDayAfter(y, m, d, y, m, d + 1)
    BY <2>1, <2>2, <2>3 DEF IsDayAfter
  <2> QED BY <1>1, <2>4
<1>3. CASE d = DaysInMonth(y, m) /\ m < 12
  <2>1. DayAfter(y, m, d) = Day(y, m + 1, 1)
    BY <1>1, <1>3 DEF DayAfter
  <2>2. Normalized(y, m, d + 1, 0) = HoursFromCivil(y, m + 1, 1, 0)
    BY <1>1, <1>3, CarryDays
  <2>3. m + 1 \in 1 .. 12 /\ DaysInMonth(y, m + 1) \in 28 .. 31
    BY <1>1, <1>3, DaysInMonthRange
  <2>4. 1 \in 1 .. DaysInMonth(y, m + 1)
    BY <2>3
  <2>5. IsDayAfter(y, m, d, y, m + 1, 1)
    BY <1>3, <2>1, <2>2, <2>4 DEF IsDayAfter
  <2> QED BY <2>3, <2>5
<1>4. CASE d = DaysInMonth(y, m) /\ m = 12
  <2>1. YearAfter(y) = y + 1 /\ y + 1 \in 0 .. U16 - 1
    BY <1>4, SMTT(30), U16Int DEF YearAfter
  <2>2. DayAfter(y, m, d) = Day(y + 1, 1, 1)
    BY <1>1, <1>4, <2>1 DEF DayAfter
  <2>3. Normalized(y, m, d + 1, 0) = HoursFromCivil(y + 1, 1, 1, 0)
    BY <1>1, <1>4, CarryDays
  <2>4. 1 \in 1 .. 12 /\ 1 \in 1 .. DaysInMonth(y + 1, 1)
    BY DEF DaysInMonth
  <2>5. IsDayAfter(y, m, d, y + 1, 1, 1)
    BY <1>4, <2>2, <2>3, <2>4 DEF IsDayAfter
  <2> QED BY <2>1, <2>4, <2>5
<1> QED BY <1>1, <1>2, <1>3, <1>4

LEMMA DayFollows ==
  ASSUME NEW y \in 0 .. U16 - 1, NEW m \in 1 .. 12, NEW d \in 1 .. DaysInMonth(y, m),
         NEW z \in 0 .. U16 - 1, NEW k \in 1 .. 12, NEW e \in 1 .. DaysInMonth(z, k),
         y < z \/ (y = z /\ m < k) \/ (y = z /\ m = k /\ d < e)
  PROVE  Follows(Day(y, m, d), Day(z, k, e))
<1>1. /\ DaysInMonth(y, m) \in 28 .. 31 /\ DaysInMonth(z, k) \in 28 .. 31
      /\ y \in Int /\ d \in Int /\ e \in Int
  BY DaysInMonthRange, U16Int
<1>2. y = z /\ m = k => e <= DaysInMonth(y, m)
  BY <1>1
<1>3. d = DaysInMonth(y, m) /\ m = 12 => y < U16 - 1
  BY <1>1, <1>2, U16Int
<1>4. PICK a \in 0 .. U16 - 1, b \in 1 .. 12, c \in Int :
        IsDayAfter(y, m, d, a, b, c)
  BY <1>3, DayAfterBegins
<1>5. NextPeriod(Day(y, m, d)) = Day(a, b, c)
  BY <1>4 DEF NextPeriod, Day, IsDayAfter
<1>6. DaysInMonth(a, b) \in 28 .. 31 /\ a \in Int /\ c \in Int
  BY DaysInMonthRange, U16Int
<1>7. Begins(Day(a, b, c)) = Ends(Day(y, m, d))
  BY <1>4, <1>6 DEF Begins, Ends, Day, IsDayAfter
<1>8. a < z \/ (a = z /\ b < k) \/ (a = z /\ b = k /\ c <= e)
  BY <1>1, <1>2, <1>4, <1>6, U16Int DEF IsDayAfter
<1>9. ~Precedes(Day(z, k, e), Day(a, b, c))
  BY <1>1, <1>6, <1>8, U16Int DEF Precedes, Day
<1>10. IsPeriod(Day(a, b, c)) /\ Validate(Day(a, b, c)) /\ Day(a, b, c).g = "Day"
  BY <1>4, DayIsPeriod DEF IsDayAfter
<1>11. Day(y, m, d).g = "Day"
  BY DEF Day
<1> QED BY <1>5, <1>7, <1>9, <1>10, <1>11 DEF Follows

LEMMA HourFollows ==
  ASSUME NEW y \in 0 .. U16 - 1, NEW m \in 1 .. 12, NEW d \in 1 .. DaysInMonth(y, m),
         NEW h \in 0 .. 23,
         NEW z \in 0 .. U16 - 1, NEW k \in 1 .. 12, NEW e \in 1 .. DaysInMonth(z, k),
         NEW x \in 0 .. 23,
         \/ y < z \/ (y = z /\ m < k) \/ (y = z /\ m = k /\ d < e)
         \/ (y = z /\ m = k /\ d = e /\ h < x)
  PROVE  Follows(Hour(y, m, d, h), Hour(z, k, e, x))
<1>1. /\ DaysInMonth(y, m) \in 28 .. 31 /\ DaysInMonth(z, k) \in 28 .. 31
      /\ y \in Int /\ z \in Int /\ d \in Int /\ e \in Int
  BY DaysInMonthRange, U16Int
<1>2. CASE h < 23
  <2>1. NextPeriod(Hour(y, m, d, h)) = Hour(y, m, d, h + 1) /\ h + 1 \in 0 .. 23
    BY <1>2 DEF NextPeriod, Hour
  <2>2. Ends(Hour(y, m, d, h)) = HoursFromCivil(y, m, d, h + 1)
    <3>1. Ends(Hour(y, m, d, h)) = Normalized(y, m, d, h + 1)
      BY DEF Ends, Hour
    <3> QED BY <1>1, <2>1, <3>1, NothingToCarry
  <2>3. Begins(Hour(y, m, d, h + 1)) = HoursFromCivil(y, m, d, h + 1)
    BY <1>1 DEF Begins, Hour
  <2>4. ~Precedes(Hour(z, k, e, x), Hour(y, m, d, h + 1))
    BY <1>1, <1>2 DEF Precedes, Hour
  <2>5. /\ IsPeriod(Hour(y, m, d, h + 1)) /\ Validate(Hour(y, m, d, h + 1))
        /\ Hour(y, m, d, h + 1).g = "Hour"
    BY <2>1, HourIsPeriod
  <2>6. Hour(y, m, d, h).g = "Hour"
    BY DEF Hour
  <2> QED BY <2>1, <2>2, <2>3, <2>4, <2>5, <2>6 DEF Follows
<1>3. CASE h = 23
  <2>1. y < z \/ (y = z /\ m < k) \/ (y = z /\ m = k /\ d < e)
    BY <1>1, <1>3
  <2>2. y = z /\ m = k => e <= DaysInMonth(y, m)
    BY <1>1
  <2>3. d = DaysInMonth(y, m) /\ m = 12 => y < U16 - 1
    BY <1>1, <2>1, <2>2, U16Int
  <2>4. PICK a \in 0 .. U16 - 1, b \in 1 .. 12, c \in Int :
          IsDayAfter(y, m, d, a, b, c)
    BY <2>3, DayAfterBegins
  <2>5. NextPeriod(Hour(y, m, d, h)) = Hour(a, b, c, 0)
    BY <1>3, <2>4 DEF NextPeriod, Hour, Day, IsDayAfter
  <2>6. DaysInMonth(a, b) \in 28 .. 31 /\ a \in Int /\ c \in Int
    BY DaysInMonthRange, U16Int
  <2>7. Ends(Hour(y, m, d, h)) = HoursFromCivil(a, b, c, 0)
    <3>1. Ends(Hour(y, m, d, h)) = Normalized(y, m, d, 24)
      BY <1>3 DEF Ends, Hour
    <3> QED BY <1>1, <2>4, <3>1, CarryHours DEF IsDayAfter
  <2>8. Begins(Hour(a, b, c, 0)) = HoursFromCivil(a, b, c, 0)
    BY <2>4, <2>6 DEF Begins, Hour, IsDayAfter
  <2>9. a < z \/ (a = z /\ b < k) \/ (a = z /\ b = k /\ c <= e)
    BY <1>1, <2>1, <2>2, <2>4, <2>6, U16Int DEF IsDayAfter
  <2>10. ~Precedes(Hour(z, k, e, x), Hour(a, b, c, 0))
    BY <1>1, <2>6, <2>9 DEF Precedes, Hour
  <2>11. IsPeriod(Hour(a, b, c, 0)) /\ Validate(Hour(a, b, c, 0)) /\ Hour(a, b, c, 0).g = "Hour"
    BY <2>4, HourIsPeriod, 0 \in 0 .. 23 DEF IsDayAfter
  <2>12. Hour(y, m, d, h).g = "Hour"
    BY DEF Hour
  <2> QED BY <2>5, <2>7, <2>8, <2>10, <2>11, <2>12 DEF Follows
<1> QED BY <1>2, <1>3

(* Between two valid periods of a granularity the walk takes a right step. *)
LEMMA NextInOrder ==
  ASSUME NEW p, NEW q, IsPeriod(p), IsPeriod(q), Validate(p), Validate(q),
         p.g = q.g, p.g # "Static", Precedes(p, q)
  PROVE  Follows(p, q)
<1>1. Fields(p) /\ Fields(q) /\ p.y \in Int /\ q.y \in Int
  BY ValidFields, U16Int DEF Fields
<1>2. CASE p.g = "Year"
  <2>1. p = Year(p.y) /\ q = Year(q.y)
    BY <1>1, <1>2 DEF Fields, Year
  <2>2. p.y < q.y
    BY <1>1, <1>2 DEF Fields, Precedes
  <2> QED BY <1>1, <2>1, <2>2, YearFollows DEF Fields
<1>3. CASE p.g = "Month"
  <2>1. p = Month(p.y, p.m) /\ q = Month(q.y, q.m)
    BY <1>1, <1>3 DEF Fields, Month
  <2>2. p.y < q.y \/ (p.y = q.y /\ p.m < q.m)
    BY <1>1, <1>3 DEF Fields, Precedes
  <2> QED BY <1>1, <1>3, <2>1, <2>2, MonthFollows DEF Fields
<1>4. CASE p.g = "Day"
  <2>1. p = Day(p.y, p.m, p.d) /\ q = Day(q.y, q.m, q.d)
    BY <1>1, <1>4 DEF Fields, Day
  <2>2. p.y < q.y \/ (p.y = q.y /\ p.m < q.m) \/ (p.y = q.y /\ p.m = q.m /\ p.d < q.d)
    BY <1>1, <1>4 DEF Fields, Precedes
  <2> QED BY <1>1, <1>4, <2>1, <2>2, DayFollows DEF Fields
<1>5. CASE p.g = "Hour"
  <2>1. p = Hour(p.y, p.m, p.d, p.h) /\ q = Hour(q.y, q.m, q.d, q.h)
    BY <1>1, <1>5 DEF Fields, Hour
  <2>2. \/ p.y < q.y \/ (p.y = q.y /\ p.m < q.m) \/ (p.y = q.y /\ p.m = q.m /\ p.d < q.d)
        \/ (p.y = q.y /\ p.m = q.m /\ p.d = q.d /\ p.h < q.h)
    BY DEF Precedes
  <2>3. /\ p.y \in 0 .. U16 - 1 /\ p.m \in 1 .. 12 /\ p.d \in 1 .. DaysInMonth(p.y, p.m)
        /\ q.y \in 0 .. U16 - 1 /\ q.m \in 1 .. 12 /\ q.d \in 1 .. DaysInMonth(q.y, q.m)
        /\ p.h \in 0 .. 23 /\ q.h \in 0 .. 23
    BY <1>1, <1>5 DEF Fields
  <2>4. Follows(Hour(p.y, p.m, p.d, p.h), Hour(q.y, q.m, q.d, q.h))
    BY <2>2, <2>3, HourFollows
  <2> QED BY <2>1, <2>4
<1> QED BY <1>1, <1>2, <1>3, <1>4, <1>5 DEF Fields, Granularities

(* Precedes orders the valid periods of a granularity.                     *)
LEMMA PrecedesTotal ==
  ASSUME NEW p, NEW q, IsPeriod(p), IsPeriod(q), Validate(p), Validate(q),
         p.g = q.g, p # q, ~Precedes(q, p)
  PROVE  Precedes(p, q)
<1>1. /\ p = [g |-> p.g, y |-> p.y, m |-> p.m, d |-> p.d, h |-> p.h]
      /\ q = [g |-> q.g, y |-> q.y, m |-> q.m, d |-> q.d, h |-> q.h]
      /\ p.y \in Int /\ p.m \in Int /\ p.d \in Int /\ p.h \in Int
      /\ q.y \in Int /\ q.m \in Int /\ q.d \in Int /\ q.h \in Int
  BY ValidFields, U16Int DEF Fields
<1>2. p.y # q.y \/ p.m # q.m \/ p.d # q.d \/ p.h # q.h
  BY <1>1
<1> QED BY <1>1, <1>2 DEF Precedes

-----------------------------------------------------------------------------
(* The walk.                                                               *)

(* The current period is valid, of the last's granularity, and not past it.*)
Walking ==
  stage = "walking" =>
    /\ IsPeriod(current) /\ Validate(current)
    /\ IsPeriod(req.last) /\ Validate(req.last)
    /\ current.g = req.last.g /\ current.g # "Static"
    /\ ~Precedes(req.last, current)

WalkInv == req \in Requests /\ Walking

LEMMA InitWalkInv == Init => WalkInv
PROOF BY DEF Init, WalkInv, Walking

LEMMA WalkStep ==
  ASSUME WalkInv, Walk
  PROVE  Follows(current, req.last)
<1>1. Precedes(current, req.last)
  BY PrecedesTotal DEF WalkInv, Walking, Walk
<1> QED BY <1>1, NextInOrder DEF WalkInv, Walking, Walk

LEMMA NextWalkInv ==
  ASSUME WalkInv, [Next]_vars
  PROVE  WalkInv'
<1>1. req' = req
  BY DEF Next, vars, Refuse, EnumerateNothing, EnumerateStatic, Enumerate, Walk,
         LeaveLoop, CheckLimit, Done
<1>2. CASE Enumerate
  <2>1. IsPeriod(req.first) /\ IsPeriod(req.last)
    BY CalendarAssumption DEF WalkInv, IsRequest
  <2> QED BY <1>2, <2>1 DEF WalkInv, Walking, Enumerate, BoundsAccepted, Reversed
<1>3. CASE Walk
  BY <1>1, <1>3, WalkStep DEF WalkInv, Walking, Walk, Follows
<1>4. CASE stage' # "walking"
  BY <1>1, <1>4 DEF WalkInv, Walking
<1>5. CASE UNCHANGED vars
  BY <1>5 DEF WalkInv, Walking, vars
<1> QED BY <1>2, <1>3, <1>4, <1>5
        DEF Next, Refuse, EnumerateNothing, EnumerateStatic, LeaveLoop, CheckLimit, Done

LEMMA WalkInvHolds == Spec => []WalkInv
<1>1. Init => WalkInv
  BY InitWalkInv
<1>2. WalkInv /\ [Next]_vars => WalkInv'
  BY NextWalkInv
<1> QED BY <1>1, <1>2, PTL DEF Spec

(* Whatever the bounds, the periods that a range call enumerates leave no  *)
(* gap and no overlap in time (enumerate_periods, next_period and          *)
(* close_boundary_unix agree on leap years and on every month's length).   *)
THEOREM WalkIsGapless == Spec => WalkTilesTime
<1>1. WalkInv /\ [Next]_vars => [Walk => Begins(current') = Ends(current)]_vars
  <2> SUFFICES ASSUME WalkInv, Walk
               PROVE  Begins(current') = Ends(current)
    OBVIOUS
  <2> QED BY WalkStep DEF Walk, Follows
<1> QED BY <1>1, WalkInvHolds, PTL DEF Spec, WalkTilesTime

(* The walk never steps over its last period: enumerate_periods leaves its *)
(* loop because it has met that period, and with the right period in hand. *)
THEOREM WalkStaysWithin == Spec => []Walking
<1>1. WalkInv => Walking
  BY DEF WalkInv
<1> QED BY <1>1, WalkInvHolds, PTL
-----------------------------------------------------------------------------
(* Where a period begins and ends, in days.                                *)

LEMMA DayNumber ==
  ASSUME NEW y \in Int, NEW m \in 1 .. 12, NEW d \in Int
  PROVE  DaysFromCivil(y, m, d) \in Int
BY SMTT(30) DEF DaysFromCivil

LEMMA DayOfMonth ==
  ASSUME NEW y \in Int, NEW m \in 1 .. 12, NEW d \in Int
  PROVE  DaysFromCivil(y, m, d) = DaysFromCivil(y, m, 1) + d - 1
BY SMTT(30) DEF DaysFromCivil

(* The two forms in which these are used.                                  *)
LEMMA FirstDays ==
  ASSUME NEW y \in Int, NEW m \in 1 .. 12
  PROVE  /\ DaysFromCivil(y, m, 1) \in Int
         /\ DaysFromCivil(y, 1, 1) \in Int
         /\ DaysFromCivil(y + 1, 1, 1) \in Int
         /\ m < 12 => DaysFromCivil(y, m + 1, 1) \in Int
<1>1. 1 \in 1 .. 12 /\ 1 \in Int /\ y + 1 \in Int /\ (m < 12 => m + 1 \in 1 .. 12)
  OBVIOUS
<1> QED
  BY <1>1, DayNumber

LEMMA DayInMonth ==
  ASSUME NEW y \in Int, NEW m \in 1 .. 12, NEW d \in 1 .. DaysInMonth(y, m)
  PROVE  /\ d \in Int /\ d >= 1 /\ d <= DaysInMonth(y, m) /\ DaysInMonth(y, m) \in Int
         /\ DaysFromCivil(y, m, d) \in Int
         /\ DaysFromCivil(y, m, d) = DaysFromCivil(y, m, 1) + d - 1
         /\ DaysFromCivil(y, m, DaysInMonth(y, m))
              = DaysFromCivil(y, m, 1) + DaysInMonth(y, m) - 1
<1>1. DaysInMonth(y, m) \in 28 .. 31
  BY DaysInMonthRange
<1>2. d \in Int /\ DaysInMonth(y, m) \in Int
  BY <1>1
<1>3. \A k \in Int : DaysFromCivil(y, m, k) = DaysFromCivil(y, m, 1) + k - 1
  BY DayOfMonth
<1>4. DaysFromCivil(y, m, d) \in Int
  BY <1>2, DayNumber
<1> QED
  BY <1>1, <1>2, <1>3, <1>4

(* The day after a month's last is the next month's first.                 *)
LEMMA MonthEnds ==
  ASSUME NEW y \in Int, NEW m \in 1 .. 12
  PROVE  (IF m < 12 THEN DaysFromCivil(y, m + 1, 1) ELSE DaysFromCivil(y + 1, 1, 1))
           = DaysFromCivil(y, m, DaysInMonth(y, m)) + 1
<1>1. CASE m < 12
  BY <1>1, NextMonth
<1>2. CASE m = 12
  BY <1>2, NextYear
<1> QED
  BY <1>1, <1>2

LEMMA DayEnds ==
  ASSUME NEW y \in Int, NEW m \in 1 .. 12, NEW d \in 1 .. DaysInMonth(y, m)
  PROVE  Normalized(y, m, d + 1, 0) = 24 * (DaysFromCivil(y, m, d) + 1)
<1>1. DaysInMonth(y, m) \in 28 .. 31 /\ d \in Int
  BY DaysInMonthRange
<1>2. DaysFromCivil(y, m, d) \in Int
  BY DayInMonth
<1>3. CASE d < DaysInMonth(y, m)
  <2>1. Normalized(y, m, d + 1, 0) = HoursFromCivil(y, m, d + 1, 0)
    BY <1>3, CarryDays
  <2>2. DaysFromCivil(y, m, d + 1) = DaysFromCivil(y, m, d) + 1
    BY <1>1, NextDay
  <2> QED
    BY <1>2, <2>1, <2>2 DEF HoursFromCivil
<1>4. CASE d = DaysInMonth(y, m) /\ m < 12
  <2>1. Normalized(y, m, d + 1, 0) = HoursFromCivil(y, m + 1, 1, 0)
    BY <1>4, CarryDays
  <2>2. DaysFromCivil(y, m + 1, 1) = DaysFromCivil(y, m, d) + 1
    BY <1>4, MonthEnds
  <2> QED
    BY <1>2, <2>1, <2>2 DEF HoursFromCivil
<1>5. CASE d = DaysInMonth(y, m) /\ m = 12
  <2>1. Normalized(y, m, d + 1, 0) = HoursFromCivil(y + 1, 1, 1, 0)
    BY <1>5, CarryDays
  <2>2. DaysFromCivil(y + 1, 1, 1) = DaysFromCivil(y, m, d) + 1
    BY <1>5, MonthEnds
  <2> QED
    BY <1>2, <2>1, <2>2 DEF HoursFromCivil
<1> QED
  BY <1>1, <1>3, <1>4, <1>5

(* The periods of a granularity, numbered.                                 *)
Index(p) ==
  CASE p.g = "Hour"  -> 24 * DaysFromCivil(p.y, p.m, p.d) + p.h
    [] p.g = "Day"   -> DaysFromCivil(p.y, p.m, p.d)
    [] p.g = "Month" -> 12 * p.y + p.m
    [] OTHER         -> p.y

LEMMA IndexInt ==
  ASSUME NEW p, Fields(p), p.g # "Static"
  PROVE  Index(p) \in Int
<1>1. p.y \in Int /\ p.m \in Int /\ p.d \in Int /\ p.h \in Int
  BY U16Int DEF Fields
<1>2. p.g \in {"Day", "Hour"} => DaysFromCivil(p.y, p.m, p.d) \in Int
  BY <1>1, DayNumber DEF Fields
<1> QED
  BY <1>1, <1>2 DEF Index, Fields, Granularities

LEMMA HourBounds ==
  ASSUME NEW p, Fields(p), p.g = "Hour"
  PROVE  Begins(p) = Index(p) /\ Ends(p) = Index(p) + 1
<1>1. p.y \in Int /\ p.m \in 1 .. 12 /\ p.d \in 1 .. DaysInMonth(p.y, p.m) /\ p.h \in 0 .. 23
  BY U16Int DEF Fields
<1>2. DaysFromCivil(p.y, p.m, p.d) \in Int
  BY <1>1, DayInMonth
<1>3. p.d \in Int /\ p.d >= 1
  BY <1>1, DayInMonth
<1>4. Begins(p) = Index(p)
  BY <1>1, <1>2, <1>3 DEF Begins, Index, HoursFromCivil
<1>5. CASE p.h < 23
  <2>1. Ends(p) = Normalized(p.y, p.m, p.d, p.h + 1) /\ p.h + 1 \in 0 .. 23
    BY <1>1, <1>5 DEF Ends
  <2>2. Ends(p) = HoursFromCivil(p.y, p.m, p.d, p.h + 1)
    BY <1>1, <2>1, NothingToCarry
  <2> QED
    BY <1>1, <1>2, <2>2, <1>4 DEF Index, HoursFromCivil
<1>6. CASE p.h = 23
  <2>1. Ends(p) = Normalized(p.y, p.m, p.d + 1, 0)
    BY <1>1, <1>3, <1>6, CarryHours DEF Ends
  <2> QED
    BY <1>1, <1>2, <1>4, <1>6, <2>1, DayEnds DEF Index
<1> QED
  BY <1>1, <1>4, <1>5, <1>6

LEMMA DayBounds ==
  ASSUME NEW p, Fields(p), p.g = "Day"
  PROVE  Begins(p) = 24 * Index(p) /\ Ends(p) = 24 * (Index(p) + 1)
<1>1. p.y \in Int /\ p.m \in 1 .. 12 /\ p.d \in 1 .. DaysInMonth(p.y, p.m) /\ p.h = 0
  BY U16Int DEF Fields
<1>2. DaysFromCivil(p.y, p.m, p.d) \in Int
  BY <1>1, DayInMonth
<1>3. p.d \in Int /\ p.d >= 1
  BY <1>1, DayInMonth
<1>4. Begins(p) = 24 * Index(p)
  BY <1>1, <1>2, <1>3 DEF Begins, Index, HoursFromCivil
<1>5. Ends(p) = Normalized(p.y, p.m, p.d + 1, 0)
  BY DEF Ends
<1> QED
  BY <1>1, <1>4, <1>5, DayEnds DEF Index

LEMMA MonthBounds ==
  ASSUME NEW p, Fields(p), p.g = "Month"
  PROVE  /\ Begins(p) = 24 * DaysFromCivil(p.y, p.m, 1)
         /\ Ends(p) = 24 * (DaysFromCivil(p.y, p.m, DaysInMonth(p.y, p.m)) + 1)
<1>1. p.y \in Int /\ p.m \in 1 .. 12 /\ p.d = 0 /\ p.h = 0
  BY U16Int DEF Fields
<1>2. /\ DaysFromCivil(p.y, p.m, 1) \in Int
      /\ p.m < 12 => DaysFromCivil(p.y, p.m + 1, 1) \in Int
      /\ DaysFromCivil(p.y + 1, 1, 1) \in Int
  BY <1>1, FirstDays
<1>3. Begins(p) = 24 * DaysFromCivil(p.y, p.m, 1)
  BY <1>1, <1>2 DEF Begins, HoursFromCivil
<1>4. CASE p.m < 12
  <2>1. Ends(p) = Normalized(p.y, p.m + 1, 1, 0) /\ p.m + 1 \in 1 .. 12
    BY <1>1, <1>4 DEF Ends
  <2>2. 1 \in 1 .. DaysInMonth(p.y, p.m + 1)
    BY <1>1, <2>1, DaysInMonthRange
  <2>3. Ends(p) = HoursFromCivil(p.y, p.m + 1, 1, 0)
    BY <1>1, <2>1, <2>2, 0 \in 0 .. 23, NothingToCarry
  <2> QED
    BY <1>1, <1>2, <1>3, <1>4, <2>3, MonthEnds DEF HoursFromCivil
<1>5. CASE p.m = 12
  <2>1. Ends(p) = Normalized(p.y + 1, 1, 1, 0)
    BY <1>5 DEF Ends
  <2>2. 1 \in 1 .. DaysInMonth(p.y + 1, 1)
    BY DEF DaysInMonth
  <2>3. Ends(p) = HoursFromCivil(p.y + 1, 1, 1, 0)
    BY <1>1, <2>1, <2>2, NothingToCarry
  <2> QED
    BY <1>1, <1>2, <1>3, <1>5, <2>3, MonthEnds DEF HoursFromCivil
<1> QED
  BY <1>1, <1>4, <1>5

LEMMA YearBounds ==
  ASSUME NEW p, Fields(p), p.g = "Year"
  PROVE  /\ Begins(p) = 24 * DaysFromCivil(p.y, 1, 1)
         /\ Ends(p) = 24 * DaysFromCivil(p.y + 1, 1, 1)
<1>1. p.y \in Int /\ p.m = 0 /\ p.d = 0 /\ p.h = 0
  BY U16Int DEF Fields
<1>2. DaysFromCivil(p.y, 1, 1) \in Int /\ DaysFromCivil(p.y + 1, 1, 1) \in Int
  BY <1>1, 1 \in 1 .. 12, FirstDays
<1>3. 1 \in 1 .. DaysInMonth(p.y + 1, 1)
  BY DEF DaysInMonth
<1>4. Ends(p) = HoursFromCivil(p.y + 1, 1, 1, 0)
  BY <1>1, <1>3, NothingToCarry DEF Ends
<1> QED
  BY <1>1, <1>2, <1>4 DEF Begins, HoursFromCivil

-----------------------------------------------------------------------------
(* A period lies within its parent.                                        *)

Within(p, a) == Begins(a) <= Begins(p) /\ Ends(p) <= Ends(a)

(* January 1st of a year, and of the next, around each of its months.      *)
LEMMA MonthsOfYear ==
  ASSUME NEW y \in Int, NEW m \in 1 .. 12
  PROVE  /\ DaysFromCivil(y, 1, 1) <= DaysFromCivil(y, m, 1)
         /\ DaysFromCivil(y, m, DaysInMonth(y, m)) + 1 <= DaysFromCivil(y + 1, 1, 1)
<1> DEFINE a == DaysToMarch(y - 1)
           b == DaysToMarch(y)
<1>1. a \in Int /\ b \in Int
  BY SMTT(30) DEF DaysToMarch
<1>2. b >= a + 365
  BY <1>1, YearLength, y - 1 \in Int, (y - 1) + 1 = y
<1>3. \A k \in 1 .. 2 : DaysFromCivil(y, k, 1) = a + 31 * k + 275 - 719468
  BY SMTT(30) DEF DaysFromCivil, DaysToMarch
<1>4. \A k \in 3 .. 12 : /\ DaysFromCivil(y, k, 1) = b + (153 * (k - 3) + 2) \div 5 - 719468
                         /\ (153 * (k - 3) + 2) \div 5 \in 0 .. 275
  BY SMTT(60) DEF DaysFromCivil, DaysToMarch
<1>5. DaysFromCivil(y + 1, 1, 1) = b + 306 - 719468
  BY SMTT(30) DEF DaysFromCivil, DaysToMarch
<1> HIDE DEF a, b
<1>6. DaysFromCivil(y, 1, 1) <= DaysFromCivil(y, m, 1)
  BY <1>1, <1>2, <1>3, <1>4
<1>7. CASE m < 12
  <2>1. DaysFromCivil(y, m + 1, 1) <= DaysFromCivil(y + 1, 1, 1)
    BY <1>1, <1>2, <1>3, <1>4, <1>5, <1>7
  <2> QED
    BY <1>6, <1>7, <2>1, MonthEnds
<1>8. CASE m = 12
  <2>1. DaysFromCivil(y + 1, 1, 1) \in Int
    BY DayNumber
  <2> QED
    BY <1>6, <1>8, <2>1, NextYear
<1> QED
  BY <1>7, <1>8

LEMMA ParentHolds ==
  ASSUME NEW p, Fields(p), p.g \in {"Hour", "Day", "Month"}
  PROVE  /\ Fields(Parent(p)) /\ Within(p, Parent(p))
         /\ p.g = "Hour" => Parent(p).g = "Day"
         /\ p.g = "Day" => Parent(p).g = "Month"
         /\ p.g = "Month" => Parent(p).g = "Year"
<1>1. p.y \in 0 .. U16 - 1 /\ p.y \in Int
  BY U16Int DEF Fields
<1>2. CASE p.g = "Hour"
  <2>1. /\ p.m \in 1 .. 12 /\ p.d \in 1 .. DaysInMonth(p.y, p.m) /\ p.h \in 0 .. 23
        /\ Parent(p) = Day(p.y, p.m, p.d)
    BY <1>2 DEF Fields, Parent
  <2>2. Fields(Parent(p)) /\ Parent(p).g = "Day"
    BY <1>1, <2>1, DayIsPeriod, ValidFields
  <2>3. Index(p) = 24 * Index(Parent(p)) + p.h
    BY <1>2, <2>1 DEF Index, Day
  <2>4. Index(p) \in Int /\ Index(Parent(p)) \in Int
    BY <1>2, <2>2, IndexInt
  <2> QED
    BY <1>2, <2>1, <2>2, <2>3, <2>4, HourBounds, DayBounds DEF Within
<1>3. CASE p.g = "Day"
  <2>1. /\ p.m \in 1 .. 12 /\ p.d \in 1 .. DaysInMonth(p.y, p.m)
        /\ Parent(p) = Month(p.y, p.m)
    BY <1>3 DEF Fields, Parent
  <2>2. Fields(Parent(p)) /\ Parent(p).g = "Month"
    BY <1>1, <2>1, MonthIsPeriod, ValidFields
  <2>3. Parent(p).y = p.y /\ Parent(p).m = p.m
    BY <2>1 DEF Month
  <2>4. /\ Index(p) = DaysFromCivil(p.y, p.m, 1) + p.d - 1
        /\ DaysFromCivil(p.y, p.m, DaysInMonth(p.y, p.m))
             = DaysFromCivil(p.y, p.m, 1) + DaysInMonth(p.y, p.m) - 1
        /\ p.d \in Int /\ p.d >= 1 /\ p.d <= DaysInMonth(p.y, p.m) /\ DaysInMonth(p.y, p.m) \in Int
    BY <1>1, <1>3, <2>1, DayInMonth DEF Index
  <2>5. DaysFromCivil(p.y, p.m, 1) \in Int
    BY <1>1, <2>1, FirstDays
  <2> QED
    BY <1>3, <2>2, <2>3, <2>4, <2>5, DayBounds, MonthBounds DEF Within
<1>4. CASE p.g = "Month"
  <2>1. p.m \in 1 .. 12 /\ Parent(p) = Year(p.y)
    BY <1>4 DEF Fields, Parent
  <2>2. Fields(Parent(p)) /\ Parent(p).g = "Year" /\ Parent(p).y = p.y
    BY <1>1, <2>1, YearIsPeriod, ValidFields DEF Year
  <2>3. DaysInMonth(p.y, p.m) \in Int
    BY <1>1, <2>1, DaysInMonthRange
  <2>4. /\ DaysFromCivil(p.y, 1, 1) \in Int /\ DaysFromCivil(p.y, p.m, 1) \in Int
        /\ DaysFromCivil(p.y, p.m, DaysInMonth(p.y, p.m)) \in Int
        /\ DaysFromCivil(p.y + 1, 1, 1) \in Int
    BY <1>1, <2>1, <2>3, DayNumber, FirstDays
  <2> QED
    BY <1>1, <1>4, <2>1, <2>2, <2>4, MonthBounds, YearBounds, MonthsOfYear DEF Within
<1> QED
  BY <1>2, <1>3, <1>4

LEMMA EndsInt ==
  ASSUME NEW p, Fields(p), p.g # "Static"
  PROVE  Begins(p) \in Int /\ Ends(p) \in Int
<1>1. p.y \in Int /\ p.y + 1 \in Int
  BY U16Int DEF Fields
<1>2. p.g = "Month" => DaysInMonth(p.y, p.m) \in Int
  BY <1>1, DaysInMonthRange DEF Fields
<1>3. /\ p.g = "Month" => /\ DaysFromCivil(p.y, p.m, 1) \in Int
                          /\ DaysFromCivil(p.y, p.m, DaysInMonth(p.y, p.m)) \in Int
      /\ DaysFromCivil(p.y, 1, 1) \in Int /\ DaysFromCivil(p.y + 1, 1, 1) \in Int
  BY <1>1, <1>2, DayNumber DEF Fields
<1>4. Index(p) \in Int
  BY IndexInt
<1> QED
  BY <1>3, <1>4, HourBounds, DayBounds, MonthBounds, YearBounds DEF Fields, Granularities

LEMMA AncestorsHold ==
  ASSUME NEW p, Fields(p), p.g # "Static", NEW a \in Ancestors(p)
  PROVE  Fields(a) /\ a.g # "Static" /\ Within(p, a)
<1> DEFINE b == Parent(p)
           c == Parent(b)
<1>1. p.g \in {"Hour", "Day", "Month", "Year"}
  BY DEF Fields, Granularities
<1>2. \A q : q.g = "Year" \/ q = NoPeriod => Parent(q) = NoPeriod
  BY DEF Parent, NoPeriod
<1>3. CASE p.g = "Year"
  <2>1. b = NoPeriod /\ c = NoPeriod /\ Parent(c) = NoPeriod
    BY <1>2, <1>3
  <2> QED
    BY <2>1 DEF Ancestors
<1>4. CASE p.g = "Month"
  <2>1. Fields(b) /\ Within(p, b) /\ b.g = "Year"
    BY <1>4, ParentHolds
  <2>2. c = NoPeriod /\ Parent(c) = NoPeriod
    BY <1>2, <2>1
  <2> QED
    BY <2>1, <2>2 DEF Ancestors
<1>5. CASE p.g = "Day"
  <2>1. Fields(b) /\ Within(p, b) /\ b.g = "Month"
    BY <1>5, ParentHolds
  <2>2. Fields(c) /\ Within(b, c) /\ c.g = "Year"
    BY <2>1, ParentHolds
  <2>3. Parent(c) = NoPeriod
    BY <1>2, <2>2
  <2>4. Within(p, c)
    BY <1>5, <2>1, <2>2, EndsInt DEF Within
  <2> QED
    BY <2>1, <2>2, <2>3, <2>4 DEF Ancestors
<1>6. CASE p.g = "Hour"
  <2>1. Fields(b) /\ Within(p, b) /\ b.g = "Day"
    BY <1>6, ParentHolds
  <2>2. Fields(c) /\ Within(b, c) /\ c.g = "Month"
    BY <2>1, ParentHolds
  <2>3. Fields(Parent(c)) /\ Within(c, Parent(c)) /\ Parent(c).g = "Year"
    BY <2>2, ParentHolds
  <2>4. Within(p, c)
    BY <1>6, <2>1, <2>2, EndsInt DEF Within
  <2>5. Within(p, Parent(c))
    BY <1>6, <2>2, <2>3, <2>4, EndsInt DEF Within
  <2> QED
    BY <2>1, <2>2, <2>3, <2>4, <2>5 DEF Ancestors
<1> QED
  BY <1>1, <1>3, <1>4, <1>5, <1>6

(* No ancestor of a period that a call enumerates closes before it: a month*)
(* never closes before its last day, nor a year before its last month      *)
(* (close_boundary_unix, is_closed, at every period of 16-bit years).      *)
THEOREM AncestorsStayOpen == Spec => []AncestorsCloseLast
<1>1. WalkInv => AncestorsCloseLast
  <2> SUFFICES ASSUME WalkInv, stage = "walking", NEW a \in Ancestors(current)
               PROVE  Begins(a) <= Begins(current) /\ IsClosed(current, CloseBoundary(a))
    BY DEF AncestorsCloseLast
  <2>1. Fields(current) /\ current.g # "Static"
    BY ValidFields DEF WalkInv, Walking
  <2>2. Fields(a) /\ a.g # "Static" /\ Within(current, a)
    BY <2>1, AncestorsHold
  <2> QED
    BY <2>1, <2>2, EndsInt DEF Within, IsClosed, CloseBoundary
<1> QED
  BY <1>1, WalkInvHolds, PTL

-----------------------------------------------------------------------------
(* What the walk has counted.                                              *)

(* A step of the walk takes the next period of the granularity.            *)
LEMMA IndexStep ==
  ASSUME NEW p, NEW q, IsPeriod(p), IsPeriod(q), Validate(p), Validate(q),
         p.g = q.g, p.g # "Static", Precedes(p, q)
  PROVE  Index(NextPeriod(p)) = Index(p) + 1
<1> DEFINE n == NextPeriod(p)
<1>1. Fields(p) /\ Fields(q) /\ Follows(p, q)
  BY ValidFields, NextInOrder
<1>2. Fields(n) /\ n.g = p.g /\ Begins(n) = Ends(p)
  BY <1>1, ValidFields DEF Follows
<1>3. Index(p) \in Int /\ Index(n) \in Int
  BY <1>1, <1>2, IndexInt
<1>4. p.y \in Int /\ q.y \in Int /\ p.y \in 0 .. U16 - 1 /\ q.y \in 0 .. U16 - 1
  BY <1>1, U16Int DEF Fields
<1> HIDE DEF n
<1>5. CASE p.g = "Hour"
  <2>1. Ends(p) = Index(p) + 1
    BY <1>1, <1>5, HourBounds
  <2>2. Begins(n) = Index(n)
    BY <1>2, <1>5, HourBounds
  <2> QED
    BY <1>2, <2>1, <2>2 DEF n
<1>6. CASE p.g = "Day"
  <2>1. Ends(p) = 24 * (Index(p) + 1)
    BY <1>1, <1>6, DayBounds
  <2>2. Begins(n) = 24 * Index(n)
    BY <1>2, <1>6, DayBounds
  <2>3. 24 * Index(n) = 24 * (Index(p) + 1)
    BY <1>2, <2>1, <2>2
  <2>4. Index(n) = Index(p) + 1
    BY <1>3, <2>3
  <2> QED
    BY <2>4 DEF n
<1>7. CASE p.g = "Month"
  <2>1. p.m \in 1 .. 12 /\ q.m \in 1 .. 12
    BY <1>1, <1>7 DEF Fields
  <2>2. CASE p.m < 12
    <3>1. n = Month(p.y, p.m + 1)
      BY <1>7, <2>2 DEF n, NextPeriod
    <3> QED
      BY <1>4, <1>7, <2>1, <3>1 DEF Index, Month, n
  <2>3. CASE p.m = 12
    <3>1. p.y < q.y
      BY <1>1, <1>4, <1>7, <2>1, <2>3 DEF Fields, Precedes
    <3>2. YearAfter(p.y) = p.y + 1
      BY <1>4, <3>1, U16Int, SMTT(30) DEF YearAfter
    <3>3. n = Month(p.y + 1, 1)
      BY <1>7, <2>3, <3>2 DEF n, NextPeriod
    <3> QED
      BY <1>4, <1>7, <2>3, <3>3 DEF Index, Month, n
  <2> QED
    BY <2>1, <2>2, <2>3
<1>8. CASE p.g = "Year"
  <2>1. p.y < q.y
    BY <1>1, <1>8 DEF Fields, Precedes
  <2>2. YearAfter(p.y) = p.y + 1
    BY <1>4, <2>1, U16Int, SMTT(30) DEF YearAfter
  <2>3. n = Year(p.y + 1)
    BY <1>8, <2>2 DEF n, NextPeriod
  <2> QED
    BY <1>8, <2>3 DEF Index, Year, n
<1> QED
  BY <1>1, <1>5, <1>6, <1>7, <1>8 DEF Fields, Granularities

LEMMA SpanIndex ==
  ASSUME NEW p, NEW q, Fields(p), Fields(q), p.g = q.g, p.g # "Static"
  PROVE  Span(p, q) = Index(q) - Index(p) + 1
<1>1. Index(p) \in Int /\ Index(q) \in Int /\ p.y \in Int /\ q.y \in Int /\ p.m \in Int /\ q.m \in Int
  BY IndexInt, U16Int DEF Fields
<1>2. CASE p.g = "Hour"
  <2>1. Span(p, q) = Ends(q) - Ends(p) + 1
    BY <1>2 DEF Span
  <2>2. Ends(p) = Index(p) + 1
    BY <1>2, HourBounds
  <2>3. Ends(q) = Index(q) + 1
    BY <1>2, HourBounds
  <2> QED
    BY <1>1, <2>1, <2>2, <2>3
<1>3. CASE p.g = "Day"
  <2>1. Span(p, q) = (Ends(q) - Ends(p)) \div 24 + 1
    BY <1>3 DEF Span
  <2>2. Ends(q) - Ends(p) = 24 * (Index(q) - Index(p))
    <3>1. Ends(p) = 24 * (Index(p) + 1)
      BY <1>3, DayBounds
    <3>2. Ends(q) = 24 * (Index(q) + 1)
      BY <1>3, DayBounds
    <3> QED
      BY <1>1, <3>1, <3>2
  <2>3. \A k \in Int : (24 * k) \div 24 = k
    BY SMTT(30)
  <2> QED
    BY <1>1, <2>1, <2>2, <2>3
<1>4. CASE p.g \in {"Month", "Year"}
  BY <1>1, <1>4 DEF Span, Index
<1> QED
  BY <1>2, <1>3, <1>4 DEF Fields, Granularities

(* The loop counts up to one more than the limit.                          *)
Cap(n) == IF n <= MaxRange THEN n ELSE MaxRange + 1

InOrder ==
  BoundsAccepted /\ req.first.g = req.last.g /\ ~Reversed

CountInv ==
  /\ stage \in {"checking", "walking", "counted", "ok", "error"}
  /\ stage = "checking" => count = 0
  /\ stage = "walking" =>
       /\ InOrder
       /\ Index(current) - Index(req.first) \in Nat
       /\ count = Cap(Index(current) - Index(req.first))
  /\ stage = "counted" /\ InOrder => count = Cap(Span(req.first, req.last))
  /\ RangeIsWhole

LEMMA CapNext ==
  ASSUME NEW n \in Nat, count = Cap(n)
  PROVE  CountOneMore = Cap(n + 1)
BY CalendarAssumption DEF CountOneMore, Cap

LEMMA CountInit == Init => CountInv
BY DEF Init, CountInv, RangeIsWhole

LEMMA CountStep ==
  ASSUME WalkInv, CountInv, [Next]_vars
  PROVE  CountInv'
<1>1. IsRequest(req)
  BY CalendarAssumption DEF WalkInv
<1>2. MaxRange \in Nat
  BY CalendarAssumption
<1>3. BoundsAccepted => Fields(req.first) /\ Fields(req.last)
  BY <1>1, ValidFields DEF IsRequest, BoundsAccepted
<1>4. req' = req
  BY DEF Next, vars, Refuse, EnumerateNothing, EnumerateStatic, Enumerate, Walk,
         LeaveLoop, CheckLimit, Done
<1>5. (BoundsAccepted' <=> BoundsAccepted) /\ (InOrder' <=> InOrder)
  BY <1>4 DEF BoundsAccepted, InOrder, Reversed
<1>6. CASE Refuse
  BY <1>4, <1>5, <1>6 DEF Refuse, CountInv, RangeIsWhole
<1>7. CASE EnumerateNothing
  BY <1>4, <1>5, <1>7 DEF EnumerateNothing, CountInv, RangeIsWhole, InOrder
<1>8. CASE EnumerateStatic
  <2>1. Span(req.first, req.last) = 1
    BY <1>8 DEF EnumerateStatic, Span
  <2>2. Cap(1) = 1
    BY <1>2 DEF Cap
  <2> QED
    BY <1>4, <1>5, <1>8, <2>1, <2>2 DEF EnumerateStatic, CountInv, RangeIsWhole
<1>9. CASE Enumerate
  <2>1. Index(req.first) \in Int
    BY <1>3, <1>9, IndexInt DEF Enumerate
  <2>2. Index(current') - Index(req.first) = 0 /\ Cap(0) = 0
    BY <1>2, <1>9, <2>1 DEF Enumerate, Cap
  <2> QED
    BY <1>4, <1>5, <1>9, <2>2 DEF Enumerate, CountInv, RangeIsWhole, InOrder
<1>10. CASE Walk
  <2> DEFINE n == Index(current) - Index(req.first)
  <2>1. n \in Nat /\ count = Cap(n) /\ InOrder /\ stage = "walking"
    BY <1>10 DEF Walk, CountInv
  <2>2. Precedes(current, req.last)
    BY <1>10, PrecedesTotal DEF WalkInv, Walking, Walk
  <2>3. Index(current') = Index(current) + 1
    BY <1>10, <2>2, IndexStep DEF WalkInv, Walking, Walk
  <2>4. Fields(current) /\ current.g # "Static" /\ req.first.g # "Static"
    BY <1>10, <2>1, ValidFields DEF WalkInv, Walking, Walk, InOrder
  <2>5. Index(current) \in Int /\ Index(req.first) \in Int
    BY <1>3, <2>1, <2>4, IndexInt DEF InOrder
  <2>6. Index(current') - Index(req.first) = n + 1
    BY <2>3, <2>5
  <2>7. count' = Cap(n + 1)
    BY <1>10, <2>1, CapNext DEF Walk
  <2> QED
    BY <1>4, <1>5, <1>10, <2>1, <2>6, <2>7 DEF Walk, CountInv, RangeIsWhole
<1>11. CASE LeaveLoop
  <2> DEFINE n == Index(current) - Index(req.first)
  <2>1. n \in Nat /\ count = Cap(n) /\ InOrder /\ stage = "walking"
    BY <1>11 DEF LeaveLoop, CountInv
  <2>2. current = req.last /\ req.first.g # "Static"
    BY <1>11, <2>1 DEF LeaveLoop, WalkInv, Walking, InOrder
  <2>3. Span(req.first, req.last) = n + 1
    BY <1>3, <2>1, <2>2, SpanIndex DEF InOrder
  <2>4. count' = Cap(n + 1)
    BY <1>11, <2>1, <2>2, CapNext DEF LeaveLoop
  <2> QED
    BY <1>4, <1>5, <1>11, <2>1, <2>3, <2>4 DEF LeaveLoop, CountInv, RangeIsWhole
<1>12. CASE CheckLimit
  <2>1. RangeIsWhole'
    <3> SUFFICES ASSUME InOrder
                 PROVE  LET span == Span(req.first, req.last) IN
                        /\ count' = Cap(span)
                        /\ stage' = "ok" <=> span <= MaxRange
      BY <1>4, <1>5, <1>12 DEF RangeIsWhole, InOrder, Cap, CheckLimit
    <3>1. count = Cap(Span(req.first, req.last)) /\ count' = count
      BY <1>12 DEF CheckLimit, CountInv
    <3>2. Span(req.first, req.last) \in Int
      <4>1. CASE req.first.g = "Static"
        BY <4>1 DEF Span
      <4>2. CASE req.first.g # "Static"
        BY <1>3, <4>2, SpanIndex, IndexInt DEF InOrder
      <4> QED
        BY <4>1, <4>2
    <3>3. count > MaxRange <=> Span(req.first, req.last) > MaxRange
      BY <1>2, <3>1, <3>2 DEF Cap
    <3> QED
      BY <1>2, <1>12, <3>1, <3>2, <3>3 DEF CheckLimit
  <2> QED
    BY <1>12, <2>1 DEF CheckLimit, CountInv
<1>13. CASE Done \/ UNCHANGED vars
  <2>1. UNCHANGED <<req, stage, current, count>>
    BY <1>13 DEF Done, vars
  <2> QED
    BY <1>5, <2>1 DEF CountInv, RangeIsWhole, Reversed
<1> QED
  BY <1>6, <1>7, <1>8, <1>9, <1>10, <1>11, <1>12, <1>13 DEF Next

(* A range call with its bounds in order enumerates every period of its    *)
(* range once, by the clock, and succeeds exactly when they are no more    *)
(* than the limit: whatever the granularity, the bounds and the limit      *)
(* (enumerate_periods, get_range, checked_write_range).                    *)
THEOREM RangesAreWhole == Spec => []RangeIsWhole
<1>1. Init => WalkInv /\ CountInv
  BY InitWalkInv, CountInit
<1>2. WalkInv /\ CountInv /\ [Next]_vars => (WalkInv /\ CountInv)'
  BY NextWalkInv, CountStep
<1>3. CountInv => RangeIsWhole
  BY DEF CountInv
<1> QED
  BY <1>1, <1>2, <1>3, PTL DEF Spec

=============================================================================
