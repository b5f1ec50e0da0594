------------------------------ MODULE Calendar ------------------------------
(***************************************************************************)
(* Periods (period.rs): validity, parents, the moment a period closes;     *)
(* and the loop by which range calls enumerate the periods between two     *)
(* bounds (lib.rs).                                                        *)
(* Times are in hours since 1970: every boundary is a whole hour.          *)
(***************************************************************************)
EXTENDS Integers

CONSTANTS
  Requests,  \* range calls: read or write, finest granularity, bounds
  MaxRange   \* MAX_RANGE_PERIODS

U16 == 65536

(* A period; the components that its granularity does not have are 0.      *)
Static        == [g |-> "Static", y |-> 0, m |-> 0, d |-> 0, h |-> 0]
Hour(y, m, d, h) == [g |-> "Hour", y |-> y, m |-> m, d |-> d, h |-> h]
Day(y, m, d)  == [g |-> "Day", y |-> y, m |-> m, d |-> d, h |-> 0]
Month(y, m)   == [g |-> "Month", y |-> y, m |-> m, d |-> 0, h |-> 0]
Year(y)       == [g |-> "Year", y |-> y, m |-> 0, d |-> 0, h |-> 0]

NoPeriod == [g |-> "None", y |-> 0, m |-> 0, d |-> 0, h |-> 0]

Granularities == {"Static", "Hour", "Day", "Month", "Year"}

Components ==
  [g : Granularities, y : 0 .. U16 - 1, m : 0 .. 255, d : 0 .. 255, h : 0 .. 255]

IsPeriod(p) ==
  /\ p \in Components
  /\ p.g \notin {"Hour"} => p.h = 0
  /\ p.g \notin {"Hour", "Day"} => p.d = 0
  /\ p.g \notin {"Hour", "Day", "Month"} => p.m = 0
  /\ p.g = "Static" => p.y = 0

IsRequest(r) ==
  /\ r \in [call : {"read", "write"}, finest : Granularities,
            first : Components, last : Components]
  /\ IsPeriod(r.first) /\ IsPeriod(r.last)

ASSUME CalendarAssumption == (\A r \in Requests : IsRequest(r)) /\ MaxRange \in Nat

-----------------------------------------------------------------------------
(* The calendar.                                                           *)

IsLeap(y) == y % 4 = 0 /\ (y % 100 # 0 \/ y % 400 = 0)

DaysInMonth(y, m) ==
  IF m \in {1, 3, 5, 7, 8, 10, 12} THEN 31
  ELSE IF m = 2 THEN (IF IsLeap(y) THEN 29 ELSE 28)
  ELSE 30

Validate(p) ==
  /\ p.g \in {"Month", "Day", "Hour"} => p.m \in 1 .. 12
  /\ p.g \in {"Day", "Hour"} => p.d \in 1 .. DaysInMonth(p.y, p.m)
  /\ p.g = "Hour" => p.h <= 23

Parent(p) ==
  CASE p.g = "Hour"  -> Day(p.y, p.m, p.d)
    [] p.g = "Day"   -> Month(p.y, p.m)
    [] p.g = "Month" -> Year(p.y)
    [] OTHER -> NoPeriod

Ancestors(p) ==
  {Parent(p), Parent(Parent(p)), Parent(Parent(Parent(p)))} \ {NoPeriod}

(* Days since 1970-01-01, in years that begin in March.                    *)
DaysFromCivil(y, m, d) ==
  LET a   == IF m <= 2 THEN y - 1 ELSE y
      yoe == a % 400
      doy == (153 * (IF m > 2 THEN m - 3 ELSE m + 9) + 2) \div 5 + d - 1
  IN (a \div 400) * 146097 + yoe * 365 + yoe \div 4 - yoe \div 100 + doy - 719468

HoursFromCivil(y, m, d, h) == DaysFromCivil(y, m, d) * 24 + h

(* normalize: carry hour 24 into the day and a day after the month's last  *)
(* into the month; no caller exceeds them by more.                         *)
Normalized(y, m, d, h) ==
  LET d1 == d + h \div 24
      h1 == h % 24
      dim == DaysInMonth(y, m)
  IN IF d1 <= dim THEN HoursFromCivil(y, m, d1, h1)
     ELSE IF m < 12 THEN HoursFromCivil(y, m + 1, d1 - dim, h1)
     ELSE HoursFromCivil(y + 1, 1, d1 - dim, h1)

(* A slip: the year closes as its last day begins.                         *)
EndsYearEarly(p) ==
  IF p.g = "Hour" THEN Normalized(p.y, p.m, p.d, p.h + 1)
  ELSE IF p.g = "Day" THEN Normalized(p.y, p.m, p.d + 1, 0)
  ELSE IF p.g = "Month" /\ p.m < 12 THEN Normalized(p.y, p.m + 1, 1, 0)
  ELSE IF p.g = "Month" THEN Normalized(p.y + 1, 1, 1, 0)
  ELSE Normalized(p.y, 12, 31, 0)

(* The first hour after a period other than Static, which never ends.      *)
Ends(p) ==
  IF p.g = "Hour" THEN Normalized(p.y, p.m, p.d, p.h + 1)
  ELSE IF p.g = "Day" THEN Normalized(p.y, p.m, p.d + 1, 0)
  ELSE IF p.g = "Month" /\ p.m < 12 THEN Normalized(p.y, p.m + 1, 1, 0)
  ELSE Normalized(p.y + 1, 1, 1, 0)

(* Boundaries before 1970 are saturated to 0.                              *)
CloseBoundary(p) == IF Ends(p) < 0 THEN 0 ELSE Ends(p)

IsClosed(p, now) == p.g # "Static" /\ now >= CloseBoundary(p)

-----------------------------------------------------------------------------
(* Enumeration of a range.                                                 *)

Precedes(p, q) ==
  \/ p.y < q.y
  \/ p.y = q.y /\ p.m < q.m
  \/ p.y = q.y /\ p.m = q.m /\ p.d < q.d
  \/ p.y = q.y /\ p.m = q.m /\ p.d = q.d /\ p.h < q.h

(* Years are 16 bits wide.                                                 *)
YearAfter(y) == (y + 1) % U16

(* A slip: the last day of a year is followed by the first of that year.   *)
DayAfterSameYear(y, m, d) ==
  IF d < DaysInMonth(y, m) THEN Day(y, m, d + 1)
  ELSE IF m < 12 THEN Day(y, m + 1, 1)
  ELSE Day(y, 1, 1)

DayAfter(y, m, d) ==
  IF d < DaysInMonth(y, m) THEN Day(y, m, d + 1)
  ELSE IF m < 12 THEN Day(y, m + 1, 1)
  ELSE Day(YearAfter(y), 1, 1)

NextPeriod(p) ==
  LET tomorrow == DayAfter(p.y, p.m, p.d) IN
  IF p.g = "Hour" /\ p.h < 23 THEN Hour(p.y, p.m, p.d, p.h + 1)
  ELSE IF p.g = "Hour" THEN Hour(tomorrow.y, tomorrow.m, tomorrow.d, 0)
  ELSE IF p.g = "Day" THEN tomorrow
  ELSE IF p.g = "Month" /\ p.m < 12 THEN Month(p.y, p.m + 1)
  ELSE IF p.g = "Month" THEN Month(YearAfter(p.y), 1)
  ELSE Year(YearAfter(p.y))

-----------------------------------------------------------------------------
(* One range call, the loop of enumerate_periods taken step by step.       *)

VARIABLES
  req,      \* the call and its arguments
  stage,    \* "checking", "walking", "counted", then "ok" or "error"
  current,  \* the loop's current period
  count     \* periods enumerated so far, up to one more than MaxRange

vars == <<req, stage, current, count>>

Init ==
  /\ req \in Requests
  /\ stage = "checking"
  /\ current = NoPeriod
  /\ count = 0

Reversed == Precedes(req.last, req.first)

(* What get_range and checked_write_range demand of their bounds.          *)
BoundsAccepted ==
  /\ Validate(req.first) /\ Validate(req.last)
  /\ req.call = "write" =>
       /\ req.first.g # "Static" /\ req.last.g # "Static"
       /\ req.first.g = req.finest /\ req.last.g = req.finest
       /\ ~Reversed

Refuse ==
  /\ stage = "checking"
  /\ ~BoundsAccepted
  /\ stage' = "error"
  /\ UNCHANGED <<req, current, count>>

(* Bounds of two granularities or in the wrong order: nothing in between.  *)
EnumerateNothing ==
  /\ stage = "checking"
  /\ BoundsAccepted
  /\ req.first.g # req.last.g \/ Reversed
  /\ stage' = "counted"
  /\ UNCHANGED <<req, current, count>>

EnumerateStatic ==
  /\ stage = "checking"
  /\ BoundsAccepted
  /\ req.first.g = "Static" /\ req.last.g = "Static"
  /\ stage' = "counted"
  /\ current' = Static
  /\ count' = 1
  /\ UNCHANGED req

Enumerate ==
  /\ stage = "checking"
  /\ BoundsAccepted
  /\ req.first.g = req.last.g /\ req.first.g # "Static"
  /\ ~Reversed
  /\ stage' = "walking"
  /\ current' = req.first
  /\ UNCHANGED <<req, count>>

CountOneMore == IF count > MaxRange THEN count ELSE count + 1

Walk ==
  /\ stage = "walking"
  /\ ~Precedes(req.last, current)
  /\ current # req.last
  /\ count' = CountOneMore
  /\ current' = NextPeriod(current)
  /\ UNCHANGED <<req, stage>>

(* The loop ends at the last period; stepping over it would end it too.    *)
LeaveLoop ==
  /\ stage = "walking"
  /\ current = req.last \/ Precedes(req.last, current)
  /\ count' = IF current = req.last THEN CountOneMore ELSE count
  /\ stage' = "counted"
  /\ UNCHANGED <<req, current>>

(* A slip: the limit itself is refused.                                    *)
CheckLimitStrictly ==
  /\ stage = "counted"
  /\ stage' = IF count >= MaxRange THEN "error" ELSE "ok"
  /\ UNCHANGED <<req, current, count>>

(* The number of periods is compared with the limit once they are there.   *)
CheckLimit ==
  /\ stage = "counted"
  /\ stage' = IF count > MaxRange THEN "error" ELSE "ok"
  /\ UNCHANGED <<req, current, count>>

Done == stage \in {"ok", "error"} /\ UNCHANGED vars

Next ==
  \/ Refuse \/ EnumerateNothing \/ EnumerateStatic \/ Enumerate
  \/ Walk \/ LeaveLoop
  \/ CheckLimit
  \/ Done

Spec == Init /\ [][Next]_vars

(* The loop runs on its caller's thread.                                   *)
FairSpec == Spec /\ WF_vars(Next)

-----------------------------------------------------------------------------
(* Properties.                                                             *)

(* The first hour of a period.                                             *)
Begins(p) ==
  HoursFromCivil(p.y, IF p.m = 0 THEN 1 ELSE p.m, IF p.d = 0 THEN 1 ELSE p.d, p.h)

(* The walk of enumerate_periods leaves no gap and no overlap in time: the *)
(* next period begins when the current one closes (next_period against     *)
(* close_boundary_unix, across month ends, leap days and year ends).       *)
WalkTilesTime == [][Walk => Begins(current') = Ends(current)]_vars

(* The periods from first to last, by the clock for hours and days.        *)
Span(first, last) ==
  CASE first.g = "Hour"  -> Ends(last) - Ends(first) + 1
    [] first.g = "Day"   -> (Ends(last) - Ends(first)) \div 24 + 1
    [] first.g = "Month" -> 12 * (last.y - first.y) + (last.m - first.m) + 1
    [] first.g = "Year"  -> last.y - first.y + 1
    [] OTHER -> 1

(* A range call with bounds in order succeeds iff its range is within the  *)
(* limit, and then has enumerated the whole of it: no period is skipped,   *)
(* counted twice or left out at either end (get_range and                  *)
(* checked_write_range).                                                   *)
RangeIsWhole ==
  /\ BoundsAccepted /\ req.first.g = req.last.g /\ ~Reversed
  /\ stage \in {"ok", "error"}
  => LET span == Span(req.first, req.last) IN
     /\ count = IF span <= MaxRange THEN span ELSE MaxRange + 1
     /\ stage = "ok" <=> span <= MaxRange

(* Every period closes before or with its ancestors, so a closed ancestor  *)
(* never covers an open period (is_closed, which decides whether a write   *)
(* reverts a compacted period), whenever the period is.                    *)
AncestorsCloseLast ==
  stage = "walking" =>
    \A a \in Ancestors(current) :
      /\ Begins(a) <= Begins(current)
      /\ IsClosed(current, CloseBoundary(a))

(* Every call ends, whatever its bounds: "get_range with reversed or       *)
(* invalid bounds no longer loops unboundedly" (CHANGELOG).                *)
CallEnds == <>(stage \in {"ok", "error"})
=============================================================================
