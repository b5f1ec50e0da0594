----------------------------- MODULE MCPeriods -----------------------------
(* Values for the constants of PeriodsHistory in TLC's runs.               *)
EXTENDS PeriodsHistory

CONSTANTS
  h1, h2, day,  \* two hours and the day they belong to
  w, m,         \* a writer beside a thread that maintains
  p, r          \* a thread that puts and compacts, beside a reader

Sorted == <<h1, h2, day>>
OneDay == [k \in Keys |-> IF k \in {h1, h2} THEN {day} ELSE {}]
FirstHour == {h1}
LaterHour == {h2}

PutBothRemoveOne ==
  {[op |-> "put", keys |-> <<h1, h2>>], [op |-> "remove", keys |-> <<h1>>]}

(* Two periods, and one period twice.                                      *)
Entries ==
  {<<[key |-> h1, bits |-> {}], [key |-> day, bits |-> {1}]>>,
   <<[key |-> h2, bits |-> {1}], [key |-> h2, bits |-> {}]>>}

SomeReads ==
  {[op |-> "get_range", keys |-> <<h1, h2>>], [op |-> "and", keys |-> <<h1, h2>>],
   [op |-> "diff", keys |-> <<h2, day>>], [op |-> "cardinality", keys |-> <<h1>>]}

Roles ==
  [t \in Threads |->
     IF t = w THEN {"put", "remove"}
     ELSE IF t = m THEN {"flush", "compact", "replace", "retain"}
     ELSE IF t = p THEN {"put", "remove", "flush", "compact"}
     ELSE Reads]

(* In a behaviour either the writer and the maintainer run or the others.  *)
VARIABLE team

TeamInit == HInit /\ team \in {{w, m}, {p, r}}

TeamNext ==
  /\ HNext /\ UNCHANGED team
  /\ \A t \in Threads \ team : pc'[t] = "idle"

TeamSpec == TeamInit /\ [][TeamNext]_<<hvars, team>>
=============================================================================
