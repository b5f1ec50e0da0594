------------------------------ MODULE MCHandle ------------------------------
(* Values for the constants of HandleHistory in TLC's runs.                *)
EXTENDS HandleHistory, TLC

CONSTANTS t1, t2, e1, e2, e3

Of(e, g) == [ev |-> e, gran |-> g, id |-> 1]

(* One event of either granularity, the others only ever put to.           *)
SomePuts == {Of(e1, "day"), Of(e1, "hour"), Of(e2, "day"), Of(e3, "day")}
CustomEvent == {Of(e1, "hour")}

TwoThreads == Permutations({t1, t2})

(* In a behaviour either all calls run, on two of the events, or only puts *)
(* and flushes that race to register the three events.                     *)
VARIABLE racing

RacingInit == HInit /\ racing \in BOOLEAN

RacingNext ==
  /\ HNext /\ UNCHANGED racing
  /\ racing => live' /\ ~closed'
  /\ \A t \in Threads :
       IF racing
       THEN loc'[t].op \in {"put", "flush"} /\ loc'[t].put # Of(e1, "hour")
       ELSE loc'[t].put # Of(e3, "day") /\ loc'[t].ev # e3

MCSpec == RacingInit /\ [][RacingNext]_<<hvars, racing>>
=============================================================================
