----------------------------- MODULE MCEntities -----------------------------
(* Values for the constants of EntitiesHistory in TLC's runs.              *)
EXTENDS EntitiesHistory, TLC

CONSTANTS
  a, b,  \* two threads that share the store
  c, d   \* threads that have it to themselves

NamesAndKeysAlike == Permutations(Names) \cup Permutations(Keys)

OneEventEach == [k \in Keys |-> k]
Roles ==
  [t \in Threads |-> IF t = a THEN {"put", "erase"}
                     ELSE IF t = b THEN {"put", "flush", "contains"}
                     ELSE IF t = c THEN {"put", "erase", "get", "flush"}
                     ELSE Ops]

(* In a behaviour one team runs: a and b race on one key, c uses two, or d *)
(* makes every call on one.                                                *)
VARIABLES team, usable

TeamInit ==
  /\ HInit /\ team \in SUBSET Threads
  /\ \/ team = {c} /\ usable = Keys
     \/ team \in {{a, b}, {d}} /\ \E k \in Keys : usable = {k}

TeamNext ==
  /\ HNext /\ UNCHANGED <<team, usable>>
  /\ \A t \in Threads \ team : pc'[t] = "idle"
  /\ \A t \in Threads : loc'[t].keys \subseteq usable

TeamSpec == TeamInit /\ [][TeamNext]_<<hvars, team, usable>>
=============================================================================
