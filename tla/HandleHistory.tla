---------------------------- MODULE HandleHistory ----------------------------
(***************************************************************************)
(* Handle with history variables, and what a handle promises its callers.  *)
(***************************************************************************)
EXTENDS Handle

VARIABLES
  promised,  \* entries of puts that returned while the handle was open
  autos,     \* events that ensure_event registered last
  torn       \* events of which a drop or registration overlapped another call

hvars == <<vars, promised, autos, torn>>

(* A put that returns Ok promises its entry, unless it overtook close.     *)
(* Dropping the event takes the promise back, and so does a flush that     *)
(* fails at the event limit, whose caller gets the error.                  *)
Promise(t) ==
  promised' =
    CASE pc[t] = "lock" /\ ~closed             -> promised \cup {loc[t].put}
      [] pc[t] = "count" /\ pc'[t] = "idle"    -> promised \ loc[t].snap
      [] pc[t] \in {"drop_lock", "drop_txn"}   -> Without(promised, loc[t].ev)
      [] OTHER                                 -> promised

Automatic(t) ==
  autos' =
    CASE pc[t] = "auto"     -> autos \cup {loc[t].ev}
      [] pc[t] = "register" -> autos \ {loc[t].put.ev}
      [] pc[t] = "drop_txn" -> autos \ {loc[t].ev}
      [] OTHER              -> autos

(* The events that the call of t is about.                                 *)
About(t) ==
  IF pc[t] = "idle" THEN {}
  ELSE IF loc[t].op = "drop" THEN {loc[t].ev}
  ELSE IF loc[t].op \in {"put", "register"} THEN {loc[t].put.ev}
  ELSE {x.ev : x \in loc[t].snap}

Tear ==
  torn' = torn \cup
    {e \in Names : \E t, u \in Threads :
       t # u /\ loc[t].op \in {"register", "drop"} /\ e \in About(t) \cap About(u)}

HInit == Init /\ promised = {} /\ autos = {} /\ torn = {}

HNext ==
  /\ \/ \E t \in Threads : Step(t) /\ Promise(t) /\ Automatic(t)
     \/ Crash /\ promised' = promised \cap disk /\ UNCHANGED autos
     \/ OpenHandle /\ UNCHANGED <<promised, autos>>
  /\ Tear

HSpec == HInit /\ [][HNext]_hvars

-----------------------------------------------------------------------------
(* Properties.                                                             *)

(* A put that returned before the handle was closed is in the buffer, in   *)
(* the snapshot of a flush under way or durable; after close and Drop it is*)
(* durable, however the calls interleaved.  (A put that overtakes close is *)
(* not: it may reach the buffer after the last flush.)                     *)
PutsSurvive ==
  /\ promised \subseteq mem \cup disk \cup UNION {loc[t].snap : t \in Threads}
  /\ ~live => promised \subseteq disk

(* ensure_event counts the events in one transaction and registers in      *)
(* another, so each thread but one may register one event too many, and    *)
(* never more.                                                             *)
LimitNearlyKept ==
  Limit > 0 => Cardinality(autos) <= Limit + Cardinality(Threads) - 1

(* Entries have the finest granularity of their event, in the buffer, on   *)
(* their way and on disk: validate_granularity looks at the event long     *)
(* before a flush registers or finds it again.  But for events that were   *)
(* dropped or registered while another call was about them.                *)
GranularitiesMatch ==
  \A x \in mem \cup disk \cup UNION {loc[t].snap : t \in Threads} :
    x.ev \notin torn => events[x.ev] = x.gran
=============================================================================
