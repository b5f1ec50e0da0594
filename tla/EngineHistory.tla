---------------------------- MODULE EngineHistory ----------------------------
(***************************************************************************)
(* Engine with history variables, for what a caller may expect of the      *)
(* answers: truth is the content that the calls so far amount to, seen     *)
(* what a running get may return.                                          *)
(***************************************************************************)
EXTENDS Engine

VARIABLES
  truth,  \* truth[k]: puts, removes, replaces and deletes applied in order
  seen    \* seen[t]: must and may hold the bits that were in truth[k] all
          \* through, or at some time during, the get t runs; calm is FALSE
          \* once a flush was under way meanwhile

history == <<truth, seen>>
hvars == <<vars, history>>

(* Data is between the buffer and the index: drained, not yet in ridx.     *)
FlushUnderWay ==
  \E t \in Threads : loc[t].op = "flush"
      /\ pc[t] \in {"ensure", "txn", "write",
                    "rb_list", "rb_key", "rb_data", "rb_deltas", "rb_store"}

Reading(t) == pc[t] \in {"get_cache", "get_txn", "get_files"}

Nothing == [must |-> {}, may |-> {}, calm |-> TRUE]

(* The history variables follow a step after which the content is new.     *)
Observe(new) ==
  /\ truth' = new
  /\ seen' = [t \in Threads |->
       IF Reading(t)'
       THEN LET k == loc'[t].key
                old == IF Reading(t) THEN seen[t]
                       ELSE [must |-> truth[k], may |-> truth[k], calm |-> TRUE]
            IN [must |-> old.must \cap new[k], may |-> old.may \cup new[k],
                calm |-> old.calm /\ ~FlushUnderWay /\ ~FlushUnderWay']
       ELSE IF pc'[t] = "got" THEN seen[t] ELSE Nothing]

Plus(k, b) == AddBits(truth, Cover(k), b)
Minus(k, b) == ClearBits(truth, Cover(k), b)
Becomes(k, b) == [truth EXCEPT ![k] = b]

HInit ==
  /\ Init
  /\ truth = [k \in Keys |-> {}]
  /\ seen = [t \in Threads |-> Nothing]

HUpdate(t) ==
  \/ (PutLock(t) \/ PutLockAutoFlush(t)) /\ Observe(Plus(loc[t].key, loc[t].bits))
  \/ RemoveLock(t) /\ Observe(Minus(loc[t].key, loc[t].bits))
  \/ ReplaceLock(t) /\ Observe(Becomes(loc[t].key, loc[t].bits))
  \/ \E k \in Keys : DeletePeriod(t, k) /\ Observe(Becomes(k, {}))
  \/ DropEvent(t) /\ Observe([k \in Keys |-> {}])

(* A crash takes back what had not been committed.                         *)
HNext ==
  \/ \E t \in Threads : HUpdate(t)
  \/ \E t \in Threads : (Internal(t) \/ StartGet(t)) /\ Observe(truth)
  \/ Crash /\ Observe([k \in Keys |-> Disk(k)])
  \/ Recover /\ Observe(truth)

HSpec == HInit /\ [][HNext]_hvars

-----------------------------------------------------------------------------
(* What get would answer now, by its cache hit or by its slow path.        *)
View(k) == Overlay(IF ridx[k] # Absent THEN ridx[k] ELSE Disk(k), mem[k], memDel[k])

(* When no call runs, get answers with what the calls so far amount to:    *)
(* removes hide older bits only, a put after a remove wins, in the buffer, *)
(* across flushes and after compaction, in the period and its ancestors    *)
(* ("part ids encode write order", merge.rs:14 and get).                   *)
QuietContent == Quiet => \A k \in Keys : View(k) = truth[k]

(* A get that no flush overlapped returns every bit that was there all     *)
(* through and none that never was, although it reads the buffer and the   *)
(* index one after the other (get and get_shared).                         *)
CalmReadsCorrect ==
  \A t \in Threads : pc[t] = "got" /\ loc[t].res # Absent /\ seen[t].calm
      => seen[t].must \subseteq loc[t].res /\ loc[t].res \subseteq seen[t].may

(* The same of every get, as the comment in get_shared has it: "stale      *)
(* mempart data merged into an already-up-to-date cache after a concurrent *)
(* flush produces the correct result".                                     *)
ReadsCorrect ==
  \A t \in Threads : pc[t] = "got" /\ loc[t].res # Absent
      => seen[t].must \subseteq loc[t].res /\ loc[t].res \subseteq seen[t].may
=============================================================================
