-------------------------- MODULE EngineRefinement --------------------------
(***************************************************************************)
(* Engine implements WriteBackStore as long as at most one thread at a time*)
(* runs flush, compact, replace_bitmap, delete_period or drop_event and no *)
(* write fails.                                                            *)
(***************************************************************************)
EXTENDS Engine

(* A thread that has drained or cleared part of the buffer and has not yet *)
(* committed what takes its place.                                         *)
InFlight(t) ==
  \/ loc[t].op = "flush" /\ pc[t] \in {"ensure", "txn", "write"}
  \/ loc[t].op = "replace" /\ pc[t] \in {"data_ids", "delta_ids", "resolve", "txn", "write"}
  \/ pc[t] \in {"delete", "delete_txn", "drop_txn"}

(* The bits thread t is writing for k: still planned or already in a file. *)
Writing(t, k, kind) ==
  (UNION {e.bits : e \in {f \in loc[t].plan : f.key = k /\ f.kind = kind}})
  \cup (UNION {disk[p] : p \in {q \in loc[t].out : q.key = k /\ q.kind = kind}})

(* What the disk will hold for k once the call in flight has committed.    *)
Target(k) ==
  IF \E t \in Threads : InFlight(t)
  THEN LET t == CHOOSE u \in Threads : InFlight(u) IN
       IF loc[t].op = "flush"
       THEN Overlay(Disk(k), Writing(t, k, "data"), Writing(t, k, "delta"))
       ELSE IF loc[t].op = "drop" \/ loc[t].key = k THEN loc[t].bits ELSE Disk(k)
  ELSE Disk(k)

Content(k) == Overlay(Target(k), mem[k], memDel[k])

Store == INSTANCE WriteBackStore WITH
  PutBatches    <- {{k} : k \in Keys},
  RemoveBatches <- {{k} : k \in Keys},
  Overwrites    <- (UNION {[{k} -> SUBSET Ids] : k \in Keys}) \cup {[k \in Keys |-> {}]},
  content <- [k \in Keys |-> Content(k)],
  target  <- [k \in Keys |-> Target(k)],
  durable <- [k \in Keys |-> Disk(k)]

(* Every step of the engine is a step of the write-back store or changes   *)
(* nothing it shows: the content of a period and its ancestors changes only*)
(* in the one step of a put or a remove, that of a period alone in the one *)
(* step of a replacement or deletion, that of all periods in a drop_event; *)
(* draining, collecting, writing and committing parts and compacting change*)
(* nothing; and what is on disk is the content of one past moment, to which*)
(* a crash falls back (flush_internal, flush_snapshot, compact_period,     *)
(* replace_bitmap, delete_period, put_bitmap and remove_bits).  Which bits *)
(* the content must hold is QuietContent in EngineHistory.                 *)
ImplementsStore ==
  Store!Init /\ [][Store!Step \/ (Crash /\ Store!Crash)]_(Store!vars)
=============================================================================
