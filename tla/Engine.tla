------------------------------- MODULE Engine -------------------------------
(***************************************************************************)
(* The storage engine of InoxSet (lib.rs) for one event: the in-memory     *)
(* buffer (MemPart), the LMDB catalog, the part files, the ReadIndex cache,*)
(* and the public calls that several threads run on one shared handle.     *)
(* One action is one critical section of the code: a region under the      *)
(* buffer's RwLock, one LMDB transaction, one load or store of the         *)
(* ReadIndex, one file written or unlinked.                                *)
(*                                                                         *)
(* A bitmap is a set of ids and no call is given an empty one, so a buffer *)
(* entry exists iff its set is not empty.                                  *)
(***************************************************************************)
EXTENDS Naturals, FiniteSets, PartFold

CONSTANTS
  Threads,    \* callers that share the handle
  NoThread,   \* owner of the LMDB write lock when nobody holds it
  Keys,       \* the event's periods, rollup ancestors included
  PutKeys,    \* periods of the finest granularity: put_bitmap rejects others
  Ancestors,  \* Ancestors[k]: ancestors of k that are in the rollup chain
  ClosedKeys, \* periods whose time window has elapsed
  Ids,        \* members of a bitmap
  Absent,     \* no file under this name, or no cache entry for this key
  PartIds,    \* part ids the run can use
  Reserve,    \* part ids kept free for one call, a bound of the model
  MayRun,     \* MayRun[t]: the operations thread t calls
  IoErrors    \* whether a write of a part file or a commit may fail

Kinds == {"data", "delta"}
Ops   == {"put", "remove", "flush", "compact", "replace", "delete", "drop", "get"}

(* A part file is named after its id, kind and period (part_file_path).    *)
Path  == [id : PartIds, kind : Kinds, key : Keys]
Entry == [key : Keys, kind : Kinds, bits : SUBSET Ids]

States == {"None", "Open", "Closed", "Compacted"}

ASSUME EngineAssumption ==
  /\ NoThread \notin Threads
  /\ Keys # {}
  /\ PutKeys \subseteq Keys
  /\ ClosedKeys \subseteq Keys
  /\ Ancestors \in [Keys -> SUBSET Keys]
  /\ \A S \in SUBSET Ids : S # Absent
  /\ PartIds \subseteq Nat
  /\ Reserve \in Nat
  /\ MayRun \in [Threads -> SUBSET Ops]
  /\ IoErrors \in BOOLEAN

VARIABLES
  up,       \* a handle is open; FALSE between a crash and the next open
  mem,      \* MemPart.bitmaps
  memDel,   \* MemPart.deltas
  ridx,     \* ReadIndex.bitmap_cache
  hasEvent, \* catalog: the event is registered
  parts,    \* catalog: registered parts
  pparts,   \* catalog: period_parts
  pdeltas,  \* catalog: period_deltas
  pstate,   \* catalog: period_state
  nextId,   \* catalog: next_part_id
  wtxn,     \* thread that holds LMDB's write transaction
  disk,     \* part files, by name
  pc,       \* where each thread is
  loc       \* each thread's local variables

catalog == <<hasEvent, parts, pparts, pdeltas, pstate, nextId>>
buffer  == <<mem, memDel>>
vars    == <<up, buffer, ridx, catalog, wtxn, disk, pc, loc>>

Locals ==
  [op     : Ops,                          \* the running call
   key    : Keys,                         \* and its arguments
   bits   : SUBSET Ids,
   ids    : SUBSET PartIds,               \* data part ids still to look up
   dids   : SUBSET PartIds,               \* delta part ids still to look up
   olds   : SUBSET Path,                  \* parts the call supersedes
   plan   : SUBSET Entry,                 \* parts still to be written
   out    : SUBSET Path,                  \* parts written in this transaction
   nid    : Nat,                          \* next id of the allocated range
   todo   : SUBSET Keys,                  \* keys the index build has yet to read
   listed : SUBSET Keys,                  \* keys the index build has listed
   found  : SUBSET Path,                  \* parts the index build or get has found
   built  : [Keys -> {Absent} \cup SUBSET Ids],  \* the new bitmap_cache
   gotB   : SUBSET Ids,                   \* get: the buffer's bitmap
   gotD   : SUBSET Ids,                   \* get: the buffer's delta
   res    : {Absent} \cup SUBSET Ids]     \* get: the result, Absent for an error

NoCache == [k \in Keys |-> Absent]

(* Locals of a thread that runs nothing.                                   *)
Blank ==
  [op |-> "get", key |-> CHOOSE k \in Keys : TRUE, bits |-> {}, ids |-> {}, dids |-> {},
   olds |-> {}, plan |-> {}, out |-> {}, nid |-> 0, todo |-> {}, listed |-> {},
   found |-> {}, built |-> NoCache, gotB |-> {}, gotD |-> {}, res |-> Absent]

Labels ==
  {"idle", "ensure", "put_revert", "put_lock", "remove_lock", "flush",
   "replace_lock", "data_ids", "delta_ids", "resolve", "merge",
   "txn", "write", "delete", "delete_txn", "drop_txn", "rb_list", "rb_key", "rb_data", "rb_deltas",
   "rb_store", "unlink", "get_cache", "get_txn", "get_files", "got"}

TypeOK ==
  /\ up \in BOOLEAN
  /\ mem \in [Keys -> SUBSET Ids]
  /\ memDel \in [Keys -> SUBSET Ids]
  /\ ridx \in [Keys -> {Absent} \cup SUBSET Ids]
  /\ hasEvent \in BOOLEAN
  /\ parts \subseteq Path
  /\ pparts \in [Keys -> SUBSET PartIds]
  /\ pdeltas \in [Keys -> SUBSET PartIds]
  /\ pstate \in [Keys -> States]
  /\ nextId \in Nat
  /\ wtxn \in Threads \cup {NoThread}
  /\ disk \in [Path -> {Absent} \cup SUBSET Ids]
  /\ pc \in [Threads -> Labels]
  /\ loc \in [Threads -> Locals]

-----------------------------------------------------------------------------
(* Operators of the actions.                                               *)

(* A write to k also reaches its rollup ancestors.                         *)
Cover(k) == {k} \cup Ancestors[k]

(* Registered parts whose ids are listed for k.                            *)
PartsOf(k) == {p \in parts : p.id \in pparts[k] \cup pdeltas[k]}

(* Keys with an entry in period_parts or period_deltas, if the event is    *)
(* among the registered ones that the index build goes through.            *)
PeriodKeys == {k \in Keys : hasEvent /\ (pparts[k] # {} \/ pdeltas[k] # {})}

(* What the catalog and the part files hold for k.                         *)
Disk(k) == Fold(PartsOf(k), disk)

(* The bitmap_cache of a ReadIndex built from the catalog as it is now.    *)
FreshIndex == [k \in Keys |-> IF k \in PeriodKeys THEN Disk(k) ELSE Absent]

Readable(P) == \A p \in P : disk[p] # Absent

BufferEmpty == \A k \in Keys : mem[k] = {} /\ memDel[k] = {}

IsLowest(i, S) == \A j \in S : i <= j

(* Bound of the model: a call that allocates part ids starts only while    *)
(* every thread could still finish one.                                    *)
Room == nextId + Reserve * Cardinality(Threads) \in PartIds

Starts(t, op) == up /\ pc[t] = "idle" /\ op \in MayRun[t]

Goto(t, l) == pc' = [pc EXCEPT ![t] = l]

(* The call returns, with or without an error.                             *)
Return(t) == Goto(t, "idle") /\ loc' = [loc EXCEPT ![t] = Blank]

Call(t, op, k, b) ==
  loc' = [loc EXCEPT ![t] = [Blank EXCEPT !.op = op, !.key = k, !.bits = b]]

-----------------------------------------------------------------------------
(* Every write call looks the event up and registers it if it is missing.  *)

(* Where a call goes on once the event is registered: a put into a closed  *)
(* period that was compacted reverts the state, in a transaction of its own.*)
Resume(op, k) ==
  CASE op = "put" -> IF k \in ClosedKeys /\ pstate[k] = "Compacted"
                     THEN "put_revert" ELSE "put_lock"
    [] op = "remove" -> "remove_lock"
    [] op = "replace" -> "replace_lock"
    [] OTHER -> "txn"

(* Start a call that looks the event up first.                             *)
CallOnEvent(t, op, k, b) ==
  /\ Starts(t, op)
  /\ Call(t, op, k, b)
  /\ Goto(t, IF hasEvent THEN Resume(op, k) ELSE "ensure")
  /\ UNCHANGED <<up, buffer, ridx, catalog, wtxn, disk>>

EnsureEvent(t) ==
  /\ pc[t] = "ensure"
  /\ hasEvent \/ wtxn = NoThread
  /\ hasEvent' = TRUE
  /\ Goto(t, Resume(loc[t].op, loc[t].key))
  /\ UNCHANGED <<up, buffer, ridx, parts, pparts, pdeltas, pstate, nextId, wtxn, disk, loc>>

-----------------------------------------------------------------------------
(* put_bitmap and remove_bits.                                             *)

PutBitmap(t, k, b) == k \in PutKeys /\ CallOnEvent(t, "put", k, b)

(* A slip: a state that the catalog does not know.                         *)
RevertCompactedBadly(t) ==
  /\ pc[t] = "put_revert"
  /\ wtxn = NoThread
  /\ pstate' = [pstate EXCEPT ![loc[t].key] = "Reverted"]
  /\ Goto(t, "put_lock")
  /\ UNCHANGED <<up, buffer, ridx, hasEvent, parts, pparts, pdeltas, nextId, wtxn, disk, loc>>

RevertCompacted(t) ==
  /\ pc[t] = "put_revert"
  /\ wtxn = NoThread
  /\ pstate' = [pstate EXCEPT ![loc[t].key] = "Closed"]
  /\ Goto(t, "put_lock")
  /\ UNCHANGED <<up, buffer, ridx, hasEvent, parts, pparts, pdeltas, nextId, wtxn, disk, loc>>

(* or_bitmap and or_delta: the bits enter the entries of the keys in K.    *)
AddBits(f, K, b) == [k \in Keys |-> IF k \in K THEN f[k] \cup b ELSE f[k]]

(* clear_delta_bits: the bits leave them.                                  *)
ClearBits(f, K, b) == [k \in Keys |-> IF k \in K THEN f[k] \ b ELSE f[k]]

(* The region under the write lock: the bits enter the buffer of the period*)
(* and its ancestors and leave their pending deltas.                       *)
BufferPut(t) ==
  /\ pc[t] = "put_lock"
  /\ mem' = AddBits(mem, Cover(loc[t].key), loc[t].bits)
  /\ memDel' = ClearBits(memDel, Cover(loc[t].key), loc[t].bits)
  /\ UNCHANGED <<up, ridx, catalog, wtxn, disk>>

PutLock(t) == BufferPut(t) /\ Return(t)

(* The same when the buffer is over flush_threshold: the put flushes.      *)
PutLockAutoFlush(t) ==
  /\ "flush" \in MayRun[t]
  /\ Room
  /\ BufferPut(t)
  /\ Goto(t, "flush")
  /\ loc' = [loc EXCEPT ![t] = [Blank EXCEPT !.op = "flush"]]

RemoveBits(t, k, b) == CallOnEvent(t, "remove", k, b)

(* The bits enter the delta; they stay in the buffer's bitmap.             *)
RemoveLock(t) ==
  /\ pc[t] = "remove_lock"
  /\ memDel' = AddBits(memDel, Cover(loc[t].key), loc[t].bits)
  /\ Return(t)
  /\ UNCHANGED <<up, mem, ridx, catalog, wtxn, disk>>

-----------------------------------------------------------------------------
(* flush_internal: drain the buffer under its lock, then write one part per*)
(* drained entry.                                                          *)

Drained ==
  {[key |-> k, kind |-> "data", bits |-> mem[k]] : k \in {j \in Keys : mem[j] # {}}}
  \cup
  {[key |-> k, kind |-> "delta", bits |-> memDel[k]] : k \in {j \in Keys : memDel[j] # {}}}

TakeSnapshot(t) ==
  /\ \/ Starts(t, "flush") /\ Room
     \/ pc[t] = "flush"
  /\ ~BufferEmpty
  /\ loc' = [loc EXCEPT ![t] = [Blank EXCEPT !.op = "flush", !.plan = Drained]]
  /\ mem' = [k \in Keys |-> {}]
  /\ memDel' = [k \in Keys |-> {}]
  /\ Goto(t, "ensure")
  /\ UNCHANGED <<up, ridx, catalog, wtxn, disk>>

(* Another flush has already drained the buffer.                           *)
NothingToFlush(t) ==
  /\ pc[t] = "flush"
  /\ BufferEmpty
  /\ Return(t)
  /\ UNCHANGED <<up, buffer, ridx, catalog, wtxn, disk>>

-----------------------------------------------------------------------------
(* compact_period and replace_bitmap first collect the parts they supersede,*)
(* each list and each part in a read transaction of its own.               *)

(* compact_event goes through the periods with an entry in either list,    *)
(* compact through those of every registered event.                        *)
CompactPeriod(t, k) ==
  /\ Starts(t, "compact")
  /\ pparts[k] # {} \/ pdeltas[k] # {}
  /\ Room
  /\ loc' = [loc EXCEPT ![t] = [Blank EXCEPT !.op = "compact", !.key = k, !.ids = pparts[k]]]
  /\ Goto(t, "delta_ids")
  /\ UNCHANGED <<up, buffer, ridx, catalog, wtxn, disk>>

ReplaceBitmap(t, k, b) == Room /\ CallOnEvent(t, "replace", k, b)

(* replace_bitmap clears the period's buffer under the write lock.         *)
ReplaceLock(t) ==
  /\ pc[t] = "replace_lock"
  /\ mem' = [mem EXCEPT ![loc[t].key] = {}]
  /\ memDel' = [memDel EXCEPT ![loc[t].key] = {}]
  /\ Goto(t, "data_ids")
  /\ UNCHANGED <<up, ridx, catalog, wtxn, disk, loc>>

CollectDataIds(t) ==
  /\ pc[t] = "data_ids"
  /\ loc' = [loc EXCEPT ![t].ids = pparts[loc[t].key]]
  /\ Goto(t, "delta_ids")
  /\ UNCHANGED <<up, buffer, ridx, catalog, wtxn, disk>>

(* merge::is_eligible: more than one data part, or any delta.              *)
Eligible(data, deltas) == Cardinality(data) > 1 \/ deltas # {}

CollectDeltaIds(t) ==
  LET k == loc[t].key IN
  /\ pc[t] = "delta_ids"
  /\ loc[t].op = "compact" => Eligible(loc[t].ids, pdeltas[k])
  /\ loc' = [loc EXCEPT ![t].dids = pdeltas[k],
                        ![t].plan = IF loc[t].op = "compact" THEN {}
                                    ELSE {[key |-> k, kind |-> "data", bits |-> loc[t].bits]}]
  /\ Goto(t, "resolve")
  /\ UNCHANGED <<up, buffer, ridx, catalog, wtxn, disk>>

NotEligible(t) ==
  /\ pc[t] = "delta_ids"
  /\ loc[t].op = "compact"
  /\ ~Eligible(loc[t].ids, pdeltas[loc[t].key])
  /\ Return(t)
  /\ UNCHANGED <<up, buffer, ridx, catalog, wtxn, disk>>

(* get_part for the next id, data parts first; an id that is no longer     *)
(* registered is skipped.                                                  *)
CollectDataPart(t) ==
  /\ pc[t] = "resolve"
  /\ \E i \in loc[t].ids :
       /\ IsLowest(i, loc[t].ids)
       /\ loc' = [loc EXCEPT ![t].ids = @ \ {i},
                             ![t].olds = @ \cup {p \in parts : p.id = i}]
  /\ UNCHANGED <<up, buffer, ridx, catalog, wtxn, disk, pc>>

CollectDeltaPart(t) ==
  /\ pc[t] = "resolve"
  /\ loc[t].ids = {}
  /\ \E i \in loc[t].dids :
       /\ IsLowest(i, loc[t].dids)
       /\ loc' = [loc EXCEPT ![t].dids = @ \ {i},
                             ![t].olds = @ \cup {p \in parts : p.id = i}]
  /\ UNCHANGED <<up, buffer, ridx, catalog, wtxn, disk, pc>>

Collected(t) ==
  /\ pc[t] = "resolve"
  /\ loc[t].ids = {} /\ loc[t].dids = {}
  /\ Goto(t, IF loc[t].op = "compact" THEN "merge" ELSE "txn")
  /\ UNCHANGED <<up, buffer, ridx, catalog, wtxn, disk, loc>>

(* A slip: every delta is subtracted from every data part, newer or not.   *)
MergePartsUnordered(t) ==
  /\ pc[t] = "merge"
  /\ loc[t].olds # {}
  /\ Readable(loc[t].olds)
  /\ loc' = [loc EXCEPT ![t].plan =
       {[key |-> loc[t].key, kind |-> "data",
         bits |-> (UNION {disk[p] : p \in Data(loc[t].olds)})
                    \ UNION {disk[p] : p \in loc[t].olds \ Data(loc[t].olds)}]}]
  /\ Goto(t, "ensure")
  /\ UNCHANGED <<up, buffer, ridx, catalog, wtxn, disk>>

(* merge_parts: part files never change while they exist, so reading them  *)
(* one by one finds them all or misses one, as reading them at once does.  *)
MergeParts(t) ==
  /\ pc[t] = "merge"
  /\ loc[t].olds # {}
  /\ Readable(loc[t].olds)
  /\ loc' = [loc EXCEPT ![t].plan =
       {[key |-> loc[t].key, kind |-> "data", bits |-> Fold(loc[t].olds, disk)]}]
  /\ Goto(t, "ensure")
  /\ UNCHANGED <<up, buffer, ridx, catalog, wtxn, disk>>

(* "no parts found" or an unreadable part: the compaction fails.           *)
MergeFails(t) ==
  /\ pc[t] = "merge"
  /\ loc[t].olds = {} \/ ~Readable(loc[t].olds)
  /\ Return(t)
  /\ UNCHANGED <<up, buffer, ridx, catalog, wtxn, disk>>

-----------------------------------------------------------------------------
(* The write transaction of flush_snapshot, compact_period and             *)
(* replace_bitmap: allocate the ids, write the files, commit the catalog.  *)
(* LMDB has one writer at a time, from write_txn to commit.                *)

(* A slip: the ids are allocated outside the write transaction.            *)
BeginTxnUnlocked(t) ==
  /\ pc[t] = "txn"
  /\ wtxn' = t
  /\ loc' = [loc EXCEPT ![t].nid = nextId]
  /\ Goto(t, "write")
  /\ UNCHANGED <<up, buffer, ridx, catalog, disk>>

BeginTxn(t) ==
  /\ pc[t] = "txn"
  /\ wtxn = NoThread
  /\ wtxn' = t
  /\ loc' = [loc EXCEPT ![t].nid = nextId]
  /\ Goto(t, "write")
  /\ UNCHANGED <<up, buffer, ridx, catalog, disk>>

(* A slip: data and delta parts are written in any order.                  *)
WritePartAnyOrder(t, e) ==
  LET p == [id |-> loc[t].nid, kind |-> e.kind, key |-> e.key] IN
  /\ pc[t] = "write"
  /\ e \in loc[t].plan
  /\ loc[t].nid \in PartIds
  /\ disk' = [disk EXCEPT ![p] = e.bits]
  /\ loc' = [loc EXCEPT ![t].plan = @ \ {e},
                        ![t].out  = @ \cup {p},
                        ![t].nid  = @ + 1]
  /\ UNCHANGED <<up, buffer, ridx, catalog, wtxn, pc>>

(* write_part, data parts before deltas: a delta gets the higher id.       *)
WritePart(t, e) ==
  LET p == [id |-> loc[t].nid, kind |-> e.kind, key |-> e.key] IN
  /\ pc[t] = "write"
  /\ e \in loc[t].plan
  /\ e.kind = "delta" => \A f \in loc[t].plan : f.kind = "delta"
  /\ loc[t].nid \in PartIds
  /\ disk' = [disk EXCEPT ![p] = e.bits]
  /\ loc' = [loc EXCEPT ![t].plan = @ \ {e},
                        ![t].out  = @ \cup {p},
                        ![t].nid  = @ + 1]
  /\ UNCHANGED <<up, buffer, ridx, catalog, wtxn, pc>>

OutIds(t, k, kind) ==
  {p.id : p \in {q \in loc[t].out : q.key = k /\ q.kind = kind}}

(* Catalog updates of flush_snapshot: append the new parts to the lists of *)
(* their keys; a key with new data is at least Open.                       *)
AppendParts(t) ==
  /\ parts' = parts \cup loc[t].out
  /\ pparts' = [k \in Keys |-> pparts[k] \cup OutIds(t, k, "data")]
  /\ pdeltas' = [k \in Keys |-> pdeltas[k] \cup OutIds(t, k, "delta")]
  /\ pstate' = [k \in Keys |-> IF pstate[k] = "None" /\ OutIds(t, k, "data") # {}
                               THEN "Open" ELSE pstate[k]]

(* A slip: the superseded parts stay registered.                           *)
SupersedeKeepsParts(t) ==
  LET k == loc[t].key IN
  /\ parts' = parts \cup loc[t].out
  /\ pparts' = [pparts EXCEPT ![k] = OutIds(t, k, "data")]
  /\ pdeltas' = [pdeltas EXCEPT ![k] = {}]
  /\ pstate' = [pstate EXCEPT ![k] =
                  IF loc[t].op = "compact" THEN "Compacted"
                  ELSE IF @ = "None" THEN "Open" ELSE @]

(* Catalog updates of compact_period and replace_bitmap: the new part is   *)
(* the key's only part and the collected ones are unregistered.            *)
SupersedeParts(t) ==
  LET k == loc[t].key IN
  /\ parts' = (parts \cup loc[t].out) \ loc[t].olds
  /\ pparts' = [pparts EXCEPT ![k] = OutIds(t, k, "data")]
  /\ pdeltas' = [pdeltas EXCEPT ![k] = {}]
  /\ pstate' = [pstate EXCEPT ![k] =
                  IF loc[t].op = "compact" THEN "Compacted"
                  ELSE IF @ = "None" THEN "Open" ELSE @]

(* A slip: the allocation of the ids is not part of the commit.            *)
CommitKeepsNextId(t) ==
  /\ pc[t] = "write"
  /\ loc[t].plan = {}
  /\ IF loc[t].op = "flush" THEN AppendParts(t) ELSE SupersedeParts(t)
  /\ wtxn' = NoThread
  /\ Goto(t, "rb_list")
  /\ UNCHANGED <<up, buffer, ridx, hasEvent, nextId, disk, loc>>

Commit(t) ==
  /\ pc[t] = "write"
  /\ loc[t].plan = {}
  /\ IF loc[t].op = "flush" THEN AppendParts(t) ELSE SupersedeParts(t)
  /\ nextId' = loc[t].nid
  /\ wtxn' = NoThread
  /\ Goto(t, "rb_list")
  /\ UNCHANGED <<up, buffer, ridx, hasEvent, disk, loc>>

(* A slip: the failed transaction is never closed.                         *)
TxnFailsOpen(t) ==
  /\ IoErrors
  /\ pc[t] = "write"
  /\ Return(t)
  /\ UNCHANGED <<up, buffer, ridx, catalog, wtxn, disk>>

(* A write or the commit fails: the transaction is dropped, and with it the*)
(* snapshot of a flush.  Files already written stay.                       *)
TxnFails(t) ==
  /\ IoErrors
  /\ pc[t] = "write"
  /\ wtxn' = NoThread
  /\ Return(t)
  /\ UNCHANGED <<up, buffer, ridx, catalog, disk>>

-----------------------------------------------------------------------------
(* delete_period and drop_event: clear the buffer of the period or of the  *)
(* event, then its catalog entries.                                        *)

DeletePeriod(t, k) ==
  /\ Starts(t, "delete")
  /\ mem' = [mem EXCEPT ![k] = {}]
  /\ memDel' = [memDel EXCEPT ![k] = {}]
  /\ Call(t, "delete", k, {})
  /\ Goto(t, "delete")
  /\ UNCHANGED <<up, ridx, catalog, wtxn, disk>>

(* get_event, in a transaction of its own: of an event that was never      *)
(* registered there is nothing to delete.                                  *)
DeleteKnown(t) ==
  /\ pc[t] = "delete"
  /\ hasEvent
  /\ Goto(t, "delete_txn")
  /\ UNCHANGED <<up, buffer, ridx, catalog, wtxn, disk, loc>>

DeleteUnknown(t) ==
  /\ pc[t] = "delete"
  /\ ~hasEvent
  /\ Return(t)
  /\ UNCHANGED <<up, buffer, ridx, catalog, wtxn, disk>>

(* delete_period_returning_parts.                                          *)
DeleteTxn(t) ==
  LET k == loc[t].key IN
  /\ pc[t] = "delete_txn"
  /\ wtxn = NoThread
  /\ parts' = parts \ PartsOf(k)
  /\ pparts' = [pparts EXCEPT ![k] = {}]
  /\ pdeltas' = [pdeltas EXCEPT ![k] = {}]
  /\ pstate' = [pstate EXCEPT ![k] = "None"]
  /\ loc' = [loc EXCEPT ![t].olds = PartsOf(k)]
  /\ Goto(t, "rb_list")
  /\ UNCHANGED <<up, buffer, ridx, hasEvent, nextId, wtxn, disk>>

DropEvent(t) ==
  /\ Starts(t, "drop")
  /\ mem' = [k \in Keys |-> {}]
  /\ memDel' = [k \in Keys |-> {}]
  /\ loc' = [loc EXCEPT ![t] = [Blank EXCEPT !.op = "drop"]]
  /\ Goto(t, "drop_txn")
  /\ UNCHANGED <<up, ridx, catalog, wtxn, disk>>

(* delete_event_returning_parts: the parts it unregisters are those of     *)
(* period_parts; the lists of period_deltas go, their parts stay.          *)
EventData == {p \in parts : \E k \in Keys : p.id \in pparts[k]}

DropTxn(t) ==
  /\ pc[t] = "drop_txn"
  /\ wtxn = NoThread
  /\ hasEvent' = FALSE
  /\ parts' = parts \ EventData
  /\ pparts' = [k \in Keys |-> {}]
  /\ pdeltas' = [k \in Keys |-> {}]
  /\ pstate' = [k \in Keys |-> "None"]
  /\ loc' = [loc EXCEPT ![t].olds = EventData]
  /\ Goto(t, "rb_list")
  /\ UNCHANGED <<up, buffer, ridx, nextId, wtxn, disk>>

-----------------------------------------------------------------------------
(* rebuild_read_index: every list and every part is read in a transaction  *)
(* of its own and nothing excludes the other threads; then the files are   *)
(* folded and the new index is stored.                                     *)

RebuildList(t) ==
  /\ pc[t] = "rb_list"
  /\ loc' = [loc EXCEPT ![t].todo = PeriodKeys, ![t].listed = PeriodKeys]
  /\ Goto(t, "rb_key")
  /\ UNCHANGED <<up, buffer, ridx, catalog, wtxn, disk>>

RebuildDataIds(t, k) ==
  /\ pc[t] = "rb_key"
  /\ k \in loc[t].todo
  /\ loc' = [loc EXCEPT ![t].todo = @ \ {k}, ![t].key = k, ![t].ids = pparts[k]]
  /\ Goto(t, "rb_data")
  /\ UNCHANGED <<up, buffer, ridx, catalog, wtxn, disk>>

(* A part that is no longer registered is left out of the index.           *)
RebuildPart(t) ==
  /\ pc[t] \in {"rb_data", "rb_deltas"}
  /\ \E i \in loc[t].ids :
       /\ IsLowest(i, loc[t].ids)
       /\ loc' = [loc EXCEPT ![t].ids = @ \ {i},
                             ![t].found = @ \cup {p \in parts : p.id = i}]
  /\ UNCHANGED <<up, buffer, ridx, catalog, wtxn, disk, pc>>

RebuildDeltaIds(t) ==
  /\ pc[t] = "rb_data"
  /\ loc[t].ids = {}
  /\ loc' = [loc EXCEPT ![t].ids = pdeltas[loc[t].key]]
  /\ Goto(t, "rb_deltas")
  /\ UNCHANGED <<up, buffer, ridx, catalog, wtxn, disk>>

RebuildKeyDone(t) ==
  /\ pc[t] = "rb_deltas"
  /\ loc[t].ids = {}
  /\ Goto(t, "rb_key")
  /\ UNCHANGED <<up, buffer, ridx, catalog, wtxn, disk, loc>>

(* A slip: the build reads no delta part.                                  *)
FoundDataFor(t, k) == {p \in loc[t].found : p.key = k /\ p.kind = "data"}

FoundFor(t, k) == {p \in loc[t].found : p.key = k}

(* The files are immutable, so they are read in one step as in MergeParts. *)
RebuildFold(t) ==
  /\ pc[t] = "rb_key"
  /\ loc[t].todo = {}
  /\ Readable(loc[t].found)
  /\ loc' = [loc EXCEPT ![t].built =
       [k \in Keys |-> IF k \in loc[t].listed THEN Fold(FoundFor(t, k), disk) ELSE Absent]]
  /\ Goto(t, "rb_store")
  /\ UNCHANGED <<up, buffer, ridx, catalog, wtxn, disk>>

(* A file is gone: the call fails although its transaction has committed,  *)
(* and the files it superseded stay behind.                                *)
RebuildFails(t) ==
  /\ pc[t] = "rb_key"
  /\ loc[t].todo = {}
  /\ ~Readable(loc[t].found)
  /\ Return(t)
  /\ UNCHANGED <<up, buffer, ridx, catalog, wtxn, disk>>

StoreIndex(t) ==
  /\ pc[t] = "rb_store"
  /\ ridx' = loc[t].built
  /\ Goto(t, "unlink")
  /\ UNCHANGED <<up, buffer, catalog, wtxn, disk, loc>>

(* The files of the parts the call unregistered are deleted, if they exist.*)
UnlinkPart(t, p) ==
  /\ pc[t] = "unlink"
  /\ p \in loc[t].olds
  /\ disk' = [disk EXCEPT ![p] = Absent]
  /\ loc' = [loc EXCEPT ![t].olds = @ \ {p}]
  /\ UNCHANGED <<up, buffer, ridx, catalog, wtxn, pc>>

CallDone(t) ==
  /\ pc[t] = "unlink"
  /\ loc[t].olds = {}
  /\ Return(t)
  /\ UNCHANGED <<up, buffer, ridx, catalog, wtxn, disk>>

-----------------------------------------------------------------------------
(* get (get_shared is its first two steps): copy the buffer's entries under*)
(* the read lock, then look the key up in the ReadIndex.                   *)

Get(t, k) ==
  /\ Starts(t, "get")
  /\ loc' = [loc EXCEPT ![t] = [Blank EXCEPT !.key = k, !.gotB = mem[k], !.gotD = memDel[k]]]
  /\ Goto(t, "get_cache")
  /\ UNCHANGED <<up, buffer, ridx, catalog, wtxn, disk>>

(* A slip: the buffer's bitmap is added after its delta was subtracted.    *)
OverlayDeltaFirst(S, b, d) == (S \ d) \cup b

(* The buffer is newer than everything on disk: OR its bitmap, then        *)
(* subtract its delta.                                                     *)
Overlay(S, b, d) == (S \cup b) \ d

CacheHit(t) ==
  LET cached == ridx[loc[t].key] IN
  /\ pc[t] = "get_cache"
  /\ cached # Absent
  /\ loc' = [loc EXCEPT ![t].res = Overlay(cached, loc[t].gotB, loc[t].gotD)]
  /\ Goto(t, "got")
  /\ UNCHANGED <<up, buffer, ridx, catalog, wtxn, disk>>

CacheMiss(t) ==
  /\ pc[t] = "get_cache"
  /\ ridx[loc[t].key] = Absent
  /\ Goto(t, "get_txn")
  /\ UNCHANGED <<up, buffer, ridx, catalog, wtxn, disk, loc>>

(* The slow path's read transaction is a snapshot of the catalog ...       *)
ReadTxn(t) ==
  /\ pc[t] = "get_txn"
  /\ loc' = [loc EXCEPT ![t].found = PartsOf(loc[t].key)]
  /\ Goto(t, "get_files")
  /\ UNCHANGED <<up, buffer, ridx, catalog, wtxn, disk>>

(* A slip: the slow path forgets the buffer's delta.                       *)
ReadFilesKeepsRemoved(t) ==
  /\ pc[t] = "get_files"
  /\ loc' = [loc EXCEPT ![t].res =
       IF Readable(loc[t].found)
       THEN Overlay(Fold(loc[t].found, disk), loc[t].gotB, {}) ELSE Absent]
  /\ Goto(t, "got")
  /\ UNCHANGED <<up, buffer, ridx, catalog, wtxn, disk>>

(* ... but the files are not part of it: a missing one is an error.        *)
ReadFiles(t) ==
  /\ pc[t] = "get_files"
  /\ loc' = [loc EXCEPT ![t].res =
       IF Readable(loc[t].found)
       THEN Overlay(Fold(loc[t].found, disk), loc[t].gotB, loc[t].gotD) ELSE Absent]
  /\ Goto(t, "got")
  /\ UNCHANGED <<up, buffer, ridx, catalog, wtxn, disk>>

GetReturns(t) ==
  /\ pc[t] = "got"
  /\ Return(t)
  /\ UNCHANGED <<up, buffer, ridx, catalog, wtxn, disk>>

-----------------------------------------------------------------------------
(* A crash loses the buffer, the index and the open transaction.           *)
Crash ==
  /\ up
  /\ up' = FALSE
  /\ mem' = [k \in Keys |-> {}]
  /\ memDel' = [k \in Keys |-> {}]
  /\ ridx' = NoCache
  /\ wtxn' = NoThread
  /\ pc' = [t \in Threads |-> "idle"]
  /\ loc' = [t \in Threads |-> Blank]
  /\ UNCHANGED <<catalog, disk>>

(* A slip: the scan looks at data parts only.                              *)
OrphanData ==
  {p \in Path : disk[p] # Absent /\ p.kind = "data" /\ \A q \in parts : q.id # p.id}

(* Builder::open deletes the files whose id no registered part has ...     *)
Orphans == {p \in Path : disk[p] # Absent /\ \A q \in parts : q.id # p.id}

DeleteOrphan(p) ==
  /\ ~up
  /\ p \in Orphans
  /\ disk' = [disk EXCEPT ![p] = Absent]
  /\ UNCHANGED <<up, buffer, ridx, catalog, wtxn, pc, loc>>

(* ... and then builds the ReadIndex, which needs every listed part.       *)
Open ==
  /\ ~up
  /\ Orphans = {}
  /\ \A k \in Keys : Readable(PartsOf(k))
  /\ up' = TRUE
  /\ ridx' = FreshIndex
  /\ UNCHANGED <<buffer, catalog, wtxn, disk, pc, loc>>

-----------------------------------------------------------------------------
(* A new store, opened for the first time.                                 *)
Init ==
  /\ up = TRUE
  /\ mem = [k \in Keys |-> {}]
  /\ memDel = [k \in Keys |-> {}]
  /\ ridx = NoCache
  /\ hasEvent = FALSE
  /\ parts = {}
  /\ pparts = [k \in Keys |-> {}]
  /\ pdeltas = [k \in Keys |-> {}]
  /\ pstate = [k \in Keys |-> "None"]
  /\ nextId = 1
  /\ wtxn = NoThread
  /\ disk = [p \in Path |-> Absent]
  /\ pc = [t \in Threads |-> "idle"]
  /\ loc = [t \in Threads |-> Blank]

Bitmaps == (SUBSET Ids) \ {{}}

(* A thread enters a call (flush starts with TakeSnapshot).                *)
StartCall(t) ==
  \/ \E k \in Keys, b \in Bitmaps : PutBitmap(t, k, b) \/ RemoveBits(t, k, b)
  \/ \E k \in Keys, b \in SUBSET Ids : ReplaceBitmap(t, k, b)
  \/ \E k \in Keys : CompactPeriod(t, k)

(* The steps of a write call once the buffer has what it needs.            *)
Collect(t) ==
  \/ CollectDataIds(t) \/ CollectDeltaIds(t) \/ NotEligible(t)
  \/ CollectDataPart(t) \/ CollectDeltaPart(t) \/ Collected(t)
  \/ MergeParts(t) \/ MergeFails(t)

Transact(t) ==
  \/ BeginTxn(t)
  \/ \E e \in loc[t].plan : WritePart(t, e)
  \/ Commit(t)
  \/ TxnFails(t)
  \/ DeleteKnown(t) \/ DeleteUnknown(t) \/ DeleteTxn(t) \/ DropTxn(t)

Rebuild(t) ==
  \/ RebuildList(t)
  \/ \E k \in Keys : RebuildDataIds(t, k)
  \/ RebuildPart(t) \/ RebuildDeltaIds(t) \/ RebuildKeyDone(t)
  \/ RebuildFold(t) \/ RebuildFails(t) \/ StoreIndex(t)
  \/ \E p \in loc[t].olds : UnlinkPart(t, p)
  \/ CallDone(t)

Read(t) == CacheHit(t) \/ CacheMiss(t) \/ ReadTxn(t) \/ ReadFiles(t) \/ GetReturns(t)

(* The steps that change no answer a caller is owed ...                    *)
Internal(t) ==
  \/ StartCall(t) \/ EnsureEvent(t) \/ RevertCompacted(t)
  \/ TakeSnapshot(t) \/ NothingToFlush(t)
  \/ Collect(t) \/ Transact(t) \/ Rebuild(t)
  \/ Read(t)

(* ... and those that update the store's contents or begin a read.         *)
Update(t) ==
  \/ PutLock(t) \/ PutLockAutoFlush(t) \/ RemoveLock(t) \/ ReplaceLock(t)
  \/ \E k \in Keys : DeletePeriod(t, k)
  \/ DropEvent(t)

StartGet(t) == \E k \in Keys : Get(t, k)

Recover == (\E p \in Path : DeleteOrphan(p)) \/ Open

Next ==
  \/ \E t \in Threads : Internal(t) \/ Update(t) \/ StartGet(t)
  \/ Crash
  \/ Recover

Spec == Init /\ [][Next]_vars

(* A running call keeps being scheduled; nobody has to start one.          *)
Proceed(t) == pc[t] # "idle" /\ (Internal(t) \/ Update(t))

(* The steps that wait for LMDB's write lock.  Its mutex lets a waiter in  *)
(* sooner or later even if others keep taking it, hence strong fairness.   *)
TakesWriteLock(t) ==
  BeginTxn(t) \/ DeleteTxn(t) \/ DropTxn(t) \/ EnsureEvent(t) \/ RevertCompacted(t)

FairSpec ==
  Spec /\ \A t \in Threads : WF_vars(Proceed(t)) /\ SF_vars(TakesWriteLock(t))

-----------------------------------------------------------------------------
(* Properties.                                                             *)

ListedAreRegistered ==
  \A k \in Keys :
    /\ \A i \in pparts[k] : [id |-> i, kind |-> "data", key |-> k] \in parts
    /\ \A i \in pdeltas[k] : [id |-> i, kind |-> "delta", key |-> k] \in parts

(* What the catalog lists is registered, and what it registers is on disk, *)
(* at every moment of every interleaving, failed write and crash: the      *)
(* catalog never refers to a vanished file (the order of write_part,       *)
(* commit and delete_part in every writing call, and orphan deletion).     *)
DurableIntegrity == ListedAreRegistered /\ Readable(parts)

(* No registered part is missing from its key's lists: a part that no list *)
(* names is never read, never merged and never unlinked, since its id is   *)
(* known to the orphan scan.  Needs one maintainer at a time.              *)
NoLeakedPart ==
  \A p \in parts : p.id \in IF p.kind = "data" THEN pparts[p.key] ELSE pdeltas[p.key]

Quiet == up /\ \A t \in Threads : pc[t] = "idle"

(* Between calls the parts directory holds the registered parts and no     *)
(* other file, whatever crashes came before: superseded files are unlinked *)
(* and those a crash left are found by the orphan scan of open.            *)
NoStrayFile == Quiet => {p \in Path : disk[p] # Absent} = parts

(* Between calls the ReadIndex is the one a rebuild would produce, so      *)
(* cache hits and the slow path of get agree (rebuild_read_index after     *)
(* every commit, ReadIndex::build at open).                                *)
IndexCurrent == Quiet => ridx = FreshIndex

(* Compaction "merges data parts and applies deltas": its commit changes   *)
(* what is stored for no key (lib.rs, compact and compact_period).         *)
CompactPreserves ==
  [][\A t \in Threads : Commit(t) /\ loc[t].op = "compact"
                          => \A k \in Keys : Disk(k)' = Disk(k)]_vars

(* Every call returns: no thread waits for ever for the write lock or for  *)
(* a rebuild, whatever the others do.                                      *)
CallsReturn == \A t \in Threads : pc[t] # "idle" ~> pc[t] = "idle"

-----------------------------------------------------------------------------
(* Why DurableIntegrity holds.  Part ids below nextId are spent: a part of *)
(* an open transaction has an id at or above it, so it cannot be confused  *)
(* with a registered or a superseded one.                                  *)

UniqueIds(P) == \A p, q \in P : p.id = q.id => p = q

SpentIds == UniqueIds(parts) /\ \A p \in parts : p.id < nextId

(* A thread that writes parts owns the write lock; its parts are on disk.  *)
OpenTxn(t) ==
  /\ pc[t] \in {"ensure", "txn"} => loc[t].out = {}
  /\ pc[t] = "write" =>
       /\ wtxn = t
       /\ loc[t].nid >= nextId
       /\ UniqueIds(loc[t].out)
       /\ \A p \in loc[t].out : disk[p] # Absent /\ nextId <= p.id /\ p.id < loc[t].nid

Collecting == {"replace_lock", "data_ids", "delta_ids", "resolve", "merge"}
Superseding == Collecting \cup {"ensure", "txn", "write"}

OnlyAdding == {"put", "remove", "flush"}

(* Until its commit, a thread collects parts of its own key only ...       *)
CollectsOwnKey(t) ==
  pc[t] \in Superseding =>
    /\ pc[t] \in Collecting => loc[t].op \notin OnlyAdding /\ loc[t].out = {}
    /\ loc[t].op \in OnlyAdding => loc[t].olds = {}
    /\ \A i \in loc[t].ids \cup loc[t].dids :
         i < nextId /\ \A p \in parts : p.id = i => p.key = loc[t].key
    /\ \A p \in loc[t].olds : p.id < nextId /\ p.key = loc[t].key

(* ... and afterwards it unlinks parts that nobody has registered.         *)
UnlinksUnregistered(t) ==
  pc[t] \notin Superseding =>
    \A p \in loc[t].olds : p.id < nextId /\ p \notin parts

(* A part file belongs to the catalog, to the one open transaction, or to  *)
(* the thread that will unlink it, never to two of them (write_part,       *)
(* commit and delete_part of flush_snapshot, compact_period,               *)
(* replace_bitmap and delete_period, and the orphan scan at open).         *)
PartOwnership ==
  /\ DurableIntegrity
  /\ SpentIds
  /\ ~up => \A t \in Threads : pc[t] = "idle"
  /\ \A t \in Threads : OpenTxn(t) /\ CollectsOwnKey(t) /\ UnlinksUnregistered(t)
=============================================================================
