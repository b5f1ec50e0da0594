------------------------------- MODULE Periods -------------------------------
(***************************************************************************)
(* The calls of InoxSet (lib.rs) that span several periods of one event:   *)
(* range writes, range reads, set queries, counts, bulk_replace and        *)
(* retain_periods, beside flush, compaction and deletion.                  *)
(*                                                                         *)
(* Engine has the steps within one flush, compaction or rebuild and the    *)
(* part files; here each of their transactions is one action, and a part   *)
(* carries its bitmap.  The parts of one flush share two ids, one for its  *)
(* data and one for its deltas: only ids of one period are ever compared.  *)
(***************************************************************************)
EXTENDS Naturals, Sequences, FiniteSets, Functions, PartFold

CONSTANTS
  Threads,       \* callers that share the handle
  Keys,          \* the event's periods, rollup ancestors included
  Ancestors,     \* Ancestors[k]: ancestors of k that are in the rollup chain
  ClosedKeys,    \* periods whose time window has elapsed
  Ids,           \* members of a bitmap
  Absent,        \* no cache entry
  LastPart,      \* bound of the model on part ids
  MayRun,        \* MayRun[t]: the operations thread t calls
  Order,         \* the event's periods, sorted
  Ranges,        \* range writes: put or remove, and the periods in order
  Queries,       \* reads: an operation and the periods it gets, in order
  Replacements,  \* arguments of bulk_replace: sequences of [key, bits]
  Kept           \* retain_periods: the periods that satisfy its predicate

Writes  == {"put", "remove"}
Reads   == {"get_range", "and", "diff", "cardinality"}
Ops     == Writes \cup Reads \cup {"flush", "compact", "replace", "retain"}
States  == {"None", "Open", "Closed", "Compacted"}

ASSUME PeriodsAssumption ==
  /\ Ancestors \in [Keys -> SUBSET Keys]
  /\ ClosedKeys \subseteq Keys
  /\ IsFiniteSet(Keys) /\ IsFiniteSet(Ids)
  /\ \A S \in SUBSET Ids : S # Absent
  /\ LastPart \in Nat
  /\ MayRun \in [Threads -> SUBSET Ops]
  /\ Order \in Seq(Keys) /\ Range(Order) = Keys
  /\ \A g \in Ranges : g.op \in Writes /\ g.keys \in Seq(Keys)
  /\ \A q \in Queries : q.op \in Reads /\ q.keys \in Seq(Keys) /\ q.keys # <<>>
  /\ \A e \in Replacements : e \in Seq([key : Keys, bits : SUBSET Ids])
  /\ Kept \subseteq Keys

Part == [id : 1 .. LastPart, kind : {"data", "delta"}, key : Keys, bits : SUBSET Ids]

VARIABLES
  mem,     \* MemPart.bitmaps
  memDel,  \* MemPart.deltas
  ridx,    \* ReadIndex.bitmap_cache
  parts,   \* catalog: registered parts
  listed,  \* catalog: period_parts and period_deltas
  pstate,  \* catalog: period_state
  nextId,  \* catalog: next_part_id
  pc,      \* where each thread is
  loc      \* each thread's local variables

buffer  == <<mem, memDel>>
catalog == <<parts, listed, pstate, nextId>>
vars    == <<buffer, ridx, catalog, pc, loc>>

Locals ==
  [op      : Ops,
   keys    : Seq(Keys),              \* the call's periods
   left    : SUBSET Keys,            \* retain: the periods still to delete
   bits    : SUBSET Ids,             \* the bitmap it writes
   entries : {<<>>} \cup Replacements,
   revert  : SUBSET Keys,            \* compacted periods that a put found
   data    : [Keys -> SUBSET Ids],   \* flush: the drained bitmaps
   deltas  : [Keys -> SUBSET Ids],   \* flush: the drained deltas
   olds    : SUBSET Part,            \* parts the call unregisters or counts
   overlay : (SUBSET Ids) \X (SUBSET Ids),  \* what a read found in the buffer
   got     : Seq(SUBSET Ids)]        \* bitmaps read so far

Empty == [k \in Keys |-> {}]

Blank ==
  [op |-> "flush", keys |-> <<>>, left |-> {}, bits |-> {}, entries |-> <<>>,
   revert |-> {}, data |-> Empty, deltas |-> Empty, olds |-> {}, overlay |-> <<{}, {}>>, got |-> <<>>]

Labels ==
  {"idle", "revert", "lock", "flush_txn", "collect", "replace_txn",
   "delete", "delete_txn", "index",
   "count_state", "count_parts", "count_deltas", "count_part", "read", "cache", "got"}

TypeOK ==
  /\ mem \in [Keys -> SUBSET Ids] /\ memDel \in [Keys -> SUBSET Ids]
  /\ ridx \in [Keys -> {Absent} \cup SUBSET Ids]
  /\ parts \subseteq Part /\ listed \subseteq Part
  /\ \A p \in parts \cup listed : p.id < nextId
  /\ pstate \in [Keys -> States]
  /\ nextId \in 1 .. LastPart + 1
  /\ pc \in [Threads -> Labels]
  /\ loc \in [Threads -> Locals]

-----------------------------------------------------------------------------
(* Operators of the actions.                                               *)

(* distinct_rollup_ancestors, with the periods themselves.                 *)
Cover(K) == K \cup UNION {Ancestors[k] : k \in K}

PartsOf(k) == {p \in listed \cap parts : p.key = k}

Listed(k, kind) == {p \in listed : p.key = k /\ p.kind = kind}

(* What the catalog holds for k.                                           *)
Disk(k) == Fold(PartsOf(k), [p \in PartsOf(k) |-> p.bits])

PeriodKeys == {p.key : p \in listed}

FreshIndex == [k \in Keys |-> IF k \in PeriodKeys THEN Disk(k) ELSE Absent]

Overlay(S, b, d) == (S \cup b) \ d

Starts(t, op) == pc[t] = "idle" /\ op \in MayRun[t]

(* Bound of the model: n ids are left, and two for every thread that has   *)
(* started to write parts.                                                 *)
Writing == {t \in Threads : pc[t] \in {"flush_txn", "collect", "replace_txn"}}
Room(n) == nextId + n + 2 * Cardinality(Writing) <= LastPart + 1

Goto(t, l) == pc' = [pc EXCEPT ![t] = l]

Return(t) == Goto(t, "idle") /\ loc' = [loc EXCEPT ![t] = Blank]

-----------------------------------------------------------------------------
(* put_bitmap_range and remove_bits_range; put_bitmap and remove_bits are  *)
(* ranges of one period.                                                   *)

(* revert_compacted_periods, its read transaction.                         *)
PutRange(t, g, b) ==
  LET compacted == {k \in Range(g.keys) \cap ClosedKeys : pstate[k] = "Compacted"} IN
  /\ g.op = "put"
  /\ Starts(t, "put")
  /\ loc' = [loc EXCEPT ![t] =
       [Blank EXCEPT !.op = "put", !.keys = g.keys, !.bits = b, !.revert = compacted]]
  /\ Goto(t, IF compacted = {} THEN "lock" ELSE "revert")
  /\ UNCHANGED <<buffer, ridx, catalog>>

(* Its write transaction, for all of them at once.                         *)
RevertCompacted(t) ==
  /\ pc[t] = "revert"
  /\ pstate' = [k \in Keys |-> IF k \in loc[t].revert THEN "Closed" ELSE pstate[k]]
  /\ Goto(t, "lock")
  /\ UNCHANGED <<buffer, ridx, parts, listed, nextId, loc>>

(* or_bitmap_shared and or_delta, and clear_delta_bits.                    *)
AddBits(f, K, b) == [k \in Keys |-> IF k \in K THEN f[k] \cup b ELSE f[k]]
ClearBits(f, K, b) == [k \in Keys |-> IF k \in K THEN f[k] \ b ELSE f[k]]

(* A slip: the write lock is released after each period.                   *)
RangeLockEach(t) ==
  LET K == Cover({Head(loc[t].keys)}) IN
  /\ pc[t] = "lock"
  /\ mem' = AddBits(mem, K, loc[t].bits)
  /\ memDel' = ClearBits(memDel, K, loc[t].bits)
  /\ IF Len(loc[t].keys) = 1
     THEN Return(t)
     ELSE loc' = [loc EXCEPT ![t].keys = Tail(@)] /\ UNCHANGED pc
  /\ UNCHANGED <<ridx, catalog>>

(* The one region under the write lock, periods and ancestors together.    *)
(* Over flush_threshold the call goes on with flush_internal, as if its    *)
(* thread called flush next.                                               *)
RangeLock(t) ==
  LET K == Cover(Range(loc[t].keys)) IN
  /\ pc[t] = "lock"
  /\ mem' = AddBits(mem, K, loc[t].bits)
  /\ memDel' = ClearBits(memDel, K, loc[t].bits)
  /\ Return(t)
  /\ UNCHANGED <<ridx, catalog>>

(* A remove looks at nothing before it takes the lock.                     *)
RemoveRange(t, g, b) ==
  /\ g.op = "remove"
  /\ Starts(t, "remove")
  /\ memDel' = AddBits(memDel, Cover(Range(g.keys)), b)
  /\ UNCHANGED <<mem, ridx, catalog, pc, loc>>

-----------------------------------------------------------------------------
(* flush_internal, and compact_period as the one step that Engine details. *)

TakeSnapshot(t) ==
  /\ Starts(t, "flush")
  /\ Room(IF mem # Empty /\ memDel # Empty THEN 2 ELSE 1)
  /\ mem # Empty \/ memDel # Empty
  /\ loc' = [loc EXCEPT ![t] = [Blank EXCEPT !.data = mem, !.deltas = memDel]]
  /\ mem' = Empty /\ memDel' = Empty
  /\ Goto(t, "flush_txn")
  /\ UNCHANGED <<ridx, catalog>>

(* A slip: next_part_id is read after it was advanced.                     *)
NewPartAfter(i, kind, k, b) == [id |-> i + 1, kind |-> kind, key |-> k, bits |-> b]

NewPart(i, kind, k, b) == [id |-> i, kind |-> kind, key |-> k, bits |-> b]

(* One part per drained entry.                                             *)
Written(i, kind, f) == {NewPart(i, kind, k, f[k]) : k \in {j \in Keys : f[j] # {}}}

Used(P) == IF P = {} THEN 0 ELSE 1

FlushTxn(t) ==
  LET data   == Written(nextId, "data", loc[t].data)
      deltas == Written(nextId + Used(data), "delta", loc[t].deltas) IN
  /\ pc[t] = "flush_txn"
  /\ parts' = parts \cup data \cup deltas
  /\ listed' = listed \cup data \cup deltas
  /\ pstate' = [k \in Keys |-> IF pstate[k] = "None" /\ \E p \in data : p.key = k
                               THEN "Open" ELSE pstate[k]]
  /\ nextId' = nextId + Used(data) + Used(deltas)
  /\ Goto(t, "index")
  /\ UNCHANGED <<buffer, ridx, loc>>

Eligible(k) == Cardinality(Listed(k, "data")) > 1 \/ Listed(k, "delta") # {}

CompactPeriod(t, k) ==
  LET new == NewPart(nextId, "data", k, Disk(k)) IN
  /\ Starts(t, "compact")
  /\ Room(1)
  /\ Eligible(k) /\ PartsOf(k) # {}
  /\ parts' = (parts \ PartsOf(k)) \cup {new}
  /\ listed' = {p \in listed : p.key # k} \cup {new}
  /\ pstate' = [pstate EXCEPT ![k] = "Compacted"]
  /\ nextId' = nextId + 1
  /\ loc' = [loc EXCEPT ![t] = [Blank EXCEPT !.op = "compact"]]
  /\ Goto(t, "index")
  /\ UNCHANGED <<buffer, ridx>>

-----------------------------------------------------------------------------
(* bulk_replace; replace_bitmap is the case of one entry.                  *)

EntryKeys(e) == {e[i].key : i \in DOMAIN e}

ClearKeys(f, K) == [k \in Keys |-> IF k \in K THEN {} ELSE f[k]]

BulkReplace(t, e) ==
  /\ Starts(t, "replace")
  /\ Room(Len(e))
  /\ mem' = ClearKeys(mem, EntryKeys(e))
  /\ memDel' = ClearKeys(memDel, EntryKeys(e))
  /\ loc' = [loc EXCEPT ![t] = [Blank EXCEPT !.op = "replace", !.entries = e]]
  /\ Goto(t, "collect")
  /\ UNCHANGED <<ridx, catalog>>

(* A slip: the parts in period_deltas are forgotten.                       *)
CollectDataParts(t) ==
  /\ pc[t] = "collect"
  /\ loc' = [loc EXCEPT ![t].olds =
       {p \in listed : p.key \in EntryKeys(loc[t].entries) /\ p.kind = "data"}]
  /\ Goto(t, "replace_txn")
  /\ UNCHANGED <<buffer, ridx, catalog>>

CollectOldParts(t) ==
  /\ pc[t] = "collect"
  /\ loc' = [loc EXCEPT ![t].olds = {p \in listed : p.key \in EntryKeys(loc[t].entries)}]
  /\ Goto(t, "replace_txn")
  /\ UNCHANGED <<buffer, ridx, catalog>>

(* Each entry sets its period's list, so of two entries for one period the *)
(* later one remains listed.                                               *)
ReplaceTxn(t) ==
  LET e == loc[t].entries
      new == [i \in DOMAIN e |-> NewPart(nextId + i - 1, "data", e[i].key, e[i].bits)]
      last == {i \in DOMAIN e : \A j \in DOMAIN e : e[j].key = e[i].key => j <= i} IN
  /\ pc[t] = "replace_txn"
  /\ parts' = (parts \ loc[t].olds) \cup Range(new)
  /\ listed' = {p \in listed : p.key \notin EntryKeys(e)} \cup {new[i] : i \in last}
  /\ pstate' = [k \in Keys |-> IF pstate[k] = "None" /\ k \in EntryKeys(e)
                               THEN "Open" ELSE pstate[k]]
  /\ nextId' = nextId + Len(e)
  /\ Goto(t, "index")
  /\ UNCHANGED <<buffer, ridx, loc>>

-----------------------------------------------------------------------------
(* retain_periods lists the periods (list_periods: those in the catalog)   *)
(* and deletes those its predicate rejects, one by one, as delete_period.  *)

(* A slip: list_periods keyed by the event's finest granularity.           *)
RetainFinest(t) ==
  /\ Starts(t, "retain")
  /\ loc' = [loc EXCEPT ![t] =
       [Blank EXCEPT !.op = "retain",
                     !.left = {k \in PeriodKeys \ Kept : \A j \in Keys : k \notin Ancestors[j]}]]
  /\ Goto(t, "delete")
  /\ UNCHANGED <<buffer, ridx, catalog>>

RetainPeriods(t) ==
  /\ Starts(t, "retain")
  /\ loc' = [loc EXCEPT ![t] = [Blank EXCEPT !.op = "retain", !.left = PeriodKeys \ Kept]]
  /\ Goto(t, "delete")
  /\ UNCHANGED <<buffer, ridx, catalog>>

Precedes(k, j) == \E a, b \in DOMAIN Order : a <= b /\ Order[a] = k /\ Order[b] = j

(* The next period in the order of list_periods.                           *)
DeleteLock(t, k) ==
  /\ pc[t] = "delete"
  /\ k \in loc[t].left
  /\ \A j \in loc[t].left : Precedes(k, j)
  /\ mem' = ClearKeys(mem, {k})
  /\ memDel' = ClearKeys(memDel, {k})
  /\ loc' = [loc EXCEPT ![t].keys = <<k>>, ![t].left = @ \ {k}]
  /\ Goto(t, "delete_txn")
  /\ UNCHANGED <<ridx, catalog>>

DeleteTxn(t) ==
  LET k == Head(loc[t].keys) IN
  /\ pc[t] = "delete_txn"
  /\ parts' = parts \ PartsOf(k)
  /\ listed' = {p \in listed : p.key # k}
  /\ pstate' = [pstate EXCEPT ![k] = "None"]
  /\ loc' = [loc EXCEPT ![t].keys = <<>>]
  /\ Goto(t, "index")
  /\ UNCHANGED <<buffer, ridx, nextId>>

DeletedAll(t) ==
  /\ pc[t] = "delete"
  /\ loc[t].left = {}
  /\ Return(t)
  /\ UNCHANGED <<buffer, ridx, catalog>>

(* rebuild_read_index, after which a retain goes on to its next period.    *)
StoreIndex(t) ==
  /\ pc[t] = "index"
  /\ ridx' = FreshIndex
  /\ IF loc[t].op = "retain"
     THEN Goto(t, "delete") /\ UNCHANGED loc
     ELSE Return(t)
  /\ UNCHANGED <<buffer, catalog>>

-----------------------------------------------------------------------------
(* Reads of several periods: one get for each, from left to right.         *)

StartRead(t, op, K, l) ==
  /\ Starts(t, op)
  /\ loc' = [loc EXCEPT ![t] = [Blank EXCEPT !.op = op, !.keys = K]]
  /\ Goto(t, l)
  /\ UNCHANGED <<buffer, ridx, catalog>>

(* get_range and cardinality_range; query with And or Diff, and the calls  *)
(* that intersect and count.  Or, and the union of periods, reads as       *)
(* get_range does.                                                         *)
Query(t, q) ==
  /\ q.op # "cardinality"
  /\ StartRead(t, q.op, q.keys, "read")

(* The result of a query over the bitmaps read so far.                     *)
Meet(B) == {i \in Ids : \A j \in DOMAIN B : i \in B[j]}
Join(B) == UNION Range(B)
Result(op, B) ==
  CASE op = "and"  -> Meet(B)
    [] op = "diff" -> Head(B) \ Join(Tail(B))
    [] OTHER -> Join(B)

NextKey(t) == loc[t].keys[Len(loc[t].got) + 1]

(* A slip: the range read reads the cache of a flushed period only.        *)
ReadCachedOnly(t) ==
  LET k == NextKey(t) IN
  /\ pc[t] = "read"
  /\ loc' = [loc EXCEPT ![t].overlay = IF ridx[k] = Absent THEN <<mem[k], memDel[k]>> ELSE <<{}, {}>>]
  /\ Goto(t, "cache")
  /\ UNCHANGED <<buffer, ridx, catalog>>

(* get_shared: the period's buffer entries ...                             *)
ReadBuffer(t) ==
  LET k == NextKey(t) IN
  /\ pc[t] = "read"
  /\ loc' = [loc EXCEPT ![t].overlay = <<mem[k], memDel[k]>>]
  /\ Goto(t, "cache")
  /\ UNCHANGED <<buffer, ridx, catalog>>

(* And and Diff stop as soon as nothing is left.                           *)
Done(t, B) ==
  \/ Len(B) = Len(loc[t].keys)
  \/ loc[t].op \in {"and", "diff"} /\ Result(loc[t].op, B) = {}

(* ... then its cache entry, or its parts.                                 *)
ReadCache(t) ==
  LET k == NextKey(t)
      stored == IF ridx[k] # Absent THEN ridx[k] ELSE Disk(k)
      got == Append(loc[t].got, Overlay(stored, loc[t].overlay[1], loc[t].overlay[2])) IN
  /\ pc[t] = "cache"
  /\ loc' = [loc EXCEPT ![t].got = got, ![t].overlay = <<{}, {}>>]
  /\ Goto(t, IF Done(t, got) THEN "got" ELSE "read")
  /\ UNCHANGED <<buffer, ridx, catalog>>

ReadReturns(t) ==
  /\ pc[t] = "got"
  /\ Return(t)
  /\ UNCHANGED <<buffer, ridx, catalog>>

-----------------------------------------------------------------------------
(* cardinality: a compacted period whose one part has no deltas is counted *)
(* in the catalog, each table read in a transaction of its own.            *)

CountBitmap(t, q) ==
  LET k == Head(q.keys) IN
  /\ q.op = "cardinality"
  /\ StartRead(t, q.op, q.keys, IF mem[k] = {} /\ memDel[k] = {} THEN "count_state" ELSE "read")

CountState(t) ==
  /\ pc[t] = "count_state"
  /\ Goto(t, IF pstate[Head(loc[t].keys)] = "Compacted" THEN "count_parts" ELSE "read")
  /\ UNCHANGED <<buffer, ridx, catalog, loc>>

CountParts(t) ==
  /\ pc[t] = "count_parts"
  /\ loc' = [loc EXCEPT ![t].olds = Listed(Head(loc[t].keys), "data")]
  /\ Goto(t, "count_deltas")
  /\ UNCHANGED <<buffer, ridx, catalog>>

(* A slip: deltas are not looked for.                                      *)
CountNoDeltas(t) ==
  /\ pc[t] = "count_deltas"
  /\ Goto(t, IF Cardinality(loc[t].olds) = 1 THEN "count_part" ELSE "read")
  /\ UNCHANGED <<buffer, ridx, catalog, loc>>

CountDeltas(t) ==
  /\ pc[t] = "count_deltas"
  /\ Goto(t, IF Cardinality(loc[t].olds) = 1 /\ Listed(Head(loc[t].keys), "delta") = {}
             THEN "count_part" ELSE "read")
  /\ UNCHANGED <<buffer, ridx, catalog, loc>>

(* The part's cardinality, unless the part is gone meanwhile.              *)
CountPart(t) ==
  /\ pc[t] = "count_part"
  /\ IF loc[t].olds \subseteq parts
     THEN /\ \E p \in loc[t].olds : loc' = [loc EXCEPT ![t].got = <<p.bits>>, ![t].olds = {}]
          /\ Goto(t, "got")
     ELSE Goto(t, "read") /\ loc' = [loc EXCEPT ![t].olds = {}]
  /\ UNCHANGED <<buffer, ridx, catalog>>

-----------------------------------------------------------------------------
(* A crash and the next open: the buffer and the calls are lost.           *)
Reopen ==
  /\ mem' = Empty /\ memDel' = Empty
  /\ ridx' = FreshIndex
  /\ pc' = [t \in Threads |-> "idle"]
  /\ loc' = [t \in Threads |-> Blank]
  /\ UNCHANGED catalog

Init ==
  /\ mem = Empty /\ memDel = Empty
  /\ ridx = [k \in Keys |-> Absent]
  /\ parts = {} /\ listed = {}
  /\ pstate = [k \in Keys |-> "None"]
  /\ nextId = 1
  /\ pc = [t \in Threads |-> "idle"]
  /\ loc = [t \in Threads |-> Blank]

Bitmaps == (SUBSET Ids) \ {{}}

(* The steps that change what the calls so far amount to ...               *)
Update(t) ==
  \/ RangeLock(t)
  \/ \E g \in Ranges, b \in Bitmaps : RemoveRange(t, g, b)
  \/ \E e \in Replacements : BulkReplace(t, e)
  \/ \E k \in Keys : DeleteLock(t, k)

(* ... and the others.                                                     *)
Internal(t) ==
  \/ \E g \in Ranges, b \in Bitmaps : PutRange(t, g, b)
  \/ RevertCompacted(t)
  \/ TakeSnapshot(t) \/ FlushTxn(t)
  \/ \E k \in Keys : CompactPeriod(t, k)
  \/ CollectOldParts(t) \/ ReplaceTxn(t)
  \/ RetainPeriods(t)
  \/ DeleteTxn(t) \/ DeletedAll(t)
  \/ StoreIndex(t)

Read(t) ==
  \/ \E q \in Queries : Query(t, q) \/ CountBitmap(t, q)
  \/ CountState(t) \/ CountParts(t) \/ CountDeltas(t) \/ CountPart(t)
  \/ ReadBuffer(t) \/ ReadCache(t) \/ ReadReturns(t)

Next == (\E t \in Threads : Update(t) \/ Internal(t) \/ Read(t)) \/ Reopen

Spec == Init /\ [][Next]_vars
=============================================================================
