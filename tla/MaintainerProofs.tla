-------------------------- MODULE MaintainerProofs --------------------------
(***************************************************************************)
(* What Engine keeps when at most one thread at a time runs a call that    *)
(* rewrites the catalog: no part is leaked, compaction changes no content, *)
(* the index and the parts directory are current between calls, get answers*)
(* with what the calls amount to, and the engine implements the write-back *)
(* store.                                                                  *)
(***************************************************************************)
EXTENDS EngineProofs, EngineHistory, EngineRefinement

Maintenance == {"flush", "compact", "replace", "delete", "drop"}

Busy(t) == loc[t].op \in Maintenance

(* At most one thread at a time is within a call that rewrites the catalog.*)
OneMaintainer == \A t, u \in Threads : Busy(t) /\ Busy(u) => t = u

Rebuilding == {"rb_list", "rb_key", "rb_data", "rb_deltas", "rb_store"}

(* The calls that can be at a label.                                       *)
CallsAt(l) ==
  CASE l \in {"idle", "get_cache", "get_txn", "get_files", "got"} -> {"get"}
    [] l = "ensure" -> {"put", "remove", "flush", "compact", "replace"}
    [] l \in {"put_revert", "put_lock"} -> {"put"}
    [] l = "remove_lock" -> {"remove"}
    [] l = "flush" -> {"flush"}
    [] l \in {"replace_lock", "data_ids"} -> {"replace"}
    [] l \in {"delta_ids", "resolve"} -> {"compact", "replace"}
    [] l = "merge" -> {"compact"}
    [] l \in {"txn", "write"} -> {"flush", "compact", "replace"}
    [] l \in {"delete", "delete_txn"} -> {"delete"}
    [] l = "drop_txn" -> {"drop"}
    [] OTHER -> Maintenance

CallFits(t) == loc[t].op \in CallsAt(pc[t])

(* Calls that work on lists the event already has.                         *)
OnEvent ==
  {"replace_lock", "data_ids", "delta_ids", "resolve", "merge", "txn", "write", "delete_txn"}

EventKnown ==
  /\ ~hasEvent => \A k \in Keys : pparts[k] = {} /\ pdeltas[k] = {}
  /\ \A t \in Threads : pc[t] \in OnEvent => hasEvent

CallsFit == EventKnown /\ \A t \in Threads : CallFits(t)

(* The registered parts whose ids are still to be looked up.               *)
Wanted(I) == {p \in parts : p.id \in I}

Overwrites(t) == loc[t].op \in {"compact", "replace"}

(* A compaction or replacement collects all the parts its key lists.       *)
CollectsAll(t) ==
  /\ pc[t] \in {"replace_lock", "data_ids"} => loc[t].olds = {}
  /\ pc[t] = "ensure" /\ loc[t].op = "replace" => loc[t].olds = {}
  /\ pc[t] = "delta_ids" => loc[t].olds = {} /\ loc[t].ids = pparts[loc[t].key]
  /\ pc[t] = "resolve" =>
       loc[t].olds \cup Wanted(loc[t].ids \cup loc[t].dids) = PartsOf(loc[t].key)
  /\ pc[t] = "merge" => loc[t].olds = PartsOf(loc[t].key)
  /\ pc[t] \in {"txn", "write"} /\ Overwrites(t) => loc[t].olds = PartsOf(loc[t].key)
  /\ pc[t] = "ensure" /\ loc[t].op = "compact" => loc[t].olds = PartsOf(loc[t].key)

(* It writes data parts of its key, which hold b.                          *)
WritesBits(t, b) ==
  /\ \A e \in loc[t].plan \cup loc[t].out : e.key = loc[t].key /\ e.kind = "data"
  /\ Writing(t, loc[t].key, "data") = b

Writes(t) ==
  /\ loc[t].op = "replace" /\ pc[t] \in {"resolve", "txn", "write"} =>
       WritesBits(t, loc[t].bits)
  /\ loc[t].op = "compact" /\ pc[t] \in {"ensure", "txn", "write"} =>
       WritesBits(t, Disk(loc[t].key))
  /\ loc[t].op = "flush" /\ pc[t] = "write" =>
       /\ \A p, q \in loc[t].out : p.kind = "data" /\ q.kind = "delta" => p.id < q.id
       /\ \A p \in loc[t].out, e \in loc[t].plan : p.kind = "delta" => e.kind = "delta"
  /\ loc[t].op \in {"delete", "drop"} => loc[t].bits = {}

(* What an index build has found is what the lists of the keys it is done  *)
(* with name.                                                              *)
Found(K) == UNION {PartsOf(k) : k \in K}

FindsAll(t) ==
  LET done == loc[t].listed \ loc[t].todo IN
  /\ pc[t] \in {"rb_key", "rb_data", "rb_deltas"} =>
       loc[t].listed = PeriodKeys /\ loc[t].todo \subseteq loc[t].listed
  /\ pc[t] = "rb_key" => loc[t].found = Found(done)
  /\ pc[t] \in {"rb_data", "rb_deltas"} => loc[t].key \in done
  /\ pc[t] = "rb_data" =>
       loc[t].found \cup Wanted(loc[t].ids \cup pdeltas[loc[t].key]) = Found(done)
  /\ pc[t] = "rb_deltas" => loc[t].found \cup Wanted(loc[t].ids) = Found(done)
  /\ pc[t] = "rb_store" => loc[t].built = FreshIndex
  /\ pc[t] \notin {"rb_key", "rb_data", "rb_deltas", "rb_store", "unlink"} => loc[t].found = {}

Maintains(t) == Busy(t) => CollectsAll(t) /\ Writes(t) /\ FindsAll(t)

IndexFresh ==
  up /\ (\A t \in Threads : pc[t] \notin Rebuilding) => ridx = FreshIndex

(* The files.                                                              *)
Mine(t) ==
  (IF pc[t] = "write" THEN loc[t].out ELSE {})
  \cup (IF pc[t] \in Rebuilding \cup {"unlink"} THEN loc[t].olds ELSE {})

FilesKnown ==
  /\ \A p \in Path : disk[p] # Absent =>
       \/ p \in parts
       \/ \E t \in Threads : p \in Mine(t)
       \/ ~up /\ \A q \in parts : q.id # p.id
  /\ \A t \in Threads : pc[t] \in Rebuilding \cup {"unlink"} =>
       \A p \in loc[t].olds, q \in parts : q.id # p.id

AllMaintain == \A t \in Threads : Maintains(t)

-----------------------------------------------------------------------------
(* What steps have in common.                                              *)

Acts(t) == Internal(t) \/ Update(t) \/ StartGet(t)

(* The commits that change which parts are listed.                         *)
Rewrites(t) == Commit(t) \/ DeleteTxn(t) \/ DropTxn(t)

(* A step moves only the thread that takes it.                             *)
LEMMA OthersStay ==
  ASSUME TypeOK, NEW t \in Threads, Acts(t)
  PROVE  \A u \in Threads \ {t} : loc'[u] = loc[u] /\ pc'[u] = pc[u]
<1> USE DEF TypeOK, Goto, Return, Call
<1>1. CASE StartCall(t)
  BY <1>1 DEF StartCall, PutBitmap, RemoveBits, ReplaceBitmap, CompactPeriod, CallOnEvent
<1>2. CASE EnsureEvent(t) \/ RevertCompacted(t) \/ TakeSnapshot(t) \/ NothingToFlush(t)
  BY <1>2 DEF EnsureEvent, RevertCompacted, TakeSnapshot, NothingToFlush
<1>3. CASE Collect(t)
  BY <1>3 DEF Collect, CollectDataIds, CollectDeltaIds, NotEligible, CollectDataPart,
    CollectDeltaPart, Collected, MergeParts, MergeFails
<1>4. CASE Transact(t)
  BY <1>4 DEF Transact, BeginTxn, WritePart, Commit, TxnFails, DeleteKnown, DeleteTxn,
    DeleteUnknown, DropTxn
<1>5. CASE Rebuild(t)
  BY <1>5 DEF Rebuild, RebuildList, RebuildDataIds, RebuildPart, RebuildDeltaIds, RebuildKeyDone,
    RebuildFold, RebuildFails, StoreIndex, UnlinkPart, CallDone
<1>6. CASE Read(t) \/ StartGet(t)
  BY <1>6 DEF Read, CacheHit, CacheMiss, ReadTxn, ReadFiles, GetReturns, StartGet, Get
<1>7. CASE Update(t)
  BY <1>7 DEF Update, PutLock, PutLockAutoFlush, RemoveLock, ReplaceLock, DeletePeriod, DropEvent
<1> QED
  BY <1>1, <1>2, <1>3, <1>4, <1>5, <1>6, <1>7 DEF Acts, Internal

(* The catalog's parts and lists change in the commits only, and the event *)
(* is registered by the others only.                                       *)
LEMMA ListsStay ==
  ASSUME TypeOK, NEW t \in Threads, Acts(t), ~Rewrites(t)
  PROVE  /\ UNCHANGED <<up, parts, pparts, pdeltas, nextId>>
         /\ hasEvent' = hasEvent \/ EnsureEvent(t)
<1> USE DEF catalog
<1>1. CASE StartCall(t)
  BY <1>1 DEF StartCall, PutBitmap, RemoveBits, ReplaceBitmap, CompactPeriod, CallOnEvent
<1>2. CASE EnsureEvent(t) \/ RevertCompacted(t) \/ TakeSnapshot(t) \/ NothingToFlush(t)
  BY <1>2 DEF EnsureEvent, RevertCompacted, TakeSnapshot, NothingToFlush
<1>3. CASE Collect(t)
  BY <1>3 DEF Collect, CollectDataIds, CollectDeltaIds, NotEligible, CollectDataPart,
    CollectDeltaPart, Collected, MergeParts, MergeFails
<1>4. CASE Transact(t)
  BY <1>4 DEF Transact, BeginTxn, WritePart, TxnFails, DeleteKnown, DeleteUnknown, Rewrites
<1>5. CASE Rebuild(t)
  BY <1>5 DEF Rebuild, RebuildList, RebuildDataIds, RebuildPart, RebuildDeltaIds, RebuildKeyDone,
    RebuildFold, RebuildFails, StoreIndex, UnlinkPart, CallDone
<1>6. CASE Read(t) \/ StartGet(t)
  BY <1>6 DEF Read, CacheHit, CacheMiss, ReadTxn, ReadFiles, GetReturns, StartGet, Get
<1>7. CASE Update(t)
  BY <1>7 DEF Update, PutLock, PutLockAutoFlush, BufferPut, RemoveLock, ReplaceLock, DeletePeriod,
    DropEvent
<1> QED
  BY <1>1, <1>2, <1>3, <1>4, <1>5, <1>6, <1>7 DEF Acts, Internal

(* Files change when a part is written or unlinked.                        *)
LEMMA FilesStay ==
  ASSUME TypeOK, NEW t \in Threads, Acts(t),
         \A e \in loc[t].plan : ~WritePart(t, e), \A p \in loc[t].olds : ~UnlinkPart(t, p)
  PROVE  disk' = disk
<1>1. CASE StartCall(t)
  BY <1>1 DEF StartCall, PutBitmap, RemoveBits, ReplaceBitmap, CompactPeriod, CallOnEvent
<1>2. CASE EnsureEvent(t) \/ RevertCompacted(t) \/ TakeSnapshot(t) \/ NothingToFlush(t)
  BY <1>2 DEF EnsureEvent, RevertCompacted, TakeSnapshot, NothingToFlush
<1>3. CASE Collect(t)
  BY <1>3 DEF Collect, CollectDataIds, CollectDeltaIds, NotEligible, CollectDataPart,
    CollectDeltaPart, Collected, MergeParts, MergeFails
<1>4. CASE Transact(t)
  BY <1>4 DEF Transact, BeginTxn, Commit, TxnFails, DeleteKnown, DeleteTxn,
    DeleteUnknown, DropTxn
<1>5. CASE Rebuild(t)
  BY <1>5 DEF Rebuild, RebuildList, RebuildDataIds, RebuildPart, RebuildDeltaIds, RebuildKeyDone,
    RebuildFold, RebuildFails, StoreIndex, CallDone
<1>6. CASE Read(t) \/ StartGet(t)
  BY <1>6 DEF Read, CacheHit, CacheMiss, ReadTxn, ReadFiles, GetReturns, StartGet, Get
<1>7. CASE Update(t)
  BY <1>7 DEF Update, PutLock, PutLockAutoFlush, BufferPut, RemoveLock, ReplaceLock, DeletePeriod,
    DropEvent
<1> QED
  BY <1>1, <1>2, <1>3, <1>4, <1>5, <1>6, <1>7 DEF Acts, Internal

(* A written file is new, so registered files do not change.               *)
LEMMA WritesAside ==
  ASSUME TypeOK, PartOwnership, NEW t \in Threads, NEW e \in loc[t].plan, WritePart(t, e)
  PROVE  /\ pc[t] = "write" /\ loc[t].nid >= nextId /\ loc[t].nid \in Nat /\ nextId \in Nat
         /\ \A p \in Path : p.id < loc[t].nid => disk'[p] = disk[p]
<1>1. OpenTxn(t) /\ pc[t] = "write"
  BY DEF PartOwnership, WritePart
<1>2. loc[t].nid >= nextId /\ loc[t].nid \in Nat /\ nextId \in Nat
  BY <1>1, FieldTypes DEF OpenTxn, TypeOK
<1>3. \A p \in Path : p.id < loc[t].nid => p # [id |-> loc[t].nid, kind |-> e.kind, key |-> e.key]
  BY <1>2, EngineAssumption
<1> QED
  BY <1>1, <1>2, <1>3 DEF WritePart, TypeOK

LEMMA RegisteredStay ==
  ASSUME TypeOK, PartOwnership, NEW t \in Threads, Acts(t)
  PROVE  \A p \in parts : p \in Path /\ disk'[p] = disk[p]
<1>1. CASE \E e \in loc[t].plan : WritePart(t, e)
  <2>1. \A p \in parts : p \in Path /\ p.id \in Nat /\ p.id < nextId
    BY EngineAssumption DEF PartOwnership, SpentIds, TypeOK, Path
  <2> QED
    BY <1>1, <2>1, WritesAside
<1>2. CASE \E p \in loc[t].olds : UnlinkPart(t, p)
  <2>1. PICK p \in loc[t].olds : UnlinkPart(t, p)
    BY <1>2
  <2>2. pc[t] = "unlink" /\ UnlinksUnregistered(t)
    BY <2>1 DEF PartOwnership, UnlinkPart
  <2>3. p \notin parts
    BY <2>2 DEF UnlinksUnregistered, Superseding, Collecting
  <2> QED
    BY <2>1, <2>3 DEF UnlinkPart, TypeOK
<1>3. CASE /\ \A e \in loc[t].plan : ~WritePart(t, e)
           /\ \A p \in loc[t].olds : ~UnlinkPart(t, p)
  BY <1>3, FilesStay DEF TypeOK
<1> QED
  BY <1>1, <1>2, <1>3

(* So what a key holds changes in those commits only.                      *)
LEMMA HeldStays ==
  ASSUME UNCHANGED <<parts, pparts, pdeltas>>, \A p \in parts : disk'[p] = disk[p],
         NEW k \in Keys
  PROVE  PartsOf(k)' = PartsOf(k) /\ Disk(k)' = Disk(k)
<1>1. PartsOf(k)' = PartsOf(k) /\ PartsOf(k) \subseteq parts
  BY DEF PartsOf
<1>2. \A p \in PartsOf(k) : Surviving(PartsOf(k), p, disk) = Surviving(PartsOf(k), p, disk')
  BY <1>1 DEF Surviving, DeltasAfter
<1>3. Fold(PartsOf(k), disk) = Fold(PartsOf(k), disk')
  BY <1>2 DEF Fold, Data
<1> QED
  BY <1>1, <1>3 DEF Disk

-----------------------------------------------------------------------------
(* Each label belongs to certain calls.                                    *)

(* Where a call is after a step, and which call it is then.                *)
LEMMA CallGoesOn ==
  ASSUME TypeOK, CallsFit, NEW t \in Threads, Acts(t)
  PROVE  /\ loc'[t].op \in CallsAt(pc'[t])
         /\ pc'[t] \in OnEvent => hasEvent' \/ Rewrites(t)
<1> USE DEF TypeOK, Goto, Return, Call, CallsAt, CallsFit, CallFits, EventKnown, OnEvent, Maintenance
<1>0. loc[t] \in Locals /\ loc[t].op \in CallsAt(pc[t]) /\ Blank.op = "get"
  BY DEF Blank
<1>1. CASE StartCall(t)
  <2>1. ASSUME NEW op \in {"put", "remove", "replace"}, NEW k \in Keys, NEW b \in SUBSET Ids,
               CallOnEvent(t, op, k, b)
        PROVE  loc'[t].op \in CallsAt(pc'[t]) /\ (pc'[t] \in OnEvent => hasEvent')
    <3>1. loc'[t].op = op /\ hasEvent' = hasEvent
      BY <2>1 DEF CallOnEvent, Blank, catalog
    <3>2. pc'[t] = IF hasEvent THEN Resume(op, k) ELSE "ensure"
      BY <2>1 DEF CallOnEvent
    <3> QED
      BY <3>1, <3>2 DEF Resume
  <2>2. ASSUME NEW k \in Keys, CompactPeriod(t, k)
        PROVE  loc'[t].op \in CallsAt(pc'[t]) /\ (pc'[t] \in OnEvent => hasEvent')
    BY <2>2 DEF CompactPeriod, Blank, catalog
  <2> QED
    BY <1>1, <2>1, <2>2 DEF StartCall, PutBitmap, RemoveBits, ReplaceBitmap, Bitmaps
<1>2. CASE EnsureEvent(t)
  <2>1. pc'[t] = Resume(loc[t].op, loc[t].key) /\ loc' = loc /\ hasEvent' /\ pc[t] = "ensure"
    BY <1>2 DEF EnsureEvent
  <2> QED
    BY <1>0, <2>1 DEF Resume
<1>3. CASE RevertCompacted(t) \/ NothingToFlush(t)
  BY <1>0, <1>3 DEF RevertCompacted, NothingToFlush
<1>4. CASE TakeSnapshot(t)
  BY <1>4 DEF TakeSnapshot, Blank
<1>5. CASE Collect(t)
  <2>1. CASE CollectDataIds(t) \/ CollectDeltaIds(t) \/ NotEligible(t)
    BY <1>0, <2>1 DEF CollectDataIds, CollectDeltaIds, NotEligible, Locals, catalog
  <2>2. CASE CollectDataPart(t) \/ CollectDeltaPart(t)
    <3>1. pc' = pc /\ hasEvent' = hasEvent /\ loc'[t].op = loc[t].op
      <4>1. CASE CollectDataPart(t)
        <5>1. PICK i \in loc[t].ids : loc' = [loc EXCEPT ![t].ids = @ \ {i},
                                               ![t].olds = @ \cup {p \in parts : p.id = i}]
          BY <4>1 DEF CollectDataPart
        <5> QED
          BY <1>0, <4>1, <5>1 DEF CollectDataPart, Locals, catalog
      <4>2. CASE CollectDeltaPart(t)
        <5>1. PICK i \in loc[t].dids : loc' = [loc EXCEPT ![t].dids = @ \ {i},
                                                ![t].olds = @ \cup {p \in parts : p.id = i}]
          BY <4>2 DEF CollectDeltaPart
        <5> QED
          BY <1>0, <4>2, <5>1 DEF CollectDeltaPart, Locals, catalog
      <4> QED
        BY <2>2, <4>1, <4>2
    <3> QED
      BY <1>0, <3>1
  <2>3. CASE Collected(t) \/ MergeParts(t) \/ MergeFails(t)
    BY <1>0, <2>3 DEF Collected, MergeParts, MergeFails, Locals, catalog
  <2> QED
    BY <1>5, <2>1, <2>2, <2>3 DEF Collect
<1>6. CASE Transact(t)
  <2>1. CASE BeginTxn(t) \/ TxnFails(t) \/ DeleteKnown(t) \/ DeleteUnknown(t)
    BY <1>0, <2>1 DEF BeginTxn, TxnFails, DeleteKnown, DeleteUnknown, Locals, catalog
  <2>2. CASE \E e \in loc[t].plan : WritePart(t, e)
    <3>1. pc' = pc /\ hasEvent' = hasEvent /\ loc'[t].op = loc[t].op
      BY <1>0, <2>2 DEF WritePart, Locals, catalog
    <3> QED
      BY <1>0, <3>1
  <2>3. CASE Rewrites(t)
    BY <1>0, <2>3 DEF Rewrites, Commit, DeleteTxn, DropTxn, Locals
  <2> QED
    BY <1>6, <2>1, <2>2, <2>3 DEF Transact, Rewrites
<1>7. CASE Rebuild(t)
  <2>1. CASE RebuildList(t) \/ \E k \in Keys : RebuildDataIds(t, k)
    <3>1. loc'[t].op = loc[t].op
      <4>1. CASE RebuildList(t)
        BY <1>0, <4>1 DEF RebuildList, Locals
      <4>2. ASSUME NEW k \in Keys, RebuildDataIds(t, k) PROVE loc'[t].op = loc[t].op
        BY <1>0, <4>2 DEF RebuildDataIds, Locals
      <4> QED
        BY <2>1, <4>1, <4>2
    <3>2. pc[t] \in {"rb_list", "rb_key"} /\ pc'[t] \in {"rb_key", "rb_data"}
      BY <2>1 DEF RebuildList, RebuildDataIds
    <3> QED
      BY <1>0, <3>1, <3>2
  <2>2. CASE RebuildPart(t)
    <3>1. pc' = pc /\ hasEvent' = hasEvent /\ loc'[t].op = loc[t].op
      <4>1. PICK i \in loc[t].ids : loc' = [loc EXCEPT ![t].ids = @ \ {i},
                                             ![t].found = @ \cup {p \in parts : p.id = i}]
        BY <2>2 DEF RebuildPart
      <4> QED
        BY <1>0, <2>2, <4>1 DEF RebuildPart, Locals, catalog
    <3> QED
      BY <1>0, <3>1
  <2>3. CASE RebuildDeltaIds(t) \/ RebuildKeyDone(t) \/ RebuildFold(t)
    <3>1. loc'[t].op = loc[t].op
      BY <1>0, <2>3 DEF RebuildDeltaIds, RebuildKeyDone, RebuildFold, Locals
    <3>2. pc[t] \in {"rb_key", "rb_data", "rb_deltas"} /\ pc'[t] \in {"rb_key", "rb_deltas", "rb_store"}
      BY <2>3 DEF RebuildDeltaIds, RebuildKeyDone, RebuildFold
    <3> QED
      BY <1>0, <3>1, <3>2
  <2>4. CASE RebuildFails(t) \/ StoreIndex(t) \/ CallDone(t)
    BY <1>0, <2>4 DEF RebuildFails, StoreIndex, CallDone, Rebuilding
  <2>5. CASE \E p \in loc[t].olds : UnlinkPart(t, p)
    BY <1>0, <2>5 DEF UnlinkPart, Locals
  <2> QED
    BY <1>7, <2>1, <2>2, <2>3, <2>4, <2>5 DEF Rebuild
<1>8. CASE Read(t) \/ StartGet(t)
  <2>1. CASE CacheHit(t) \/ CacheMiss(t) \/ ReadTxn(t)
    BY <1>0, <2>1 DEF CacheHit, CacheMiss, ReadTxn, Locals
  <2>2. CASE ReadFiles(t)
    <3>1. loc'[t].op = loc[t].op /\ pc[t] = "get_files" /\ pc'[t] = "got"
      BY <1>0, <2>2 DEF ReadFiles, Locals
    <3> QED
      BY <1>0, <3>1
  <2>3. CASE GetReturns(t) \/ StartGet(t)
    <3>1. CASE GetReturns(t)
      BY <1>0, <3>1 DEF GetReturns
    <3>2. CASE StartGet(t)
      <4>1. PICK k \in Keys : Get(t, k)
        BY <3>2 DEF StartGet
      <4>2. loc'[t] = [Blank EXCEPT !.key = k, !.gotB = mem[k], !.gotD = memDel[k]]
        BY <4>1 DEF Get
      <4>3. loc'[t].op = "get"
        BY <4>2 DEF Blank
      <4> QED
        BY <4>1, <4>3 DEF Get
    <3> QED
      BY <2>3, <3>1, <3>2
  <2> QED
    BY <1>8, <2>1, <2>2, <2>3 DEF Read
<1>9. CASE Update(t)
  <2>1. CASE PutLock(t) \/ RemoveLock(t)
    BY <1>0, <2>1 DEF PutLock, RemoveLock
  <2>4. CASE PutLockAutoFlush(t)
    BY <2>4 DEF PutLockAutoFlush, Blank
  <2>2. CASE ReplaceLock(t)
    BY <1>0, <2>2 DEF ReplaceLock, catalog
  <2>3. CASE (\E k \in Keys : DeletePeriod(t, k)) \/ DropEvent(t)
    <3>1. CASE \E k \in Keys : DeletePeriod(t, k)
      BY <3>1 DEF DeletePeriod, Blank
    <3>2. CASE DropEvent(t)
      BY <3>2 DEF DropEvent, Blank
    <3> QED
      BY <2>3, <3>1, <3>2
  <2> QED
    BY <1>9, <2>1, <2>2, <2>3, <2>4 DEF Update
<1> QED
  BY <1>1, <1>2, <1>3, <1>4, <1>5, <1>6, <1>7, <1>8, <1>9 DEF Acts, Internal

LEMMA WhenBusy ==
  ASSUME CallsFit, NEW t \in Threads
  PROVE  /\ pc[t] \in OnEvent \cup Rebuilding \cup {"flush", "delete", "drop_txn", "unlink"} => Busy(t)
         /\ Rewrites(t) => Busy(t) /\ (hasEvent \/ pc[t] = "drop_txn")
BY DEF CallsFit, CallFits, CallsAt, Busy, Maintenance, OnEvent, Rebuilding, Rewrites, Commit,
  DeleteTxn, DropTxn, EventKnown

LEMMA FitStep ==
  ASSUME TypeOK, CallsFit, OneMaintainer, NEW t \in Threads, Acts(t)
  PROVE  CallsFit'
<1>1. \A u \in Threads \ {t} : loc'[u] = loc[u] /\ pc'[u] = pc[u]
  BY OthersStay
<1>2. \A u \in Threads : CallFits(u)'
  BY <1>1, CallGoesOn DEF CallsFit, CallFits
<1>3. CASE ~Rewrites(t)
  <2>1. hasEvent => hasEvent'
    BY <1>3, ListsStay DEF EnsureEvent
  <2>2. ~hasEvent' => \A k \in Keys : pparts'[k] = {} /\ pdeltas'[k] = {}
    BY <1>3, <2>1, ListsStay DEF CallsFit, EventKnown
  <2>3. \A u \in Threads : pc'[u] \in OnEvent => hasEvent'
    BY <1>1, <1>3, <2>1, CallGoesOn DEF CallsFit, EventKnown
  <2> QED
    BY <1>2, <2>2, <2>3 DEF CallsFit, EventKnown
<1>4. CASE Rewrites(t)
  <2>1. pc'[t] = "rb_list" /\ Busy(t)
    BY <1>4, WhenBusy DEF Rewrites, Commit, DeleteTxn, DropTxn, Goto, TypeOK
  <2>2. \A u \in Threads : pc'[u] \notin OnEvent
    BY <1>1, <2>1, WhenBusy DEF OneMaintainer, OnEvent
  <2>3. hasEvent' \/ \A k \in Keys : pparts'[k] = {} /\ pdeltas'[k] = {}
    BY <1>4, WhenBusy DEF Rewrites, Commit, DeleteTxn, DropTxn, CallsFit, EventKnown, OnEvent
  <2> QED
    BY <1>2, <2>2, <2>3 DEF CallsFit, EventKnown
<1> QED
  BY <1>3, <1>4

-----------------------------------------------------------------------------
(* What a maintaining call holds.                                          *)

LEMMA PeriodKeysStay ==
  ASSUME TypeOK, CallsFit, NEW t \in Threads, Acts(t), ~Rewrites(t)
  PROVE  PeriodKeys' = PeriodKeys
<1>1. UNCHANGED <<pparts, pdeltas>> /\ (hasEvent' = hasEvent \/ EnsureEvent(t))
  BY ListsStay
<1>2. CASE hasEvent' = hasEvent
  BY <1>1, <1>2 DEF PeriodKeys
<1>3. CASE ~hasEvent
  BY <1>1, <1>3 DEF PeriodKeys, CallsFit, EventKnown
<1>4. EnsureEvent(t) => hasEvent'
  BY DEF EnsureEvent
<1> QED
  BY <1>1, <1>2, <1>3, <1>4 DEF TypeOK

(* The index a rebuild would give is another one only after such a commit. *)
LEMMA FreshStays ==
  ASSUME TypeOK, PartOwnership, CallsFit, NEW t \in Threads, Acts(t), ~Rewrites(t)
  PROVE  FreshIndex' = FreshIndex
<1>1. PeriodKeys' = PeriodKeys /\ UNCHANGED <<parts, pparts, pdeltas>>
  BY PeriodKeysStay, ListsStay
<1>2. \A p \in parts : disk'[p] = disk[p]
  BY RegisteredStay
<1>3. \A k \in Keys : Disk(k)' = Disk(k)
  BY <1>1, <1>2, HeldStays
<1> QED
  BY <1>1, <1>3 DEF FreshIndex

(* While one thread maintains, the others change nothing it relies on.     *)
LEMMA OthersIdle ==
  ASSUME TypeOK, CallsFit, OneMaintainer, NEW t \in Threads, Acts(t),
         NEW u \in Threads \ {t}, Busy(u)
  PROVE  UNCHANGED <<parts, pparts, pdeltas, nextId, disk>> /\ PeriodKeys' = PeriodKeys /\ ~Rewrites(t)
<1>1. ~Busy(t)
  BY DEF OneMaintainer
<1>2. ~Rewrites(t) /\ pc[t] \notin {"write", "unlink"}
  BY <1>1, WhenBusy DEF OnEvent
<1>3. disk' = disk
  BY <1>2, FilesStay DEF WritePart, UnlinkPart
<1> QED
  BY <1>2, <1>3, ListsStay, PeriodKeysStay

LEMMA OthersMaintain ==
  ASSUME TypeOK, PartOwnership, CallsFit, OneMaintainer, NEW t \in Threads, Acts(t),
         NEW u \in Threads \ {t}, Maintains(u)
  PROVE  Maintains(u)'
<1>1. loc'[u] = loc[u] /\ pc'[u] = pc[u]
  BY OthersStay
<1>2. CASE ~Busy(u)
  BY <1>1, <1>2 DEF Maintains, Busy
<1>3. CASE Busy(u)
  <2>1. UNCHANGED <<parts, pparts, pdeltas, disk>> /\ PeriodKeys' = PeriodKeys /\ ~Rewrites(t)
    BY <1>3, OthersIdle
  <2>2. FreshIndex' = FreshIndex
    BY <2>1, FreshStays
  <2>3. CollectsAll(u)'
    BY <1>1, <1>3, <2>1 DEF Maintains, CollectsAll, Wanted, PartsOf, Overwrites
  <2>4. Writes(u)'
    BY <1>1, <1>3, <2>1 DEF Maintains, Writes, WritesBits, Writing, Disk, PartsOf
  <2>5. FindsAll(u)'
    BY <1>1, <1>3, <2>1, <2>2 DEF Maintains, FindsAll, Found, Wanted, PartsOf
  <2> QED
    BY <2>3, <2>4, <2>5 DEF Maintains
<1> QED
  BY <1>2, <1>3

(* A call that has just begun holds nothing yet.                           *)
LEMMA StartsHoldingNothing ==
  ASSUME NEW t \in Threads, loc'[t].olds = {}, loc'[t].found = {},
         loc'[t].op \in {"delete", "drop"} => loc'[t].bits = {},
         pc'[t] = "ensure" => loc'[t].op # "compact",
         pc'[t] \in {"ensure", "replace_lock", "flush", "delete", "drop_txn"}
  PROVE  Maintains(t)'
<1>1. CollectsAll(t)'
  BY DEF CollectsAll
<1>2. Writes(t)'
  BY DEF Writes
<1>3. FindsAll(t)'
  BY DEF FindsAll
<1> QED
  BY <1>1, <1>2, <1>3 DEF Maintains

LEMMA StartsMaintain ==
  ASSUME TypeOK, NEW t \in Threads,
         \/ \E k \in Keys, b \in SUBSET Ids :
              CallOnEvent(t, "put", k, b) \/ CallOnEvent(t, "remove", k, b)
                \/ CallOnEvent(t, "replace", k, b)
         \/ TakeSnapshot(t) \/ PutLockAutoFlush(t) \/ DropEvent(t)
         \/ \E k \in Keys : DeletePeriod(t, k) \/ Get(t, k)
  PROVE  Maintains(t)'
<1> USE DEF TypeOK, Goto
<1>1. ASSUME NEW op \in {"put", "remove", "replace"}, NEW k \in Keys, NEW b \in SUBSET Ids,
             CallOnEvent(t, op, k, b)
      PROVE  Maintains(t)'
  <2>1. loc'[t].op = op /\ loc'[t].olds = {} /\ loc'[t].found = {}
    BY <1>1 DEF CallOnEvent, Call, Blank
  <2>2. pc'[t] = IF hasEvent THEN Resume(op, k) ELSE "ensure"
    BY <1>1 DEF CallOnEvent
  <2>3. CASE op = "replace"
    BY <2>1, <2>2, <2>3, StartsHoldingNothing DEF Resume
  <2>4. CASE op # "replace"
    BY <2>1, <2>4 DEF Maintains, Busy, Maintenance
  <2> QED
    BY <2>3, <2>4
<1>2. CASE TakeSnapshot(t)
  <2>1. loc'[t] = [Blank EXCEPT !.op = "flush", !.plan = Drained]
    BY <1>2 DEF TakeSnapshot
  <2>2. loc'[t].op = "flush" /\ loc'[t].olds = {} /\ loc'[t].found = {} /\ pc'[t] = "ensure"
    BY <1>2, <2>1 DEF TakeSnapshot, Blank
  <2> QED
    BY <2>2, StartsHoldingNothing
<1>3. CASE PutLockAutoFlush(t) \/ DropEvent(t)
  <2>1. /\ loc'[t].op \in {"flush", "drop"} /\ loc'[t].olds = {} /\ loc'[t].found = {}
        /\ loc'[t].bits = {} /\ pc'[t] \in {"flush", "drop_txn"}
    <3>1. CASE PutLockAutoFlush(t)
      BY <3>1 DEF PutLockAutoFlush, Blank
    <3>2. CASE DropEvent(t)
      BY <3>2 DEF DropEvent, Blank
    <3> QED
      BY <1>3, <3>1, <3>2
  <2> QED
    BY <2>1, StartsHoldingNothing
<1>4. ASSUME NEW k \in Keys, DeletePeriod(t, k) PROVE Maintains(t)'
  <2>1. /\ loc'[t].op = "delete" /\ loc'[t].olds = {} /\ loc'[t].found = {}
        /\ loc'[t].bits = {} /\ pc'[t] = "delete"
    BY <1>4 DEF DeletePeriod, Call, Blank
  <2> QED
    BY <2>1, StartsHoldingNothing
<1>5. ASSUME NEW k \in Keys, Get(t, k) PROVE Maintains(t)'
  <2>1. loc'[t] = [Blank EXCEPT !.key = k, !.gotB = mem[k], !.gotD = memDel[k]]
    BY <1>5 DEF Get
  <2>2. loc'[t].op = "get"
    BY <2>1 DEF Blank
  <2> QED
    BY <2>2 DEF Maintains, Busy, Maintenance
<1> QED
  BY <1>1, <1>2, <1>3, <1>4, <1>5

(* A call that does not maintain, or has just returned.                    *)
LEMMA NoneToMaintain ==
  ASSUME TypeOK, CallsFit, NEW t \in Threads,
         \/ PutLock(t) \/ RemoveLock(t) \/ NothingToFlush(t) \/ NotEligible(t) \/ MergeFails(t)
         \/ TxnFails(t) \/ DeleteUnknown(t) \/ RebuildFails(t) \/ CallDone(t) \/ GetReturns(t)
         \/ RevertCompacted(t) \/ CacheHit(t) \/ CacheMiss(t) \/ ReadTxn(t) \/ ReadFiles(t)
  PROVE  Maintains(t)'
<1>0. loc[t] \in Locals
  BY DEF TypeOK
<1>1. CASE \/ PutLock(t) \/ RemoveLock(t) \/ NothingToFlush(t) \/ NotEligible(t) \/ MergeFails(t)
           \/ TxnFails(t) \/ DeleteUnknown(t) \/ RebuildFails(t) \/ CallDone(t) \/ GetReturns(t)
  <2>1. Return(t)
    BY <1>1 DEF PutLock, RemoveLock, NothingToFlush, NotEligible, MergeFails, TxnFails, DeleteUnknown,
      RebuildFails, CallDone, GetReturns
  <2>2. loc'[t] = Blank
    BY <2>1 DEF Return, TypeOK
  <2> QED
    BY <2>2 DEF Maintains, Busy, Maintenance, Blank
<1>2. CASE RevertCompacted(t) \/ CacheHit(t) \/ CacheMiss(t) \/ ReadTxn(t) \/ ReadFiles(t)
  <2>1. loc'[t].op = loc[t].op
    <3>1. CASE RevertCompacted(t) \/ CacheMiss(t)
      BY <3>1 DEF RevertCompacted, CacheMiss
    <3>2. CASE CacheHit(t) \/ ReadTxn(t)
      BY <1>0, <3>2 DEF CacheHit, ReadTxn, Locals, TypeOK
    <3>3. CASE ReadFiles(t)
      BY <1>0, <3>3 DEF ReadFiles, Locals, TypeOK
    <3> QED
      BY <1>2, <3>1, <3>2, <3>3
  <2>2. pc[t] \in {"put_revert", "get_cache", "get_txn", "get_files"}
    BY <1>2 DEF RevertCompacted, CacheHit, CacheMiss, ReadTxn, ReadFiles
  <2>3. loc[t].op \in {"put", "get"}
    BY <2>2 DEF CallsFit, CallFits, CallsAt
  <2> QED
    BY <2>1, <2>3 DEF Maintains, Busy, Maintenance
<1> QED
  BY <1>1, <1>2

(* Each step of a maintaining call keeps what the call holds in order.     *)

LEMMA EnsureEventMaintains ==
  ASSUME TypeOK, CallsFit, NEW t \in Threads, EnsureEvent(t), Maintains(t)
  PROVE  Maintains(t)'
<1>1. /\ pc[t] = "ensure" /\ pc'[t] = Resume(loc[t].op, loc[t].key) /\ loc' = loc
      /\ UNCHANGED <<parts, pparts, pdeltas, disk>>
  BY DEF EnsureEvent, Goto, TypeOK
<1>2. loc[t].op \in {"put", "remove", "flush", "compact", "replace"}
  BY <1>1 DEF CallsFit, CallFits, CallsAt
<1>3. CASE loc[t].op \in {"put", "remove"}
  BY <1>1, <1>3 DEF Maintains, Busy, Maintenance
<1>4. CASE loc[t].op = "replace"
  <2>1. pc'[t] = "replace_lock" /\ Busy(t)
    BY <1>1, <1>4 DEF Resume, Busy, Maintenance
  <2> QED
    BY <1>1, <1>4, <2>1, StartsHoldingNothing DEF Maintains, CollectsAll, FindsAll
<1>5. CASE loc[t].op \in {"flush", "compact"}
  <2>1. pc'[t] = "txn" /\ Busy(t)
    BY <1>1, <1>5 DEF Resume, Busy, Maintenance
  <2>2. CollectsAll(t)'
    BY <1>1, <1>5, <2>1 DEF Maintains, CollectsAll, PartsOf, Overwrites
  <2>3. Writes(t)'
    BY <1>1, <1>5, <2>1 DEF Maintains, Writes, WritesBits, Writing, Disk, PartsOf
  <2>4. FindsAll(t)'
    BY <1>1, <2>1 DEF Maintains, FindsAll
  <2> QED
    BY <2>2, <2>3, <2>4 DEF Maintains
<1> QED
  BY <1>2, <1>3, <1>4, <1>5

LEMMA CompactPeriodMaintains ==
  ASSUME TypeOK, NEW t \in Threads, NEW k \in Keys, CompactPeriod(t, k)
  PROVE  Maintains(t)'
<1>1. loc'[t] = [Blank EXCEPT !.op = "compact", !.key = k, !.ids = pparts[k]]
  BY DEF CompactPeriod, TypeOK
<1>2. /\ loc'[t].op = "compact" /\ loc'[t].key = k /\ loc'[t].ids = pparts[k]
      /\ loc'[t].olds = {} /\ loc'[t].found = {}
  BY <1>1 DEF Blank
<1>3. pc'[t] = "delta_ids" /\ pparts' = pparts
  BY DEF CompactPeriod, Goto, TypeOK, catalog
<1>4. CollectsAll(t)' /\ Writes(t)' /\ FindsAll(t)'
  BY <1>2, <1>3 DEF CollectsAll, Writes, FindsAll
<1> QED
  BY <1>4 DEF Maintains

LEMMA ReplaceLockMaintains ==
  ASSUME TypeOK, CallsFit, NEW t \in Threads, ReplaceLock(t), Maintains(t)
  PROVE  Maintains(t)'
<1>1. pc[t] = "replace_lock" /\ pc'[t] = "data_ids" /\ loc' = loc
  BY DEF ReplaceLock, Goto, TypeOK
<1>2. loc[t].op = "replace" /\ Busy(t)
  BY <1>1 DEF CallsFit, CallFits, CallsAt, Busy, Maintenance
<1>3. CollectsAll(t)' /\ Writes(t)' /\ FindsAll(t)'
  BY <1>1, <1>2 DEF Maintains, CollectsAll, Writes, FindsAll
<1> QED
  BY <1>3 DEF Maintains

LEMMA CollectDataIdsMaintains ==
  ASSUME TypeOK, CallsFit, NEW t \in Threads, CollectDataIds(t), Maintains(t)
  PROVE  Maintains(t)'
<1>0. loc[t] \in Locals
  BY DEF TypeOK
<1>1. /\ loc'[t].op = loc[t].op /\ loc'[t].key = loc[t].key /\ loc'[t].olds = loc[t].olds
      /\ loc'[t].ids = pparts[loc[t].key] /\ loc'[t].found = loc[t].found
  BY <1>0 DEF CollectDataIds, TypeOK, Locals
<1>2. pc[t] = "data_ids" /\ pc'[t] = "delta_ids" /\ pparts' = pparts
  BY DEF CollectDataIds, Goto, TypeOK, catalog
<1>3. loc[t].op = "replace" /\ Busy(t)
  BY <1>2 DEF CallsFit, CallFits, CallsAt, Busy, Maintenance
<1>4. CollectsAll(t)' /\ Writes(t)' /\ FindsAll(t)'
  BY <1>1, <1>2, <1>3 DEF Maintains, CollectsAll, Writes, FindsAll
<1> QED
  BY <1>4 DEF Maintains

LEMMA CollectDeltaIdsMaintains ==
  ASSUME TypeOK, PartOwnership, CallsFit, NEW t \in Threads, CollectDeltaIds(t), Maintains(t)
  PROVE  Maintains(t)'
<1> DEFINE k == loc[t].key
<1>0. loc[t] \in Locals
  BY DEF TypeOK
<1>1. /\ loc'[t].op = loc[t].op /\ loc'[t].key = k /\ loc'[t].olds = loc[t].olds
      /\ loc'[t].ids = loc[t].ids /\ loc'[t].dids = pdeltas[k] /\ loc'[t].found = loc[t].found
      /\ loc'[t].bits = loc[t].bits /\ loc'[t].out = loc[t].out
      /\ loc[t].op # "compact" =>
           loc'[t].plan = {[key |-> k, kind |-> "data", bits |-> loc[t].bits]}
  BY <1>0 DEF CollectDeltaIds, TypeOK, Locals
<1>2. /\ pc[t] = "delta_ids" /\ pc'[t] = "resolve"
      /\ UNCHANGED <<parts, pparts, pdeltas, disk>>
  BY DEF CollectDeltaIds, Goto, TypeOK, catalog
<1>3. loc[t].op \in {"compact", "replace"} /\ Busy(t)
  BY <1>2 DEF CallsFit, CallFits, CallsAt, Busy, Maintenance
<1>4. loc[t].olds = {} /\ loc[t].ids = pparts[k] /\ loc[t].found = {}
  BY <1>2, <1>3 DEF Maintains, CollectsAll, FindsAll
<1>5. loc[t].out = {}
  BY <1>2 DEF PartOwnership, CollectsOwnKey, Superseding, Collecting
<1> HIDE DEF k
<1>6. CollectsAll(t)'
  BY <1>1, <1>2, <1>3, <1>4 DEF CollectsAll, Wanted, PartsOf
<1>7. ASSUME loc[t].op = "replace" PROVE Writes(t)'
  <2>1. loc'[t].out = {} /\ loc'[t].plan = {[key |-> k, kind |-> "data", bits |-> loc[t].bits]}
    BY <1>1, <1>5, <1>7
  <2>2. \A e \in loc'[t].plan : e.key = k /\ e.kind = "data" /\ e.bits = loc[t].bits
    BY <2>1
  <2>3. WritesBits(t, loc[t].bits)'
    <3>1. {f \in loc'[t].plan : f.key = k /\ f.kind = "data"} = loc'[t].plan
      BY <2>2
    <3>2. UNION {e.bits : e \in loc'[t].plan} = loc[t].bits
      BY <2>1
    <3> QED
      BY <1>1, <2>1, <2>2, <3>1, <3>2 DEF WritesBits, Writing
  <2> QED
    BY <1>1, <1>2, <1>7, <2>3 DEF Writes
<1>8. ASSUME loc[t].op = "compact" PROVE Writes(t)'
  BY <1>1, <1>2, <1>8 DEF Writes
<1>9. FindsAll(t)'
  BY <1>1, <1>2, <1>4 DEF FindsAll
<1> QED
  BY <1>3, <1>6, <1>7, <1>8, <1>9 DEF Maintains

LEMMA CollectPartMaintains ==
  ASSUME TypeOK, CallsFit, NEW t \in Threads, Maintains(t),
         CollectDataPart(t) \/ CollectDeltaPart(t)
  PROVE  Maintains(t)'
<1> DEFINE Same == /\ loc'[t].op = loc[t].op /\ loc'[t].key = loc[t].key /\ loc'[t].out = loc[t].out
                   /\ loc'[t].plan = loc[t].plan /\ loc'[t].bits = loc[t].bits
                   /\ loc'[t].found = loc[t].found
<1>0. loc[t] \in Locals
  BY DEF TypeOK
<1>1. PICK i \in loc[t].ids \cup loc[t].dids :
        /\ Same
        /\ loc'[t].olds = loc[t].olds \cup {p \in parts : p.id = i}
        /\ \/ loc'[t].ids = loc[t].ids \ {i} /\ loc'[t].dids = loc[t].dids
           \/ loc'[t].dids = loc[t].dids \ {i} /\ loc'[t].ids = loc[t].ids
  <2>1. CASE CollectDataPart(t)
    <3>1. PICK i \in loc[t].ids :
            loc' = [loc EXCEPT ![t].ids = @ \ {i},
                               ![t].olds = @ \cup {p \in parts : p.id = i}]
      BY <2>1 DEF CollectDataPart
    <3>2. loc'[t].ids = loc[t].ids \ {i} /\ loc'[t].dids = loc[t].dids
      BY <1>0, <3>1 DEF TypeOK, Locals
    <3>3. loc'[t].olds = loc[t].olds \cup {p \in parts : p.id = i}
      BY <1>0, <3>1 DEF TypeOK, Locals
    <3>4. Same
      BY <1>0, <3>1 DEF TypeOK, Locals
    <3> HIDE DEF Same
    <3> QED
      BY <3>2, <3>3, <3>4
  <2>2. CASE CollectDeltaPart(t)
    <3>1. PICK i \in loc[t].dids :
            loc' = [loc EXCEPT ![t].dids = @ \ {i},
                               ![t].olds = @ \cup {p \in parts : p.id = i}]
      BY <2>2 DEF CollectDeltaPart
    <3>2. loc'[t].dids = loc[t].dids \ {i} /\ loc'[t].ids = loc[t].ids
      BY <1>0, <3>1 DEF TypeOK, Locals
    <3>3. loc'[t].olds = loc[t].olds \cup {p \in parts : p.id = i}
      BY <1>0, <3>1 DEF TypeOK, Locals
    <3>4. Same
      BY <1>0, <3>1 DEF TypeOK, Locals
    <3> HIDE DEF Same
    <3> QED
      BY <3>2, <3>3, <3>4
  <2> QED
    BY <2>1, <2>2
<1>2. /\ pc[t] = "resolve" /\ pc'[t] = "resolve"
      /\ UNCHANGED <<parts, pparts, pdeltas, disk>>
  BY DEF CollectDataPart, CollectDeltaPart, catalog
<1>3. loc[t].op \in {"compact", "replace"} /\ Busy(t)
  BY <1>2 DEF CallsFit, CallFits, CallsAt, Busy, Maintenance
<1>4. CollectsAll(t)'
  <2>1. loc[t].olds \cup Wanted(loc[t].ids \cup loc[t].dids) = PartsOf(loc[t].key)
    BY <1>2, <1>3 DEF Maintains, CollectsAll
  <2>2. loc'[t].olds \cup {p \in parts : p.id \in loc'[t].ids \cup loc'[t].dids}
          = loc[t].olds \cup {p \in parts : p.id \in loc[t].ids \cup loc[t].dids}
    BY <1>1
  <2> QED
    BY <1>1, <1>2, <1>3, <2>1, <2>2 DEF CollectsAll, Wanted, PartsOf
<1>5. Writes(t)'
  BY <1>1, <1>2, <1>3 DEF Maintains, Writes, WritesBits, Writing
<1>6. FindsAll(t)'
  BY <1>1, <1>2, <1>3 DEF Maintains, FindsAll
<1> QED
  BY <1>4, <1>5, <1>6 DEF Maintains

LEMMA CollectedMaintains ==
  ASSUME TypeOK, CallsFit, NEW t \in Threads, Maintains(t), Collected(t)
  PROVE  Maintains(t)'
<1>1. /\ pc[t] = "resolve" /\ loc' = loc /\ loc[t].ids = {} /\ loc[t].dids = {}
      /\ pc'[t] = IF loc[t].op = "compact" THEN "merge" ELSE "txn"
      /\ UNCHANGED <<parts, pparts, pdeltas, disk>>
  BY DEF Collected, Goto, TypeOK, catalog
<1>2. loc[t].op \in {"compact", "replace"} /\ Busy(t)
  BY <1>1 DEF CallsFit, CallFits, CallsAt, Busy, Maintenance
<1>3. loc[t].olds = PartsOf(loc[t].key)
  BY <1>1, <1>2 DEF Maintains, CollectsAll, Wanted
<1>4. CollectsAll(t)'
  BY <1>1, <1>3 DEF CollectsAll, PartsOf
<1>5. Writes(t)'
  BY <1>1, <1>2 DEF Maintains, Writes, WritesBits, Writing
<1>6. FindsAll(t)'
  BY <1>1, <1>2 DEF Maintains, FindsAll
<1> QED
  BY <1>4, <1>5, <1>6 DEF Maintains

LEMMA MergePartsMaintains ==
  ASSUME TypeOK, PartOwnership, CallsFit, NEW t \in Threads, Maintains(t), MergeParts(t)
  PROVE  Maintains(t)'
<1> DEFINE k == loc[t].key
           b == Fold(loc[t].olds, disk)
<1>0. loc[t] \in Locals
  BY DEF TypeOK
<1>1. /\ loc'[t].op = loc[t].op /\ loc'[t].key = k /\ loc'[t].olds = loc[t].olds
      /\ loc'[t].found = loc[t].found /\ loc'[t].out = loc[t].out
      /\ loc'[t].plan = {[key |-> k, kind |-> "data", bits |-> b]}
  BY <1>0 DEF MergeParts, TypeOK, Locals
<1>2. /\ pc[t] = "merge" /\ pc'[t] = "ensure"
      /\ UNCHANGED <<parts, pparts, pdeltas, disk>>
  BY DEF MergeParts, Goto, TypeOK, catalog
<1>3. loc[t].op = "compact" /\ Busy(t)
  BY <1>2 DEF CallsFit, CallFits, CallsAt, Busy, Maintenance
<1>4. loc[t].olds = PartsOf(k) /\ loc[t].found = {}
  BY <1>2, <1>3 DEF Maintains, CollectsAll, FindsAll
<1>5. loc[t].out = {}
  BY <1>2 DEF PartOwnership, CollectsOwnKey, Superseding, Collecting
<1>6. b = Disk(k)
  BY <1>4 DEF Disk
<1> HIDE DEF b, k
<1>7. CollectsAll(t)'
  BY <1>1, <1>2, <1>3, <1>4 DEF CollectsAll, PartsOf
<1>8. \A e \in loc'[t].plan : e.key = k /\ e.kind = "data" /\ e.bits = b
  BY <1>1
<1>9. Writes(t)'
  <2>1. {f \in loc'[t].plan : f.key = k /\ f.kind = "data"} = loc'[t].plan
    BY <1>8
  <2>2. UNION {e.bits : e \in loc'[t].plan} = b
    BY <1>1
  <2>3. UNION {e.bits : e \in {f \in loc'[t].plan : f.key = loc'[t].key /\ f.kind = "data"}} = b
    BY <1>1, <2>1, <2>2
  <2>4. b = Fold({p \in parts' : p.id \in pparts'[loc'[t].key] \cup pdeltas'[loc'[t].key]}, disk')
    BY <1>1, <1>2, <1>6 DEF Disk, PartsOf
  <2>5. \A e \in loc'[t].plan \cup loc'[t].out : e.key = loc'[t].key /\ e.kind = "data"
    BY <1>1, <1>5, <1>8
  <2>6. loc'[t].out = {}
    BY <1>1, <1>5
  <2>7. WritesBits(t, Disk(loc[t].key))'
    BY <2>3, <2>4, <2>5, <2>6 DEF WritesBits, Writing, Disk, PartsOf
  <2> QED
    BY <1>1, <1>2, <1>3, <2>7 DEF Writes
<1>10. FindsAll(t)'
  BY <1>1, <1>2, <1>4 DEF FindsAll
<1> QED
  BY <1>7, <1>9, <1>10 DEF Maintains

(* The bits of planned entries and of files.                               *)
BitsIn(plan, out, d, k, kind) ==
  (UNION {e.bits : e \in {f \in plan : f.key = k /\ f.kind = kind}})
  \cup (UNION {d[p] : p \in {q \in out : q.key = k /\ q.kind = kind}})

(* Writing a part moves an entry from the plan to a new file.              *)
LEMMA PartWritten ==
  ASSUME TypeOK, PartOwnership, NEW t \in Threads, NEW e \in loc[t].plan, WritePart(t, e)
  PROVE  \E p \in Path :
           /\ p.kind = e.kind /\ p.key = e.key /\ p.id = loc[t].nid /\ p \notin loc[t].out
           /\ loc'[t].out = loc[t].out \cup {p} /\ loc'[t].plan = loc[t].plan \ {e}
           /\ disk'[p] = e.bits
           /\ \A q \in loc[t].out : disk'[q] = disk[q] /\ q.id < p.id
           /\ loc'[t].op = loc[t].op /\ loc'[t].key = loc[t].key /\ loc'[t].bits = loc[t].bits
           /\ loc'[t].olds = loc[t].olds /\ loc'[t].found = loc[t].found
<1> DEFINE p == [id |-> loc[t].nid, kind |-> e.kind, key |-> e.key]
<1>1. loc[t] \in Locals /\ e \in Entry /\ p \in Path
  BY FieldTypes DEF TypeOK, WritePart, Entry, Path
<1>2. p.kind = e.kind /\ p.key = e.key /\ p.id = loc[t].nid
  OBVIOUS
<1>3. /\ loc'[t].out = loc[t].out \cup {p} /\ loc'[t].plan = loc[t].plan \ {e}
      /\ loc'[t].op = loc[t].op /\ loc'[t].key = loc[t].key /\ loc'[t].bits = loc[t].bits
      /\ loc'[t].olds = loc[t].olds /\ loc'[t].found = loc[t].found
  BY <1>1 DEF WritePart, TypeOK, Locals
<1>4. disk'[p] = e.bits
  BY <1>1 DEF WritePart, TypeOK
<1> HIDE DEF p
<1>5. \A q \in loc[t].out : q \in Path /\ q.id < loc[t].nid
  <2>1. OpenTxn(t) /\ pc[t] = "write"
    BY DEF PartOwnership, WritePart
  <2> QED
    BY <1>1, <2>1, FieldTypes DEF OpenTxn
<1>6. \A q \in loc[t].out : disk'[q] = disk[q]
  BY <1>5, WritesAside
<1>7. p \notin loc[t].out
  BY <1>2, <1>5, WritesAside
<1> QED
  BY <1>1, <1>2, <1>3, <1>4, <1>5, <1>6, <1>7

LEMMA InSomeEntry ==
  ASSUME NEW E, NEW x
  PROVE  x \in UNION {e.bits : e \in E} <=> \E e \in E : x \in e.bits
BY SMT

LEMMA BitsMembers ==
  ASSUME NEW plan, NEW out, NEW d, NEW k, NEW kind, NEW x
  PROVE  x \in BitsIn(plan, out, d, k, kind) <=>
           \/ \E f \in plan : f.key = k /\ f.kind = kind /\ x \in f.bits
           \/ \E q \in out : q.key = k /\ q.kind = kind /\ x \in d[q]
<1> DEFINE E == {f \in plan : f.key = k /\ f.kind = kind}
           Q == {q \in out : q.key = k /\ q.kind = kind}
           U == UNION {e.bits : e \in E}
           V == UNION {d[p] : p \in Q}
<1>1. (\E e \in E : x \in e.bits) <=> \E f \in plan : f.key = k /\ f.kind = kind /\ x \in f.bits
  OBVIOUS
<1>2. (\E q \in Q : x \in d[q]) <=> \E q \in out : q.key = k /\ q.kind = kind /\ x \in d[q]
  OBVIOUS
<1>3. BitsIn(plan, out, d, k, kind) = U \cup V
  BY Zenon DEF BitsIn
<1> HIDE DEF E, Q
<1>4. x \in U <=> \E e \in E : x \in e.bits
  BY InSomeEntry
<1>5. x \in V <=> \E q \in Q : x \in d[q]
  OBVIOUS
<1> HIDE DEF U, V
<1> QED
  BY <1>1, <1>2, <1>3, <1>4, <1>5

LEMMA WritingStays ==
  ASSUME TypeOK, PartOwnership, NEW t \in Threads, NEW e \in loc[t].plan, WritePart(t, e)
  PROVE  \A k, kind :
           BitsIn(loc'[t].plan, loc'[t].out, disk', k, kind)
             = BitsIn(loc[t].plan, loc[t].out, disk, k, kind)
<1>1. PICK p \in Path :
        /\ p.kind = e.kind /\ p.key = e.key
        /\ loc'[t].out = loc[t].out \cup {p} /\ loc'[t].plan = loc[t].plan \ {e}
        /\ disk'[p] = e.bits
        /\ \A q \in loc[t].out : disk'[q] = disk[q]
  BY PartWritten
<1>2. ASSUME NEW k, NEW kind, NEW x
      PROVE  x \in BitsIn(loc'[t].plan, loc'[t].out, disk', k, kind)
               <=> x \in BitsIn(loc[t].plan, loc[t].out, disk, k, kind)
  <2>1. (\E f \in loc[t].plan : f.key = k /\ f.kind = kind /\ x \in f.bits)
          <=> \/ \E f \in loc'[t].plan : f.key = k /\ f.kind = kind /\ x \in f.bits
              \/ e.key = k /\ e.kind = kind /\ x \in e.bits
    BY <1>1
  <2>2. (\E q \in loc'[t].out : q.key = k /\ q.kind = kind /\ x \in disk'[q])
          <=> \/ \E q \in loc[t].out : q.key = k /\ q.kind = kind /\ x \in disk[q]
              \/ e.key = k /\ e.kind = kind /\ x \in e.bits
    BY <1>1
  <2> QED
    BY <2>1, <2>2, BitsMembers
<1>3. ASSUME NEW k, NEW kind
      PROVE  BitsIn(loc'[t].plan, loc'[t].out, disk', k, kind)
               = BitsIn(loc[t].plan, loc[t].out, disk, k, kind)
  <2>1. /\ BitsIn(loc'[t].plan, loc'[t].out, disk', k, kind)
             \subseteq BitsIn(loc[t].plan, loc[t].out, disk, k, kind)
        /\ BitsIn(loc[t].plan, loc[t].out, disk, k, kind)
             \subseteq BitsIn(loc'[t].plan, loc'[t].out, disk', k, kind)
    BY <1>2
  <2> QED
    BY <2>1
<1> QED
  BY <1>3

LEMMA BeginTxnMaintains ==
  ASSUME TypeOK, PartOwnership, CallsFit, NEW t \in Threads, BeginTxn(t), Maintains(t)
  PROVE  Maintains(t)'
<1>0. loc[t] \in Locals
  BY DEF TypeOK
<1>1. /\ loc'[t].op = loc[t].op /\ loc'[t].key = loc[t].key /\ loc'[t].out = loc[t].out
      /\ loc'[t].plan = loc[t].plan /\ loc'[t].bits = loc[t].bits
      /\ loc'[t].olds = loc[t].olds /\ loc'[t].found = loc[t].found
  BY <1>0 DEF BeginTxn, TypeOK, Locals
<1>2. /\ pc[t] = "txn" /\ pc'[t] = "write"
      /\ UNCHANGED <<parts, pparts, pdeltas, disk>>
  BY DEF BeginTxn, Goto, TypeOK, catalog
<1>3. loc[t].op \in {"flush", "compact", "replace"} /\ Busy(t)
  BY <1>2 DEF CallsFit, CallFits, CallsAt, Busy, Maintenance
<1>4. loc[t].out = {}
  BY <1>2 DEF PartOwnership, OpenTxn
<1>5. CollectsAll(t)'
  BY <1>1, <1>2, <1>3 DEF Maintains, CollectsAll, Overwrites, PartsOf
<1>6. Writes(t)'
  BY <1>1, <1>2, <1>3, <1>4 DEF Maintains, Writes, WritesBits, Writing, Disk, PartsOf
<1>7. FindsAll(t)'
  BY <1>1, <1>2, <1>3 DEF Maintains, FindsAll
<1> QED
  BY <1>5, <1>6, <1>7 DEF Maintains

LEMMA WritePartMaintains ==
  ASSUME TypeOK, PartOwnership, CallsFit, NEW t \in Threads, NEW e \in loc[t].plan, WritePart(t, e),
         Maintains(t)
  PROVE  Maintains(t)'
<1>1. PICK p \in Path :
        /\ p.kind = e.kind /\ p.key = e.key
        /\ loc'[t].out = loc[t].out \cup {p} /\ loc'[t].plan = loc[t].plan \ {e}
        /\ \A q \in loc[t].out : q.id < p.id
        /\ loc'[t].op = loc[t].op /\ loc'[t].key = loc[t].key /\ loc'[t].bits = loc[t].bits
        /\ loc'[t].olds = loc[t].olds /\ loc'[t].found = loc[t].found
  BY PartWritten
<1>2. /\ pc[t] = "write" /\ pc' = pc
      /\ UNCHANGED <<parts, pparts, pdeltas>>
      /\ e.kind = "delta" => \A f \in loc[t].plan : f.kind = "delta"
  BY DEF WritePart, catalog
<1>3. loc[t].op \in {"flush", "compact", "replace"} /\ Busy(t)
  BY <1>2 DEF CallsFit, CallFits, CallsAt, Busy, Maintenance
<1>4. CollectsAll(t)'
  BY <1>1, <1>2, <1>3 DEF Maintains, CollectsAll, Overwrites, PartsOf
<1>5. Writes(t)'
  <2>1. CASE loc[t].op \in {"replace", "compact"}
    <3>1. \A f \in loc'[t].plan \cup loc'[t].out : f.key = loc'[t].key /\ f.kind = "data"
      BY <1>1, <1>2, <1>3, <2>1 DEF Maintains, Writes, WritesBits
    <3>2. BitsIn(loc'[t].plan, loc'[t].out, disk', loc'[t].key, "data")
            = BitsIn(loc[t].plan, loc[t].out, disk, loc[t].key, "data")
      <4>1. \A k : BitsIn(loc'[t].plan, loc'[t].out, disk', k, "data")
                    = BitsIn(loc[t].plan, loc[t].out, disk, k, "data")
        BY WritingStays
      <4> QED
        BY <1>1, <4>1
    <3>3. BitsIn(loc[t].plan, loc[t].out, disk, loc[t].key, "data")
            = IF loc[t].op = "replace" THEN loc[t].bits ELSE Disk(loc[t].key)
      BY <1>2, <1>3, <2>1 DEF Maintains, Writes, WritesBits, Writing, BitsIn
    <3>4. \A k \in Keys : Disk(k)' = Disk(k)
      <4>1. \A q \in parts : disk'[q] = disk[q]
        BY RegisteredStay DEF Acts, Internal, Transact
      <4> QED
        BY <1>2, <4>1, HeldStays
    <3>5. Disk(loc[t].key) = Fold({q \in parts' : q.id \in pparts'[loc'[t].key] \cup pdeltas'[loc'[t].key]}, disk')
      <4>1. loc[t].key \in Keys /\ loc[t] \in Locals
        BY FieldTypes DEF TypeOK
      <4>2. PICK k \in Keys : k = loc[t].key
        BY <4>1
      <4>3. Disk(k) = Fold({q \in parts' : q.id \in pparts'[k] \cup pdeltas'[k]}, disk')
        BY <3>4 DEF Disk, PartsOf
      <4> QED
        BY <1>1, <4>2, <4>3
    <3>6. ASSUME loc[t].op = "replace" PROVE WritesBits(t, loc[t].bits)'
      BY <1>1, <3>1, <3>2, <3>3, <3>6 DEF WritesBits, Writing, BitsIn
    <3>7. ASSUME loc[t].op = "compact" PROVE WritesBits(t, Disk(loc[t].key))'
      <4>1. BitsIn(loc'[t].plan, loc'[t].out, disk', loc'[t].key, "data")
              = Fold({q \in parts' : q.id \in pparts'[loc'[t].key] \cup pdeltas'[loc'[t].key]}, disk')
        BY <3>2, <3>3, <3>5, <3>7
      <4> QED
        BY <3>1, <4>1 DEF WritesBits, Writing, BitsIn, Disk, PartsOf
    <3> QED
      BY <1>1, <2>1, <3>6, <3>7 DEF Writes
  <2>2. CASE loc[t].op = "flush"
    <3>1. /\ \A q, r \in loc[t].out : q.kind = "data" /\ r.kind = "delta" => q.id < r.id
          /\ \A q \in loc[t].out, f \in loc[t].plan : q.kind = "delta" => f.kind = "delta"
      BY <1>2, <1>3, <2>2 DEF Maintains, Writes
    <3>2. \A q, r \in loc'[t].out : q.kind = "data" /\ r.kind = "delta" => q.id < r.id
      BY <1>1, <3>1
    <3>3. \A q \in loc'[t].out, f \in loc'[t].plan : q.kind = "delta" => f.kind = "delta"
      BY <1>1, <1>2, <3>1
    <3> QED
      BY <1>1, <2>2, <3>2, <3>3 DEF Writes
  <2> QED
    BY <1>3, <2>1, <2>2
<1>6. FindsAll(t)'
  BY <1>1, <1>2, <1>3 DEF Maintains, FindsAll
<1> QED
  BY <1>4, <1>5, <1>6 DEF Maintains

(* After a commit the index build starts from nothing.                     *)
LEMMA RewritesMaintains ==
  ASSUME TypeOK, CallsFit, NEW t \in Threads, Rewrites(t), Maintains(t)
  PROVE  Maintains(t)'
<1>0. loc[t] \in Locals
  BY DEF TypeOK
<1>1. /\ loc'[t].op = loc[t].op /\ loc'[t].bits = loc[t].bits /\ loc'[t].found = loc[t].found
      /\ pc[t] \in {"write", "delete_txn", "drop_txn"} /\ pc'[t] = "rb_list"
  BY <1>0 DEF Rewrites, Commit, DeleteTxn, DropTxn, Goto, TypeOK, Locals
<1>2. Busy(t)
  BY WhenBusy
<1>3. CollectsAll(t)' /\ Writes(t)' /\ FindsAll(t)'
  BY <1>1, <1>2 DEF Maintains, CollectsAll, Writes, FindsAll
<1> QED
  BY <1>3 DEF Maintains

(* The index build.                                                        *)
LEMMA RebuildingMaintains ==
  ASSUME CallsFit, NEW t \in Threads, Maintains(t),
         pc[t] \in Rebuilding \cup {"unlink"}, pc'[t] \in Rebuilding \cup {"unlink"},
         loc'[t].op = loc[t].op, loc'[t].bits = loc[t].bits, FindsAll(t)'
  PROVE  Maintains(t)'
<1>1. Busy(t)
  BY WhenBusy
<1>2. CollectsAll(t)'
  BY DEF CollectsAll, Rebuilding
<1>3. Writes(t)'
  BY <1>1 DEF Maintains, Writes, Rebuilding
<1> QED
  BY <1>2, <1>3 DEF Maintains

LEMMA FoundMore ==
  ASSUME NEW K, NEW k PROVE Found(K \cup {k}) = Found(K) \cup PartsOf(k)
<1> DEFINE F == {PartsOf(j) : j \in K}
<1>1. {PartsOf(j) : j \in K \cup {k}} = F \cup {PartsOf(k)}
  OBVIOUS
<1>2. UNION (F \cup {PartsOf(k)}) = (UNION F) \cup PartsOf(k)
  <2> HIDE DEF F
  <2> QED
    OBVIOUS
<1> QED
  BY <1>1, <1>2 DEF Found

LEMMA RebuildListMaintains ==
  ASSUME TypeOK, CallsFit, NEW t \in Threads, Maintains(t), RebuildList(t)
  PROVE  Maintains(t)'
<1>0. loc[t] \in Locals
  BY DEF TypeOK
<1>1. /\ loc'[t].op = loc[t].op /\ loc'[t].bits = loc[t].bits /\ loc'[t].found = loc[t].found
      /\ loc'[t].todo = PeriodKeys /\ loc'[t].listed = PeriodKeys
  BY <1>0 DEF RebuildList, TypeOK, Locals
<1>2. pc[t] = "rb_list" /\ pc'[t] = "rb_key" /\ PeriodKeys' = PeriodKeys
  BY DEF RebuildList, Goto, TypeOK, catalog, PeriodKeys
<1>3. loc[t].found = {}
  BY <1>2, WhenBusy DEF Maintains, FindsAll, Rebuilding
<1>4. (UNION {PartsOf(k) : k \in {}})' = {}
  OBVIOUS
<1>5. loc'[t].listed \ loc'[t].todo = {}
  BY <1>1
<1>6. FindsAll(t)'
  BY <1>1, <1>2, <1>3, <1>4, <1>5 DEF FindsAll, Found
<1> QED
  BY <1>1, <1>2, <1>6, RebuildingMaintains DEF Rebuilding

LEMMA RebuildDataIdsMaintains ==
  ASSUME TypeOK, CallsFit, NEW t \in Threads, Maintains(t), NEW k \in Keys, RebuildDataIds(t, k)
  PROVE  Maintains(t)'
<1> DEFINE done == loc[t].listed \ loc[t].todo
<1>0. loc[t] \in Locals
  BY DEF TypeOK
<1>1. /\ loc'[t].op = loc[t].op /\ loc'[t].bits = loc[t].bits /\ loc'[t].found = loc[t].found
      /\ loc'[t].todo = loc[t].todo \ {k} /\ loc'[t].listed = loc[t].listed
      /\ loc'[t].key = k /\ loc'[t].ids = pparts[k]
  BY <1>0 DEF RebuildDataIds, TypeOK, Locals
<1>2. /\ pc[t] = "rb_key" /\ pc'[t] = "rb_data" /\ k \in loc[t].todo
      /\ UNCHANGED <<parts, pparts, pdeltas, hasEvent>>
  BY DEF RebuildDataIds, Goto, TypeOK, catalog
<1>3. /\ loc[t].listed = PeriodKeys /\ loc[t].todo \subseteq loc[t].listed
      /\ loc[t].found = Found(done)
  BY <1>2, WhenBusy DEF Maintains, FindsAll, Rebuilding
<1>4. loc'[t].listed \ loc'[t].todo = done \cup {k}
  BY <1>1, <1>2, <1>3
<1> HIDE DEF done
<1>5. loc'[t].found \cup Wanted(loc'[t].ids \cup pdeltas[k]) = Found(done \cup {k})
  BY <1>1, <1>3, FoundMore DEF Wanted, PartsOf
<1>6. /\ loc'[t].found \cup {p \in parts' : p.id \in loc'[t].ids \cup pdeltas'[loc'[t].key]}
           = UNION {{p \in parts' : p.id \in pparts'[j] \cup pdeltas'[j]} :
                      j \in loc'[t].listed \ loc'[t].todo}
      /\ loc'[t].listed = PeriodKeys' /\ loc'[t].todo \subseteq loc'[t].listed
      /\ loc'[t].key \in loc'[t].listed \ loc'[t].todo
  <2>1. PeriodKeys' = PeriodKeys
    BY <1>2 DEF PeriodKeys
  <2>2. k \in done \cup {k}
    OBVIOUS
  <2> QED
    BY <1>1, <1>2, <1>3, <1>4, <1>5, <2>1, <2>2 DEF Wanted, Found, PartsOf
<1>7. FindsAll(t)'
  BY <1>2, <1>6 DEF FindsAll, Found, Wanted, PartsOf
<1> QED
  BY <1>1, <1>2, <1>7, RebuildingMaintains DEF Rebuilding

LEMMA RebuildPartMaintains ==
  ASSUME TypeOK, CallsFit, NEW t \in Threads, Maintains(t), RebuildPart(t)
  PROVE  Maintains(t)'
<1>0. loc[t] \in Locals
  BY DEF TypeOK
<1>1. PICK i \in loc[t].ids :
        loc' = [loc EXCEPT ![t].ids = @ \ {i}, ![t].found = @ \cup {p \in parts : p.id = i}]
  BY DEF RebuildPart
<1>2. /\ loc'[t].op = loc[t].op /\ loc'[t].bits = loc[t].bits /\ loc'[t].key = loc[t].key
      /\ loc'[t].todo = loc[t].todo /\ loc'[t].listed = loc[t].listed
  BY <1>0, <1>1 DEF TypeOK, Locals
<1>3. loc'[t].found = loc[t].found \cup {p \in parts : p.id = i} /\ loc'[t].ids = loc[t].ids \ {i}
  BY <1>0, <1>1 DEF TypeOK, Locals
<1>4. /\ pc[t] \in {"rb_data", "rb_deltas"} /\ pc' = pc
      /\ UNCHANGED <<parts, pparts, pdeltas, hasEvent>>
  BY DEF RebuildPart, catalog
<1>5. FindsAll(t)
  BY <1>4, WhenBusy DEF Maintains, Rebuilding
<1>6. \A D : loc'[t].found \cup Wanted(loc'[t].ids \cup D) = loc[t].found \cup Wanted(loc[t].ids \cup D)
  BY <1>3 DEF Wanted
<1>7. /\ loc'[t].found \cup Wanted(loc'[t].ids) = loc[t].found \cup Wanted(loc[t].ids)
      /\ loc'[t].found \cup Wanted(loc'[t].ids \cup pdeltas[loc[t].key])
           = loc[t].found \cup Wanted(loc[t].ids \cup pdeltas[loc[t].key])
  BY <1>3, <1>6 DEF Wanted
<1>8. FindsAll(t)'
  BY <1>2, <1>4, <1>5, <1>7 DEF FindsAll, Found, Wanted, PartsOf, PeriodKeys
<1> QED
  BY <1>2, <1>4, <1>8, RebuildingMaintains DEF Rebuilding

LEMMA RebuildDeltaIdsMaintains ==
  ASSUME TypeOK, CallsFit, NEW t \in Threads, Maintains(t), RebuildDeltaIds(t) \/ RebuildKeyDone(t)
  PROVE  Maintains(t)'
<1>0. loc[t] \in Locals
  BY DEF TypeOK
<1>1. /\ loc'[t].op = loc[t].op /\ loc'[t].bits = loc[t].bits /\ loc'[t].key = loc[t].key
      /\ loc'[t].todo = loc[t].todo /\ loc'[t].listed = loc[t].listed /\ loc'[t].found = loc[t].found
      /\ loc[t].ids = {}
      /\ \/ pc[t] = "rb_data" /\ pc'[t] = "rb_deltas" /\ loc'[t].ids = pdeltas[loc[t].key]
         \/ pc[t] = "rb_deltas" /\ pc'[t] = "rb_key"
      /\ UNCHANGED <<parts, pparts, pdeltas, hasEvent>>
  <2>1. CASE RebuildDeltaIds(t)
    BY <1>0, <2>1 DEF RebuildDeltaIds, Goto, TypeOK, Locals, catalog
  <2>2. CASE RebuildKeyDone(t)
    BY <2>2 DEF RebuildKeyDone, Goto, TypeOK, catalog
  <2> QED
    BY <2>1, <2>2
<1>2. FindsAll(t)
  BY <1>1, WhenBusy DEF Maintains, Rebuilding
<1>3. Wanted({}) = {} /\ \A D : {} \cup D = D
  BY DEF Wanted
<1>4. FindsAll(t)'
  BY <1>1, <1>2, <1>3 DEF FindsAll, Found, Wanted, PartsOf, PeriodKeys
<1> QED
  BY <1>1, <1>4, RebuildingMaintains DEF Rebuilding

(* What the build has found for each listed key is what its lists name.    *)
LEMMA FoundForKeys ==
  ASSUME TypeOK, PartOwnership, NEW k \in PeriodKeys
  PROVE  {p \in Found(PeriodKeys) : p.key = k} = PartsOf(k)
<1>1. \A j \in Keys : \A p \in PartsOf(j) : p.key = j
  BY ListedIsOwn DEF PartsOf
<1>2. PeriodKeys \subseteq Keys
  BY DEF PeriodKeys
<1>3. \A p : p \in Found(PeriodKeys) <=> \E j \in PeriodKeys : p \in PartsOf(j)
  BY DEF Found
<1> QED
  BY <1>1, <1>2, <1>3

LEMMA RebuildFoldMaintains ==
  ASSUME TypeOK, PartOwnership, CallsFit, NEW t \in Threads, Maintains(t), RebuildFold(t)
  PROVE  Maintains(t)'
<1> DEFINE c == [k \in Keys |-> IF k \in loc[t].listed THEN Fold(FoundFor(t, k), disk) ELSE Absent]
<1>0. loc[t] \in Locals
  BY DEF TypeOK
<1>1. loc' = [loc EXCEPT ![t].built = c]
  BY DEF RebuildFold
<1>2. /\ pc[t] = "rb_key" /\ pc'[t] = "rb_store" /\ loc[t].todo = {}
      /\ UNCHANGED <<parts, pparts, pdeltas, hasEvent, disk>>
  BY DEF RebuildFold, Goto, TypeOK, catalog
<1>3. loc[t].listed = PeriodKeys /\ loc[t].found = Found(PeriodKeys)
  BY <1>2, WhenBusy DEF Maintains, FindsAll, Rebuilding
<1>4. \A k \in PeriodKeys : FoundFor(t, k) = PartsOf(k)
  BY <1>3, FoundForKeys DEF FoundFor
<1>5. c = FreshIndex
  BY <1>3, <1>4 DEF FreshIndex, Disk
<1> HIDE DEF c
<1>6. /\ loc'[t].op = loc[t].op /\ loc'[t].bits = loc[t].bits /\ loc'[t].built = c
  BY <1>0, <1>1 DEF TypeOK, Locals
<1>7. FreshIndex' = FreshIndex
  BY <1>2 DEF FreshIndex, Disk, PartsOf, PeriodKeys
<1>8. FindsAll(t)'
  BY <1>2, <1>5, <1>6, <1>7 DEF FindsAll
<1> QED
  BY <1>2, <1>6, <1>8, RebuildingMaintains DEF Rebuilding

LEMMA UnlinkMaintains ==
  ASSUME TypeOK, CallsFit, NEW t \in Threads, Maintains(t),
         StoreIndex(t) \/ \E p \in loc[t].olds : UnlinkPart(t, p)
  PROVE  Maintains(t)'
<1>0. loc[t] \in Locals
  BY DEF TypeOK
<1>1. /\ loc'[t].op = loc[t].op /\ loc'[t].bits = loc[t].bits
      /\ pc[t] \in Rebuilding \cup {"unlink"} /\ pc'[t] = "unlink"
  <2>1. CASE StoreIndex(t)
    BY <2>1 DEF StoreIndex, Goto, TypeOK, Rebuilding
  <2>2. CASE \E p \in loc[t].olds : UnlinkPart(t, p)
    <3>1. PICK p \in loc[t].olds : loc' = [loc EXCEPT ![t].olds = @ \ {p}]
      BY <2>2 DEF UnlinkPart
    <3> QED
      BY <1>0, <2>2, <3>1 DEF UnlinkPart, TypeOK, Locals
  <2> QED
    BY <2>1, <2>2
<1>2. FindsAll(t)'
  BY <1>1 DEF FindsAll
<1> QED
  BY <1>1, <1>2, RebuildingMaintains

LEMMA DeleteKnownMaintains ==
  ASSUME TypeOK, CallsFit, NEW t \in Threads, Maintains(t), DeleteKnown(t)
  PROVE  Maintains(t)'
<1>1. /\ pc[t] = "delete" /\ pc'[t] = "delete_txn" /\ loc' = loc
      /\ UNCHANGED <<up, buffer, ridx, catalog, disk>>
  BY DEF DeleteKnown, Goto, TypeOK
<1>2. loc[t].op = "delete" /\ Busy(t)
  BY <1>1 DEF CallsFit, CallFits, CallsAt, Busy, Maintenance
<1>3. CollectsAll(t)'
  BY <1>1 DEF CollectsAll
<1>4. Writes(t)'
  BY <1>1, <1>2 DEF Maintains, Writes
<1>5. FindsAll(t)'
  BY <1>1, <1>2 DEF Maintains, FindsAll
<1> QED
  BY <1>3, <1>4, <1>5 DEF Maintains

LEMMA MaintainStep ==
  ASSUME TypeOK, PartOwnership, CallsFit, OneMaintainer, AllMaintain, NEW t \in Threads, Acts(t)
  PROVE  AllMaintain'
<1>1. Maintains(t)
  BY DEF AllMaintain
<1>2. Maintains(t)'
  <2>1. CASE StartCall(t)
    <3>1. (SUBSET Ids) \ {{}} \subseteq SUBSET Ids
      OBVIOUS
    <3> QED
      BY <2>1, <3>1, StartsMaintain, CompactPeriodMaintains
        DEF StartCall, PutBitmap, RemoveBits, ReplaceBitmap, Bitmaps
  <2>2. CASE EnsureEvent(t) \/ RevertCompacted(t) \/ TakeSnapshot(t) \/ NothingToFlush(t)
    BY <1>1, <2>2, EnsureEventMaintains, NoneToMaintain, StartsMaintain
  <2>3. CASE Collect(t)
    BY <1>1, <2>3, CollectDataIdsMaintains, CollectDeltaIdsMaintains, NoneToMaintain,
      CollectPartMaintains, CollectedMaintains, MergePartsMaintains DEF Collect
  <2>4. CASE Transact(t)
    BY <1>1, <2>4, BeginTxnMaintains, WritePartMaintains, DeleteKnownMaintains, RewritesMaintains,
      NoneToMaintain
      DEF Transact, Rewrites
  <2>5. CASE Rebuild(t)
    BY <1>1, <2>5, RebuildListMaintains, RebuildDataIdsMaintains, RebuildPartMaintains,
      RebuildDeltaIdsMaintains, RebuildFoldMaintains, UnlinkMaintains, NoneToMaintain DEF Rebuild
  <2>6. CASE Read(t) \/ StartGet(t)
    BY <2>6, NoneToMaintain, StartsMaintain DEF Read, StartGet
  <2>7. CASE Update(t)
    BY <1>1, <2>7, NoneToMaintain, StartsMaintain, ReplaceLockMaintains DEF Update
  <2> QED
    BY <2>1, <2>2, <2>3, <2>4, <2>5, <2>6, <2>7 DEF Acts, Internal
<1>3. \A u \in Threads \ {t} : Maintains(u)'
  BY OthersMaintain DEF AllMaintain
<1> QED
  BY <1>2, <1>3 DEF AllMaintain

-----------------------------------------------------------------------------
(* Which calls a thread can be in.                                         *)

Granted(t) ==
  /\ loc[t].op \in MayRun[t] \cup {"get"}
  /\ pc[t] = "flush" => "flush" \in MayRun[t]

RunsGranted == \A t \in Threads : Granted(t)

LEMMA GrantedGoesOn ==
  ASSUME TypeOK, RunsGranted, NEW t \in Threads, Acts(t)
  PROVE  Granted(t)'
<1> DEFINE OpOk(op) == op \in MayRun[t] \cup {"get"}
<1> USE DEF TypeOK, Goto, Call
<1>0. loc[t] \in Locals /\ OpOk(loc[t].op) /\ (pc[t] = "flush" => "flush" \in MayRun[t]) /\ Blank.op = "get"
  BY DEF Blank, RunsGranted, Granted
<1>1. ASSUME Return(t) PROVE Granted(t)'
  <2>1. loc'[t] = Blank /\ pc'[t] = "idle"
    BY <1>1 DEF Return
  <2> QED
    BY <1>0, <2>1 DEF Granted
<1>2. ASSUME loc'[t].op = loc[t].op, pc'[t] # "flush" PROVE Granted(t)'
  BY <1>0, <1>2 DEF Granted
<1>3. CASE StartCall(t)
  <2>1. ASSUME NEW op \in {"put", "remove", "replace"}, NEW k \in Keys, NEW b, CallOnEvent(t, op, k, b)
        PROVE  Granted(t)'
    <3>1. loc'[t].op = op /\ op \in MayRun[t]
      BY <2>1 DEF CallOnEvent, Starts, Blank
    <3>2. pc'[t] = IF hasEvent THEN Resume(op, k) ELSE "ensure"
      BY <2>1 DEF CallOnEvent
    <3> QED
      BY <3>1, <3>2 DEF Resume, Granted
  <2>2. ASSUME NEW k \in Keys, CompactPeriod(t, k) PROVE Granted(t)'
    BY <2>2 DEF CompactPeriod, Starts, Blank, Granted
  <2> QED
    BY <1>3, <2>1, <2>2 DEF StartCall, PutBitmap, RemoveBits, ReplaceBitmap
<1>4. CASE EnsureEvent(t) \/ RevertCompacted(t)
  BY <1>2, <1>4 DEF EnsureEvent, RevertCompacted, Resume
<1>5. CASE TakeSnapshot(t)
  <2>1. loc'[t] = [Blank EXCEPT !.op = "flush", !.plan = Drained] /\ pc'[t] = "ensure"
    BY <1>5 DEF TakeSnapshot
  <2>2. "flush" \in MayRun[t]
    BY <1>0, <1>5 DEF TakeSnapshot, Starts
  <2> QED
    BY <2>1, <2>2 DEF Granted, Blank
<1>6. CASE NothingToFlush(t)
  BY <1>1, <1>6 DEF NothingToFlush
<1>7. CASE Collect(t)
  <2>1. CASE CollectDataPart(t)
    <3>1. PICK i \in loc[t].ids : loc' = [loc EXCEPT ![t].ids = @ \ {i},
                                           ![t].olds = @ \cup {p \in parts : p.id = i}]
      BY <2>1 DEF CollectDataPart
    <3>2. loc'[t].op = loc[t].op
      BY <1>0, <3>1 DEF Locals
    <3> QED
      BY <1>2, <2>1, <3>2 DEF CollectDataPart
  <2>2. CASE CollectDeltaPart(t)
    <3>1. PICK i \in loc[t].dids : loc' = [loc EXCEPT ![t].dids = @ \ {i},
                                            ![t].olds = @ \cup {p \in parts : p.id = i}]
      BY <2>2 DEF CollectDeltaPart
    <3>2. loc'[t].op = loc[t].op
      BY <1>0, <3>1 DEF Locals
    <3> QED
      BY <1>2, <2>2, <3>2 DEF CollectDeltaPart
  <2>3. CASE CollectDataIds(t) \/ CollectDeltaIds(t)
    <3>1. loc'[t].op = loc[t].op /\ pc'[t] # "flush"
      BY <1>0, <2>3 DEF CollectDataIds, CollectDeltaIds, Locals
    <3> QED
      BY <1>2, <3>1
  <2>4. CASE Collected(t) \/ MergeParts(t)
    <3>1. loc'[t].op = loc[t].op /\ pc'[t] # "flush"
      BY <1>0, <2>4 DEF Collected, MergeParts, Locals
    <3> QED
      BY <1>2, <3>1
  <2>5. CASE NotEligible(t) \/ MergeFails(t)
    BY <1>1, <2>5 DEF NotEligible, MergeFails
  <2> QED
    BY <1>7, <2>1, <2>2, <2>3, <2>4, <2>5 DEF Collect
<1>8. CASE Transact(t)
  <2>1. CASE BeginTxn(t) \/ Commit(t) \/ DeleteKnown(t) \/ DeleteTxn(t) \/ DropTxn(t)
    <3>1. loc'[t].op = loc[t].op /\ pc'[t] # "flush"
      BY <1>0, <2>1 DEF BeginTxn, Commit, DeleteKnown, DeleteTxn, DropTxn, Locals
    <3> QED
      BY <1>2, <3>1
  <2>2. CASE \E e \in loc[t].plan : WritePart(t, e)
    <3>1. loc'[t].op = loc[t].op /\ pc'[t] # "flush"
      BY <1>0, <2>2 DEF WritePart, Locals
    <3> QED
      BY <1>2, <3>1
  <2>3. CASE TxnFails(t) \/ DeleteUnknown(t)
    BY <1>1, <2>3 DEF TxnFails, DeleteUnknown
  <2> QED
    BY <1>8, <2>1, <2>2, <2>3 DEF Transact
<1>9. CASE Rebuild(t)
  <2>1. CASE RebuildList(t) \/ \E k \in Keys : RebuildDataIds(t, k)
    <3>1. ASSUME NEW k \in Keys, RebuildDataIds(t, k) PROVE loc'[t].op = loc[t].op /\ pc'[t] # "flush"
      BY <1>0, <3>1 DEF RebuildDataIds, Locals
    <3>2. ASSUME RebuildList(t) PROVE loc'[t].op = loc[t].op /\ pc'[t] # "flush"
      BY <1>0, <3>2 DEF RebuildList, Locals
    <3> QED
      BY <1>2, <2>1, <3>1, <3>2
  <2>2. CASE RebuildPart(t)
    <3>1. PICK i \in loc[t].ids : loc' = [loc EXCEPT ![t].ids = @ \ {i},
                                           ![t].found = @ \cup {p \in parts : p.id = i}]
      BY <2>2 DEF RebuildPart
    <3>2. loc'[t].op = loc[t].op
      BY <1>0, <3>1 DEF Locals
    <3> QED
      BY <1>2, <2>2, <3>2 DEF RebuildPart
  <2>3. CASE RebuildDeltaIds(t) \/ RebuildKeyDone(t) \/ RebuildFold(t) \/ StoreIndex(t)
    <3>1. loc'[t].op = loc[t].op /\ pc'[t] # "flush"
      BY <1>0, <2>3 DEF RebuildDeltaIds, RebuildKeyDone, RebuildFold, StoreIndex, Locals
    <3> QED
      BY <1>2, <3>1
  <2>4. CASE \E p \in loc[t].olds : UnlinkPart(t, p)
    <3>1. loc'[t].op = loc[t].op /\ pc'[t] # "flush"
      BY <1>0, <2>4 DEF UnlinkPart, Locals
    <3> QED
      BY <1>2, <3>1
  <2>5. CASE RebuildFails(t) \/ CallDone(t)
    BY <1>1, <2>5 DEF RebuildFails, CallDone
  <2> QED
    BY <1>9, <2>1, <2>2, <2>3, <2>4, <2>5 DEF Rebuild
<1>10. CASE Read(t)
  <2>1. CASE CacheHit(t) \/ CacheMiss(t) \/ ReadTxn(t)
    <3>1. loc'[t].op = loc[t].op /\ pc'[t] # "flush"
      BY <1>0, <2>1 DEF CacheHit, CacheMiss, ReadTxn, Locals
    <3> QED
      BY <1>2, <3>1
  <2>2. CASE ReadFiles(t)
    <3>1. loc'[t].op = loc[t].op /\ pc'[t] # "flush"
      BY <1>0, <2>2 DEF ReadFiles, Locals
    <3> QED
      BY <1>2, <3>1
  <2> QED
    BY <1>1, <1>10, <2>1, <2>2 DEF Read, GetReturns
<1>11. CASE StartGet(t)
  <2>1. PICK k \in Keys : Get(t, k)
    BY <1>11 DEF StartGet
  <2>2. loc'[t] = [Blank EXCEPT !.key = k, !.gotB = mem[k], !.gotD = memDel[k]] /\ pc'[t] = "get_cache"
    BY <2>1 DEF Get
  <2> QED
    BY <2>2 DEF Granted, Blank
<1>12. CASE Update(t)
  <2>1. CASE PutLockAutoFlush(t)
    BY <2>1 DEF PutLockAutoFlush, Blank, Granted
  <2>2. CASE \E k \in Keys : DeletePeriod(t, k)
    <3>1. loc'[t].op = "delete" /\ "delete" \in MayRun[t] /\ pc'[t] = "delete"
      BY <2>2 DEF DeletePeriod, Starts, Blank
    <3> QED
      BY <3>1 DEF Granted
  <2>3. CASE DropEvent(t)
    BY <2>3 DEF DropEvent, Starts, Blank, Granted
  <2>4. CASE ReplaceLock(t)
    BY <1>2, <2>4 DEF ReplaceLock
  <2> QED
    BY <1>1, <1>12, <2>1, <2>2, <2>3, <2>4 DEF Update, PutLock, RemoveLock
<1> QED
  BY <1>3, <1>4, <1>5, <1>6, <1>7, <1>8, <1>9, <1>10, <1>11, <1>12 DEF Acts, Internal

LEMMA GrantedStep == TypeOK /\ RunsGranted /\ [Next]_vars => RunsGranted'
<1> SUFFICES ASSUME TypeOK, RunsGranted, [Next]_vars PROVE RunsGranted'
  OBVIOUS
<1>1. ASSUME NEW t \in Threads, Acts(t) PROVE RunsGranted'
  <2>1. \A u \in Threads \ {t} : loc'[u] = loc[u] /\ pc'[u] = pc[u]
    BY <1>1, OthersStay
  <2> QED
    BY <1>1, <2>1, GrantedGoesOn DEF RunsGranted, Granted
<1>2. CASE Crash
  BY <1>2 DEF Crash, RunsGranted, Granted, Blank
<1>3. CASE UNCHANGED vars \/ Recover
  BY <1>3 DEF RunsGranted, Granted, vars, Recover, DeleteOrphan, Open
<1> QED
  BY <1>1, <1>2, <1>3 DEF Next, Acts

LEMMA GrantedHolds == Spec => []RunsGranted
<1>1. Init => RunsGranted
  BY DEF Init, RunsGranted, Granted, Blank
<1> QED
  BY <1>1, GrantedStep, TypeCorrect, PTL DEF Spec

(* Only one thread makes calls that rewrite the catalog.                   *)
RolesApart ==
  \A t, u \in Threads :
    MayRun[t] \cap Maintenance # {} /\ MayRun[u] \cap Maintenance # {} => t = u

(* If a single thread flushes, compacts, replaces, deletes and drops, no   *)
(* two calls that rewrite the catalog ever overlap: how an application that*)
(* dedicates one maintenance thread meets the theorems' hypothesis.        *)
THEOREM OneRoleSuffices == ASSUME RolesApart PROVE Spec => []OneMaintainer
<1>1. RunsGranted => OneMaintainer
  BY DEF RolesApart, RunsGranted, Granted, OneMaintainer, Busy, Maintenance
<1> QED
  BY <1>1, GrantedHolds, PTL

-----------------------------------------------------------------------------
(* The index.                                                              *)

(* An index build goes on until the new index is stored.                   *)
LEMMA IndexStays ==
  ASSUME TypeOK, NEW t \in Threads, Acts(t), ~StoreIndex(t)
  PROVE  ridx' = ridx /\ (RebuildFails(t) \/ (pc[t] \in Rebuilding => pc'[t] \in Rebuilding))
<1> USE DEF TypeOK, Goto, Rebuilding
<1>1. CASE StartCall(t)
  BY <1>1 DEF StartCall, PutBitmap, RemoveBits, ReplaceBitmap, CompactPeriod, CallOnEvent, Starts
<1>2. CASE EnsureEvent(t) \/ RevertCompacted(t) \/ TakeSnapshot(t) \/ NothingToFlush(t)
  BY <1>2 DEF EnsureEvent, RevertCompacted, TakeSnapshot, NothingToFlush, Starts
<1>3. CASE Collect(t)
  BY <1>3 DEF Collect, CollectDataIds, CollectDeltaIds, NotEligible, CollectDataPart,
    CollectDeltaPart, Collected, MergeParts, MergeFails
<1>4. CASE Transact(t)
  BY <1>4 DEF Transact, BeginTxn, WritePart, Commit, TxnFails, DeleteKnown, DeleteTxn,
    DeleteUnknown, DropTxn
<1>5. CASE Rebuild(t)
  BY <1>5 DEF Rebuild, RebuildList, RebuildDataIds, RebuildPart, RebuildDeltaIds, RebuildKeyDone,
    RebuildFold, RebuildFails, UnlinkPart, CallDone
<1>6. CASE Read(t) \/ StartGet(t)
  BY <1>6 DEF Read, CacheHit, CacheMiss, ReadTxn, ReadFiles, GetReturns, StartGet, Get, Starts
<1>7. CASE Update(t)
  BY <1>7 DEF Update, PutLock, PutLockAutoFlush, BufferPut, RemoveLock, ReplaceLock, DeletePeriod,
    DropEvent, Starts
<1> QED
  BY <1>1, <1>2, <1>3, <1>4, <1>5, <1>6, <1>7 DEF Acts, Internal

(* No index build finds a file missing.                                    *)
LEMMA BuildsFindFiles ==
  ASSUME TypeOK, PartOwnership, CallsFit, NEW t \in Threads, Maintains(t)
  PROVE  ~RebuildFails(t)
<1> SUFFICES ASSUME RebuildFails(t) PROVE FALSE
  OBVIOUS
<1>1. pc[t] = "rb_key" /\ loc[t].todo = {} /\ ~Readable(loc[t].found)
  BY DEF RebuildFails
<1>2. loc[t].found = Found(loc[t].listed \ loc[t].todo)
  BY <1>1, WhenBusy DEF Maintains, FindsAll, Rebuilding
<1>3. loc[t].found \subseteq parts
  BY <1>2 DEF Found, PartsOf
<1> QED
  BY <1>1, <1>3 DEF PartOwnership, DurableIntegrity, Readable

LEMMA IndexStep ==
  ASSUME TypeOK, PartOwnership, CallsFit, AllMaintain, IndexFresh, NEW t \in Threads, Acts(t)
  PROVE  IndexFresh'
<1>1. CASE Rewrites(t)
  <2>1. pc'[t] = "rb_list"
    BY <1>1 DEF Rewrites, Commit, DeleteTxn, DropTxn, Goto, TypeOK
  <2> QED
    BY <2>1 DEF IndexFresh, Rebuilding
<1>2. CASE ~Rewrites(t)
  <2>1. FreshIndex' = FreshIndex /\ up' = up
    BY <1>2, FreshStays, ListsStay
  <2>2. CASE StoreIndex(t)
    <3>1. loc[t].built = FreshIndex
      BY <2>2, WhenBusy DEF StoreIndex, AllMaintain, Maintains, FindsAll, Rebuilding
    <3> QED
      BY <2>1, <2>2, <3>1 DEF StoreIndex, IndexFresh
  <2>3. CASE ~StoreIndex(t)
    <3>1. ridx' = ridx /\ (pc[t] \in Rebuilding => pc'[t] \in Rebuilding)
      BY <2>3, IndexStays, BuildsFindFiles DEF AllMaintain
    <3>2. \A u \in Threads \ {t} : pc'[u] = pc[u]
      BY OthersStay
    <3> QED
      BY <2>1, <3>1, <3>2 DEF IndexFresh
  <2> QED
    BY <2>2, <2>3
<1> QED
  BY <1>1, <1>2

(* The inductive invariant of one maintainer.                              *)
OneInv == TypeOK /\ PartOwnership /\ CallsFit /\ AllMaintain /\ IndexFresh

LEMMA OneInit == Init => OneInv
<1> SUFFICES ASSUME Init PROVE OneInv
  OBVIOUS
<1>1. \A t \in Threads : pc[t] = "idle" /\ loc[t].op = "get"
  BY DEF Init, Blank
<1>2. CallsFit
  BY <1>1 DEF CallsFit, EventKnown, OnEvent, CallFits, CallsAt, Init
<1>3. AllMaintain
  BY <1>1 DEF AllMaintain, Maintains, Busy, Maintenance
<1>4. IndexFresh
  BY DEF Init, IndexFresh, FreshIndex, PeriodKeys, NoCache
<1> QED
  BY <1>2, <1>3, <1>4, TypeInit, OwnInit DEF OneInv

LEMMA OneStep == OneInv /\ OneMaintainer /\ [Next]_vars => OneInv'
<1> SUFFICES ASSUME OneInv, OneMaintainer, [Next]_vars PROVE OneInv'
  OBVIOUS
<1> USE DEF OneInv
<1>1. TypeOK' /\ PartOwnership'
  BY TypeStep, OwnStep
<1>2. ASSUME NEW t \in Threads, Acts(t) PROVE OneInv'
  BY <1>1, <1>2, FitStep, MaintainStep, IndexStep
<1>3. CASE Crash
  <2>1. \A t \in Threads : pc'[t] = "idle" /\ loc'[t].op = "get"
    BY <1>3 DEF Crash, Blank
  <2>2. UNCHANGED <<hasEvent, pparts, pdeltas>> /\ ~up'
    BY <1>3 DEF Crash, catalog
  <2>3. CallsFit'
    BY <2>1, <2>2 DEF CallsFit, EventKnown, OnEvent, CallFits, CallsAt
  <2>4. AllMaintain'
    BY <2>1 DEF AllMaintain, Maintains, Busy, Maintenance
  <2> QED
    BY <1>1, <2>2, <2>3, <2>4 DEF IndexFresh
<1>4. CASE Recover
  <2>1. UNCHANGED <<pc, loc, hasEvent, parts, pparts, pdeltas>> /\ ~up
    BY <1>4 DEF Recover, DeleteOrphan, Open, catalog
  <2>2. \A t \in Threads : pc[t] = "idle" /\ loc[t].op = "get"
    BY <2>1 DEF PartOwnership, CallsFit, CallFits, CallsAt
  <2>3. CallsFit'
    BY <2>1 DEF CallsFit, EventKnown, CallFits
  <2>4. AllMaintain'
    BY <2>1, <2>2 DEF AllMaintain, Maintains, Busy, Maintenance
  <2>5. IndexFresh'
    BY <1>4, <2>1 DEF Recover, DeleteOrphan, Open, IndexFresh, FreshIndex, Disk, PartsOf, PeriodKeys, catalog
  <2> QED
    BY <1>1, <2>3, <2>4, <2>5
<1>5. CASE UNCHANGED vars
  <2>0. UNCHANGED <<pc, loc, ridx, up, hasEvent, parts, pparts, pdeltas, disk>>
    BY <1>5 DEF vars, catalog
  <2>1. CallsFit'
    BY <2>0 DEF CallsFit, EventKnown, CallFits
  <2>2. PeriodKeys' = PeriodKeys /\ FreshIndex' = FreshIndex
    BY <2>0 DEF FreshIndex, Disk, PartsOf, PeriodKeys
  <2>3. ASSUME NEW t \in Threads, Maintains(t) PROVE Maintains(t)'
    <3>1. CollectsAll(t) => CollectsAll(t)'
      BY <2>0 DEF CollectsAll, Wanted, PartsOf, Overwrites
    <3>2. Writes(t) => Writes(t)'
      BY <2>0 DEF Writes, WritesBits, Writing, Disk, PartsOf
    <3>3. FindsAll(t) => FindsAll(t)'
      BY <2>0, <2>2 DEF FindsAll, Found, Wanted, PartsOf
    <3> QED
      BY <2>0, <2>3, <3>1, <3>2, <3>3 DEF Maintains, Busy
  <2>4. IndexFresh'
    BY <2>0, <2>2 DEF IndexFresh
  <2> QED
    BY <1>1, <2>1, <2>3, <2>4 DEF AllMaintain
<1> QED
  BY <1>2, <1>3, <1>4, <1>5 DEF Next, Acts

LEMMA OneHolds == Spec /\ []OneMaintainer => []OneInv
BY OneInit, OneStep, PTL DEF Spec

(* Between calls the ReadIndex is what a rebuild would give, so that a hit *)
(* and the slow path of get agree: a build that lists, collects and folds  *)
(* in many transactions misses nothing while no other call commits, and no *)
(* call that commits returns before it has stored a new index.             *)
THEOREM IndexIsCurrent == Spec /\ []OneMaintainer => []IndexCurrent
<1>1. OneInv => IndexCurrent
  BY DEF OneInv, IndexFresh, IndexCurrent, Quiet, Rebuilding
<1> QED
  BY <1>1, OneHolds, PTL

-----------------------------------------------------------------------------
(* What the commits do to the lists.                                       *)

LEMMA OwnFields ==
  ASSUME TypeOK, NEW t \in Threads
  PROVE  /\ loc[t].key \in Keys
         /\ loc[t].out \subseteq Path /\ loc[t].olds \subseteq Path /\ loc[t].plan \subseteq Entry
         /\ \A p \in loc[t].out : p.key \in Keys /\ p.kind \in {"data", "delta"}
<1>1. loc[t] \in Locals
  BY DEF TypeOK
<1>2. loc[t].out \in SUBSET Path
  BY <1>1, FieldTypes
<1>3. \A p \in Path : p.key \in Keys /\ p.kind \in {"data", "delta"}
  BY DEF Path, Kinds
<1> QED
  BY <1>1, <1>2, <1>3, FieldTypes

(* The ids of an open transaction are new.                                 *)
LEMMA OutAreNew ==
  ASSUME TypeOK, PartOwnership, NEW t \in Threads, pc[t] = "write"
  PROVE  /\ \A p \in loc[t].out : p \in Path /\ p \notin parts /\ disk[p] # Absent
         /\ \A p \in loc[t].out, q \in parts : q.id < p.id
         /\ \A p \in loc[t].out, k \in Keys : p.id \notin pparts[k] \cup pdeltas[k]
         /\ \A p, q \in loc[t].out : p.id = q.id => p = q
<1>1. OpenTxn(t) /\ SpentIds
  BY DEF PartOwnership
<1>2. \A p \in loc[t].out : p \in Path /\ p.id \in Nat /\ nextId \in Nat /\ nextId <= p.id
  <2>1. \A p \in loc[t].out : nextId <= p.id
    BY <1>1 DEF OpenTxn
  <2>2. \A p \in Path : p.id \in Nat
    BY EngineAssumption DEF Path
  <2>3. loc[t].out \subseteq Path /\ nextId \in Nat
    BY OwnFields DEF TypeOK
  <2> QED
    BY <2>1, <2>2, <2>3
<1>3. \A q \in parts : q.id \in Nat /\ q.id < nextId
  BY <1>1, EngineAssumption DEF SpentIds, TypeOK, Path
<1>4. \A k \in Keys : \A i \in pparts[k] \cup pdeltas[k] : i \in Nat /\ i < nextId
  BY ListedIsOwn, EngineAssumption DEF TypeOK
<1>5. \A p \in loc[t].out : disk[p] # Absent
  BY <1>1 DEF OpenTxn
<1>6. \A p, q \in loc[t].out : p.id = q.id => p = q
  BY <1>1 DEF OpenTxn, UniqueIds
<1>7. \A p \in loc[t].out, q \in parts : q.id < p.id
  BY <1>2, <1>3
<1>8. \A p \in loc[t].out, k \in Keys : p.id \notin pparts[k] \cup pdeltas[k]
  BY <1>2, <1>4
<1>9. \A p \in loc[t].out : p \notin parts
  BY <1>2, <1>3
<1> QED
  BY <1>2, <1>5, <1>6, <1>7, <1>8, <1>9

OutOf(t, k) == {p \in loc[t].out : p.key = k}

LEMMA OutIdsMembers ==
  ASSUME TypeOK, PartOwnership, NEW t \in Threads, pc[t] = "write", NEW p \in loc[t].out,
         NEW k, NEW kind
  PROVE  p.id \in OutIds(t, k, kind) <=> p.key = k /\ p.kind = kind
<1>1. p.id \in OutIds(t, k, kind) <=> \E q \in loc[t].out : q.key = k /\ q.kind = kind /\ q.id = p.id
  BY DEF OutIds
<1> QED
  BY <1>1, OutAreNew

LEMMA OldNotInOut ==
  ASSUME TypeOK, PartOwnership, NEW t \in Threads, pc[t] = "write", NEW p \in parts,
         NEW k, NEW kind
  PROVE  p.id \notin OutIds(t, k, kind)
<1>1. p.id \in OutIds(t, k, kind) <=> \E q \in loc[t].out : q.key = k /\ q.kind = kind /\ q.id = p.id
  BY DEF OutIds
<1>2. \A q \in loc[t].out : q.id # p.id
  <2>1. \A q \in loc[t].out : p.id < q.id /\ p.id \in Nat /\ q.id \in Nat
    BY OutAreNew, EngineAssumption DEF TypeOK, Path
  <2> QED
    BY <2>1
<1> QED
  BY <1>1, <1>2

(* A flush adds its parts to the lists of their keys.                      *)
LEMMA AppendLists ==
  ASSUME TypeOK, PartOwnership, NEW t \in Threads, pc[t] = "write", AppendParts(t), NEW k \in Keys
  PROVE  PartsOf(k)' = PartsOf(k) \cup OutOf(t, k)
<1>1. /\ parts' = parts \cup loc[t].out
      /\ pparts'[k] = pparts[k] \cup OutIds(t, k, "data")
      /\ pdeltas'[k] = pdeltas[k] \cup OutIds(t, k, "delta")
  BY DEF AppendParts
<1>2. \A p \in loc[t].out : p.kind \in {"data", "delta"}
  BY OwnFields
<1>3. \A p \in parts : p.id \in pparts'[k] \cup pdeltas'[k] <=> p.id \in pparts[k] \cup pdeltas[k]
  BY <1>1, OldNotInOut
<1>4. \A p \in loc[t].out : p.id \in pparts'[k] \cup pdeltas'[k] <=> p.key = k
  BY <1>1, <1>2, OutIdsMembers, OutAreNew
<1> QED
  BY <1>1, <1>3, <1>4 DEF PartsOf, OutOf

(* Lists of two keys name no part in common.                               *)
LEMMA ListsApart ==
  ASSUME TypeOK, PartOwnership, NEW k \in Keys
  PROVE  \A p \in PartsOf(k) : p.key = k
BY ListedIsOwn DEF PartsOf

(* A compaction or replacement makes its parts the only ones of its key.   *)
LEMMA SupersedeLists ==
  ASSUME TypeOK, PartOwnership, CallsFit, NEW t \in Threads, Maintains(t), pc[t] = "write",
         Overwrites(t), SupersedeParts(t), NEW k \in Keys
  PROVE  /\ PartsOf(k)' = IF k = loc[t].key THEN loc[t].out ELSE PartsOf(k)
         /\ \A p \in loc[t].out : p.key = loc[t].key /\ p.kind = "data"
<1> DEFINE j == loc[t].key
<1>1. /\ parts' = (parts \cup loc[t].out) \ loc[t].olds
      /\ pparts' = [pparts EXCEPT ![j] = OutIds(t, j, "data")]
      /\ pdeltas' = [pdeltas EXCEPT ![j] = {}]
  BY DEF SupersedeParts
<1>2. /\ loc[t].olds = PartsOf(j)
      /\ \A p \in loc[t].out : p.key = j /\ p.kind = "data"
  BY WhenBusy DEF Maintains, CollectsAll, Writes, WritesBits, OnEvent, Overwrites
<1>3. \A p \in loc[t].olds : p \in parts /\ p.key = j
  BY <1>2, ListsApart, OwnFields DEF PartsOf
<1>4. \A p \in loc[t].out : p \notin loc[t].olds
  BY <1>3, OutAreNew
<1> HIDE DEF j
<1>5. CASE k = j
  <2>1. pparts'[k] = OutIds(t, j, "data") /\ pdeltas'[k] = {}
    BY <1>1, <1>5 DEF TypeOK
  <2>2. \A p \in loc[t].out : p.id \in OutIds(t, j, "data")
    BY <1>2, OutIdsMembers
  <2>3. \A p \in parts : p.id \notin OutIds(t, j, "data")
    BY OldNotInOut
  <2>4. PartsOf(k)' = loc[t].out
    BY <1>1, <1>4, <2>1, <2>2, <2>3 DEF PartsOf
  <2> QED
    BY <1>2, <1>5, <2>4 DEF j
<1>6. CASE k # j
  <2>1. pparts'[k] = pparts[k] /\ pdeltas'[k] = pdeltas[k]
    BY <1>1, <1>6 DEF TypeOK
  <2>2. \A p \in PartsOf(k) : p \notin loc[t].olds
    BY <1>3, <1>6, ListsApart
  <2>3. \A p \in loc[t].out : p.id \notin pparts[k] \cup pdeltas[k]
    BY OutAreNew
  <2>4. PartsOf(k)' = PartsOf(k)
    BY <1>1, <2>1, <2>2, <2>3 DEF PartsOf
  <2> QED
    BY <1>2, <1>6, <2>4 DEF j
<1> QED
  BY <1>5, <1>6

LEMMA DeleteLists ==
  ASSUME TypeOK, PartOwnership, NEW t \in Threads, DeleteTxn(t), NEW k \in Keys
  PROVE  PartsOf(k)' = IF k = loc[t].key THEN {} ELSE PartsOf(k)
<1> DEFINE j == loc[t].key
<1>1. /\ parts' = parts \ PartsOf(j)
      /\ pparts' = [pparts EXCEPT ![j] = {}] /\ pdeltas' = [pdeltas EXCEPT ![j] = {}]
  BY DEF DeleteTxn
<1>2. j \in Keys
  BY OwnFields
<1> HIDE DEF j
<1>3. CASE k = j
  BY <1>1, <1>3 DEF PartsOf, TypeOK, j
<1>4. CASE k # j
  <2>1. pparts'[k] = pparts[k] /\ pdeltas'[k] = pdeltas[k]
    BY <1>1, <1>4 DEF TypeOK
  <2>2. \A p \in PartsOf(k) : p \notin PartsOf(j)
    BY <1>2, <1>4, ListsApart
  <2>3. PartsOf(k)' = PartsOf(k)
    BY <1>1, <2>1, <2>2 DEF PartsOf
  <2> QED
    BY <1>4, <2>3 DEF j
<1> QED
  BY <1>3, <1>4

(* NoLeakedPart, step by step.                                             *)
LEMMA NoLeakStep ==
  ASSUME TypeOK, PartOwnership, CallsFit, AllMaintain, NoLeakedPart, NEW t \in Threads, Acts(t),
         loc[t].op # "drop"
  PROVE  NoLeakedPart'
<1> DEFINE Named(p) == p.id \in IF p.kind = "data" THEN pparts[p.key] ELSE pdeltas[p.key]
<1>1. CASE ~Rewrites(t)
  BY <1>1, ListsStay DEF NoLeakedPart
<1>2. \A p \in parts : p.key \in Keys /\ p.kind \in {"data", "delta"} /\ Named(p)
  BY DEF NoLeakedPart, TypeOK, Path, Kinds
<1>3. \A k \in Keys : \A p \in parts : p.key = k => p \in PartsOf(k)
  BY <1>2 DEF PartsOf
<1>4. ASSUME Commit(t) PROVE NoLeakedPart'
  <2>1. pc[t] = "write" /\ Maintains(t)
    BY <1>4 DEF Commit, AllMaintain
  <2>2. \A p \in loc[t].out : p.key \in Keys /\ p.kind \in {"data", "delta"}
    BY OwnFields
  <2>3. CASE loc[t].op = "flush"
    <3>1. /\ parts' = parts \cup loc[t].out
          /\ \A k \in Keys : pparts'[k] = pparts[k] \cup OutIds(t, k, "data")
          /\ \A k \in Keys : pdeltas'[k] = pdeltas[k] \cup OutIds(t, k, "delta")
      BY <1>4, <2>3 DEF Commit, AppendParts
    <3>2. \A p \in loc[t].out : p.id \in OutIds(t, p.key, p.kind)
      BY <2>1, OutIdsMembers
    <3> QED
      BY <1>2, <2>2, <3>1, <3>2 DEF NoLeakedPart
  <2>4. CASE loc[t].op # "flush"
    <3>1. Overwrites(t)
      BY <2>1, <2>4 DEF CallsFit, CallFits, CallsAt, Overwrites
    <3>2. SupersedeParts(t)
      BY <1>4, <2>4 DEF Commit
    <3>3. loc[t].key \in Keys
      BY OwnFields
    <3>4. \A p \in loc[t].out : p.key = loc[t].key /\ p.kind = "data"
      BY <2>1, <3>1, <3>2, <3>3, SupersedeLists
    <3>5. loc[t].olds = PartsOf(loc[t].key)
      BY <2>1, <3>1, WhenBusy DEF Maintains, CollectsAll, OnEvent
    <3>6. \A p \in parts' : p \in loc[t].out \/ (p \in parts /\ p.key # loc[t].key)
      BY <1>3, <3>2, <3>3, <3>5 DEF SupersedeParts
    <3>7. \A p \in loc[t].out : p.id \in OutIds(t, loc[t].key, "data")
      BY <2>1, <3>4, OutIdsMembers
    <3>8. /\ pparts'[loc[t].key] = OutIds(t, loc[t].key, "data")
          /\ \A k \in Keys : k # loc[t].key => pparts'[k] = pparts[k] /\ pdeltas'[k] = pdeltas[k]
      BY <3>2, <3>3 DEF SupersedeParts, TypeOK
    <3> QED
      BY <1>2, <3>4, <3>6, <3>7, <3>8 DEF NoLeakedPart
  <2> QED
    BY <2>3, <2>4
<1>5. ASSUME DeleteTxn(t) PROVE NoLeakedPart'
  <2>1. loc[t].key \in Keys
    BY OwnFields
  <2>2. \A p \in parts' : p \in parts /\ p.key # loc[t].key
    BY <1>3, <1>5, <2>1 DEF DeleteTxn
  <2>3. \A k \in Keys : k # loc[t].key => pparts'[k] = pparts[k] /\ pdeltas'[k] = pdeltas[k]
    BY <1>5 DEF DeleteTxn, TypeOK
  <2> QED
    BY <1>2, <2>2, <2>3 DEF NoLeakedPart
<1>6. ~DropTxn(t)
  BY DEF DropTxn, CallsFit, CallFits, CallsAt
<1> QED
  BY <1>1, <1>4, <1>5, <1>6 DEF Rewrites

(* Without drop_event, every registered part stays in its key's lists, so  *)
(* it is read, merged and in the end unlinked: what compact and            *)
(* replace_bitmap unregister is all that their key lists.                  *)
THEOREM NoLeak ==
  ASSUME \A t \in Threads : "drop" \notin MayRun[t]
  PROVE  Spec /\ []OneMaintainer => []NoLeakedPart
<1>1. Init => NoLeakedPart
  BY DEF Init, NoLeakedPart
<1>2. OneInv /\ RunsGranted /\ NoLeakedPart /\ [Next]_vars => NoLeakedPart'
  <2> SUFFICES ASSUME OneInv, RunsGranted, NoLeakedPart, [Next]_vars PROVE NoLeakedPart'
    OBVIOUS
  <2>1. ASSUME NEW t \in Threads, Acts(t) PROVE NoLeakedPart'
    <3>1. loc[t].op # "drop"
      BY DEF RunsGranted, Granted
    <3> QED
      BY <2>1, <3>1, NoLeakStep DEF OneInv
  <2>2. CASE Crash \/ Recover \/ UNCHANGED vars
    <3>1. UNCHANGED <<parts, pparts, pdeltas>>
      BY <2>2 DEF Crash, Recover, DeleteOrphan, Open, vars, catalog
    <3> QED
      BY <3>1 DEF NoLeakedPart
  <2> QED
    BY <2>1, <2>2 DEF Next, Acts
<1> QED
  BY <1>1, <1>2, OneHolds, GrantedHolds, PTL DEF Spec

-----------------------------------------------------------------------------
(* What the commits do to the contents.                                    *)

LEMMA NothingFolded == ASSUME NEW bits PROVE Fold({}, bits) = {}
BY DEF Fold, Data

LEMMA DataFolded ==
  ASSUME NEW P, NEW bits, \A p \in P : p.kind = "data" /\ p.id \in Nat
  PROVE  Fold(P, bits) = BitsOf(P, bits)
<1>1. PICK O : O = {}
  OBVIOUS
<1>2. IsBatch(O, P, O)
  BY <1>1 DEF IsBatch
<1>3. Fold(O \cup P \cup O, bits) = (Fold(O, bits) \cup BitsOf(P, bits)) \ BitsOf(O, bits)
  BY <1>2, FoldBatch
<1>4. O \cup P \cup O = P /\ BitsOf(O, bits) = {} /\ Fold(O, bits) = {}
  BY <1>1, NothingFolded DEF BitsOf
<1> QED
  BY <1>3, <1>4

(* Once all is written, what is being written is in the files.             *)
LEMMA AllWritten ==
  ASSUME NEW t \in Threads, loc[t].plan = {}, NEW k, NEW kind
  PROVE  Writing(t, k, kind) = BitsOf({q \in loc[t].out : q.key = k /\ q.kind = kind}, disk)
<1>1. UNION {e.bits : e \in {f \in loc[t].plan : f.key = k /\ f.kind = kind}} = {}
  OBVIOUS
<1> QED
  BY <1>1 DEF Writing, BitsOf

LEMMA FlushedDisk ==
  ASSUME TypeOK, PartOwnership, CallsFit, NEW t \in Threads, Maintains(t), Commit(t),
         loc[t].op = "flush", NEW k \in Keys
  PROVE  Disk(k)' = Overlay(Disk(k), Writing(t, k, "data"), Writing(t, k, "delta"))
<1> DEFINE D == {q \in loc[t].out : q.key = k /\ q.kind = "data"}
           E == {q \in loc[t].out : q.key = k /\ q.kind = "delta"}
<1>1. pc[t] = "write" /\ AppendParts(t) /\ loc[t].plan = {} /\ disk' = disk
  BY DEF Commit
<1>2. PartsOf(k)' = PartsOf(k) \cup OutOf(t, k)
  BY <1>1, AppendLists
<1>3. OutOf(t, k) = D \cup E
  BY OwnFields DEF OutOf
<1>4. Writing(t, k, "data") = BitsOf(D, disk)
  BY <1>1, AllWritten
<1>5. Writing(t, k, "delta") = BitsOf(E, disk)
  BY <1>1, AllWritten
<1>6. \A p \in D, q \in E : p.id < q.id
  BY <1>1, WhenBusy DEF Maintains, Writes, Busy, Maintenance
<1>7. (\A p \in D : p.kind = "data" /\ p \in loc[t].out) /\ (\A p \in E : p.kind = "delta" /\ p \in loc[t].out)
  OBVIOUS
<1> HIDE DEF D, E
<1>8. \A p \in PartsOf(k), q \in D \cup E : p.id < q.id
  BY <1>1, <1>7, OutAreNew DEF PartsOf
<1>9. \A p \in PartsOf(k) \cup D \cup E : p.id \in Nat
  BY <1>7, OwnFields, EngineAssumption DEF PartsOf, TypeOK, Path
<1>10. Fold(PartsOf(k) \cup D \cup E, disk)
         = (Fold(PartsOf(k), disk) \cup BitsOf(D, disk)) \ BitsOf(E, disk)
  <2>1. IsBatch(PartsOf(k), D, E)
    BY <1>6, <1>7, <1>8, <1>9 DEF IsBatch
  <2> QED
    BY <2>1, FoldBatch
<1>11. Disk(k)' = Fold(PartsOf(k) \cup D \cup E, disk)
  BY <1>1, <1>2, <1>3 DEF Disk
<1> QED
  BY <1>4, <1>5, <1>10, <1>11 DEF Disk, Overlay

LEMMA SupersededDisk ==
  ASSUME TypeOK, PartOwnership, CallsFit, NEW t \in Threads, Maintains(t), Commit(t),
         loc[t].op # "flush", NEW k \in Keys
  PROVE  Disk(k)' = IF k = loc[t].key THEN Writing(t, k, "data") ELSE Disk(k)
<1>1. pc[t] = "write" /\ SupersedeParts(t) /\ loc[t].plan = {} /\ disk' = disk
  BY DEF Commit
<1>2. Overwrites(t)
  BY <1>1 DEF CallsFit, CallFits, CallsAt, Overwrites
<1>3. /\ PartsOf(k)' = IF k = loc[t].key THEN loc[t].out ELSE PartsOf(k)
      /\ \A p \in loc[t].out : p.key = loc[t].key /\ p.kind = "data"
  BY <1>1, <1>2, SupersedeLists
<1>4. CASE k = loc[t].key
  <2>1. {q \in loc[t].out : q.key = k /\ q.kind = "data"} = loc[t].out
    BY <1>3, <1>4
  <2>2. Writing(t, k, "data") = BitsOf(loc[t].out, disk)
    BY <1>1, <2>1, AllWritten
  <2>3. \A p \in loc[t].out : p.id \in Nat
    BY OwnFields, EngineAssumption DEF Path
  <2>4. Fold(loc[t].out, disk) = BitsOf(loc[t].out, disk)
    BY <1>3, <2>3, DataFolded
  <2> QED
    BY <1>1, <1>3, <1>4, <2>2, <2>4 DEF Disk
<1>5. CASE k # loc[t].key
  BY <1>1, <1>3, <1>5 DEF Disk
<1> QED
  BY <1>4, <1>5

LEMMA DeletedDisk ==
  ASSUME TypeOK, PartOwnership, NEW t \in Threads, DeleteTxn(t), NEW k \in Keys
  PROVE  Disk(k)' = IF k = loc[t].key THEN {} ELSE Disk(k)
<1>1. disk' = disk /\ PartsOf(k)' = IF k = loc[t].key THEN {} ELSE PartsOf(k)
  BY DeleteLists DEF DeleteTxn
<1> QED
  BY <1>1, NothingFolded DEF Disk

LEMMA DroppedDisk ==
  ASSUME NEW t \in Threads, DropTxn(t), NEW k \in Keys
  PROVE  Disk(k)' = {}
<1>1. disk' = disk /\ PartsOf(k)' = {}
  BY DEF DropTxn, PartsOf
<1> QED
  BY <1>1, NothingFolded DEF Disk

LEMMA DiskStays ==
  ASSUME TypeOK, PartOwnership, NEW t \in Threads, Acts(t), ~Rewrites(t)
  PROVE  \A k \in Keys : PartsOf(k)' = PartsOf(k) /\ Disk(k)' = Disk(k)
<1>1. UNCHANGED <<parts, pparts, pdeltas>> /\ \A p \in parts : disk'[p] = disk[p]
  BY ListsStay, RegisteredStay
<1> QED
  BY <1>1, HeldStays

(* A compaction's commit changes what is stored for no key: the part it    *)
(* writes holds what all parts its key lists by then amount to, since no   *)
(* other call has listed or unregistered one while it read and merged them.*)
THEOREM CompactionKeepsContent == Spec /\ []OneMaintainer => CompactPreserves
<1>1. ASSUME OneInv, NEW t \in Threads, Commit(t), loc[t].op = "compact", NEW k \in Keys
      PROVE  Disk(k)' = Disk(k)
  <2>1. Disk(k)' = IF k = loc[t].key THEN Writing(t, k, "data") ELSE Disk(k)
    BY <1>1, SupersededDisk DEF OneInv, AllMaintain
  <2>2. Writing(t, loc[t].key, "data") = Disk(loc[t].key)
    BY <1>1, WhenBusy DEF OneInv, AllMaintain, Maintains, Writes, WritesBits, Commit, Busy, Maintenance
  <2> QED
    BY <2>1, <2>2
<1>2. OneInv => \A t \in Threads : Commit(t) /\ loc[t].op = "compact" => \A k \in Keys : Disk(k)' = Disk(k)
  BY <1>1
<1> QED
  BY <1>2, OneHolds, PTL DEF CompactPreserves

-----------------------------------------------------------------------------
(* The files.                                                              *)

Unlinking(t) == pc[t] \in Rebuilding \cup {"unlink"}

LEMMA ActsWhenUp == ASSUME PartOwnership, NEW t \in Threads, Acts(t) PROVE up
<1>1. pc[t] = "idle" => up
  <2> SUFFICES ASSUME pc[t] = "idle" PROVE up
    OBVIOUS
  <2>1. CASE StartCall(t) \/ TakeSnapshot(t) \/ StartGet(t)
    BY <2>1 DEF StartCall, PutBitmap, RemoveBits, ReplaceBitmap, CompactPeriod, CallOnEvent,
      TakeSnapshot, StartGet, Get, Starts
  <2>2. CASE EnsureEvent(t) \/ RevertCompacted(t) \/ NothingToFlush(t) \/ Collect(t)
    BY <2>2 DEF EnsureEvent, RevertCompacted, NothingToFlush, Collect, CollectDataIds, CollectDeltaIds,
      NotEligible, CollectDataPart, CollectDeltaPart, Collected, MergeParts, MergeFails
  <2>3. CASE Transact(t)
    BY <2>3 DEF Transact, BeginTxn, WritePart, Commit, TxnFails, DeleteKnown, DeleteTxn,
    DeleteUnknown, DropTxn
  <2>4. CASE Rebuild(t)
    BY <2>4 DEF Rebuild, RebuildList, RebuildDataIds, RebuildPart, RebuildDeltaIds, RebuildKeyDone,
      RebuildFold, RebuildFails, StoreIndex, UnlinkPart, CallDone
  <2>5. CASE Read(t)
    BY <2>5 DEF Read, CacheHit, CacheMiss, ReadTxn, ReadFiles, GetReturns
  <2>6. CASE Update(t)
    BY <2>6 DEF Update, PutLock, PutLockAutoFlush, BufferPut, RemoveLock, ReplaceLock, DeletePeriod,
      DropEvent, Starts
  <2> QED
    BY <2>1, <2>2, <2>3, <2>4, <2>5, <2>6 DEF Acts, Internal
<1> QED
  BY <1>1 DEF PartOwnership

(* Other steps leave a thread the files that are its own.                  *)
LEMMA MineKept ==
  ASSUME TypeOK, NEW t \in Threads, Acts(t), ~Rewrites(t), ~TxnFails(t), ~RebuildFails(t),
         \A e \in loc[t].plan : ~WritePart(t, e), \A p \in loc[t].olds : ~UnlinkPart(t, p)
  PROVE  /\ Mine(t) \subseteq Mine(t)'
         /\ Unlinking(t)' => Unlinking(t) /\ loc'[t].olds = loc[t].olds
<1> USE DEF TypeOK, Goto, Rebuilding, Unlinking
<1>0. loc[t] \in Locals
  BY DEF TypeOK
<1>a. ASSUME ~Unlinking(t), pc[t] # "write", ~Unlinking(t)'
      PROVE  Mine(t) \subseteq Mine(t)' /\ (Unlinking(t)' => Unlinking(t) /\ loc'[t].olds = loc[t].olds)
  BY <1>a DEF Mine
<1>b. ASSUME Unlinking(t), Unlinking(t)', loc'[t].olds = loc[t].olds
      PROVE  Mine(t) \subseteq Mine(t)' /\ (Unlinking(t)' => Unlinking(t) /\ loc'[t].olds = loc[t].olds)
  BY <1>b DEF Mine
<1>1. CASE StartCall(t)
  <2>1. ~Unlinking(t) /\ pc[t] # "write" /\ ~Unlinking(t)'
    BY <1>1 DEF StartCall, PutBitmap, RemoveBits, ReplaceBitmap, CompactPeriod, CallOnEvent, Starts, Resume
  <2> QED
    BY <1>a, <2>1
<1>2. CASE EnsureEvent(t) \/ RevertCompacted(t) \/ TakeSnapshot(t) \/ NothingToFlush(t)
  <2>1. ~Unlinking(t) /\ pc[t] # "write" /\ ~Unlinking(t)'
    BY <1>2 DEF EnsureEvent, RevertCompacted, TakeSnapshot, NothingToFlush, Starts, Resume, Return
  <2> QED
    BY <1>a, <2>1
<1>3. CASE Collect(t)
  <2>1. ~Unlinking(t) /\ pc[t] # "write" /\ ~Unlinking(t)'
    BY <1>3 DEF Collect, CollectDataIds, CollectDeltaIds, NotEligible, CollectDataPart,
      CollectDeltaPart, Collected, MergeParts, MergeFails, Return
  <2> QED
    BY <1>a, <2>1
<1>4. CASE Transact(t)
  <2>1. CASE BeginTxn(t)
    <3>1. loc'[t].out = loc[t].out /\ pc[t] = "txn" /\ pc'[t] = "write"
      BY <1>0, <2>1 DEF BeginTxn, Locals
    <3> QED
      BY <3>1 DEF Mine
  <2>2. CASE DeleteKnown(t) \/ DeleteUnknown(t)
    <3>1. ~Unlinking(t) /\ pc[t] # "write" /\ ~Unlinking(t)'
      BY <2>2 DEF DeleteKnown, DeleteUnknown, Return
    <3> QED
      BY <1>a, <3>1
  <2> QED
    BY <1>4, <2>1, <2>2 DEF Transact, Rewrites
<1>5. CASE Rebuild(t)
  <2>1. CASE RebuildList(t) \/ RebuildDeltaIds(t) \/ RebuildKeyDone(t) \/ RebuildFold(t) \/ StoreIndex(t)
    <3>1. Unlinking(t) /\ Unlinking(t)'
      BY <2>1 DEF RebuildList, RebuildDeltaIds, RebuildKeyDone, RebuildFold, StoreIndex
    <3>2. loc'[t].olds = loc[t].olds
      BY <1>0, <2>1 DEF RebuildList, RebuildDeltaIds, RebuildKeyDone, RebuildFold, StoreIndex, Locals
    <3> QED
      BY <1>b, <3>1, <3>2
  <2>2. ASSUME NEW k \in Keys, RebuildDataIds(t, k)
        PROVE  Unlinking(t) /\ Unlinking(t)' /\ loc'[t].olds = loc[t].olds
    BY <1>0, <2>2 DEF RebuildDataIds, Locals
  <2>3. CASE RebuildPart(t)
    <3>1. PICK i \in loc[t].ids :
            loc' = [loc EXCEPT ![t].ids = @ \ {i}, ![t].found = @ \cup {p \in parts : p.id = i}]
      BY <2>3 DEF RebuildPart
    <3>2. loc'[t].olds = loc[t].olds
      BY <1>0, <3>1 DEF Locals
    <3>3. Unlinking(t) /\ Unlinking(t)'
      BY <2>3 DEF RebuildPart
    <3> QED
      BY <1>b, <3>2, <3>3
  <2>4. CASE CallDone(t)
    <3>1. pc[t] = "unlink" /\ loc[t].olds = {} /\ pc'[t] = "idle"
      BY <2>4 DEF CallDone, Return
    <3> QED
      BY <3>1 DEF Mine
  <2> QED
    BY <1>5, <1>b, <2>1, <2>2, <2>3, <2>4 DEF Rebuild
<1>6. CASE Read(t) \/ StartGet(t)
  <2>1. ~Unlinking(t) /\ pc[t] # "write" /\ ~Unlinking(t)'
    BY <1>6 DEF Read, CacheHit, CacheMiss, ReadTxn, ReadFiles, GetReturns, StartGet, Get, Starts, Return
  <2> QED
    BY <1>a, <2>1
<1>7. CASE Update(t)
  <2>1. ~Unlinking(t) /\ pc[t] # "write" /\ ~Unlinking(t)'
    BY <1>7 DEF Update, PutLock, PutLockAutoFlush, BufferPut, RemoveLock, ReplaceLock, DeletePeriod,
      DropEvent, Starts, Return
  <2> QED
    BY <1>a, <2>1
<1> QED
  BY <1>1, <1>2, <1>3, <1>4, <1>5, <1>6, <1>7 DEF Acts, Internal

(* What a commit unregisters is what its thread will unlink.               *)
LEMMA RewritesFiles ==
  ASSUME TypeOK, PartOwnership, CallsFit, NEW t \in Threads, Maintains(t), Rewrites(t)
  PROVE  /\ disk' = disk /\ Mine(t) \cup parts \subseteq Mine(t)' \cup parts'
         /\ \A p \in loc'[t].olds, q \in parts' : q.id # p.id
<1> USE DEF TypeOK, Goto, Rebuilding
<1>1. UniqueIds(parts)
  BY DEF PartOwnership, SpentIds
<1>2. disk' = disk /\ pc'[t] = "rb_list"
  BY DEF Rewrites, Commit, DeleteTxn, DropTxn
<1>3. Mine(t)' = loc'[t].olds
  BY <1>2 DEF Mine
<1>4. CASE Commit(t)
  <2>1. pc[t] = "write" /\ loc' = loc
    BY <1>4 DEF Commit
  <2>2. Mine(t) = loc[t].out
    BY <2>1 DEF Mine
  <2>3. CASE loc[t].op = "flush"
    <3>1. loc[t].olds = {}
      BY <2>1, <2>3 DEF PartOwnership, CollectsOwnKey, Superseding, OnlyAdding
    <3>2. parts' = parts \cup loc[t].out
      BY <1>4, <2>3 DEF Commit, AppendParts
    <3> QED
      BY <1>2, <1>3, <2>1, <2>2, <3>1, <3>2
  <2>4. CASE loc[t].op # "flush"
    <3>1. parts' = (parts \cup loc[t].out) \ loc[t].olds
      BY <1>4, <2>4 DEF Commit, SupersedeParts
    <3>2. loc[t].olds \subseteq parts
      BY <2>1, <2>4, WhenBusy
        DEF CallsFit, CallFits, CallsAt, OnEvent, Maintains, CollectsAll, Overwrites, PartsOf
    <3>3. \A p \in loc[t].olds, q \in loc[t].out : q.id # p.id
      <4>1. \A p \in loc[t].olds, q \in loc[t].out : p.id < q.id /\ p.id \in Nat /\ q.id \in Nat
        <5>1. \A p \in loc[t].olds, q \in loc[t].out : p.id < q.id
          BY <2>1, <3>2, OutAreNew
        <5>2. \A p \in loc[t].olds \cup loc[t].out : p \in Path
          BY OwnFields
        <5>3. \A p \in Path : p.id \in Nat
          BY EngineAssumption DEF Path
        <5> QED
          BY <5>1, <5>2, <5>3
      <4> QED
        BY <4>1
    <3>4. \A p \in loc[t].olds, q \in parts' : q.id # p.id
      BY <1>1, <3>1, <3>2, <3>3 DEF UniqueIds
    <3>5. Mine(t)' = loc[t].olds
      BY <1>3, <2>1
    <3> QED
      BY <1>2, <2>1, <2>2, <3>1, <3>4, <3>5
  <2> QED
    BY <2>3, <2>4
<1>5. ASSUME NEW P \in SUBSET parts, parts' = parts \ P, loc'[t].olds = P, pc[t] # "write", ~Unlinking(t)
      PROVE  /\ Mine(t) \cup parts \subseteq Mine(t)' \cup parts'
             /\ \A p \in loc'[t].olds, q \in parts' : q.id # p.id
  <2>1. Mine(t) = {}
    BY <1>5 DEF Mine, Unlinking
  <2> QED
    BY <1>1, <1>3, <1>5, <2>1 DEF UniqueIds
<1>6. loc[t] \in Locals
  OBVIOUS
<1>7. CASE DeleteTxn(t)
  <2>1. loc'[t].olds = PartsOf(loc[t].key)
    BY <1>6, <1>7 DEF DeleteTxn, Locals
  <2>2. /\ parts' = parts \ PartsOf(loc[t].key) /\ pc[t] # "write" /\ ~Unlinking(t)
        /\ PartsOf(loc[t].key) \in SUBSET parts
    BY <1>7 DEF DeleteTxn, Unlinking, PartsOf
  <2> QED
    BY <1>2, <1>5, <2>1, <2>2
<1>8. CASE DropTxn(t)
  <2>1. loc'[t].olds = EventData
    BY <1>6, <1>8 DEF DropTxn, Locals
  <2>2. /\ parts' = parts \ EventData /\ pc[t] # "write" /\ ~Unlinking(t)
        /\ EventData \in SUBSET parts
    BY <1>8 DEF DropTxn, Unlinking, EventData
  <2> QED
    BY <1>2, <1>5, <2>1, <2>2
<1> QED
  BY <1>4, <1>7, <1>8 DEF Rewrites

LEMMA FilesStep ==
  ASSUME TypeOK, PartOwnership, CallsFit, OneMaintainer, AllMaintain, FilesKnown, ~IoErrors,
         NEW t \in Threads, Acts(t)
  PROVE  FilesKnown'
<1>1. up /\ Maintains(t)
  BY ActsWhenUp DEF AllMaintain
<1>2. \A u \in Threads \ {t} : loc'[u] = loc[u] /\ pc'[u] = pc[u]
  BY OthersStay
<1>3. \A u \in Threads \ {t} : Mine(u)' = Mine(u)
  BY <1>2 DEF Mine
<1>4. \A p \in Path : disk[p] # Absent => p \in parts \/ \E u \in Threads : p \in Mine(u)
  BY <1>1 DEF FilesKnown
<1>5. \A u \in Threads : Unlinking(u) => \A p \in loc[u].olds, q \in parts : q.id # p.id
  BY DEF FilesKnown, Unlinking
<1>6. ASSUME \A p \in Path : disk'[p] # Absent => p \in parts' \/ p \in Mine(t)'
                                \/ \E u \in Threads \ {t} : p \in Mine(u),
             Unlinking(t)' => \A p \in loc'[t].olds, q \in parts' : q.id # p.id,
             parts' = parts \/ \A u \in Threads \ {t} : ~Unlinking(u)
      PROVE  FilesKnown'
  <2>1. \A u \in Threads : Unlinking(u)' => \A p \in loc'[u].olds, q \in parts' : q.id # p.id
    <3> SUFFICES ASSUME NEW u \in Threads, Unlinking(u)'
                 PROVE  \A p \in loc'[u].olds, q \in parts' : q.id # p.id
      OBVIOUS
    <3>1. CASE u = t
      BY <1>6, <3>1
    <3>2. CASE u # t
      BY <1>2, <1>5, <1>6, <3>2 DEF Unlinking
    <3> QED
      BY <3>1, <3>2
  <2>2. \A p \in Path : disk'[p] # Absent => p \in parts' \/ \E u \in Threads : p \in Mine(u)'
    BY <1>3, <1>6
  <2> QED
    BY <2>1, <2>2 DEF FilesKnown, Unlinking
<1>7. CASE Rewrites(t)
  <2>1. /\ disk' = disk /\ Mine(t) \cup parts \subseteq Mine(t)' \cup parts'
        /\ \A p \in loc'[t].olds, q \in parts' : q.id # p.id
    BY <1>1, <1>7, RewritesFiles
  <2>2. \A u \in Threads \ {t} : ~Unlinking(u)
    BY <1>7, WhenBusy DEF OneMaintainer, Unlinking
  <2> QED
    BY <1>4, <1>6, <2>1, <2>2
<1>8. CASE ~Rewrites(t)
  <2>1. parts' = parts
    BY <1>8, ListsStay
  <2>2. CASE \E e \in loc[t].plan : WritePart(t, e)
    <3>1. PICK e \in loc[t].plan : WritePart(t, e)
      BY <2>2
    <3>2. PICK p \in Path : p.id = loc[t].nid /\ loc'[t].out = loc[t].out \cup {p}
      BY <3>1, PartWritten
    <3>3. pc[t] = "write" /\ pc'[t] = "write"
      BY <3>1 DEF WritePart
    <3>4. \A q \in Path : disk'[q] # Absent => disk[q] # Absent \/ q \in loc'[t].out
      <4> DEFINE w == [id |-> loc[t].nid, kind |-> e.kind, key |-> e.key]
      <4>1. disk' = [disk EXCEPT ![w] = e.bits]
        BY <3>1 DEF WritePart
      <4>2. w \in loc'[t].out
        BY <3>1 DEF WritePart, TypeOK, Locals
      <4> HIDE DEF w
      <4> QED
        BY <4>1, <4>2 DEF TypeOK
    <3>5. Mine(t)' = loc'[t].out /\ Mine(t) = loc[t].out
      BY <3>3 DEF Mine, Rebuilding
    <3>6. ~Unlinking(t)'
      BY <3>3 DEF Unlinking, Rebuilding
    <3> QED
      BY <1>4, <1>6, <2>1, <3>2, <3>4, <3>5, <3>6
  <2>3. CASE \E p \in loc[t].olds : UnlinkPart(t, p)
    <3>1. PICK p \in loc[t].olds : UnlinkPart(t, p)
      BY <2>3
    <3>2. pc[t] = "unlink" /\ pc'[t] = "unlink" /\ disk' = [disk EXCEPT ![p] = Absent]
      BY <3>1 DEF UnlinkPart
    <3>3. loc'[t].olds = loc[t].olds \ {p}
      BY <3>1 DEF UnlinkPart, TypeOK, Locals
    <3>4. Mine(t)' = loc[t].olds \ {p} /\ Mine(t) = loc[t].olds
      BY <3>2, <3>3 DEF Mine
    <3>5. \A q \in Path : disk'[q] # Absent => disk[q] # Absent /\ q # p
      BY <3>2 DEF TypeOK
    <3>6. Unlinking(t)
      BY <3>2 DEF Unlinking
    <3> QED
      BY <1>4, <1>5, <1>6, <2>1, <3>3, <3>4, <3>5, <3>6
  <2>4. CASE /\ \A e \in loc[t].plan : ~WritePart(t, e)
             /\ \A p \in loc[t].olds : ~UnlinkPart(t, p)
    <3>1. disk' = disk
      BY <2>4, FilesStay
    <3>2. ~TxnFails(t) /\ ~RebuildFails(t)
      BY <1>1, BuildsFindFiles DEF TxnFails
    <3>3. /\ Mine(t) \subseteq Mine(t)'
          /\ Unlinking(t)' => Unlinking(t) /\ loc'[t].olds = loc[t].olds
      BY <1>8, <2>4, <3>2, MineKept
    <3> QED
      BY <1>4, <1>5, <1>6, <2>1, <3>1, <3>3
  <2> QED
    BY <2>2, <2>3, <2>4
<1> QED
  BY <1>7, <1>8

(* A crash leaves files no registered part has the id of: the orphan scan  *)
(* finds every one of them.                                                *)
LEMMA CrashFiles == TypeOK /\ PartOwnership /\ FilesKnown /\ Crash => FilesKnown'
<1> SUFFICES ASSUME TypeOK, PartOwnership, FilesKnown, Crash PROVE FilesKnown'
  OBVIOUS
<1>1. /\ up /\ ~up' /\ disk' = disk /\ parts' = parts
      /\ \A t \in Threads : pc'[t] = "idle"
  BY DEF Crash, catalog
<1>2. ASSUME NEW p \in Path, disk[p] # Absent, p \notin parts, NEW q \in parts PROVE q.id # p.id
  <2>1. PICK t \in Threads : p \in Mine(t)
    BY <1>1, <1>2 DEF FilesKnown
  <2>2. CASE pc[t] = "write" /\ p \in loc[t].out
    <3>1. q.id < p.id /\ q.id \in Nat /\ p.id \in Nat
      BY <2>2, OutAreNew, EngineAssumption DEF TypeOK, Path
    <3> QED
      BY <3>1
  <2>3. CASE pc[t] \in Rebuilding \cup {"unlink"} /\ p \in loc[t].olds
    BY <2>3 DEF FilesKnown
  <2> QED
    BY <2>1, <2>2, <2>3 DEF Mine
<1> QED
  BY <1>1, <1>2 DEF FilesKnown, Rebuilding

LEMMA RecoverFiles == TypeOK /\ PartOwnership /\ FilesKnown /\ Recover => FilesKnown'
<1> SUFFICES ASSUME TypeOK, PartOwnership, FilesKnown, Recover PROVE FilesKnown'
  OBVIOUS
<1>1. /\ ~up /\ UNCHANGED <<parts, pc, loc>> /\ \A t \in Threads : pc[t] = "idle"
      /\ \A p \in Path : disk'[p] # Absent => disk[p] # Absent
  BY DEF Recover, DeleteOrphan, Open, PartOwnership, TypeOK, catalog
<1>2. \A p \in Path : disk[p] # Absent => p \in parts \/ \A q \in parts : q.id # p.id
  BY <1>1 DEF FilesKnown, Mine, Rebuilding
<1>3. up' => \A p \in Path : disk[p] # Absent => p \in parts
  BY <1>1, <1>2 DEF Recover, DeleteOrphan, Open, Orphans
<1> QED
  BY <1>1, <1>2, <1>3 DEF FilesKnown, Rebuilding

(* Between calls the parts directory holds the registered parts and no     *)
(* other file, whatever crashes came before, as long as no write fails: a  *)
(* file belongs to the catalog, to the running transaction or to the call  *)
(* that will unlink it, and a crash leaves it an id the catalog lacks.     *)
THEOREM NoStrayFileLeft ==
  ASSUME ~IoErrors
  PROVE  Spec /\ []OneMaintainer => []NoStrayFile
<1>1. Init => FilesKnown
  BY DEF Init, FilesKnown, Rebuilding
<1>2. OneInv /\ OneMaintainer /\ FilesKnown /\ [Next]_vars => FilesKnown'
  <2> SUFFICES ASSUME OneInv, OneMaintainer, FilesKnown, [Next]_vars PROVE FilesKnown'
    OBVIOUS
  <2>1. ASSUME NEW t \in Threads, Acts(t) PROVE FilesKnown'
    BY <2>1, FilesStep DEF OneInv
  <2>2. CASE UNCHANGED vars
    BY <2>2 DEF vars, catalog, FilesKnown, Mine
  <2> QED
    BY <2>1, <2>2, CrashFiles, RecoverFiles DEF Next, Acts, OneInv
<1>3. OneInv /\ FilesKnown => NoStrayFile
  <2> SUFFICES ASSUME OneInv, FilesKnown, Quiet PROVE {p \in Path : disk[p] # Absent} = parts
    BY DEF NoStrayFile
  <2>1. \A t \in Threads : Mine(t) = {}
    BY DEF Quiet, Mine, Rebuilding
  <2>2. \A p \in Path : disk[p] # Absent => p \in parts
    BY <2>1 DEF FilesKnown, Quiet
  <2>3. \A p \in parts : p \in Path /\ disk[p] # Absent
    BY DEF OneInv, TypeOK, PartOwnership, DurableIntegrity, Readable
  <2> QED
    BY <2>2, <2>3
<1> QED
  BY <1>1, <1>2, <1>3, OneHolds, PTL DEF Spec

-----------------------------------------------------------------------------
(* The write-back store: what the write under way will make durable.       *)

Disks    == [k \in Keys |-> Disk(k)]
Targets  == [k \in Keys |-> Target(k)]
Contents == [k \in Keys |-> Content(k)]

TargetFor(t) ==
  IF loc[t].op = "flush"
  THEN [k \in Keys |-> Overlay(Disk(k), Writing(t, k, "data"), Writing(t, k, "delta"))]
  ELSE [k \in Keys |-> IF loc[t].op = "drop" \/ loc[t].key = k THEN loc[t].bits ELSE Disk(k)]

LEMMA FlightIsBusy == ASSUME CallsFit, NEW t \in Threads, InFlight(t) PROVE Busy(t)
BY DEF InFlight, CallsFit, CallFits, CallsAt, Busy, Maintenance

LEMMA TargetIs ==
  CallsFit /\ OneMaintainer =>
    /\ \A t \in Threads : InFlight(t) => Targets = TargetFor(t)
    /\ (\A t \in Threads : ~InFlight(t)) => Targets = Disks
<1>1. ASSUME CallsFit, OneMaintainer, NEW t \in Threads, InFlight(t) PROVE Targets = TargetFor(t)
  <2> DEFINE c == CHOOSE u \in Threads : InFlight(u)
  <2>1. c \in Threads /\ InFlight(c)
    BY <1>1
  <2>2. c = t
    BY <1>1, <2>1, FlightIsBusy DEF OneMaintainer
  <2>3. Targets = TargetFor(c)
    BY <1>1 DEF Targets, Target, TargetFor
  <2> QED
    BY <2>2, <2>3
<1>2. (\A t \in Threads : ~InFlight(t)) => Targets = Disks
  BY DEF Targets, Target, Disks
<1> QED
  BY <1>1, <1>2

LEMMA TargetIsNext ==
  (CallsFit /\ OneMaintainer =>
    /\ \A t \in Threads : InFlight(t) => Targets = TargetFor(t)
    /\ (\A t \in Threads : ~InFlight(t)) => Targets = Disks)'
BY TargetIs, PTL

(* What both states of a step need.                                        *)
Beside == OneInv /\ OneInv' /\ OneMaintainer /\ OneMaintainer'

(* A maintaining thread is alone in having a write under way.              *)
LEMMA LoneTarget ==
  ASSUME Beside, NEW t \in Threads, Acts(t), Busy(t) \/ Busy(t)'
  PROVE  /\ InFlight(t) => Targets = TargetFor(t)
         /\ ~InFlight(t) => Targets = Disks
         /\ InFlight(t)' => Targets' = TargetFor(t)'
         /\ ~InFlight(t)' => Targets' = Disks'
<1> USE DEF Beside, OneInv
<1>1. \A u \in Threads \ {t} : loc'[u] = loc[u] /\ pc'[u] = pc[u]
  BY OthersStay
<1>2. \A u \in Threads \ {t} : ~Busy(u)
  BY <1>1 DEF OneMaintainer, Busy
<1>3. \A u \in Threads \ {t} : ~InFlight(u) /\ ~InFlight(u)'
  BY <1>1, <1>2, FlightIsBusy DEF InFlight
<1>4. /\ InFlight(t) => Targets = TargetFor(t)
      /\ ~InFlight(t) => Targets = Disks
  BY <1>3, TargetIs
<1>5. /\ InFlight(t)' => Targets' = TargetFor(t)'
      /\ ~InFlight(t)' => Targets' = Disks'
  BY <1>3, TargetIsNext
<1> QED
  BY <1>4, <1>5

(* A step that neither begins nor ends the write nor changes what it is.   *)
FlightKept(t) ==
  \/ ~InFlight(t) /\ ~InFlight(t)'
  \/ /\ InFlight(t) /\ InFlight(t)'
     /\ loc'[t].op = loc[t].op /\ loc'[t].key = loc[t].key /\ loc'[t].bits = loc[t].bits
     /\ loc[t].op = "flush" =>
          \A k \in Keys, kind \in Kinds : Writing(t, k, kind)' = Writing(t, k, kind)

LEMMA DisksStay ==
  ASSUME TypeOK, PartOwnership, NEW t \in Threads, Acts(t), ~Rewrites(t) PROVE Disks' = Disks
BY DiskStays DEF Disks

LEMMA TargetStays ==
  ASSUME Beside, NEW t \in Threads, Acts(t), ~Rewrites(t), FlightKept(t)
  PROVE  Targets' = Targets /\ Disks' = Disks
<1> USE DEF Beside, OneInv
<1>1. Disks' = Disks /\ \A k \in Keys : Disk(k)' = Disk(k)
  BY DisksStay, DiskStays
<1>2. \A u \in Threads \ {t} : loc'[u] = loc[u] /\ pc'[u] = pc[u]
  BY OthersStay
<1>3. \A u \in Threads \ {t} : InFlight(u)' <=> InFlight(u)
  BY <1>2 DEF InFlight
<1>4. CASE \E u \in Threads : InFlight(u)
  <2>1. PICK u \in Threads : InFlight(u)
    BY <1>4
  <2>2. InFlight(u)'
    BY <1>3, <2>1 DEF FlightKept
  <2>3. /\ loc'[u].op = loc[u].op /\ loc'[u].key = loc[u].key /\ loc'[u].bits = loc[u].bits
        /\ loc[u].op = "flush" =>
             \A k \in Keys, kind \in Kinds : Writing(u, k, kind)' = Writing(u, k, kind)
    <3>1. CASE u = t
      BY <2>1, <3>1 DEF FlightKept
    <3>2. CASE u # t
      <4>1. disk' = disk
        BY <2>1, <3>2, FlightIsBusy, OthersIdle
      <4> QED
        BY <1>2, <3>2, <4>1 DEF Writing
    <3> QED
      BY <3>1, <3>2
  <2>4. TargetFor(u)' = TargetFor(u)
    BY <1>1, <2>3 DEF TargetFor, Kinds
  <2> QED
    BY <1>1, <2>1, <2>2, <2>4, TargetIs, TargetIsNext
<1>5. CASE \A u \in Threads : ~InFlight(u)
  <2>1. \A u \in Threads : ~InFlight(u)'
    BY <1>3, <1>5 DEF FlightKept
  <2> QED
    BY <1>1, <1>5, <2>1, TargetIs, TargetIsNext
<1> QED
  BY <1>4, <1>5

(* What the buffer m, d makes of the bitmaps T.                            *)
Laid(T, m, d) == [k \in Keys |-> Overlay(T[k], m[k], d[k])]

LEMMA ContentLaid ==
  /\ Contents = Laid(Targets, mem, memDel)
  /\ Contents' = Laid(Targets', mem', memDel')
BY DEF Contents, Content, Laid, Targets

LEMMA LaidPut ==
  ASSUME NEW T, NEW m, NEW d, NEW K, NEW b
  PROVE  /\ Laid(T, AddBits(m, K, b), ClearBits(d, K, b)) = AddBits(Laid(T, m, d), K, b)
         /\ Laid(T, m, AddBits(d, K, b)) = ClearBits(Laid(T, m, d), K, b)
BY DEF Laid, AddBits, ClearBits, Overlay

LEMMA LaidEmpty ==
  ASSUME NEW T, NEW m, NEW d, \A k \in Keys : m[k] = {} /\ d[k] = {}
  PROVE  Laid(T, m, d) = [k \in Keys |-> T[k]]
BY DEF Laid, Overlay

LEMMA DiskTypes == TypeOK /\ PartOwnership => Disks \in [Keys -> SUBSET Ids]
<1> SUFFICES ASSUME TypeOK, PartOwnership, NEW k \in Keys PROVE Disk(k) \in SUBSET Ids
  BY DEF Disks
<1>1. PartsOf(k) \in SUBSET Path /\ Readable(PartsOf(k))
  BY DEF PartsOf, TypeOK, PartOwnership, DurableIntegrity, Readable
<1> QED
  BY <1>1, FoldType DEF Disk

LEMMA UpdateLabels ==
  ASSUME TypeOK, CallsFit, NEW t \in Threads
  PROVE  /\ Update(t) => Acts(t) /\ ~Rewrites(t)
         /\ PutLock(t) \/ PutLockAutoFlush(t) \/ RemoveLock(t) => FlightKept(t)
         /\ ReplaceLock(t) => pc[t] = "replace_lock" /\ pc'[t] = "data_ids" /\ Busy(t)
         /\ \A k \in Keys : DeletePeriod(t, k) => pc[t] = "idle" /\ pc'[t] = "delete"
         /\ DropEvent(t) => pc[t] = "idle" /\ pc'[t] = "drop_txn"
         /\ TakeSnapshot(t) => pc[t] \in {"idle", "flush"} /\ pc'[t] = "ensure"
<1> USE DEF TypeOK, Goto
<1>1. Update(t) => Acts(t) /\ ~Rewrites(t)
  BY DEF Acts, Update, Rewrites, Commit, DeleteTxn, DropTxn, PutLock, PutLockAutoFlush, BufferPut,
    RemoveLock, ReplaceLock, DeletePeriod, DropEvent, Starts
<1>2. PutLock(t) \/ PutLockAutoFlush(t) \/ RemoveLock(t) =>
        pc[t] \in {"put_lock", "remove_lock"} /\ pc'[t] \in {"idle", "flush"}
  BY DEF PutLock, PutLockAutoFlush, BufferPut, RemoveLock, Return
<1>3. PutLock(t) \/ PutLockAutoFlush(t) \/ RemoveLock(t) => FlightKept(t)
  BY <1>2 DEF FlightKept, InFlight
<1>4. ReplaceLock(t) => pc[t] = "replace_lock" /\ pc'[t] = "data_ids" /\ Busy(t)
  BY DEF ReplaceLock, CallsFit, CallFits, CallsAt, Busy, Maintenance
<1>5. \A k \in Keys : DeletePeriod(t, k) => pc[t] = "idle" /\ pc'[t] = "delete"
  BY DEF DeletePeriod, Starts
<1>6. DropEvent(t) => pc[t] = "idle" /\ pc'[t] = "drop_txn"
  BY DEF DropEvent, Starts
<1>7. TakeSnapshot(t) => pc[t] \in {"idle", "flush"} /\ pc'[t] = "ensure"
  BY DEF TakeSnapshot, Starts
<1> QED
  BY <1>1, <1>3, <1>4, <1>5, <1>6, <1>7

(* Puts and removes change the content at once and nothing else.           *)
LEMMA BufferedContent ==
  ASSUME Beside, NEW t \in Threads, PutLock(t) \/ PutLockAutoFlush(t) \/ RemoveLock(t)
  PROVE  /\ Disks' = Disks /\ Targets' = Targets
         /\ PutLock(t) \/ PutLockAutoFlush(t) =>
              Contents' = AddBits(Contents, Cover(loc[t].key), loc[t].bits)
         /\ RemoveLock(t) => Contents' = ClearBits(Contents, Cover(loc[t].key), loc[t].bits)
<1> DEFINE K == Cover(loc[t].key)
           b == loc[t].bits
<1>1. Disks' = Disks /\ Targets' = Targets
  BY UpdateLabels, TargetStays DEF Beside, OneInv, Update
<1>2. ASSUME PutLock(t) \/ PutLockAutoFlush(t) PROVE mem' = AddBits(mem, K, b) /\ memDel' = ClearBits(memDel, K, b)
  BY <1>2 DEF PutLock, PutLockAutoFlush, BufferPut
<1>3. ASSUME RemoveLock(t) PROVE mem' = mem /\ memDel' = AddBits(memDel, K, b)
  BY <1>3 DEF RemoveLock
<1> HIDE DEF K, b
<1>4. ASSUME PutLock(t) \/ PutLockAutoFlush(t) PROVE Contents' = AddBits(Contents, K, b)
  <2>1. Contents' = Laid(Targets, AddBits(mem, K, b), ClearBits(memDel, K, b))
    BY <1>1, <1>2, <1>4, ContentLaid
  <2>2. Contents' = AddBits(Laid(Targets, mem, memDel), K, b)
    BY <2>1, LaidPut
  <2> QED
    BY <2>2, ContentLaid
<1>5. ASSUME RemoveLock(t) PROVE Contents' = ClearBits(Contents, K, b)
  <2>1. Contents' = Laid(Targets, mem, AddBits(memDel, K, b))
    BY <1>1, <1>3, <1>5, ContentLaid
  <2>2. Contents' = ClearBits(Laid(Targets, mem, memDel), K, b)
    BY <2>1, LaidPut
  <2> QED
    BY <2>2, ContentLaid
<1> QED
  BY <1>1, <1>4, <1>5 DEF K, b

(* Replacing and deleting fix a new content of one period as the target.   *)
LEMMA ReplacedContent ==
  ASSUME Beside, NEW t \in Threads, ReplaceLock(t)
  PROVE  /\ Disks' = Disks /\ Targets = Disks
         /\ Targets' = [Disks EXCEPT ![loc[t].key] = loc[t].bits]
         /\ Contents' = [Contents EXCEPT ![loc[t].key] = loc[t].bits]
<1> USE DEF Beside, OneInv
<1>1. /\ pc[t] = "replace_lock" /\ pc'[t] = "data_ids" /\ Busy(t) /\ Acts(t) /\ ~Rewrites(t)
      /\ loc' = loc /\ loc[t].op = "replace"
  BY UpdateLabels DEF Update, ReplaceLock, CallsFit, CallFits, CallsAt
<1>2. Disks' = Disks /\ \A k \in Keys : Disk(k)' = Disk(k)
  BY <1>1, DisksStay, DiskStays
<1>3. Targets = Disks /\ Targets' = TargetFor(t)'
  BY <1>1, LoneTarget DEF InFlight
<1>4. \A k \in Keys : Targets'[k] = IF loc[t].key = k THEN loc[t].bits ELSE Disk(k)
  BY <1>1, <1>2, <1>3 DEF TargetFor
<1>5. Targets' = [Disks EXCEPT ![loc[t].key] = loc[t].bits]
  <2>1. Targets' = [k \in Keys |-> Targets'[k]]
    BY DEF Targets
  <2> QED
    BY <1>4, <2>1 DEF Disks
<1>6. \A k \in Keys : /\ mem'[k] = IF k = loc[t].key THEN {} ELSE mem[k]
                      /\ memDel'[k] = IF k = loc[t].key THEN {} ELSE memDel[k]
  BY DEF ReplaceLock, TypeOK
<1>7. \A k \in Keys : Contents'[k] = IF k = loc[t].key THEN loc[t].bits ELSE Contents[k]
  <2>1. \A k \in Keys : /\ Contents'[k] = Overlay(Targets'[k], mem'[k], memDel'[k])
                        /\ Contents[k] = Overlay(Targets[k], mem[k], memDel[k])
    BY ContentLaid DEF Laid
  <2>2. \A k \in Keys : Disks[k] = Disk(k)
    BY DEF Disks
  <2>3. loc[t].bits = Overlay(loc[t].bits, {}, {})
    BY DEF Overlay
  <2>4. ASSUME NEW k \in Keys, k = loc[t].key PROVE Contents'[k] = loc[t].bits
    BY <1>4, <1>6, <2>1, <2>3, <2>4
  <2>5. ASSUME NEW k \in Keys, k # loc[t].key PROVE Contents'[k] = Contents[k]
    BY <1>3, <1>4, <1>6, <2>1, <2>2, <2>5
  <2> QED
    BY <2>4, <2>5
<1>8. Contents' = [k \in Keys |-> Contents'[k]]
  BY DEF Contents
<1> QED
  BY <1>2, <1>3, <1>5, <1>7, <1>8 DEF Contents

LEMMA ErasedContent ==
  ASSUME Beside, NEW t \in Threads, NEW k \in Keys, DeletePeriod(t, k)
  PROVE  /\ Disks' = Disks /\ Targets = Disks
         /\ Targets' = [Disks EXCEPT ![k] = {}] /\ Contents' = [Contents EXCEPT ![k] = {}]
<1> USE DEF Beside, OneInv
<1>1. pc[t] = "idle" /\ pc'[t] = "delete" /\ Acts(t) /\ ~Rewrites(t)
  BY UpdateLabels DEF Update
<1>2. loc'[t].op = "delete" /\ loc'[t].key = k /\ loc'[t].bits = {}
  <2>1. loc'[t] = [Blank EXCEPT !.op = "delete", !.key = k, !.bits = {}]
    BY DEF DeletePeriod, Call, TypeOK
  <2> QED
    BY <2>1 DEF Blank
<1>3. Disks' = Disks /\ \A j \in Keys : Disk(j)' = Disk(j)
  BY <1>1, DisksStay, DiskStays
<1>4. Targets = Disks /\ Targets' = TargetFor(t)'
  <2>1. Busy(t)'
    BY <1>2 DEF Busy, Maintenance
  <2> QED
    BY <1>1, <2>1, LoneTarget DEF InFlight, CallsFit, CallFits, CallsAt
<1>5. \A j \in Keys : Targets'[j] = IF j = k THEN {} ELSE Disk(j)
  BY <1>2, <1>3, <1>4 DEF TargetFor
<1>6. Targets' = [Disks EXCEPT ![k] = {}]
  <2>1. Targets' = [j \in Keys |-> Targets'[j]]
    BY DEF Targets
  <2> QED
    BY <1>5, <2>1 DEF Disks
<1>7. \A j \in Keys : /\ mem'[j] = IF j = k THEN {} ELSE mem[j]
                      /\ memDel'[j] = IF j = k THEN {} ELSE memDel[j]
  BY DEF DeletePeriod, TypeOK
<1>8. \A j \in Keys : Contents'[j] = IF j = k THEN {} ELSE Contents[j]
  <2>1. \A j \in Keys : /\ Contents'[j] = Overlay(Targets'[j], mem'[j], memDel'[j])
                        /\ Contents[j] = Overlay(Targets[j], mem[j], memDel[j])
    BY ContentLaid DEF Laid
  <2>2. \A j \in Keys : Disks[j] = Disk(j)
    BY DEF Disks
  <2> QED
    BY <1>4, <1>5, <1>7, <2>1, <2>2 DEF Overlay
<1>9. Contents' = [j \in Keys |-> Contents'[j]]
  BY DEF Contents
<1> QED
  BY <1>3, <1>4, <1>6, <1>8, <1>9 DEF Contents

LEMMA DroppedContent ==
  ASSUME Beside, NEW t \in Threads, DropEvent(t)
  PROVE  /\ Disks' = Disks /\ Targets = Disks
         /\ Targets' = [k \in Keys |-> {}] /\ Contents' = [k \in Keys |-> {}]
<1> USE DEF Beside, OneInv
<1>1. pc[t] = "idle" /\ pc'[t] = "drop_txn" /\ Acts(t) /\ ~Rewrites(t)
  BY UpdateLabels DEF Update
<1>2. loc'[t].op = "drop" /\ loc'[t].bits = {}
  <2>1. loc'[t] = [Blank EXCEPT !.op = "drop"]
    BY DEF DropEvent, TypeOK
  <2> QED
    BY <2>1 DEF Blank
<1>3. Disks' = Disks
  BY <1>1, DisksStay
<1>4. Targets = Disks /\ Targets' = TargetFor(t)'
  <2>1. Busy(t)'
    BY <1>2 DEF Busy, Maintenance
  <2> QED
    BY <1>1, <2>1, LoneTarget DEF InFlight, CallsFit, CallFits, CallsAt
<1>5. Targets' = [k \in Keys |-> {}]
  BY <1>2, <1>4 DEF TargetFor
<1>6. \A k \in Keys : mem'[k] = {} /\ memDel'[k] = {}
  BY DEF DropEvent
<1>7. Contents' = [k \in Keys |-> Targets'[k]]
  BY <1>6, ContentLaid, LaidEmpty
<1> QED
  BY <1>3, <1>4, <1>5, <1>7

(* What a flush drains is what it writes.                                  *)
LEMMA DrainedBits ==
  ASSUME NEW k \in Keys
  PROVE  /\ UNION {e.bits : e \in {f \in Drained : f.key = k /\ f.kind = "data"}} = mem[k]
         /\ UNION {e.bits : e \in {f \in Drained : f.key = k /\ f.kind = "delta"}} = memDel[k]
<1> DEFINE d == [key |-> k, kind |-> "data", bits |-> mem[k]]
           e == [key |-> k, kind |-> "delta", bits |-> memDel[k]]
           D == {f \in Drained : f.key = k /\ f.kind = "data"}
           E == {f \in Drained : f.key = k /\ f.kind = "delta"}
<1>1. D = IF mem[k] # {} THEN {d} ELSE {}
  BY DEF Drained
<1>2. E = IF memDel[k] # {} THEN {e} ELSE {}
  BY DEF Drained
<1>3. d.bits = mem[k] /\ e.bits = memDel[k]
  OBVIOUS
<1> HIDE DEF d, e, D, E
<1>4. UNION {f.bits : f \in D} = mem[k]
  BY <1>1, <1>3
<1>5. UNION {f.bits : f \in E} = memDel[k]
  BY <1>2, <1>3
<1> QED
  BY <1>4, <1>5 DEF D, E

(* Draining the buffer makes the content of the moment the target.         *)
LEMMA DrainedContent ==
  ASSUME Beside, NEW t \in Threads, TakeSnapshot(t)
  PROVE  Disks' = Disks /\ Targets = Disks /\ Targets' = Contents /\ Contents' = Contents
<1> USE DEF Beside, OneInv
<1>1. pc[t] \in {"idle", "flush"} /\ pc'[t] = "ensure" /\ Acts(t) /\ ~Rewrites(t)
  BY UpdateLabels DEF Acts, Internal, Rewrites, Commit, DeleteTxn, DropTxn
<1>2. loc'[t].op = "flush" /\ loc'[t].plan = Drained /\ loc'[t].out = {}
  <2>1. loc'[t] = [Blank EXCEPT !.op = "flush", !.plan = Drained]
    BY DEF TakeSnapshot, TypeOK
  <2> QED
    BY <2>1 DEF Blank
<1>3. Disks' = Disks /\ \A k \in Keys : Disk(k)' = Disk(k)
  BY <1>1, DisksStay, DiskStays
<1>4. Targets = Disks /\ Targets' = TargetFor(t)'
  <2>1. Busy(t)'
    BY <1>2 DEF Busy, Maintenance
  <2> QED
    BY <1>1, <1>2, <2>1, LoneTarget DEF InFlight
<1>5. \A k \in Keys : Writing(t, k, "data")' = mem[k] /\ Writing(t, k, "delta")' = memDel[k]
  BY <1>2, DrainedBits DEF Writing
<1>6. \A k \in Keys : Targets'[k] = Overlay(Disk(k), mem[k], memDel[k])
  BY <1>2, <1>3, <1>4, <1>5 DEF TargetFor
<1>7. Contents = [k \in Keys |-> Overlay(Disk(k), mem[k], memDel[k])]
  BY <1>4, ContentLaid DEF Laid, Disks
<1>8. Targets' = Contents
  <2>1. Targets' = [k \in Keys |-> Targets'[k]]
    BY DEF Targets
  <2> QED
    BY <1>6, <1>7, <2>1
<1>9. \A k \in Keys : mem'[k] = {} /\ memDel'[k] = {}
  BY DEF TakeSnapshot
<1>10. Contents' = [k \in Keys |-> Targets'[k]]
  BY <1>9, ContentLaid, LaidEmpty
<1>11. Contents = [k \in Keys |-> Contents[k]]
  BY DEF Contents
<1> QED
  BY <1>3, <1>4, <1>8, <1>10, <1>11

(* A commit makes the target durable.                                      *)
LEMMA CommittedContent ==
  ASSUME Beside, NEW t \in Threads, Rewrites(t)
  PROVE  Disks' = Targets /\ Targets' = Targets /\ Contents' = Contents
<1> USE DEF Beside, OneInv
<1>0. Acts(t) /\ Maintains(t) /\ Busy(t)
  BY WhenBusy DEF Acts, Internal, Transact, Rewrites, AllMaintain
<1>1. pc'[t] = "rb_list" /\ UNCHANGED <<mem, memDel>>
  BY DEF Rewrites, Commit, DeleteTxn, DropTxn, Goto, TypeOK, buffer
<1>2. Targets' = Disks' /\ (InFlight(t) => Targets = TargetFor(t)) /\ (~InFlight(t) => Targets = Disks)
  BY <1>0, <1>1, LoneTarget DEF InFlight
<1>3. Disks' = Targets
  <2>1. ASSUME Commit(t), loc[t].op = "flush" PROVE Disks' = Targets
    <3>1. InFlight(t)
      BY <2>1 DEF Commit, InFlight
    <3>2. \A k \in Keys : Disk(k)' = Overlay(Disk(k), Writing(t, k, "data"), Writing(t, k, "delta"))
      BY <1>0, <2>1, FlushedDisk
    <3> QED
      BY <1>2, <2>1, <3>1, <3>2 DEF TargetFor, Disks
  <2>2. ASSUME Commit(t), loc[t].op # "flush" PROVE Disks' = Targets
    <3>1. loc[t].op \in {"compact", "replace"} /\ pc[t] = "write"
      BY <2>2 DEF Commit, CallsFit, CallFits, CallsAt
    <3>2. \A k \in Keys : Disk(k)' = IF k = loc[t].key THEN Writing(t, k, "data") ELSE Disk(k)
      BY <1>0, <2>2, SupersededDisk
    <3>3. CASE loc[t].op = "replace"
      <4>1. InFlight(t) /\ Writing(t, loc[t].key, "data") = loc[t].bits
        BY <1>0, <3>1, <3>3 DEF InFlight, Maintains, Writes, WritesBits
      <4>2. Targets = [k \in Keys |-> IF loc[t].key = k THEN loc[t].bits ELSE Disk(k)]
        BY <1>2, <3>3, <4>1 DEF TargetFor
      <4>3. \A k \in Keys : Disk(k)' = Targets[k]
        BY <3>2, <4>1, <4>2
      <4> QED
        BY <4>2, <4>3 DEF Disks
    <3>4. CASE loc[t].op = "compact"
      <4>1. ~InFlight(t) /\ Writing(t, loc[t].key, "data") = Disk(loc[t].key)
        BY <1>0, <3>1, <3>4 DEF InFlight, Maintains, Writes, WritesBits
      <4>2. \A k \in Keys : Disk(k)' = Disk(k)
        BY <3>2, <4>1
      <4> QED
        BY <1>2, <4>1, <4>2 DEF Disks
    <3> QED
      BY <3>1, <3>3, <3>4
  <2>3. ASSUME DeleteTxn(t) PROVE Disks' = Targets
    <3>1. InFlight(t) /\ loc[t].op = "delete" /\ loc[t].bits = {}
      BY <1>0, <2>3 DEF DeleteTxn, InFlight, CallsFit, CallFits, CallsAt, Maintains, Writes
    <3>2. \A k \in Keys : Disk(k)' = IF k = loc[t].key THEN {} ELSE Disk(k)
      BY <2>3, DeletedDisk
    <3> QED
      BY <1>2, <3>1, <3>2 DEF TargetFor, Disks
  <2>4. ASSUME DropTxn(t) PROVE Disks' = Targets
    <3>1. InFlight(t) /\ loc[t].op = "drop" /\ loc[t].bits = {}
      BY <1>0, <2>4 DEF DropTxn, InFlight, CallsFit, CallFits, CallsAt, Maintains, Writes
    <3>2. \A k \in Keys : Disk(k)' = {}
      BY <2>4, DroppedDisk
    <3> QED
      BY <1>2, <3>1, <3>2 DEF TargetFor, Disks
  <2> QED
    BY <2>1, <2>2, <2>3, <2>4 DEF Rewrites
<1>4. Contents' = Contents
  BY <1>1, <1>2, <1>3, ContentLaid
<1> QED
  BY <1>2, <1>3, <1>4

(* The other steps leave the contents alone.                               *)
Silent(t) ==
  /\ Internal(t) \/ StartGet(t)
  /\ ~Rewrites(t) /\ ~TakeSnapshot(t) /\ ~TxnFails(t) /\ ~DeleteUnknown(t)

(* The call in flight goes on.                                             *)
LEMMA FlightGoesOn ==
  ASSUME NEW t \in Threads, InFlight(t), InFlight(t)',
         loc'[t].op = loc[t].op, loc'[t].key = loc[t].key, loc'[t].bits = loc[t].bits,
         loc'[t].plan = loc[t].plan, loc'[t].out = loc[t].out, disk' = disk
  PROVE  FlightKept(t)
BY DEF FlightKept, Writing

LEMMA CollectFlight ==
  ASSUME TypeOK, CallsFit, NEW t \in Threads, Collect(t)
  PROVE  UNCHANGED <<mem, memDel>> /\ FlightKept(t)
<1> USE DEF TypeOK, Goto
<1>0. loc[t] \in Locals /\ loc[t].op \in CallsAt(pc[t])
  BY DEF CallsFit, CallFits
<1>1. UNCHANGED <<mem, memDel, disk>>
  BY DEF Collect, CollectDataIds, CollectDeltaIds, NotEligible, CollectDataPart, CollectDeltaPart,
    Collected, MergeParts, MergeFails, buffer
<1>2. CASE NotEligible(t) \/ MergeParts(t) \/ MergeFails(t)
  <2>1. loc[t].op = "compact"
    BY <1>0, <1>2 DEF NotEligible, MergeParts, MergeFails, CallsAt
  <2>2. loc'[t].op \in {"compact", "get"} /\ pc'[t] \in {"idle", "ensure"}
    BY <1>0, <1>2, <2>1 DEF NotEligible, MergeParts, MergeFails, Return, Blank, Locals
  <2>3. pc[t] \in {"delta_ids", "merge"}
    BY <1>2 DEF NotEligible, MergeParts, MergeFails
  <2> QED
    BY <1>1, <2>1, <2>2, <2>3 DEF FlightKept, InFlight
<1>3. CASE CollectDataIds(t) \/ CollectDeltaIds(t) \/ CollectDataPart(t) \/ CollectDeltaPart(t) \/ Collected(t)
  <2>1. /\ loc'[t].op = loc[t].op /\ loc'[t].key = loc[t].key /\ loc'[t].bits = loc[t].bits
        /\ pc[t] \in {"data_ids", "delta_ids", "resolve"}
        /\ \/ pc'[t] \in {"delta_ids", "resolve", "txn"}
           \/ loc[t].op = "compact" /\ pc'[t] = "merge"
    <3>1. CASE CollectDataIds(t) \/ CollectDeltaIds(t) \/ Collected(t)
      <4>1. /\ loc'[t].op = loc[t].op /\ loc'[t].key = loc[t].key /\ loc'[t].bits = loc[t].bits
        BY <1>0, <3>1 DEF CollectDataIds, CollectDeltaIds, Collected, Locals
      <4> QED
        BY <3>1, <4>1 DEF CollectDataIds, CollectDeltaIds, Collected
    <3>2. CASE CollectDataPart(t)
      <4>1. PICK i \in loc[t].ids : loc' = [loc EXCEPT ![t].ids = @ \ {i},
                                             ![t].olds = @ \cup {p \in parts : p.id = i}]
        BY <3>2 DEF CollectDataPart
      <4>2. /\ loc'[t].op = loc[t].op /\ loc'[t].key = loc[t].key /\ loc'[t].bits = loc[t].bits
        BY <1>0, <4>1 DEF Locals
      <4> QED
        BY <3>2, <4>2 DEF CollectDataPart
    <3>3. CASE CollectDeltaPart(t)
      <4>1. PICK i \in loc[t].dids : loc' = [loc EXCEPT ![t].dids = @ \ {i},
                                              ![t].olds = @ \cup {p \in parts : p.id = i}]
        BY <3>3 DEF CollectDeltaPart
      <4>2. /\ loc'[t].op = loc[t].op /\ loc'[t].key = loc[t].key /\ loc'[t].bits = loc[t].bits
        BY <1>0, <4>1 DEF Locals
      <4> QED
        BY <3>3, <4>2 DEF CollectDeltaPart
    <3> QED
      BY <1>3, <3>1, <3>2, <3>3
  <2>2. loc[t].op \in {"compact", "replace"}
    BY <1>0, <2>1 DEF CallsAt
  <2> QED
    BY <1>1, <2>1, <2>2 DEF FlightKept, InFlight
<1> QED
  BY <1>1, <1>2, <1>3 DEF Collect

LEMMA RebuildFlight ==
  ASSUME TypeOK, NEW t \in Threads, Rebuild(t)
  PROVE  UNCHANGED <<mem, memDel>> /\ FlightKept(t)
<1>1. UNCHANGED <<mem, memDel>>
  BY DEF Rebuild, RebuildList, RebuildDataIds, RebuildPart, RebuildDeltaIds, RebuildKeyDone,
    RebuildFold, RebuildFails, StoreIndex, UnlinkPart, CallDone, buffer
<1>2. /\ pc[t] \in Rebuilding \cup {"unlink"}
      /\ pc'[t] \in Rebuilding \cup {"unlink", "idle"}
  BY DEF Rebuild, RebuildList, RebuildDataIds, RebuildPart, RebuildDeltaIds, RebuildKeyDone,
    RebuildFold, RebuildFails, StoreIndex, UnlinkPart, CallDone, Goto, Return, TypeOK, Rebuilding
<1> QED
  BY <1>1, <1>2 DEF FlightKept, InFlight, Rebuilding

LEMMA ReadFlight ==
  ASSUME TypeOK, NEW t \in Threads, Read(t) \/ StartGet(t)
  PROVE  UNCHANGED <<mem, memDel>> /\ FlightKept(t)
<1> DEFINE L == {"idle", "get_cache", "get_txn", "get_files", "got"}
<1>1. UNCHANGED <<mem, memDel>> /\ pc[t] \in L /\ pc'[t] \in L
  BY DEF Read, CacheHit, CacheMiss, ReadTxn, ReadFiles, GetReturns, StartGet, Get, Starts, Goto, Return,
    TypeOK, buffer
<1> QED
  BY <1>1 DEF FlightKept, InFlight

LEMMA StartFlight ==
  ASSUME TypeOK, CallsFit, NEW t \in Threads,
         StartCall(t) \/ EnsureEvent(t) \/ RevertCompacted(t) \/ NothingToFlush(t)
  PROVE  UNCHANGED <<mem, memDel>> /\ FlightKept(t)
<1> USE DEF TypeOK, Goto
<1>0. loc[t] \in Locals /\ loc[t].op \in CallsAt(pc[t])
  BY DEF CallsFit, CallFits
<1>1. UNCHANGED <<mem, memDel, disk>>
  BY DEF StartCall, PutBitmap, RemoveBits, ReplaceBitmap, CompactPeriod, CallOnEvent, EnsureEvent,
    RevertCompacted, NothingToFlush, buffer
<1>2. CASE StartCall(t)
  <2>1. ASSUME NEW op \in {"put", "remove", "replace"}, NEW k \in Keys, NEW b, CallOnEvent(t, op, k, b)
        PROVE  FlightKept(t)
    <3>1. pc[t] = "idle" /\ loc'[t].op = op
      BY <2>1 DEF CallOnEvent, Starts, Call, Blank
    <3>2. pc'[t] = IF hasEvent THEN Resume(op, k) ELSE "ensure"
      BY <2>1 DEF CallOnEvent
    <3> QED
      BY <3>1, <3>2 DEF Resume, FlightKept, InFlight
  <2>2. ASSUME NEW k \in Keys, CompactPeriod(t, k) PROVE FlightKept(t)
    <3>1. pc[t] = "idle" /\ pc'[t] = "delta_ids" /\ loc'[t].op = "compact"
      BY <2>2 DEF CompactPeriod, Starts, Blank
    <3> QED
      BY <3>1 DEF FlightKept, InFlight
  <2> QED
    BY <1>1, <1>2, <2>1, <2>2 DEF StartCall, PutBitmap, RemoveBits, ReplaceBitmap
<1>3. CASE EnsureEvent(t)
  <2>1. pc[t] = "ensure" /\ pc'[t] = Resume(loc[t].op, loc[t].key) /\ loc' = loc
    BY <1>3 DEF EnsureEvent
  <2>2. loc[t].op = "flush" => pc'[t] = "txn"
    BY <2>1 DEF Resume
  <2>3. loc[t].op # "flush" => ~InFlight(t) /\ ~InFlight(t)'
    BY <1>0, <2>1 DEF InFlight, Resume, CallsAt
  <2> QED
    BY <1>1, <2>1, <2>2, <2>3 DEF FlightKept, InFlight, Writing
<1>4. CASE RevertCompacted(t) \/ NothingToFlush(t)
  <2>1. pc[t] \in {"put_revert", "flush"} /\ pc'[t] \in {"put_lock", "idle"}
    BY <1>4 DEF RevertCompacted, NothingToFlush, Return
  <2> QED
    BY <1>1, <2>1 DEF FlightKept, InFlight
<1> QED
  BY <1>2, <1>3, <1>4

LEMMA TransactFlight ==
  ASSUME TypeOK, PartOwnership, NEW t \in Threads,
         BeginTxn(t) \/ DeleteKnown(t) \/ \E e \in loc[t].plan : WritePart(t, e)
  PROVE  UNCHANGED <<mem, memDel>> /\ FlightKept(t)
<1> USE DEF TypeOK, Goto
<1>0. loc[t] \in Locals
  OBVIOUS
<1>1. UNCHANGED <<mem, memDel>>
  BY DEF BeginTxn, DeleteKnown, WritePart, buffer
<1>2. CASE BeginTxn(t)
  <2>1. /\ loc'[t].op = loc[t].op /\ loc'[t].key = loc[t].key /\ loc'[t].bits = loc[t].bits
        /\ loc'[t].plan = loc[t].plan /\ loc'[t].out = loc[t].out
    BY <1>0, <1>2 DEF BeginTxn, Locals
  <2>2. pc[t] = "txn" /\ pc'[t] = "write" /\ disk' = disk
    BY <1>2 DEF BeginTxn
  <2> QED
    BY <1>1, <2>1, <2>2, FlightGoesOn DEF FlightKept, InFlight
<1>3. ASSUME NEW e \in loc[t].plan, WritePart(t, e) PROVE FlightKept(t)
  <2>1. loc'[t].op = loc[t].op /\ loc'[t].key = loc[t].key /\ loc'[t].bits = loc[t].bits
    BY <1>3, PartWritten
  <2>2. pc' = pc
    BY <1>3 DEF WritePart
  <2>3. \A k \in Keys, kind \in Kinds : Writing(t, k, kind)' = Writing(t, k, kind)
    <3>1. \A k, kind : Writing(t, k, kind)' = BitsIn(loc'[t].plan, loc'[t].out, disk', k, kind)
      BY DEF Writing, BitsIn
    <3>2. \A k, kind : Writing(t, k, kind) = BitsIn(loc[t].plan, loc[t].out, disk, k, kind)
      BY DEF Writing, BitsIn
    <3>3. \A k, kind : BitsIn(loc'[t].plan, loc'[t].out, disk', k, kind)
                        = BitsIn(loc[t].plan, loc[t].out, disk, k, kind)
      BY <1>3, WritingStays
    <3> QED
      BY <3>1, <3>2, <3>3
  <2> QED
    BY <2>1, <2>2, <2>3 DEF FlightKept, InFlight
<1>4. CASE DeleteKnown(t)
  <2>1. pc[t] = "delete" /\ pc'[t] = "delete_txn" /\ loc' = loc /\ disk' = disk
    BY <1>4 DEF DeleteKnown
  <2> QED
    BY <1>1, <2>1, FlightGoesOn DEF FlightKept, InFlight
<1> QED
  BY <1>1, <1>2, <1>3, <1>4

LEMMA SilentContent ==
  ASSUME Beside, NEW t \in Threads, Silent(t)
  PROVE  Disks' = Disks /\ Targets' = Targets /\ Contents' = Contents
<1> USE DEF Beside, OneInv
<1>1. UNCHANGED <<mem, memDel>> /\ FlightKept(t)
  BY StartFlight, CollectFlight, RebuildFlight, ReadFlight, TransactFlight
    DEF Silent, Internal, Transact, Rewrites
<1>2. Acts(t) /\ ~Rewrites(t)
  BY DEF Silent, Acts
<1>3. Targets' = Targets /\ Disks' = Disks
  BY <1>1, <1>2, TargetStays
<1> QED
  BY <1>1, <1>3, ContentLaid

(* Deleting a period of an unknown event: there is nothing to delete.      *)
LEMMA UnknownContent ==
  ASSUME Beside, NEW t \in Threads, DeleteUnknown(t)
  PROVE  Disks' = Disks /\ Targets' = Targets /\ Contents' = Contents
<1> USE DEF Beside, OneInv
<1>1. /\ pc[t] = "delete" /\ pc'[t] = "idle" /\ ~hasEvent /\ UNCHANGED <<mem, memDel>>
      /\ Acts(t) /\ ~Rewrites(t)
  BY DEF DeleteUnknown, Return, Goto, TypeOK, buffer, Acts, Internal, Transact, Rewrites, Commit,
    DeleteTxn, DropTxn
<1>2. Busy(t) /\ InFlight(t) /\ loc[t].op = "delete" /\ loc[t].bits = {}
  BY <1>1, WhenBusy DEF InFlight, CallsFit, CallFits, CallsAt, AllMaintain, Maintains, Writes
<1>3. \A k \in Keys : Disk(k) = {}
  BY <1>1, NothingFolded DEF CallsFit, EventKnown, Disk, PartsOf
<1>4. Targets = TargetFor(t) /\ Targets' = Disks'
  BY <1>1, <1>2, LoneTarget DEF InFlight
<1>5. Targets = Disks
  BY <1>2, <1>3, <1>4 DEF TargetFor, Disks
<1>6. Disks' = Disks
  BY <1>1, DisksStay
<1> QED
  BY <1>1, <1>4, <1>5, <1>6, ContentLaid

(* What is recovered is what is durable.                                   *)
LEMMA RecoveredContent ==
  ASSUME OneInv, OneInv', Recover
  PROVE  Disks' = Disks /\ Targets' = Targets /\ Contents' = Contents
<1> USE DEF OneInv
<1>1. UNCHANGED <<mem, memDel, pc, loc, parts, pparts, pdeltas>> /\ ~up
  BY DEF Recover, DeleteOrphan, Open, catalog, buffer
<1>2. \A p \in parts : disk'[p] = disk[p]
  BY DEF Recover, DeleteOrphan, Open, Orphans, TypeOK
<1>3. Disks' = Disks
  BY <1>1, <1>2, HeldStays DEF Disks
<1>4. \A t \in Threads : pc[t] = "idle"
  BY <1>1 DEF PartOwnership
<1>5. \A t \in Threads : ~InFlight(t) /\ ~InFlight(t)'
  BY <1>1, <1>4 DEF InFlight
<1>6. Targets = Disks /\ Targets' = Disks'
  BY <1>5 DEF Targets, Target, Disks
<1> QED
  BY <1>1, <1>3, <1>6, ContentLaid

LEMMA CrashedContent ==
  ASSUME OneInv, OneInv', Crash
  PROVE  Disks' = Disks /\ Targets' = Disks /\ Contents' = Disks
<1>1. UNCHANGED <<parts, pparts, pdeltas, disk>>
  BY DEF Crash, catalog
<1>2. Disks' = Disks
  BY <1>1 DEF Disks, Disk, PartsOf
<1>3. \A t \in Threads : ~InFlight(t)'
  BY DEF Crash, InFlight
<1>4. Targets' = Disks'
  BY <1>3 DEF Targets, Target, Disks
<1>5. \A k \in Keys : mem'[k] = {} /\ memDel'[k] = {}
  BY DEF Crash
<1>6. Contents' = [k \in Keys |-> Targets'[k]]
  BY <1>5, ContentLaid, LaidEmpty
<1> QED
  BY <1>2, <1>4, <1>6 DEF Disks

-----------------------------------------------------------------------------
(* Steps of the write-back store.                                          *)

LEMMA StoreWrite ==
  ASSUME NEW k \in Keys, NEW b \in SUBSET Ids, Disks' = Disks, Targets' = Targets,
         \/ Contents' = AddBits(Contents, Cover(k), b)
         \/ Contents' = ClearBits(Contents, Cover(k), b)
  PROVE  Store!Step
<1>1. Store!Cover({k}) = Cover(k)
  <2>1. UNION {Ancestors[j] : j \in {k}} = Ancestors[k]
    OBVIOUS
  <2> QED
    BY <2>1 DEF Store!Cover, Cover
<1>2. Store!Put({k}, b) \/ Store!Remove({k}, b)
  BY <1>1 DEF Store!Put, Store!Remove, Contents, Targets, Disks, AddBits, ClearBits
<1>3. {k} \in {{j} : j \in Keys}
  OBVIOUS
<1> QED
  BY <1>2, <1>3 DEF Store!Step

(* The bitmaps that replacing a period, or dropping the event, stores.     *)
Overwriting == (UNION {[{k} -> SUBSET Ids] : k \in Keys}) \cup {[k \in Keys |-> {}]}

LEMMA StoreReplace ==
  ASSUME NEW new \in Overwriting, Disks' = Disks, Targets = Disks,
         Contents' = [j \in Keys |-> IF j \in DOMAIN new THEN new[j] ELSE Contents[j]],
         Targets' = [j \in Keys |-> IF j \in DOMAIN new THEN new[j] ELSE Targets[j]]
  PROVE  Store!Step
<1>1. Store!Replace(new)
  BY DEF Store!Replace, Store!Overwritten, Contents, Targets, Disks
<1> QED
  BY <1>1 DEF Store!Step, Overwriting

StoreStep ==
  Store!Step \/ (Crash /\ Store!Crash) \/ UNCHANGED <<Contents, Targets, Disks>>

LEMMA UpdateImplements ==
  ASSUME Beside, NEW t \in Threads, Update(t) PROVE StoreStep
<1> USE DEF Beside, OneInv
<1>0. loc[t].key \in Keys /\ loc[t].bits \in SUBSET Ids
  BY FieldTypes DEF TypeOK
<1>1. CASE PutLock(t) \/ PutLockAutoFlush(t) \/ RemoveLock(t)
  BY <1>0, <1>1, BufferedContent, StoreWrite DEF StoreStep
<1>2. ASSUME NEW k \in Keys, NEW b \in SUBSET Ids, Disks' = Disks, Targets = Disks,
             Targets' = [Disks EXCEPT ![k] = b], Contents' = [Contents EXCEPT ![k] = b]
      PROVE  Store!Step
  <2> DEFINE new == [j \in {k} |-> b]
  <2>1. new \in [{k} -> SUBSET Ids]
    OBVIOUS
  <2>2. new \in Overwriting
    BY <2>1 DEF Overwriting
  <2>3. DOMAIN new = {k} /\ new[k] = b
    OBVIOUS
  <2> HIDE DEF new
  <2>4. Contents' = [j \in Keys |-> IF j \in DOMAIN new THEN new[j] ELSE Contents[j]]
    BY <1>2, <2>3 DEF Contents
  <2>5. Targets' = [j \in Keys |-> IF j \in DOMAIN new THEN new[j] ELSE Targets[j]]
    BY <1>2, <2>3 DEF Targets, Disks
  <2> QED
    BY <1>2, <2>2, <2>4, <2>5, StoreReplace
<1>3. CASE ReplaceLock(t)
  BY <1>0, <1>2, <1>3, ReplacedContent DEF StoreStep
<1>4. ASSUME NEW k \in Keys, DeletePeriod(t, k) PROVE StoreStep
  BY <1>2, <1>4, ErasedContent DEF StoreStep
<1>5. CASE DropEvent(t)
  <2> DEFINE new == [j \in Keys |-> {}]
  <2>1. new \in Overwriting
    BY DEF Overwriting
  <2>2. DOMAIN new = Keys /\ \A j \in Keys : new[j] = {}
    OBVIOUS
  <2>3. /\ Disks' = Disks /\ Targets = Disks
        /\ Targets' = [k \in Keys |-> {}] /\ Contents' = [k \in Keys |-> {}]
    BY <1>5, DroppedContent
  <2> HIDE DEF new
  <2>4. /\ Contents' = [j \in Keys |-> IF j \in DOMAIN new THEN new[j] ELSE Contents[j]]
        /\ Targets' = [j \in Keys |-> IF j \in DOMAIN new THEN new[j] ELSE Targets[j]]
    BY <2>2, <2>3
  <2> QED
    BY <2>1, <2>3, <2>4, StoreReplace DEF StoreStep
<1> QED
  BY <1>1, <1>3, <1>4, <1>5 DEF Update

LEMMA StepImplements ==
  ASSUME ~IoErrors
  PROVE  OneInv /\ OneInv' /\ OneMaintainer /\ OneMaintainer' /\ [Next]_vars => StoreStep
<1> SUFFICES ASSUME Beside, [Next]_vars PROVE StoreStep
  BY DEF Beside
<1>1. ASSUME NEW t \in Threads, Update(t) PROVE StoreStep
  BY <1>1, UpdateImplements
<1>2. ASSUME NEW t \in Threads, TakeSnapshot(t) PROVE StoreStep
  <2>1. Store!Flush
    BY <1>2, DrainedContent DEF Store!Flush, Contents, Targets, Disks
  <2> QED
    BY <2>1 DEF StoreStep, Store!Step
<1>3. ASSUME NEW t \in Threads, Rewrites(t) PROVE StoreStep
  <2>1. Store!Commit
    BY <1>3, CommittedContent DEF Store!Commit, Contents, Targets, Disks
  <2> QED
    BY <2>1 DEF StoreStep, Store!Step
<1>4. ASSUME NEW t \in Threads, Silent(t) \/ DeleteUnknown(t) PROVE StoreStep
  BY <1>4, SilentContent, UnknownContent DEF StoreStep
<1>5. \A t \in Threads : ~TxnFails(t)
  BY DEF TxnFails
<1>6. CASE Recover
  BY <1>6, RecoveredContent DEF StoreStep, Beside
<1>7. CASE Crash
  <2>1. Store!Crash
    BY <1>7, CrashedContent DEF Store!Crash, Beside, Contents, Targets, Disks
  <2> QED
    BY <1>7, <2>1 DEF StoreStep
<1>8. CASE UNCHANGED vars
  <2>1. UNCHANGED <<mem, memDel, parts, pparts, pdeltas, disk, pc, loc>>
    BY <1>8 DEF vars, buffer, catalog
  <2>2. Disks' = Disks
    BY <2>1 DEF Disks, Disk, PartsOf
  <2>3. Targets' = Targets
    BY <2>1 DEF Targets, Target, InFlight, Writing, Disk, PartsOf
  <2> QED
    BY <2>1, <2>2, <2>3, ContentLaid DEF StoreStep
<1> QED
  BY <1>1, <1>2, <1>3, <1>4, <1>5, <1>6, <1>7, <1>8 DEF Next, Silent

(* The engine implements the write-back store: a put or remove changes its *)
(* period and the ancestors in one step, replacing or deleting a period    *)
(* that period only, a flush fixes what it makes durable, a compaction is  *)
(* invisible, a commit makes the whole target durable, and a crash falls   *)
(* back to what the last commit left, which is the content of one past     *)
(* moment, whatever the interleaving of one maintainer with any number of  *)
(* writers and readers.  Which bits a call puts there is not stated here:  *)
(* that is QuietContent.  A failed write would lose its flush's snapshot.  *)
THEOREM EngineImplementsStore ==
  ASSUME ~IoErrors PROVE Spec /\ []OneMaintainer => ImplementsStore
<1>1. StoreStep => [Store!Step \/ (Crash /\ Store!Crash)]_(Store!vars)
  BY DEF StoreStep, Store!vars, Contents, Targets, Disks
<1>2. Init => Store!Init
  <2> SUFFICES ASSUME Init PROVE Store!Init
    OBVIOUS
  <2>1. \A k \in Keys : Disk(k) = {}
    BY NothingFolded DEF Init, Disk, PartsOf
  <2>2. \A t \in Threads : ~InFlight(t)
    BY DEF Init, InFlight
  <2>3. \A k \in Keys : Target(k) = {} /\ Content(k) = {}
    BY <2>1, <2>2 DEF Target, Content, Overlay, Init
  <2> QED
    BY <2>1, <2>3 DEF Store!Init
<1> QED
  BY <1>1, <1>2, OneHolds, StepImplements, PTL DEF Spec, ImplementsStore

-----------------------------------------------------------------------------
(* The answers of get.                                                     *)

LEMMA HistorySteps ==
  HNext => Observe(truth') /\ Next
<1>1. ASSUME NEW x, Observe(x) PROVE Observe(truth')
  BY <1>1 DEF Observe
<1>2. ASSUME NEW t \in Threads, HUpdate(t) PROVE Observe(truth') /\ Update(t)
  BY <1>1, <1>2 DEF HUpdate, Update
<1>3. HNext => Observe(truth')
  BY <1>1, <1>2 DEF HNext
<1>4. HNext => Next
  BY <1>2 DEF HNext, Next
<1> QED
  BY <1>3, <1>4

LEMMA HistoryImplements == HSpec => Spec
<1>1. HInit => Init
  BY DEF HInit
<1>2. [HNext]_hvars => [Next]_vars
  BY HistorySteps DEF hvars
<1> QED
  BY <1>1, <1>2, PTL DEF HSpec, Spec

(* What the calls so far amount to is what buffer, write under way and     *)
(* disk hold together.                                                     *)
ContentInv == truth = Contents

LEMMA ContentStep ==
  ASSUME ~IoErrors
  PROVE  OneInv /\ OneInv' /\ OneMaintainer /\ OneMaintainer' /\ ContentInv /\ [HNext]_hvars
           => ContentInv'
<1> SUFFICES ASSUME Beside, ContentInv, [HNext]_hvars PROVE ContentInv'
  BY DEF Beside
<1> USE DEF ContentInv
<1>1. ASSUME NEW t \in Threads, HUpdate(t) PROVE truth' = Contents'
  <2>1. CASE (PutLock(t) \/ PutLockAutoFlush(t)) /\ Observe(Plus(loc[t].key, loc[t].bits))
    BY <2>1, BufferedContent DEF Observe, Plus
  <2>2. CASE RemoveLock(t) /\ Observe(Minus(loc[t].key, loc[t].bits))
    BY <2>2, BufferedContent DEF Observe, Minus
  <2>3. CASE ReplaceLock(t) /\ Observe(Becomes(loc[t].key, loc[t].bits))
    BY <2>3, ReplacedContent DEF Observe, Becomes
  <2>4. ASSUME NEW k \in Keys, DeletePeriod(t, k) /\ Observe(Becomes(k, {})) PROVE truth' = Contents'
    BY <2>4, ErasedContent DEF Observe, Becomes
  <2>5. CASE DropEvent(t) /\ Observe([k \in Keys |-> {}])
    BY <2>5, DroppedContent DEF Observe
  <2> QED
    BY <1>1, <2>1, <2>2, <2>3, <2>4, <2>5 DEF HUpdate
<1>2. ASSUME NEW t \in Threads, Internal(t) \/ StartGet(t), Observe(truth) PROVE truth' = Contents'
  <2>1. ~TxnFails(t)
    BY DEF TxnFails
  <2>2. Contents' = Contents
    BY <1>2, <2>1, DrainedContent, CommittedContent, UnknownContent, SilentContent DEF Silent
  <2> QED
    BY <1>2, <2>2 DEF Observe
<1>3. CASE Crash /\ Observe([k \in Keys |-> Disk(k)])
  BY <1>3, CrashedContent DEF Observe, Beside, Disks
<1>4. CASE Recover /\ Observe(truth)
  BY <1>4, RecoveredContent DEF Observe, Beside
<1>5. CASE UNCHANGED hvars
  <2>1. UNCHANGED <<truth, mem, memDel, parts, pparts, pdeltas, disk, pc, loc>>
    BY <1>5 DEF hvars, history, vars, buffer, catalog
  <2>2. Targets' = Targets
    BY <2>1 DEF Targets, Target, InFlight, Writing, Disk, PartsOf
  <2> QED
    BY <2>1, <2>2, ContentLaid
<1> QED
  BY <1>1, <1>2, <1>3, <1>4, <1>5 DEF HNext

LEMMA ContentHolds ==
  ASSUME ~IoErrors PROVE HSpec /\ []OneMaintainer => []ContentInv
<1>1. HInit => ContentInv
  <2> SUFFICES ASSUME HInit PROVE truth = Contents
    BY DEF ContentInv
  <2>1. \A k \in Keys : Disk(k) = {}
    BY NothingFolded DEF HInit, Init, Disk, PartsOf
  <2>2. \A t \in Threads : ~InFlight(t)
    BY DEF HInit, Init, InFlight
  <2>3. \A k \in Keys : Content(k) = {}
    BY <2>1, <2>2 DEF Target, Content, Overlay, HInit, Init
  <2> QED
    BY <2>3 DEF HInit, Contents
<1> QED
  BY <1>1, ContentStep, HistoryImplements, OneHolds, PTL DEF HSpec

(* When no call runs, get answers with what the calls so far amount to: a  *)
(* put after a remove wins, a remove hides older bits only, in the buffer, *)
(* across flushes, compactions, replacements, deletions and crashes, by a  *)
(* cache hit and by the slow path alike.                                   *)
THEOREM QuietContentHolds ==
  ASSUME ~IoErrors PROVE HSpec /\ []OneMaintainer => []QuietContent
<1>1. OneInv /\ ContentInv => QuietContent
  <2> SUFFICES ASSUME OneInv, ContentInv, Quiet, NEW k \in Keys PROVE View(k) = truth[k]
    BY DEF QuietContent
  <2>1. ridx = FreshIndex
    BY DEF OneInv, IndexFresh, Quiet, Rebuilding
  <2>2. Target(k) = Disk(k)
    BY DEF Target, InFlight, Quiet
  <2>3. (IF ridx[k] # Absent THEN ridx[k] ELSE Disk(k)) = Disk(k)
    BY <2>1 DEF FreshIndex
  <2> QED
    BY <2>2, <2>3 DEF View, ContentInv, Contents, Content
<1> QED
  BY <1>1, ContentHolds, HistoryImplements, OneHolds, PTL

-----------------------------------------------------------------------------
(* A get beside writers, flushes and compactions.                          *)

(* The calls that change what the disk holds are flushes only.             *)
OnlyFlushes == \A t \in Threads : MayRun[t] \cap {"replace", "delete", "drop"} = {}

(* Unless data is on its way to it, the index answers what the disk holds. *)
IndexAgrees == up /\ ~FlushUnderWay => \A k \in Keys : ridx[k] # Absent => ridx[k] = Disk(k)

(* What a running get will have answered, and what it may answer.          *)
Fits(t, S) == seen[t].must \subseteq S /\ S \subseteq seen[t].may

ReadNow(t) ==
  /\ Reading(t) /\ seen[t].calm =>
       ~FlushUnderWay /\ Fits(t, Overlay(Disk(loc[t].key), loc[t].gotB, loc[t].gotD))
  /\ pc[t] = "get_files" =>
       /\ \A p \in loc[t].found : p.id < nextId
       /\ seen[t].calm /\ Readable(loc[t].found) => Fold(loc[t].found, disk) = Disk(loc[t].key)
  /\ pc[t] = "got" /\ seen[t].calm /\ loc[t].res # Absent => Fits(t, loc[t].res)

ReadInv == \A t \in Threads : ReadNow(t)

Flushing(t) ==
  loc[t].op = "flush"
    /\ pc[t] \in {"ensure", "txn", "write",
                  "rb_list", "rb_key", "rb_data", "rb_deltas", "rb_store"}

LEMMA BuildGoesOn ==
  ASSUME TypeOK, NEW t \in Threads, Acts(t), pc[t] \in Rebuilding, ~StoreIndex(t), ~RebuildFails(t)
  PROVE  pc'[t] \in Rebuilding /\ loc'[t].op = loc[t].op
<1>0. loc[t] \in Locals
  BY DEF TypeOK
<1>1. pc'[t] \in Rebuilding
  BY IndexStays
<1>2. Rebuild(t)
  BY DEF Acts, Internal, Update, StartGet, StartCall, PutBitmap, RemoveBits, ReplaceBitmap,
    CompactPeriod, CallOnEvent, Starts, EnsureEvent, RevertCompacted, TakeSnapshot, NothingToFlush,
    Collect, CollectDataIds, CollectDeltaIds, NotEligible, CollectDataPart, CollectDeltaPart,
    Collected, MergeParts, MergeFails, Transact, BeginTxn, WritePart, Commit, TxnFails, DeleteTxn,
    DeleteKnown, DeleteUnknown, DropTxn, Read, CacheHit, CacheMiss, ReadTxn, ReadFiles, GetReturns, PutLock,
    PutLockAutoFlush, BufferPut, RemoveLock, ReplaceLock, DeletePeriod, DropEvent, Get, Rebuilding
<1>3. CASE RebuildList(t) \/ RebuildDeltaIds(t) \/ RebuildKeyDone(t) \/ RebuildFold(t)
  BY <1>0, <1>1, <1>3 DEF RebuildList, RebuildDeltaIds, RebuildKeyDone, RebuildFold, TypeOK, Locals
<1>4. ASSUME NEW k \in Keys, RebuildDataIds(t, k) PROVE loc'[t].op = loc[t].op
  BY <1>0, <1>4 DEF RebuildDataIds, TypeOK, Locals
<1>5. CASE RebuildPart(t)
  <2>1. PICK i \in loc[t].ids :
          loc' = [loc EXCEPT ![t].ids = @ \ {i}, ![t].found = @ \cup {p \in parts : p.id = i}]
    BY <1>5 DEF RebuildPart
  <2> QED
    BY <1>0, <1>1, <2>1 DEF TypeOK, Locals
<1> QED
  BY <1>1, <1>2, <1>3, <1>4, <1>5 DEF Rebuild, UnlinkPart, CallDone, Rebuilding

(* A flush is over once it has stored its index.                           *)
LEMMA FlushGoesOn ==
  ASSUME ~IoErrors, Beside, NEW t \in Threads, Acts(t), Flushing(t), ~StoreIndex(t)
  PROVE  Flushing(t)'
<1> USE DEF Beside, OneInv
<1>1. ~TxnFails(t) /\ ~RebuildFails(t)
  BY BuildsFindFiles DEF TxnFails, AllMaintain
<1>2. CASE pc[t] \in Rebuilding
  BY <1>1, <1>2, BuildGoesOn DEF Flushing, Rebuilding
<1>3. CASE Rewrites(t)
  <2>1. loc[t] \in Locals
    BY DEF TypeOK
  <2>2. pc'[t] = "rb_list" /\ loc'[t].op = loc[t].op
    BY <1>3, <2>1 DEF Rewrites, Commit, DeleteTxn, DropTxn, Goto, TypeOK, Locals
  <2> QED
    BY <2>2 DEF Flushing
<1>4. CASE pc[t] \in {"ensure", "txn", "write"} /\ ~Rewrites(t)
  <2>1. Silent(t)
    BY <1>1, <1>4 DEF Silent, Acts, Update, PutLock, PutLockAutoFlush, BufferPut, RemoveLock,
      ReplaceLock, DeletePeriod, DropEvent, Starts, TakeSnapshot, DeleteUnknown
  <2>2. FlightKept(t)
    BY <2>1, StartFlight, CollectFlight, RebuildFlight, ReadFlight, TransactFlight
      DEF Silent, Internal, Transact, Rewrites
  <2>3. InFlight(t) /\ InFlight(t)' /\ loc'[t].op = "flush"
    BY <1>4, <2>2 DEF FlightKept, InFlight, Flushing
  <2> QED
    BY <2>3 DEF InFlight, Flushing, CallsFit, CallFits, CallsAt
<1> QED
  BY <1>2, <1>3, <1>4 DEF Flushing, Rebuilding

(* While no flush is under way, the disk keeps what it holds.              *)
LEMMA CalmDisk ==
  ASSUME OnlyFlushes, RunsGranted, Beside, NEW t \in Threads, Acts(t), ~FlushUnderWay'
  PROVE  \A k \in Keys : Disk(k)' = Disk(k)
<1> USE DEF Beside, OneInv
<1>1. CASE ~Rewrites(t)
  BY <1>1, DiskStays
<1>2. CASE Rewrites(t)
  <2>1. loc[t].op \notin {"replace", "delete", "drop"}
    BY DEF OnlyFlushes, RunsGranted, Granted
  <2>2. Commit(t) /\ loc[t].op \in {"flush", "compact"}
    BY <1>2, <2>1 DEF Rewrites, Commit, DeleteTxn, DropTxn, CallsFit, CallFits, CallsAt
  <2>3. loc[t].op = "compact"
    <3>1. loc' = loc /\ pc'[t] = "rb_list"
      BY <2>2 DEF Commit, Goto, TypeOK
    <3> QED
      BY <2>2, <3>1 DEF FlushUnderWay
  <2>4. \A k \in Keys : Disk(k)' = IF k = loc[t].key THEN Writing(t, k, "data") ELSE Disk(k)
    BY <2>2, <2>3, SupersededDisk DEF AllMaintain
  <2>5. Writing(t, loc[t].key, "data") = Disk(loc[t].key)
    BY <2>2, <2>3, WhenBusy DEF AllMaintain, Maintains, Writes, WritesBits, Commit, Busy, Maintenance
  <2> QED
    BY <2>4, <2>5
<1> QED
  BY <1>1, <1>2

LEMMA AgreesStep ==
  ASSUME ~IoErrors, OnlyFlushes
  PROVE  OneInv /\ OneInv' /\ OneMaintainer /\ OneMaintainer' /\ RunsGranted /\ IndexAgrees
           /\ [Next]_vars => IndexAgrees'
<1> SUFFICES ASSUME Beside, RunsGranted, IndexAgrees, [Next]_vars, up', ~FlushUnderWay'
             PROVE  \A k \in Keys : ridx'[k] # Absent => ridx'[k] = Disk(k)'
  BY DEF Beside, IndexAgrees
<1> USE DEF Beside, OneInv
<1>1. ASSUME NEW t \in Threads, Acts(t), NEW k \in Keys PROVE ridx'[k] # Absent => ridx'[k] = Disk(k)'
  <2>1. Disk(k)' = Disk(k)
    BY <1>1, CalmDisk
  <2>2. CASE StoreIndex(t)
    <3>1. loc[t].built = FreshIndex
      BY <2>2, WhenBusy DEF StoreIndex, AllMaintain, Maintains, FindsAll, Rebuilding
    <3> QED
      BY <2>1, <2>2, <3>1 DEF StoreIndex, FreshIndex
  <2>3. CASE ~StoreIndex(t)
    <3>1. ridx' = ridx /\ up' = up
      <4>1. up' = up
        BY <1>1, ListsStay DEF Rewrites, Commit, DeleteTxn, DropTxn
      <4> QED
        BY <1>1, <2>3, <4>1, IndexStays
    <3>2. \A u \in Threads \ {t} : loc'[u] = loc[u] /\ pc'[u] = pc[u]
      BY <1>1, OthersStay
    <3>3. ~FlushUnderWay
      BY <1>1, <2>3, <3>2, FlushGoesOn DEF FlushUnderWay, Flushing
    <3> QED
      BY <2>1, <3>1, <3>3 DEF IndexAgrees
  <2> QED
    BY <2>2, <2>3
<1>2. CASE Crash
  BY <1>2 DEF Crash
<1>3. CASE Recover
  <2>1. Open
    BY <1>3 DEF Recover, DeleteOrphan
  <2>2. ridx' = FreshIndex /\ UNCHANGED <<parts, pparts, pdeltas, disk>>
    BY <2>1 DEF Open, catalog
  <2>3. \A k \in Keys : Disk(k)' = Disk(k)
    BY <2>2 DEF Disk, PartsOf
  <2> QED
    BY <2>2, <2>3 DEF FreshIndex
<1>4. CASE UNCHANGED vars
  <2>1. UNCHANGED <<up, ridx, parts, pparts, pdeltas, disk, pc, loc>>
    BY <1>4 DEF vars, catalog
  <2>2. ~FlushUnderWay
    BY <2>1 DEF FlushUnderWay
  <2>3. \A k \in Keys : Disk(k)' = Disk(k)
    BY <2>1 DEF Disk, PartsOf
  <2> QED
    BY <2>1, <2>2, <2>3 DEF IndexAgrees
<1> QED
  BY <1>1, <1>2, <1>3, <1>4 DEF Next, Acts

(* A step of the thread itself begins its read, goes on with it or ends it.*)
LEMMA ReaderSteps ==
  ASSUME TypeOK, NEW t \in Threads, Acts(t), pc'[t] \in {"get_cache", "get_txn", "get_files", "got"}
  PROVE  CacheHit(t) \/ CacheMiss(t) \/ ReadTxn(t) \/ ReadFiles(t) \/ StartGet(t)
<1> DEFINE L == {"get_cache", "get_txn", "get_files", "got"}
<1> USE DEF TypeOK, Goto, Return
<1>0. pc'[t] \in L
  OBVIOUS
<1>1. ASSUME StartCall(t) PROVE pc'[t] \notin L
  <2>1. ASSUME NEW op, NEW k, NEW b, op \in {"put", "remove", "replace"}, CallOnEvent(t, op, k, b)
        PROVE  pc'[t] \notin L
    BY <2>1 DEF CallOnEvent, Resume
  <2>2. ASSUME NEW k, CompactPeriod(t, k) PROVE pc'[t] \notin L
    BY <2>2 DEF CompactPeriod
  <2> QED
    BY <1>1, <2>1, <2>2 DEF StartCall, PutBitmap, RemoveBits, ReplaceBitmap
<1>2. ASSUME EnsureEvent(t) \/ RevertCompacted(t) \/ TakeSnapshot(t) \/ NothingToFlush(t)
      PROVE  pc'[t] \notin L
  BY <1>2 DEF EnsureEvent, RevertCompacted, TakeSnapshot, NothingToFlush, Resume
<1>3. ASSUME Collect(t) PROVE pc'[t] \notin L
  BY <1>3 DEF Collect, CollectDataIds, CollectDeltaIds, NotEligible, CollectDataPart,
    CollectDeltaPart, Collected, MergeParts, MergeFails
<1>4. ASSUME Transact(t) PROVE pc'[t] \notin L
  BY <1>4 DEF Transact, BeginTxn, WritePart, Commit, TxnFails, DeleteKnown, DeleteTxn,
    DeleteUnknown, DropTxn
<1>5. ASSUME Rebuild(t) PROVE pc'[t] \notin L
  BY <1>5 DEF Rebuild, RebuildList, RebuildDataIds, RebuildPart, RebuildDeltaIds, RebuildKeyDone,
    RebuildFold, RebuildFails, StoreIndex, UnlinkPart, CallDone
<1>6. ASSUME Update(t) PROVE pc'[t] \notin L
  BY <1>6 DEF Update, PutLock, PutLockAutoFlush, RemoveLock, ReplaceLock, DeletePeriod, DropEvent
<1>7. ~GetReturns(t)
  BY DEF GetReturns
<1> QED
  BY <1>0, <1>1, <1>2, <1>3, <1>4, <1>5, <1>6, <1>7 DEF Acts, Internal, Read

(* Files with spent ids only vanish.                                       *)
LEMMA SpentFiles ==
  ASSUME TypeOK, PartOwnership, NEW t \in Threads, Acts(t)
  PROVE  /\ nextId \in Nat /\ nextId' \in Nat /\ nextId <= nextId'
         /\ \A p \in Path : p.id < nextId => disk'[p] = disk[p] \/ disk'[p] = Absent
<1>1. nextId' \in Nat /\ nextId <= nextId' /\ nextId \in Nat
  <2>1. CASE Commit(t)
    <3>1. nextId' = loc[t].nid /\ loc[t].nid >= nextId
      BY <2>1 DEF Commit, PartOwnership, OpenTxn
    <3>2. loc[t].nid \in Nat
      BY FieldTypes DEF TypeOK
    <3> QED
      BY <3>1, <3>2 DEF TypeOK
  <2>2. CASE DeleteTxn(t) \/ DropTxn(t)
    BY <2>2 DEF DeleteTxn, DropTxn, TypeOK
  <2>3. CASE ~Rewrites(t)
    BY <2>3, ListsStay DEF TypeOK
  <2> QED
    BY <2>1, <2>2, <2>3 DEF Rewrites
<1>2. ASSUME NEW p \in Path, p.id < nextId PROVE disk'[p] = disk[p] \/ disk'[p] = Absent
  <2>0. p.id \in Nat
    BY EngineAssumption DEF Path
  <2>1. ASSUME NEW e \in loc[t].plan, WritePart(t, e) PROVE disk'[p] = disk[p]
    BY <1>2, <2>0, <2>1, WritesAside
  <2>2. ASSUME NEW q \in loc[t].olds, UnlinkPart(t, q) PROVE disk'[p] = disk[p] \/ disk'[p] = Absent
    BY <2>2 DEF UnlinkPart, TypeOK
  <2> QED
    BY <2>1, <2>2, FilesStay
<1> QED
  BY <1>1, <1>2

LEMMA SameFold ==
  ASSUME NEW P, NEW d, NEW e, \A p \in P : d[p] = e[p] PROVE Fold(P, d) = Fold(P, e)
<1>1. \A p \in P : Surviving(P, p, d) = Surviving(P, p, e)
  BY DEF Surviving, DeltasAfter
<1> QED
  BY <1>1 DEF Fold, Data

(* When nothing is on its way to the disk, the content is what the disk    *)
(* holds with the buffer laid over it.                                     *)
LEMMA CalmContent ==
  ASSUME OnlyFlushes, RunsGranted, OneInv, ~FlushUnderWay, NEW k \in Keys
  PROVE  Content(k) = Overlay(Disk(k), mem[k], memDel[k])
<1>1. ASSUME NEW t \in Threads PROVE ~InFlight(t)
  <2>1. loc[t].op \notin {"replace", "delete", "drop"}
    BY DEF OnlyFlushes, RunsGranted, Granted
  <2> QED
    BY <2>1 DEF InFlight, FlushUnderWay, OneInv, CallsFit, CallFits, CallsAt
<1> QED
  BY <1>1 DEF Content, Target

(* What the history keeps of a get.                                        *)
Kept(t) ==
  /\ Reading(t)' =>
       LET k == loc'[t].key
           old == IF Reading(t) THEN seen[t] ELSE [must |-> truth[k], may |-> truth[k], calm |-> TRUE]
       IN /\ seen'[t].must = old.must \cap truth'[k] /\ seen'[t].may = old.may \cup truth'[k]
          /\ seen'[t].calm = (old.calm /\ ~FlushUnderWay /\ ~FlushUnderWay')
  /\ pc'[t] = "got" => seen'[t] = seen[t]

LEMMA ObservedKept == ASSUME Observe(truth') PROVE \A t \in Threads : Kept(t)
<1> SUFFICES ASSUME NEW t \in Threads PROVE Kept(t)
  OBVIOUS
<1>1. CASE Reading(t)'
  <2>1. pc'[t] # "got"
    BY <1>1 DEF Reading
  <2>2. seen'[t] = LET k == loc'[t].key
                       old == IF Reading(t) THEN seen[t]
                              ELSE [must |-> truth[k], may |-> truth[k], calm |-> TRUE]
                   IN [must |-> old.must \cap truth'[k], may |-> old.may \cup truth'[k],
                       calm |-> old.calm /\ ~FlushUnderWay /\ ~FlushUnderWay']
    BY <1>1 DEF Observe
  <2> QED
    BY <2>1, <2>2 DEF Kept
<1>2. CASE ~Reading(t)'
  BY <1>2 DEF Observe, Kept
<1> QED
  BY <1>1, <1>2

(* A thread whose read stays where it is.                                  *)
LEMMA StillReading ==
  ASSUME OnlyFlushes, RunsGranted, Beside, NEW t \in Threads, Acts(t), NEW u \in Threads,
         ReadNow(u), Kept(u), loc'[u] = loc[u], pc'[u] = pc[u]
  PROVE  ReadNow(u)'
<1> USE DEF Beside, OneInv
<1>0. PICK k \in Keys : k = loc[u].key
  BY FieldTypes DEF TypeOK
<1>f. loc[u].found \subseteq Path
  BY FieldTypes DEF TypeOK
<1>1. Reading(u)' <=> Reading(u)
  BY DEF Reading
<1>2. ASSUME Reading(u)', seen'[u].calm
      PROVE  /\ seen[u].calm /\ ~FlushUnderWay /\ ~FlushUnderWay'
             /\ seen'[u].must \subseteq seen[u].must /\ seen[u].may \subseteq seen'[u].may
             /\ Disk(k)' = Disk(k)
  <2>1. /\ seen'[u].must = seen[u].must \cap truth'[k] /\ seen'[u].may = seen[u].may \cup truth'[k]
        /\ seen[u].calm /\ ~FlushUnderWay /\ ~FlushUnderWay'
    BY <1>0, <1>1, <1>2 DEF Kept
  <2> QED
    BY <2>1, CalmDisk
<1>3. ASSUME Reading(u)', seen'[u].calm
      PROVE  ~FlushUnderWay' /\ Fits(u, Overlay(Disk(loc[u].key), loc[u].gotB, loc[u].gotD))'
  <2>1. Fits(u, Overlay(Disk(k), loc[u].gotB, loc[u].gotD))
    BY <1>0, <1>1, <1>2, <1>3 DEF ReadNow
  <2>2. Disk(k)' = Fold({p \in parts' : p.id \in pparts'[loc'[u].key] \cup pdeltas'[loc'[u].key]}, disk')
    BY <1>0 DEF Disk, PartsOf
  <2>3. Fold({p \in parts' : p.id \in pparts'[loc'[u].key] \cup pdeltas'[loc'[u].key]}, disk') = Disk(k)
    BY <1>2, <1>3, <2>2
  <2>4. /\ seen'[u].must \subseteq Overlay(Disk(k), loc'[u].gotB, loc'[u].gotD)
        /\ Overlay(Disk(k), loc'[u].gotB, loc'[u].gotD) \subseteq seen'[u].may
    BY <1>2, <1>3, <2>1 DEF Fits
  <2> QED
    BY <1>2, <1>3, <2>3, <2>4 DEF Fits, Disk, PartsOf
<1>4. ASSUME pc'[u] = "get_files"
      PROVE  /\ \A p \in loc'[u].found : p.id < nextId'
             /\ seen'[u].calm /\ Readable(loc[u].found)' => Fold(loc'[u].found, disk') = Disk(loc[u].key)'
  <2>1. \A p \in loc[u].found : p.id < nextId /\ p.id \in Nat /\ p \in Path
    BY <1>f, <1>4, EngineAssumption DEF ReadNow, Path
  <2>2. \A p \in loc'[u].found : p.id < nextId'
    BY <2>1, SpentFiles
  <2>3. ASSUME seen'[u].calm, Readable(loc[u].found)'
        PROVE  Fold(loc'[u].found, disk') = Disk(k)'
    <3>0. Reading(u)'
      BY <1>4 DEF Reading
    <3>1. \A p \in loc[u].found : disk'[p] # Absent
      BY <2>3 DEF Readable
    <3>2. \A p \in loc[u].found : disk'[p] = disk[p]
      BY <2>1, <3>1, SpentFiles
    <3>3. Fold(loc[u].found, disk') = Fold(loc[u].found, disk)
      BY <3>2, SameFold
    <3>4. Fold(loc[u].found, disk) = Disk(k)
      BY <1>0, <1>2, <1>4, <2>3, <3>0, <3>1, <3>2 DEF ReadNow, Readable
    <3> QED
      BY <1>2, <2>3, <3>0, <3>3, <3>4
  <2>4. Disk(loc[u].key)' = Disk(k)'
    BY <1>0 DEF Disk, PartsOf
  <2> QED
    BY <2>2, <2>3, <2>4
<1>5. ASSUME pc'[u] = "got", seen'[u].calm, loc'[u].res # Absent PROVE Fits(u, loc[u].res)'
  BY <1>5 DEF ReadNow, Kept, Fits
<1> QED
  BY <1>3, <1>4, <1>5 DEF ReadNow

(* The get that takes the step.                                            *)
LEMMA ReaderMoves ==
  ASSUME OnlyFlushes, RunsGranted, Beside, ContentInv, ContentInv', IndexAgrees, NEW t \in Threads,
         CacheHit(t) \/ CacheMiss(t) \/ ReadTxn(t) \/ ReadFiles(t) \/ StartGet(t),
         ReadNow(t), Kept(t)
  PROVE  ReadNow(t)'
<1> USE DEF Beside, OneInv
<1> DEFINE now == Overlay(Disk(loc[t].key), loc[t].gotB, loc[t].gotD)
<1>0. loc[t] \in Locals /\ Acts(t)
  BY DEF TypeOK, Acts, Internal, Read
<1>1. /\ UNCHANGED <<up, mem, memDel, parts, pparts, pdeltas, nextId, disk>>
      /\ \A k \in Keys : Disk(k)' = Disk(k) /\ PartsOf(k)' = PartsOf(k)
  <2>1. UNCHANGED <<up, mem, memDel, parts, pparts, pdeltas, nextId, disk>>
    BY DEF CacheHit, CacheMiss, ReadTxn, ReadFiles, StartGet, Get, buffer, catalog
  <2> QED
    BY <2>1 DEF Disk, PartsOf
<1>2. CASE StartGet(t)
  <2>1. PICK k \in Keys : Get(t, k)
    BY <1>2 DEF StartGet
  <2>2. loc'[t] = [Blank EXCEPT !.key = k, !.gotB = mem[k], !.gotD = memDel[k]]
    BY <2>1 DEF Get, TypeOK
  <2>3. /\ loc'[t].key = k /\ loc'[t].gotB = mem[k] /\ loc'[t].gotD = memDel[k]
        /\ pc[t] = "idle" /\ pc'[t] = "get_cache"
    BY <2>1, <2>2 DEF Blank, Get, Starts, Goto, TypeOK
  <2>4. ASSUME seen'[t].calm
        PROVE  /\ ~FlushUnderWay'
               /\ Fits(t, Overlay(Disk(loc[t].key), loc[t].gotB, loc[t].gotD))'
    <3>1. /\ seen'[t].must = truth[k] \cap truth'[k] /\ seen'[t].may = truth[k] \cup truth'[k]
          /\ ~FlushUnderWay /\ ~FlushUnderWay'
      BY <2>3, <2>4 DEF Kept, Reading
    <3>2. truth[k] = Overlay(Disk(k), mem[k], memDel[k])
      BY <3>1, CalmContent DEF ContentInv, Contents
    <3>3. Disk(k) = Fold({p \in parts' : p.id \in pparts'[loc'[t].key] \cup pdeltas'[loc'[t].key]}, disk')
      BY <1>1, <2>3 DEF Disk, PartsOf
    <3>4. /\ seen'[t].must \subseteq Overlay(Disk(k), loc'[t].gotB, loc'[t].gotD)
          /\ Overlay(Disk(k), loc'[t].gotB, loc'[t].gotD) \subseteq seen'[t].may
      BY <2>3, <3>1, <3>2
    <3> QED
      BY <3>1, <3>3, <3>4 DEF Fits, Disk, PartsOf
  <2> QED
    BY <2>3, <2>4 DEF ReadNow, Reading
<1>3. ASSUME Reading(t), seen[t].calm
      PROVE  ~FlushUnderWay /\ seen[t].must \subseteq now /\ now \subseteq seen[t].may
  BY <1>3 DEF ReadNow, Fits
<1>4. CASE CacheHit(t)
  <2>1. /\ pc[t] = "get_cache" /\ pc'[t] = "got" /\ ridx[loc[t].key] # Absent
        /\ loc'[t].res = Overlay(ridx[loc[t].key], loc[t].gotB, loc[t].gotD)
    BY <1>0, <1>4 DEF CacheHit, Goto, TypeOK, Locals
  <2>2. ASSUME seen[t].calm PROVE ridx[loc[t].key] = Disk(loc[t].key)
    <3>1. up /\ loc[t].key \in Keys
      BY <2>1, FieldTypes DEF PartOwnership, TypeOK
    <3>2. ~FlushUnderWay
      BY <1>3, <2>1, <2>2 DEF Reading
    <3>3. PICK k \in Keys : k = loc[t].key
      BY <3>1
    <3> QED
      BY <2>1, <3>1, <3>2, <3>3 DEF IndexAgrees
  <2>3. seen[t].calm => Fits(t, loc[t].res)'
    BY <1>3, <2>1, <2>2 DEF Fits, Kept, Reading
  <2> QED
    BY <2>1, <2>3 DEF ReadNow, Reading, Kept
<1>5. CASE CacheMiss(t) \/ ReadTxn(t)
  <2>1. /\ pc[t] \in {"get_cache", "get_txn"} /\ pc'[t] \in {"get_txn", "get_files"}
        /\ loc'[t].key = loc[t].key /\ loc'[t].gotB = loc[t].gotB /\ loc'[t].gotD = loc[t].gotD
        /\ pc'[t] = "get_files" => loc'[t].found = PartsOf(loc[t].key)
    BY <1>0, <1>5 DEF CacheMiss, ReadTxn, Goto, TypeOK, Locals
  <2>2. PICK k \in Keys : k = loc[t].key
    BY FieldTypes DEF TypeOK
  <2>3. Disk(k) = Fold({p \in parts' : p.id \in pparts'[loc'[t].key] \cup pdeltas'[loc'[t].key]}, disk')
    BY <1>1, <2>1, <2>2 DEF Disk, PartsOf
  <2>4. ASSUME seen'[t].calm
        PROVE  ~FlushUnderWay' /\ Fits(t, Overlay(Disk(loc[t].key), loc[t].gotB, loc[t].gotD))'
    <3>1. /\ seen'[t].must = seen[t].must \cap truth'[k] /\ seen'[t].may = seen[t].may \cup truth'[k]
          /\ seen[t].calm /\ ~FlushUnderWay'
      BY <2>1, <2>2, <2>4 DEF Kept, Reading
    <3>2. seen[t].must \subseteq now /\ now \subseteq seen[t].may
      BY <1>3, <2>1, <3>1 DEF Reading
    <3>3. now = Overlay(Disk(k), loc'[t].gotB, loc'[t].gotD)
      BY <2>1, <2>2
    <3> HIDE DEF now
    <3>4. /\ seen'[t].must \subseteq Overlay(Disk(k), loc'[t].gotB, loc'[t].gotD)
          /\ Overlay(Disk(k), loc'[t].gotB, loc'[t].gotD) \subseteq seen'[t].may
      BY <3>1, <3>2, <3>3
    <3> QED
      BY <2>3, <3>1, <3>4 DEF Fits, Disk, PartsOf
  <2>5. ASSUME pc'[t] = "get_files"
        PROVE  /\ \A p \in loc'[t].found : p.id < nextId'
               /\ Fold(loc'[t].found, disk') = Disk(loc[t].key)'
    <3>1. loc'[t].found = PartsOf(k)
      BY <2>1, <2>2, <2>5
    <3>2. \A p \in PartsOf(k) : p.id < nextId'
      BY <1>1 DEF PartsOf, PartOwnership, SpentIds
    <3>3. Fold(PartsOf(k), disk') = Disk(k)
      BY <1>1 DEF Disk
    <3> QED
      BY <2>3, <3>1, <3>2, <3>3 DEF Disk, PartsOf
  <2> QED
    BY <2>1, <2>4, <2>5 DEF ReadNow
<1>6. CASE ReadFiles(t)
  <2> DEFINE S == Overlay(Fold(loc[t].found, disk), loc[t].gotB, loc[t].gotD)
             r == IF Readable(loc[t].found) THEN S ELSE Absent
  <2>1. loc' = [loc EXCEPT ![t].res = r]
    BY <1>6 DEF ReadFiles
  <2>2. pc[t] = "get_files" /\ pc'[t] = "got"
    BY <1>6 DEF ReadFiles, Goto, TypeOK
  <2>3. ASSUME seen[t].calm, Readable(loc[t].found) PROVE seen[t].must \subseteq r /\ r \subseteq seen[t].may
    <3>1. Fold(loc[t].found, disk) = Disk(loc[t].key)
      BY <2>2, <2>3 DEF ReadNow
    <3>2. r = now
      BY <2>3, <3>1
    <3> HIDE DEF now, r
    <3> QED
      BY <1>3, <2>2, <2>3, <3>2 DEF Reading
  <2>4. ~Readable(loc[t].found) => r = Absent
    OBVIOUS
  <2> HIDE DEF S, r
  <2>5. loc'[t].res = r
    BY <1>0, <2>1 DEF TypeOK, Locals
  <2>6. seen[t].calm /\ loc'[t].res # Absent => Fits(t, loc[t].res)'
    BY <2>2, <2>3, <2>4, <2>5 DEF Fits, Kept
  <2> QED
    BY <2>2, <2>6 DEF ReadNow, Reading, Kept
<1> QED
  BY <1>2, <1>4, <1>5, <1>6

LEMMA ReadStep ==
  ASSUME OnlyFlushes
  PROVE  OneInv /\ OneInv' /\ OneMaintainer /\ OneMaintainer' /\ RunsGranted /\ ContentInv /\ ContentInv'
           /\ IndexAgrees /\ ReadInv /\ [HNext]_hvars => ReadInv'
<1> SUFFICES ASSUME Beside, RunsGranted, ContentInv, ContentInv', IndexAgrees, ReadInv, [HNext]_hvars,
                    NEW u \in Threads
             PROVE  ReadNow(u)'
  BY DEF Beside, ReadInv
<1>0. ReadNow(u)
  BY DEF ReadInv
<1> DEFINE L == {"get_cache", "get_txn", "get_files", "got"}
<1>1. ASSUME pc'[u] \notin L PROVE ReadNow(u)'
  BY <1>1 DEF ReadNow, Reading
<1>2. ASSUME HNext, NEW t \in Threads, Acts(t) PROVE ReadNow(u)'
  <2>1. Kept(u)
    BY <1>2, HistorySteps, ObservedKept
  <2>2. CASE u = t
    <3>1. CASE pc'[u] \in L
      BY <1>0, <1>2, <2>1, <2>2, <3>1, ReaderSteps, ReaderMoves DEF Beside, OneInv
    <3> QED
      BY <1>1, <3>1
  <2>3. CASE u # t
    <3>1. loc'[u] = loc[u] /\ pc'[u] = pc[u]
      BY <1>2, <2>3, OthersStay DEF Beside, OneInv
    <3> QED
      BY <1>0, <1>2, <2>1, <3>1, StillReading
  <2> QED
    BY <2>2, <2>3
<1>3. CASE Crash
  BY <1>1, <1>3 DEF Crash
<1>4. CASE Recover
  <2>1. pc' = pc /\ ~up
    BY <1>4 DEF Recover, DeleteOrphan, Open
  <2>2. pc'[u] = "idle"
    BY <2>1 DEF Beside, OneInv, PartOwnership
  <2> QED
    BY <1>1, <2>2
<1>5. CASE UNCHANGED hvars
  <2>1. UNCHANGED <<seen, parts, pparts, pdeltas, nextId, disk, pc, loc>>
    BY <1>5 DEF hvars, history, vars, catalog
  <2> QED
    BY <1>0, <2>1 DEF ReadNow, Reading, FlushUnderWay, Fits, Disk, PartsOf, Readable
<1> QED
  BY <1>2, <1>3, <1>4, <1>5, HistorySteps DEF Next, Acts

(* A get that no flush overlapped returns every bit that was there all     *)
(* through and none that never was, although it copies the buffer and then *)
(* reads an index or, on a miss, the catalog and the files, while puts,    *)
(* removes and compactions go on beside it.                                *)
THEOREM CalmReadsHold ==
  ASSUME ~IoErrors, OnlyFlushes PROVE HSpec /\ []OneMaintainer => []CalmReadsCorrect
<1>1. HInit => IndexAgrees /\ ReadInv
  BY DEF HInit, Init, IndexAgrees, NoCache, ReadInv, ReadNow, Reading
<1>2. ReadInv => CalmReadsCorrect
  BY DEF ReadInv, ReadNow, CalmReadsCorrect, Fits
<1> QED
  BY <1>1, <1>2, ContentHolds, HistoryImplements, HistorySteps, OneHolds, GrantedHolds, AgreesStep, ReadStep, PTL
     DEF HSpec, Spec
=============================================================================
