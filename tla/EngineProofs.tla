---------------------------- MODULE EngineProofs ----------------------------
(***************************************************************************)
(* Engine for any threads, keys, ids and part ids and any assignment of    *)
(* calls to threads: its type invariant, one lemma per action, and that the*)
(* catalog never refers to a vanished part file, whatever the threads do,  *)
(* whichever write fails and wherever a crash falls (PartOwnership is      *)
(* inductive).                                                             *)
(***************************************************************************)
EXTENDS Engine, PartFoldProofs

LEMMA BlankType == Blank \in Locals
<1>1. (CHOOSE k \in Keys : TRUE) \in Keys
  BY EngineAssumption
<1> QED
  BY <1>1 DEF Blank, Locals, Ops, NoCache, Path, Entry

(* The merged content of readable parts is a bitmap.                       *)
LEMMA FoldType ==
  ASSUME TypeOK, NEW P \in SUBSET Path, Readable(P)
  PROVE  Fold(P, disk) \in SUBSET Ids
<1>1. \A p \in P : disk[p] \subseteq Ids
  BY DEF TypeOK, Readable
<1> QED
  BY <1>1, FoldWithin

LEMMA TypeInit == Init => TypeOK
<1> SUFFICES ASSUME Init PROVE TypeOK
  OBVIOUS
<1>1. pc \in [Threads -> Labels] /\ loc \in [Threads -> Locals]
  BY BlankType DEF Init, Labels
<1>2. ridx \in [Keys -> {Absent} \cup SUBSET Ids] /\ disk \in [Path -> {Absent} \cup SUBSET Ids]
  BY DEF Init, NoCache
<1> QED
  BY <1>1, <1>2 DEF Init, TypeOK, States

(* Assigning a value of its type to a local leaves the locals typed.       *)
LEMMA LocalsUpdated ==
  ASSUME NEW l \in Locals
  PROVE  /\ \A I \in SUBSET PartIds : [l EXCEPT !.ids = I] \in Locals
         /\ \A I \in SUBSET PartIds, E \in SUBSET Entry :
              [l EXCEPT !.dids = I, !.plan = E] \in Locals
         /\ \A I \in SUBSET PartIds, P \in SUBSET Path :
              /\ [l EXCEPT !.ids = I, !.olds = P] \in Locals
              /\ [l EXCEPT !.dids = I, !.olds = P] \in Locals
              /\ [l EXCEPT !.ids = I, !.found = P] \in Locals
         /\ \A E \in SUBSET Entry, P \in SUBSET Path, n \in Nat :
              [l EXCEPT !.plan = E, !.out = P, !.nid = n] \in Locals
         /\ \A E \in SUBSET Entry : [l EXCEPT !.plan = E] \in Locals
         /\ \A n \in Nat : [l EXCEPT !.nid = n] \in Locals
         /\ \A P \in SUBSET Path :
              [l EXCEPT !.olds = P] \in Locals /\ [l EXCEPT !.found = P] \in Locals
         /\ \A K, L \in SUBSET Keys : [l EXCEPT !.todo = K, !.listed = L] \in Locals
         /\ \A K \in SUBSET Keys, k \in Keys, I \in SUBSET PartIds :
              [l EXCEPT !.todo = K, !.key = k, !.ids = I] \in Locals
         /\ \A c \in [Keys -> {Absent} \cup SUBSET Ids] : [l EXCEPT !.built = c] \in Locals
         /\ \A r \in {Absent} \cup SUBSET Ids : [l EXCEPT !.res = r] \in Locals
BY ZenonT(60) DEF Locals
LEMMA FieldTypes ==
  ASSUME NEW l \in Locals
  PROVE  /\ l.op \in Ops /\ l.key \in Keys /\ l.bits \in SUBSET Ids
         /\ l.ids \in SUBSET PartIds /\ l.dids \in SUBSET PartIds
         /\ l.olds \in SUBSET Path /\ l.plan \in SUBSET Entry /\ l.out \in SUBSET Path
         /\ l.nid \in Nat /\ l.todo \in SUBSET Keys /\ l.listed \in SUBSET Keys
         /\ l.found \in SUBSET Path /\ l.built \in [Keys -> {Absent} \cup SUBSET Ids]
         /\ l.gotB \in SUBSET Ids /\ l.gotD \in SUBSET Ids
         /\ l.res \in {Absent} \cup SUBSET Ids
BY DEF Locals

LEMMA ResumeLabel == ASSUME NEW op, NEW k PROVE Resume(op, k) \in Labels
BY DEF Resume, Labels

LEMMA CallOnEventType ==
  ASSUME TypeOK, NEW t \in Threads, NEW op \in Ops, NEW k \in Keys, NEW b \in SUBSET Ids,
         CallOnEvent(t, op, k, b)
  PROVE  TypeOK'
<1>1. [Blank EXCEPT !.op = op, !.key = k, !.bits = b] \in Locals
  BY BlankType DEF Locals
<1>2. (IF hasEvent THEN Resume(op, k) ELSE "ensure") \in Labels
  BY ResumeLabel DEF Labels
<1> QED
  BY <1>1, <1>2 DEF TypeOK, CallOnEvent, Call, Goto, buffer, catalog

LEMMA PutBitmapType ==
  ASSUME TypeOK, NEW t \in Threads, NEW k \in Keys, NEW b \in Bitmaps, PutBitmap(t, k, b)
  PROVE  TypeOK'
BY CallOnEventType DEF PutBitmap, Ops, Bitmaps

LEMMA EnsureEventType ==
  ASSUME TypeOK, NEW t \in Threads, EnsureEvent(t)
  PROVE  TypeOK'
BY ResumeLabel DEF TypeOK, EnsureEvent, Goto, buffer

LEMMA RevertCompactedType ==
  ASSUME TypeOK, NEW t \in Threads, RevertCompacted(t)
  PROVE  TypeOK'
BY BlankType DEF TypeOK, Labels, Goto, RevertCompacted, States, buffer, catalog

LEMMA BufferedTypes ==
  ASSUME NEW f \in [Keys -> SUBSET Ids], NEW K \in SUBSET Keys, NEW b \in SUBSET Ids
  PROVE  AddBits(f, K, b) \in [Keys -> SUBSET Ids] /\ ClearBits(f, K, b) \in [Keys -> SUBSET Ids]
BY DEF AddBits, ClearBits

LEMMA CoverType == ASSUME NEW k \in Keys PROVE Cover(k) \in SUBSET Keys
BY EngineAssumption DEF Cover

LEMMA BufferPutType ==
  ASSUME TypeOK, NEW t \in Threads, BufferPut(t)
  PROVE  mem' \in [Keys -> SUBSET Ids] /\ memDel' \in [Keys -> SUBSET Ids]
<1>1. loc[t].key \in Keys /\ loc[t].bits \in SUBSET Ids
  BY FieldTypes DEF TypeOK
<1> QED
  BY <1>1, CoverType, BufferedTypes DEF TypeOK, BufferPut

LEMMA PutLockType ==
  ASSUME TypeOK, NEW t \in Threads, PutLock(t)
  PROVE  TypeOK'
<1>1. mem' \in [Keys -> SUBSET Ids] /\ memDel' \in [Keys -> SUBSET Ids]
  BY BufferPutType DEF PutLock
<1> QED
  BY <1>1, BlankType DEF TypeOK, Labels, Goto, PutLock, BufferPut, Return, catalog

LEMMA PutLockAutoFlushType ==
  ASSUME TypeOK, NEW t \in Threads, PutLockAutoFlush(t)
  PROVE  TypeOK'
<1>1. mem' \in [Keys -> SUBSET Ids] /\ memDel' \in [Keys -> SUBSET Ids]
  BY BufferPutType DEF PutLockAutoFlush
<1>2. [Blank EXCEPT !.op = "flush"] \in Locals
  BY BlankType DEF Locals, Ops
<1> QED
  BY <1>1, <1>2 DEF TypeOK, Labels, Goto, PutLockAutoFlush, BufferPut, catalog

LEMMA RemoveBitsType ==
  ASSUME TypeOK, NEW t \in Threads, NEW k \in Keys, NEW b \in Bitmaps, RemoveBits(t, k, b)
  PROVE  TypeOK'
BY CallOnEventType DEF RemoveBits, Ops, Bitmaps

LEMMA RemoveLockType ==
  ASSUME TypeOK, NEW t \in Threads, RemoveLock(t)
  PROVE  TypeOK'
<1>1. loc[t].key \in Keys /\ loc[t].bits \in SUBSET Ids
  BY FieldTypes DEF TypeOK
<1>2. memDel' \in [Keys -> SUBSET Ids]
  BY <1>1, CoverType, BufferedTypes DEF TypeOK, RemoveLock
<1> QED
  BY <1>2, BlankType DEF TypeOK, Labels, Goto, RemoveLock, Return, catalog

LEMMA TakeSnapshotType ==
  ASSUME TypeOK, NEW t \in Threads, TakeSnapshot(t)
  PROVE  TypeOK'
<1>1. Drained \in SUBSET Entry
  BY DEF TypeOK, Drained, Entry, Kinds
<1>2. [Blank EXCEPT !.op = "flush", !.plan = Drained] \in Locals
  BY <1>1, BlankType DEF Locals, Ops
<1> QED
  BY <1>2 DEF TypeOK, Labels, Goto, TakeSnapshot, buffer, catalog

LEMMA NothingToFlushType ==
  ASSUME TypeOK, NEW t \in Threads, NothingToFlush(t)
  PROVE  TypeOK'
BY BlankType DEF TypeOK, Labels, Goto, NothingToFlush, Return, buffer, catalog

LEMMA CompactPeriodType ==
  ASSUME TypeOK, NEW t \in Threads, NEW k \in Keys, CompactPeriod(t, k)
  PROVE  TypeOK'
<1>1. pparts[k] \in SUBSET PartIds
  BY DEF TypeOK
<1>2. [Blank EXCEPT !.op = "compact", !.key = k, !.ids = pparts[k]] \in Locals
  BY <1>1, BlankType DEF Locals, Ops
<1> QED
  BY <1>2 DEF TypeOK, Labels, Goto, CompactPeriod, buffer, catalog

LEMMA ReplaceBitmapType ==
  ASSUME TypeOK, NEW t \in Threads, NEW k \in Keys, NEW b \in SUBSET Ids, ReplaceBitmap(t, k, b)
  PROVE  TypeOK'
BY CallOnEventType DEF ReplaceBitmap, Ops

LEMMA ReplaceLockType ==
  ASSUME TypeOK, NEW t \in Threads, ReplaceLock(t)
  PROVE  TypeOK'
BY DEF TypeOK, Labels, Goto, ReplaceLock, catalog

LEMMA CollectDataIdsType ==
  ASSUME TypeOK, NEW t \in Threads, CollectDataIds(t)
  PROVE  TypeOK'
<1>1. loc[t] \in Locals
  BY DEF TypeOK
<1>2. pparts[loc[t].key] \in SUBSET PartIds
  BY <1>1, FieldTypes DEF TypeOK
<1>3. loc' = [loc EXCEPT ![t] = [loc[t] EXCEPT !.ids = pparts[loc[t].key]]]
  BY DEF CollectDataIds
<1>4. [loc[t] EXCEPT !.ids = pparts[loc[t].key]] \in Locals
  BY <1>1, <1>2, LocalsUpdated
<1> QED
  BY <1>3, <1>4 DEF TypeOK, Labels, Goto, CollectDataIds, buffer, catalog

LEMMA CollectDeltaIdsType ==
  ASSUME TypeOK, NEW t \in Threads, CollectDeltaIds(t)
  PROVE  TypeOK'
<1> DEFINE I == pdeltas[loc[t].key]
           E == IF loc[t].op = "compact" THEN {}
                ELSE {[key |-> loc[t].key, kind |-> "data", bits |-> loc[t].bits]}
<1>1. loc[t] \in Locals
  BY DEF TypeOK
<1>2. I \in SUBSET PartIds /\ E \in SUBSET Entry
  BY <1>1, FieldTypes DEF TypeOK, Entry, Kinds
<1>3. loc' = [loc EXCEPT ![t] = [loc[t] EXCEPT !.dids = I, !.plan = E]]
  BY DEF CollectDeltaIds
<1> HIDE DEF I, E
<1>4. [loc[t] EXCEPT !.dids = I, !.plan = E] \in Locals
  BY <1>1, <1>2, LocalsUpdated
<1> QED
  BY <1>3, <1>4, ZenonT(60) DEF TypeOK, Labels, Goto, CollectDeltaIds, buffer, catalog

LEMMA NotEligibleType ==
  ASSUME TypeOK, NEW t \in Threads, NotEligible(t)
  PROVE  TypeOK'
BY BlankType DEF TypeOK, Labels, Goto, NotEligible, Return, buffer, catalog

LEMMA CollectDataPartType ==
  ASSUME TypeOK, NEW t \in Threads, CollectDataPart(t)
  PROVE  TypeOK'
<1>1. PICK i \in loc[t].ids :
        loc' = [loc EXCEPT ![t] = [loc[t] EXCEPT !.ids = @ \ {i}, !.olds = @ \cup {p \in parts : p.id = i}]]
  BY DEF CollectDataPart
<1> DEFINE I == loc[t].ids \ {i}
           P == loc[t].olds \cup {p \in parts : p.id = i}
<1>2. loc' = [loc EXCEPT ![t] = [loc[t] EXCEPT !.ids = I, !.olds = P]]
  BY <1>1
<1>3. loc[t] \in Locals
  BY DEF TypeOK
<1>4. I \in SUBSET PartIds /\ P \in SUBSET Path
  BY <1>3, FieldTypes DEF TypeOK
<1> HIDE DEF I, P
<1>5. [loc[t] EXCEPT !.ids = I, !.olds = P] \in Locals
  BY <1>3, <1>4, LocalsUpdated
<1> QED
  BY <1>2, <1>5 DEF TypeOK, CollectDataPart, buffer, catalog

LEMMA CollectDeltaPartType ==
  ASSUME TypeOK, NEW t \in Threads, CollectDeltaPart(t)
  PROVE  TypeOK'
<1>1. PICK i \in loc[t].dids :
        loc' = [loc EXCEPT ![t] = [loc[t] EXCEPT !.dids = @ \ {i}, !.olds = @ \cup {p \in parts : p.id = i}]]
  BY DEF CollectDeltaPart
<1> DEFINE I == loc[t].dids \ {i}
           P == loc[t].olds \cup {p \in parts : p.id = i}
<1>2. loc' = [loc EXCEPT ![t] = [loc[t] EXCEPT !.dids = I, !.olds = P]]
  BY <1>1
<1>3. loc[t] \in Locals
  BY DEF TypeOK
<1>4. I \in SUBSET PartIds /\ P \in SUBSET Path
  BY <1>3, FieldTypes DEF TypeOK
<1> HIDE DEF I, P
<1>5. [loc[t] EXCEPT !.dids = I, !.olds = P] \in Locals
  BY <1>3, <1>4, LocalsUpdated
<1> QED
  BY <1>2, <1>5 DEF TypeOK, CollectDeltaPart, buffer, catalog

LEMMA CollectedType ==
  ASSUME TypeOK, NEW t \in Threads, Collected(t)
  PROVE  TypeOK'
BY BlankType DEF TypeOK, Labels, Goto, Collected, buffer, catalog

LEMMA MergePartsType ==
  ASSUME TypeOK, NEW t \in Threads, MergeParts(t)
  PROVE  TypeOK'
<1> DEFINE E == {[key |-> loc[t].key, kind |-> "data", bits |-> Fold(loc[t].olds, disk)]}
<1>1. loc[t] \in Locals
  BY DEF TypeOK
<1>2. E \in SUBSET Entry
  BY <1>1, FieldTypes, FoldType DEF TypeOK, MergeParts, Entry, Kinds
<1>3. loc' = [loc EXCEPT ![t] = [loc[t] EXCEPT !.plan = E]]
  BY DEF MergeParts
<1> HIDE DEF E
<1>4. [loc[t] EXCEPT !.plan = E] \in Locals
  BY <1>1, <1>2, LocalsUpdated
<1> QED
  BY <1>3, <1>4 DEF TypeOK, Labels, Goto, MergeParts, buffer, catalog

LEMMA MergeFailsType ==
  ASSUME TypeOK, NEW t \in Threads, MergeFails(t)
  PROVE  TypeOK'
BY BlankType DEF TypeOK, Labels, Goto, MergeFails, Return, buffer, catalog

LEMMA BeginTxnType ==
  ASSUME TypeOK, NEW t \in Threads, BeginTxn(t)
  PROVE  TypeOK'
<1>1. loc[t] \in Locals
  BY DEF TypeOK
<1>2. nextId \in Nat
  BY <1>1, FieldTypes DEF TypeOK
<1>3. loc' = [loc EXCEPT ![t] = [loc[t] EXCEPT !.nid = nextId]]
  BY DEF BeginTxn
<1>4. [loc[t] EXCEPT !.nid = nextId] \in Locals
  BY <1>1, <1>2, LocalsUpdated
<1> QED
  BY <1>3, <1>4 DEF TypeOK, Labels, Goto, BeginTxn, buffer, catalog

LEMMA WritePartType ==
  ASSUME TypeOK, NEW t \in Threads, NEW e \in loc[t].plan, WritePart(t, e)
  PROVE  TypeOK'
<1> DEFINE p == [id |-> loc[t].nid, kind |-> e.kind, key |-> e.key]
           E == loc[t].plan \ {e}
           P == loc[t].out \cup {p}
           n == loc[t].nid + 1
<1>1. loc[t] \in Locals
  BY DEF TypeOK
<1>2. /\ E \in SUBSET Entry /\ P \in SUBSET Path /\ n \in Nat
      /\ p \in Path /\ e.bits \in SUBSET Ids
  BY <1>1, FieldTypes DEF TypeOK, WritePart, Path, Entry
<1>3. loc' = [loc EXCEPT ![t] = [loc[t] EXCEPT !.plan = E, !.out = P, !.nid = n]]
  BY DEF WritePart
<1>5. disk' \in [Path -> {Absent} \cup SUBSET Ids]
  BY <1>2 DEF WritePart, TypeOK
<1>6. UNCHANGED <<up, mem, memDel, ridx, hasEvent, parts, pparts, pdeltas, pstate, nextId, wtxn, pc>>
  BY DEF WritePart, buffer, catalog
<1> HIDE DEF p, E, P, n
<1>4. [loc[t] EXCEPT !.plan = E, !.out = P, !.nid = n] \in Locals
  BY <1>1, <1>2, LocalsUpdated
<1> QED
  BY <1>3, <1>4, <1>5, <1>6 DEF TypeOK

LEMMA CommitType ==
  ASSUME TypeOK, NEW t \in Threads, Commit(t)
  PROVE  TypeOK'
<1>1. /\ loc[t].nid \in Nat /\ loc[t].key \in Keys
      /\ loc[t].out \subseteq Path
      /\ \A k \in Keys, kind \in Kinds : OutIds(t, k, kind) \in SUBSET PartIds
  BY FieldTypes DEF TypeOK, OutIds, Path
<1>2. CASE loc[t].op = "flush"
  BY <1>1, <1>2 DEF TypeOK, Labels, Goto, Commit, AppendParts, States, Kinds, buffer
<1>3. CASE loc[t].op # "flush"
  BY <1>1, <1>3 DEF TypeOK, Labels, Goto, Commit, SupersedeParts, States, Kinds, buffer
<1> QED
  BY <1>2, <1>3

LEMMA TxnFailsType ==
  ASSUME TypeOK, NEW t \in Threads, TxnFails(t)
  PROVE  TypeOK'
BY BlankType DEF TypeOK, Labels, Goto, TxnFails, Return, buffer, catalog

LEMMA DeletePeriodType ==
  ASSUME TypeOK, NEW t \in Threads, NEW k \in Keys, DeletePeriod(t, k)
  PROVE  TypeOK'
<1>1. [Blank EXCEPT !.op = "delete", !.key = k, !.bits = {}] \in Locals
  BY BlankType DEF Locals, Ops
<1>2. loc' \in [Threads -> Locals]
  BY <1>1 DEF TypeOK, DeletePeriod, Call
<1>3. pc' \in [Threads -> Labels]
  BY DEF TypeOK, DeletePeriod, Goto, Labels
<1>4. UNCHANGED <<up, ridx, catalog, wtxn, disk>>
  BY DEF DeletePeriod
<1>5. /\ mem' = [mem EXCEPT ![k] = {}]
      /\ memDel' = [memDel EXCEPT ![k] = {}]
  BY DEF DeletePeriod
<1> QED
  BY <1>2, <1>3, <1>4, <1>5 DEF TypeOK, catalog

LEMMA DeleteTxnType ==
  ASSUME TypeOK, NEW t \in Threads, DeleteTxn(t)
  PROVE  TypeOK'
<1> DEFINE P == PartsOf(loc[t].key)
<1>1. loc[t] \in Locals
  BY DEF TypeOK
<1>2. P \in SUBSET Path /\ loc[t].key \in Keys
  BY <1>1, FieldTypes DEF TypeOK, PartsOf
<1>3. loc' = [loc EXCEPT ![t] = [loc[t] EXCEPT !.olds = P]]
  BY DEF DeleteTxn
<1> HIDE DEF P
<1>4. [loc[t] EXCEPT !.olds = P] \in Locals
  BY <1>1, <1>2, LocalsUpdated
<1> QED
  BY <1>3, <1>4 DEF TypeOK, Labels, Goto, DeleteTxn, States, buffer, catalog

LEMMA DeleteKnownType ==
  ASSUME TypeOK, NEW t \in Threads, DeleteKnown(t)
  PROVE  TypeOK'
BY DEF TypeOK, Labels, Goto, DeleteKnown, buffer, catalog

LEMMA DeleteUnknownType ==
  ASSUME TypeOK, NEW t \in Threads, DeleteUnknown(t)
  PROVE  TypeOK'
BY BlankType DEF TypeOK, Labels, Goto, DeleteUnknown, Return, buffer, catalog

LEMMA DropEventType ==
  ASSUME TypeOK, NEW t \in Threads, DropEvent(t)
  PROVE  TypeOK'
<1>1. [Blank EXCEPT !.op = "drop"] \in Locals
  BY BlankType DEF Locals, Ops
<1> QED
  BY <1>1 DEF TypeOK, Labels, Goto, DropEvent, catalog

LEMMA DropTxnType ==
  ASSUME TypeOK, NEW t \in Threads, DropTxn(t)
  PROVE  TypeOK'
<1> DEFINE P == EventData
<1>1. loc[t] \in Locals /\ P \in SUBSET Path
  BY DEF TypeOK, EventData
<1>2. loc' = [loc EXCEPT ![t] = [loc[t] EXCEPT !.olds = P]] /\ parts' = parts \ P
  BY DEF DropTxn
<1> HIDE DEF P
<1>3. [loc[t] EXCEPT !.olds = P] \in Locals
  BY <1>1, LocalsUpdated
<1> QED
  BY <1>1, <1>2, <1>3 DEF TypeOK, Labels, Goto, DropTxn, States, buffer

LEMMA RebuildListType ==
  ASSUME TypeOK, NEW t \in Threads, RebuildList(t)
  PROVE  TypeOK'
<1> DEFINE K == PeriodKeys
<1>1. loc[t] \in Locals
  BY DEF TypeOK
<1>2. K \in SUBSET Keys
  BY <1>1, FieldTypes DEF TypeOK, PeriodKeys
<1>3. loc' = [loc EXCEPT ![t] = [loc[t] EXCEPT !.todo = K, !.listed = K]]
  BY DEF RebuildList
<1> HIDE DEF K
<1>4. [loc[t] EXCEPT !.todo = K, !.listed = K] \in Locals
  BY <1>1, <1>2, LocalsUpdated
<1> QED
  BY <1>3, <1>4 DEF TypeOK, Labels, Goto, RebuildList, buffer, catalog

LEMMA RebuildDataIdsType ==
  ASSUME TypeOK, NEW t \in Threads, NEW k \in Keys, RebuildDataIds(t, k)
  PROVE  TypeOK'
<1> DEFINE K == loc[t].todo \ {k}
           I == pparts[k]
<1>1. loc[t] \in Locals
  BY DEF TypeOK
<1>2. K \in SUBSET Keys /\ I \in SUBSET PartIds
  BY <1>1, FieldTypes DEF TypeOK
<1>3. loc' = [loc EXCEPT ![t] = [loc[t] EXCEPT !.todo = K, !.key = k, !.ids = I]]
  BY DEF RebuildDataIds
<1> HIDE DEF K, I
<1>4. [loc[t] EXCEPT !.todo = K, !.key = k, !.ids = I] \in Locals
  BY <1>1, <1>2, LocalsUpdated
<1>5. pc' \in [Threads -> Labels]
  BY DEF RebuildDataIds, Goto, TypeOK, Labels
<1> QED
  BY <1>3, <1>4, <1>5 DEF TypeOK, RebuildDataIds, buffer, catalog

LEMMA RebuildPartType ==
  ASSUME TypeOK, NEW t \in Threads, RebuildPart(t)
  PROVE  TypeOK'
<1>1. PICK i \in loc[t].ids :
        loc' = [loc EXCEPT ![t] = [loc[t] EXCEPT !.ids = @ \ {i}, !.found = @ \cup {p \in parts : p.id = i}]]
  BY DEF RebuildPart
<1> DEFINE I == loc[t].ids \ {i}
           P == loc[t].found \cup {p \in parts : p.id = i}
<1>2. loc' = [loc EXCEPT ![t] = [loc[t] EXCEPT !.ids = I, !.found = P]]
  BY <1>1
<1>3. loc[t] \in Locals
  BY DEF TypeOK
<1>4. I \in SUBSET PartIds /\ P \in SUBSET Path
  BY <1>3, FieldTypes DEF TypeOK
<1> HIDE DEF I, P
<1>5. [loc[t] EXCEPT !.ids = I, !.found = P] \in Locals
  BY <1>3, <1>4, LocalsUpdated
<1> QED
  BY <1>2, <1>5 DEF TypeOK, RebuildPart, buffer, catalog

LEMMA RebuildDeltaIdsType ==
  ASSUME TypeOK, NEW t \in Threads, RebuildDeltaIds(t)
  PROVE  TypeOK'
<1>1. loc[t] \in Locals
  BY DEF TypeOK
<1>2. pdeltas[loc[t].key] \in SUBSET PartIds
  BY <1>1, FieldTypes DEF TypeOK
<1>3. loc' = [loc EXCEPT ![t] = [loc[t] EXCEPT !.ids = pdeltas[loc[t].key]]]
  BY DEF RebuildDeltaIds
<1>4. [loc[t] EXCEPT !.ids = pdeltas[loc[t].key]] \in Locals
  BY <1>1, <1>2, LocalsUpdated
<1> QED
  BY <1>3, <1>4 DEF TypeOK, Labels, Goto, RebuildDeltaIds, buffer, catalog

LEMMA RebuildKeyDoneType ==
  ASSUME TypeOK, NEW t \in Threads, RebuildKeyDone(t)
  PROVE  TypeOK'
BY BlankType DEF TypeOK, Labels, Goto, RebuildKeyDone, buffer, catalog

LEMMA RebuildFoldType ==
  ASSUME TypeOK, NEW t \in Threads, RebuildFold(t)
  PROVE  TypeOK'
<1> DEFINE c == [k \in Keys |-> IF k \in loc[t].listed THEN Fold(FoundFor(t, k), disk) ELSE Absent]
<1>1. loc[t] \in Locals
  BY DEF TypeOK
<1>2. c \in [Keys -> {Absent} \cup SUBSET Ids]
  BY <1>1, FieldTypes, FoldType DEF TypeOK, RebuildFold, FoundFor, Readable
<1>3. loc' = [loc EXCEPT ![t] = [loc[t] EXCEPT !.built = c]]
  BY DEF RebuildFold
<1> HIDE DEF c
<1>4. [loc[t] EXCEPT !.built = c] \in Locals
  BY <1>1, <1>2, LocalsUpdated
<1> QED
  BY <1>3, <1>4 DEF TypeOK, Labels, Goto, RebuildFold, buffer, catalog

LEMMA RebuildFailsType ==
  ASSUME TypeOK, NEW t \in Threads, RebuildFails(t)
  PROVE  TypeOK'
BY BlankType DEF TypeOK, Labels, Goto, RebuildFails, Return, buffer, catalog

LEMMA StoreIndexType ==
  ASSUME TypeOK, NEW t \in Threads, StoreIndex(t)
  PROVE  TypeOK'
BY FieldTypes DEF TypeOK, Labels, Goto, StoreIndex, buffer, catalog

LEMMA UnlinkPartType ==
  ASSUME TypeOK, NEW t \in Threads, NEW p \in loc[t].olds, UnlinkPart(t, p)
  PROVE  TypeOK'
<1> DEFINE P == loc[t].olds \ {p}
<1>1. loc[t] \in Locals
  BY DEF TypeOK
<1>2. P \in SUBSET Path
  BY <1>1, FieldTypes DEF TypeOK
<1>3. loc' = [loc EXCEPT ![t] = [loc[t] EXCEPT !.olds = P]]
  BY DEF UnlinkPart
<1> HIDE DEF P
<1>4. [loc[t] EXCEPT !.olds = P] \in Locals
  BY <1>1, <1>2, LocalsUpdated
<1> QED
  BY <1>3, <1>4 DEF TypeOK, Labels, Goto, UnlinkPart, buffer, catalog

LEMMA CallDoneType ==
  ASSUME TypeOK, NEW t \in Threads, CallDone(t)
  PROVE  TypeOK'
BY BlankType DEF TypeOK, Labels, Goto, CallDone, Return, buffer, catalog

LEMMA GetType ==
  ASSUME TypeOK, NEW t \in Threads, NEW k \in Keys, Get(t, k)
  PROVE  TypeOK'
<1>1. mem[k] \in SUBSET Ids /\ memDel[k] \in SUBSET Ids
  BY DEF TypeOK
<1>2. [Blank EXCEPT !.key = k, !.gotB = mem[k], !.gotD = memDel[k]] \in Locals
  BY <1>1, BlankType DEF Locals
<1> QED
  BY <1>2 DEF TypeOK, Labels, Goto, Get, buffer, catalog

LEMMA CacheHitType ==
  ASSUME TypeOK, NEW t \in Threads, CacheHit(t)
  PROVE  TypeOK'
<1> DEFINE r == Overlay(ridx[loc[t].key], loc[t].gotB, loc[t].gotD)
<1>1. loc[t] \in Locals
  BY DEF TypeOK
<1>2. r \in {Absent} \cup SUBSET Ids
  BY <1>1, FieldTypes DEF TypeOK, CacheHit, Overlay
<1>3. loc' = [loc EXCEPT ![t] = [loc[t] EXCEPT !.res = r]]
  BY DEF CacheHit
<1> HIDE DEF r
<1>4. [loc[t] EXCEPT !.res = r] \in Locals
  BY <1>1, <1>2, LocalsUpdated
<1> QED
  BY <1>3, <1>4 DEF TypeOK, Labels, Goto, CacheHit, buffer, catalog

LEMMA CacheMissType ==
  ASSUME TypeOK, NEW t \in Threads, CacheMiss(t)
  PROVE  TypeOK'
BY BlankType DEF TypeOK, Labels, Goto, CacheMiss, buffer, catalog

LEMMA ReadTxnType ==
  ASSUME TypeOK, NEW t \in Threads, ReadTxn(t)
  PROVE  TypeOK'
<1> DEFINE P == PartsOf(loc[t].key)
<1>1. loc[t] \in Locals
  BY DEF TypeOK
<1>2. P \in SUBSET Path
  BY <1>1, FieldTypes DEF TypeOK, PartsOf
<1>3. loc' = [loc EXCEPT ![t] = [loc[t] EXCEPT !.found = P]]
  BY DEF ReadTxn
<1> HIDE DEF P
<1>4. [loc[t] EXCEPT !.found = P] \in Locals
  BY <1>1, <1>2, LocalsUpdated
<1> QED
  BY <1>3, <1>4 DEF TypeOK, Labels, Goto, ReadTxn, buffer, catalog

LEMMA ReadFilesType ==
  ASSUME TypeOK, NEW t \in Threads, ReadFiles(t)
  PROVE  TypeOK'
<1> DEFINE r == IF Readable(loc[t].found)
                THEN Overlay(Fold(loc[t].found, disk), loc[t].gotB, loc[t].gotD) ELSE Absent
<1>1. loc[t] \in Locals
  BY DEF TypeOK
<1>2. r \in {Absent} \cup SUBSET Ids
  BY <1>1, FieldTypes, FoldType DEF TypeOK, Overlay
<1>3. loc' = [loc EXCEPT ![t] = [loc[t] EXCEPT !.res = r]]
  BY DEF ReadFiles
<1> HIDE DEF r
<1>4. [loc[t] EXCEPT !.res = r] \in Locals
  BY <1>1, <1>2, LocalsUpdated
<1> QED
  BY <1>3, <1>4 DEF TypeOK, Labels, Goto, ReadFiles, buffer, catalog

LEMMA GetReturnsType ==
  ASSUME TypeOK, NEW t \in Threads, GetReturns(t)
  PROVE  TypeOK'
BY BlankType DEF TypeOK, Labels, Goto, GetReturns, Return, buffer, catalog

LEMMA CrashType == TypeOK /\ Crash => TypeOK'
<1> SUFFICES ASSUME TypeOK, Crash PROVE TypeOK'
  OBVIOUS
<1>1. pc' \in [Threads -> Labels] /\ loc' \in [Threads -> Locals]
  BY BlankType DEF Crash, Labels
<1>2. /\ mem' \in [Keys -> SUBSET Ids] /\ memDel' \in [Keys -> SUBSET Ids]
      /\ ridx' \in [Keys -> {Absent} \cup SUBSET Ids]
  BY DEF Crash, NoCache
<1> QED
  BY <1>1, <1>2 DEF TypeOK, Crash, catalog

LEMMA DeleteOrphanType ==
  ASSUME TypeOK, NEW p \in Path, DeleteOrphan(p)
  PROVE  TypeOK'
BY DEF TypeOK, DeleteOrphan, buffer, catalog

LEMMA OpenType == TypeOK /\ Open => TypeOK'
<1> SUFFICES ASSUME TypeOK, Open PROVE TypeOK'
  OBVIOUS
<1>1. \A k \in Keys : PartsOf(k) \in SUBSET Path /\ Readable(PartsOf(k))
  BY DEF Open, PartsOf, TypeOK
<1>2. \A k \in Keys : Disk(k) \in SUBSET Ids
  BY <1>1, FoldType DEF Disk
<1> QED
  BY <1>2 DEF TypeOK, Open, FreshIndex, buffer, catalog

LEMMA CollectType == ASSUME TypeOK, NEW t \in Threads, Collect(t) PROVE TypeOK'
BY CollectDataIdsType, CollectDeltaIdsType, NotEligibleType, CollectDataPartType,
   CollectDeltaPartType, CollectedType, MergePartsType, MergeFailsType DEF Collect

LEMMA TransactType == ASSUME TypeOK, NEW t \in Threads, Transact(t) PROVE TypeOK'
BY BeginTxnType, WritePartType, CommitType, TxnFailsType, DeleteTxnType, DeleteKnownType,
   DeleteUnknownType, DropTxnType DEF Transact

LEMMA RebuildType == ASSUME TypeOK, NEW t \in Threads, Rebuild(t) PROVE TypeOK'
BY RebuildListType, RebuildDataIdsType, RebuildPartType, RebuildDeltaIdsType,
   RebuildKeyDoneType, RebuildFoldType, RebuildFailsType, StoreIndexType,
   UnlinkPartType, CallDoneType DEF Rebuild

LEMMA ReadType == ASSUME TypeOK, NEW t \in Threads, Read(t) PROVE TypeOK'
BY CacheHitType, CacheMissType, ReadTxnType, ReadFilesType, GetReturnsType DEF Read

LEMMA StartCallType == ASSUME TypeOK, NEW t \in Threads, StartCall(t) PROVE TypeOK'
BY PutBitmapType, RemoveBitsType, ReplaceBitmapType, CompactPeriodType DEF StartCall

LEMMA InternalType == ASSUME TypeOK, NEW t \in Threads, Internal(t) PROVE TypeOK'
BY StartCallType, EnsureEventType, RevertCompactedType, TakeSnapshotType, NothingToFlushType,
   CollectType, TransactType, RebuildType, ReadType DEF Internal

LEMMA UpdateType == ASSUME TypeOK, NEW t \in Threads, Update(t) PROVE TypeOK'
BY PutLockType, PutLockAutoFlushType, RemoveLockType, ReplaceLockType, DeletePeriodType,
   DropEventType DEF Update

LEMMA TypeStep == TypeOK /\ [Next]_vars => TypeOK'
<1> SUFFICES ASSUME TypeOK, [Next]_vars PROVE TypeOK'
  OBVIOUS
<1>1. ASSUME NEW t \in Threads, Internal(t) \/ Update(t) \/ StartGet(t) PROVE TypeOK'
  BY <1>1, InternalType, UpdateType, GetType DEF StartGet
<1>2. CASE Crash
  BY <1>2, CrashType
<1>3. CASE Recover
  BY <1>3, DeleteOrphanType, OpenType DEF Recover
<1>4. CASE UNCHANGED vars
  BY <1>4 DEF TypeOK, vars, buffer, catalog
<1> QED
  BY <1>1, <1>2, <1>3, <1>4 DEF Next

(* Every variable and every local keeps its type: no call leaves a part, a *)
(* list or a bitmap of the engine outside what the code's types allow.     *)
THEOREM TypeCorrect == Spec => []TypeOK
BY TypeInit, TypeStep, PTL DEF Spec

-----------------------------------------------------------------------------
(* An id in k's lists belongs to one registered part, and that is a part of*)
(* k: what a call collects by id can only be parts of its own key.         *)
LEMMA ListedIsOwn ==
  ASSUME TypeOK, PartOwnership, NEW k \in Keys, NEW i \in pparts[k] \cup pdeltas[k]
  PROVE  i < nextId /\ \A p \in parts : p.id = i => p.key = k
<1>1. PICK p \in parts : p.id = i /\ p.key = k
  BY DEF PartOwnership, DurableIntegrity, ListedAreRegistered
<1> QED
  BY <1>1 DEF PartOwnership, SpentIds, UniqueIds

(* A step of t that leaves catalog, lock and files alone has only t's own  *)
(* conditions to re-establish.                                             *)
LEMMA LocalStep ==
  ASSUME TypeOK, PartOwnership, NEW t \in Threads, pc[t] # "idle" \/ up,
         UNCHANGED <<up, parts, pparts, pdeltas, nextId, wtxn, disk>>,
         \A u \in Threads \ {t} : loc'[u] = loc[u] /\ pc'[u] = pc[u],
         OpenTxn(t)', CollectsOwnKey(t)', UnlinksUnregistered(t)'
  PROVE  PartOwnership'
<1>1. ASSUME NEW u \in Threads \ {t}
      PROVE  OpenTxn(u)' /\ CollectsOwnKey(u)' /\ UnlinksUnregistered(u)'
  BY <1>1 DEF PartOwnership, OpenTxn, CollectsOwnKey, UnlinksUnregistered
<1>2. up'
  BY DEF PartOwnership
<1>3. DurableIntegrity' /\ SpentIds'
  BY DEF PartOwnership, DurableIntegrity, ListedAreRegistered, Readable, SpentIds
<1> QED
  BY <1>1, <1>2, <1>3 DEF PartOwnership

(* The same when t now runs nothing, or is where no part is at stake.      *)
LEMMA EmptyHanded ==
  ASSUME TypeOK, PartOwnership, NEW t \in Threads, pc[t] # "idle" \/ up,
         UNCHANGED <<up, parts, pparts, pdeltas, nextId, wtxn, disk>>,
         \A u \in Threads \ {t} : loc'[u] = loc[u] /\ pc'[u] = pc[u],
         loc'[t].olds = {}, pc'[t] \notin Superseding
  PROVE  PartOwnership'
<1>1. OpenTxn(t)' /\ CollectsOwnKey(t)' /\ UnlinksUnregistered(t)'
  BY DEF OpenTxn, CollectsOwnKey, UnlinksUnregistered, Superseding
<1> QED
  BY <1>1, LocalStep

(* The same when t goes on holding what it held.                           *)
LEMMA HandsKept ==
  ASSUME TypeOK, PartOwnership, NEW t \in Threads, pc[t] # "idle" \/ up,
         UNCHANGED <<up, parts, pparts, pdeltas, nextId, wtxn, disk>>,
         \A u \in Threads \ {t} : loc'[u] = loc[u] /\ pc'[u] = pc[u],
         pc[t] \notin Superseding, loc'[t].olds = loc[t].olds, pc'[t] \notin Superseding
  PROVE  PartOwnership'
<1>1. UnlinksUnregistered(t)
  BY DEF PartOwnership
<1>2. OpenTxn(t)' /\ CollectsOwnKey(t)' /\ UnlinksUnregistered(t)'
  BY <1>1 DEF OpenTxn, CollectsOwnKey, UnlinksUnregistered, Superseding
<1> QED
  BY <1>2, LocalStep

LEMMA OwnInit == Init => PartOwnership
BY EngineAssumption DEF Init, PartOwnership, DurableIntegrity, ListedAreRegistered, Readable,
  SpentIds, UniqueIds, OpenTxn, CollectsOwnKey, UnlinksUnregistered, Superseding, Collecting, OnlyAdding,
  Blank

-----------------------------------------------------------------------------
(* One lemma per action or group of alike actions.                         *)

(* Calls that start or end holding no part.                                *)
LEMMA EmptyHandedSteps ==
  ASSUME TypeOK, PartOwnership, NEW t \in Threads,
         \/ \E k \in Keys : DeletePeriod(t, k) \/ Get(t, k)
         \/ PutLock(t) \/ PutLockAutoFlush(t) \/ NothingToFlush(t) \/ NotEligible(t)
         \/ MergeFails(t) \/ RebuildFails(t) \/ CallDone(t) \/ GetReturns(t)
         \/ RemoveLock(t) \/ DeleteUnknown(t) \/ DropEvent(t)
  PROVE  PartOwnership'
<1>1. CASE \E k \in Keys : DeletePeriod(t, k)
  <2>1. PICK k \in Keys : DeletePeriod(t, k)
    BY <1>1
  <2>2. loc'[t] = [Blank EXCEPT !.op = "delete", !.key = k, !.bits = {}]
    BY <2>1 DEF DeletePeriod, Call, TypeOK
  <2>3. loc'[t].olds = {}
    BY <2>2 DEF Blank
  <2>4. \A u \in Threads \ {t} : loc'[u] = loc[u] /\ pc'[u] = pc[u]
    BY <1>1 DEF DeletePeriod, Call, Goto, TypeOK
  <2>5. pc'[t] \notin Superseding
    BY <1>1 DEF DeletePeriod, Goto, TypeOK, Superseding, Collecting, OnlyAdding
  <2> QED
    BY <1>1, <2>3, <2>4, <2>5, EmptyHanded DEF DeletePeriod, Starts, catalog
<1>2. CASE \E k \in Keys : Get(t, k)
  <2>1. PICK k \in Keys : Get(t, k)
    BY <1>2
  <2>2. loc'[t] = [Blank EXCEPT !.key = k, !.gotB = mem[k], !.gotD = memDel[k]]
    BY <2>1 DEF Get, TypeOK
  <2>3. loc'[t].olds = {}
    BY <2>2 DEF Blank
  <2>4. \A u \in Threads \ {t} : loc'[u] = loc[u] /\ pc'[u] = pc[u]
    BY <1>2 DEF Get, Goto, TypeOK
  <2>5. pc'[t] \notin Superseding
    BY <1>2 DEF Get, Goto, TypeOK, Superseding, Collecting, OnlyAdding
  <2> QED
    BY <1>2, <2>3, <2>4, <2>5, EmptyHanded DEF Get, Starts, catalog
<1>3. CASE PutLock(t)
  BY <1>3, EmptyHanded DEF PutLock, BufferPut, Return, Goto, Blank, TypeOK, catalog, Superseding, Collecting, OnlyAdding
<1>4. CASE PutLockAutoFlush(t)
  BY <1>4, EmptyHanded DEF PutLockAutoFlush, BufferPut, Goto, Blank, TypeOK, catalog, Superseding, Collecting, OnlyAdding
<1>5. CASE NothingToFlush(t)
  BY <1>5, EmptyHanded DEF NothingToFlush, Return, Goto, Blank, TypeOK, catalog, Superseding, Collecting, OnlyAdding
<1>6. CASE NotEligible(t)
  BY <1>6, EmptyHanded DEF NotEligible, Return, Goto, Blank, TypeOK, catalog, Superseding, Collecting, OnlyAdding
<1>7. CASE MergeFails(t)
  BY <1>7, EmptyHanded DEF MergeFails, Return, Goto, Blank, TypeOK, catalog, Superseding, Collecting, OnlyAdding
<1>8. CASE RebuildFails(t)
  BY <1>8, EmptyHanded DEF RebuildFails, Return, Goto, Blank, TypeOK, catalog, Superseding, Collecting, OnlyAdding
<1>9. CASE CallDone(t)
  BY <1>9, EmptyHanded DEF CallDone, Return, Goto, Blank, TypeOK, catalog, Superseding, Collecting, OnlyAdding
<1>10. CASE GetReturns(t)
  BY <1>10, EmptyHanded DEF GetReturns, Return, Goto, Blank, TypeOK, catalog, Superseding, Collecting, OnlyAdding
<1>11. CASE RemoveLock(t)
  BY <1>11, EmptyHanded DEF RemoveLock, Return, Goto, Blank, TypeOK, catalog, Superseding, Collecting, OnlyAdding
<1>12. CASE DeleteUnknown(t)
  BY <1>12, EmptyHanded DEF DeleteUnknown, Return, Goto, Blank, TypeOK, catalog, Superseding, Collecting, OnlyAdding
<1>13. CASE DropEvent(t)
  <2>1. loc'[t] = [Blank EXCEPT !.op = "drop"]
    BY <1>13 DEF DropEvent, TypeOK
  <2>2. loc'[t].olds = {}
    BY <2>1 DEF Blank
  <2>3. pc'[t] \notin Superseding /\ \A u \in Threads \ {t} : loc'[u] = loc[u] /\ pc'[u] = pc[u]
    BY <1>13 DEF DropEvent, Goto, TypeOK, Superseding, Collecting, OnlyAdding
  <2> QED
    BY <1>13, <2>2, <2>3, EmptyHanded DEF DropEvent, Starts, catalog
<1> QED
  BY <1>1, <1>2, <1>3, <1>4, <1>5, <1>6, <1>7, <1>8, <1>9, <1>10, <1>11, <1>12, <1>13

(* Steps that keep what the thread holds: index builds and reads.          *)
LEMMA HandsKeptSteps ==
  ASSUME TypeOK, PartOwnership, NEW t \in Threads,
         \/ \E k \in Keys : RebuildDataIds(t, k)
         \/ RevertCompacted(t) \/ DeleteKnown(t)
         \/ RebuildList(t) \/ RebuildPart(t) \/ RebuildDeltaIds(t) \/ RebuildKeyDone(t)
         \/ RebuildFold(t) \/ StoreIndex(t)
         \/ CacheHit(t) \/ CacheMiss(t) \/ ReadTxn(t) \/ ReadFiles(t)
  PROVE  PartOwnership'
<1>1. loc[t] \in Locals
  BY DEF TypeOK
<1>2. CASE \E k \in Keys : RebuildDataIds(t, k)
  <2>1. PICK k \in Keys : RebuildDataIds(t, k)
    BY <1>2
  <2>2. loc'[t].olds = loc[t].olds
    BY <1>1, <2>1 DEF RebuildDataIds, TypeOK, Locals
  <2>3. pc[t] \notin Superseding /\ pc[t] # "idle" /\ pc'[t] \notin Superseding
    BY <2>1 DEF RebuildDataIds, Goto, TypeOK, Superseding, Collecting, OnlyAdding
  <2>4. \A u \in Threads \ {t} : loc'[u] = loc[u] /\ pc'[u] = pc[u]
    BY <2>1 DEF RebuildDataIds, Goto, TypeOK
  <2> QED
    BY <2>1, <2>2, <2>3, <2>4, HandsKept DEF RebuildDataIds, catalog
<1>3. CASE RevertCompacted(t)
  BY <1>1, <1>3, HandsKept DEF RevertCompacted, Goto, TypeOK, Locals, catalog, Superseding, Collecting, OnlyAdding
<1>4. CASE RebuildList(t)
  BY <1>1, <1>4, HandsKept DEF RebuildList, Goto, TypeOK, Locals, catalog, Superseding, Collecting, OnlyAdding
<1>5. CASE RebuildPart(t)
  BY <1>1, <1>5, HandsKept, ZenonT(60) DEF RebuildPart, Goto, TypeOK, Locals, catalog, Superseding, Collecting, OnlyAdding
<1>6. CASE RebuildDeltaIds(t)
  BY <1>1, <1>6, HandsKept DEF RebuildDeltaIds, Goto, TypeOK, Locals, catalog, Superseding, Collecting, OnlyAdding
<1>7. CASE RebuildKeyDone(t)
  BY <1>1, <1>7, HandsKept DEF RebuildKeyDone, Goto, TypeOK, Locals, catalog, Superseding, Collecting, OnlyAdding
<1>8. CASE RebuildFold(t)
  BY <1>1, <1>8, HandsKept DEF RebuildFold, Goto, TypeOK, Locals, catalog, Superseding, Collecting, OnlyAdding
<1>9. CASE StoreIndex(t)
  BY <1>1, <1>9, HandsKept DEF StoreIndex, Goto, TypeOK, Locals, catalog, Superseding, Collecting, OnlyAdding
<1>10. CASE CacheHit(t)
  BY <1>1, <1>10, HandsKept DEF CacheHit, Goto, TypeOK, Locals, catalog, Superseding, Collecting, OnlyAdding
<1>11. CASE CacheMiss(t)
  BY <1>1, <1>11, HandsKept DEF CacheMiss, Goto, TypeOK, Locals, catalog, Superseding, Collecting, OnlyAdding
<1>12. CASE ReadTxn(t)
  BY <1>1, <1>12, HandsKept DEF ReadTxn, Goto, TypeOK, Locals, catalog, Superseding, Collecting, OnlyAdding
<1>13. CASE ReadFiles(t)
  BY <1>1, <1>13, HandsKept DEF ReadFiles, Goto, TypeOK, Locals, catalog, Superseding, Collecting, OnlyAdding
<1>14. CASE DeleteKnown(t)
  BY <1>1, <1>14, HandsKept DEF DeleteKnown, Goto, TypeOK, Locals, catalog, Superseding, Collecting, OnlyAdding
<1> QED
  BY <1>2, <1>3, <1>4, <1>5, <1>6, <1>7, <1>8, <1>9, <1>10, <1>11, <1>12, <1>13, <1>14

(* A flush drains the buffer and holds no part until it writes.            *)
LEMMA TakeSnapshotOwn ==
  ASSUME TypeOK, PartOwnership, NEW t \in Threads, TakeSnapshot(t)
  PROVE  PartOwnership'
<1>1. loc'[t] = [Blank EXCEPT !.op = "flush", !.plan = Drained]
  BY DEF TakeSnapshot, TypeOK
<1>2. /\ loc'[t].op = "flush" /\ loc'[t].olds = {} /\ loc'[t].out = {}
      /\ loc'[t].ids = {} /\ loc'[t].dids = {}
  BY <1>1 DEF Blank
<1>3. pc'[t] = "ensure" /\ \A u \in Threads \ {t} : loc'[u] = loc[u] /\ pc'[u] = pc[u]
  BY DEF TakeSnapshot, Goto, TypeOK
<1>4. OpenTxn(t)' /\ CollectsOwnKey(t)' /\ UnlinksUnregistered(t)'
  BY <1>2, <1>3 DEF OpenTxn, CollectsOwnKey, UnlinksUnregistered, Superseding, Collecting, OnlyAdding
<1> QED
  BY <1>3, <1>4, LocalStep DEF TakeSnapshot, Starts, catalog

LEMMA CompactPeriodOwn ==
  ASSUME TypeOK, PartOwnership, NEW t \in Threads, NEW k \in Keys, CompactPeriod(t, k)
  PROVE  PartOwnership'
<1>1. loc'[t] = [Blank EXCEPT !.op = "compact", !.key = k, !.ids = pparts[k]]
  BY DEF CompactPeriod, TypeOK
<1>2. /\ loc'[t].op = "compact" /\ loc'[t].key = k /\ loc'[t].olds = {} /\ loc'[t].out = {}
      /\ loc'[t].ids = pparts[k] /\ loc'[t].dids = {}
  BY <1>1 DEF Blank
<1>3. pc'[t] = "delta_ids" /\ \A u \in Threads \ {t} : loc'[u] = loc[u] /\ pc'[u] = pc[u]
  BY DEF CompactPeriod, Goto, TypeOK
<1>4. UNCHANGED <<up, parts, pparts, pdeltas, nextId, wtxn, disk>>
  BY DEF CompactPeriod, catalog
<1>5. OpenTxn(t)' /\ CollectsOwnKey(t)' /\ UnlinksUnregistered(t)'
  BY <1>2, <1>3, <1>4, ListedIsOwn
     DEF OpenTxn, CollectsOwnKey, UnlinksUnregistered, Superseding, Collecting, OnlyAdding
<1> QED
  BY <1>3, <1>4, <1>5, LocalStep DEF CompactPeriod, Starts

LEMMA CallOnEventOwn ==
  ASSUME TypeOK, PartOwnership, NEW t \in Threads, NEW op \in {"put", "remove", "replace"},
         NEW k \in Keys, NEW b \in SUBSET Ids, CallOnEvent(t, op, k, b)
  PROVE  PartOwnership'
<1>1. loc'[t] = [Blank EXCEPT !.op = op, !.key = k, !.bits = b]
  BY DEF CallOnEvent, Call, TypeOK
<1>2. /\ loc'[t].op = op /\ loc'[t].olds = {} /\ loc'[t].out = {}
      /\ loc'[t].ids = {} /\ loc'[t].dids = {}
  BY <1>1 DEF Blank
<1>3. /\ pc'[t] \in {"ensure", "put_revert", "put_lock", "remove_lock", "replace_lock"}
      /\ pc'[t] = "replace_lock" => op = "replace"
      /\ \A u \in Threads \ {t} : loc'[u] = loc[u] /\ pc'[u] = pc[u]
  BY DEF CallOnEvent, Resume, Call, Goto, TypeOK
<1>4. OpenTxn(t)' /\ CollectsOwnKey(t)' /\ UnlinksUnregistered(t)'
  BY <1>2, <1>3 DEF OpenTxn, CollectsOwnKey, UnlinksUnregistered, Superseding, Collecting, OnlyAdding
<1> QED
  BY <1>3, <1>4, LocalStep DEF CallOnEvent, Starts, catalog

(* A put or a remove has collected no part when it goes on; the other calls*)
(* keep what they have collected.                                          *)
LEMMA EnsureEventOwn ==
  ASSUME TypeOK, PartOwnership, NEW t \in Threads, EnsureEvent(t)
  PROVE  PartOwnership'
<1>1. /\ pc[t] = "ensure" /\ pc'[t] = Resume(loc[t].op, loc[t].key) /\ loc' = loc
      /\ \A u \in Threads \ {t} : pc'[u] = pc[u]
  BY DEF EnsureEvent, Goto, TypeOK
<1>2. UNCHANGED <<up, parts, pparts, pdeltas, nextId, wtxn, disk>>
  BY DEF EnsureEvent
<1>3. OpenTxn(t) /\ CollectsOwnKey(t)
  BY DEF PartOwnership
<1>4. OpenTxn(t)' /\ CollectsOwnKey(t)' /\ UnlinksUnregistered(t)'
  <2>1. CASE loc[t].op \in {"put", "remove"}
    <3>1. loc[t].olds = {}
      BY <1>1, <1>3, <2>1 DEF CollectsOwnKey, Superseding, OnlyAdding
    <3>2. pc'[t] \in {"put_revert", "put_lock", "remove_lock"}
      BY <1>1, <2>1 DEF Resume
    <3> QED
      BY <1>1, <3>1, <3>2
         DEF OpenTxn, CollectsOwnKey, UnlinksUnregistered, Superseding, Collecting, OnlyAdding
  <2>2. CASE loc[t].op = "replace"
    <3>1. pc'[t] = "replace_lock"
      BY <1>1, <2>2 DEF Resume
    <3> QED
      BY <1>1, <1>2, <1>3, <2>2, <3>1
         DEF OpenTxn, CollectsOwnKey, UnlinksUnregistered, Superseding, Collecting, OnlyAdding
  <2>3. CASE loc[t].op \notin {"put", "remove", "replace"}
    <3>1. pc'[t] = "txn"
      BY <1>1, <2>3 DEF Resume
    <3> QED
      BY <1>1, <1>2, <1>3, <2>3, <3>1
         DEF OpenTxn, CollectsOwnKey, UnlinksUnregistered, Superseding, Collecting, OnlyAdding
  <2> QED
    BY <2>1, <2>2, <2>3
<1> QED
  BY <1>1, <1>2, <1>4, LocalStep

LEMMA ReplaceLockOwn ==
  ASSUME TypeOK, PartOwnership, NEW t \in Threads, ReplaceLock(t)
  PROVE  PartOwnership'
<1>1. /\ pc[t] = "replace_lock" /\ pc'[t] = "data_ids" /\ loc' = loc
      /\ \A u \in Threads \ {t} : pc'[u] = pc[u]
  BY DEF ReplaceLock, Goto, TypeOK
<1>2. UNCHANGED <<up, parts, pparts, pdeltas, nextId, wtxn, disk>>
  BY DEF ReplaceLock, catalog
<1>3. CollectsOwnKey(t)
  BY DEF PartOwnership
<1>4. OpenTxn(t)' /\ CollectsOwnKey(t)' /\ UnlinksUnregistered(t)'
  BY <1>1, <1>2, <1>3 DEF OpenTxn, CollectsOwnKey, UnlinksUnregistered, Superseding, Collecting, OnlyAdding
<1> QED
  BY <1>1, <1>2, <1>4, LocalStep

LEMMA CollectDataIdsOwn ==
  ASSUME TypeOK, PartOwnership, NEW t \in Threads, CollectDataIds(t)
  PROVE  PartOwnership'
<1>1. loc[t] \in Locals
  BY DEF TypeOK
<1>2. /\ loc'[t].op = loc[t].op /\ loc'[t].key = loc[t].key /\ loc'[t].olds = loc[t].olds
      /\ loc'[t].out = loc[t].out /\ loc'[t].ids = pparts[loc[t].key]
      /\ loc'[t].dids = loc[t].dids
  BY <1>1 DEF CollectDataIds, TypeOK, Locals
<1>3. pc'[t] = "delta_ids" /\ \A u \in Threads \ {t} : loc'[u] = loc[u] /\ pc'[u] = pc[u]
  BY DEF CollectDataIds, Goto, TypeOK
<1>4. UNCHANGED <<up, parts, pparts, pdeltas, nextId, wtxn, disk>>
  BY DEF CollectDataIds, catalog
<1>5. pc[t] = "data_ids" /\ CollectsOwnKey(t) /\ loc[t].key \in Keys
  BY <1>1, FieldTypes DEF CollectDataIds, PartOwnership
<1>6. OpenTxn(t)' /\ CollectsOwnKey(t)' /\ UnlinksUnregistered(t)'
  BY <1>2, <1>3, <1>4, <1>5, ListedIsOwn
     DEF OpenTxn, CollectsOwnKey, UnlinksUnregistered, Superseding, Collecting, OnlyAdding
<1> QED
  BY <1>3, <1>4, <1>5, <1>6, LocalStep

LEMMA CollectDeltaIdsOwn ==
  ASSUME TypeOK, PartOwnership, NEW t \in Threads, CollectDeltaIds(t)
  PROVE  PartOwnership'
<1>1. loc[t] \in Locals
  BY DEF TypeOK
<1>2. /\ loc'[t].op = loc[t].op /\ loc'[t].key = loc[t].key /\ loc'[t].olds = loc[t].olds
      /\ loc'[t].out = loc[t].out /\ loc'[t].ids = loc[t].ids
      /\ loc'[t].dids = pdeltas[loc[t].key]
  BY <1>1 DEF CollectDeltaIds, TypeOK, Locals
<1>3. pc'[t] = "resolve" /\ \A u \in Threads \ {t} : loc'[u] = loc[u] /\ pc'[u] = pc[u]
  BY DEF CollectDeltaIds, Goto, TypeOK
<1>4. UNCHANGED <<up, parts, pparts, pdeltas, nextId, wtxn, disk>>
  BY DEF CollectDeltaIds, catalog
<1>5. pc[t] = "delta_ids" /\ CollectsOwnKey(t) /\ loc[t].key \in Keys
  BY <1>1, FieldTypes DEF CollectDeltaIds, PartOwnership
<1>6. OpenTxn(t)' /\ CollectsOwnKey(t)' /\ UnlinksUnregistered(t)'
  BY <1>2, <1>3, <1>4, <1>5, ListedIsOwn
     DEF OpenTxn, CollectsOwnKey, UnlinksUnregistered, Superseding, Collecting, OnlyAdding
<1> QED
  BY <1>3, <1>4, <1>5, <1>6, LocalStep

(* A part collected by id is one of the key's own.                         *)
LEMMA CollectPartOwn ==
  ASSUME TypeOK, PartOwnership, NEW t \in Threads, CollectDataPart(t) \/ CollectDeltaPart(t)
  PROVE  PartOwnership'
<1>1. loc[t] \in Locals
  BY DEF TypeOK
<1>2. PICK i \in loc[t].ids \cup loc[t].dids :
        /\ loc'[t].op = loc[t].op /\ loc'[t].key = loc[t].key /\ loc'[t].out = loc[t].out
        /\ loc'[t].ids \subseteq loc[t].ids /\ loc'[t].dids \subseteq loc[t].dids
        /\ loc'[t].olds = loc[t].olds \cup {p \in parts : p.id = i}
  <2>1. CASE CollectDataPart(t)
    <3>1. PICK i \in loc[t].ids :
            loc' = [loc EXCEPT ![t].ids = @ \ {i},
                               ![t].olds = @ \cup {p \in parts : p.id = i}]
      BY <2>1 DEF CollectDataPart
    <3>2. loc'[t].ids = loc[t].ids \ {i} /\ loc'[t].dids = loc[t].dids
      BY <1>1, <3>1 DEF TypeOK, Locals
    <3>3. loc'[t].olds = loc[t].olds \cup {p \in parts : p.id = i}
      BY <1>1, <3>1 DEF TypeOK, Locals
    <3>4. loc'[t].op = loc[t].op /\ loc'[t].key = loc[t].key /\ loc'[t].out = loc[t].out
      BY <1>1, <3>1 DEF TypeOK, Locals
    <3> QED
      BY <3>2, <3>3, <3>4
  <2>2. CASE CollectDeltaPart(t)
    <3>1. PICK i \in loc[t].dids :
            loc' = [loc EXCEPT ![t].dids = @ \ {i},
                               ![t].olds = @ \cup {p \in parts : p.id = i}]
      BY <2>2 DEF CollectDeltaPart
    <3>2. loc'[t].dids = loc[t].dids \ {i} /\ loc'[t].ids = loc[t].ids
      BY <1>1, <3>1 DEF TypeOK, Locals
    <3>3. loc'[t].olds = loc[t].olds \cup {p \in parts : p.id = i}
      BY <1>1, <3>1 DEF TypeOK, Locals
    <3>4. loc'[t].op = loc[t].op /\ loc'[t].key = loc[t].key /\ loc'[t].out = loc[t].out
      BY <1>1, <3>1 DEF TypeOK, Locals
    <3> QED
      BY <3>2, <3>3, <3>4
  <2> QED
    BY <2>1, <2>2
<1>3. /\ pc[t] = "resolve" /\ pc'[t] = "resolve"
      /\ \A u \in Threads \ {t} : loc'[u] = loc[u] /\ pc'[u] = pc[u]
  BY DEF CollectDataPart, CollectDeltaPart, TypeOK
<1>4. UNCHANGED <<up, parts, pparts, pdeltas, nextId, wtxn, disk>>
  BY DEF CollectDataPart, CollectDeltaPart, catalog
<1>5. CollectsOwnKey(t)
  BY DEF PartOwnership
<1>6. \A p \in loc'[t].olds : p.id < nextId /\ p.key = loc[t].key
  BY <1>2, <1>3, <1>5 DEF CollectsOwnKey, Superseding, Collecting, OnlyAdding
<1>7. OpenTxn(t)' /\ CollectsOwnKey(t)' /\ UnlinksUnregistered(t)'
  BY <1>2, <1>3, <1>4, <1>5, <1>6
     DEF OpenTxn, CollectsOwnKey, UnlinksUnregistered, Superseding, Collecting, OnlyAdding
<1> QED
  BY <1>3, <1>4, <1>7, LocalStep

(* What has been collected is merged, or goes to the transaction as it is. *)
LEMMA CollectedOwn ==
  ASSUME TypeOK, PartOwnership, NEW t \in Threads, Collected(t) \/ MergeParts(t)
  PROVE  PartOwnership'
<1>1. loc[t] \in Locals
  BY DEF TypeOK
<1>2. /\ loc'[t].op = loc[t].op /\ loc'[t].key = loc[t].key /\ loc'[t].out = loc[t].out
      /\ loc'[t].ids = loc[t].ids /\ loc'[t].dids = loc[t].dids /\ loc'[t].olds = loc[t].olds
  <2>1. CASE Collected(t)
    BY <2>1 DEF Collected
  <2>2. CASE MergeParts(t)
    BY <1>1, <2>2 DEF MergeParts, TypeOK, Locals
  <2> QED
    BY <2>1, <2>2
<1>3. /\ pc[t] \in {"resolve", "merge"} /\ pc'[t] \in {"merge", "ensure", "txn"}
      /\ \A u \in Threads \ {t} : loc'[u] = loc[u] /\ pc'[u] = pc[u]
  <2>1. CASE Collected(t)
    BY <2>1 DEF Collected, Goto, TypeOK
  <2>2. CASE MergeParts(t)
    BY <2>2 DEF MergeParts, Goto, TypeOK
  <2> QED
    BY <2>1, <2>2
<1>4. UNCHANGED <<up, parts, pparts, pdeltas, nextId, wtxn, disk>>
  BY DEF Collected, MergeParts, catalog
<1>5. CollectsOwnKey(t)
  BY DEF PartOwnership
<1>6. OpenTxn(t)' /\ CollectsOwnKey(t)' /\ UnlinksUnregistered(t)'
  BY <1>2, <1>3, <1>4, <1>5
     DEF OpenTxn, CollectsOwnKey, UnlinksUnregistered, Superseding, Collecting, OnlyAdding
<1> QED
  BY <1>3, <1>4, <1>6, LocalStep

-----------------------------------------------------------------------------
(* Steps that change the catalog, the write lock or the files.             *)

LEMMA BeginTxnOwn ==
  ASSUME TypeOK, PartOwnership, NEW t \in Threads, BeginTxn(t)
  PROVE  PartOwnership'
<1>1. loc[t] \in Locals
  BY DEF TypeOK
<1>2. /\ loc'[t].op = loc[t].op /\ loc'[t].key = loc[t].key /\ loc'[t].out = loc[t].out
      /\ loc'[t].ids = loc[t].ids /\ loc'[t].dids = loc[t].dids /\ loc'[t].olds = loc[t].olds
      /\ loc'[t].nid = nextId
  BY <1>1 DEF BeginTxn, TypeOK, Locals
<1>3. /\ pc[t] = "txn" /\ pc'[t] = "write" /\ wtxn' = t
      /\ \A u \in Threads \ {t} : loc'[u] = loc[u] /\ pc'[u] = pc[u]
  BY DEF BeginTxn, Goto, TypeOK
<1>4. UNCHANGED <<up, parts, pparts, pdeltas, nextId, disk>>
  BY DEF BeginTxn, catalog
<1>5. CollectsOwnKey(t) /\ OpenTxn(t) /\ nextId \in Nat
  BY DEF PartOwnership, TypeOK
<1>6. OpenTxn(t)' /\ CollectsOwnKey(t)' /\ UnlinksUnregistered(t)'
  BY <1>2, <1>3, <1>4, <1>5
     DEF OpenTxn, CollectsOwnKey, UnlinksUnregistered, UniqueIds, Superseding, Collecting, OnlyAdding
<1>7. ASSUME NEW u \in Threads \ {t}
      PROVE  OpenTxn(u)' /\ CollectsOwnKey(u)' /\ UnlinksUnregistered(u)'
  <2>1. OpenTxn(u) /\ CollectsOwnKey(u) /\ UnlinksUnregistered(u) /\ pc[u] # "write"
    BY EngineAssumption DEF PartOwnership, OpenTxn, BeginTxn
  <2> QED
    BY <1>3, <1>4, <2>1 DEF OpenTxn, CollectsOwnKey, UnlinksUnregistered
<1>8. up' /\ DurableIntegrity' /\ SpentIds'
  BY <1>3, <1>4 DEF PartOwnership, DurableIntegrity, ListedAreRegistered, Readable, SpentIds
<1> QED
  BY <1>6, <1>7, <1>8 DEF PartOwnership

(* The new part has an id that no other part has or had.                   *)
LEMMA WritePartOwn ==
  ASSUME TypeOK, PartOwnership, NEW t \in Threads, NEW e \in loc[t].plan, WritePart(t, e)
  PROVE  PartOwnership'
<1> DEFINE p == [id |-> loc[t].nid, kind |-> e.kind, key |-> e.key]
<1>1. loc[t] \in Locals /\ e \in Entry /\ p \in Path
  BY FieldTypes DEF TypeOK, WritePart, Entry, Path
<1>2. /\ loc'[t].op = loc[t].op /\ loc'[t].key = loc[t].key
      /\ loc'[t].ids = loc[t].ids /\ loc'[t].dids = loc[t].dids /\ loc'[t].olds = loc[t].olds
      /\ loc'[t].out = loc[t].out \cup {p} /\ loc'[t].nid = loc[t].nid + 1
  BY <1>1 DEF WritePart, TypeOK, Locals
<1>3. /\ pc[t] = "write" /\ pc' = pc
      /\ \A u \in Threads \ {t} : loc'[u] = loc[u]
  BY DEF WritePart, TypeOK
<1>4. UNCHANGED <<up, parts, pparts, pdeltas, nextId, wtxn>>
  BY DEF WritePart, catalog
<1>5. /\ disk' = [disk EXCEPT ![p] = e.bits] /\ e.bits # Absent
      /\ \A q \in Path : disk[q] # Absent \/ q = p => disk'[q] # Absent
  BY <1>1, EngineAssumption DEF WritePart, Entry, TypeOK
<1>6. CollectsOwnKey(t) /\ OpenTxn(t) /\ nextId \in Nat /\ loc[t].nid \in Nat
  BY <1>1, FieldTypes DEF PartOwnership, TypeOK
<1>7. OpenTxn(t)'
  <2>1. wtxn' = t /\ loc'[t].nid >= nextId
    BY <1>2, <1>3, <1>4, <1>6 DEF OpenTxn
  <2>2. p.id = loc[t].nid /\ \A q \in loc[t].out : q.id \in Nat /\ q.id < p.id
    BY <1>1, <1>3, <1>6, FieldTypes, EngineAssumption DEF OpenTxn, Path
  <2>3. UniqueIds(loc'[t].out)
    <3> HIDE DEF p
    <3> QED
      BY <1>2, <1>3, <1>6, <2>2 DEF OpenTxn, UniqueIds
  <2>4. \A q \in loc'[t].out : disk'[q] # Absent /\ nextId <= q.id /\ q.id < loc'[t].nid
    <3> HIDE DEF p
    <3>1. loc[t].out \subseteq Path
      BY <1>1, FieldTypes
    <3> QED
      BY <1>1, <1>2, <1>3, <1>5, <1>6, <2>2, <3>1 DEF OpenTxn
  <2> QED
    BY <1>3, <1>4, <2>1, <2>3, <2>4 DEF OpenTxn
<1>8. CollectsOwnKey(t)' /\ UnlinksUnregistered(t)'
  BY <1>2, <1>3, <1>4, <1>6
     DEF CollectsOwnKey, UnlinksUnregistered, Superseding, Collecting, OnlyAdding
<1>9. ASSUME NEW u \in Threads \ {t}
      PROVE  OpenTxn(u)' /\ CollectsOwnKey(u)' /\ UnlinksUnregistered(u)'
  <2>1. OpenTxn(u) /\ CollectsOwnKey(u) /\ UnlinksUnregistered(u) /\ pc[u] # "write"
    BY <1>3, <1>6 DEF PartOwnership, OpenTxn
  <2> QED
    BY <1>3, <1>4, <2>1 DEF OpenTxn, CollectsOwnKey, UnlinksUnregistered
<1>10. DurableIntegrity' /\ SpentIds'
  <2> HIDE DEF p
  <2> QED
    BY <1>4, <1>5
       DEF PartOwnership, DurableIntegrity, ListedAreRegistered, Readable, SpentIds, TypeOK
<1>11. up
  BY <1>3 DEF PartOwnership
<1> QED
  BY <1>4, <1>7, <1>8, <1>9, <1>10, <1>11 DEF PartOwnership

(* What a commit does to the catalog, whichever call it belongs to: every  *)
(* thread's collected parts keep their meaning, since the new parts have   *)
(* ids that were not spent.                                                *)
LEMMA CommitOwn ==
  ASSUME TypeOK, PartOwnership, NEW t \in Threads, Commit(t)
  PROVE  PartOwnership'
<1> DEFINE out == loc[t].out
           k == loc[t].key
<1>1. loc[t] \in Locals /\ out \subseteq Path /\ k \in Keys /\ nextId \in Nat
      /\ loc[t].nid \in Nat /\ parts \subseteq Path
  BY FieldTypes DEF TypeOK
<1>2. /\ pc[t] = "write" /\ pc'[t] = "rb_list" /\ loc' = loc
      /\ \A u \in Threads \ {t} : pc'[u] = pc[u]
  BY DEF Commit, Goto, TypeOK
<1>3. up' = up /\ disk' = disk /\ nextId' = loc[t].nid
  BY DEF Commit
<1>4. OpenTxn(t) /\ CollectsOwnKey(t) /\ DurableIntegrity /\ SpentIds
  BY DEF PartOwnership
<1>5. /\ wtxn = t /\ nextId <= loc[t].nid /\ UniqueIds(out)
      /\ \A p \in out : disk[p] # Absent /\ nextId <= p.id /\ p.id < loc[t].nid
  BY <1>2, <1>4 DEF OpenTxn
<1>6. \A p \in Path : p.id \in Nat
  BY EngineAssumption DEF Path
<1>7. parts' \subseteq parts \cup out
  BY DEF Commit, AppendParts, SupersedeParts
<1>8. SpentIds' /\ Readable(parts)'
  <2>1. UniqueIds(parts \cup out)
    BY <1>1, <1>4, <1>5, <1>6 DEF SpentIds, UniqueIds
  <2>2. \A p \in parts \cup out : p.id < loc[t].nid /\ disk[p] # Absent
    BY <1>1, <1>4, <1>5, <1>6 DEF SpentIds, DurableIntegrity, Readable
  <2> QED
    BY <1>3, <1>7, <2>1, <2>2 DEF SpentIds, UniqueIds, Readable
<1>9. \A p \in loc[t].olds : p.id < nextId /\ p.key = k /\ p \notin out
  <2>1. loc[t].olds \subseteq Path
    BY <1>1, FieldTypes
  <2> QED
    BY <1>1, <1>2, <1>4, <1>5, <1>6, <2>1 DEF CollectsOwnKey, Superseding, OnlyAdding
<1>10. \A j \in Keys : OutIds(t, j, "data") = {p.id : p \in {q \in out : q.key = j /\ q.kind = "data"}}
      /\ OutIds(t, j, "delta") = {p.id : p \in {q \in out : q.key = j /\ q.kind = "delta"}}
  BY DEF OutIds
<1>11. \A j \in Keys : /\ \A i \in OutIds(t, j, "data") : [id |-> i, kind |-> "data", key |-> j] \in out
                       /\ \A i \in OutIds(t, j, "delta") : [id |-> i, kind |-> "delta", key |-> j] \in out
  BY <1>1 DEF OutIds, Path
<1>12. ListedAreRegistered' /\ \A p \in loc[t].olds : p \notin parts'
  <2>1. CASE loc[t].op = "flush"
    <3>1. loc[t].olds = {}
      BY <1>2, <1>4, <2>1 DEF CollectsOwnKey, Superseding, OnlyAdding
    <3>2. \A j \in Keys : /\ pparts'[j] = pparts[j] \cup OutIds(t, j, "data")
                          /\ pdeltas'[j] = pdeltas[j] \cup OutIds(t, j, "delta")
      BY <2>1 DEF Commit, AppendParts
    <3>3. parts' = parts \cup out
      BY <2>1 DEF Commit, AppendParts
    <3> HIDE DEF out
    <3> QED
      BY <1>4, <1>11, <3>1, <3>2, <3>3 DEF DurableIntegrity, ListedAreRegistered
  <2>2. CASE loc[t].op # "flush"
    <3>1. parts' = (parts \cup out) \ loc[t].olds
      BY <2>2 DEF Commit, SupersedeParts
    <3>2. pparts'[k] = OutIds(t, k, "data") /\ pdeltas'[k] = {}
      BY <1>1, <2>2 DEF Commit, SupersedeParts, TypeOK
    <3>3. \A j \in Keys \ {k} : pparts'[j] = pparts[j] /\ pdeltas'[j] = pdeltas[j]
      BY <1>1, <2>2 DEF Commit, SupersedeParts, TypeOK
    <3>4. \A i \in pparts'[k] : [id |-> i, kind |-> "data", key |-> k] \in parts'
      <4> HIDE DEF out, k
      <4> QED
        BY <1>1, <1>9, <1>11, <3>1, <3>2
    <3>5. ASSUME NEW j \in Keys \ {k}
          PROVE  /\ \A i \in pparts'[j] : [id |-> i, kind |-> "data", key |-> j] \in parts'
                 /\ \A i \in pdeltas'[j] : [id |-> i, kind |-> "delta", key |-> j] \in parts'
      <4>1. \A i : /\ [id |-> i, kind |-> "data", key |-> j] \notin loc[t].olds
                   /\ [id |-> i, kind |-> "delta", key |-> j] \notin loc[t].olds
        BY <1>9
      <4> HIDE DEF out, k
      <4> QED
        BY <1>4, <3>1, <3>3, <4>1 DEF DurableIntegrity, ListedAreRegistered
    <3> HIDE DEF out, k
    <3> QED
      BY <3>1, <3>2, <3>4, <3>5 DEF ListedAreRegistered
  <2> QED
    BY <2>1, <2>2
<1>13. OpenTxn(t)' /\ CollectsOwnKey(t)' /\ UnlinksUnregistered(t)'
  <2>1. \A p \in loc[t].olds : p.id < loc[t].nid
    <3>1. loc[t].olds \subseteq Path
      BY <1>1, FieldTypes
    <3> QED
      BY <1>1, <1>5, <1>6, <1>9, <3>1
  <2> QED
    BY <1>2, <1>3, <1>12, <2>1
       DEF OpenTxn, CollectsOwnKey, UnlinksUnregistered, Superseding, Collecting, OnlyAdding
<1>14. ASSUME NEW u \in Threads \ {t}
       PROVE  OpenTxn(u)' /\ CollectsOwnKey(u)' /\ UnlinksUnregistered(u)'
  <2>1. OpenTxn(u) /\ CollectsOwnKey(u) /\ UnlinksUnregistered(u) /\ pc[u] # "write"
    BY <1>5 DEF PartOwnership, OpenTxn
  <2>2. loc[u] \in Locals /\ loc[u].olds \subseteq Path
        /\ loc[u].ids \cup loc[u].dids \subseteq Nat
    BY FieldTypes, EngineAssumption DEF TypeOK
  <2>3. CollectsOwnKey(u)'
    <3> HIDE DEF out, k
    <3> QED
      BY <1>1, <1>2, <1>3, <1>5, <1>6, <1>7, <2>1, <2>2 DEF CollectsOwnKey
  <2>4. UnlinksUnregistered(u)'
    <3> HIDE DEF out, k
    <3> QED
      BY <1>1, <1>2, <1>3, <1>5, <1>6, <1>7, <2>1, <2>2 DEF UnlinksUnregistered
  <2> QED
    BY <1>2, <2>1, <2>3, <2>4 DEF OpenTxn
<1>15. up
  BY <1>2 DEF PartOwnership
<1> QED
  BY <1>3, <1>8, <1>12, <1>13, <1>14, <1>15 DEF PartOwnership, DurableIntegrity, Readable

(* The transaction is dropped: its files stay, but nothing refers to them. *)
LEMMA TxnFailsOwn ==
  ASSUME TypeOK, PartOwnership, NEW t \in Threads, TxnFails(t)
  PROVE  PartOwnership'
<1>1. /\ pc[t] = "write" /\ pc'[t] = "idle" /\ loc'[t] = Blank
      /\ \A u \in Threads \ {t} : loc'[u] = loc[u] /\ pc'[u] = pc[u]
  BY DEF TxnFails, Return, Goto, TypeOK
<1>2. UNCHANGED <<up, parts, pparts, pdeltas, nextId, disk>>
  BY DEF TxnFails, catalog
<1>3. Blank.olds = {}
  BY DEF Blank
<1>4. OpenTxn(t)' /\ CollectsOwnKey(t)' /\ UnlinksUnregistered(t)'
  BY <1>1, <1>3 DEF OpenTxn, CollectsOwnKey, UnlinksUnregistered, Superseding, Collecting, OnlyAdding
<1>5. ASSUME NEW u \in Threads \ {t}
      PROVE  OpenTxn(u)' /\ CollectsOwnKey(u)' /\ UnlinksUnregistered(u)'
  <2>1. OpenTxn(u) /\ CollectsOwnKey(u) /\ UnlinksUnregistered(u) /\ OpenTxn(t)
    BY DEF PartOwnership
  <2>2. pc[u] # "write"
    BY <1>1, <2>1 DEF OpenTxn
  <2> QED
    BY <1>1, <1>2, <2>1, <2>2 DEF OpenTxn, CollectsOwnKey, UnlinksUnregistered
<1>6. up' /\ DurableIntegrity' /\ SpentIds'
  BY <1>1, <1>2 DEF PartOwnership, DurableIntegrity, ListedAreRegistered, Readable, SpentIds
<1> QED
  BY <1>4, <1>5, <1>6 DEF PartOwnership

(* Deleting a period unregisters parts of that period only.                *)
LEMMA DeleteTxnOwn ==
  ASSUME TypeOK, PartOwnership, NEW t \in Threads, DeleteTxn(t)
  PROVE  PartOwnership'
<1> DEFINE k == loc[t].key
<1>1. loc[t] \in Locals /\ k \in Keys
  BY FieldTypes DEF TypeOK
<1>2. /\ pc[t] = "delete_txn" /\ pc'[t] = "rb_list" /\ loc'[t].olds = PartsOf(k)
      /\ \A u \in Threads \ {t} : loc'[u] = loc[u] /\ pc'[u] = pc[u]
  BY <1>1 DEF DeleteTxn, Goto, TypeOK, Locals
<1>3. /\ up' = up /\ disk' = disk /\ nextId' = nextId /\ wtxn' = wtxn
      /\ parts' = parts \ PartsOf(k)
  BY DEF DeleteTxn
<1>4. /\ pparts'[k] = {} /\ pdeltas'[k] = {}
      /\ \A j \in Keys \ {k} : pparts'[j] = pparts[j] /\ pdeltas'[j] = pdeltas[j]
  BY <1>1 DEF DeleteTxn, TypeOK
<1>5. \A p \in PartsOf(k) : p \in parts /\ p.key = k /\ p.id < nextId
  BY <1>1, ListedIsOwn DEF PartsOf, PartOwnership, SpentIds
<1>6. ListedAreRegistered'
  <2>1. ASSUME NEW j \in Keys \ {k}
        PROVE  /\ \A i \in pparts'[j] : [id |-> i, kind |-> "data", key |-> j] \in parts'
               /\ \A i \in pdeltas'[j] : [id |-> i, kind |-> "delta", key |-> j] \in parts'
    <3>1. \A i : /\ [id |-> i, kind |-> "data", key |-> j] \notin PartsOf(k)
                 /\ [id |-> i, kind |-> "delta", key |-> j] \notin PartsOf(k)
      BY <1>5
    <3> HIDE DEF k
    <3> QED
      BY <1>3, <1>4, <3>1 DEF PartOwnership, DurableIntegrity, ListedAreRegistered
  <2> HIDE DEF k
  <2> QED
    BY <1>4, <2>1 DEF ListedAreRegistered
<1>7. Readable(parts)' /\ SpentIds'
  BY <1>3 DEF PartOwnership, DurableIntegrity, Readable, SpentIds, UniqueIds
<1>8. OpenTxn(t)' /\ CollectsOwnKey(t)' /\ UnlinksUnregistered(t)'
  BY <1>2, <1>3, <1>5 DEF OpenTxn, CollectsOwnKey, UnlinksUnregistered, Superseding, Collecting, OnlyAdding
<1>9. ASSUME NEW u \in Threads \ {t}
      PROVE  OpenTxn(u)' /\ CollectsOwnKey(u)' /\ UnlinksUnregistered(u)'
  <2>1. OpenTxn(u) /\ CollectsOwnKey(u) /\ UnlinksUnregistered(u)
    BY DEF PartOwnership
  <2> HIDE DEF k
  <2> QED
    BY <1>2, <1>3, <2>1 DEF OpenTxn, CollectsOwnKey, UnlinksUnregistered
<1>10. up
  BY <1>2 DEF PartOwnership
<1> QED
  BY <1>3, <1>6, <1>7, <1>8, <1>9, <1>10 DEF PartOwnership, DurableIntegrity, Readable

(* Dropping the event empties every list, so that none can name one of the *)
(* parts it unregisters.                                                   *)
LEMMA DropTxnOwn ==
  ASSUME TypeOK, PartOwnership, NEW t \in Threads, DropTxn(t)
  PROVE  PartOwnership'
<1>1. loc[t] \in Locals
  BY DEF TypeOK
<1>2. /\ pc[t] = "drop_txn" /\ pc'[t] = "rb_list" /\ loc'[t].olds = EventData
      /\ \A u \in Threads \ {t} : loc'[u] = loc[u] /\ pc'[u] = pc[u]
  BY <1>1 DEF DropTxn, Goto, TypeOK, Locals
<1>3. /\ up' = up /\ disk' = disk /\ nextId' = nextId /\ wtxn' = wtxn
      /\ parts' = parts \ EventData
  BY DEF DropTxn
<1>4. ListedAreRegistered'
  BY DEF DropTxn, ListedAreRegistered
<1>5. \A p \in EventData : p \in parts /\ p.id < nextId
  BY DEF EventData, PartOwnership, SpentIds
<1>6. Readable(parts)' /\ SpentIds'
  BY <1>3 DEF PartOwnership, DurableIntegrity, Readable, SpentIds, UniqueIds
<1>7. OpenTxn(t)' /\ CollectsOwnKey(t)' /\ UnlinksUnregistered(t)'
  BY <1>2, <1>3, <1>5 DEF OpenTxn, CollectsOwnKey, UnlinksUnregistered, Superseding, Collecting, OnlyAdding
<1>8. ASSUME NEW u \in Threads \ {t}
      PROVE  OpenTxn(u)' /\ CollectsOwnKey(u)' /\ UnlinksUnregistered(u)'
  <2>1. OpenTxn(u) /\ CollectsOwnKey(u) /\ UnlinksUnregistered(u)
    BY DEF PartOwnership
  <2> QED
    BY <1>2, <1>3, <2>1 DEF OpenTxn, CollectsOwnKey, UnlinksUnregistered
<1>9. up
  BY <1>2 DEF PartOwnership
<1> QED
  BY <1>3, <1>4, <1>6, <1>7, <1>8, <1>9 DEF PartOwnership, DurableIntegrity, Readable

(* An unlinked part is registered by nobody and of no open transaction.    *)
LEMMA UnlinkPartOwn ==
  ASSUME TypeOK, PartOwnership, NEW t \in Threads, NEW p \in loc[t].olds, UnlinkPart(t, p)
  PROVE  PartOwnership'
<1>1. loc[t] \in Locals /\ p \in Path
  BY FieldTypes DEF TypeOK
<1>2. /\ pc[t] = "unlink" /\ pc' = pc /\ loc'[t].olds = loc[t].olds \ {p}
      /\ \A u \in Threads \ {t} : loc'[u] = loc[u]
  BY <1>1 DEF UnlinkPart, TypeOK, Locals
<1>3. /\ UNCHANGED <<up, parts, pparts, pdeltas, nextId, wtxn>>
      /\ \A q \in Path \ {p} : disk'[q] = disk[q]
  BY DEF UnlinkPart, catalog, TypeOK
<1>4. UnlinksUnregistered(t)
  BY DEF PartOwnership
<1>5. p \notin parts /\ p.id < nextId
  BY <1>2, <1>4 DEF UnlinksUnregistered, Superseding, Collecting, OnlyAdding
<1>6. DurableIntegrity' /\ SpentIds'
  BY <1>3, <1>5
     DEF PartOwnership, DurableIntegrity, ListedAreRegistered, Readable, SpentIds, TypeOK
<1>7. OpenTxn(t)' /\ CollectsOwnKey(t)' /\ UnlinksUnregistered(t)'
  BY <1>2, <1>3, <1>4
     DEF OpenTxn, CollectsOwnKey, UnlinksUnregistered, Superseding, Collecting, OnlyAdding
<1>8. ASSUME NEW u \in Threads \ {t}
      PROVE  OpenTxn(u)' /\ CollectsOwnKey(u)' /\ UnlinksUnregistered(u)'
  <2>1. OpenTxn(u) /\ CollectsOwnKey(u) /\ UnlinksUnregistered(u)
    BY DEF PartOwnership
  <2>2. loc[u].out \subseteq Path /\ nextId \in Nat /\ p.id \in Nat
    BY <1>1, FieldTypes, EngineAssumption DEF TypeOK, Path
  <2>3. pc[u] = "write" => \A q \in loc[u].out : q # p
    BY <1>5, <2>1, <2>2, EngineAssumption DEF OpenTxn, Path
  <2>4. OpenTxn(u)'
    BY <1>2, <1>3, <2>1, <2>2, <2>3 DEF OpenTxn
  <2> QED
    BY <1>2, <1>3, <2>1, <2>4 DEF CollectsOwnKey, UnlinksUnregistered
<1>9. up
  BY <1>2 DEF PartOwnership
<1> QED
  BY <1>3, <1>6, <1>7, <1>8, <1>9 DEF PartOwnership

(* After a crash nothing is held.                                          *)
LEMMA CrashOwn ==
  ASSUME TypeOK, PartOwnership, Crash
  PROVE  PartOwnership'
<1>1. \A t \in Threads : pc'[t] = "idle" /\ loc'[t].olds = {}
  BY DEF Crash, Blank
<1>2. \A t \in Threads : OpenTxn(t)' /\ CollectsOwnKey(t)' /\ UnlinksUnregistered(t)'
  BY <1>1 DEF OpenTxn, CollectsOwnKey, UnlinksUnregistered, Superseding, Collecting, OnlyAdding
<1>3. UNCHANGED <<parts, pparts, pdeltas, nextId, disk>>
  BY DEF Crash, catalog
<1>4. DurableIntegrity' /\ SpentIds'
  BY <1>3 DEF PartOwnership, DurableIntegrity, ListedAreRegistered, Readable, SpentIds
<1> QED
  BY <1>1, <1>2, <1>4 DEF PartOwnership

(* An orphan's id is registered nowhere, and no thread runs.               *)
LEMMA RecoverOwn ==
  ASSUME TypeOK, PartOwnership, Recover
  PROVE  PartOwnership'
<1>1. ~up /\ UNCHANGED <<parts, pparts, pdeltas, nextId, wtxn, pc, loc>>
  BY DEF Recover, DeleteOrphan, Open, catalog
<1>2. \A q \in parts : disk'[q] = disk[q]
  BY DEF Recover, DeleteOrphan, Open, Orphans, TypeOK
<1>3. DurableIntegrity' /\ SpentIds'
  BY <1>1, <1>2 DEF PartOwnership, DurableIntegrity, ListedAreRegistered, Readable, SpentIds
<1>4. \A t \in Threads : OpenTxn(t)' /\ CollectsOwnKey(t)' /\ UnlinksUnregistered(t)'
  BY <1>1 DEF PartOwnership, OpenTxn, CollectsOwnKey, UnlinksUnregistered, Superseding, Collecting, OnlyAdding
<1>5. \A t \in Threads : pc'[t] = "idle"
  BY <1>1 DEF PartOwnership
<1> QED
  BY <1>3, <1>4, <1>5 DEF PartOwnership

-----------------------------------------------------------------------------
LEMMA OwnStep == TypeOK /\ PartOwnership /\ [Next]_vars => PartOwnership'
<1> SUFFICES ASSUME TypeOK, PartOwnership, [Next]_vars PROVE PartOwnership'
  OBVIOUS
<1>1. ASSUME NEW t \in Threads, Internal(t) PROVE PartOwnership'
  <2>1. CASE EnsureEvent(t) \/ RevertCompacted(t) \/ NothingToFlush(t) \/ Read(t)
    BY <2>1, EnsureEventOwn, EmptyHandedSteps, HandsKeptSteps DEF Read
  <2>2. CASE TakeSnapshot(t) \/ StartCall(t)
    BY <2>2, TakeSnapshotOwn, CompactPeriodOwn, CallOnEventOwn
       DEF StartCall, PutBitmap, RemoveBits, ReplaceBitmap, Bitmaps
  <2>3. CASE Collect(t)
    BY <2>3, CollectDataIdsOwn, CollectDeltaIdsOwn, CollectPartOwn, CollectedOwn,
       EmptyHandedSteps DEF Collect
  <2>4. CASE Transact(t)
    BY <2>4, BeginTxnOwn, WritePartOwn, CommitOwn, TxnFailsOwn, DeleteTxnOwn, DropTxnOwn,
       EmptyHandedSteps, HandsKeptSteps DEF Transact
  <2>5. CASE Rebuild(t)
    BY <2>5, HandsKeptSteps, EmptyHandedSteps, UnlinkPartOwn DEF Rebuild
  <2> QED
    BY <1>1, <2>1, <2>2, <2>3, <2>4, <2>5 DEF Internal
<1>2. ASSUME NEW t \in Threads, Update(t) \/ StartGet(t) PROVE PartOwnership'
  BY <1>2, EmptyHandedSteps, ReplaceLockOwn DEF Update, StartGet
<1>3. CASE Crash
  BY <1>3, CrashOwn
<1>4. CASE Recover
  BY <1>4, RecoverOwn
<1>5. CASE UNCHANGED vars
  BY <1>5 DEF vars, catalog, PartOwnership, DurableIntegrity, ListedAreRegistered, Readable,
     SpentIds, OpenTxn, CollectsOwnKey, UnlinksUnregistered
<1> QED
  BY <1>1, <1>2, <1>3, <1>4, <1>5 DEF Next

(* A part file belongs to the catalog, to the one open transaction, or to  *)
(* the thread that will unlink it: for any number of threads running any   *)
(* calls, with failing writes and crashes.                                 *)
THEOREM Ownership == Spec => []PartOwnership
<1>1. TypeOK /\ PartOwnership /\ [Next]_vars => (TypeOK /\ PartOwnership)'
  BY TypeStep, OwnStep
<1> QED
  BY <1>1, TypeInit, OwnInit, PTL DEF Spec

(* The catalog never refers to a vanished part file: what a period lists is*)
(* registered and what is registered is on disk, at every moment.          *)
THEOREM Integrity == Spec => []DurableIntegrity
<1>1. PartOwnership => DurableIntegrity
  BY DEF PartOwnership
<1> QED
  BY <1>1, Ownership, PTL
=============================================================================
