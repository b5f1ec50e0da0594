--------------------------- MODULE EntitiesProofs ---------------------------
(***************************************************************************)
(* Entities for any names, keys, ids and threads.  The two tables of the   *)
(* dictionary stay inverse, an id never gets a second name, and so no bit  *)
(* ever resolves to an entity that was not put where the bit is.  While    *)
(* flushes do not overlap, calls that have the store to themselves answer  *)
(* exactly and erase completely.                                           *)
(***************************************************************************)
EXTENDS EntitiesHistory, FiniteSetTheorems, TLAPS

-----------------------------------------------------------------------------
(* Types.                                                                  *)

LEMMA BlankType == Blank \in Locals
BY DEF Blank, Locals, Ops, NoBits, Bitmaps

LEMMA FieldTypes ==
  ASSUME NEW l \in Locals
  PROVE  /\ l.op \in Ops /\ l.names \in SUBSET Names /\ l.keys \in SUBSET Keys
         /\ l.found \in SUBSET Keys /\ l.ids \in SUBSET Ids /\ l.dels \in SUBSET Ids
         /\ l.yes \in BOOLEAN /\ l.bits \in Bitmaps /\ l.minus \in Bitmaps
         /\ l.events \in SUBSET Events /\ l.built \in [Keys -> SUBSET Names]
BY DEF Locals

(* Assigning values of their types to locals leaves them typed.            *)
LEMMA LocalsUpdated ==
  ASSUME NEW l \in Locals
  PROVE  /\ \A I \in SUBSET Ids :
              /\ [l EXCEPT !.ids = I] \in Locals
              /\ \A K \in SUBSET Keys : [l EXCEPT !.ids = I, !.found = K] \in Locals
              /\ \A K, L \in SUBSET Keys :
                   [l EXCEPT !.found = K, !.keys = L, !.ids = I] \in Locals
         /\ \A K \in SUBSET Keys : [l EXCEPT !.found = K] \in Locals
         /\ \A N \in SUBSET Names : [l EXCEPT !.names = N] \in Locals
         /\ \A b \in BOOLEAN : [l EXCEPT !.yes = b] \in Locals
         /\ \A B \in Bitmaps, E \in SUBSET Events :
              /\ [l EXCEPT !.bits = B, !.events = E] \in Locals
              /\ \A C \in Bitmaps :
                   [l EXCEPT !.bits = B, !.minus = C, !.events = E] \in Locals
         /\ \A F \in [Keys -> SUBSET Names] : [l EXCEPT !.built = F] \in Locals
BY DEF Locals

(* The locals with which the calls begin.                                  *)
LEMMA CallTypes ==
  ASSUME NEW op \in Ops, NEW K \in SUBSET Keys, NEW N \in SUBSET Names, NEW I \in SUBSET Ids
  PROVE  /\ [Blank EXCEPT !.op = op, !.keys = K, !.names = N] \in Locals
         /\ [Blank EXCEPT !.op = op, !.keys = K, !.names = N, !.ids = I] \in Locals
         /\ [Blank EXCEPT !.op = op, !.keys = K, !.ids = I] \in Locals
         /\ \A b \in BOOLEAN :
              [Blank EXCEPT !.op = op, !.keys = K, !.names = N, !.yes = b] \in Locals
         /\ \A J \in SUBSET Ids :
              [Blank EXCEPT !.op = op, !.keys = K, !.ids = I, !.dels = J] \in Locals
         /\ \A B, C \in Bitmaps : [Blank EXCEPT !.op = op, !.bits = B, !.minus = C] \in Locals
BY BlankType DEF Locals

LEMMA ResolvedType ==
  ASSUME fwd \in [Names -> Ids \cup {NoId}], NEW N \in SUBSET Names
  PROVE  Resolved(N) \in SUBSET Ids
BY DEF Resolved

LEMMA NamesAtType ==
  ASSUME rev \in [Ids -> Names \cup {NoName}], NEW B \in Bitmaps
  PROVE  NamesAt(B) \in [Keys -> SUBSET Names]
BY DEF NamesAt, Bitmaps

LEMMA TypeInit == Init => TypeOK
<1> SUFFICES ASSUME Init PROVE TypeOK
  OBVIOUS
<1>1. nextId \in 0 .. LastId + 1
  BY EntitiesAssumption DEF Init
<1>2. pc \in [Threads -> Labels] /\ loc \in [Threads -> Locals]
  BY BlankType DEF Init, Labels
<1> QED
  BY <1>1, <1>2 DEF Init, TypeOK, NoBits, Bitmaps

(* A step that only moves its thread on.                                   *)
LEMMA MoveType ==
  ASSUME TypeOK, NEW t \in Threads, NEW m \in Locals, NEW l \in Labels,
         loc' = [loc EXCEPT ![t] = m], Goto(t, l),
         UNCHANGED <<mode, dict, events, stored, buffer, index>>
  PROVE  TypeOK'
BY DEF TypeOK, Goto, dict, buffer, index

(* What an assignment does to the tables: the names without an id get the  *)
(* next ids, each its own, and nothing else changes.                       *)
LEMMA AssignedTables ==
  ASSUME TypeOK, NEW t \in Threads, AssignIds(t)
  PROVE  \E F \in SUBSET loc[t].names : \E f \in [F -> Ids] :
           /\ \A x \in F : f[x] >= nextId /\ f[x] < nextId'
           /\ Injective(f)
           /\ F = {x \in loc[t].names : fwd[x] = NoId}
           /\ fwd' = [x \in Names |-> IF x \in F THEN f[x] ELSE fwd[x]]
           /\ rev' = [i \in Ids |-> IF \E x \in F : f[x] = i
                                    THEN CHOOSE x \in F : f[x] = i ELSE rev[i]]
           /\ nextId' \in nextId .. LastId + 1
<1> DEFINE fresh == {x \in loc[t].names : fwd[x] = NoId}
<1>1. fresh \subseteq Names /\ fresh \in SUBSET loc[t].names
  BY FieldTypes DEF TypeOK
<1>2. Cardinality(fresh) \in Nat
  BY <1>1, EntitiesAssumption, FS_Subset, FS_CardinalityType
<1>3. Assign(t, fresh)
  BY DEF AssignIds
<1> HIDE DEF fresh
<1>4. nextId' = nextId + Cardinality(fresh) /\ nextId' \in nextId .. LastId + 1
  BY <1>2, <1>3, EntitiesAssumption DEF TypeOK, Assign, Fits
<1>5. PICK f \in [fresh -> nextId .. (nextId + Cardinality(fresh)) - 1] :
        /\ Injective(f)
        /\ fwd' = [x \in Names |-> IF x \in fresh THEN f[x] ELSE fwd[x]]
        /\ rev' = [i \in Ids |-> IF \E x \in fresh : f[x] = i
                                 THEN CHOOSE x \in fresh : f[x] = i ELSE rev[i]]
  BY <1>3, Zenon DEF Assign
<1>6. \A x \in fresh : f[x] \in Ids /\ f[x] >= nextId /\ f[x] < nextId'
  BY <1>4, <1>5, EntitiesAssumption DEF Ids, TypeOK
<1>7. f \in [fresh -> Ids]
  BY <1>5, <1>6
<1> QED
  BY <1>1, <1>4, <1>5, <1>6, <1>7 DEF fresh

LEMMA AssignIdsType ==
  ASSUME TypeOK, NEW t \in Threads, AssignIds(t)
  PROVE  TypeOK'
<1> DEFINE F == {x \in loc[t].names : fwd[x] = NoId}
<1>1. PICK f \in [F -> Ids] :
        /\ fwd' = [x \in Names |-> IF x \in F THEN f[x] ELSE fwd[x]]
        /\ rev' = [i \in Ids |-> IF \E x \in F : f[x] = i
                                 THEN CHOOSE x \in F : f[x] = i ELSE rev[i]]
        /\ nextId' \in nextId .. LastId + 1
  BY AssignedTables, SMTT(30)
<1>2. loc[t] \in Locals /\ loc[t].names \subseteq Names /\ loc[t].ids \subseteq Ids
  BY FieldTypes DEF TypeOK
<1>3. fwd' \in [Names -> Ids \cup {NoId}] /\ \A x \in loc[t].names : fwd'[x] \in Ids
  BY <1>1, <1>2 DEF TypeOK
<1>4. \A i \in Ids : (\E x \in F : f[x] = i) => (CHOOSE x \in F : f[x] = i) \in Names
  BY <1>2
<1>5. rev' \in [Ids -> Names \cup {NoName}]
  BY <1>1, <1>4 DEF TypeOK
<1>6. nextId' \in 0 .. LastId + 1
  BY <1>1 DEF TypeOK
<1>7. loc[t].ids \cup {fwd'[x] : x \in loc[t].names} \in SUBSET Ids
  BY <1>2, <1>3
<1>8. loc' \in [Threads -> Locals]
  BY <1>2, <1>7, LocalsUpdated DEF TypeOK, AssignIds, Assign
<1>9. pc' \in [Threads -> Labels]
  BY DEF TypeOK, AssignIds, Assign, Goto, Labels
<1> QED
  BY <1>3, <1>5, <1>6, <1>8, <1>9 DEF TypeOK, AssignIds, Assign, buffer, index

LEMMA PutIdsType ==
  ASSUME TypeOK, NEW t \in Threads, NEW k \in Keys, NEW N \in SUBSET Names, PutIds(t, k, N)
  PROVE  TypeOK'
<1>1. Resolved(N) \in SUBSET Ids
  BY ResolvedType DEF TypeOK
<1>2. [Blank EXCEPT !.op = "put", !.keys = {k}, !.names = {x \in N : fwd[x] = NoId},
                    !.ids = Resolved(N)] \in Locals
  BY <1>1, BlankType DEF Ops, Locals
<1> QED
  BY <1>2, MoveType DEF PutIds, Labels

LEMMA StartTypes ==
  ASSUME TypeOK, NEW t \in Threads, NEW k \in Keys, NEW x \in Names,
         RemoveIds(t, k, x) \/ ContainsIndexed(t, k, x) \/ ContainsBit(t, k, x)
  PROVE  TypeOK'
<1>1. Resolved({x}) \in SUBSET Ids
  BY ResolvedType DEF TypeOK
<1>2. CASE RemoveIds(t, k, x)
  <2>1. [Blank EXCEPT !.op = "remove", !.keys = {k}, !.ids = Resolved({x})] \in Locals
    BY <1>1, BlankType DEF Ops, Locals
  <2> QED
    BY <2>1, <1>2, MoveType DEF RemoveIds, Labels
<1>3. CASE ContainsIndexed(t, k, x)
  <2>1. \A b \in BOOLEAN :
          [Blank EXCEPT !.op = "contains", !.keys = {k}, !.names = {x}, !.yes = b] \in Locals
    <3>1. "contains" \in Ops /\ {k} \in SUBSET Keys /\ {x} \in SUBSET Names /\ {} \in SUBSET Ids
      BY DEF Ops
    <3> QED
      BY <3>1, CallTypes, Zenon
  <2>2. (x \in frozen[k]) \in BOOLEAN
    OBVIOUS
  <2>3. [Blank EXCEPT !.op = "contains", !.keys = {k}, !.names = {x},
                      !.yes = x \in frozen[k]] \in Locals
    BY <2>1, <2>2, Zenon
  <2> QED
    BY <2>3, <1>3, MoveType DEF ContainsIndexed, Labels
<1>4. CASE ContainsBit(t, k, x)
  <2>1. [Blank EXCEPT !.op = "contains", !.keys = {k}, !.names = {x},
                      !.ids = Resolved({x})] \in Locals
    BY <1>1, BlankType DEF Ops, Locals
  <2> QED
    BY <2>1, <1>4, MoveType DEF ContainsBit, Labels
<1> QED
  BY <1>2, <1>3, <1>4

LEMMA FindMembershipsType ==
  ASSUME TypeOK, NEW t \in Threads, NEW x \in Names, FindMemberships(t, x)
  PROVE  TypeOK'
<1>1. \A op \in Ops : [Blank EXCEPT !.op = op, !.keys = {}, !.names = {x}] \in Locals
  BY CallTypes, ZenonT(60)
<1> QED
  BY <1>1, MoveType DEF FindMemberships, Call, Ops, Labels

LEMMA GetIdsType ==
  ASSUME TypeOK, NEW t \in Threads, NEW k \in Keys, GetIds(t, k)
  PROVE  TypeOK'
<1>1. mem[k] \in SUBSET Ids /\ memDel[k] \in SUBSET Ids
  BY DEF TypeOK, Bitmaps
<1>2. [Blank EXCEPT !.op = "get", !.keys = {k}, !.ids = mem[k],
                    !.dels = memDel[k]] \in Locals
  BY <1>1, BlankType DEF Ops, Locals
<1> QED
  BY <1>2, MoveType DEF GetIds, Labels

LEMMA FlushType ==
  ASSUME TypeOK, NEW t \in Threads, Flush(t)
  PROVE  TypeOK'
<1>1. [Blank EXCEPT !.op = "flush", !.bits = mem, !.minus = memDel] \in Locals
  BY CallTypes DEF TypeOK, Ops
<1> QED
  BY <1>1 DEF TypeOK, Flush, Goto, Labels, NoBits, Bitmaps, dict, index

LEMMA FoundType ==
  ASSUME TypeOK, NEW t \in Threads, NEW K \in SUBSET Keys, Found(t, K)
  PROVE  TypeOK'
<1>1. [loc[t] EXCEPT !.found = K] \in Locals
  BY LocalsUpdated DEF TypeOK
<1>2. \E l \in Labels : Goto(t, l)
  BY DEF Found, Labels
<1> QED
  BY <1>1, <1>2, MoveType DEF Found

LEMMA FindTypes ==
  ASSUME TypeOK, NEW t \in Threads,
         \/ FilteredOut(t) \/ FindInIndex(t) \/ FindBuffer(t) \/ FindGone(t) \/ FindCheck(t)
         \/ FindTombstones(t) \/ FindLoad(t) \/ FindNothing(t) \/ FindId(t) \/ FindOverlay(t)
  PROVE  TypeOK'
<1>1. loc[t] \in Locals /\ Resolved(loc[t].names) \in SUBSET Ids /\ loc[t].found \in SUBSET Keys
  BY FieldTypes, ResolvedType DEF TypeOK
<1>2. CASE FilteredOut(t) \/ FindGone(t) \/ FindNothing(t)
  BY <1>2, FoundType DEF FilteredOut, FindGone, FindNothing
<1>3. CASE FindTombstones(t) \/ FindOverlay(t)
  <2>1. loc[t].found \ Holding(memDel, loc[t].ids) \in SUBSET Keys
    BY <1>1
  <2>2. (loc[t].found \cup (InEvents(t) \cap Buffered(loc[t].ids)))
           \ Holding(memDel, loc[t].ids) \in SUBSET Keys
    BY <1>1 DEF InEvents
  <2> QED
    BY <2>1, <2>2, <1>3, FoundType DEF FindTombstones, FindOverlay
<1>4. CASE FindInIndex(t)
  <2>1. [loc[t] EXCEPT !.found = IndexedKeys(loc[t].names)] \in Locals
    BY <1>1, LocalsUpdated DEF IndexedKeys
  <2> QED
    BY <2>1, <1>4, MoveType DEF FindInIndex, Labels
<1>5. CASE FindBuffer(t)
  <2>1. loc[t].found \cup Buffered(Resolved(loc[t].names)) \in SUBSET Keys
    BY <1>1 DEF Buffered
  <2>2. [loc[t] EXCEPT !.found = @ \cup Buffered(Resolved(loc[t].names))] \in Locals
    BY <2>1, <1>1, LocalsUpdated
  <2> QED
    BY <2>2, <1>5, MoveType DEF FindBuffer, Labels
<1>6. CASE FindCheck(t)
  <2>1. [loc[t] EXCEPT !.ids = Resolved(loc[t].names)] \in Locals
    BY <1>1, LocalsUpdated
  <2> QED
    BY <2>1, <1>6, MoveType DEF FindCheck, Labels
<1>7. CASE FindLoad(t)
  <2>1. [loc[t] EXCEPT !.bits = cache, !.events = known] \in Locals
    BY <1>1, LocalsUpdated DEF TypeOK
  <2> QED
    BY <2>1, <1>7, MoveType DEF FindLoad, Labels
<1>8. CASE FindId(t)
  <2>1. InEvents(t) \cap Holding(loc[t].bits, Resolved(loc[t].names)) \in SUBSET Keys
    BY DEF InEvents
  <2>2. [loc[t] EXCEPT !.ids = Resolved(loc[t].names),
                       !.found = InEvents(t)
                         \cap Holding(loc[t].bits, Resolved(loc[t].names))] \in Locals
    BY <1>1, <2>1, LocalsUpdated
  <2> QED
    BY <2>2, <1>8, MoveType DEF FindId, Labels
<1> QED
  BY <1>2, <1>3, <1>4, <1>5, <1>6, <1>7, <1>8

LEMMA AnswerType ==
  ASSUME TypeOK, NEW t \in Threads, NEW b \in BOOLEAN, Answer(t, b)
  PROVE  TypeOK'
<1>1. [loc[t] EXCEPT !.yes = b] \in Locals
  BY LocalsUpdated DEF TypeOK
<1> QED
  BY <1>1, MoveType DEF Answer, Labels

LEMMA ContainsTypes ==
  ASSUME TypeOK, NEW t \in Threads,
         \/ ContainsGone(t) \/ ContainsLookup(t) \/ ContainsBuffer(t)
         \/ BitBuffered(t) \/ BitBuffer(t) \/ BitCache(t) \/ BitTombstone(t)
  PROVE  TypeOK'
<1>1. loc[t] \in Locals /\ Resolved(loc[t].names) \in SUBSET Ids
  BY FieldTypes, ResolvedType DEF TypeOK
<1>2. CASE ContainsGone(t) \/ BitBuffered(t)
  BY <1>2, AnswerType DEF ContainsGone, BitBuffered
<1>3. CASE ContainsLookup(t)
  <2>1. [loc[t] EXCEPT !.ids = Resolved(loc[t].names)] \in Locals
    BY <1>1, LocalsUpdated
  <2> QED
    BY <2>1, <1>3, MoveType DEF ContainsLookup, Labels
<1>4. CASE ContainsBuffer(t)
  <2>1. (IF loc[t].yes THEN loc[t].keys \cap Holding(memDel, loc[t].ids) = {}
         ELSE loc[t].keys \cap Buffered(loc[t].ids) # {}) \in BOOLEAN
    OBVIOUS
  <2> QED
    BY <2>1, <1>4, AnswerType, Zenon DEF ContainsBuffer
<1>5. CASE BitTombstone(t)
  <2>1. (loc[t].keys \cap Holding(memDel, loc[t].ids) = {}) \in BOOLEAN
    OBVIOUS
  <2> QED
    BY <2>1, <1>5, AnswerType, Zenon DEF BitTombstone
<1>6. CASE BitBuffer(t) \/ (BitCache(t) /\ ~Answer(t, FALSE))
  BY <1>6 DEF TypeOK, BitBuffer, BitCache, Goto, Labels, dict, buffer, index
<1>7. CASE Answer(t, FALSE)
  BY <1>7, AnswerType
<1> QED
  BY <1>2, <1>3, <1>4, <1>5, <1>6, <1>7

LEMMA ReturnType ==
  ASSUME TypeOK, NEW t \in Threads, Return(t),
         UNCHANGED <<mode, dict, events, stored, buffer, index>>
  PROVE  TypeOK'
BY BlankType, MoveType DEF Return, Labels

LEMMA BufferTypes ==
  ASSUME TypeOK, NEW t \in Threads,
         EnsureEvent(t) \/ PutLock(t) \/ RemoveLock(t) \/ AssignFails(t) \/ Done(t)
  PROVE  TypeOK'
<1>1. loc[t].ids \in SUBSET Ids /\ loc[t].keys \in SUBSET Keys
  BY FieldTypes DEF TypeOK
<1>2. CASE EnsureEvent(t)
  <2>1. events' \subseteq Events
    BY <1>1, <1>2, EntitiesAssumption DEF EnsureEvent, TypeOK
  <2> QED
    BY <2>1, <1>2 DEF TypeOK, EnsureEvent, Goto, Labels, dict, buffer, index
<1>3. CASE PutLock(t)
  <2>1. mem' \in Bitmaps /\ memDel' \in Bitmaps
    BY <1>1, <1>3 DEF PutLock, TypeOK, Bitmaps
  <2> QED
    BY <2>1, <1>3, BlankType DEF TypeOK, PutLock, Return, Goto, Labels, dict, index
<1>4. CASE RemoveLock(t)
  <2>1. memDel' \in Bitmaps
    BY <1>1, <1>4 DEF RemoveLock, TypeOK, Bitmaps
  <2> QED
    BY <2>1, <1>4, BlankType DEF TypeOK, RemoveLock, Return, Goto, Labels, dict, index
<1>5. CASE AssignFails(t) \/ Done(t)
  BY <1>5, ReturnType DEF AssignFails, Done
<1> QED
  BY <1>2, <1>3, <1>4, <1>5

LEMMA EraseTypes ==
  ASSUME TypeOK, NEW t \in Threads, EraseNext(t) \/ EraseDict(t)
  PROVE  TypeOK'
<1>1. loc[t] \in Locals /\ Resolved(loc[t].names) \in SUBSET Ids /\ loc[t].found \in SUBSET Keys
  BY FieldTypes, ResolvedType DEF TypeOK
<1>2. CASE EraseNext(t)
  <2>1. PICK k \in loc[t].found :
          IF Resolved(loc[t].names) = {}
          THEN loc' = [loc EXCEPT ![t].found = @ \ {k}] /\ UNCHANGED pc
          ELSE /\ loc' = [loc EXCEPT ![t].found = @ \ {k}, ![t].keys = {k},
                                     ![t].ids = Resolved(loc[t].names)]
               /\ Goto(t, "ensure")
    BY <1>2 DEF EraseNext
  <2>2. loc[t].found \ {k} \in SUBSET Keys /\ {k} \in SUBSET Keys
    BY <1>1
  <2>3. /\ [loc[t] EXCEPT !.found = @ \ {k}] \in Locals
        /\ [loc[t] EXCEPT !.found = @ \ {k}, !.keys = {k},
                          !.ids = Resolved(loc[t].names)] \in Locals
    BY <1>1, <2>2, LocalsUpdated
  <2> QED
    BY <1>2, <2>1, <2>3
    DEF TypeOK, EraseNext, Goto, Labels, dict, buffer, index
<1>3. CASE EraseDict(t)
  <2>1. [loc[t] EXCEPT !.ids = Resolved(loc[t].names)] \in Locals
    BY <1>1, LocalsUpdated
  <2> QED
    BY <2>1, <1>3 DEF TypeOK, EraseDict, Forget, Goto, Labels, buffer, index
<1> QED
  BY <1>2, <1>3

LEMMA GetTypes ==
  ASSUME TypeOK, NEW t \in Threads, GetBits(t) \/ GetNames(t)
  PROVE  TypeOK'
<1>1. loc[t] \in Locals /\ loc[t].ids \in SUBSET Ids /\ loc[t].keys \in SUBSET Keys
  BY FieldTypes DEF TypeOK
<1>2. CASE GetBits(t)
  <2>1. PICK k \in loc[t].keys : \E b \in {cache[k], stored[k]} :
          loc' = [loc EXCEPT ![t].ids = (b \cup @) \ loc[t].dels]
    BY <1>2 DEF GetBits
  <2>2. PICK b \in SUBSET Ids : loc' = [loc EXCEPT ![t].ids = (b \cup @) \ loc[t].dels]
    BY <1>1, <2>1 DEF TypeOK, Bitmaps
  <2>3. (b \cup loc[t].ids) \ loc[t].dels \in SUBSET Ids
    BY <1>1
  <2>4. [loc[t] EXCEPT !.ids = (b \cup @) \ loc[t].dels] \in Locals
    BY <1>1, <2>3, LocalsUpdated
  <2> QED
    BY <1>2, <2>2, <2>4, MoveType DEF GetBits, Labels
<1>3. CASE GetNames(t)
  <2>1. {rev[i] : i \in loc[t].ids} \ {NoName} \in SUBSET Names
    BY <1>1 DEF TypeOK
  <2>2. [loc[t] EXCEPT !.names = {rev[i] : i \in loc[t].ids} \ {NoName}] \in Locals
    BY <1>1, <2>1, LocalsUpdated
  <2> QED
    BY <1>3, <2>2, MoveType DEF GetNames, Labels
<1> QED
  BY <1>2, <1>3

LEMMA FlushTypes ==
  ASSUME TypeOK, NEW t \in Threads,
         Commit(t) \/ BuildIndex(t) \/ StoreIndex(t) \/ ResolveAll(t) \/ StoreInverted(t)
  PROVE  TypeOK'
<1>1. /\ loc[t] \in Locals
      /\ loc[t].bits \in Bitmaps /\ loc[t].minus \in Bitmaps /\ NoBits \in Bitmaps
      /\ loc[t].events \subseteq Events /\ loc[t].built \in [Keys -> SUBSET Names]
  BY FieldTypes DEF TypeOK, NoBits, Bitmaps
<1>2. CASE Commit(t)
  <2>1. stored' \in Bitmaps
    BY <1>1, <1>2 DEF Commit, TypeOK, Bitmaps
  <2> QED
    BY <2>1, <1>2 DEF TypeOK, Commit, Goto, Labels, dict, buffer, index
<1>3. CASE BuildIndex(t)
  <2>1. [loc[t] EXCEPT !.bits = stored, !.minus = NoBits, !.events = events] \in Locals
    BY <1>1, LocalsUpdated DEF TypeOK
  <2> QED
    BY <2>1, <1>3, MoveType DEF BuildIndex, Labels
<1>4. CASE StoreIndex(t)
  BY <1>1, <1>4, BlankType DEF TypeOK, StoreIndex, Return, Goto, Labels, dict, buffer
<1>5. CASE ResolveAll(t)
  <2>1. [loc[t] EXCEPT !.built = NamesAt(cache)] \in Locals
    BY <1>1, NamesAtType, LocalsUpdated DEF TypeOK
  <2> QED
    BY <2>1, <1>5, MoveType DEF ResolveAll, Labels
<1>6. CASE StoreInverted(t)
  BY <1>1, <1>6, BlankType DEF TypeOK, StoreInverted, Return, Goto, Labels, dict, buffer
<1> QED
  BY <1>2, <1>3, <1>4, <1>5, <1>6

LEMMA CrashType ==
  ASSUME TypeOK, CrashAndOpen
  PROVE  TypeOK'
<1>1. frozen' \in [Keys -> SUBSET Names]
  BY NamesAtType DEF TypeOK, CrashAndOpen
<1>2. NoBits \in Bitmaps
  BY DEF NoBits, Bitmaps
<1> QED
  BY <1>1, <1>2, BlankType DEF TypeOK, CrashAndOpen, Labels, dict

LEMMA StepTypes ==
  ASSUME TypeOK, NEW t \in Threads, Step(t)
  PROVE  TypeOK'
BY AssignIdsType, BufferTypes, StartTypes, FindMembershipsType, FindTypes, EraseTypes,
   ContainsTypes, GetIdsType, GetTypes, FlushType, FlushTypes DEF Step

LEMMA TypeStep == TypeOK /\ [Next]_vars => TypeOK'
<1> SUFFICES ASSUME TypeOK, [Next]_vars PROVE TypeOK'
  OBVIOUS
<1>1. CASE UNCHANGED vars
  BY <1>1 DEF TypeOK, vars, dict, buffer, index
<1>2. ASSUME NEW t \in Threads, StartPut(t) PROVE TypeOK'
  BY <1>2, PutIdsType DEF StartPut
<1> QED
  BY <1>1, <1>2, StepTypes, CrashType DEF Next

(* Every variable keeps its type; in particular the id counter never       *)
(* passes u32::MAX + 1, where batch_assign_or_get refuses.                 *)
THEOREM TypeCorrect == Spec => []TypeOK
BY TypeInit, TypeStep, PTL DEF Spec

-----------------------------------------------------------------------------
(* The dictionary.                                                         *)

(* Only an assignment and a deletion write the dictionary.                 *)
LEMMA WhoWritesDict ==
  ASSUME [Next]_vars
  PROVE  (\E t \in Threads : AssignIds(t) \/ EraseDict(t)) \/ UNCHANGED dict
<1>1. CASE UNCHANGED vars
  BY <1>1 DEF vars
<1>2. ASSUME NEW t \in Threads, StartPut(t) PROVE UNCHANGED dict
  BY <1>2 DEF StartPut, PutIds
<1>3. ASSUME NEW t \in Threads, Step(t) PROVE AssignIds(t) \/ EraseDict(t) \/ UNCHANGED dict
  <2>1. CASE AssignFails(t) \/ EnsureEvent(t) \/ PutLock(t) \/ RemoveLock(t) \/ Done(t)
    BY <2>1 DEF AssignFails, EnsureEvent, PutLock, RemoveLock, Done
  <2>2. ASSUME NEW k \in Keys, NEW x \in Names,
               RemoveIds(t, k, x) \/ ContainsIndexed(t, k, x) \/ ContainsBit(t, k, x)
        PROVE  UNCHANGED dict
    BY <2>2 DEF RemoveIds, ContainsIndexed, ContainsBit
  <2>3. ASSUME NEW x \in Names, FindMemberships(t, x) PROVE UNCHANGED dict
    BY <2>3 DEF FindMemberships
  <2>4. CASE FilteredOut(t) \/ FindInIndex(t) \/ FindBuffer(t) \/ FindGone(t) \/ FindCheck(t)
               \/ FindTombstones(t) \/ FindLoad(t) \/ FindNothing(t) \/ FindId(t)
               \/ FindOverlay(t) \/ EraseNext(t)
    BY <2>4 DEF FilteredOut, FindInIndex, FindBuffer, FindGone, FindCheck, FindTombstones,
                FindLoad, FindNothing, FindId, FindOverlay, EraseNext, Found
  <2>5. CASE ContainsGone(t) \/ ContainsLookup(t) \/ ContainsBuffer(t)
               \/ BitBuffered(t) \/ BitBuffer(t) \/ BitCache(t) \/ BitTombstone(t)
    BY <2>5 DEF ContainsGone, ContainsLookup, ContainsBuffer, BitBuffered, BitBuffer,
                BitCache, BitTombstone, Answer
  <2>6. ASSUME NEW k \in Keys, GetIds(t, k) PROVE UNCHANGED dict
    BY <2>6 DEF GetIds
  <2>7. CASE GetBits(t) \/ GetNames(t) \/ Flush(t) \/ Commit(t) \/ BuildIndex(t)
               \/ StoreIndex(t) \/ ResolveAll(t) \/ StoreInverted(t)
    BY <2>7 DEF GetBits, GetNames, Flush, Commit, BuildIndex, StoreIndex, ResolveAll,
                StoreInverted
  <2> QED
    BY <1>3, <2>1, <2>2, <2>3, <2>4, <2>5, <2>6, <2>7 DEF Step
<1>4. CrashAndOpen => UNCHANGED dict
  BY DEF CrashAndOpen
<1> QED
  BY <1>1, <1>2, <1>3, <1>4 DEF Next

(* What the names that get an id, and the ids, find in the new tables.     *)
LEMMA AssignedBijective ==
  ASSUME TypeOK, DictBijective, NEW t \in Threads, AssignIds(t)
  PROVE  /\ DictBijective'
         /\ nextId' >= nextId
         /\ \A i \in Ids : i < nextId => rev'[i] = rev[i]
         /\ \A x \in loc[t].names : fwd'[x] # NoId
         /\ \A x \in Names : fwd[x] # NoId => fwd'[x] = fwd[x]
<1>1. PICK F \in SUBSET loc[t].names : \E f \in [F -> Ids] :
        /\ \A x \in F : f[x] >= nextId /\ f[x] < nextId'
        /\ Injective(f)
        /\ F = {x \in loc[t].names : fwd[x] = NoId}
        /\ fwd' = [x \in Names |-> IF x \in F THEN f[x] ELSE fwd[x]]
        /\ rev' = [i \in Ids |-> IF \E x \in F : f[x] = i
                                 THEN CHOOSE x \in F : f[x] = i ELSE rev[i]]
        /\ nextId' \in nextId .. LastId + 1
  BY AssignedTables
<1>2. PICK f \in [F -> Ids] :
        /\ \A x \in F : f[x] >= nextId /\ f[x] < nextId'
        /\ Injective(f)
        /\ F = {x \in loc[t].names : fwd[x] = NoId}
        /\ fwd' = [x \in Names |-> IF x \in F THEN f[x] ELSE fwd[x]]
        /\ rev' = [i \in Ids |-> IF \E x \in F : f[x] = i
                                 THEN CHOOSE x \in F : f[x] = i ELSE rev[i]]
        /\ nextId' \in nextId .. LastId + 1
  BY <1>1
<1>3. /\ loc[t].names \subseteq Names /\ nextId \in Int /\ nextId' \in Int
      /\ \A i \in Ids : i \in Int /\ i # NoId
      /\ \A x \in Names : fwd[x] \in Ids \/ fwd[x] = NoId
  BY <1>2, FieldTypes, EntitiesAssumption DEF TypeOK, Ids, NoId
<1>4. \A x \in F : rev'[f[x]] = x
  <2> SUFFICES ASSUME NEW x \in F PROVE rev'[f[x]] = x
    OBVIOUS
  <2>1. f[x] \in Ids /\ rev'[f[x]] = CHOOSE y \in F : f[y] = f[x]
    BY <1>2
  <2>2. \A y \in F : f[y] = f[x] => y = x
    BY <1>2 DEF Injective
  <2> QED
    BY <2>1, <2>2
<1>5. \A i \in Ids : (\A x \in F : f[x] # i) => rev'[i] = rev[i]
  BY <1>2
<1>6. \A i \in Ids : i < nextId => rev'[i] = rev[i]
  BY <1>2, <1>3, <1>5
<1>7. \A x \in Names : IF x \in F THEN fwd'[x] = f[x] ELSE fwd'[x] = fwd[x]
  BY <1>2
<1>8. \A x \in Names : fwd[x] # NoId => x \notin F /\ fwd[x] < nextId /\ fwd[x] \in Ids
  BY <1>2, <1>3, EntitiesAssumption DEF DictBijective
<1>9. \A x \in loc[t].names : fwd'[x] # NoId
  BY <1>2, <1>3, <1>7
<1>10. ASSUME NEW x \in Names, fwd'[x] # NoId PROVE rev'[fwd'[x]] = x
  BY <1>3, <1>4, <1>6, <1>7, <1>8, <1>10 DEF DictBijective
<1>11. ASSUME NEW i \in Ids, rev'[i] # NoName PROVE fwd'[rev'[i]] = i /\ i < nextId'
  <2>1. CASE \E x \in F : f[x] = i
    BY <2>1, <1>2, <1>3, <1>4, <1>7
  <2>2. CASE \A x \in F : f[x] # i
    <3>1. rev'[i] = rev[i] /\ rev[i] \in Names /\ fwd[rev[i]] = i /\ i < nextId
      BY <2>2, <1>5, <1>11 DEF TypeOK, DictBijective
    <3> QED
      BY <3>1, <1>2, <1>3, <1>7, <1>8
  <2> QED
    BY <2>1, <2>2
<1>12. nextId' >= nextId
  BY <1>2, <1>3
<1>13. DictBijective'
  BY <1>10, <1>11 DEF DictBijective
<1>14. \A x \in Names : fwd[x] # NoId => fwd'[x] = fwd[x]
  BY <1>7, <1>8
<1> QED
  BY <1>6, <1>9, <1>12, <1>13, <1>14

(* A deleted name takes its id out of both tables.                         *)
LEMMA ErasedBijective ==
  ASSUME TypeOK, DictBijective, NEW t \in Threads, EraseDict(t)
  PROVE  DictBijective' /\ nextId' = nextId /\ \A i \in Ids : rev'[i] \in {rev[i], NoName}
<1> DEFINE N == loc[t].names
           I == Resolved(N)
<1>1. /\ fwd' = [x \in Names |-> IF x \in N THEN NoId ELSE fwd[x]]
      /\ rev' = [i \in Ids |-> IF i \in I THEN NoName ELSE rev[i]]
      /\ nextId' = nextId
  BY DEF EraseDict, Forget
<1>2. \A i \in I : \E y \in N : y \in Names /\ fwd[y] = i /\ fwd[y] # NoId
  BY FieldTypes DEF Resolved, TypeOK
<1>3. \A y \in N : fwd[y] # NoId => fwd[y] \in I
  BY DEF Resolved
<1> HIDE DEF N, I
<1>4. ASSUME NEW x \in Names, fwd'[x] # NoId PROVE rev'[fwd'[x]] = x
  <2>1. x \notin N /\ fwd'[x] = fwd[x] /\ fwd[x] \in Ids /\ rev[fwd[x]] = x
    BY <1>1, <1>4 DEF TypeOK, DictBijective
  <2>2. fwd[x] \notin I
    BY <2>1, <1>2 DEF DictBijective
  <2> QED
    BY <2>1, <2>2, <1>1
<1>5. ASSUME NEW i \in Ids, rev'[i] # NoName PROVE fwd'[rev'[i]] = i /\ i < nextId'
  <2>1. i \notin I /\ rev'[i] = rev[i] /\ rev[i] \in Names /\ fwd[rev[i]] = i /\ i < nextId
    BY <1>1, <1>5 DEF TypeOK, DictBijective
  <2>2. i # NoId
    BY EntitiesAssumption DEF Ids, NoId
  <2> QED
    BY <2>1, <2>2, <1>1, <1>3
<1> QED
  BY <1>1, <1>4, <1>5 DEF DictBijective

LEMMA DictStep ==
  ASSUME TypeOK, DictBijective, [Next]_vars
  PROVE  /\ DictBijective'
         /\ nextId' >= nextId
         /\ \A i \in Ids : i < nextId => rev'[i] \in {rev[i], NoName}
<1>1. nextId \in Int
  BY EntitiesAssumption DEF TypeOK
<1>2. CASE UNCHANGED dict
  BY <1>1, <1>2 DEF dict, DictBijective
<1>3. ASSUME NEW t \in Threads, AssignIds(t)
      PROVE  /\ DictBijective' /\ nextId' >= nextId
             /\ \A i \in Ids : i < nextId => rev'[i] \in {rev[i], NoName}
  BY <1>3, AssignedBijective
<1>4. ASSUME NEW t \in Threads, EraseDict(t)
      PROVE  /\ DictBijective' /\ nextId' >= nextId
             /\ \A i \in Ids : i < nextId => rev'[i] \in {rev[i], NoName}
  BY <1>1, <1>4, ErasedBijective
<1> QED
  BY <1>2, <1>3, <1>4, WhoWritesDict

LEMMA DictInit == Init => DictBijective
BY DEF Init, DictBijective

(* The forward and the reverse table stay inverse to each other, and every *)
(* id from the counter on stays free, for any number of writers that race  *)
(* to assign and to delete the same names.                                 *)
THEOREM Bijective == Spec => []DictBijective
<1>1. TypeOK /\ DictBijective /\ [Next]_vars => DictBijective'
  BY DictStep
<1> QED
  BY DictInit, TypeCorrect, <1>1, PTL DEF Spec

(* An id that was given once never gets another name.                      *)
THEOREM NoIdReused == Spec => FreedIdsStayFree
<1>1. TypeOK /\ DictBijective /\ [Next]_vars =>
        [nextId' >= nextId /\ \A i \in Ids : i < nextId => rev'[i] \in {rev[i], NoName}]_vars
  BY DictStep
<1> QED
  BY TypeCorrect, Bijective, <1>1, PTL DEF Spec, FreedIdsStayFree

-----------------------------------------------------------------------------
(* Bits and the names they resolve to.                                     *)

(* The history variables do not restrict the steps.                        *)
LEMMA HistoryFollows == HSpec => Spec
<1>1. HInit => Init
  BY DEF HInit
<1>2. [HNext]_hvars => [Next]_vars
  BY DEF HNext, HPut, HStep, HCrash, StartPut, Next, hvars
<1> QED
  BY <1>1, <1>2, PTL DEF HSpec, Spec

(* What a step may do to the meaning of bits that are in place.            *)
Monotone ==
  /\ nextId' >= nextId
  /\ \A i \in Ids : i < nextId => rev'[i] \in {rev[i], NoName}
  /\ \A k \in Keys : putTo[k] \subseteq putTo'[k]

OwnedNext(k, I) == \A i \in I : i < nextId' /\ rev'[i] \in putTo'[k] \cup {NoName}

LEMMA StaysOwned ==
  ASSUME TypeOK, TypeOK', Monotone, NEW k \in Keys, NEW I \in SUBSET Ids, Owned(k, I)
  PROVE  OwnedNext(k, I)
<1> SUFFICES ASSUME NEW i \in I PROVE i < nextId' /\ rev'[i] \in putTo'[k] \cup {NoName}
  BY DEF OwnedNext
<1>1. i \in Ids /\ i \in Int /\ nextId \in Int /\ nextId' \in Int /\ i < nextId
  BY EntitiesAssumption DEF TypeOK, Ids, Owned
<1> QED
  BY <1>1 DEF Monotone, Owned

LEMMA PutToStep ==
  ASSUME BitsOwned, [HNext]_hvars
  PROVE  /\ putTo' \in [Keys -> SUBSET Names]
         /\ \A k \in Keys : putTo[k] \subseteq putTo'[k]
<1>1. CASE UNCHANGED putTo
  BY <1>1 DEF BitsOwned
<1>2. ASSUME NEW t \in Threads, HPut(t)
      PROVE  /\ putTo' \in [Keys -> SUBSET Names]
             /\ \A k \in Keys : putTo[k] \subseteq putTo'[k]
  BY <1>2 DEF HPut, BitsOwned
<1> QED
  BY <1>1, <1>2 DEF HNext, HStep, HCrash, hvars, history

LEMMA MonotoneStep ==
  ASSUME TypeOK, DictBijective, BitsOwned, [HNext]_hvars
  PROVE  Monotone
<1>1. [Next]_vars
  BY DEF HNext, HPut, HStep, HCrash, StartPut, Next, hvars
<1> QED
  BY <1>1, DictStep, PutToStep DEF Monotone

(* A thread whose place and locals a step leaves alone.                    *)
LEMMA OtherCarries ==
  ASSUME TypeOK, TypeOK', Monotone, NEW u \in Threads, CarriesOwned(u),
         loc'[u] = loc[u], pc'[u] = pc[u]
  PROVE  CarriesOwned(u)'
<1>1. loc[u].bits \in Bitmaps /\ loc[u].ids \in SUBSET Ids /\ loc[u].keys \in SUBSET Keys
  BY FieldTypes DEF TypeOK
<1>2. \A k \in Keys : OwnedNext(k, loc'[u].bits[k])
  BY <1>1, StaysOwned DEF CarriesOwned, Bitmaps
<1>3. loc[u].op \in {"put", "get"} =>
        \A k \in loc[u].keys : loc[u].keys = {k} /\ OwnedNext(k, loc'[u].ids)
  BY <1>1, StaysOwned DEF CarriesOwned
<1>4. pc[u] = "assign" \/ (pc[u] = "answered" /\ loc[u].op = "get") =>
        \A k \in loc[u].keys : loc[u].names \subseteq putTo'[k]
  BY <1>1 DEF CarriesOwned, Monotone
<1> QED
  BY <1>2, <1>3, <1>4 DEF CarriesOwned, Owned, OwnedNext

(* The same of a thread that goes on with its call, its ids and names.     *)
LEMMA GoesOn ==
  ASSUME TypeOK, TypeOK', Monotone, NEW u \in Threads, CarriesOwned(u),
         loc'[u].op = loc[u].op,
         loc[u].op \in {"put", "get"} => loc'[u].keys = loc[u].keys /\ loc'[u].ids = loc[u].ids,
         \A k \in Keys : Owned(k, loc'[u].bits[k]),
         pc'[u] \notin {"assign", "put_lock", "get_bits", "get_names"},
         pc'[u] = "answered" => loc[u].op # "get",
         pc'[u] \in Asking => loc[u].op \notin {"put", "get"}
  PROVE  CarriesOwned(u)'
<1>1. /\ loc'[u].bits \in Bitmaps /\ loc[u].ids \in SUBSET Ids
      /\ loc[u].keys \in SUBSET Keys
  BY FieldTypes DEF TypeOK
<1>2. \A k \in Keys : OwnedNext(k, loc'[u].bits[k])
  BY <1>1, StaysOwned DEF Bitmaps
<1>3. loc[u].op \in {"put", "get"} =>
        \A k \in loc[u].keys : loc[u].keys = {k} /\ OwnedNext(k, loc'[u].ids)
  BY <1>1, StaysOwned DEF CarriesOwned
<1> QED
  BY <1>2, <1>3 DEF CarriesOwned, Owned, OwnedNext

LEMMA BlankCarries ==
  ASSUME NEW u \in Threads, loc'[u] = Blank, pc'[u] = "idle"
  PROVE  CarriesOwned(u)'
BY DEF CarriesOwned, Owned, Blank, NoBits, Asking

(* The calls that only ask, and delete_entity between its removals.        *)
LEMMA AskingCarries ==
  ASSUME TypeOK, TypeOK', Monotone, BitsOwned, NEW t \in Threads,
         \/ FilteredOut(t) \/ FindInIndex(t) \/ FindBuffer(t) \/ FindGone(t) \/ FindCheck(t)
         \/ FindTombstones(t) \/ FindLoad(t) \/ FindNothing(t) \/ FindId(t) \/ FindOverlay(t)
         \/ EraseNext(t) \/ EraseDict(t)
         \/ ContainsGone(t) \/ ContainsLookup(t) \/ ContainsBuffer(t)
         \/ BitBuffered(t) \/ BitBuffer(t) \/ BitCache(t) \/ BitTombstone(t)
  PROVE  CarriesOwned(t)'
<1> DEFINE Next1 == Asking \cup {"answered", "ensure"}
<1>1. loc \in [Threads -> Locals] /\ pc \in [Threads -> Labels] /\ loc[t] \in Locals
  BY DEF TypeOK
<1>2. /\ pc[t] \in Asking /\ pc'[t] \in Next1
      /\ loc'[t].op = loc[t].op
      /\ loc'[t].bits = loc[t].bits \/ loc'[t].bits = cache
  <2>1. CASE FilteredOut(t) \/ FindInIndex(t) \/ FindBuffer(t) \/ FindGone(t) \/ FindCheck(t)
    BY <2>1, <1>1 DEF FilteredOut, FindInIndex, FindBuffer, FindGone, FindCheck, Found, Goto,
                      Asking, Locals
  <2>2. CASE FindTombstones(t) \/ FindLoad(t) \/ FindNothing(t) \/ FindId(t) \/ FindOverlay(t)
    BY <2>2, <1>1 DEF FindTombstones, FindLoad, FindNothing, FindId, FindOverlay, Found, Goto,
                      Asking, Locals
  <2>3. CASE EraseNext(t)
    <3>1. PICK k \in loc[t].found :
            IF Resolved(loc[t].names) = {}
            THEN loc' = [loc EXCEPT ![t].found = @ \ {k}] /\ UNCHANGED pc
            ELSE /\ loc' = [loc EXCEPT ![t].found = @ \ {k}, ![t].keys = {k},
                                       ![t].ids = Resolved(loc[t].names)]
                 /\ Goto(t, "ensure")
      BY <2>3 DEF EraseNext
    <3>2. loc'[t].op = loc[t].op /\ loc'[t].bits = loc[t].bits
      BY <3>1, <1>1 DEF Locals
    <3>3. pc[t] = "erase_next" /\ pc'[t] \in {"erase_next", "ensure"}
      BY <2>3, <3>1, <1>1 DEF EraseNext, Goto
    <3> QED
      BY <3>2, <3>3 DEF Asking
  <2>4. CASE EraseDict(t)
    BY <2>4, <1>1 DEF EraseDict, Forget, Goto, Asking, Locals
  <2>5. CASE ContainsGone(t) \/ ContainsLookup(t) \/ ContainsBuffer(t) \/ BitBuffered(t)
    BY <2>5, <1>1 DEF ContainsGone, ContainsLookup, ContainsBuffer, BitBuffered, Answer, Goto,
                      Asking, Locals
  <2>6. CASE BitBuffer(t) \/ BitCache(t) \/ BitTombstone(t)
    BY <2>6, <1>1 DEF BitBuffer, BitCache, BitTombstone, Answer, Goto, Asking, Locals
  <2> QED
    BY <2>1, <2>2, <2>3, <2>4, <2>5, <2>6
<1>3. CarriesOwned(t) /\ loc[t].op \notin {"put", "get"}
  BY <1>2 DEF BitsOwned, CarriesOwned
<1>4. \A k \in Keys : Owned(k, loc'[t].bits[k])
  BY <1>2, <1>3 DEF BitsOwned, CarriesOwned
<1> QED
  BY <1>2, <1>3, <1>4, GoesOn DEF Asking

(* Calls that begin without any bits.                                      *)
LEMMA StartCarries ==
  ASSUME TypeOK, NEW t \in Threads, NEW k \in Keys, NEW x \in Names,
         RemoveIds(t, k, x) \/ ContainsIndexed(t, k, x) \/ ContainsBit(t, k, x)
  PROVE  CarriesOwned(t)'
<1>1. loc'[t].bits = NoBits /\ loc'[t].op \in {"remove", "contains"}
  <2>1. CASE RemoveIds(t, k, x)
    BY <2>1 DEF TypeOK, RemoveIds, Blank
  <2>3. CASE ContainsBit(t, k, x)
    <3>1. loc'[t] = [Blank EXCEPT !.op = "contains", !.keys = {k}, !.names = {x},
                                  !.ids = Resolved({x})]
      BY <2>3, Zenon DEF TypeOK, ContainsBit
    <3> QED
      BY <3>1 DEF Blank
  <2>2. CASE ContainsIndexed(t, k, x)
    <3>1. loc'[t] = [Blank EXCEPT !.op = "contains", !.keys = {k}, !.names = {x},
                                  !.yes = x \in frozen[k]]
      BY <2>2, Zenon DEF TypeOK, ContainsIndexed
    <3>2. \A b : LET l == [Blank EXCEPT !.op = "contains", !.keys = {k}, !.names = {x},
                                        !.yes = b]
                 IN l.bits = NoBits /\ l.op = "contains"
      BY DEF Blank
    <3> QED
      BY <3>1, <3>2, Zenon
  <2> QED
    BY <2>1, <2>2, <2>3
<1>2. pc'[t] \in {"ensure", "answered", "contains_id", "bit_buffer"}
  BY DEF TypeOK, RemoveIds, ContainsIndexed, ContainsBit, Goto
<1> QED
  BY <1>1, <1>2 DEF CarriesOwned, Owned, NoBits, Asking

LEMMA FindMembershipsCarries ==
  ASSUME TypeOK, NEW t \in Threads, NEW x \in Names, FindMemberships(t, x)
  PROVE  CarriesOwned(t)'
<1>1. loc'[t].bits = NoBits /\ loc'[t].op \in {"find", "erase"} /\ pc'[t] = "find"
  BY DEF TypeOK, FindMemberships, Call, Goto, Blank
<1> QED
  BY <1>1 DEF CarriesOwned, Owned, NoBits, Asking

LEMMA PutIdsCarries ==
  ASSUME TypeOK, DictBijective, BitsOwned, NEW t \in Threads, NEW k \in Keys,
         NEW N \in SUBSET Names, PutIds(t, k, N), putTo' = [putTo EXCEPT ![k] = @ \cup N]
  PROVE  CarriesOwned(t)'
<1>1. /\ loc'[t].bits = NoBits /\ loc'[t].op = "put" /\ loc'[t].keys = {k}
      /\ loc'[t].names \subseteq N /\ loc'[t].ids = Resolved(N)
      /\ pc'[t] \in {"assign", "ensure"}
  BY DEF TypeOK, PutIds, Goto, Blank
<1>2. N \subseteq putTo'[k]
  BY DEF BitsOwned
<1>3. UNCHANGED <<rev, nextId>>
  BY DEF PutIds, dict
<1>4. \A i \in Resolved(N) : i < nextId /\ rev[i] \in N
  <2> SUFFICES ASSUME NEW x \in N, fwd[x] # NoId
               PROVE  fwd[x] < nextId /\ rev[fwd[x]] = x
    BY DEF Resolved
  <2>1. x \in Names /\ fwd[x] \in Ids /\ x # NoName
    BY EntitiesAssumption DEF TypeOK
  <2> QED
    BY <2>1 DEF DictBijective
<1> QED
  BY <1>1, <1>2, <1>3, <1>4 DEF CarriesOwned, Owned, NoBits, Asking

LEMMA AssignIdsCarries ==
  ASSUME TypeOK, TypeOK', Monotone, DictBijective, BitsOwned, NEW t \in Threads,
         AssignIds(t), UNCHANGED putTo
  PROVE  CarriesOwned(t)'
<1>1. loc[t] \in Locals /\ loc[t].bits \in Bitmaps /\ loc[t].ids \in SUBSET Ids
      /\ loc[t].keys \in SUBSET Keys /\ loc[t].names \in SUBSET Names
  BY FieldTypes DEF TypeOK
<1>2. /\ pc[t] = "assign" /\ pc'[t] = "ensure"
      /\ loc'[t] = [loc[t] EXCEPT !.ids = @ \cup {fwd'[x] : x \in loc[t].names}]
  BY DEF TypeOK, AssignIds, Assign, Goto
<1>3. /\ loc'[t].bits = loc[t].bits /\ loc'[t].op = loc[t].op /\ loc'[t].keys = loc[t].keys
      /\ loc'[t].ids = loc[t].ids \cup {fwd'[x] : x \in loc[t].names}
  BY <1>1, <1>2 DEF Locals
<1>4. /\ loc[t].op = "put"
      /\ \A k \in loc[t].keys : loc[t].keys = {k} /\ Owned(k, loc[t].ids)
                                /\ loc[t].names \subseteq putTo[k]
  BY <1>2 DEF BitsOwned, CarriesOwned
<1>5. \A x \in loc[t].names : fwd'[x] < nextId' /\ rev'[fwd'[x]] = x
  <2> SUFFICES ASSUME NEW x \in loc[t].names PROVE fwd'[x] < nextId' /\ rev'[fwd'[x]] = x
    OBVIOUS
  <2>1. DictBijective' /\ fwd'[x] # NoId
    BY AssignedBijective
  <2>2. x \in Names /\ x # NoName /\ fwd'[x] \in Ids
    BY <1>1, <2>1, EntitiesAssumption DEF TypeOK
  <2> QED
    BY <2>1, <2>2 DEF DictBijective
<1>6. ASSUME NEW k \in loc[t].keys PROVE loc'[t].keys = {k} /\ OwnedNext(k, loc'[t].ids)
  <2>1. OwnedNext(k, loc[t].ids)
    BY <1>1, <1>4, StaysOwned
  <2>2. \A x \in loc[t].names : x \in putTo'[k]
    BY <1>4
  <2> QED
    BY <1>3, <1>4, <1>5, <2>1, <2>2 DEF OwnedNext
<1>7. \A k \in Keys : OwnedNext(k, loc'[t].bits[k])
  BY <1>1, <1>3, StaysOwned DEF BitsOwned, CarriesOwned, Bitmaps
<1> QED
  BY <1>2, <1>3, <1>4, <1>6, <1>7 DEF CarriesOwned, Owned, OwnedNext, Asking

LEMMA BufferCarries ==
  ASSUME TypeOK, TypeOK', Monotone, BitsOwned, NEW t \in Threads,
         EnsureEvent(t) \/ PutLock(t) \/ RemoveLock(t) \/ AssignFails(t) \/ Done(t)
  PROVE  CarriesOwned(t)'
<1>1. CASE Return(t)
  BY <1>1, BlankCarries DEF Return, Goto, TypeOK
<1>2. CASE EnsureEvent(t)
  <2>1. loc' = loc /\ pc'[t] = IF loc[t].op = "put" THEN "put_lock" ELSE "remove_lock"
    BY <1>2 DEF EnsureEvent, Goto, TypeOK
  <2>2. CASE pc'[t] = "remove_lock"
    BY <2>1, <2>2, GoesOn DEF BitsOwned, CarriesOwned, Asking
  <2>3. CASE loc[t].op = "put" /\ pc'[t] = "put_lock"
    <3>1. loc[t].bits \in Bitmaps /\ loc[t].ids \in SUBSET Ids /\ loc[t].keys \in SUBSET Keys
      BY FieldTypes DEF TypeOK
    <3>2. \A k \in Keys : OwnedNext(k, loc'[t].bits[k])
      BY <2>1, <3>1, StaysOwned DEF BitsOwned, CarriesOwned, Bitmaps
    <3>3. \A k \in loc[t].keys : loc[t].keys = {k} /\ OwnedNext(k, loc'[t].ids)
      BY <2>1, <2>3, <3>1, StaysOwned DEF BitsOwned, CarriesOwned
    <3> QED
      BY <2>1, <2>3, <3>2, <3>3 DEF CarriesOwned, Owned, OwnedNext, Asking
  <2> QED
    BY <2>1, <2>2, <2>3
<1>3. CASE RemoveLock(t) /\ ~Return(t)
  <2>1. loc[t].op = "erase" /\ loc' = loc /\ pc'[t] = "erase_next"
    BY <1>3 DEF RemoveLock, Goto, TypeOK
  <2> QED
    BY <2>1, GoesOn DEF BitsOwned, CarriesOwned, Asking
<1> QED
  BY <1>1, <1>2, <1>3 DEF PutLock, AssignFails, Done

LEMMA GetIdsCarries ==
  ASSUME TypeOK, TypeOK', Monotone, BitsOwned, NEW t \in Threads, NEW k \in Keys, GetIds(t, k)
  PROVE  CarriesOwned(t)'
<1>1. /\ loc'[t].bits = NoBits /\ loc'[t].op = "get" /\ loc'[t].keys = {k}
      /\ loc'[t].ids = mem[k] /\ pc'[t] = "get_bits"
  BY DEF TypeOK, GetIds, Goto, Blank
<1>2. OwnedNext(k, mem[k])
  BY StaysOwned DEF BitsOwned, TypeOK, Bitmaps
<1> QED
  BY <1>1, <1>2 DEF CarriesOwned, Owned, OwnedNext, NoBits, Asking

LEMMA GetBitsCarries ==
  ASSUME TypeOK, TypeOK', Monotone, BitsOwned, NEW t \in Threads, GetBits(t)
  PROVE  CarriesOwned(t)'
<1>1. loc[t] \in Locals /\ loc[t].bits \in Bitmaps /\ loc[t].ids \in SUBSET Ids
      /\ loc[t].keys \in SUBSET Keys
  BY FieldTypes DEF TypeOK
<1>2. PICK k \in loc[t].keys : \E b \in {cache[k], stored[k]} :
        loc' = [loc EXCEPT ![t].ids = (b \cup @) \ loc[t].dels]
  BY DEF GetBits
<1>3. PICK b \in {cache[k], stored[k]} :
        loc' = [loc EXCEPT ![t].ids = (b \cup @) \ loc[t].dels]
  BY <1>2
<1>4. /\ pc[t] = "get_bits" /\ pc'[t] = "get_names"
      /\ loc'[t].op = loc[t].op /\ loc'[t].keys = loc[t].keys /\ loc'[t].bits = loc[t].bits
      /\ loc'[t].ids = (b \cup loc[t].ids) \ loc[t].dels
  BY <1>1, <1>3 DEF TypeOK, Locals, GetBits, Goto
<1>5. loc[t].op = "get" /\ loc[t].keys = {k} /\ Owned(k, loc[t].ids)
  BY <1>4 DEF BitsOwned, CarriesOwned
<1>6. k \in Keys /\ b \in SUBSET Ids /\ Owned(k, b)
  BY <1>1 DEF BitsOwned, TypeOK, Bitmaps
<1>7. OwnedNext(k, loc'[t].ids)
  <2>1. OwnedNext(k, b) /\ OwnedNext(k, loc[t].ids)
    BY <1>1, <1>5, <1>6, StaysOwned
  <2> QED
    BY <2>1, <1>4 DEF OwnedNext
<1>8. \A j \in Keys : OwnedNext(j, loc'[t].bits[j])
  BY <1>1, <1>4, StaysOwned DEF BitsOwned, CarriesOwned, Bitmaps
<1> QED
  BY <1>4, <1>5, <1>7, <1>8 DEF CarriesOwned, Owned, OwnedNext, Asking

LEMMA GetNamesCarries ==
  ASSUME TypeOK, TypeOK', Monotone, BitsOwned, NEW t \in Threads, GetNames(t)
  PROVE  CarriesOwned(t)'
<1>1. loc[t] \in Locals /\ loc[t].bits \in Bitmaps /\ loc[t].ids \in SUBSET Ids
      /\ loc[t].keys \in SUBSET Keys
  BY FieldTypes DEF TypeOK
<1>2. /\ pc[t] = "get_names" /\ pc'[t] = "answered"
      /\ loc'[t].op = loc[t].op /\ loc'[t].keys = loc[t].keys /\ loc'[t].bits = loc[t].bits
      /\ loc'[t].ids = loc[t].ids
      /\ loc'[t].names = {rev[i] : i \in loc[t].ids} \ {NoName}
  BY <1>1 DEF TypeOK, Locals, GetNames, Goto
<1>3. loc[t].op = "get" /\ \A k \in loc[t].keys : loc[t].keys = {k} /\ Owned(k, loc[t].ids)
  BY <1>2 DEF BitsOwned, CarriesOwned
<1>4. \A k \in loc[t].keys : OwnedNext(k, loc'[t].ids) /\ loc'[t].names \subseteq putTo'[k]
  <2> SUFFICES ASSUME NEW k \in loc[t].keys
               PROVE  OwnedNext(k, loc'[t].ids) /\ loc'[t].names \subseteq putTo'[k]
    OBVIOUS
  <2>1. OwnedNext(k, loc'[t].ids)
    BY <1>1, <1>2, <1>3, StaysOwned
  <2>2. \A i \in loc[t].ids : rev[i] \in putTo[k] \cup {NoName}
    BY <1>3 DEF Owned
  <2>3. putTo[k] \subseteq putTo'[k]
    BY <1>1 DEF Monotone
  <2> QED
    BY <2>1, <2>2, <2>3, <1>2
<1>5. \A j \in Keys : OwnedNext(j, loc'[t].bits[j])
  BY <1>1, <1>2, StaysOwned DEF BitsOwned, CarriesOwned, Bitmaps
<1> QED
  BY <1>2, <1>3, <1>4, <1>5 DEF CarriesOwned, Owned, OwnedNext, Asking

LEMMA FlushCarries ==
  ASSUME TypeOK, TypeOK', Monotone, BitsOwned, NEW t \in Threads,
         \/ Flush(t) \/ Commit(t) \/ BuildIndex(t) \/ StoreIndex(t)
         \/ ResolveAll(t) \/ StoreInverted(t)
  PROVE  CarriesOwned(t)'
<1>1. loc \in [Threads -> Locals] /\ pc \in [Threads -> Labels] /\ loc[t] \in Locals
  BY DEF TypeOK
<1>2. CASE Return(t)
  BY <1>1, <1>2, BlankCarries DEF Return, Goto
<1>3. CASE Flush(t)
  <2>1. loc'[t].bits = mem /\ loc'[t].op = "flush" /\ pc'[t] = "commit"
    BY <1>1, <1>3 DEF Flush, Goto, Blank
  <2>2. \A k \in Keys : OwnedNext(k, mem[k])
    BY StaysOwned DEF BitsOwned, TypeOK, Bitmaps
  <2> QED
    BY <2>1, <2>2 DEF CarriesOwned, Owned, OwnedNext, Asking
<1>4. CASE ~Return(t) /\ ~Flush(t)
  <2>1. /\ loc'[t].op = loc[t].op /\ loc'[t].keys = loc[t].keys /\ loc'[t].ids = loc[t].ids
        /\ loc'[t].bits = loc[t].bits \/ loc'[t].bits = stored
        /\ pc'[t] \in {"build", "store", "resolve", "store_inverted"}
    <3>1. CASE Commit(t)
      BY <3>1, <1>1 DEF Commit, Goto
    <3>2. CASE BuildIndex(t)
      BY <3>2, <1>1 DEF BuildIndex, Goto, Locals
    <3>3. CASE StoreIndex(t)
      BY <3>3, <1>1, <1>4 DEF StoreIndex, Goto
    <3>4. CASE ResolveAll(t)
      BY <3>4, <1>1 DEF ResolveAll, Goto, Locals
    <3> QED
      BY <1>4, <3>1, <3>2, <3>3, <3>4 DEF StoreInverted
  <2>2. \A k \in Keys : Owned(k, loc'[t].bits[k])
    BY <2>1 DEF BitsOwned, CarriesOwned
  <2> QED
    BY <2>1, <2>2, GoesOn DEF BitsOwned, Asking
<1> QED
  BY <1>2, <1>3, <1>4

(* What a step leaves alone: the other threads, and the stages of the bits *)
(* unless it moves them.                                                   *)
LEMMA StepFrame ==
  ASSUME TypeOK, NEW t \in Threads, Step(t)
  PROVE  /\ \A u \in Threads \ {t} : loc'[u] = loc[u] /\ pc'[u] = pc[u]
         /\ \/ PutLock(t) \/ Flush(t) \/ Commit(t) \/ StoreIndex(t)
            \/ UNCHANGED <<stored, mem, cache>>
<1> DEFINE Alone   == \A u \in Threads \ {t} : loc'[u] = loc[u] /\ pc'[u] = pc[u]
           Unmoved == UNCHANGED <<stored, mem, cache>>
<1>1. loc \in [Threads -> Locals] /\ pc \in [Threads -> Labels]
  BY DEF TypeOK
<1>2. CASE AssignIds(t)
  BY <1>1, <1>2 DEF AssignIds, Assign, Goto, buffer, index
<1>3. CASE AssignFails(t) \/ EnsureEvent(t) \/ PutLock(t) \/ RemoveLock(t) \/ Done(t)
  BY <1>1, <1>3 DEF AssignFails, EnsureEvent, PutLock, RemoveLock, Done, Return, Goto, buffer, index
<1>4. ASSUME NEW k \in Keys, NEW x \in Names, RemoveIds(t, k, x) PROVE Alone /\ Unmoved
  BY <1>1, <1>4 DEF RemoveIds, Goto, buffer, index
<1>5. ASSUME NEW k \in Keys, NEW x \in Names, ContainsIndexed(t, k, x) PROVE Alone /\ Unmoved
  BY <1>1, <1>5, Zenon DEF ContainsIndexed, Goto, buffer, index
<1>6. ASSUME NEW k \in Keys, NEW x \in Names, ContainsBit(t, k, x) PROVE Alone /\ Unmoved
  BY <1>1, <1>6 DEF ContainsBit, Goto, buffer, index
<1>7. ASSUME NEW x \in Names, FindMemberships(t, x) PROVE Alone /\ Unmoved
  BY <1>1, <1>7 DEF FindMemberships, Call, Goto, buffer, index
<1>8. CASE FilteredOut(t) \/ FindInIndex(t) \/ FindBuffer(t) \/ FindGone(t) \/ FindCheck(t)
  BY <1>1, <1>8 DEF FilteredOut, FindInIndex, FindBuffer, FindGone, FindCheck, Found, Goto,
                    buffer, index
<1>9. CASE FindTombstones(t) \/ FindLoad(t) \/ FindNothing(t) \/ FindId(t) \/ FindOverlay(t)
  BY <1>1, <1>9 DEF FindTombstones, FindLoad, FindNothing, FindId, FindOverlay, Found, Goto,
                    buffer, index
<1>10. CASE EraseNext(t) \/ EraseDict(t)
  BY <1>1, <1>10 DEF EraseNext, EraseDict, Forget, Goto, buffer, index
<1>11. CASE ContainsGone(t) \/ ContainsLookup(t) \/ ContainsBuffer(t) \/ BitBuffered(t)
  BY <1>1, <1>11 DEF ContainsGone, ContainsLookup, ContainsBuffer, BitBuffered, Answer, Goto,
                     buffer, index
<1>12. CASE BitBuffer(t) \/ BitCache(t) \/ BitTombstone(t)
  BY <1>1, <1>12 DEF BitBuffer, BitCache, BitTombstone, Answer, Goto, buffer, index
<1>13. ASSUME NEW k \in Keys, GetIds(t, k) PROVE Alone /\ Unmoved
  BY <1>1, <1>13 DEF GetIds, Goto, buffer, index
<1>14. CASE GetBits(t) \/ GetNames(t)
  BY <1>1, <1>14 DEF GetBits, GetNames, Goto, buffer, index
<1>15. CASE Flush(t) \/ Commit(t) \/ BuildIndex(t) \/ StoreIndex(t)
  BY <1>1, <1>15 DEF Flush, Commit, BuildIndex, StoreIndex, Return, Goto, buffer, index
<1>16. CASE ResolveAll(t) \/ StoreInverted(t)
  BY <1>1, <1>16 DEF ResolveAll, StoreInverted, Return, Goto, buffer, index
<1> QED
  BY <1>2, <1>3, <1>4, <1>5, <1>6, <1>7, <1>8, <1>9, <1>10, <1>11, <1>12, <1>13, <1>14, <1>15,
     <1>16 DEF Step

(* The bits of every stage stay owned when a thread takes a step.          *)
LEMMA StagesOwned ==
  ASSUME TypeOK, TypeOK', Monotone, BitsOwned, NEW t \in Threads,
         \/ PutLock(t) \/ Flush(t) \/ Commit(t) \/ StoreIndex(t)
         \/ UNCHANGED <<stored, mem, cache>>
  PROVE  \A k \in Keys :
           OwnedNext(k, stored'[k]) /\ OwnedNext(k, mem'[k]) /\ OwnedNext(k, cache'[k])
<1> SUFFICES ASSUME NEW k \in Keys
             PROVE  OwnedNext(k, stored'[k]) /\ OwnedNext(k, mem'[k]) /\ OwnedNext(k, cache'[k])
  OBVIOUS
<1>1. OwnedNext(k, stored[k]) /\ OwnedNext(k, mem[k]) /\ OwnedNext(k, cache[k])
  BY StaysOwned DEF BitsOwned, TypeOK, Bitmaps
<1>2. loc[t].bits \in Bitmaps /\ loc[t].ids \in SUBSET Ids /\ loc[t].keys \in SUBSET Keys
  BY FieldTypes DEF TypeOK
<1>3. OwnedNext(k, loc[t].bits[k])
  BY <1>2, StaysOwned DEF BitsOwned, CarriesOwned, Bitmaps
<1>4. CASE UNCHANGED <<stored, mem, cache>>
  BY <1>1, <1>4
<1>5. CASE PutLock(t)
  <2>1. k \in loc[t].keys => OwnedNext(k, loc[t].ids)
    BY <1>2, <1>5, StaysOwned DEF PutLock, BitsOwned, CarriesOwned
  <2> QED
    BY <1>1, <1>5, <2>1 DEF PutLock, OwnedNext, index
<1>6. CASE Flush(t)
  BY <1>1, <1>6 DEF Flush, OwnedNext, NoBits, index
<1>7. CASE Commit(t)
  BY <1>1, <1>3, <1>7 DEF Commit, OwnedNext, buffer, index
<1>8. CASE StoreIndex(t)
  BY <1>1, <1>3, <1>8 DEF StoreIndex, buffer
<1> QED
  BY <1>4, <1>5, <1>6, <1>7, <1>8

LEMMA OwnedInit == HInit => BitsOwned
BY DEF HInit, Init, BitsOwned, CarriesOwned, Owned, Blank, NoBits, Asking

LEMMA OwnedStep ==
  ASSUME TypeOK, TypeOK', DictBijective, BitsOwned, [HNext]_hvars
  PROVE  BitsOwned'
<1>1. Monotone /\ putTo' \in [Keys -> SUBSET Names]
  BY MonotoneStep, PutToStep
<1>2. CASE UNCHANGED hvars
  BY <1>2 DEF hvars, history, vars, dict, buffer, index, BitsOwned, CarriesOwned, Owned
<1>3. ASSUME NEW t \in Threads, CarriesOwned(t)',
             \A u \in Threads \ {t} : loc'[u] = loc[u] /\ pc'[u] = pc[u],
             \/ PutLock(t) \/ Flush(t) \/ Commit(t) \/ StoreIndex(t)
             \/ UNCHANGED <<stored, mem, cache>>
      PROVE  BitsOwned'
  <2>1. \A u \in Threads \ {t} : CarriesOwned(u)'
    BY <1>1, <1>3, OtherCarries DEF BitsOwned
  <2>2. \A k \in Keys :
          OwnedNext(k, stored'[k]) /\ OwnedNext(k, mem'[k]) /\ OwnedNext(k, cache'[k])
    BY <1>1, <1>3, StagesOwned
  <2> QED
    BY <1>1, <1>3, <2>1, <2>2 DEF BitsOwned, Owned, OwnedNext
<1>4. ASSUME NEW t \in Threads, HPut(t) PROVE BitsOwned'
  <2>1. PICK k \in Keys, N \in (SUBSET Names) \ {{}} :
          PutIds(t, k, N) /\ putTo' = [putTo EXCEPT ![k] = @ \cup N]
    BY <1>4 DEF HPut
  <2>2. CarriesOwned(t)'
    BY <2>1, PutIdsCarries
  <2>3. \A u \in Threads \ {t} : loc'[u] = loc[u] /\ pc'[u] = pc[u]
    BY <2>1 DEF PutIds, Goto, TypeOK
  <2>4. UNCHANGED <<stored, mem, cache>>
    BY <2>1 DEF PutIds, buffer, index
  <2> QED
    BY <2>2, <2>3, <2>4, <1>3
<1>5. ASSUME NEW t \in Threads, HStep(t) PROVE BitsOwned'
  <2>1. Step(t) /\ UNCHANGED putTo
    BY <1>5 DEF HStep
  <2>2. CarriesOwned(t)'
    BY <1>1, <2>1, AssignIdsCarries, BufferCarries, StartCarries, FindMembershipsCarries,
       AskingCarries, GetIdsCarries, GetBitsCarries, GetNamesCarries, FlushCarries DEF Step
  <2> QED
    BY <2>1, <2>2, <1>3, StepFrame
<1>6. CASE HCrash
  <2>1. \A t \in Threads : CarriesOwned(t)'
    BY <1>6, BlankCarries DEF HCrash, CrashAndOpen
  <2>2. \A k \in Keys : OwnedNext(k, stored[k])
    BY <1>1, StaysOwned DEF BitsOwned, TypeOK, Bitmaps
  <2>3. stored' = stored /\ cache' = stored /\ mem' = NoBits
    BY <1>6 DEF HCrash, CrashAndOpen
  <2> QED
    BY <1>1, <2>1, <2>2, <2>3 DEF BitsOwned, Owned, OwnedNext, NoBits
<1> QED
  BY <1>2, <1>4, <1>5, <1>6 DEF HNext

LEMMA NobodyStrange == BitsOwned => NoStrangers
<1> SUFFICES ASSUME BitsOwned PROVE NoStrangers
  OBVIOUS
<1>1. \A k \in Keys : \A i \in stored[k] \cup mem[k] \cup cache[k] :
        rev[i] \in putTo[k] \cup {NoName}
  BY DEF BitsOwned, Owned
<1>2. \A t \in Threads : pc[t] = "answered" /\ loc[t].op = "get"
        => \A k \in loc[t].keys : loc[t].names \subseteq putTo[k]
  BY DEF BitsOwned, CarriesOwned
<1> QED
  BY <1>1, <1>2 DEF NoStrangers

(* Every bit, in the store, the buffer, the index or the hands of a call,  *)
(* is an id that was given before, and not to a name that was not put at   *)
(* the bit's key: through every race of assignments, deletions, flushes    *)
(* and crashes.                                                            *)
THEOREM EveryBitOwned == HSpec => []BitsOwned
<1>1. TypeOK /\ TypeOK' /\ DictBijective /\ BitsOwned /\ [HNext]_hvars => BitsOwned'
  BY OwnedStep
<1>2. HSpec => []TypeOK /\ []DictBijective
  BY HistoryFollows, TypeCorrect, Bijective, PTL
<1> QED
  BY OwnedInit, <1>1, <1>2, PTL DEF HSpec

(* No entity shows up where it was never put.                              *)
THEOREM NoStrangersEver == HSpec => []NoStrangers
BY EveryBitOwned, NobodyStrange, PTL

-----------------------------------------------------------------------------
(* Membership.                                                             *)

Flushing == {"commit", "build", "store", "resolve", "store_inverted"}

(* At most one thread at a time is within a flush.                         *)
OneFlusher == \A t, u \in Threads : pc[t] \in Flushing /\ pc[u] \in Flushing => t = u

(* A call about to write to the buffer.                                    *)
Pending(t) == pc[t] \in {"ensure", "put_lock", "remove_lock"}

(* Something to put or remove is always left for the buffer, at a key of a *)
(* registered event.                                                       *)
CallKnows(t) ==
  /\ pc[t] = "assign" => loc[t].keys # {} /\ loc[t].names # {}
  /\ Pending(t) => loc[t].keys # {} /\ loc[t].ids # {}
  /\ pc[t] \in {"put_lock", "remove_lock"} => \A k \in loc[t].keys : EventOf[k] \in events
  /\ pc[t] = "commit" => \A k \in Keys : loc[t].bits[k] # {} => EventOf[k] \in events
  /\ pc[t] = "store" => \A k \in Keys : loc[t].bits[k] # {} => EventOf[k] \in loc[t].events

(* The event of every bit is registered, and known to the index.           *)
EventsKnown ==
  /\ \A k \in Keys : stored[k] # {} \/ mem[k] # {} => EventOf[k] \in events
  /\ \A k \in Keys : cache[k] # {} => EventOf[k] \in known
  /\ \A t \in Threads : CallKnows(t)

(* An inverted index that lists the names of the ReadIndex.                *)
Exact(F) ==
  \A x \in Names, k \in Keys : fwd[x] # NoId => (x \in F[k] <=> fwd[x] \in cache[k])

(* A name assigned since the index was resolved is on its way to the       *)
(* buffer or in it, and so is what will come to the index.                 *)
Dirty == ~BufferEmpty \/ \E t \in Threads : Pending(t)

Rebuilt(t) == pc[t] = "store_inverted" => Exact(loc[t].built) \/ Dirty

InvertedExact ==
  /\ mode = "frozen" /\ (\A t \in Threads : pc[t] \notin Flushing) => Exact(frozen) \/ Dirty
  /\ \A t \in Threads : Rebuilt(t)

(* What contains_id, at p with l, has found so far while it had the store  *)
(* to itself.                                                              *)
ContainsKnows(p, l) ==
  LET I == Resolved(l.names)
      cached == l.keys \subseteq Holding(cache, I) IN
  /\ p \in {"contains_id", "contains_buffer", "bit_buffer", "bit_cache", "bit_tombstone"} =>
       /\ l.op = "contains"
       /\ \E k \in Keys : l.keys = {k}
       /\ \E x \in Names : l.names = {x}
  /\ p \in {"contains_id", "contains_buffer"} =>
       mode = "frozen" /\ (BufferEmpty /\ I # {} => (l.yes <=> cached))
  /\ p \in {"contains_buffer", "bit_buffer", "bit_cache", "bit_tombstone"} =>
       l.ids = I /\ I # {}
  /\ p = "bit_cache" => l.keys \cap Buffered(I) = {}
  /\ p = "bit_tombstone" => cached
  /\ p = "answered" /\ l.op = "contains" /\ (BufferEmpty \/ mode = "disabled") =>
       (l.yes <=> l.keys \subseteq HeldAt(I))

FindSteps ==
  {"find", "find_id", "find_overlay", "find_buffer", "find_check", "find_tombstones"}

(* The same of find_memberships; c says whether the buffer was empty when  *)
(* it began.                                                               *)
FindKnows(p, l, c) ==
  LET I == Resolved(l.names) IN
  /\ p \in FindSteps => l.op \in {"find", "erase"} /\ (c => BufferEmpty)
  /\ p = "find" => \E x \in Names : l.names = {x}
  /\ p \in {"find_id", "find_overlay"} => mode = "disabled" /\ l.events = known
  /\ p = "find_id" => l.bits = cache
  /\ p = "find_overlay" =>
       l.ids = I /\ l.found = {k \in Keys : EventOf[k] \in l.events} \cap Holding(cache, I)
  /\ p \in {"find_buffer", "find_check", "find_tombstones"} =>
       mode = "frozen" /\ (BufferEmpty /\ I # {} => l.found = Holding(cache, I))
  /\ p = "find_tombstones" => l.ids = I /\ I # {}
  /\ p = "answered" /\ l.op = "find" /\ AllIndexed => l.found = HeldAt(I)

(* What delete_entity has still to remove.                                 *)
EraseKnows(p, l, c) ==
  LET I == Resolved(l.names)
      done == Holding(memDel, I) IN
  /\ p = "erase_next" => l.op = "erase"
  /\ l.op = "erase" /\ p \in {"erase_next", "ensure", "remove_lock", "answered"} /\ c =>
       mem = NoBits
  /\ p = "erase_next" /\ c => Holding(cache, I) \subseteq l.found \cup done
  /\ l.op = "erase" /\ p \in {"ensure", "remove_lock"} /\ c =>
       l.ids = I /\ Holding(cache, I) \subseteq l.found \cup l.keys \cup done
  /\ l.op = "erase" /\ p = "answered" /\ c => Holding(cache, l.ids) \subseteq Holding(memDel, l.ids)

CallsKnow(p, l, c) == ContainsKnows(p, l) /\ FindKnows(p, l, c) /\ EraseKnows(p, l, c)

SoloKnows ==
  /\ clean \in [Threads -> BOOLEAN]
  /\ \A t \in Threads :
       alone[t] => OthersIdle(t) /\ CallsKnow(pc[t], loc[t], clean[t])

(* The steps that neither write nor begin or go on with a write.           *)
Quiet(t) ==
  /\ UNCHANGED <<mode, events, stored, mem, memDel, cache, known, frozen, fwd>>
  /\ ~Pending(t) /\ pc[t] \notin Flushing
  /\ pc'[t] \notin Flushing \cup {"assign", "ensure", "put_lock", "remove_lock"}

Writes(t) ==
  \/ AssignIds(t) \/ EnsureEvent(t) \/ PutLock(t) \/ RemoveLock(t)
  \/ \E k \in Keys, x \in Names : RemoveIds(t, k, x)
  \/ EraseNext(t) \/ EraseDict(t)
  \/ Flush(t) \/ Commit(t) \/ BuildIndex(t) \/ StoreIndex(t)
  \/ ResolveAll(t) \/ StoreInverted(t)

LEMMA WritesOrQuiet ==
  ASSUME TypeOK, NEW t \in Threads, Step(t)
  PROVE  Writes(t) \/ Quiet(t)
<1> USE DEF TypeOK, Goto, dict, buffer, index, Quiet, Pending, Flushing
<1>1. CASE AssignFails(t) \/ Done(t)
  BY <1>1 DEF AssignFails, Done, Return
<1>2. ASSUME NEW k \in Keys, NEW x \in Names, ContainsIndexed(t, k, x) \/ ContainsBit(t, k, x)
      PROVE  Quiet(t)
  <2>1. CASE ContainsIndexed(t, k, x)
    BY <2>1 DEF ContainsIndexed, Starts
  <2>2. CASE ContainsBit(t, k, x)
    BY <2>2 DEF ContainsBit, Starts
  <2> QED
    BY <1>2, <2>1, <2>2
<1>3. ASSUME NEW x \in Names, FindMemberships(t, x) PROVE Quiet(t)
  BY <1>3 DEF FindMemberships, Starts
<1>4. CASE FilteredOut(t) \/ FindInIndex(t) \/ FindBuffer(t) \/ FindGone(t) \/ FindCheck(t)
  BY <1>4 DEF FilteredOut, FindInIndex, FindBuffer, FindGone, FindCheck, Found
<1>5. CASE FindTombstones(t) \/ FindLoad(t) \/ FindNothing(t) \/ FindId(t) \/ FindOverlay(t)
  BY <1>5 DEF FindTombstones, FindLoad, FindNothing, FindId, FindOverlay, Found
<1>6. CASE ContainsGone(t) \/ ContainsLookup(t) \/ ContainsBuffer(t)
  BY <1>6 DEF ContainsGone, ContainsLookup, ContainsBuffer, Answer
<1>7. CASE BitBuffered(t) \/ BitBuffer(t) \/ BitCache(t) \/ BitTombstone(t)
  BY <1>7 DEF BitBuffered, BitBuffer, BitCache, BitTombstone, Answer
<1>8. ASSUME NEW k \in Keys, GetIds(t, k) PROVE Quiet(t)
  BY <1>8 DEF GetIds, Starts
<1>9. CASE GetBits(t) \/ GetNames(t)
  BY <1>9 DEF GetBits, GetNames
<1> QED
  BY <1>1, <1>2, <1>3, <1>4, <1>5, <1>6, <1>7, <1>8, <1>9 DEF Step, Writes

(* Which step writes what.                                                 *)
LEMMA WritesMove ==
  ASSUME TypeOK, NEW t \in Threads, Writes(t)
  PROVE  /\ UNCHANGED mode /\ events \subseteq events'
         /\ PutLock(t) \/ Flush(t) \/ UNCHANGED mem
         /\ PutLock(t) \/ RemoveLock(t) \/ Flush(t) \/ UNCHANGED memDel
         /\ Commit(t) \/ UNCHANGED stored
         /\ StoreIndex(t) \/ UNCHANGED <<cache, known>>
         /\ StoreInverted(t) \/ UNCHANGED frozen
         /\ AssignIds(t) \/ EraseDict(t) \/ UNCHANGED fwd
<1> DEFINE Moves ==
             /\ UNCHANGED mode /\ events \subseteq events'
             /\ PutLock(t) \/ Flush(t) \/ UNCHANGED mem
             /\ PutLock(t) \/ RemoveLock(t) \/ Flush(t) \/ UNCHANGED memDel
             /\ Commit(t) \/ UNCHANGED stored
             /\ StoreIndex(t) \/ UNCHANGED <<cache, known>>
             /\ StoreInverted(t) \/ UNCHANGED frozen
             /\ AssignIds(t) \/ EraseDict(t) \/ UNCHANGED fwd
<1> USE DEF dict, buffer, index
<1>1. CASE AssignIds(t)
  BY <1>1 DEF AssignIds, Assign
<1>2. CASE EnsureEvent(t) \/ PutLock(t) \/ RemoveLock(t)
  BY <1>2 DEF EnsureEvent, PutLock, RemoveLock
<1>3. ASSUME NEW k \in Keys, NEW x \in Names, RemoveIds(t, k, x) PROVE Moves
  BY <1>3 DEF RemoveIds
<1>4. CASE EraseNext(t)
  BY <1>4 DEF EraseNext
<1>7. CASE EraseDict(t)
  BY <1>7 DEF EraseDict, Forget
<1>5. CASE Flush(t) \/ Commit(t) \/ BuildIndex(t)
  BY <1>5 DEF Flush, Commit, BuildIndex
<1>6. CASE StoreIndex(t) \/ ResolveAll(t) \/ StoreInverted(t)
  BY <1>6 DEF StoreIndex, ResolveAll, StoreInverted
<1> QED
  BY <1>1, <1>2, <1>3, <1>4, <1>5, <1>6, <1>7 DEF Writes

(* The next removal of a delete_entity whose name still has an id.         *)
LEMMA NextErased ==
  ASSUME NEW t \in Threads, EraseNext(t), Resolved(loc[t].names) # {}
  PROVE  \E k \in loc[t].found :
           /\ loc' = [loc EXCEPT ![t].found = @ \ {k}, ![t].keys = {k},
                                 ![t].ids = Resolved(loc[t].names)]
           /\ pc' = [pc EXCEPT ![t] = "ensure"]
<1>1. PICK k \in loc[t].found :
        IF Resolved(loc[t].names) = {}
        THEN loc' = [loc EXCEPT ![t].found = @ \ {k}] /\ UNCHANGED pc
        ELSE /\ loc' = [loc EXCEPT ![t].found = @ \ {k}, ![t].keys = {k},
                                   ![t].ids = Resolved(loc[t].names)]
             /\ Goto(t, "ensure")
  BY Zenon DEF EraseNext
<1> QED
  BY <1>1, Zenon DEF Goto

(* A call's own part of EventsKnown.                                       *)
LEMMA WriterKnows ==
  ASSUME TypeOK, TypeOK', EventsKnown, NEW t \in Threads, Writes(t)
  PROVE  CallKnows(t)'
<1> USE DEF TypeOK, Goto
<1>0. loc[t] \in Locals /\ CallKnows(t) /\ events \subseteq events'
  BY WritesMove DEF EventsKnown
<1>1. CASE Return(t)
  BY <1>1 DEF Return, CallKnows, Pending
<1>2. CASE AssignIds(t)
  <2>1. /\ loc' = [loc EXCEPT ![t].ids = @ \cup {fwd'[x] : x \in loc[t].names}]
        /\ pc[t] = "assign" /\ pc'[t] = "ensure"
    BY <1>2 DEF AssignIds, Assign
  <2>2. loc'[t].keys = loc[t].keys /\ loc'[t].ids = loc[t].ids \cup {fwd'[x] : x \in loc[t].names}
    BY <2>1, <1>0 DEF Locals
  <2>3. PICK x \in loc[t].names : TRUE
    BY <2>1, <1>0 DEF CallKnows
  <2>4. fwd'[x] \in loc'[t].ids
    BY <2>2, <2>3
  <2> QED
    BY <2>1, <2>2, <2>4, <1>0 DEF CallKnows, Pending
<1>3. CASE EnsureEvent(t)
  BY <1>0, <1>3 DEF EnsureEvent, CallKnows, Pending
<1>4. CASE RemoveLock(t) /\ ~Return(t)
  BY <1>4 DEF RemoveLock, CallKnows, Pending
<1>5. ASSUME NEW k \in Keys, NEW x \in Names, RemoveIds(t, k, x) PROVE CallKnows(t)'
  <2>1. loc'[t].keys = {k} /\ loc'[t].ids = Resolved({x}) /\ pc'[t] = "ensure"
    BY <1>5 DEF RemoveIds, Blank
  <2> QED
    BY <2>1, <1>5 DEF RemoveIds, CallKnows, Pending
<1>6. CASE EraseNext(t)
  <2>1. CASE Resolved(loc[t].names) = {}
    BY <1>6, <2>1 DEF EraseNext, CallKnows, Pending
  <2>2. CASE Resolved(loc[t].names) # {}
    <3>1. PICK k \in loc[t].found :
            /\ loc' = [loc EXCEPT ![t].found = @ \ {k}, ![t].keys = {k},
                                  ![t].ids = Resolved(loc[t].names)]
            /\ pc' = [pc EXCEPT ![t] = "ensure"]
      BY <1>6, <2>2, NextErased, Zenon
    <3>2. loc'[t].keys = {k} /\ loc'[t].ids = Resolved(loc[t].names) /\ pc'[t] = "ensure"
      BY <1>0, <3>1 DEF Locals
    <3> QED
      BY <3>2, <2>2 DEF CallKnows, Pending
  <2> QED
    BY <2>1, <2>2
<1>7. CASE EraseDict(t)
  BY <1>7 DEF EraseDict, Forget, CallKnows, Pending
<1>8. CASE Flush(t)
  <2>1. loc'[t].bits = mem /\ pc'[t] = "commit" /\ UNCHANGED events
    BY <1>8 DEF Flush, Blank
  <2> QED
    BY <2>1 DEF CallKnows, Pending, EventsKnown
<1>9. CASE Commit(t)
  BY <1>9 DEF Commit, CallKnows, Pending
<1>10. CASE BuildIndex(t)
  <2>1. loc'[t].bits = stored /\ loc'[t].events = events /\ pc'[t] = "store"
    BY <1>0, <1>10 DEF BuildIndex, Locals
  <2> QED
    BY <2>1 DEF CallKnows, Pending, EventsKnown
<1>11. CASE StoreIndex(t) /\ ~Return(t)
  BY <1>11 DEF StoreIndex, CallKnows, Pending
<1>12. CASE ResolveAll(t)
  BY <1>12 DEF ResolveAll, CallKnows, Pending
<1> QED
  BY <1>1, <1>2, <1>3, <1>4, <1>5, <1>6, <1>7, <1>8, <1>9, <1>10, <1>11, <1>12
  DEF Writes, PutLock, StoreInverted

(* What a step of t, or the beginning of a put, leaves of the rest.        *)
LEMMA EventsKept ==
  ASSUME TypeOK, TypeOK', EventsKnown, NEW t \in Threads, CallKnows(t)',
         events \subseteq events',
         \A u \in Threads \ {t} : loc'[u] = loc[u] /\ pc'[u] = pc[u],
         \A k \in Keys : stored'[k] # {} \/ mem'[k] # {} => EventOf[k] \in events',
         \A k \in Keys : cache'[k] # {} => EventOf[k] \in known'
  PROVE  EventsKnown'
<1>1. \A u \in Threads \ {t} : CallKnows(u)'
  BY DEF EventsKnown, CallKnows, Pending
<1> QED
  BY <1>1 DEF EventsKnown

LEMMA EventsStep ==
  ASSUME TypeOK, TypeOK', EventsKnown, NEW t \in Threads, Step(t)
  PROVE  EventsKnown'
<1>1. \A u \in Threads \ {t} : loc'[u] = loc[u] /\ pc'[u] = pc[u]
  BY StepFrame
<1>2. CallKnows(t)
  BY DEF EventsKnown
<1>3. CASE Quiet(t)
  <2>1. CallKnows(t)'
    BY <1>3 DEF Quiet, CallKnows, Pending, Flushing
  <2> QED
    BY <1>1, <1>3, <2>1, EventsKept DEF Quiet, EventsKnown
<1>4. CASE Writes(t)
  <2>1. CallKnows(t)'
    BY <1>4, WriterKnows
  <2>2. /\ events \subseteq events'
        /\ PutLock(t) \/ Flush(t) \/ UNCHANGED mem
        /\ Commit(t) \/ UNCHANGED stored
        /\ StoreIndex(t) \/ UNCHANGED <<cache, known>>
    BY <1>4, WritesMove
  <2>3. \A k \in Keys : mem'[k] # {} => EventOf[k] \in events'
    BY <1>2, <2>2 DEF PutLock, Flush, NoBits, EventsKnown, CallKnows, TypeOK
  <2>4. \A k \in Keys : stored'[k] # {} => EventOf[k] \in events'
    BY <1>2, <2>2 DEF Commit, EventsKnown, CallKnows
  <2>5. \A k \in Keys : cache'[k] # {} => EventOf[k] \in known'
    BY <1>2, <2>2 DEF StoreIndex, EventsKnown, CallKnows
  <2> QED
    BY <1>1, <2>1, <2>2, <2>3, <2>4, <2>5, EventsKept
<1> QED
  BY <1>3, <1>4, WritesOrQuiet

LEMMA PutEvents ==
  ASSUME TypeOK, TypeOK', EventsKnown, NEW t \in Threads, StartPut(t)
  PROVE  EventsKnown'
<1>1. PICK k \in Keys, N \in (SUBSET Names) \ {{}} : PutIds(t, k, N)
  BY DEF StartPut
<1> DEFINE unknown == {x \in N : fwd[x] = NoId}
<1>2. /\ loc'[t].keys = {k} /\ loc'[t].names = unknown /\ loc'[t].ids = Resolved(N)
      /\ pc'[t] = IF unknown = {} THEN "ensure" ELSE "assign"
      /\ \A u \in Threads \ {t} : loc'[u] = loc[u] /\ pc'[u] = pc[u]
      /\ UNCHANGED <<events, stored, mem, cache, known>>
  BY <1>1 DEF PutIds, Goto, Blank, TypeOK, buffer, index
<1>3. unknown = {} => Resolved(N) # {}
  BY DEF Resolved
<1>4. CallKnows(t)'
  BY <1>2, <1>3 DEF CallKnows, Pending
<1> QED
  BY <1>2, <1>4, EventsKept DEF EventsKnown

LEMMA CrashEvents ==
  ASSUME EventsKnown, CrashAndOpen
  PROVE  EventsKnown'
BY DEF CrashAndOpen, EventsKnown, CallKnows, Pending, NoBits

-----------------------------------------------------------------------------
(* The inverted index.                                                     *)

(* The names that ids resolve to, as the forward table has them.           *)
LEMMA NamesAtExact ==
  ASSUME TypeOK, DictBijective, NEW B \in Bitmaps
  PROVE  \A x \in Names, k \in Keys : fwd[x] # NoId => (x \in NamesAt(B)[k] <=> fwd[x] \in B[k])
<1> SUFFICES ASSUME NEW x \in Names, NEW k \in Keys, fwd[x] # NoId
             PROVE  x \in NamesAt(B)[k] <=> fwd[x] \in B[k]
  OBVIOUS
<1>1. fwd[x] \in Ids /\ rev[fwd[x]] = x /\ x # NoName
  BY EntitiesAssumption DEF TypeOK, DictBijective
<1>2. B[k] \subseteq Ids /\ \A i \in B[k] : rev[i] = x => i = fwd[x]
  BY <1>1 DEF Bitmaps, DictBijective
<1>3. NamesAt(B)[k] = {rev[i] : i \in B[k]} \ {NoName}
  BY DEF NamesAt
<1> QED
  BY <1>1, <1>2, <1>3

(* A step that touches neither index nor buffer, and gives no id.          *)
LEMMA InvertedKept ==
  ASSUME TypeOK, TypeOK', InvertedExact, NEW t \in Threads,
         UNCHANGED <<mode, mem, memDel, cache, frozen>>,
         \A x \in Names : fwd'[x] \in {fwd[x], NoId},
         \A u \in Threads \ {t} : loc'[u] = loc[u] /\ pc'[u] = pc[u],
         pc[t] \notin Flushing, pc'[t] \notin Flushing, Pending(t) => Pending(t)'
  PROVE  InvertedExact'
<1>1. Dirty => Dirty'
  <2>1. \A u \in Threads : Pending(u) => Pending(u)'
    BY DEF Pending
  <2>2. BufferEmpty' <=> BufferEmpty
    BY DEF BufferEmpty
  <2> QED
    BY <2>1, <2>2 DEF Dirty
<1>2. ASSUME NEW F, Exact(F)
      PROVE  \A x \in Names, k \in Keys : fwd'[x] # NoId => (x \in F[k] <=> fwd'[x] \in cache'[k])
  BY <1>2 DEF Exact
<1>3. mode' = "frozen" /\ (\A u \in Threads : pc'[u] \notin Flushing) => Exact(frozen)' \/ Dirty'
  <2>1. (\A u \in Threads : pc'[u] \notin Flushing) => \A u \in Threads : pc[u] \notin Flushing
    OBVIOUS
  <2> QED
    BY <1>1, <1>2, <2>1 DEF InvertedExact, Exact
<1>4. ASSUME NEW u \in Threads PROVE Rebuilt(u)'
  <2>1. CASE u = t
    BY <2>1 DEF Rebuilt, Flushing
  <2>2. CASE u # t
    BY <1>1, <1>2, <2>2 DEF InvertedExact, Rebuilt, Exact
  <2> QED
    BY <2>1, <2>2
<1> QED
  BY <1>3, <1>4 DEF InvertedExact

(* While t flushes, nothing is asked of the index in place, and no other   *)
(* thread has one to store.                                                *)
LEMMA InvertedLater ==
  ASSUME NEW t \in Threads, Rebuilt(t)',
         \A u \in Threads \ {t} : pc'[u] \notin Flushing,
         pc'[t] \in Flushing \/ mode' # "frozen"
  PROVE  InvertedExact'
<1>1. \A u \in Threads \ {t} : Rebuilt(u)'
  BY DEF Rebuilt, Flushing
<1> QED
  BY <1>1 DEF InvertedExact

LEMMA BufferFilled ==
  ASSUME TypeOK, EventsKnown, NEW t \in Threads, PutLock(t) \/ RemoveLock(t)
  PROVE  ~BufferEmpty'
<1>1. PICK k \in Keys, i \in Ids : k \in loc[t].keys /\ i \in loc[t].ids
  <2>1. loc[t].keys \in SUBSET Keys /\ loc[t].ids \in SUBSET Ids
    BY FieldTypes DEF TypeOK
  <2>2. loc[t].keys # {} /\ loc[t].ids # {}
    BY DEF EventsKnown, CallKnows, Pending, PutLock, RemoveLock
  <2> QED
    BY <2>1, <2>2
<1>2. i \in mem'[k] \/ i \in memDel'[k]
  BY <1>1 DEF PutLock, RemoveLock
<1> QED
  BY <1>2 DEF BufferEmpty, NoBits

LEMMA InvertedStep ==
  ASSUME TypeOK, TypeOK', DictBijective, EventsKnown, InvertedExact, OneFlusher, OneFlusher',
         NEW t \in Threads, Step(t)
  PROVE  InvertedExact'
<1>1. \A u \in Threads \ {t} : loc'[u] = loc[u] /\ pc'[u] = pc[u]
  BY StepFrame
<1>2. CASE Quiet(t)
  BY <1>1, <1>2, InvertedKept DEF Quiet
<1>3. CASE Writes(t)
  <2>0. pc[t] \in Flushing \/ pc'[t] \in Flushing => \A u \in Threads \ {t} : pc'[u] \notin Flushing
    BY <1>1 DEF OneFlusher
  <2> HIDE DEF InvertedExact
  <2>1. CASE AssignIds(t) \/ PutLock(t) \/ RemoveLock(t)
    <3>1. Dirty'
      <4>1. CASE AssignIds(t)
        <5>1. Pending(t)'
          BY <4>1 DEF AssignIds, Assign, Goto, TypeOK, Pending
        <5> QED
          BY <5>1 DEF Dirty
      <4>2. CASE PutLock(t) \/ RemoveLock(t)
        BY <4>2, BufferFilled DEF Dirty
      <4> QED
        BY <2>1, <4>1, <4>2
    <3> QED
      BY <3>1 DEF InvertedExact, Rebuilt
  <2>2. CASE EnsureEvent(t) \/ (\E k \in Keys, x \in Names : RemoveIds(t, k, x)) \/ EraseNext(t)
    <3>1. UNCHANGED <<mode, mem, memDel, cache, frozen, fwd>>
      <4>1. CASE EnsureEvent(t)
        BY <4>1 DEF EnsureEvent, dict, buffer, index
      <4>2. CASE \E k \in Keys, x \in Names : RemoveIds(t, k, x)
        BY <4>2 DEF RemoveIds, dict, buffer, index
      <4>3. CASE EraseNext(t)
        BY <4>3 DEF EraseNext, dict, buffer, index
      <4> QED
        BY <2>2, <4>1, <4>2, <4>3
    <3>2. pc[t] \notin Flushing /\ pc'[t] \notin Flushing /\ (Pending(t) => Pending(t)')
      <4>1. CASE EnsureEvent(t)
        BY <4>1 DEF EnsureEvent, Goto, TypeOK, Flushing, Pending
      <4>2. CASE \E k \in Keys, x \in Names : RemoveIds(t, k, x)
        BY <4>2 DEF RemoveIds, Starts, Goto, TypeOK, Flushing, Pending
      <4>3. CASE EraseNext(t)
        <5>1. pc[t] = "erase_next" /\ pc'[t] \in {"erase_next", "ensure"}
          BY <4>3 DEF EraseNext, Goto, TypeOK
        <5> QED
          BY <5>1 DEF Flushing, Pending
      <4> QED
        BY <2>2, <4>1, <4>2, <4>3
    <3> QED
      BY <1>1, <3>1, <3>2, InvertedKept
  <2>3. CASE EraseDict(t)
    <3>1. /\ UNCHANGED <<mode, mem, memDel, cache, frozen>>
          /\ pc[t] = "erase_next" /\ pc'[t] = "answered"
          /\ \A x \in Names : fwd'[x] \in {fwd[x], NoId}
      BY <2>3 DEF EraseDict, Forget, Goto, TypeOK, buffer, index
    <3> QED
      BY <1>1, <3>1, InvertedKept DEF Flushing, Pending
  <2>4. CASE Flush(t) \/ Commit(t) \/ BuildIndex(t)
    <3>1. pc'[t] \in {"commit", "build", "store"}
      BY <2>4 DEF Flush, Commit, BuildIndex, Goto, TypeOK
    <3> QED
      BY <2>0, <3>1, InvertedLater DEF Flushing, Rebuilt
  <2>5. CASE StoreIndex(t)
    <3>1. /\ pc[t] = "store" /\ pc'[t] \in {"resolve", "idle"}
          /\ pc'[t] = "idle" => mode' # "frozen"
      BY <2>5 DEF StoreIndex, Return, Goto, TypeOK
    <3> QED
      BY <2>0, <3>1, InvertedLater DEF Flushing, Rebuilt
  <2>6. CASE ResolveAll(t)
    <3>1. loc'[t].built = NamesAt(cache) /\ pc'[t] = "store_inverted" /\ UNCHANGED <<fwd, cache>>
      BY <2>6 DEF ResolveAll, Goto, TypeOK, Locals, dict, index
    <3>2. cache \in Bitmaps
      BY DEF TypeOK
    <3>3. Exact(loc[t].built)'
      BY <3>1, <3>2, NamesAtExact DEF Exact
    <3> QED
      BY <2>0, <3>1, <3>3, InvertedLater DEF Flushing, Rebuilt
  <2>7. CASE StoreInverted(t)
    <3>1. /\ pc[t] = "store_inverted" /\ pc'[t] = "idle"
          /\ frozen' = loc[t].built
          /\ UNCHANGED <<mem, memDel, cache, fwd>>
      BY <2>7 DEF StoreInverted, Return, Goto, TypeOK, dict, buffer
    <3>2. Exact(loc[t].built) \/ Dirty
      BY <3>1 DEF InvertedExact, Rebuilt
    <3>3. Exact(loc[t].built) => Exact(frozen)'
      BY <3>1 DEF Exact
    <3>4. Dirty => Dirty'
      BY <1>1, <3>1 DEF Dirty, Pending, BufferEmpty
    <3>5. \A u \in Threads : Rebuilt(u)'
      BY <2>0, <3>1 DEF Rebuilt, Flushing
    <3> QED
      BY <3>2, <3>3, <3>4, <3>5 DEF InvertedExact
  <2> QED
    BY <1>3, <2>1, <2>2, <2>3, <2>4, <2>5, <2>6, <2>7 DEF Writes
<1> QED
  BY <1>2, <1>3, WritesOrQuiet

LEMMA PutInverted ==
  ASSUME TypeOK, TypeOK', InvertedExact, NEW t \in Threads, StartPut(t)
  PROVE  InvertedExact'
<1>1. PICK k \in Keys, N \in (SUBSET Names) \ {{}} : PutIds(t, k, N)
  BY DEF StartPut
<1>2. /\ UNCHANGED <<mode, mem, memDel, cache, frozen, fwd>>
      /\ \A u \in Threads \ {t} : loc'[u] = loc[u] /\ pc'[u] = pc[u]
      /\ pc[t] = "idle" /\ pc'[t] \in {"assign", "ensure"}
  BY <1>1 DEF PutIds, Starts, Goto, TypeOK, dict, buffer, index
<1> QED
  BY <1>2, InvertedKept DEF Flushing, Pending

LEMMA CrashInverted ==
  ASSUME TypeOK, TypeOK', DictBijective, CrashAndOpen
  PROVE  InvertedExact'
<1>1. /\ UNCHANGED fwd /\ cache' = stored /\ stored \in Bitmaps
      /\ mode' = "frozen" => frozen' = NamesAt(stored)
      /\ \A u \in Threads : pc'[u] = "idle"
  BY DEF CrashAndOpen, dict, TypeOK
<1>2. mode' = "frozen" => Exact(frozen)'
  BY <1>1, NamesAtExact DEF Exact
<1> QED
  BY <1>1, <1>2 DEF InvertedExact, Rebuilt

-----------------------------------------------------------------------------
(* Calls that have the store to themselves.                                *)

LEMMA ResolvedOne ==
  ASSUME TypeOK, NEW x \in Names
  PROVE  Resolved({x}) = IF fwd[x] = NoId THEN {} ELSE {fwd[x]}
BY DEF Resolved

LEMMA NothingHeld ==
  /\ HeldAt({}) = {}
  /\ \A B : Holding(B, {}) = {}
BY DEF HeldAt, Holding

LEMMA HeldWhenEmpty ==
  ASSUME BufferEmpty, NEW I
  PROVE  HeldAt(I) = Holding(cache, I) /\ Buffered(I) = {} /\ Holding(memDel, I) = {}
BY DEF BufferEmpty, NoBits, HeldAt, Holding, Buffered

LEMMA HeldSplit ==
  ASSUME NEW I
  PROVE  HeldAt(I) = (Holding(cache, I) \cup Buffered(I)) \ Holding(memDel, I)
BY DEF HeldAt, Holding, Buffered

LEMMA BufferedOne ==
  ASSUME NEW i
  PROVE  Buffered({i}) = Holding(mem, {i}) \ Holding(memDel, {i})
BY DEF Holding, Buffered

(* What a lone caller reads in the inverted index when all is flushed.     *)
LEMMA SoloExact ==
  ASSUME TypeOK, InvertedExact, NEW t \in Threads, OthersIdle(t), pc[t] \notin Flushing,
         ~Pending(t), mode = "frozen", BufferEmpty,
         NEW x \in Names
  PROVE  Resolved({x}) # {} => IndexedKeys({x}) = Holding(cache, Resolved({x}))
<1>1. Exact(frozen)
  BY DEF InvertedExact, OthersIdle, Dirty, Pending, Flushing
<1>2. ASSUME fwd[x] # NoId PROVE IndexedKeys({x}) = Holding(cache, {fwd[x]})
  BY <1>1, <1>2 DEF Exact, IndexedKeys, Holding
<1> QED
  BY <1>2, ResolvedOne

(* Steps that only read.                                                   *)
LEMMA ReadOnly ==
  ASSUME UNCHANGED <<mode, events, mem, memDel, cache, known, fwd>>, NEW t \in Threads,
         CallsKnow(pc'[t], loc'[t], clean'[t])
  PROVE  CallsKnow(pc[t], loc[t], clean[t])'
<1> DEFINE I == Resolved(loc[t].names)
           J == Resolved(loc'[t].names)
<1>1. I' = J
  BY DEF Resolved
<1>2. /\ Holding(cache, I)' = Holding(cache, J)
      /\ Holding(memDel, I)' = Holding(memDel, J)
      /\ Holding(cache, loc[t].ids)' = Holding(cache, loc'[t].ids)
      /\ Holding(memDel, loc[t].ids)' = Holding(memDel, loc'[t].ids)
  BY <1>1 DEF Holding
<1>3. Buffered(I)' = Buffered(J) /\ HeldAt(I)' = HeldAt(J)
  BY <1>1 DEF Buffered, HeldAt, Holding
<1>4. (BufferEmpty <=> BufferEmpty') /\ (AllIndexed <=> AllIndexed')
  BY DEF BufferEmpty, AllIndexed
<1> HIDE DEF I, J
<1>5. ContainsKnows(pc[t], loc[t])'
  BY <1>1, <1>2, <1>3, <1>4 DEF CallsKnow, ContainsKnows, I, J
<1>6. FindKnows(pc[t], loc[t], clean[t])'
  BY <1>1, <1>2, <1>3, <1>4 DEF CallsKnow, FindKnows, I, J
<1>7. EraseKnows(pc[t], loc[t], clean[t])'
  BY <1>1, <1>2, <1>3, <1>4 DEF CallsKnow, EraseKnows, I, J
<1> QED
  BY <1>5, <1>6, <1>7 DEF CallsKnow

(* A step of t that leaves alone what the other threads are doing, given   *)
(* what the call knows before it.                                          *)
Lone(t) ==
  /\ OthersIdle(t)
  /\ CallsKnow(pc[t], loc[t], clean[t])
  /\ IF pc[t] = "idle" THEN clean'[t] => BufferEmpty ELSE clean'[t] => clean[t]

LEMMA ContainsBegins ==
  ASSUME TypeOK, InvertedExact, NEW t \in Threads, Lone(t),
         NEW k \in Keys, NEW x \in Names, ContainsIndexed(t, k, x) \/ ContainsBit(t, k, x)
  PROVE  CallsKnow(pc'[t], loc'[t], clean'[t])
<1>1. loc'[t].op = "contains" /\ loc'[t].keys = {k} /\ loc'[t].names = {x}
  <2>1. CASE ContainsIndexed(t, k, x)
    BY <2>1 DEF ContainsIndexed, Blank, TypeOK
  <2>2. CASE ContainsBit(t, k, x)
    BY <2>2 DEF ContainsBit, Blank, TypeOK
  <2> QED
    BY <2>1, <2>2
<1> DEFINE I == Resolved({x})
<1>2. I = IF fwd[x] = NoId THEN {} ELSE {fwd[x]}
  BY ResolvedOne
<1>3. CASE ContainsIndexed(t, k, x)
  <2>1. /\ loc'[t].yes = (x \in frozen[k])
        /\ pc'[t] = IF IndexedKeys({x}) = {} THEN "answered" ELSE "contains_id"
        /\ mode = "frozen" /\ pc[t] = "idle"
    BY <1>3 DEF ContainsIndexed, Blank, TypeOK, Goto, Starts
  <2>2. loc'[t].yes <=> k \in IndexedKeys({x})
    BY <2>1 DEF IndexedKeys
  <2>3. BufferEmpty /\ I # {} => IndexedKeys({x}) = Holding(cache, I)
    BY <2>1, SoloExact DEF Lone, Flushing, Pending
  <2>4. BufferEmpty => HeldAt(I) = Holding(cache, I)
    BY HeldWhenEmpty
  <2>5. I = {} => HeldAt(I) = {}
    BY NothingHeld
  <2> HIDE DEF I
  <2> QED
    BY <1>1, <2>1, <2>2, <2>3, <2>4, <2>5
    DEF CallsKnow, ContainsKnows, FindKnows, EraseKnows, FindSteps, I
<1>4. CASE ContainsBit(t, k, x)
  <2>1. /\ loc'[t].yes = FALSE /\ loc'[t].ids = I
        /\ pc'[t] = IF I = {} THEN "answered" ELSE "bit_buffer"
        /\ mode = "disabled"
    BY <1>4 DEF ContainsBit, Blank, TypeOK, Goto
  <2>2. I = {} => HeldAt(I) = {}
    BY NothingHeld
  <2> HIDE DEF I
  <2> QED
    BY <1>1, <2>1, <2>2
    DEF CallsKnow, ContainsKnows, FindKnows, EraseKnows, FindSteps, I
<1> QED
  BY <1>3, <1>4

(* The last step of contains_id: the answer b.                             *)
LEMMA AnswerKnown ==
  ASSUME TypeOK, NEW t \in Threads, Lone(t), NEW b \in BOOLEAN, Answer(t, b),
         loc[t].op = "contains",
         BufferEmpty \/ mode = "disabled" =>
           (b <=> loc[t].keys \subseteq HeldAt(Resolved(loc[t].names)))
  PROVE  CallsKnow(pc'[t], loc'[t], clean'[t])
<1>1. /\ loc'[t].op = "contains" /\ loc'[t].keys = loc[t].keys /\ loc'[t].names = loc[t].names
      /\ loc'[t].yes = b /\ pc'[t] = "answered"
  BY DEF Answer, Goto, TypeOK, Locals
<1> QED
  BY <1>1 DEF CallsKnow, ContainsKnows, FindKnows, EraseKnows, FindSteps

LEMMA ContainsGoesOn ==
  ASSUME TypeOK, InvertedExact, NEW t \in Threads, Lone(t),
         \/ ContainsGone(t) \/ ContainsLookup(t) \/ ContainsBuffer(t)
         \/ BitBuffered(t) \/ BitBuffer(t) \/ BitCache(t) \/ BitTombstone(t)
  PROVE  CallsKnow(pc'[t], loc'[t], clean'[t])
<1>1. ContainsKnows(pc[t], loc[t]) /\ loc[t] \in Locals
  BY DEF Lone, CallsKnow, TypeOK
<1>2. pc[t] \in {"contains_id", "contains_buffer", "bit_buffer", "bit_cache", "bit_tombstone"}
  BY DEF ContainsGone, ContainsLookup, ContainsBuffer, BitBuffered, BitBuffer, BitCache,
         BitTombstone
<1>3. loc[t].op = "contains"
  BY <1>1, <1>2 DEF ContainsKnows
<1>4. PICK k \in Keys : loc[t].keys = {k}
  BY <1>1, <1>2 DEF ContainsKnows
<1>5. PICK x \in Names : loc[t].names = {x}
  BY <1>1, <1>2 DEF ContainsKnows
<1> DEFINE I == Resolved(loc[t].names)
<1>6. I = IF fwd[x] = NoId THEN {} ELSE {fwd[x]}
  BY <1>5, ResolvedOne
<1>7. Buffered(I) = Holding(mem, I) \ Holding(memDel, I)
  BY <1>6, BufferedOne, NothingHeld DEF Buffered, Holding
<1>8. HeldAt(I) = (Holding(cache, I) \cup Holding(mem, I)) \ Holding(memDel, I)
  BY DEF HeldAt
<1>9. BufferEmpty => HeldAt(I) = Holding(cache, I) /\ Buffered(I) = {} /\ Holding(memDel, I) = {}
  BY HeldWhenEmpty
<1> HIDE DEF I
<1>10. CASE ContainsGone(t)
  <2>1. I = {} /\ Answer(t, FALSE)
    BY <1>10 DEF ContainsGone, I
  <2>2. HeldAt(I) = {}
    BY <2>1, NothingHeld
  <2> QED
    BY <1>3, <1>4, <2>1, <2>2, AnswerKnown DEF I
<1>11. CASE ContainsLookup(t)
  <2>1. /\ loc'[t].op = "contains" /\ loc'[t].keys = loc[t].keys /\ loc'[t].names = loc[t].names
        /\ loc'[t].yes = loc[t].yes /\ loc'[t].ids = I /\ I # {}
        /\ pc[t] = "contains_id" /\ pc'[t] = "contains_buffer"
    BY <1>1, <1>3, <1>11 DEF ContainsLookup, Goto, TypeOK, Locals, I
  <2> QED
    BY <1>1, <1>4, <1>5, <2>1
    DEF CallsKnow, ContainsKnows, FindKnows, EraseKnows, FindSteps, I
<1>12. CASE ContainsBuffer(t)
  <2> DEFINE b == IF loc[t].yes THEN loc[t].keys \cap Holding(memDel, loc[t].ids) = {}
                  ELSE loc[t].keys \cap Buffered(loc[t].ids) # {}
  <2>1. /\ Answer(t, b) /\ b \in BOOLEAN
        /\ mode = "frozen" /\ loc[t].ids = I
        /\ BufferEmpty => (loc[t].yes <=> k \in Holding(cache, I))
    BY <1>1, <1>4, <1>12 DEF ContainsBuffer, ContainsKnows, I
  <2>2. BufferEmpty \/ mode = "disabled" => (b <=> loc[t].keys \subseteq HeldAt(I))
    BY <1>4, <1>9, <2>1
  <2> QED
    BY <1>3, <2>1, <2>2, AnswerKnown DEF I
<1>13. CASE BitBuffered(t)
  <2>1. Answer(t, TRUE) /\ loc[t].keys \cap Buffered(I) # {}
    BY <1>1, <1>13 DEF BitBuffered, ContainsKnows, I
  <2>2. loc[t].keys \subseteq HeldAt(I)
    BY <1>4, <1>7, <1>8, <2>1
  <2> QED
    BY <1>3, <2>1, <2>2, AnswerKnown DEF I
<1>14. CASE BitBuffer(t)
  <2>1. /\ loc'[t] = loc[t] /\ pc'[t] = "bit_cache" /\ loc[t].ids = I /\ I # {}
        /\ loc[t].keys \cap Buffered(I) = {}
    BY <1>1, <1>14 DEF BitBuffer, Goto, TypeOK, ContainsKnows, I
  <2> QED
    BY <1>3, <1>4, <1>5, <2>1
    DEF CallsKnow, ContainsKnows, FindKnows, EraseKnows, FindSteps, I
<1>15. CASE BitCache(t) /\ loc[t].keys \cap Holding(cache, loc[t].ids) = {}
  <2>1. /\ Answer(t, FALSE) /\ loc[t].keys \cap Holding(cache, I) = {}
        /\ loc[t].keys \cap Buffered(I) = {}
    BY <1>1, <1>15 DEF BitCache, ContainsKnows, I
  <2>2. ~(loc[t].keys \subseteq HeldAt(I))
    BY <1>4, <1>7, <1>8, <2>1
  <2> QED
    BY <1>3, <2>1, <2>2, AnswerKnown DEF I
<1>16. CASE BitCache(t) /\ loc[t].keys \cap Holding(cache, loc[t].ids) # {}
  <2>0. loc[t].ids = I /\ I # {}
    BY <1>1, <1>16 DEF BitCache, ContainsKnows, I
  <2>1. /\ loc'[t] = loc[t] /\ pc'[t] = "bit_tombstone" /\ loc[t].ids = I /\ I # {}
        /\ loc[t].keys \subseteq Holding(cache, I)
    BY <2>0, <1>4, <1>16 DEF BitCache, Goto, TypeOK
  <2> QED
    BY <1>3, <1>4, <1>5, <2>1
    DEF CallsKnow, ContainsKnows, FindKnows, EraseKnows, FindSteps, I
<1>17. CASE BitTombstone(t)
  <2> DEFINE b == loc[t].keys \cap Holding(memDel, I) = {}
  <2>1. Answer(t, b) /\ b \in BOOLEAN /\ loc[t].keys \subseteq Holding(cache, I)
    BY <1>1, <1>17 DEF BitTombstone, ContainsKnows, I
  <2>2. b <=> loc[t].keys \subseteq HeldAt(I)
    BY <1>4, <1>8, <2>1
  <2> QED
    BY <1>3, <2>1, <2>2, AnswerKnown DEF I
<1> QED
  BY <1>10, <1>11, <1>12, <1>13, <1>14, <1>15, <1>16, <1>17

(* The last step of find_memberships, which found K: the answer, or what   *)
(* delete_entity has to erase.                                             *)
LEMMA FoundKnown ==
  ASSUME TypeOK, NEW t \in Threads, Lone(t), NEW K \in SUBSET Keys, Found(t, K),
         pc[t] \in FindSteps,
         AllIndexed => K = HeldAt(Resolved(loc[t].names))
  PROVE  CallsKnow(pc'[t], loc'[t], clean'[t])
<1> DEFINE I == Resolved(loc[t].names)
<1>1. /\ loc[t].op \in {"find", "erase"} /\ (clean'[t] => BufferEmpty)
      /\ loc[t] \in Locals
  BY DEF Lone, CallsKnow, FindKnows, FindSteps, TypeOK
<1>2. /\ loc'[t].op = loc[t].op /\ loc'[t].names = loc[t].names /\ loc'[t].found = K
      /\ pc'[t] = IF loc[t].op = "find" THEN "answered" ELSE "erase_next"
  BY <1>1 DEF Found, Goto, TypeOK, Locals
<1>3. clean'[t] => mem = NoBits /\ K = Holding(cache, I)
  BY <1>1, HeldWhenEmpty DEF AllIndexed, BufferEmpty
<1> HIDE DEF I
<1>4. ContainsKnows(pc'[t], loc'[t])
  BY <1>1, <1>2 DEF ContainsKnows
<1>5. FindKnows(pc'[t], loc'[t], clean'[t])
  BY <1>1, <1>2 DEF FindKnows, FindSteps
<1>6. EraseKnows(pc'[t], loc'[t], clean'[t])
  BY <1>1, <1>2, <1>3 DEF EraseKnows, I
<1> QED
  BY <1>4, <1>5, <1>6 DEF CallsKnow

LEMMA FindBegins ==
  ASSUME TypeOK, NEW t \in Threads, Lone(t), NEW x \in Names, FindMemberships(t, x)
  PROVE  CallsKnow(pc'[t], loc'[t], clean'[t])
<1>1. PICK op \in {"find", "erase"} : Starts(t, op) /\ Call(t, op, {}, {x})
  BY DEF FindMemberships
<1>2. /\ loc'[t].op = op /\ loc'[t].names = {x} /\ pc'[t] = "find"
      /\ clean'[t] => BufferEmpty
  BY <1>1 DEF FindMemberships, Starts, Call, Blank, Goto, TypeOK, Lone
<1> QED
  BY <1>2 DEF CallsKnow, ContainsKnows, FindKnows, EraseKnows, FindSteps

LEMMA FindFrozen ==
  ASSUME TypeOK, InvertedExact, NEW t \in Threads, Lone(t),
         \/ FilteredOut(t) \/ FindInIndex(t) \/ FindBuffer(t) \/ FindGone(t) \/ FindCheck(t)
         \/ FindTombstones(t)
  PROVE  CallsKnow(pc'[t], loc'[t], clean'[t])
<1> DEFINE I == Resolved(loc[t].names)
<1>1. FindKnows(pc[t], loc[t], clean[t]) /\ loc[t] \in Locals
  BY DEF Lone, CallsKnow, TypeOK
<1>2. /\ pc[t] \in {"find", "find_buffer", "find_check", "find_tombstones"}
      /\ mode = "frozen" /\ (AllIndexed <=> BufferEmpty)
  BY <1>1 DEF FilteredOut, FindInIndex, FindBuffer, FindGone, FindCheck, FindTombstones, FindKnows,
              AllIndexed
<1>3. /\ loc[t].op \in {"find", "erase"} /\ (clean[t] => BufferEmpty)
      /\ pc[t] # "idle" /\ (clean'[t] => BufferEmpty)
  BY <1>1, <1>2 DEF FindKnows, FindSteps, Lone
<1>4. pc[t] = "find" /\ BufferEmpty /\ I # {} => IndexedKeys(loc[t].names) = Holding(cache, I)
  <2>1. ASSUME pc[t] = "find", BufferEmpty
        PROVE  I # {} => IndexedKeys(loc[t].names) = Holding(cache, I)
    <3>1. PICK x \in Names : loc[t].names = {x}
      BY <1>1, <2>1 DEF FindKnows
    <3> QED
      BY <1>2, <2>1, <3>1, SoloExact DEF Lone, Flushing, Pending
  <2> QED
    BY <2>1
<1>5. BufferEmpty => HeldAt(I) = Holding(cache, I) /\ Buffered(I) = {} /\ Holding(memDel, I) = {}
  BY HeldWhenEmpty
<1>6. I = {} => HeldAt(I) = {}
  BY NothingHeld
<1> HIDE DEF I
<1>7. CASE FilteredOut(t)
  <2>1. Found(t, {}) /\ pc[t] = "find" /\ IndexedKeys(loc[t].names) = {}
    BY <1>7 DEF FilteredOut
  <2>2. AllIndexed => {} = HeldAt(I)
    BY <1>2, <1>4, <1>5, <1>6, <2>1
  <2> QED
    BY <2>1, <2>2, FoundKnown DEF FindSteps, I
<1>8. CASE FindInIndex(t)
  <2>1. /\ loc'[t].op = loc[t].op /\ loc'[t].names = loc[t].names
        /\ loc'[t].found = IndexedKeys(loc[t].names) /\ pc[t] = "find" /\ pc'[t] = "find_buffer"
    BY <1>1, <1>8 DEF FindInIndex, Goto, TypeOK, Locals
  <2> QED
    BY <1>2, <1>3, <1>4, <2>1
    DEF CallsKnow, ContainsKnows, FindKnows, EraseKnows, FindSteps, I
<1>9. CASE FindBuffer(t)
  <2>1. /\ loc'[t].op = loc[t].op /\ loc'[t].names = loc[t].names
        /\ loc'[t].found = loc[t].found \cup Buffered(I)
        /\ pc[t] = "find_buffer" /\ pc'[t] = "find_check"
    BY <1>1, <1>9 DEF FindBuffer, Goto, TypeOK, Locals, I
  <2>2. BufferEmpty /\ I # {} => loc'[t].found = Holding(cache, I)
    BY <1>1, <1>5, <2>1 DEF FindKnows, I
  <2> QED
    BY <1>2, <1>3, <2>1, <2>2
    DEF CallsKnow, ContainsKnows, FindKnows, EraseKnows, FindSteps, I
<1>10. CASE FindGone(t)
  <2>1. Found(t, {}) /\ pc[t] = "find_check" /\ I = {}
    BY <1>10 DEF FindGone, I
  <2> QED
    BY <1>6, <2>1, FoundKnown DEF FindSteps, I
<1>11. CASE FindCheck(t)
  <2>1. /\ loc'[t].op = loc[t].op /\ loc'[t].names = loc[t].names
        /\ loc'[t].found = loc[t].found /\ loc'[t].ids = I /\ I # {}
        /\ pc[t] = "find_check" /\ pc'[t] = "find_tombstones"
    BY <1>1, <1>11 DEF FindCheck, Goto, TypeOK, Locals, I
  <2>2. BufferEmpty /\ I # {} => loc[t].found = Holding(cache, I)
    BY <1>1, <2>1 DEF FindKnows, I
  <2> QED
    BY <1>2, <1>3, <2>1, <2>2
    DEF CallsKnow, ContainsKnows, FindKnows, EraseKnows, FindSteps, I
<1>12. CASE FindTombstones(t)
  <2>1. /\ Found(t, loc[t].found \ Holding(memDel, I)) /\ pc[t] = "find_tombstones"
        /\ BufferEmpty => loc[t].found = Holding(cache, I)
        /\ loc[t].found \ Holding(memDel, I) \in SUBSET Keys
    BY <1>1, <1>12, FieldTypes DEF FindTombstones, FindKnows, I
  <2>2. AllIndexed => loc[t].found \ Holding(memDel, I) = HeldAt(I)
    BY <1>2, <1>5, <2>1
  <2> QED
    BY <2>1, <2>2, FoundKnown DEF FindSteps, I
<1> QED
  BY <1>7, <1>8, <1>9, <1>10, <1>11, <1>12

LEMMA FindScan ==
  ASSUME TypeOK, EventsKnown, NEW t \in Threads, Lone(t),
         FindLoad(t) \/ FindNothing(t) \/ FindId(t) \/ FindOverlay(t)
  PROVE  CallsKnow(pc'[t], loc'[t], clean'[t])
<1> DEFINE I == Resolved(loc[t].names)
           L == {k \in Keys : EventOf[k] \in loc[t].events}
<1>1. FindKnows(pc[t], loc[t], clean[t]) /\ loc[t] \in Locals
  BY DEF Lone, CallsKnow, TypeOK
<1>2. pc[t] \in {"find", "find_id", "find_overlay"} /\ mode = "disabled"
  BY <1>1 DEF FindLoad, FindNothing, FindId, FindOverlay, FindKnows
<1>3. /\ loc[t].op \in {"find", "erase"} /\ (clean[t] => BufferEmpty)
      /\ pc[t] # "idle" /\ (clean'[t] => BufferEmpty)
  BY <1>1, <1>2 DEF FindKnows, FindSteps, Lone
<1>4. I = {} => HeldAt(I) = {}
  BY NothingHeld
<1>5. loc[t].events = known =>
        /\ Holding(cache, I) \subseteq L
        /\ AllIndexed => Holding(mem, I) \subseteq L
  <2>1. \A k \in Holding(cache, I) : cache[k] # {}
    BY DEF Holding
  <2>2. \A k \in Holding(mem, I) : mem[k] # {} /\ mem # NoBits
    BY DEF Holding, NoBits
  <2> HIDE DEF I
  <2> QED
    BY <2>1, <2>2 DEF EventsKnown, AllIndexed, BufferEmpty, Holding
<1>6. /\ Buffered(I) \subseteq Keys
      /\ HeldAt(I) = (Holding(cache, I) \cup Buffered(I)) \ Holding(memDel, I)
      /\ HeldAt(I) = (Holding(cache, I) \cup Holding(mem, I)) \ Holding(memDel, I)
  BY HeldSplit DEF Buffered, HeldAt
<1>7. InEvents(t) = L
  BY DEF InEvents
<1> HIDE DEF I
<1>8. CASE FindLoad(t)
  <2>1. /\ loc'[t].op = loc[t].op /\ loc'[t].names = loc[t].names
        /\ loc'[t].bits = cache /\ loc'[t].events = known
        /\ pc[t] = "find" /\ pc'[t] = "find_id"
    BY <1>1, <1>8 DEF FindLoad, Goto, TypeOK, Locals
  <2> QED
    BY <1>2, <1>3, <2>1
    DEF CallsKnow, ContainsKnows, FindKnows, EraseKnows, FindSteps
<1>9. CASE FindNothing(t)
  <2>1. /\ Found(t, {}) /\ pc[t] = "find_id" /\ loc[t].events = known
        /\ loc[t].events = {} \/ I = {}
    BY <1>1, <1>9 DEF FindNothing, FindKnows, I
  <2>2. AllIndexed => {} = HeldAt(I)
    <3>1. CASE loc[t].events = {}
      <4>1. L = {}
        BY <3>1
      <4> QED
        BY <4>1, <1>5, <1>6, <2>1
    <3> QED
      BY <2>1, <3>1, <1>4
  <2> QED
    BY <2>1, <2>2, FoundKnown DEF FindSteps, I
<1>10. CASE FindId(t)
  <2>1. /\ loc'[t].op = loc[t].op /\ loc'[t].names = loc[t].names
        /\ loc'[t].events = loc[t].events /\ loc'[t].ids = I
        /\ loc'[t].found = L \cap Holding(loc[t].bits, I)
        /\ pc[t] = "find_id" /\ pc'[t] = "find_overlay"
    BY <1>1, <1>7, <1>10 DEF FindId, Goto, TypeOK, Locals, I
  <2>2. loc[t].bits = cache /\ loc[t].events = known
    BY <1>1, <2>1 DEF FindKnows
  <2> QED
    BY <1>2, <1>3, <2>1, <2>2
    DEF CallsKnow, ContainsKnows, FindKnows, EraseKnows, FindSteps, I
<1>11. CASE FindOverlay(t)
  <2>1. /\ pc[t] = "find_overlay" /\ loc[t].ids = I /\ loc[t].events = known
        /\ loc[t].found = L \cap Holding(cache, I)
    BY <1>1, <1>11 DEF FindOverlay, FindKnows, I
  <2> DEFINE K == (loc[t].found \cup (L \cap Buffered(I))) \ Holding(memDel, I)
  <2>2. Found(t, K) /\ K \in SUBSET Keys
    BY <1>6, <1>7, <1>11, <2>1 DEF FindOverlay, Holding
  <2>3. AllIndexed => K = HeldAt(I)
    <3>1. Buffered(I) \subseteq Holding(mem, I)
      BY DEF Buffered, Holding
    <3> QED
      BY <1>5, <1>6, <2>1, <3>1
  <2> HIDE DEF K
  <2> QED
    BY <2>1, <2>2, <2>3, FoundKnown DEF FindSteps, I
<1> QED
  BY <1>8, <1>9, <1>10, <1>11

(* A call that is not at a step of these three.                            *)
LEMMA NothingToKnow ==
  ASSUME NEW t \in Threads,
         pc'[t] \notin Asking,
         pc'[t] \in {"ensure", "remove_lock"} => loc'[t].op # "erase",
         pc'[t] = "answered" => loc'[t].op \notin {"contains", "find", "erase"}
  PROVE  CallsKnow(pc[t], loc[t], clean[t])'
BY DEF CallsKnow, ContainsKnows, FindKnows, EraseKnows, FindSteps, Asking

LEMMA EraseNextKnown ==
  ASSUME TypeOK, NEW t \in Threads, Lone(t), EraseNext(t)
  PROVE  CallsKnow(pc'[t], loc'[t], clean'[t])
<1> DEFINE I == Resolved(loc[t].names)
<1>1. /\ pc[t] = "erase_next" /\ loc[t] \in Locals /\ loc[t].op = "erase"
      /\ clean'[t] => mem = NoBits /\ Holding(cache, I) \subseteq loc[t].found \cup Holding(memDel, I)
  BY DEF EraseNext, TypeOK, Lone, CallsKnow, EraseKnows
<1>2. Holding(cache, {}) = {}
  BY NothingHeld
<1> HIDE DEF I
<1>3. CASE I = {}
  <2>1. PICK k \in loc[t].found : loc' = [loc EXCEPT ![t].found = @ \ {k}] /\ UNCHANGED pc
    BY <1>3 DEF EraseNext, I
  <2>2. loc'[t].op = "erase" /\ loc'[t].names = loc[t].names /\ pc'[t] = "erase_next"
    BY <1>1, <2>1 DEF TypeOK, Locals
  <2> QED
    BY <1>1, <1>2, <1>3, <2>2 DEF CallsKnow, ContainsKnows, FindKnows, EraseKnows, FindSteps, I
<1>4. CASE I # {}
  <2>1. PICK k \in loc[t].found :
          /\ loc' = [loc EXCEPT ![t].found = @ \ {k}, ![t].keys = {k}, ![t].ids = I]
          /\ pc' = [pc EXCEPT ![t] = "ensure"]
    BY <1>4, NextErased, Zenon DEF I
  <2>2. /\ loc'[t].op = "erase" /\ loc'[t].names = loc[t].names /\ pc'[t] = "ensure"
        /\ loc'[t].found = loc[t].found \ {k} /\ loc'[t].keys = {k} /\ loc'[t].ids = I
    BY <1>1, <2>1 DEF TypeOK, Locals
  <2>3. loc[t].found \subseteq loc'[t].found \cup loc'[t].keys
    BY <2>2
  <2>4. EraseKnows(pc'[t], loc'[t], clean'[t])
    BY <1>1, <2>2, <2>3 DEF EraseKnows, I
  <2> QED
    BY <2>2, <2>4 DEF CallsKnow, ContainsKnows, FindKnows, FindSteps
<1> QED
  BY <1>3, <1>4

LEMMA EraseWrites ==
  ASSUME TypeOK, EventsKnown, NEW t \in Threads, Lone(t), loc[t].op = "erase",
         EnsureEvent(t) \/ RemoveLock(t)
  PROVE  CallsKnow(pc[t], loc[t], clean[t])'
<1> DEFINE I == Resolved(loc[t].names)
<1>1. /\ pc[t] \in {"ensure", "remove_lock"} /\ loc[t] \in Locals
      /\ UNCHANGED <<loc, fwd, mem, cache>>
  BY DEF EnsureEvent, RemoveLock, TypeOK, dict, buffer, index
<1>2. clean'[t] =>
        /\ mem = NoBits /\ loc[t].ids = I
        /\ Holding(cache, I) \subseteq loc[t].found \cup loc[t].keys \cup Holding(memDel, I)
  BY <1>1 DEF Lone, CallsKnow, EraseKnows
<1>3. I' = I /\ Holding(cache, I)' = Holding(cache, I)
  BY <1>1 DEF Resolved, Holding
<1> HIDE DEF I
<1>4. CASE EnsureEvent(t)
  <2>1. pc'[t] = "remove_lock" /\ Holding(memDel, I)' = Holding(memDel, I)
    BY <1>3, <1>4 DEF EnsureEvent, Goto, TypeOK, buffer, Holding
  <2> QED
    BY <1>1, <1>2, <1>3, <2>1 DEF CallsKnow, ContainsKnows, FindKnows, EraseKnows, FindSteps, I
<1>5. CASE RemoveLock(t)
  <2>1. pc'[t] = "erase_next" /\ pc[t] = "remove_lock"
    BY <1>5 DEF RemoveLock, Goto, TypeOK
  <2>2. /\ \A k \in Keys : memDel[k] \subseteq memDel'[k]
        /\ \A k \in loc[t].keys : k \in Keys /\ loc[t].ids \subseteq memDel'[k]
        /\ loc[t].ids # {}
    BY <1>1, <1>5, <2>1, FieldTypes DEF RemoveLock, EventsKnown, CallKnows, Pending
  <2>3. clean'[t] => loc[t].keys \cup Holding(memDel, I) \subseteq Holding(memDel, I)'
    BY <1>2, <1>3, <2>2 DEF Holding
  <2> QED
    BY <1>1, <1>2, <1>3, <2>1, <2>3
    DEF CallsKnow, ContainsKnows, FindKnows, EraseKnows, FindSteps, I
<1> QED
  BY <1>4, <1>5

LEMMA EraseEnds ==
  ASSUME TypeOK, NEW t \in Threads, Lone(t), EraseDict(t)
  PROVE  CallsKnow(pc[t], loc[t], clean[t])'
<1> DEFINE I == Resolved(loc[t].names)
<1>1. /\ loc[t] \in Locals /\ pc[t] = "erase_next" /\ loc[t].op = "erase" /\ loc[t].found = {}
      /\ clean'[t] => mem = NoBits /\ Holding(cache, I) \subseteq Holding(memDel, I)
  BY DEF EraseDict, TypeOK, Lone, CallsKnow, EraseKnows
<1>2. /\ loc'[t].op = "erase" /\ loc'[t].ids = I /\ pc'[t] = "answered"
      /\ UNCHANGED <<mem, memDel, cache>>
  BY <1>1 DEF EraseDict, Forget, Goto, TypeOK, Locals, buffer, index
<1>3. /\ Holding(cache, loc[t].ids)' = Holding(cache, I)
      /\ Holding(memDel, loc[t].ids)' = Holding(memDel, I)
  BY <1>2 DEF Holding
<1> HIDE DEF I
<1> QED
  BY <1>1, <1>2, <1>3 DEF CallsKnow, ContainsKnows, FindKnows, EraseKnows, FindSteps

LEMMA LoneStep ==
  ASSUME TypeOK, TypeOK', BitsOwned, EventsKnown, InvertedExact, NEW t \in Threads, Lone(t), Step(t)
  PROVE  CallsKnow(pc[t], loc[t], clean[t])'
<1>0. loc[t] \in Locals /\ pc \in [Threads -> Labels]
  BY DEF TypeOK
<1> DEFINE Goal == CallsKnow(pc[t], loc[t], clean[t])'
<1>1. ASSUME pc'[t] \in {"idle", "assign", "put_lock", "get_bits", "get_names", "commit", "build",
                         "store", "resolve", "store_inverted"}
      PROVE  Goal
  BY <1>1, NothingToKnow DEF Asking
<1>2. ASSUME CallsKnow(pc'[t], loc'[t], clean'[t]), Quiet(t) \/ EraseNext(t) PROVE Goal
  <2>1. Quiet(t) => UNCHANGED <<mode, events, mem, memDel, cache, known, fwd>>
    BY DEF Quiet
  <2>2. EraseNext(t) => UNCHANGED <<mode, events, mem, memDel, cache, known, fwd>>
    BY DEF EraseNext, dict, buffer, index
  <2> QED
    BY <1>2, <2>1, <2>2, ReadOnly
<1> HIDE DEF Goal
<1> SUFFICES Goal
  BY DEF Goal
<1>3. CASE AssignFails(t) \/ Done(t) \/ PutLock(t) \/ StoreInverted(t)
  BY <1>0, <1>1, <1>3 DEF AssignFails, Done, PutLock, StoreInverted, Return, Goto
<1>4. CASE (\E k \in Keys : GetIds(t, k)) \/ GetBits(t)
  <2>1. CASE \E k \in Keys : GetIds(t, k)
    BY <1>0, <1>1, <2>1 DEF GetIds, Goto
  <2>2. CASE GetBits(t)
    BY <1>0, <1>1, <2>2 DEF GetBits, Goto
  <2> QED
    BY <1>4, <2>1, <2>2
<1>5. CASE GetNames(t)
  <2>1. loc[t].op = "get"
    BY <1>5 DEF GetNames, BitsOwned, CarriesOwned
  <2>2. loc'[t].op = "get" /\ pc'[t] = "answered"
    BY <1>0, <1>5, <2>1 DEF GetNames, Goto, TypeOK, Locals
  <2> QED
    BY <2>2, NothingToKnow DEF Asking, Goal
<1>6. CASE AssignIds(t)
  <2>1. pc'[t] = "ensure" /\ pc[t] = "assign"
    BY <1>0, <1>6 DEF AssignIds, Assign, Goto
  <2>2. loc[t].op = "put"
    BY <2>1 DEF BitsOwned, CarriesOwned
  <2>3. loc'[t].op = "put"
    BY <1>0, <1>6, <2>2 DEF AssignIds, Assign, TypeOK, Locals
  <2> QED
    BY <2>1, <2>3, NothingToKnow DEF Asking, Goal
<1>7. ASSUME NEW k \in Keys, NEW x \in Names, RemoveIds(t, k, x) PROVE Goal
  <2>1. pc'[t] = "ensure" /\ loc'[t].op = "remove"
    BY <1>7 DEF RemoveIds, Blank, Goto, TypeOK
  <2> QED
    BY <2>1, NothingToKnow DEF Asking, Goal
<1>8. CASE EnsureEvent(t) \/ RemoveLock(t)
  <2>1. CASE loc[t].op = "erase"
    BY <1>8, <2>1, EraseWrites DEF Goal
  <2>2. CASE loc[t].op # "erase" /\ RemoveLock(t)
    BY <1>0, <1>1, <2>2 DEF RemoveLock, Return, Goto
  <2>3. CASE loc[t].op = "put" /\ EnsureEvent(t)
    BY <1>0, <1>1, <2>3 DEF EnsureEvent, Goto
  <2>4. CASE loc[t].op \notin {"erase", "put"} /\ EnsureEvent(t)
    <3>1. pc'[t] = "remove_lock" /\ loc'[t] = loc[t]
      BY <1>0, <2>4 DEF EnsureEvent, Goto
    <3> QED
      BY <2>4, <3>1, NothingToKnow DEF Asking, Goal
  <2> QED
    BY <1>8, <2>1, <2>2, <2>3, <2>4
<1>9. CASE EraseNext(t)
  BY <1>2, <1>9, EraseNextKnown
<1>10. CASE EraseDict(t)
  BY <1>10, EraseEnds DEF Goal
<1>11. CASE Flush(t) \/ Commit(t) \/ BuildIndex(t) \/ StoreIndex(t) \/ ResolveAll(t)
  <2>1. pc'[t] \in {"idle", "commit", "build", "store", "resolve", "store_inverted"}
    BY <1>0, <1>11 DEF Flush, Commit, BuildIndex, StoreIndex, ResolveAll, Return, Goto
  <2> QED
    BY <1>1, <2>1
<1>12. CASE ~Writes(t)
  <2>1. \/ CallsKnow(pc'[t], loc'[t], clean'[t])
        \/ AssignFails(t) \/ Done(t) \/ (\E k \in Keys : GetIds(t, k)) \/ GetBits(t) \/ GetNames(t)
    BY <1>12, ContainsBegins, ContainsGoesOn, FindBegins, FindFrozen, FindScan DEF Step, Writes
  <2> QED
    BY <1>2, <1>3, <1>4, <1>5, <1>12, <2>1, WritesOrQuiet
<1> QED
  BY <1>3, <1>6, <1>7, <1>8, <1>9, <1>10, <1>11, <1>12 DEF Writes, Goal

(* What a step does to the history of the calls.                           *)
LEMMA SoloStep ==
  ASSUME TypeOK, TypeOK', BitsOwned, EventsKnown, InvertedExact, SoloKnows,
         NEW t \in Threads, Step(t) \/ StartPut(t), Observe(t)
  PROVE  SoloKnows'
<1>1. \A u \in Threads \ {t} : loc'[u] = loc[u] /\ pc'[u] = pc[u]
  <2>1. CASE Step(t)
    BY <2>1, StepFrame
  <2>2. CASE StartPut(t)
    <3>1. PICK k \in Keys, N \in (SUBSET Names) \ {{}} : PutIds(t, k, N)
      BY <2>2 DEF StartPut
    <3> QED
      BY <3>1 DEF PutIds, Goto, TypeOK
  <2> QED
    BY <2>1, <2>2
<1>2. /\ \A u \in Threads \ {t} : ~alone'[u]
      /\ alone'[t] = IF pc[t] = "idle" THEN OthersIdle(t) ELSE alone[t] /\ pc'[t] # "idle"
  BY DEF Observe
<1> DEFINE b == IF pc[t] = "idle" THEN BufferEmpty ELSE clean[t] /\ pc'[t] # "idle"
<1>5. b \in BOOLEAN
  BY DEF SoloKnows, BufferEmpty
<1>6. clean' = [clean EXCEPT ![t] = b]
  BY Zenon DEF Observe
<1>4. clean' \in [Threads -> BOOLEAN] /\ clean'[t] = b
  <2>1. clean \in [Threads -> BOOLEAN]
    BY DEF SoloKnows
  <2> HIDE DEF b
  <2> QED
    BY <1>5, <1>6, <2>1
<1>3. ASSUME alone'[t]
      PROVE  OthersIdle(t)' /\ CallsKnow(pc[t], loc[t], clean[t])'
  <2>1. OthersIdle(t) /\ CallsKnow(pc[t], loc[t], clean[t])
    <3>1. CASE pc[t] = "idle"
      BY <1>2, <1>3, <3>1
      DEF CallsKnow, ContainsKnows, FindKnows, EraseKnows, FindSteps
    <3>2. CASE pc[t] # "idle"
      BY <1>2, <1>3, <3>2 DEF SoloKnows
    <3> QED
      BY <3>1, <3>2
  <2>2. OthersIdle(t)'
    BY <1>1, <2>1 DEF OthersIdle
  <2>3. CASE StartPut(t)
    <3>1. PICK k \in Keys, N \in (SUBSET Names) \ {{}} : PutIds(t, k, N)
      BY <2>3 DEF StartPut
    <3>2. loc'[t].op = "put" /\ pc'[t] \in {"assign", "ensure"}
      BY <3>1 DEF PutIds, Goto, Blank, TypeOK
    <3> QED
      BY <2>2, <3>2, NothingToKnow DEF Asking
  <2>4. CASE Step(t)
    <3>1. IF pc[t] = "idle" THEN clean'[t] => BufferEmpty ELSE clean'[t] => clean[t]
      BY <1>4
    <3> QED
      BY <2>1, <2>2, <2>4, <3>1, LoneStep DEF Lone
  <2> QED
    BY <2>3, <2>4
<1> QED
  BY <1>2, <1>3, <1>4 DEF SoloKnows

-----------------------------------------------------------------------------
(* The theorems.                                                           *)

MembersKnown == EventsKnown /\ InvertedExact /\ SoloKnows

LEMMA MembersInit == HInit => MembersKnown
<1> SUFFICES ASSUME HInit PROVE MembersKnown
  OBVIOUS
<1>1. clean \in [Threads -> BOOLEAN] /\ \A t \in Threads : pc[t] = "idle" /\ ~alone[t]
  BY DEF HInit, Init
<1>2. EventsKnown
  BY <1>1 DEF HInit, Init, EventsKnown, CallKnows, Pending, NoBits
<1>3. InvertedExact
  BY <1>1 DEF HInit, Init, InvertedExact, Rebuilt, Exact
<1> QED
  BY <1>1, <1>2, <1>3 DEF MembersKnown, SoloKnows

LEMMA MembersStep ==
  ASSUME TypeOK, TypeOK', DictBijective, BitsOwned, MembersKnown, OneFlusher, OneFlusher',
         [HNext]_hvars
  PROVE  MembersKnown'
<1> USE DEF MembersKnown
<1>1. ASSUME NEW t \in Threads, HPut(t) PROVE MembersKnown'
  <2>1. StartPut(t) /\ Observe(t)
    BY <1>1 DEF HPut, StartPut
  <2> QED
    BY <2>1, PutEvents, PutInverted, SoloStep
<1>2. ASSUME NEW t \in Threads, HStep(t) PROVE MembersKnown'
  <2>1. Step(t) /\ Observe(t)
    BY <1>2 DEF HStep
  <2> QED
    BY <2>1, EventsStep, InvertedStep, SoloStep
<1>3. CASE HCrash
  <2>1. /\ CrashAndOpen /\ clean' \in [Threads -> BOOLEAN]
        /\ \A t \in Threads : ~alone'[t]
    BY <1>3 DEF HCrash
  <2> QED
    BY <2>1, CrashEvents, CrashInverted DEF SoloKnows
<1>4. CASE UNCHANGED hvars
  <2>1. UNCHANGED <<mode, fwd, rev, nextId, events, stored, mem, memDel, cache, known, frozen>>
        /\ UNCHANGED <<pc, loc, alone, clean>>
    BY <1>4 DEF hvars, history, vars, dict, buffer, index
  <2>2. EventsKnown'
    BY <2>1 DEF EventsKnown, CallKnows, Pending
  <2>3. InvertedExact'
    BY <2>1 DEF InvertedExact, Rebuilt, Exact, Dirty, Pending, BufferEmpty
  <2>4. ASSUME NEW t \in Threads, alone'[t]
        PROVE  OthersIdle(t)' /\ CallsKnow(pc[t], loc[t], clean[t])'
    <3>1. OthersIdle(t) /\ CallsKnow(pc'[t], loc'[t], clean'[t])
      BY <2>1, <2>4 DEF SoloKnows
    <3>2. OthersIdle(t)'
      BY <2>1, <3>1 DEF OthersIdle
    <3> QED
      BY <2>1, <3>1, <3>2, ReadOnly
  <2>5. clean' \in [Threads -> BOOLEAN]
    BY <2>1 DEF SoloKnows
  <2> QED
    BY <2>2, <2>3, <2>4, <2>5 DEF SoloKnows
<1> QED
  BY <1>1, <1>2, <1>3, <1>4 DEF HNext

LEMMA MembersHold == HSpec /\ []OneFlusher => []MembersKnown
<1>1. /\ TypeOK /\ TypeOK' /\ DictBijective /\ BitsOwned /\ OneFlusher /\ OneFlusher'
      /\ MembersKnown /\ [HNext]_hvars
      => MembersKnown'
  BY MembersStep
<1>2. HSpec => []TypeOK /\ []DictBijective /\ []BitsOwned
  BY HistoryFollows, TypeCorrect, Bijective, EveryBitOwned, PTL
<1> QED
  BY MembersInit, <1>1, <1>2, PTL DEF HSpec

(* contains_id and find_memberships answer exactly when no other call runs *)
(* meanwhile, with the inverted index as long as everything is flushed:    *)
(* whatever puts, erasures, flushes and crashes raced before, if no two    *)
(* flushes did.                                                            *)
THEOREM AnswersAreExact == HSpec /\ []OneFlusher => []AnswersExact
<1>1. MembersKnown => AnswersExact
  <2> SUFFICES ASSUME MembersKnown, NEW t \in Threads, pc[t] = "answered", alone[t]
               PROVE  LET held == HeldAt(Resolved(loc[t].names)) IN
                      /\ loc[t].op = "contains" /\ (AllIndexed \/ mode = "disabled")
                           => (loc[t].yes <=> loc[t].keys \subseteq held)
                      /\ loc[t].op = "find" /\ AllIndexed => loc[t].found = held
    BY DEF AnswersExact, AnsweredAlone
  <2>1. ContainsKnows(pc[t], loc[t]) /\ FindKnows(pc[t], loc[t], clean[t])
    BY DEF MembersKnown, SoloKnows, CallsKnow
  <2> QED
    BY <2>1 DEF ContainsKnows, FindKnows, AllIndexed
<1> QED
  BY <1>1, MembersHold, PTL

(* delete_entity leaves no live bit of an entity that was flushed when it  *)
(* began, in either mode, as long as no other call ran meanwhile.          *)
THEOREM ErasureIsComplete == HSpec /\ []OneFlusher => []FlushedAreErased
<1>1. MembersKnown => FlushedAreErased
  <2> SUFFICES ASSUME MembersKnown, NEW t \in Threads, AnsweredAlone(t, "erase"), clean[t]
               PROVE  HeldAt(loc[t].ids) = {}
    BY DEF FlushedAreErased
  <2>1. EraseKnows(pc[t], loc[t], clean[t]) /\ pc[t] = "answered" /\ loc[t].op = "erase"
    BY DEF MembersKnown, SoloKnows, CallsKnow, AnsweredAlone
  <2>2. mem = NoBits /\ Holding(cache, loc[t].ids) \subseteq Holding(memDel, loc[t].ids)
    BY <2>1 DEF EraseKnows
  <2> QED
    BY <2>2 DEF HeldAt, Holding, NoBits
<1> QED
  BY <1>1, MembersHold, PTL

FlushGranted == \A t \in Threads : pc[t] \in Flushing => "flush" \in MayRun[t]

LEMMA FlushKeepsGrant ==
  ASSUME TypeOK, FlushGranted, [Next]_vars
  PROVE  FlushGranted'
<1>2. ASSUME NEW t \in Threads, \A u \in Threads \ {t} : pc'[u] = pc[u],
             pc'[t] \in Flushing => "flush" \in MayRun[t]
      PROVE  FlushGranted'
  BY <1>2 DEF FlushGranted
<1>3. ASSUME NEW t \in Threads, Step(t) PROVE FlushGranted'
  <2>1. \A u \in Threads \ {t} : pc'[u] = pc[u]
    BY <1>3, StepFrame
  <2>2. CASE Quiet(t)
    BY <1>2, <2>1, <2>2 DEF Quiet
  <2>3. CASE AssignIds(t) \/ EnsureEvent(t) \/ PutLock(t) \/ EraseDict(t)
    <3>1. pc'[t] \notin Flushing
      BY <2>3 DEF AssignIds, Assign, EnsureEvent, PutLock, EraseDict, Forget, Return, Goto, TypeOK,
        Flushing
    <3> QED
      BY <1>2, <2>1, <3>1
  <2>4. CASE RemoveLock(t) \/ (\E k \in Keys, x \in Names : RemoveIds(t, k, x))
    <3>1. pc'[t] \in {"idle", "erase_next", "ensure"}
      BY <2>4 DEF RemoveLock, RemoveIds, Return, Goto, TypeOK
    <3> QED
      BY <1>2, <2>1, <3>1 DEF Flushing
  <2>5. CASE EraseNext(t)
    <3>1. pc'[t] \in {"erase_next", "ensure"}
      BY <2>5 DEF EraseNext, Goto, TypeOK
    <3> QED
      BY <1>2, <2>1, <3>1 DEF Flushing
  <2>6. CASE Flush(t)
    BY <1>2, <2>1, <2>6 DEF Flush, Starts
  <2>7. CASE Commit(t) \/ BuildIndex(t) \/ StoreIndex(t) \/ ResolveAll(t) \/ StoreInverted(t)
    <3>1. pc[t] \in Flushing
      BY <2>7 DEF Commit, BuildIndex, StoreIndex, ResolveAll, StoreInverted, Flushing
    <3> QED
      BY <1>2, <2>1, <3>1 DEF FlushGranted
  <2> QED
    BY <1>3, <2>2, <2>3, <2>4, <2>5, <2>6, <2>7, WritesOrQuiet DEF Writes
<1>4. ASSUME NEW t \in Threads, StartPut(t) PROVE FlushGranted'
  <2>1. PICK k \in Keys, N \in (SUBSET Names) \ {{}} : PutIds(t, k, N)
    BY <1>4 DEF StartPut
  <2>2. \A u \in Threads \ {t} : pc'[u] = pc[u]
    BY <2>1 DEF PutIds, Goto, TypeOK
  <2>3. pc'[t] \in {"assign", "ensure"}
    BY <2>1 DEF PutIds, Goto, TypeOK
  <2> QED
    BY <1>2, <2>2, <2>3 DEF Flushing
<1>5. CASE CrashAndOpen
  BY <1>5 DEF CrashAndOpen, FlushGranted, Flushing
<1>6. CASE UNCHANGED vars
  BY <1>6 DEF vars, FlushGranted
<1> QED
  BY <1>3, <1>4, <1>5, <1>6 DEF Next

(* If a single thread flushes, no two flushes ever overlap: how an         *)
(* application meets the hypothesis of the two theorems above.             *)
THEOREM OneRoleSuffices ==
  ASSUME \A t, u \in Threads : "flush" \in MayRun[t] /\ "flush" \in MayRun[u] => t = u
  PROVE  HSpec => []OneFlusher
<1>1. Init => FlushGranted
  BY DEF Init, FlushGranted, Flushing
<1>2. TypeOK /\ FlushGranted /\ [Next]_vars => FlushGranted'
  BY FlushKeepsGrant
<1>3. FlushGranted => OneFlusher
  BY DEF FlushGranted, OneFlusher
<1> QED
  BY <1>1, <1>2, <1>3, HistoryFollows, TypeCorrect, PTL DEF Spec
=============================================================================
