---------------------------- MODULE PeriodsProofs ----------------------------
(* What one maintainer beside any number of writers and readers keeps, for *)
(* any periods, ancestors, ids and calls.                                  *)
EXTENDS PeriodsHistory, PartFoldProofs, FiniteSetTheorems, SequenceTheorems

-----------------------------------------------------------------------------
(* The invariants.                                                         *)

Busy(t) ==
  pc[t] \in {"flush_txn", "collect", "replace_txn", "delete", "delete_txn", "index"}

(* At most one thread is within a flush, a replacement, a retention or the *)
(* index rebuild of a compaction.                                          *)
OneMaintainer == \A t, u \in Threads : Busy(t) /\ Busy(u) => t = u

(* The ids a flush or a replacement will take are left, if the next is n.  *)
RoomAt(l, r, n) ==
  /\ l = "flush_txn" =>
       /\ r.op = "flush"
       /\ r.data # Empty \/ r.deltas # Empty
       /\ n + (IF r.data # Empty /\ r.deltas # Empty THEN 2 ELSE 1) <= LastPart + 1
  /\ l \in {"collect", "replace_txn"} =>
       /\ r.op = "replace"
       /\ r.entries \in Replacements
       /\ n + Len(r.entries) <= LastPart + 1

(* A call at l with the local variables r knows what it works on.          *)
KnowsAt(l, r) ==
  /\ l \in {"revert", "lock"} => \E g \in Ranges : g.op = "put" /\ r.op = "put" /\ r.keys = g.keys
  /\ l \in {"delete", "delete_txn"} => r.op = "retain"
  /\ l = "delete_txn" => r.keys # <<>>
  /\ l \in {"count_state", "count_parts", "count_deltas", "count_part"} =>
       /\ r.op = "cardinality" /\ r.keys # <<>> /\ r.got = <<>>
  /\ l = "count_part" => \E p \in Part : r.olds = {p}
  /\ l \in {"read", "cache"} => r.op \in Reads /\ Len(r.got) < Len(r.keys)
  /\ l = "got" => r.op \in Reads

RoomLeft  == \A t \in Threads : RoomAt(pc[t], loc[t], nextId)
CallsKnow == \A t \in Threads : KnowsAt(pc[t], loc[t])

TypeInv == TypeOK /\ RoomLeft /\ CallsKnow

(* What a replacement collected, and what the catalog lists.               *)
Collected ==
  \A t \in Threads : pc[t] = "replace_txn" =>
    loc[t].olds = {p \in listed : p.key \in EntryKeys(loc[t].entries)}

DiskKnown == disk = [k \in Keys |-> Disk(k)]

CatalogInv == ListsMatchParts /\ Collected /\ DiskKnown

(* What a retention still has to delete: no rejected period escapes it.    *)
LeftAt(t) == IF pc[t] = "delete_txn" THEN loc[t].left \cup {Head(loc[t].keys)} ELSE loc[t].left

RetentionInv ==
  \A t \in Threads : Busy(t) /\ loc[t].op = "retain" => PeriodKeys \ Kept \subseteq LeftAt(t)

(* Apart from data on its way, the index holds what the catalog does.      *)
IndexInv == ~Unsettled => \A k \in Keys : ridx[k] # Absent => ridx[k] = disk[k]

ContentInv == truth = Content

(* What a read has seen bounds what the calls so far amount to.            *)
SeenInv ==
  \A t \in Threads :
    LET K == Range(loc[t].keys) IN
    /\ Reading(t) \/ pc[t] = "got" =>
         seen[t].must \in [K -> SUBSET Ids] /\ seen[t].may \in [K -> SUBSET Ids]
    /\ Reading(t) =>
         /\ \A k \in K : seen[t].must[k] \subseteq truth[k] /\ truth[k] \subseteq seen[t].may[k]
         /\ seen[t].calm => ~Unsettled

(* S is between the least and the most that the read of t saw of k.        *)
Between(t, k, S) == seen[t].must[k] \subseteq S /\ S \subseteq seen[t].may[k]

Counting == {"count_state", "count_parts", "count_deltas", "count_part"}

(* A count is of what the catalog holds ...                                *)
CountSeen(t) ==
  pc[t] \in Counting => Between(t, Head(loc[t].keys), disk[Head(loc[t].keys)])

(* ... which are the parts it found, as long as they are registered.       *)
CountFound(t) ==
  LET k == Head(loc[t].keys) IN
  pc[t] \in {"count_deltas", "count_part"} =>
    /\ \A p \in loc[t].olds : p.id < nextId
    /\ loc[t].olds # {} /\ loc[t].olds \subseteq parts =>
         /\ loc[t].olds = Listed(k, "data")
         /\ pc[t] = "count_part" => Listed(k, "delta") = {}

(* What a read found in the buffer, laid over what the catalog holds ...   *)
CacheSeen(t) ==
  LET k == NextKey(t)
      o == loc[t].overlay IN
  pc[t] = "cache" => Between(t, k, Overlay(disk[k], o[1], o[2]))

(* ... and the bitmaps it got.                                             *)
GotSeen(t) ==
  pc[t] \in {"read", "cache", "got"} =>
    \A i \in DOMAIN loc[t].got :
      i \in DOMAIN loc[t].keys /\ Between(t, loc[t].keys[i], loc[t].got[i])

Finished(t) ==
  pc[t] = "got" =>
    /\ loc[t].got # <<>>
    /\ loc[t].op = "cardinality" \/ Done(t, loc[t].got)

(* A read during which no data was on its way is within its bounds.        *)
ReadInv ==
  \A t \in Threads : seen[t].calm =>
    CountSeen(t) /\ CountFound(t) /\ CacheSeen(t) /\ GotSeen(t) /\ Finished(t)

-----------------------------------------------------------------------------
(* Facts about the data, whatever the calls do.                            *)

LEMMA PartIsFinite == IsFiniteSet(Part)
<1> DEFINE Numbers == 1 .. LastPart
           Kinds == {"data", "delta"}
           Tuples == (Numbers \X Kinds) \X (Keys \X SUBSET Ids)
           f == [x \in Tuples |->
                   [id |-> x[1][1], kind |-> x[1][2], key |-> x[2][1], bits |-> x[2][2]]]
<1>1. IsFiniteSet(Numbers)
  BY FS_Interval, PeriodsAssumption
<1>2. IsFiniteSet(Kinds)
  <2>1. IsFiniteSet({"data"})
    BY FS_Singleton
  <2>2. IsFiniteSet({"data"} \cup {"delta"})
    BY <2>1, FS_AddElement
  <2> QED
    BY <2>2, Zenon
<1>3. IsFiniteSet(Keys) /\ IsFiniteSet(SUBSET Ids)
  BY FS_SUBSET, PeriodsAssumption
<1>4. IsFiniteSet(Tuples)
  <2>1. IsFiniteSet(Numbers \X Kinds)
    BY <1>1, <1>2, FS_Product
  <2>2. IsFiniteSet(Keys \X SUBSET Ids)
    BY <1>3, FS_Product
  <2> QED
    BY <2>1, <2>2, FS_Product
<1>5. f \in Surjection(Tuples, Part)
  <2>1. ASSUME NEW x \in Tuples PROVE f[x] \in Part
    BY <2>1 DEF Part
  <2>2. ASSUME NEW p \in Part PROVE \E x \in Tuples : f[x] = p
    <3> DEFINE x == <<<<p.id, p.kind>>, <<p.key, p.bits>>>>
    <3>1. x \in Tuples
      BY DEF Part
    <3>2. f[x] = [id |-> p.id, kind |-> p.kind, key |-> p.key, bits |-> p.bits]
      BY <3>1
    <3>3. f[x] = p
      BY <3>2 DEF Part
    <3> QED
      BY <3>1, <3>3
  <2>3. f \in [Tuples -> Part]
    BY <2>1
  <2> HIDE DEF f, Tuples
  <2> QED
    BY <2>2, <2>3 DEF Surjection
<1> HIDE DEF Tuples, f
<1> QED
  BY <1>4, <1>5, FS_Surjection

(* A set of parts with one member has one.                                 *)
LEMMA OnePart ==
  ASSUME NEW P \in SUBSET Part
  PROVE  IsFiniteSet(P) /\ (Cardinality(P) = 1 <=> \E p \in Part : P = {p})
<1>1. IsFiniteSet(P)
  BY PartIsFinite, FS_Subset
<1> QED
  BY <1>1, FS_Singleton

(* The last of the entries that a bulk_replace has for a period.           *)
LEMMA LastEntry ==
  ASSUME NEW e \in Replacements, NEW k \in EntryKeys(e)
  PROVE  \E i \in DOMAIN e :
           /\ e[i].key = k
           /\ \A j \in DOMAIN e : e[j].key = k => j <= i
           /\ LastBits(e, k) = e[i].bits
<1> DEFINE Entry == [key : Keys, bits : SUBSET Ids]
           Here == {i \in DOMAIN e : e[i].key = k}
           Behind == {Len(e) - i : i \in Here}
           IsLast(i) == e[i].key = k /\ \A j \in DOMAIN e : e[j].key = k => j <= i
<1>1. e \in Seq(Entry)
  BY PeriodsAssumption
<1>2. Len(e) \in Nat /\ DOMAIN e = 1 .. Len(e)
  BY <1>1, LenProperties
<1>3. Behind \subseteq Nat /\ Behind # {}
  BY <1>2 DEF EntryKeys
<1>4. PICK m \in Behind : \A n \in Behind : ~ (<<n, m>> \in OpToRel(<, Nat))
  BY <1>3, NatLessThanWellFounded, WFMin
<1>5. \A n \in Behind : m <= n
  <2> HIDE DEF Behind
  <2>1. \A n \in Behind : ~ (n < m)
    BY <1>3, <1>4, Zenon DEF OpToRel
  <2> QED
    BY <1>3, <2>1
<1>6. PICK i \in Here : m = Len(e) - i
  BY <1>4
<1>7. IsLast(i)
  <2>1. ASSUME NEW j \in Here PROVE j <= i
    <3>1. Len(e) - j \in Behind
      OBVIOUS
    <3>2. m <= Len(e) - j
      BY <1>5, <3>1
    <3> QED
      BY <1>2, <1>6, <3>2
  <2> QED
    BY <2>1
<1>8. ASSUME NEW j \in DOMAIN e, IsLast(j) PROVE j = i
  BY <1>2, <1>6, <1>7, <1>8
<1>9. (CHOOSE j \in DOMAIN e : IsLast(j)) = i
  <2> HIDE DEF IsLast, Here
  <2>1. i \in DOMAIN e
    BY <1>6 DEF Here
  <2> QED
    BY <1>7, <1>8, <2>1
<1>10. LastBits(e, k) = e[i].bits
  BY <1>9 DEF LastBits
<1> QED
  BY <1>6, <1>7, <1>10

LEMMA ReplacementBits ==
  ASSUME NEW e \in Replacements
  PROVE  /\ e \in Seq([key : Keys, bits : SUBSET Ids])
         /\ Len(e) \in Nat /\ DOMAIN e = 1 .. Len(e)
         /\ \A i \in DOMAIN e : e[i].key \in Keys /\ e[i].bits \in SUBSET Ids
         /\ EntryKeys(e) \subseteq Keys
         /\ \A k \in EntryKeys(e) : LastBits(e, k) \in SUBSET Ids
<1>1. e \in Seq([key : Keys, bits : SUBSET Ids])
  BY PeriodsAssumption
<1>2. Len(e) \in Nat /\ DOMAIN e = 1 .. Len(e)
  BY <1>1, LenProperties
<1>3. ASSUME NEW i \in DOMAIN e PROVE e[i].key \in Keys /\ e[i].bits \in SUBSET Ids
  <2>1. e[i] \in [key : Keys, bits : SUBSET Ids]
    BY <1>1, <1>2, ElementOfSeq
  <2> QED
    BY <2>1
<1>4. EntryKeys(e) \subseteq Keys
  BY <1>3 DEF EntryKeys
<1> QED
  BY <1>1, <1>2, <1>3, <1>4, LastEntry

(* The bitmap that a set of parts merges to.                               *)
Merged(P) == Fold(P, [p \in P |-> p.bits])

LEMMA FoldSameBits ==
  ASSUME NEW P, NEW f, NEW g, \A p \in P : f[p] = g[p]
  PROVE  Fold(P, f) = Fold(P, g)
<1>1. ASSUME NEW p \in Data(P) PROVE Surviving(P, p, f) = Surviving(P, p, g)
  BY DEF Surviving, DeltasAfter, Data
<1> QED
  BY <1>1 DEF Fold

LEMMA MergedNewest ==
  ASSUME NEW P, NEW p, p \notin P,
         p.id \in Nat, \A q \in P : q.id \in Nat /\ q.id < p.id,
         p.kind \in {"data", "delta"}
  PROVE  Merged(P \cup {p}) =
           IF p.kind = "delta" THEN Merged(P) \ p.bits ELSE Merged(P) \cup p.bits
<1> DEFINE f == [q \in P \cup {p} |-> q.bits]
           g == [q \in P |-> q.bits]
<1>1. Fold(P, f) = Fold(P, g)
  <2>1. \A q \in P : f[q] = g[q]
    OBVIOUS
  <2> HIDE DEF f, g
  <2> QED
    BY <2>1, FoldSameBits
<1>2. f[p] = p.bits
  OBVIOUS
<1>3. Merged(P \cup {p}) = Fold(P \cup {p}, f) /\ Merged(P) = Fold(P, g)
  BY DEF Merged
<1> HIDE DEF f, g
<1>4. Fold(P \cup {p}, f) =
        IF p.kind = "delta" THEN Fold(P, f) \ f[p] ELSE Fold(P, f) \cup f[p]
  BY FoldNewest
<1> QED
  BY <1>1, <1>2, <1>3, <1>4

LEMMA MergedNone == Merged({}) = {}
BY DEF Merged, Fold, Data

LEMMA MergedOne ==
  ASSUME NEW p, p.id \in Nat, p.kind = "data"
  PROVE  Merged({p}) = p.bits
<1>1. ASSUME NEW P, P = {} PROVE Merged(P \cup {p}) = Merged(P) \cup p.bits
  <2>1. p \notin P /\ p.kind # "delta" /\ p.kind \in {"data", "delta"}
    BY <1>1
  <2>2. \A q \in P : q.id \in Nat /\ q.id < p.id
    BY <1>1
  <2> QED
    BY ONLY <2>1, <2>2, p.id \in Nat, MergedNewest
<1> QED
  BY <1>1, MergedNone

LEMMA MergedWithin ==
  ASSUME NEW P \in SUBSET Part
  PROVE  Merged(P) \in SUBSET Ids
<1> DEFINE f == [p \in P |-> p.bits]
<1>1. \A p \in P : f[p] \subseteq Ids
  BY DEF Part
<1> HIDE DEF f
<1>2. Fold(P, f) \subseteq Ids
  BY <1>1, FoldWithin
<1> QED
  BY <1>2 DEF Merged, f

LEMMA DiskIsMerged == \A k \in Keys : Disk(k) = Merged(PartsOf(k))
BY DEF Disk, Merged

-----------------------------------------------------------------------------
(* The types and the room for ids.                                         *)

LEMMA BlankTyped ==
  /\ Blank \in Locals
  /\ Empty \in [Keys -> SUBSET Ids]
  /\ KnowsAt("idle", Blank)
  /\ \A n : RoomAt("idle", Blank, n)
BY DEF Blank, Empty, Locals, Ops, KnowsAt, RoomAt

(* A step of one thread keeps what the others know, and the room for them, *)
(* for only one of the threads maintains.                                  *)
LEMMA Moves ==
  ASSUME TypeInv, OneMaintainer, OneMaintainer',
         NEW t \in Threads, NEW l \in Labels, NEW r \in Locals,
         pc' = [pc EXCEPT ![t] = l], loc' = [loc EXCEPT ![t] = r],
         nextId' = nextId \/ Busy(t) \/ Busy(t)',
         KnowsAt(l, r), RoomAt(l, r, nextId')
  PROVE  /\ pc' \in [Threads -> Labels] /\ loc' \in [Threads -> Locals]
         /\ RoomLeft' /\ CallsKnow'
<1>1. pc' \in [Threads -> Labels] /\ loc' \in [Threads -> Locals]
  BY DEF TypeInv, TypeOK
<1>2. /\ pc'[t] = l /\ loc'[t] = r
      /\ \A u \in Threads \ {t} : pc'[u] = pc[u] /\ loc'[u] = loc[u]
  BY DEF TypeInv, TypeOK
<1>3. CallsKnow'
  <2>1. ASSUME NEW u \in Threads PROVE KnowsAt(pc'[u], loc'[u])
    BY <1>2 DEF TypeInv, CallsKnow
  <2> QED
    BY <2>1 DEF CallsKnow, KnowsAt
<1>4. RoomLeft'
  <2>1. ASSUME NEW u \in Threads PROVE RoomAt(pc'[u], loc'[u], nextId')
    <3>1. CASE u = t
      BY <1>2, <3>1
    <3>2. CASE u # t /\ nextId' = nextId
      BY <1>2, <3>2 DEF TypeInv, RoomLeft
    <3>3. CASE u # t /\ (Busy(t) \/ Busy(t)')
      <4>1. ~Busy(u)'
        BY <1>2, <3>3 DEF OneMaintainer, Busy
      <4> QED
        BY <4>1 DEF Busy, RoomAt
    <3> QED
      BY <3>1, <3>2, <3>3
  <2> QED
    BY <2>1 DEF RoomLeft, RoomAt, Empty
<1> QED
  BY <1>1, <1>3, <1>4

LEMMA SameLocals ==
  ASSUME TypeInv, NEW t \in Threads
  PROVE  loc = [loc EXCEPT ![t] = loc[t]] /\ loc[t] \in Locals
BY DEF TypeInv, TypeOK

LEMMA RangeKeys ==
  ASSUME NEW g \in Ranges
  PROVE  /\ g.op \in Writes /\ g.keys \in Seq(Keys)
         /\ Range(g.keys) \subseteq Keys /\ Cover(Range(g.keys)) \subseteq Keys
<1>1. g.op \in Writes /\ g.keys \in Seq(Keys)
  BY PeriodsAssumption
<1>2. Range(g.keys) \subseteq Keys
  BY <1>1, LenProperties, ElementOfSeq DEF Range
<1> QED
  BY <1>1, <1>2, PeriodsAssumption DEF Cover

LEMMA BufferTypes ==
  ASSUME NEW f \in [Keys -> SUBSET Ids], NEW K, NEW b \in SUBSET Ids
  PROVE  /\ AddBits(f, K, b) \in [Keys -> SUBSET Ids]
         /\ ClearBits(f, K, b) \in [Keys -> SUBSET Ids]
         /\ ClearKeys(f, K) \in [Keys -> SUBSET Ids]
BY DEF AddBits, ClearBits, ClearKeys

(* When a thread starts to maintain, no other is about to write parts.     *)
LEMMA StartsAlone ==
  ASSUME TypeInv, OneMaintainer', NEW t \in Threads, pc[t] = "idle",
         NEW l \in {"flush_txn", "collect", "index"}, pc' = [pc EXCEPT ![t] = l]
  PROVE  \A n \in Nat : Room(n) => nextId + n <= LastPart + 1
<1>1. pc'[t] = l /\ \A u \in Threads \ {t} : pc'[u] = pc[u]
  BY DEF TypeInv, TypeOK
<1>2. Writing = {}
  BY <1>1 DEF Writing, OneMaintainer, Busy
<1>3. Cardinality(Writing) = 0
  BY <1>2, FS_EmptySet
<1> QED
  BY <1>3, PeriodsAssumption DEF Room, TypeInv, TypeOK

LEMMA TypeUpdate ==
  ASSUME TypeInv, OneMaintainer, OneMaintainer', NEW t \in Threads, Update(t)
  PROVE  TypeInv'
<1> USE DEF TypeInv
<1>1. CASE RangeLock(t)
  <2>1. nextId' = nextId /\ UNCHANGED <<ridx, parts, listed, pstate>>
    BY <1>1 DEF RangeLock, catalog
  <2>2. pc' = [pc EXCEPT ![t] = "idle"] /\ loc' = [loc EXCEPT ![t] = Blank]
    BY <1>1 DEF RangeLock, Return, Goto
  <2>3. pc' \in [Threads -> Labels] /\ loc' \in [Threads -> Locals] /\ RoomLeft' /\ CallsKnow'
    <3>1. "idle" \in Labels
      BY DEF Labels
    <3> QED
      BY <2>1, <2>2, <3>1, Moves, BlankTyped
  <2>4. mem' \in [Keys -> SUBSET Ids] /\ memDel' \in [Keys -> SUBSET Ids]
    <3>1. loc[t].bits \in SUBSET Ids
      BY DEF TypeOK, Locals
    <3> QED
      BY <1>1, <3>1, BufferTypes DEF RangeLock, TypeOK
  <2> QED
    BY <2>1, <2>3, <2>4 DEF TypeOK
<1>2. ASSUME NEW g \in Ranges, NEW b \in Bitmaps, RemoveRange(t, g, b) PROVE TypeInv'
  <2>1. UNCHANGED <<mem, ridx, parts, listed, pstate, nextId, pc, loc>>
    BY <1>2 DEF RemoveRange, catalog
  <2>2. memDel' \in [Keys -> SUBSET Ids]
    BY <1>2, BufferTypes DEF RemoveRange, TypeOK, Bitmaps
  <2> QED
    BY <2>1, <2>2 DEF TypeOK, RoomLeft, CallsKnow, RoomAt, KnowsAt, Empty
<1>3. ASSUME NEW e \in Replacements, BulkReplace(t, e) PROVE TypeInv'
  <2> DEFINE r == [Blank EXCEPT !.op = "replace", !.entries = e]
  <2>1. pc' = [pc EXCEPT ![t] = "collect"] /\ loc' = [loc EXCEPT ![t] = r]
    BY <1>3 DEF BulkReplace, Goto
  <2>2. nextId' = nextId /\ UNCHANGED <<ridx, parts, listed, pstate>>
    BY <1>3 DEF BulkReplace, catalog
  <2>3. r \in Locals /\ r.op = "replace" /\ r.entries = e
    BY BlankTyped DEF Locals, Blank, Ops
  <2>4. "collect" \in Labels /\ KnowsAt("collect", r)
    BY DEF Labels, KnowsAt
  <2>5. nextId + Len(e) <= LastPart + 1
    <3>1. \A n \in Nat : Room(n) => nextId + n <= LastPart + 1
      BY <1>3, <2>1, StartsAlone DEF BulkReplace, Starts
    <3> QED
      BY <1>3, <3>1, ReplacementBits DEF BulkReplace
  <2>6. RoomAt("collect", r, nextId')
    BY <2>2, <2>3, <2>5 DEF RoomAt
  <2> HIDE DEF r
  <2>7. pc' \in [Threads -> Labels] /\ loc' \in [Threads -> Locals] /\ RoomLeft' /\ CallsKnow'
    BY <2>1, <2>2, <2>3, <2>4, <2>6, Moves
  <2>8. mem' \in [Keys -> SUBSET Ids] /\ memDel' \in [Keys -> SUBSET Ids]
    BY <1>3, BufferTypes DEF BulkReplace, TypeOK
  <2> QED
    BY <2>2, <2>7, <2>8 DEF TypeOK
<1>4. ASSUME NEW k \in Keys, DeleteLock(t, k) PROVE TypeInv'
  <2> DEFINE r == [loc[t] EXCEPT !.keys = <<k>>, !.left = @ \ {k}]
  <2>1. pc' = [pc EXCEPT ![t] = "delete_txn"] /\ loc' = [loc EXCEPT ![t] = r]
    BY <1>4 DEF DeleteLock, Goto, TypeOK
  <2>2. nextId' = nextId /\ UNCHANGED <<ridx, parts, listed, pstate>>
    BY <1>4 DEF DeleteLock, catalog
  <2>3. r \in Locals /\ r.op = loc[t].op /\ r.keys = <<k>>
    <3>1. <<k>> \in Seq(Keys)
      OBVIOUS
    <3> QED
      BY <3>1, SameLocals, ZenonT(30) DEF Locals
  <2>4. "delete_txn" \in Labels /\ KnowsAt("delete_txn", r) /\ RoomAt("delete_txn", r, nextId')
    BY <1>4, <2>3 DEF Labels, KnowsAt, RoomAt, DeleteLock, CallsKnow
  <2> HIDE DEF r
  <2>5. pc' \in [Threads -> Labels] /\ loc' \in [Threads -> Locals] /\ RoomLeft' /\ CallsKnow'
    BY <2>1, <2>2, <2>3, <2>4, Moves
  <2>6. mem' \in [Keys -> SUBSET Ids] /\ memDel' \in [Keys -> SUBSET Ids]
    BY <1>4, BufferTypes DEF DeleteLock, TypeOK
  <2> QED
    BY <2>2, <2>5, <2>6 DEF TypeOK
<1> QED
  BY <1>1, <1>2, <1>3, <1>4 DEF Update

LEMMA WrittenParts ==
  ASSUME NEW f \in [Keys -> SUBSET Ids], NEW i \in 1 .. LastPart + 1, NEW kind \in {"data", "delta"}
  PROVE  /\ \A p \in Written(i, kind, f) :
              p.id = i /\ p.kind = kind /\ p.key \in Keys /\ p.bits = f[p.key] /\ p.bits # {}
         /\ Written(i, kind, f) = {} <=> f = Empty
         /\ i <= LastPart => Written(i, kind, f) \subseteq Part
         /\ \A k \in Keys : f[k] # {} => NewPart(i, kind, k, f[k]) \in Written(i, kind, f)
<1> DEFINE W == Written(i, kind, f)
<1>1. ASSUME NEW p \in W
      PROVE  \E k \in Keys : f[k] # {} /\ p = [id |-> i, kind |-> kind, key |-> k, bits |-> f[k]]
  BY DEF Written, NewPart
<1>2. \A k \in Keys : f[k] # {} => NewPart(i, kind, k, f[k]) \in W
  BY DEF Written
<1> HIDE DEF W
<1>3. \A p \in W : p.id = i /\ p.kind = kind /\ p.key \in Keys /\ p.bits = f[p.key] /\ p.bits # {}
  BY <1>1
<1>4. W = {} <=> f = Empty
  <2>1. f = Empty <=> \A k \in Keys : f[k] = {}
    BY DEF Empty
  <2> QED
    BY <1>1, <1>2, <2>1
<1>5. ASSUME i <= LastPart PROVE W \subseteq Part
  <2>1. i \in 1 .. LastPart
    BY <1>5, PeriodsAssumption
  <2> QED
    BY <1>1, <2>1 DEF Part
<1> QED
  BY <1>2, <1>3, <1>4, <1>5 DEF W

LEMMA UsedIds == \A P : Used(P) \in {0, 1}
BY DEF Used

(* The parts of one flush, and its ids.                                    *)
LEMMA FlushedParts ==
  ASSUME TypeInv, NEW t \in Threads, pc[t] = "flush_txn",
         NEW D, D = Written(nextId, "data", loc[t].data),
         NEW E, E = Written(nextId + Used(D), "delta", loc[t].deltas)
  PROVE  /\ D \subseteq Part /\ E \subseteq Part
         /\ Used(D) \in {0, 1} /\ Used(E) \in {0, 1}
         /\ nextId + Used(D) + Used(E) \in 1 .. LastPart + 1
         /\ \A p \in D : p.id = nextId /\ Used(D) = 1
         /\ \A p \in E : p.id = nextId + Used(D) /\ Used(E) = 1
<1>1. loc[t].data \in [Keys -> SUBSET Ids] /\ loc[t].deltas \in [Keys -> SUBSET Ids]
  BY DEF TypeInv, TypeOK, Locals
<1>2. /\ loc[t].data # Empty \/ loc[t].deltas # Empty
      /\ nextId + (IF loc[t].data # Empty /\ loc[t].deltas # Empty THEN 2 ELSE 1) <= LastPart + 1
      /\ nextId \in 1 .. LastPart + 1
  BY DEF TypeInv, TypeOK, RoomLeft, RoomAt
<1>3. nextId \in 1 .. LastPart /\ Used(D) \in {0, 1} /\ Used(E) \in {0, 1}
  <2>1. LastPart \in Nat /\ nextId \in Nat
    BY <1>2, PeriodsAssumption
  <2>2. nextId + 1 <= LastPart + 1
    BY <1>2, <2>1
  <2>3. nextId \in 1 .. LastPart
    BY <1>2, <2>1, <2>2
  <2> QED
    BY <2>3, UsedIds
<1>4. (D = {} <=> loc[t].data = Empty) /\ D \subseteq Part /\ \A p \in D : p.id = nextId
  <2>1. nextId \in 1 .. LastPart + 1 /\ nextId <= LastPart /\ "data" \in {"data", "delta"}
    BY <1>2, <1>3
  <2> QED
    BY <1>1, <2>1, WrittenParts
<1>5. nextId + Used(D) \in 1 .. LastPart + 1
  BY <1>3, PeriodsAssumption
<1>6. /\ E = {} <=> loc[t].deltas = Empty
      /\ \A p \in E : p.id = nextId + Used(D)
      /\ nextId + Used(D) <= LastPart => E \subseteq Part
  BY <1>1, <1>5, WrittenParts
<1>7. /\ Used(D) = (IF loc[t].data = Empty THEN 0 ELSE 1)
      /\ Used(E) = (IF loc[t].deltas = Empty THEN 0 ELSE 1)
  BY <1>4, <1>6 DEF Used
<1>8. nextId + Used(D) + Used(E) \in 1 .. LastPart + 1
  <2> LastPart \in Nat /\ nextId \in Nat
    BY <1>2, PeriodsAssumption
  <2>1. CASE loc[t].data = Empty \/ loc[t].deltas = Empty
    BY <1>2, <1>7, <2>1
  <2>2. CASE loc[t].data # Empty /\ loc[t].deltas # Empty
    BY <1>2, <1>7, <2>2
  <2> QED
    BY <2>1, <2>2
<1>9. E \subseteq Part
  <2> LastPart \in Nat /\ nextId \in Nat
    BY <1>2, PeriodsAssumption
  <2>1. CASE loc[t].deltas = Empty
    BY <1>6, <2>1
  <2>2. CASE loc[t].deltas # Empty
    BY <1>2, <1>6, <1>7, <2>2
  <2> QED
    BY <2>1, <2>2
<1> QED
  BY <1>3, <1>4, <1>6, <1>8, <1>9 DEF Used

LEMMA DiskTyped == ASSUME TypeOK PROVE \A k \in Keys : Disk(k) \in SUBSET Ids
<1>1. ASSUME NEW k \in Keys PROVE Disk(k) \in SUBSET Ids
  <2>1. PartsOf(k) \in SUBSET Part
    BY DEF TypeOK, PartsOf
  <2> QED
    BY <2>1, DiskIsMerged, MergedWithin
<1> QED
  BY <1>1

LEMMA TypeFlush ==
  ASSUME TypeInv, OneMaintainer, OneMaintainer', NEW t \in Threads,
         TakeSnapshot(t) \/ FlushTxn(t) \/ \E k \in Keys : CompactPeriod(t, k)
  PROVE  TypeInv'
<1> USE DEF TypeInv
<1>1. CASE TakeSnapshot(t)
  <2> DEFINE r == [Blank EXCEPT !.data = mem, !.deltas = memDel]
  <2>1. pc' = [pc EXCEPT ![t] = "flush_txn"] /\ loc' = [loc EXCEPT ![t] = r]
    BY <1>1 DEF TakeSnapshot, Goto
  <2>2. nextId' = nextId /\ UNCHANGED <<ridx, parts, listed, pstate>>
    BY <1>1 DEF TakeSnapshot, catalog
  <2>3. r \in Locals /\ r.op = "flush" /\ r.data = mem /\ r.deltas = memDel
    BY BlankTyped DEF Locals, Blank, TypeOK
  <2>4. "flush_txn" \in Labels /\ KnowsAt("flush_txn", r)
    BY DEF Labels, KnowsAt
  <2>5. nextId + (IF mem # Empty /\ memDel # Empty THEN 2 ELSE 1) <= LastPart + 1
    <3>1. \A n \in Nat : Room(n) => nextId + n <= LastPart + 1
      BY <1>1, <2>1, StartsAlone DEF TakeSnapshot, Starts
    <3> QED
      BY <1>1, <3>1 DEF TakeSnapshot
  <2>6. RoomAt("flush_txn", r, nextId')
    BY <1>1, <2>2, <2>3, <2>5 DEF RoomAt, TakeSnapshot
  <2> HIDE DEF r
  <2>7. pc' \in [Threads -> Labels] /\ loc' \in [Threads -> Locals] /\ RoomLeft' /\ CallsKnow'
    BY <2>1, <2>2, <2>3, <2>4, <2>6, Moves
  <2>8. mem' \in [Keys -> SUBSET Ids] /\ memDel' \in [Keys -> SUBSET Ids]
    BY <1>1, BlankTyped DEF TakeSnapshot
  <2> QED
    BY <2>2, <2>7, <2>8 DEF TypeOK
<1>2. CASE FlushTxn(t)
  <2> DEFINE D == Written(nextId, "data", loc[t].data)
             E == Written(nextId + Used(D), "delta", loc[t].deltas)
  <2>1. /\ pc[t] = "flush_txn" /\ pc' = [pc EXCEPT ![t] = "index"] /\ loc' = loc
        /\ UNCHANGED <<mem, memDel, ridx>>
        /\ parts' = parts \cup D \cup E /\ listed' = listed \cup D \cup E
        /\ nextId' = nextId + Used(D) + Used(E)
    BY <1>2 DEF FlushTxn, Goto, buffer
  <2>2. pstate' \in [Keys -> States]
    BY <1>2 DEF FlushTxn, TypeOK, States
  <2> HIDE DEF D, E
  <2>3. /\ D \subseteq Part /\ E \subseteq Part
        /\ Used(D) \in {0, 1} /\ Used(E) \in {0, 1}
        /\ nextId + Used(D) + Used(E) \in 1 .. LastPart + 1
        /\ \A p \in D : p.id = nextId /\ Used(D) = 1
        /\ \A p \in E : p.id = nextId + Used(D) /\ Used(E) = 1
    BY <2>1, FlushedParts DEF D, E
  <2>4. /\ parts' \subseteq Part /\ listed' \subseteq Part /\ nextId' \in 1 .. LastPart + 1
        /\ \A p \in parts' \cup listed' : p.id < nextId'
    <3>1. nextId \in Nat /\ \A p \in parts \cup listed : p.id < nextId /\ p.id \in Nat
      BY PeriodsAssumption DEF TypeOK, Part
    <3> QED
      BY <2>1, <2>3, <3>1 DEF TypeOK
  <2>5. "index" \in Labels /\ KnowsAt("index", loc[t]) /\ RoomAt("index", loc[t], nextId')
    BY DEF Labels, KnowsAt, RoomAt
  <2>6. Busy(t)
    BY <2>1 DEF Busy
  <2>7. loc[t] \in Locals /\ loc' = [loc EXCEPT ![t] = loc[t]]
    BY <2>1, SameLocals
  <2>8. pc' \in [Threads -> Labels] /\ loc' \in [Threads -> Locals] /\ RoomLeft' /\ CallsKnow'
    BY ONLY <2>1, <2>5, <2>6, <2>7, TypeInv, OneMaintainer, OneMaintainer', t \in Threads, Moves
  <2> QED
    BY <2>1, <2>2, <2>4, <2>8 DEF TypeOK
<1>3. ASSUME NEW k \in Keys, CompactPeriod(t, k) PROVE TypeInv'
  <2> DEFINE r == [Blank EXCEPT !.op = "compact"]
             new == NewPart(nextId, "data", k, Disk(k))
  <2>1. pc' = [pc EXCEPT ![t] = "index"] /\ loc' = [loc EXCEPT ![t] = r]
    BY <1>3 DEF CompactPeriod, Goto
  <2>2. /\ UNCHANGED <<mem, memDel, ridx>> /\ nextId' = nextId + 1
        /\ parts' = (parts \ PartsOf(k)) \cup {new}
        /\ listed' = {p \in listed : p.key # k} \cup {new}
    BY <1>3 DEF CompactPeriod, buffer
  <2>3. pstate' \in [Keys -> States]
    BY <1>3 DEF CompactPeriod, TypeOK, States
  <2>4. r \in Locals
    BY BlankTyped DEF Locals, Blank, Ops
  <2>5. "index" \in Labels /\ KnowsAt("index", r) /\ RoomAt("index", r, nextId')
    BY DEF Labels, KnowsAt, RoomAt
  <2>6. nextId + 1 <= LastPart + 1
    BY <1>3, <2>1, StartsAlone DEF CompactPeriod, Starts
  <2> HIDE DEF r
  <2>7. Busy(t)'
    BY <2>1 DEF Busy, TypeOK
  <2>8. pc' \in [Threads -> Labels] /\ loc' \in [Threads -> Locals] /\ RoomLeft' /\ CallsKnow'
    BY <2>1, <2>4, <2>5, <2>7, Moves
  <2>9. new \in Part /\ new.id = nextId
    BY <2>6, DiskTyped, PeriodsAssumption DEF NewPart, Part, TypeOK
  <2> HIDE DEF new
  <2>10. /\ parts' \subseteq Part /\ listed' \subseteq Part /\ nextId' \in 1 .. LastPart + 1
         /\ \A p \in parts' \cup listed' : p.id < nextId'
    <3>1. nextId \in Nat /\ \A p \in parts \cup listed : p.id < nextId /\ p.id \in Nat
      BY PeriodsAssumption DEF TypeOK, Part
    <3> QED
      BY <2>2, <2>6, <2>9, <3>1, PeriodsAssumption DEF TypeOK
  <2> QED
    BY <2>2, <2>3, <2>8, <2>10 DEF TypeOK
<1> QED
  BY <1>1, <1>2, <1>3

LEMMA TypePut ==
  ASSUME TypeInv, OneMaintainer, OneMaintainer', NEW t \in Threads,
         (\E g \in Ranges, b \in Bitmaps : PutRange(t, g, b)) \/ RevertCompacted(t)
  PROVE  TypeInv'
<1> USE DEF TypeInv
<1>1. ASSUME NEW g \in Ranges, NEW b \in Bitmaps, PutRange(t, g, b) PROVE TypeInv'
  <2> DEFINE K == {k \in Range(g.keys) \cap ClosedKeys : pstate[k] = "Compacted"}
             r == [Blank EXCEPT !.op = "put", !.keys = g.keys, !.bits = b, !.revert = K]
  <2>1. PICK l \in {"lock", "revert"} :
          pc' = [pc EXCEPT ![t] = l] /\ loc' = [loc EXCEPT ![t] = r]
    BY <1>1 DEF PutRange, Goto
  <2>2. UNCHANGED <<mem, memDel, ridx, parts, listed, pstate, nextId>>
    BY <1>1 DEF PutRange, buffer, catalog
  <2>3. r.op = "put" /\ r.keys = g.keys /\ r \in Locals
    <3>1. g.keys \in Seq(Keys) /\ K \in SUBSET Keys /\ b \in SUBSET Ids
      BY RangeKeys DEF Bitmaps
    <3> HIDE DEF K
    <3> QED
      BY <3>1, BlankTyped DEF Locals, Blank, Ops, Writes
  <2>4. g.op = "put"
    BY <1>1 DEF PutRange
  <2> HIDE DEF r
  <2>5. l \in Labels /\ KnowsAt(l, r) /\ RoomAt(l, r, nextId')
    BY <2>3, <2>4 DEF Labels, KnowsAt, RoomAt
  <2>6. pc' \in [Threads -> Labels] /\ loc' \in [Threads -> Locals] /\ RoomLeft' /\ CallsKnow'
    BY <2>1, <2>2, <2>3, <2>5, Moves
  <2> QED
    BY <2>2, <2>6 DEF TypeOK
<1>2. CASE RevertCompacted(t)
  <2>1. /\ pc' = [pc EXCEPT ![t] = "lock"] /\ UNCHANGED loc /\ pc[t] = "revert"
        /\ UNCHANGED <<mem, memDel, ridx, parts, listed, nextId>>
    BY <1>2 DEF RevertCompacted, Goto, buffer
  <2>2. pstate' \in [Keys -> States]
    BY <1>2 DEF RevertCompacted, TypeOK, States
  <2>3. "lock" \in Labels /\ KnowsAt("lock", loc[t]) /\ RoomAt("lock", loc[t], nextId')
    <3>1. KnowsAt("revert", loc[t])
      BY <2>1 DEF CallsKnow
    <3> QED
      BY <3>1 DEF Labels, KnowsAt, RoomAt
  <2>4. loc[t] \in Locals /\ loc' = [loc EXCEPT ![t] = loc[t]]
    BY <2>1, SameLocals
  <2>5. pc' \in [Threads -> Labels] /\ loc' \in [Threads -> Locals] /\ RoomLeft' /\ CallsKnow'
    BY <2>1, <2>3, <2>4, Moves
  <2> QED
    BY <2>1, <2>2, <2>5 DEF TypeOK
<1> QED
  BY <1>1, <1>2

LEMMA TypeReplace ==
  ASSUME TypeInv, OneMaintainer, OneMaintainer', NEW t \in Threads,
         CollectOldParts(t) \/ ReplaceTxn(t)
  PROVE  TypeInv'
<1> USE DEF TypeInv
<1>1. CASE CollectOldParts(t)
  <2> DEFINE O == {p \in listed : p.key \in EntryKeys(loc[t].entries)}
             r == [loc[t] EXCEPT !.olds = O]
  <2>1. /\ pc[t] = "collect" /\ pc' = [pc EXCEPT ![t] = "replace_txn"]
        /\ loc' = [loc EXCEPT ![t] = r]
    BY <1>1 DEF CollectOldParts, Goto
  <2>2. UNCHANGED <<mem, memDel, ridx, parts, listed, pstate, nextId>>
    BY <1>1 DEF CollectOldParts, buffer, catalog
  <2>3. r \in Locals /\ r.op = loc[t].op /\ r.entries = loc[t].entries
    <3>1. O \in SUBSET Part
      BY DEF TypeOK
    <3> HIDE DEF O
    <3> QED
      BY <3>1, SameLocals, ZenonT(30) DEF Locals
  <2> HIDE DEF r
  <2>4. "replace_txn" \in Labels /\ KnowsAt("replace_txn", r)
    BY DEF Labels, KnowsAt
  <2>5. RoomAt("replace_txn", r, nextId')
    <3>1. RoomAt("collect", loc[t], nextId)
      BY <2>1 DEF RoomLeft
    <3> QED
      BY <2>2, <2>3, <3>1 DEF RoomAt
  <2>6. pc' \in [Threads -> Labels] /\ loc' \in [Threads -> Locals] /\ RoomLeft' /\ CallsKnow'
    BY <2>1, <2>2, <2>3, <2>4, <2>5, Moves
  <2> QED
    BY <2>2, <2>6 DEF TypeOK
<1>2. CASE ReplaceTxn(t)
  <2> DEFINE e == loc[t].entries
             new == [i \in DOMAIN e |-> NewPart(nextId + i - 1, "data", e[i].key, e[i].bits)]
             last == {i \in DOMAIN e : \A j \in DOMAIN e : e[j].key = e[i].key => j <= i}
  <2>1. /\ pc[t] = "replace_txn" /\ pc' = [pc EXCEPT ![t] = "index"] /\ UNCHANGED loc
        /\ UNCHANGED <<mem, memDel, ridx>>
        /\ parts' = (parts \ loc[t].olds) \cup Range(new)
        /\ listed' = {p \in listed : p.key \notin EntryKeys(e)} \cup {new[i] : i \in last}
        /\ nextId' = nextId + Len(e)
    BY <1>2 DEF ReplaceTxn, Goto, buffer
  <2>2. pstate' \in [Keys -> States]
    BY <1>2 DEF ReplaceTxn, TypeOK, States
  <2>3. e \in Replacements /\ nextId + Len(e) <= LastPart + 1
    BY <2>1 DEF RoomLeft, RoomAt
  <2>4. nextId \in Nat \ {0} /\ LastPart \in Nat
    BY PeriodsAssumption DEF TypeOK
  <2> HIDE DEF e
  <2>5. /\ Len(e) \in Nat /\ DOMAIN e = 1 .. Len(e)
        /\ \A i \in DOMAIN e : e[i].key \in Keys /\ e[i].bits \in SUBSET Ids
    BY <2>3, ReplacementBits
  <2>6. \A i \in DOMAIN e : new[i] \in Part /\ new[i].id < nextId + Len(e)
    BY <2>3, <2>4, <2>5 DEF NewPart, Part
  <2>7. DOMAIN new = DOMAIN e /\ last \subseteq DOMAIN e
    OBVIOUS
  <2> HIDE DEF new, last
  <2>8. /\ parts' \subseteq Part /\ listed' \subseteq Part /\ nextId' \in 1 .. LastPart + 1
        /\ \A p \in parts' \cup listed' : p.id < nextId'
    <3>1. \A p \in parts \cup listed : p.id < nextId + Len(e) /\ p \in Part
      <4>1. \A p \in parts \cup listed : p.id < nextId /\ p \in Part /\ p.id \in Nat
        BY DEF TypeOK, Part
      <4> QED
        BY <4>1, <2>4, <2>5
    <3>2. \A p \in Range(new) \cup {new[i] : i \in last} : p \in Part /\ p.id < nextId + Len(e)
      BY <2>6, <2>7 DEF Range
    <3>3. nextId' \in 1 .. LastPart + 1
      BY <2>1, <2>3, <2>4, <2>5
    <3> QED
      BY <2>1, <3>1, <3>2, <3>3
  <2>9. "index" \in Labels /\ KnowsAt("index", loc[t]) /\ RoomAt("index", loc[t], nextId')
    BY DEF Labels, KnowsAt, RoomAt
  <2>10. loc[t] \in Locals /\ loc' = [loc EXCEPT ![t] = loc[t]] /\ Busy(t)
    BY <2>1, SameLocals DEF Busy
  <2>11. pc' \in [Threads -> Labels] /\ loc' \in [Threads -> Locals] /\ RoomLeft' /\ CallsKnow'
    BY ONLY <2>1, <2>9, <2>10, TypeInv, OneMaintainer, OneMaintainer', t \in Threads, Moves
  <2> QED
    BY <2>1, <2>2, <2>8, <2>11 DEF TypeOK
<1> QED
  BY <1>1, <1>2

LEMMA TypeRetain ==
  ASSUME TypeInv, OneMaintainer, OneMaintainer', NEW t \in Threads,
         RetainPeriods(t) \/ DeleteTxn(t) \/ DeletedAll(t) \/ StoreIndex(t)
  PROVE  TypeInv'
<1> USE DEF TypeInv
<1>1. CASE RetainPeriods(t)
  <2> DEFINE r == [Blank EXCEPT !.op = "retain", !.left = PeriodKeys \ Kept]
  <2>1. pc' = [pc EXCEPT ![t] = "delete"] /\ loc' = [loc EXCEPT ![t] = r]
    BY <1>1 DEF RetainPeriods, Goto
  <2>2. UNCHANGED <<mem, memDel, ridx, parts, listed, pstate, nextId>>
    BY <1>1 DEF RetainPeriods, buffer, catalog
  <2>3. r.op = "retain" /\ r \in Locals
    <3>1. PeriodKeys \ Kept \in SUBSET Keys
      BY DEF TypeOK, PeriodKeys, Part
    <3> QED
      BY <3>1, BlankTyped DEF Locals, Blank, Ops
  <2> HIDE DEF r
  <2>4. "delete" \in Labels /\ KnowsAt("delete", r) /\ RoomAt("delete", r, nextId')
    BY <2>3 DEF Labels, KnowsAt, RoomAt
  <2>5. pc' \in [Threads -> Labels] /\ loc' \in [Threads -> Locals] /\ RoomLeft' /\ CallsKnow'
    BY <2>1, <2>2, <2>3, <2>4, Moves
  <2> QED
    BY <2>2, <2>5 DEF TypeOK
<1>2. CASE DeleteTxn(t)
  <2> DEFINE k == Head(loc[t].keys)
             r == [loc[t] EXCEPT !.keys = <<>>]
  <2>1. /\ pc[t] = "delete_txn" /\ pc' = [pc EXCEPT ![t] = "index"] /\ loc' = [loc EXCEPT ![t] = r]
        /\ parts' = parts \ PartsOf(k) /\ listed' = {p \in listed : p.key # k}
        /\ pstate' = [pstate EXCEPT ![k] = "None"]
        /\ UNCHANGED <<mem, memDel, ridx, nextId>>
    BY <1>2 DEF DeleteTxn, Goto, buffer
  <2>2. r \in Locals
    <3>1. <<>> \in Seq(Keys)
      OBVIOUS
    <3> QED
      BY <3>1, SameLocals, ZenonT(30) DEF Locals
  <2> HIDE DEF r, k
  <2>3. "index" \in Labels /\ KnowsAt("index", r) /\ RoomAt("index", r, nextId')
    BY DEF Labels, KnowsAt, RoomAt
  <2>4. pc' \in [Threads -> Labels] /\ loc' \in [Threads -> Locals] /\ RoomLeft' /\ CallsKnow'
    BY <2>1, <2>2, <2>3, Moves
  <2> QED
    BY <2>1, <2>4 DEF TypeOK, States
<1>3. CASE DeletedAll(t)
  <2>1. /\ pc' = [pc EXCEPT ![t] = "idle"] /\ loc' = [loc EXCEPT ![t] = Blank]
        /\ UNCHANGED <<mem, memDel, ridx, parts, listed, pstate, nextId>>
    BY <1>3 DEF DeletedAll, Return, Goto, buffer, catalog
  <2>2. "idle" \in Labels
    BY DEF Labels
  <2>3. pc' \in [Threads -> Labels] /\ loc' \in [Threads -> Locals] /\ RoomLeft' /\ CallsKnow'
    BY <2>1, <2>2, BlankTyped, Moves
  <2> QED
    BY <2>1, <2>3 DEF TypeOK
<1>4. CASE StoreIndex(t)
  <2>1. UNCHANGED <<mem, memDel, parts, listed, pstate, nextId>> /\ pc[t] = "index"
    BY <1>4 DEF StoreIndex, buffer, catalog
  <2>2. ridx' \in [Keys -> {Absent} \cup SUBSET Ids]
    BY <1>4, DiskTyped DEF StoreIndex, FreshIndex
  <2>3. CASE loc[t].op = "retain"
    <3>1. pc' = [pc EXCEPT ![t] = "delete"] /\ UNCHANGED loc
      BY <1>4, <2>3 DEF StoreIndex, Goto
    <3>2. "delete" \in Labels /\ KnowsAt("delete", loc[t]) /\ RoomAt("delete", loc[t], nextId')
      BY <2>3 DEF Labels, KnowsAt, RoomAt
    <3>3. loc[t] \in Locals /\ loc' = [loc EXCEPT ![t] = loc[t]]
      BY <3>1, SameLocals
    <3>4. pc' \in [Threads -> Labels] /\ loc' \in [Threads -> Locals] /\ RoomLeft' /\ CallsKnow'
      BY <2>1, <3>1, <3>2, <3>3, Moves
    <3> QED
      BY <2>1, <2>2, <3>4 DEF TypeOK
  <2>4. CASE loc[t].op # "retain"
    <3>1. pc' = [pc EXCEPT ![t] = "idle"] /\ loc' = [loc EXCEPT ![t] = Blank]
      BY <1>4, <2>4 DEF StoreIndex, Return, Goto
    <3>2. "idle" \in Labels
      BY DEF Labels
    <3>3. pc' \in [Threads -> Labels] /\ loc' \in [Threads -> Locals] /\ RoomLeft' /\ CallsKnow'
      BY <2>1, <3>1, <3>2, BlankTyped, Moves
    <3> QED
      BY <2>1, <2>2, <3>3 DEF TypeOK
  <2> QED
    BY <2>3, <2>4
<1> QED
  BY <1>1, <1>2, <1>3, <1>4

(* A read changes nothing but its own program counter and variables.       *)
LEMMA TypeMoves ==
  ASSUME TypeInv, OneMaintainer, OneMaintainer', NEW t \in Threads,
         UNCHANGED <<mem, memDel, ridx, parts, listed, pstate, nextId>>,
         NEW l \in Labels \ {"flush_txn", "collect", "replace_txn"}, NEW r \in Locals,
         pc' = [pc EXCEPT ![t] = l], loc' = [loc EXCEPT ![t] = r], KnowsAt(l, r)
  PROVE  TypeInv'
<1>1. RoomAt(l, r, nextId')
  BY DEF RoomAt
<1>2. pc' \in [Threads -> Labels] /\ loc' \in [Threads -> Locals] /\ RoomLeft' /\ CallsKnow'
  BY <1>1, Moves
<1> QED
  BY <1>2 DEF TypeInv, TypeOK

LEMMA QueryKeys ==
  ASSUME NEW q \in Queries
  PROVE  /\ q.op \in Reads /\ q.keys \in Seq(Keys) /\ q.keys # <<>>
         /\ Len(q.keys) \in Nat \ {0} /\ DOMAIN q.keys = 1 .. Len(q.keys)
         /\ Head(q.keys) = q.keys[1] /\ Head(q.keys) \in Keys
<1>1. q.op \in Reads /\ q.keys \in Seq(Keys) /\ q.keys # <<>>
  BY PeriodsAssumption
<1> QED
  BY <1>1, LenProperties, EmptySeq, HeadTailProperties

LEMMA TypeStart ==
  ASSUME TypeInv, OneMaintainer, OneMaintainer', NEW t \in Threads,
         NEW q \in Queries, Query(t, q) \/ CountBitmap(t, q)
  PROVE  TypeInv'
<1> DEFINE r == [Blank EXCEPT !.op = q.op, !.keys = q.keys]
<1>1. PICK l \in {"read", "count_state"} :
        /\ l = "count_state" => q.op = "cardinality"
        /\ pc' = [pc EXCEPT ![t] = l] /\ loc' = [loc EXCEPT ![t] = r]
        /\ UNCHANGED <<mem, memDel, ridx, parts, listed, pstate, nextId>>
  BY DEF Query, CountBitmap, StartRead, Goto, buffer, catalog
<1>2. /\ r \in Locals /\ r.op = q.op /\ r.keys = q.keys /\ r.got = <<>>
      /\ q.op \in Reads /\ q.keys # <<>> /\ Len(q.keys) \in Nat \ {0}
  BY BlankTyped, QueryKeys DEF Locals, Blank, Ops
<1> HIDE DEF r
<1>3. Len(r.got) = 0
  BY <1>2
<1>4. l \in Labels \ {"flush_txn", "collect", "replace_txn"} /\ KnowsAt(l, r)
  BY <1>1, <1>2, <1>3 DEF Labels, KnowsAt
<1> QED
  BY <1>1, <1>2, <1>4, TypeMoves

(* What the types say of a read's sequences.                               *)
LEMMA ReadTypes ==
  ASSUME TypeInv, NEW t \in Threads
  PROVE  /\ loc[t] \in Locals /\ loc[t].keys \in Seq(Keys) /\ loc[t].got \in Seq(SUBSET Ids)
         /\ Len(loc[t].keys) \in Nat /\ DOMAIN loc[t].keys = 1 .. Len(loc[t].keys)
         /\ Len(loc[t].got) \in Nat /\ DOMAIN loc[t].got = 1 .. Len(loc[t].got)
         /\ pc[t] \in {"read", "cache"} =>
              /\ Len(loc[t].got) + 1 \in DOMAIN loc[t].keys
              /\ NextKey(t) \in Keys /\ NextKey(t) \in Range(loc[t].keys)
<1>1. loc[t] \in Locals /\ loc[t].keys \in Seq(Keys) /\ loc[t].got \in Seq(SUBSET Ids)
  BY DEF TypeInv, TypeOK, Locals
<1>2. /\ Len(loc[t].keys) \in Nat /\ DOMAIN loc[t].keys = 1 .. Len(loc[t].keys)
      /\ Len(loc[t].got) \in Nat /\ DOMAIN loc[t].got = 1 .. Len(loc[t].got)
  BY <1>1, LenProperties
<1>3. ASSUME pc[t] \in {"read", "cache"} PROVE Len(loc[t].got) + 1 \in DOMAIN loc[t].keys
  <2>1. Len(loc[t].got) < Len(loc[t].keys)
    BY <1>3 DEF TypeInv, CallsKnow, KnowsAt
  <2> QED
    BY <1>2, <2>1
<1> QED
  BY <1>1, <1>2, <1>3, ElementOfSeq DEF NextKey, Range

LEMMA TypeRead ==
  ASSUME TypeInv, OneMaintainer, OneMaintainer', NEW t \in Threads, Read(t)
  PROVE  TypeInv'
<1> DEFINE Same == UNCHANGED <<mem, memDel, ridx, parts, listed, pstate, nextId>>
           Plain == Labels \ {"flush_txn", "collect", "replace_txn"}
<1>1. CASE CountState(t) \/ CountDeltas(t)
  <2>1. PICK l \in {"count_parts", "count_part", "read"} :
          /\ pc' = [pc EXCEPT ![t] = l] /\ UNCHANGED loc /\ Same
          /\ pc[t] \in {"count_state", "count_deltas"}
          /\ l = "count_part" => Cardinality(loc[t].olds) = 1
    BY <1>1 DEF CountState, CountDeltas, Goto, buffer, catalog
  <2>2. loc[t].op = "cardinality" /\ loc[t].keys # <<>> /\ loc[t].got = <<>>
    BY <2>1 DEF TypeInv, CallsKnow, KnowsAt
  <2>3. Len(loc[t].got) < Len(loc[t].keys)
    BY <2>2, ReadTypes, EmptySeq
  <2>4. l = "count_part" => \E p \in Part : loc[t].olds = {p}
    <3>1. loc[t].olds \in SUBSET Part
      BY SameLocals DEF Locals
    <3> QED
      BY <2>1, <3>1, OnePart
  <2>5. l \in Plain /\ KnowsAt(l, loc[t])
    BY <2>2, <2>3, <2>4 DEF Labels, KnowsAt, Reads
  <2>6. loc[t] \in Locals /\ loc' = [loc EXCEPT ![t] = loc[t]]
    BY <2>1, SameLocals
  <2> QED
    BY <2>1, <2>5, <2>6, TypeMoves
<1>2. CASE CountParts(t)
  <2> DEFINE O == Listed(Head(loc[t].keys), "data")
             r == [loc[t] EXCEPT !.olds = O]
  <2>1. /\ pc' = [pc EXCEPT ![t] = "count_deltas"] /\ loc' = [loc EXCEPT ![t] = r] /\ Same
        /\ pc[t] = "count_parts"
    BY <1>2 DEF CountParts, Goto, buffer, catalog
  <2>2. loc[t].op = "cardinality" /\ loc[t].keys # <<>> /\ loc[t].got = <<>>
    BY <2>1 DEF TypeInv, CallsKnow, KnowsAt
  <2>3. /\ r \in Locals /\ r.op = loc[t].op /\ r.keys = loc[t].keys /\ r.got = loc[t].got
    <3>1. O \in SUBSET Part
      BY DEF TypeInv, TypeOK, Listed
    <3> HIDE DEF O
    <3> QED
      BY <3>1, SameLocals DEF Locals
  <2> HIDE DEF r
  <2>4. "count_deltas" \in Plain /\ KnowsAt("count_deltas", r)
    BY <2>2, <2>3 DEF Labels, KnowsAt
  <2> QED
    BY <2>1, <2>3, <2>4, TypeMoves
<1>3. CASE CountPart(t)
  <2>0. pc[t] = "count_part"
    BY <1>3 DEF CountPart
  <2>1. PICK p \in Part : loc[t].olds = {p}
    BY <2>0 DEF TypeInv, CallsKnow, KnowsAt
  <2>2. loc[t].op = "cardinality" /\ loc[t].keys # <<>> /\ loc[t].got = <<>>
    BY <2>0 DEF TypeInv, CallsKnow, KnowsAt
  <2>3. CASE loc[t].olds \subseteq parts
    <3> DEFINE r == [loc[t] EXCEPT !.got = <<p.bits>>, !.olds = {}]
    <3>1. pc' = [pc EXCEPT ![t] = "got"] /\ loc' = [loc EXCEPT ![t] = r] /\ Same
      BY <1>3, <2>1, <2>3 DEF CountPart, Goto, buffer, catalog, TypeInv, TypeOK
    <3>2. r \in Locals /\ r.op = loc[t].op
      <4>1. <<p.bits>> \in Seq(SUBSET Ids)
        BY DEF Part
      <4> QED
        BY <4>1, SameLocals, ZenonT(30) DEF Locals
    <3> HIDE DEF r
    <3>3. "got" \in Plain /\ KnowsAt("got", r)
      BY <2>2, <3>2 DEF Labels, KnowsAt, Reads
    <3> QED
      BY <3>1, <3>2, <3>3, TypeMoves
  <2>4. CASE ~ (loc[t].olds \subseteq parts)
    <3> DEFINE r == [loc[t] EXCEPT !.olds = {}]
    <3>1. pc' = [pc EXCEPT ![t] = "read"] /\ loc' = [loc EXCEPT ![t] = r] /\ Same
      BY <1>3, <2>4 DEF CountPart, Goto, buffer, catalog
    <3>2. r \in Locals /\ r.op = loc[t].op /\ r.keys = loc[t].keys /\ r.got = loc[t].got
      BY SameLocals, ZenonT(30) DEF Locals
    <3> HIDE DEF r
    <3>3. Len(r.got) < Len(r.keys)
      BY <2>2, <3>2, ReadTypes, EmptySeq
    <3>4. "read" \in Plain /\ KnowsAt("read", r)
      BY <2>2, <3>2, <3>3 DEF Labels, KnowsAt, Reads
    <3> QED
      BY <3>1, <3>2, <3>4, TypeMoves
  <2> QED
    BY <2>3, <2>4
<1>4. CASE ReadBuffer(t)
  <2> DEFINE k == NextKey(t)
             r == [loc[t] EXCEPT !.overlay = <<mem[k], memDel[k]>>]
  <2>1. /\ pc' = [pc EXCEPT ![t] = "cache"] /\ loc' = [loc EXCEPT ![t] = r] /\ Same
        /\ pc[t] = "read"
    BY <1>4 DEF ReadBuffer, Goto, buffer, catalog
  <2>2. k \in Keys
    BY <2>1, ReadTypes
  <2> HIDE DEF k
  <2>3. r \in Locals /\ r.op = loc[t].op /\ r.keys = loc[t].keys /\ r.got = loc[t].got
    <3>1. <<mem[k], memDel[k]>> \in (SUBSET Ids) \X (SUBSET Ids)
      BY <2>2 DEF TypeInv, TypeOK
    <3> QED
      BY <3>1, SameLocals DEF Locals
  <2> HIDE DEF r
  <2>4. KnowsAt("read", loc[t])
    BY <2>1 DEF TypeInv, CallsKnow
  <2>5. "cache" \in Plain /\ KnowsAt("cache", r)
    BY <2>3, <2>4 DEF Labels, KnowsAt
  <2> QED
    BY <2>1, <2>3, <2>5, TypeMoves
<1>5. CASE ReadCache(t)
  <2> DEFINE k == NextKey(t)
             o == loc[t].overlay
             S == Overlay(IF ridx[k] # Absent THEN ridx[k] ELSE Disk(k), o[1], o[2])
             got == Append(loc[t].got, S)
             r == [loc[t] EXCEPT !.got = got, !.overlay = <<{}, {}>>]
  <2>1. /\ pc' = [pc EXCEPT ![t] = IF Done(t, got) THEN "got" ELSE "read"]
        /\ loc' = [loc EXCEPT ![t] = r] /\ Same /\ pc[t] = "cache"
    BY <1>5 DEF ReadCache, Goto, buffer, catalog, TypeInv, TypeOK
  <2>2. k \in Keys
    BY <2>1, ReadTypes
  <2>3. S \in SUBSET Ids
    <3>1. o \in (SUBSET Ids) \X (SUBSET Ids)
      BY SameLocals DEF Locals
    <3>2. Disk(k) \in SUBSET Ids /\ ridx[k] \in {Absent} \cup SUBSET Ids
      BY <2>2, DiskTyped DEF TypeInv, TypeOK
    <3> HIDE DEF k, o
    <3> QED
      BY <3>1, <3>2 DEF Overlay
  <2> HIDE DEF S
  <2>4. got \in Seq(SUBSET Ids) /\ Len(got) = Len(loc[t].got) + 1
    BY <2>3, ReadTypes, AppendProperties
  <2> HIDE DEF got, k, o
  <2>5. r \in Locals /\ r.op = loc[t].op /\ r.keys = loc[t].keys /\ r.got = got
    BY <2>4, SameLocals, ZenonT(30) DEF Locals
  <2> HIDE DEF r
  <2>6. loc[t].op \in Reads /\ Len(loc[t].got) < Len(loc[t].keys)
    BY <2>1 DEF TypeInv, CallsKnow, KnowsAt
  <2>7. CASE Done(t, got)
    <3>1. "got" \in Plain /\ KnowsAt("got", r)
      BY <2>5, <2>6 DEF Labels, KnowsAt
    <3> QED
      BY <2>1, <2>5, <2>7, <3>1, TypeMoves
  <2>8. CASE ~Done(t, got)
    <3>1. Len(got) < Len(loc[t].keys)
      BY <2>4, <2>6, <2>8, ReadTypes DEF Done
    <3>2. "read" \in Plain /\ KnowsAt("read", r)
      BY <2>5, <2>6, <3>1 DEF Labels, KnowsAt
    <3> QED
      BY <2>1, <2>5, <2>8, <3>2, TypeMoves
  <2> QED
    BY <2>7, <2>8
<1>6. CASE ReadReturns(t)
  <2>1. /\ pc' = [pc EXCEPT ![t] = "idle"] /\ loc' = [loc EXCEPT ![t] = Blank] /\ Same
    BY <1>6 DEF ReadReturns, Return, Goto, buffer, catalog
  <2>2. "idle" \in Plain
    BY DEF Labels
  <2> QED
    BY <2>1, <2>2, BlankTyped, TypeMoves
<1> QED
  BY <1>1, <1>2, <1>3, <1>4, <1>5, <1>6, TypeStart DEF Read

LEMMA TypeInit == Init => TypeInv
<1> SUFFICES ASSUME Init PROVE TypeInv
  OBVIOUS
<1>1. TypeOK
  BY BlankTyped, PeriodsAssumption DEF Init, TypeOK, Empty, States, Labels
<1>2. RoomLeft /\ CallsKnow
  BY BlankTyped DEF Init, RoomLeft, CallsKnow
<1> QED
  BY <1>1, <1>2 DEF TypeInv

LEMMA TypeStep ==
  TypeInv /\ OneMaintainer /\ OneMaintainer' /\ [Next]_vars => TypeInv'
<1> SUFFICES ASSUME TypeInv, OneMaintainer, OneMaintainer', [Next]_vars PROVE TypeInv'
  OBVIOUS
<1>1. ASSUME NEW t \in Threads, Internal(t) PROVE TypeInv'
  BY <1>1, TypePut, TypeFlush, TypeReplace, TypeRetain DEF Internal
<1>2. CASE Reopen
  <2>1. /\ mem' = Empty /\ memDel' = Empty /\ ridx' = FreshIndex
        /\ pc' = [t \in Threads |-> "idle"] /\ loc' = [t \in Threads |-> Blank]
        /\ UNCHANGED <<parts, listed, pstate, nextId>>
    BY <1>2 DEF Reopen, catalog
  <2>2. RoomLeft' /\ CallsKnow'
    BY <2>1 DEF RoomLeft, CallsKnow, RoomAt, KnowsAt
  <2>3. ridx' \in [Keys -> {Absent} \cup SUBSET Ids]
    BY <2>1, DiskTyped DEF FreshIndex, TypeInv
  <2> QED
    BY <2>1, <2>2, <2>3, BlankTyped DEF TypeInv, TypeOK, Labels
<1>3. CASE UNCHANGED vars
  BY <1>3 DEF vars, buffer, catalog, TypeInv, TypeOK, RoomLeft, CallsKnow, RoomAt, KnowsAt, Empty
<1> QED
  BY <1>1, <1>2, <1>3, TypeUpdate, TypeRead DEF Next

-----------------------------------------------------------------------------
(* The catalog.                                                            *)

(* A thread's step changes its own program counter and variables only.     *)
LEMMA Others ==
  ASSUME TypeInv, NEW t \in Threads, Update(t) \/ Internal(t) \/ Read(t)
  PROVE  \A u \in Threads \ {t} : pc'[u] = pc[u] /\ loc'[u] = loc[u]
<1> DEFINE Own == \E l, r : pc' = [pc EXCEPT ![t] = l] /\ loc' = [loc EXCEPT ![t] = r]
<1>0. loc = [loc EXCEPT ![t] = loc[t]] /\ pc = [pc EXCEPT ![t] = pc[t]]
  BY DEF TypeInv, TypeOK
<1>1. Update(t) => Own
  <2>1. RangeLock(t) => Own
    BY Zenon DEF RangeLock, Return, Goto
  <2>2. \A g \in Ranges, b \in Bitmaps : RemoveRange(t, g, b) => Own
    BY <1>0, Zenon DEF RemoveRange
  <2>3. \A e \in Replacements : BulkReplace(t, e) => Own
    BY Zenon DEF BulkReplace, Goto
  <2>4. \A k \in Keys : DeleteLock(t, k) => Own
    BY Zenon DEF DeleteLock, Goto
  <2> QED
    BY <2>1, <2>2, <2>3, <2>4 DEF Update
<1>2. Internal(t) => Own
  <2>1. \A g \in Ranges, b \in Bitmaps : PutRange(t, g, b) => Own
    BY Zenon DEF PutRange, Goto
  <2>2. RevertCompacted(t) \/ TakeSnapshot(t) \/ FlushTxn(t) => Own
    BY <1>0, Zenon DEF RevertCompacted, TakeSnapshot, FlushTxn, Goto
  <2>3. \A k \in Keys : CompactPeriod(t, k) => Own
    BY Zenon DEF CompactPeriod, Goto
  <2>4. CollectOldParts(t) \/ ReplaceTxn(t) \/ RetainPeriods(t) => Own
    BY <1>0, Zenon DEF CollectOldParts, ReplaceTxn, RetainPeriods, Goto
  <2>5. DeleteTxn(t) \/ DeletedAll(t) \/ StoreIndex(t) => Own
    BY <1>0, Zenon DEF DeleteTxn, DeletedAll, StoreIndex, Return, Goto
  <2> QED
    BY <2>1, <2>2, <2>3, <2>4, <2>5 DEF Internal
<1>3. Read(t) => Own
  <2>1. \A q \in Queries : Query(t, q) \/ CountBitmap(t, q) => Own
    BY Zenon DEF Query, CountBitmap, StartRead, Goto
  <2>2. CountState(t) \/ CountParts(t) \/ CountDeltas(t) => Own
    BY <1>0, Zenon DEF CountState, CountParts, CountDeltas, Goto
  <2>3. CountPart(t) => Own
    <3> SUFFICES ASSUME CountPart(t) PROVE Own
      OBVIOUS
    <3>1. CASE loc[t].olds \subseteq parts
      <4>1. PICK p \in loc[t].olds : loc' = [loc EXCEPT ![t].got = <<p.bits>>, ![t].olds = {}]
        BY <3>1 DEF CountPart
      <4>2. loc' = [loc EXCEPT ![t] = [loc[t] EXCEPT !.got = <<p.bits>>, !.olds = {}]]
        BY <4>1 DEF TypeInv, TypeOK
      <4> QED
        BY <3>1, <4>2, Zenon DEF CountPart, Goto
    <3>2. CASE ~ (loc[t].olds \subseteq parts)
      BY <3>2, Zenon DEF CountPart, Goto
    <3> QED
      BY <3>1, <3>2
  <2>4. ReadBuffer(t) \/ ReadReturns(t) => Own
    BY Zenon DEF ReadBuffer, ReadReturns, Return, Goto
  <2>5. ReadCache(t) => Own
    BY Zenon DEF ReadCache, Goto
  <2> QED
    BY <2>1, <2>2, <2>3, <2>4, <2>5 DEF Read
<1> QED
  BY <1>1, <1>2, <1>3 DEF TypeInv, TypeOK

(* The steps that change the catalog's parts are a maintainer's.           *)
PartsStep(t) ==
  FlushTxn(t) \/ (\E k \in Keys : CompactPeriod(t, k)) \/ ReplaceTxn(t) \/ DeleteTxn(t)

LEMMA PartsSteps ==
  ASSUME NEW t \in Threads
  PROVE  /\ Update(t) \/ Read(t) => UNCHANGED catalog
         /\ Internal(t) => PartsStep(t) \/ UNCHANGED <<parts, listed, nextId>>
<1>1. Update(t) => UNCHANGED catalog
  BY DEF Update, RangeLock, RemoveRange, BulkReplace, DeleteLock
<1>2. Read(t) => UNCHANGED catalog
  BY DEF Read, Query, CountBitmap, StartRead, CountState, CountParts, CountDeltas, CountPart,
         ReadBuffer, ReadCache, ReadReturns
<1>3. Internal(t) => PartsStep(t) \/ UNCHANGED <<parts, listed, nextId>>
  BY DEF Internal, PartsStep, PutRange, RevertCompacted, TakeSnapshot, CollectOldParts,
         RetainPeriods, DeletedAll, StoreIndex, catalog
<1> QED
  BY <1>1, <1>2, <1>3

LEMMA PartsStepBusy ==
  ASSUME TypeInv, OneMaintainer, OneMaintainer', NEW t \in Threads, PartsStep(t)
  PROVE  /\ Busy(t)' /\ pc'[t] = "index"
         /\ \A u \in Threads \ {t} : pc'[u] = pc[u] /\ loc'[u] = loc[u] /\ ~Busy(u) /\ ~Busy(u)'
<1>1. pc' = [pc EXCEPT ![t] = "index"]
  BY DEF PartsStep, FlushTxn, CompactPeriod, ReplaceTxn, DeleteTxn, Goto
<1>2. \A u \in Threads \ {t} : pc'[u] = pc[u] /\ loc'[u] = loc[u]
  <2>1. Internal(t)
    BY DEF PartsStep, Internal
  <2> QED
    BY <2>1, Others
<1>3. Busy(t)' /\ pc'[t] = "index"
  BY <1>1 DEF Busy, TypeInv, TypeOK
<1>4. ASSUME NEW u \in Threads \ {t} PROVE ~Busy(u)' /\ ~Busy(u)
  BY <1>2, <1>3 DEF OneMaintainer, Busy
<1> QED
  BY <1>2, <1>3, <1>4

LEMMA HistoryStep ==
  ASSUME NEW t \in Threads
  PROVE  HUpdate(t) => Update(t)
BY DEF HUpdate, Update

LEMMA HistoryNext == HNext => Next
BY HistoryStep DEF HNext, Next

LEMMA ListsStep ==
  ASSUME TypeInv, ListsMatchParts, Collected, NEW t \in Threads, PartsStep(t),
         doubled' = IF pc[t] = "replace_txn" THEN doubled \cup Overwritten(t) ELSE doubled
  PROVE  ListsMatchParts'
<1>1. CASE FlushTxn(t)
  <2>1. PICK D, E : parts' = parts \cup D \cup E /\ listed' = listed \cup D \cup E
    BY <1>1 DEF FlushTxn
  <2> QED
    BY <2>1 DEF ListsMatchParts
<1>2. ASSUME NEW k \in Keys, CompactPeriod(t, k) PROVE ListsMatchParts'
  <2>1. PICK p : /\ parts' = (parts \ PartsOf(k)) \cup {p}
                 /\ listed' = {q \in listed : q.key # k} \cup {p}
    BY <1>2 DEF CompactPeriod
  <2> QED
    BY <2>1 DEF ListsMatchParts, PartsOf
<1>3. CASE ReplaceTxn(t)
  <2> DEFINE e == loc[t].entries
             new == [i \in DOMAIN e |-> NewPart(nextId + i - 1, "data", e[i].key, e[i].bits)]
             last == {i \in DOMAIN e : \A j \in DOMAIN e : e[j].key = e[i].key => j <= i}
  <2>1. /\ pc[t] = "replace_txn"
        /\ parts' = (parts \ loc[t].olds) \cup Range(new)
        /\ listed' = {p \in listed : p.key \notin EntryKeys(e)} \cup {new[i] : i \in last}
    BY <1>3 DEF ReplaceTxn
  <2>2. loc[t].olds = {p \in listed : p.key \in EntryKeys(e)}
    BY <2>1 DEF Collected
  <2>3. DOMAIN new = DOMAIN e /\ last \subseteq DOMAIN e
    OBVIOUS
  <2>4. ASSUME NEW i \in DOMAIN e, i \notin last PROVE new[i].id \in Overwritten(t)
    <3>1. e \in Replacements
      BY <2>1 DEF TypeInv, RoomLeft, RoomAt
    <3>2. DOMAIN e = 1 .. Len(e) /\ Len(e) \in Nat
      BY <3>1, ReplacementBits
    <3>3. PICK j \in DOMAIN e : e[j].key = e[i].key /\ ~ (j <= i)
      BY <2>4
    <3>4. j > i
      BY <3>2, <3>3
    <3>5. new[i].id = nextId + i - 1
      BY DEF NewPart
    <3> QED
      BY <3>3, <3>4, <3>5 DEF Overwritten
  <2>5. doubled' = doubled \cup Overwritten(t)
    BY <2>1
  <2> HIDE DEF new, last, e
  <2>6. listed' \subseteq parts'
    BY <2>1, <2>2, <2>3 DEF ListsMatchParts, Range
  <2>7. ASSUME NEW p \in parts' \ listed' PROVE p.id \in doubled'
    <3>1. CASE p \in Range(new)
      BY <2>1, <2>3, <2>4, <2>5, <3>1 DEF Range
    <3>2. CASE p \notin Range(new)
      BY <2>1, <2>2, <2>5, <2>7, <3>2 DEF ListsMatchParts
    <3> QED
      BY <3>1, <3>2
  <2> QED
    BY <2>6, <2>7 DEF ListsMatchParts
<1>4. CASE DeleteTxn(t)
  <2>1. PICK k : parts' = parts \ PartsOf(k) /\ listed' = {p \in listed : p.key # k}
    BY <1>4 DEF DeleteTxn
  <2>2. pc[t] # "replace_txn"
    BY <1>4 DEF DeleteTxn
  <2> QED
    BY <2>1, <2>2 DEF ListsMatchParts, PartsOf
<1> QED
  BY <1>1, <1>2, <1>3, <1>4 DEF PartsStep

(* Where a thread is before and after each of its steps.                   *)
From(t, l, m) == pc[t] = l /\ pc'[t] = m

LEMMA UpdateLabels ==
  ASSUME TypeInv, NEW t \in Threads
  PROVE  /\ RangeLock(t) => From(t, "lock", "idle")
         /\ \A g \in Ranges, b \in Bitmaps : RemoveRange(t, g, b) => From(t, "idle", "idle")
         /\ \A e \in Replacements : BulkReplace(t, e) => From(t, "idle", "collect")
         /\ \A k \in Keys : DeleteLock(t, k) => From(t, "delete", "delete_txn")
BY DEF RangeLock, RemoveRange, BulkReplace, DeleteLock, Return, Goto, Starts, From, TypeInv, TypeOK

LEMMA InternalLabels ==
  ASSUME TypeInv, NEW t \in Threads
  PROVE  /\ \A g \in Ranges, b \in Bitmaps :
              PutRange(t, g, b) => From(t, "idle", "lock") \/ From(t, "idle", "revert")
         /\ RevertCompacted(t) => From(t, "revert", "lock")
         /\ TakeSnapshot(t) => From(t, "idle", "flush_txn")
         /\ FlushTxn(t) => From(t, "flush_txn", "index")
         /\ \A k \in Keys : CompactPeriod(t, k) => From(t, "idle", "index")
         /\ CollectOldParts(t) => From(t, "collect", "replace_txn")
         /\ ReplaceTxn(t) => From(t, "replace_txn", "index")
         /\ RetainPeriods(t) => From(t, "idle", "delete")
         /\ DeleteTxn(t) => From(t, "delete_txn", "index")
         /\ DeletedAll(t) => From(t, "delete", "idle")
         /\ StoreIndex(t) => From(t, "index", IF loc[t].op = "retain" THEN "delete" ELSE "idle")
<1>1. \A g \in Ranges, b \in Bitmaps :
        PutRange(t, g, b) => From(t, "idle", "lock") \/ From(t, "idle", "revert")
  BY DEF PutRange, Goto, Starts, From, TypeInv, TypeOK
<1>2. /\ RevertCompacted(t) => From(t, "revert", "lock")
      /\ TakeSnapshot(t) => From(t, "idle", "flush_txn")
      /\ FlushTxn(t) => From(t, "flush_txn", "index")
      /\ \A k \in Keys : CompactPeriod(t, k) => From(t, "idle", "index")
  BY DEF RevertCompacted, TakeSnapshot, FlushTxn, CompactPeriod, Goto, Starts, From, TypeInv, TypeOK
<1>3. /\ CollectOldParts(t) => From(t, "collect", "replace_txn")
      /\ ReplaceTxn(t) => From(t, "replace_txn", "index")
      /\ RetainPeriods(t) => From(t, "idle", "delete")
  BY DEF CollectOldParts, ReplaceTxn, RetainPeriods, Goto, Starts, From, TypeInv, TypeOK
<1>4. /\ DeleteTxn(t) => From(t, "delete_txn", "index")
      /\ DeletedAll(t) => From(t, "delete", "idle")
      /\ StoreIndex(t) => From(t, "index", IF loc[t].op = "retain" THEN "delete" ELSE "idle")
  BY DEF DeleteTxn, DeletedAll, StoreIndex, Return, Goto, From, TypeInv, TypeOK
<1> QED
  BY <1>1, <1>2, <1>3, <1>4

LEMMA ReadLabels ==
  ASSUME TypeInv, NEW t \in Threads
  PROVE  /\ \A q \in Queries : Query(t, q) => From(t, "idle", "read")
         /\ \A q \in Queries : CountBitmap(t, q) =>
              From(t, "idle", IF mem[Head(q.keys)] = {} /\ memDel[Head(q.keys)] = {}
                              THEN "count_state" ELSE "read")
         /\ CountState(t) => From(t, "count_state", "count_parts") \/ From(t, "count_state", "read")
         /\ CountParts(t) => From(t, "count_parts", "count_deltas")
         /\ CountDeltas(t) => From(t, "count_deltas", "count_part") \/ From(t, "count_deltas", "read")
         /\ CountPart(t) => From(t, "count_part", IF loc[t].olds \subseteq parts THEN "got" ELSE "read")
         /\ ReadBuffer(t) => From(t, "read", "cache")
         /\ ReadCache(t) => From(t, "cache", "got") \/ From(t, "cache", "read")
         /\ ReadReturns(t) => From(t, "got", "idle")
<1>1. /\ \A q \in Queries : Query(t, q) => From(t, "idle", "read")
      /\ \A q \in Queries : CountBitmap(t, q) =>
           From(t, "idle", IF mem[Head(q.keys)] = {} /\ memDel[Head(q.keys)] = {}
                           THEN "count_state" ELSE "read")
  BY DEF Query, CountBitmap, StartRead, Goto, Starts, From, TypeInv, TypeOK
<1>2. /\ CountState(t) => From(t, "count_state", "count_parts") \/ From(t, "count_state", "read")
      /\ CountParts(t) => From(t, "count_parts", "count_deltas")
      /\ CountDeltas(t) => From(t, "count_deltas", "count_part") \/ From(t, "count_deltas", "read")
  BY DEF CountState, CountParts, CountDeltas, Goto, From, TypeInv, TypeOK
<1>3. CountPart(t) => From(t, "count_part", IF loc[t].olds \subseteq parts THEN "got" ELSE "read")
  BY DEF CountPart, Goto, From, TypeInv, TypeOK
<1>4. /\ ReadBuffer(t) => From(t, "read", "cache")
      /\ ReadCache(t) => From(t, "cache", "got") \/ From(t, "cache", "read")
      /\ ReadReturns(t) => From(t, "got", "idle")
  BY DEF ReadBuffer, ReadCache, ReadReturns, Return, Goto, From, TypeInv, TypeOK
<1> QED
  BY <1>1, <1>2, <1>3, <1>4

LEMMA CollectedStep ==
  ASSUME TypeInv, OneMaintainer, OneMaintainer', Collected,
         NEW t \in Threads, Update(t) \/ Internal(t) \/ Read(t)
  PROVE  Collected'
<1> SUFFICES ASSUME NEW u \in Threads, pc'[u] = "replace_txn"
             PROVE  loc'[u].olds = {p \in listed' : p.key \in EntryKeys(loc'[u].entries)}
  BY DEF Collected, EntryKeys
<1>1. ~PartsStep(t)
  BY PartsStepBusy DEF Busy
<1>2. listed' = listed
  BY <1>1, PartsSteps DEF catalog
<1>3. CASE u # t
  BY <1>2, <1>3, Others DEF Collected
<1>4. CASE u = t
  <2>1. CollectOldParts(t)
    BY <1>1, <1>4, UpdateLabels, InternalLabels, ReadLabels
       DEF Update, Internal, Read, From, PartsStep
  <2>2. listed' = listed /\ loc' = [loc EXCEPT ![t].olds = {p \in listed : p.key \in EntryKeys(loc[t].entries)}]
    BY <1>2, <2>1 DEF CollectOldParts
  <2> QED
    BY <1>4, <2>2, SameLocals DEF Locals, TypeInv, TypeOK
<1> QED
  BY <1>3, <1>4

LEMMA SamePartsSameDisk ==
  ASSUME listed \subseteq parts, listed' \subseteq parts', NEW k,
         {p \in listed' : p.key = k} = {p \in listed : p.key = k}
  PROVE  PartsOf(k)' = PartsOf(k) /\ Disk(k)' = Disk(k)
<1>1. PartsOf(k)' = PartsOf(k)
  BY DEF PartsOf
<1> QED
  BY <1>1 DEF Disk

LEMMA DiskKnownStep ==
  ASSUME ListsMatchParts, ListsMatchParts', DiskKnown,
         disk' = IF UNCHANGED listed THEN disk ELSE [k \in Keys |-> Disk(k)']
  PROVE  DiskKnown'
<1>1. ASSUME UNCHANGED listed, NEW k \in Keys PROVE Disk(k)' = Disk(k)
  BY <1>1, SamePartsSameDisk DEF ListsMatchParts
<1> QED
  BY <1>1 DEF DiskKnown

LEMMA CatalogInit == HInit => CatalogInv
<1> SUFFICES ASSUME HInit PROVE CatalogInv
  OBVIOUS
<1>1. \A k \in Keys : Disk(k) = {}
  <2>1. \A k \in Keys : PartsOf(k) = {}
    BY DEF HInit, Init, PartsOf
  <2> QED
    BY <2>1, DiskIsMerged, MergedNone
<1> QED
  BY <1>1 DEF HInit, Init, CatalogInv, ListsMatchParts, Collected, DiskKnown, Empty

LEMMA CatalogStep ==
  TypeInv /\ OneMaintainer /\ OneMaintainer' /\ CatalogInv /\ [HNext]_hvars => CatalogInv'
<1> SUFFICES ASSUME TypeInv, OneMaintainer, OneMaintainer', CatalogInv, [HNext]_hvars
             PROVE  CatalogInv'
  OBVIOUS
<1> USE DEF CatalogInv
<1>1. ASSUME HNext PROVE CatalogInv'
  <2>1. ListsMatchParts' /\ Collected'
    <3>1. ASSUME NEW t \in Threads, HUpdate(t), UNCHANGED doubled PROVE ListsMatchParts' /\ Collected'
      <4>1. Update(t) /\ UNCHANGED <<parts, listed>>
        BY <3>1, HistoryStep, PartsSteps DEF catalog
      <4> QED
        BY <3>1, <4>1, CollectedStep DEF ListsMatchParts
    <3>2. ASSUME NEW t \in Threads, Internal(t) \/ Read(t),
                 doubled' = IF pc[t] = "replace_txn" THEN doubled \cup Overwritten(t) ELSE doubled
          PROVE  ListsMatchParts' /\ Collected'
      <4>1. CASE PartsStep(t)
        BY <3>2, <4>1, ListsStep, CollectedStep
      <4>2. CASE ~PartsStep(t)
        <5>1. UNCHANGED <<parts, listed>> /\ doubled \subseteq doubled'
          BY <3>2, <4>2, PartsSteps DEF catalog
        <5> QED
          BY <3>2, <5>1, CollectedStep DEF ListsMatchParts
      <4> QED
        BY <4>1, <4>2
    <3>3. ASSUME Reopen, UNCHANGED doubled PROVE ListsMatchParts' /\ Collected'
      BY <3>3 DEF Reopen, catalog, ListsMatchParts, Collected
    <3> QED
      BY <1>1, <3>1, <3>2, <3>3 DEF HNext
  <2>2. DiskKnown'
    BY <1>1, <2>1, DiskKnownStep DEF HNext
  <2> QED
    BY <2>1, <2>2
<1>2. CASE UNCHANGED hvars
  BY <1>2 DEF hvars, vars, catalog, ListsMatchParts, Collected, DiskKnown, Disk, PartsOf, EntryKeys
<1> QED
  BY <1>1, <1>2

-----------------------------------------------------------------------------
(* Retention.                                                              *)

LEMMA RetentionOfOne ==
  ASSUME TypeInv, TypeInv', RetentionInv, NEW t \in Threads,
         Update(t) \/ Internal(t) \/ Read(t), Busy(t)', loc'[t].op = "retain"
  PROVE  PeriodKeys' \ Kept \subseteq LeftAt(t)'
<1>1. pc'[t] \in {"delete", "delete_txn", "index"}
  BY DEF Busy, TypeInv, RoomLeft, RoomAt
<1>2. CASE RetainPeriods(t)
  <2> DEFINE r == [Blank EXCEPT !.op = "retain", !.left = PeriodKeys \ Kept]
  <2>1. loc' = [loc EXCEPT ![t] = r] /\ listed' = listed
    BY <1>2 DEF RetainPeriods, catalog
  <2>2. r.left = PeriodKeys \ Kept
    BY DEF Blank
  <2> HIDE DEF r
  <2>3. loc'[t] = r
    BY <2>1 DEF TypeInv, TypeOK
  <2> QED
    BY <2>1, <2>2, <2>3 DEF LeftAt, PeriodKeys
<1>3. ASSUME NEW k \in Keys, DeleteLock(t, k) PROVE PeriodKeys' \ Kept \subseteq LeftAt(t)'
  <2> DEFINE r == [loc[t] EXCEPT !.keys = <<k>>, !.left = @ \ {k}]
  <2>1. /\ pc[t] = "delete" /\ pc'[t] = "delete_txn" /\ listed' = listed
        /\ loc' = [loc EXCEPT ![t] = r]
    BY <1>3 DEF DeleteLock, Goto, catalog, TypeInv, TypeOK
  <2>2. r.keys = <<k>> /\ r.left = loc[t].left \ {k}
    BY SameLocals DEF Locals
  <2> HIDE DEF r
  <2>3. loc'[t] = r
    BY <2>1 DEF TypeInv, TypeOK
  <2>4. PeriodKeys \ Kept \subseteq LeftAt(t)
    BY <2>1 DEF RetentionInv, Busy, LeftAt, TypeInv, CallsKnow, KnowsAt
  <2> QED
    BY <2>1, <2>2, <2>3, <2>4 DEF LeftAt, PeriodKeys
<1>4. CASE DeleteTxn(t)
  <2> DEFINE k == Head(loc[t].keys)
             r == [loc[t] EXCEPT !.keys = <<>>]
  <2>1. /\ pc[t] = "delete_txn" /\ pc'[t] = "index" /\ loc' = [loc EXCEPT ![t] = r]
        /\ listed' = {p \in listed : p.key # k}
    BY <1>4 DEF DeleteTxn, Goto, TypeInv, TypeOK
  <2>2. r.left = loc[t].left
    BY SameLocals DEF Locals
  <2> HIDE DEF r
  <2>3. loc'[t] = r
    BY <2>1 DEF TypeInv, TypeOK
  <2>4. PeriodKeys \ Kept \subseteq LeftAt(t)
    BY <2>1 DEF RetentionInv, Busy, LeftAt, TypeInv, CallsKnow, KnowsAt
  <2> QED
    BY <2>1, <2>2, <2>3, <2>4 DEF LeftAt, PeriodKeys
<1>5. CASE StoreIndex(t)
  <2>1. CASE loc[t].op = "retain"
    <3>1. pc[t] = "index" /\ pc'[t] = "delete" /\ UNCHANGED <<loc, listed>>
      BY <1>5, <2>1 DEF StoreIndex, Goto, catalog, TypeInv, TypeOK
    <3> QED
      BY <2>1, <3>1 DEF RetentionInv, Busy, LeftAt, PeriodKeys
  <2>2. CASE loc[t].op # "retain"
    BY <1>1, <1>5, <2>2, InternalLabels DEF From
  <2> QED
    BY <2>1, <2>2
<1>6. CASE FlushTxn(t) \/ ReplaceTxn(t)
  <2>1. loc' = loc /\ pc[t] \in {"flush_txn", "replace_txn"}
    BY <1>6 DEF FlushTxn, ReplaceTxn
  <2>2. loc[t].op # "retain"
    BY <2>1 DEF TypeInv, RoomLeft, RoomAt
  <2> QED
    BY <2>1, <2>2
<1>7. ASSUME NEW k \in Keys, CompactPeriod(t, k) PROVE FALSE
  <2> DEFINE r == [Blank EXCEPT !.op = "compact"]
  <2>1. loc' = [loc EXCEPT ![t] = r]
    BY <1>7 DEF CompactPeriod
  <2>2. r.op = "compact"
    BY DEF Blank
  <2> HIDE DEF r
  <2> QED
    BY <2>1, <2>2 DEF TypeInv, TypeOK
<1> QED
  BY <1>1, <1>2, <1>3, <1>4, <1>5, <1>6, <1>7, UpdateLabels, InternalLabels, ReadLabels
     DEF Update, Internal, Read, From

LEMMA RetentionStep ==
  TypeInv /\ TypeInv' /\ OneMaintainer /\ OneMaintainer' /\ RetentionInv /\ [HNext]_hvars
    => RetentionInv'
<1> SUFFICES ASSUME TypeInv, TypeInv', OneMaintainer, OneMaintainer', RetentionInv, [HNext]_hvars
             PROVE  RetentionInv'
  OBVIOUS
<1> SUFFICES ASSUME NEW u \in Threads, Busy(u)', loc'[u].op = "retain"
             PROVE  PeriodKeys' \ Kept \subseteq LeftAt(u)'
  BY DEF RetentionInv
<1>1. ASSUME Busy(u), UNCHANGED listed, pc'[u] = pc[u], loc'[u] = loc[u]
      PROVE  PeriodKeys' \ Kept \subseteq LeftAt(u)'
  BY <1>1 DEF RetentionInv, LeftAt, PeriodKeys
<1>2. ASSUME NEW t \in Threads, Update(t) \/ Internal(t) \/ Read(t)
      PROVE  PeriodKeys' \ Kept \subseteq LeftAt(u)'
  <2>1. CASE u = t
    BY <1>2, <2>1, RetentionOfOne
  <2>2. CASE u # t
    <3>1. ~PartsStep(t)
      BY <2>2, PartsStepBusy
    <3> QED
      BY <1>1, <1>2, <2>2, <3>1, Others, PartsSteps DEF Busy, catalog
  <2> QED
    BY <2>1, <2>2
<1>3. CASE Reopen
  BY <1>3 DEF Reopen, Busy
<1>4. CASE UNCHANGED hvars
  BY <1>1, <1>4 DEF hvars, vars, catalog, Busy
<1> QED
  BY <1>2, <1>3, <1>4, HistoryNext DEF Next

-----------------------------------------------------------------------------
(* Theorems on the catalog.                                                *)

LEMMA TypesHold == HSpec /\ []OneMaintainer => []TypeInv
<1>1. HInit => TypeInv
  BY TypeInit DEF HInit
<1>2. TypeInv /\ OneMaintainer /\ OneMaintainer' /\ [HNext]_hvars => TypeInv'
  <2>1. [HNext]_hvars => [Next]_vars
    BY HistoryNext DEF hvars
  <2> QED
    BY <2>1, TypeStep
<1> QED
  BY <1>1, <1>2, PTL DEF HSpec

(* Every variable of the range calls keeps its type, and part ids stay     *)
(* below the next one, with one thread that flushes, compacts, replaces or *)
(* retains beside any others.                                              *)
THEOREM TypeCorrect == HSpec /\ []OneMaintainer => []TypeOK
<1>1. TypeInv => TypeOK
  BY DEF TypeInv
<1> QED
  BY <1>1, TypesHold, PTL

LEMMA CatalogHolds == HSpec /\ []OneMaintainer => []CatalogInv
BY TypesHold, CatalogInit, CatalogStep, PTL DEF HSpec

(* The catalog lists registered parts only, and no part is registered that *)
(* it does not list but the doubled ones of bulk_replace.                  *)
THEOREM ListsAgree == HSpec /\ []OneMaintainer => []ListsMatchParts
<1>1. CatalogInv => ListsMatchParts
  BY DEF CatalogInv
<1> QED
  BY <1>1, CatalogHolds, PTL

(* When retain_periods returns, no part of a rejected period is left.      *)
THEOREM RetentionLeavesNothing == HSpec /\ []OneMaintainer => RetentionComplete
<1> DEFINE Emptied == \A t \in Threads : DeletedAll(t) /\ loc[t].op = "retain" => PeriodKeys \subseteq Kept
<1>1. HInit => RetentionInv
  BY DEF HInit, Init, RetentionInv, Busy
<1>2. RetentionInv => [Emptied]_vars
  BY DEF RetentionInv, LeftAt, DeletedAll, Busy
<1>3. HSpec /\ []OneMaintainer => []RetentionInv
  BY <1>1, TypesHold, RetentionStep, PTL DEF HSpec
<1> QED
  BY <1>2, <1>3, PTL DEF RetentionComplete

-----------------------------------------------------------------------------
(* What the catalog holds, transaction by transaction.                     *)

ListedOf(k) == {p \in listed : p.key = k}

LEMMA DiskListed == CatalogInv => \A k \in Keys : disk[k] = Merged(ListedOf(k))
<1> SUFFICES ASSUME CatalogInv, NEW k \in Keys PROVE disk[k] = Merged(ListedOf(k))
  OBVIOUS
<1>1. PartsOf(k) = ListedOf(k)
  BY DEF CatalogInv, ListsMatchParts, PartsOf, ListedOf
<1> QED
  BY <1>1, DiskIsMerged DEF CatalogInv, DiskKnown

LEMMA DiskListedNext == CatalogInv' => \A k \in Keys : disk'[k] = Merged(ListedOf(k)')
<1> SUFFICES ASSUME CatalogInv', NEW k \in Keys PROVE disk'[k] = Merged(ListedOf(k)')
  OBVIOUS
<1>1. PartsOf(k)' = ListedOf(k)'
  BY DEF CatalogInv, ListsMatchParts, PartsOf, ListedOf
<1>2. Disk(k)' = Merged(PartsOf(k)')
  BY DEF Disk, Merged
<1> QED
  BY <1>1, <1>2 DEF CatalogInv, DiskKnown

LEMMA DiskTypes == TypeInv /\ CatalogInv => disk \in [Keys -> SUBSET Ids]
BY DiskTyped DEF TypeInv, CatalogInv, DiskKnown

WrittenTo(k, i, kind, f) == {p \in Written(i, kind, f) : p.key = k}

(* Committing what a flush drained adds the bits or removes them.          *)
LEMMA MergedWritten ==
  ASSUME NEW i \in 1 .. LastPart + 1, NEW kind \in {"data", "delta"},
         NEW f \in [Keys -> SUBSET Ids], NEW k \in Keys,
         NEW P, \A p \in P : p.id \in Nat /\ p.id < i
  PROVE  Merged(P \cup WrittenTo(k, i, kind, f)) =
           IF kind = "delta" THEN Merged(P) \ f[k] ELSE Merged(P) \cup f[k]
<1> DEFINE p == NewPart(i, kind, k, f[k])
           W == WrittenTo(k, i, kind, f)
<1>1. CASE f[k] = {}
  <2>1. W = {}
    BY <1>1, WrittenParts DEF WrittenTo
  <2>2. P \cup W = P
    BY <2>1
  <2> QED
    BY <1>1, <2>2
<1>2. CASE f[k] # {}
  <2>1. p.id = i /\ p.kind = kind /\ p.bits = f[k] /\ p.key = k
    BY DEF NewPart
  <2>2. W = {p}
    <3>1. p \in W
      BY <1>2, <2>1, WrittenParts DEF WrittenTo
    <3>2. ASSUME NEW q \in W PROVE q = p
      <4>1. PICK j \in Keys : f[j] # {} /\ q = NewPart(i, kind, j, f[j])
        BY DEF WrittenTo, Written
      <4>2. q.key = j /\ q.key = k
        BY <4>1 DEF NewPart, WrittenTo
      <4> QED
        BY <4>1, <4>2
    <3> QED
      BY <3>1, <3>2
  <2> HIDE DEF p, W
  <2>3. p \notin P /\ p.id \in Nat /\ \A q \in P : q.id \in Nat /\ q.id < p.id
    BY <2>1, PeriodsAssumption
  <2>4. Merged(P \cup {p}) = IF p.kind = "delta" THEN Merged(P) \ p.bits ELSE Merged(P) \cup p.bits
    BY <2>1, <2>3, MergedNewest
  <2> QED
    BY <2>1, <2>2, <2>4 DEF W
<1> QED
  BY <1>1, <1>2

LEMMA ListedIds ==
  ASSUME TypeInv
  PROVE  \A k : \A p \in ListedOf(k) :
           p \in Part /\ p.id \in Nat /\ p.id < nextId /\ p.kind \in {"data", "delta"}
BY DEF TypeInv, TypeOK, ListedOf, Part

LEMMA DiskFlush ==
  ASSUME TypeInv, CatalogInv, CatalogInv', NEW t \in Threads, FlushTxn(t)
  PROVE  disk' = [k \in Keys |-> Overlay(disk[k], loc[t].data[k], loc[t].deltas[k])]
<1> DEFINE f == loc[t].data
           g == loc[t].deltas
           D == Written(nextId, "data", f)
           E == Written(nextId + Used(D), "delta", g)
<1>1. pc[t] = "flush_txn" /\ listed' = listed \cup D \cup E
  BY DEF FlushTxn
<1>2. f \in [Keys -> SUBSET Ids] /\ g \in [Keys -> SUBSET Ids]
  BY DEF TypeInv, TypeOK, Locals
<1> HIDE DEF f, g
<1>3. /\ Used(D) \in {0, 1} /\ Used(E) \in {0, 1}
      /\ nextId + Used(D) + Used(E) \in 1 .. LastPart + 1
      /\ \A p \in D : p.id = nextId /\ Used(D) = 1
  BY <1>1, FlushedParts DEF f, g
<1>4. nextId \in 1 .. LastPart + 1 /\ nextId \in Nat /\ LastPart \in Nat
  BY PeriodsAssumption DEF TypeInv, TypeOK
<1>5. nextId + Used(D) \in 1 .. LastPart + 1
  BY <1>3, <1>4
<1>6. ASSUME NEW k \in Keys PROVE disk'[k] = Overlay(disk[k], f[k], g[k])
  <2> DEFINE Dk == WrittenTo(k, nextId, "data", f)
             Ek == WrittenTo(k, nextId + Used(D), "delta", g)
             L == ListedOf(k)
  <2>1. \A p \in L : p.id \in Nat /\ p.id < nextId
    BY ListedIds
  <2>2. Merged(L \cup Dk) = Merged(L) \cup f[k]
    <3> HIDE DEF L
    <3>1. "data" \in {"data", "delta"}
      OBVIOUS
    <3> QED
      BY <1>2, <1>4, <2>1, <3>1, MergedWritten
  <2>3. \A p \in L \cup Dk : p.id \in Nat /\ p.id < nextId + Used(D)
    BY <1>3, <1>4, <2>1 DEF WrittenTo
  <2>4. Merged(L \cup Dk \cup Ek) = Merged(L \cup Dk) \ g[k]
    <3> DEFINE i == nextId + Used(D)
               P == L \cup Dk
    <3>1. i \in 1 .. LastPart + 1 /\ \A p \in P : p.id \in Nat /\ p.id < i
      BY <1>5, <2>3
    <3>2. "delta" \in {"data", "delta"}
      OBVIOUS
    <3> HIDE DEF i, P
    <3>3. Merged(P \cup WrittenTo(k, i, "delta", g)) = Merged(P) \ g[k]
      BY <1>2, <3>1, <3>2, MergedWritten
    <3> QED
      BY <3>3 DEF P, i
  <2>5. ListedOf(k)' = L \cup Dk \cup Ek
    BY <1>1 DEF ListedOf, WrittenTo
  <2>6. disk'[k] = Merged(ListedOf(k)')
    BY DiskListedNext
  <2>7. disk[k] = Merged(L)
    BY DiskListed
  <2> QED
    BY <2>2, <2>4, <2>5, <2>6, <2>7 DEF Overlay
<1> QED
  BY <1>6 DEF CatalogInv, DiskKnown, f, g

LEMMA DiskReplace ==
  ASSUME TypeInv, CatalogInv, CatalogInv', NEW t \in Threads, ReplaceTxn(t)
  PROVE  disk' = Replaced(disk, loc[t].entries)
<1> DEFINE e == loc[t].entries
           new == [i \in DOMAIN e |-> NewPart(nextId + i - 1, "data", e[i].key, e[i].bits)]
           last == {i \in DOMAIN e : \A j \in DOMAIN e : e[j].key = e[i].key => j <= i}
<1>1. /\ pc[t] = "replace_txn"
      /\ listed' = {p \in listed : p.key \notin EntryKeys(e)} \cup {new[i] : i \in last}
  BY DEF ReplaceTxn
<1>2. e \in Replacements
  BY <1>1 DEF TypeInv, RoomLeft, RoomAt
<1> HIDE DEF e
<1>3. /\ Len(e) \in Nat /\ DOMAIN e = 1 .. Len(e)
      /\ \A i \in DOMAIN e : e[i].key \in Keys /\ e[i].bits \in SUBSET Ids
  BY <1>2, ReplacementBits
<1>4. nextId \in Nat \ {0}
  BY PeriodsAssumption DEF TypeInv, TypeOK
<1>5. \A i \in DOMAIN e :
        /\ new[i].key = e[i].key /\ new[i].bits = e[i].bits /\ new[i].kind = "data"
        /\ new[i].id \in Nat /\ new[i].key \in EntryKeys(e)
  BY <1>3, <1>4 DEF NewPart, EntryKeys
<1>6. ASSUME NEW k \in Keys
      PROVE  disk'[k] = IF k \in EntryKeys(e) THEN LastBits(e, k) ELSE disk[k]
  <2>1. disk'[k] = Merged(ListedOf(k)') /\ disk[k] = Merged(ListedOf(k))
    BY DiskListed, DiskListedNext
  <2>2. CASE k \in EntryKeys(e)
    <3>1. PICK i \in DOMAIN e : /\ e[i].key = k
                                /\ \A j \in DOMAIN e : e[j].key = k => j <= i
                                /\ LastBits(e, k) = e[i].bits
      BY <1>2, <2>2, LastEntry
    <3>2. i \in last
      BY <3>1
    <3>3. \A j \in last : e[j].key = k => j = i
      BY <1>3, <3>1
    <3>4. last \subseteq DOMAIN e
      OBVIOUS
    <3> HIDE DEF new, last
    <3>5. ListedOf(k)' = {new[i]}
      BY <1>1, <1>5, <2>2, <3>1, <3>2, <3>3, <3>4 DEF ListedOf
    <3>6. Merged({new[i]}) = new[i].bits
      BY <1>5, MergedOne
    <3> QED
      BY <1>5, <2>1, <2>2, <3>1, <3>5, <3>6
  <2>3. CASE k \notin EntryKeys(e)
    <3>1. last \subseteq DOMAIN e
      OBVIOUS
    <3> HIDE DEF new, last
    <3>2. ListedOf(k)' = ListedOf(k)
      BY <1>1, <1>5, <2>3, <3>1 DEF ListedOf
    <3> QED
      BY <2>1, <2>3, <3>2
  <2> QED
    BY <2>2, <2>3
<1> QED
  BY <1>6 DEF CatalogInv, DiskKnown, Replaced, e

LEMMA DiskDelete ==
  ASSUME TypeInv, CatalogInv, CatalogInv', NEW t \in Threads, DeleteTxn(t)
  PROVE  disk' = ClearKeys(disk, {Head(loc[t].keys)})
<1> DEFINE d == Head(loc[t].keys)
<1>1. listed' = {p \in listed : p.key # d}
  BY DEF DeleteTxn
<1> HIDE DEF d
<1>2. ASSUME NEW k \in Keys PROVE disk'[k] = IF k = d THEN {} ELSE disk[k]
  <2>1. disk'[k] = Merged(ListedOf(k)') /\ disk[k] = Merged(ListedOf(k))
    BY DiskListed, DiskListedNext
  <2>2. ListedOf(k)' = IF k = d THEN {} ELSE ListedOf(k)
    BY <1>1 DEF ListedOf
  <2> QED
    BY <2>1, <2>2, MergedNone
<1> QED
  BY <1>2 DEF CatalogInv, DiskKnown, ClearKeys, d

(* A compaction leaves what the catalog holds as it was.                   *)
LEMMA DiskCompact ==
  ASSUME TypeInv, CatalogInv, CatalogInv', NEW t \in Threads, NEW d \in Keys, CompactPeriod(t, d)
  PROVE  disk' = disk
<1> DEFINE new == NewPart(nextId, "data", d, Disk(d))
<1>1. listed' = {p \in listed : p.key # d} \cup {new}
  BY DEF CompactPeriod
<1>2. nextId \in Nat
  BY PeriodsAssumption DEF TypeInv, TypeOK
<1>3. new.key = d /\ new.bits = disk[d] /\ new.kind = "data" /\ new.id \in Nat
  BY <1>2 DEF NewPart, CatalogInv, DiskKnown
<1> HIDE DEF new
<1>4. ASSUME NEW k \in Keys PROVE disk'[k] = disk[k]
  <2>1. disk'[k] = Merged(ListedOf(k)') /\ disk[k] = Merged(ListedOf(k))
    BY DiskListed, DiskListedNext
  <2>2. ListedOf(k)' = IF k = d THEN {new} ELSE ListedOf(k)
    BY <1>1, <1>3 DEF ListedOf
  <2>3. Merged({new}) = new.bits
    BY <1>3, MergedOne
  <2> QED
    BY <1>3, <2>1, <2>2, <2>3
<1> QED
  BY <1>4 DEF CatalogInv, DiskKnown

-----------------------------------------------------------------------------
(* The write-back store: what the write under way will make durable.       *)

TargetFor(t) ==
  CASE pc[t] = "flush_txn"  -> [k \in Keys |-> Overlay(disk[k], loc[t].data[k], loc[t].deltas[k])]
    [] pc[t] = "delete_txn" -> ClearKeys(disk, {Head(loc[t].keys)})
    [] OTHER -> Replaced(disk, loc[t].entries)

LEMMA TargetIs ==
  OneMaintainer =>
    /\ \A t \in Threads : InFlight(t) => Target = TargetFor(t)
    /\ (\A t \in Threads : ~InFlight(t)) => Target = disk
<1>1. ASSUME OneMaintainer, NEW t \in Threads, InFlight(t) PROVE Target = TargetFor(t)
  <2> DEFINE c == CHOOSE u \in Threads : InFlight(u)
  <2>1. c \in Threads /\ InFlight(c)
    BY <1>1
  <2>2. c = t
    BY <1>1, <2>1 DEF OneMaintainer, Busy, InFlight
  <2>3. Target = TargetFor(c)
    BY <1>1 DEF Target, TargetFor
  <2> QED
    BY <2>2, <2>3
<1>2. (\A t \in Threads : ~InFlight(t)) => Target = disk
  BY DEF Target
<1> QED
  BY <1>1, <1>2

LEMMA TargetIsNext ==
  (OneMaintainer =>
     /\ \A t \in Threads : InFlight(t) => Target = TargetFor(t)
     /\ (\A t \in Threads : ~InFlight(t)) => Target = disk)'
BY TargetIs, PTL

(* A step that starts or ends no write leaves the target alone.            *)
LEMMA SameTarget ==
  ASSUME OneMaintainer, OneMaintainer', UNCHANGED disk,
         \A u \in Threads : \/ pc'[u] = pc[u] /\ loc'[u] = loc[u]
                            \/ ~InFlight(u) /\ ~InFlight(u)'
  PROVE  Target' = Target
<1>1. CASE \E t \in Threads : InFlight(t)
  <2>1. PICK t \in Threads : InFlight(t)
    BY <1>1
  <2>2. pc'[t] = pc[t] /\ loc'[t] = loc[t]
    BY <2>1
  <2>3. InFlight(t)'
    BY <2>1, <2>2 DEF InFlight
  <2>4. TargetFor(t)' = TargetFor(t)
    BY <2>2 DEF TargetFor, ClearKeys, Replaced, EntryKeys, LastBits
  <2> QED
    BY <2>1, <2>3, <2>4, TargetIs, TargetIsNext
<1>2. CASE \A t \in Threads : ~InFlight(t)
  <2>1. \A t \in Threads : ~InFlight(t)'
    BY <1>2 DEF InFlight
  <2> QED
    BY <1>2, <2>1, TargetIs, TargetIsNext
<1> QED
  BY <1>1, <1>2

(* What the buffer m, d makes of the bitmaps T.                            *)
Laid(T, m, d) == [k \in Keys |-> Overlay(T[k], m[k], d[k])]

LEMMA ContentLaid ==
  /\ Content = Laid(Target, mem, memDel)
  /\ Content' = Laid(Target', mem', memDel')
BY DEF Content, Laid

LEMMA LaidPut ==
  ASSUME NEW T, NEW m, NEW d, NEW K, NEW b
  PROVE  /\ Laid(T, AddBits(m, K, b), ClearBits(d, K, b)) = AddBits(Laid(T, m, d), K, b)
         /\ Laid(T, m, AddBits(d, K, b)) = ClearBits(Laid(T, m, d), K, b)
BY DEF Laid, AddBits, ClearBits, Overlay

LEMMA LaidReplace ==
  ASSUME NEW T, NEW m, NEW d, NEW e
  PROVE  Laid(Replaced(T, e), ClearKeys(m, EntryKeys(e)), ClearKeys(d, EntryKeys(e)))
           = Replaced(Laid(T, m, d), e)
BY DEF Laid, Replaced, ClearKeys, Overlay

LEMMA LaidClear ==
  ASSUME NEW T, NEW m, NEW d, NEW K
  PROVE  Laid(ClearKeys(T, K), ClearKeys(m, K), ClearKeys(d, K)) = ClearKeys(Laid(T, m, d), K)
BY DEF Laid, ClearKeys, Overlay

LEMMA LaidEmpty ==
  ASSUME NEW T \in [Keys -> SUBSET Ids]
  PROVE  Laid(T, Empty, Empty) = T
BY DEF Laid, Empty, Overlay

LEMMA TargetTyped ==
  ASSUME TypeInv, CatalogInv, OneMaintainer
  PROVE  Target \in [Keys -> SUBSET Ids]
<1>1. disk \in [Keys -> SUBSET Ids]
  BY DiskTypes
<1>2. ASSUME NEW t \in Threads, InFlight(t) PROVE TargetFor(t) \in [Keys -> SUBSET Ids]
  <2>1. CASE pc[t] = "flush_txn"
    <3>1. loc[t].data \in [Keys -> SUBSET Ids] /\ loc[t].deltas \in [Keys -> SUBSET Ids]
      BY DEF TypeInv, TypeOK, Locals
    <3> QED
      BY <1>1, <2>1, <3>1 DEF TargetFor, Overlay
  <2>2. CASE pc[t] = "delete_txn"
    BY <1>1, <2>2 DEF TargetFor, ClearKeys
  <2>3. CASE pc[t] \in {"collect", "replace_txn"}
    <3>1. \A k \in EntryKeys(loc[t].entries) : LastBits(loc[t].entries, k) \in SUBSET Ids
      BY <2>3, ReplacementBits DEF TypeInv, RoomLeft, RoomAt
    <3> QED
      BY <1>1, <2>3, <3>1 DEF TargetFor, Replaced
  <2> QED
    BY <1>2, <2>1, <2>2, <2>3 DEF InFlight
<1> QED
  BY <1>1, <1>2, TargetIs

(* Where no write is under way, before or after the step.                  *)
LEMMA QuietTarget ==
  ASSUME TypeInv, OneMaintainer, OneMaintainer', UNCHANGED disk, NEW t \in Threads,
         Update(t) \/ Internal(t) \/ Read(t), ~InFlight(t), ~InFlight(t)'
  PROVE  Target' = Target
BY SameTarget, Others

(* A maintainer beside which no write is under way.                        *)
LEMMA LoneTarget ==
  ASSUME TypeInv, OneMaintainer, OneMaintainer', NEW t \in Threads,
         Update(t) \/ Internal(t) \/ Read(t), Busy(t) \/ Busy(t)'
  PROVE  /\ InFlight(t) => Target = TargetFor(t)
         /\ ~InFlight(t) => Target = disk
         /\ InFlight(t)' => Target' = TargetFor(t)'
         /\ ~InFlight(t)' => Target' = disk'
<1>1. \A u \in Threads \ {t} : ~InFlight(u) /\ ~InFlight(u)'
  BY Others DEF OneMaintainer, Busy, InFlight
<1>2. /\ InFlight(t) => Target = TargetFor(t)
      /\ ~InFlight(t) => Target = disk
  BY <1>1, TargetIs
<1>3. /\ InFlight(t)' => Target' = TargetFor(t)'
      /\ ~InFlight(t)' => Target' = disk'
  BY <1>1, TargetIsNext
<1> QED
  BY <1>2, <1>3

LEMMA UpdateContent ==
  ASSUME TypeInv, CatalogInv, OneMaintainer, OneMaintainer', UNCHANGED disk,
         NEW t \in Threads, Update(t)
  PROVE  /\ RangeLock(t) =>
              /\ Target' = Target
              /\ Content' = AddBits(Content, Cover(Range(loc[t].keys)), loc[t].bits)
         /\ \A g \in Ranges, b \in Bitmaps : RemoveRange(t, g, b) =>
              /\ Target' = Target
              /\ Content' = ClearBits(Content, Cover(Range(g.keys)), b)
         /\ \A e \in Replacements : BulkReplace(t, e) =>
              /\ Target = disk /\ Target' = Replaced(disk, e) /\ Content' = Replaced(Content, e)
         /\ \A k \in Keys : DeleteLock(t, k) =>
              /\ Target = disk /\ Target' = ClearKeys(disk, {k}) /\ Content' = ClearKeys(Content, {k})
<1>1. ASSUME RangeLock(t)
      PROVE  /\ Target' = Target
             /\ Content' = AddBits(Content, Cover(Range(loc[t].keys)), loc[t].bits)
  <2>1. Target' = Target
    BY <1>1, UpdateLabels, QuietTarget DEF From, InFlight
  <2> DEFINE K == Cover(Range(loc[t].keys))
  <2>2. mem' = AddBits(mem, K, loc[t].bits) /\ memDel' = ClearBits(memDel, K, loc[t].bits)
    BY <1>1 DEF RangeLock
  <2>3. Content' = Laid(Target, AddBits(mem, K, loc[t].bits), ClearBits(memDel, K, loc[t].bits))
    BY <2>1, <2>2, ContentLaid
  <2>4. Content' = AddBits(Laid(Target, mem, memDel), K, loc[t].bits)
    BY <2>3, LaidPut
  <2> QED
    BY <2>1, <2>4, ContentLaid
<1>2. ASSUME NEW g \in Ranges, NEW b \in Bitmaps, RemoveRange(t, g, b)
      PROVE  Target' = Target /\ Content' = ClearBits(Content, Cover(Range(g.keys)), b)
  <2>1. Target' = Target
    BY <1>2, UpdateLabels, QuietTarget DEF From, InFlight
  <2> QED
    BY <1>2, <2>1, ContentLaid, LaidPut DEF RemoveRange
<1>3. ASSUME NEW e \in Replacements, BulkReplace(t, e)
      PROVE  Target = disk /\ Target' = Replaced(disk, e) /\ Content' = Replaced(Content, e)
  <2> DEFINE r == [Blank EXCEPT !.op = "replace", !.entries = e]
  <2>1. From(t, "idle", "collect")
    BY <1>3, UpdateLabels
  <2>2. Target = disk /\ Target' = TargetFor(t)'
    BY <2>1, LoneTarget DEF From, Busy, InFlight
  <2>3. loc' = [loc EXCEPT ![t] = r]
    BY <1>3 DEF BulkReplace
  <2>4. r.entries = e
    BY DEF Blank
  <2> HIDE DEF r
  <2>5. loc'[t].entries = e
    BY <2>3, <2>4 DEF TypeInv, TypeOK
  <2>6. Target' = Replaced(disk, e)
    BY <2>1, <2>2, <2>5 DEF From, TargetFor, Replaced, EntryKeys, LastBits
  <2>7. mem' = ClearKeys(mem, EntryKeys(e)) /\ memDel' = ClearKeys(memDel, EntryKeys(e))
    BY <1>3 DEF BulkReplace
  <2>8. Content' = Laid(Replaced(disk, e), ClearKeys(mem, EntryKeys(e)), ClearKeys(memDel, EntryKeys(e)))
    BY <2>6, <2>7, ContentLaid
  <2>9. Content' = Replaced(Laid(disk, mem, memDel), e)
    BY <2>8, LaidReplace
  <2>10. Content = Laid(disk, mem, memDel)
    BY <2>2, ContentLaid
  <2> QED
    BY <2>2, <2>6, <2>9, <2>10
<1>4. ASSUME NEW k \in Keys, DeleteLock(t, k)
      PROVE  Target = disk /\ Target' = ClearKeys(disk, {k}) /\ Content' = ClearKeys(Content, {k})
  <2> DEFINE r == [loc[t] EXCEPT !.keys = <<k>>, !.left = @ \ {k}]
  <2>1. From(t, "delete", "delete_txn")
    BY <1>4, UpdateLabels
  <2>2. Target = disk /\ Target' = TargetFor(t)'
    BY <2>1, LoneTarget DEF From, Busy, InFlight
  <2>3. loc' = [loc EXCEPT ![t] = r]
    BY <1>4 DEF DeleteLock, TypeInv, TypeOK
  <2>4. r.keys = <<k>>
    BY SameLocals DEF Locals
  <2> HIDE DEF r
  <2>5. Head(loc'[t].keys) = k
    BY <2>3, <2>4 DEF TypeInv, TypeOK
  <2>6. Target' = ClearKeys(disk, {k})
    BY <2>1, <2>2, <2>5 DEF From, TargetFor, ClearKeys
  <2>7. mem' = ClearKeys(mem, {k}) /\ memDel' = ClearKeys(memDel, {k})
    BY <1>4 DEF DeleteLock
  <2>8. Content' = Laid(ClearKeys(disk, {k}), ClearKeys(mem, {k}), ClearKeys(memDel, {k}))
    BY <2>6, <2>7, ContentLaid
  <2>9. Content' = ClearKeys(Laid(disk, mem, memDel), {k})
    BY <2>8, LaidClear
  <2>10. Content = Laid(disk, mem, memDel)
    BY <2>2, ContentLaid
  <2> QED
    BY <2>2, <2>6, <2>9, <2>10
<1> QED
  BY <1>1, <1>2, <1>3, <1>4

LEMMA SameContent ==
  ASSUME Target' = Target, UNCHANGED <<mem, memDel>>
  PROVE  Content' = Content
BY ContentLaid

(* The commit of the write under way.                                      *)
LEMMA CommitContent ==
  ASSUME TypeInv, CatalogInv, CatalogInv', OneMaintainer, OneMaintainer', NEW t \in Threads,
         PartsStep(t)
  PROVE  disk' = Target /\ Target' = Target /\ Content' = Content
<1>1. Internal(t) /\ UNCHANGED <<mem, memDel>>
  BY DEF PartsStep, Internal, FlushTxn, CompactPeriod, ReplaceTxn, DeleteTxn, buffer
<1>2. Busy(t)' /\ ~InFlight(t)'
  BY PartsStepBusy DEF InFlight
<1>3. Target' = disk'
  BY <1>1, <1>2, LoneTarget
<1>4. disk' = Target
  <2>1. CASE FlushTxn(t)
    <3>1. pc[t] = "flush_txn"
      BY <2>1 DEF FlushTxn
    <3>2. Target = TargetFor(t)
      BY <1>1, <1>2, <3>1, LoneTarget DEF InFlight
    <3> QED
      BY <2>1, <3>1, <3>2, DiskFlush DEF TargetFor
  <2>2. ASSUME NEW k \in Keys, CompactPeriod(t, k) PROVE disk' = Target
    <3>1. pc[t] = "idle"
      BY <2>2 DEF CompactPeriod, Starts
    <3>2. Target = disk
      BY <1>1, <1>2, <3>1, LoneTarget DEF InFlight
    <3> QED
      BY <2>2, <3>2, DiskCompact
  <2>3. CASE ReplaceTxn(t)
    <3>1. pc[t] = "replace_txn"
      BY <2>3 DEF ReplaceTxn
    <3>2. Target = TargetFor(t)
      BY <1>1, <1>2, <3>1, LoneTarget DEF InFlight
    <3> QED
      BY <2>3, <3>1, <3>2, DiskReplace DEF TargetFor
  <2>4. CASE DeleteTxn(t)
    <3>1. pc[t] = "delete_txn"
      BY <2>4 DEF DeleteTxn
    <3>2. Target = TargetFor(t)
      BY <1>1, <1>2, <3>1, LoneTarget DEF InFlight
    <3> QED
      BY <2>4, <3>1, <3>2, DiskDelete DEF TargetFor
  <2> QED
    BY <2>1, <2>2, <2>3, <2>4 DEF PartsStep
<1> QED
  BY <1>1, <1>3, <1>4, SameContent

LEMMA SnapshotContent ==
  ASSUME TypeInv, CatalogInv, CatalogInv', OneMaintainer, OneMaintainer', NEW t \in Threads,
         TakeSnapshot(t), UNCHANGED disk
  PROVE  Target = disk /\ Target' = Content /\ Content' = Content
<1> DEFINE r == [Blank EXCEPT !.data = mem, !.deltas = memDel]
<1>1. Internal(t) /\ From(t, "idle", "flush_txn")
  BY InternalLabels DEF Internal
<1>2. Target = disk /\ Target' = TargetFor(t)'
  BY <1>1, LoneTarget DEF From, Busy, InFlight
<1>3. loc' = [loc EXCEPT ![t] = r] /\ mem' = Empty /\ memDel' = Empty
  BY DEF TakeSnapshot
<1>4. r.data = mem /\ r.deltas = memDel
  BY DEF Blank
<1> HIDE DEF r
<1>5. loc'[t].data = mem /\ loc'[t].deltas = memDel
  BY <1>3, <1>4 DEF TypeInv, TypeOK
<1>6. Target' = Laid(disk, mem, memDel)
  BY <1>1, <1>2, <1>5 DEF From, TargetFor, Laid
<1>7. Target' = Content
  BY <1>2, <1>6, ContentLaid
<1>8. Content \in [Keys -> SUBSET Ids]
  <2>1. /\ disk \in [Keys -> SUBSET Ids]
        /\ mem \in [Keys -> SUBSET Ids] /\ memDel \in [Keys -> SUBSET Ids]
    BY DiskTypes DEF TypeInv, TypeOK
  <2> QED
    BY <1>6, <1>7, <2>1 DEF Laid, Overlay
<1>9. Content' = Laid(Content, Empty, Empty)
  BY <1>3, <1>7, ContentLaid
<1> QED
  BY <1>2, <1>7, <1>8, <1>9, LaidEmpty

LEMMA InternalContent ==
  ASSUME TypeInv, CatalogInv, CatalogInv', OneMaintainer, OneMaintainer', NEW t \in Threads,
         Internal(t) \/ Read(t), UNCHANGED listed => UNCHANGED disk
  PROVE  \/ TakeSnapshot(t) /\ Target = disk /\ Target' = Content /\ UNCHANGED <<disk, Content>>
         \/ PartsStep(t) /\ disk' = Target /\ UNCHANGED <<Target, Content>>
         \/ UNCHANGED <<disk, Target, Content>>
<1>1. CASE PartsStep(t)
  BY <1>1, CommitContent
<1>2. CASE ~PartsStep(t)
  <2>1. UNCHANGED disk
    BY <1>2, PartsSteps DEF catalog
  <2>2. CASE TakeSnapshot(t)
    BY <2>1, <2>2, SnapshotContent
  <2>3. CASE CollectOldParts(t)
    <3>1. /\ From(t, "collect", "replace_txn") /\ UNCHANGED <<mem, memDel>>
          /\ loc' = [loc EXCEPT ![t].olds = {p \in listed : p.key \in EntryKeys(loc[t].entries)}]
      BY <2>3, InternalLabels DEF CollectOldParts, buffer
    <3>2. loc'[t].entries = loc[t].entries
      BY <3>1, SameLocals DEF Locals, TypeInv, TypeOK
    <3>3. Target = TargetFor(t) /\ Target' = TargetFor(t)'
      BY <2>3, <3>1, LoneTarget DEF From, Busy, InFlight
    <3>4. TargetFor(t)' = TargetFor(t)
      BY <2>1, <3>1, <3>2 DEF From, TargetFor, Replaced, EntryKeys, LastBits
    <3> QED
      BY <2>1, <3>1, <3>3, <3>4, SameContent
  <2>4. CASE ~TakeSnapshot(t) /\ ~CollectOldParts(t)
    <3>1. UNCHANGED <<mem, memDel>>
      BY <1>2, <2>4 DEF Internal, Read, PartsStep, PutRange, RevertCompacted, RetainPeriods,
           DeletedAll, StoreIndex, Query, CountBitmap, StartRead, CountState, CountParts,
           CountDeltas, CountPart, ReadBuffer, ReadCache, ReadReturns, buffer
    <3>2. ~InFlight(t) /\ ~InFlight(t)'
      BY <1>2, <2>4, InternalLabels, ReadLabels DEF Internal, Read, PartsStep, From, InFlight
    <3> QED
      BY <2>1, <3>1, <3>2, QuietTarget, SameContent
  <2> QED
    BY <2>2, <2>3, <2>4
<1> QED
  BY <1>1, <1>2

LEMMA ReopenContent ==
  ASSUME TypeInv, CatalogInv, OneMaintainer', Reopen, UNCHANGED disk
  PROVE  Target' = disk /\ Content' = disk
<1>1. \A t \in Threads : ~InFlight(t)'
  BY DEF Reopen, InFlight
<1>2. Target' = disk
  BY <1>1, TargetIsNext
<1>3. Content' = Laid(disk, Empty, Empty)
  BY <1>2, ContentLaid DEF Reopen
<1> QED
  BY <1>2, <1>3, DiskTypes, LaidEmpty

-----------------------------------------------------------------------------
(* The range calls implement the write-back store.                         *)

LEMMA StorePut ==
  ASSUME NEW g \in Ranges, g.op = "put", NEW b \in SUBSET Ids, UNCHANGED <<Target, disk>>,
         Content' = AddBits(Content, Cover(Range(g.keys)), b)
  PROVE  Store!Step
<1>1. Store!Put(Range(g.keys), b)
  BY DEF Store!Put, Store!Cover, Cover, AddBits
<1>2. Range(g.keys) \in {Range(h.keys) : h \in {x \in Ranges : x.op = "put"}}
  OBVIOUS
<1> QED
  BY <1>1, <1>2 DEF Store!Step

LEMMA StoreRemove ==
  ASSUME NEW g \in Ranges, g.op = "remove", NEW b \in SUBSET Ids, UNCHANGED <<Target, disk>>,
         Content' = ClearBits(Content, Cover(Range(g.keys)), b)
  PROVE  Store!Step
<1>1. Store!Remove(Range(g.keys), b)
  BY DEF Store!Remove, Store!Cover, Cover, ClearBits
<1>2. Range(g.keys) \in {Range(h.keys) : h \in {x \in Ranges : x.op = "remove"}}
  OBVIOUS
<1> QED
  BY <1>1, <1>2 DEF Store!Step

(* The bitmaps that a bulk_replace, or the deletion of a period, stores.   *)
Overwriting ==
  {[k \in EntryKeys(e) |-> LastBits(e, k)] : e \in Replacements} \cup {[j \in {k} |-> {}] : k \in Keys}

LEMMA StoreReplace ==
  ASSUME NEW new \in Overwriting, Target = disk, UNCHANGED disk,
         Content' = [k \in Keys |-> IF k \in DOMAIN new THEN new[k] ELSE Content[k]],
         Target' = [k \in Keys |-> IF k \in DOMAIN new THEN new[k] ELSE disk[k]]
  PROVE  Store!Step
<1>1. Store!Replace(new)
  BY DEF Store!Replace, Store!Overwritten
<1> QED
  BY <1>1 DEF Store!Step, Overwriting

LEMMA ContentTyped ==
  TypeInv /\ CatalogInv /\ OneMaintainer => Content \in [Keys -> SUBSET Ids]
<1> SUFFICES ASSUME TypeInv, CatalogInv, OneMaintainer PROVE Content \in [Keys -> SUBSET Ids]
  OBVIOUS
<1>1. mem \in [Keys -> SUBSET Ids] /\ memDel \in [Keys -> SUBSET Ids]
  BY DEF TypeInv, TypeOK
<1> QED
  BY <1>1, TargetTyped, ContentLaid DEF Laid, Overlay

(* What a step does to the store, and to what the calls amount to.         *)
StoreStep ==
  ContentInv' /\ (Store!Step \/ (Reopen /\ Store!Crash) \/ UNCHANGED <<Content, Target, disk>>)

LEMMA UpdateImplements ==
  ASSUME TypeInv, TypeInv', CatalogInv, CatalogInv', OneMaintainer, OneMaintainer', ContentInv,
         UNCHANGED disk, NEW t \in Threads, HUpdate(t)
  PROVE  StoreStep
<1>0. Update(t) /\ truth = Content
  BY HistoryStep DEF ContentInv
<1>1. CASE RangeLock(t) /\ Observe(AddBits(truth, Cover(Range(loc[t].keys)), loc[t].bits))
  <2>1. PICK g \in Ranges : g.op = "put" /\ loc[t].keys = g.keys
    BY <1>1 DEF RangeLock, TypeInv, CallsKnow, KnowsAt
  <2> DEFINE K == Range(g.keys)
             b == loc[t].bits
  <2>2. b \in SUBSET Ids
    BY DEF TypeInv, TypeOK, Locals
  <2> HIDE DEF b
  <2>3. Target' = Target /\ Content' = AddBits(Content, Cover(K), b)
    BY <1>0, <1>1, <2>1, UpdateContent DEF b
  <2>4. truth' = AddBits(truth, Cover(K), b)
    BY <1>1, <2>1 DEF Observe, b
  <2> QED
    BY <1>0, <2>1, <2>2, <2>3, <2>4, StorePut DEF StoreStep, ContentInv
<1>2. ASSUME NEW g \in Ranges, NEW b \in Bitmaps, RemoveRange(t, g, b),
             Observe(ClearBits(truth, Cover(Range(g.keys)), b))
      PROVE  StoreStep
  <2>1. g.op = "remove" /\ b \in SUBSET Ids
    BY <1>2 DEF RemoveRange, Bitmaps
  <2>2. Target' = Target /\ Content' = ClearBits(Content, Cover(Range(g.keys)), b)
    BY <1>0, <1>2, UpdateContent
  <2>3. truth' = ClearBits(truth, Cover(Range(g.keys)), b)
    BY <1>2 DEF Observe
  <2> QED
    BY <1>0, <2>1, <2>2, <2>3, StoreRemove DEF StoreStep, ContentInv
<1>3. ASSUME NEW e \in Replacements, BulkReplace(t, e), Observe(Replaced(truth, e)) PROVE StoreStep
  <2> DEFINE new == [k \in EntryKeys(e) |-> LastBits(e, k)]
  <2>1. new \in Overwriting
    BY DEF Overwriting
  <2>2. Target = disk /\ Target' = Replaced(disk, e) /\ Content' = Replaced(Content, e)
    BY <1>0, <1>3, UpdateContent
  <2>3. truth' = Replaced(truth, e)
    BY <1>3 DEF Observe
  <2>4. /\ Content' = [k \in Keys |-> IF k \in DOMAIN new THEN new[k] ELSE Content[k]]
        /\ Target' = [k \in Keys |-> IF k \in DOMAIN new THEN new[k] ELSE disk[k]]
    BY <2>2 DEF Replaced
  <2> HIDE DEF new
  <2> QED
    BY <1>0, <2>1, <2>2, <2>3, <2>4, StoreReplace DEF StoreStep, ContentInv
<1>4. ASSUME NEW d \in Keys, DeleteLock(t, d), Observe(ClearKeys(truth, {d})) PROVE StoreStep
  <2> DEFINE new == [j \in {d} |-> {}]
  <2>1. new \in Overwriting
    BY DEF Overwriting
  <2>2. Target = disk /\ Target' = ClearKeys(disk, {d}) /\ Content' = ClearKeys(Content, {d})
    BY <1>0, <1>4, UpdateContent
  <2>3. truth' = ClearKeys(truth, {d})
    BY <1>4 DEF Observe
  <2>4. /\ Content' = [k \in Keys |-> IF k \in DOMAIN new THEN new[k] ELSE Content[k]]
        /\ Target' = [k \in Keys |-> IF k \in DOMAIN new THEN new[k] ELSE disk[k]]
    BY <2>2 DEF ClearKeys
  <2> HIDE DEF new
  <2> QED
    BY <1>0, <2>1, <2>2, <2>3, <2>4, StoreReplace DEF StoreStep, ContentInv
<1> QED
  BY <1>1, <1>2, <1>3, <1>4 DEF HUpdate

LEMMA StepImplements ==
  TypeInv /\ TypeInv' /\ CatalogInv /\ CatalogInv' /\ OneMaintainer /\ OneMaintainer'
    /\ ContentInv /\ [HNext]_hvars => StoreStep
<1> SUFFICES ASSUME TypeInv, TypeInv', CatalogInv, CatalogInv', OneMaintainer, OneMaintainer',
                    ContentInv, [HNext]_hvars
             PROVE  StoreStep
  OBVIOUS
<1>1. ASSUME NEW t \in Threads, HUpdate(t), HNext PROVE StoreStep
  <2>1. UNCHANGED disk
    BY <1>1, HistoryStep, PartsSteps DEF HNext, catalog
  <2> QED
    BY <1>1, <2>1, UpdateImplements
<1>2. ASSUME NEW t \in Threads, Internal(t) \/ Read(t), Observe(truth), HNext PROVE StoreStep
  <2>1. truth' = truth
    BY <1>2 DEF Observe
  <2>2. UNCHANGED listed => UNCHANGED disk
    BY <1>2 DEF HNext
  <2>3. CASE TakeSnapshot(t) /\ Target = disk /\ Target' = Content /\ UNCHANGED <<disk, Content>>
    <3>1. Store!Step
      BY <2>3 DEF Store!Step, Store!Flush
    <3> QED
      BY <2>1, <2>3, <3>1 DEF StoreStep, ContentInv
  <2>4. CASE PartsStep(t) /\ disk' = Target /\ UNCHANGED <<Target, Content>>
    <3>1. Store!Step
      BY <2>4 DEF Store!Step, Store!Commit
    <3> QED
      BY <2>1, <2>4, <3>1 DEF StoreStep, ContentInv
  <2>5. CASE UNCHANGED <<disk, Target, Content>>
    BY <2>1, <2>5 DEF StoreStep, ContentInv
  <2> QED
    BY <1>2, <2>2, <2>3, <2>4, <2>5, InternalContent
<1>3. ASSUME Reopen, Observe(disk), HNext PROVE StoreStep
  <2>1. UNCHANGED disk
    BY <1>3 DEF HNext, Reopen, catalog
  <2>2. Target' = disk /\ Content' = disk /\ truth' = disk
    BY <1>3, <2>1, ReopenContent DEF Observe
  <2>3. Store!Crash
    BY <2>1, <2>2 DEF Store!Crash
  <2> QED
    BY <1>3, <2>2, <2>3 DEF StoreStep, ContentInv
<1>4. CASE UNCHANGED hvars
  <2>1. UNCHANGED <<mem, memDel, pc, loc, disk, truth>>
    BY <1>4 DEF hvars, vars, buffer
  <2>2. Target' = Target
    BY <2>1, SameTarget
  <2> QED
    BY <2>1, <2>2, SameContent DEF StoreStep, ContentInv
<1> QED
  BY <1>1, <1>2, <1>3, <1>4 DEF HNext

LEMMA ContentInit == HInit => ContentInv /\ Store!Init
<1> SUFFICES ASSUME HInit PROVE ContentInv /\ Store!Init
  OBVIOUS
<1>1. \A t \in Threads : ~InFlight(t)
  BY DEF HInit, Init, InFlight
<1>2. Target = Empty
  BY <1>1 DEF Target, HInit
<1>3. Content = Laid(Empty, Empty, Empty)
  BY <1>2, ContentLaid DEF HInit, Init
<1>4. Laid(Empty, Empty, Empty) = Empty
  BY DEF Laid, Overlay, Empty
<1> QED
  BY <1>2, <1>3, <1>4 DEF HInit, ContentInv, Store!Init, Empty

(* What the calls so far amount to is what the buffer makes of the target. *)
LEMMA ContentHolds == HSpec /\ []OneMaintainer => []ContentInv
<1>1. StoreStep => ContentInv'
  BY DEF StoreStep
<1>2. HInit => ContentInv
  BY ContentInit
<1> QED
  BY <1>1, <1>2, TypesHold, CatalogHolds, StepImplements, PTL DEF HSpec

(* Range writes, bulk_replace, retain_periods, flush and compaction        *)
(* implement the write-back store, whose puts, removes and replacements    *)
(* take the whole set of periods of some call: no period of a call changes *)
(* visibly before the others, and none becomes durable before them.        *)
THEOREM ImplementsStore == HSpec /\ []OneMaintainer => RangesImplementStore
<1>1. StoreStep => [Store!Step \/ (Reopen /\ Store!Crash)]_(Store!vars)
  BY DEF StoreStep, Store!vars
<1>2. HInit => Store!Init
  BY ContentInit
<1> QED
  BY <1>1, <1>2, TypesHold, CatalogHolds, ContentHolds, StepImplements, PTL
     DEF HSpec, RangesImplementStore

-----------------------------------------------------------------------------
(* Reads.                                                                  *)

(* A step of one of the threads, and what the history keeps of it.         *)
Observed == Observe(truth') /\ (disk' = IF UNCHANGED listed THEN disk ELSE [k \in Keys |-> Disk(k)'])

LEMMA ObservedSteps ==
  HNext => Observed /\ ((\E t \in Threads : Update(t) \/ Internal(t) \/ Read(t)) \/ Reopen)
<1>1. ASSUME NEW x, Observe(x) PROVE Observe(truth')
  BY <1>1 DEF Observe
<1>2. ASSUME NEW t \in Threads, HUpdate(t) PROVE Observe(truth')
  BY <1>1, <1>2 DEF HUpdate
<1>3. HNext => Observe(truth')
  BY <1>1, <1>2 DEF HNext
<1> QED
  BY <1>3, HistoryNext DEF HNext, Next, Observed

(* Only the end of an index rebuild settles what is on its way, and only a *)
(* compaction changes the catalog's parts without data on its way after it.*)
LEMMA SettlingSteps ==
  ASSUME TypeInv, OneMaintainer, OneMaintainer', CatalogInv, CatalogInv', Observed,
         NEW t \in Threads, Update(t) \/ Internal(t) \/ Read(t), ~Unsettled'
  PROVE  /\ Unsettled => StoreIndex(t)
         /\ PartsStep(t) => \E k \in Keys : CompactPeriod(t, k)
         /\ UNCHANGED disk
<1> DEFINE Going(u) == \/ pc[u] \in {"flush_txn", "collect", "replace_txn", "delete_txn"}
                       \/ pc[u] = "index" /\ loc[u].op # "compact"
<1>1. ASSUME FlushTxn(t) \/ ReplaceTxn(t) \/ DeleteTxn(t) PROVE FALSE
  <2>1. pc'[t] = "index"
    BY <1>1, PartsStepBusy DEF PartsStep
  <2>2. pc[t] \in {"flush_txn", "replace_txn", "delete_txn"}
    BY <1>1 DEF FlushTxn, ReplaceTxn, DeleteTxn
  <2>3. loc[t].op # "compact"
    BY <2>2 DEF TypeInv, RoomLeft, CallsKnow, RoomAt, KnowsAt
  <2>4. loc'[t].op = loc[t].op
    <3>1. CASE FlushTxn(t) \/ ReplaceTxn(t)
      BY <3>1 DEF FlushTxn, ReplaceTxn
    <3>2. CASE DeleteTxn(t)
      BY <3>2, SameLocals DEF DeleteTxn, Locals, TypeInv, TypeOK
    <3> QED
      BY <1>1, <3>1, <3>2
  <2> QED
    BY <2>1, <2>3, <2>4 DEF Unsettled
<1>2. PartsStep(t) => \E k \in Keys : CompactPeriod(t, k)
  BY <1>1 DEF PartsStep
<1>3. UNCHANGED disk
  <2>1. CASE PartsStep(t)
    BY <1>2, <2>1, DiskCompact
  <2>2. CASE ~PartsStep(t)
    BY <2>2, PartsSteps DEF Observed, catalog
  <2> QED
    BY <2>1, <2>2
<1>4. ASSUME NEW u \in Threads, Going(u), ~StoreIndex(t) PROVE FALSE
  <2>1. CASE u # t
    BY <1>4, <2>1, Others DEF Unsettled
  <2>2. CASE u = t
    <3>1. CollectOldParts(t)
      BY <1>1, <1>4, <2>2, UpdateLabels, InternalLabels, ReadLabels DEF Update, Internal, Read, From
    <3> QED
      BY <3>1, InternalLabels DEF From, Unsettled
  <2> QED
    BY <2>1, <2>2
<1> QED
  BY <1>2, <1>3, <1>4 DEF Unsettled

LEMMA FreshIsDisk ==
  ASSUME CatalogInv, NEW k \in Keys, FreshIndex[k] # Absent
  PROVE  FreshIndex[k] = disk[k]
BY DEF CatalogInv, DiskKnown, FreshIndex

LEMMA IndexStep ==
  TypeInv /\ OneMaintainer /\ OneMaintainer' /\ CatalogInv /\ CatalogInv' /\ IndexInv
    /\ [HNext]_hvars => IndexInv'
<1> SUFFICES ASSUME TypeInv, OneMaintainer, OneMaintainer', CatalogInv, CatalogInv', IndexInv,
                    [HNext]_hvars, ~Unsettled', NEW k \in Keys, ridx'[k] # Absent
             PROVE  ridx'[k] = disk'[k]
  BY DEF IndexInv
<1>1. ASSUME ridx' = FreshIndex, UNCHANGED disk PROVE ridx'[k] = disk'[k]
  BY <1>1, FreshIsDisk
<1>2. ASSUME ~Unsettled, UNCHANGED <<ridx, disk>> PROVE ridx'[k] = disk'[k]
  BY <1>2 DEF IndexInv
<1>3. ASSUME Observed, NEW t \in Threads, Update(t) \/ Internal(t) \/ Read(t)
      PROVE  ridx'[k] = disk'[k]
  <2>1. UNCHANGED disk /\ (Unsettled => StoreIndex(t))
    BY <1>3, SettlingSteps
  <2>2. CASE StoreIndex(t)
    BY <1>1, <2>1, <2>2 DEF StoreIndex
  <2>3. CASE ~StoreIndex(t)
    <3>1. ridx' = ridx
      <4>1. Update(t) => ridx' = ridx
        BY DEF Update, RangeLock, RemoveRange, BulkReplace, DeleteLock
      <4>2. Internal(t) => ridx' = ridx
        BY <2>3 DEF Internal, PutRange, RevertCompacted, TakeSnapshot, FlushTxn, CompactPeriod,
             CollectOldParts, ReplaceTxn, RetainPeriods, DeleteTxn, DeletedAll
      <4>3. Read(t) => ridx' = ridx
        BY DEF Read, Query, CountBitmap, StartRead, CountState, CountParts, CountDeltas,
               CountPart, ReadBuffer, ReadCache, ReadReturns
      <4> QED
        BY <1>3, <4>1, <4>2, <4>3
    <3> QED
      BY <1>2, <2>1, <2>3, <3>1
  <2> QED
    BY <2>2, <2>3
<1>4. CASE Observed /\ Reopen
  BY <1>1, <1>4 DEF Reopen, Observed, catalog
<1>5. CASE UNCHANGED hvars
  BY <1>2, <1>5 DEF hvars, vars, Unsettled
<1> QED
  BY <1>3, <1>4, <1>5, ObservedSteps

LEMMA IndexHolds == HSpec /\ []OneMaintainer => []IndexInv
<1>1. HInit => IndexInv
  BY DEF HInit, Init, IndexInv
<1> QED
  BY <1>1, TypesHold, CatalogHolds, IndexStep, PTL DEF HSpec

(* A call keeps its periods while it reads.                                *)
LEMMA ReadingSteps ==
  ASSUME TypeInv, NEW t \in Threads, Update(t) \/ Internal(t) \/ Read(t), NEW u \in Threads
  PROVE  /\ Reading(u) /\ (Reading(u)' \/ pc'[u] = "got") => loc'[u].keys = loc[u].keys /\ loc'[u].op = loc[u].op
         /\ pc'[u] = "got" => Reading(u) \/ UNCHANGED <<pc[u], loc[u]>>
<1>1. CASE u # t
  BY <1>1, Others DEF Reading
<1>2. CASE u = t
  <2> USE DEF Reading
  <2>1. Update(t) \/ Internal(t) => ~Reading(t) /\ pc'[t] # "got"
    BY UpdateLabels, InternalLabels DEF Update, Internal, From
  <2>2. ASSUME Read(t) PROVE Reading(t) => pc'[t] # "idle"
    BY <2>2, ReadLabels DEF Read, From
  <2>3. pc'[t] = "got" => Reading(t)
    BY <2>1, ReadLabels DEF Read, From
  <2>4. ASSUME Read(t), Reading(t) PROVE loc'[t].keys = loc[t].keys /\ loc'[t].op = loc[t].op
    <3>1. /\ CountState(t) \/ CountParts(t) \/ CountDeltas(t) \/ CountPart(t)
               \/ ReadBuffer(t) \/ ReadCache(t)
      BY <2>4, ReadLabels DEF Read, From
    <3>2. CASE CountState(t) \/ CountDeltas(t)
      BY <3>2 DEF CountState, CountDeltas
    <3>3. CASE CountParts(t)
      BY <3>3, SameLocals DEF CountParts, Locals, TypeInv, TypeOK
    <3>4. CASE CountPart(t)
      <4> USE DEF Locals, TypeInv, TypeOK
      <4>1. CASE loc[t].olds \subseteq parts
        <5>1. PICK p \in loc[t].olds : loc' = [loc EXCEPT ![t].got = <<p.bits>>, ![t].olds = {}]
          BY <3>4, <4>1 DEF CountPart
        <5> DEFINE B == <<p.bits>>
        <5>2. loc' = [loc EXCEPT ![t].got = B, ![t].olds = {}]
          BY <5>1
        <5> HIDE DEF B
        <5> QED
          BY <5>2, SameLocals
      <4>2. CASE ~ (loc[t].olds \subseteq parts)
        BY <3>4, <4>2, SameLocals DEF CountPart
      <4> QED
        BY <4>1, <4>2
    <3>5. CASE ReadBuffer(t)
      BY <3>5, SameLocals DEF ReadBuffer, Locals, TypeInv, TypeOK
    <3>6. CASE ReadCache(t)
      <4> DEFINE k == NextKey(t)
                 got == Append(loc[t].got,
                          Overlay(IF ridx[k] # Absent THEN ridx[k] ELSE Disk(k),
                                  loc[t].overlay[1], loc[t].overlay[2]))
      <4>1. loc' = [loc EXCEPT ![t].got = got, ![t].overlay = <<{}, {}>>]
        BY <3>6 DEF ReadCache
      <4> HIDE DEF got
      <4> QED
        BY <4>1, SameLocals DEF Locals, TypeInv, TypeOK
    <3> QED
      BY <3>1, <3>2, <3>3, <3>4, <3>5, <3>6
  <2> QED
    BY <1>2, <2>1, <2>3, <2>4
<1> QED
  BY <1>1, <1>2

(* All of the above, and what it gives a read.                             *)
Sound == TypeInv /\ CatalogInv /\ OneMaintainer /\ ContentInv /\ IndexInv

LEMMA SoundTruth == Sound => truth \in [Keys -> SUBSET Ids]
BY ContentTyped DEF Sound, ContentInv

LEMMA SoundTruthNext == (Sound => truth \in [Keys -> SUBSET Ids])'
BY SoundTruth, PTL

LEMMA CallKeys ==
  TypeInv => \A t \in Threads : loc[t].keys \in Seq(Keys) /\ Range(loc[t].keys) \subseteq Keys
BY ReadTypes, ElementOfSeq DEF Range

LEMMA CallKeysNext ==
  (TypeInv => \A t \in Threads : loc[t].keys \in Seq(Keys) /\ Range(loc[t].keys) \subseteq Keys)'
BY CallKeys, PTL

(* With nothing on its way, what the calls amount to is what the buffer    *)
(* makes of the catalog.                                                   *)
LEMMA SettledTruth ==
  ASSUME Sound, ~Unsettled, NEW k \in Keys
  PROVE  truth[k] = Overlay(disk[k], mem[k], memDel[k])
<1>1. \A t \in Threads : ~InFlight(t)
  BY DEF Unsettled, InFlight
<1>2. Target = disk
  BY <1>1, TargetIs DEF Sound
<1>3. Content = Laid(disk, mem, memDel)
  BY <1>2, ContentLaid
<1> QED
  BY <1>3 DEF Sound, ContentInv, Laid

(* What a read has seen after a step.                                      *)
LEMMA SeenAt ==
  ASSUME Observed, NEW u \in Threads, Reading(u)'
  PROVE  LET old == IF Reading(u) THEN seen[u] ELSE [must |-> truth, may |-> truth, calm |-> TRUE]
             K == Range(loc'[u].keys) IN
         /\ seen'[u].must = [k \in K |-> old.must[k] \cap truth'[k]]
         /\ seen'[u].may = [k \in K |-> old.may[k] \cup truth'[k]]
         /\ seen'[u].calm = (old.calm /\ ~Unsettled /\ ~Unsettled')
<1> DEFINE old == IF Reading(u) THEN seen[u] ELSE [must |-> truth, may |-> truth, calm |-> TRUE]
           K == Range(loc'[u].keys)
           s == [must |-> [k \in K |-> old.must[k] \cap truth'[k]],
                 may |-> [k \in K |-> old.may[k] \cup truth'[k]],
                 calm |-> old.calm /\ ~Unsettled /\ ~Unsettled']
<1>1. seen'[u] = s
  BY DEF Observed, Observe
<1>2. /\ s.must = [k \in K |-> old.must[k] \cap truth'[k]]
      /\ s.may = [k \in K |-> old.may[k] \cup truth'[k]]
      /\ s.calm = (old.calm /\ ~Unsettled /\ ~Unsettled')
  OBVIOUS
<1> HIDE DEF s
<1> QED
  BY <1>1, <1>2

LEMMA SeenStep ==
  Sound /\ Sound' /\ SeenInv /\ [HNext]_hvars => SeenInv'
<1> SUFFICES ASSUME Sound, Sound', SeenInv, [HNext]_hvars, NEW u \in Threads
             PROVE  LET K == Range(loc'[u].keys) IN
                    /\ Reading(u)' \/ pc'[u] = "got" =>
                         seen'[u].must \in [K -> SUBSET Ids] /\ seen'[u].may \in [K -> SUBSET Ids]
                    /\ Reading(u)' =>
                         /\ \A k \in K : seen'[u].must[k] \subseteq truth'[k]
                                         /\ truth'[k] \subseteq seen'[u].may[k]
                         /\ seen'[u].calm => ~Unsettled'
  BY DEF SeenInv, Range
<1> DEFINE K == Range(loc'[u].keys)
<1>1. ASSUME Observed, NEW t \in Threads, Update(t) \/ Internal(t) \/ Read(t)
      PROVE  /\ Reading(u)' \/ pc'[u] = "got" =>
                  seen'[u].must \in [K -> SUBSET Ids] /\ seen'[u].may \in [K -> SUBSET Ids]
             /\ Reading(u)' =>
                  /\ \A k \in K : seen'[u].must[k] \subseteq truth'[k]
                                  /\ truth'[k] \subseteq seen'[u].may[k]
                  /\ seen'[u].calm => ~Unsettled'
  <2>1. ASSUME Reading(u)'
        PROVE  /\ seen'[u].must \in [K -> SUBSET Ids] /\ seen'[u].may \in [K -> SUBSET Ids]
               /\ \A k \in K : seen'[u].must[k] \subseteq truth'[k] /\ truth'[k] \subseteq seen'[u].may[k]
               /\ seen'[u].calm => ~Unsettled'
    <3> DEFINE old == IF Reading(u) THEN seen[u] ELSE [must |-> truth, may |-> truth, calm |-> TRUE]
    <3>1. /\ seen'[u].must = [k \in K |-> old.must[k] \cap truth'[k]]
          /\ seen'[u].may = [k \in K |-> old.may[k] \cup truth'[k]]
          /\ seen'[u].calm = (old.calm /\ ~Unsettled /\ ~Unsettled')
      BY <1>1, <2>1, SeenAt
    <3>2. \A k \in K : truth'[k] \in SUBSET Ids
      BY SoundTruthNext, CallKeysNext DEF Sound
    <3>3. \A k \in K : old.must[k] \in SUBSET Ids /\ old.may[k] \in SUBSET Ids
      <4>1. CASE Reading(u)
        <5>1. K = Range(loc[u].keys)
          BY <1>1, <2>1, <4>1, ReadingSteps DEF Sound
        <5>2. seen[u].must \in [K -> SUBSET Ids] /\ seen[u].may \in [K -> SUBSET Ids]
          BY <4>1, <5>1 DEF SeenInv
        <5> QED
          BY <4>1, <5>2
      <4>2. CASE ~Reading(u)
        <5>1. K \subseteq Keys
          BY CallKeysNext DEF Sound
        <5>2. old.must = truth /\ old.may = truth
          BY <4>2
        <5> QED
          BY <5>1, <5>2, SoundTruth
      <4> QED
        BY <4>1, <4>2
    <3> HIDE DEF old, K
    <3> QED
      BY <3>1, <3>2, <3>3
  <2>2. ASSUME pc'[u] = "got", ~Reading(u)'
        PROVE  seen'[u].must \in [K -> SUBSET Ids] /\ seen'[u].may \in [K -> SUBSET Ids]
    <3>1. seen'[u] = seen[u]
      BY <1>1, <2>2 DEF Observed, Observe
    <3>2. (Reading(u) \/ pc[u] = "got") /\ loc'[u].keys = loc[u].keys
      BY <1>1, <2>2, ReadingSteps DEF Sound
    <3> QED
      BY <3>1, <3>2 DEF SeenInv
  <2> QED
    BY <2>1, <2>2
<1>2. CASE Reopen
  BY <1>2 DEF Reopen, Reading
<1>3. CASE UNCHANGED hvars
  BY <1>3 DEF hvars, vars, SeenInv, Reading, Unsettled
<1> QED
  BY <1>1, <1>2, <1>3, ObservedSteps

LEMMA SoundHolds == HSpec /\ []OneMaintainer => []Sound
BY TypesHold, CatalogHolds, ContentHolds, IndexHolds, PTL DEF Sound

LEMMA SeenHolds == HSpec /\ []OneMaintainer => []SeenInv
<1>1. HInit => SeenInv
  BY DEF HInit, Init, SeenInv, Reading
<1> QED
  BY <1>1, SoundHolds, SeenStep, PTL DEF HSpec

(* A read that stays calm: nothing is on its way, what the calls amount to *)
(* is within what it has seen, and it has seen no less than before.        *)
LEMMA CalmStep ==
  ASSUME Sound, Sound', SeenInv, Observed, NEW u \in Threads, Reading(u)', seen'[u].calm,
         NEW t \in Threads, Update(t) \/ Internal(t) \/ Read(t)
  PROVE  /\ ~Unsettled /\ ~Unsettled' /\ UNCHANGED disk
         /\ \A k \in Range(loc'[u].keys) :
              /\ seen'[u].must[k] \subseteq truth[k] /\ truth[k] \subseteq seen'[u].may[k]
              /\ Reading(u) => \A S : Between(u, k, S) =>
                   seen'[u].must[k] \subseteq S /\ S \subseteq seen'[u].may[k]
         /\ Reading(u) => seen[u].calm
<1> DEFINE K == Range(loc'[u].keys)
           old == IF Reading(u) THEN seen[u] ELSE [must |-> truth, may |-> truth, calm |-> TRUE]
<1>1. /\ seen'[u].must = [k \in K |-> old.must[k] \cap truth'[k]]
      /\ seen'[u].may = [k \in K |-> old.may[k] \cup truth'[k]]
      /\ seen'[u].calm = (old.calm /\ ~Unsettled /\ ~Unsettled')
  BY SeenAt
<1>2. ~Unsettled /\ ~Unsettled'
  BY <1>1
<1>3. UNCHANGED disk
  BY <1>2, SettlingSteps DEF Sound
<1>4. \A k \in K : old.must[k] \subseteq truth[k] /\ truth[k] \subseteq old.may[k]
  <2>1. CASE Reading(u)
    <3>1. K = Range(loc[u].keys)
      BY <2>1, ReadingSteps DEF Sound
    <3> QED
      BY <2>1, <3>1 DEF SeenInv
  <2>2. CASE ~Reading(u)
    BY <2>2
  <2> QED
    BY <2>1, <2>2
<1>5. Reading(u) => old = seen[u]
  OBVIOUS
<1> HIDE DEF K, old
<1>6. \A k \in K : seen'[u].must[k] \subseteq truth[k] /\ truth[k] \subseteq seen'[u].may[k]
  BY <1>1, <1>4
<1>7. ASSUME Reading(u), NEW k \in K, NEW S, Between(u, k, S)
      PROVE  seen'[u].must[k] \subseteq S /\ S \subseteq seen'[u].may[k]
  BY <1>1, <1>5, <1>6, <1>7 DEF Between
<1> QED
  BY <1>1, <1>2, <1>3, <1>5, <1>6, <1>7 DEF K

ReadAt(t) == CountSeen(t) /\ CountFound(t) /\ CacheSeen(t) /\ GotSeen(t) /\ Finished(t)

ListedIn(L, k, kind) == {p \in L : p.key = k /\ p.kind = kind}

(* The parts that a count found stay the period's as long as they are      *)
(* registered: a compaction gives its part an id that was never given.     *)
LEMMA FoundStay ==
  ASSUME Sound, Sound', NEW t \in Threads, Internal(t) \/ Read(t) \/ Update(t),
         PartsStep(t) => \E k \in Keys : CompactPeriod(t, k),
         NEW k \in Keys, NEW P, P # {}, \A p \in P : p.id < nextId,
         P \subseteq parts', P \subseteq parts => P = Listed(k, "data")
  PROVE  /\ P \subseteq parts /\ P = ListedIn(listed', k, "data")
         /\ ListedIn(listed', k, "delta") = Listed(k, "delta")
<1>1. CASE PartsStep(t)
  <2>1. PICK j \in Keys : CompactPeriod(t, j)
    BY <1>1
  <2> DEFINE new == NewPart(nextId, "data", j, Disk(j))
  <2>2. /\ parts' = (parts \ PartsOf(j)) \cup {new}
        /\ listed' = {p \in listed : p.key # j} \cup {new}
    BY <2>1 DEF CompactPeriod
  <2>3. new.id = nextId /\ new.key = j /\ nextId \in Nat
    BY PeriodsAssumption DEF NewPart, Sound, TypeInv, TypeOK
  <2> HIDE DEF new
  <2>4. P \subseteq parts \ PartsOf(j)
    BY <2>2, <2>3
  <2>5. PICK p \in P : p \in listed /\ p.key = k
    BY <2>4 DEF Listed
  <2>6. k # j
    BY <2>4, <2>5 DEF PartsOf
  <2>7. /\ ListedIn(listed', k, "data") = Listed(k, "data")
        /\ ListedIn(listed', k, "delta") = Listed(k, "delta")
    BY <2>2, <2>3, <2>6 DEF Listed, ListedIn
  <2> QED
    BY <2>4, <2>7
<1>2. CASE ~PartsStep(t)
  <2>1. UNCHANGED <<parts, listed>>
    BY <1>2, PartsSteps DEF catalog
  <2> QED
    BY <2>1 DEF Listed, ListedIn
<1> QED
  BY <1>1, <1>2

LEMMA NextIdGrows ==
  ASSUME Sound, NEW t \in Threads, Update(t) \/ Internal(t) \/ Read(t),
         PartsStep(t) => \E k \in Keys : CompactPeriod(t, k)
  PROVE  nextId' = nextId \/ nextId' = nextId + 1
BY PartsSteps DEF CompactPeriod, catalog

LEMMA CountKeys ==
  ASSUME TypeInv, NEW t \in Threads, pc[t] \in Counting
  PROVE  /\ Head(loc[t].keys) \in Keys /\ Head(loc[t].keys) \in Range(loc[t].keys)
         /\ Head(loc[t].keys) = loc[t].keys[1] /\ 1 \in DOMAIN loc[t].keys
         /\ loc[t].got = <<>> /\ loc[t].op = "cardinality"
<1>1. loc[t].keys # <<>> /\ loc[t].got = <<>> /\ loc[t].op = "cardinality"
  BY DEF TypeInv, CallsKnow, KnowsAt, Counting
<1>2. Head(loc[t].keys) \in Keys /\ Head(loc[t].keys) = loc[t].keys[1]
  BY <1>1, ReadTypes, HeadTailProperties
<1>3. 1 \in DOMAIN loc[t].keys
  BY <1>1, ReadTypes, EmptySeq
<1> QED
  BY <1>1, <1>2, <1>3 DEF Range

(* A count that goes on after a step, with the parts it found before it.   *)
LEMMA CountKept ==
  ASSUME Sound, Sound', SeenInv, Observed, NEW u \in Threads, pc[u] \in Counting,
         pc'[u] \in Counting, seen'[u].calm, ReadAt(u),
         NEW t \in Threads, Update(t) \/ Internal(t) \/ Read(t)
  PROVE  /\ CountSeen(u)'
         /\ pc[u] \in {"count_deltas", "count_part"} /\ loc'[u].olds = loc[u].olds
              /\ (pc'[u] = "count_part" => pc[u] = "count_part" \/ Listed(Head(loc[u].keys), "delta") = {})
              => CountFound(u)'
<1> DEFINE k == Head(loc[u].keys)
<1>1. Reading(u) /\ Reading(u)' /\ loc'[u].keys = loc[u].keys
  BY ReadingSteps DEF Sound, Reading, Counting
<1>2. k \in Keys /\ k \in Range(loc'[u].keys)
  BY <1>1, CountKeys DEF Sound
<1>3. UNCHANGED disk /\ ~Unsettled'
  BY <1>1, CalmStep
<1>4. CountSeen(u)'
  <2>1. Between(u, k, disk[k])
    BY DEF ReadAt, CountSeen
  <2> HIDE DEF k
  <2>2. seen'[u].must[k] \subseteq disk[k] /\ disk[k] \subseteq seen'[u].may[k]
    BY <1>1, <1>2, <2>1, CalmStep
  <2> QED
    BY <1>1, <1>3, <2>2 DEF CountSeen, Between, k
<1>5. ASSUME pc[u] \in {"count_deltas", "count_part"}, loc'[u].olds = loc[u].olds,
             pc'[u] = "count_part" => pc[u] = "count_part" \/ Listed(k, "delta") = {}
      PROVE  CountFound(u)'
  <2> DEFINE P == loc[u].olds
  <2>1. /\ \A p \in P : p.id < nextId
        /\ P # {} /\ P \subseteq parts =>
             P = Listed(k, "data") /\ (pc[u] = "count_part" => Listed(k, "delta") = {})
    BY <1>5 DEF ReadAt, CountFound
  <2>2. PartsStep(t) => \E j \in Keys : CompactPeriod(t, j)
    BY <1>3, SettlingSteps DEF Sound
  <2>3. \A p \in P : p.id < nextId'
    <3>1. nextId \in Nat /\ \A p \in P : p.id \in Nat
      <4>1. P \in SUBSET Part
        BY DEF Sound, TypeInv, TypeOK, Locals
      <4> QED
        BY <4>1, PeriodsAssumption DEF Part, Sound, TypeInv, TypeOK
    <3> HIDE DEF P
    <3> QED
      BY <2>1, <2>2, <3>1, NextIdGrows
  <2> HIDE DEF P, k
  <2>4. ASSUME P # {}, P \subseteq parts'
        PROVE  /\ P = ListedIn(listed', k, "data")
               /\ pc'[u] = "count_part" => ListedIn(listed', k, "delta") = {}
    <3>1. /\ P \subseteq parts /\ P = ListedIn(listed', k, "data")
          /\ ListedIn(listed', k, "delta") = Listed(k, "delta")
      BY <1>2, <2>1, <2>2, <2>4, FoundStay
    <3> QED
      BY <1>5, <2>1, <2>4, <3>1
  <2> QED
    BY <1>1, <1>5, <2>3, <2>4 DEF CountFound, Listed, ListedIn, P, k
<1> QED
  BY <1>4, <1>5

(* What a read got before a step.                                          *)
LEMMA GotKept ==
  ASSUME Sound, Sound', SeenInv, Observed, NEW u \in Threads, Reading(u), Reading(u)',
         seen'[u].calm, NEW t \in Threads, Update(t) \/ Internal(t) \/ Read(t),
         NEW i \in DOMAIN loc[u].keys, NEW S, Between(u, loc[u].keys[i], S)
  PROVE  seen'[u].must[loc[u].keys[i]] \subseteq S /\ S \subseteq seen'[u].may[loc[u].keys[i]]
<1>1. loc'[u].keys = loc[u].keys
  BY ReadingSteps DEF Sound
<1>2. loc[u].keys[i] \in Range(loc'[u].keys)
  BY <1>1 DEF Range
<1> QED
  BY <1>2, CalmStep

(* The steps of the others do no harm.                                     *)
LEMMA ReadBeside ==
  ASSUME Sound, Sound', SeenInv, ReadInv, Observed, NEW u \in Threads, seen'[u].calm,
         NEW t \in Threads, Update(t) \/ Internal(t) \/ Read(t),
         UNCHANGED <<pc[u], loc[u]>>
  PROVE  ReadAt(u)'
<1>1. CASE pc[u] \in Counting
  <2>1. Reading(u) /\ Reading(u)'
    BY <1>1 DEF Reading, Counting
  <2>2. ReadAt(u)
    BY <2>1, CalmStep DEF ReadInv, ReadAt
  <2>3. CountSeen(u)' /\ CountFound(u)'
    <3>1. pc[u] \in {"count_deltas", "count_part"} => CountFound(u)'
      BY <1>1, <2>2, CountKept
    <3> QED
      BY <1>1, <2>2, <3>1, CountKept DEF CountFound
  <2> QED
    BY <1>1, <2>3 DEF ReadAt, CacheSeen, GotSeen, Finished, Counting
<1>2. CASE pc[u] \in {"read", "cache"}
  <2>1. Reading(u) /\ Reading(u)' /\ UNCHANGED disk
    BY <1>2, CalmStep DEF Reading
  <2>2. ReadAt(u)
    BY <2>1, CalmStep DEF ReadInv, ReadAt
  <2>3. GotSeen(u)'
    <3>1. ASSUME NEW i \in DOMAIN loc[u].got
          PROVE  i \in DOMAIN loc[u].keys /\ Between(u, loc[u].keys[i], loc[u].got[i])'
      <4>1. i \in DOMAIN loc[u].keys /\ Between(u, loc[u].keys[i], loc[u].got[i])
        BY <1>2, <2>2 DEF ReadAt, GotSeen
      <4> QED
        BY <2>1, <4>1, GotKept DEF Between
    <3> QED
      BY <3>1 DEF GotSeen, Between
  <2>4. CacheSeen(u)'
    <3> SUFFICES ASSUME pc[u] = "cache" PROVE CacheSeen(u)'
      BY DEF CacheSeen
    <3> DEFINE i == Len(loc[u].got) + 1
               k == loc[u].keys[i]
               S == Overlay(disk[k], loc[u].overlay[1], loc[u].overlay[2])
    <3>1. i \in DOMAIN loc[u].keys
      BY ReadTypes DEF Sound
    <3>2. Between(u, k, S)
      BY <2>2 DEF ReadAt, CacheSeen, NextKey
    <3> HIDE DEF i, S
    <3>3. seen'[u].must[k] \subseteq S /\ S \subseteq seen'[u].may[k]
      BY <2>1, <3>1, <3>2, GotKept
    <3> QED
      BY <2>1, <3>3 DEF CacheSeen, NextKey, Between, i, S
  <2> QED
    BY <1>2, <2>3, <2>4 DEF ReadAt, CountSeen, CountFound, Finished, Counting
<1>3. CASE pc[u] = "got"
  <2>1. seen'[u] = seen[u]
    BY <1>3 DEF Observed, Observe, Reading
  <2>2. ReadAt(u)
    BY <2>1 DEF ReadInv, ReadAt
  <2>3. GotSeen(u)' /\ Finished(u)'
    BY <1>3, <2>1, <2>2 DEF ReadAt, GotSeen, Finished, Between, Done
  <2> QED
    BY <1>3, <2>3 DEF ReadAt, CountSeen, CountFound, CacheSeen, Counting
<1>4. CASE pc[u] \notin Counting \cup {"read", "cache", "got"}
  BY <1>4 DEF ReadAt, CountSeen, CountFound, CacheSeen, GotSeen, Finished, Counting
<1> QED
  BY <1>1, <1>2, <1>3, <1>4

(* A read that has nothing yet has nothing wrong.                          *)
LEMMA ReadNothing ==
  ASSUME NEW t \in Threads, pc'[t] = "read", loc'[t].got = <<>>
  PROVE  ReadAt(t)'
BY EmptySeq DEF ReadAt, CountSeen, CountFound, CacheSeen, GotSeen, Finished, Counting

(* The first step of a read.                                               *)
LEMMA ReadStarts ==
  ASSUME Sound, Sound', SeenInv, Observed, NEW t \in Threads, seen'[t].calm,
         NEW q \in Queries, Query(t, q) \/ CountBitmap(t, q)
  PROVE  ReadAt(t)'
<1> DEFINE r == [Blank EXCEPT !.op = q.op, !.keys = q.keys]
<1>1. loc' = [loc EXCEPT ![t] = r] /\ UNCHANGED <<mem, memDel>> /\ Read(t) /\ pc[t] = "idle"
  BY DEF Query, CountBitmap, StartRead, Starts, buffer, Read
<1>2. r.keys = q.keys /\ r.got = <<>>
  BY DEF Blank
<1> HIDE DEF r
<1>3. loc'[t] = r
  BY <1>1 DEF Sound, TypeInv, TypeOK
<1>4. CASE pc'[t] = "read"
  BY <1>2, <1>3, <1>4, ReadNothing
<1>5. CASE pc'[t] # "read"
  <2> DEFINE k == Head(q.keys)
  <2>1. pc'[t] = "count_state" /\ mem[k] = {} /\ memDel[k] = {}
    BY <1>5, ReadLabels DEF From, Sound
  <2>2. k \in Keys /\ k \in Range(loc'[t].keys)
    BY <1>2, <1>3, QueryKeys DEF Range
  <2>3. Reading(t)'
    BY <2>1 DEF Reading
  <2>4. ~Unsettled /\ UNCHANGED disk
    BY <1>1, <2>3, CalmStep
  <2>5. truth[k] = Overlay(disk[k], mem[k], memDel[k])
    BY <2>2, <2>4, SettledTruth
  <2>6. truth[k] = disk[k]
    BY <2>1, <2>5 DEF Overlay
  <2> HIDE DEF k
  <2>7. seen'[t].must[k] \subseteq truth[k] /\ truth[k] \subseteq seen'[t].may[k]
    BY <1>1, <2>2, <2>3, CalmStep
  <2>8. CountSeen(t)'
    BY <1>2, <1>3, <2>4, <2>6, <2>7 DEF CountSeen, Between, k
  <2> QED
    BY <2>1, <2>8 DEF ReadAt, CountFound, CacheSeen, GotSeen, Finished
<1> QED
  BY <1>4, <1>5

LEMMA ReadCounts ==
  ASSUME Sound, Sound', SeenInv, ReadInv, Observed, NEW t \in Threads, seen'[t].calm,
         CountState(t) \/ CountParts(t) \/ CountDeltas(t)
  PROVE  ReadAt(t)'
<1> DEFINE k == Head(loc[t].keys)
<1>0. TypeInv /\ Read(t)
  BY DEF Sound, Read
<1>1. pc[t] \in Counting /\ (pc'[t] \in Counting \/ pc'[t] = "read")
  BY <1>0, ReadLabels DEF From, Counting
<1>2. loc[t].got = <<>> /\ k \in Keys /\ loc[t].olds \in SUBSET Part
  BY <1>0, <1>1, CountKeys DEF TypeInv, TypeOK, Locals
<1>3. CASE pc'[t] = "read"
  <2>1. CountState(t) \/ CountDeltas(t)
    BY <1>0, <1>3, ReadLabels DEF From
  <2>2. loc'[t].got = <<>>
    BY <1>2, <2>1 DEF CountState, CountDeltas
  <2> QED
    BY <1>3, <2>2, ReadNothing
<1>4. CASE pc'[t] \in Counting
  <2>1. Reading(t) /\ Reading(t)'
    BY <1>1, <1>4 DEF Reading, Counting
  <2>2. ReadAt(t)
    BY <1>0, <2>1, CalmStep DEF ReadInv, ReadAt
  <2>3. CountSeen(t)'
    BY <1>0, <1>1, <1>4, <2>2, CountKept
  <2>4. CountFound(t)'
    <3>1. CASE CountState(t)
      BY <1>0, <3>1, ReadLabels DEF From, CountFound
    <3>2. CASE CountParts(t)
      <4> DEFINE P == Listed(k, "data")
                 r == [loc[t] EXCEPT !.olds = P]
      <4>1. loc' = [loc EXCEPT ![t] = r] /\ UNCHANGED <<listed, nextId>> /\ pc'[t] = "count_deltas"
        BY <1>0, <3>2, ReadLabels DEF CountParts, catalog, From, TypeInv, TypeOK
      <4>2. r.olds = P /\ r.keys = loc[t].keys
        BY <1>0, SameLocals DEF Locals
      <4> HIDE DEF r
      <4>3. loc'[t] = r
        BY <1>0, <4>1 DEF TypeInv, TypeOK
      <4>4. \A p \in P : p.id < nextId
        BY <1>0 DEF Listed, TypeInv, TypeOK
      <4> QED
        BY <4>1, <4>2, <4>3, <4>4 DEF CountFound, Listed
    <3>3. CASE CountDeltas(t)
      <4>1. loc' = loc /\ pc[t] = "count_deltas" /\ Listed(k, "delta") = {}
        BY <1>0, <1>4, <3>3, ReadLabels DEF CountDeltas, From, Goto, TypeInv, TypeOK, Counting
      <4> QED
        BY <1>0, <1>1, <1>4, <2>2, <4>1, CountKept
    <3> QED
      BY <3>1, <3>2, <3>3
  <2> QED
    BY <1>4, <2>3, <2>4 DEF ReadAt, CacheSeen, GotSeen, Finished, Counting
<1> QED
  BY <1>1, <1>3, <1>4

(* The part whose cardinality is taken holds what the catalog does.        *)
LEMMA ReadCounted ==
  ASSUME Sound, Sound', SeenInv, ReadInv, Observed, NEW t \in Threads, seen'[t].calm, CountPart(t)
  PROVE  ReadAt(t)'
<1> DEFINE k == Head(loc[t].keys)
<1>0. TypeInv /\ Read(t) /\ pc[t] = "count_part"
  BY DEF Sound, Read, CountPart
<1>1. /\ k \in Keys /\ k = loc[t].keys[1] /\ 1 \in DOMAIN loc[t].keys
      /\ loc[t].got = <<>> /\ loc[t].op = "cardinality"
  BY <1>0, CountKeys DEF Counting
<1>2. CASE loc[t].olds \subseteq parts
  <2>1. PICK p \in loc[t].olds : loc' = [loc EXCEPT ![t].got = <<p.bits>>, ![t].olds = {}]
    BY <1>2 DEF CountPart
  <2> DEFINE B == <<p.bits>>
             r == [loc[t] EXCEPT !.got = B, !.olds = {}]
  <2>2. loc' = [loc EXCEPT ![t] = r]
    BY <1>0, <2>1 DEF TypeInv, TypeOK
  <2>3. B # <<>> /\ DOMAIN B = {1} /\ B[1] = p.bits
    OBVIOUS
  <2> HIDE DEF B
  <2>4. r.got = B /\ r.keys = loc[t].keys /\ r.op = loc[t].op
    BY <1>0, SameLocals DEF Locals
  <2> HIDE DEF r
  <2>5. loc'[t] = r /\ pc'[t] = "got"
    BY <1>0, <1>2, <2>2, ReadLabels DEF From, TypeInv, TypeOK
  <2>6. seen'[t] = seen[t]
    BY <2>5 DEF Observed, Observe, Reading
  <2>7. ReadAt(t)
    BY <2>6 DEF ReadInv, ReadAt
  <2>8. loc[t].olds = Listed(k, "data") /\ Listed(k, "delta") = {}
    BY <1>0, <1>2, <2>7 DEF ReadAt, CountFound
  <2>9. \E q \in Part : loc[t].olds = {q}
    BY <1>0 DEF TypeInv, CallsKnow, KnowsAt
  <2> HIDE DEF k
  <2>10. ListedOf(k) = {p}
    <3>1. \A q \in ListedOf(k) : q.kind \in {"data", "delta"}
      BY <1>0, ListedIds
    <3>2. ListedOf(k) = loc[t].olds
      BY <2>8, <3>1 DEF ListedOf, Listed
    <3> QED
      BY <2>9, <3>2
  <2>11. disk[k] = p.bits
    <3>1. disk[k] = Merged({p})
      BY <1>1, <2>10, DiskListed DEF Sound
    <3>2. p.id \in Nat
      BY <1>0, <2>10, ListedIds
    <3>3. p.kind = "data"
      BY <2>8 DEF Listed
    <3> QED
      BY <3>1, <3>2, <3>3, MergedOne
  <2>12. Between(t, k, p.bits)
    BY <1>0, <2>7, <2>11 DEF ReadAt, CountSeen, Counting, k
  <2>13. GotSeen(t)' /\ Finished(t)'
    BY <1>1, <2>3, <2>4, <2>5, <2>6, <2>12 DEF GotSeen, Finished, Between
  <2> QED
    BY <2>5, <2>13 DEF ReadAt, CountSeen, CountFound, CacheSeen, Counting
<1>3. CASE ~ (loc[t].olds \subseteq parts)
  <2> DEFINE r == [loc[t] EXCEPT !.olds = {}]
  <2>1. loc' = [loc EXCEPT ![t] = r]
    BY <1>0, <1>3 DEF CountPart, TypeInv, TypeOK
  <2>2. r.got = loc[t].got
    BY <1>0, SameLocals DEF Locals
  <2> HIDE DEF r
  <2>3. loc'[t].got = <<>> /\ pc'[t] = "read"
    BY <1>0, <1>1, <1>3, <2>1, <2>2, ReadLabels DEF From, TypeInv, TypeOK
  <2> QED
    BY <2>3, ReadNothing
<1> QED
  BY <1>2, <1>3

LEMMA ReadBuffers ==
  ASSUME Sound, Sound', SeenInv, ReadInv, Observed, NEW t \in Threads, seen'[t].calm,
         ReadBuffer(t)
  PROVE  ReadAt(t)'
<1> DEFINE i == Len(loc[t].got) + 1
           k == loc[t].keys[i]
           o == <<mem[k], memDel[k]>>
           r == [loc[t] EXCEPT !.overlay = o]
<1>0. TypeInv /\ Read(t) /\ pc[t] = "read" /\ pc'[t] = "cache"
  BY ReadLabels DEF Sound, Read, From
<1>1. Reading(t) /\ Reading(t)'
  BY <1>0 DEF Reading
<1>2. ~Unsettled /\ UNCHANGED disk
  BY <1>0, <1>1, CalmStep
<1>3. ReadAt(t)
  BY <1>0, <1>1, CalmStep DEF ReadInv, ReadAt
<1>4. loc' = [loc EXCEPT ![t] = r]
  BY <1>0 DEF ReadBuffer, NextKey, TypeInv, TypeOK
<1>5. o[1] = mem[k] /\ o[2] = memDel[k]
  OBVIOUS
<1> HIDE DEF o
<1>6. r.overlay = o /\ r.keys = loc[t].keys /\ r.got = loc[t].got
  BY <1>0, SameLocals DEF Locals
<1> HIDE DEF r
<1>7. loc'[t] = r
  BY <1>0, <1>4 DEF TypeInv, TypeOK
<1>8. i \in DOMAIN loc[t].keys /\ k \in Keys
  BY <1>0, ReadTypes DEF NextKey
<1> HIDE DEF i
<1>9. truth[k] = Overlay(disk[k], o[1], o[2])
  BY <1>2, <1>5, <1>8, SettledTruth
<1>10. k \in Range(loc'[t].keys)
  BY <1>6, <1>7, <1>8 DEF Range
<1> HIDE DEF k
<1>11. seen'[t].must[k] \subseteq truth[k] /\ truth[k] \subseteq seen'[t].may[k]
  BY <1>0, <1>1, <1>10, CalmStep
<1>12. CacheSeen(t)'
  BY <1>2, <1>6, <1>7, <1>9, <1>11 DEF CacheSeen, NextKey, Between, k, i
<1>13. GotSeen(t)'
  <2>1. ASSUME NEW j \in DOMAIN loc[t].got
        PROVE  j \in DOMAIN loc[t].keys /\ Between(t, loc[t].keys[j], loc[t].got[j])
    BY <1>0, <1>3 DEF ReadAt, GotSeen
  <2>2. ASSUME NEW j \in DOMAIN loc[t].got
        PROVE  /\ seen'[t].must[loc[t].keys[j]] \subseteq loc[t].got[j]
               /\ loc[t].got[j] \subseteq seen'[t].may[loc[t].keys[j]]
    BY <1>0, <1>1, <2>1, GotKept
  <2> QED
    BY <1>6, <1>7, <2>1, <2>2 DEF GotSeen, Between
<1> QED
  BY <1>0, <1>12, <1>13 DEF ReadAt, CountSeen, CountFound, Finished, Counting

LEMMA ReadCaches ==
  ASSUME Sound, Sound', SeenInv, ReadInv, Observed, NEW t \in Threads, seen'[t].calm,
         ReadCache(t)
  PROVE  ReadAt(t)'
<1> DEFINE i == Len(loc[t].got) + 1
           k == NextKey(t)
           stored == IF ridx[k] # Absent THEN ridx[k] ELSE Disk(k)
           S == Overlay(stored, loc[t].overlay[1], loc[t].overlay[2])
           G == Append(loc[t].got, S)
           E == <<{}, {}>>
           r == [loc[t] EXCEPT !.got = G, !.overlay = E]
<1>0. TypeInv /\ Read(t) /\ pc[t] = "cache" /\ Reading(t)
  BY DEF Sound, Read, ReadCache, Reading
<1>1. /\ pc'[t] = IF Done(t, G) THEN "got" ELSE "read"
      /\ loc' = [loc EXCEPT ![t] = r]
  BY <1>0 DEF ReadCache, Goto, TypeInv, TypeOK
<1>2. /\ i \in DOMAIN loc[t].keys /\ k \in Keys /\ k = loc[t].keys[i]
      /\ DOMAIN loc[t].got = 1 .. Len(loc[t].got) /\ Len(loc[t].got) \in Nat
      /\ loc[t].got \in Seq(SUBSET Ids)
  BY <1>0, ReadTypes DEF NextKey
<1>3. Reading(t)' => seen[t].calm
  BY <1>0, CalmStep
<1>4. pc'[t] = "got" => seen'[t] = seen[t]
  BY DEF Observed, Observe, Reading
<1>5. seen[t].calm
  BY <1>1, <1>3, <1>4 DEF Reading
<1>6. ~Unsettled /\ ReadAt(t)
  BY <1>0, <1>5 DEF SeenInv, ReadInv, ReadAt
<1>7. Between(t, k, S)
  <2>1. Between(t, k, Overlay(disk[k], loc[t].overlay[1], loc[t].overlay[2]))
    BY <1>0, <1>6 DEF ReadAt, CacheSeen
  <2>2. stored = disk[k]
    BY <1>2, <1>6 DEF Sound, IndexInv, CatalogInv, DiskKnown
  <2> HIDE DEF stored
  <2> QED
    BY <2>1, <2>2
<1>8. S \in SUBSET Ids
  <2>1. loc[t].overlay \in (SUBSET Ids) \X (SUBSET Ids)
    BY <1>0, SameLocals DEF Locals
  <2>2. stored \in SUBSET Ids
    BY <1>0, <1>2, DiskTyped DEF TypeInv, TypeOK
  <2> HIDE DEF stored, k
  <2> QED
    BY <2>1, <2>2 DEF Overlay
<1> HIDE DEF S
<1>9. /\ G \in Seq(SUBSET Ids) /\ Len(G) = i /\ DOMAIN G = 1 .. i
      /\ \A j \in DOMAIN loc[t].got : G[j] = loc[t].got[j]
      /\ G[i] = S
  BY <1>2, <1>8, AppendProperties, LenProperties
<1>10. G # <<>>
  BY <1>2, <1>9, EmptySeq
<1> HIDE DEF G, E
<1>11. r.got = G /\ r.keys = loc[t].keys /\ r.op = loc[t].op
  BY <1>0, SameLocals DEF Locals
<1> HIDE DEF r
<1>12. loc'[t] = r
  BY <1>0, <1>1 DEF TypeInv, TypeOK
<1>13. ASSUME NEW j \in DOMAIN G
       PROVE  j \in DOMAIN loc[t].keys /\ Between(t, loc[t].keys[j], G[j])
  <2>1. j = i \/ j \in DOMAIN loc[t].got
    BY <1>2, <1>9, <1>13
  <2>2. CASE j = i
    BY <1>2, <1>7, <1>9, <2>2
  <2>3. CASE j \in DOMAIN loc[t].got
    BY <1>0, <1>6, <1>9, <2>3 DEF ReadAt, GotSeen
  <2> QED
    BY <2>1, <2>2, <2>3
<1>14. ASSUME NEW j \in DOMAIN G
       PROVE  /\ seen'[t].must[loc[t].keys[j]] \subseteq G[j]
              /\ G[j] \subseteq seen'[t].may[loc[t].keys[j]]
  <2>1. CASE pc'[t] = "got"
    BY <1>4, <1>13, <1>14, <2>1 DEF Between
  <2>2. CASE pc'[t] # "got"
    <3>1. Reading(t)'
      BY <1>1, <2>2 DEF Reading
    <3> QED
      BY <1>0, <1>13, <1>14, <3>1, GotKept
  <2> QED
    BY <2>1, <2>2
<1>15. GotSeen(t)'
  BY <1>11, <1>12, <1>13, <1>14 DEF GotSeen, Between
<1>16. Finished(t)'
  <2>1. CASE Done(t, G)
    BY <1>10, <1>11, <1>12, <2>1 DEF Finished, Done
  <2>2. CASE ~Done(t, G)
    BY <1>1, <2>2 DEF Finished
  <2> QED
    BY <2>1, <2>2
<1> QED
  BY <1>1, <1>15, <1>16 DEF ReadAt, CountSeen, CountFound, CacheSeen, Counting

LEMMA ReadStep ==
  Sound /\ Sound' /\ SeenInv /\ ReadInv /\ [HNext]_hvars => ReadInv'
<1> SUFFICES ASSUME Sound, Sound', SeenInv, ReadInv, [HNext]_hvars,
                    NEW u \in Threads, seen'[u].calm
             PROVE  ReadAt(u)'
  BY DEF ReadInv, ReadAt
<1>0. TypeInv
  BY DEF Sound
<1>1. ASSUME Observed, NEW t \in Threads, Update(t) \/ Internal(t) \/ Read(t) PROVE ReadAt(u)'
  <2>1. CASE u # t
    <3>1. UNCHANGED <<pc[u], loc[u]>>
      BY <1>0, <1>1, <2>1, Others
    <3> QED
      BY <1>1, <3>1, ReadBeside
  <2>2. CASE u = t /\ Read(t)
    <3>1. CASE ReadReturns(t)
      BY <1>0, <2>2, <3>1, ReadLabels
         DEF From, ReadAt, CountSeen, CountFound, CacheSeen, GotSeen, Finished, Counting
    <3> QED
      BY <1>1, <2>2, <3>1, ReadStarts, ReadCounts, ReadCounted, ReadBuffers, ReadCaches DEF Read
  <2>3. CASE u = t /\ (Update(t) \/ Internal(t))
    <3>1. pc'[t] \notin Counting \cup {"read", "cache", "got"}
      BY <1>0, <2>3, UpdateLabels, InternalLabels DEF Update, Internal, From, Counting
    <3> QED
      BY <2>3, <3>1 DEF ReadAt, CountSeen, CountFound, CacheSeen, GotSeen, Finished, Counting
  <2> QED
    BY <1>1, <2>1, <2>2, <2>3
<1>2. CASE Reopen
  BY <1>2 DEF Reopen, ReadAt, CountSeen, CountFound, CacheSeen, GotSeen, Finished, Counting
<1>3. CASE UNCHANGED hvars
  <2>1. UNCHANGED <<parts, listed, nextId, pc, loc, seen, disk>>
    BY <1>3 DEF hvars, vars, catalog
  <2>2. ReadAt(u)
    BY <2>1 DEF ReadInv, ReadAt
  <2> QED
    BY <2>1, <2>2 DEF ReadAt, CountSeen, CountFound, CacheSeen, GotSeen, Finished, Between,
       NextKey, Listed, Done
<1> QED
  BY <1>1, <1>2, <1>3, ObservedSteps

LEMMA ReadsHold == HSpec /\ []OneMaintainer => []ReadInv
<1>1. HInit => ReadInv
  BY DEF HInit, Init, ReadInv, CountSeen, CountFound, CacheSeen, GotSeen, Finished, Counting
<1> QED
  BY <1>1, SoundHolds, SeenHolds, ReadStep, PTL DEF HSpec

-----------------------------------------------------------------------------
(* The answers.                                                            *)

(* f is below g where both have bitmaps, and g has one for each of f's.    *)
LEMMA JoinGrows ==
  ASSUME NEW B, NEW C, DOMAIN B \subseteq DOMAIN C, \A i \in DOMAIN B : B[i] \subseteq C[i]
  PROVE  Join(B) \subseteq Join(C)
<1> SUFFICES ASSUME NEW x \in Join(B) PROVE x \in Join(C)
  OBVIOUS
<1>1. PICK i \in DOMAIN B : x \in B[i]
  BY DEF Join, Range
<1>2. i \in DOMAIN C /\ x \in C[i]
  BY <1>1
<1> QED
  BY <1>2 DEF Join, Range

LEMMA MeetGrows ==
  ASSUME NEW B, NEW C, DOMAIN C \subseteq DOMAIN B, \A i \in DOMAIN C : B[i] \subseteq C[i]
  PROVE  Meet(B) \subseteq Meet(C)
BY DEF Meet

(* The tail of a sequence without the first of its bitmaps.                *)
LEMMA JoinTail ==
  ASSUME NEW B \in Seq(SUBSET Ids), B # <<>>
  PROVE  \A x : x \in Join(Tail(B)) <=> \E i \in DOMAIN B : i # 1 /\ x \in B[i]
<1>1. /\ Len(B) \in Nat \ {0} /\ DOMAIN B = 1 .. Len(B)
      /\ Tail(B) \in Seq(SUBSET Ids) /\ Len(Tail(B)) = Len(B) - 1
      /\ \A i \in 1 .. Len(Tail(B)) : Tail(B)[i] = B[i + 1]
  BY LenProperties, EmptySeq, HeadTailProperties
<1>2. DOMAIN Tail(B) = 1 .. Len(B) - 1
  BY <1>1, LenProperties
<1>3. ASSUME NEW x, x \in Join(Tail(B)) PROVE \E i \in DOMAIN B : i # 1 /\ x \in B[i]
  <2>1. PICK i \in DOMAIN Tail(B) : x \in Tail(B)[i]
    BY <1>3 DEF Join, Range
  <2>2. i + 1 \in DOMAIN B /\ i + 1 # 1 /\ Tail(B)[i] = B[i + 1]
    BY <1>1, <1>2
  <2> QED
    BY <2>1, <2>2
<1>4. ASSUME NEW x, NEW i \in DOMAIN B, i # 1, x \in B[i] PROVE x \in Join(Tail(B))
  <2>1. i - 1 \in 1 .. Len(Tail(B)) /\ i - 1 \in DOMAIN Tail(B) /\ (i - 1) + 1 = i
    BY <1>1, <1>2, <1>4
  <2>2. Tail(B)[i - 1] = B[i]
    BY <1>1, <2>1
  <2>3. x \in Tail(B)[i - 1]
    BY <1>4, <2>2
  <2> QED
    BY <2>1, <2>3 DEF Join, Range
<1> QED
  BY <1>3, <1>4

(* A calm read that has finished, and the bounds of its bitmaps.           *)
LEMMA BoundsOfRead ==
  ASSUME TypeInv, SeenInv, ReadInv, NEW t \in Threads, Answered(t)
  PROVE  LET must == KeysOf(t, seen[t].must)
             may == KeysOf(t, seen[t].may)
             got == loc[t].got IN
         /\ must \in Seq(SUBSET Ids) /\ may \in Seq(SUBSET Ids) /\ got \in Seq(SUBSET Ids)
         /\ must # <<>> /\ may # <<>> /\ got # <<>>
         /\ DOMAIN must = DOMAIN loc[t].keys /\ DOMAIN may = DOMAIN loc[t].keys
         /\ DOMAIN got \subseteq DOMAIN loc[t].keys /\ 1 \in DOMAIN got
         /\ \A i \in DOMAIN got : must[i] \subseteq got[i] /\ got[i] \subseteq may[i]
         /\ \A i \in DOMAIN loc[t].keys : /\ must[i] = seen[t].must[loc[t].keys[i]]
                                          /\ may[i] = seen[t].may[loc[t].keys[i]]
         /\ loc[t].op = "cardinality" \/ Done(t, got)
<1> DEFINE must == KeysOf(t, seen[t].must)
           may == KeysOf(t, seen[t].may)
           got == loc[t].got
           K == Range(loc[t].keys)
<1>1. GotSeen(t) /\ Finished(t) /\ pc[t] = "got"
  BY DEF Answered, ReadInv
<1>2. /\ got \in Seq(SUBSET Ids) /\ DOMAIN got = 1 .. Len(got) /\ Len(got) \in Nat
      /\ Len(loc[t].keys) \in Nat /\ DOMAIN loc[t].keys = 1 .. Len(loc[t].keys)
  BY ReadTypes
<1>3. got # <<>> /\ (loc[t].op = "cardinality" \/ Done(t, got))
  BY <1>1 DEF Finished
<1>4. 1 \in DOMAIN got
  BY <1>2, <1>3, EmptySeq
<1>5. \A i \in DOMAIN got : i \in DOMAIN loc[t].keys /\ Between(t, loc[t].keys[i], got[i])
  BY <1>1 DEF GotSeen
<1>6. seen[t].must \in [K -> SUBSET Ids] /\ seen[t].may \in [K -> SUBSET Ids]
  BY <1>1 DEF SeenInv
<1>7. must \in [1 .. Len(loc[t].keys) -> SUBSET Ids] /\ may \in [1 .. Len(loc[t].keys) -> SUBSET Ids]
  BY <1>2, <1>6 DEF KeysOf, Range
<1>8. /\ \A i \in DOMAIN loc[t].keys : /\ must[i] = seen[t].must[loc[t].keys[i]]
                                       /\ may[i] = seen[t].may[loc[t].keys[i]]
      /\ DOMAIN must = DOMAIN loc[t].keys /\ DOMAIN may = DOMAIN loc[t].keys
  BY DEF KeysOf
<1> HIDE DEF must, may, got
<1>9. must \in Seq(SUBSET Ids) /\ may \in Seq(SUBSET Ids)
  BY <1>2, <1>7, SeqDef
<1>10. must # <<>> /\ may # <<>>
  BY <1>4, <1>5, <1>8, <1>9, EmptySeq
<1>11. \A i \in DOMAIN got : must[i] \subseteq got[i] /\ got[i] \subseteq may[i]
  BY <1>5, <1>8 DEF Between
<1> QED
  BY <1>2, <1>3, <1>4, <1>5, <1>8, <1>9, <1>10, <1>11 DEF must, may, got

LEMMA QueryBounds ==
  ASSUME TypeInv, SeenInv, ReadInv, NEW t \in Threads, Answered(t), loc[t].op # "cardinality"
  PROVE  /\ AtLeast(t) \subseteq Result(loc[t].op, loc[t].got)
         /\ Result(loc[t].op, loc[t].got) \subseteq AtMost(t)
         /\ loc[t].op = "get_range" =>
              \A i \in DOMAIN loc[t].keys :
                /\ seen[t].must[loc[t].keys[i]] \subseteq loc[t].got[i]
                /\ loc[t].got[i] \subseteq seen[t].may[loc[t].keys[i]]
<1> DEFINE must == KeysOf(t, seen[t].must)
           may == KeysOf(t, seen[t].may)
           got == loc[t].got
<1>1. /\ must \in Seq(SUBSET Ids) /\ may \in Seq(SUBSET Ids) /\ got \in Seq(SUBSET Ids)
      /\ must # <<>> /\ may # <<>> /\ got # <<>>
      /\ DOMAIN must = DOMAIN loc[t].keys /\ DOMAIN may = DOMAIN loc[t].keys
      /\ DOMAIN got \subseteq DOMAIN loc[t].keys /\ 1 \in DOMAIN got
      /\ \A i \in DOMAIN got : must[i] \subseteq got[i] /\ got[i] \subseteq may[i]
      /\ \A i \in DOMAIN loc[t].keys : /\ must[i] = seen[t].must[loc[t].keys[i]]
                                       /\ may[i] = seen[t].may[loc[t].keys[i]]
      /\ Done(t, got)
  BY BoundsOfRead
<1>2. Head(must) = must[1] /\ Head(may) = may[1] /\ Head(got) = got[1]
  BY <1>1, HeadTailProperties
<1>3. loc[t].op \in {"get_range", "and", "diff"}
  BY DEF TypeInv, CallsKnow, KnowsAt, Answered, Reads
<1>4. Len(got) = Len(loc[t].keys) => DOMAIN got = DOMAIN loc[t].keys
  BY ReadTypes
<1>5. DOMAIN got # DOMAIN loc[t].keys =>
        loc[t].op \in {"and", "diff"} /\ Result(loc[t].op, got) = {}
  BY <1>1, <1>4 DEF Done
<1>6. /\ AtLeast(t) = IF loc[t].op = "diff" THEN Head(must) \ Join(Tail(may)) ELSE Result(loc[t].op, must)
      /\ AtMost(t) = IF loc[t].op = "diff" THEN Head(may) \ Join(Tail(must)) ELSE Result(loc[t].op, may)
  BY DEF AtLeast, AtMost
<1> HIDE DEF must, may, got
<1>7. CASE loc[t].op = "get_range"
  <2>1. DOMAIN got = DOMAIN loc[t].keys
    BY <1>5, <1>7
  <2>2. /\ AtLeast(t) = Join(must) /\ AtMost(t) = Join(may)
        /\ Result(loc[t].op, got) = Join(got)
    BY <1>6, <1>7 DEF Result
  <2>3. Join(must) \subseteq Join(got) /\ Join(got) \subseteq Join(may)
    BY <1>1, <2>1, JoinGrows
  <2> QED
    BY <1>1, <2>1, <2>2, <2>3 DEF got
<1>8. CASE loc[t].op = "and"
  <2>1. /\ AtLeast(t) = Meet(must) /\ AtMost(t) = Meet(may)
        /\ Result(loc[t].op, got) = Meet(got)
    BY <1>6, <1>8 DEF Result
  <2>2. Meet(must) \subseteq Meet(got)
    BY <1>1, MeetGrows
  <2>3. DOMAIN got = DOMAIN loc[t].keys => Meet(got) \subseteq Meet(may)
    BY <1>1, MeetGrows
  <2> QED
    BY <1>5, <1>8, <2>1, <2>2, <2>3 DEF got
<1>9. CASE loc[t].op = "diff"
  <2>1. /\ AtLeast(t) = must[1] \ Join(Tail(may)) /\ AtMost(t) = may[1] \ Join(Tail(must))
        /\ Result(loc[t].op, got) = got[1] \ Join(Tail(got))
    BY <1>2, <1>6, <1>9 DEF Result
  <2>2. Join(Tail(got)) \subseteq Join(Tail(may))
    BY <1>1, JoinTail
  <2>3. DOMAIN got = DOMAIN loc[t].keys => Join(Tail(must)) \subseteq Join(Tail(got))
    BY <1>1, JoinTail
  <2> QED
    BY <1>1, <1>5, <1>9, <2>1, <2>2, <2>3 DEF got
<1> QED
  BY <1>3, <1>7, <1>8, <1>9

LEMMA CountBounds ==
  ASSUME TypeInv, SeenInv, ReadInv, NEW t \in Threads, Answered(t)
  PROVE  LET k == Head(loc[t].keys) IN
         /\ Cardinality(seen[t].must[k]) <= Cardinality(Head(loc[t].got))
         /\ Cardinality(Head(loc[t].got)) <= Cardinality(seen[t].may[k])
<1> DEFINE k == Head(loc[t].keys)
           got == loc[t].got
           must == KeysOf(t, seen[t].must)
           may == KeysOf(t, seen[t].may)
<1>1. /\ must \in Seq(SUBSET Ids) /\ may \in Seq(SUBSET Ids) /\ got \in Seq(SUBSET Ids)
      /\ must # <<>> /\ may # <<>> /\ got # <<>>
      /\ DOMAIN must = DOMAIN loc[t].keys /\ DOMAIN may = DOMAIN loc[t].keys
      /\ DOMAIN got \subseteq DOMAIN loc[t].keys /\ 1 \in DOMAIN got
      /\ \A i \in DOMAIN got : must[i] \subseteq got[i] /\ got[i] \subseteq may[i]
      /\ \A i \in DOMAIN loc[t].keys : /\ must[i] = seen[t].must[loc[t].keys[i]]
                                       /\ may[i] = seen[t].may[loc[t].keys[i]]
  BY BoundsOfRead
<1>2. loc[t].keys # <<>> /\ loc[t].keys \in Seq(Keys)
  BY <1>1, ReadTypes
<1>3. k = loc[t].keys[1] /\ Head(got) = got[1]
  BY <1>1, <1>2, HeadTailProperties
<1>4. must[1] = seen[t].must[k] /\ may[1] = seen[t].may[k]
  BY <1>1, <1>3
<1>5. got[1] \in SUBSET Ids /\ may[1] \in SUBSET Ids
  BY <1>1, ElementOfSeq
<1> HIDE DEF must, may, got, k
<1>6. IsFiniteSet(got[1]) /\ IsFiniteSet(may[1])
  BY <1>5, FS_Subset, PeriodsAssumption
<1>7. /\ Cardinality(must[1]) <= Cardinality(got[1])
      /\ Cardinality(got[1]) <= Cardinality(may[1])
  BY <1>1, <1>6, FS_Subset
<1> QED
  BY <1>3, <1>4, <1>7 DEF got, k

(* A query that no flush, replacement or deletion overlaps answers within  *)
(* its bounds, although it gets its bitmaps one after the other.           *)
THEOREM QueriesCorrect == HSpec /\ []OneMaintainer => []CalmQueriesCorrect
<1>1. TypeInv /\ SeenInv /\ ReadInv => CalmQueriesCorrect
  BY QueryBounds DEF CalmQueriesCorrect
<1> QED
  BY <1>1, TypesHold, SeenHolds, ReadsHold, PTL

(* The shortcuts of cardinality count what the period held meanwhile.      *)
THEOREM CountsCorrect == HSpec /\ []OneMaintainer => []CalmCountsCorrect
<1>1. TypeInv /\ SeenInv /\ ReadInv => CalmCountsCorrect
  BY CountBounds DEF CalmCountsCorrect
<1> QED
  BY <1>1, TypesHold, SeenHolds, ReadsHold, PTL

-----------------------------------------------------------------------------
(* Where one thread alone may maintain, one does.                          *)

Maintenance == {"flush", "compact", "replace", "retain"}

RolesApart ==
  \A t, u \in Threads :
    MayRun[t] \cap Maintenance # {} /\ MayRun[u] \cap Maintenance # {} => t = u

RolesKept == \A t \in Threads : Busy(t) => MayRun[t] \cap Maintenance # {}

LEMMA RolesStep ==
  TypeInv /\ RolesKept /\ [HNext]_hvars => RolesKept'
<1> SUFFICES ASSUME TypeInv, RolesKept, [HNext]_hvars, NEW u \in Threads, Busy(u)'
             PROVE  MayRun[u] \cap Maintenance # {}
  BY DEF RolesKept
<1>1. ASSUME NEW t \in Threads, Update(t) \/ Internal(t) \/ Read(t)
      PROVE  MayRun[u] \cap Maintenance # {}
  <2>1. CASE u # t
    BY <1>1, <2>1, Others DEF RolesKept, Busy
  <2>2. CASE u = t /\ Busy(t)
    BY <2>2 DEF RolesKept
  <2>3. CASE u = t /\ ~Busy(t)
    <3>1. \/ TakeSnapshot(t) \/ RetainPeriods(t)
          \/ \E k \in Keys : CompactPeriod(t, k)
          \/ \E e \in Replacements : BulkReplace(t, e)
      BY <1>1, <2>3, UpdateLabels, InternalLabels, ReadLabels
         DEF Update, Internal, Read, From, Busy
    <3>2. \E op \in Maintenance : op \in MayRun[t]
      BY <3>1 DEF TakeSnapshot, RetainPeriods, CompactPeriod, BulkReplace, Starts, Maintenance
    <3> QED
      BY <2>3, <3>2
  <2> QED
    BY <2>1, <2>2, <2>3
<1>2. CASE Reopen
  BY <1>2 DEF Reopen, Busy
<1>3. CASE UNCHANGED hvars
  BY <1>3 DEF hvars, vars, RolesKept, Busy
<1> QED
  BY <1>1, <1>2, <1>3, HistoryNext DEF Next

(* If the calls that flush, compact, replace or retain are those of one    *)
(* thread, whatever the others read and write, no two maintain at once: the*)
(* other theorems hold of it without an assumption on the behaviour.       *)
THEOREM OneRoleSuffices == ASSUME RolesApart PROVE HSpec => []OneMaintainer
<1>1. HInit => TypeInv /\ RolesKept
  BY TypeInit DEF HInit, Init, RolesKept, Busy
<1>2. RolesKept => OneMaintainer
  BY DEF RolesKept, OneMaintainer, RolesApart
<1>3. RolesKept' => OneMaintainer'
  BY DEF RolesKept, OneMaintainer, RolesApart
<1>4. TypeInv /\ RolesKept /\ [HNext]_hvars => TypeInv' /\ RolesKept'
  <2>1. [HNext]_hvars => [Next]_vars
    BY HistoryNext DEF hvars
  <2> QED
    BY <1>2, <1>3, <2>1, RolesStep, TypeStep
<1> QED
  BY <1>1, <1>2, <1>4, PTL DEF HSpec

=============================================================================
