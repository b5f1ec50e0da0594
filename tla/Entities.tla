------------------------------ MODULE Entities ------------------------------
(***************************************************************************)
(* External ids in InoxSet: the dictionary that maps names to 32-bit ids   *)
(* (dict.rs), the calls that take names (put_ids, remove_ids, get_ids,     *)
(* delete_entity, find_memberships, contains_id in lib.rs) and the frozen  *)
(* inverted index (inverted.rs).                                           *)
(* Bitmaps are seen through four stages: buffer, drained by a flush,       *)
(* committed, and cached by the ReadIndex; Engine details how they get     *)
(* from one to the next.  One action is one LMDB transaction, one region   *)
(* under the buffer's lock, or one load or store of an index.              *)
(***************************************************************************)
EXTENDS Integers, FiniteSets

CONSTANTS
  Threads,  \* callers that share the handle
  Names,    \* external ids
  NoName,   \* no entry in the reverse table
  Keys,     \* (event, period) pairs
  Events,
  EventOf,  \* EventOf[k]: the event of k
  LastId,   \* the greatest internal id, u32::MAX in the code
  Modes,    \* IndexFreshness a store may be opened with: "disabled", "frozen"
  MayRun    \* MayRun[t]: the operations thread t calls

Ids  == 0 .. LastId
NoId == -1   \* no entry in the forward table

Ops == {"put", "remove", "erase", "find", "contains", "get", "flush"}

ASSUME EntitiesAssumption ==
  /\ IsFiniteSet(Names) /\ NoName \notin Names
  /\ EventOf \in [Keys -> Events]
  /\ LastId \in Nat
  /\ Modes # {} /\ Modes \subseteq {"disabled", "frozen"}
  /\ MayRun \in [Threads -> SUBSET Ops]

VARIABLES
  mode,     \* IndexFreshness of the open handle
  fwd,      \* catalog: dict_fwd
  rev,      \* catalog: dict_rev
  nextId,   \* catalog: dict_next_id
  events,   \* catalog: registered events
  stored,   \* catalog and part files: bits committed for each key
  mem,      \* MemPart.bitmaps
  memDel,   \* MemPart.deltas
  cache,    \* ReadIndex.bitmap_cache
  known,    \* ReadIndex.event_names
  frozen,   \* InvertedIndex: names under each key
  pc,       \* where each thread is
  loc       \* each thread's local variables

dict   == <<fwd, rev, nextId>>
buffer == <<mem, memDel>>
index  == <<cache, known, frozen>>
vars   == <<mode, dict, events, stored, buffer, index, pc, loc>>

Bitmaps == [Keys -> SUBSET Ids]
NoBits  == [k \in Keys |-> {}]

Locals ==
  [op     : Ops,
   names  : SUBSET Names,           \* names of the call, or of its answer
   keys   : SUBSET Keys,            \* the key of the call
   found  : SUBSET Keys,            \* memberships found, or still to be erased
   ids    : SUBSET Ids,             \* what the names resolved to, or a bitmap
   dels   : SUBSET Ids,             \* get: the buffer's delta
   yes    : BOOLEAN,                \* contains_id: found in the index; its answer
   bits   : Bitmaps,                \* flush: drained bitmaps; a ReadIndex in hand
   minus  : Bitmaps,                \* flush: drained deltas
   events : SUBSET Events,          \* event_names of the ReadIndex in hand
   built  : [Keys -> SUBSET Names]] \* the new inverted index

Blank ==
  [op |-> "find", names |-> {}, keys |-> {}, found |-> {}, ids |-> {}, dels |-> {},
   yes |-> FALSE, bits |-> NoBits, minus |-> NoBits, events |-> {}, built |-> [k \in Keys |-> {}]]

Labels ==
  {"idle", "assign", "ensure", "put_lock", "remove_lock",
   "find", "find_id", "find_overlay", "find_buffer", "find_check", "find_tombstones",
   "erase_next", "contains_id", "contains_buffer", "bit_buffer", "bit_cache",
   "bit_tombstone", "get_bits", "get_names",
   "commit", "build", "store", "resolve", "store_inverted", "answered"}

TypeOK ==
  /\ mode \in Modes
  /\ fwd \in [Names -> Ids \cup {NoId}]
  /\ rev \in [Ids -> Names \cup {NoName}]
  /\ nextId \in 0 .. LastId + 1
  /\ events \subseteq Events
  /\ stored \in Bitmaps /\ mem \in Bitmaps /\ memDel \in Bitmaps /\ cache \in Bitmaps
  /\ known \subseteq Events
  /\ frozen \in [Keys -> SUBSET Names]
  /\ pc \in [Threads -> Labels]
  /\ loc \in [Threads -> Locals]

-----------------------------------------------------------------------------

Goto(t, l) == pc' = [pc EXCEPT ![t] = l]
Starts(t, op) == pc[t] = "idle" /\ op \in MayRun[t]
Return(t) == Goto(t, "idle") /\ loc' = [loc EXCEPT ![t] = Blank]

Call(t, op, K, N) ==
  loc' = [loc EXCEPT ![t] = [Blank EXCEPT !.op = op, !.keys = K, !.names = N]]

(* dict::lookup of each name.                                              *)
Resolved(N) == {fwd[x] : x \in N} \ {NoId}

(* Keys at which a set of bitmaps holds one of the ids.                    *)
Holding(B, I) == {k \in Keys : I \cap B[k] # {}}

-----------------------------------------------------------------------------
(* put_ids and remove_ids.                                                 *)

(* batch_assign_or_get, phase 1: one read transaction resolves the names   *)
(* that have an id; the others stay in names.                              *)
PutIds(t, k, N) ==
  LET unknown == {x \in N : fwd[x] = NoId} IN
  /\ Starts(t, "put")
  /\ loc' = [loc EXCEPT ![t] = [Blank EXCEPT !.op = "put", !.keys = {k},
                                             !.names = unknown, !.ids = Resolved(N)]]
  /\ Goto(t, IF unknown = {} THEN "ensure" ELSE "assign")
  /\ UNCHANGED <<mode, dict, events, stored, buffer, index>>

Injective(f) == \A x, y \in DOMAIN f : f[x] = f[y] => x = y

(* A slip: one id too many.                                                *)
FitsOffByOne(n) == nextId + n <= LastId + 2

(* Whether n more ids can be given.                                        *)
Fits(n) == nextId + n <= LastId + 1

(* Give the names of F the next ids, in some order.                        *)
Assign(t, F) ==
  LET n == nextId + Cardinality(F) IN
  /\ Fits(Cardinality(F))
  /\ \E f \in [F -> nextId .. n - 1] :
       /\ Injective(f)
       /\ fwd' = [x \in Names |-> IF x \in F THEN f[x] ELSE fwd[x]]
       /\ rev' = [i \in Ids |-> IF \E x \in F : f[x] = i
                                THEN CHOOSE x \in F : f[x] = i ELSE rev[i]]
  /\ nextId' = n
  /\ loc' = [loc EXCEPT ![t].ids = @ \cup {fwd'[x] : x \in loc[t].names}]
  /\ Goto(t, "ensure")
  /\ UNCHANGED <<mode, events, stored, buffer, index>>

(* A slip: phase 2 trusts what phase 1 has read.                           *)
AssignIdsUnchecked(t) == pc[t] = "assign" /\ Assign(t, loc[t].names)

(* Phase 2, one write transaction: names that another writer has meanwhile *)
(* assigned keep their ids.                                                *)
AssignIds(t) == pc[t] = "assign" /\ Assign(t, {x \in loc[t].names : fwd[x] = NoId})

(* The ids are used up: the transaction is dropped and the call fails.     *)
AssignFails(t) ==
  /\ pc[t] = "assign"
  /\ ~Fits(Cardinality({x \in loc[t].names : fwd[x] = NoId}))
  /\ Return(t)
  /\ UNCHANGED <<mode, dict, events, stored, buffer, index>>

(* ensure_event of put_bitmap and remove_bits.                             *)
EnsureEvent(t) ==
  /\ pc[t] = "ensure"
  /\ events' = events \cup {EventOf[k] : k \in loc[t].keys}
  /\ Goto(t, IF loc[t].op = "put" THEN "put_lock" ELSE "remove_lock")
  /\ UNCHANGED <<mode, dict, stored, buffer, index, loc>>

PutLock(t) ==
  LET K == loc[t].keys IN
  /\ pc[t] = "put_lock"
  /\ mem' = [k \in Keys |-> IF k \in K THEN mem[k] \cup loc[t].ids ELSE mem[k]]
  /\ memDel' = [k \in Keys |-> IF k \in K THEN memDel[k] \ loc[t].ids ELSE memDel[k]]
  /\ Return(t)
  /\ UNCHANGED <<mode, dict, events, stored, index>>

(* A name that has no id is ignored.                                       *)
RemoveIds(t, k, x) ==
  /\ Starts(t, "remove")
  /\ Resolved({x}) # {}
  /\ loc' = [loc EXCEPT ![t] = [Blank EXCEPT !.op = "remove", !.keys = {k},
                                             !.ids = Resolved({x})]]
  /\ Goto(t, "ensure")
  /\ UNCHANGED <<mode, dict, events, stored, buffer, index>>

RemoveLock(t) ==
  /\ pc[t] = "remove_lock"
  /\ memDel' = [k \in Keys |-> IF k \in loc[t].keys THEN memDel[k] \cup loc[t].ids
                               ELSE memDel[k]]
  /\ IF loc[t].op = "erase" THEN Goto(t, "erase_next") /\ UNCHANGED loc ELSE Return(t)
  /\ UNCHANGED <<mode, dict, events, stored, mem, index>>

-----------------------------------------------------------------------------
(* find_memberships, on its own and as the first part of delete_entity.    *)

FindMemberships(t, x) ==
  /\ \E op \in {"find", "erase"} : Starts(t, op) /\ Call(t, op, {}, {x})
  /\ Goto(t, "find")
  /\ UNCHANGED <<mode, dict, events, stored, buffer, index>>

Found(t, K) ==
  /\ loc' = [loc EXCEPT ![t].found = K]
  /\ Goto(t, IF loc[t].op = "find" THEN "answered" ELSE "erase_next")
  /\ UNCHANGED <<mode, dict, events, stored, buffer, index>>

IndexedKeys(N) == {k \in Keys : N \cap frozen[k] # {}}

(* The Bloom filter and the hash set of the frozen index: a name that is   *)
(* nowhere in the index has no memberships, whatever the buffer holds.     *)
FilteredOut(t) ==
  /\ pc[t] = "find" /\ mode = "frozen"
  /\ IndexedKeys(loc[t].names) = {}
  /\ Found(t, {})

FindInIndex(t) ==
  /\ pc[t] = "find" /\ mode = "frozen"
  /\ IndexedKeys(loc[t].names) # {}
  /\ loc' = [loc EXCEPT ![t].found = IndexedKeys(loc[t].names)]
  /\ Goto(t, "find_buffer")
  /\ UNCHANGED <<mode, dict, events, stored, buffer, index>>

(* Keys whose buffer holds one of the ids and does not remove it.          *)
Buffered(I) == {k \in Keys : I \cap (mem[k] \ memDel[k]) # {}}

(* The first region under the read lock adds what is not flushed.          *)
FindBuffer(t) ==
  /\ pc[t] = "find_buffer"
  /\ loc' = [loc EXCEPT ![t].found = @ \cup Buffered(Resolved(loc[t].names))]
  /\ Goto(t, "find_check")
  /\ UNCHANGED <<mode, dict, events, stored, buffer, index>>

(* A second lookup: an entity without an id is nowhere.                    *)
FindGone(t) ==
  /\ pc[t] = "find_check"
  /\ Resolved(loc[t].names) = {}
  /\ Found(t, {})

FindCheck(t) ==
  /\ pc[t] = "find_check"
  /\ Resolved(loc[t].names) # {}
  /\ loc' = [loc EXCEPT ![t].ids = Resolved(loc[t].names)]
  /\ Goto(t, "find_tombstones")
  /\ UNCHANGED <<mode, dict, events, stored, buffer, index>>

(* The second region leaves out what the buffer removes.                   *)
FindTombstones(t) ==
  /\ pc[t] = "find_tombstones"
  /\ Found(t, loc[t].found \ Holding(memDel, loc[t].ids))

(* Without an inverted index the ReadIndex is scanned, event by event.     *)
FindLoad(t) ==
  /\ pc[t] = "find" /\ mode = "disabled"
  /\ loc' = [loc EXCEPT ![t].bits = cache, ![t].events = known]
  /\ Goto(t, "find_id")
  /\ UNCHANGED <<mode, dict, events, stored, buffer, index>>

InEvents(t) == {k \in Keys : EventOf[k] \in loc[t].events}

FindNothing(t) ==
  /\ pc[t] = "find_id"
  /\ loc[t].events = {} \/ Resolved(loc[t].names) = {}
  /\ Found(t, {})

FindId(t) ==
  /\ pc[t] = "find_id"
  /\ loc[t].events # {}
  /\ Resolved(loc[t].names) # {}
  /\ loc' = [loc EXCEPT ![t].ids = Resolved(loc[t].names),
                        ![t].found = InEvents(t)
                          \cap Holding(loc[t].bits, Resolved(loc[t].names))]
  /\ Goto(t, "find_overlay")
  /\ UNCHANGED <<mode, dict, events, stored, buffer, index>>

FindOverlay(t) ==
  /\ pc[t] = "find_overlay"
  /\ Found(t, (loc[t].found \cup (InEvents(t) \cap Buffered(loc[t].ids)))
                \ Holding(memDel, loc[t].ids))

-----------------------------------------------------------------------------
(* delete_entity: remove_ids at each membership, then the dictionary.      *)

EraseNext(t) ==
  /\ pc[t] = "erase_next"
  /\ \E k \in loc[t].found :
       IF Resolved(loc[t].names) = {}
       THEN loc' = [loc EXCEPT ![t].found = @ \ {k}] /\ UNCHANGED pc
       ELSE /\ loc' = [loc EXCEPT ![t].found = @ \ {k}, ![t].keys = {k},
                                  ![t].ids = Resolved(loc[t].names)]
            /\ Goto(t, "ensure")
  /\ UNCHANGED <<mode, dict, events, stored, buffer, index>>

Forget(t) ==
  LET I == Resolved(loc[t].names) IN
  /\ fwd' = [x \in Names |-> IF x \in loc[t].names THEN NoId ELSE fwd[x]]
  /\ rev' = [i \in Ids |-> IF i \in I THEN NoName ELSE rev[i]]
  /\ loc' = [loc EXCEPT ![t].ids = I]
  /\ Goto(t, "answered")
  /\ UNCHANGED <<mode, events, stored, buffer, index>>

(* A slip: the dictionary entry goes before the bits do.                   *)
EraseDictFirst(t) == pc[t] = "erase_next" /\ Forget(t) /\ UNCHANGED nextId

(* A slip: an id that was the last to be given is given again.             *)
EraseDictReuses(t) ==
  /\ pc[t] = "erase_next"
  /\ loc[t].found = {}
  /\ nextId' = IF nextId - 1 \in Resolved(loc[t].names) THEN nextId - 1 ELSE nextId
  /\ Forget(t)

(* dict::delete; the counter is not decremented.                           *)
EraseDict(t) ==
  /\ pc[t] = "erase_next"
  /\ loc[t].found = {}
  /\ Forget(t)
  /\ UNCHANGED nextId

-----------------------------------------------------------------------------
(* contains_id.                                                            *)

ContainsIndexed(t, k, x) ==
  /\ Starts(t, "contains") /\ mode = "frozen"
  /\ loc' = [loc EXCEPT ![t] = [Blank EXCEPT !.op = "contains", !.keys = {k},
                                             !.names = {x}, !.yes = x \in frozen[k]]]
  /\ Goto(t, IF IndexedKeys({x}) = {} THEN "answered" ELSE "contains_id")
  /\ UNCHANGED <<mode, dict, events, stored, buffer, index>>

Answer(t, b) ==
  /\ loc' = [loc EXCEPT ![t].yes = b]
  /\ Goto(t, "answered")
  /\ UNCHANGED <<mode, dict, events, stored, buffer, index>>

ContainsGone(t) ==
  /\ pc[t] = "contains_id"
  /\ Resolved(loc[t].names) = {}
  /\ Answer(t, FALSE)

ContainsLookup(t) ==
  /\ pc[t] = "contains_id"
  /\ Resolved(loc[t].names) # {}
  /\ loc' = [loc EXCEPT ![t].ids = Resolved(loc[t].names)]
  /\ Goto(t, "contains_buffer")
  /\ UNCHANGED <<mode, dict, events, stored, buffer, index>>

(* Found in the index: unless removed since.  Not found: if put since.     *)
ContainsBuffer(t) ==
  /\ pc[t] = "contains_buffer"
  /\ Answer(t, IF loc[t].yes THEN loc[t].keys \cap Holding(memDel, loc[t].ids) = {}
               ELSE loc[t].keys \cap Buffered(loc[t].ids) # {})

(* contains_bit: the buffer, the ReadIndex, the buffer's delta again.      *)
ContainsBit(t, k, x) ==
  /\ Starts(t, "contains") /\ mode = "disabled"
  /\ loc' = [loc EXCEPT ![t] = [Blank EXCEPT !.op = "contains", !.keys = {k},
                                             !.names = {x}, !.ids = Resolved({x})]]
  /\ Goto(t, IF Resolved({x}) = {} THEN "answered" ELSE "bit_buffer")
  /\ UNCHANGED <<mode, dict, events, stored, buffer, index>>

BitBuffered(t) ==
  /\ pc[t] = "bit_buffer"
  /\ loc[t].keys \cap Buffered(loc[t].ids) # {}
  /\ Answer(t, TRUE)

BitBuffer(t) ==
  /\ pc[t] = "bit_buffer"
  /\ loc[t].keys \cap Buffered(loc[t].ids) = {}
  /\ Goto(t, "bit_cache")
  /\ UNCHANGED <<mode, dict, events, stored, buffer, index, loc>>

(* A slip: what is found in the index is not checked against the buffer.   *)
BitCacheOnly(t) ==
  /\ pc[t] = "bit_cache"
  /\ Answer(t, loc[t].keys \cap Holding(cache, loc[t].ids) # {})

BitCache(t) ==
  /\ pc[t] = "bit_cache"
  /\ IF loc[t].keys \cap Holding(cache, loc[t].ids) = {} THEN Answer(t, FALSE)
     ELSE /\ Goto(t, "bit_tombstone")
          /\ UNCHANGED <<mode, dict, events, stored, buffer, index, loc>>

BitTombstone(t) ==
  /\ pc[t] = "bit_tombstone"
  /\ Answer(t, loc[t].keys \cap Holding(memDel, loc[t].ids) = {})

-----------------------------------------------------------------------------
(* get_ids: get, then one read transaction for the names.                  *)

GetIds(t, k) ==
  /\ Starts(t, "get")
  /\ loc' = [loc EXCEPT ![t] = [Blank EXCEPT !.op = "get", !.keys = {k},
                                             !.ids = mem[k], !.dels = memDel[k]]]
  /\ Goto(t, "get_bits")
  /\ UNCHANGED <<mode, dict, events, stored, buffer, index>>

(* From the ReadIndex or, for a key it has no entry for, from the parts.   *)
GetBits(t) ==
  /\ pc[t] = "get_bits"
  /\ \E k \in loc[t].keys : \E b \in {cache[k], stored[k]} :
       loc' = [loc EXCEPT ![t].ids = (b \cup @) \ loc[t].dels]
  /\ Goto(t, "get_names")
  /\ UNCHANGED <<mode, dict, events, stored, buffer, index>>

(* Ids that do not resolve are left out.                                   *)
GetNames(t) ==
  /\ pc[t] = "get_names"
  /\ loc' = [loc EXCEPT ![t].names = {rev[i] : i \in loc[t].ids} \ {NoName}]
  /\ Goto(t, "answered")
  /\ UNCHANGED <<mode, dict, events, stored, buffer, index>>

-----------------------------------------------------------------------------
(* flush, and the rebuild of both indexes.                                 *)

BufferEmpty == mem = NoBits /\ memDel = NoBits

Flush(t) ==
  /\ Starts(t, "flush")
  /\ ~BufferEmpty
  /\ loc' = [loc EXCEPT ![t] = [Blank EXCEPT !.op = "flush", !.bits = mem, !.minus = memDel]]
  /\ mem' = NoBits
  /\ memDel' = NoBits
  /\ Goto(t, "commit")
  /\ UNCHANGED <<mode, dict, events, stored, index>>

Commit(t) ==
  /\ pc[t] = "commit"
  /\ stored' = [k \in Keys |-> (stored[k] \cup loc[t].bits[k]) \ loc[t].minus[k]]
  /\ Goto(t, "build")
  /\ UNCHANGED <<mode, dict, events, buffer, index, loc>>

BuildIndex(t) ==
  /\ pc[t] = "build"
  /\ loc' = [loc EXCEPT ![t].bits = stored, ![t].minus = NoBits, ![t].events = events]
  /\ Goto(t, "store")
  /\ UNCHANGED <<mode, dict, events, stored, buffer, index>>

StoreIndex(t) ==
  /\ pc[t] = "store"
  /\ cache' = loc[t].bits
  /\ known' = loc[t].events
  /\ IF mode = "frozen" THEN Goto(t, "resolve") /\ UNCHANGED loc ELSE Return(t)
  /\ UNCHANGED <<mode, dict, events, stored, buffer, frozen>>

NamesAt(B) == [k \in Keys |-> {rev[i] : i \in B[k]} \ {NoName}]

(* build_frozen_inverted_index: the current ReadIndex, and one read        *)
(* transaction for the names.                                              *)
ResolveAll(t) ==
  /\ pc[t] = "resolve"
  /\ loc' = [loc EXCEPT ![t].built = NamesAt(cache)]
  /\ Goto(t, "store_inverted")
  /\ UNCHANGED <<mode, dict, events, stored, buffer, index>>

StoreInverted(t) ==
  /\ pc[t] = "store_inverted"
  /\ frozen' = loc[t].built
  /\ Return(t)
  /\ UNCHANGED <<mode, dict, events, stored, buffer, cache, known>>

-----------------------------------------------------------------------------

Done(t) ==
  /\ pc[t] = "answered"
  /\ Return(t)
  /\ UNCHANGED <<mode, dict, events, stored, buffer, index>>

(* A crash loses the buffer and every running call; open rebuilds both     *)
(* indexes, with the freshness it is given.                                *)
CrashAndOpen ==
  /\ \E t \in Threads : pc[t] # "idle" \/ ~BufferEmpty
  /\ mode' \in Modes
  /\ mem' = NoBits
  /\ memDel' = NoBits
  /\ cache' = stored
  /\ known' = events
  /\ frozen' = IF mode' = "frozen" THEN NamesAt(stored) ELSE [k \in Keys |-> {}]
  /\ pc' = [t \in Threads |-> "idle"]
  /\ loc' = [t \in Threads |-> Blank]
  /\ UNCHANGED <<dict, events, stored>>

Init ==
  /\ mode \in Modes
  /\ fwd = [x \in Names |-> NoId]
  /\ rev = [i \in Ids |-> NoName]
  /\ nextId = 0
  /\ events = {} /\ known = {}
  /\ stored = NoBits /\ mem = NoBits /\ memDel = NoBits /\ cache = NoBits
  /\ frozen = [k \in Keys |-> {}]
  /\ pc = [t \in Threads |-> "idle"]
  /\ loc = [t \in Threads |-> Blank]

StartPut(t) == \E k \in Keys, N \in (SUBSET Names) \ {{}} : PutIds(t, k, N)

(* The steps of a thread other than the start of put_ids.                  *)
Step(t) ==
  \/ AssignIds(t) \/ AssignFails(t) \/ EnsureEvent(t) \/ PutLock(t) \/ RemoveLock(t)
  \/ \E k \in Keys, x \in Names :
       RemoveIds(t, k, x) \/ ContainsIndexed(t, k, x) \/ ContainsBit(t, k, x)
  \/ \E x \in Names : FindMemberships(t, x)
  \/ FilteredOut(t) \/ FindInIndex(t) \/ FindBuffer(t) \/ FindGone(t) \/ FindCheck(t)
  \/ FindTombstones(t) \/ FindLoad(t) \/ FindNothing(t) \/ FindId(t) \/ FindOverlay(t)
  \/ EraseNext(t) \/ EraseDict(t)
  \/ ContainsGone(t) \/ ContainsLookup(t) \/ ContainsBuffer(t)
  \/ BitBuffered(t) \/ BitBuffer(t) \/ BitCache(t) \/ BitTombstone(t)
  \/ \E k \in Keys : GetIds(t, k)
  \/ GetBits(t) \/ GetNames(t)
  \/ Flush(t) \/ Commit(t) \/ BuildIndex(t) \/ StoreIndex(t)
  \/ ResolveAll(t) \/ StoreInverted(t)
  \/ Done(t)

Next == (\E t \in Threads : StartPut(t) \/ Step(t)) \/ CrashAndOpen

Spec == Init /\ [][Next]_vars

-----------------------------------------------------------------------------
(* Properties.                                                             *)

(* The two tables of the dictionary are inverse to each other, and every   *)
(* id at or above the counter is free, whatever writers race               *)
(* (batch_assign_or_get's double check, dict::delete).                     *)
DictBijective ==
  /\ \A x \in Names : fwd[x] # NoId => rev[fwd[x]] = x
  /\ \A i \in Ids : rev[i] # NoName => fwd[rev[i]] = i /\ i < nextId

(* "Freed IDs are not reused" (dict::delete): an id that was given once    *)
(* never gets another name, so bits that outlive their entity resolve to   *)
(* nothing.                                                                *)
FreedIdsStayFree ==
  [][nextId' >= nextId
     /\ \A i \in Ids : i < nextId => rev'[i] \in {rev[i], NoName}]_vars
=============================================================================
