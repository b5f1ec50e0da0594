--------------------------- MODULE PeriodsHistory ---------------------------
(***************************************************************************)
(* Periods with history variables, and the write-back store it implements. *)
(***************************************************************************)
EXTENDS Periods

VARIABLES
  truth,    \* truth[k]: the calls so far applied to k in order
  seen,     \* seen[t]: what the read of t could see, see Observe
  doubled,  \* ids bulk_replace gave to an entry with a later one for its period
  disk      \* disk[k]: Disk(k), to evaluate it once in a state

hvars == <<vars, truth, seen, doubled, disk>>

(* Data is on its way: drained or cleared, and not yet in the index.       *)
Unsettled ==
  \E t \in Threads :
    \/ pc[t] \in {"flush_txn", "collect", "replace_txn", "delete_txn"}
    \/ pc[t] = "index" /\ loc[t].op # "compact"

Reading(t) == pc[t] \in {"count_state", "count_parts", "count_deltas", "count_part", "read", "cache"}

Nothing == [must |-> Empty, may |-> Empty, calm |-> TRUE]

(* A read must return the bits that were there all through, and may return *)
(* those that were there at some time; calm is FALSE once data was on its  *)
(* way meanwhile.                                                          *)
Observe(new) ==
  /\ truth' = new
  /\ seen' = [t \in Threads |->
       IF Reading(t)'
       THEN LET old == IF Reading(t) THEN seen[t]
                       ELSE [must |-> truth, may |-> truth, calm |-> TRUE]
                K == Range(loc'[t].keys)
            IN [must |-> [k \in K |-> old.must[k] \cap new[k]],
                may |-> [k \in K |-> old.may[k] \cup new[k]],
                calm |-> old.calm /\ ~Unsettled /\ ~Unsettled']
       ELSE IF pc'[t] = "got" THEN seen[t] ELSE Nothing]

LastBits(e, k) ==
  LET i == CHOOSE i \in DOMAIN e : /\ e[i].key = k
                                   /\ \A j \in DOMAIN e : e[j].key = k => j <= i
  IN e[i].bits

Replaced(f, e) == [k \in Keys |-> IF k \in EntryKeys(e) THEN LastBits(e, k) ELSE f[k]]

Overwritten(t) ==
  LET e == loc[t].entries IN
  {nextId + i - 1 : i \in {j \in DOMAIN e : \E h \in DOMAIN e : h > j /\ e[h].key = e[j].key}}

HInit ==
  /\ Init
  /\ truth = Empty
  /\ seen = [t \in Threads |-> Nothing]
  /\ doubled = {}
  /\ disk = Empty

HUpdate(t) ==
  \/ RangeLock(t) /\ Observe(AddBits(truth, Cover(Range(loc[t].keys)), loc[t].bits))
  \/ \E g \in Ranges, b \in Bitmaps :
       RemoveRange(t, g, b) /\ Observe(ClearBits(truth, Cover(Range(g.keys)), b))
  \/ \E e \in Replacements : BulkReplace(t, e) /\ Observe(Replaced(truth, e))
  \/ \E k \in Keys : DeleteLock(t, k) /\ Observe(ClearKeys(truth, {k}))

HNext ==
  /\ \/ \E t \in Threads :
          \/ HUpdate(t) /\ UNCHANGED doubled
          \/ (Internal(t) \/ Read(t)) /\ Observe(truth)
             /\ doubled' = IF pc[t] = "replace_txn" THEN doubled \cup Overwritten(t) ELSE doubled
     \/ Reopen /\ Observe(disk) /\ UNCHANGED doubled
  /\ disk' = IF UNCHANGED listed THEN disk ELSE [k \in Keys |-> Disk(k)']

HSpec == HInit /\ [][HNext]_hvars

-----------------------------------------------------------------------------
(* The write-back store.                                                   *)

InFlight(t) == pc[t] \in {"flush_txn", "collect", "replace_txn", "delete_txn"}

Target ==
  IF \E t \in Threads : InFlight(t)
  THEN LET t == CHOOSE u \in Threads : InFlight(u) IN
       CASE pc[t] = "flush_txn"  ->
              [k \in Keys |-> Overlay(disk[k], loc[t].data[k], loc[t].deltas[k])]
         [] pc[t] = "delete_txn" -> ClearKeys(disk, {Head(loc[t].keys)})
         [] OTHER -> Replaced(disk, loc[t].entries)
  ELSE disk

Content == LET T == Target IN [k \in Keys |-> Overlay(T[k], mem[k], memDel[k])]

Store == INSTANCE WriteBackStore WITH
  PutBatches    <- {Range(g.keys) : g \in {h \in Ranges : h.op = "put"}},
  RemoveBatches <- {Range(g.keys) : g \in {h \in Ranges : h.op = "remove"}},
  Overwrites    <- {[k \in EntryKeys(e) |-> LastBits(e, k)] : e \in Replacements}
                     \cup {[j \in {k} |-> {}] : k \in Keys},
  content <- Content,
  target  <- Target,
  durable <- disk

(* A range write takes effect, and becomes durable, in all its periods and *)
(* their ancestors at once, and so does a bulk_replace: a put, a remove and*)
(* a replacement change the content of all the periods of a call that was  *)
(* made, not of some of them, and only a deletion changes one period alone.*)
(* A flush or a commit takes all of it, and a crash leaves the content of  *)
(* one past moment (put_bitmap_range, remove_bits_range, bulk_replace,     *)
(* retain_periods, flush and compaction).  With one thread that flushes,   *)
(* replaces or deletes.                                                    *)
RangesImplementStore ==
  Store!Init /\ [][Store!Step \/ (Reopen /\ Store!Crash)]_(Store!vars)

-----------------------------------------------------------------------------
(* Properties.                                                             *)

KeysOf(t, f) == [i \in DOMAIN loc[t].keys |-> f[loc[t].keys[i]]]

(* The least and the most that a query may answer.                         *)
AtLeast(t) ==
  LET B == KeysOf(t, seen[t].must) IN
  IF loc[t].op = "diff"
  THEN Head(B) \ Join(Tail(KeysOf(t, seen[t].may))) ELSE Result(loc[t].op, B)
AtMost(t) ==
  LET B == KeysOf(t, seen[t].may) IN
  IF loc[t].op = "diff"
  THEN Head(B) \ Join(Tail(KeysOf(t, seen[t].must))) ELSE Result(loc[t].op, B)

Answered(t) == pc[t] = "got" /\ seen[t].calm

(* A query no flush, replacement or deletion overlaps holds every id that  *)
(* satisfied it all through and none that could not, although it gets its  *)
(* bitmaps one after the other and stops early (query, get_range and the   *)
(* calls that intersect or unite).                                         *)
CalmQueriesCorrect ==
  \A t \in Threads : Answered(t) /\ loc[t].op # "cardinality" =>
    /\ AtLeast(t) \subseteq Result(loc[t].op, loc[t].got)
    /\ Result(loc[t].op, loc[t].got) \subseteq AtMost(t)
    /\ loc[t].op = "get_range" =>
         \A i \in DOMAIN loc[t].keys :
           /\ seen[t].must[loc[t].keys[i]] \subseteq loc[t].got[i]
           /\ loc[t].got[i] \subseteq seen[t].may[loc[t].keys[i]]

(* cardinality counts what the period held meanwhile, although it looks    *)
(* into the buffer and four tables of the catalog one after the other.     *)
CalmCountsCorrect ==
  \A t \in Threads : Answered(t) /\ loc[t].op = "cardinality" =>
    LET k == Head(loc[t].keys) IN
    /\ Cardinality(seen[t].must[k]) <= Cardinality(Head(loc[t].got))
    /\ Cardinality(Head(loc[t].got)) <= Cardinality(seen[t].may[k])

(* The lists name registered parts only, and no part is registered that no *)
(* list names, but for the earlier of two entries of a bulk_replace for    *)
(* one period: its part stays registered for ever.                         *)
ListsMatchParts ==
  listed \subseteq parts /\ \A p \in parts \ listed : p.id \in doubled

(* When retain_periods returns, the catalog holds no part of a period that *)
(* its predicate rejects, rollup ancestors included ("keying by the event's*)
(* finest granularity would ... leave rollup data behind", delete_period). *)
RetentionComplete ==
  [][\A t \in Threads : DeletedAll(t) /\ loc[t].op = "retain" => PeriodKeys \subseteq Kept]_vars
=============================================================================
