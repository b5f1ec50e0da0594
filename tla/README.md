# InoxSet in TLA+

InoxSet is an embedded store of roaring bitmaps: for every *event* and every
*period* (hour, day, month, year, or static) it keeps a set of 32-bit ids.
Writes go to an in-memory buffer, a flush turns the buffer into immutable part
files registered in an LMDB catalog, compaction merges part files, and reads
combine a cache of the merged parts with the buffer.  One handle is shared by
many threads.  This directory models that engine and checks and proves what a
caller relies on.

## Inventory of the system

| Part | State it keeps | Operations | Talks to |
|---|---|---|---|
| Buffer (`mempart.rs`) | `bitmaps`, `deltas`, size counter | OR bits, OR a delta, clear bits of a delta, drain | under the handle's `RwLock` (`lib.rs`) |
| Rollup (`rollup.rs`) | none | ancestors of a period, write-through to them | buffer |
| Catalog (`catalog.rs`) | events, parts, `period_parts`, `period_deltas`, `period_state`, `next_part_id`, dictionary tables | transactions: append or set the part lists, register parts, delete a period or an event | LMDB: one writer, snapshot readers |
| Part files (`part_store.rs`) | files named by id, kind and period | write (temporary file, fsync, rename), read, delete, scan for orphans | catalog by id |
| Merge (`merge.rs`) | none | fold of data and delta parts in id order, eligibility | compaction |
| Read index (`read_index.rs`) | merged bitmap per event and period | build from the catalog, swapped atomically | every read |
| Engine (`lib.rs`) | the handle: buffer, catalog, read index, flags | put, remove, flush, compact, replace, delete, get, over one period or a range; queries and counts | all of the above |
| Event registry (`lib.rs`, `catalog.rs`) | each event's granularity and rollup | register, register at first use up to a limit, drop, list | puts and flushes resolve their events in it |
| Lifecycle (`lib.rs`) | the `closed` and `read_only` flags | close, Drop | the last flush |
| Builder (`builder.rs`) | none | open: create, delete orphans, build the index | all of the above |
| Calendar (`period.rs`, `lib.rs`) | none | validity, parents, close boundary, keys, enumeration of ranges | writes, reads, compaction |
| Entities (`dict.rs`, `inverted.rs`, `bloom.rs`, `lib.rs`) | external id <-> internal id, frozen inverted index | assign, look up, delete, find memberships, delete an entity | catalog, buffer, read index |
| Standalone dictionary (`dictionary.rs`) | two maps in its own LMDB environment | get or assign, resolve, delete | nothing |
| Queries (`lib.rs`, `types.rs`) | none | And, Or, Diff, intersections and unions over gets | reads |
| Metrics, errors, exports | none | callbacks, formatting, serialisation | nothing that is modelled |

What is hard here:

* the path of a bit from the buffer to the index is several critical sections
  (drain under the `RwLock`, LMDB transaction, index swap) with gaps between
  them in which other flushes, compactions and reads run;
* order is carried by part ids (a delta erases only older parts), but ids are
  allocated long after the drain;
* compaction, replacement and the index build read the catalog in several
  separate transactions and act on what they read later;
* files are written before and unlinked after the commit that accounts for
  them, so a crash or a failed write leaves files that must be told from live
  ones;
* a call over several periods writes under one lock but reads, deletes and
  collects period by period;
* an event is looked up by a put, again by the flush of its entries, and may be
  registered or dropped in between; `close` sets its flag beside running calls;
* the read index, the frozen index and the cardinality shortcut are caches
  whose staleness is bounded only by when somebody rebuilds them.

For each part, what makes it correct: the catalog never names a missing file
and no file is owned twice (catalog, part files); reads return what the calls
amount to (buffer, index, merge); a rebuild yields one catalog state (read
index); compaction changes no content (merge); every call returns (engine);
consecutive periods tile time and keys can be read back (calendar); ids are
unique and erasure leaves nothing behind (entities); a range write is atomic,
a query returns what its periods held (ranges and queries); a put that was
acknowledged survives an orderly end, entries keep their event's granularity and
the event limit holds (registry, lifecycle).

## Plan

Written, in this order (each module is listed with what it stands on):

1. `PartFold` (what a set of parts amounts to), `Engine` (all calls on one
   event), `EngineHistory` (what callers may expect), `WriteBackStore` and
   `EngineRefinement` (the abstract store and the mapping), `MergeLoop` (the
   merge as an algorithm, against `PartFold`);
2. `Calendar` (periods and their enumeration);
3. `Entities`, `EntitiesHistory` (names, ids, inverted index), over a coarse
   view of what `Engine` details;
4. `Periods`, `PeriodsHistory`: the calls that span periods (range writes and
   reads, queries, counts, `bulk_replace`, `retain_periods`), over transactions
   that `Engine` details, against the same `WriteBackStore`;
5. `Handle`, `HandleHistory`: the life of a handle and of its events;
6. `ContainerSearch`: membership decided on the bytes of a part file;
7. proofs: `PartFoldProofs`, `AlgorithmProofs` (`MergeLoop`, `ContainerSearch`),
   `EngineProofs`, `CalendarProofs`, `EntitiesProofs`, `HandleProofs`,
   `PeriodsProofs`, `MaintainerProofs` (`Engine` and its refinement with one
   maintainer).

Next, in order of importance:

1. `PartFiles`: temporary file, fsync, rename and directory scan under power
   failures, against the atomic `WritePart` of `Engine`;
2. the statistics of `health`, read beside writers.

## The modules and the code

### Engine

`Engine` is one event with any periods and any threads.  Its state is that of
`InoxSet`: the buffer (`mem`, `memDel` for `MemPart.bitmaps` and `.deltas`), the
`ReadIndex` (`ridx`), the catalog (`hasEvent`, `parts`, `pparts`, `pdeltas`,
`pstate`, `nextId`), the holder of LMDB's write lock (`wtxn`), the parts
directory (`disk`), and a program counter and local variables per thread.

One action is one critical section: a region under the `RwLock`, one read
transaction, the begin and the commit of a write transaction with each file
written in between, one load or store of the index, one unlink.  A flush is
`TakeSnapshot`, `EnsureEvent`, `BeginTxn`, one `WritePart` per file, `Commit`, the
`Rebuild...` actions, `StoreIndex`, `CallDone`; compaction, replacement and
deletion go through the same transaction and rebuild with their own
collection of old parts before and their unlinks after it.  `TxnFails` stands
for every error of a write, with the files already written left on the disk;
`Crash` loses the buffer, the calls and the open transaction; `DeleteOrphan`
and `Open` are the recovery of `builder.rs`.

What is coarser than the code:

* a bitmap is a set of ids; only `replace_bitmap` is given an empty one;
* `compact` and `compact_event` are any sequence of `CompactPeriod` calls: they
  hold nothing from one period to the next (the record `compact` adds to its log
  at the end is not modelled);
* reading whether the event exists is fused with the start of a call (but not in
  `delete_period`, where `DeleteKnown` or `DeleteUnknown` is a step between the
  region under the lock and the transaction), and listing the events and their
  keys is one step of the rebuild;
* a compaction starts for any period with an entry in a list, as `compact_event`
  does and as `compact` may once it has listed the events: the event need not be
  registered any more;
* the auto-flush threshold may be met at any put;
* the map of parts to write is taken in arbitrary order, as a Rust `HashMap` is;
* a part file appears whole (temporary file and rename are below the model);
* clocks are not modelled: whether a period is closed is the constant
  `ClosedKeys`;
* there is no event limit (see `Handle`) and no inverted index (see `Entities`).

`EngineHistory` adds the content the calls amount to (`truth`) and what a
running get may answer (`seen`).  `WriteBackStore` says what the engine
promises: puts and removes act at once, a flush fixes a target that a commit
makes durable whole, a crash falls back to the last durable content.  Which
periods one call writes together are its constants: `PutBatches` and
`RemoveBatches` are the sets of periods of one put or remove, `Overwrites` the
bitmaps by period that one replacement or deletion stores.  A refining module
gives each kind of call the sets its calls have and no parts of them, so a call
split in two is no step of the store; and it may lose content only where that
module crashes.  `EngineRefinement` maps `Engine` to it.  The refinement says that
content changes in such steps only, and what is durable when; which bits the
content must hold after them is `QuietContent`.

`PartFold` says what parts amount to: a bit is there if some data part holds it
and no later delta does.  `Engine` uses it for every merge (compaction, slow
path, rebuild); `MergeLoop` is the two-way merge of `merge_parts` step by step,
shown to compute it.

### Calendar

`Calendar` models `validate`, `parent`, `close_boundary` and the loop of
`enumerate_periods` behind range calls: one step of `Walk` is one iteration.  It
counts hours where the code counts seconds, and `Normalized` carries one unit at
most since a boundary is a component plus one.  The count stops at one above
the limit.  Years are 16 bits wide.

### Entities

`Entities` models names: the dictionary's tables, `batch_assign_or_get` with its
read phase and its write phase, `dict::delete`, the calls by name, the frozen
inverted index with its rebuild, and both freshness modes.  Bitmaps go through
four stages (buffer, drained, committed, cached).  Hash collisions and Bloom
false positives are left out; rollup is off; one thread at a time flushes,
since `Engine` has the races of flushes; the slow path of get is over-approximated
by either the cached or the committed bits; `LastId` stands for `u32::MAX`;
`remove_ids`, `delete_entity`, `find_memberships` and `contains_id` take one name;
a crash and the next open are one action.

### Periods

`Periods` is one event with several periods and their rollup ancestors.
`put_bitmap_range` is `PutRange` (the read transaction that looks for compacted
periods), `RevertCompacted` (one write transaction for all of them) and
`RangeLock`, its region under the write lock for all the periods (a lock taken
period by period breaks `RangesImplementStore`); `remove_bits_range` looks at
nothing first and is one step.  Single-period puts are ranges of one period.  `bulk_replace`
clears the buffer, collects the old parts, commits and rebuilds; `retain_periods`
lists the periods and runs `delete_period` for each of those left in turn.  A query reads the
buffer and then the cache or the parts of each of its periods, one after the
other, and stops where And and Diff do; `cardinality` has a step for the buffer
and for each table of the catalog it looks into.

What is coarser than the code: flush commits and the compaction of a period are
one step each (`Engine` details them); part files are the bitmaps of their parts;
the parts one flush writes share an id per kind, since only ids of one period are
ever compared; auto-flush is a flush that the same thread calls next; a query has
operands of one event, and one kind of operator; Or and the unions read as
`get_range` does; a read of the slow path is one step.  `PeriodsHistory` adds the
content the calls amount to, and what running reads may answer.

### Handle

`Handle` is the handle with its flags, the event table with each event's finest
granularity, and entries, which go from the buffer through a flush's snapshot to
the disk.  `ensure_event` is `EventFound`, or `EventMissing`, `CountEvents` (the limit)
and `AutoRegister`, for the event of a put and again for each event a flush has
drained; `register_event` checks and writes in two transactions, `drop_event` clears
the buffer and then deletes.  `Close` sets the flag and goes on with a flush;
`DropHandle` waits until no call runs, as Rust's ownership does, and flushes an
open handle; `Crash` and `OpenHandle` end and begin handles, read-only ones too.
Periods, rollup and deltas are left out, and a flush is one transaction.
`HandleHistory` adds what returned puts promised, and the events that overlapping
registrations and drops have touched.

### ContainerSearch

`ContainerSearch` is `serialized_contains`: a binary search over the keys of the
containers, the container's place from the offset header, and a binary search in
an array or a test of a bit.  A file is what its fields say plus their addresses;
`len` of its bytes are there, and a read beyond them panics.  Files are those the
roaring crate writes (`WellFormed`): it never writes run containers, and their
branch is left out.

## What the runs show

| Run | Shows | Instance |
|---|---|---|
| `sequential` | `QuietContent`: between calls, get answers what the calls amount to, through removes, flushes, compaction, rollup, replacement and crashes. `IndexCurrent`: the index is what a rebuild would give (rebuilds that overlap do not keep this, and one thread has none). `NoStrayFile`: no file but the registered ones | one thread, every call, a period and its ancestor |
| `writer_maintainer` | `ImplementsStore`: the engine implements `WriteBackStore`. `CompactPreserves`: the commit of a compaction changes no content. `NoLeakedPart`: every registered part is listed (a flush inside `replace_bitmap` would leave one unlisted, which one maintainer excludes) | a writer beside one maintainer |
| `maintenance` | `DurableIntegrity`: the catalog never names a missing file. `PartOwnership`: the inductive invariant behind it. `CallsReturn`: every call returns. | two threads that write, flush, compact, delete and drop, with failing writes |
| `reader` | `CalmReadsCorrect`: a get that no flush overlaps answers between the oldest and newest content it could see | a reader beside a writer and a flusher that compacts |
| `algorithms` | `WalkTilesTime`, `RangeIsWhole`, `AncestorsCloseLast`, `CallEnds` of `Calendar`; `LoopComputesFold` of `MergeLoop`; `SearchIsMembership`, `SearchEnds` of `ContainerSearch` | ranges across the epoch, leap days, month and year ends, the last year, the limit; every choice of up to four parts; files of up to three containers, cut short anywhere; one algorithm in a behaviour |
| `entities` | `DictBijective`, `FreedIdsStayFree`, `AnswersExact`, `NoStrangers`, `BitsOwned`, `FlushedAreErased` | teams: a thread that puts and erases beside one that puts, flushes and asks; one thread on two keys; one thread that makes every call; two names, one id too few for a third assignment, both modes, crashes |
| `periods` | `RangesImplementStore`: range writes, `bulk_replace`, retention, flush and compaction implement `WriteBackStore`, each call with all its periods in one step. `CalmQueriesCorrect`, `CalmCountsCorrect`: queries and counts that no flush overlaps answer what their periods held. `ListsMatchParts`: lists and registered parts agree. `RetentionComplete`: a rejected period keeps no part | two hours and their day; teams: a writer beside one thread that flushes, compacts, replaces and retains; a thread that writes, flushes and compacts beside a reader |
| `handle` | `PutsSurvive`: a put that returned before close is not lost by close, Drop or other calls. `LimitNearlyKept`: the event limit is exceeded by one event per other thread at most. `GranularitiesMatch`: entries keep the finest granularity of their event | two threads with every call on two events, or racing to register three; a limit of one |

Four runs show where the code does not do what a text of the repository says:

| Run | The text | The code |
|---|---|---|
| `flush_window` | `lib.rs:1633-1636`: reading the buffer and then the cache is safe beside a flush | a get between the drain and the store of the index misses the bits |
| `flush_order` | `merge.rs:16`: part ids encode write order | two flushes allocate ids in another order than they drained |
| `compact_overwrites` | `lib.rs:2509`: compaction merges data parts and applies deltas | the parts a flush adds after the collection are dropped from the lists |
| `erase_unflushed` | `lib.rs:896-898`: no trace of the entity remains | buffered bits of an entity the index does not know remain |

Disagreements met while reading, for which there is no run:

* `lib.rs:2519` says get beside compact is safe on Unix; the slow path of get
  opens files after its catalog read, and may find them unlinked (`ReadFiles`
  has that error);
* `lib.rs:251` says the index is built from one catalog snapshot; it is built
  from several read transactions;
* `catalog.rs:660-665` says `delete_event` removes all associated parts; it
  does not collect the ids in `period_deltas` (`catalog.rs:713`, `EventData`);
* `period.rs:74-76` says `validate` keeps out periods whose key cannot be parsed
  back; it lets years from 10000 pass, whose keys `parse_period_key` rejects;
* `lib.rs:1180` says readers never observe a partially applied range; `get_range`,
  `cardinality_range` and queries get one period after the other, and may see
  the later periods of a range write without the earlier ones.
  `CalmQueriesCorrect` therefore bounds each period of an answer by what it held
  meanwhile, and does not ask for one moment that fits all of them;
* `lib.rs:624-625` says `contains_id` answers flushed state from the bitmap cache
  and overlays unflushed puts and removes; in frozen mode it asks the frozen
  index first, and an entity that is only buffered is not in it: the answer is
  no until the next flush.  The index also goes by name: an entity flushed at
  one period, erased, and put at another under a new id is still found at the
  first until the next rebuild, for its name resolves again and no delta names
  its new id.  `AnswersExact` asks for an empty buffer in frozen mode, and sees
  neither;
* `lib.rs:308` says `register_event` fails for an event that exists; of two calls
  at once both succeed, and the second sets the configuration;
* `builder.rs:130` says registration fails once `max_events` is reached; threads
  that count together exceed it (`LimitNearlyKept` says by how much), and
  `register_event` does not look at it;
* `lib.rs:2878` says `close` flushes any buffered data; a put that has passed the
  check of the flag may buffer its entry after that flush, and it is lost; and a
  `close` that fails cannot be called again, for the flag is set;
* `lib.rs:465` deletes the periods that `list_periods` knows: entries only the
  buffer holds survive `retain_periods`;
* `lib.rs:1959` says `cardinality_range` reads cached lengths; it gets each bitmap;
* `bulk_replace` with one period twice registers a part that no list names
  (`ListsMatchParts` has the exception);
* a flush that fails after the drain has lost what it drained (`lib.rs:1464`);
* `CHANGELOG.md:34` says a crash cannot leave the catalog referencing a vanished
  file; a directory that `write_part` has just created is not itself synced into
  its parent;
* a file left by a failed write is an orphan only until its id is given again:
  then `scan_orphans` takes it for a registered part (`part_store.rs:538`), and
  temporary files are never looked at;
* `lib.rs:2137-2138` says a Static range enumerates nothing; two Static bounds
  enumerate Static.

### Bounds

* `Ids = {1}`: every operation on bitmaps acts on each bit by itself, so what can
  happen to one bit is what can happen at all.
* Keys: one period, with its rollup ancestor where one thread runs.  Different
  keys meet only in the catalog's id counter and the rollup.
* `PartIds` and `Reserve`: the ids a run may use; a call that would need more is
  not started (`Room`), so no call is cut off in the middle.  Eight ids allow
  several flushes, a compaction and a replacement in one behaviour; six allow two
  flushes and a compaction under the reader, whose third thread also counts
  against `Reserve`; five are enough for the run with failures, where aborted transactions give their ids
  back.
* Two threads (three with a reader): every hazard listed is between two calls.
* Entities: two names, one or two keys with an event each, and as few ids as
  make the dictionary run full.
* `periods`: two periods and a common ancestor are the least range with rollup;
  `LastPart = 4` allows a flush and a replacement, or two flushes and compactions;
  a call that would need more ids is not started (`Room`).  The entries of
  `bulk_replace` are one of two periods and one that names a period twice.
* `handle`: the two teams of the run are all calls on two events, and puts and
  flushes on three events that race at a limit of one: the excess takes as many
  events as the limit and the threads together.  Nothing is counted upwards, so
  there is no bound on the number of calls, crashes or reopenings.
* `algorithms`: `Highs`, `Lows` and `ArrayMax` are small where the code has 2^16,
  2^16 and 4096; three containers and arrays of three values give both searches
  an even and an odd middle.  `SearchCorrect` is proved for all values.

### Fairness

`FairSpec` of `Engine` asks weak fairness of each thread's running call: nothing
in the code blocks but locks, and a call that could go on is scheduled.  Steps
that take LMDB's write lock get strong fairness: its mutex lets a waiter in
sooner or later, though others may take it in between.  Nobody is asked to start a
call.  The loops of `algorithms` run on their caller's thread: weak fairness of
their next step.

## What is proved

All theorems hold for every value of the constants that the modules' named
assumptions allow (`EngineAssumption`, `EntitiesAssumption`, `HandleAssumption`,
`PeriodsAssumption`, `CalendarAssumption`, `SearchAssumption`, ...): any number of
threads, periods, names and ids.  Further hypotheses are named with the theorem.

* `AlgorithmProofs!MergeIsFold`: the merge loop computes the fold, for every
  finite set of parts with distinct ids.  The invariant is that the bitmap so
  far is the fold of the parts taken and that these precede the rest;
  `PartFoldProofs` has what appending a data or a delta part, and replacing
  parts by their compaction, does to a fold.
* `AlgorithmProofs!SearchCorrect`: the invariant says that the bounds of the
  running search lie in the container table or the array, that everything below
  them is smaller and everything above larger than the value looked for, and
  that the bytes about to be read are there.
* `EngineProofs!TypeCorrect`: the types of `Engine`.
* `EngineProofs!Ownership` and `Integrity`: `DurableIntegrity` is not inductive: a
  commit could register, and an unlink delete, any part a thread has in its
  locals.  `PartOwnership` adds that ids below the counter are spent
  (`SpentIds`), that the parts of an open transaction are on the disk, at or
  above the counter, and belong to the holder of the write lock (`OpenTxn`), that
  a call collects only parts of its own period (`CollectsOwnKey`), and that what
  is left to unlink is registered no longer (`UnlinksUnregistered`).  The proof
  has one step per action and uses `TypeCorrect`.
* `MaintainerProofs`: `Engine` with one maintainer, see below.
* `PeriodsProofs`: `Periods` with one maintainer, see below.
* `CalendarProofs!WalkIsGapless`: each period the walk visits begins when the one
  before it ends; `WalkStaysWithin`: the walk holds a valid period that is not
  past the last one.  `RangesAreWhole`: a finished enumeration has counted every
  period between its bounds, or has stopped above the limit; the invariant
  (`CountInv`) ties the count to the index of the current period on the calendar
  (`SpanIndex`).  `AncestorsStayOpen`: no ancestor of a period closes before the
  period does, because a period lies within each of its ancestors.
* `EntitiesProofs!Bijective`: the tables of the dictionary are inverse, which is
  inductive.  `NoIdReused` follows per step.  `EveryBitOwned`: each id on its way
  to or in a key's bits was given once, to a name put there (`BitsOwned`, with
  what calls carry); from it `NoStrangersEver`.  `AnswersAreExact` and
  `ErasureIsComplete` hold while at most one thread at a time flushes (`OneFlusher`;
  with two, the older inverted index may be stored last).  The invariant has
  three parts.  `EventsKnown`: the event of every bit is registered, and known to
  the index.  `InvertedExact`: an inverted index in place, or about to be, lists
  the names of the cached bits, unless something is in the buffer or on its way
  there.  `SoloKnows`: what a call that has the store to itself has found at each of
  its steps.  `OneRoleSuffices`: give `flush` to one thread.
* `HandleProofs!TypeCorrect`: the types of `Handle`, with what a call holds at
  each of its steps.  `LimitBound`: a thread that has passed the count and not yet
  registered did so while fewer than `Limit` events existed, so the events
  registered automatically and these threads together are at most
  `Limit + Cardinality(Threads) - 1`.  `NoPutLost`: once the handle is closed and
  the drain of `close` is over, no promise is only in the buffer; the thread that
  drops the handle is alone and leaves the buffer empty.  `GranularitiesKept`: for
  an event that no overlapping registrations and drops have touched, entries have
  the granularity of the table; the invariant (`GranularityInv`) adds the threads
  between their look at the table and the write that relies on it.

### One maintainer

`flush`, `compact`, `replace_bitmap`, `bulk_replace`, `delete_period`, `retain_periods`
and `drop_event` read the buffer or the catalog, release it, and commit later.
Two of them at a time lose parts, as the runs `flush_order` and
`compact_overwrites` show, so what the store promises about content can be
proved only of behaviours in which at most one thread at a time is inside such a
call.  The theorems of `MaintainerProofs` and `PeriodsProofs` that need this have
`[]OneMaintainer` as a hypothesis: puts, removes and reads of any number of
threads still interleave with the maintainer.  `OneRoleSuffices`, in both
modules, shows how a program meets the hypothesis: give the maintaining calls to
one thread only (the constant `MayRun`).

`MaintainerProofs` has one inductive invariant, `OneInv`: types, `PartOwnership`, what
a call at each step must be running (`CallsFit`), and what the maintainer knows:
it has collected all parts of its period (`CollectsAll`), what it is about to
write is still their fold (`Writes`), and its rebuild finds all there is to find
(`FindsAll`); and every key outside its reach is indexed as it is stored
(`IndexFresh`).  From it:

* `IndexIsCurrent`: between calls the read index is the one a rebuild would give.
* `CompactionKeepsContent`: a compaction's commit leaves the content as it was.
* `NoLeak`: every registered part is in its key's lists, unless `drop_event` may
  run: `delete_event` does not collect the delta parts.
* `NoStrayFileLeft`: between calls the disk has registered files only (`FilesKnown`),
  without I/O errors: a failed write leaves its files behind.
* `EngineImplementsStore`: `Engine` implements `WriteBackStore`, each step being a step
  of it or a stutter (`StoreStep`), without I/O errors: a flush that fails has
  lost its snapshot.  A put or remove changes a period and its ancestors in one
  step, a replacement or deletion its period, and nothing else changes content.
* `QuietContentHolds`: between calls, get answers what the calls so far amount to
  (`truth`), by a cache hit and by the slow path; without I/O errors.
* `CalmReadsHold`: a get that no flush overlaps answers between the least and the
  most that its period held meanwhile; without I/O errors, and for a maintainer
  that only flushes and compacts (`OnlyFlushes`), since replace and delete empty
  the buffer before their commit.

`PeriodsProofs` keeps four invariants apart, each resting on those before it:
`TypeInv` (types, room for the next id, what calls know; `TypeCorrect`),
`CatalogInv` (lists of parts match the parts, what has been collected is all there
was, what is on the disk is known; `ListsAgree`), `RetentionInv`
(`RetentionLeavesNothing`) and `ContentInv` (the history's content is that of buffer
and parts).  On the last rest `ImplementsStore`, the refinement of
`WriteBackStore` with a range write or `bulk_replace` as one step over all its
periods, and with `IndexInv`, `SeenInv` and `ReadInv`, which say what a running
query or count has seen while no data was on its way, `QueriesCorrect` and
`CountsCorrect`.

### What is only model-checked

Every safety and action property that a run checks is stated by a theorem, under
the hypotheses which that run's roles meet: `sequential` has one thread; in
`writer_maintainer`, `reader`, `periods` and `entities` one of the threads that run
together maintains or flushes; `maintenance`, with two maintainers and I/O errors,
checks what needs neither hypothesis.
Liveness under fairness (`CallsReturn`, `CallEnds`, `SearchEnds`) is out of the prover's
reach, as is what the recursive definitions compute for every input.

## What is not modelled

`PROJECT.json` lists every part with its status.  Left out: the part file store
below one atomic write (temporary files and syncing of directories under power
failures); the statistics of `health` (sums over the catalog); the codecs of the
catalog, whose text keys and bytes no property here tells apart; the wrappers for
UUIDs and the exports (functions of what get returns); the standalone dictionary
(the scheme of `dict.rs` again, not used by the engine); the Bloom filter's
hashing; metrics and error texts.
