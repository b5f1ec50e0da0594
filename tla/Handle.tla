------------------------------- MODULE Handle -------------------------------
(***************************************************************************)
(* The life of a store handle and of its events (builder.rs, lib.rs,       *)
(* catalog.rs): open, close, Drop and crash; registration by register_event*)
(* and by ensure_event with its limit, and drop_event, beside puts and     *)
(* flushes, which resolve the event of each entry they write.              *)
(*                                                                         *)
(* What a flush writes is Engine's subject: here one transaction makes its *)
(* entries durable.  A call the handle refuses at once (closed, read-only) *)
(* changes nothing and is left out.                                        *)
(***************************************************************************)
EXTENDS Naturals, FiniteSets

CONSTANTS
  Threads,       \* callers that share the handle
  Names,         \* event names
  Granularities,
  DefaultGran,   \* default_granularity, of the events ensure_event registers
  Ids,           \* what a put may write
  Puts,          \* entries that calls put
  Registrations, \* events that calls register, as entries
  Limit,         \* max_events; 0 is no limit
  None           \* no event of that name

Entry == [ev : Names, gran : Granularities, id : Ids]

ASSUME HandleAssumption ==
  /\ IsFiniteSet(Threads) /\ IsFiniteSet(Names)
  /\ DefaultGran \in Granularities
  /\ None \notin Granularities \cup Names \cup Entry
  /\ Puts \subseteq Entry /\ Registrations \subseteq Entry
  /\ Limit \in Nat

VARIABLES
  live,      \* a handle exists
  closed,    \* InoxSet.closed
  readOnly,  \* InoxSet.read_only
  mem,       \* the buffer's entries
  events,    \* catalog: each event's finest granularity
  disk,      \* catalog: the flushed entries
  pc,        \* where each thread is
  loc        \* each thread's local variables

handle  == <<live, closed, readOnly>>
catalog == <<events, disk>>
vars    == <<handle, mem, catalog, pc, loc>>

Locals ==
  [op   : {"put", "flush", "register", "drop", "close", "end"},
   put  : Entry \cup {None},  \* the call's event, granularity and bitmap
   todo : SUBSET Names,  \* events still to resolve
   ev   : Names \cup {None},  \* the event to drop, or that ensure_event is about
   snap : SUBSET Entry]  \* flush: the drained entries

Blank == [op |-> "flush", put |-> None, todo |-> {}, ev |-> None, snap |-> {}]

Labels ==
  {"idle", "ensure", "count", "auto", "lock", "drain", "commit",
   "register", "drop_lock", "drop_txn"}

TypeOK ==
  /\ live \in BOOLEAN /\ closed \in BOOLEAN /\ readOnly \in BOOLEAN
  /\ mem \subseteq Entry
  /\ events \in [Names -> Granularities \cup {None}]
  /\ disk \subseteq Entry
  /\ pc \in [Threads -> Labels]
  /\ loc \in [Threads -> Locals]

-----------------------------------------------------------------------------
Registered == {e \in Names : events[e] # None}

Goto(t, l) == pc' = [pc EXCEPT ![t] = l]

(* A call returns.  With the last owner's call, Drop, the handle goes.     *)
Return(t) ==
  /\ Goto(t, "idle")
  /\ loc' = [loc EXCEPT ![t] = Blank]
  /\ live' = (live /\ loc[t].op # "end")
  /\ UNCHANGED <<closed, readOnly>>

Ending == \E t \in Threads : loc[t].op = "end"

(* check_closed, and check_writable.                                       *)
Open     == live /\ ~closed /\ ~Ending
Writable == Open /\ ~readOnly

Begin(t, local, l) ==
  /\ pc[t] = "idle"
  /\ loc' = [loc EXCEPT ![t] = local]
  /\ Goto(t, l)
  /\ UNCHANGED <<handle, mem, catalog>>

-----------------------------------------------------------------------------
(* ensure_event: put_bitmap calls it for its event, flush_snapshot for     *)
(* every event it drained.                                                 *)

(* What follows once the event e is known to have granularity g.           *)
Resolved(t, e, g) ==
  IF loc[t].op = "put"
  THEN IF g = loc[t].put.gran
       THEN Goto(t, "lock") /\ UNCHANGED <<loc, handle>>
       ELSE Return(t)                          \* GranularityMismatch
  ELSE /\ loc' = [loc EXCEPT ![t].todo = @ \ {e}, ![t].ev = None]
       /\ Goto(t, IF loc[t].todo \subseteq {e} THEN "commit" ELSE "ensure")
       /\ UNCHANGED handle

EventFound(t, e) ==
  /\ pc[t] = "ensure"
  /\ e \in loc[t].todo /\ e \in Registered
  /\ Resolved(t, e, events[e])
  /\ UNCHANGED <<mem, catalog>>

EventMissing(t, e) ==
  /\ pc[t] = "ensure"
  /\ e \in loc[t].todo /\ e \notin Registered
  /\ loc' = [loc EXCEPT ![t].ev = e]
  /\ Goto(t, IF Limit = 0 THEN "auto" ELSE "count")
  /\ UNCHANGED <<handle, mem, catalog>>

(* A slip: the limit is compared with > instead of >=.                     *)
CountEventsAbove(t) ==
  /\ pc[t] = "count"
  /\ IF Cardinality(Registered) > Limit
     THEN Return(t)
     ELSE Goto(t, "auto") /\ UNCHANGED <<loc, handle>>
  /\ UNCHANGED <<mem, catalog>>

(* At the limit the call fails, and a flush loses what it drained.         *)
CountEvents(t) ==
  /\ pc[t] = "count"
  /\ IF Cardinality(Registered) >= Limit
     THEN Return(t)
     ELSE Goto(t, "auto") /\ UNCHANGED <<loc, handle>>
  /\ UNCHANGED <<mem, catalog>>

(* Catalog::register_event overwrites what another thread registered.      *)
AutoRegister(t) ==
  /\ pc[t] = "auto"
  /\ events' = [events EXCEPT ![loc[t].ev] = DefaultGran]
  /\ Resolved(t, loc[t].ev, DefaultGran)
  /\ UNCHANGED <<mem, disk>>

-----------------------------------------------------------------------------
PutBitmap(t, x) ==
  /\ Writable
  /\ Begin(t, [Blank EXCEPT !.op = "put", !.put = x, !.todo = {x.ev}], "ensure")

(* The region under the write lock; over flush_threshold the call goes on  *)
(* with flush_internal.                                                    *)
PutLock(t) ==
  /\ pc[t] = "lock"
  /\ mem' = mem \cup {loc[t].put}
  /\ \/ Return(t)
     \/ Goto(t, "drain") /\ loc' = [loc EXCEPT ![t] = Blank] /\ UNCHANGED handle
  /\ UNCHANGED catalog

Flush(t) == Writable /\ Begin(t, Blank, "drain")

NothingToFlush(t) ==
  /\ pc[t] = "drain"
  /\ mem = {}
  /\ Return(t)
  /\ UNCHANGED <<mem, catalog>>

TakeSnapshot(t) ==
  /\ pc[t] = "drain"
  /\ mem # {}
  /\ mem' = {}
  /\ loc' = [loc EXCEPT ![t].snap = mem, ![t].todo = {x.ev : x \in mem}]
  /\ Goto(t, "ensure")
  /\ UNCHANGED <<handle, catalog>>

FlushSnapshot(t) ==
  /\ pc[t] = "commit"
  /\ disk' = disk \cup loc[t].snap
  /\ Return(t)
  /\ UNCHANGED <<mem, events>>

-----------------------------------------------------------------------------
(* register_event looks for the event, and writes in another transaction.  *)
RegisterEvent(t, x) ==
  /\ Writable
  /\ x.ev \notin Registered
  /\ Begin(t, [Blank EXCEPT !.op = "register", !.put = x], "register")

WriteEvent(t) ==
  /\ pc[t] = "register"
  /\ events' = [events EXCEPT ![loc[t].put.ev] = loc[t].put.gran]
  /\ Return(t)
  /\ UNCHANGED <<mem, disk>>

DropEvent(t, e) == Writable /\ Begin(t, [Blank EXCEPT !.op = "drop", !.ev = e], "drop_lock")

Without(P, e) == {x \in P : x.ev # e}

(* A slip: the buffer keeps the event's entries.                           *)
DropLockNothing(t) ==
  /\ pc[t] = "drop_lock"
  /\ Goto(t, "drop_txn")
  /\ UNCHANGED <<handle, mem, catalog, loc>>

DropLock(t) ==
  /\ pc[t] = "drop_lock"
  /\ mem' = Without(mem, loc[t].ev)
  /\ Goto(t, "drop_txn")
  /\ UNCHANGED <<handle, catalog, loc>>

DropTxn(t) ==
  /\ pc[t] = "drop_txn"
  /\ events' = [events EXCEPT ![loc[t].ev] = None]
  /\ disk' = Without(disk, loc[t].ev)
  /\ Return(t)
  /\ UNCHANGED mem

-----------------------------------------------------------------------------
(* A slip: close leaves the flush to Drop, which finds the flag set.       *)
CloseWithoutFlush(t) ==
  /\ Open
  /\ pc[t] = "idle"
  /\ closed' = TRUE
  /\ UNCHANGED <<live, readOnly, mem, catalog, pc, loc>>

(* close sets the flag first and then flushes.  Closing again does nothing.*)
Close(t) ==
  /\ Open
  /\ pc[t] = "idle"
  /\ closed' = TRUE
  /\ IF readOnly
     THEN UNCHANGED <<pc, loc>>
     ELSE Goto(t, "drain") /\ loc' = [loc EXCEPT ![t] = [Blank EXCEPT !.op = "close"]]
  /\ UNCHANGED <<live, readOnly, mem, catalog>>

(* Drop of the last owner: every call has returned.  An open handle is     *)
(* flushed, and an error of the flush ignored.                             *)
DropHandle(t) ==
  /\ live
  /\ \A u \in Threads : pc[u] = "idle"
  /\ IF closed \/ readOnly
     THEN live' = FALSE /\ mem' = {} /\ UNCHANGED <<pc, loc>>
     ELSE /\ Goto(t, "drain") /\ loc' = [loc EXCEPT ![t] = [Blank EXCEPT !.op = "end"]]
          /\ UNCHANGED <<live, mem>>
  /\ UNCHANGED <<closed, readOnly, catalog>>

Crash ==
  /\ live
  /\ live' = FALSE
  /\ pc' = [t \in Threads |-> "idle"]
  /\ loc' = [t \in Threads |-> Blank]
  /\ mem' = {}
  /\ UNCHANGED <<closed, readOnly, catalog>>

OpenHandle ==
  /\ ~live
  /\ live' = TRUE
  /\ closed' = FALSE
  /\ readOnly' \in BOOLEAN
  /\ UNCHANGED <<mem, catalog, pc, loc>>

Init ==
  /\ live = TRUE /\ closed = FALSE /\ readOnly = FALSE
  /\ mem = {}
  /\ events = [e \in Names |-> None]
  /\ disk = {}
  /\ pc = [t \in Threads |-> "idle"]
  /\ loc = [t \in Threads |-> Blank]

Ensure(t) ==
  \/ \E e \in Names : EventFound(t, e) \/ EventMissing(t, e)
  \/ CountEvents(t)
  \/ AutoRegister(t)

Step(t) ==
  \/ \E x \in Puts : PutBitmap(t, x)
  \/ \E e \in Names : DropEvent(t, e)
  \/ \E x \in Registrations : RegisterEvent(t, x)
  \/ Ensure(t)
  \/ PutLock(t)
  \/ Flush(t) \/ NothingToFlush(t) \/ TakeSnapshot(t) \/ FlushSnapshot(t)
  \/ WriteEvent(t)
  \/ DropLock(t) \/ DropTxn(t)
  \/ Close(t)
  \/ DropHandle(t)

Next == (\E t \in Threads : Step(t)) \/ Crash \/ OpenHandle

Spec == Init /\ [][Next]_vars
=============================================================================
