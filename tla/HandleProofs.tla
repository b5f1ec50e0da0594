---------------------------- MODULE HandleProofs ----------------------------
(* The handle's calls keep their types, no put is lost by an orderly end,  *)
(* and the event limit is exceeded by at most one event per other thread,  *)
(* for any threads, events, granularities and limit.                       *)
EXTENDS HandleHistory, FiniteSetTheorems, TLAPS

Flushing == {"flush", "close", "end"}

(* What a thread at p holds in its local variables l.                      *)
LocalInv(p, l) ==
  /\ p \in Labels /\ l \in Locals
  /\ p = "idle" => l = Blank
  /\ p \in {"ensure", "count", "auto"} => l.op \in {"put"} \cup Flushing
  /\ p = "lock" => l.op = "put"
  /\ p \in {"drain", "commit"} => l.op \in Flushing
  /\ p = "register" => l.op = "register"
  /\ p \in {"drop_lock", "drop_txn"} => l.op = "drop"
  /\ l.op \in {"put", "register"} => l.put \in Entry
  /\ p \in {"count", "auto"} \/ l.op = "drop" => l.ev \in Names
  /\ p = "drain" \/ l.op \notin Flushing => l.snap = {}

LocalsOK == \A t \in Threads : LocalInv(pc[t], loc[t])

Typed == TypeOK /\ LocalsOK

LEMMA BlankInv == LocalInv("idle", Blank)
BY DEF LocalInv, Labels, Locals, Blank, Flushing

(* A thread that moves to p with l leaves the others where they are.       *)
LEMMA Moves ==
  ASSUME Typed, NEW t \in Threads, NEW p, NEW l, LocalInv(p, l),
         pc' = [pc EXCEPT ![t] = p], loc' = [loc EXCEPT ![t] = l]
  PROVE  /\ pc' \in [Threads -> Labels] /\ loc' \in [Threads -> Locals]
         /\ LocalsOK'
         /\ pc'[t] = p /\ loc'[t] = l
         /\ \A u \in Threads \ {t} : pc'[u] = pc[u] /\ loc'[u] = loc[u]
BY DEF Typed, TypeOK, LocalsOK, LocalInv

LEMMA Returns ==
  ASSUME Typed, NEW t \in Threads, Return(t)
  PROVE  /\ pc' \in [Threads -> Labels] /\ loc' \in [Threads -> Locals]
         /\ LocalsOK'
         /\ pc'[t] = "idle" /\ loc'[t] = Blank
         /\ \A u \in Threads \ {t} : pc'[u] = pc[u] /\ loc'[u] = loc[u]
         /\ live' \in BOOLEAN /\ closed' \in BOOLEAN /\ readOnly' \in BOOLEAN
BY BlankInv, Moves DEF Return, Goto, Typed, TypeOK

LEMMA TypedInit == Init => Typed
BY BlankInv DEF Init, Typed, TypeOK, LocalsOK, LocalInv

LEMMA BeginTyped ==
  ASSUME Typed, NEW t \in Threads, NEW p, NEW l, Begin(t, l, p), LocalInv(p, l)
  PROVE  Typed'
BY Moves DEF Begin, Goto, Typed, TypeOK, handle, catalog

LEMMA StartTyped ==
  ASSUME Typed, NEW t \in Threads,
         \/ \E x \in Puts : PutBitmap(t, x)
         \/ \E e \in Names : DropEvent(t, e)
         \/ \E x \in Registrations : RegisterEvent(t, x)
         \/ Flush(t)
  PROVE  Typed'
<1> USE HandleAssumption
<1>1. ASSUME NEW x \in Puts, PutBitmap(t, x) PROVE Typed'
  <2>1. LocalInv("ensure", [Blank EXCEPT !.op = "put", !.put = x, !.todo = {x.ev}])
    BY DEF LocalInv, Labels, Locals, Blank, Flushing, Entry
  <2> QED
    BY <1>1, <2>1, BeginTyped DEF PutBitmap
<1>2. ASSUME NEW e \in Names, DropEvent(t, e) PROVE Typed'
  <2>1. LocalInv("drop_lock", [Blank EXCEPT !.op = "drop", !.ev = e])
    BY DEF LocalInv, Labels, Locals, Blank, Flushing
  <2> QED
    BY <1>2, <2>1, BeginTyped DEF DropEvent
<1>3. ASSUME NEW x \in Registrations, RegisterEvent(t, x) PROVE Typed'
  <2>1. LocalInv("register", [Blank EXCEPT !.op = "register", !.put = x])
    BY DEF LocalInv, Labels, Locals, Blank, Flushing
  <2> QED
    BY <1>3, <2>1, BeginTyped DEF RegisterEvent
<1>4. CASE Flush(t)
  <2>1. LocalInv("drain", Blank)
    BY DEF LocalInv, Labels, Locals, Blank, Flushing
  <2> QED
    BY <1>4, <2>1, BeginTyped DEF Flush
<1> QED
  BY <1>1, <1>2, <1>3, <1>4

LEMMA ResolvedTyped ==
  ASSUME Typed, NEW t \in Threads, NEW e \in Names, NEW g,
         pc[t] \in {"ensure", "auto"}, Resolved(t, e, g)
  PROVE  /\ pc' \in [Threads -> Labels] /\ loc' \in [Threads -> Locals]
         /\ LocalsOK'
         /\ live' \in BOOLEAN /\ closed' \in BOOLEAN /\ readOnly' \in BOOLEAN
<1>1. LocalInv(pc[t], loc[t]) /\ loc[t] \in Locals
  BY DEF Typed, LocalsOK, LocalInv
<1>2. CASE loc[t].op = "put" /\ g = loc[t].put.gran
  <2>1. LocalInv("lock", loc[t])
    BY <1>1, <1>2 DEF LocalInv, Labels, Flushing
  <2>2. loc' = [loc EXCEPT ![t] = loc[t]]
    BY <1>2 DEF Resolved, Typed, TypeOK
  <2> QED
    BY <1>2, <2>1, <2>2, Moves DEF Resolved, Goto, handle, Typed, TypeOK
<1>3. CASE loc[t].op = "put" /\ g # loc[t].put.gran
  BY <1>3, Returns DEF Resolved
<1>4. CASE loc[t].op # "put"
  <2> DEFINE l == [loc[t] EXCEPT !.todo = @ \ {e}, !.ev = None]
             p == IF loc[t].todo \subseteq {e} THEN "commit" ELSE "ensure"
  <2>1. LocalInv(p, l)
    BY <1>1, <1>4 DEF LocalInv, Labels, Flushing, Locals
  <2>2. pc' = [pc EXCEPT ![t] = p] /\ loc' = [loc EXCEPT ![t] = l]
    BY <1>4 DEF Resolved, Goto
  <2>3. UNCHANGED handle
    BY <1>4 DEF Resolved
  <2> QED
    BY <2>1, <2>2, <2>3, Moves DEF handle, Typed, TypeOK
<1> QED
  BY <1>2, <1>3, <1>4

LEMMA EnsureTyped ==
  ASSUME Typed, NEW t \in Threads, Ensure(t)
  PROVE  Typed'
<1> USE HandleAssumption
<1>1. LocalInv(pc[t], loc[t]) /\ loc[t] \in Locals
  BY DEF Typed, LocalsOK, LocalInv
<1>2. ASSUME NEW e \in Names, EventFound(t, e) PROVE Typed'
  BY <1>2, ResolvedTyped DEF EventFound, Typed, TypeOK, catalog
<1>3. ASSUME NEW e \in Names, EventMissing(t, e) PROVE Typed'
  <2> DEFINE l == [loc[t] EXCEPT !.ev = e]
             p == IF Limit = 0 THEN "auto" ELSE "count"
  <2>1. LocalInv(p, l)
    BY <1>1, <1>3 DEF EventMissing, LocalInv, Labels, Flushing, Locals
  <2>2. pc' = [pc EXCEPT ![t] = p] /\ loc' = [loc EXCEPT ![t] = l]
    BY <1>3 DEF EventMissing, Goto
  <2>3. UNCHANGED <<handle, mem, catalog>>
    BY <1>3 DEF EventMissing
  <2> QED
    BY <2>1, <2>2, <2>3, Moves DEF handle, catalog, Typed, TypeOK
<1>4. CASE CountEvents(t)
  <2>1. CASE Cardinality(Registered) >= Limit
    BY <1>4, <2>1, Returns DEF CountEvents, Typed, TypeOK, catalog
  <2>2. CASE ~(Cardinality(Registered) >= Limit)
    <3>1. LocalInv("auto", loc[t])
      BY <1>1, <1>4 DEF CountEvents, LocalInv, Labels, Flushing
    <3>2. loc' = [loc EXCEPT ![t] = loc[t]] /\ pc' = [pc EXCEPT ![t] = "auto"]
      BY <1>4, <2>2 DEF CountEvents, Goto, Typed, TypeOK
    <3>3. UNCHANGED <<handle, mem, catalog>>
      BY <1>4, <2>2 DEF CountEvents
    <3> QED
      BY <3>1, <3>2, <3>3, Moves DEF handle, catalog, Typed, TypeOK
  <2> QED
    BY <2>1, <2>2
<1>5. CASE AutoRegister(t)
  <2>1. loc[t].ev \in Names
    BY <1>1, <1>5 DEF AutoRegister, LocalInv
  <2> QED
    BY <1>5, <2>1, ResolvedTyped DEF AutoRegister, Typed, TypeOK
<1> QED
  BY <1>2, <1>3, <1>4, <1>5 DEF Ensure

LEMMA FlushTyped ==
  ASSUME Typed, NEW t \in Threads,
         PutLock(t) \/ NothingToFlush(t) \/ TakeSnapshot(t) \/ FlushSnapshot(t)
  PROVE  Typed'
<1>1. LocalInv(pc[t], loc[t]) /\ loc[t] \in Locals
  BY DEF Typed, LocalsOK, LocalInv
<1>2. CASE PutLock(t)
  <2>1. mem' \subseteq Entry /\ UNCHANGED catalog
    BY <1>1, <1>2 DEF PutLock, LocalInv, Typed, TypeOK
  <2>2. CASE Return(t)
    BY <2>1, <2>2, Returns DEF Typed, TypeOK, catalog
  <2>3. CASE Goto(t, "drain") /\ loc' = [loc EXCEPT ![t] = Blank] /\ UNCHANGED handle
    <3>1. LocalInv("drain", Blank)
      BY DEF LocalInv, Labels, Locals, Blank, Flushing
    <3> QED
      BY <2>1, <2>3, <3>1, Moves DEF Goto, handle, catalog, Typed, TypeOK
  <2> QED
    BY <1>2, <2>2, <2>3 DEF PutLock
<1>3. CASE NothingToFlush(t)
  BY <1>3, Returns DEF NothingToFlush, Typed, TypeOK, catalog
<1>4. CASE TakeSnapshot(t)
  <2> DEFINE l == [loc[t] EXCEPT !.snap = mem, !.todo = {x.ev : x \in mem}]
  <2>1. LocalInv("ensure", l)
    <3>1. mem \subseteq Entry /\ {x.ev : x \in mem} \subseteq Names
      BY DEF Typed, TypeOK, Entry
    <3> QED
      BY <1>1, <1>4, <3>1 DEF TakeSnapshot, LocalInv, Labels, Flushing, Locals
  <2>2. pc' = [pc EXCEPT ![t] = "ensure"] /\ loc' = [loc EXCEPT ![t] = l]
    BY <1>4 DEF TakeSnapshot, Goto
  <2>3. UNCHANGED <<handle, catalog>> /\ mem' = {}
    BY <1>4 DEF TakeSnapshot
  <2> QED
    BY <2>1, <2>2, <2>3, Moves DEF handle, catalog, Typed, TypeOK
<1>5. CASE FlushSnapshot(t)
  <2>1. disk' \subseteq Entry
    BY <1>1, <1>5 DEF FlushSnapshot, Locals, Typed, TypeOK
  <2> QED
    BY <1>5, <2>1, Returns DEF FlushSnapshot, Typed, TypeOK
<1> QED
  BY <1>2, <1>3, <1>4, <1>5

LEMMA EventTyped ==
  ASSUME Typed, NEW t \in Threads, WriteEvent(t) \/ DropLock(t) \/ DropTxn(t)
  PROVE  Typed'
<1>1. LocalInv(pc[t], loc[t]) /\ loc[t] \in Locals
  BY DEF Typed, LocalsOK, LocalInv
<1>2. CASE WriteEvent(t)
  <2>1. loc[t].put.ev \in Names /\ loc[t].put.gran \in Granularities
    BY <1>1, <1>2 DEF WriteEvent, LocalInv, Entry
  <2> QED
    BY <1>2, <2>1, Returns DEF WriteEvent, Typed, TypeOK
<1>3. CASE DropLock(t)
  <2>1. LocalInv("drop_txn", loc[t])
    BY <1>1, <1>3 DEF DropLock, LocalInv, Labels, Flushing
  <2>2. loc' = [loc EXCEPT ![t] = loc[t]] /\ pc' = [pc EXCEPT ![t] = "drop_txn"]
    BY <1>3 DEF DropLock, Goto, Typed, TypeOK
  <2>3. mem' \subseteq Entry /\ UNCHANGED <<handle, catalog>>
    BY <1>3 DEF DropLock, Without, Typed, TypeOK
  <2> QED
    BY <2>1, <2>2, <2>3, Moves DEF handle, catalog, Typed, TypeOK
<1>4. CASE DropTxn(t)
  <2>1. events' \in [Names -> Granularities \cup {None}] /\ disk' \subseteq Entry
    BY <1>4 DEF DropTxn, Without, Typed, TypeOK
  <2> QED
    BY <1>4, <2>1, Returns DEF DropTxn, Typed, TypeOK
<1> QED
  BY <1>2, <1>3, <1>4

LEMMA EndTyped ==
  ASSUME Typed, NEW t \in Threads, Close(t) \/ DropHandle(t)
  PROVE  Typed'
<1>1. LocalInv("drain", [Blank EXCEPT !.op = "close"]) /\ LocalInv("drain", [Blank EXCEPT !.op = "end"])
  BY DEF LocalInv, Labels, Locals, Blank, Flushing
<1>2. CASE UNCHANGED <<pc, loc>>
  BY <1>2 DEF Close, DropHandle, Typed, TypeOK, LocalsOK, catalog
<1>3. CASE ~UNCHANGED <<pc, loc>> /\ Close(t)
  BY <1>1, <1>3, Moves DEF Close, Goto, Typed, TypeOK, catalog
<1>4. CASE ~UNCHANGED <<pc, loc>> /\ DropHandle(t)
  BY <1>1, <1>4, Moves DEF DropHandle, Goto, Typed, TypeOK, catalog
<1> QED
  BY <1>2, <1>3, <1>4

LEMMA TypedStep == Typed /\ [Next]_vars => Typed'
<1> SUFFICES ASSUME Typed, [Next]_vars PROVE Typed'
  OBVIOUS
<1>1. ASSUME NEW t \in Threads, Step(t) PROVE Typed'
  BY <1>1, StartTyped, EnsureTyped, FlushTyped, EventTyped, EndTyped DEF Step
<1>2. CASE Crash
  BY <1>2, BlankInv DEF Crash, Typed, TypeOK, LocalsOK, LocalInv, catalog
<1>3. CASE OpenHandle
  BY <1>3 DEF OpenHandle, Typed, TypeOK, LocalsOK, catalog
<1>4. CASE UNCHANGED vars
  BY <1>4 DEF vars, handle, catalog, Typed, TypeOK, LocalsOK
<1> QED
  BY <1>1, <1>2, <1>3, <1>4 DEF Next

(* A step of the history is a step of Handle.                              *)
LEMMA HistoryNext == HNext => Next
BY DEF HNext, Next

LEMMA TypedHStep == Typed /\ [HNext]_hvars => Typed'
BY TypedStep, HistoryNext DEF hvars

(* Flags, buffer, catalog and every call keep their types.                 *)
THEOREM TypeCorrect == HSpec => []TypeOK
<1>1. HInit => Typed
  BY TypedInit DEF HInit
<1>2. Typed => TypeOK
  BY DEF Typed
<1> QED
  BY <1>1, <1>2, TypedHStep, PTL DEF HSpec

-----------------------------------------------------------------------------
(* The event limit.  Pending threads have passed the count and are about   *)
(* to register; each of them passed while fewer than Limit events existed. *)

Pending == {t \in Threads : pc[t] = "auto"}

LimitInv ==
  /\ autos \subseteq Registered
  /\ Limit > 0 =>
       Cardinality(autos) + Cardinality(Pending) <= Limit + Cardinality(Threads) - 1

LEMMA Sizes ==
  ASSUME autos \subseteq Registered
  PROVE  /\ IsFiniteSet(autos) /\ IsFiniteSet(Pending) /\ IsFiniteSet(Registered)
         /\ Cardinality(autos) \in Nat /\ Cardinality(Pending) \in Nat
         /\ Cardinality(Registered) \in Nat /\ Cardinality(Threads) \in Nat
         /\ Cardinality(autos) <= Cardinality(Registered)
         /\ Cardinality(Pending) <= Cardinality(Threads)
<1>1. Registered \subseteq Names /\ Pending \subseteq Threads
  BY DEF Registered, Pending
<1>2. IsFiniteSet(Registered) /\ IsFiniteSet(Pending) /\ IsFiniteSet(autos)
  BY <1>1, FS_Subset, HandleAssumption
<1> QED
  BY <1>1, <1>2, FS_Subset, FS_CardinalityType, HandleAssumption

(* Fewer events and fewer pending threads keep the bound.                  *)
LEMMA LimitShrinks ==
  ASSUME LimitInv, autos' \subseteq autos, Pending' \subseteq Pending, autos' \subseteq Registered'
  PROVE  LimitInv'
<1>1. Cardinality(autos') <= Cardinality(autos) /\ Cardinality(Pending') <= Cardinality(Pending)
  BY Sizes, FS_Subset DEF LimitInv
<1>2. Cardinality(autos') \in Nat /\ Cardinality(Pending') \in Nat
  BY Sizes, FS_Subset, FS_CardinalityType DEF LimitInv
<1> QED
  BY <1>1, <1>2, Sizes, HandleAssumption DEF LimitInv

LEMMA LimitInit == HInit => LimitInv
<1> SUFFICES ASSUME HInit PROVE LimitInv
  OBVIOUS
<1>1. autos = {} /\ Pending = {}
  BY DEF HInit, Init, Pending
<1>2. Cardinality(autos) = 0 /\ Cardinality(Pending) = 0
  BY <1>1, FS_EmptySet
<1>3. Cardinality(Threads) \in Nat
  BY FS_CardinalityType, HandleAssumption
<1> QED
  BY <1>1, <1>2, <1>3, HandleAssumption DEF LimitInv

LEMMA LimitCount ==
  ASSUME Typed, LimitInv, NEW t \in Threads, CountEvents(t), Automatic(t)
  PROVE  LimitInv'
<1>1. autos' = autos /\ events' = events /\ pc[t] = "count"
  BY DEF CountEvents, Automatic, catalog
<1>2. autos' \subseteq Registered'
  BY <1>1 DEF LimitInv, Registered
<1>3. CASE Cardinality(Registered) >= Limit
  <2>1. Pending' \subseteq Pending
    BY <1>3, Returns DEF CountEvents, Pending
  <2> QED
    BY <1>1, <1>2, <2>1, LimitShrinks
<1>4. CASE ~(Cardinality(Registered) >= Limit)
  <2>1. Pending' \subseteq Threads
    BY DEF Pending
  <2>2. Cardinality(Pending') <= Cardinality(Threads) /\ Cardinality(Pending') \in Nat
    BY <2>1, FS_Subset, FS_CardinalityType, HandleAssumption
  <2>3. Cardinality(autos') < Limit
    BY <1>1, <1>4, Sizes, HandleAssumption DEF LimitInv
  <2> QED
    BY <1>1, <1>2, <2>2, <2>3, Sizes, HandleAssumption DEF LimitInv
<1> QED
  BY <1>3, <1>4

LEMMA LimitRegister ==
  ASSUME Typed, LimitInv, NEW t \in Threads, AutoRegister(t), Automatic(t)
  PROVE  LimitInv'
<1>1. pc[t] = "auto" /\ autos' = autos \cup {loc[t].ev} /\ loc[t].ev \in Names
  BY DEF AutoRegister, Automatic, Typed, LocalsOK, LocalInv
<1>2. pc'[t] # "auto" /\ \A u \in Threads \ {t} : pc'[u] = pc[u]
  <2>1. pc \in [Threads -> Labels]
    BY DEF Typed, TypeOK
  <2> QED
    BY <2>1 DEF AutoRegister, Resolved, Return, Goto
<1>3. Pending' = Pending \ {t} /\ t \in Pending
  BY <1>1, <1>2 DEF Pending
<1>4. autos' \subseteq Registered'
  BY <1>1, HandleAssumption DEF AutoRegister, Registered, LimitInv, Typed, TypeOK
<1>5. Cardinality(Pending') = Cardinality(Pending) - 1
  BY <1>3, Sizes, FS_RemoveElement DEF LimitInv
<1>6. Cardinality(autos') <= Cardinality(autos) + 1 /\ Cardinality(autos') \in Nat
  <2>1. IsFiniteSet(autos) /\ Cardinality(autos) \in Nat
    BY Sizes DEF LimitInv
  <2>2. \/ Cardinality(autos \cup {loc[t].ev}) = Cardinality(autos)
        \/ Cardinality(autos \cup {loc[t].ev}) = Cardinality(autos) + 1
    BY <2>1, FS_AddElement
  <2> QED
    BY <1>1, <2>1, <2>2
<1> QED
  BY <1>4, <1>5, <1>6, Sizes, HandleAssumption DEF LimitInv

(* No other step adds an event or a pending thread.                        *)
LEMMA LimitOther ==
  ASSUME Typed, LimitInv, NEW t \in Threads, Step(t), Automatic(t),
         ~CountEvents(t), ~AutoRegister(t)
  PROVE  LimitInv'
<1>1. pc \in [Threads -> Labels]
  BY DEF Typed, TypeOK
<1>2. pc'[t] = "auto" => Limit = 0
  BY <1>1 DEF Step, PutBitmap, DropEvent, RegisterEvent, Begin, Ensure, EventFound, EventMissing,
       Resolved, PutLock, Flush, NothingToFlush, TakeSnapshot, FlushSnapshot, WriteEvent,
       DropLock, DropTxn, Close, DropHandle, Return, Goto
<1>3. \A u \in Threads \ {t} : pc'[u] = pc[u]
  BY <1>1 DEF Step, PutBitmap, DropEvent, RegisterEvent, Begin, Ensure, EventFound, EventMissing,
       Resolved, PutLock, Flush, NothingToFlush, TakeSnapshot, FlushSnapshot, WriteEvent,
       DropLock, DropTxn, Close, DropHandle, Return, Goto
<1>4. autos' \subseteq autos /\ autos' \subseteq Registered'
  <2>1. CASE WriteEvent(t)
    <3>1. loc[t].put.gran # None
      BY <2>1, HandleAssumption DEF WriteEvent, Typed, LocalsOK, LocalInv, Entry
    <3> QED
      BY <2>1, <3>1 DEF WriteEvent, Automatic, LimitInv, Registered, Typed, TypeOK
  <2>2. CASE DropTxn(t)
    BY <2>2 DEF DropTxn, Automatic, LimitInv, Registered, Typed, TypeOK
  <2>3. CASE ~WriteEvent(t) /\ ~DropTxn(t)
    <3>1. events' = events
      BY <2>3 DEF Step, PutBitmap, DropEvent, RegisterEvent, Begin, Ensure, EventFound,
           EventMissing, PutLock, Flush, NothingToFlush, TakeSnapshot, FlushSnapshot,
           DropLock, Close, DropHandle, catalog
    <3>2. pc[t] # "auto"
      BY <2>3 DEF Step, PutBitmap, DropEvent, RegisterEvent, Begin, Ensure, EventFound,
           EventMissing, PutLock, Flush, NothingToFlush, TakeSnapshot, FlushSnapshot,
           DropLock, Close, DropHandle
    <3> QED
      BY <3>1, <3>2 DEF Automatic, LimitInv, Registered
  <2> QED
    BY <2>1, <2>2, <2>3
<1>5. CASE Limit = 0
  BY <1>4, <1>5 DEF LimitInv
<1>6. CASE Limit # 0
  <2>1. Pending' \subseteq Pending
    BY <1>2, <1>3, <1>6 DEF Pending
  <2> QED
    BY <1>4, <2>1, LimitShrinks
<1> QED
  BY <1>5, <1>6

LEMMA LimitStep == Typed /\ LimitInv /\ [HNext]_hvars => LimitInv'
<1> SUFFICES ASSUME Typed, LimitInv, [HNext]_hvars PROVE LimitInv'
  OBVIOUS
<1>1. ASSUME NEW t \in Threads, Step(t), Automatic(t) PROVE LimitInv'
  BY <1>1, LimitCount, LimitRegister, LimitOther
<1>2. CASE Crash /\ UNCHANGED autos
  <2>1. Pending' \subseteq Pending /\ autos' = autos /\ Registered' = Registered
    BY <1>2 DEF Crash, Pending, Registered, catalog
  <2> QED
    BY <2>1, LimitShrinks DEF LimitInv
<1>3. CASE (OpenHandle /\ UNCHANGED autos) \/ UNCHANGED hvars
  <2>1. Pending' = Pending /\ autos' = autos /\ Registered' = Registered
    BY <1>3 DEF OpenHandle, Pending, Registered, catalog, hvars, vars
  <2> QED
    BY <2>1, LimitShrinks DEF LimitInv
<1> QED
  BY <1>1, <1>2, <1>3 DEF HNext

(* However many threads race to register events, each but one exceeds the  *)
(* limit by at most one event (ensure_event).                              *)
THEOREM LimitBound == HSpec => []LimitNearlyKept
<1>1. HInit => Typed /\ LimitInv
  BY TypedInit, LimitInit DEF HInit
<1>2. Typed /\ LimitInv /\ [HNext]_hvars => (Typed /\ LimitInv)'
  BY TypedHStep, LimitStep
<1>3. LimitInv => LimitNearlyKept
  BY Sizes, HandleAssumption DEF LimitInv, LimitNearlyKept
<1> QED
  BY <1>1, <1>2, <1>3, PTL DEF HSpec

-----------------------------------------------------------------------------
(* No put is lost.  Once closed, and with the flush of close begun, nothing*)
(* that is promised is only in the buffer; a handle goes when no call runs.*)

InFlight == UNION {loc[t].snap : t \in Threads}

AllIdle == \A t \in Threads : pc[t] = "idle"

Closing == \E t \in Threads : loc[t].op = "close" /\ pc[t] = "drain"

LastOne(t) ==
  loc[t].op = "end" =>
    /\ \A u \in Threads \ {t} : pc[u] = "idle"
    /\ pc[t] # "drain" => mem = {}

SurviveInv ==
  /\ promised \subseteq mem \cup disk \cup InFlight
  /\ ~live \/ readOnly => promised \subseteq disk /\ AllIdle
  /\ closed /\ ~Closing => promised \subseteq disk \cup InFlight
  /\ \A t \in Threads : LastOne(t)

LEMMA SurviveInit == HInit => SurviveInv
BY DEF HInit, Init, SurviveInv, AllIdle, LastOne, Blank

(* A step of t is a step of no other thread.                               *)
LEMMA StepAlone ==
  ASSUME Typed, NEW t \in Threads, Step(t)
  PROVE  \A u \in Threads \ {t} : pc'[u] = pc[u] /\ loc'[u] = loc[u]
<1>1. pc \in [Threads -> Labels] /\ loc \in [Threads -> Locals]
  BY DEF Typed, TypeOK
<1>2. ASSUME NEW u \in Threads \ {t} PROVE pc'[u] = pc[u] /\ loc'[u] = loc[u]
  BY <1>1 DEF Step, PutBitmap, DropEvent, RegisterEvent, Begin, Ensure, EventFound, EventMissing,
       CountEvents, AutoRegister, Resolved, PutLock, Flush, NothingToFlush, TakeSnapshot,
       FlushSnapshot, WriteEvent, DropLock, DropTxn, Close, DropHandle, Return, Goto
<1> QED
  BY <1>2

(* Calls run on a live handle that may write.                              *)
LEMMA StepLive ==
  ASSUME Typed, SurviveInv, NEW t \in Threads, Step(t)
  PROVE  /\ live /\ (readOnly => Close(t) \/ DropHandle(t))
         /\ pc[t] = "idle" => (DropHandle(t) /\ AllIdle) \/ ~Ending
         /\ \A u \in Threads \ {t} : loc[u].op # "end"
<1>1. pc[t] = "idle" => (DropHandle(t) /\ AllIdle /\ live) \/ (Open /\ (Writable \/ Close(t)))
  BY DEF Step, PutBitmap, DropEvent, RegisterEvent, Flush, Ensure, EventFound, EventMissing,
       CountEvents, AutoRegister, PutLock, NothingToFlush, TakeSnapshot, FlushSnapshot,
       WriteEvent, DropLock, DropTxn, Close, DropHandle, AllIdle, Writable
<1>2. pc[t] = "idle" \/ (live /\ ~readOnly)
  BY DEF SurviveInv, AllIdle
<1>3. ASSUME NEW u \in Threads \ {t}, loc[u].op = "end" PROVE FALSE
  <2>1. pc[t] = "idle"
    BY <1>3 DEF SurviveInv, LastOne
  <2>2. Ending
    BY <1>3 DEF Ending
  <2>3. pc[u] = "idle"
    BY <1>1, <2>1, <2>2 DEF Open, AllIdle
  <2>4. loc[u] = Blank
    BY <2>3 DEF Typed, LocalsOK, LocalInv
  <2> QED
    BY <1>3, <2>4 DEF Blank
<1> QED
  BY <1>1, <1>2, <1>3 DEF Open, Writable

(* Steps that leave the buffer, the disk, the promises and every snapshot  *)
(* alone, and do not end the handle.                                       *)
LEMMA SurviveQuiet ==
  ASSUME Typed, SurviveInv, NEW t \in Threads, Step(t), ~readOnly,
         UNCHANGED <<mem, disk, promised, live, closed, readOnly>>,
         loc'[t].snap = loc[t].snap,
         ~(loc[t].op = "close" /\ pc[t] = "drain"),
         loc'[t].op = "end" => loc[t].op = "end" /\ pc[t] # "drain"
  PROVE  SurviveInv'
<1>1. InFlight' = InFlight
  BY StepAlone DEF InFlight
<1>2. ~Closing' => ~Closing
  BY StepAlone DEF Closing
<1>3. \A u \in Threads : LastOne(u)'
  BY StepAlone, StepLive DEF SurviveInv, LastOne
<1> QED
  BY <1>1, <1>2, <1>3, StepLive DEF SurviveInv

LEMMA BlankHolds == Blank.snap = {} /\ Blank.op = "flush"
BY DEF Blank

(* A return ends the handle with Drop's call only.                         *)
LEMMA ReturnLives ==
  ASSUME Typed, NEW t \in Threads, Return(t), live, loc[t].op # "end"
  PROVE  live' /\ UNCHANGED <<closed, readOnly>>
<1>1. live'
  BY Zenon DEF Return
<1> QED
  BY <1>1 DEF Return

(* Once every call has returned, nothing but the disk is left to hold the  *)
(* promises.                                                               *)
LEMMA SurviveIdle ==
  ASSUME Typed', AllIdle', promised' \subseteq disk'
  PROVE  SurviveInv'
<1>1. \A t \in Threads : loc'[t] = Blank
  BY DEF Typed, LocalsOK, LocalInv, AllIdle
<1> QED
  BY <1>1 DEF SurviveInv, LastOne, Blank

(* A step after which the handle lives on.                                 *)
LEMMA SurviveOn ==
  ASSUME Typed, SurviveInv, NEW t \in Threads, Step(t), live', ~readOnly',
         promised' \subseteq mem' \cup disk' \cup InFlight',
         closed' /\ ~Closing' => promised' \subseteq disk' \cup InFlight',
         LastOne(t)'
  PROVE  SurviveInv'
<1>1. \A u \in Threads : LastOne(u)'
  BY StepAlone, StepLive DEF LastOne
<1> QED
  BY <1>1 DEF SurviveInv

(* What is in flight, apart from the snapshot of t.                        *)
Others(t) == UNION {loc[u].snap : u \in Threads \ {t}}

LEMMA Flights ==
  ASSUME Typed, NEW t \in Threads, Step(t)
  PROVE  /\ InFlight = Others(t) \cup loc[t].snap
         /\ InFlight' = Others(t) \cup loc'[t].snap
         /\ loc'[t].op # "close" => (Closing' => Closing)
         /\ ~(loc[t].op = "close" /\ pc[t] = "drain") => (Closing => Closing')
<1>1. InFlight = Others(t) \cup loc[t].snap
  BY DEF InFlight, Others
<1>2. InFlight' = Others(t) \cup loc'[t].snap
  BY StepAlone DEF InFlight, Others
<1>3. loc'[t].op # "close" => (Closing' => Closing)
  BY StepAlone DEF Closing
<1>4. ~(loc[t].op = "close" /\ pc[t] = "drain") => (Closing => Closing')
  BY StepAlone DEF Closing
<1> QED
  BY <1>1, <1>2, <1>3, <1>4

(* A call that holds no snapshot and moves on or returns.                  *)
LEMMA SurviveBegin ==
  ASSUME Typed, SurviveInv, NEW t \in Threads, Step(t), Promise(t),
         \/ \E x \in Puts : PutBitmap(t, x)
         \/ \E e \in Names : DropEvent(t, e)
         \/ \E x \in Registrations : RegisterEvent(t, x)
         \/ Flush(t)
  PROVE  SurviveInv'
<1>1. pc[t] = "idle" /\ Writable /\ UNCHANGED <<handle, mem, catalog>>
  BY DEF PutBitmap, DropEvent, RegisterEvent, Flush, Begin
<1>2. loc[t] = Blank /\ loc'[t].snap = {} /\ loc'[t].op \in {"put", "drop", "register", "flush"}
  <2>1. loc[t] = Blank /\ loc \in [Threads -> Locals]
    BY <1>1 DEF Typed, TypeOK, LocalsOK, LocalInv
  <2>2. ASSUME NEW p, NEW l, Begin(t, l, p) PROVE loc'[t] = l
    BY <2>1, <2>2 DEF Begin
  <2>3. ASSUME NEW x \in Puts, PutBitmap(t, x) PROVE loc'[t].snap = {} /\ loc'[t].op = "put"
    BY <2>2, <2>3 DEF PutBitmap, Blank
  <2>4. ASSUME NEW e \in Names, DropEvent(t, e) PROVE loc'[t].snap = {} /\ loc'[t].op = "drop"
    BY <2>2, <2>4 DEF DropEvent, Blank
  <2>5. ASSUME NEW x \in Registrations, RegisterEvent(t, x)
        PROVE  loc'[t].snap = {} /\ loc'[t].op = "register"
    BY <2>2, <2>5 DEF RegisterEvent, Blank
  <2>6. CASE Flush(t)
    BY <2>1, <2>2, <2>6, BlankHolds DEF Flush
  <2> QED
    BY <2>1, <2>3, <2>4, <2>5, <2>6
<1>3. promised' = promised
  BY <1>1 DEF Promise
<1>4. UNCHANGED <<mem, disk, promised, live, closed, readOnly>> /\ ~readOnly
  BY <1>1, <1>3 DEF handle, catalog, Writable
<1>5. loc'[t].snap = loc[t].snap
  BY <1>2 DEF Blank
<1> QED
  BY <1>1, <1>2, <1>4, <1>5, SurviveQuiet

(* A return of a call that leaves the buffer, and whose snapshot is either *)
(* durable or no longer promised.                                          *)
LEMMA SurviveReturn ==
  ASSUME Typed, SurviveInv, NEW t \in Threads, Step(t), Typed', Return(t), pc[t] # "idle",
         UNCHANGED mem, disk \subseteq disk', promised' \subseteq promised,
         promised' \cap loc[t].snap \subseteq disk',
         pc[t] = "drain" => mem = {}
  PROVE  SurviveInv'
<1>1. live /\ ~readOnly
  BY StepLive DEF SurviveInv, AllIdle
<1>2. /\ pc'[t] = "idle" /\ loc'[t] = Blank
      /\ \A u \in Threads \ {t} : pc'[u] = pc[u] /\ loc'[u] = loc[u]
  BY Returns
<1>3. promised' \subseteq mem' \cup disk' \cup Others(t)
  BY Flights DEF SurviveInv
<1>4. InFlight' = Others(t)
  BY <1>2, Flights, BlankHolds
<1>5. CASE loc[t].op = "end"
  <2>1. mem = {} /\ AllIdle'
    BY <1>2, <1>5 DEF SurviveInv, LastOne, AllIdle
  <2>2. \A u \in Threads \ {t} : loc[u] = Blank
    BY <1>5 DEF SurviveInv, LastOne, Typed, LocalsOK, LocalInv
  <2>3. Others(t) = {}
    BY <2>2 DEF Others, Blank
  <2> QED
    BY <1>3, <2>1, <2>3, SurviveIdle
<1>6. CASE loc[t].op # "end"
  <2>1. live' /\ ~readOnly' /\ closed' = closed
    BY <1>1, <1>6 DEF Return
  <2>2. closed' /\ ~Closing' => promised' \subseteq disk' \cup InFlight'
    <3>1. CASE pc[t] = "drain"
      BY <1>3, <1>4, <3>1
    <3>2. CASE pc[t] # "drain"
      BY <1>4, <2>1, <3>2, Flights DEF SurviveInv
    <3> QED
      BY <3>1, <3>2
  <2>3. LastOne(t)'
    BY <1>2 DEF LastOne, Blank
  <2> QED
    BY <1>3, <1>4, <2>1, <2>2, <2>3, SurviveOn
<1> QED
  BY <1>5, <1>6

(* ensure_event: a mismatch or the limit ends the call, or it goes on.     *)
LEMMA SurviveResolved ==
  ASSUME Typed, SurviveInv, NEW t \in Threads, Step(t), Typed', pc[t] \in {"ensure", "auto"},
         NEW e \in Names, NEW g, Resolved(t, e, g), UNCHANGED <<mem, disk, promised>>
  PROVE  SurviveInv'
<1>1. live /\ ~readOnly
  BY StepLive DEF SurviveInv, AllIdle
<1>2. LocalInv(pc[t], loc[t]) /\ loc[t] \in Locals /\ loc \in [Threads -> Locals]
  BY DEF Typed, TypeOK, LocalsOK
<1>3. CASE Return(t) /\ loc[t].op = "put"
  <2>1. loc[t].snap = {}
    BY <1>2, <1>3 DEF LocalInv, Flushing
  <2> QED
    BY <1>3, <2>1, SurviveReturn
<1>4. CASE UNCHANGED handle /\ (loc' = loc \/ loc' = [loc EXCEPT ![t].todo = @ \ {e}, ![t].ev = None])
  <2>1. loc'[t].snap = loc[t].snap /\ loc'[t].op = loc[t].op
    BY <1>2, <1>4 DEF Locals
  <2> QED
    BY <1>1, <1>4, <2>1, SurviveQuiet DEF handle
<1> QED
  BY <1>3, <1>4 DEF Resolved

LEMMA SurviveEnsure ==
  ASSUME Typed, SurviveInv, NEW t \in Threads, Step(t), Typed', Promise(t), Ensure(t)
  PROVE  SurviveInv'
<1>1. live /\ (pc[t] # "idle" => ~readOnly)
  BY StepLive DEF SurviveInv, AllIdle
<1>2. LocalInv(pc[t], loc[t]) /\ loc[t] \in Locals /\ loc \in [Threads -> Locals]
  BY DEF Typed, TypeOK, LocalsOK
<1>3. ASSUME NEW e \in Names, EventFound(t, e) PROVE SurviveInv'
  BY <1>3, SurviveResolved DEF EventFound, Promise, catalog
<1>4. ASSUME NEW e \in Names, EventMissing(t, e) PROVE SurviveInv'
  <2>1. UNCHANGED <<mem, disk, promised, live, closed, readOnly>> /\ pc[t] = "ensure"
    BY <1>4 DEF EventMissing, Promise, handle, catalog
  <2>2. loc'[t].snap = loc[t].snap /\ loc'[t].op = loc[t].op
    BY <1>2, <1>4 DEF EventMissing, Locals
  <2> QED
    BY <1>1, <2>1, <2>2, SurviveQuiet
<1>5. CASE CountEvents(t)
  <2>1. UNCHANGED <<mem, disk>> /\ pc[t] = "count"
    BY <1>5 DEF CountEvents, catalog
  <2>2. CASE Return(t)
    <3>1. promised' = promised \ loc[t].snap
      BY <2>1, <2>2, Returns DEF Promise
    <3> QED
      BY <2>1, <2>2, <3>1, SurviveReturn
  <2>3. CASE Goto(t, "auto") /\ UNCHANGED <<loc, handle>>
    <3>1. promised' = promised
      <4>1. pc'[t] = "auto"
        BY <2>3 DEF Goto, Typed, TypeOK
      <4> QED
        BY <2>1, <4>1 DEF Promise
    <3> QED
      BY <1>1, <2>1, <2>3, <3>1, SurviveQuiet DEF handle
  <2> QED
    BY <1>5, <2>2, <2>3 DEF CountEvents
<1>6. CASE AutoRegister(t)
  <2>1. loc[t].ev \in Names
    BY <1>2, <1>6 DEF AutoRegister, LocalInv
  <2> QED
    BY <1>6, <2>1, SurviveResolved DEF AutoRegister, Promise
<1> QED
  BY <1>3, <1>4, <1>5, <1>6 DEF Ensure

LEMMA SurviveFlush ==
  ASSUME Typed, SurviveInv, NEW t \in Threads, Step(t), Typed', Promise(t),
         PutLock(t) \/ NothingToFlush(t) \/ TakeSnapshot(t) \/ FlushSnapshot(t)
  PROVE  SurviveInv'
<1>1. pc[t] \in {"lock", "drain", "commit"} /\ live /\ ~readOnly
  BY StepLive DEF SurviveInv, AllIdle, PutLock, NothingToFlush, TakeSnapshot, FlushSnapshot
<1>2. LocalInv(pc[t], loc[t]) /\ loc[t] \in Locals /\ loc \in [Threads -> Locals]
  BY DEF Typed, TypeOK, LocalsOK
<1>3. CASE PutLock(t)
  <2>1. loc[t].op = "put" /\ loc[t].snap = {} /\ mem' = mem \cup {loc[t].put} /\ disk' = disk
    BY <1>2, <1>3 DEF PutLock, LocalInv, Flushing, catalog
  <2>2. live' /\ ~readOnly' /\ closed' = closed /\ loc'[t] = Blank
    <3>1. CASE Return(t)
      BY <1>1, <2>1, <3>1, Returns, ReturnLives
    <3>2. CASE loc' = [loc EXCEPT ![t] = Blank] /\ UNCHANGED handle
      BY <1>1, <1>2, <3>2 DEF handle
    <3> QED
      BY <1>3, <3>1, <3>2 DEF PutLock
  <2>3. promised' = IF closed THEN promised ELSE promised \cup {loc[t].put}
    BY <1>3 DEF PutLock, Promise
  <2>4. InFlight' = InFlight /\ (Closing => Closing')
    BY <2>1, <2>2, Flights, BlankHolds
  <2>5. promised' \subseteq mem' \cup disk' \cup InFlight'
    BY <2>1, <2>3, <2>4 DEF SurviveInv
  <2>6. closed' /\ ~Closing' => promised' \subseteq disk' \cup InFlight'
    BY <2>1, <2>2, <2>3, <2>4 DEF SurviveInv
  <2>7. LastOne(t)'
    BY <2>2 DEF LastOne, Blank
  <2> QED
    BY <2>2, <2>5, <2>6, <2>7, SurviveOn
<1>4. CASE NothingToFlush(t)
  <2>1. promised' = promised /\ loc[t].snap = {}
    BY <1>2, <1>4 DEF NothingToFlush, Promise, LocalInv
  <2> QED
    BY <1>1, <1>4, <2>1, SurviveReturn DEF NothingToFlush, catalog
<1>5. CASE TakeSnapshot(t)
  <2>1. promised' = promised /\ loc[t].snap = {} /\ mem' = {} /\ disk' = disk /\ UNCHANGED handle
    BY <1>2, <1>5 DEF TakeSnapshot, Promise, LocalInv, catalog
  <2>2. loc'[t].snap = mem /\ loc'[t].op = loc[t].op
    BY <1>2, <1>5 DEF TakeSnapshot, Locals
  <2>3. promised' \subseteq disk' \cup InFlight'
    BY <2>1, <2>2, Flights DEF SurviveInv
  <2>4. LastOne(t)'
    BY <2>1, <2>2, StepAlone DEF SurviveInv, LastOne
  <2> QED
    BY <1>1, <2>1, <2>3, <2>4, SurviveOn DEF handle
<1>6. CASE FlushSnapshot(t)
  <2>1. promised' = promised /\ disk' = disk \cup loc[t].snap
    BY <1>6 DEF FlushSnapshot, Promise
  <2> QED
    BY <1>1, <1>6, <2>1, SurviveReturn DEF FlushSnapshot
<1> QED
  BY <1>3, <1>4, <1>5, <1>6

LEMMA SurviveEvent ==
  ASSUME Typed, SurviveInv, NEW t \in Threads, Step(t), Typed', Promise(t),
         WriteEvent(t) \/ DropLock(t) \/ DropTxn(t)
  PROVE  SurviveInv'
<1>1. pc[t] \in {"register", "drop_lock", "drop_txn"} /\ live /\ ~readOnly
  BY StepLive DEF SurviveInv, AllIdle, WriteEvent, DropLock, DropTxn
<1>2. LocalInv(pc[t], loc[t]) /\ loc[t].op \notin Flushing /\ loc[t].snap = {}
  BY <1>1 DEF Typed, LocalsOK, LocalInv, Flushing
<1>3. CASE WriteEvent(t)
  <2>1. promised' = promised
    BY <1>3 DEF WriteEvent, Promise
  <2> QED
    BY <1>1, <1>2, <1>3, <2>1, SurviveReturn DEF WriteEvent
<1>4. CASE DropLock(t) \/ DropTxn(t)
  <2>1. promised' = Without(promised, loc[t].ev)
    BY <1>4 DEF DropLock, DropTxn, Promise
  <2>2. live' /\ ~readOnly' /\ closed' = closed
    BY <1>1, <1>2, <1>4, ReturnLives DEF DropLock, DropTxn, handle, Flushing
  <2>3. loc'[t].snap = {} /\ loc'[t].op \notin {"end", "close"}
    BY <1>2, <1>4, Returns DEF DropLock, DropTxn, Blank, Flushing
  <2>4. InFlight' = InFlight /\ (Closing => Closing')
    BY <1>1, <1>2, <2>3, Flights
  <2>5. /\ Without(mem, loc[t].ev) \subseteq mem' /\ Without(disk, loc[t].ev) \subseteq disk'
    BY <1>4 DEF DropLock, DropTxn, Without, catalog
  <2>6. promised' \subseteq mem' \cup disk' \cup InFlight'
    BY <2>1, <2>4, <2>5 DEF Without, SurviveInv
  <2>7. closed' /\ ~Closing' => promised' \subseteq disk' \cup InFlight'
    BY <2>1, <2>2, <2>4, <2>5 DEF Without, SurviveInv
  <2>8. LastOne(t)'
    BY <2>3 DEF LastOne
  <2> QED
    BY <2>2, <2>6, <2>7, <2>8, SurviveOn
<1> QED
  BY <1>3, <1>4

LEMMA SurviveEnd ==
  ASSUME Typed, SurviveInv, NEW t \in Threads, Step(t), Typed', Promise(t),
         Close(t) \/ DropHandle(t)
  PROVE  SurviveInv'
<1>1. pc[t] = "idle" /\ live /\ promised' = promised /\ disk' = disk
  BY DEF Close, DropHandle, Promise, Open, catalog
<1>2. loc[t] = Blank /\ loc \in [Threads -> Locals] /\ pc \in [Threads -> Labels]
  BY <1>1 DEF Typed, TypeOK, LocalsOK, LocalInv
<1>3. CASE Close(t) /\ readOnly
  <2>1. UNCHANGED <<pc, loc, mem, disk, promised, live, readOnly>>
    BY <1>1, <1>3 DEF Close
  <2> QED
    BY <1>3, <2>1 DEF SurviveInv, AllIdle, InFlight, Closing, LastOne
<1>4. CASE Close(t) /\ ~readOnly
  <2>1. mem' = mem /\ live' /\ ~readOnly'
    BY <1>1, <1>4 DEF Close
  <2>2. pc'[t] = "drain" /\ loc'[t] = [Blank EXCEPT !.op = "close"]
    BY <1>2, <1>4 DEF Close, Goto
  <2>3. InFlight' = InFlight /\ Closing'
    BY <1>2, <2>2, Flights DEF Blank, Closing
  <2>4. LastOne(t)'
    BY <2>2 DEF LastOne, Blank
  <2> QED
    BY <1>1, <2>1, <2>3, <2>4, SurviveOn DEF SurviveInv
<1>5. CASE DropHandle(t) /\ (closed \/ readOnly)
  <2>1. AllIdle /\ AllIdle'
    BY <1>5 DEF DropHandle, AllIdle
  <2>2. \A u \in Threads : loc[u] = Blank
    BY <2>1 DEF AllIdle, Typed, LocalsOK, LocalInv
  <2>3. InFlight = {} /\ ~Closing
    BY <2>2 DEF InFlight, Closing, Blank
  <2>4. promised' \subseteq disk'
    BY <1>1, <1>5, <2>3 DEF SurviveInv
  <2> QED
    BY <2>1, <2>4, SurviveIdle
<1>6. CASE DropHandle(t) /\ ~closed /\ ~readOnly
  <2>1. mem' = mem /\ live' /\ ~readOnly' /\ ~closed'
    BY <1>1, <1>6 DEF DropHandle
  <2>2. pc'[t] = "drain" /\ loc'[t] = [Blank EXCEPT !.op = "end"]
    BY <1>2, <1>6 DEF DropHandle, Goto
  <2>3. InFlight' = InFlight
    BY <1>2, <2>2, Flights DEF Blank
  <2>4. LastOne(t)'
    BY <1>6, <2>2, StepAlone DEF LastOne, DropHandle
  <2> QED
    BY <1>1, <2>1, <2>3, <2>4, SurviveOn DEF SurviveInv
<1> QED
  BY <1>3, <1>4, <1>5, <1>6

LEMMA SurviveStep == Typed /\ SurviveInv /\ [HNext]_hvars => SurviveInv'
<1> SUFFICES ASSUME Typed, SurviveInv, [HNext]_hvars PROVE SurviveInv'
  OBVIOUS
<1>1. Typed'
  BY TypedHStep
<1>2. ASSUME NEW t \in Threads, Step(t), Promise(t) PROVE SurviveInv'
  BY <1>1, <1>2, SurviveBegin, SurviveEnsure, SurviveFlush, SurviveEvent, SurviveEnd DEF Step
<1>3. CASE Crash /\ promised' = promised \cap disk
  BY <1>1, <1>3, SurviveIdle DEF Crash, AllIdle, catalog
<1>4. CASE OpenHandle /\ UNCHANGED promised
  BY <1>1, <1>4, SurviveIdle DEF OpenHandle, SurviveInv, AllIdle, catalog
<1>5. CASE UNCHANGED hvars
  BY <1>5 DEF hvars, vars, handle, catalog, SurviveInv, AllIdle, InFlight, Closing, LastOne
<1> QED
  BY <1>2, <1>3, <1>4, <1>5 DEF HNext

(* Whatever calls overlap, what a put promised while the handle was open is*)
(* in the buffer, in a flush or on disk, and on disk once the handle is    *)
(* gone (close, Drop, flush_snapshot).                                     *)
THEOREM NoPutLost == HSpec => []PutsSurvive
<1>1. HInit => Typed /\ SurviveInv
  BY TypedInit, SurviveInit DEF HInit
<1>2. Typed /\ SurviveInv /\ [HNext]_hvars => (Typed /\ SurviveInv)'
  BY TypedHStep, SurviveStep
<1>3. SurviveInv => PutsSurvive
  BY DEF SurviveInv, InFlight, PutsSurvive
<1> QED
  BY <1>1, <1>2, <1>3, PTL DEF HSpec
-----------------------------------------------------------------------------
(* Granularities.  An event that no drop or registration of another call   *)
(* has touched stays what the entries of it are, and whoever has looked at *)
(* it may still rely on what it found.                                     *)

Held == mem \cup disk \cup InFlight

(* What t has found out about the event e, and not yet used.               *)
Relies(t, e) ==
  /\ pc[t] = "lock" /\ loc[t].put.ev = e => events[e] = loc[t].put.gran
  /\ pc[t] \in {"count", "auto"} /\ loc[t].ev = e => events[e] \in {None, DefaultGran}
  /\ pc[t] = "drop_txn" /\ loc[t].ev = e => \A x \in mem \cup InFlight : x.ev # e
  /\ pc[t] = "register" /\ loc[t].put.ev = e => events[e] = None

(* A call resolves no event but those it is about.                         *)
Subjects(t) ==
  pc[t] \in {"ensure", "count", "auto"} =>
    /\ loc[t].todo \subseteq About(t)
    /\ pc[t] # "ensure" => loc[t].ev \in About(t)

GranularityInv ==
  /\ \A t \in Threads : Subjects(t)
  /\ \A e \in Names \ torn :
       /\ \A x \in Held : x.ev = e => events[e] = x.gran
       /\ \A t \in Threads : Relies(t, e)

(* What t is about is between t and nobody else, unless the event is torn. *)
LEMMA Apart ==
  ASSUME NEW t \in Threads, NEW u \in Threads, t # u, Tear,
         NEW e \in Names, e \notin torn', e \in About(t), loc[t].op \in {"register", "drop"}
  PROVE  e \notin About(u)
BY DEF Tear

LEMMA AboutCalls ==
  ASSUME Typed, NEW t \in Threads
  PROVE  /\ pc[t] = "lock" => About(t) = {loc[t].put.ev}
         /\ pc[t] = "register" => About(t) = {loc[t].put.ev} /\ loc[t].op = "register"
         /\ pc[t] \in {"drop_lock", "drop_txn"} => About(t) = {loc[t].ev} /\ loc[t].op = "drop"
         /\ \A x \in loc[t].snap : x.ev \in About(t)
<1>1. LocalInv(pc[t], loc[t])
  BY DEF Typed, LocalsOK
<1>2. pc[t] = "idle" => loc[t].snap = {}
  BY <1>1 DEF LocalInv, Blank
<1> QED
  BY <1>1, <1>2 DEF LocalInv, About, Flushing

(* A step that leaves the event as it is and adds no entry of it keeps what*)
(* the entries and the other threads rely on.                              *)
LEMMA GranQuiet ==
  ASSUME Typed, NEW t \in Threads, Step(t), NEW e \in Names,
         \A x \in Held : x.ev = e => events[e] = x.gran,
         \A u \in Threads : Relies(u, e),
         events'[e] = events[e],
         \A x \in Held' : x.ev = e => x \in Held,
         \A x \in (mem \cup InFlight)' : x.ev = e => x \in mem \cup InFlight,
         Relies(t, e)'
  PROVE  /\ \A x \in Held' : x.ev = e => events'[e] = x.gran
         /\ \A u \in Threads : Relies(u, e)'
<1>1. ASSUME NEW u \in Threads \ {t} PROVE Relies(u, e)'
  BY StepAlone DEF Relies
<1> QED
  BY <1>1

(* The entries a step leaves, apart from what the thread's own snapshot is.*)
LEMMA HeldAfter ==
  ASSUME Typed, NEW t \in Threads, Step(t), loc'[t].snap \subseteq mem \cup loc[t].snap,
         mem' \subseteq mem, disk' \subseteq disk \cup loc[t].snap
  PROVE  Held' \subseteq Held /\ (mem \cup InFlight)' \subseteq mem \cup InFlight
BY Flights DEF Held

(* Thread t goes on to a place where it relies on nothing.                 *)
LEMMA RelyFree ==
  ASSUME NEW t, NEW e, pc'[t] \notin {"lock", "count", "auto", "drop_txn", "register"}
  PROVE  Relies(t, e)'
BY DEF Relies

(* The invariant's part about the event e.                                 *)
Matched(e) ==
  /\ \A x \in Held : x.ev = e => events[e] = x.gran
  /\ \A t \in Threads : Relies(t, e)

LEMMA BeginMoves ==
  ASSUME Typed, NEW t \in Threads, NEW l, NEW p, Begin(t, l, p)
  PROVE  /\ pc'[t] = p /\ loc'[t] = l /\ loc[t].snap = {}
         /\ UNCHANGED <<mem, events, disk>>
BY DEF Begin, Goto, catalog, Typed, TypeOK, LocalsOK, LocalInv, Blank

LEMMA GranBegin ==
  ASSUME Typed, Typed', NEW t \in Threads, Step(t),
         NEW e \in Names, Matched(e),
         \/ \E x \in Puts : PutBitmap(t, x)
         \/ \E n \in Names : DropEvent(t, n)
         \/ \E x \in Registrations : RegisterEvent(t, x)
         \/ Flush(t)
  PROVE  Matched(e)'
<1>1. ASSUME NEW l, NEW p, Begin(t, l, p), l.snap = {}, Relies(t, e)'
      PROVE  Matched(e)'
  BY <1>1, BeginMoves, HeldAfter, GranQuiet DEF Matched
<1>2. ASSUME NEW x \in Puts, PutBitmap(t, x) PROVE Matched(e)'
  <2> DEFINE l == [Blank EXCEPT !.op = "put", !.put = x, !.todo = {x.ev}]
  <2>1. l.snap = {}
    BY DEF Blank
  <2>2. Begin(t, l, "ensure")
    BY ONLY <1>2 DEF PutBitmap
  <2> HIDE DEF l
  <2>3. pc'[t] = "ensure"
    BY <2>2, BeginMoves
  <2>4. Relies(t, e)'
    BY <2>3, RelyFree
  <2> QED
    BY <1>1, <2>1, <2>2, <2>4
<1>3. ASSUME NEW n \in Names, DropEvent(t, n) PROVE Matched(e)'
  <2> DEFINE l == [Blank EXCEPT !.op = "drop", !.ev = n]
  <2>1. l.snap = {}
    BY DEF Blank
  <2>2. Begin(t, l, "drop_lock")
    BY ONLY <1>3 DEF DropEvent
  <2> HIDE DEF l
  <2>3. pc'[t] = "drop_lock"
    BY <2>2, BeginMoves
  <2> QED
    BY <1>1, <2>1, <2>2, <2>3, RelyFree
<1>4. ASSUME NEW x \in Registrations, RegisterEvent(t, x) PROVE Matched(e)'
  <2> DEFINE l == [Blank EXCEPT !.op = "register", !.put = x]
  <2>1. l.put = x /\ l.snap = {}
    BY DEF Blank
  <2>2. Begin(t, l, "register") /\ x.ev \notin Registered
    BY ONLY <1>4 DEF RegisterEvent
  <2> HIDE DEF l
  <2>3. pc'[t] = "register" /\ loc'[t] = l /\ events' = events
    BY <2>2, BeginMoves
  <2>4. events'[x.ev] = None
    BY <2>2, <2>3, HandleAssumption DEF Registered, Entry
  <2>5. Relies(t, e)'
    BY <2>1, <2>3, <2>4 DEF Relies
  <2> QED
    BY <1>1, <2>1, <2>2, <2>5
<1>5. CASE Flush(t)
  <2>1. Begin(t, Blank, "drain")
    BY <1>5 DEF Flush
  <2>2. pc'[t] = "drain"
    BY <2>1, BeginMoves
  <2> QED
    BY <1>1, <2>1, <2>2, BlankHolds, RelyFree
<1> QED
  BY <1>2, <1>3, <1>4, <1>5

(* ensure_event goes on with the granularity g that the event now has.     *)
LEMMA GranResolved ==
  ASSUME Typed, Typed', NEW t \in Threads, Step(t), Subjects(t),
         pc[t] \in {"ensure", "auto"}, NEW n \in Names, NEW g, Resolved(t, n, g),
         g = events'[n], loc[t].todo \subseteq About(t), n \in About(t)
  PROVE  /\ \A e \in Names : Relies(t, e)'
         /\ Subjects(t)'
         /\ loc'[t].snap \subseteq loc[t].snap
<1>1. /\ pc \in [Threads -> Labels] /\ loc \in [Threads -> Locals]
      /\ LocalInv(pc[t], loc[t]) /\ loc[t] \in Locals
  BY DEF Typed, TypeOK, LocalsOK
<1>2. CASE Return(t)
  BY <1>2, Returns, BlankHolds, RelyFree DEF Subjects
<1>3. CASE loc[t].op = "put" /\ g = loc[t].put.gran /\ Goto(t, "lock") /\ UNCHANGED loc
  <2>1. pc'[t] = "lock" /\ loc'[t] = loc[t] /\ n = loc[t].put.ev
    BY <1>1, <1>3 DEF Goto, About, Flushing
  <2> QED
    BY <1>3, <2>1 DEF Relies, Subjects
<1>4. CASE /\ loc[t].op # "put" /\ loc' = [loc EXCEPT ![t].todo = @ \ {n}, ![t].ev = None]
           /\ Goto(t, IF loc[t].todo \subseteq {n} THEN "commit" ELSE "ensure")
  <2>1. /\ pc'[t] \in {"commit", "ensure"}
        /\ loc'[t].op = loc[t].op /\ loc'[t].put = loc[t].put /\ loc'[t].snap = loc[t].snap
        /\ loc'[t].todo = loc[t].todo \ {n}
    BY <1>1, <1>4 DEF Goto, Locals
  <2>2. loc[t].op \in Flushing
    BY <1>1, <1>4 DEF LocalInv
  <2>3. About(t)' = About(t)
    BY <2>1, <2>2 DEF About, Flushing
  <2> QED
    BY <2>1, <2>3, RelyFree DEF Subjects
<1> QED
  BY <1>2, <1>3, <1>4 DEF Resolved

LEMMA SubjectsKept ==
  ASSUME Typed, Typed', NEW t \in Threads, Step(t), Subjects(t)
  PROVE  Subjects(t)'
<1>1. /\ pc \in [Threads -> Labels] /\ loc \in [Threads -> Locals]
      /\ LocalInv(pc[t], loc[t]) /\ loc[t] \in Locals
  BY DEF Typed, TypeOK, LocalsOK
<1>2. CASE pc'[t] \notin {"ensure", "count", "auto"}
  BY <1>2 DEF Subjects
<1>3. ASSUME NEW x \in Puts, PutBitmap(t, x) PROVE Subjects(t)'
  <2> DEFINE l == [Blank EXCEPT !.op = "put", !.put = x, !.todo = {x.ev}]
  <2>1. l.op = "put" /\ l.put = x /\ l.todo = {x.ev}
    BY DEF Blank
  <2>2. Begin(t, l, "ensure")
    BY ONLY <1>3 DEF PutBitmap
  <2> HIDE DEF l
  <2>3. pc'[t] = "ensure" /\ loc'[t] = l
    BY <2>2, BeginMoves
  <2> QED
    BY <2>1, <2>3 DEF Subjects, About
<1>4. ASSUME NEW n \in Names, EventFound(t, n) PROVE Subjects(t)'
  <2>1. pc[t] = "ensure" /\ n \in loc[t].todo /\ Resolved(t, n, events'[n])
    BY <1>4 DEF EventFound, catalog
  <2> QED
    BY <2>1, GranResolved DEF Subjects
<1>5. ASSUME NEW n \in Names, EventMissing(t, n) PROVE Subjects(t)'
  <2>1. /\ pc[t] = "ensure" /\ n \in loc[t].todo
        /\ pc'[t] \in {"count", "auto"} /\ loc'[t] = [loc[t] EXCEPT !.ev = n]
    BY <1>1, <1>5 DEF EventMissing, Goto
  <2>2. /\ loc'[t].op = loc[t].op /\ loc'[t].put = loc[t].put /\ loc'[t].snap = loc[t].snap
        /\ loc'[t].todo = loc[t].todo /\ loc'[t].ev = n
    BY <1>1, <2>1 DEF Locals
  <2>3. About(t)' = About(t)
    BY <1>1, <2>1, <2>2 DEF About, LocalInv, Flushing
  <2> QED
    BY <2>1, <2>2, <2>3 DEF Subjects
<1>6. CASE CountEvents(t)
  <2>1. CASE Return(t)
    BY <2>1, Returns DEF Subjects
  <2>2. CASE Goto(t, "auto") /\ UNCHANGED loc
    <3>1. pc'[t] = "auto" /\ loc'[t] = loc[t] /\ pc[t] = "count"
      BY <1>1, <1>6, <2>2 DEF Goto, CountEvents
    <3>2. About(t)' = About(t)
      BY <3>1 DEF About
    <3> QED
      BY <3>1, <3>2 DEF Subjects
  <2> QED
    BY <1>6, <2>1, <2>2 DEF CountEvents
<1>7. CASE AutoRegister(t)
  <2>1. /\ loc[t].ev \in Names /\ pc[t] = "auto" /\ Resolved(t, loc[t].ev, events'[loc[t].ev])
    BY <1>1, <1>7 DEF AutoRegister, LocalInv, Typed, TypeOK
  <2> QED
    BY <2>1, GranResolved DEF Subjects
<1>8. CASE TakeSnapshot(t)
  <2>1. /\ pc[t] = "drain" /\ pc'[t] = "ensure"
        /\ loc'[t] = [loc[t] EXCEPT !.snap = mem, !.todo = {x.ev : x \in mem}]
    BY <1>1, <1>8 DEF TakeSnapshot, Goto
  <2>2. loc'[t].op = loc[t].op /\ loc'[t].snap = mem /\ loc'[t].todo = {x.ev : x \in mem}
    BY <1>1, <2>1 DEF Locals
  <2> QED
    BY <1>1, <2>1, <2>2 DEF Subjects, About, LocalInv, Flushing
<1>9. \/ pc'[t] \notin {"ensure", "count", "auto"}
      \/ \E x \in Puts : PutBitmap(t, x)
      \/ Ensure(t) \/ TakeSnapshot(t)
  <2>1. ASSUME \/ \E e \in Names : DropEvent(t, e)
               \/ \E x \in Registrations : RegisterEvent(t, x)
               \/ Flush(t)
        PROVE  pc'[t] \notin {"ensure", "count", "auto"}
    <3>1. ASSUME NEW e \in Names, DropEvent(t, e) PROVE pc'[t] = "drop_lock"
      <4> DEFINE l == [Blank EXCEPT !.op = "drop", !.ev = e]
      <4>1. Begin(t, l, "drop_lock")
        BY ONLY <3>1 DEF DropEvent
      <4> HIDE DEF l
      <4> QED
        BY <4>1, BeginMoves
    <3>2. ASSUME NEW x \in Registrations, RegisterEvent(t, x) PROVE pc'[t] = "register"
      <4> DEFINE l == [Blank EXCEPT !.op = "register", !.put = x]
      <4>1. Begin(t, l, "register")
        BY ONLY <3>2 DEF RegisterEvent
      <4> HIDE DEF l
      <4> QED
        BY <4>1, BeginMoves
    <3> QED
      BY <2>1, <3>1, <3>2, BeginMoves DEF Flush
  <2>2. ASSUME \/ PutLock(t) \/ NothingToFlush(t) \/ FlushSnapshot(t)
               \/ WriteEvent(t) \/ DropLock(t) \/ DropTxn(t) \/ Close(t) \/ DropHandle(t)
        PROVE  pc'[t] \notin {"ensure", "count", "auto"}
    BY <1>1, <2>2 DEF PutLock, NothingToFlush, FlushSnapshot, WriteEvent, DropLock, DropTxn,
         Close, DropHandle, Return, Goto
  <2> QED
    BY <2>1, <2>2 DEF Step
<1> QED
  BY <1>2, <1>3, <1>4, <1>5, <1>6, <1>7, <1>8, <1>9 DEF Ensure

LEMMA GranEnsure ==
  ASSUME Typed, Typed', NEW t \in Threads, Step(t), Ensure(t), Subjects(t),
         NEW e \in Names, Matched(e), Tear, e \notin torn'
  PROVE  Matched(e)'
<1> USE HandleAssumption
<1>1. /\ pc \in [Threads -> Labels] /\ loc \in [Threads -> Locals] /\ events \in [Names -> Granularities \cup {None}]
      /\ LocalInv(pc[t], loc[t]) /\ loc[t] \in Locals
  BY DEF Typed, TypeOK, LocalsOK
<1>2. ASSUME NEW n \in Names, EventFound(t, n) PROVE Matched(e)'
  <2>1. UNCHANGED <<mem, events, disk>> /\ pc[t] = "ensure" /\ n \in loc[t].todo
        /\ Resolved(t, n, events'[n])
    BY <1>2 DEF EventFound, catalog
  <2>2. loc[t].todo \subseteq About(t) /\ n \in About(t)
    BY <2>1 DEF Subjects
  <2>3. Relies(t, e)' /\ loc'[t].snap \subseteq loc[t].snap
    BY <2>1, <2>2, GranResolved
  <2> QED
    BY <2>1, <2>3, HeldAfter, GranQuiet DEF Matched
<1>3. ASSUME NEW n \in Names, EventMissing(t, n) PROVE Matched(e)'
  <2>1. /\ UNCHANGED <<mem, events, disk>> /\ pc[t] = "ensure" /\ n \in loc[t].todo
        /\ events[n] = None
        /\ pc'[t] \in {"count", "auto"} /\ loc'[t] = [loc[t] EXCEPT !.ev = n]
    BY <1>1, <1>3 DEF EventMissing, catalog, Goto, Registered
  <2>2. /\ loc'[t].op = loc[t].op /\ loc'[t].put = loc[t].put /\ loc'[t].snap = loc[t].snap
        /\ loc'[t].todo = loc[t].todo /\ loc'[t].ev = n
    BY <1>1, <2>1 DEF Locals
  <2>3. Relies(t, e)'
    BY <2>1, <2>2 DEF Relies
  <2> QED
    BY <2>1, <2>2, <2>3, HeldAfter, GranQuiet DEF Matched
<1>4. CASE CountEvents(t)
  <2>1. UNCHANGED <<mem, events, disk>> /\ pc[t] = "count"
    BY <1>4 DEF CountEvents, catalog
  <2>2. CASE Return(t)
    BY <2>1, <2>2, Returns, BlankHolds, RelyFree, HeldAfter, GranQuiet DEF Matched
  <2>3. CASE Goto(t, "auto") /\ UNCHANGED loc
    <3>1. pc'[t] = "auto" /\ loc'[t] = loc[t]
      BY <1>1, <2>3 DEF Goto
    <3>2. Relies(t, e)'
      BY <2>1, <3>1 DEF Relies, Matched
    <3> QED
      BY <2>1, <3>1, <3>2, HeldAfter, GranQuiet DEF Matched
  <2> QED
    BY <1>4, <2>2, <2>3 DEF CountEvents
<1>5. CASE AutoRegister(t)
  <2> DEFINE n == loc[t].ev
  <2>1. /\ n \in Names /\ UNCHANGED <<mem, disk>> /\ pc[t] = "auto"
        /\ events' = [events EXCEPT ![n] = DefaultGran] /\ Resolved(t, n, events'[n])
    BY <1>1, <1>5 DEF AutoRegister, LocalInv
  <2>2. Relies(t, e)' /\ loc'[t].snap \subseteq loc[t].snap
    BY <2>1, GranResolved DEF Subjects
  <2>3. Held' \subseteq Held /\ (mem \cup InFlight)' \subseteq mem \cup InFlight
    BY <2>1, <2>2, HeldAfter
  <2>4. CASE e # n
    BY <1>1, <2>1, <2>2, <2>3, <2>4, GranQuiet DEF Matched
  <2>5. CASE e = n
    <3>1. events[e] \in {None, DefaultGran} /\ events'[e] = DefaultGran
      BY <1>1, <2>1, <2>5 DEF Matched, Relies
    <3>2. \A x \in Held : x.gran # None
      BY DEF Held, InFlight, Typed, TypeOK, Locals, Entry
    <3>3. \A x \in Held' : x.ev = e => events'[e] = x.gran
      BY <2>3, <3>1, <3>2 DEF Matched
    <3>4. ASSUME NEW u \in Threads \ {t} PROVE Relies(u, e)'
      <4>1. pc'[u] = pc[u] /\ loc'[u] = loc[u] /\ LocalInv(pc[u], loc[u])
        BY StepAlone DEF Typed, LocalsOK
      <4>2. pc[u] = "lock" => loc[u].put.gran # None
        BY <4>1 DEF LocalInv, Entry
      <4>3. ~(pc[u] = "register" /\ loc[u].put.ev = e)
        <5>1. e \in About(t)
          BY <2>1, <2>5 DEF Subjects
        <5> QED
          BY <5>1, Apart, AboutCalls
      <4> QED
        BY <2>3, <3>1, <4>1, <4>2, <4>3 DEF Matched, Relies
    <3> QED
      BY <2>2, <3>3, <3>4 DEF Matched
  <2> QED
    BY <2>4, <2>5
<1> QED
  BY <1>2, <1>3, <1>4, <1>5 DEF Ensure

(* A call returns with no more than it held.                               *)
LEMMA GranReturn ==
  ASSUME Typed, NEW t \in Threads, Step(t), Return(t),
         NEW e \in Names, Matched(e), UNCHANGED <<mem, events>>, disk' \subseteq disk \cup loc[t].snap
  PROVE  Matched(e)'
<1>1. pc'[t] = "idle" /\ loc'[t] = Blank
  BY Returns
<1> QED
  BY <1>1, BlankHolds, HeldAfter, GranQuiet, RelyFree DEF Matched

LEMMA GranFlush ==
  ASSUME Typed, Typed', NEW t \in Threads, Step(t), Tear,
         PutLock(t) \/ NothingToFlush(t) \/ TakeSnapshot(t) \/ FlushSnapshot(t),
         NEW e \in Names, Matched(e), e \notin torn'
  PROVE  Matched(e)'
<1>1. /\ pc \in [Threads -> Labels] /\ loc \in [Threads -> Locals]
      /\ LocalInv(pc[t], loc[t]) /\ loc[t] \in Locals
  BY DEF Typed, TypeOK, LocalsOK
<1>2. CASE PutLock(t)
  <2>1. /\ pc[t] = "lock" /\ mem' = mem \cup {loc[t].put} /\ UNCHANGED <<events, disk>>
        /\ loc[t].op = "put" /\ loc[t].snap = {}
    BY <1>1, <1>2 DEF PutLock, catalog, LocalInv, Flushing
  <2>2. pc'[t] \in {"idle", "drain"} /\ loc'[t] = Blank
    BY <1>1, <1>2, Returns DEF PutLock, Goto
  <2>3. Relies(t, e)'
    BY <2>2, RelyFree
  <2>4. InFlight' = InFlight
    BY <2>1, <2>2, BlankHolds, Flights
  <2>5. CASE e # loc[t].put.ev
    BY <2>1, <2>3, <2>4, <2>5, GranQuiet DEF Matched, Held
  <2>6. CASE e = loc[t].put.ev
    <3>1. events[e] = loc[t].put.gran
      BY <2>1, <2>6 DEF Matched, Relies
    <3>2. \A x \in Held' : x.ev = e => events'[e] = x.gran
      BY <2>1, <2>4, <3>1 DEF Matched, Held
    <3>3. ASSUME NEW u \in Threads \ {t} PROVE Relies(u, e)'
      <4>1. pc'[u] = pc[u] /\ loc'[u] = loc[u]
        BY StepAlone
      <4>2. ~(pc[u] = "drop_txn" /\ loc[u].ev = e)
        BY <2>1, <2>6, AboutCalls, Apart
      <4> QED
        BY <2>1, <4>1, <4>2 DEF Matched, Relies
    <3> QED
      BY <2>3, <3>2, <3>3 DEF Matched
  <2> QED
    BY <2>5, <2>6
<1>3. CASE NothingToFlush(t)
  BY <1>3, GranReturn DEF NothingToFlush, catalog
<1>4. CASE TakeSnapshot(t)
  <2>1. /\ pc[t] = "drain" /\ mem' = {} /\ UNCHANGED <<events, disk>> /\ pc'[t] = "ensure"
        /\ loc'[t] = [loc[t] EXCEPT !.snap = mem, !.todo = {x.ev : x \in mem}]
    BY <1>1, <1>4 DEF TakeSnapshot, catalog, Goto
  <2>2. /\ loc'[t].op = loc[t].op /\ loc'[t].snap = mem /\ loc'[t].todo = {x.ev : x \in mem}
    BY <1>1, <2>1 DEF Locals
  <2>3. Held' \subseteq Held /\ (mem \cup InFlight)' \subseteq mem \cup InFlight
    BY <2>1, <2>2, HeldAfter
  <2> QED
    BY <2>1, <2>3, RelyFree, GranQuiet DEF Matched
<1>5. CASE FlushSnapshot(t)
  BY <1>5, GranReturn DEF FlushSnapshot
<1> QED
  BY <1>2, <1>3, <1>4, <1>5

LEMMA GranEvent ==
  ASSUME Typed, Typed', NEW t \in Threads, Step(t), Tear,
         WriteEvent(t) \/ DropLock(t) \/ DropTxn(t), \A u \in Threads : Subjects(u),
         NEW e \in Names, Matched(e), e \notin torn'
  PROVE  Matched(e)'
<1>1. /\ pc \in [Threads -> Labels] /\ loc \in [Threads -> Locals] /\ events \in [Names -> Granularities \cup {None}]
      /\ LocalInv(pc[t], loc[t]) /\ loc[t] \in Locals
  BY DEF Typed, TypeOK, LocalsOK
<1>2. ASSUME NEW u \in Threads \ {t}
      PROVE  pc'[u] = pc[u] /\ loc'[u] = loc[u] /\ \A x \in loc[u].snap : x.ev \in About(u)
  BY StepAlone, AboutCalls
<1>3. CASE WriteEvent(t)
  <2> DEFINE x == loc[t].put
  <2>1. /\ pc[t] = "register" /\ events' = [events EXCEPT ![x.ev] = x.gran]
        /\ UNCHANGED <<mem, disk>> /\ Return(t) /\ x.ev \in Names /\ x.gran # None
    BY <1>1, <1>3, HandleAssumption DEF WriteEvent, LocalInv, Entry
  <2>2. pc'[t] = "idle" /\ loc'[t] = Blank
    BY <2>1, Returns
  <2>3. Relies(t, e)'
    BY <2>2, RelyFree
  <2>4. Held' \subseteq Held /\ (mem \cup InFlight)' \subseteq mem \cup InFlight
    BY <2>1, <2>2, BlankHolds, HeldAfter
  <2>5. CASE e # x.ev
    BY <1>1, <2>1, <2>3, <2>4, <2>5, GranQuiet DEF Matched
  <2>6. CASE e = x.ev
    <3>1. events[e] = None
      BY <2>1, <2>6 DEF Matched, Relies
    <3>2. \A y \in Held : y.gran # None
      BY HandleAssumption DEF Held, InFlight, Typed, TypeOK, Locals, Entry
    <3>3. \A y \in Held' : y.ev = e => events'[e] = y.gran
      BY <2>4, <3>1, <3>2 DEF Matched
    <3>4. ASSUME NEW u \in Threads \ {t} PROVE Relies(u, e)'
      <4>1. e \notin About(u)
        BY <2>1, <2>6, AboutCalls, Apart
      <4>2. pc[u] \in {"count", "auto"} /\ Subjects(u) => loc[u].ev # e
        BY <4>1 DEF Subjects
      <4> QED
        BY <1>2, <4>1, <4>2, AboutCalls DEF Relies
    <3> QED
      BY <2>3, <3>3, <3>4 DEF Matched
  <2> QED
    BY <2>5, <2>6
<1>4. CASE DropLock(t)
  <2>1. /\ pc[t] = "drop_lock" /\ mem' = Without(mem, loc[t].ev) /\ UNCHANGED <<events, disk, loc>>
        /\ pc'[t] = "drop_txn"
    BY <1>1, <1>4 DEF DropLock, catalog, Goto
  <2>2. Held' \subseteq Held /\ (mem \cup InFlight)' \subseteq mem \cup InFlight
    BY <2>1, HeldAfter DEF Without
  <2>3. loc[t].snap = {}
    BY <1>1, <2>1 DEF LocalInv, Flushing
  <2>4. loc[t].ev = e => \A x \in (mem \cup InFlight)' : x.ev # e
    <3>1. ASSUME loc[t].ev = e, NEW u \in Threads \ {t}, NEW x \in loc[u].snap PROVE x.ev # e
      BY <1>2, <2>1, <3>1, AboutCalls, Apart
    <3>2. loc[t].ev = e => \A x \in InFlight : x.ev # e
      BY <2>3, <3>1 DEF InFlight
    <3> QED
      BY <2>1, <3>2 DEF Without, InFlight
  <2> QED
    BY <2>1, <2>2, <2>4, GranQuiet DEF Matched, Relies
<1>5. CASE DropTxn(t)
  <2> DEFINE n == loc[t].ev
  <2>1. /\ pc[t] = "drop_txn" /\ events' = [events EXCEPT ![n] = None]
        /\ disk' = Without(disk, n) /\ mem' = mem /\ Return(t) /\ n \in Names
    BY <1>1, <1>5 DEF DropTxn, LocalInv
  <2>2. pc'[t] = "idle" /\ loc'[t] = Blank
    BY <2>1, Returns
  <2>3. Relies(t, e)'
    BY <2>2, RelyFree
  <2>4. Held' \subseteq Held /\ (mem \cup InFlight)' \subseteq mem \cup InFlight
    BY <2>1, <2>2, BlankHolds, HeldAfter DEF Without
  <2>5. CASE e # n
    BY <1>1, <2>1, <2>3, <2>4, <2>5, GranQuiet DEF Matched
  <2>6. CASE e = n
    <3>1. events'[e] = None /\ \A x \in mem \cup InFlight : x.ev # e
      BY <1>1, <2>1, <2>6 DEF Matched, Relies
    <3>2. \A x \in Held' : x.ev # e
      BY <2>1, <2>4, <2>6, <3>1 DEF Held, Without
    <3>3. ASSUME NEW u \in Threads \ {t} PROVE Relies(u, e)'
      <4>1. ~(pc[u] = "lock" /\ loc[u].put.ev = e)
        BY <2>1, <2>6, AboutCalls, Apart
      <4> QED
        BY <1>2, <2>4, <3>1, <4>1 DEF Relies
    <3> QED
      BY <2>3, <3>2, <3>3 DEF Matched
  <2> QED
    BY <2>5, <2>6
<1> QED
  BY <1>3, <1>4, <1>5

LEMMA GranEnd ==
  ASSUME Typed, NEW t \in Threads, Step(t), Close(t) \/ DropHandle(t),
         NEW e \in Names, Matched(e)
  PROVE  Matched(e)'
<1>1. pc[t] = "idle" /\ UNCHANGED <<events, disk>> /\ mem' \subseteq mem
  BY DEF Close, DropHandle, catalog
<1>2. pc \in [Threads -> Labels] /\ loc \in [Threads -> Locals] /\ loc[t] = Blank
  BY <1>1 DEF Typed, TypeOK, LocalsOK, LocalInv
<1>3. pc'[t] \in {"idle", "drain"} /\ loc'[t].snap = {}
  BY <1>1, <1>2 DEF Close, DropHandle, Goto, Blank
<1> QED
  BY <1>1, <1>3, HeldAfter, GranQuiet, RelyFree DEF Matched

LEMMA GranInit == HInit => GranularityInv
BY BlankHolds DEF HInit, Init, GranularityInv, Held, InFlight, Relies, Subjects

LEMMA GranStep == Typed /\ GranularityInv /\ [HNext]_hvars => GranularityInv'
<1> SUFFICES ASSUME Typed, GranularityInv, [HNext]_hvars PROVE GranularityInv'
  OBVIOUS
<1>1. Typed'
  BY TypedHStep
<1>2. (\A t \in Threads : Subjects(t)) /\ \A e \in Names \ torn : Matched(e)
  BY DEF GranularityInv, Matched
<1>3. ASSUME \A t \in Threads : Subjects(t)', torn \subseteq torn',
             \A e \in Names : e \notin torn' => Matched(e)'
      PROVE  GranularityInv'
  BY <1>3 DEF GranularityInv, Matched
<1>4. ASSUME NEW t \in Threads, Step(t), Tear PROVE GranularityInv'
  <2>1. torn \subseteq torn'
    BY <1>4 DEF Tear
  <2>2. ASSUME NEW u \in Threads PROVE Subjects(u)'
    <3>1. CASE u = t
      BY <1>1, <1>2, <1>4, <3>1, SubjectsKept
    <3>2. CASE u # t
      BY <1>2, <1>4, <3>2, StepAlone DEF Subjects, About
    <3> QED
      BY <3>1, <3>2
  <2>3. ASSUME NEW e \in Names, e \notin torn' PROVE Matched(e)'
    <3>1. Matched(e)
      BY <1>2, <2>1, <2>3
    <3> QED
      BY <1>1, <1>2, <1>4, <2>3, <3>1, GranBegin, GranEnsure, GranFlush, GranEvent, GranEnd DEF Step
  <2> QED
    BY <1>3, <2>1, <2>2, <2>3
<1>5. CASE Crash /\ Tear
  <2>1. /\ torn \subseteq torn' /\ mem' = {} /\ UNCHANGED <<events, disk>>
        /\ \A t \in Threads : pc'[t] = "idle" /\ loc'[t].snap = {}
    BY <1>5, BlankHolds DEF Crash, Tear, catalog
  <2>2. Held' \subseteq Held
    BY <2>1 DEF Held, InFlight
  <2>3. \A e \in Names, t \in Threads : Relies(t, e)'
    BY <2>1, RelyFree
  <2> QED
    BY <1>2, <1>3, <2>1, <2>2, <2>3 DEF Matched, Subjects
<1>6. CASE (OpenHandle /\ Tear) \/ UNCHANGED hvars
  <2>1. torn \subseteq torn' /\ UNCHANGED <<mem, catalog, pc, loc>>
    BY <1>6 DEF OpenHandle, Tear, hvars, vars
  <2>2. UNCHANGED <<mem, events, disk, pc, loc>>
    BY <2>1 DEF catalog
  <2>3. Held' = Held /\ InFlight' = InFlight
    BY <2>2 DEF Held, InFlight
  <2>4. \A t \in Threads : Subjects(t)'
    BY <1>2, <2>2 DEF Subjects, About
  <2>5. \A e \in Names : \A t \in Threads : Relies(t, e) => Relies(t, e)'
    BY <2>2, <2>3 DEF Relies
  <2> QED
    BY <1>2, <1>3, <2>1, <2>2, <2>3, <2>4, <2>5 DEF Matched
<1> QED
  BY <1>4, <1>5, <1>6 DEF HNext

(* Entries in the buffer, in a flush and on disk have the finest           *)
(* granularity of their event, however many puts and flushes validate,     *)
(* register and write it in whatever order, unless the event was dropped or*)
(* registered while another call was about it (validate_granularity,       *)
(* ensure_event, flush_snapshot, drop_event).                              *)
THEOREM GranularitiesKept == HSpec => []GranularitiesMatch
<1>1. HInit => Typed /\ GranularityInv
  BY TypedInit, GranInit DEF HInit
<1>2. Typed /\ GranularityInv /\ [HNext]_hvars => (Typed /\ GranularityInv)'
  BY TypedHStep, GranStep
<1>3. Typed /\ GranularityInv => GranularitiesMatch
  BY DEF GranularityInv, GranularitiesMatch, Held, InFlight, Typed, TypeOK, Locals, Entry
<1> QED
  BY <1>1, <1>2, <1>3, PTL DEF HSpec

=============================================================================
