-------------------------- MODULE EntitiesHistory --------------------------
(***************************************************************************)
(* Entities with history variables, for what the calls promise: putTo is   *)
(* where names were ever put, alone tells of a running call whether it has *)
(* had the store to itself since it began, and clean whether the buffer    *)
(* was empty when it began.                                                *)
(***************************************************************************)
EXTENDS Entities

VARIABLES putTo, alone, clean

history == <<putTo, alone, clean>>
hvars == <<vars, history>>

HInit ==
  /\ Init
  /\ putTo = [k \in Keys |-> {}]
  /\ alone = [t \in Threads |-> FALSE]
  /\ clean = [t \in Threads |-> FALSE]

OthersIdle(t) == \A u \in Threads \ {t} : pc[u] = "idle"

(* A step of t ends the solitude of every other thread's call.             *)
Observe(t) ==
  /\ alone' = [u \in Threads |-> IF u # t THEN FALSE
                                 ELSE IF pc[t] = "idle" THEN OthersIdle(t)
                                 ELSE alone[t] /\ pc'[t] # "idle"]
  /\ clean' = [clean EXCEPT ![t] = IF pc[t] = "idle" THEN BufferEmpty
                                   ELSE @ /\ pc'[t] # "idle"]

HPut(t) ==
  \E k \in Keys, N \in (SUBSET Names) \ {{}} :
    /\ PutIds(t, k, N)
    /\ putTo' = [putTo EXCEPT ![k] = @ \cup N]
    /\ Observe(t)

HStep(t) == Step(t) /\ Observe(t) /\ UNCHANGED putTo

HCrash ==
  /\ CrashAndOpen
  /\ alone' = [t \in Threads |-> FALSE]
  /\ clean' = [t \in Threads |-> FALSE]
  /\ UNCHANGED putTo

HNext == (\E t \in Threads : HPut(t) \/ HStep(t)) \/ HCrash

HSpec == HInit /\ [][HNext]_hvars

-----------------------------------------------------------------------------
(* Properties.                                                             *)

(* No entity shows up where it was never put: neither the bits of a key,   *)
(* wherever they are on their way from the buffer to the index, nor an     *)
(* answer of get_ids resolve to a name that put_ids was never given for    *)
(* that key, through deletions, new assignments, stale ids and crashes.    *)
NoStrangers ==
  /\ \A k \in Keys : \A i \in stored[k] \cup mem[k] \cup cache[k] :
       rev[i] \in putTo[k] \cup {NoName}
  /\ \A t \in Threads : pc[t] = "answered" /\ loc[t].op = "get"
       => \A k \in loc[t].keys : loc[t].names \subseteq putTo[k]

(* The keys that hold the entity: flushed or buffered, and not removed.    *)
HeldAt(I) == (Holding(cache, I) \cup Holding(mem, I)) \ Holding(memDel, I)

AnsweredAlone(t, op) == pc[t] = "answered" /\ loc[t].op = op /\ alone[t]

(* What the buffer holds is always seen without an inverted index, except  *)
(* for an event that no rebuild has listed.                                *)
AllIndexed == BufferEmpty \/ (mode = "disabled" /\ events = known)

(* contains_id and find_memberships answer exactly when no other call runs *)
(* meanwhile (three reads of the buffer, the index and the dictionary): in *)
(* disabled mode, and in frozen mode when everything is flushed.           *)
AnswersExact ==
  \A t \in Threads :
    LET held == HeldAt(Resolved(loc[t].names)) IN
    /\ AnsweredAlone(t, "contains") /\ (AllIndexed \/ mode = "disabled")
         => (loc[t].yes <=> loc[t].keys \subseteq held)
    /\ AnsweredAlone(t, "find") /\ AllIndexed => loc[t].found = held

(* delete_entity leaves no live bit of an entity that was flushed, in      *)
(* either mode, after any history of crashes and racing calls.             *)
FlushedAreErased ==
  \A t \in Threads :
    AnsweredAlone(t, "erase") /\ clean[t] => HeldAt(loc[t].ids) = {}

(* "No trace of external_id remains in the store" (delete_entity).         *)
NoTraceRemains ==
  \A t \in Threads : AnsweredAlone(t, "erase") => HeldAt(loc[t].ids) = {}

-----------------------------------------------------------------------------
(* Why NoStrangers holds: every id among the bits of a key, or carried     *)
(* there by a call, was given once, and to a name put there.               *)

Owned(k, I) == \A i \in I : i < nextId /\ rev[i] \in putTo[k] \cup {NoName}

Asking ==
  {"find", "find_id", "find_overlay", "find_buffer", "find_check", "find_tombstones",
   "erase_next", "contains_id", "contains_buffer", "bit_buffer", "bit_cache",
   "bit_tombstone"}

CarriesOwned(t) ==
  /\ \A k \in Keys : Owned(k, loc[t].bits[k])
  /\ loc[t].op \in {"put", "get"} =>
       \A k \in loc[t].keys : loc[t].keys = {k} /\ Owned(k, loc[t].ids)
  /\ pc[t] \in {"assign", "put_lock"} => loc[t].op = "put"
  /\ pc[t] \in {"get_bits", "get_names"} => loc[t].op = "get"
  /\ pc[t] \in Asking => loc[t].op \notin {"put", "get"}
  /\ pc[t] = "assign" \/ (pc[t] = "answered" /\ loc[t].op = "get") =>
       \A k \in loc[t].keys : loc[t].names \subseteq putTo[k]

BitsOwned ==
  /\ putTo \in [Keys -> SUBSET Names]
  /\ \A k \in Keys : Owned(k, stored[k]) /\ Owned(k, mem[k]) /\ Owned(k, cache[k])
  /\ \A t \in Threads : CarriesOwned(t)
=============================================================================
