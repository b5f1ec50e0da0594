--------------------------- MODULE WriteBackStore ---------------------------
(***************************************************************************)
(* What the engine promises its callers, without parts, catalog, buffer or *)
(* cache: a map from keys to sets of ids.  Puts and removes change the     *)
(* content at once; a flush fixes a target, the content of that moment, and*)
(* a commit makes the whole target durable; a crash falls back to what is  *)
(* durable, which is therefore always the content of one past moment.      *)
(***************************************************************************)
CONSTANTS
  Keys, Ids, Ancestors,
  PutBatches,     \* the sets of periods that one put writes
  RemoveBatches,  \* the sets of periods that one remove writes
  Overwrites      \* what one replacement or deletion stores: bitmaps, by period

VARIABLES
  content,  \* what the calls so far have made of each key
  target,   \* what the write under way will make durable
  durable   \* what a crash leaves

vars == <<content, target, durable>>

Cover(K) == K \cup UNION {Ancestors[k] : k \in K}

Init ==
  /\ content = [k \in Keys |-> {}]
  /\ target = content
  /\ durable = content

(* A write to the periods in K reaches all of them and their ancestors.    *)
Put(K, b) ==
  /\ content' = [j \in Keys |-> IF j \in Cover(K) THEN content[j] \cup b ELSE content[j]]
  /\ UNCHANGED <<target, durable>>

Remove(K, b) ==
  /\ content' = [j \in Keys |-> IF j \in Cover(K) THEN content[j] \ b ELSE content[j]]
  /\ UNCHANGED <<target, durable>>

(* A flush: everything written so far is to become durable, at once.       *)
Flush ==
  /\ target = durable
  /\ target' = content
  /\ UNCHANGED <<content, durable>>

Overwritten(f, new) == [j \in Keys |-> IF j \in DOMAIN new THEN new[j] ELSE f[j]]

(* Replacing the bitmaps of some periods; deleting is replacing by {}.     *)
Replace(new) ==
  /\ target = durable
  /\ content' = Overwritten(content, new)
  /\ target' = Overwritten(target, new)
  /\ UNCHANGED durable

Commit ==
  /\ durable' = target
  /\ UNCHANGED <<content, target>>

Crash ==
  /\ content' = durable
  /\ target' = durable
  /\ UNCHANGED durable

Step ==
  \/ Commit
  \/ \E K \in PutBatches, b \in SUBSET Ids : Put(K, b)
  \/ \E K \in RemoveBatches, b \in SUBSET Ids : Remove(K, b)
  \/ \E new \in Overwrites : Replace(new)
  \/ Flush

Next == Step \/ Crash

Spec == Init /\ [][Next]_vars
=============================================================================
