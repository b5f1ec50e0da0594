------------------------------ MODULE MergeLoop ------------------------------
(***************************************************************************)
(* The loop of merge_parts (merge.rs), which ReadIndex::build and the slow *)
(* path of InoxSet::get repeat: sort data and delta parts together by id,  *)
(* then OR in each data part and subtract each delta part.                 *)
(***************************************************************************)
EXTENDS PartFold

CONSTANTS
  PartIds,  \* part ids
  Ids       \* members of a bitmap

ASSUME MergeAssumption == PartIds \subseteq Nat

Part == [id : PartIds, kind : {"data", "delta"}]

VARIABLES
  input,    \* the parts to merge
  content,  \* the bitmap in each part's file
  done,     \* the parts the loop has folded in
  merged    \* the accumulator

mergeVars == <<input, content, done, merged>>

(* A part id belongs to one part.                                          *)
UniqueIds(P) == \A p, q \in P : p.id = q.id => p = q

MergeTypeOK ==
  /\ input \subseteq Part
  /\ content \in [Part -> SUBSET Ids]
  /\ done \subseteq input
  /\ merged \subseteq Ids

MergeInit ==
  /\ input \in SUBSET Part
  /\ UniqueIds(input)
  /\ content \in [Part -> SUBSET Ids]
  /\ done = {}
  /\ merged = {}

(* A slip: all data parts come before the deltas.                          *)
IsNextDataFirst(p) == p.kind = "delta" => \A q \in input \ done : q.kind = "delta"

(* sort_unstable_by_key(|(id, _, _)| *id)                                  *)
IsNext(p) == \A q \in input \ done : p.id <= q.id

Apply(p) == IF p.kind = "delta" THEN merged \ content[p] ELSE merged \cup content[p]

FoldPart(p) ==
  /\ p \in input \ done
  /\ IsNext(p)
  /\ merged' = Apply(p)
  /\ done' = done \cup {p}
  /\ UNCHANGED <<input, content>>

Finished == done = input /\ UNCHANGED mergeVars

MergeNext == (\E p \in input : FoldPart(p)) \/ Finished

MergeSpec == MergeInit /\ [][MergeNext]_mergeVars

-----------------------------------------------------------------------------
(* What the loop has computed is the closed form of the parts it has seen: *)
(* a bit is in it iff some data part holds it and no later delta does, so  *)
(* a delta never erases a bit that a later put brought back.  At the end   *)
(* that is the merged bitmap of the whole input.                           *)
LoopComputesFold == merged = Fold(done, content)

(* The parts still to come are newer than those folded in.                 *)
DoneIsOlder == \A p \in done, q \in input \ done : p.id < q.id
=============================================================================
