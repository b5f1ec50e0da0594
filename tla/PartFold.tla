------------------------------ MODULE PartFold ------------------------------
(***************************************************************************)
(* How the part files of one period combine into a bitmap.  A part is a    *)
(* record with an id, a kind ("data" or "delta") and a key; its bitmap is  *)
(* given by a function from parts to sets of ids.                          *)
(*                                                                         *)
(* merge.rs, read_index.rs and the slow path of InoxSet::get all sort the  *)
(* parts by id and fold over them: a data part ORs in, a delta part        *)
(* subtracts.  Fold is the closed form of that loop, which MergeLoop has    *)
(* step by step.                                                           *)
(***************************************************************************)
EXTENDS Naturals

Data(P) == {p \in P : p.kind = "data"}

(* The tombstones that reach part p: deltas written after it.              *)
DeltasAfter(P, p) == {q \in P : q.kind = "delta" /\ q.id > p.id}

(* What is left of part p once the later tombstones are applied.           *)
Surviving(P, p, bits) == bits[p] \ UNION {bits[q] : q \in DeltasAfter(P, p)}

(* The merged bitmap: what survives of some data part.                     *)
Fold(P, bits) == UNION {Surviving(P, p, bits) : p \in Data(P)}
=============================================================================
