--------------------------- MODULE PartFoldProofs ---------------------------
(* Facts about the fold of part files, for any parts and contents.         *)
EXTENDS PartFold, TLAPS

(* Folding in one part that is newer than all others adds its bits or      *)
(* removes them: the body of the loop in merge_parts.                      *)
LEMMA FoldNewest ==
  ASSUME NEW P, NEW p, NEW bits, p \notin P,
         p.id \in Nat, \A q \in P : q.id \in Nat /\ q.id < p.id,
         p.kind \in {"data", "delta"}
  PROVE  Fold(P \cup {p}, bits) =
           IF p.kind = "delta" THEN Fold(P, bits) \ bits[p]
                               ELSE Fold(P, bits) \cup bits[p]
<1> DEFINE Q == P \cup {p}
<1>1. CASE p.kind = "delta"
  <2>1. Data(Q) = Data(P)
    BY <1>1 DEF Data
  <2>2. ASSUME NEW q \in Data(P)
        PROVE  Surviving(Q, q, bits) = Surviving(P, q, bits) \ bits[p]
    <3>1. DeltasAfter(Q, q) = DeltasAfter(P, q) \cup {p}
      BY <1>1, <2>2 DEF Data, DeltasAfter
    <3> QED
      BY <3>1 DEF Surviving
  <2>3. ASSUME NEW x
        PROVE  x \in Fold(Q, bits) <=> x \in Fold(P, bits) \ bits[p]
    <3> HIDE DEF Q
    <3> QED
      BY <2>1, <2>2 DEF Fold
  <2>4. Fold(Q, bits) = Fold(P, bits) \ bits[p]
    BY <2>3
  <2> QED
    BY <1>1, <2>4
<1>2. CASE p.kind = "data"
  <2>1. Data(Q) = Data(P) \cup {p}
    BY <1>2 DEF Data
  <2>2. \A q \in Q : DeltasAfter(Q, q) = DeltasAfter(P, q)
    BY <1>2 DEF DeltasAfter
  <2>3. DeltasAfter(Q, p) = {}
    BY <1>2 DEF DeltasAfter
  <2>4. Surviving(Q, p, bits) = bits[p]
    BY <2>3 DEF Surviving
  <2>5. \A q \in Data(P) : Surviving(Q, q, bits) = Surviving(P, q, bits)
    BY <2>2 DEF Surviving, Data
  <2> QED
    BY <1>2, <2>1, <2>4, <2>5 DEF Fold
<1> QED
  BY <1>1, <1>2

(* A fold holds nothing but what the files hold.                           *)
LEMMA FoldWithin ==
  ASSUME NEW P, NEW bits, NEW S, \A p \in P : bits[p] \subseteq S
  PROVE  Fold(P, bits) \subseteq S
BY DEF Fold, Surviving, Data

(* An id is in the fold if some data part has it and no later delta.       *)
LEMMA FoldMember ==
  ASSUME NEW P, NEW bits, NEW x
  PROVE  x \in Fold(P, bits) <=>
           \E p \in P : /\ p.kind = "data" /\ x \in bits[p]
                       /\ \A q \in P : q.kind = "delta" /\ q.id > p.id => x \notin bits[q]
<1>1. \A p : x \in Surviving(P, p, bits) <=>
               x \in bits[p] /\ \A q \in P : q.kind = "delta" /\ q.id > p.id => x \notin bits[q]
  <2> SUFFICES ASSUME NEW p
               PROVE  x \in Surviving(P, p, bits) <=>
                        x \in bits[p] /\ \A q \in P : q.kind = "delta" /\ q.id > p.id => x \notin bits[q]
    OBVIOUS
  <2> DEFINE D == DeltasAfter(P, p)
  <2>1. \A q : q \in D <=> q \in P /\ q.kind = "delta" /\ q.id > p.id
    BY DEF DeltasAfter
  <2>2. Surviving(P, p, bits) = bits[p] \ UNION {bits[q] : q \in D}
    BY DEF Surviving
  <2> HIDE DEF D
  <2> QED
    BY <2>1, <2>2
<1>2. x \in Fold(P, bits) <=> \E p \in Data(P) : x \in Surviving(P, p, bits)
  BY DEF Fold
<1> QED
  BY <1>1, <1>2 DEF Data

(* A batch of data parts D and deltas E that is newer than the parts in P, *)
(* data parts before deltas: the parts of a flush.                         *)
IsBatch(P, D, E) ==
  /\ \A p \in P \cup D \cup E : p.id \in Nat
  /\ \A p \in D : p.kind = "data"
  /\ \A p \in E : p.kind = "delta"
  /\ \A p \in P, q \in D \cup E : p.id < q.id
  /\ \A p \in D, q \in E : p.id < q.id

BitsOf(P, bits) == UNION {bits[p] : p \in P}

(* Folding it in adds the bits of D, then subtracts those of E: the loop of*)
(* merge_parts over those parts.                                           *)
LEMMA FoldBatch ==
  ASSUME NEW P, NEW D, NEW E, NEW bits, IsBatch(P, D, E)
  PROVE  Fold(P \cup D \cup E, bits) = (Fold(P, bits) \cup BitsOf(D, bits)) \ BitsOf(E, bits)
<1> USE DEF IsBatch
<1> DEFINE Q == P \cup D \cup E
           U == BitsOf(D, bits)
           V == BitsOf(E, bits)
<1>1. ASSUME NEW x PROVE x \in Fold(Q, bits) <=> (x \in Fold(P, bits) \/ x \in U) /\ x \notin V
  <2>1. x \in U <=> \E p \in D : x \in bits[p]
    BY DEF BitsOf
  <2>2. x \in V <=> \E p \in E : x \in bits[p]
    BY DEF BitsOf
  <2>3. \A p, q \in Q : q.id > p.id <=> p.id < q.id
    OBVIOUS
  <2>4. \A p, q \in Q : ~(p.id < q.id /\ q.id < p.id)
    OBVIOUS
  <2>5. x \in Fold(P, bits) <=>
           \E p \in P : /\ p.kind = "data" /\ x \in bits[p]
                       /\ \A q \in P : q.kind = "delta" /\ p.id < q.id => x \notin bits[q]
    BY <2>3, FoldMember
  <2>6. x \in Fold(Q, bits) <=>
           \E p \in Q : /\ p.kind = "data" /\ x \in bits[p]
                       /\ \A q \in Q : q.kind = "delta" /\ p.id < q.id => x \notin bits[q]
    BY <2>3, FoldMember
  <2> HIDE DEF U, V
  <2>7. ASSUME x \in Fold(Q, bits) PROVE (x \in Fold(P, bits) \/ x \in U) /\ x \notin V
    <3>1. PICK p \in Q : /\ p.kind = "data" /\ x \in bits[p]
                         /\ \A q \in Q : q.kind = "delta" /\ p.id < q.id => x \notin bits[q]
      BY <2>6, <2>7
    <3>2. p \in P \cup D /\ \A q \in E : p.id < q.id
      BY <3>1
    <3> QED
      BY <2>1, <2>2, <2>5, <3>1, <3>2
  <2>8. ASSUME x \in Fold(P, bits) \/ x \in U, x \notin V PROVE x \in Fold(Q, bits)
    <3>1. CASE x \in U
      <4>1. PICK p \in D : x \in bits[p]
        BY <2>1, <3>1
      <4>2. \A q \in Q : q.kind = "delta" /\ p.id < q.id => q \in E
        BY <2>4
      <4> QED
        BY <2>2, <2>6, <2>8, <4>1, <4>2
    <3>2. CASE x \in Fold(P, bits)
      BY <2>2, <2>5, <2>6, <2>8, <3>2
    <3> QED
      BY <2>8, <3>1, <3>2
  <2> QED
    BY <2>7, <2>8
<1> HIDE DEF Q, U, V
<1>2. Fold(Q, bits) = (Fold(P, bits) \cup U) \ V
  BY <1>1
<1> QED
  BY <1>2 DEF Q, U, V
=============================================================================
