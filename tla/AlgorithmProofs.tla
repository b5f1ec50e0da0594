-------------------------- MODULE AlgorithmProofs --------------------------
(* The loop of merge_parts computes Fold, for any set of parts with unique *)
(* ids and any contents; and serialized_contains decides membership on     *)
(* every well-formed file, and neither panics nor affirms a foreign value  *)
(* on a file cut short.                                                    *)
EXTENDS MergeLoop, ContainerSearch, PartFoldProofs

-----------------------------------------------------------------------------
(* The merge loop.                                                         *)

MergeInv == MergeTypeOK /\ UniqueIds(input) /\ DoneIsOlder /\ LoopComputesFold

LEMMA MergeInvInit == MergeInit => MergeInv
BY DEF MergeInit, MergeInv, MergeTypeOK, UniqueIds, DoneIsOlder, LoopComputesFold, Fold, Data

LEMMA MergeInvStep == MergeInv /\ [MergeNext]_mergeVars => MergeInv'
<1> SUFFICES ASSUME MergeInv, [MergeNext]_mergeVars PROVE MergeInv'
  OBVIOUS
<1>1. ASSUME NEW p \in input, FoldPart(p) PROVE MergeInv'
  <2> USE MergeAssumption
  <2>1. p \in input \ done /\ p \notin done
    BY <1>1 DEF FoldPart
  <2>2. p.id \in Nat /\ p.kind \in {"data", "delta"} /\ \A q \in input : q.id \in Nat
    BY <2>1 DEF MergeInv, MergeTypeOK, Part
  <2>3. \A q \in done : q.id < p.id
    BY <2>1 DEF MergeInv, DoneIsOlder
  <2>4. \A q \in input \ (done \cup {p}) : p.id < q.id
    BY <1>1, <2>1, <2>2 DEF FoldPart, IsNext, MergeInv, UniqueIds
  <2>5. LoopComputesFold'
    <3>1. Fold(done \cup {p}, content) =
            IF p.kind = "delta" THEN Fold(done, content) \ content[p]
                                ELSE Fold(done, content) \cup content[p]
      BY <2>1, <2>2, <2>3, FoldNewest DEF MergeInv, MergeTypeOK
    <3> QED
      BY <1>1, <3>1 DEF FoldPart, Apply, MergeInv, LoopComputesFold
  <2>6. DoneIsOlder'
    BY <1>1, <2>3, <2>4 DEF FoldPart, MergeInv, DoneIsOlder
  <2>7. MergeTypeOK' /\ UniqueIds(input)'
    <3>1. merged' \subseteq Ids
      BY <1>1, <2>1 DEF FoldPart, Apply, MergeInv, MergeTypeOK
    <3> QED
      BY <1>1, <3>1 DEF FoldPart, MergeInv, MergeTypeOK, UniqueIds
  <2> QED
    BY <2>5, <2>6, <2>7 DEF MergeInv
<1>2. CASE UNCHANGED mergeVars
  BY <1>2 DEF mergeVars, MergeInv, MergeTypeOK, UniqueIds, DoneIsOlder, LoopComputesFold
<1> QED
  BY <1>1, <1>2 DEF MergeNext, Finished

(* merge_parts computes Fold: at every iteration the accumulator is the    *)
(* closed form of the parts folded so far, whatever the parts are.         *)
THEOREM MergeIsFold == MergeSpec => []LoopComputesFold
<1>1. MergeInv => LoopComputesFold
  BY DEF MergeInv
<1> QED
  BY <1>1, MergeInvInit, MergeInvStep, PTL DEF MergeSpec
-----------------------------------------------------------------------------
(* The search in a part file.                                              *)

SearchTypeOK ==
  /\ file \in Files
  /\ len \in 0 .. file.size
  /\ value \in Values
  /\ probe \in {"header", "containers", "offset", "array", "bitmap", "yes", "no", "panic"}
  /\ lo \in Nat /\ hi \in Nat /\ found \in Nat

(* A container with the value's key lies within the bounds of the search.  *)
KeyWithin ==
  /\ len >= DescEnd(file)
  /\ hi <= file.n
  /\ \A i \in Containers(file) : file.key[i] = value.hi => lo <= i /\ i < hi

(* The container found is the only one that may hold the value.            *)
Found == found \in Containers(file) /\ file.key[found] = value.hi

(* So does the value's low half in the array found.                        *)
LowWithin ==
  /\ IsArray(file, found)
  /\ InFile(file.offset[found], DataSize(file, found))
  /\ hi <= file.card[found]
  /\ \A j \in 0 .. file.card[found] - 1 : file.low[found][j] = value.lo => lo <= j /\ j < hi

BitsWithin ==
  /\ ~IsArray(file, found)
  /\ InFile(file.offset[found], DataSize(file, found))

SearchInv ==
  /\ SearchTypeOK
  /\ probe = "containers" => KeyWithin
  /\ probe \in {"offset", "array", "bitmap"} => Found
  /\ probe = "array" => LowWithin
  /\ probe = "bitmap" => BitsWithin
  /\ SearchIsMembership

(* The middle of a non-empty interval lies in it.                          *)
LEMMA MiddleBetween ==
  ASSUME NEW a \in Nat, NEW b \in Nat, a < b
  PROVE  LET mid == a + (b - a) \div 2 IN mid \in Nat /\ a <= mid /\ mid < b
OBVIOUS

(* Keys are unique, so membership is decided in the container found.       *)
LEMMA FoundDecides ==
  ASSUME NEW f, WellFormed(f), NEW v \in Values, NEW i \in Containers(f), f.key[i] = v.hi
  PROVE  Holds(f, v) <=> v.lo \in Contents(f, i)
<1>1. f.n \in Nat /\ f.key \in [Containers(f) -> 0 .. Highs - 1]
  BY DEF WellFormed
<1>2. \A j \in Containers(f) : f.key[j] = v.hi => j = i
  <2> SUFFICES ASSUME NEW j \in Containers(f), f.key[j] = v.hi, j # i PROVE FALSE
    OBVIOUS
  <2>1. j \in Int /\ i \in Int /\ f.key[j] \in Int /\ f.key[i] \in Int
    BY <1>1 DEF Containers
  <2>2. (j < i => f.key[j] < f.key[i]) /\ (i < j => f.key[i] < f.key[j])
    BY DEF WellFormed
  <2> QED
    BY <2>1, <2>2
<1> QED
  BY <1>2 DEF Holds

LEMMA SearchStart == SearchInit => SearchInv
BY DEF SearchInit, SearchInv, SearchTypeOK, SearchIsMembership

LEMMA SearchStep == SearchInv /\ [SearchNext]_searchVars => SearchInv'
<1> SUFFICES ASSUME SearchInv, [SearchNext]_searchVars PROVE SearchInv'
  OBVIOUS
<1> USE SearchAssumption
<1>t. SearchTypeOK /\ WellFormed(file)
  BY DEF SearchInv, SearchTypeOK
<1>n. /\ file.n \in Nat /\ file.size \in Nat /\ len \in Nat /\ len <= file.size
      /\ lo \in Nat /\ hi \in Nat
      /\ DescEnd(file) + 4 * file.n <= file.size
      /\ \A i \in Containers(file) : /\ i \in Nat /\ i < file.n
                                     /\ file.key[i] \in Nat
                                     /\ file.card[i] \in Nat
                                     /\ file.offset[i] \in Nat
  BY <1>t, SMTT(30) DEF SearchTypeOK, WellFormed, Containers
<1>v. value.hi \in Nat /\ value.lo \in Nat /\ value.lo <= Lows - 1 /\ value \in Values
  BY <1>t DEF SearchTypeOK, Values
<1>1. ASSUME TooShort PROVE SearchInv'
  <2>1. len = file.size => file.n = 0
    BY <1>1, <1>n DEF TooShort, DescEnd, DescStart
  <2>2. file.n = 0 => ~Holds(file, value)
    BY <1>n DEF Holds, Containers
  <2> QED
    BY <1>1, <1>t, <2>1, <2>2 DEF TooShort, SearchInv, SearchTypeOK, SearchIsMembership
<1>2. ASSUME ReadHeader PROVE SearchInv'
  <2>1. KeyWithin'
    BY <1>2, <1>n DEF ReadHeader, KeyWithin, Containers, DescEnd
  <2> QED
    BY <1>2, <1>t, <1>n, <2>1 DEF ReadHeader, SearchInv, SearchTypeOK, SearchIsMembership
<1>3. ASSUME CompareKey PROVE SearchInv'
  <2>1. KeyWithin
    BY <1>3 DEF CompareKey, SearchInv
  <2>2. Middle \in Nat /\ lo <= Middle /\ Middle < hi /\ Middle \in Containers(file)
    BY <1>3, <1>n, <2>1, MiddleBetween DEF CompareKey, Middle, KeyWithin, Containers
  <2>3. InFile(DescStart + 4 * Middle, 2)
    BY <1>n, <2>1, <2>2 DEF InFile, KeyWithin, DescEnd, DescStart, Containers
  <2>4. probe' = IF file.key[Middle] = value.hi THEN "offset" ELSE "containers"
    BY <1>3, <2>3 DEF CompareKey, Reading
  <2>5. SearchTypeOK'
    BY <1>3, <1>t, <2>2, <2>4 DEF CompareKey, SearchTypeOK
  <2>6. CASE file.key[Middle] = value.hi
    BY <1>3, <2>2, <2>4, <2>5, <2>6
    DEF CompareKey, SearchInv, Found, SearchIsMembership
  <2>7. CASE file.key[Middle] # value.hi
    <3>1. \A i \in Containers(file) : file.key[i] = value.hi =>
            /\ file.key[Middle] < value.hi => Middle + 1 <= i
            /\ file.key[Middle] > value.hi => i < Middle
      <4> SUFFICES ASSUME NEW i \in Containers(file), file.key[i] = value.hi
                   PROVE  /\ file.key[Middle] < value.hi => Middle + 1 <= i
                          /\ file.key[Middle] > value.hi => i < Middle
        OBVIOUS
      <4>1. /\ i < Middle => file.key[i] < file.key[Middle]
            /\ Middle < i => file.key[Middle] < file.key[i]
        BY <1>t, <2>2 DEF WellFormed
      <4>2. i \in Nat /\ file.key[i] \in Nat /\ file.key[Middle] \in Nat
        BY <1>n, <2>2
      <4> QED
        BY <2>2, <2>7, <4>1, <4>2
    <3>2. file.key[Middle] \in Nat
      BY <1>n, <2>2
    <3>3. hi' <= file.n
      BY <1>3, <1>n, <2>1, <2>2 DEF CompareKey, KeyWithin
    <3>4. \A i \in Containers(file) : file.key[i] = value.hi => lo' <= i /\ i < hi'
      BY <1>3, <1>v, <2>1, <3>1, <3>2 DEF CompareKey, KeyWithin
    <3>5. KeyWithin'
      BY <1>3, <2>1, <3>3, <3>4 DEF CompareKey, KeyWithin
    <3> QED
      BY <1>3, <2>4, <2>5, <2>7, <3>5 DEF CompareKey, SearchInv, SearchIsMembership
  <2> QED
    BY <2>6, <2>7
<1>4. ASSUME NoContainer PROVE SearchInv'
  <2>1. ~Holds(file, value)
    BY <1>4, <1>n DEF NoContainer, SearchInv, KeyWithin, Holds
  <2> QED
    BY <1>4, <1>t, <2>1 DEF NoContainer, SearchInv, SearchTypeOK, SearchIsMembership
<1>5. ASSUME ReadOffset PROVE SearchInv'
  <2>1. Found
    BY <1>5 DEF ReadOffset, SearchInv
  <2>2. found \in Nat /\ found < file.n /\ file.card[found] \in Nat
    BY <1>n, <2>1 DEF Found
  <2>3. SearchTypeOK' /\ Found'
    BY <1>5, <1>t, <2>1, <2>2 DEF ReadOffset, SearchTypeOK, Found
  <2>4. CASE Truncated
    <3>1. len # file.size
      <4>1. file.offset[found] + DataSize(file, found) <= file.size
        BY <1>t, <2>1 DEF WellFormed, Found
      <4> QED
        BY <2>2, <2>4, <1>n, <4>1 DEF Truncated, InFile, DescEnd, DescStart
    <3> QED
      BY <1>5, <2>3, <2>4, <3>1 DEF ReadOffset, SearchInv, SearchIsMembership
  <2>5. CASE ~Truncated /\ IsArray(file, found)
    <3>1. LowWithin'
      BY <1>5, <2>2, <2>5 DEF ReadOffset, Truncated, LowWithin, InFile
    <3> QED
      BY <1>5, <2>3, <2>5, <3>1 DEF ReadOffset, SearchInv, SearchIsMembership
  <2>6. CASE ~Truncated /\ ~IsArray(file, found)
    <3>1. BitsWithin'
      BY <1>5, <2>6 DEF ReadOffset, Truncated, BitsWithin, InFile
    <3> QED
      BY <1>5, <2>3, <2>6, <3>1 DEF ReadOffset, SearchInv, SearchIsMembership
  <2> QED
    BY <2>4, <2>5, <2>6
<1>6. ASSUME CompareLow PROVE SearchInv'
  <2>1. LowWithin /\ Found
    BY <1>6 DEF CompareLow, SearchInv
  <2>2. file.card[found] \in Nat /\ file.offset[found] \in Nat
    BY <1>n, <2>1 DEF Found
  <2>3. Middle \in Nat /\ lo <= Middle /\ Middle < hi /\ Middle \in 0 .. file.card[found] - 1
    BY <1>6, <1>n, <2>1, <2>2, MiddleBetween DEF CompareLow, Middle, LowWithin
  <2>4. InFile(file.offset[found] + 2 * Middle, 2)
    BY <1>n, <2>1, <2>2, <2>3 DEF InFile, LowWithin, DataSize
  <2>5. probe' = IF file.low[found][Middle] = value.lo THEN "yes" ELSE "array"
    BY <1>6, <2>4 DEF CompareLow, Reading
  <2>6. SearchTypeOK'
    BY <1>6, <1>t, <2>3, <2>5 DEF CompareLow, SearchTypeOK
  <2>7. CASE file.low[found][Middle] = value.lo
    <3>1. Holds(file, value)
      BY <1>t, <1>v, <2>1, <2>3, <2>7, FoundDecides DEF Found, Contents, LowWithin
    <3> QED
      BY <1>6, <2>5, <2>6, <2>7, <3>1 DEF CompareLow, SearchInv, SearchIsMembership, Holds, Contents
  <2>8. CASE file.low[found][Middle] # value.lo
    <3>1. /\ \A j \in 0 .. file.card[found] - 1 : file.low[found][j] \in Nat
          /\ \A j, k \in 0 .. file.card[found] - 1 :
               j < k => file.low[found][j] < file.low[found][k]
      <4>1. /\ file.low[found] \in [0 .. file.card[found] - 1 -> 0 .. Lows - 1]
            /\ \A j, k \in 0 .. file.card[found] - 1 :
                 j < k => file.low[found][j] < file.low[found][k]
        BY <1>t, <2>1 DEF WellFormed, Found, LowWithin
      <4>2. \A x \in 0 .. Lows - 1 : x \in Nat
        OBVIOUS
      <4> QED
        BY <4>1, <4>2
    <3>2. \A j \in 0 .. file.card[found] - 1 : file.low[found][j] = value.lo =>
            /\ file.low[found][Middle] < value.lo => Middle + 1 <= j
            /\ file.low[found][Middle] > value.lo => j < Middle
      <4> SUFFICES ASSUME NEW j \in 0 .. file.card[found] - 1, file.low[found][j] = value.lo
                   PROVE  /\ file.low[found][Middle] < value.lo => Middle + 1 <= j
                          /\ file.low[found][Middle] > value.lo => j < Middle
        OBVIOUS
      <4>1. /\ j < Middle => file.low[found][j] < file.low[found][Middle]
            /\ Middle < j => file.low[found][Middle] < file.low[found][j]
        BY <2>3, <3>1
      <4>2. j \in Nat /\ file.low[found][Middle] \in Nat
        BY <2>3, <3>1
      <4> QED
        BY <1>v, <2>3, <2>8, <4>1, <4>2
    <3>3. file.low[found][Middle] \in Nat
      BY <2>3, <3>1
    <3>4. hi' <= file.card[found]
      BY <1>6, <1>n, <2>1, <2>2, <2>3 DEF CompareLow, LowWithin
    <3>5. \A j \in 0 .. file.card[found] - 1 :
            file.low[found][j] = value.lo => lo' <= j /\ j < hi'
      BY <1>6, <1>v, <2>1, <3>2, <3>3 DEF CompareLow, LowWithin
    <3>6. LowWithin' /\ Found'
      BY <1>6, <2>1, <3>4, <3>5 DEF CompareLow, LowWithin, Found, InFile
    <3> QED
      BY <1>6, <2>5, <2>6, <2>8, <3>6 DEF CompareLow, SearchInv, SearchIsMembership
  <2> QED
    BY <2>7, <2>8
<1>7. ASSUME NotInArray PROVE SearchInv'
  <2>1. LowWithin /\ Found
    BY <1>7 DEF NotInArray, SearchInv
  <2>2. value.lo \notin Contents(file, found)
    BY <1>7, <1>n, <2>1 DEF NotInArray, LowWithin, Contents
  <2>3. ~Holds(file, value)
    BY <1>t, <1>v, <2>1, <2>2, FoundDecides DEF Found
  <2> QED
    BY <1>7, <1>t, <2>3 DEF NotInArray, SearchInv, SearchTypeOK, SearchIsMembership
<1>8. ASSUME TestBit PROVE SearchInv'
  <2>1. BitsWithin /\ Found
    BY <1>8 DEF TestBit, SearchInv
  <2>2. file.offset[found] \in Nat
    BY <1>n, <2>1 DEF Found
  <2>3. InFile(file.offset[found] + value.lo \div 8, 1)
    BY <1>n, <1>v, <2>1, <2>2 DEF InFile, BitsWithin, DataSize, BitmapBytes
  <2>4. Holds(file, value) <=> value.lo \in file.bits[found]
    BY <1>t, <1>v, <2>1, FoundDecides DEF Found, Contents, BitsWithin
  <2> QED
    BY <1>8, <1>t, <2>3, <2>4 DEF TestBit, SearchInv, SearchTypeOK, SearchIsMembership
<1>9. CASE Answered \/ UNCHANGED searchVars
  BY <1>9 DEF Answered, searchVars, SearchInv, SearchTypeOK, SearchIsMembership, KeyWithin,
              Found, LowWithin, BitsWithin, InFile
<1> QED
  BY <1>1, <1>2, <1>3, <1>4, <1>5, <1>6, <1>7, <1>8, <1>9 DEF SearchNext

(* serialized_contains on a whole file is membership, and on a truncated   *)
(* one it neither reads past the end nor finds what is not there: for any  *)
(* files, any numbers of containers and any limit of array containers.     *)
THEOREM SearchCorrect == SearchSpec => []SearchIsMembership
<1>1. SearchInv => SearchIsMembership
  BY DEF SearchInv
<1> QED
  BY <1>1, SearchStart, SearchStep, PTL DEF SearchSpec
=============================================================================
