--------------------------- MODULE ContainerSearch ---------------------------
(***************************************************************************)
(* serialized_contains (part_store.rs): membership of one value decided on *)
(* the bytes of a part file.  A binary search over the containers' keys,   *)
(* then a search in the one container that may hold the value.             *)
(*                                                                         *)
(* A file is what its fields say plus their addresses; the caller may have *)
(* only its first `len` bytes, and an access beyond them panics.  Files    *)
(* with run containers, which the roaring crate in use never writes, are   *)
(* left out.                                                               *)
(***************************************************************************)
EXTENDS Integers

CONSTANTS
  Files,     \* part files as the roaring crate writes them
  Highs,     \* containers a bitmap may have, 2^16
  Lows,      \* values per container, 2^16
  ArrayMax   \* the largest array container, 4096

(* Containers of a file are numbered from 0.                               *)
Containers(f) == 0 .. f.n - 1

DescStart == 8
DescEnd(f) == DescStart + 4 * f.n

BitmapBytes == Lows \div 8

IsArray(f, i) == f.card[i] <= ArrayMax

(* The bytes of container i.                                               *)
DataSize(f, i) == IF IsArray(f, i) THEN 2 * f.card[i] ELSE BitmapBytes

(* The low halves that container i holds.                                  *)
Contents(f, i) ==
  IF IsArray(f, i) THEN {f.low[i][j] : j \in 0 .. f.card[i] - 1} ELSE f.bits[i]

Holds(f, v) == \E i \in Containers(f) : f.key[i] = v.hi /\ v.lo \in Contents(f, i)

Values == [hi : 0 .. Highs - 1, lo : 0 .. Lows - 1]

(* Keys ascend, arrays ascend, and every field lies within the file.       *)
WellFormed(f) ==
  /\ f.n \in Nat /\ f.size \in Nat
  /\ f.key \in [Containers(f) -> 0 .. Highs - 1]
  /\ f.card \in [Containers(f) -> 1 .. Lows]
  /\ f.offset \in [Containers(f) -> Nat]
  /\ DescEnd(f) + 4 * f.n <= f.size
  /\ \A i, j \in Containers(f) : i < j => f.key[i] < f.key[j]
  /\ \A i \in Containers(f) :
       /\ f.offset[i] + DataSize(f, i) <= f.size
       /\ IF IsArray(f, i)
          THEN /\ f.low[i] \in [0 .. f.card[i] - 1 -> 0 .. Lows - 1]
               /\ \A j, k \in 0 .. f.card[i] - 1 : j < k => f.low[i][j] < f.low[i][k]
          ELSE f.bits[i] \subseteq 0 .. Lows - 1

ASSUME SearchAssumption ==
  /\ Highs \in Nat /\ Lows \in Nat /\ Lows % 8 = 0 /\ ArrayMax \in Nat
  /\ \A f \in Files : WellFormed(f)

VARIABLES
  file,   \* the file
  len,    \* how many of its bytes there are
  value,  \* the value looked for, in two halves
  probe,  \* "header", "containers", "offset", "array" or "bitmap", then "yes", "no" or "panic"
  lo, hi, \* the bounds of the running binary search
  found   \* the container that may hold the value

searchVars == <<file, len, value, probe, lo, hi, found>>

SearchInit ==
  /\ file \in Files
  /\ len \in 0 .. file.size
  /\ value \in Values
  /\ probe = "header"
  /\ lo = 0 /\ hi = 0 /\ found = 0

(* data[a .. a + w] is there.                                              *)
InFile(a, w) == a + w <= len

(* Two bytes at a are read: without them the slice index panics.           *)
Reading(a, next) == probe' = IF InFile(a, 2) THEN next ELSE "panic"

Middle == lo + (hi - lo) \div 2

TooShort ==
  /\ probe = "header"
  /\ len < DescStart \/ file.n = 0 \/ len < DescEnd(file)
  /\ probe' = "no"
  /\ UNCHANGED <<file, len, value, lo, hi, found>>

(* A slip: the descriptors are not looked for before they are read.        *)
ReadHeaderOnly ==
  /\ probe = "header"
  /\ len >= DescStart /\ file.n # 0
  /\ probe' = "containers"
  /\ lo' = 0 /\ hi' = file.n
  /\ UNCHANGED <<file, len, value, found>>

ReadHeader ==
  /\ probe = "header"
  /\ len >= DescStart /\ file.n # 0 /\ len >= DescEnd(file)
  /\ probe' = "containers"
  /\ lo' = 0 /\ hi' = file.n
  /\ UNCHANGED <<file, len, value, found>>

(* A slip: the lower bound does not pass the middle.                       *)
CompareKeyAgain ==
  /\ probe = "containers" /\ lo < hi
  /\ LET key == file.key[Middle] IN
     /\ Reading(DescStart + 4 * Middle, IF key = value.hi THEN "offset" ELSE "containers")
     /\ found' = IF key = value.hi THEN Middle ELSE found
     /\ lo' = IF key < value.hi THEN Middle ELSE lo
     /\ hi' = IF key > value.hi THEN Middle ELSE hi
  /\ UNCHANGED <<file, len, value>>

CompareKey ==
  /\ probe = "containers" /\ lo < hi
  /\ LET key == file.key[Middle] IN
     /\ Reading(DescStart + 4 * Middle, IF key = value.hi THEN "offset" ELSE "containers")
     /\ found' = IF key = value.hi THEN Middle ELSE found
     /\ lo' = IF key < value.hi THEN Middle + 1 ELSE lo
     /\ hi' = IF key > value.hi THEN Middle ELSE hi
  /\ UNCHANGED <<file, len, value>>

NoContainer ==
  /\ probe = "containers" /\ lo >= hi
  /\ probe' = "no"
  /\ UNCHANGED <<file, len, value, lo, hi, found>>

(* The offset header and the container's data may be missing.              *)
Truncated ==
  \/ ~InFile(DescEnd(file) + 4 * found, 4)
  \/ ~InFile(file.offset[found], DataSize(file, found))

ReadOffset ==
  /\ probe = "offset"
  /\ probe' = IF Truncated THEN "no"
              ELSE IF IsArray(file, found) THEN "array" ELSE "bitmap"
  /\ lo' = 0 /\ hi' = file.card[found]
  /\ UNCHANGED <<file, len, value, found>>

CompareLow ==
  /\ probe = "array" /\ lo < hi
  /\ LET low == file.low[found][Middle] IN
     /\ Reading(file.offset[found] + 2 * Middle, IF low = value.lo THEN "yes" ELSE "array")
     /\ lo' = IF low < value.lo THEN Middle + 1 ELSE lo
     /\ hi' = IF low > value.lo THEN Middle ELSE hi
  /\ UNCHANGED <<file, len, value, found>>

NotInArray ==
  /\ probe = "array" /\ lo >= hi
  /\ probe' = "no"
  /\ UNCHANGED <<file, len, value, lo, hi, found>>

TestBit ==
  /\ probe = "bitmap"
  /\ probe' = IF ~InFile(file.offset[found] + value.lo \div 8, 1) THEN "panic"
              ELSE IF value.lo \in file.bits[found] THEN "yes" ELSE "no"
  /\ UNCHANGED <<file, len, value, lo, hi, found>>

Answered == probe \in {"yes", "no"} /\ UNCHANGED searchVars

SearchNext ==
  \/ TooShort \/ ReadHeader
  \/ CompareKey \/ NoContainer
  \/ ReadOffset
  \/ CompareLow \/ NotInArray
  \/ TestBit
  \/ Answered

SearchSpec == SearchInit /\ [][SearchNext]_searchVars

(* The search runs on its caller's thread.                                 *)
FairSearchSpec == SearchSpec /\ WF_searchVars(SearchNext)

-----------------------------------------------------------------------------
(* Properties.                                                             *)

(* serialized_contains on a whole file answers whether the file holds the  *)
(* value; on a file cut short anywhere it never reads past the end (it     *)
(* would panic) and never affirms a value the file does not hold:          *)
(* "Returns false for empty or malformed data (no panic, no error)".       *)
SearchIsMembership ==
  /\ probe # "panic"
  /\ probe = "yes" => Holds(file, value)
  /\ probe = "no" /\ len = file.size => ~Holds(file, value)

(* Both binary searches come to an end on every file.                      *)
SearchEnds == <>(probe \in {"yes", "no", "panic"})
=============================================================================
