---------------------------- MODULE MCAlgorithms ----------------------------
(* The loops that one call runs to the end on its own thread: Calendar,    *)
(* MergeLoop and ContainerSearch, one of them in each behaviour.           *)
EXTENDS Calendar, MergeLoop, ContainerSearch, FiniteSets, SequencesExt

-----------------------------------------------------------------------------
(* Calendar on ranges around every kind of boundary.                       *)

Read(first, last) == [call |-> "read", finest |-> "Hour", first |-> first, last |-> last]
Write(first, last) == [call |-> "write", finest |-> first.g, first |-> first, last |-> last]

(* The epoch, ends of months and years, leap days of 1900, 2000 and 2024,  *)
(* the limit of 8784 hours met and exceeded, and the last year of 16 bits. *)
InOrder ==
  {<<Hour(1969, 12, 30, 22), Hour(1970, 1, 2, 3)>>,
   <<Hour(2024, 1, 1, 0), Hour(2024, 12, 31, 23)>>,
   <<Hour(2023, 12, 31, 23), Hour(2024, 12, 31, 23)>>,
   <<Hour(65535, 12, 30, 20), Hour(65535, 12, 31, 23)>>,
   <<Day(1900, 2, 20), Day(1900, 3, 5)>>,
   <<Day(1969, 11, 20), Day(1970, 3, 5)>>,
   <<Day(1999, 12, 20), Day(2001, 3, 5)>>,
   <<Day(2023, 1, 1), Day(2026, 12, 31)>>,
   <<Month(1969, 1), Month(2030, 12)>>,
   <<Month(65530, 6), Month(65535, 12)>>,
   <<Year(1960), Year(2400)>>,
   <<Year(65500), Year(65535)>>}

Bad ==
  {<<Day(2023, 3, 1), Day(2023, 2, 28)>>,
   <<Day(2023, 2, 27), Day(2023, 2, 30)>>,
   <<Month(2023, 11), Month(2023, 13)>>,
   <<Hour(2023, 1, 1, 0), Hour(2023, 1, 1, 24)>>,
   <<Month(2023, 1), Year(2023)>>,
   <<Static, Static>>,
   <<Static, Year(2023)>>}

RangeRequests ==
  {Read(r[1], r[2]) : r \in InOrder \cup Bad} \cup {Write(r[1], r[2]) : r \in InOrder \cup Bad}

-----------------------------------------------------------------------------
(* MergeLoop on every mix of up to four parts.                             *)

PartIdsUpTo4 == 1..4

-----------------------------------------------------------------------------
(* ContainerSearch on files of up to three containers.                     *)

(* The file of a bitmap given as a function from keys to sets of low halves: *)
(* header, descriptors, offsets, then the containers in order of their keys. *)
FileOf(b) ==
  LET keys    == SetToSortSeq(DOMAIN b, <)
      n       == Len(keys)
      Card(i) == Cardinality(b[keys[i + 1]])
      Bytes(i) == IF Card(i) <= ArrayMax THEN 2 * Card(i) ELSE BitmapBytes
      ends[i \in -1 .. n - 1] == IF i < 0 THEN DescStart + 8 * n ELSE ends[i - 1] + Bytes(i)
      Sorted(i) == SetToSortSeq(b[keys[i + 1]], <)
  IN [n |-> n,
      size |-> ends[n - 1],
      key |-> [i \in 0 .. n - 1 |-> keys[i + 1]],
      card |-> [i \in 0 .. n - 1 |-> Card(i)],
      offset |-> [i \in 0 .. n - 1 |-> ends[i - 1]],
      low |-> [i \in 0 .. n - 1 |-> [j \in 0 .. Card(i) - 1 |-> Sorted(i)[j + 1]]],
      bits |-> [i \in 0 .. n - 1 |-> b[keys[i + 1]]]]

(* An array container of three values and a bitmap container of four.        *)
SmallFiles ==
  {FileOf(b) : b \in UNION {[ks -> {{1, 4, 6}, {0, 2, 3, 7}}] : ks \in SUBSET (0 .. Highs - 1)}}

-----------------------------------------------------------------------------
VARIABLE running

CalendarIdle ==
  req = Read(Static, Static) /\ stage = "ok" /\ current = Static /\ count = 1

MergeIdle ==
  input = {} /\ content = [p \in Part |-> {}] /\ done = {} /\ merged = {}

SearchIdle ==
  /\ file \in Files /\ file.n = 0 /\ len = 0 /\ value = [hi |-> 0, lo |-> 0]
  /\ probe = "no" /\ lo = 0 /\ hi = 0 /\ found = 0

AllInit ==
  \/ running = "calendar" /\ SearchIdle /\ MergeIdle /\ Init
  \/ running = "merge" /\ SearchIdle /\ CalendarIdle /\ MergeInit
  \/ running = "search" /\ CalendarIdle /\ MergeIdle /\ SearchInit

AllNext ==
  /\ UNCHANGED running
  /\ \/ running = "calendar" /\ Next /\ UNCHANGED <<mergeVars, searchVars>>
     \/ running = "merge" /\ MergeNext /\ UNCHANGED <<vars, searchVars>>
     \/ running = "search" /\ SearchNext /\ UNCHANGED <<vars, mergeVars>>

allVars == <<vars, mergeVars, searchVars, running>>

AllSpec == AllInit /\ [][AllNext]_allVars /\ WF_allVars(AllNext)
=============================================================================
