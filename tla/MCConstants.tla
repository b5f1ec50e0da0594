---------------------------- MODULE MCConstants ----------------------------
(* Values for the constants of Engine in TLC's runs.                       *)
EXTENDS Engine

CONSTANTS
  hour, day,  \* a period of the finest granularity and its rollup ancestor
  w, m, r     \* threads: a writer, a maintainer, a reader

HourOnly == {hour}
RollupChain == [k \in Keys |-> IF k = hour /\ day \in Keys THEN {day} ELSE {}]

PartIdsUpTo10 == 1..10
PartIdsUpTo5 == 1..5
PartIdsUpTo6 == 1..6
PartIdsUpTo8 == 1..8

(* Who may call what.                                                      *)
EveryCall == [t \in Threads |-> Ops]
WriterAndMaintainer ==
  [t \in Threads |-> IF t = w THEN {"put", "remove"}
                     ELSE {"flush", "compact", "replace", "delete"}]
ReaderToo ==
  [t \in Threads |-> IF t = w THEN {"put", "remove"}
                     ELSE IF t = r THEN {"get"} ELSE {"flush", "compact"}]
TwoFlushers == [t \in Threads |-> {"put", "remove", "flush"}]
FlushBesideCompact ==
  [t \in Threads |-> IF t = w THEN {"put", "remove", "flush"} ELSE {"compact"}]
BothWrite ==
  [t \in Threads |-> IF t = w THEN {"put", "flush", "delete", "drop"}
                     ELSE {"put", "flush", "compact", "get"}]
=============================================================================
