SPECIFICATION AllSpec
CONSTANTS
  Requests <- RangeRequests
  MaxRange = 8784
  PartIds <- PartIdsUpTo4
  Ids = {1}
  Files <- SmallFiles
  Highs = 3
  Lows = 16
  ArrayMax = 3
INVARIANTS RangeIsWhole AncestorsCloseLast LoopComputesFold SearchIsMembership
PROPERTIES WalkTilesTime CallEnds SearchEnds
