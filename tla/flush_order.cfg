SPECIFICATION HSpec
CONSTANTS
  hour = hour
  day = day
  w = w
  m = m
  r = r
  Threads = {w, m}
  NoThread = none
  Keys = {hour}
  PutKeys <- HourOnly
  Ancestors <- RollupChain
  ClosedKeys <- HourOnly
  Ids = {1}
  Absent = absent
  PartIds <- PartIdsUpTo8
  Reserve = 2
  MayRun <- TwoFlushers
  IoErrors = FALSE
INVARIANTS QuietContent
