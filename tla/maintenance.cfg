SPECIFICATION FairSpec
CONSTANTS
  hour = hour
  day = day
  w = w
  m = m
  r = r
  Threads = {w, m}
  NoThread = none
  Keys = {hour}
  PutKeys <- HourOnly
  Ancestors <- RollupChain
  ClosedKeys <- HourOnly
  Ids = {1}
  Absent = absent
  PartIds <- PartIdsUpTo5
  Reserve = 1
  MayRun <- BothWrite
  IoErrors = TRUE
INVARIANTS TypeOK DurableIntegrity PartOwnership
PROPERTIES CallsReturn
