SPECIFICATION HSpec
CONSTANTS
  hour = hour
  day = day
  w = w
  m = m
  r = r
  Threads = {m}
  NoThread = none
  Keys = {hour, day}
  PutKeys <- HourOnly
  Ancestors <- RollupChain
  ClosedKeys <- HourOnly
  Ids = {1}
  Absent = absent
  PartIds <- PartIdsUpTo8
  Reserve = 4
  MayRun <- EveryCall
  IoErrors = FALSE
INVARIANTS NoStrayFile IndexCurrent QuietContent
