SPECIFICATION Spec
CONSTANTS
  hour = hour
  day = day
  w = w
  m = m
  r = r
  Threads = {w, m}
  NoThread = none
  Keys = {hour}
  PutKeys <- HourOnly
  Ancestors <- RollupChain
  ClosedKeys <- HourOnly
  Ids = {1}
  Absent = absent
  PartIds <- PartIdsUpTo10
  Reserve = 2
  MayRun <- WriterAndMaintainer
  IoErrors = FALSE
INVARIANTS NoLeakedPart
PROPERTIES ImplementsStore CompactPreserves
