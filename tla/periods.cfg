SPECIFICATION TeamSpec
CONSTANTS
  h1 = h1
  h2 = h2
  day = day
  w = w
  m = m
  p = p
  r = r
  Threads = {w, m, p, r}
  Keys = {h1, h2, day}
  Ancestors <- OneDay
  ClosedKeys <- FirstHour
  Ids = {1}
  Absent = absent
  LastPart = 4
  MayRun <- Roles
  Order <- Sorted
  Ranges <- PutBothRemoveOne
  Queries <- SomeReads
  Replacements <- Entries
  Kept <- LaterHour
INVARIANTS TypeOK CalmQueriesCorrect CalmCountsCorrect ListsMatchParts
PROPERTIES RangesImplementStore RetentionComplete
