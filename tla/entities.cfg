SPECIFICATION TeamSpec
CONSTANTS
  a = a
  b = b
  c = c
  d = d
  Threads = {a, b, c, d}
  Names = {x, y}
  NoName = NoName
  Keys = {k1, k2}
  Events = {k1, k2}
  EventOf <- OneEventEach
  LastId = 1
  Modes = {"disabled", "frozen"}
  MayRun <- Roles
INVARIANTS TypeOK DictBijective AnswersExact BitsOwned NoStrangers FlushedAreErased
PROPERTIES FreedIdsStayFree
SYMMETRY NamesAndKeysAlike
