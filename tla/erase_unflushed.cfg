SPECIFICATION TeamSpec
CONSTANTS
  a = a
  b = b
  c = c
  d = d
  Threads = {d}
  Names = {x}
  NoName = NoName
  Keys = {k1}
  Events = {k1}
  EventOf <- OneEventEach
  LastId = 1
  Modes = {"disabled", "frozen"}
  MayRun <- Roles
INVARIANTS NoTraceRemains
