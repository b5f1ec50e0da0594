SPECIFICATION MCSpec
CONSTANTS
  t1 = t1
  t2 = t2
  e1 = e1
  e2 = e2
  e3 = e3
  Threads = {t1, t2}
  Names = {e1, e2, e3}
  Granularities = {"day", "hour"}
  DefaultGran = "day"
  Ids = {1}
  Limit = 1
  Puts <- SomePuts
  Registrations <- CustomEvent
  None = none
SYMMETRY TwoThreads
INVARIANTS PutsSurvive LimitNearlyKept GranularitiesMatch
