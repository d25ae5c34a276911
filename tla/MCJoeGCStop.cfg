CONSTANTS
  Clients = {c1}
  Msgs = {m1}
  Stoppers = {s1}
  Topics = {t1}
  MaxTopics = 1
  MaxTicks = 2
  HasGC = TRUE
  ReplayMayFail = FALSE
SPECIFICATION Spec
INVARIANT GCStopsAfterError
CHECK_DEADLOCK FALSE
