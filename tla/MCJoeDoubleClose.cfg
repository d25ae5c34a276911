CONSTANTS
  Clients = {c1}
  Msgs = {m1}
  Stoppers = {s1}
  Topics = {t1}
  MaxTopics = 1
  MaxTicks = 0
  HasGC = FALSE
  ReplayMayFail = FALSE
SPECIFICATION Spec
INVARIANT HandleClosedOnce
CHECK_DEADLOCK FALSE
