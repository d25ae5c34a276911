\* OnSession may return a subscription with no topics.
CONSTANTS
  Clients = {c1, c2}
  Msgs = {m1}
  Stoppers = {s1}
  Topics = {d, t1}
  DefaultTopic = d
  MaxTopics = 1
  MaxTicks = 1
  HasGC = TRUE
  ReplayMayFail = TRUE
  HasOnSession = TRUE
  UpgradeMayFail = TRUE
SPECIFICATION ServerSpec

PROPERTY ShutdownEndsSessions
CHECK_DEADLOCK FALSE
