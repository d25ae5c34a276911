\* ServeHTTP sessions without OnSession, one message, GC and replay failure.
CONSTANTS
  Clients = {c1, c2}
  Msgs = {m1}
  Stoppers = {s1}
  Topics = {d, t1}
  DefaultTopic = d
  MaxTopics = 1
  MaxTicks = 1
  HasGC = TRUE
  ReplayMayFail = TRUE
  HasOnSession = FALSE
  UpgradeMayFail = TRUE
SPECIFICATION ServerSpec
INVARIANT ServerTypeOK
PROPERTY ShutdownEndsSessions
CHECK_DEADLOCK FALSE
