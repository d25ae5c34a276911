\* ServeHTTP sessions built by an OnSession callback: the Server
\* over Joe keeps the Provider contract of PubSub.
CONSTANTS
  Clients = {c1, c2}
  Msgs = {m1}
  Stoppers = {s1}
  Topics = {d, t1}
  DefaultTopic = d
  MaxTopics = 1
  MaxTicks = 1
  HasGC = TRUE
  ReplayMayFail = TRUE
  HasOnSession = TRUE
  UpgradeMayFail = TRUE
SPECIFICATION ServerSpec
PROPERTY ImplementsProvider
CHECK_DEADLOCK FALSE
