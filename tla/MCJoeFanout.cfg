CONSTANTS
  Clients = {c1, c2}
  Msgs = {m1, m2}
  Stoppers = {s1}
  Topics = {t1, t2}
  MaxTopics = 2
  MaxTicks = 2
  HasGC = FALSE
  ReplayMayFail = TRUE
SPECIFICATION Spec
SYMMETRY Symmetry
INVARIANT TypeOK
INVARIANT RegisteredHandleOpen
INVARIANT SinkReleasedOnReturn
INVARIANT AtMostOnce
INVARIANT TopicIsolation
INVARIANT ExitReleasesWaiting
PROPERTY PublishReachesAll
CHECK_DEADLOCK FALSE
