CONSTANTS
  Clients = {c1, c2}
  Msgs = {m1}
  Stoppers = {s1, s2}
  Topics = {t1}
  MaxTopics = 1
  MaxTicks = 1
  HasGC = TRUE
  ReplayMayFail = TRUE
SPECIFICATION FairSpec
PROPERTY CancelReleases
CHECK_DEADLOCK FALSE
