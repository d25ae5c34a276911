\* Publish and Shutdown return, and a second Shutdown does not end the
\* process: two messages racing the loop, two Shutdowns.
CONSTANTS
  Clients = {c1}
  Msgs = {m1, m2}
  Stoppers = {s1, s2}
  Topics = {t1}
  MaxTopics = 1
  MaxTicks = 1
  HasGC = TRUE
  ReplayMayFail = TRUE
SPECIFICATION FairSpec
PROPERTY CallsReturn
PROPERTY PanicOnlyOnUnsubscribe
CHECK_DEADLOCK FALSE
