\* Joe refines the Provider contract (PubSub) on the fan-out instance.
CONSTANTS
  Clients = {c1, c2}
  Msgs = {m1}
  Stoppers = {s1}
  Topics = {t1, t2}
  MaxTopics = 2
  MaxTicks = 0
  HasGC = FALSE
  ReplayMayFail = TRUE
SPECIFICATION Spec
SYMMETRY RefinementSymmetry
PROPERTY ImplementsProvider
CHECK_DEADLOCK FALSE
