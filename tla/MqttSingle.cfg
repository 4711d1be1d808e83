SPECIFICATION Spec
CONSTANTS
  Topics = {t1,t2}
  Handlers = {h1,h2}
  Callers = {a}
  Owner = a
  Unsubscribers = {a}
  Clients = {c1,c2}
  Runs = {r1,r2}
  Timeout = 3
  Absent = Absent
  NilSub = NilSub
  NoClient = NoClient
  NoTopic = NoTopic
  Free = Free
  Live = Live
SYMMETRY Symmetry
INVARIANT SubscriptionEffective
INVARIANT SoleTopicRouted
INVARIANT CrashCause
CHECK_DEADLOCK FALSE
