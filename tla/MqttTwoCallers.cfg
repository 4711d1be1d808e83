SPECIFICATION FairSpec
CONSTANTS
  Topics = {t1}
  Handlers = {h1}
  Callers = {a,b}
  Owner = a
  Unsubscribers = {}
  Clients = {c1,c2}
  Runs = {r1,r2}
  Timeout = 3
  Absent = Absent
  NilSub = NilSub
  NoClient = NoClient
  NoTopic = NoTopic
  Free = Free
  Live = Live
CHECK_DEADLOCK FALSE
INVARIANT TypeOK
INVARIANT LockDiscipline
INVARIANT CrashCause
INVARIANT SubscriptionEffective
PROPERTY CallsReturn
PROPERTY EventuallySubscribed
