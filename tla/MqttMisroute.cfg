SPECIFICATION Spec
CONSTANTS
  Topics = {t1,t2}
  Handlers = {h1,h2}
  Callers = {a}
  Owner = a
  Unsubscribers = {}
  Clients = {c1,c2}
  Runs = {r1,r2}
  Timeout = 3
  Absent = Absent
  NilSub = NilSub
  NoClient = NoClient
  NoTopic = NoTopic
  Free = Free
  Live = Live
SYMMETRY Symmetry
INVARIANT OwnHandler
CHECK_DEADLOCK FALSE
