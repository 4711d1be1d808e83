SPECIFICATION Spec
CONSTANTS
  Topics = {t1}
  Handlers = {h1}
  Callers = {a}
  Owner = a
  Unsubscribers = {a}
  Clients = {c1,c2}
  Runs = {r1,r2}
  Timeout = 3
  Absent = Absent
  NilSub = NilSub
  NoClient = NoClient
  NoTopic = NoTopic
  Free = Free
  Live = Live
SYMMETRY Symmetry
INVARIANT UnsubscribedStaysOff
CHECK_DEADLOCK FALSE
