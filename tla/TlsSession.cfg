SPECIFICATION FairSpec
CONSTANTS
  Users = {A, B}
  NoUser = NoUser
  BadToken = BadToken
  NoHttp = NoHttp
  Callers = {c1, c2}
  Owner = c1
  MaxTokens = 3
  MaxConnects = 2
  Elsewhere = B
  MaxStarts = 2
  NoServer = NoServer
  Enabled = {"jwt", "basic"}
  Plugin = "plugin"
CHECK_DEADLOCK FALSE
INVARIANT ResultHonest
INVARIANT UserIsKnown
INVARIANT TokenOfSession
INVARIANT StopEffective
PROPERTY CallsReturn
