SPECIFICATION FairSpec
CONSTANTS
  Users = {A}
  NoUser = NoUser
  BadToken = BadToken
  NoHttp = NoHttp
  Things = {t}
  Insts = {i1, i2}
  NoCred = NoCred
  Certificate = Certificate
  NoInst = NoInst
  Properties = {p, q}
  MaxTokens = 2
  Account = A
CHECK_DEADLOCK FALSE
INVARIANT MapsAgree
INVARIANT ConsumedIsSubscribed
INVARIANT WritesReported
PROPERTY ConnectHonest
PROPERTY WritesDelivered
PROPERTY ConnectReturns
