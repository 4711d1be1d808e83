SPECIFICATION Spec
CONSTANTS
  Users = {A}
  NoUser = NoUser
  BadToken = BadToken
  NoHttp = NoHttp
  Things = {t}
  Insts = {i1, i2}
  NoCred = NoCred
  Certificate = Certificate
  NoInst = NoInst
  Properties = {p, q}
  MaxTokens = 2
  Account = A
CHECK_DEADLOCK FALSE
INVARIANT ConnectSurvives
