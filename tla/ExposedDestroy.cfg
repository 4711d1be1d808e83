SPECIFICATION Spec
CONSTANTS
  Things = {x}
  MaxInstances = 2
  Names = {n}
  Default = Default
  Funcs = {f}
  Apps = {a}
  Bus = Bus
  HandlerCalls <- ActionsCallBack
  NoFunc = NoFunc
  Unborn = Unborn
  Destroyed = Destroyed
  None = None
CHECK_DEADLOCK FALSE
PROPERTY DestroyStopsServing
