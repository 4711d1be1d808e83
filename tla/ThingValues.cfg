SPECIFICATION FairSpec
CONSTANTS
  Emitters = {e}
  Names = {p, b}
  Events = {b}
  Properties = {p, b}
  Values = {v, o}
  Objects = {o}
  MaxEmits = 2
  Handlers = {h}
  NilHandler = NilHandler
  NoHandler = NoHandler
  NoValue = NoValue
CHECK_DEADLOCK FALSE
INVARIANT StoredIsPublished
INVARIANT HandedIsCached
INVARIANT OneLateCall
PROPERTY ImplementsLastValues
PROPERTY CatchesUp
