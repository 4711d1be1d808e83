SPECIFICATION FairSpec
CONSTANTS
  Callbacks = {k1, k2}
  MaxChanges = 4
  NoInode = NoInode
CHECK_DEADLOCK FALSE
INVARIANT WatchedWhenQuiet
PROPERTY MissedInWindow
PROPERTY ChangeSeen
PROPERTY CloseEnds
