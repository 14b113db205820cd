\* Three inodes, three blocks of two slots.  After an error of the code the
\* image may be full and every command refused.
CONSTANTS
  f = f
  g = g
  InodesNum = 3
  BlocksNum = 3
  SlotsPerBlock = 2
  RefMod = 8
  Names = {f}
  MaxSize = 3
  MaxDepth = 1
  MaxWalk = 24
SPECIFICATION Spec
INVARIANT NoDangling
CHECK_DEADLOCK FALSE
