\* As mm_requests, for what alloc.c says of the swap area.
CONSTANTS
  NrProcs = 3
  NrHoles = 6
  MemSize = 4
  SwapBase = 5
  Sizes = {1, 2}
  SwapSizes = {0, 3}
SPECIFICATION Spec
INVARIANT SwapSeparate
CHECK_DEADLOCK FALSE
