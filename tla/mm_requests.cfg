\* Four processes of one or two clicks in three clicks of memory, and three
\* clicks of swap.  A process has one piece of memory here, up to two in the
\* code, which has 2 * NR_PROCS holes for NR_PROCS - LOW_USER processes: with
\* NrHoles = NrProcs + 1 the table is no larger than there.  It stops where
\* the fate of MM is no longer "ok".
CONSTANTS
  NrProcs = 4
  NrHoles = 5
  MemSize = 3
  SwapBase = 4
  Sizes = {1, 2}
  SwapSizes = {0, 3}
SPECIFICATION Spec
INVARIANTS TypeOK HolesApart MemoryKept TableSuffices QueueExact SwappedAbove
CHECK_DEADLOCK FALSE
