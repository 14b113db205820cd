\* Two producers; they stop when the buffer is full.
CONSTANTS
  EvenMax = 10
  MinForEven = 3
  MinForOdd = 7
  Conditions <- Kinds
  Threads <- Scenario5
  KindOf <- KindOfScenario5
SPECIFICATION Spec
INVARIANTS TypeOK MutualExclusion
PROPERTY Implements
CHECK_DEADLOCK FALSE
