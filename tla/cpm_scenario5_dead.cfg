\* Two producers.
CONSTANTS
  EvenMax = 10
  MinForEven = 3
  MinForOdd = 7
  Conditions <- Kinds
  Threads <- Scenario5
  KindOf <- KindOfScenario5
SPECIFICATION Spec
INVARIANT MonitorAlive
CHECK_DEADLOCK FALSE
