\* One thread per kind; limits scaled from 10, 3, 7.
CONSTANTS
  EvenMax = 5
  MinForEven = 2
  MinForOdd = 4
  Threads <- OnePerKind
  KindOf <- KindOfOnePerKind
SPECIFICATION FairSpec
INVARIANTS TypeOK Baton Receiver NoMissedWakeup
PROPERTIES EveryoneServed Implements
