\* Any clients may all wait at once, so the system may stop.
CONSTANTS
  t1 = t1
  t2 = t2
  t3 = t3
  t4 = t4
  c1 = c1
  c2 = c2
  Threads = {t1, t2, t3, t4}
  Conditions = {c1, c2}
  NoCondition = NoCondition
SYMMETRY Symmetries
SPECIFICATION Spec
INVARIANTS TypeOK MutualExclusion PermitKept CountExact SignalledHolds
CHECK_DEADLOCK FALSE
