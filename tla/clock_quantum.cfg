CONSTANTS
    Users = {a, b, c}
    Idle = idle
    SchedRate = 2
    MaxTicks = 2
SPECIFICATION Spec
INVARIANTS TypeOK QuantumSane
PROPERTIES ServedAgain
