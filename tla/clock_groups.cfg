CONSTANTS
    Users = {a, b}
    Idle = idle
    SchedRate = 6
    MaxTicks = 0
SPECIFICATION SpecGroups
INVARIANT TwiceTheTime
