CONSTANTS
    NrSlots = 4
    Users = {1, 4}
    Clients = {2, 3}
    Deltas = {0, 1, 2}
    MaxPending = 1
    Never = 9
SPECIFICATION Spec
INVARIANTS TypeOK SynNotForgotten
PROPERTIES TickNotices AlarmsEnd
