CONSTANTS
    NrSlots = 3
    Signals = {trap}
    SIGTRAP = trap
SPECIFICATION Spec
INVARIANTS TypeOK ReadyOnce SignalsCounted HeldWhileSignalled MMTold CallersExact
PROPERTIES SignalsEnd
