CONSTANTS
    c1 = c1
    c2 = c2
    p1 = p1
    p2 = p2
    t1 = t1
    CPUs = {c1, c2}
    Tasks = {p1, p2}
    Timers = {t1}
    Owner <- MCOwner
    Home <- MCHome
    Migration = Migration
    None = None
    MaxCalls = 1
    MaxEvents = 2
SPECIFICATION Spec
INVARIANTS CancelIsFinal OneHome
PROPERTIES NoFalseNegative CallsReturn
CHECK_DEADLOCK FALSE
