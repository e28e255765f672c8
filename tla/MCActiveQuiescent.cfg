CONSTANTS
    Threads = {t1, t2}
    NullWaitq = {}
    MaxHeld = 1
SPECIFICATION Spec
PROPERTY DrainReturnsQuiescent
