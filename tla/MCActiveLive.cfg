CONSTANTS
    Threads = {t1, t2, t3}
    NullWaitq = {}
    MaxHeld = 1
SPECIFICATION FairSpec
PROPERTY DrainTerminates
PROPERTY EventuallyDrained
