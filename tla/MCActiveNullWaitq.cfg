CONSTANTS
    Threads = {t1, t2}
    NullWaitq = {t1}
    MaxHeld = 1
SPECIFICATION FairSpec
PROPERTY DrainTerminates
