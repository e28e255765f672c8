CONSTANTS
    Threads = {t1, t2}
    MaxHeld = 1
SPECIFICATION FairSpec
CHECK_DEADLOCK FALSE
PROPERTY CallsReturn
