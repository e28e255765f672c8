CONSTANTS
    Threads = {t1, t2, t3}
    MaxHeld = 1
SPECIFICATION Spec
SYMMETRY ThreadSymmetry
CHECK_DEADLOCK FALSE
INVARIANT TypeOK
INVARIANT InfoWhileHeld
INVARIANT FreeClean
INVARIANT StalePollIsWoken
INVARIANT PollSeesTeardown
