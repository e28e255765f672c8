CONSTANTS
    Threads = {t1, t2, t3, t4}
    NullWaitq = {}
    MaxHeld = 2
SPECIFICATION Spec
SYMMETRY ThreadSymmetry
INVARIANT TypeOK
INVARIANT CountMatchesHolders
INVARIANT ReleaseRunsOnce
INVARIANT NoLostWakeup
PROPERTY DeactivateTakesEffect
PROPERTY Refinement
