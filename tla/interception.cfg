SPECIFICATION Spec
CONSTANTS
    t1 = t1
    t2 = t2
    Thread <- MCThread
    Surfaces <- MCSurfaces
    SlowThreshold = 2
    MaxTime = 3
    MaxCalls = 2
SYMMETRY Symmetry
INVARIANTS
    IInv
    CheckedOnce
    SlowButForKnown
