\* Counting, eviction at the cap, window restarts, late reports and Resets.
SPECIFICATION Spec
CONSTANTS
    t1 = t1
    t2 = t2
    q1 = q1
    q2 = q2
    q3 = q3
    None = None
    Thread <- MCThread
    Fingerprint <- MCFingerprint
    Threshold = 3
    Window = 2
    MaxKeys = 2
    MaxTime = 4
    MaxTracks = 6
    MaxResets = 1
INVARIANTS
    IInv
    CountExact
    NoFalseAlarm
    OneReportPerWindow
    BurstDetected
PROPERTY InFlightKept
SYMMETRY Symmetry
