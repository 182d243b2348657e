\* The deduper at its capacity, with batches overtaking one another.
SPECIFICATION FairSpec
CONSTANTS
    t1 = t1
    t2 = t2
    a = a
    b = b
    c = c
    Thread <- MCThread
    Key <- MCKey
    Batches <- MCBatches
    Window = 2
    MaxKeys = 2
    MaxLag = 1
    MaxTime = 4
    MaxCalls = 4
INVARIANTS
    IInv
    Conservation
PROPERTIES
    QuietPeriod
    SuppressedForCause
    AdmittedIsReported
