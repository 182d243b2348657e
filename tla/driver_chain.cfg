SPECIFICATION Spec
CONSTANTS
    t1 = t1
    t2 = t2
    c1 = c1
    c2 = c2
    c3 = c3
    Thread <- MCThread
    Conn <- MCConn
    Capabilities <- MCCapabilities
    Operations <- MCOperations
    NoConn = NoConn
    MaxIdle = 1
    MaxCalls = 2
SYMMETRY Symmetry
INVARIANTS
    IInv
    AnalyzedOnce
    TimedOnSuccess
PROPERTIES
    AsBareButForKnown
