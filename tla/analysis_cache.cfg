SPECIFICATION FairSpec
CONSTANTS
    t1 = t1
    t2 = t2
    q1 = q1
    q2 = q2
    q3 = q3
    f = f
    Nothing = Nothing
    Thread <- MCThread
    Query <- MCQuery
    Findings <- MCFindings
    Shape <- MCShape
    NoFindings <- MCNoFindings
    Capacities <- MCCapacities
    MaxCalls = 5
INVARIANTS
    IInv
    LeastRecentlyUsedEvicted
    FewAnalyses
PROPERTIES
    AnswersEveryCall
