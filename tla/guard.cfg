SPECIFICATION FairSpec
CONSTANTS
    t1 = t1
    t2 = t2
    q1 = q1
    q2 = q2
    q3 = q3
    star = star
    one = one
    two = two
    named = named
    else = else
    shape = shape
    apart = apart
    other = other
    Nothing = Nothing
    Thread <- MCThread
    Query <- MCQuery
    Rule <- MCRule
    Rules <- MCRules
    Dialect = "mysql"
    Redacted <- MCRedacted
    Redact <- MCRedact
    Fold <- MCFold
    Fingerprint <- MCFingerprint
    CacheSizes <- MCCacheSizes
    Profiles <- MCProfiles
    DedupWindow = 1
    DedupKeys = 1
    N1Threshold = 2
    N1Window = 1
    N1Keys = 1
    SlowThreshold = 1
    MaxTime = 1
    MaxCalls = 3
    MaxResets = 1
INVARIANTS
    IInv
    PatternCounted
PROPERTIES
    FindingsReachReporter
    LatencyIsTheDatabases
