SPECIFICATION Spec
CONSTANTS
    Evaluated <- MCEvaluated
    Typo <- MCTypo
    Files <- MCFiles
    Scans <- MCScans
    MaxOptions = 3
    MaxPlan = 2
INVARIANTS
    ScanReports
    NarrowingHonoured
    ProfileReachesEverySurface
    Precedence
    NothingExecuted
    PlanReported
