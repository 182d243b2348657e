SPECIFICATION Spec
CONSTANTS
    Alphabets <- MCNesting
    MaxLen <- MCNestingLen
INVARIANTS
    SeparatorNeverMissed
CHECK_DEADLOCK FALSE
