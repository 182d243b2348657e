SPECIFICATION Spec
CONSTANTS
    MinLength = 2
    MaxLength = 1
    Threshold = 1
    Vocabularies <- MCVocabularies
    MaxEdits <- MCMaxEdits
INVARIANTS
    BoundsExact
    FactsExact
    ParsersAgree
CHECK_DEADLOCK FALSE
