SPECIFICATION Spec
CONSTANTS
    Alphabets <- MCAlphabets
    MaxLen <- MCMaxLen
INVARIANTS
    LiteralsRedacted
    FingerprintIdentifies
    
    DirectiveOutsideLiterals
    KeywordsSeen
CHECK_DEADLOCK FALSE
