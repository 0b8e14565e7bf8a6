SPECIFICATION Spec
CONSTANTS
    Reports <- MCReports
    MaxChunk = 2
    MaxVersion = 2
    MaxCode = 2
    Keep = 1
    MaxTrouble = 1
    MaxChores = 1
INVARIANTS
    TagTellsTheSource
    ReadersAgree
    FixableCanBeRegenerated
CHECK_DEADLOCK FALSE
