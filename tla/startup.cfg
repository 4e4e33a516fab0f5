SPECIFICATION ExampleSpec
CONSTANTS
    Word = 64
    Args <- ShortArgs
    Sizes <- AllSizes
    Fails = TRUE
    Block = 4
INVARIANTS
    UnwindExact
    SizeWithinFile
    RegionInsideFile
    ExamplesFit
CHECK_DEADLOCK FALSE
