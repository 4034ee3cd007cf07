SPECIFICATION Spec
CONSTANTS
    TooLarge = 255
    Replaced <- MCReplaced
    ConstValues = 16
    MaxConst = 15
    PageSize = 2
    BinaryModules <- MCBinaryModules
    Inputs <- MCInputs
INVARIANTS
    NamesMeanSame
    TextRoundTrip
    GeneratedUnique
CHECK_DEADLOCK FALSE
