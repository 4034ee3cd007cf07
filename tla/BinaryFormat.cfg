SPECIFICATION Spec
CONSTANTS
    Base = 16
    MaxLeb = 2
    TopDigit = 8
    MaxPages = 4
    Magic = 7
    Version = 1
    LebSizeGuess = 1
    fail_on_custom_section_error = FALSE
    Damage = TRUE
    Modules <- MCModules
    Options <- MCOptions
    BadBytes <- MCBadBytes
INVARIANTS
    InBounds
    CountsAgree
    MentionsExist
    NamesUnique
    RoundTrip
    FixedRelocations
