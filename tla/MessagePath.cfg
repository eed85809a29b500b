CONSTANTS
    InlineCapacity = 2
    Nul = Nul
    Junk = Junk
    NoBlock = NoBlock
    DefaultPattern <- ShortDefault
    MaxPattern = 3
    Patterns <- ShortPatterns
    Parts <- SomeParts
    Levels = {"INFO"}
    Lines = {0, 7}
    Cells = 1
    MaxText = 5
    MaxMessages = 3
SPECIFICATION Spec
CHECK_DEADLOCK FALSE
INVARIANTS
    PayloadsWellFormed
    TextsAreWhole
PROPERTY
    LinesShowMessages
