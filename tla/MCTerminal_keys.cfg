\* Four scancodes at any moment.
CONSTANTS
    Columns = 4
    Rows = 3
    IntSize = 16
    LongSize = 64
    Scancodes = {14, 15, 18, 28, 42, 57, 58}
    MaxScancodes = 4
    Stray <- OneStray
    Name <- Names
    LineSize = 8
    ArgvSize = 2
    Devices <- Listed
    Texts <- Printable
SPECIFICATION FairSpec
INVARIANTS TypeOK KeysComeOnceInOrder ScreenShowsLine ArgvIsWords PrintfFollowsFormat
PROPERTIES KeyIsTaken
CHECK_DEADLOCK FALSE
