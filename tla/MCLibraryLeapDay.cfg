\* The calendar of four years, one of them leap; the other parts are as small as they can be.
CONSTANTS
    Wrap = 16
    Sizes = {0}
    Lengths = {0}
    Jumps = {0}
    FirstYears = {1997}
    Turns = 4
    Spans <- MCSpans
    DayValues = 16
    Deviations <- MCDeviations
    ItemSizes = {1}
    MaxWrites = 1
    Fields = {1}
    HashBlock = 6
    LengthField = 2
    WordValues = 24
    HashPieces = {1}
    MaxMessage = 6
    GcmBlock = 2
    Counters = 5
    Starts <- MCStarts
    GcmPieces = {1}
SPECIFICATION LibrarySpec
CHECK_DEADLOCK FALSE
INVARIANT DateIsKept
