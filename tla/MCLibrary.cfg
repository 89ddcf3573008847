\* Arrays of up to six bytes and indices of four bits; years that begin on every day of the
\* week, centuries and a century that is leap; messages of up to two calls, with a length of
\* the long form; fields whose last byte is full or not; messages of several blocks whose count
\* carries.
CONSTANTS
    Wrap = 16
    Sizes = {0, 3, 6}
    Lengths = {0, 1, 3, 5}
    Jumps = {0, 1, 2, 3, 4, 5, 6, 7, 8, 9, 10, 11, 12, 13, 14, 15}
    FirstYears = {1, 1896, 1996}
    Turns = 30
    Spans <- MCSpans
    DayValues = 16
    Deviations <- MCDeviations
    ItemSizes = {0, 1, 12, 127, 128}
    MaxWrites = 2
    Fields = {1, 8, 11}
    HashBlock = 6
    LengthField = 2
    WordValues = 24
    HashPieces = {0, 1, 4, 6, 15}
    MaxMessage = 30
    GcmBlock = 2
    Counters = 8
    Starts <- MCStarts
    GcmPieces = {0, 1, 2, 3, 4, 6}
SPECIFICATION LibrarySpec
CHECK_DEADLOCK FALSE
INVARIANTS CursorsInBuffer AccessInBuffer CalendarAgrees AddTimeAgrees CosemAgrees ReadBack WalkedAsWritten BitsAsHeld DigestOfWhole PiecesAreOneMessage CounterIsFresh
PROPERTIES WordsWereWritten 
