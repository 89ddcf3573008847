\* Requests that begin before, at and after the offset that the passes ask for, with and
\* without bytes after them; challenges of no, 8 and 64 bytes; tags that are cut and longer.
CONSTANTS
    Wrap = 65536
    Offsets = {60, 75, 80, 81, 90}
    Rooms = {0, 8, 30}
    Headers = {0, 15}
    Extras = {11, 12, 13}
    Challenges = {0, 4, 8, 64}
SPECIFICATION Spec
INVARIANTS TouchedInBuffer Pass3Verifies ResponseIsWhole
CHECK_DEADLOCK FALSE
