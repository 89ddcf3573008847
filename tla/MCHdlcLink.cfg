\* Two frames, in pieces of eight bytes or at once, and one fault.
CONSTANTS
    Stations <- MCStations
    Payloads <- MCPayloads
    OptionLists <- MCOptionLists
    Others <- MCOthers
    Chunks = {8, 80}
    Faults = {128}
    MaxFrames = 2
    Capacity = 80
    Fills = {0}
SPECIFICATION Spec
INVARIANTS AcceptedIsSent NegotiationAgrees
PROPERTIES WholeIsAccepted RefusedKeepsPeer NegotiationEnds
CHECK_DEADLOCK FALSE
