\* Two channels and two associations; the addresses may change with every packet.
CONSTANTS
    NChan = 2
    Assos = {a1, a2}
    NoAsso = none
    Blocks <- MCBlocks
    Zero = "zero"
    Password <- MCPassword
    Draws <- MCDraws8
    Aarqs <- MCAarqsAuth
    Pdus <- MCPdusFew
    Objs = {"clock", "asso"}
    AssoObj = "asso"
    NoObj = "noobj"
    Mixed = "mixed"
    Invokes = {1}
    MultiSap = TRUE
SPECIFICATION Spec
INVARIANTS Pass3ChecksOwnChallenge

