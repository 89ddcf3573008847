\* Two channels share one configured association.
CONSTANTS
    NChan = 2
    Assos = {a1}
    NoAsso = none
    Blocks <- MCBlocks
    Zero = "zero"
    Password <- MCPassword
    Draws <- MCDraws
    Aarqs <- MCAarqs
    Pdus <- MCPdus
    Objs = {"clock", "asso"}
    AssoObj = "asso"
    NoObj = "noobj"
    Mixed = "mixed"
    Invokes = {1}
    MultiSap = FALSE
SPECIFICATION Spec
INVARIANTS TypeOK OpenIsHeld
PROPERTIES OpenedIffAccepted ClosedByItsChannel ImplementsCF
