\* AARQs of the encoder, nothing after them.
CONSTANTS
    Blocks <- MCBlocks
    Zero = "zero"
    Levels <- MCLevels
    ClientPasswords = {"pwd"}
    Password = "pwd"
    Title = "title"
    Draws <- MCDraws8
    Tails <- NoTails
    Foreign <- NoForeign
SPECIFICATION Spec
INVARIANTS AarqIsAnswered
