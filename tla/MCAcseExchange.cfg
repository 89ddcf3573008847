\* Any mechanism, challenge size, AARQ and loss, with the right and a wrong password.
CONSTANTS
    Blocks <- MCBlocks
    Zero = "zero"
    Levels <- MCLevels
    ClientPasswords = {"pwd", "badpwd"}
    Password = "pwd"
    Title = "title"
    Draws <- MCDraws
    Tails <- AnyTails
    Foreign <- MCForeign
SPECIFICATION Spec
INVARIANTS AgreeOnOutcome AgreeOnSession AcceptedKnowsPassword
