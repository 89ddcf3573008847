\* Two objects and two invocations; an object of three blocks at the other server.
CONSTANTS
    Objs = {10, 20}
    Invokes = {1, 2}
    Datas <- MCDatas
    NBlocks = 3
    Answers <- MCAnswers
    MaxStrays = 1
SPECIFICATION Spec
INVARIANTS ServedAsAsked AgreeOnResult ObjectIsWhole
