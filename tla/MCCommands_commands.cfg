CONSTANTS
    MaxCmd = 1024
    Table <- AllCommands
    Givens <- MCGivens
    Scps <- Channels
    CallerBuffer = 256
    AnswerSizes <- MCAnswerSizes
    Lens <- LengthEdges
    SweptLens <- EveryLength
SPECIFICATION Spec
INVARIANTS
    SentAsGiven
    OkIsWhole
    TakesGoodAnswer
    ClosedForReal
