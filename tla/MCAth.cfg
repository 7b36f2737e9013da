SPECIFICATION MCSpec
CONSTANTS
    Programs <- MCPrograms
    Eval <- Evaluate
    Text <- Stringify
    MaxEntities = 8
    Width = 8
    Upper <- MCUpper
    CodePoint <- MCCode
INVARIANTS
    FrontEndSound
    LawsHold
    SequentialScope
    CompositeSound
PROPERTIES
    SiblingsSurvive
    EveryTimerEnds
CHECK_DEADLOCK FALSE
