SPECIFICATION MCSpec
CONSTANTS
    Programs <- MCPrograms
    Eval <- Evaluate
    Text <- Stringify
    MaxEntities = 8
    Width = 8
    Upper <- MCUpper
    CodePoint <- MCCode
INVARIANT LocalsStayLocal
CHECK_DEADLOCK FALSE
