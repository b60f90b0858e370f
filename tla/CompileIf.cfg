CONSTANTS
    NumRegs = 4
    Names = {"x", "y"}
    Params <- ParamsXY
    Literals = {0}
    MaxLocals = 4
    MaxDepth = 6
    MaxTokens = 7
    HasSelf = FALSE
    Careful = FALSE
    Forms = {"if", "else", "return"}
SPECIFICATION Spec
INVARIANT PathAgrees
CHECK_DEADLOCK FALSE
