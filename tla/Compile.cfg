CONSTANTS
    NumRegs = 4
    Names = {"x", "y"}
    Params <- ParamsXY
    Literals = {0}
    MaxLocals = 4
    MaxDepth = 6
    MaxTokens = 7
    HasSelf = TRUE
    Careful = TRUE
    Forms = {"operator", "and", "or", "paren", "not", "index", "bind", "call", "method", "fncall", "new", "array", "assign", "compound", "field", "fieldset", "fieldop", "effect", "print", "return", "let", "if", "while", "else"}
SPECIFICATION Spec
INVARIANTS TypeOK OperandsKept CacheFaithful SourceAgrees RegistersReserved LocalsDistinct AssertionHolds
CHECK_DEADLOCK FALSE
