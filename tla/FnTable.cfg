SPECIFICATION Spec
CONSTANTS
  Name = {f, g}
  OwnClass = {ClassA}
  ModuleClass = {ClassB}
  NoClass = NoClass
  Arity = {0, 1}
  MaxSize = 5
CHECK_DEADLOCK FALSE
INVARIANTS TypeOK CallsReach ArityAgrees MayFailSound RejectedRightly
SYMMETRY Names
