\* Two blocks, two registers to a function, two functions deep.
SPECIFICATION Spec
CONSTANTS
  Blocks = {b1, b2}
  Regs = {r1, r2}
  None = None
  MaxFrames = 2
  MaxRc = 3
SYMMETRY Symmetry
INVARIANTS TypeOK Balance FaultNeedsArgument
CHECK_DEADLOCK FALSE
