SPECIFICATION FairSpec
CONSTANTS
  o1 = o1
  o2 = o2
  o3 = o3
  Obj = {o1, o2, o3}
  None = None
  c1 = c1
  Const = {c1}
  r1 = r1
  r2 = r2
  Reg = {r1, r2}
  l1 = l1
  Local = {l1}
  Arg0 = l1
  Self = Self
  MaxLen = 1
  MaxDepth = 1
  MaxRc = 3
  Ops <- ExactOps
CHECK_DEADLOCK FALSE
INVARIANTS RcExact
PROPERTIES CollectionEnds
