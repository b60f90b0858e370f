SPECIFICATION Spec
CONSTANTS
  Path = {pathA, pathB}
  Main = Main
  Null = Null
  Statement = {1, 2}
  Wants <- SomeWants
  Exports <- SomeExports
  MaxCalls = 3
CHECK_DEADLOCK FALSE
INVARIANTS TypeOK LoadedOnce SlotsAgree LinksLive ConstRanges
PROPERTIES ConstFixed
SYMMETRY Files
