SPECIFICATION Spec
CONSTANTS
  Width = 3
  Ints <- SomeInts
  Fractions <- SomeFractions
  Strings <- SomeStrings
  Other = {F}
INVARIANTS BackEndsAgree ComparisonsAgree
PROPERTY ExecutionEnds
