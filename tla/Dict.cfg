SPECIFICATION Spec
CONSTANTS
  A1 = A1
  A2 = A2
  B = B
  Content = {"a", "b"}
  KeyString = {A1, A2}
  IntKey = {B}
  ContentOf <- SomeContents
  DoubleKey = {X}
  Val = {V}
  Plain = {P}
  NoValue = NoValue
  HashValue = {0, 3}
  MaxItems = 5
  MaxRc = 2
INVARIANTS TypeOK BucketsCovered KeysExact
PROPERTIES ReadsLastSet
SYMMETRY EqualStrings
