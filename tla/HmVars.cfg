SPECIFICATION Spec
CONSTANTS
  k1 = k1
  k2 = k2
  k3 = k3
  Key = {k1, k2, k3}
  v1 = v1
  v2 = v2
  Value = {v1, v2}
  NoValue = NoValue
  HashValue = {0, 3, 7}
  MaxGrowthStep = 100
  Load = 512
  MaxSize = 8
PROPERTIES ImplementsMap CallsReturn
INVARIANTS TypeOK RobinHood OneCopy
