SPECIFICATION Spec
CONSTANTS
  capacity = 3
  Keys = {k1, k2, k3, k4}
  Values = {v1, v2}
INVARIANT
  GetReturnsLastSet
PROPERTY
  SetIsReadable
