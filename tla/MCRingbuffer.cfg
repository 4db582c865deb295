\* The capacity of the unit test (Unittests.cpp:286), indexes of 8 bits.
CONSTANTS
  N = 3
  Modulus = 256
  v1 = v1
  v2 = v2
  v3 = v3
  v4 = v4
  Values <- MCValues
  Blank = Blank
SPECIFICATION Spec
INVARIANT TypeOK
PROPERTY KeepsTheLastN
