SPECIFICATION Spec
CONSTANTS
  INT_MAX = 4095
  PRECISION = 8
  MaxLength = 7
  ConversionLength = 9
  Lines <- SomeLines
  Floats <- SomeFloats
  Junk = {0, 1}
INVARIANTS
  TypeOK
  OneLinePerRead
PROPERTIES
  SumShown
  FloatShown
CHECK_DEADLOCK FALSE
