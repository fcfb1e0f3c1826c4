SPECIFICATION Spec
CONSTANT
  MaxPeriods = 4
INVARIANTS
  NoStaleTick
  TicksAccounted
PROPERTIES
  OverflowHandled
  TickShown
