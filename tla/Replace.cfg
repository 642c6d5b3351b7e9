SPECIFICATION EditSpec
CONSTANTS
  x = x  y = y
  None = None
  Names = {x, y}
  MaxLen = 5
  MaxNamed = 3
  Inputs <- UsualInputs
INVARIANTS NothingLost PlacedAsAsked
PROPERTIES Ends
CHECK_DEADLOCK FALSE
