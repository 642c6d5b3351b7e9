SPECIFICATION Spec
CONSTANTS
  Bindings <- Three
  MaxInvokes <- InvokesOf
  MaxInner = 2
  MaxPanics = 1
INVARIANTS RaceFree
PROPERTIES ChainMeaning InvocationsEnd
CHECK_DEADLOCK FALSE
