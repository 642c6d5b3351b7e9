SPECIFICATION Spec
CONSTANTS
  a = a  b = b  e = e  ifc = ifc
  Chains <- MCChains
  Types = {a, b, e, ifc}
  Implements <- AImplementsI
  Rank <- RankOf
INVARIANTS InputsFirst AllThatCan
CHECK_DEADLOCK FALSE
