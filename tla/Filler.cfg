SPECIFICATION Spec
CONSTANTS
  t = t  pt = pt  rec = rec  prec = prec  f = f  pf = pf  any = any  strange = strange  lost = lost
  Types = {t, pt, rec, prec, f, pf, any, strange, lost}
  Builders <- MCBuilders
  PointerTo <- Pointers
  FuncTypes = {f}
  Assignable <- IsAssignable
  Convertible <- IsConvertible
  MethodsOf <- MethodCounts
INVARIANTS StructAsAsked ActionsInOrder
CHECK_DEADLOCK FALSE
