SPECIFICATION Spec
CONSTANTS
  a = a  b = b  list = list  channel = channel  any = any  record = record  outer = outer  secret = secret  deep = deep
  Types = {a, b, list, channel, any, record, outer, secret, deep}
  Decl <- MCDecl
  Collections <- MCCollections
  Substitutes <- MCSubstitutes
  Handed <- MCHanded
INVARIANTS StaticIffIndependent AsAnnotated FinalLast KeysHashable
CHECK_DEADLOCK FALSE
