SPECIFICATION Spec
CONSTANTS
  t1 = t1  t2 = t2  c1 = c1  c2 = c2  c3 = c3  c4 = c4  p1 = p1  p2 = p2  p3 = p3
  a = a  b = b  nil = nil  empty = empty  arr = arr  slice = slice
  Threads = {t1, t2}
  Chains = {c1, c2, c3, c4}
  Providers = {p1, p2, p3}
  ProviderOf <- MCProviderOf
  Singletons = {p2}
  Checked = {c1}
  Values = {a, b, nil, slice, arr}
  NilValues = {nil}
  EmptyString = empty
  Refused = {slice}
  Unhashable = {slice, arr}
  Arguments <- MCArguments
  Nested <- MCNested
  MaxDepth = 2
  MaxCalls = 3
  None = None
INVARIANTS OncePerCombination AnswersAgree AnswerMatchesInputs LockDiscipline
PROPERTIES CallsEnd MemoSpec
CHECK_DEADLOCK FALSE
