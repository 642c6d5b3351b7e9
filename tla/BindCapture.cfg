SPECIFICATION Spec
CONSTANTS
  good = good  bad = bad  gen = gen
  None = None
  Threads = {t1, t2, t3}
  Collections = {good, bad, gen}
  Failing = {bad, gen}
  Debugging = {good}
  Generated = {gen}
  Inner <- NoInner
  InPlace = {gen}
  MaxStarts = 4
INVARIANTS CaptureAlone LockBalanced
PROPERTIES EveryBindReturns
CHECK_DEADLOCK FALSE
