SPECIFICATION Spec
CONSTANTS
  good = good  bad = bad  gen = gen
  None = None
  Threads = {t1, t2}
  Collections = {good, bad, gen}
  Failing = {bad}
  Debugging = {}
  Generated = {gen}
  Inner <- InnerGood
  InPlace = {gen}
  MaxStarts = 2
PROPERTIES EveryBindReturns
CHECK_DEADLOCK FALSE
