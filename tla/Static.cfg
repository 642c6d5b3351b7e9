SPECIFICATION Spec
CONSTANTS
  Threads = {t1, t2, t3}
  Bindings <- Usual
  MaxCalls = 4
INVARIANTS StaticRunsOnce SnapshotsComplete SkippedAreZero ErrorReported ClosestProvider
PROPERTIES EveryCallReturns
CHECK_DEADLOCK FALSE
