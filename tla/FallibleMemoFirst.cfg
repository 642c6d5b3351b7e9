SPECIFICATION Spec
CONSTANTS
  Threads = {t1, t2, t3}
  Width = 3
  ErrorIndex = 1
  MaxCalls = 5
INVARIANTS CallersAgreeWithExecution
CHECK_DEADLOCK FALSE
