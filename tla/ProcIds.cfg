CONSTANTS
  MAX_PROCESS = 5
  MAX_PID = 6
  User = {u1, u2, u3}
  idleproc = idleproc
  initproc = initproc
  HEAD = HEAD
  NULL = NULL
SPECIFICATION MCSpec
INVARIANTS UniquePids TableExact InitMainAsserts
PROPERTIES GetPidReturns ImplementsPidSpec
