CONSTANTS
  User = {u1, u2, u3}
  idleproc = idleproc
  initproc = initproc
  HEAD = HEAD
  NULL = NULL
  MAX_PROCESS = 5
  MAX_PID = 6
SYMMETRY Symmetry
SPECIFICATION KillSpec
INVARIANT UniquePids
