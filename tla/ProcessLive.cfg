CONSTANTS
  idleproc = idleproc
  initproc = initproc
  Sleeper = {u1, u2}
  MaxSleep = 2
  MAX_PROCESS = 4
  max_time_slice = 1
SPECIFICATION Spec
PROPERTIES RunnableRuns SleeperWakes
