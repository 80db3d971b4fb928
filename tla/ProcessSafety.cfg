CONSTANTS
  idleproc = idleproc
  initproc = initproc
  Sleeper = {u1, u2, u3}
  MaxSleep = 2
  MAX_PROCESS = 5
  max_time_slice = 1
SYMMETRY Symmetry
SPECIFICATION SafetySpec
INVARIANTS TypeOK RunQueueExact NoLostChildWakeup ParentCanReap TimerOwnersSleep InitLeavesLast
PROPERTIES ZombieEndsByParent ImplementsTimerSpec
