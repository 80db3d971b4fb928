CONSTANTS
  Client = {c1, c2, c3, c4, c5}
  Permits = 2
  N = 4
  TIMES = 2
  Reader = {r1, r2}
  Char = {1, 2}
  STDIN_BUFSIZE = 2
  CONSBUFSIZE = 2
  MaxKeys = 3
  MaxLen = 2
SPECIFICATION MCSpec
INVARIANTS PermitsConserved ForksExclusive OneActive NoLostKey
PROPERTIES ImplementsLockSpec WaiterGetsLock EverybodyQuits 
