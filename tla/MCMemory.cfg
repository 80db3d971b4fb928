SPECIFICATION MCSpec
CONSTANTS
  NPage = 7
  MaxReq = 3
  BuddySizes = {5, 8}
  U = 5
  NPages = 3
  Requests = {1, 2, 3, 5, 8}
  MaxHeld = 3
INVARIANTS   RefusalJustified HeapExact
 
CHECK_DEADLOCK FALSE
