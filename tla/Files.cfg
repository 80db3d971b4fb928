CONSTANTS
  Home <- MCHome
  Loads <- MCLoads
  NBLOCKS = 17
  NDIRECT = 3
  NENTRY = 2
  BLKSIZE = 3
  MAXSIZE = 18
  MAXCOUNT = 6
  Procs = {p, q}
  First = p
  NSTD = 1
  Names = {"f", "d", "n"}
  Cell = 2
SPECIFICATION Spec
INVARIANTS FsExact CountsExact 
PROPERTIES ImplementsFileSpec
CHECK_DEADLOCK FALSE
