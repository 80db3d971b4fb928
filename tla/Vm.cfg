SPECIFICATION MCSpec
CONSTANTS
    FreePages = 3
    FreeFrames = 2
    MaxErrors = 1
    Procs = {p1, p2}
    NFrames = 17
    NV = 5
    PTN = 2
    PGSIZE = 2
    Stack = 3
    StackPages = 1
    Programs <- MCPrograms
    Reads = {0, 1, 2, 9}
    Argv <- MCArgv
    MallocSizes = {0, 1}
    MaxCalls = 4
    ObjsPerPage = 6
INVARIANTS FramesExact AreasExact SwapExact BootChecks
  
CHECK_DEADLOCK FALSE
