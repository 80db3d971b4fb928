------------------------------ MODULE MCFiles ------------------------------
(* Workloads for the file system: each behaviour draws the inputs of its      *)
(* calls from one of them.                                                    *)
EXTENDS Files

Load(nfd, again, procs, starts, names, new, types, modes, reads, writes, seeks) ==
    [nfd |-> nfd, boots |-> again, procs |-> procs, starts |-> starts, names |-> names,
     new |-> new, types |-> types, modes |-> modes,
     reads |-> reads, writes |-> writes, seeks |-> seeks]

\* One file of one block, and an empty directory: its entry is the fourth of the root
\* and goes through the indirect block (NDIRECT = 3).
MCHome == <<[name |-> "f", dir |-> FALSE, size |-> BLKSIZE],
            [name |-> "d", dir |-> TRUE, list |-> <<>>]>>

\* Names: create, make and remove directories, delete, rename, change directory.
NameLoad == Load(1, 0, {}, {"cwd"}, Names, {"n"}, {1, 2}, {<<"rw", {"CREAT"}>>}, {}, {}, {})

\* The same in one directory, with a power failure.
CrashLoad == Load(1, 1, {}, {"cwd"}, {"f", "n"}, {"n"}, {1}, {<<"rw", {"CREAT"}>>}, {}, {}, {})

\* Two processes that grow, truncate and overwrite one file until the disk is full.
DataLoad == Load(1, 0, Procs, {"cwd"}, {"f"}, {}, {}, {<<"rw", {}>>, <<"rw", {"TRUNC"}>>},
                 {}, {4}, {<<4, "SET">>, <<10, "END">>})

\* Paths that start anywhere, and the device.
PathLoad == Load(2, 0, {}, {"cwd", "disk0", "stdin", "/", ":"}, {"", "f"}, {}, {},
                 {<<"r", {}>>, <<"r", {"CREAT", "EXCL"}>>}, {2}, {}, {<<0, "SET">>})

MCLoads == {NameLoad, CrashLoad, DataLoad, PathLoad}
MCNameLoads == {NameLoad}
=============================================================================
