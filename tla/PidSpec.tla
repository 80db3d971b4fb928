------------------------------ MODULE PidSpec ------------------------------
(***************************************************************************)
(* What get_pid promises its callers (kern/process/proc.c): a process id   *)
(* that no live process has.  Which free id is handed out is left open.    *)
(* Every process has an id of its own, so the ids and the processes are    *)
(* counted up and down together.                                           *)
(***************************************************************************)
EXTENDS Integers

CONSTANTS MAX_PROCESS,  \* bound on nr_process, the idle process included
          MAX_PID       \* process ids are 1 .. MAX_PID-1

VARIABLES live,         \* the ids of the processes linked into proc_list
          nr_process    \* how many processes there are, the idle one included

vars == <<live, nr_process>>

Pid == 1 .. MAX_PID - 1

Init == live = {} /\ nr_process = 1

\* do_fork gives a new process an id that is not in use.
Alloc == /\ nr_process < MAX_PROCESS
         /\ \E p \in Pid \ live : live' = live \cup {p}
         /\ nr_process' = nr_process + 1

\* do_wait frees a process and, with it, the id.
Free == /\ \E p \in live : live' = live \ {p}
        /\ nr_process' = nr_process - 1

Next == Alloc \/ Free

Spec == Init /\ [][Next]_vars
=============================================================================
