------------------------------ MODULE PidAlloc ------------------------------
(***************************************************************************)
(* get_pid and the callers that change what it scans (kern/process/proc.c).*)
(*                                                                         *)
(* get_pid keeps two static variables: last_pid, the id handed out last,   *)
(* and next_safe, an upper end such that no id strictly between the two is *)
(* in use.  While the window lasts an id costs one increment; when it is   *)
(* exhausted proc_list is scanned and the window recomputed.               *)
(*                                                                         *)
(* do_fork calls get_pid with interrupts disabled, so proc_list does not   *)
(* change during a call.  One step of the model is one iteration of the    *)
(* scanning loop.                                                          *)
(***************************************************************************)
EXTENDS Integers, Sequences, FiniteSets

CONSTANTS MAX_PROCESS, MAX_PID

\* static_assert(MAX_PID > MAX_PROCESS) in get_pid.
ASSUME PidAssumption == /\ MAX_PROCESS \in Nat
                        /\ MAX_PID \in Nat
                        /\ MAX_PID > MAX_PROCESS
                        /\ MAX_PROCESS > 2

VARIABLES proc_list,    \* ids of the linked processes, head of the list first
          last_pid, next_safe,
          pc,           \* "out": not in get_pid, "scan": in its loop,
                        \* "return": it returns last_pid to do_fork
          le            \* position of the loop in proc_list

vars == <<proc_list, last_pid, next_safe, pc, le>>

Pid == 1 .. MAX_PID - 1

\* The idle process is counted but is not in proc_list.
nr_process == Len(proc_list) + 1

Init == /\ proc_list = <<>>
        /\ last_pid = MAX_PID
        /\ next_safe = MAX_PID
        /\ pc = "out"
        /\ le = 1

-----------------------------------------------------------------------------
\* Mutated forms of the definitions below, each a plausible slip in the code.

MutNoLimit == Len(proc_list) < MAX_PID

MutLateRescan(l) == l > next_safe

MutKeepScanning == le + 1

-----------------------------------------------------------------------------
\* do_fork refuses when nr_process >= MAX_PROCESS.
ForkAllowed == nr_process < MAX_PROCESS

\* Has the incremented last_pid left the window?
WindowUsedUp(l) == l >= next_safe

WrapPid(l) == IF l >= MAX_PID THEN 1 ELSE l

\* Where the loop resumes when it finds the window empty: "goto repeat".
Repeat == 1

\* do_fork calls get_pid; the part of get_pid before the loop.
Enter ==
  /\ pc = "out"
  /\ ForkAllowed
  /\ last_pid' = WrapPid(last_pid + 1)
  /\ IF last_pid + 1 >= MAX_PID \/ WindowUsedUp(last_pid + 1)
       THEN next_safe' = MAX_PID /\ pc' = "scan" /\ le' = 1
       ELSE pc' = "return" /\ UNCHANGED <<next_safe, le>>
  /\ UNCHANGED proc_list

\* The loop meets a process that has last_pid: try the next id, and start
\* over when that leaves the window.
Collide ==
  /\ pc = "scan" /\ le <= Len(proc_list)
  /\ proc_list[le] = last_pid
  /\ IF WindowUsedUp(last_pid + 1)
       THEN /\ last_pid' = WrapPid(last_pid + 1)
            /\ next_safe' = MAX_PID
            /\ le' = Repeat
       ELSE /\ last_pid' = last_pid + 1
            /\ le' = le + 1
            /\ UNCHANGED next_safe
  /\ UNCHANGED <<proc_list, pc>>

\* The loop meets a process with another id: lower next_safe to it if it lies
\* in the window.
Shrink ==
  /\ pc = "scan" /\ le <= Len(proc_list)
  /\ proc_list[le] # last_pid
  /\ next_safe' = IF proc_list[le] > last_pid /\ next_safe > proc_list[le]
                    THEN proc_list[le] ELSE next_safe
  /\ le' = le + 1
  /\ UNCHANGED <<proc_list, last_pid, pc>>

ScanEnd ==
  /\ pc = "scan" /\ le > Len(proc_list)
  /\ pc' = "return"
  /\ UNCHANGED <<proc_list, last_pid, next_safe, le>>

\* do_fork stores the id; set_links puts the process at the head of proc_list.
SetLinks ==
  /\ pc = "return"
  /\ proc_list' = <<last_pid>> \o proc_list
  /\ pc' = "out"
  /\ UNCHANGED <<last_pid, next_safe, le>>

\* do_wait frees a zombie; remove_links takes it out of proc_list.
RemoveLinks(i) ==
  /\ pc = "out"
  /\ proc_list' = [k \in 1 .. Len(proc_list) - 1 |->
                     IF k < i THEN proc_list[k] ELSE proc_list[k + 1]]
  /\ UNCHANGED <<last_pid, next_safe, pc, le>>

GetPidStep == Collide \/ Shrink \/ ScanEnd \/ SetLinks

Next == \/ Enter
        \/ GetPidStep
        \/ \E i \in 1 .. Len(proc_list) : RemoveLinks(i)

\* get_pid runs with interrupts disabled: once entered it keeps executing.
Spec == Init /\ [][Next]_vars /\ WF_vars(GetPidStep)

-----------------------------------------------------------------------------
\* Types; last_pid and next_safe stay within the id range (get_pid).
TypeOK ==
  /\ proc_list \in Seq(Pid)
  /\ last_pid \in 1 .. MAX_PID
  /\ next_safe \in 1 .. MAX_PID
  /\ pc \in {"out", "scan", "return"}
  /\ le \in 1 .. MAX_PROCESS
  /\ nr_process <= MAX_PROCESS
  /\ pc # "out" => last_pid \in Pid /\ ForkAllowed

live == {proc_list[i] : i \in 1 .. Len(proc_list)}

\* The id get_pid returns to do_fork belongs to no live process, however the
\* window has aged while processes were forked and reaped.
FreshPid == pc = "return" => last_pid \notin live

\* No two linked processes have the same id, which find_proc, do_wait and
\* do_kill rely on.
UniquePids == \A i, j \in 1 .. Len(proc_list) :
                 proc_list[i] = proc_list[j] => i = j

\* No live id lies strictly inside the window [last_pid, next_safe) that
\* get_pid hands ids out of without looking at proc_list.
WindowFree == pc = "out" => \A p \in live : p <= last_pid \/ p >= next_safe

\* During the scan the same holds of the part of the list already passed.
ScanWindow == pc = "scan" =>
                \A i \in 1 .. Len(proc_list) :
                   i < le => proc_list[i] < last_pid \/ proc_list[i] >= next_safe

\* The loop of get_pid ends, restarts included: there is a free id because
\* MAX_PID > MAX_PROCESS bounds the number of live ones.
GetPidReturns == pc = "scan" ~> pc = "out"

PS == INSTANCE PidSpec

\* get_pid with do_fork and do_wait implements the abstract allocator.
ImplementsPidSpec == PS!Spec
=============================================================================
