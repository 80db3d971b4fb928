------------------------------ MODULE Process ------------------------------
(***************************************************************************)
(* The life of processes under the round-robin scheduler: do_fork,         *)
(* do_exit, do_wait, do_kill, do_yield, do_sleep, init_main and cpu_idle   *)
(* (kern/process/proc.c), wakeup_proc, schedule and run_timer_list         *)
(* (kern/schedule/sched.c), the round-robin class (rr_sched.c) and the     *)
(* tail of trap() (kern/trap/trap.c).                                      *)
(*                                                                         *)
(* One CPU, and no preemption inside the kernel: only the current process  *)
(* takes steps, schedule() is the only switch, and the timer interrupt is  *)
(* the only thing that comes in between, wherever interrupts are enabled.  *)
(* at[p] is the place in the kernel where p stands.  A system call is one  *)
(* step up to the place where it sleeps; the windows between "go to sleep" *)
(* and schedule(), and those of do_exit, are places of their own because   *)
(* a timer interrupt can hit them.                                         *)
(*                                                                         *)
(* A process is named by its slot.  Which id get_pid gives it is the       *)
(* subject of PidAlloc; the linked lists of processes, that of ProcTable.  *)
(***************************************************************************)
EXTENDS TimerList

CONSTANTS idleproc, initproc,
          MAX_PROCESS,
          max_time_slice

\* The processes that are forked are the ones that may sleep on a timer.
User == Sleeper
Proc == User \cup {idleproc, initproc}

ASSUME ProcessAssumption ==
  /\ idleproc # initproc
  /\ idleproc \notin User /\ initproc \notin User
  /\ IsFiniteSet(User)
  /\ max_time_slice \in Nat \ {0}
  /\ MAX_PROCESS \in Nat

VARIABLES state,        \* "FREE" for a slot without a process
          wait_state, exiting, parent, need_resched, time_slice,
          at, current,
          rq,           \* the run queue, head first
          waitpid       \* argument of the do_wait a process is in

procVars == <<state, wait_state, exiting, parent, need_resched, time_slice,
              at, current, rq, waitpid>>
vars == <<timerVars, procVars>>

AnyChild == "any"       \* do_wait(0)

\* A mutated form of the next definition.
MutInterruptible == {"none", "CHILD", "TIMER"}

\* WT_CHILD and WT_TIMER contain WT_INTERRUPTED, 0 does not.
Interruptible == {"CHILD", "TIMER"}

\* Where schedule() is called, and where its caller goes on afterwards.
Resume == [wait_sched |-> "wait_ret", sleep_sched |-> "sleep_ret",
           exit_sched |-> "dead", init_sched |-> "init_wait",
           resched |-> "user"]

\* Places with interrupts disabled, or where the machine has stopped.
IntrOff == {"exit_reparent", "halt", "panic"}

\* proc_init: idleproc is running, initproc has been forked by it.
Init ==
  /\ TimerInit
  /\ state = [p \in Proc |-> IF p \in User THEN "FREE" ELSE "RUNNABLE"]
  /\ wait_state = [p \in Proc |-> "none"]
  /\ exiting = [p \in Proc |-> FALSE]
  /\ parent = [p \in Proc |-> idleproc]
  /\ need_resched = [p \in Proc |-> p = idleproc]
  /\ time_slice = [p \in Proc |-> IF p = initproc THEN max_time_slice ELSE 0]
  /\ at = [p \in Proc |-> IF p = idleproc THEN "idle"
                          ELSE IF p = initproc THEN "init_fork" ELSE "none"]
  /\ current = idleproc
  /\ rq = <<initproc>>
  /\ waitpid = [p \in Proc |-> AnyChild]

Alive == {p \in Proc : state[p] # "FREE"}
Zombies == {p \in Proc : state[p] = "ZOMBIE"}
Children(p) == {c \in User : state[c] # "FREE" /\ parent[c] = p}

\* The children a do_wait for t is about.
Kids(p, t) == {c \in Children(p) : t = AnyChild \/ t = c}

\* p executes outside of an interrupt and stands at place l.
Running(p, l) == irq = "none" /\ current = p /\ at[p] = l

-----------------------------------------------------------------------------
\* Mutated forms of definitions below.

MutEnqueueCurrent(p) ==
  IF state[p] # "RUNNABLE"
    THEN /\ state' = [state EXCEPT ![p] = "RUNNABLE"]
         /\ wait_state' = [wait_state EXCEPT ![p] = "none"]
         /\ rq' = Append(rq, p)
         /\ time_slice' = [time_slice EXCEPT ![p] = max_time_slice]
    ELSE UNCHANGED <<state, wait_state, rq, time_slice>>

MutNoInitWakeup(p) == FALSE

MutNoReparent(p) == {}

MutNoDelTimer(p) == UNCHANGED timers

MutTickNeverResched(p) ==
  /\ time_slice' = [time_slice EXCEPT ![p] = IF @ > 0 THEN @ - 1 ELSE @]
  /\ UNCHANGED need_resched

MutTickBelowZero(p) ==
  /\ time_slice' = [time_slice EXCEPT ![p] = IF p = idleproc THEN @ ELSE @ - 1]
  /\ need_resched' = [need_resched EXCEPT ![p] = @ \/ p = idleproc \/ time_slice'[p] = 0]

-----------------------------------------------------------------------------
\* RR_enqueue refills a time slice that is used up.
RefilledSlice(p) == IF time_slice[p] = 0 \/ time_slice[p] > max_time_slice
                      THEN max_time_slice ELSE time_slice[p]

\* wakeup_proc; waking a runnable process only prints a warning.
WakeupProc(p) ==
  IF state[p] # "RUNNABLE"
    THEN /\ state' = [state EXCEPT ![p] = "RUNNABLE"]
         /\ wait_state' = [wait_state EXCEPT ![p] = "none"]
         /\ IF p # current
              THEN /\ rq' = Append(rq, p)
                   /\ time_slice' = [time_slice EXCEPT ![p] = RefilledSlice(p)]
              ELSE UNCHANGED <<rq, time_slice>>
    ELSE UNCHANGED <<state, wait_state, rq, time_slice>>

\* Does schedule() put the process that calls it back into the queue?
Requeues(p) == state[p] = "RUNNABLE" /\ p # idleproc

\* schedule, called by the current process p: back into the queue if it is
\* still runnable, then the head of the queue or else idleproc runs.
Schedule(p) ==
  LET q == IF Requeues(p) THEN Append(rq, p) ELSE rq
  IN  /\ need_resched' = [need_resched EXCEPT ![p] = FALSE]
      /\ time_slice' = IF Requeues(p)
                         THEN [time_slice EXCEPT ![p] = RefilledSlice(p)]
                         ELSE time_slice
      /\ current' = IF q = <<>> THEN idleproc ELSE Head(q)
      /\ rq' = IF q = <<>> THEN q ELSE Tail(q)

\* A caller of schedule() switches away; it goes on at Resume.
Switch(p) ==
  /\ irq = "none" /\ current = p /\ at[p] \in DOMAIN Resume
  /\ Schedule(p)
  /\ at' = [at EXCEPT ![p] = Resume[at[p]]]
  /\ UNCHANGED <<timerVars, state, wait_state, exiting, parent, waitpid>>

\* cpu_idle calls schedule() once need_resched is set.
CpuIdle ==
  /\ Running(idleproc, "idle")
  /\ need_resched[idleproc]
  /\ Schedule(idleproc)
  /\ UNCHANGED <<timerVars, state, wait_state, exiting, parent, at, waitpid>>

-----------------------------------------------------------------------------
\* do_fork by p of a process in slot c, which then is in state PROC_UNINIT and
\* is put into the run queue by wakeup_proc.
DoFork(p, c) ==
  /\ Cardinality(Alive) < MAX_PROCESS
  /\ state[c] = "FREE"
  /\ parent' = [parent EXCEPT ![c] = p]
  /\ WakeupProc(c)
  /\ UNCHANGED <<timerVars, exiting, need_resched, current, waitpid>>

SysFork(p, c) ==
  /\ Running(p, "user")
  /\ DoFork(p, c)
  /\ at' = [at EXCEPT ![p] = "tail", ![c] = "user"]

\* A system call that fails before it changes anything: do_fork without a free
\* process or memory, do_kill of an unknown id, do_sleep(0), ...
SysNothing(p) ==
  /\ Running(p, "user")
  /\ at' = [at EXCEPT ![p] = "tail"]
  /\ UNCHANGED <<timerVars, state, wait_state, exiting, parent, need_resched,
                 time_slice, current, rq, waitpid>>

\* do_exit up to the point where interrupts are disabled.  For initproc it is
\* a panic.
DoExit(p) ==
  /\ IF p = initproc
       THEN state' = state /\ at' = [at EXCEPT ![p] = "panic"]
       ELSE /\ state' = [state EXCEPT ![p] = "ZOMBIE"]
            /\ at' = [at EXCEPT ![p] = "exit_zombie"]
  /\ waitpid' = [waitpid EXCEPT ![p] = AnyChild]
  /\ UNCHANGED <<timerVars, wait_state, exiting, parent, need_resched,
                 time_slice, current, rq>>

\* sys_exit, or a fault that kills the process.
SysExit(p) == Running(p, "user") /\ DoExit(p)

\* The parent is woken if it waits for a child.
ExitNotify(p) ==
  /\ Running(p, "exit_zombie")
  /\ IF wait_state[parent[p]] = "CHILD"
       THEN WakeupProc(parent[p])
       ELSE UNCHANGED <<state, wait_state, rq, time_slice>>
  /\ at' = [at EXCEPT ![p] = "exit_reparent"]
  /\ UNCHANGED <<timerVars, exiting, parent, need_resched, current, waitpid>>

\* The children of p that do_exit hands over to initproc: all of them.
Adopted(p) == Children(p)

\* Is initproc woken for one of them?
WakesInit(p) == Adopted(p) \cap Zombies # {} /\ wait_state[initproc] = "CHILD"

ExitReparent(p) ==
  /\ Running(p, "exit_reparent")
  /\ parent' = [c \in Proc |-> IF c \in Adopted(p) THEN initproc ELSE parent[c]]
  /\ IF WakesInit(p)
       THEN WakeupProc(initproc)
       ELSE UNCHANGED <<state, wait_state, rq, time_slice>>
  /\ at' = [at EXCEPT ![p] = "exit_sched"]
  /\ UNCHANGED <<timerVars, exiting, need_resched, current, waitpid>>

\* do_wait by p for t, from its label "repeat" on, in its three outcomes.
\* Which zombie is found first is left open.  The slot of a process that is
\* freed is kept in the form in which alloc_proc returns it.
WaitReap(p, t) ==
  /\ \E z \in Kids(p, t) \cap Zombies :
       /\ state' = [state EXCEPT ![z] = "FREE"]
       /\ at' = [at EXCEPT ![z] = "none",
                           ![p] = IF p = initproc THEN "init_sched" ELSE "tail"]
       /\ parent' = [parent EXCEPT ![z] = idleproc]
       /\ exiting' = [exiting EXCEPT ![z] = FALSE]
       /\ time_slice' = [time_slice EXCEPT ![z] = 0]
  /\ waitpid' = [waitpid EXCEPT ![p] = AnyChild]
  /\ UNCHANGED <<timerVars, wait_state, need_resched, current, rq>>

WaitSleep(p, t) ==
  /\ Kids(p, t) # {} /\ Kids(p, t) \cap Zombies = {}
  /\ state' = [state EXCEPT ![p] = "SLEEPING"]
  /\ wait_state' = [wait_state EXCEPT ![p] = "CHILD"]
  /\ waitpid' = [waitpid EXCEPT ![p] = t]
  /\ at' = [at EXCEPT ![p] = "wait_sched"]
  /\ UNCHANGED <<timerVars, exiting, parent, need_resched, time_slice, current, rq>>

WaitNoChild(p, t) ==
  /\ Kids(p, t) = {}
  /\ at' = [at EXCEPT ![p] = IF p = initproc THEN "halt" ELSE "tail"]
  /\ waitpid' = [waitpid EXCEPT ![p] = AnyChild]
  /\ UNCHANGED <<timerVars, state, wait_state, exiting, parent, need_resched,
                 time_slice, current, rq>>

DoWait(p, t) == WaitReap(p, t) \/ WaitSleep(p, t) \/ WaitNoChild(p, t)

SysWait(p, t) == Running(p, "user") /\ DoWait(p, t)

\* do_wait after its schedule() has returned.
WaitRet(p) ==
  /\ Running(p, "wait_ret")
  /\ IF exiting[p] THEN DoExit(p) ELSE DoWait(p, waitpid[p])

\* do_kill of process t (the unlinking from proc_list is in ProcTable).
SysKill(p, t) ==
  /\ Running(p, "user")
  /\ t \in Alive \ {idleproc}
  /\ exiting' = [exiting EXCEPT ![t] = TRUE]
  /\ IF ~exiting[t] /\ wait_state[t] \in Interruptible
       THEN WakeupProc(t)
       ELSE UNCHANGED <<state, wait_state, rq, time_slice>>
  /\ at' = [at EXCEPT ![p] = "tail"]
  /\ UNCHANGED <<timerVars, parent, need_resched, current, waitpid>>

SysYield(p) ==
  /\ Running(p, "user")
  /\ need_resched' = [need_resched EXCEPT ![p] = TRUE]
  /\ at' = [at EXCEPT ![p] = "tail"]
  /\ UNCHANGED <<timerVars, state, wait_state, exiting, parent, time_slice,
                 current, rq, waitpid>>

\* do_sleep up to its call of schedule(), and after it.
SysSleep(p, e) ==
  /\ Running(p, "user")
  /\ state' = [state EXCEPT ![p] = "SLEEPING"]
  /\ wait_state' = [wait_state EXCEPT ![p] = "TIMER"]
  /\ AddTimer(p, e)
  /\ at' = [at EXCEPT ![p] = "sleep_sched"]
  /\ UNCHANGED <<irq, exiting, parent, need_resched, time_slice, current, rq, waitpid>>

SleepDelTimer(p) == DelTimer(p)

SleepRet(p) ==
  /\ Running(p, "sleep_ret")
  /\ SleepDelTimer(p)
  /\ at' = [at EXCEPT ![p] = "tail"]
  /\ UNCHANGED <<irq, state, wait_state, exiting, parent, need_resched,
                 time_slice, current, rq, waitpid>>

\* The tail of trap(), for a trap that came from user mode: exit if killed,
\* else reschedule if asked to, else return to user mode.
TrapExit(p) == Running(p, "tail") /\ exiting[p] /\ DoExit(p)

TrapReturn(p) ==
  /\ Running(p, "tail") /\ ~exiting[p]
  /\ at' = [at EXCEPT ![p] = IF need_resched[p] THEN "resched" ELSE "user"]
  /\ UNCHANGED <<timerVars, state, wait_state, exiting, parent, need_resched,
                 time_slice, current, rq, waitpid>>

-----------------------------------------------------------------------------
\* init_main: fork user_main, then wait for children until there are none.
InitFork(c) ==
  /\ Running(initproc, "init_fork")
  /\ DoFork(initproc, c)
  /\ at' = [at EXCEPT ![initproc] = "init_wait", ![c] = "user"]

InitWait == Running(initproc, "init_wait") /\ DoWait(initproc, AnyChild)

-----------------------------------------------------------------------------
\* The timer interrupt: run_timer_list, one step per process it wakes.
TickStart ==
  /\ at[current] \notin IntrOff
  /\ TimerTick
  /\ UNCHANGED procVars

TickWake ==
  /\ FireHead
  /\ WakeupProc(Head(timers).proc)
  /\ UNCHANGED <<exiting, parent, need_resched, at, current, waitpid>>

\* sched_class_proc_tick: RR_proc_tick, or for idleproc a request to schedule.
ProcTick(p) ==
  IF p = idleproc
    THEN /\ need_resched' = [need_resched EXCEPT ![p] = TRUE]
         /\ UNCHANGED time_slice
    ELSE LET left == IF time_slice[p] > 0 THEN time_slice[p] - 1 ELSE 0
         IN  /\ time_slice' = [time_slice EXCEPT ![p] = left]
             /\ need_resched' = [need_resched EXCEPT ![p] = @ \/ left = 0]

\* Only a process interrupted in user mode goes through the tail of trap().
TickEnd ==
  /\ TimerTickEnd
  /\ ProcTick(current)
  /\ at' = [at EXCEPT ![current] = IF @ = "user" THEN "tail" ELSE @]
  /\ UNCHANGED <<state, wait_state, exiting, parent, current, rq, waitpid>>

\* initproc has left init_main or was killed: the machine stops.
Halted == irq = "none" /\ at[initproc] \in {"halt", "panic"} /\ UNCHANGED vars

\* The steps that the kernel takes by itself; a process in user mode is free
\* to make any system call, or none.
KernelStep ==
  \/ \E p \in Proc : Switch(p)
  \/ \E p \in User : \/ ExitNotify(p) \/ ExitReparent(p)
                     \/ SleepRet(p) \/ TrapExit(p) \/ TrapReturn(p)
  \/ \E p \in Proc : WaitRet(p)
  \/ \E c \in User : InitFork(c)
  \/ InitWait
  \/ CpuIdle

UserStep ==
  \E p \in User :
     \/ \E c \in User : SysFork(p, c)
     \/ SysNothing(p)
     \/ SysExit(p)
     \/ \E t \in User \cup {AnyChild} : SysWait(p, t)
     \/ \E t \in User \cup {initproc} : SysKill(p, t)
     \/ SysYield(p)
     \/ \E e \in 1 .. MaxSleep : SysSleep(p, e)

Tick == TickStart \/ TickWake \/ TickEnd

Next == KernelStep \/ UserStep \/ Tick \/ Halted

SafetySpec == Init /\ [][Next]_vars

\* The timer keeps interrupting, and the code it interrupts goes on in between:
\* strong fairness, because a kernel step is not enabled during an interrupt.
Spec == SafetySpec /\ SF_vars(KernelStep) /\ WF_vars(Tick)

-----------------------------------------------------------------------------
\* Types of the process table and the run queue.
TypeOK ==
  /\ state \in [Proc -> {"FREE", "RUNNABLE", "SLEEPING", "ZOMBIE"}]
  /\ wait_state \in [Proc -> {"none", "CHILD", "TIMER"}]
  /\ exiting \in [Proc -> BOOLEAN]
  /\ parent \in [Proc -> Proc]
  /\ need_resched \in [Proc -> BOOLEAN]
  /\ time_slice \in [Proc -> 0 .. max_time_slice]
  /\ at \in [Proc -> {"none", "dead", "user", "tail", "idle", "halt", "panic",
                      "init_fork", "init_wait", "wait_ret", "sleep_ret",
                      "exit_zombie", "exit_reparent"} \cup DOMAIN Resume]
  /\ current \in Proc
  /\ rq \in Seq(Proc)
  /\ waitpid \in [Proc -> User \cup {AnyChild}]
  /\ irq \in {"none", "fire", "tick"}

InRq == {rq[i] : i \in 1 .. Len(rq)}

\* The run queue holds every runnable process that is not running, once, and
\* nothing else (the asserts of RR_enqueue and RR_dequeue; a process in it
\* twice, or missing from it, would be lost or run while it sleeps).
RunQueueExact ==
  /\ InRq = {p \in Proc \ {current, idleproc} : state[p] = "RUNNABLE"}
  /\ \A i, j \in 1 .. Len(rq) : rq[i] = rq[j] => i = j

\* A process that has passed do_wait's scan is not asleep while a child it
\* waits for is a zombie: do_exit's wakeup cannot be lost, even when the
\* child came to initproc by adoption.
NoLostChildWakeup ==
  \A p \in Proc : wait_state[p] = "CHILD" =>
     \A z \in Kids(p, waitpid[p]) \cap Zombies : at[z] = "exit_zombie"

\* Every process has a parent that can still reap it; so wakeup_proc in
\* do_exit never meets a zombie (its assert) or a slot already freed.
ParentCanReap ==
  \A c \in User : state[c] # "FREE" =>
     \/ state[parent[c]] \in {"RUNNABLE", "SLEEPING"} /\ parent[c] # idleproc
     \/ at[parent[c]] \in {"exit_zombie", "exit_reparent"}

\* A timer lives on the kernel stack of the process in do_sleep that owns it,
\* so it must be out of the list before that process leaves do_sleep, however
\* it was woken; and a process that sleeps on a timer has one.
TimerOwnersSleep ==
  /\ \A i, j \in 1 .. Len(timers) : timers[i].proc = timers[j].proc => i = j
  /\ Owners \subseteq {p \in User : at[p] \in {"sleep_sched", "sleep_ret"}}
  /\ {p \in User : wait_state[p] = "TIMER"} \subseteq Owners

\* wait_state is set exactly while a process sleeps: do_kill never wakes a
\* zombie, and do_fork's assert(current->wait_state == 0) holds.
WaitStateMeansAsleep ==
  \A p \in Proc : (wait_state[p] # "none") <=> (state[p] = "SLEEPING")

\* The asserts at the end of init_main: when initproc has no child left, no
\* process but it and idleproc exists.
InitLeavesLast == at[initproc] = "halt" => Alive = {idleproc, initproc}

\* Only do_wait by its parent ends a zombie, and nothing revives it.
ZombieEndsByParent ==
  [][\A p \in Proc : state[p] = "ZOMBIE" /\ state'[p] # "ZOMBIE"
        => state'[p] = "FREE" /\ current = parent[p]]_vars

\* Has the machine stopped?
Stopped == at[initproc] \in {"halt", "panic"}

\* A runnable process eventually runs, whatever the others do.
RunnableRuns ==
  \A p \in User \cup {initproc} :
     state[p] = "RUNNABLE" ~> (current = p \/ Stopped)

\* A process in do_sleep eventually returns from it.
SleeperWakes ==
  \A p \in User : wait_state[p] = "TIMER" ~> (at[p] = "tail" \/ Stopped)

\* "kill process with pid by set this process's flags with PF_EXITING"
\* (comment of do_kill): a process that is killed eventually terminates.
KilledTerminates ==
  \A p \in User : exiting[p] ~> (state[p] \in {"ZOMBIE", "FREE"} \/ Stopped)
=============================================================================
