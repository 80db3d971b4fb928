------------------------ MODULE PhilosophersCondvar ------------------------
(***************************************************************************)
(* Monitors (kern/sync/monitor.c) and the dining philosophers that use one *)
(* (the second half of kern/sync/check_sync.c).                            *)
(*                                                                         *)
(* The monitor is built from semaphores: mutex to enter, next for the      *)
(* processes that have signalled and let the woken one go first, and one   *)
(* per condition variable.  A step goes up to the next semaphore operation *)
(* and any philosopher that does not sleep may take the next one.          *)
(***************************************************************************)
EXTENDS Semaphore         \* with Client = 0 .. N - 1

CONSTANTS N, TIMES

VARIABLES next_count,   \* processes waiting for mt.next, or about to
          count,        \* count[i]: processes waiting for cv[i]
          state_condvar, pc, iter,
          tests,        \* the philosophers still to be tested by i
          taking        \* i executes phi_take_forks, not phi_put_forks

monitorVars == <<next_count, count>>
vars == <<semVars, monitorVars, state_condvar, pc, iter, tests, taking>>

LEFT(i) == (i + N - 1) % N
RIGHT(i) == (i + 1) % N

\* The semaphores: cv[i].sem is i.
mutex == N
next == N + 1

\* monitor_init.
Init ==
  /\ sem = [s \in 0 .. N + 1 |-> NewSem(IF s = mutex THEN 1 ELSE 0)]
  /\ blocked = {}
  /\ next_count = 0
  /\ count = [i \in Client |-> 0]
  /\ state_condvar = [i \in Client |-> "THINKING"]
  /\ pc = [i \in Client |-> "think"]
  /\ iter = [i \in Client |-> 0]
  /\ tests = [i \in Client |-> <<>>]
  /\ taking = [i \in Client |-> TRUE]

At(i, l) == pc[i] = l /\ i \notin blocked
Goto(i, l) == pc' = [pc EXCEPT ![i] = l]

-----------------------------------------------------------------------------
\* Mutated forms of definitions below.

MutSignalWait(i) ==
  /\ At(i, "signalled")
  /\ Goto(i, "resumed")
  /\ UNCHANGED <<semVars, monitorVars, state_condvar, iter, tests, taking>>

MutMayEat(i) == state_condvar[i] = "HUNGRY" /\ state_condvar[RIGHT(i)] # "EATING"

-----------------------------------------------------------------------------
\* Leaving the monitor, in cond_wait or at the end of a routine: a process
\* that has signalled goes first.
HandOver == IF next_count > 0 THEN Up(next) ELSE Up(mutex)

MayEat(i) == /\ state_condvar[i] = "HUNGRY"
             /\ state_condvar[LEFT(i)] # "EATING"
             /\ state_condvar[RIGHT(i)] # "EATING"

\* philosopher_using_condvar, up to the down(&mutex) of phi_take_forks_condvar.
Think(i) ==
  /\ At(i, "think") /\ iter[i] < TIMES
  /\ iter' = [iter EXCEPT ![i] = @ + 1]
  /\ Down(mutex, i)
  /\ Goto(i, "enter")
  /\ taking' = [taking EXCEPT ![i] = TRUE]
  /\ UNCHANGED <<monitorVars, state_condvar, tests>>

Quit(i) ==
  /\ At(i, "think") /\ iter[i] = TIMES
  /\ Goto(i, "quit")
  /\ UNCHANGED <<semVars, monitorVars, state_condvar, iter, tests, taking>>

\* Done eating: phi_put_forks_condvar up to its down(&mutex).
Eat(i) ==
  /\ At(i, "eat")
  /\ Down(mutex, i)
  /\ Goto(i, "enter")
  /\ taking' = [taking EXCEPT ![i] = FALSE]
  /\ UNCHANGED <<monitorVars, state_condvar, iter, tests>>

\* The neighbours whose turn it may be when i puts its forks back.
TestedOnPut(i) == <<LEFT(i), RIGHT(i)>>

Enter(i) ==
  /\ At(i, "enter")
  /\ state_condvar' = [state_condvar EXCEPT ![i] = IF taking[i] THEN "HUNGRY" ELSE "THINKING"]
  /\ tests' = [tests EXCEPT ![i] = IF taking[i] THEN <<i>> ELSE TestedOnPut(i)]
  /\ Goto(i, "test")
  /\ UNCHANGED <<semVars, monitorVars, iter, taking>>

\* phi_test_condvar(j) by i, with cond_signal(cv[j]) when somebody waits: the
\* waiting process is woken and i is about to wait for mt.next.
TestSignal(i) ==
  /\ At(i, "test") /\ tests[i] # <<>>
  /\ LET j == Head(tests[i])
     IN  /\ MayEat(j) /\ count[j] > 0
         /\ state_condvar' = [state_condvar EXCEPT ![j] = "EATING"]
         /\ next_count' = next_count + 1
         /\ Up(j)
  /\ Goto(i, "signalled")
  /\ UNCHANGED <<count, iter, tests, taking>>

\* phi_test_condvar(j) when nobody waits for cv[j], or j may not eat.
TestOnly(i) ==
  /\ At(i, "test") /\ tests[i] # <<>>
  /\ LET j == Head(tests[i])
     IN  IF MayEat(j)
           THEN count[j] = 0 /\ state_condvar' = [state_condvar EXCEPT ![j] = "EATING"]
           ELSE state_condvar' = state_condvar
  /\ tests' = [tests EXCEPT ![i] = Tail(@)]
  /\ UNCHANGED <<semVars, monitorVars, pc, iter, taking>>

\* down(&next) in cond_signal, and its end.
SignalWait(i) ==
  /\ At(i, "signalled")
  /\ Down(next, i)
  /\ Goto(i, "resumed")
  /\ UNCHANGED <<monitorVars, state_condvar, iter, tests, taking>>

SignalEnd(i) ==
  /\ At(i, "resumed")
  /\ next_count' = next_count - 1
  /\ tests' = [tests EXCEPT ![i] = Tail(@)]
  /\ Goto(i, "test")
  /\ UNCHANGED <<semVars, count, state_condvar, iter, taking>>

\* cond_wait(cv[i]) of a philosopher that did not get the forks.
CondWait(i) ==
  /\ At(i, "test") /\ tests[i] = <<>>
  /\ taking[i] /\ state_condvar[i] # "EATING"
  /\ count' = [count EXCEPT ![i] = @ + 1]
  /\ HandOver
  /\ Goto(i, "wait")
  /\ UNCHANGED <<next_count, state_condvar, iter, tests, taking>>

CondSleep(i) ==
  /\ At(i, "wait")
  /\ Down(i, i)
  /\ Goto(i, "woken")
  /\ UNCHANGED <<monitorVars, state_condvar, iter, tests, taking>>

CondWaitEnd(i) ==
  /\ At(i, "woken")
  /\ count' = [count EXCEPT ![i] = @ - 1]
  /\ Goto(i, "leave")
  /\ UNCHANGED <<semVars, next_count, state_condvar, iter, tests, taking>>

\* The routine is done.
RoutineEnd(i) ==
  /\ At(i, "test") /\ tests[i] = <<>>
  /\ ~taking[i] \/ state_condvar[i] = "EATING"
  /\ Goto(i, "leave")
  /\ UNCHANGED <<semVars, monitorVars, state_condvar, iter, tests, taking>>

Leave(i) ==
  /\ At(i, "leave")
  /\ HandOver
  /\ Goto(i, IF taking[i] THEN "eat" ELSE "think")
  /\ UNCHANGED <<monitorVars, state_condvar, iter, tests, taking>>

Philosopher(i) == \/ Think(i) \/ Quit(i) \/ Eat(i) \/ Enter(i) \/ TestSignal(i)
                  \/ TestOnly(i) \/ SignalWait(i) \/ SignalEnd(i) \/ CondWait(i)
                  \/ CondSleep(i) \/ CondWaitEnd(i) \/ RoutineEnd(i) \/ Leave(i)

AllQuit == \A i \in Client : pc[i] = "quit"

Next == (\E i \in Client : Philosopher(i)) \/ (AllQuit /\ UNCHANGED vars)

\* A thread that is not asleep is scheduled, because the run queue is served
\* in turn.
Spec == Init /\ [][Next]_vars /\ \A i \in Client : WF_vars(Philosopher(i))

-----------------------------------------------------------------------------
\* "Only one process at a time may be be active in a monitor" (monitor.h):
\* the signaller is not active until the process it woke has left or waits
\* again.  (A process at "signalled" or "wait" has given the monitor away and
\* its next operation is the down that puts it to sleep.)  next_count is the
\* number of processes inside cond_signal, so HandOver never ups next for nobody,
\* and never the mutex while a signaller waits.
OneActive ==
  /\ Cardinality({i \in Client : pc[i] \in {"enter", "test", "resumed", "woken", "leave"}
                                 /\ i \notin blocked}) <= 1
  /\ next_count = Cardinality({i \in Client : pc[i] \in {"signalled", "resumed"}})

\* Neighbours never eat at the same time, and a philosopher that has returned
\* from phi_take_forks_condvar is EATING: cond_wait needs no loop around it,
\* because the woken process runs before anyone else can change the table.
ForksExclusive ==
  \A i \in Client :
     /\ At(i, "eat") => state_condvar[i] = "EATING"
     /\ state_condvar[i] = "EATING" => state_condvar[LEFT(i)] # "EATING"

\* All philosophers finish their TIMES meals.
EverybodyQuits == <>AllQuit
=============================================================================
