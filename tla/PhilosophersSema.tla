-------------------------- MODULE PhilosophersSema --------------------------
(***************************************************************************)
(* The dining philosophers with semaphores: phi_test_sema,                 *)
(* phi_take_forks_sema, phi_put_forks_sema and philosopher_using_semaphore *)
(* of kern/sync/check_sync.c.  A step goes up to the next semaphore        *)
(* operation, and every philosopher that does not sleep may take the next  *)
(* one, which allows more than the kernel, where threads are switched only *)
(* when they sleep.                                                        *)
(***************************************************************************)
EXTENDS Semaphore         \* with Client = 0 .. N - 1

CONSTANTS N, TIMES      \* philosophers, and how often each eats

VARIABLES state_sema, pc, iter

vars == <<semVars, state_sema, pc, iter>>

LEFT(i) == (i + N - 1) % N
RIGHT(i) == (i + 1) % N

\* The semaphores: s[0] .. s[N-1] and the mutex.
mutex == N

Init ==
  /\ sem = [s \in 0 .. N |-> NewSem(IF s = mutex THEN 1 ELSE 0)]
  /\ blocked = {}
  /\ state_sema = [i \in Client |-> "THINKING"]
  /\ pc = [i \in Client |-> "think"]
  /\ iter = [i \in Client |-> 0]

At(i, l) == pc[i] = l /\ i \notin blocked
Goto(i, l) == pc' = [pc EXCEPT ![i] = l]

-----------------------------------------------------------------------------
\* A mutated form of PutRight.
MutTestRight(i) ==
  /\ At(i, "right")
  /\ Goto(i, "leave")
  /\ UNCHANGED <<semVars, state_sema, iter>>

-----------------------------------------------------------------------------
\* The condition of phi_test_sema.
MayEat(st, i) == st[i] = "HUNGRY" /\ st[LEFT(i)] # "EATING" /\ st[RIGHT(i)] # "EATING"

\* phi_test_sema in a table state st.
Test(st, i) == IF MayEat(st, i)
                 THEN state_sema' = [st EXCEPT ![i] = "EATING"] /\ Up(i)
                 ELSE state_sema' = st /\ UNCHANGED semVars

\* The loop of philosopher_using_semaphore; a philosopher that has eaten TIMES
\* times quits.  phi_take_forks_sema starts with down(&mutex).
Think(i) ==
  /\ At(i, "think") /\ iter[i] < TIMES
  /\ iter' = [iter EXCEPT ![i] = @ + 1]
  /\ Down(mutex, i)
  /\ Goto(i, "take")
  /\ UNCHANGED state_sema

Quit(i) ==
  /\ At(i, "think") /\ iter[i] = TIMES
  /\ Goto(i, "quit")
  /\ UNCHANGED <<semVars, state_sema, iter>>

TakeTest(i) ==
  /\ At(i, "take")
  /\ Test([state_sema EXCEPT ![i] = "HUNGRY"], i)
  /\ Goto(i, "taken")
  /\ UNCHANGED iter

TakeLeave(i) ==
  /\ At(i, "taken")
  /\ Up(mutex)
  /\ Goto(i, "fork")
  /\ UNCHANGED <<state_sema, iter>>

TakeForks(i) ==
  /\ At(i, "fork")
  /\ Down(i, i)
  /\ Goto(i, "eat")
  /\ UNCHANGED <<state_sema, iter>>

\* Done eating: phi_put_forks_sema.
PutDown(i) ==
  /\ At(i, "eat")
  /\ Down(mutex, i)
  /\ Goto(i, "left")
  /\ UNCHANGED <<state_sema, iter>>

PutLeft(i) ==
  /\ At(i, "left")
  /\ Test([state_sema EXCEPT ![i] = "THINKING"], LEFT(i))
  /\ Goto(i, "right")
  /\ UNCHANGED iter

PutRight(i) ==
  /\ At(i, "right")
  /\ Test(state_sema, RIGHT(i))
  /\ Goto(i, "leave")
  /\ UNCHANGED iter

PutLeave(i) ==
  /\ At(i, "leave")
  /\ Up(mutex)
  /\ Goto(i, "think")
  /\ UNCHANGED <<state_sema, iter>>

Philosopher(i) == \/ Think(i) \/ Quit(i) \/ TakeTest(i) \/ TakeLeave(i)
                  \/ TakeForks(i) \/ PutDown(i) \/ PutLeft(i) \/ PutRight(i)
                  \/ PutLeave(i)

AllQuit == \A i \in Client : pc[i] = "quit"

Next == (\E i \in Client : Philosopher(i)) \/ (AllQuit /\ UNCHANGED vars)

\* A thread that is not asleep is scheduled (do_sleep included), because the
\* run queue is served in turn.
Spec == Init /\ [][Next]_vars /\ \A i \in Client : WF_vars(Philosopher(i))

-----------------------------------------------------------------------------
\* A philosopher that has returned from phi_take_forks_sema and has not yet
\* put its forks back has both of them: its neighbours are not EATING.
ForksExclusive ==
  \A i \in Client :
     /\ At(i, "eat") => state_sema[i] = "EATING"
     /\ state_sema[i] = "EATING" => state_sema[LEFT(i)] # "EATING"

\* All philosophers finish their TIMES meals: no deadlock, and nobody is
\* overlooked for ever.
EverybodyQuits == <>AllQuit
=============================================================================
