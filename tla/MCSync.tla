------------------------------- MODULE MCSync -------------------------------
(***************************************************************************)
(* What waits on the wait queues of kern/sync/wait.c, checked in one run:  *)
(* a lock, the dining philosophers with semaphores and with a monitor, and *)
(* the readers of the keyboard.  A behaviour is one of these, and part     *)
(* says which; the philosophers share their variables.                     *)
(***************************************************************************)
EXTENDS SemLock, Stdin, PhilosophersTable

VARIABLE part

\* The monitor's variables have their first value where there is no monitor.
MCInit ==
  /\ part \in {"lock", "sema", "condvar", "keys"}
  /\ Init /\ stdin_device_init
  /\ \/ part # "sema" /\ PC!Init
     \/ /\ part = "sema" /\ PS!Init
        /\ next_count = 0 /\ count = <<>> /\ tests = <<>> /\ taking = <<>>

\* The readers stop when all of them are dead and no key is left to be pressed.
MCNext ==
  \/ part = "lock" /\ Next /\ UNCHANGED <<part, philosophers, svars>>
  \/ part = "sema" /\ PS!Next /\ UNCHANGED <<part, monitor, vars, svars>>
  \/ part = "condvar" /\ PC!Next /\ UNCHANGED <<part, vars, svars>>
  \/ part = "keys" /\ StdinNext /\ UNCHANGED <<part, vars, philosophers>>
  \/ /\ part = "keys" /\ killed = Reader /\ pressed = MaxKeys
     /\ UNCHANGED <<part, vars, philosophers, svars>>

\* Fairness as in SemLock, PhilosophersSema and PhilosophersCondvar.
MCSpec ==
  /\ MCInit /\ [][MCNext]_<<part, vars, philosophers, svars>>
  /\ \A p \in Client : WF_vars(Unlock(p))
  /\ \A i \in 0 .. N - 1 :
       /\ WF_philosophers(part = "sema" /\ PS!Philosopher(i) /\ UNCHANGED monitor)
       /\ WF_philosophers(part = "condvar" /\ PC!Philosopher(i))

-----------------------------------------------------------------------------
\* Neighbours never eat at the same time, and who returns from phi_take_forks_sema
\* or phi_take_forks_condvar is EATING.
ForksExclusive == /\ part = "sema" => PS!ForksExclusive
                  /\ part = "condvar" => PC!ForksExclusive

\* One process at a time is active in the monitor: see PhilosophersCondvar.
OneActive == part = "condvar" => PC!OneActive

\* Every philosopher of check_sync finishes its TIMES meals, with semaphores and with
\* the monitor: no deadlock, and nobody is overlooked for ever.
EverybodyQuits == part \in {"sema", "condvar"} ~> \A i \in 0 .. N - 1 : ppc[i] = "quit"
=============================================================================
