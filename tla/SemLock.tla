------------------------------ MODULE SemLock ------------------------------
(***************************************************************************)
(* A kernel semaphore used the way lock_mm (kern/mm/vmm.h), lock_sfs_fs    *)
(* and lock_sfs_io (kern/fs/sfs/sfs_lock.c) use it: initialised with a     *)
(* number of permits, and every down followed by an up of the same         *)
(* process.                                                                *)
(***************************************************************************)
EXTENDS Semaphore

CONSTANT Permits

ASSUME LockAssumption == Permits \in Nat \ {0} /\ IsFiniteSet(Client)

VARIABLE pc             \* "out", or "in" from the call of down to that of up

vars == <<semVars, pc>>

lock == "lock"

Init == /\ sem = [s \in {lock} |-> NewSem(Permits)]
        /\ blocked = {}
        /\ pc = [p \in Client |-> "out"]

Lock(p) == /\ pc[p] = "out"
           /\ Down(lock, p)
           /\ pc' = [pc EXCEPT ![p] = "in"]

TryLock(p) == /\ pc[p] = "out"
              /\ TryDown(lock)
              /\ pc' = [pc EXCEPT ![p] = "in"]

Unlock(p) == /\ pc[p] = "in" /\ p \notin blocked
             /\ Up(lock)
             /\ pc' = [pc EXCEPT ![p] = "out"]

Next == \E p \in Client : Lock(p) \/ TryLock(p) \/ Unlock(p)

\* A process that holds the lock gives it back.
Spec == Init /\ [][Next]_vars /\ \A p \in Client : WF_vars(Unlock(p))

-----------------------------------------------------------------------------
value == sem[lock].value
waiting == sem[lock].queue

\* The processes that have returned from down, or were handed a permit.
holders == {p \in Client : pc[p] = "in" /\ p \notin blocked}

\* Types; the value is neither negative nor above the number of permits.
TypeOK == /\ sem \in [{lock} -> [value : 0 .. Permits, queue : Seq(Client)]]
          /\ blocked \subseteq Client
          /\ pc \in [Client -> {"out", "in"}]

\* No permit is made or lost, by a hand-over in up in particular: a lock that
\* was initialised with one permit excludes.
PermitsConserved == value + Cardinality(holders) = Permits

\* Nobody sleeps while there is a permit, and the sleepers are exactly the
\* processes in the queue, each once: no wakeup is lost.
SleepersQueued ==
  /\ waiting # <<>> => value = 0
  /\ blocked = {waiting[i] : i \in 1 .. Len(waiting)}
  /\ \A i, j \in 1 .. Len(waiting) : waiting[i] = waiting[j] => i = j

LS == INSTANCE LockSpec

\* The semaphore with its hand-over implements a first-come lock.
ImplementsLockSpec == LS!Spec

\* Whoever waits gets the lock, if holders give it back: the queue is served
\* in order and newcomers cannot overtake it.
WaiterGetsLock == \A p \in Client : p \in blocked ~> p \in holders
=============================================================================
