----------------------------- MODULE Semaphore -----------------------------
(***************************************************************************)
(* Kernel semaphores: sem_init, up, down and try_down of kern/sync/sem.c   *)
(* on the wait queues of kern/sync/wait.c.                                 *)
(*                                                                         *)
(* up does not increment the value when somebody waits: it takes the first *)
(* waiter out of the queue and wakes it, and down returns there without    *)
(* looking at the value again.  A process waits with WT_KSEM, which        *)
(* do_kill does not interrupt, so up is the only way to wake it.           *)
(***************************************************************************)
EXTENDS Integers, Sequences, FiniteSets

CONSTANT Client         \* the processes that use the semaphores

VARIABLES sem,          \* sem[s]: [value, queue], first waiter first
          blocked       \* the processes that sleep in down

semVars == <<sem, blocked>>

\* sem_init.
NewSem(v) == [value |-> v, queue |-> <<>>]

-----------------------------------------------------------------------------
\* Mutated forms of definitions below.

MutUpKeepsPermit(s) ==
  /\ sem' = [sem EXCEPT ![s].value = @ + 1, ![s].queue = IF @ = <<>> THEN @ ELSE Tail(@)]
  /\ blocked' = IF sem[s].queue = <<>> THEN blocked ELSE blocked \ {Head(sem[s].queue)}

MutUpNoWakeup(s) ==
  /\ sem' = [sem EXCEPT ![s].value = @ + 1]
  /\ blocked' = blocked

MutDownLifo(s, p) ==
  IF sem[s].value > 0
    THEN /\ sem' = [sem EXCEPT ![s].value = @ - 1]
         /\ blocked' = blocked
    ELSE /\ sem' = [sem EXCEPT ![s].queue = <<p>> \o @]
         /\ blocked' = blocked \cup {p}

-----------------------------------------------------------------------------
\* down by p: take a permit or go to sleep at the end of the queue.
Down(s, p) ==
  IF sem[s].value > 0
    THEN /\ sem' = [sem EXCEPT ![s].value = @ - 1]
         /\ blocked' = blocked
    ELSE /\ sem' = [sem EXCEPT ![s].queue = Append(@, p)]
         /\ blocked' = blocked \cup {p}

\* up: hand the permit to the first waiter, or keep it in the value.
Up(s) ==
  IF sem[s].queue = <<>>
    THEN /\ sem' = [sem EXCEPT ![s].value = @ + 1]
         /\ blocked' = blocked
    ELSE /\ sem' = [sem EXCEPT ![s].queue = Tail(@)]
         /\ blocked' = blocked \ {Head(sem[s].queue)}

\* try_down when it succeeds; it changes nothing when it fails.
TryDown(s) ==
  /\ sem[s].value > 0
  /\ sem' = [sem EXCEPT ![s].value = @ - 1]
  /\ blocked' = blocked
=============================================================================
