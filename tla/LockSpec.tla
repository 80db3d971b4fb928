------------------------------ MODULE LockSpec ------------------------------
(***************************************************************************)
(* What a kernel semaphore used as a lock promises: never more holders     *)
(* than permits; a permit that is released while processes wait passes to  *)
(* the one that has waited longest.                                        *)
(***************************************************************************)
EXTENDS Integers, Sequences, FiniteSets

CONSTANTS Client, Permits

VARIABLES holders,      \* set of processes
          waiting       \* sequence of processes

vars == <<holders, waiting>>

Init == holders = {} /\ waiting = <<>>

Acquire(p) == /\ p \notin holders /\ waiting = <<>>
              /\ Cardinality(holders) < Permits
              /\ holders' = holders \cup {p}
              /\ UNCHANGED waiting

Wait(p) == /\ p \notin holders
           /\ Cardinality(holders) = Permits
           /\ waiting' = Append(waiting, p)
           /\ UNCHANGED holders

Release(p) == /\ p \in holders
              /\ waiting = <<>>
              /\ holders' = holders \ {p}
              /\ UNCHANGED waiting

Pass(p) == /\ p \in holders
           /\ waiting # <<>>
           /\ holders' = (holders \ {p}) \cup {Head(waiting)}
           /\ waiting' = Tail(waiting)

Next == \E p \in Client : Acquire(p) \/ Wait(p) \/ Release(p) \/ Pass(p)

Spec == Init /\ [][Next]_vars
=============================================================================
