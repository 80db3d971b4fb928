------------------------------ MODULE AddrSpec ------------------------------
(***************************************************************************)
(* What user programs are promised about memory: each process has a        *)
(* private address space.  Contents of a mapped page change only when the  *)
(* owner stores there; fork gives the child a copy of all of them; exec    *)
(* and exit replace or drop the caller's space and no other.               *)
(***************************************************************************)
EXTENDS Integers, FiniteSets

CONSTANTS Procs, Data,
          ImageData,  \* what a page of an executable may hold
          StackArea   \* pages that are not part of it

VARIABLE space    \* of a process: its mapped pages and their contents

None == [v \in {} |-> 0]

Init == space = [p \in Procs |-> None]

Others(p) == \A q \in Procs \ {p} : space'[q] = space[q]

\* The owner stores d in some pages, and pages not mapped before may appear.
Store(p, d) == /\ DOMAIN space[p] \subseteq DOMAIN space'[p]
               /\ \A v \in DOMAIN space[p] : space'[p][v] \in {space[p][v], d}
               /\ Others(p)

Fork(p, q) == space[q] = None /\ space'[q] = space[p] /\ Others(q)

\* exec and exit: nothing of the old contents is left.
Replace(p) == /\ \A v \in DOMAIN space'[p] \ StackArea : space'[p][v] \in ImageData
              /\ Others(p)

Next == \/ \E p \in Procs, d \in Data : Store(p, d)
        \/ \E p, q \in Procs : p # q /\ Fork(p, q)
        \/ \E p \in Procs : Replace(p)

Spec == Init /\ [][Next]_space
=============================================================================
