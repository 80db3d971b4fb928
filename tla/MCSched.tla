------------------------------ MODULE MCSched ------------------------------
(* Instances of Sched for TLC: the slots of processes are interchangeable. *)
EXTENDS Sched, TLC

Symmetry == Permutations(Procs)
=============================================================================
