---------------------------- MODULE MCProcTable ----------------------------
(***************************************************************************)
(* Instances of ProcTable for TLC.                                         *)
(***************************************************************************)
EXTENDS ProcTable, TLC

\* The slots of forked processes are interchangeable.
Symmetry == Permutations(User)
=============================================================================
