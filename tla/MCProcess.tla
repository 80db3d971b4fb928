----------------------------- MODULE MCProcess -----------------------------
(***************************************************************************)
(* Instances of Process for TLC.                                           *)
(***************************************************************************)
EXTENDS Process, TLC

\* The slots of forked processes are interchangeable: no definition tells one
\* from another.  Used for invariants and action properties only.
Symmetry == Permutations(Sleeper)
=============================================================================
