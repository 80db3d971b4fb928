------------------------------ MODULE MCProcIds ------------------------------
(***************************************************************************)
(* Process ids and the links of the process table, checked in one run: a   *)
(* behaviour is one of get_pid, loop by loop, or of the pointers, and part *)
(* says of which.                                                          *)
(***************************************************************************)
EXTENDS PidAlloc

CONSTANTS User, idleproc, initproc, HEAD, NULL

\* The slots are distinct, and neither the sentinel nor NULL is one of them.
ASSUME TableAssumption == /\ IsFiniteSet(User)
                          /\ idleproc \notin User /\ initproc \notin User
                          /\ idleproc # initproc
                          /\ {HEAD, NULL} \cap (User \cup {idleproc, initproc}) = {}

VARIABLES part, state, pid, tlast, tsafe, tnr, next, prev, parent, cptr, optr, yptr, exiter

T == INSTANCE ProcTable WITH last_pid <- tlast, next_safe <- tsafe, nr_process <- tnr

tableVars == <<state, pid, tlast, tsafe, tnr, next, prev, parent, cptr, optr, yptr, exiter>>

MCInit == part \in {"ids", "table"} /\ Init /\ T!Init

MCNext == \/ part = "ids" /\ Next /\ UNCHANGED <<part, tableVars>>
          \/ part = "table" /\ T!Next /\ UNCHANGED <<part, vars>>

\* Fairness as in PidAlloc: get_pid keeps executing.
MCSpec == MCInit /\ [][MCNext]_<<part, vars, tableVars>> /\ WF_vars(GetPidStep)

\* set_links, remove_links and do_exit keep the list and the family tree exact, with
\* an id of its own for every process: see ListExact and FamilyExact of ProcTable.
TableExact == T!TableExact

\* The asserts that end init_main hold: see InitMainAsserts of ProcTable.
InitMainAsserts == T!InitMainAsserts
=============================================================================
