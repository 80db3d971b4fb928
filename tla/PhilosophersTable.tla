------------------------- MODULE PhilosophersTable -------------------------
(***************************************************************************)
(* The two versions of the dining philosophers of kern/sync/check_sync.c   *)
(* at one table: they share their variables, and a behaviour is one of the *)
(* version with semaphores or one of the version with a monitor.           *)
(***************************************************************************)
EXTENDS Integers, Sequences, FiniteSets

CONSTANTS N, TIMES

\* check_sync.c has N = 5 philosophers; one alone would be its own neighbour.
ASSUME PhilosophersAssumption == N \in Nat /\ N >= 2 /\ TIMES \in Nat

VARIABLES psem, pblocked, table, ppc, iter, next_count, count, tests, taking

PS == INSTANCE PhilosophersSema WITH
        Client <- 0 .. N - 1, sem <- psem, blocked <- pblocked,
        state_sema <- table, pc <- ppc

PC == INSTANCE PhilosophersCondvar WITH
        Client <- 0 .. N - 1, sem <- psem, blocked <- pblocked,
        state_condvar <- table, pc <- ppc

monitor == <<next_count, count, tests, taking>>
philosophers == <<psem, pblocked, table, ppc, iter, next_count, count, tests, taking>>
=============================================================================
