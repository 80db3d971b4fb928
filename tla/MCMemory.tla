------------------------------ MODULE MCMemory ------------------------------
(***************************************************************************)
(* The allocators of kernel memory, checked in one run.  They do not share *)
(* state: a behaviour is one of the page managers or of the kmalloc heap,  *)
(* and part says of which.                                                 *)
(***************************************************************************)
EXTENDS Pmm

CONSTANTS U, NPages, Requests, MaxHeld

VARIABLES part, heap, slobfree, bigblocks, freepages, used, sphase

S == INSTANCE Slob

slobVars == <<heap, slobfree, bigblocks, freepages, used, sphase>>

MCInit == /\ part \in {"pages", "slob"}
          /\ Init /\ (part = "slob" => pmm_manager = "firstfit")
          /\ S!Init

MCNext == \/ part = "pages" /\ Next /\ UNCHANGED <<part, slobVars>>
          \/ part = "slob" /\ S!Next /\ UNCHANGED <<part, vars>>

MCSpec == MCInit /\ [][MCNext]_<<part, vars, slobVars>>

\* The kmalloc heap never overlaps itself: see HeapExact of Slob.
HeapExact == S!HeapExact
=============================================================================
