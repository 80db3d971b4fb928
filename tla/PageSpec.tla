------------------------------ MODULE PageSpec ------------------------------
(***************************************************************************)
(* What a page manager promises the rest of the kernel (struct             *)
(* pmm_manager, kern/mm/pmm.h): a request is served with pages nobody else *)
(* holds, pages given back can be handed out again, and a request is       *)
(* refused only when no suitable run of free pages exists.                 *)
(***************************************************************************)
EXTENDS Integers

CONSTANTS MaxReq              \* bound on the pages of one request

VARIABLES free,               \* the pages that can be handed out
          held,               \* the blocks the callers hold, <<first, n>>
          kind                \* "exhaustive", "partial" or "aligned"

vars == <<free, held, kind>>

\* An aligned manager hands out powers of two, each at a multiple of its length.
Size(n) == IF kind = "aligned" THEN CHOOSE s \in {2^i : i \in 0 .. n} : n <= s /\ s < 2 * n ELSE n

Run(b, n) == b .. b + n - 1

Fits(b, n) == Run(b, Size(n)) \subseteq free /\ (kind = "aligned" => b % Size(n) = 0)

Alloc == \E n \in 1 .. MaxReq, b \in free :
            /\ Fits(b, n)
            /\ free' = free \ Run(b, Size(n))
            /\ held' = held \cup {<<b, n>>}
            /\ UNCHANGED kind

Free == \E h \in held : /\ free' = free \cup Run(h[1], Size(h[2]))
                        /\ held' = held \ {h}
                        /\ UNCHANGED kind

\* The self-test a system call runs on the live allocator keeps three free
\* pages and forgets the others.
Forget == /\ \E a, b, c \in free : a < b /\ b < c /\ free' = {a, b, c}
          /\ UNCHANGED <<held, kind>>

Next == Alloc \/ Free \/ Forget

Init == held = {}

Spec == Init /\ [][Next]_vars

\* A request of n pages may be refused: a manager that looks everywhere must
\* have found no place for it.
MayRefuse(n) == kind # "partial" => \A b \in free : ~ Fits(b, n)
=============================================================================
