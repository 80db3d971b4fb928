-------------------------------- MODULE Pmm --------------------------------
(***************************************************************************)
(* Physical memory management (kern/mm/pmm.c) over the four page managers: *)
(* boot hands the free region to the manager, runs the manager's           *)
(* self-check, and from then on the kernel allocates and frees blocks of   *)
(* pages; a system call may run a second self-check on the live manager.   *)
(* The self-checks are programs for CheckStep, one instruction per         *)
(* statement or assertion of the C function.                               *)
(***************************************************************************)
EXTENDS PageAlloc

CONSTANTS MaxReq,         \* bound on the pages of one request
          BuddySizes      \* region sizes the buddy manager is started with

VARIABLES pmm_manager,    \* the manager the kernel was built with
          phys,           \* pages of the region it manages
          mem,            \* the manager's memory
          held,           \* the blocks the kernel holds, <<first, n>>
          refused,        \* the size of the last request if it got NULL, or 0
          phase,          \* "boot", "check", "early", "run", "user", or the end
          chk             \* a running self-check: pc, registers, what it put aside

vars == <<pmm_manager, phys, mem, held, refused, phase, chk>>

BM == INSTANCE Buddy

buddy_init == firstfit_init

\* pmm_manager is a constant of the build: every choice is a build.
init_pmm_manager == CASE pmm_manager = "bestfit" -> best_init
                      [] pmm_manager = "nextfit" -> next_init
                      [] pmm_manager = "buddy" -> buddy_init
                      [] OTHER -> firstfit_init

init_memmap(m, n) ==
    CASE pmm_manager = "firstfit" -> firstfit_init_memmap(m, 0, n)
      [] pmm_manager = "bestfit" -> best_init_memmap(m, 0, n)
      [] pmm_manager = "nextfit" -> next_init_memmap(m, 0, n)
      [] pmm_manager = "buddy" -> BM!buddy_init_memmap(n)

pmm_alloc_pages(m, n) ==
    CASE pmm_manager = "firstfit" -> firstfit_alloc_pages(m, n)
      [] pmm_manager = "bestfit" -> best_alloc_pages(m, n)
      [] pmm_manager = "nextfit" -> next_alloc_pages(m, n)
      [] pmm_manager = "buddy" -> BM!buddy_alloc_pages(m, n)

pmm_free_pages(m, base, n) ==
    CASE pmm_manager = "firstfit" -> firstfit_free_pages(m, base, n)
      [] pmm_manager = "bestfit" -> best_free_pages(m, base, n)
      [] pmm_manager = "nextfit" -> next_free_pages(m, base, n)
      [] pmm_manager = "buddy" -> BM!buddy_free_pages(m, base, n)

nr_free_pages(m) == m.nr_free

\* The assertions of the manager's free_pages; the buddy manager's never
\* concern a page that a caller holds.
pmm_free_ok(m, base, n) == pmm_manager = "buddy" \/ FreeAsserts(m, base, n)

Dangling == pmm_manager = "nextfit" /\ mem.Record = DANGLING

-----------------------------------------------------------------------------
(* Self-check instructions. *)

I(op, r, s, off, n) == [op |-> op, r |-> r, s |-> s, off |-> off, n |-> n]
Get(r, n) == I("get", r, r, 0, n)                \* r = alloc_pages(n), not NULL
GetAt(r, s, off, n) == I("getat", r, s, off, n)  \* ... and it is s + off
None(n) == I("none", "p", "p", 0, n)             \* alloc_pages(n) is NULL
Give(r, off, n) == I("give", r, r, off, n)       \* free_pages(r + off, n)
Move(r, s, off) == I("move", r, s, off, 0)       \* r = s + off
Same(r, s, off) == I("same", r, s, off, 0)       \* assert r == s + off
Prop(r, off, n) == I("prop", r, r, off, n)       \* r[off] heads a block of n
Count(n) == I("count", "p", "p", 0, n)           \* nr_free is n
Do(op) == I(op, "p", "p", 0, 0)

basic_check == <<
    Get("p0", 1), Get("p1", 1), Get("p2", 1), Do("distinct"),
    Do("empty"), Do("zero"), None(1),
    Give("p0", 0, 1), Give("p1", 0, 1), Give("p2", 0, 1), Count(3),
    Get("p0", 1), Get("p1", 1), Get("p2", 1), None(1),
    Give("p0", 0, 1), GetAt("p", "p0", 0, 1), None(1), Count(0), Do("restore"),
    Give("p", 0, 1), Give("p1", 0, 1), Give("p2", 0, 1) >>

best_basic_check == basic_check

next_basic_check == basic_check

\* What follows the basic check, the same statements in all three.
FitCheck(basic) == <<Do("total")>> \o basic \o <<
    Get("p0", 5), Do("empty"), None(1), Do("zero"),
    Give("p0", 2, 3), None(4), Prop("p0", 2, 3), GetAt("p1", "p0", 2, 3), None(1),
    Move("p2", "p0", 1), Give("p0", 0, 1), Give("p1", 0, 3), Prop("p0", 0, 1), Prop("p1", 0, 3),
    GetAt("p0", "p2", -1, 1), Give("p0", 0, 1), GetAt("p0", "p2", 1, 2),
    Give("p0", 0, 2), Give("p2", 0, 1), Get("p0", 5), None(1), Count(0), Do("restore"),
    Give("p0", 0, 5), Do("sametotal") >>

firstfit_check == FitCheck(basic_check)

best_check == FitCheck(best_basic_check)

next_check == FitCheck(next_basic_check)

alloc_check == <<
    Do("restart1026"), Get("p0", 1), GetAt("p1", "p0", 1, 1), GetAt("p2", "p1", 1, 1),
    GetAt("p3", "p2", 1, 1), Do("drain"), None(1),
    Give("p0", 0, 1), Give("p1", 0, 1), Give("p2", 0, 1), Count(3),
    Get("p1", 1), Get("p0", 2), Same("p1", "p0", 2), None(1),
    Give("p0", 0, 2), Give("p1", 0, 1), Give("p3", 0, 1),
    GetAt("p", "p0", 0, 4), None(1), Count(0), Do("restart") >>

default_check == <<Do("tree"), Do("total")>> \o alloc_check

\* Ends without putting back what it took aside.
firstfit_user_check == <<
    Get("p0", 1), Get("p1", 1), Get("p2", 1), Do("distinct"), Do("empty"), Do("zero"),
    Give("p0", 0, 1), Give("p1", 0, 1), Give("p2", 0, 1), Count(3) >>

bestfit_user_check == firstfit_user_check

nextfit_user_check == firstfit_user_check

program == CASE phase = "user" /\ pmm_manager = "bestfit" -> bestfit_user_check
             [] phase = "user" /\ pmm_manager = "nextfit" -> nextfit_user_check
             [] phase = "user" /\ pmm_manager = "firstfit" -> firstfit_user_check
             [] pmm_manager = "firstfit" -> firstfit_check
             [] pmm_manager = "bestfit" -> best_check
             [] pmm_manager = "nextfit" -> next_check
             [] pmm_manager = "buddy" -> default_check

NoCheck == [pc |-> 0, reg |-> [r \in {"p", "p0", "p1", "p2", "p3"} |-> NULL],
            aside |-> <<>>, start |-> <<>>, todo |-> <<>>]

-----------------------------------------------------------------------------
Init == /\ \/ pmm_manager \in {"firstfit", "bestfit", "nextfit"} /\ phys = NPage
           \/ pmm_manager = "buddy" /\ phys \in BuddySizes
        /\ mem = init_pmm_manager
        /\ held = {}
        /\ refused = 0
        /\ phase = "boot"
        /\ chk = NoCheck

\* page_init hands the free region to the manager; its check is next.
page_init == /\ phase = "boot"
             /\ mem' = init_memmap(mem, phys)
             /\ chk' = [NoCheck EXCEPT !.pc = 1, !.start = init_memmap(mem, phys)]
             /\ phase' = "check"
             /\ UNCHANGED <<pmm_manager, phys, held, refused>>

\* An instruction of a self-check: good says whether its assertion holds.
Advance(good, m, c) ==
    /\ phase' = IF good THEN phase ELSE "assert"
    /\ mem' = m
    /\ chk' = [c EXCEPT !.pc = @ + 1]
    /\ UNCHANGED <<pmm_manager, phys, held, refused>>

Ins == program[chk.pc]
Checking == phase \in {"check", "user"} /\ chk.pc \in DOMAIN program
Target == chk.reg[Ins.s] + Ins.off

\* With swapping on, a page that cannot be had means swap_out with no mm_struct.
CheckGet ==
    /\ Checking /\ Ins.op \in {"get", "getat"}
    /\ LET a == pmm_alloc_pages(mem, Ins.n)
           good == a.ok /\ a.page # NULL /\ (Ins.op = "getat" => a.page = Target)
       IN  /\ phase' = IF good THEN phase
                       ELSE IF phase = "user" /\ a.page = NULL THEN "fault" ELSE "assert"
           /\ mem' = a.m
           /\ chk' = [chk EXCEPT !.pc = @ + 1, !.reg[Ins.r] = a.page]
    /\ UNCHANGED <<pmm_manager, phys, held, refused>>

CheckNone ==
    /\ Checking /\ Ins.op = "none"
    /\ LET a == pmm_alloc_pages(mem, Ins.n) IN Advance(a.page = NULL, a.m, chk)

CheckGive ==
    /\ Checking /\ Ins.op = "give"
    /\ Advance(pmm_free_ok(mem, Target, Ins.n), pmm_free_pages(mem, Target, Ins.n), chk)

CheckMove ==
    /\ Checking /\ Ins.op = "move"
    /\ Advance(TRUE, mem, [chk EXCEPT !.reg[Ins.r] = Target])

\* free_list is saved and emptied, later brought back with nr_free.
CheckList ==
    /\ Checking /\ Ins.op \in {"empty", "zero", "restore"}
    /\ CASE Ins.op = "empty" ->
              Advance(TRUE, [mem EXCEPT !.list = <<>>, !.property = [p \in Page |-> 0],
                                        !.Record = IF @ = HEAD THEN HEAD ELSE DANGLING],
                      [chk EXCEPT !.aside = mem])
         [] Ins.op = "zero" -> Advance(TRUE, [mem EXCEPT !.nr_free = 0], chk)
         [] Ins.op = "restore" ->
              Advance(TRUE, [chk.aside EXCEPT !.Record = mem.Record], [chk EXCEPT !.aside = <<>>])

CheckAssert ==
    /\ Checking /\ Ins.op \in {"same", "prop", "count", "distinct", "total", "sametotal", "tree"}
    /\ LET good ==
            CASE Ins.op = "same" -> chk.reg[Ins.r] = Target
              [] Ins.op = "prop" -> mem.property[Target] = Ins.n
              [] Ins.op = "count" -> mem.nr_free = Ins.n
              [] Ins.op = "distinct" -> Cardinality({chk.reg[r] : r \in {"p0", "p1", "p2"}}) = 3
              [] Ins.op = "total" -> Total(mem) = nr_free_pages(mem)
              [] Ins.op = "sametotal" -> /\ Len(mem.list) = Len(chk.start.list)
                                         /\ Total(mem) = Total(chk.start)
              [] Ins.op = "tree" -> BM!macro_check /\ BM!size_check /\ BM!segment_check(mem)
       IN  Advance(good, mem, chk)

\* The buddy check builds a manager of 1026 pages over the region, and the real
\* one again at its end.
CheckRestart ==
    /\ Checking /\ Ins.op \in {"restart1026", "restart"}
    /\ Advance(TRUE, BM!buddy_init_memmap(IF Ins.op = "restart" THEN phys ELSE 1026), chk)

\* One round of the loop over the free list that allocates a block of the size
\* of every block it meets.
CheckDrain ==
    /\ Checking /\ Ins.op = "drain"
    /\ LET todo == IF chk.todo = <<>> THEN mem.list ELSE chk.todo
           a == pmm_alloc_pages(mem, mem.property[Head(todo)])
           rest == SelectSeq(Tail(todo), LAMBDA p : p \in Range(a.m.list))
       IN  /\ phase' = IF a.ok /\ a.page # NULL THEN phase ELSE "assert"
           /\ mem' = a.m
           /\ chk' = [chk EXCEPT !.todo = rest, !.pc = IF rest = <<>> THEN @ + 1 ELSE @]
    /\ UNCHANGED <<pmm_manager, phys, held, refused>>

CheckEnd ==
    /\ phase \in {"check", "user"} /\ chk.pc \notin DOMAIN program
    /\ phase' = IF phase = "check" THEN "early" ELSE "run"
    /\ chk' = NoCheck
    /\ UNCHANGED <<pmm_manager, phys, mem, held, refused>>

CheckStep == \/ CheckGet \/ CheckNone \/ CheckGive \/ CheckMove \/ CheckList
             \/ CheckAssert \/ CheckRestart \/ CheckDrain \/ CheckEnd

\* swap_init sets swap_init_ok.
swap_init == /\ phase = "early"
             /\ phase' = "run"
             /\ UNCHANGED <<pmm_manager, phys, mem, held, refused, chk>>

Running == phase \in {"early", "run"} /\ ~ Dangling

\* A request of one page that finds none after swap_init goes to swap_out
\* with check_mm_struct, which is NULL by then: the kernel faults.
alloc_pages(n) ==
    /\ Running
    /\ LET a == pmm_alloc_pages(mem, n)
       IN  /\ mem' = a.m
           /\ held' = IF a.page = NULL THEN held ELSE held \cup {<<a.page, n>>}
           /\ refused' = IF a.page = NULL THEN n ELSE 0
           /\ phase' = IF ~ a.ok THEN "assert"
                       ELSE IF a.page # NULL \/ n > 1 \/ phase = "early" THEN phase
                       ELSE "fault"
    /\ UNCHANGED <<pmm_manager, phys, chk>>

free_pages(h) ==
    /\ Running
    /\ mem' = pmm_free_pages(mem, h[1], h[2])
    /\ phase' = IF pmm_free_ok(mem, h[1], h[2]) THEN phase ELSE "assert"
    /\ held' = held \ {h}
    /\ refused' = 0
    /\ UNCHANGED <<pmm_manager, phys, chk>>

\* The system call starts the user check.  Under the buddy manager it would
\* leave the tree and the list apart for good: not modelled.
sys_check_pmm ==
    /\ Running /\ phase = "run" /\ pmm_manager # "buddy"
    /\ phase' = "user"
    /\ chk' = [NoCheck EXCEPT !.pc = 1, !.start = mem]
    /\ refused' = 0
    /\ UNCHANGED <<pmm_manager, phys, mem, held>>

Next == \/ page_init \/ CheckStep \/ swap_init \/ sys_check_pmm
        \/ \E n \in 1 .. MaxReq : alloc_pages(n)
        \/ \E h \in held : free_pages(h)

Spec == Init /\ [][Next]_vars

-----------------------------------------------------------------------------
FreeSet(m) == UNION {p .. p + m.property[p] - 1 : p \in Range(m.list)}

HeldSet == UNION {h[1] .. h[1] + h[2] - 1 : h \in held}

\* The free list of the list managers is exact, whatever the order of allocations
\* and frees: its blocks are whole, disjoint and inside memory, none of their
\* pages is held by a caller, nr_free counts them, and no two free blocks touch,
\* so a free never leaves memory more fragmented than it must.  The first-fit and
\* next-fit lists are sorted by address as well.
FreeListExact ==
    LET L == mem.list
    IN  /\ IsInjective(L)
        /\ \A p \in Range(L) : mem.property[p] > 0
        /\ FreeSet(mem) \subseteq Page /\ FreeSet(mem) \cap HeldSet = {}
        /\ Total(mem) = Cardinality(FreeSet(mem))
        /\ chk.pc = 0 => mem.nr_free = Total(mem)
        /\ \A p, q \in Range(L) : p + mem.property[p] # q
        /\ pmm_manager # "bestfit" => \A i \in 1 .. Len(L) - 1 : L[i] < L[i + 1]

\* The blocks of the buddy tree handed out as a whole.
HeldBlocks(V) == {BM!BUDDY_BLOCK(V, h[1], h[1] + BM!UINT32_ROUND_UP(h[2])) : h \in held}

\* Below a free or a held block the tree is out of date until it is split.
Current(m) == {b \in DOMAIN m.segment : \A k \in 1 .. 9 :
                  LET a == b \div 2^k
                  IN  a >= 1 => ~ BM!BUDDY_EMPTY(m, a) /\ a \notin HeldBlocks(m.virtual_size)}

\* The buddy tree and the free list tell the same story after every sequence of
\* allocations and frees: a block is marked empty exactly when all its pages are
\* free, it is then one block of the free list of that length, a block handed out
\* counts for nothing, every other one is the bitwise or of its halves, and
\* nr_free counts the pages of the list.
BuddyTreeExact ==
    LET m == mem
        V == m.virtual_size
        whole == {b \in Current(m) : BM!BUDDY_EMPTY(m, b)}
    IN  /\ m.nr_free = Total(m)
        /\ {<<p, m.property[p]>> : p \in Range(m.list)}
              = {<<BM!BUDDY_BEGIN(V, b), BM!BUDDY_LENGTH(V, b)>> : b \in whole}
        /\ Len(m.list) = Cardinality(whole)
        /\ \A b \in Current(m) :
              /\ BM!BUDDY_EMPTY(m, b) <=>
                    BM!BUDDY_BEGIN(V, b) .. BM!BUDDY_END(V, b) - 1 \subseteq FreeSet(m)
              /\ b \in HeldBlocks(V) => m.segment[b] = 0
              /\ b < V /\ ~ BM!BUDDY_EMPTY(m, b) /\ b \notin HeldBlocks(V) =>
                    m.segment[b] = BM!BitOr(m.segment[2 * b], m.segment[2 * b + 1])

\* The free list of whichever manager is installed is exact.
MemoryExact == CASE pmm_manager # "buddy" -> FreeListExact
                 [] phase \in {"early", "run"} -> BuddyTreeExact
                 [] OTHER -> TRUE

\* No assertion of the managers fails: not those of alloc_pages and free_pages, not
\* one of the self-checks run at boot or from the system call.
ManagerAsserts == phase # "assert"

AllPages == 0 .. (IF pmm_manager = "buddy" THEN BM!buddy_init_size(phys).alloc_size ELSE phys) - 1

PS == INSTANCE PageSpec WITH
         free <- IF phase \in {"boot", "check"} THEN AllPages
                 ELSE FreeSet(IF chk.pc > 0 THEN chk.start ELSE mem),
         kind <- CASE pmm_manager = "nextfit" -> "partial"
                   [] pmm_manager = "buddy" -> "aligned"
                   [] OTHER -> "exhaustive"

\* The managers implement the abstract page manager: pages handed out were free,
\* pages given back can be handed out again, and nothing else changes hands
\* except when the self-check system call forgets all but three free pages.
ImplementsPageSpec == PS!Spec

\* First-fit, best-fit and buddy refuse a request only when no suitable run of
\* free pages is left.  (Next-fit does not look at the block it stopped at last,
\* and the buddy search follows the bitwise or of two halves, not their maximum.)
RefusalJustified == refused # 0 => PS!MayRefuse(refused)
=============================================================================
