--------------------------------- MODULE Vm ---------------------------------
(***************************************************************************)
(* User address spaces (kern/mm/vmm.c, the page tables of kern/mm/pmm.c    *)
(* and the parts of kern/process/proc.c that build, copy and drop them):   *)
(* memory areas, page directories and tables, page references, demand      *)
(* paging, fork, exec, exit, wait and do_malloc over one pool of frames.   *)
(* The kernel is not preemptive and nothing below sleeps, so a system call *)
(* is one step.  Addresses are counted in units of 1 / PGSIZE of a page,   *)
(* areas in pages.  Frames are handed out lowest first, as the first-fit   *)
(* manager does for one page.  halt names the reason the kernel stopped.   *)
(***************************************************************************)
EXTENDS Integers, FiniteSets, SequencesExt, TLC

CONSTANTS Procs, NFrames,
          NV,             \* user pages, 0 .. NV-1
          PTN,            \* pages one page table maps
          PGSIZE,
          Stack,          \* first page of the user stack area, which ends at NV
          StackPages,     \* pages of the stack mapped by exec
          Programs,       \* executables: sequences of program headers
          Reads,          \* numbers of file reads that succeed during an exec
          Argv,           \* arguments of exec: the pages where it is told to find the strings
          MallocSizes,
          MaxCalls,       \* bound on fork and exec calls
          ObjsPerPage     \* kernel objects that fit in one page of the kmalloc heap

VARIABLES proc,           \* "none", "run" or "zombie"
          kstack,         \* first frame of the kernel stack
          mm,             \* the address space, NoMm for a kernel thread
          pool,           \* free frames, references, contents, the kmalloc heap
          calls,          \* processes started and programs loaded so far
          halt

vars == <<proc, kstack, mm, pool, calls, halt>>

Frames == 1..NFrames
Page == 0..(NV - 1)
Data == {"file", "zero", "old", "a"}
Empty == [v \in {} |-> 0]
NoMm == [vmas |-> <<>>, pgdir |-> 0, pt |-> Empty, pte |-> Empty]

\* A context: the pool and the address space an operation works on.  err is an
\* error the C function returns, halt a panic, and both stop what follows.
Ctx(m) == [pool |-> pool, m |-> m, err |-> FALSE, halt |-> "", left |-> 0]
Stopped(c) == c.err \/ c.halt # ""
Error(c) == [c EXCEPT !.err = TRUE]
Panic(c, why) == IF Stopped(c) THEN c ELSE [c EXCEPT !.halt = why]
Lowest(c) == CHOOSE f \in c.pool.free : \A g \in c.pool.free : f <= g

\* With swapping on and no mm_struct to take from, no page means a kernel fault.
alloc_page(c) == IF Stopped(c) THEN c
                 ELSE IF c.pool.free = {} THEN Panic(c, "swap_out")
                 ELSE [c EXCEPT !.pool.free = @ \ {Lowest(c)}]

\* A frame is not cleared; whatever a new owner finds in it is "old".
free_page(c, f) == [c EXCEPT !.pool.free = @ \cup {f}, !.pool.ref[f] = 0, !.pool.data[f] = "old"]

\* Heap pages are never given back.
kmalloc(c) ==
    LET d == IF c.pool.objs < c.pool.room THEN c ELSE alloc_page(c)
    IN  IF Stopped(d) THEN d
        ELSE [d EXCEPT !.pool.objs = @ + 1,
                       !.pool.room = IF d = c THEN @ ELSE @ + ObjsPerPage,
                       !.pool.heap = @ \cup (c.pool.free \ d.pool.free)]

kfree(c, n) == [c EXCEPT !.pool.objs = @ - n]

-----------------------------------------------------------------------------
(* Page tables. *)

PDX(v) == v \div PTN

\* get_pte with create set.
get_pte(c, v) ==
    IF Stopped(c) \/ PDX(v) \in DOMAIN c.m.pt THEN c
    ELSE LET d == alloc_page(c)
         IN  IF Stopped(d) THEN d
             ELSE [d EXCEPT !.m.pt = @ @@ (PDX(v) :> Lowest(c)), !.pool.ref[Lowest(c)] = 1]

Without(f, v) == [x \in DOMAIN f \ {v} |-> f[x]]

page_remove_pte(c, v) ==
    IF v \notin DOMAIN c.m.pte THEN c
    ELSE LET f == c.m.pte[v]
             d == [c EXCEPT !.pool.ref[f] = @ - 1, !.m.pte = Without(@, v)]
         IN  IF d.pool.ref[f] = 0 THEN free_page(d, f) ELSE d

page_remove(c, v) == IF PDX(v) \in DOMAIN c.m.pt THEN page_remove_pte(c, v) ELSE c

\* Mutant: the page mapped at v before keeps its reference.
MutPageInsert(c, f, v) ==
    LET d == get_pte(c, v)
    IN  IF Stopped(d) THEN d ELSE [d EXCEPT !.pool.ref[f] = @ + 1, !.m.pte = (v :> f) @@ @]

page_insert(c, f, v) ==
    LET d == get_pte(c, v)
        e == [d EXCEPT !.pool.ref[f] = @ + 1]
        r == IF v \in DOMAIN d.m.pte THEN page_remove_pte(e, v) ELSE e
    IN  IF Stopped(d) THEN d ELSE [r EXCEPT !.m.pte = @ @@ (v :> f)]

pgdir_alloc_page(c, v) ==
    LET d == alloc_page(c) IN IF Stopped(d) THEN d ELSE page_insert(d, Lowest(c), v)

Range0(s, e) == [i \in 1..(e - s) |-> s + i - 1]

unmap_range(c, s, e) == FoldLeft(page_remove_pte, c, Range0(s, e))

free_pt(c, i) == IF i \notin DOMAIN c.m.pt THEN c
                 ELSE [free_page(c, c.m.pt[i]) EXCEPT !.m.pt = Without(@, i)]

exit_range(c, s, e) == FoldLeft(free_pt, c, Range0(PDX(s), PDX(e - 1) + 1))

\* What is stored in page v; the frame keeps what it held before otherwise.
Fill(c, v, d) == IF Stopped(c) THEN c ELSE [c EXCEPT !.pool.data[c.m.pte[v]] = d]

\* Mutant: the frames are shared instead of copied.
MutShare(c, src, s, e) ==
    FoldLeft(LAMBDA a, v : IF v \notin DOMAIN src.pte THEN a ELSE page_insert(a, src.pte[v], v),
             c, Range0(s, e))

\* Copies the present pages of src into the context's address space.
copy_range(c, src, s, e) ==
    FoldLeft(LAMBDA a, v : IF v \notin DOMAIN src.pte THEN a
                           ELSE Fill(pgdir_alloc_page(get_pte(a, v), v), v, a.pool.data[src.pte[v]]),
             c, Range0(s, e))

-----------------------------------------------------------------------------
(* Areas. *)

vma_create(s, e, flags) == [s |-> s, e |-> e, flags |-> flags]
VmaAt(m, v) == {i \in DOMAIN m.vmas : m.vmas[i].s <= v /\ v < m.vmas[i].e}

\* find_vma: the area that contains page v, as a set of at most one.
find_vma(m, v) == {m.vmas[i] : i \in VmaAt(m, v)}

\* Mutant: only the area before the new one is tested for an overlap.
MutInsertVma(c, new) ==
    LET before == SelectSeq(c.m.vmas, LAMBDA x : x.s <= new.s)
        after == SelectSeq(c.m.vmas, LAMBDA x : x.s > new.s)
    IN  IF Stopped(c) THEN c
        ELSE IF before # <<>> /\ Last(before).e > new.s THEN Panic(c, "overlap")
        ELSE [c EXCEPT !.m.vmas = before \o <<new>> \o after]

\* The list stays sorted; an overlap with a neighbour is an assertion.
insert_vma_struct(c, new) ==
    LET before == SelectSeq(c.m.vmas, LAMBDA x : x.s <= new.s)
        after == SelectSeq(c.m.vmas, LAMBDA x : x.s > new.s)
    IN  IF Stopped(c) THEN c
        ELSE IF \/ before # <<>> /\ Last(before).e > new.s
                \/ after # <<>> /\ new.e > Head(after).s
             THEN Panic(c, "overlap")
             ELSE [c EXCEPT !.m.vmas = before \o <<new>> \o after]

USER_ACCESS(s, e) == 0 <= s /\ s < e /\ e <= NV

mm_map(c, s, e, flags) ==
    IF Stopped(c) THEN c
    ELSE IF ~USER_ACCESS(s, e) \/ \E x \in find_vma(c.m, s) : e > x.s THEN Error(c)
    ELSE insert_vma_struct(kmalloc(c), vma_create(s, e, flags))

mm_create(c) == kmalloc(c)

setup_pgdir(c) == LET d == alloc_page(c)
                  IN  IF Stopped(d) THEN d ELSE [d EXCEPT !.m.pgdir = Lowest(c)]

dup_mmap(c, src) ==
    FoldLeft(LAMBDA a, x : copy_range(insert_vma_struct(kmalloc(a), x), src, x.s, x.e),
             c, Reverse(src.vmas))

\* Mutant: the second walk, over the page tables, is missing.
MutExitMmap(c) == FoldLeft(LAMBDA a, x : unmap_range(a, x.s, x.e), c, c.m.vmas)

exit_mmap(c) ==
    LET d == FoldLeft(LAMBDA a, x : unmap_range(a, x.s, x.e), c, c.m.vmas)
    IN  FoldLeft(LAMBDA a, x : exit_range(a, x.s, x.e), d, c.m.vmas)

put_pgdir(c) == free_page(c, c.m.pgdir)

mm_destroy(c) == [kfree(c, Len(c.m.vmas) + 1) EXCEPT !.m = NoMm]

\* exit_mmap, put_pgdir, mm_destroy, in the order of exit, exec and the cleanups.
Drop(c) == IF c.m = NoMm \/ c.halt # "" THEN c ELSE mm_destroy(put_pgdir(exit_mmap(c)))

do_pgfault(c, v, write) ==
    IF Stopped(c) THEN c
    ELSE IF \A x \in find_vma(c.m, v) : (IF write THEN {"W"} ELSE {"R", "X"}) \cap x.flags = {}
         THEN Panic(c, "pgfault")
    ELSE IF v \in DOMAIN c.m.pte THEN Panic(c, "non-writable pte")
    ELSE pgdir_alloc_page(get_pte(c, v), v)

\* An access to page v by its process or by the kernel on its behalf: a store
\* goes through if the page is present and its entry, which has the rights of
\* the area it was made in, allows it.
Access(c, v, write) ==
    IF v \in DOMAIN c.m.pte /\ (write => \E x \in find_vma(c.m, v) : "W" \in x.flags)
    THEN c ELSE do_pgfault(c, v, write)

user_mem_check(m, s, e, write) ==
    /\ USER_ACCESS(s, e)
    /\ \A v \in s..(e - 1) : \E x \in find_vma(m, v) :
            /\ (IF write THEN "W" ELSE "R") \in x.flags
            /\ ~(write /\ "S" \in x.flags /\ v = x.s)

\* The pages of the string are checked, and read, one after the other.
copy_string(c, s, n) ==
    FoldLeft(LAMBDA a, v : IF Stopped(a) THEN a
                           ELSE IF user_mem_check(a.m, v, v + 1, FALSE) THEN Access(a, v, FALSE)
                           ELSE Error(a), c, Range0(s, s + n))

-----------------------------------------------------------------------------
(* Loading a program. *)

load_icode_read(c) == IF Stopped(c) THEN c
                      ELSE IF c.left = 0 THEN Error(c)
                      ELSE [c EXCEPT !.left = @ - 1]

file_page(c, v) == load_icode_read(Fill(pgdir_alloc_page(c, v), v, "file"))
bss_page(c, v) == Fill(pgdir_alloc_page(c, v), v, "zero")

PageOf(a) == a \div PGSIZE

load_segment(c, ph) ==
    LET r == load_icode_read(c)
        s == PageOf(ph.va)
        mid == PageOf(ph.va + ph.filesz - 1) + 1
        e == PageOf(ph.va + ph.memsz - 1) + 1
        mapped == mm_map(r, s, e, ph.flags)
    IN  IF Stopped(r) \/ ph.type # "LOAD" THEN r
        ELSE IF ph.filesz > ph.memsz THEN Error(r)
        ELSE IF ph.filesz = 0 THEN r
        ELSE FoldLeft(bss_page, FoldLeft(file_page, mapped, Range0(s, mid)), Range0(mid, e))

\* Reads the header, the segments, then builds the stack; what a failure after
\* the page directory leaves behind is dropped.
load_icode(c, prog) ==
    LET hdr == load_icode_read(setup_pgdir(mm_create(c)))
        segs == FoldLeft(load_segment, hdr, prog)
        map == mm_map(segs, Stack, NV, {"R", "W", "S"})
        all == FoldLeft(pgdir_alloc_page, map, Reverse(Range0(NV - StackPages, NV)))
    IN  IF all.err THEN Drop(all) ELSE all

-----------------------------------------------------------------------------
(* The tests the kernel runs on itself at boot; a failed assertion stops it. *)

Then(c, Do(_)) == Do(c)

Checked(c, ok, d) == IF Stopped(c) \/ Stopped(d) THEN d ELSE IF ok THEN d ELSE Panic(c, "assert")

\* Two pages at two addresses, the second replaced by the first, both removed.
check_pgdir(c) ==
    Then(Lowest(c), LAMBDA p1 :
    Then(page_insert(alloc_page(c), p1, 0), LAMBDA i1 :
    Then(Lowest(i1), LAMBDA p2 :
    Then(page_insert(alloc_page(i1), p2, 1), LAMBDA i2 :
    Then(page_insert(i2, p1, 1), LAMBDA i3 :
    Then(page_remove(i3, 0), LAMBDA r1 :
    Then(page_remove(r1, 1), LAMBDA r2 :
        Checked(c, /\ c.m.pt = Empty
                   /\ i1.m.pte[0] = p1 /\ PDX(1) \in DOMAIN i1.m.pt
                   /\ i2.m.pte[1] = p2 /\ i2.pool.ref[p2] = 1
                   /\ i3.m.pte[1] = p1 /\ i3.pool.ref[p2] = 0
                   /\ r1.pool.ref[p2] = 0 /\ r2.pool.ref[p2] = 0
                   /\ r2.pool.ref[r2.m.pt[0]] = 1,
                free_pt(r2, 0)))))))))

\* One page at two addresses: what is stored through one is read through the other.
check_boot_pgdir(c) ==
    Then(Lowest(c), LAMBDA p :
    Then(page_insert(alloc_page(c), p, 0), LAMBDA i1 :
    Then(page_insert(i1, p, 1), LAMBDA i2 :
    Then(Fill(i2, 0, "a"), LAMBDA w :
        Checked(c, /\ c.m.pt = Empty
                   /\ i1.pool.ref[p] = 1 /\ i2.pool.ref[p] = 2
                   /\ w.pool.data[w.m.pte[1]] = "a",
                [free_pt(free_page(w, p), 0) EXCEPT !.m.pte = Empty])))))

\* Areas inserted in falling, then in rising order, as step1 and step2 have it.
step1 == 2
step2 == 4

check_vma_struct(c) ==
    LET insert(a, i) == insert_vma_struct(kmalloc(a), vma_create(i * 5, i * 5 + 2, {}))
        order == Reverse(Range0(1, step1 + 1)) \o Range0(step1 + 1, step2 + 1)
    IN  Then(FoldLeft(insert, mm_create(c), order), LAMBDA d :
            Checked(c, /\ d.m.vmas = [i \in 1..step2 |-> vma_create(i * 5, i * 5 + 2, {})]
                       /\ \A i \in 1..step2 : \A k \in 0..4 :
                            find_vma(d.m, i * 5 + k) = IF k < 2 THEN {d.m.vmas[i]} ELSE {}
                       /\ \A i \in 0..4 : find_vma(d.m, i) = {},
                    mm_destroy(d)))

\* A store to a page that is not there, and what the page faults leave behind.
check_pgfault(c) ==
    LET vma == vma_create(0, PTN, {"W"})
    IN  Then(insert_vma_struct(kmalloc(mm_create(c)), vma), LAMBDA d :
        Then(Fill(Access(d, 0, TRUE), 0, "a"), LAMBDA w :
        Then(Access(w, 0, FALSE), LAMBDA r :
        Then(mm_destroy(free_pt(page_remove(r, 0), 0)), LAMBDA e :
            Checked(c, /\ c.m.pt = Empty
                       /\ find_vma(d.m, 0) = {vma}
                       /\ r.pool.data[r.m.pte[0]] = "a"
                       /\ Cardinality(c.pool.free) = Cardinality(e.pool.free), e)))))

-----------------------------------------------------------------------------
(* The system calls. *)

Init == /\ proc = [p \in Procs |-> "none"]
        /\ kstack = [p \in Procs |-> 0]
        /\ mm = [p \in Procs |-> NoMm]
        /\ pool = [free |-> Frames, ref |-> [f \in Frames |-> 0],
                   data |-> [f \in Frames |-> "old"], heap |-> {}, objs |-> 0, room |-> 0]
        /\ calls = 0
        /\ halt = "boot"

pmm_init == /\ halt = "boot"
            /\ Then(check_boot_pgdir(check_pgdir(Ctx(NoMm))), LAMBDA c :
                    pool' = c.pool /\ halt' = IF c.halt = "" THEN "booting" ELSE c.halt)
            /\ UNCHANGED <<proc, kstack, mm, calls>>

check_vmm(c) == check_pgfault(check_vma_struct(c))

\* Frame 1 becomes a page of the heap.
vmm_init == /\ halt = "booting"
            /\ Then(check_vmm(Ctx(NoMm)), LAMBDA c : pool' = c.pool /\ halt' = c.halt)
            /\ UNCHANGED <<proc, kstack, mm, calls>>

\* The free frames when init_main begins.
nr_free_pages_store == Frames \ {1}

Running(p) == halt = "" /\ proc[p] = "run"

\* What context c leaves of process p's memory.
Leave(c, p) == /\ pool' = c.pool
               /\ mm' = [mm EXCEPT ![p] = c.m]
               /\ halt' = c.halt

\* Two contiguous frames, or NULL: a request for two pages is never retried.
StackRuns(c) == {f \in c.pool.free : f + 1 \in c.pool.free}

StackTop(c) == CHOOSE f \in StackRuns(c) : \A g \in StackRuns(c) : f <= g

setup_kstack(c) ==
    IF Stopped(c) THEN c
    ELSE IF StackRuns(c) = {} THEN Error(c)
    ELSE [c EXCEPT !.pool.free = @ \ {StackTop(c), StackTop(c) + 1}]

copy_mm(c, src) == IF Stopped(c) \/ src = NoMm THEN c
                   ELSE dup_mmap(setup_pgdir(mm_create(c)), src)

\* alloc_proc, setup_kstack, copy_mm; without a stack the process goes again.
do_fork(src, q) ==
    LET c == kmalloc(Ctx(NoMm))
        k == setup_kstack(c)
        d == IF k.err THEN kfree(k, 1) ELSE copy_mm(k, src)
    IN  /\ proc[q] = "none"
        /\ Leave(d, q)
        /\ proc' = IF Stopped(d) THEN proc ELSE [proc EXCEPT ![q] = "run"]
        /\ kstack' = IF Stopped(d) THEN kstack ELSE [kstack EXCEPT ![q] = StackTop(c)]

\* init_main starts user_main, a kernel thread.
init_main(q) == /\ halt = "" /\ calls = 0
                /\ calls' = 1
                /\ do_fork(NoMm, q)

sys_fork(p, q) == /\ Running(p) /\ mm[p] # NoMm
                  /\ calls < MaxCalls /\ calls' = calls + 1
                  /\ do_fork(mm[p], q)

put_kargv(c, n) == kfree(c, n)

\* A buffer for every argument; none is kept when one cannot be copied.
copy_kargv(c, argv) ==
    LET copy(a, s) == IF Stopped(a) THEN a ELSE copy_string(kmalloc(a), s, 1)
        d == FoldLeft(copy, c, argv)
    IN  IF Stopped(c) THEN c
        ELSE IF ~user_mem_check(c.m, argv[1], argv[1] + 1, FALSE) THEN Error(c)
        ELSE IF d.err THEN put_kargv(d, d.pool.objs - c.pool.objs)
        ELSE d

\* The name, which is the first argument, and the arguments are copied; the file
\* may not open (left = 0); the old space goes and the program is loaded; a
\* failure from the open on ends the process.  A kernel thread's strings are
\* its own.
do_execve(p, argv, prog, left) ==
    LET args == IF mm[p] = NoMm THEN FoldLeft(LAMBDA a, s : kmalloc(a), Ctx(NoMm), argv)
                ELSE copy_kargv(copy_string(Ctx(mm[p]), argv[1], 1), argv)
        new == load_icode([Drop(args) EXCEPT !.left = left - 1], prog)
    IN  /\ Running(p)
        /\ calls < MaxCalls /\ calls' = calls + 1
        /\ CASE Stopped(args) -> Leave(args, p) /\ UNCHANGED proc
             [] ~Stopped(args) /\ left = 0 ->
                    /\ Leave(Drop(put_kargv(args, Len(argv))), p)
                    /\ proc' = [proc EXCEPT ![p] = "zombie"]
             [] ~Stopped(args) /\ left > 0 ->
                    /\ Leave(put_kargv(new, Len(argv)), p)
                    /\ proc' = IF new.err THEN [proc EXCEPT ![p] = "zombie"] ELSE proc
        /\ UNCHANGED kstack

do_exit(p) == /\ Running(p)
              /\ Leave(Drop(Ctx(mm[p])), p)
              /\ proc' = [proc EXCEPT ![p] = "zombie"]
              /\ UNCHANGED <<kstack, calls>>

put_kstack(c, f) == free_page(free_page(c, f), f + 1)

\* The parent reaps q: its stack and its proc_struct are freed.
do_wait(q) ==
    /\ halt = "" /\ proc[q] = "zombie"
    /\ pool' = kfree(put_kstack(Ctx(NoMm), kstack[q]), 1).pool
    /\ proc' = [proc EXCEPT ![q] = "none"]
    /\ kstack' = [kstack EXCEPT ![q] = 0]
    /\ UNCHANGED <<mm, calls, halt>>

\* The program stores to or loads from one of its pages.
user_access(p, v, write, d) ==
    LET c == Access(Ctx(mm[p]), v, write)
    IN  /\ Running(p) /\ mm[p] # NoMm
        /\ Leave(IF write THEN Fill(c, v, d) ELSE c, p)
        /\ UNCHANGED <<proc, kstack, calls>>

\* A system call stores a result of n pages at page s, or refuses.
copy_to_user(p, s, n, d) ==
    /\ Running(p) /\ mm[p] # NoMm
    /\ user_mem_check(mm[p], s, s + n, TRUE)
    /\ Leave(FoldLeft(LAMBDA a, v : Fill(Access(a, v, TRUE), v, d), Ctx(mm[p]), Range0(s, s + n)), p)
    /\ UNCHANGED <<proc, kstack, calls>>

\* A system call reads n pages at page s, or refuses.
copy_from_user(p, s, n) ==
    /\ Running(p) /\ mm[p] # NoMm
    /\ user_mem_check(mm[p], s, s + n, FALSE)
    /\ Leave(FoldLeft(LAMBDA a, v : Access(a, v, FALSE), Ctx(mm[p]), Range0(s, s + n)), p)
    /\ UNCHANGED <<proc, kstack, calls>>

\* The area goes after the last but one, the last being the stack; no room for
\* it is the assertion of insert_vma_struct.
do_malloc(p, n) ==
    LET vmas == mm[p].vmas
        last == vmas[Len(vmas) - 1]
        alloc_size == n \div PGSIZE + (IF n = 0 THEN 1 ELSE 0)
        e == last.e + alloc_size + 1
    IN  /\ Running(p) /\ Len(vmas) >= 2
        /\ IF USER_ACCESS(last.e, e)
           THEN Leave(insert_vma_struct(kmalloc(Ctx(mm[p])), vma_create(last.e, e, last.flags)), p)
           ELSE UNCHANGED <<pool, mm, halt>>
        /\ UNCHANGED <<proc, kstack, calls>>

\* Reads the entry of every page of every area: a page table that was never
\* made is a NULL pointer.
do_mem(p) ==
    /\ Running(p) /\ mm[p] # NoMm
    /\ \E x \in ToSet(mm[p].vmas) : \E v \in x.s..(x.e - 1) : PDX(v) \notin DOMAIN mm[p].pt
    /\ halt' = "null pte"
    /\ UNCHANGED <<proc, kstack, mm, pool, calls>>

Next == \/ pmm_init \/ vmm_init
        \/ \E q \in Procs : init_main(q) \/ do_exit(q) \/ do_wait(q) \/ do_mem(q)
        \/ \E p, q \in Procs : sys_fork(p, q)
        \/ \E p \in Procs, argv \in Argv, prog \in Programs, left \in Reads : do_execve(p, argv, prog, left)
        \/ \E p \in Procs, v \in Page, write \in BOOLEAN : user_access(p, v, write, "a")
        \/ \E p \in Procs, s \in Page, n \in 1..2 : copy_to_user(p, s, n, "a") \/ copy_from_user(p, s, n)
        \/ \E p \in Procs, n \in MallocSizes : do_malloc(p, n)

Spec == Init /\ [][Next]_vars

-----------------------------------------------------------------------------
(* Properties. *)

\* The frames a process accounts for, one entry per use.
Stacks(p) == IF proc[p] = "none" THEN {} ELSE {kstack[p], kstack[p] + 1}
Tables(p) == IF mm[p] = NoMm THEN {} ELSE {mm[p].pgdir} \cup {mm[p].pt[i] : i \in DOMAIN mm[p].pt}
Mapped(p) == {mm[p].pte[v] : v \in DOMAIN mm[p].pte}
Uses(p) == Cardinality(Stacks(p)) + (IF mm[p] = NoMm THEN 0 ELSE 1)
           + Cardinality(DOMAIN mm[p].pt) + Cardinality(DOMAIN mm[p].pte)

SumUses == FoldSet(LAMBDA p, n : n + Uses(p), 0, Procs)

\* Every frame is free, in the kmalloc heap, or used once: as one page of one
\* kernel stack, one directory, one table or one page of one address space,
\* with the reference count that page_remove_pte relies on; none is lost by
\* fork, exec, exit, the cleanups of load_icode or a failed fork.
FramesExact ==
    halt = "" =>
        LET owned == UNION {Stacks(p) \cup Tables(p) \cup Mapped(p) : p \in Procs} \cup pool.heap
        IN  /\ owned \cup pool.free = Frames
            /\ owned \cap pool.free = {}
            /\ Cardinality(owned) = Cardinality(pool.heap) + SumUses
            /\ \A p \in Procs : \A f \in Mapped(p) : pool.ref[f] = 1

\* The areas of a process are sorted and disjoint, every mapped page lies in
\* one of them and in a page table that exists, and no page table outlives the
\* areas it serves: what exit_mmap's two walks over the areas need to find all.
AreasExact ==
    \A p \in Procs : LET m == mm[p] IN
        /\ \A i, j \in DOMAIN m.vmas : i < j => m.vmas[i].e <= m.vmas[j].s
        /\ \A v \in DOMAIN m.pte : find_vma(m, v) # {} /\ PDX(v) \in DOMAIN m.pt
        /\ \A i \in DOMAIN m.pt : \E x \in ToSet(m.vmas) : \E v \in x.s..(x.e - 1) : PDX(v) = i

AS == INSTANCE AddrSpec WITH
          ImageData <- {"file", "zero"}, StackArea <- Stack..(NV - 1),
          space <- [p \in Procs |-> [v \in DOMAIN mm[p].pte |-> pool.data[mm[p].pte[v]]]]

\* User programs see private memory: what a process reads is what it stored,
\* loaded or inherited by fork, whatever the others map, free and reuse.
ImplementsAddrSpec == AS!Spec

\* The tests of pmm_init and vmm_init pass: references, page tables, the sorted
\* areas and demand paging do what their assertions say, and no frame is lost.
BootChecks == halt # "assert"

\* init_main's last assertion: once every process is reaped, as many pages are
\* free as before user_main was started.
InitMainMemory == calls > 0 /\ halt = "" /\ (\A p \in Procs : proc[p] = "none")
                  => Cardinality(pool.free) = Cardinality(nr_free_pages_store)
=============================================================================
