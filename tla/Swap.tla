-------------------------------- MODULE Swap --------------------------------
(***************************************************************************)
(* Page replacement (kern/mm/swap.c, swap_fifo.c, swap_clock.c,            *)
(* swap_lru.c, kern/fs/swap/swapfs.c) in the environment of check_swap:    *)
(* one address space with more pages than frames (swap_init has its call   *)
(* of check_swap commented out: this is what it would run).  After the     *)
(* content is set up, the manager's own script runs ("script") or any      *)
(* accesses ("free").  A page is named by its address; the TLB keeps, per  *)
(* page, what the processor has seen of the entry's bits and may forget it *)
(* any time.  Reads of the swap disk succeed; a write may fail and be      *)
(* retried on another page.                                                *)
(***************************************************************************)
EXTENDS Integers, FiniteSets, Sequences

CONSTANTS FreePages, FreeFrames,  \* size of the free environment
          MaxErrors               \* failed writes in a row

ASSUME SwapAssumption == FreePages \in Nat /\ FreeFrames \in Nat \ {0} /\ MaxErrors \in Nat

VARIABLES sm,            \* the swap manager
          stage,         \* "idle", "script", "free", or why the kernel stopped
          pra,           \* pra_list_head, first entry first
          bits,          \* per page: the accessed (A) and dirty (D) bits of its entry
          tlb,           \* per page: "no", "clean" or "dirty"
          content,       \* contents of resident pages
          disk,          \* contents of pages in the swap area
          pgfault_num,
          pc

svars == <<sm, stage, pra, bits, tlb, content, disk, pgfault_num, pc>>

Pages == IF stage = "free" THEN 1..FreePages ELSE 1..5
NFrame == IF stage = "free" THEN FreeFrames ELSE 4
No == [v \in {} |-> 0]
Put(f, v, x) == [w \in DOMAIN f \cup {v} |-> IF w = v THEN x ELSE f[w]]
Del(f, v) == [w \in DOMAIN f \ {v} |-> f[w]]

St(op, v, n) == [op |-> op, v |-> v, n |-> n]

\* Stores, each with the number of faults the next assertion expects.
check_content_set == << St("w", 1, 1), St("w", 1, 1), St("w", 2, 2), St("w", 2, 2),
                        St("w", 3, 3), St("w", 3, 3), St("w", 4, 4), St("w", 4, 4) >>

CheckStart == << St("w", 3, 4), St("w", 1, 4), St("w", 4, 4), St("w", 2, 4), St("w", 5, 5), St("w", 2, 5) >>

_fifo_check_swap == CheckStart \o << St("w", 1, 6), St("w", 2, 7), St("w", 3, 8), St("w", 4, 9),
                                     St("w", 5, 10), St("r", 1, 11), St("w", 1, 11) >>

_clock_check_swap == CheckStart \o << St("w", 1, 6), St("w", 2, 6), St("w", 3, 7), St("w", 4, 8),
                                      St("w", 5, 8), St("r", 1, 8), St("w", 1, 8) >>

_lru_check_swap == _fifo_check_swap

\* The same statements, run by a system call in a user process.
_fifo_user_check == _fifo_check_swap
_clock_user_check == _clock_check_swap
_lru_user_check == _lru_check_swap

check_swap == check_content_set \o (CASE sm = "fifo" -> _fifo_check_swap
                                      [] sm = "clock" -> _clock_check_swap
                                      [] sm = "lru" -> _lru_check_swap)

user_check == CASE sm = "fifo" -> _fifo_user_check
                [] sm = "clock" -> _clock_user_check
                [] sm = "lru" -> _lru_user_check

-----------------------------------------------------------------------------
(* The state the handlers work on: s has fields pra, bits, tlb, content, disk *)
(* and victim, the page chosen (0 for none).                                  *)

Now == [pra |-> pra, bits |-> bits, tlb |-> tlb, content |-> content, disk |-> disk, victim |-> 0]

tlb_invalidate(s, v) == [s EXCEPT !.tlb = Put(@, v, "no")]

_fifo_init_mm == <<>>
_fifo_map_swappable(s, v) == [s EXCEPT !.pra = <<v>> \o @]
_clock_init_mm == <<>>
_clock_map_swappable(s, v) == [s EXCEPT !.pra = <<v>> \o @]
_lru_init_mm == <<>>

\* max_map is larger than the number of frames, so the list is never full here.
_lru_map_swappable(s, v) == [s EXCEPT !.pra = <<v>> \o @]

\* The i-th entry is the page chosen, and leaves the list.
list_del(l, i) == SubSeq(l, 1, i - 1) \o SubSeq(l, i + 1, Len(l))
Chosen(s, i) == [s EXCEPT !.pra = list_del(@, i), !.victim = s.pra[i]]

_fifo_swap_out_victim(s) == Chosen(s, Len(s.pra))

\* Where the clock stops: at the oldest page without bits, 0 if it finds none.
\* New pages are put in front.
Oldest(S) == CHOOSE i \in S : \A j \in S : i >= j
Hand(s) == Oldest({i \in DOMAIN s.pra : s.bits[s.pra[i]] = {}} \cup {0})

\* It clears bit b of the pages it passes.  The invalidation names a list entry,
\* not the page.
Pass(s, b) ==
    LET passed == {s.pra[i] : i \in (Hand(s) + 1)..Len(s.pra)}
    IN  [s EXCEPT !.bits = [v \in DOMAIN @ |-> IF v \in passed THEN @[v] \ b ELSE @[v]]]

\* One round from the oldest page on.
Round(s, b) == IF s.victim # 0 THEN s
               ELSE IF Hand(s) = 0 THEN Pass(s, b) ELSE Chosen(Pass(s, b), Hand(s))

_clock_swap_out_victim(s) == Round(Round(Round(s, {"A"}), {"D"}), {})

sm_victim(s) == IF sm = "fifo" THEN _fifo_swap_out_victim(s) ELSE _clock_swap_out_victim(s)
swap_map_swappable(s, v) == CASE sm = "fifo" -> _fifo_map_swappable(s, v)
                            [] sm = "clock" -> _clock_map_swappable(s, v)
                            [] sm = "lru" -> _lru_map_swappable(s, v)

\* A page's slot of the swap area is determined by its address.
swapfs_write(s, v) == [s EXCEPT !.disk = Put(@, v, s.content[v])]
swapfs_read(s, v) == s.disk[v]

\* Mutant: a page whose dirty bit is clear is not written.
MutWriteDirty(s) ==
    LET t == sm_victim([s EXCEPT !.victim = 0])
        v == t.victim
        w == IF "D" \in s.bits[v] THEN swapfs_write(t, v) ELSE t
    IN  tlb_invalidate([w EXCEPT !.content = Del(@, v), !.bits = Del(@, v)], v)

swap_out(s) ==
    LET t == sm_victim([s EXCEPT !.victim = 0])
        v == t.victim
    IN  tlb_invalidate([swapfs_write(t, v) EXCEPT !.content = Del(@, v), !.bits = Del(@, v)], v)

\* Mutant: the page stays off the list.
MutFailedForgets(s) == sm_victim([s EXCEPT !.victim = 0])

\* The write fails: the page goes back on the list and the next one is tried.
swap_out_failed(s) == LET t == sm_victim([s EXCEPT !.victim = 0])
                      IN  swap_map_swappable(t, t.victim)

Failures(s, n) == LET after[k \in 0..n] == IF k = 0 THEN s ELSE swap_out_failed(after[k - 1])
                  IN  after[n]

\* alloc_pages(1): while no frame is free, swap one page out.
alloc_page(s, errors) == IF Cardinality(DOMAIN s.content) < NFrame THEN s
                         ELSE swap_out(Failures(s, errors))

swap_in(s, v, errors) ==
    LET a == alloc_page(s, errors) IN [a EXCEPT !.content = Put(@, v, swapfs_read(a, v))]

\* A fault on page v of the area: a page of the swap area is read back, another
\* one starts with whatever its frame holds.
do_pgfault(s, v, errors) ==
    LET a == IF v \in DOMAIN s.disk THEN swap_in(s, v, errors)
             ELSE [alloc_page(s, errors) EXCEPT !.content = Put(@, v, 0)]
        in == [a EXCEPT !.disk = Del(@, v), !.bits = Put(@, v, {})]
    IN  swap_map_swappable(tlb_invalidate(in, v), v)

\* The access itself: the processor sets the bits it does not remember as set.
Touch(s, v, op, x) ==
    LET seen == s.tlb[v]
        fresh == IF op = "w" THEN seen # "dirty" ELSE seen = "no"
        b == s.bits[v] \cup {"A"} \cup (IF op = "w" THEN {"D"} ELSE {})
    IN  [s EXCEPT !.bits[v] = IF fresh THEN b ELSE @,
                  !.tlb[v] = IF fresh THEN IF "D" \in b THEN "dirty" ELSE "clean" ELSE @,
                  !.content[v] = IF op = "w" THEN x ELSE @]

-----------------------------------------------------------------------------
Init == /\ sm \in {"fifo", "clock", "lru"}
        /\ stage = "idle"
        /\ pra = <<>> /\ bits = No /\ content = No /\ disk = No
        /\ tlb = [v \in 1..5 |-> "no"]
        /\ pgfault_num = 0
        /\ pc = 1

Become(s) == /\ pra' = s.pra /\ bits' = s.bits /\ tlb' = s.tlb
             /\ content' = s.content /\ disk' = s.disk

Same == UNCHANGED <<pra, bits, tlb, content, disk>>

do_change_swap(mode) ==
    /\ stage = "idle"
    /\ sm' = CASE mode = 1 -> "clock" [] mode = 2 -> "fifo" [] mode = 3 -> "lru" [] OTHER -> sm
    /\ UNCHANGED <<stage, pgfault_num, pc>> /\ Same

\* mm_create and the area of the check; init_mm empties the list.
swap_init_mm(st) ==
    /\ stage = "idle"
    /\ stage' = st
    /\ pra' = CASE sm = "fifo" -> _fifo_init_mm [] sm = "clock" -> _clock_init_mm [] sm = "lru" -> _lru_init_mm
    /\ UNCHANGED <<sm, pgfault_num, pc, bits, tlb, content, disk>>

\* No area of a user process contains the addresses of the check, which all lie
\* below the user text.
UserPages == {}

sys_check_swap == /\ stage = "idle"
                  /\ Head(user_check).v \notin UserPages
                  /\ stage' = "pgfault"
                  /\ UNCHANGED <<sm, pgfault_num, pc>> /\ Same

Hit(v) == v \in DOMAIN content
Full == Cardinality(DOMAIN content) = NFrame
Faults(v) == IF Hit(v) THEN 0 ELSE 1

\* With lru, the search for a victim follows a pointer that is a truth value.
LruFault(v) == sm = "lru" /\ ~Hit(v) /\ Full

script_access(errors) ==
    LET i == check_swap[pc]
        s == Touch(IF Hit(i.v) THEN Now ELSE do_pgfault(Now, i.v, errors), i.v, i.op, i.v)
        n == pgfault_num + Faults(i.v)
    IN  /\ stage = "script" /\ pc <= Len(check_swap)
        /\ IF LruFault(i.v) THEN stage' = "pgfault" /\ Same
           ELSE /\ stage' = IF n = i.n /\ (i.op = "r" => s.content[i.v] = i.v) THEN stage ELSE "assert"
                /\ Become(s)
        /\ pgfault_num' = n
        /\ pc' = pc + 1
        /\ UNCHANGED sm

free_access(v, op, x, errors) ==
    /\ stage = "free"
    /\ IF LruFault(v) THEN stage' = "pgfault" /\ Same
       ELSE /\ Become(Touch(IF Hit(v) THEN Now ELSE do_pgfault(Now, v, errors), v, op, x))
            /\ UNCHANGED stage
    /\ UNCHANGED <<sm, pgfault_num, pc>>

tlb_evict(v) == /\ stage \in {"script", "free"} /\ tlb[v] # "no"
                /\ tlb' = [tlb EXCEPT ![v] = "no"]
                /\ UNCHANGED <<sm, stage, pra, bits, content, disk, pgfault_num, pc>>

Next == \/ \E mode \in 1..4 : do_change_swap(mode)
        \/ \E st \in {"script", "free"} : swap_init_mm(st)
        \/ sys_check_swap
        \/ script_access(0)
        \/ \E v \in Pages, op \in {"r", "w"}, x \in 1..2, e \in 0..MaxErrors : free_access(v, op, x, e)
        \/ \E v \in 1..5 : tlb_evict(v)

Spec == Init /\ [][Next]_svars

-----------------------------------------------------------------------------
(* Properties. *)

\* The list holds exactly the resident pages, once each, and no page is both
\* resident and in the swap area: the clock's search, three rounds over that
\* list, therefore always finds its victim, and the fifo script of check_swap
\* runs to its end with every count it asserts.
SwapExact ==
    /\ {pra[i] : i \in DOMAIN pra} = DOMAIN content /\ Len(pra) = Cardinality(DOMAIN content)
    /\ DOMAIN content \cap DOMAIN disk = {}
    /\ stage # "pgfault" => Cardinality(DOMAIN content) <= NFrame
    /\ sm = "fifo" => stage # "assert"
    /\ sm = "clock" /\ content # No => _clock_swap_out_victim(Now).victim # 0

MS == INSTANCE AddrSpec WITH
          Procs <- {"check"}, Data <- 0..5, ImageData <- {}, StackArea <- {},
          space <- [p \in {"check"} |-> [v \in DOMAIN content \cup DOMAIN disk |->
                       IF v \in DOMAIN content THEN content[v] ELSE disk[v]]]

\* Replacement is invisible: a page holds what was last stored in it, whether it
\* stayed resident, went to the swap area and came back, or was written out
\* again after a failed write, and whatever the TLB remembers.
ImplementsMemory == MS!Spec
=============================================================================
