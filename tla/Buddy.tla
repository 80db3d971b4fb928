------------------------------- MODULE Buddy -------------------------------
(***************************************************************************)
(* The buddy page manager (kern/mm/buddy_pmm.c).                           *)
(*                                                                         *)
(* Block 1 is the whole memory and blocks 2b and 2b+1 are the halves of b. *)
(* segment[b] is the length of b when b is free as a whole, and otherwise  *)
(* the bitwise or of its halves.  The manager's memory m is a record of    *)
(* the sizes, segment, the free list as a sequence of first pages (counted *)
(* from buddy_alloc), property, the size written at a block's first page,  *)
(* and nr_free.                                                            *)
(***************************************************************************)
EXTENDS Integers, Sequences, FiniteSets, SequencesExt, Bitwise

NULL == -3

\* The words of a page, what a segment entry takes of it: PGSIZE / sizeof(size_t).
PGWORDS == 1024

BitOr(a, b) == a | b

\* Halving a 32-bit number until nothing is left reaches every bit below its top.
UINT32_MASK(a) == (CHOOSE k \in {2^i : i \in 0 .. 15} : a < k /\ (k = 1 \/ k <= 2 * a)) - 1
UINT32_REMAINDER(a) == a & (UINT32_MASK(a) \div 2)
UINT32_ROUND_DOWN(a) == a - UINT32_REMAINDER(a)
UINT32_ROUND_UP(a) == IF UINT32_REMAINDER(a) # 0 THEN 2 * UINT32_ROUND_DOWN(a) ELSE a

BUDDY_ROOT == 1
BUDDY_LEFT(b) == 2 * b
BUDDY_RIGHT(b) == 2 * b + 1
BUDDY_PARENT(b) == b \div 2
BUDDY_LENGTH(V, b) == V \div UINT32_ROUND_DOWN(b)
BUDDY_BEGIN(V, b) == UINT32_REMAINDER(b) * BUDDY_LENGTH(V, b)
BUDDY_END(V, b) == (UINT32_REMAINDER(b) + 1) * BUDDY_LENGTH(V, b)
BUDDY_BLOCK(V, a, b) == V \div (b - a) + a \div (b - a)
BUDDY_EMPTY(m, b) == m.segment[b] = BUDDY_LENGTH(m.virtual_size, b)

\* Physical, virtual, segment and allocatable size of a region of n pages.
buddy_init_size(n) ==
    LET small == n < 512
        v == IF small THEN UINT32_ROUND_UP(n - 1) ELSE UINT32_ROUND_DOWN(n)
        s == IF small THEN 1 ELSE (v * 2) \div PGWORDS
        double == ~ small /\ n > v + 2 * s
        V == IF double THEN 2 * v ELSE v
        S == IF double THEN 2 * s ELSE s
    IN  [physical_size |-> n, virtual_size |-> V, segment_size |-> S,
         alloc_size |-> IF V < n - S THEN V ELSE n - S]

list_add(m, p) == [m EXCEPT !.list = <<p>> \o @]

list_del(m, p) == [m EXCEPT !.list = SelectSeq(@, LAMBDA q : q # p)]

\* Walk down from the root towards the end of the allocatable part: a left
\* half that is there as a whole becomes a free block.
RECURSIVE InitSegment(_, _, _, _)
InitSegment(m, block, alloc_size, virtual_size) ==
    LET half == virtual_size \div 2
        left == BUDDY_LEFT(block)
        right == BUDDY_RIGHT(block)
        first == BUDDY_BEGIN(m.virtual_size, block)
    IN  IF alloc_size = 0 THEN m
        ELSE IF alloc_size >= virtual_size
             THEN list_add([m EXCEPT !.property[first] = alloc_size], first)
        ELSE IF alloc_size > half
             THEN InitSegment(list_add([m EXCEPT !.property[first] = half,
                                                 !.segment[left] = half,
                                                 !.segment[right] = alloc_size - half], first),
                              right, alloc_size - half, half)
        ELSE InitSegment([m EXCEPT !.segment[left] = alloc_size, !.segment[right] = 0],
                         left, alloc_size, half)

buddy_init_segment(sz) ==
    InitSegment([size |-> sz, virtual_size |-> sz.virtual_size,
                 segment |-> [b \in 1 .. 2 * sz.virtual_size - 1 |->
                                 IF b = BUDDY_ROOT THEN sz.alloc_size ELSE 0],
                 list |-> <<>>,
                 property |-> [p \in 0 .. sz.alloc_size - 1 |-> 0],
                 nr_free |-> sz.alloc_size],
                BUDDY_ROOT, sz.alloc_size, sz.virtual_size)

buddy_init_memmap(n) == buddy_init_segment(buddy_init_size(n))

\* Descend to a block of the length wanted, splitting free blocks on the way.
RECURSIVE FindBlock(_, _, _)
FindBlock(m, block, length) ==
    LET left == BUDDY_LEFT(block)
        right == BUDDY_RIGHT(block)
        begin == BUDDY_BEGIN(m.virtual_size, block)
        mid == (begin + BUDDY_END(m.virtual_size, block)) \div 2
        half == m.segment[block] \div 2
        size == m.property[begin] \div 2
        split == [list_del(m, begin) EXCEPT !.property[begin] = size,
                                            !.property[mid] = size,
                                            !.segment[left] = half,
                                            !.segment[right] = half]
    IN  IF ~ (length <= m.segment[block] /\ length < BUDDY_LENGTH(m.virtual_size, block))
        THEN [m |-> m, block |-> block, ok |-> TRUE]
        ELSE IF BUDDY_EMPTY(m, block)
             THEN FindBlock(list_add(list_add(split, begin), mid), left, length)
        ELSE IF (length & m.segment[left]) # 0 THEN FindBlock(m, left, length)
        ELSE IF (length & m.segment[right]) # 0 THEN FindBlock(m, right, length)
        ELSE IF length <= m.segment[left] THEN FindBlock(m, left, length)
        ELSE IF length <= m.segment[right] THEN FindBlock(m, right, length)
        ELSE [m |-> m, block |-> block, ok |-> FALSE]

\* Mutant: the blocks above an allocated one keep their old segment.
MutNoUpdate(m, child) == m

\* Recompute segment on the way from a block up to the root.
RECURSIVE UpdateUp(_, _)
UpdateUp(m, child) ==
    LET b == BUDDY_PARENT(child)
    IN  IF child = BUDDY_ROOT THEN m
        ELSE UpdateUp([m EXCEPT !.segment[b] = BitOr(m.segment[BUDDY_LEFT(b)], m.segment[BUDDY_RIGHT(b)])], b)

buddy_alloc_pages(m, n) ==
    LET length == UINT32_ROUND_UP(n)
        f == FindBlock(m, BUDDY_ROOT, length)
        page == BUDDY_BEGIN(m.virtual_size, f.block)
        taken == [list_del(f.m, page) EXCEPT !.segment[f.block] = 0, !.nr_free = @ - length]
    IN  IF length > f.m.segment[f.block]
        THEN [m |-> f.m, page |-> NULL, ok |-> f.ok]
        ELSE [m |-> UpdateUp(taken, f.block), page |-> page,
              ok |-> f.ok /\ page \in Range(f.m.list)]

\* Mutant: only the right half of two looks at its buddy when it is freed.
MutMayMerge(m, child) == child % 2 = 1 /\ BUDDY_EMPTY(m, child - 1) /\ BUDDY_EMPTY(m, child)

MayMerge(m, child) == LET b == BUDDY_PARENT(child)
                      IN  BUDDY_EMPTY(m, BUDDY_LEFT(b)) /\ BUDDY_EMPTY(m, BUDDY_RIGHT(b))

\* Merge two free halves into their parent, all the way up.
RECURSIVE MergeUp(_, _)
MergeUp(m, child) ==
    LET b == BUDDY_PARENT(child)
        left == BUDDY_LEFT(b)
        right == BUDDY_RIGHT(b)
        lbegin == BUDDY_BEGIN(m.virtual_size, left)
        rbegin == BUDDY_BEGIN(m.virtual_size, right)
        twice == 2 * m.segment[left]
    IN  IF child = BUDDY_ROOT THEN m
        ELSE IF MayMerge(m, child)
             THEN MergeUp(list_add([list_del(list_del(m, lbegin), rbegin)
                                       EXCEPT !.segment[b] = twice, !.property[lbegin] = twice],
                                   lbegin), b)
        ELSE MergeUp([m EXCEPT !.segment[b] = BitOr(m.segment[left], m.segment[right])], b)

\* Mutant: the length is not rounded up to the power of two that was handed out.
MutFreeUnrounded(m, base, n) ==
    LET block == BUDDY_BLOCK(m.virtual_size, base, base + n)
    IN  MergeUp([list_add(m, base) EXCEPT !.property[base] = n, !.nr_free = @ + n,
                                          !.segment[block] = n], block)

buddy_free_pages(m, base, n) ==
    LET length == UINT32_ROUND_UP(n)
        block == BUDDY_BLOCK(m.virtual_size, base, base + length)
    IN  MergeUp([list_add(m, base) EXCEPT !.property[base] = length,
                                          !.nr_free = @ + length,
                                          !.segment[block] = length], block)

-----------------------------------------------------------------------------
(* The parts of the self-check that look at the tree alone. *)

Total(m) == FoldLeft(LAMBDA t, p : t + m.property[p], 0, m.list)

macro_check ==
    /\ BUDDY_LEFT(3) = 6 /\ BUDDY_RIGHT(3) = 7
    /\ BUDDY_PARENT(6) = 3 /\ BUDDY_PARENT(7) = 3
    /\ BUDDY_LENGTH(16, 6) = 4
    /\ BUDDY_BEGIN(16, 6) = 8 /\ BUDDY_END(16, 6) = 12
    /\ BUDDY_BLOCK(16, 8, 12) = 6
    /\ BUDDY_LENGTH(16, BUDDY_ROOT) = 16
    /\ UINT32_MASK(16384) = 32767
    /\ UINT32_REMAINDER(17185) = 801
    /\ UINT32_ROUND_UP(8993) = 16384 /\ UINT32_ROUND_UP(8192) = 8192
    /\ UINT32_ROUND_DOWN(17185) = 16384 /\ UINT32_ROUND_DOWN(16384) = 16384

size_check ==
    /\ buddy_init_size(200).virtual_size = 256
    /\ \A n \in {1024, 1026, 1028} : buddy_init_size(n).virtual_size = 1024
    /\ buddy_init_size(1030).virtual_size = 2048

segment_check(m) ==
    /\ \A b \in 1 .. m.virtual_size - 1 :
          BUDDY_EMPTY(m, b) \/ m.segment[b] = BitOr(m.segment[BUDDY_LEFT(b)], m.segment[BUDDY_RIGHT(b)])
    /\ Total(m) = m.nr_free
=============================================================================
