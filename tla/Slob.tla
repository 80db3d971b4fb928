-------------------------------- MODULE Slob --------------------------------
(***************************************************************************)
(* kmalloc and kfree (kern/mm/kmalloc.c): a heap of blocks cut from pages, *)
(* with a circular free list in address order, and whole pages for big     *)
(* requests.  Addresses and sizes are counted in SLOB_UNITs of 8 bytes.    *)
(*                                                                         *)
(* heap maps the address of a block's header to its units and next; the    *)
(* header of a block in use keeps its units for kfree.  The static arena,  *)
(* below all pages, keeps the list from ever being empty.                  *)
(***************************************************************************)
EXTENDS Integers, Sequences, FiniteSets

CONSTANTS U,            \* units of a page
          NPages,       \* pages the heap can get from the page manager
          Requests,     \* sizes asked for, in units
          MaxHeld       \* bound on the blocks in use at one time

VARIABLES heap,         \* headers: free blocks and blocks in use
          slobfree,     \* where the next search starts
          bigblocks,    \* list of [desc, pages, order]
          freepages,    \* pages the page manager can hand out
          used,         \* what kmalloc returned and kfree has not seen
          sphase        \* "run", or the assertion that stopped the kernel

svars == <<heap, slobfree, bigblocks, freepages, used, sphase>>

arena == 0
PageAddr(i) == (i + 1) * U
NULL == -1
BIGUNITS == 2           \* SLOB_UNITS(sizeof(bigblock_t))

Put(h, a, u, n) == [x \in DOMAIN h \cup {a} |-> IF x = a THEN [units |-> u, next |-> n] ELSE h[x]]

\* The place in the list behind which b belongs.
RECURSIVE InsertAfter(_, _, _)
InsertAfter(h, b, cur) ==
    LET n == h[cur].next
    IN  IF (b > cur /\ b < n) \/ (cur >= n /\ (b > cur \/ b < n)) THEN cur
        ELSE InsertAfter(h, b, n)

\* Mutant: a freed block is not joined to the one before it.
MutJoinsPrev(h, cur, b) == FALSE

JoinsPrev(h, cur, b) == cur + h[cur].units = b

\* Give a block of u units back, merging it with the block behind and before it.
slob_free(h, from, b, u) ==
    LET cur == InsertAfter(h, b, from)
        n == h[cur].next
        joinN == b + u = n
        bu == IF joinN THEN u + h[n].units ELSE u
        bn == IF joinN THEN h[n].next ELSE n
        joinP == JoinsPrev(h, cur, b)
        h1 == Put(h, b, bu, bn)
        h2 == IF joinP THEN [h1 EXCEPT ![cur] = [units |-> @.units + bu, next |-> bn]]
              ELSE [h1 EXCEPT ![cur].next = b]
        gone == (IF joinN THEN {n} ELSE {}) \cup (IF joinP THEN {b} ELSE {})
    IN  [heap |-> [x \in DOMAIN h2 \ gone |-> h2[x]], slobfree |-> cur]

\* Search from slobfree; after a full round take a page from pg into the heap
\* and go on from there.  The result has addr NULL when no page could be had.
RECURSIVE Search(_, _, _, _, _)
Search(h, from, prev, units, pg) ==
    LET cur == h[prev].next
        rest == cur + units
        cut == IF h[cur].units = units THEN [h EXCEPT ![prev].next = h[cur].next]
               ELSE LET h1 == Put(h, rest, h[cur].units - units, h[cur].next)
                    IN  [h1 EXCEPT ![prev].next = rest, ![cur].units = units]
        grown == slob_free(h, from, PageAddr(pg), U)
    IN  IF h[cur].units >= units
        THEN [heap |-> cut, slobfree |-> prev, addr |-> cur, page |-> FALSE]
        ELSE IF cur # from THEN Search(h, from, cur, units, pg)
        ELSE IF pg = NULL THEN [heap |-> h, slobfree |-> from, addr |-> NULL, page |-> TRUE]
        ELSE [Search(grown.heap, grown.slobfree, grown.slobfree, units, NULL) EXCEPT !.page = TRUE]

slob_alloc(units, pg) == Search(heap, slobfree, slobfree, units, pg)

\* find_order: halve the size until it is at most a page.
RECURSIVE find_order(_)
find_order(size) == IF size > U THEN 1 + find_order(size \div 2) ELSE 0

\* The page the page manager would hand out, and runs of 2^order of them.
SomePage == IF freepages = {} THEN {NULL} ELSE freepages
Runs(S, order) == {p \in S : p .. p + 2^order - 1 \subseteq S}

Init == /\ heap = [x \in {arena} |-> [units |-> 1, next |-> arena]]
        /\ slobfree = arena
        /\ bigblocks = <<>>
        /\ freepages = 0 .. NPages - 1
        /\ used = {}
        /\ sphase = "run"

\* A small object: one header unit in front.  The assertion of slob_alloc
\* leaves one unit less than kmalloc lets through.
kmalloc_small(size) ==
    /\ sphase = "run" /\ size < U - 1
    /\ IF size + 1 + 1 < U
       THEN \E pg \in SomePage :
               LET a == slob_alloc(size + 1, pg)
               IN  /\ heap' = a.heap /\ slobfree' = a.slobfree
                   /\ freepages' = IF a.page THEN freepages \ {pg} ELSE freepages
                   /\ used' = IF a.addr = NULL THEN used ELSE used \cup {a.addr + 1}
                   /\ UNCHANGED <<bigblocks, sphase>>
       ELSE sphase' = "assert" /\ UNCHANGED <<heap, slobfree, bigblocks, freepages, used>>

\* A big object: a descriptor from the heap and whole pages; the descriptor
\* goes back when there are no pages.
kmalloc_big(size) ==
    /\ sphase = "run" /\ size >= U - 1
    /\ \E pg \in SomePage :
          LET bb == slob_alloc(BIGUNITS, pg)
              left == IF bb.page THEN freepages \ {pg} ELSE freepages
              order == find_order(size)
              back == slob_free(bb.heap, bb.slobfree, bb.addr, BIGUNITS)
          IN  \/ /\ bb.addr = NULL
                 /\ UNCHANGED <<heap, slobfree, bigblocks, freepages, used>>
              \/ /\ bb.addr # NULL /\ Runs(left, order) = {}
                 /\ heap' = back.heap /\ slobfree' = back.slobfree /\ freepages' = left
                 /\ UNCHANGED <<bigblocks, used>>
              \/ \E p \in Runs(left, order) :
                    /\ bb.addr # NULL
                    /\ heap' = bb.heap /\ slobfree' = bb.slobfree
                    /\ freepages' = left \ (p .. p + 2^order - 1)
                    /\ bigblocks' = <<[desc |-> bb.addr, page |-> p, order |-> order]>> \o bigblocks
                    /\ used' = used \cup {PageAddr(p)}
    /\ UNCHANGED sphase

\* Only a page-aligned address is looked for among the big blocks.
kfree(a) ==
    /\ sphase = "run"
    /\ LET hits == {i \in DOMAIN bigblocks : a % U = 0 /\ PageAddr(bigblocks[i].page) = a}
       IN  IF hits # {}
           THEN LET i == CHOOSE j \in hits : \A k \in hits : j <= k
                    bb == bigblocks[i]
                    f == slob_free(heap, slobfree, bb.desc, BIGUNITS)
                IN  /\ heap' = f.heap /\ slobfree' = f.slobfree
                    /\ bigblocks' = SubSeq(bigblocks, 1, i - 1) \o SubSeq(bigblocks, i + 1, Len(bigblocks))
                    /\ freepages' = freepages \cup (bb.page .. bb.page + 2^bb.order - 1)
           ELSE LET f == slob_free(heap, slobfree, a - 1, heap[a - 1].units)
                IN  /\ heap' = f.heap /\ slobfree' = f.slobfree
                    /\ UNCHANGED <<bigblocks, freepages>>
    /\ used' = used \ {a}
    /\ UNCHANGED sphase

Next == \/ \E s \in Requests : Cardinality(used) < MaxHeld /\ (kmalloc_small(s) \/ kmalloc_big(s))
        \/ \E a \in used : kfree(a)

Spec == Init /\ [][Next]_svars

-----------------------------------------------------------------------------
\* The addresses on the free list, the arena included.
RECURSIVE OnList(_, _)
OnList(h, a) == IF h[a].next = arena THEN {a} ELSE {a} \cup OnList(h, h[a].next)

FreeBlocks == OnList(heap, arena)

Units(a) == a .. a + heap[a].units - 1

\* The heap never overlaps itself: the free list is circular and in address order
\* from the arena up, no two free blocks touch, the blocks in use and the
\* descriptors of big blocks are disjoint from it and from each other, and
\* together they are exactly the pages the heap took.
HeapExact ==
    LET live == DOMAIN heap \ FreeBlocks
        bigs == {bigblocks[i] : i \in DOMAIN bigblocks}
        taken == (0 .. NPages - 1) \ (freepages \cup
                    UNION {b.page .. b.page + 2^b.order - 1 : b \in bigs})
    IN  /\ slobfree \in FreeBlocks
        /\ \A a \in FreeBlocks : a # arena => heap[a].next > a \/ heap[a].next = arena
        /\ \A a, b \in FreeBlocks : a + heap[a].units # b
        /\ \A a, b \in DOMAIN heap : a # b => Units(a) \cap Units(b) = {}
        /\ UNION {Units(a) : a \in DOMAIN heap \ {arena}}
              = UNION {PageAddr(p) .. PageAddr(p) + U - 1 : p \in taken}
        /\ live = {b.desc : b \in bigs} \cup
                  {a - 1 : a \in used \ {PageAddr(b.page) : b \in bigs}}
=============================================================================
