----------------------------- MODULE PageAlloc -----------------------------
(***************************************************************************)
(* The first-fit, best-fit and next-fit page managers                      *)
(* (kern/mm/firstfit_pmm.c, bestfit_pmm.c, nextfit_pmm.c) as functions on   *)
(* their memory.                                                           *)
(*                                                                         *)
(* A manager's memory m is a record: list, the first pages of the free     *)
(* blocks in the order of free_list; property, the size of the block a     *)
(* page starts (0 for other pages; PG_property is set exactly there);      *)
(* nr_free; and Record, next-fit's resume point, HEAD for &free_list.      *)
(* DANGLING says that the block Record pointed to was merged away by a     *)
(* free, which updates free_list and not Record: what next-fit does from   *)
(* there follows links of a deleted node, and the model stops.             *)
(***************************************************************************)
EXTENDS Integers, Sequences, FiniteSets, SequencesExt

CONSTANTS NPage           \* pages 0 .. NPage-1 make the one region of memory

Page == 0 .. NPage - 1
HEAD == -1
DANGLING == -2
NULL == -3

firstfit_init == [list |-> <<>>, property |-> [p \in Page |-> 0], nr_free |-> 0,
                  Record |-> HEAD]

best_init == firstfit_init

next_init == firstfit_init

\* All pages of the region are reserved; the region becomes the last block.
firstfit_init_memmap(m, base, n) ==
    [m EXCEPT !.list = Append(@, base), !.property[base] = n, !.nr_free = @ + n]

best_init_memmap(m, base, n) == firstfit_init_memmap(m, base, n)

next_init_memmap(m, base, n) == firstfit_init_memmap(m, base, n)

-----------------------------------------------------------------------------
(* alloc_pages: choose a block, cut n pages off its front, link the rest. *)

Answer(m, p) == [m |-> m, page |-> p, ok |-> TRUE]

\* The positions of the blocks that are large enough.
Large(m, n) == {i \in DOMAIN m.list : m.property[m.list[i]] >= n}

Least(S) == CHOOSE i \in S : \A j \in S : i <= j

\* Take n pages of block p out; rest is free_list without p, after the tail
\* of the block has been linked where the manager wants it.
Cut(m, p, n, rest) ==
    [m EXCEPT !.list = rest, !.nr_free = @ - n,
              !.property = [q \in Page |-> IF q = p THEN 0
                            ELSE IF q = p + n /\ m.property[p] > n
                                 THEN m.property[p] - n
                            ELSE m.property[q]]]

\* The tail takes the place of the block in the list.
InPlace(m, i, n) ==
    LET p == m.list[i]
    IN  IF m.property[p] > n THEN [m.list EXCEPT ![i] = p + n]
        ELSE SubSeq(m.list, 1, i - 1) \o SubSeq(m.list, i + 1, Len(m.list))

firstfit_alloc_pages(m, n) ==
    IF n > m.nr_free \/ Large(m, n) = {} THEN Answer(m, NULL)
    ELSE LET i == Least(Large(m, n))
         IN  Answer(Cut(m, m.list[i], n, InPlace(m, i, n)), m.list[i])

\* The smallest block that is large enough, the first of them in the list;
\* the tail goes to the front of the list.
best_alloc_pages(m, n) ==
    IF n > m.nr_free \/ Large(m, n) = {} THEN Answer(m, NULL)
    ELSE LET size(i) == m.property[m.list[i]]
             best == {i \in Large(m, n) : \A j \in Large(m, n) : size(i) <= size(j)}
             p == m.list[Least(best)]
             rest == SelectSeq(m.list, LAMBDA q : q # p)
         IN  Answer(Cut(m, p, n, IF m.property[p] > n THEN <<p + n>> \o rest ELSE rest), p)

\* The position of Record in the list, 0 for the head.
RecordAt(m) == IF m.Record = HEAD THEN 0
               ELSE CHOOSE i \in DOMAIN m.list : m.list[i] = m.Record

\* The scan starts behind Record and ends when it is back there: Record's own
\* block is looked at only when the request takes all the free pages.  The
\* head is passed over, the word that stands for its property being 0.
next_alloc_pages(m, n) ==
    LET at == RecordAt(m)
        whole == n = m.nr_free /\ at # 0 /\ m.property[m.Record] = n
        behind == {i \in Large(m, n) : i > at}
        before == {i \in Large(m, n) : i < at}
        i == IF whole THEN at ELSE IF behind # {} THEN Least(behind) ELSE Least(before)
    IN  IF n > m.nr_free \/ ~ (whole \/ behind # {} \/ before # {})
        THEN Answer(m, NULL)
        ELSE Answer([Cut(m, m.list[i], n, InPlace(m, i, n))
                        EXCEPT !.Record = IF i = 1 THEN HEAD ELSE m.list[i - 1]],
                    m.list[i])

-----------------------------------------------------------------------------
(* free_pages: one pass over the list merges the neighbours of the block,  *)
(* then the merged block is linked before the first block that lies above. *)

\* Mutant: the block is joined to the one above it and not to the one below.
MutMerge(m, base, n) ==
    LET Absorb(a, p) == IF a.base + a.size = p THEN [a EXCEPT !.size = @ + m.property[p]]
                        ELSE [a EXCEPT !.rest = Append(@, p)]
    IN  FoldLeft(Absorb, [base |-> base, size |-> n, rest |-> <<>>], m.list)

\* What the pass leaves: the merged block and the list without the neighbours.
Merge(m, base, n) ==
    LET Absorb(a, p) ==
            CASE a.base + a.size = p ->
                   [a EXCEPT !.size = @ + m.property[p]]
              [] p + m.property[p] = a.base ->
                   [a EXCEPT !.base = p, !.size = @ + m.property[p]]
              [] OTHER -> [a EXCEPT !.rest = Append(@, p)]
    IN  FoldLeft(Absorb, [base |-> base, size |-> n, rest |-> <<>>], m.list)

Above(a) == {i \in DOMAIN a.rest : a.base + a.size <= a.rest[i]}

firstfit_free_pages(m, base, n) ==
    LET a == Merge(m, base, n)
        at == IF Above(a) = {} THEN Len(a.rest) + 1 ELSE Least(Above(a))
        list == InsertAt(a.rest, at, a.base)
    IN  [list |-> list,
         property |-> [p \in Page |-> IF p = a.base THEN a.size
                                      ELSE IF p \in Range(a.rest) THEN m.property[p]
                                      ELSE 0],
         nr_free |-> m.nr_free + n,
         Record |-> IF m.Record = HEAD \/ m.Record \in Range(list) THEN m.Record
                    ELSE DANGLING]

best_free_pages(m, base, n) == firstfit_free_pages(m, base, n)

next_free_pages(m, base, n) == firstfit_free_pages(m, base, n)

\* The assertions of free_pages: no page of the block is a free block's
\* first page, and no block is left right behind the merged one.
FreeAsserts(m, base, n) ==
    LET a == Merge(m, base, n)
    IN  /\ \A p \in base .. base + n - 1 : m.property[p] = 0
        /\ Above(a) # {} => a.rest[Least(Above(a))] # a.base + a.size

Total(m) == FoldLeft(LAMBDA t, p : t + m.property[p], 0, m.list)
=============================================================================
