------------------------------- MODULE Sched --------------------------------
(***************************************************************************)
(* The scheduler framework and its four classes (kern/schedule/sched.c,    *)
(* rr_sched.c, fcfs_sched.c, stride_sched.c, prior_sched.c) over the run   *)
(* list and the skew heap (libs/skew_heap.h), with the system call that    *)
(* changes the class while processes are queued.  Strides are uint32_t in  *)
(* the code and numbers modulo Mod here, compared by the sign of their     *)
(* difference, with BIG_STRIDE half of the range less one.                 *)
(***************************************************************************)
EXTENDS Integers, FiniteSets, SequencesExt

CONSTANTS Procs,          \* does not contain 0, which is NULL and idleproc
          Mod, Priorities, MaxTimeSlice,
          MaxChanges      \* bound on changes of the class and of priorities

VARIABLES sched_class,
          run_list,
          pool,           \* lab6_run_pool: root, left, right, parent
          proc_num,
          state,          \* "none", "runnable", "sleeping", "zombie"
          stride, priority, time_slice,
          current,        \* 0 while idleproc runs
          need_resched,
          changes,
          orderly         \* ghost: the heap has only seen strides it can order

vars == <<sched_class, run_list, pool, proc_num, state, stride, priority, time_slice,
          current, need_resched, changes, orderly>>

idleproc == 0
BIG_STRIDE == Mod \div 2 - 1
Classes == {"rr", "fcfs", "stride", "prior"}
UsesHeap(c) == c \in {"stride", "prior"}

-----------------------------------------------------------------------------
(* The skew heap; h has fields root, left, right and parent. *)

skew_heap_init(h, b) == [h EXCEPT !.left[b] = 0, !.right[b] = 0, !.parent[b] = 0]

\* The sign of p - q as an int32_t.
Signed(d) == IF d % Mod >= Mod \div 2 THEN (d % Mod) - Mod ELSE d % Mod

\* Mutant: strides are compared as plain numbers.
MutPlainComp(p, q) == IF stride[p] > stride[q] THEN 1 ELSE IF stride[p] = stride[q] THEN 0 ELSE -1

proc_stride_comp_f(p, q) == LET c == Signed(stride[p] - stride[q])
                            IN  IF c > 0 THEN 1 ELSE IF c = 0 THEN 0 ELSE -1

proc_prior_comp_f(p, q) == LET c == Signed(priority[p] - priority[q])
                           IN  IF c > 0 THEN 1 ELSE IF c = 0 THEN 0 ELSE -1

comp(p, q) == IF sched_class = "stride" THEN proc_stride_comp_f(p, q) ELSE proc_prior_comp_f(p, q)

\* Merges the trees at a and b; the new root is left in root.
RECURSIVE skew_heap_merge(_, _, _)
skew_heap_merge(h, a, b) ==
    IF a = 0 THEN [h EXCEPT !.root = b]
    ELSE IF b = 0 THEN [h EXCEPT !.root = a]
    ELSE LET top == IF comp(a, b) = -1 THEN a ELSE b
             m == IF top = a THEN skew_heap_merge(h, h.right[a], b) ELSE skew_heap_merge(h, a, h.right[b])
         IN  [m EXCEPT !.left[top] = m.root, !.right[top] = h.left[top], !.root = top,
                       !.parent = [x \in DOMAIN @ |-> IF x = m.root THEN top ELSE @[x]]]

skew_heap_insert(h, b) == skew_heap_merge(skew_heap_init(h, b), h.root, b)

\* Mutant: the tree that takes the place of b keeps no link to b's parent.
MutRemove(h, b) ==
    LET p == h.parent[b]
        m == skew_heap_merge(h, h.left[b], h.right[b])
        a == IF p = 0 THEN m
             ELSE IF h.left[p] = b THEN [m EXCEPT !.left[p] = m.root, !.root = h.root]
             ELSE [m EXCEPT !.right[p] = m.root, !.root = h.root]
    IN  skew_heap_init(a, b)

\* The links of an entry that is not in the heap are never read: 0 stands for
\* whatever they hold.
skew_heap_remove(h, b) ==
    LET p == h.parent[b]
        m == skew_heap_merge(h, h.left[b], h.right[b])
        rep == m.root
        r == [m EXCEPT !.parent = [x \in DOMAIN @ |-> IF x = rep THEN p ELSE @[x]]]
        a == IF p = 0 THEN r
             ELSE IF h.left[p] = b THEN [r EXCEPT !.left[p] = rep, !.root = h.root]
             ELSE [r EXCEPT !.right[p] = rep, !.root = h.root]
    IN  skew_heap_init(a, b)

-----------------------------------------------------------------------------
(* The classes.  q has fields list, pool, num and slice. *)

Queue == [list |-> run_list, pool |-> pool, num |-> proc_num, slice |-> time_slice]

Refill(q, p) == [q EXCEPT !.slice[p] = IF @ = 0 \/ @ > MaxTimeSlice THEN MaxTimeSlice ELSE @,
                          !.num = @ + 1]

RR_enqueue(q, p) == Refill([q EXCEPT !.list = Append(@, p)], p)
FCFS_enqueue(q, p) == Refill([q EXCEPT !.list = Append(@, p)], p)
stride_enqueue(q, p) == Refill([q EXCEPT !.pool = skew_heap_insert(@, p)], p)
prior_enqueue(q, p) == Refill([q EXCEPT !.pool = skew_heap_insert(@, p)], p)

ListDel(q, p) == [q EXCEPT !.list = SelectSeq(@, LAMBDA x : x # p), !.num = @ - 1]
RR_dequeue(q, p) == ListDel(q, p)
FCFS_dequeue(q, p) == ListDel(q, p)
stride_dequeue(q, p) == [q EXCEPT !.pool = skew_heap_remove(@, p), !.num = @ - 1]
prior_dequeue(q, p) == [q EXCEPT !.pool = skew_heap_remove(@, p), !.num = @ - 1]

RR_pick_next(q) == IF q.list = <<>> THEN 0 ELSE Head(q.list)
FCFS_pick_next(q) == IF q.list = <<>> THEN 0 ELSE Head(q.list)
stride_pick_next(q) == q.pool.root
prior_pick_next(q) == q.pool.root

\* What picking p does to its stride.
stride_step(p) == (stride[p] + (IF priority[p] = 0 THEN BIG_STRIDE ELSE BIG_STRIDE \div priority[p])) % Mod
Strided(p) == CASE p = 0 -> stride
                [] p # 0 /\ sched_class = "stride" -> [stride EXCEPT ![p] = stride_step(p)]
                [] p # 0 /\ sched_class = "prior" -> [stride EXCEPT ![p] = priority[p]]
                [] OTHER -> stride

RR_proc_tick(p) == LET t == IF time_slice[p] > 0 THEN time_slice[p] - 1 ELSE 0
                   IN  [slice |-> t, resched |-> need_resched \/ t = 0]
stride_proc_tick(p) == RR_proc_tick(p)
FCFS_proc_tick(p) == [slice |-> time_slice[p], resched |-> need_resched]
prior_proc_tick(p) == FCFS_proc_tick(p)

sched_class_enqueue(q, p) ==
    CASE p = idleproc -> q
      [] p # idleproc /\ sched_class = "rr" -> RR_enqueue(q, p)
      [] p # idleproc /\ sched_class = "fcfs" -> FCFS_enqueue(q, p)
      [] p # idleproc /\ sched_class = "stride" -> stride_enqueue(q, p)
      [] p # idleproc /\ sched_class = "prior" -> prior_enqueue(q, p)

sched_class_dequeue(q, p) ==
    CASE sched_class = "rr" -> RR_dequeue(q, p)
      [] sched_class = "fcfs" -> FCFS_dequeue(q, p)
      [] sched_class = "stride" -> stride_dequeue(q, p)
      [] sched_class = "prior" -> prior_dequeue(q, p)

sched_class_pick_next(q) ==
    CASE sched_class = "rr" -> RR_pick_next(q)
      [] sched_class = "fcfs" -> FCFS_pick_next(q)
      [] sched_class = "stride" -> stride_pick_next(q)
      [] sched_class = "prior" -> prior_pick_next(q)

-----------------------------------------------------------------------------
(* The heap's contents, and whether p's stride fits among the others'. *)

RECURSIVE inorder(_, _)
inorder(h, a) == IF a = 0 THEN <<>> ELSE <<a>> \o inorder(h, h.left[a]) \o inorder(h, h.right[a])

InPool == ToSet(inorder(pool, pool.root))

\* Every pair of positions once, swapped if out of order; the entries hold the
\* stride as an int.
sort(q) ==
    LET n == Len(q)
        pairs == FlattenSeq([i \in 1..n |-> [k \in 1..(n - i) |-> <<i, i + k>>]])
        order(s, ij) == IF Signed(stride[s[ij[2]]]) < Signed(stride[s[ij[1]]])
                        THEN [s EXCEPT ![ij[1]] = s[ij[2]], ![ij[2]] = s[ij[1]]] ELSE s
    IN  FoldLeft(order, q, pairs)

\* What the two system calls that list the queues show.
skew_heap_trav(a) == sort(inorder(pool, a))
do_stride_queue == skew_heap_trav(pool.root)
do_queue == run_list

\* With p among the queued, the strides span at most BIG_STRIDE from the least.
Fits(p) == LET S == InPool \cup {p}
           IN  \E x \in S : \A y \in S : (stride[y] - stride[x]) % Mod <= BIG_STRIDE

\* p joins the queue of the current class.
StillOrderly(p) == orderly /\ (p # idleproc /\ sched_class = "stride" => Fits(p))

-----------------------------------------------------------------------------
RR_init == run_list = <<>> /\ proc_num = 0

\* The init functions of the other classes are never called.
sched_init == /\ sched_class = "rr"
              /\ RR_init
              /\ pool = [root |-> 0, left |-> [p \in Procs |-> 0], right |-> [p \in Procs |-> 0],
                         parent |-> [p \in Procs |-> 0]]

\* What a new process starts with.
alloc_proc == [state |-> "none", stride |-> 0, priority |-> 0, time_slice |-> 0]

Init == /\ sched_init
        /\ state = [p \in Procs |-> alloc_proc.state]
        /\ stride = [p \in Procs |-> alloc_proc.stride]
        /\ priority = [p \in Procs |-> alloc_proc.priority]
        /\ time_slice = [p \in Procs |-> alloc_proc.time_slice]
        /\ current = idleproc
        /\ need_resched = FALSE
        /\ changes = 0
        /\ orderly = TRUE

SetQueue(q) == run_list' = q.list /\ pool' = q.pool /\ proc_num' = q.num /\ time_slice' = q.slice

\* schedule(), with the current process in state st.
schedule(st) ==
    LET runs == current = idleproc \/ st = "runnable"
        q == IF runs THEN sched_class_enqueue(Queue, current) ELSE Queue
        next == sched_class_pick_next(q)
    IN  /\ SetQueue(IF next = 0 THEN q ELSE sched_class_dequeue(q, next))
        /\ stride' = Strided(next)
        /\ current' = next
        /\ need_resched' = FALSE
        /\ orderly' = IF runs THEN StillOrderly(current) ELSE orderly
        /\ UNCHANGED <<sched_class, priority, changes>>

wakeup_proc(p) == /\ SetQueue(sched_class_enqueue(Queue, p))
                  /\ orderly' = StillOrderly(p)

\* A new process, or one that slept, becomes runnable.
do_fork(p) == /\ state[p] = alloc_proc.state
              /\ state' = [state EXCEPT ![p] = "runnable"]
              /\ wakeup_proc(p)
              /\ UNCHANGED <<sched_class, stride, priority, current, need_resched, changes>>

wakeup(p) == /\ state[p] = "sleeping"
             /\ state' = [state EXCEPT ![p] = "runnable"]
             /\ wakeup_proc(p)
             /\ UNCHANGED <<sched_class, stride, priority, current, need_resched, changes>>

\* do_sleep, do_wait and the other blocking calls; do_exit.
block(st) == /\ current # idleproc
             /\ state' = [state EXCEPT ![current] = st]
             /\ schedule(st)

do_yield == /\ current # idleproc
            /\ schedule("runnable")
            /\ UNCHANGED state

\* The zombie is reaped and its slot is that of a fresh process again.
do_wait(p) == /\ state[p] = "zombie"
              /\ state' = [state EXCEPT ![p] = alloc_proc.state]
              /\ stride' = [stride EXCEPT ![p] = alloc_proc.stride]
              /\ priority' = [priority EXCEPT ![p] = alloc_proc.priority]
              /\ time_slice' = [time_slice EXCEPT ![p] = alloc_proc.time_slice]
              /\ UNCHANGED <<sched_class, run_list, pool, proc_num, current, need_resched, changes, orderly>>

\* The timer interrupt; the flag it may raise is seen when the trap returns.
sched_class_proc_tick ==
    /\ IF current = idleproc THEN need_resched' = TRUE /\ UNCHANGED time_slice
       ELSE LET t == IF sched_class = "rr" THEN RR_proc_tick(current)
                     ELSE IF sched_class = "stride" THEN stride_proc_tick(current)
                     ELSE IF sched_class = "fcfs" THEN FCFS_proc_tick(current) ELSE prior_proc_tick(current)
            IN  /\ time_slice' = [time_slice EXCEPT ![current] = t.slice]
                /\ need_resched' = t.resched
    /\ ~need_resched
    /\ UNCHANGED <<sched_class, run_list, pool, proc_num, state, stride, priority, current, changes, orderly>>

resched == /\ need_resched
           /\ schedule("runnable")
           /\ UNCHANGED state

lab6_set_priority(n) == /\ current # idleproc
                        /\ changes < MaxChanges /\ changes' = changes + 1
                        /\ priority' = [priority EXCEPT ![current] = IF n = 0 THEN 1 ELSE n]
                        /\ UNCHANGED <<sched_class, run_list, pool, proc_num, state, stride, time_slice,
                                       current, need_resched, orderly>>

do_change_sched(c) ==
    /\ current # idleproc
    /\ changes < MaxChanges /\ changes' = changes + 1
    /\ sched_class' = c
    /\ orderly' = (orderly /\ (UsesHeap(c) => pool.root = 0))
    /\ UNCHANGED <<run_list, pool, proc_num, state, stride, priority, time_slice, current, need_resched>>

Next == \/ \E p \in Procs : do_fork(p) \/ wakeup(p) \/ do_wait(p)
        \/ \E st \in {"sleeping", "zombie"} : block(st)
        \/ do_yield \/ sched_class_proc_tick \/ resched
        \/ \E n \in Priorities : lab6_set_priority(n)
        \/ \E c \in Classes : do_change_sched(c)

Spec == Init /\ [][Next]_vars

-----------------------------------------------------------------------------
(* Properties. *)

\* A runnable process that does not run is in exactly one queue, once, whatever
\* changes of class happened while it waited; proc_num counts both queues; the
\* links of the heap agree, so that removing from the middle is safe; and the two
\* listings show each of them once, the heap's by rising stride.
QueueExact ==
    LET waiting == {p \in Procs : state[p] = "runnable"} \ {current}
        listed == do_stride_queue
    IN  /\ ToSet(do_queue) \cup ToSet(listed) = waiting
        /\ ToSet(run_list) \cap InPool = {}
        /\ Len(listed) = Cardinality(InPool)
        /\ \A i, j \in DOMAIN listed : i < j => Signed(stride[listed[i]]) <= Signed(stride[listed[j]])
        /\ Len(run_list) = Cardinality(ToSet(run_list))
        /\ proc_num = Cardinality(waiting)
        /\ \A a \in InPool : /\ pool.parent[a] = 0 <=> a = pool.root
                             /\ pool.left[a] # 0 => pool.parent[pool.left[a]] = a
                             /\ pool.right[a] # 0 => pool.parent[pool.right[a]] = a
                             /\ pool.left[a] = 0 \/ pool.left[a] # pool.right[a]

\* Stride scheduling survives the wrap-around of its counters: as long as every
\* process joined within BIG_STRIDE of those queued, the root of the heap has
\* the least stride, and no two strides drift out of the comparable range.
StrideOrder ==
    orderly /\ sched_class = "stride" =>
        \A p \in InPool : (stride[p] - stride[pool.root]) % Mod <= BIG_STRIDE
=============================================================================
