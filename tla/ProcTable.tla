----------------------------- MODULE ProcTable -----------------------------
(***************************************************************************)
(* The linked structures of the process table (kern/process/proc.c):       *)
(* proc_list, a circular doubly linked list with a sentinel, and the       *)
(* family pointers parent, cptr (youngest child), optr (older sibling) and *)
(* yptr (younger sibling), as do_fork, do_exit, do_wait and do_kill update *)
(* them, pointer by pointer, and the process ids get_pid derives from      *)
(* proc_list.                                                              *)
(***************************************************************************)
EXTENDS Integers, Sequences, FiniteSets

CONSTANTS User,         \* slots of forked processes
          idleproc, initproc,
          HEAD,         \* the sentinel &proc_list
          NULL,
          MAX_PROCESS, MAX_PID

Proc == User \cup {idleproc, initproc}
Node == User \cup {initproc, HEAD}      \* idleproc is never linked

VARIABLES state,        \* "FREE", "LIVE" or "ZOMBIE"
          pid, last_pid, next_safe, nr_process,
          next, prev,   \* the links of proc_list
          parent, cptr, optr, yptr,
          exiter        \* the process in do_exit's loop, or NULL

family == <<parent, cptr, optr, yptr>>
pids == <<pid, last_pid, next_safe>>
vars == <<state, pids, nr_process, next, prev, family, exiter>>

\* After proc_init: idleproc has forked initproc.
Init ==
  /\ state = [p \in Proc |-> IF p \in User THEN "FREE" ELSE "LIVE"]
  /\ pid = [p \in Proc |-> IF p = initproc THEN 1 ELSE 0]
  /\ last_pid = 1 /\ next_safe = MAX_PID
  /\ nr_process = 2
  /\ next = [n \in Node |-> IF n = HEAD THEN initproc ELSE HEAD]
  /\ prev = next
  /\ parent = [p \in Proc |-> IF p = initproc THEN idleproc ELSE NULL]
  /\ cptr = [p \in Proc |-> IF p = idleproc THEN initproc ELSE NULL]
  /\ optr = [p \in Proc |-> NULL]
  /\ yptr = [p \in Proc |-> NULL]
  /\ exiter = NULL

Alive == {p \in Proc : state[p] # "FREE"}

\* The node met after k steps along a link from n, until the end.
Met(link, n, end) ==
  LET met[k \in 0 .. Cardinality(Proc)] ==
        IF k = 0 THEN n
        ELSE LET m == met[k - 1] IN IF m = end THEN end ELSE link[m]
  IN  met

Follow(link, n, end) ==
  LET met == Met(link, n, end)
  IN  [i \in 1 .. Cardinality({k \in 0 .. Cardinality(Proc) : met[k] # end}) |-> met[i - 1]]

InList == Follow(next, next[HEAD], HEAD)
ChildList(p) == Follow(optr, cptr[p], NULL)

SetOf(s) == {s[i] : i \in 1 .. Len(s)}

-----------------------------------------------------------------------------
\* Mutated forms of definitions below.

MutUnlinkChild(c) ==
  /\ yptr' = yptr
  /\ IF yptr[c] # NULL
       THEN optr' = [optr EXCEPT ![yptr[c]] = optr[c]] /\ cptr' = cptr
       ELSE cptr' = [cptr EXCEPT ![parent[c]] = optr[c]] /\ optr' = optr

MutPushChild(p, c) ==
  /\ parent' = [parent EXCEPT ![c] = p]
  /\ optr' = [optr EXCEPT ![c] = NULL]
  /\ yptr' = [yptr EXCEPT ![c] = NULL]

-----------------------------------------------------------------------------
\* One iteration of the loop of get_pid, over the list of ids.
Iterate(ids, s) ==
  IF s.le > Len(ids) THEN s
  ELSE IF ids[s.le] # s.last
    THEN [le |-> s.le + 1, last |-> s.last,
          safe |-> IF ids[s.le] > s.last /\ s.safe > ids[s.le] THEN ids[s.le] ELSE s.safe]
  ELSE IF s.last + 1 >= s.safe
    THEN [le |-> 1, last |-> IF s.last + 1 >= MAX_PID THEN 1 ELSE s.last + 1, safe |-> MAX_PID]
    ELSE [le |-> s.le + 1, last |-> s.last + 1, safe |-> s.safe]

\* Each restart of the loop tries a higher id, or wraps around.
MaxIterations == MAX_PID * MAX_PROCESS

Loop(ids, last) ==
  LET loop[k \in 0 .. MaxIterations] ==
        IF k = 0 THEN [le |-> 1, last |-> last, safe |-> MAX_PID]
        ELSE Iterate(ids, loop[k - 1])
  IN  loop

Scan(ids, last) == Loop(ids, last)[MaxIterations]

\* What get_pid leaves in last_pid and next_safe, and where its loop stands.
GetPid ==
  LET list == InList
      ids == [i \in 1 .. Len(list) |-> pid[list[i]]]
  IN  IF last_pid + 1 >= MAX_PID THEN Scan(ids, 1)
      ELSE IF last_pid + 1 >= next_safe THEN Scan(ids, last_pid + 1)
      ELSE [le |-> Len(ids) + 1, last |-> last_pid + 1, safe |-> next_safe]

\* list_add(&proc_list, n) and list_del(n).
ListAdd(n) == /\ next' = [next EXCEPT ![HEAD] = n, ![n] = next[HEAD]]
              /\ prev' = [prev EXCEPT ![next[HEAD]] = n, ![n] = HEAD]

ListDel(n) == /\ next' = [next EXCEPT ![prev[n]] = next[n]]
              /\ prev' = [prev EXCEPT ![next[n]] = prev[n]]

\* The pointer updates of set_links and of do_exit's loop: c becomes the
\* youngest child of p, and p's youngest child becomes its older sibling.
PushChild(p, c) ==
  /\ parent' = [parent EXCEPT ![c] = p]
  /\ optr' = [optr EXCEPT ![c] = cptr[p]]
  /\ yptr' = [q \in Proc |-> IF q = cptr[p] THEN c ELSE IF q = c THEN NULL ELSE yptr[q]]

\* The pointer updates of remove_links.
UnlinkChild(c) ==
  /\ yptr' = IF optr[c] # NULL THEN [yptr EXCEPT ![optr[c]] = yptr[c]] ELSE yptr
  /\ IF yptr[c] # NULL
       THEN optr' = [optr EXCEPT ![yptr[c]] = optr[c]] /\ cptr' = cptr
       ELSE cptr' = [cptr EXCEPT ![parent[c]] = optr[c]] /\ optr' = optr

\* do_fork by p into the free slot c.
Fork(p, c) ==
  /\ exiter = NULL
  /\ state[p] = "LIVE" /\ state[c] = "FREE"
  /\ nr_process < MAX_PROCESS
  /\ LET got == GetPid
     IN  /\ got.le > Len(InList)        \* get_pid returns
         /\ pid' = [pid EXCEPT ![c] = got.last]
         /\ last_pid' = got.last /\ next_safe' = got.safe
  /\ ListAdd(c)
  /\ PushChild(p, c)
  /\ cptr' = [cptr EXCEPT ![p] = c]
  /\ nr_process' = nr_process + 1
  /\ state' = [state EXCEPT ![c] = "LIVE"]
  /\ UNCHANGED exiter

\* do_exit: p becomes a zombie, then its children go to initproc one by one.
Exit(p) ==
  /\ exiter = NULL
  /\ state[p] = "LIVE"
  /\ state' = [state EXCEPT ![p] = "ZOMBIE"]
  /\ exiter' = p
  /\ UNCHANGED <<pids, nr_process, next, prev, family>>

ExitAdopt ==
  /\ exiter # NULL /\ cptr[exiter] # NULL
  /\ LET c == cptr[exiter]
     IN  /\ PushChild(initproc, c)
         /\ cptr' = [cptr EXCEPT ![exiter] = optr[c], ![initproc] = c]
  /\ UNCHANGED <<state, pids, nr_process, next, prev, exiter>>

ExitDone ==
  /\ exiter # NULL /\ cptr[exiter] = NULL
  /\ exiter' = NULL
  /\ UNCHANGED <<state, pids, nr_process, next, prev, family>>

\* do_wait by p finds the zombie c; remove_links, then the slot is freed.
Reap(p, c) ==
  /\ exiter = NULL
  /\ state[p] = "LIVE" /\ state[c] = "ZOMBIE" /\ parent[c] = p
  /\ ListDel(c)
  /\ UnlinkChild(c)
  /\ nr_process' = nr_process - 1
  /\ state' = [state EXCEPT ![c] = "FREE"]
  /\ UNCHANGED <<pids, parent, exiter>>

\* do_kill of v: if it is the first of proc_list the sentinel's next link is
\* moved past it, and no other link.  The flag it sets is in Process.
Kill(v) ==
  /\ exiter = NULL
  /\ state[v] # "FREE"
  /\ next[HEAD] # HEAD /\ pid[next[HEAD]] = pid[v]
  /\ next' = [next EXCEPT ![HEAD] = next[next[HEAD]]]
  /\ UNCHANGED <<state, pids, nr_process, prev, family, exiter>>

Next == \/ \E p \in User \cup {initproc}, c \in User : Fork(p, c) \/ Reap(p, c)
        \/ \E p \in User : Exit(p)
        \/ ExitAdopt
        \/ ExitDone

\* Without do_kill, and with it.
Spec == Init /\ [][Next]_vars

KillSpec == Init /\ [][Next \/ \E v \in User : Kill(v)]_vars

-----------------------------------------------------------------------------
\* proc_list holds every process but idleproc, prev is the inverse of next,
\* and nr_process counts them and idleproc, after any sequence of set_links
\* and remove_links.
ListExact ==
  LET list == InList
  IN  /\ SetOf(list) = Alive \ {idleproc}
      /\ nr_process = Len(list) + 1
      /\ \A n \in SetOf(list) \cup {HEAD} : prev[next[n]] = n

\* Following cptr and then optr from p meets exactly the processes whose
\* parent is p, and yptr leads back: do_wait(0) misses no child, and do_exit's
\* loop, seen between any two iterations, loses none (it leaves the yptr of the
\* children still to be moved stale).
FamilyExact ==
  \A p \in Alive :
     LET list == ChildList(p)
     IN  /\ SetOf(list) = {c \in Alive : parent[c] = p}
         /\ p # exiter => \A i \in 1 .. Len(list) :
               yptr[list[i]] = IF i = 1 THEN NULL ELSE list[i - 1]

\* No two processes have the same id ("the pid that is unique in the system",
\* comment of get_pid).
UniquePids == \A p, q \in Alive : pid[p] = pid[q] => p = q

\* set_links, remove_links and the reparenting in do_exit keep the list and the
\* family tree exact, with an id of its own for every process.
TableExact == ListExact /\ FamilyExact /\ UniquePids

\* The asserts that end init_main, which runs them once it has no child left.
InitMainAsserts ==
  cptr[initproc] = NULL /\ exiter = NULL =>
     /\ yptr[initproc] = NULL /\ optr[initproc] = NULL
     /\ nr_process = 2
     /\ next[HEAD] = initproc /\ prev[HEAD] = initproc
=============================================================================
