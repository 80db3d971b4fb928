--------------------------- MODULE ProcIdsProofs ---------------------------
(***************************************************************************)
(* Proofs about process ids and the links of the process table, for every  *)
(* set of processes and every MAX_PROCESS and MAX_PID that satisfy the     *)
(* static_assert of get_pid.                                               *)
(*                                                                         *)
(* The first part is about PidAlloc: get_pid, loop by loop.  The second is *)
(* about ProcTable: set_links, remove_links and do_exit keep proc_list and *)
(* the lists of children exact.  Its proofs keep, beside the pointers, the *)
(* row of processes that each list stands for: a function s on 1 .. n.     *)
(* What needs induction, the walk along a list and the loop of get_pid,    *)
(* and with it the theorems about ProcTable, is in ProcTableProofs.        *)
(***************************************************************************)
EXTENDS MCProcIds, Rows

\* The window as it must look inside get_pid: it is not empty, and the ids
\* of the processes already passed lie outside it.  UniquePids and FreshPid
\* are consequences that no single step preserves without it.
Window ==
  /\ pc # "out" => last_pid < next_safe
  /\ pc = "scan" => le <= Len(proc_list) + 1
  /\ pc = "return" => \A i \in 1 .. Len(proc_list) :
                         proc_list[i] < last_pid \/ proc_list[i] >= next_safe

IInv == TypeOK /\ Window /\ UniquePids /\ WindowFree /\ ScanWindow

\* The initial state: an empty proc_list and an empty window.
LEMMA InitIInv == Init => IInv
  BY PidAssumption
  DEF Init, IInv, TypeOK, Window, UniquePids, WindowFree, ScanWindow, Pid,
      nr_process, ForkAllowed, live

\* get_pid's entry code: the increment stays inside the window, or a scan of
\* the whole list begins.
LEMMA EnterIInv == IInv /\ Enter => IInv'
  <1> SUFFICES ASSUME IInv, Enter PROVE IInv'
    OBVIOUS
  <1> USE PidAssumption
      DEF Enter, IInv, Pid, nr_process, ForkAllowed, WrapPid, WindowUsedUp
  <1>1. TypeOK'
    BY DEF TypeOK
  <1>2. Window'
    BY DEF TypeOK, Window, WindowFree, live
  <1>3. UniquePids' /\ WindowFree' /\ ScanWindow'
    BY DEF TypeOK, UniquePids, WindowFree, ScanWindow
  <1> QED BY <1>1, <1>2, <1>3

\* One iteration of the loop, or its end.
LEMMA ScanIInv == IInv /\ (Collide \/ Shrink \/ ScanEnd) => IInv'
  <1> USE PidAssumption
      DEF IInv, Pid, nr_process, ForkAllowed, WrapPid, WindowUsedUp, Repeat
  <1>1. ASSUME IInv, Collide PROVE IInv'
    <2>1. TypeOK'
      BY <1>1 DEF TypeOK, Window, Collide
    <2>2. Window' /\ ScanWindow'
      <3>1. CASE WindowUsedUp(last_pid + 1)
        BY <1>1, <3>1 DEF TypeOK, Window, ScanWindow, Collide
      <3>2. CASE ~WindowUsedUp(last_pid + 1)
        <4>1. /\ last_pid' = last_pid + 1 /\ le' = le + 1 /\ next_safe' = next_safe
              /\ proc_list' = proc_list /\ pc' = pc /\ pc = "scan"
              /\ proc_list[le] = last_pid /\ le <= Len(proc_list)
              /\ last_pid + 1 < next_safe
          BY <1>1, <3>2 DEF TypeOK, Collide
        <4>2. /\ le \in Int /\ last_pid \in Int /\ next_safe \in Int /\ Len(proc_list) \in Int
              /\ \A i \in 1 .. Len(proc_list) : proc_list[i] \in Int
          BY <1>1 DEF TypeOK
        <4>3. Window'  BY ONLY <4>1, <4>2 DEF Window
        <4>4. ScanWindow  BY <1>1
        <4>5. ScanWindow'  BY ONLY <4>1, <4>2, <4>4 DEF ScanWindow
        <4> QED BY <4>3, <4>5
      <3> QED BY <3>1, <3>2
    <2>3. UniquePids' /\ WindowFree'
      BY <1>1 DEF TypeOK, UniquePids, WindowFree, Collide
    <2> QED BY <2>1, <2>2, <2>3
  <1>2. ASSUME IInv, Shrink PROVE IInv'
    <2>0. /\ proc_list[le] \in 1 .. MAX_PID - 1
          /\ proc_list[le] \in Int
      BY <1>2 DEF TypeOK, Shrink
    <2>1. TypeOK'
      BY <1>2, <2>0 DEF TypeOK, Window, Shrink
    <2>2. Window' /\ ScanWindow'
      BY <1>2, <2>0 DEF TypeOK, Window, ScanWindow, Shrink
    <2>3. UniquePids' /\ WindowFree'
      BY <1>2 DEF TypeOK, UniquePids, WindowFree, Shrink
    <2> QED BY <2>1, <2>2, <2>3
  <1>3. ASSUME IInv, ScanEnd PROVE IInv'
    BY <1>3 DEF TypeOK, Window, UniquePids, WindowFree, ScanWindow, ScanEnd
  <1> QED BY <1>1, <1>2, <1>3

\* set_links: the new head has an id no other entry has.
LEMMA SetLinksIInv == IInv /\ SetLinks => IInv'
  <1> SUFFICES ASSUME IInv, SetLinks PROVE IInv'
    OBVIOUS
  <1> USE PidAssumption DEF SetLinks, IInv, Pid, nr_process, ForkAllowed
  <1>1. /\ Len(proc_list') = Len(proc_list) + 1
        /\ proc_list' \in Seq(Pid)
        /\ proc_list'[1] = last_pid
        /\ \A i \in 1 .. Len(proc_list) : proc_list'[i + 1] = proc_list[i]
        /\ \A i \in 1 .. Len(proc_list') :
              i = 1 \/ (i - 1 \in 1 .. Len(proc_list) /\ proc_list'[i] = proc_list[i - 1])
    BY DEF TypeOK
  <1>2. TypeOK'
    BY <1>1 DEF TypeOK
  <1>0. /\ Len(proc_list) \in Nat
        /\ last_pid \in Int /\ next_safe \in Int /\ last_pid < next_safe
        /\ \A i \in 1 .. Len(proc_list) : proc_list[i] \in Int
        /\ \A i \in 1 .. Len(proc_list) :
              proc_list[i] < last_pid \/ proc_list[i] >= next_safe
    BY DEF TypeOK, Window
  <1>3. \A i \in 1 .. Len(proc_list) : proc_list[i] # last_pid
    BY <1>0
  <1>4. UniquePids'
    BY <1>1, <1>3 DEF UniquePids, TypeOK
  <1>5. WindowFree'
    <2>1. \A i \in 1 .. Len(proc_list') :
             proc_list'[i] <= last_pid \/ proc_list'[i] >= next_safe
      <3> SUFFICES ASSUME NEW i \in 1 .. Len(proc_list')
                   PROVE  proc_list'[i] <= last_pid \/ proc_list'[i] >= next_safe
        OBVIOUS
      <3>1. CASE i = 1
        BY <3>1, <1>0, <1>1
      <3>2. CASE i # 1
        <4>1. PICK k \in 1 .. Len(proc_list) : proc_list'[i] = proc_list[k]
          BY <3>2, <1>1
        <4>2. /\ proc_list[k] \in Int
              /\ proc_list[k] < last_pid \/ proc_list[k] >= next_safe
          BY <1>0
        <4> QED BY <4>1, <4>2, <1>0
      <3> QED BY <3>1, <3>2
    <2> QED BY <2>1 DEF WindowFree, live
  <1>6. Window' /\ ScanWindow'
    BY DEF Window, ScanWindow
  <1> QED BY <1>2, <1>4, <1>5, <1>6

\* remove_links: the remaining entries keep their ids and their order.
LEMMA RemoveLinksIInv ==
  ASSUME NEW i \in 1 .. Len(proc_list), IInv, RemoveLinks(i)
  PROVE  IInv'
  <1> USE PidAssumption DEF RemoveLinks, IInv, Pid, nr_process, ForkAllowed
  <1>1. /\ Len(proc_list') = Len(proc_list) - 1
        /\ proc_list' \in Seq(Pid)
        /\ \A k \in 1 .. Len(proc_list') :
              proc_list'[k] = IF k < i THEN proc_list[k] ELSE proc_list[k + 1]
    <2>1. Len(proc_list) \in Nat /\ Len(proc_list) - 1 \in Nat
      BY DEF TypeOK
    <2>2. \A k \in 1 .. Len(proc_list) : proc_list[k] \in Pid
      BY DEF TypeOK
    <2>3. proc_list' = [k \in 1 .. Len(proc_list) - 1 |->
                          IF k < i THEN proc_list[k] ELSE proc_list[k + 1]]
      OBVIOUS
    <2>4. \A k \in 1 .. Len(proc_list) - 1 :
             k \in 1 .. Len(proc_list) /\ k + 1 \in 1 .. Len(proc_list)
      BY <2>1
    <2> HIDE DEF Pid, RemoveLinks, IInv
    <2>5. \A k \in 1 .. Len(proc_list) - 1 : proc_list'[k] \in Pid
      BY ONLY <2>2, <2>3, <2>4
    <2> QED BY ONLY <2>1, <2>3, <2>5
  <1>2. TypeOK'
    BY <1>1 DEF TypeOK
  <1>3. UniquePids'
    <2> SUFFICES ASSUME NEW j \in 1 .. Len(proc_list'), NEW k \in 1 .. Len(proc_list'),
                        proc_list'[j] = proc_list'[k]
                 PROVE  j = k
      BY DEF UniquePids
    <2> DEFINE From(n) == IF n < i THEN n ELSE n + 1
    <2>1. /\ From(j) \in 1 .. Len(proc_list) /\ From(k) \in 1 .. Len(proc_list)
          /\ proc_list[From(j)] = proc_list[From(k)]
      <3>1. Len(proc_list) \in Nat /\ j \in Nat /\ k \in Nat /\ i \in Nat
        BY DEF TypeOK
      <3>2. From(j) \in 1 .. Len(proc_list) /\ From(k) \in 1 .. Len(proc_list)
        BY <1>1, <3>1
      <3>3. proc_list'[j] = proc_list[From(j)] /\ proc_list'[k] = proc_list[From(k)]
        BY <1>1, <3>1
      <3> QED BY <3>2, <3>3
    <2>2. From(j) = From(k)
      BY <2>1 DEF UniquePids
    <2> QED BY <2>2
  <1>4. WindowFree'
    <2>1. \A k \in 1 .. Len(proc_list') : proc_list'[k] \in live
      BY <1>1 DEF live, TypeOK
    <2> QED BY <2>1 DEF WindowFree, live
  <1>5. Window' /\ ScanWindow'
    BY DEF Window, ScanWindow
  <1> QED BY <1>2, <1>3, <1>4, <1>5

LEMMA NextIInv == IInv /\ [Next]_vars => IInv'
  <1> SUFFICES ASSUME IInv, [Next]_vars PROVE IInv'
    OBVIOUS
  <1>1. CASE Enter
    BY <1>1, EnterIInv
  <1>2. CASE Collide \/ Shrink \/ ScanEnd
    BY <1>2, ScanIInv
  <1>3. CASE SetLinks
    BY <1>3, SetLinksIInv
  <1>4. CASE \E i \in 1 .. Len(proc_list) : RemoveLinks(i)
    BY <1>4, RemoveLinksIInv
  <1>5. CASE UNCHANGED vars
    BY <1>5 DEF vars, IInv, TypeOK, Window, UniquePids, WindowFree, ScanWindow,
                nr_process, ForkAllowed, live
  <1> QED BY <1>1, <1>2, <1>3, <1>4, <1>5 DEF Next, GetPidStep

THEOREM IInvHolds == Spec => []IInv
  BY InitIInv, NextIInv, PTL DEF Spec

\* get_pid's counters never leave the id range, and nr_process respects its
\* limit, whatever the limits are.
THEOREM TypeCorrect == Spec => []TypeOK
  BY IInvHolds, PTL DEF IInv

\* No two live processes ever share an id.
THEOREM PidsAreUnique == Spec => []UniquePids
  BY IInvHolds, PTL DEF IInv

\* The id returned by get_pid is free.
THEOREM ReturnedPidIsFresh == Spec => []FreshPid
  <1>1. IInv => FreshPid
    BY DEF IInv, TypeOK, Window, FreshPid, live, Pid
  <1> QED BY <1>1, IInvHolds, PTL

\* set_links is an Alloc of the abstract allocator.
LEMMA SetLinksAllocs == IInv /\ SetLinks => PS!Alloc
  <1> SUFFICES ASSUME IInv, SetLinks PROVE PS!Alloc
    OBVIOUS
  <1>1. last_pid \in PS!Pid \ live
    <2>1. last_pid \in PS!Pid
      BY DEF IInv, TypeOK, SetLinks, Pid, PS!Pid
    <2>2. /\ last_pid \in Int /\ next_safe \in Int /\ last_pid < next_safe
          /\ \A i \in 1 .. Len(proc_list) :
                proc_list[i] < last_pid \/ proc_list[i] >= next_safe
      BY PidAssumption DEF IInv, TypeOK, Window, SetLinks
    <2>3. \A i \in 1 .. Len(proc_list) : proc_list[i] # last_pid
      BY ONLY <2>2
    <2> QED BY <2>1, <2>3 DEF live
  <1>2. /\ Len(proc_list) \in Nat
        /\ Len(proc_list') = Len(proc_list) + 1
        /\ proc_list'[1] = last_pid
        /\ \A i \in 1 .. Len(proc_list) : proc_list'[i + 1] = proc_list[i]
        /\ \A i \in 1 .. Len(proc_list') :
              i = 1 \/ (i - 1 \in 1 .. Len(proc_list) /\ proc_list'[i] = proc_list[i - 1])
    BY DEF IInv, TypeOK, SetLinks
  <1>3. live' \subseteq live \cup {last_pid}
    BY <1>2 DEF live
  <1>4. last_pid \in live'
    <2>1. 1 \in 1 .. Len(proc_list')
      BY <1>2
    <2> QED BY <1>2, <2>1 DEF live
  <1>5. live \subseteq live'
    <2> SUFFICES ASSUME NEW i \in 1 .. Len(proc_list) PROVE proc_list[i] \in live'
      BY DEF live
    <2>1. i + 1 \in 1 .. Len(proc_list')
      BY <1>2
    <2> QED BY <1>2, <2>1 DEF live
  <1>6. live' = live \cup {last_pid}
    BY <1>3, <1>4, <1>5
  <1>7. nr_process < MAX_PROCESS /\ nr_process' = nr_process + 1
    BY <1>2 DEF IInv, TypeOK, ForkAllowed, SetLinks, nr_process
  <1> QED BY <1>1, <1>6, <1>7 DEF PS!Alloc

\* remove_links is a Free: no other entry had the id, so it leaves the set.
LEMMA RemoveLinksFrees ==
  ASSUME NEW i \in 1 .. Len(proc_list), IInv, RemoveLinks(i)
  PROVE  PS!Free
  <1>1. /\ Len(proc_list) \in Nat
        /\ Len(proc_list') = Len(proc_list) - 1
        /\ \A k \in 1 .. Len(proc_list') :
              proc_list'[k] = IF k < i THEN proc_list[k] ELSE proc_list[k + 1]
    BY DEF IInv, TypeOK, RemoveLinks
  <1>2. proc_list[i] \in live
    BY DEF live
  <1>3. live' \subseteq live \ {proc_list[i]}
    <2> SUFFICES ASSUME NEW k \in 1 .. Len(proc_list')
                 PROVE  proc_list'[k] \in live \ {proc_list[i]}
      BY DEF live
    <2>1. PICK j \in 1 .. Len(proc_list) : j # i /\ proc_list'[k] = proc_list[j]
      <3>1. CASE k < i
        BY <1>1, <3>1
      <3>2. CASE ~(k < i)
        BY <1>1, <3>2
      <3> QED BY <3>1, <3>2
    <2> QED BY <2>1 DEF live, IInv, UniquePids
  <1>4. live \ {proc_list[i]} \subseteq live'
    <2> SUFFICES ASSUME NEW j \in 1 .. Len(proc_list), j # i
                 PROVE  proc_list[j] \in live'
      BY DEF live
    <2>1. PICK k \in 1 .. Len(proc_list') : proc_list'[k] = proc_list[j]
      <3>1. CASE j < i
        BY <1>1, <3>1
      <3>2. CASE ~(j < i)
        <4>1. j - 1 \in 1 .. Len(proc_list') /\ ~(j - 1 < i) /\ (j - 1) + 1 = j
          BY <1>1, <3>2
        <4> QED BY <1>1, <4>1
      <3> QED BY <3>1, <3>2
    <2> QED BY <2>1 DEF live
  <1>5. live' = live \ {proc_list[i]}
    BY <1>3, <1>4
  <1>6. nr_process' = nr_process - 1
    BY <1>1 DEF nr_process
  <1> QED BY <1>2, <1>5, <1>6 DEF PS!Free

\* get_pid, whatever it caches, is an allocator of ids that are not in use;
\* its own steps are invisible to the callers.
THEOREM PidAllocRefines == Spec => ImplementsPidSpec
  <1>1. Init => PS!Init
    BY DEF Init, PS!Init, live, nr_process
  <1>2. IInv /\ [Next]_vars => [PS!Next]_(PS!vars)
    <2> SUFFICES ASSUME IInv, [Next]_vars PROVE [PS!Next]_(PS!vars)
      OBVIOUS
    <2>1. CASE Enter \/ Collide \/ Shrink \/ ScanEnd \/ UNCHANGED vars
      BY <2>1 DEF Enter, Collide, Shrink, ScanEnd, vars, live, nr_process, PS!vars
    <2>2. CASE SetLinks
      BY <2>2, SetLinksAllocs DEF PS!Next
    <2>3. CASE \E i \in 1 .. Len(proc_list) : RemoveLinks(i)
      BY <2>3, RemoveLinksFrees DEF PS!Next
    <2> QED BY <2>1, <2>2, <2>3 DEF Next, GetPidStep
  <1> QED BY <1>1, <1>2, IInvHolds, PTL DEF Spec, ImplementsPidSpec, PS!Spec


-----------------------------------------------------------------------------
LEMMA Constants ==
  /\ HEAD \notin T!Proc /\ NULL \notin T!Proc
  /\ User \subseteq T!Proc /\ idleproc \in T!Proc /\ initproc \in T!Proc
  /\ idleproc \notin User /\ initproc \notin User /\ idleproc # initproc
BY TableAssumption DEF T!Proc

-----------------------------------------------------------------------------
\* The invariant.  Some row of all processes but idleproc is proc_list, and for
\* every process some row of its children is its list of children.
TableTypes ==
  /\ state \in [T!Proc -> {"FREE", "LIVE", "ZOMBIE"}]
  /\ state[idleproc] = "LIVE" /\ state[initproc] = "LIVE"
  /\ next \in [T!Node -> T!Node] /\ prev \in [T!Node -> T!Node]
  /\ parent \in [T!Proc -> T!Proc \cup {NULL}] /\ cptr \in [T!Proc -> T!Proc \cup {NULL}]
  /\ optr \in [T!Proc -> T!Proc \cup {NULL}] /\ yptr \in [T!Proc -> T!Proc \cup {NULL}]
  /\ exiter \in User \cup {NULL} /\ (exiter # NULL => state[exiter] = "ZOMBIE")

ListRow(s, n) ==
  /\ Row(T!Proc, s, n) /\ Members(s, n) = T!Alive \ {idleproc}
  /\ tnr = n + 1
  /\ Chain(next, prev, HEAD, s, n)

ChildRow(p, s, n) ==
  /\ Row(T!Proc, s, n) /\ Members(s, n) = {c \in T!Alive : parent[c] = p}
  /\ Older(cptr[p], optr, NULL, s, n)
  /\ p # exiter => Younger(yptr, NULL, s, n)

\* A process that has exited has no child left, and no set of processes is
\* closed under parents: the family is a tree below idleproc and initproc.
Kin ==
  /\ parent[idleproc] = NULL /\ parent[initproc] = idleproc
  /\ \A c \in User : state[c] # "FREE" => parent[c] \in User \cup {initproc}
  /\ \A p \in T!Proc : state[p] # "LIVE" /\ p # exiter => cptr[p] = NULL
  /\ \A S \in SUBSET {c \in User : state[c] # "FREE"} :
        S # {} => \E c \in S : parent[c] \notin S

Links == /\ \E n \in Nat : \E s : ListRow(s, n)
         /\ \A p \in T!Proc : \E n \in Nat : \E s : ChildRow(p, s, n)

\* The ids, with the window of get_pid.
Ids ==
  /\ pid \in [T!Proc -> Nat] /\ pid[idleproc] = 0
  /\ \A p \in T!Alive \ {idleproc} : pid[p] \in Pid /\ (pid[p] <= tlast \/ pid[p] >= tsafe)
  /\ tlast \in Pid /\ tsafe \in 1 .. MAX_PID
  /\ T!UniquePids

TableInv == TableTypes /\ Kin /\ Links /\ Ids

LEMMA NodeFacts ==
  /\ HEAD \in T!Node /\ initproc \in T!Node /\ User \subseteq T!Node /\ idleproc \notin T!Node
  /\ T!Node = (T!Proc \ {idleproc}) \cup {HEAD}
BY TableAssumption DEF T!Node, T!Proc

\* A list of children that a step does not touch.
LEMMA ChildRowKept ==
  ASSUME NEW q, NEW s, NEW n \in Nat, ChildRow(q, s, n),
         {c \in T!Alive' : parent'[c] = q} = {c \in T!Alive : parent[c] = q},
         cptr'[q] = cptr[q], \A x \in Members(s, n) : optr'[x] = optr[x],
         q # exiter' => q # exiter /\ \A x \in Members(s, n) : yptr'[x] = yptr[x]
  PROVE  ChildRow(q, s, n)'
<1>1. Row(T!Proc, s, n) /\ Members(s, n) = {c \in T!Alive' : parent'[c] = q}
  BY DEF ChildRow
<1>2. \A i \in 1 .. n : s[i] \in Members(s, n)
  BY DEF Members
<1>3. Older(cptr'[q], optr', NULL, s, n)
  BY <1>2 DEF ChildRow, Older
<1>4. q # exiter' => Younger(yptr', NULL, s, n)
  BY <1>2 DEF ChildRow, Younger
<1> QED BY <1>1, <1>3, <1>4 DEF ChildRow

\* set_links in do_fork.
LEMMA ForkLinks ==
  ASSUME NEW p, NEW c \in User, p \in User \cup {initproc}, TableTypes, Kin, Links,
         T!Fork(p, c)
  PROVE  Links'
<1>1. /\ state[p] = "LIVE" /\ state[c] = "FREE" /\ exiter = NULL /\ exiter' = NULL
      /\ tnr' = tnr + 1 /\ state' = [state EXCEPT ![c] = "LIVE"]
      /\ cptr' = [cptr EXCEPT ![p] = c] /\ T!ListAdd(c) /\ T!PushChild(p, c)
  BY DEF T!Fork
<1>2. p \in T!Proc /\ c \in T!Proc /\ p # c /\ p # idleproc /\ c # idleproc /\ c # HEAD
  BY <1>1, Constants
<1>3. T!Alive' = T!Alive \cup {c} /\ c \notin T!Alive /\ T!Alive \subseteq T!Proc
  <2>1. state'[c] = "LIVE" /\ \A q \in T!Proc : q # c => state'[q] = state[q]
    BY <1>1, <1>2 DEF TableTypes
  <2> QED BY <1>1, <1>2, <2>1 DEF T!Alive
<1>4. \E n \in Nat : \E s : ListRow(s, n)'
  <2>1n. PICK n \in Nat : \E s : ListRow(s, n)
    BY DEF Links
  <2>1. PICK s : ListRow(s, n)
    BY <2>1n
  <2>m. Members(s, n) = T!Alive \ {idleproc}
    BY <2>1 DEF ListRow
  <2>2. Row(T!Proc, s, n) /\ tnr = n + 1 /\ n \in Nat /\ Chain(next, prev, HEAD, s, n)
    BY <2>1 DEF ListRow, Row
  <2>3. c \notin Members(s, n) /\ Members(s, n) \subseteq T!Node \ {HEAD}
    BY <1>3, <2>m, NodeFacts, Constants
  <2>4. /\ next'[HEAD] = c /\ next'[c] = next[HEAD]
        /\ \A x \in Members(s, n) : next'[x] = next[x]
    BY <1>1, <1>2, <2>3, NodeFacts DEF T!ListAdd, TableTypes
  <2>5. next[HEAD] = At(s, n, 1, HEAD)
    <3>1. 0 \in 0 .. n /\ 0 + 1 = 1
      BY <2>2
    <3>2. next[At(s, n, 0, HEAD)] = At(s, n, 0 + 1, HEAD) /\ At(s, n, 0, HEAD) = HEAD
      BY <2>2, <3>1 DEF Chain, At
    <3> QED BY <3>1, <3>2
  <2>6. next[HEAD] \in Members(s, n) \cup {HEAD}
    BY <2>5 DEF At, Members
  <2>7. next[HEAD] # c /\ next[HEAD] \in T!Node
    BY <1>2, <2>3, <2>6, NodeFacts
  <2>8. /\ prev'[c] = HEAD /\ prev'[next[HEAD]] = c
        /\ \A x \in Members(s, n) \cup {HEAD} : x # next[HEAD] => prev'[x] = prev[x]
    BY <1>1, <1>2, <2>3, <2>7, NodeFacts DEF T!ListAdd, TableTypes
  <2>9. Chain(next', prev', HEAD, Pushed(c, s, n), n + 1)
    BY <1>2, <2>2, <2>3, <2>4, <2>8, ChainFront, Constants
  <2>10. /\ Row(T!Proc, Pushed(c, s, n), n + 1)
         /\ Members(Pushed(c, s, n), n + 1) = Members(s, n) \cup {c}
    BY <1>2, <2>2, <2>3, RowFront
  <2>11. ListRow(Pushed(c, s, n), n + 1)'
    BY <1>1, <1>2, <1>3, <2>m, <2>2, <2>9, <2>10 DEF ListRow
  <2> QED BY <2>11
<1>5. /\ parent'[c] = p /\ \A q \in T!Proc : q # c => parent'[q] = parent[q]
      /\ cptr'[p] = c /\ \A q \in T!Proc : q # p => cptr'[q] = cptr[q]
      /\ optr'[c] = cptr[p] /\ \A q \in T!Proc : q # c => optr'[q] = optr[q]
      /\ \A q \in T!Proc : yptr'[q] = IF q = cptr[p] THEN c ELSE IF q = c THEN NULL ELSE yptr[q]
  BY <1>1, <1>2 DEF T!PushChild, TableTypes
<1>6. ASSUME NEW q \in T!Proc PROVE \E n \in Nat : \E s : ChildRow(q, s, n)'
  <2>1n. PICK n \in Nat : \E s : ChildRow(q, s, n)
    BY DEF Links
  <2>1. PICK s : ChildRow(q, s, n)
    BY <2>1n
  <2>m. Members(s, n) = {x \in T!Alive : parent[x] = q}
    BY <2>1 DEF ChildRow
  <2>2. /\ Row(T!Proc, s, n)
        /\ Older(cptr[q], optr, NULL, s, n) /\ Younger(yptr, NULL, s, n)
    <3>1. q # exiter
      BY <1>1, Constants
    <3> QED BY <2>1, <3>1 DEF ChildRow
  <2>3. c \notin Members(s, n) /\ Members(s, n) \subseteq T!Proc
    BY <1>3, <2>m
  <2>4. {x \in T!Alive' : parent'[x] = q}
          = IF q = p THEN Members(s, n) \cup {c} ELSE Members(s, n)
    BY <1>2, <1>3, <1>5, <2>m
  <2>5. CASE q = p
    <3>1. cptr[p] # c
      <4>1. cptr[p] = At(s, n, 1, NULL)
        BY <2>2, <2>5 DEF Older
      <4>2. cptr[p] \in Members(s, n) \cup {NULL}
        BY <4>1 DEF At, Members
      <4> QED BY <1>2, <2>3, <4>2, Constants
    <3>2. /\ optr'[c] = cptr[p] /\ \A x \in Members(s, n) : optr'[x] = optr[x]
          /\ yptr'[c] = NULL
          /\ \A x \in Members(s, n) : x = cptr[p] => yptr'[x] = c
          /\ \A x \in Members(s, n) : x # cptr[p] => yptr'[x] = yptr[x]
      BY <1>2, <1>5, <2>3, <3>1
    <3>3. Older(c, optr', NULL, Pushed(c, s, n), n + 1) /\ Younger(yptr', NULL, Pushed(c, s, n), n + 1)
      <4>1. Older(cptr[p], optr, NULL, s, n) /\ Younger(yptr, NULL, s, n)
        BY <2>2, <2>5
      <4>2. PutFirst(T!Proc, NULL, s, cptr[p], optr, yptr, optr', yptr', c, n)
        BY <1>2, <2>2, <2>3, <3>2, <4>1, Constants DEF PutFirst
      <4> QED BY ONLY <4>1, <4>2, n \in Nat, SiblingsFront
    <3>4. /\ Row(T!Proc, Pushed(c, s, n), n + 1)
          /\ Members(Pushed(c, s, n), n + 1) = Members(s, n) \cup {c}
      BY <1>2, <2>2, <2>3, RowFront
    <3>5. cptr'[q] = c
      BY <1>1, <1>5, <2>5, Constants
    <3>6. ChildRow(q, Pushed(c, s, n), n + 1)'
      BY <2>4, <2>5, <3>3, <3>4, <3>5 DEF ChildRow
    <3> QED BY <3>6
  <2>6. CASE q # p
    <3>1. cptr[p] \notin Members(s, n)
      <4>1m. PICK m \in Nat : \E t : ChildRow(p, t, m)
        BY <1>2 DEF Links
      <4>1. PICK t : ChildRow(p, t, m)
        BY <4>1m
      <4>2. cptr[p] = At(t, m, 1, NULL) /\ Members(t, m) = {x \in T!Alive : parent[x] = p}
        BY <4>1 DEF ChildRow, Older
      <4>3. cptr[p] \in Members(t, m) \cup {NULL}
        BY <4>2 DEF At, Members
      <4> QED BY <2>m, <2>3, <2>6, <4>2, <4>3, Constants
    <3>2. \A x \in Members(s, n) : optr'[x] = optr[x] /\ yptr'[x] = yptr[x]
      BY <1>5, <2>3, <3>1
    <3>3. ChildRow(q, s, n)'
      BY <1>1, <1>5, <2>1, <2>m, <2>4, <2>6, <3>2, ChildRowKept
    <3> QED BY <3>3
  <2> QED BY <2>5, <2>6
<1> QED BY <1>4, <1>6 DEF Links

\* proc_list when a step does not touch it.
LEMMA ListRowKept ==
  ASSUME Links, T!Alive' = T!Alive, UNCHANGED <<tnr, next, prev>>
  PROVE  \E n \in Nat : \E s : ListRow(s, n)'
<1>1n. PICK n \in Nat : \E s : ListRow(s, n)
  BY DEF Links
<1>1. PICK s : ListRow(s, n)
  BY <1>1n
<1>2. ListRow(s, n)'
  BY <1>1 DEF ListRow
<1> QED BY <1>2

\* do_exit before its loop, and after it.
LEMMA ExitLinks ==
  ASSUME NEW p \in User, TableTypes, Links, T!Exit(p)
  PROVE  Links'
<1>1. /\ state[p] = "LIVE" /\ exiter = NULL /\ exiter' = p
      /\ state' = [state EXCEPT ![p] = "ZOMBIE"]
      /\ UNCHANGED <<tnr, next, prev, parent, cptr, optr, yptr>>
  BY DEF T!Exit, T!family
<1>2. T!Alive' = T!Alive
  BY <1>1, Constants DEF T!Alive, TableTypes
<1>3. ASSUME NEW q \in T!Proc PROVE \E n \in Nat : \E s : ChildRow(q, s, n)'
  <2>1n. PICK n \in Nat : \E s : ChildRow(q, s, n)
    BY DEF Links
  <2>1. PICK s : ChildRow(q, s, n)
    BY <2>1n
  <2>2. ChildRow(q, s, n)'
    BY <1>1, <1>2, <2>1, ChildRowKept, Constants
  <2> QED BY <2>2
<1> QED BY <1>1, <1>2, <1>3, ListRowKept DEF Links

\* The first child of a process, and its other children.
LEMMA FirstChild ==
  ASSUME NEW p, NEW s, NEW n \in Nat, ChildRow(p, s, n)
  PROVE  /\ n \in Nat /\ (n = 0 <=> cptr[p] = NULL)
         /\ n > 0 => 1 \in 1 .. n /\ cptr[p] = s[1] /\ cptr[p] \in Members(s, n)
         /\ Members(s, n) \subseteq T!Proc
<1>1. n \in Nat /\ cptr[p] = At(s, n, 1, NULL) /\ Row(T!Proc, s, n)
  BY DEF ChildRow, Older, Row
<1>2. \A i \in 1 .. n : At(s, n, i, NULL) = s[i] /\ s[i] # NULL /\ s[i] \in T!Proc
  BY <1>1, RowAt, Constants
<1>3. n = 0 => cptr[p] = NULL
  BY <1>1 DEF At
<1>4. n > 0 => 1 \in 1 .. n
  BY <1>1
<1>5. n > 0 => cptr[p] = s[1] /\ s[1] # NULL /\ s[1] \in Members(s, n)
  BY <1>1, <1>2, <1>4 DEF Members
<1>6. Members(s, n) \subseteq T!Proc
  BY <1>2 DEF Members
<1> QED BY <1>1, <1>3, <1>4, <1>5, <1>6

LEMMA ExitDoneLinks ==
  ASSUME TableTypes, Links, T!ExitDone
  PROVE  Links'
<1>1. /\ exiter \in User /\ cptr[exiter] = NULL /\ exiter' = NULL
      /\ UNCHANGED <<state, tnr, next, prev, parent, cptr, optr, yptr>>
  BY DEF T!ExitDone, T!family, TableTypes
<1>2. T!Alive' = T!Alive
  BY <1>1 DEF T!Alive
<1>3. ASSUME NEW q \in T!Proc PROVE \E n \in Nat : \E s : ChildRow(q, s, n)'
  <2>1n. PICK n \in Nat : \E s : ChildRow(q, s, n)
    BY DEF Links
  <2>1. PICK s : ChildRow(q, s, n)
    BY <2>1n
  <2>2. CASE q # exiter
    <3>1. ChildRow(q, s, n)'
      BY <1>1, <1>2, <2>1, <2>2, ChildRowKept
    <3> QED BY <3>1
  <2>3. CASE q = exiter
    <3>1. n = 0
      BY <1>1, <2>1, <2>3, FirstChild
    <3>3. Younger(yptr', NULL, s, n)
      BY <3>1 DEF Younger
    <3>4. ChildRow(q, s, n)'
      BY <1>1, <1>2, <2>1, <3>3 DEF ChildRow
    <3> QED BY <3>4
  <2> QED BY <2>2, <2>3
<1> QED BY <1>1, <1>2, <1>3, ListRowKept DEF Links

\* An iteration of the loop of do_exit: the first child goes to initproc.
LEMMA ExitAdoptLinks ==
  ASSUME TableTypes, Kin, Links, T!ExitAdopt
  PROVE  Links'
<1>0. PICK e, c : e = exiter /\ c = cptr[exiter]
  OBVIOUS
<1>1. /\ e \in User /\ e \in T!Proc /\ c # NULL /\ T!PushChild(initproc, c) /\ exiter' = e
      /\ cptr' = [cptr EXCEPT ![e] = optr[c], ![initproc] = c]
      /\ UNCHANGED <<state, tnr, next, prev>> /\ e # initproc /\ initproc \in T!Proc
  BY <1>0, Constants DEF T!ExitAdopt, TableTypes
<1>2. T!Alive' = T!Alive
  BY <1>1 DEF T!Alive
<1>3n. PICK n \in Nat : \E s : ChildRow(e, s, n)
  BY <1>1 DEF Links
<1>3. PICK s : ChildRow(e, s, n)
  BY <1>3n
<1>4m. PICK m \in Nat : \E t : ChildRow(initproc, t, m)
  BY <1>1 DEF Links
<1>4. PICK t : ChildRow(initproc, t, m)
  BY <1>4m
<1>s. Members(s, n) = {x \in T!Alive : parent[x] = e}
  BY <1>3 DEF ChildRow
<1>t. Members(t, m) = {x \in T!Alive : parent[x] = initproc}
  BY <1>4 DEF ChildRow
<1>5. Row(T!Proc, s, n) /\ Older(c, optr, NULL, s, n)
  BY <1>0, <1>3 DEF ChildRow
<1>6. /\ Row(T!Proc, t, m)
      /\ Older(cptr[initproc], optr, NULL, t, m) /\ Younger(yptr, NULL, t, m)
  BY <1>0, <1>1, <1>4 DEF ChildRow
<1>7. n \in Nat /\ n > 0 /\ 1 \in 1 .. n /\ c = s[1] /\ c \in Members(s, n) /\ c \in T!Proc
  BY <1>0, <1>1, <1>3, FirstChild
<1>8. c \in T!Alive /\ parent[c] = e /\ c \notin Members(t, m)
  BY <1>1, <1>s, <1>t, <1>7
<1>9. cptr[initproc] \in Members(t, m) \cup {NULL}
  BY <1>4, FirstChild
<1>10. cptr[initproc] # c
  BY <1>7, <1>8, <1>9, Constants
<1>11. /\ parent'[c] = initproc /\ \A q \in T!Proc : q # c => parent'[q] = parent[q]
       /\ cptr'[e] = optr[c] /\ cptr'[initproc] = c
       /\ \A q \in T!Proc : q # e /\ q # initproc => cptr'[q] = cptr[q]
       /\ optr'[c] = cptr[initproc] /\ \A q \in T!Proc : q # c => optr'[q] = optr[q]
  BY <1>1, <1>7 DEF T!PushChild, TableTypes
<1>12. /\ yptr'[c] = NULL
       /\ \A q \in T!Proc : q = cptr[initproc] => yptr'[q] = c
       /\ \A q \in T!Proc : q # cptr[initproc] /\ q # c => yptr'[q] = yptr[q]
  BY <1>1, <1>7, <1>10 DEF T!PushChild
<1>13. ASSUME NEW q \in T!Proc PROVE \E n1 \in Nat : \E s1 : ChildRow(q, s1, n1)'
  <2>1. CASE q = e
    <3>1. Older(optr[c], optr', NULL, Without(s, n, 1), n - 1)
      <4>1. \A x \in Members(s, n) : x # c => optr'[x] = optr[x]
        BY <1>0, <1>3, <1>11, FirstChild
      <4> QED BY <1>5, <1>7, <4>1, SiblingsTail, Constants
    <3>2. Row(T!Proc, Without(s, n, 1), n - 1) /\ Members(Without(s, n, 1), n - 1) = Members(s, n) \ {c}
      BY <1>5, <1>7, RowWithout
    <3>3. {x \in T!Alive' : parent'[x] = e} = Members(s, n) \ {c}
      BY <1>1, <1>2, <1>s, <1>8, <1>11 DEF T!Alive
    <3>4. ChildRow(q, Without(s, n, 1), n - 1)'
      BY <1>1, <1>11, <2>1, <3>1, <3>2, <3>3 DEF ChildRow
    <3> QED BY <1>7, <3>4
  <2>2. CASE q = initproc
    <3>1. Members(t, m) \subseteq T!Proc
      BY <1>4, FirstChild
    <3>2. \A x \in Members(t, m) : optr'[x] = optr[x]
      BY <1>8, <1>11, <3>1
    <3>3. \A x \in Members(t, m) : x = cptr[initproc] => yptr'[x] = c
      BY <1>12, <3>1
    <3>4. \A x \in Members(t, m) : x # cptr[initproc] => yptr'[x] = yptr[x]
      BY <1>8, <1>12, <3>1
    <3>5. Older(c, optr', NULL, Pushed(c, t, m), m + 1) /\ Younger(yptr', NULL, Pushed(c, t, m), m + 1)
      <4>1. c \in T!Proc /\ NULL \notin T!Proc /\ c \notin Members(t, m) /\ m \in Nat
        BY <1>7, <1>8, Constants
      <4>2. optr'[c] = cptr[initproc] /\ yptr'[c] = NULL
        BY <1>11, <1>12
      <4>3. PutFirst(T!Proc, NULL, t, cptr[initproc], optr, yptr, optr', yptr', c, m)
        BY ONLY <1>6, <3>2, <3>3, <3>4, <4>1, <4>2 DEF PutFirst
      <4> QED BY ONLY <1>6, <4>1, <4>3, SiblingsFront
    <3>6. Row(T!Proc, Pushed(c, t, m), m + 1) /\ Members(Pushed(c, t, m), m + 1) = Members(t, m) \cup {c}
      <4>1. c \in T!Proc /\ c \notin Members(t, m) /\ m \in Nat
        BY <1>7, <1>8
      <4> QED BY ONLY <1>6, <4>1, RowFront
    <3>7. {x \in T!Alive' : parent'[x] = initproc} = Members(t, m) \cup {c}
      BY <1>1, <1>2, <1>t, <1>8, <1>11 DEF T!Alive
    <3>8. ChildRow(q, Pushed(c, t, m), m + 1)'
      BY <1>11, <2>2, <3>5, <3>6, <3>7 DEF ChildRow
    <3> QED BY <3>8
  <2>3. CASE q # e /\ q # initproc
    <3>1n. PICK k \in Nat : \E r : ChildRow(q, r, k)
      BY DEF Links
    <3>1. PICK r : ChildRow(q, r, k)
      BY <3>1n
    <3>2. Members(r, k) = {x \in T!Alive : parent[x] = q} /\ Members(r, k) \subseteq T!Proc
      BY <3>1, FirstChild DEF ChildRow
    <3>3. {x \in T!Alive' : parent'[x] = q} = {x \in T!Alive : parent[x] = q}
      BY <1>2, <1>8, <1>11, <2>3 DEF T!Alive
    <3>4. \A x \in Members(r, k) : x # c /\ x # cptr[initproc]
      BY <1>t, <1>8, <1>9, <2>3, <3>2, Constants
    <3>5. \A x \in Members(r, k) : optr'[x] = optr[x] /\ yptr'[x] = yptr[x]
      BY <1>11, <1>12, <3>2, <3>4
    <3>6. cptr'[q] = cptr[q] /\ q # exiter
      BY <1>0, <1>11, <2>3
    <3>7. ChildRow(q, r, k)'
      BY <3>1, <3>3, <3>5, <3>6, ChildRowKept
    <3> QED BY <3>7
  <2> QED BY <2>1, <2>2, <2>3
<1> QED BY <1>1, <1>2, <1>13, ListRowKept DEF Links

\* remove_links in do_wait.
LEMMA ReapLinks ==
  ASSUME NEW p, NEW c \in User, p \in User \cup {initproc}, TableTypes, Links, T!Reap(p, c)
  PROVE  Links'
<1>1. /\ state[p] = "LIVE" /\ state[c] = "ZOMBIE" /\ parent[c] = p
      /\ exiter = NULL /\ exiter' = NULL /\ parent' = parent /\ tnr' = tnr - 1
      /\ state' = [state EXCEPT ![c] = "FREE"] /\ T!ListDel(c) /\ T!UnlinkChild(c)
  BY DEF T!Reap
<1>2. p \in T!Proc /\ c \in T!Proc /\ c # idleproc /\ c # HEAD
  BY Constants
<1>3. T!Alive' = T!Alive \ {c} /\ c \in T!Alive /\ T!Alive \subseteq T!Proc
  <2>1. state'[c] = "FREE" /\ \A q \in T!Proc : q # c => state'[q] = state[q]
    BY <1>1, <1>2 DEF TableTypes
  <2> QED BY <1>1, <1>2, <2>1 DEF T!Alive
<1>4. \E n \in Nat : \E s : ListRow(s, n)'
  <2>1n. PICK n \in Nat : \E s : ListRow(s, n)
    BY DEF Links
  <2>1. PICK s : ListRow(s, n)
    BY <2>1n
  <2>m. Members(s, n) = T!Alive \ {idleproc}
    BY <2>1 DEF ListRow
  <2>2. Row(T!Proc, s, n) /\ tnr = n + 1 /\ n \in Nat /\ Chain(next, prev, HEAD, s, n)
    BY <2>1 DEF ListRow, Row
  <2>3. PICK j \in 1 .. n : s[j] = c
    BY <1>2, <1>3, <2>m DEF Members
  <2>4. Members(s, n) \cup {HEAD} \subseteq T!Node /\ c \in T!Node
    BY <1>3, <2>m, NodeFacts
  <2>5. prev[c] \in T!Node /\ next[c] \in T!Node
    BY <2>4 DEF TableTypes
  <2>6. /\ next'[prev[c]] = next[c] /\ \A x \in T!Node : x # prev[c] => next'[x] = next[x]
        /\ prev'[next[c]] = prev[c] /\ \A x \in T!Node : x # next[c] => prev'[x] = prev[x]
    BY <1>1, <2>5 DEF T!ListDel, TableTypes
  <2>7. /\ \A x \in Members(s, n) \cup {HEAD} : x # prev[s[j]] => next'[x] = next[x]
        /\ \A x \in Members(s, n) \cup {HEAD} : x # next[s[j]] => prev'[x] = prev[x]
        /\ next'[prev[s[j]]] = next[s[j]] /\ prev'[next[s[j]]] = prev[s[j]]
    BY <2>3, <2>4, <2>6
  <2>8. Chain(next', prev', HEAD, Without(s, n, j), n - 1)
    BY <2>2, <2>7, ChainWithout, Constants
  <2>9. /\ Row(T!Proc, Without(s, n, j), n - 1)
        /\ Members(Without(s, n, j), n - 1) = Members(s, n) \ {c}
    BY <2>2, <2>3, RowWithout
  <2>10. ListRow(Without(s, n, j), n - 1)'
    <3>1. Members(Without(s, n, j), n - 1) = T!Alive' \ {idleproc}
      BY <1>3, <2>m, <2>9
    <3>2. tnr' = (n - 1) + 1
      BY <1>1, <2>2
    <3> QED BY <2>8, <2>9, <3>1, <3>2 DEF ListRow
  <2> QED BY <2>10
<1>5. optr[c] \in T!Proc \cup {NULL} /\ yptr[c] \in T!Proc \cup {NULL}
  BY <1>2 DEF TableTypes
<1>6. /\ \A x \in T!Proc : x = optr[c] => yptr'[x] = yptr[c]
      /\ \A x \in T!Proc : x # optr[c] => yptr'[x] = yptr[x]
  BY <1>1, <1>5, Constants DEF T!UnlinkChild, TableTypes
<1>7. /\ \A x \in T!Proc : x = yptr[c] => optr'[x] = optr[c]
      /\ \A x \in T!Proc : x # yptr[c] => optr'[x] = optr[x]
  BY <1>1, <1>5, Constants DEF T!UnlinkChild, TableTypes
<1>8. /\ yptr[c] = NULL => cptr'[p] = optr[c]
      /\ yptr[c] # NULL => cptr'[p] = cptr[p]
      /\ \A q \in T!Proc : q # p => cptr'[q] = cptr[q]
  BY <1>1, <1>2 DEF T!UnlinkChild, TableTypes
<1>9. \A q \in T!Proc : q # exiter /\ q # exiter'
  BY <1>1, Constants
<1>10m. PICK m \in Nat : \E t : ChildRow(p, t, m)
  BY <1>2 DEF Links
<1>10. PICK t : ChildRow(p, t, m)
  BY <1>10m
<1>t. Members(t, m) = {x \in T!Alive : parent[x] = p}
  BY <1>10 DEF ChildRow
<1>11. /\ Row(T!Proc, t, m) /\ m \in Nat
       /\ Older(cptr[p], optr, NULL, t, m) /\ Younger(yptr, NULL, t, m)
  BY <1>2, <1>9, <1>10 DEF ChildRow, Row
<1>12. PICK j \in 1 .. m : t[j] = c
  BY <1>1, <1>3, <1>t DEF Members
<1>13. optr[c] \in Members(t, m) \cup {NULL} /\ yptr[c] \in Members(t, m) \cup {NULL}
  <2>1. optr[c] = At(t, m, j + 1, NULL) /\ yptr[c] = At(t, m, j - 1, NULL)
    BY <1>11, <1>12 DEF Older, Younger
  <2> QED BY <2>1 DEF At, Members
<1>14. ASSUME NEW q \in T!Proc PROVE \E n \in Nat : \E s : ChildRow(q, s, n)'
  <2>1. CASE q = p
    <3>1. Members(t, m) \subseteq T!Proc
      BY <1>3, <1>t
    <3>2. /\ \A x \in Members(t, m) : x = optr[t[j]] => yptr'[x] = yptr[t[j]]
          /\ \A x \in Members(t, m) : x # optr[t[j]] => yptr'[x] = yptr[x]
      BY <1>6, <1>12, <3>1
    <3>3. /\ \A x \in Members(t, m) : x = yptr[t[j]] => optr'[x] = optr[t[j]]
          /\ \A x \in Members(t, m) : x # yptr[t[j]] => optr'[x] = optr[x]
      BY <1>7, <1>12, <3>1
    <3>4. /\ yptr[t[j]] = NULL => cptr'[p] = optr[t[j]]
          /\ yptr[t[j]] # NULL => cptr'[p] = cptr[p]
      BY <1>8, <1>12
    <3>5. Older(cptr'[p], optr', NULL, Without(t, m, j), m - 1) /\ Younger(yptr', NULL, Without(t, m, j), m - 1)
      <4>1. NULL \notin T!Proc /\ j \in 1 .. m
        BY <1>12, Constants
      <4>2. TakeOut(T!Proc, NULL, t, cptr[p], optr, yptr, cptr'[p], optr', yptr', j, m)
        BY ONLY <1>11, <3>2, <3>3, <3>4, <4>1 DEF TakeOut
      <4> QED BY ONLY <1>11, <4>2, SiblingsWithout
    <3>6. /\ Row(T!Proc, Without(t, m, j), m - 1)
          /\ Members(Without(t, m, j), m - 1) = Members(t, m) \ {c}
      <4>1. j \in 1 .. m /\ t[j] = c
        BY <1>12
      <4> QED BY ONLY <1>11, <4>1, RowWithout
    <3>7. {x \in T!Alive' : parent'[x] = p} = Members(t, m) \ {c}
      BY <1>1, <1>3, <1>t
    <3>8. ChildRow(q, Without(t, m, j), m - 1)'
      BY <2>1, <3>5, <3>6, <3>7 DEF ChildRow
    <3> QED BY <3>8
  <2>2. CASE q # p
    <3>1n. PICK n \in Nat : \E s : ChildRow(q, s, n)
      BY DEF Links
    <3>1. PICK s : ChildRow(q, s, n)
      BY <3>1n
    <3>2. Members(s, n) = {x \in T!Alive : parent[x] = q}
      BY <3>1 DEF ChildRow
    <3>3. Members(s, n) \subseteq T!Proc /\ \A x \in Members(s, n) : x # optr[c] /\ x # yptr[c]
      <4>1. Members(s, n) \subseteq T!Proc
        BY <1>3, <3>2
      <4>2. \A x \in Members(s, n) : x \notin Members(t, m)
        BY <1>t, <2>2, <3>2
      <4> QED BY <1>13, <4>1, <4>2, Constants
    <3>4. \A x \in Members(s, n) : optr'[x] = optr[x] /\ yptr'[x] = yptr[x]
      BY <1>6, <1>7, <3>3
    <3>5. {x \in T!Alive' : parent'[x] = q} = {x \in T!Alive : parent[x] = q}
      BY <1>1, <1>3, <2>2
    <3>6. ChildRow(q, s, n)'
      BY <1>8, <1>9, <2>2, <3>1, <3>4, <3>5, ChildRowKept
    <3> QED BY <3>6
  <2> QED BY <2>1, <2>2
<1> QED BY <1>4, <1>14 DEF Links
\* What a step leaves of the types and of the tree of processes.
LEMMA ForkKin ==
  ASSUME NEW p, NEW c \in User, p \in User \cup {initproc}, TableTypes, Kin, Links,
         T!Fork(p, c)
  PROVE  TableTypes' /\ Kin'
<1>1. /\ state[p] = "LIVE" /\ state[c] = "FREE" /\ exiter = NULL /\ exiter' = NULL
      /\ state' = [state EXCEPT ![c] = "LIVE"]
      /\ cptr' = [cptr EXCEPT ![p] = c] /\ T!ListAdd(c) /\ T!PushChild(p, c)
  BY DEF T!Fork
<1>2. /\ p \in T!Proc /\ c \in T!Proc /\ p # c /\ p # idleproc /\ c # idleproc /\ c # initproc
      /\ p \in T!Node /\ c \in T!Node /\ HEAD \in T!Node
  BY <1>1, Constants, NodeFacts
<1>3. state'[c] = "LIVE" /\ \A q \in T!Proc : q # c => state'[q] = state[q]
  BY <1>1, <1>2 DEF TableTypes
<1>4. state' \in [T!Proc -> {"FREE", "LIVE", "ZOMBIE"}]
  BY <1>1, <1>2 DEF TableTypes
<1>5. next' \in [T!Node -> T!Node] /\ prev' \in [T!Node -> T!Node]
  BY <1>1, <1>2 DEF T!ListAdd, TableTypes
<1>6. /\ parent' \in [T!Proc -> T!Proc \cup {NULL}] /\ cptr' \in [T!Proc -> T!Proc \cup {NULL}]
      /\ optr' \in [T!Proc -> T!Proc \cup {NULL}] /\ yptr' \in [T!Proc -> T!Proc \cup {NULL}]
  BY <1>1, <1>2 DEF T!PushChild, TableTypes
<1>7. TableTypes'
  BY <1>1, <1>2, <1>3, <1>4, <1>5, <1>6, Constants DEF TableTypes
<1>8. /\ parent'[c] = p /\ \A q \in T!Proc : q # c => parent'[q] = parent[q]
      /\ cptr'[p] = c /\ \A q \in T!Proc : q # p => cptr'[q] = cptr[q]
  BY <1>1, <1>2 DEF T!PushChild, TableTypes
<1>9. \A d \in User : state[d] # "FREE" => parent[d] # c
  <2>1n. PICK n \in Nat : \E s : ChildRow(c, s, n)
    BY <1>2 DEF Links
  <2>1. PICK s : ChildRow(c, s, n)
    BY <2>1n
  <2>2. cptr[c] = NULL
    BY <1>1, <1>2, Constants DEF Kin
  <2>3. Members(s, n) = {}
    BY <2>1, <2>2, FirstChild DEF Members
  <2> QED BY <2>1, <2>3, Constants DEF ChildRow, T!Alive
<1>10. \A q \in T!Proc : state'[q] # "LIVE" /\ q # exiter' => cptr'[q] = NULL
  BY <1>1, <1>3, <1>8 DEF Kin
<1>11. ASSUME NEW S \in SUBSET {d \in User : state'[d] # "FREE"}, S # {}
       PROVE  \E d \in S : parent'[d] \notin S
  <2>1. CASE S \ {c} = {}
    BY <1>2, <1>8, <1>11, <2>1
  <2>2. CASE S \ {c} # {}
    <3>1. S \ {c} \in SUBSET {d \in User : state[d] # "FREE"}
      BY <1>3, Constants
    <3>2. PICK d \in S \ {c} : parent[d] \notin S \ {c}
      BY <2>2, <3>1 DEF Kin
    <3> QED BY <1>8, <1>9, <3>1, <3>2, Constants
  <2> QED BY <2>1, <2>2
<1>12. /\ parent'[idleproc] = NULL /\ parent'[initproc] = idleproc
       /\ \A d \in User : state'[d] # "FREE" => parent'[d] \in User \cup {initproc}
  BY <1>2, <1>3, <1>8, Constants DEF Kin
<1> QED BY <1>7, <1>10, <1>11, <1>12 DEF Kin

LEMMA ExitKin ==
  ASSUME NEW p \in User, TableTypes, Kin, T!Exit(p)
  PROVE  TableTypes' /\ Kin'
<1>1. /\ state[p] = "LIVE" /\ exiter = NULL /\ exiter' = p
      /\ state' = [state EXCEPT ![p] = "ZOMBIE"]
      /\ UNCHANGED <<next, prev, parent, cptr, optr, yptr>>
  BY DEF T!Exit, T!family
<1>2. /\ p \in T!Proc /\ p # idleproc /\ p # initproc
      /\ state'[p] = "ZOMBIE" /\ \A q \in T!Proc : q # p => state'[q] = state[q]
  BY <1>1, Constants DEF TableTypes
<1>3. TableTypes'
  BY <1>1, <1>2, Constants DEF TableTypes
<1>4. \A d \in User : state'[d] # "FREE" <=> state[d] # "FREE"
  BY <1>1, <1>2, Constants
<1>5. \A q \in T!Proc : state'[q] # "LIVE" /\ q # exiter' => cptr'[q] = NULL
  BY <1>1, <1>2, Constants DEF Kin
<1>6. {d \in User : state'[d] # "FREE"} = {d \in User : state[d] # "FREE"}
  BY <1>4
<1> QED BY <1>1, <1>3, <1>4, <1>5, <1>6 DEF Kin

LEMMA ExitAdoptKin ==
  ASSUME TableTypes, Kin, Links, T!ExitAdopt
  PROVE  TableTypes' /\ Kin'
<1>0. PICK e, c : e = exiter /\ c = cptr[exiter]
  OBVIOUS
<1>1. /\ e \in User /\ e \in T!Proc /\ c # NULL /\ T!PushChild(initproc, c) /\ exiter' = e
      /\ cptr' = [cptr EXCEPT ![e] = optr[c], ![initproc] = c]
      /\ UNCHANGED <<state, next, prev>> /\ e # initproc /\ initproc \in T!Proc
  BY <1>0, Constants DEF T!ExitAdopt, TableTypes
<1>2. c \in T!Alive /\ parent[c] = e /\ c \in T!Proc
  <2>1n. PICK n \in Nat : \E s : ChildRow(e, s, n)
    BY <1>1 DEF Links
  <2>1. PICK s : ChildRow(e, s, n)
    BY <2>1n
  <2>2. c \in Members(s, n)
    BY <1>0, <1>1, <2>1, FirstChild
  <2> QED BY <2>1, <2>2 DEF ChildRow, T!Alive
<1>3. c \in User
  BY <1>1, <1>2, Constants DEF Kin, T!Proc
<1>4. /\ parent' \in [T!Proc -> T!Proc \cup {NULL}] /\ cptr' \in [T!Proc -> T!Proc \cup {NULL}]
      /\ optr' \in [T!Proc -> T!Proc \cup {NULL}] /\ yptr' \in [T!Proc -> T!Proc \cup {NULL}]
  BY <1>1, <1>2 DEF T!PushChild, TableTypes
<1>5. TableTypes'
  BY <1>0, <1>1, <1>4 DEF TableTypes
<1>6. /\ parent'[c] = initproc /\ \A q \in T!Proc : q # c => parent'[q] = parent[q]
      /\ \A q \in T!Proc : q # e /\ q # initproc => cptr'[q] = cptr[q]
  BY <1>1, <1>2 DEF T!PushChild, TableTypes
<1>7. ASSUME NEW q \in T!Proc, state'[q] # "LIVE", q # exiter' PROVE cptr'[q] = NULL
  <2>1. state[q] # "LIVE" /\ q # e /\ q # exiter /\ q # initproc
    BY <1>0, <1>1, <1>7 DEF TableTypes
  <2>2. cptr[q] = NULL
    BY <2>1 DEF Kin
  <2> QED BY <1>6, <2>1, <2>2
<1>8. /\ parent'[idleproc] = NULL /\ parent'[initproc] = idleproc
      /\ \A d \in User : state'[d] # "FREE" => parent'[d] \in User \cup {initproc}
  BY <1>1, <1>3, <1>6, Constants DEF Kin
<1>9. ASSUME NEW S \in SUBSET {d \in User : state'[d] # "FREE"}, S # {}
      PROVE  \E d \in S : parent'[d] \notin S
  <2>1. CASE c \in S
    BY <1>6, <2>1, Constants
  <2>2. CASE c \notin S
    <3>1. PICK d \in S : parent[d] \notin S
      BY <1>1, <1>9 DEF Kin
    <3> QED BY <1>6, <2>2, <3>1, Constants
  <2> QED BY <2>1, <2>2
<1> QED BY <1>5, <1>7, <1>8, <1>9 DEF Kin

LEMMA ExitDoneKin ==
  ASSUME TableTypes, Kin, T!ExitDone
  PROVE  TableTypes' /\ Kin'
<1>1. /\ cptr[exiter] = NULL /\ exiter' = NULL
      /\ UNCHANGED <<state, next, prev, parent, cptr, optr, yptr>>
  BY DEF T!ExitDone, T!family
<1>2. TableTypes'
  BY <1>1 DEF TableTypes
<1>3. \A q \in T!Proc : state'[q] # "LIVE" /\ q # exiter' => cptr'[q] = NULL
  BY <1>1 DEF Kin
<1> QED BY <1>1, <1>2, <1>3 DEF Kin

LEMMA ReapKin ==
  ASSUME NEW p, NEW c \in User, p \in User \cup {initproc}, TableTypes, Kin, T!Reap(p, c)
  PROVE  TableTypes' /\ Kin'
<1>1. /\ state[p] = "LIVE" /\ state[c] = "ZOMBIE" /\ parent[c] = p
      /\ exiter = NULL /\ exiter' = NULL /\ parent' = parent
      /\ state' = [state EXCEPT ![c] = "FREE"] /\ T!ListDel(c) /\ T!UnlinkChild(c)
  BY DEF T!Reap
<1>2. /\ p \in T!Proc /\ c \in T!Proc /\ p # c /\ c # idleproc /\ c # initproc /\ c \in T!Node
      /\ state'[c] = "FREE" /\ \A q \in T!Proc : q # c => state'[q] = state[q]
  BY <1>1, Constants, NodeFacts DEF TableTypes
<1>3. /\ optr[c] \in T!Proc \cup {NULL} /\ yptr[c] \in T!Proc \cup {NULL}
      /\ next[c] \in T!Node /\ prev[c] \in T!Node
  BY <1>2 DEF TableTypes
<1>4. next' \in [T!Node -> T!Node] /\ prev' \in [T!Node -> T!Node]
  BY <1>1, <1>3 DEF T!ListDel, TableTypes
<1>5. yptr' \in [T!Proc -> T!Proc \cup {NULL}]
  BY <1>1, <1>3 DEF T!UnlinkChild, TableTypes
<1>6. optr' \in [T!Proc -> T!Proc \cup {NULL}] /\ cptr' \in [T!Proc -> T!Proc \cup {NULL}]
  BY <1>1, <1>2, <1>3 DEF T!UnlinkChild, TableTypes
<1>7. state' \in [T!Proc -> {"FREE", "LIVE", "ZOMBIE"}]
  BY <1>1, <1>2 DEF TableTypes
<1>8. TableTypes'
  BY <1>1, <1>2, <1>4, <1>5, <1>6, <1>7, Constants DEF TableTypes
<1>9. \A q \in T!Proc : q # p => cptr'[q] = cptr[q]
  BY <1>1, <1>2 DEF T!UnlinkChild, TableTypes
<1>10. \A q \in T!Proc : state'[q] # "LIVE" /\ q # exiter' => cptr'[q] = NULL
  <2>1. ASSUME NEW q \in T!Proc, state'[q] # "LIVE" PROVE q # p /\ state[q] # "LIVE"
    BY <1>1, <1>2, <2>1
  <2> QED BY <1>1, <1>9, <2>1 DEF Kin
<1>11. {d \in User : state'[d] # "FREE"} \subseteq {d \in User : state[d] # "FREE"}
  BY <1>1, <1>2, Constants
<1>12. ASSUME NEW S \in SUBSET {d \in User : state'[d] # "FREE"}, S # {}
       PROVE  \E d \in S : parent'[d] \notin S
  <2>1. S \in SUBSET {d \in User : state[d] # "FREE"}
    BY <1>11
  <2> QED BY <1>1, <1>12, <2>1 DEF Kin
<1>13. /\ parent'[idleproc] = NULL /\ parent'[initproc] = idleproc
       /\ \A d \in User : state'[d] # "FREE" => parent'[d] \in User \cup {initproc}
  BY <1>1, <1>11 DEF Kin
<1> QED BY <1>8, <1>10, <1>12, <1>13 DEF Kin
-----------------------------------------------------------------------------
\* get_pid.  What its loop has established after some iterations over n ids:
\* none of those it has passed is last, or lies between last and safe.
Scanned(ids, n, s) ==
  /\ s.le \in 1 .. n + 1 /\ s.last \in Pid /\ s.safe \in 1 .. MAX_PID /\ s.last < s.safe
  /\ \A j \in 1 .. n : j < s.le => ids[j] < s.last \/ ids[j] >= s.safe

LoopUpTo(ids, last, g, m) ==
  g = [k \in 0 .. m |-> IF k = 0 THEN [le |-> 1, last |-> last, safe |-> MAX_PID]
                        ELSE T!Iterate(ids, g[k - 1])]

LEMMA PidFacts ==
  /\ MAX_PID \in Nat /\ MAX_PID > 3 /\ 1 \in Pid /\ Pid \subseteq Nat
  /\ T!MaxIterations \in Nat
<1>1. MAX_PID \in Nat /\ MAX_PID > 3 /\ MAX_PROCESS \in Nat
  BY PidAssumption
<1>2. \A a, b \in Nat : a * b \in Nat
  OBVIOUS
<1> QED BY <1>1, <1>2 DEF Pid, T!MaxIterations

LEMMA IterateKeepsScanned ==
  ASSUME NEW s, NEW ids, NEW n \in Nat, ids \in [1 .. n -> Pid], Scanned(ids, n, s)
  PROVE  Scanned(ids, n, T!Iterate(ids, s))
<1>1. Len(ids) = n
  <2>1. DOMAIN ids = 1 .. n
    OBVIOUS
  <2> QED BY <2>1
<1>2. /\ s.le \in 1 .. n + 1 /\ s.last \in Nat /\ s.last >= 1 /\ s.last < MAX_PID
      /\ s.safe \in 1 .. MAX_PID /\ s.last < s.safe
      /\ \A j \in 1 .. n : ids[j] \in Nat /\ ids[j] >= 1 /\ ids[j] < MAX_PID
      /\ \A j \in 1 .. n : j < s.le => ids[j] < s.last \/ ids[j] >= s.safe
      /\ MAX_PID \in Nat /\ MAX_PID > 3
  BY PidFacts DEF Scanned, Pid
<1>3. CASE s.le > n
  BY <1>1, <1>3 DEF T!Iterate
<1>4. CASE ~ s.le > n /\ ids[s.le] # s.last
  <2> DEFINE safe == IF ids[s.le] > s.last /\ s.safe > ids[s.le] THEN ids[s.le] ELSE s.safe
             r == [le |-> s.le + 1, last |-> s.last, safe |-> safe]
  <2>1. T!Iterate(ids, s) = r
    BY <1>1, <1>4 DEF T!Iterate
  <2>2. s.le \in 1 .. n /\ s.le + 1 \in 1 .. n + 1
    BY <1>2, <1>4
  <2>3. safe \in 1 .. MAX_PID /\ s.last < safe /\ safe <= s.safe
        /\ (ids[s.le] < s.last \/ ids[s.le] >= safe)
    BY <1>2, <1>4, <2>2
  <2> HIDE DEF safe
  <2>4. ASSUME NEW j \in 1 .. n, j < s.le + 1 PROVE ids[j] < s.last \/ ids[j] >= safe
    <3>1. CASE j = s.le
      BY <2>3, <3>1
    <3>2. CASE j # s.le
      <4>1. j < s.le
        BY <2>2, <2>4, <3>2
      <4>2. ids[j] \in Nat /\ (ids[j] < s.last \/ ids[j] >= s.safe)
        BY <1>2, <4>1
      <4>3. s.safe \in Nat /\ safe \in Nat /\ safe <= s.safe
        BY <1>2, <2>3
      <4> QED BY <4>2, <4>3
    <3> QED BY <3>1, <3>2
  <2>5. Scanned(ids, n, r)
    BY <1>2, <2>2, <2>3, <2>4 DEF Scanned, Pid
  <2> QED BY <2>1, <2>5
<1>5. CASE ~ s.le > n /\ ids[s.le] = s.last /\ s.last + 1 >= s.safe
  <2> DEFINE last == IF s.last + 1 >= MAX_PID THEN 1 ELSE s.last + 1
             r == [le |-> 1, last |-> last, safe |-> MAX_PID]
  <2>1. T!Iterate(ids, s) = r
    BY <1>1, <1>5 DEF T!Iterate
  <2>2. last \in Pid /\ last < MAX_PID
    BY <1>2 DEF Pid
  <2> HIDE DEF last
  <2>3. Scanned(ids, n, r)
    BY <1>2, <2>2 DEF Scanned
  <2> QED BY <2>1, <2>3
<1>6. CASE ~ s.le > n /\ ids[s.le] = s.last /\ ~ s.last + 1 >= s.safe
  <2> DEFINE r == [le |-> s.le + 1, last |-> s.last + 1, safe |-> s.safe]
  <2>1. T!Iterate(ids, s) = r
    BY <1>1, <1>6 DEF T!Iterate
  <2>2. s.le \in 1 .. n /\ s.le + 1 \in 1 .. n + 1 /\ s.last + 1 \in Pid /\ s.last + 1 < s.safe
    <3>1. s.le \in 1 .. n /\ s.le + 1 \in 1 .. n + 1
      BY <1>2, <1>6
    <3>2. s.last \in Nat /\ s.safe \in Nat /\ s.safe <= MAX_PID /\ s.last + 1 < s.safe
      BY <1>2, <1>6
    <3>3. s.last + 1 \in Pid
      BY <1>2, <3>2 DEF Pid
    <3> QED BY <3>1, <3>2, <3>3
  <2>3. ASSUME NEW j \in 1 .. n, j < s.le + 1 PROVE ids[j] < s.last + 1 \/ ids[j] >= s.safe
    <3>1. CASE j = s.le
      BY <1>2, <1>6, <3>1
    <3>2. CASE j # s.le
      <4>1. j < s.le
        BY <2>2, <2>3, <3>2
      <4>2. ids[j] \in Nat /\ s.last \in Nat /\ (ids[j] < s.last \/ ids[j] >= s.safe)
        BY <1>2, <4>1
      <4> QED BY <4>2
    <3> QED BY <3>1, <3>2
  <2>4. Scanned(ids, n, r)
    BY <1>2, <2>2, <2>3 DEF Scanned
  <2> QED BY <2>1, <2>4
<1> QED BY <1>3, <1>4, <1>5, <1>6

-----------------------------------------------------------------------------
LEMMA InitTableInv == T!Init => TableInv
<1> SUFFICES ASSUME T!Init PROVE TableInv
  OBVIOUS
<1>1. /\ state = [p \in T!Proc |-> IF p \in User THEN "FREE" ELSE "LIVE"]
      /\ pid = [p \in T!Proc |-> IF p = initproc THEN 1 ELSE 0]
      /\ tlast = 1 /\ tsafe = MAX_PID /\ tnr = 2
      /\ next = [n \in T!Node |-> IF n = HEAD THEN initproc ELSE HEAD] /\ prev = next
      /\ parent = [p \in T!Proc |-> IF p = initproc THEN idleproc ELSE NULL]
      /\ cptr = [p \in T!Proc |-> IF p = idleproc THEN initproc ELSE NULL]
      /\ optr = [p \in T!Proc |-> NULL] /\ yptr = [p \in T!Proc |-> NULL] /\ exiter = NULL
  BY DEF T!Init
<1>2. T!Alive = {idleproc, initproc}
  BY <1>1, Constants DEF T!Alive, T!Proc
<1>3. TableTypes
  <2>1. /\ state \in [T!Proc -> {"FREE", "LIVE", "ZOMBIE"}]
        /\ state[idleproc] = "LIVE" /\ state[initproc] = "LIVE"
    BY <1>1, Constants
  <2>2. next \in [T!Node -> T!Node] /\ prev \in [T!Node -> T!Node]
    BY <1>1, NodeFacts
  <2>3. /\ parent \in [T!Proc -> T!Proc \cup {NULL}] /\ cptr \in [T!Proc -> T!Proc \cup {NULL}]
        /\ optr \in [T!Proc -> T!Proc \cup {NULL}] /\ yptr \in [T!Proc -> T!Proc \cup {NULL}]
    BY <1>1, Constants
  <2> QED BY <1>1, <2>1, <2>2, <2>3 DEF TableTypes
<1>4. Kin
  <2>1. \A c \in User : state[c] = "FREE"
    BY <1>1, Constants
  <2>2. \A p \in T!Proc : state[p] # "LIVE" => cptr[p] = NULL
    BY <1>1, Constants
  <2>3. parent[idleproc] = NULL /\ parent[initproc] = idleproc
    BY <1>1, Constants
  <2> QED BY <2>1, <2>2, <2>3 DEF Kin
<1>5. PICK s : s = [i \in 1 .. 1 |-> initproc]
  OBVIOUS
<1>6. /\ Row(T!Proc, s, 1) /\ Members(s, 1) = {initproc}
      /\ s[1] = initproc
  BY <1>5, Constants DEF Row, Members
<1>7. At(s, 1, 0, HEAD) = HEAD /\ At(s, 1, 1, HEAD) = initproc /\ At(s, 1, 2, HEAD) = HEAD
  BY <1>6 DEF At
<1>8. At(s, 1, 0, NULL) = NULL /\ At(s, 1, 1, NULL) = initproc /\ At(s, 1, 2, NULL) = NULL
  BY <1>6 DEF At
<1>9. ListRow(s, 1)
  <2>1. next[HEAD] = initproc /\ next[initproc] = HEAD
    BY <1>1, NodeFacts, Constants
  <2>2. Chain(next, prev, HEAD, s, 1)
    <3>1. ASSUME NEW i \in 0 .. 1
          PROVE  /\ next[At(s, 1, i, HEAD)] = At(s, 1, i + 1, HEAD)
                 /\ prev[At(s, 1, i + 1, HEAD)] = At(s, 1, i, HEAD)
      <4>1. i = 0 \/ i = 1
        OBVIOUS
      <4> QED BY <1>1, <1>7, <2>1, <4>1
    <3> QED BY <3>1 DEF Chain
  <2>3. Members(s, 1) = T!Alive \ {idleproc}
    BY <1>2, <1>6, Constants
  <2> QED BY <1>1, <1>6, <2>2, <2>3 DEF ListRow
<1>10. ASSUME NEW q \in T!Proc PROVE \E n \in Nat : \E r : ChildRow(q, r, n)
  <2>1. CASE q = idleproc
    <3>1. Members(s, 1) = {c \in T!Alive : parent[c] = q}
      BY <1>1, <1>2, <1>6, <2>1, Constants
    <3>2. Older(cptr[q], optr, NULL, s, 1) /\ Younger(yptr, NULL, s, 1)
      <4>1. cptr[q] = initproc /\ optr[initproc] = NULL /\ yptr[initproc] = NULL
        BY <1>1, <2>1, Constants
      <4>2. \A i \in 1 .. 1 : i = 1 /\ i + 1 = 2 /\ i - 1 = 0
        OBVIOUS
      <4> QED BY <1>6, <1>8, <4>1, <4>2 DEF Older, Younger
    <3>3. ChildRow(q, s, 1)
      BY <1>6, <3>1, <3>2 DEF ChildRow
    <3> QED BY <3>3
  <2>2. CASE q # idleproc
    <3>1. PICK r : r = [i \in 1 .. 0 |-> initproc]
      OBVIOUS
    <3>2. Row(T!Proc, r, 0) /\ Members(r, 0) = {} /\ At(r, 0, 1, NULL) = NULL
      BY <3>1 DEF Row, Members, At
    <3>3. {c \in T!Alive : parent[c] = q} = {}
      BY <1>1, <1>2, <2>2, Constants
    <3>4. Older(cptr[q], optr, NULL, r, 0) /\ Younger(yptr, NULL, r, 0)
      BY <1>1, <2>2, <3>2 DEF Older, Younger
    <3>5. ChildRow(q, r, 0)
      BY <3>2, <3>3, <3>4 DEF ChildRow
    <3> QED BY <3>5
  <2> QED BY <2>1, <2>2
<1>11. Ids
  <2>1. pid \in [T!Proc -> Nat] /\ pid[idleproc] = 0 /\ pid[initproc] = 1
    BY <1>1, Constants
  <2>2. tlast \in Pid /\ tsafe \in 1 .. MAX_PID
    BY <1>1, PidFacts
  <2> QED BY <1>1, <1>2, <2>1, <2>2, PidFacts DEF Ids, T!UniquePids
<1> QED BY <1>3, <1>4, <1>9, <1>10, <1>11 DEF TableInv, Links

\* Ids of a step that gives none away.
LEMMA IdsKept ==
  ASSUME Ids, T!Alive' \subseteq T!Alive, UNCHANGED <<pid, tlast, tsafe>>
  PROVE  Ids'
BY DEF Ids, T!UniquePids

\* Every step keeps the invariant, if do_fork keeps it for the ids.
LEMMA TableStep ==
  ASSUME TableInv, T!Next,
         \A p \in User \cup {initproc}, c \in User : T!Fork(p, c) => Ids'
  PROVE  TableInv'
<1> USE DEF TableInv
<1>1. ASSUME NEW p \in User \cup {initproc}, NEW c \in User, T!Fork(p, c) PROVE TableInv'
  BY <1>1, ForkLinks, ForkKin
<1>2. ASSUME NEW p \in User \cup {initproc}, NEW c \in User, T!Reap(p, c) PROVE TableInv'
  <2>1. TableTypes' /\ Kin' /\ Links'
    BY <1>2, ReapLinks, ReapKin
  <2>2. state' = [state EXCEPT ![c] = "FREE"] /\ UNCHANGED <<pid, tlast, tsafe>>
    BY <1>2 DEF T!Reap, T!pids
  <2>3. T!Alive' \subseteq T!Alive
    BY <2>2 DEF T!Alive, TableTypes
  <2> QED BY <2>1, <2>2, <2>3, IdsKept
<1>3. ASSUME NEW p \in User, T!Exit(p) PROVE TableInv'
  <2>1. TableTypes' /\ Kin' /\ Links'
    BY <1>3, ExitLinks, ExitKin
  <2>2. /\ state[p] = "LIVE" /\ state' = [state EXCEPT ![p] = "ZOMBIE"]
        /\ UNCHANGED <<pid, tlast, tsafe>>
    BY <1>3 DEF T!Exit, T!pids
  <2>3. T!Alive' \subseteq T!Alive
    BY <2>2 DEF T!Alive, TableTypes
  <2> QED BY <2>1, <2>2, <2>3, IdsKept
<1>4. ASSUME T!ExitAdopt PROVE TableInv'
  <2>1. TableTypes' /\ Kin' /\ Links'
    BY <1>4, ExitAdoptLinks, ExitAdoptKin
  <2>2. state' = state /\ UNCHANGED <<pid, tlast, tsafe>>
    BY <1>4 DEF T!ExitAdopt, T!pids
  <2>3. T!Alive' \subseteq T!Alive
    BY <2>2 DEF T!Alive
  <2> QED BY <2>1, <2>2, <2>3, IdsKept
<1>5. ASSUME T!ExitDone PROVE TableInv'
  <2>1. TableTypes' /\ Kin' /\ Links'
    BY <1>5, ExitDoneLinks, ExitDoneKin
  <2>2. state' = state /\ UNCHANGED <<pid, tlast, tsafe>>
    BY <1>5 DEF T!ExitDone, T!pids
  <2>3. T!Alive' \subseteq T!Alive
    BY <2>2 DEF T!Alive
  <2> QED BY <2>1, <2>2, <2>3, IdsKept
<1> QED BY <1>1, <1>2, <1>3, <1>4, <1>5 DEF T!Next

\* The table does not change when the other part of the run moves.
LEMMA TableStutter ==
  ASSUME TableInv, UNCHANGED tableVars
  PROVE  TableInv'
<1>0. UNCHANGED <<state, pid, tlast, tsafe, tnr, next, prev, parent, cptr, optr, yptr, exiter>>
  BY DEF tableVars
<1>1. T!Alive' = T!Alive
  BY <1>0 DEF T!Alive
<1>2. TableTypes' /\ Kin'
  BY <1>0 DEF TableInv, TableTypes, Kin
<1>3. Ids'
  BY <1>0, <1>1, IdsKept DEF TableInv
<1>4. \E n \in Nat : \E s : ListRow(s, n)'
  BY <1>0, <1>1, ListRowKept DEF TableInv
<1>5. ASSUME NEW q \in T!Proc PROVE \E n \in Nat : \E s : ChildRow(q, s, n)'
  <2>1n. PICK n \in Nat : \E s : ChildRow(q, s, n)
    BY DEF TableInv, Links
  <2>1. PICK s : ChildRow(q, s, n)
    BY <2>1n
  <2>2. ChildRow(q, s, n)'
    BY <1>0, <1>1, <2>1, ChildRowKept
  <2> QED BY <2>2
<1> QED BY <1>2, <1>3, <1>4, <1>5 DEF TableInv, Links

\* A process that is not LIVE, and is not in do_exit, has no child.
LEMMA OnlyTheLiveHaveChildren ==
  ASSUME NEW q \in T!Proc, TableInv, cptr[q] = NULL
  PROVE  \A c \in T!Alive : parent[c] # q
<1>1n. PICK n \in Nat : \E s : ChildRow(q, s, n)
  BY DEF TableInv, Links
<1>1. PICK s : ChildRow(q, s, n)
  BY <1>1n
<1>2. n = 0 /\ Members(s, n) = {c \in T!Alive : parent[c] = q}
  BY <1>1, FirstChild DEF ChildRow
<1> QED BY <1>2 DEF Members

LEMMA RowsMakeInitMainAsserts == TableInv => InitMainAsserts
<1> SUFFICES ASSUME TableInv, cptr[initproc] = NULL, exiter = NULL
             PROVE  /\ yptr[initproc] = NULL /\ optr[initproc] = NULL
                    /\ tnr = 2
                    /\ next[HEAD] = initproc /\ prev[HEAD] = initproc
  BY DEF InitMainAsserts, T!InitMainAsserts
<1> DEFINE A == {c \in User : state[c] # "FREE"}
<1>1. A = {}
  <2> SUFFICES ASSUME A # {} PROVE FALSE
    OBVIOUS
  <2>1. PICK c \in A : parent[c] \notin A
    BY DEF TableInv, Kin
  <2>2. c \in T!Alive /\ parent[c] \in User \cup {initproc}
    BY <2>1, Constants DEF TableInv, Kin, T!Alive
  <2>3. parent[c] # initproc
    BY <2>2, OnlyTheLiveHaveChildren, Constants
  <2>4. parent[c] \in T!Proc /\ state[parent[c]] = "FREE" /\ parent[c] # exiter
    BY <2>1, <2>2, <2>3, Constants
  <2>5. cptr[parent[c]] = NULL
    BY <2>4 DEF TableInv, Kin
  <2> QED BY <2>2, <2>4, <2>5, OnlyTheLiveHaveChildren
<1>2. T!Alive = {idleproc, initproc}
  BY <1>1, Constants DEF T!Alive, T!Proc, TableInv, TableTypes
<1>3. ASSUME NEW n \in Nat, NEW s, Row(T!Proc, s, n), Members(s, n) = {initproc} PROVE n = 1 /\ s[1] = initproc
  <2>1. PICK i \in 1 .. n : s[i] = initproc
    BY <1>3 DEF Members
  <2>2. n \in Nat /\ 1 \in 1 .. n /\ n \in 1 .. n
    BY <1>3, <2>1 DEF Row
  <2>3. s[1] = initproc /\ s[n] = initproc
    BY <1>3, <2>2 DEF Members
  <2> QED BY <1>3, <2>2, <2>3 DEF Row
<1>4. tnr = 2 /\ next[HEAD] = initproc /\ prev[HEAD] = initproc
  <2>1n. PICK n \in Nat : \E s : ListRow(s, n)
    BY DEF TableInv, Links
  <2>1. PICK s : ListRow(s, n)
    BY <2>1n
  <2>2. Row(T!Proc, s, n) /\ Members(s, n) = {initproc} /\ tnr = n + 1 /\ Chain(next, prev, HEAD, s, n)
    <3>1. Members(s, n) = T!Alive \ {idleproc}
      BY <2>1 DEF ListRow
    <3>2. Members(s, n) = {initproc}
      BY <1>2, <3>1, Constants
    <3> QED BY <2>1, <3>2 DEF ListRow
  <2>3. n = 1 /\ s[1] = initproc
    BY <1>3, <2>2
  <2>4. At(s, 1, 0, HEAD) = HEAD /\ At(s, 1, 1, HEAD) = initproc /\ At(s, 1, 2, HEAD) = HEAD
    BY <2>3 DEF At
  <2>5. 0 \in 0 .. 1 /\ 1 \in 0 .. 1 /\ 0 + 1 = 1 /\ 1 + 1 = 2
    OBVIOUS
  <2>6. next[At(s, 1, 0, HEAD)] = At(s, 1, 0 + 1, HEAD) /\ prev[At(s, 1, 1 + 1, HEAD)] = At(s, 1, 1, HEAD)
    BY <2>2, <2>3, <2>5 DEF Chain
  <2> QED BY <2>2, <2>3, <2>4, <2>5, <2>6
<1>5. yptr[initproc] = NULL /\ optr[initproc] = NULL
  <2>1n. PICK n \in Nat : \E s : ChildRow(idleproc, s, n)
    BY Constants DEF TableInv, Links
  <2>1. PICK s : ChildRow(idleproc, s, n)
    BY <2>1n
  <2>2. {c \in T!Alive : parent[c] = idleproc} = {initproc}
    BY <1>2, Constants DEF TableInv, Kin
  <2>3. /\ Row(T!Proc, s, n) /\ Members(s, n) = {initproc}
        /\ Older(cptr[idleproc], optr, NULL, s, n) /\ Younger(yptr, NULL, s, n)
    BY <2>1, <2>2, Constants DEF ChildRow
  <2>4. n = 1 /\ s[1] = initproc
    BY <1>3, <2>3
  <2>5. At(s, 1, 1 + 1, NULL) = NULL /\ At(s, 1, 1 - 1, NULL) = NULL /\ 1 \in 1 .. 1
    BY DEF At
  <2> QED BY <2>3, <2>4, <2>5 DEF Older, Younger
<1> QED BY <1>4, <1>5
=============================================================================
