--------------------------- MODULE ProcessProofs ---------------------------
(***************************************************************************)
(* Proofs about Process, for any number of processes, any time slice and   *)
(* any sleeping times: the run queue is exact, no wakeup of a waiting      *)
(* parent is lost, every process keeps a parent that can reap it, a timer  *)
(* is out of the list before its owner leaves do_sleep, initproc leaves    *)
(* last, and the list of differences implements TimerSpec.                 *)
(***************************************************************************)
EXTENDS Process, TimerListProofs

ExitPlaces == {"exit_zombie", "exit_reparent", "exit_sched"}

\* Places where only the current process can stand.
CurrentPlaces == ExitPlaces \cup {"tail", "resched", "wait_sched", "sleep_sched",
                                  "init_sched"}

\* How the place of a process, its state and what it waits for go together.
Places ==
  /\ state[idleproc] = "RUNNABLE" /\ at[idleproc] = "idle"
  /\ state[initproc] \in {"RUNNABLE", "SLEEPING"}
  /\ \A p \in Proc : at[p] = "none" <=> state[p] = "FREE"
  /\ \A p \in Proc : at[p] \in ExitPlaces \cup {"dead"} <=> state[p] = "ZOMBIE"
  /\ \A p \in Proc : at[p] \in CurrentPlaces => p = current
  /\ \A p \in Proc : wait_state[p] = "CHILD" => at[p] \in {"wait_sched", "wait_ret"}
  /\ \A p \in Proc : wait_state[p] = "TIMER" => at[p] \in {"sleep_sched", "sleep_ret"}
  /\ state[current] # "FREE"
  /\ state[current] = "SLEEPING" => at[current] \in {"wait_sched", "sleep_sched"}

IInv ==
  /\ TypeOK /\ RunQueueExact /\ Places /\ WaitStateMeansAsleep
  /\ TimersExact /\ TimerOwnersSleep /\ ParentCanReap /\ NoLostChildWakeup

-----------------------------------------------------------------------------
\* Sequences without duplicates: what Append and Tail do to their elements.
NoDup(s) == \A i, j \in 1 .. Len(s) : s[i] = s[j] => i = j
Elems(s) == {s[i] : i \in 1 .. Len(s)}

\* Appending a new element (sched_class_enqueue) keeps the queue duplicate-free.
LEMMA AppendElems ==
  ASSUME NEW S, NEW s \in Seq(S), NEW x \in S
  PROVE  /\ Append(s, x) \in Seq(S)
         /\ Elems(Append(s, x)) = Elems(s) \cup {x}
         /\ NoDup(s) /\ x \notin Elems(s) => NoDup(Append(s, x))
<1> DEFINE t == Append(s, x)
<1>1. /\ t \in Seq(S) /\ Len(s) \in Nat /\ Len(t) = Len(s) + 1
      /\ \A i \in 1 .. Len(s) : t[i] = s[i]
      /\ t[Len(s) + 1] = x
  OBVIOUS
<1> HIDE DEF t
<1>2. Elems(t) \subseteq Elems(s) \cup {x}
  <2> SUFFICES ASSUME NEW i \in 1 .. Len(t) PROVE t[i] \in Elems(s) \cup {x}
    BY DEF Elems
  <2>1. CASE i = Len(s) + 1  BY <2>1, <1>1
  <2>2. CASE i \in 1 .. Len(s)  BY <2>2, <1>1 DEF Elems
  <2> QED  BY <2>1, <2>2, <1>1
<1>3. Elems(s) \cup {x} \subseteq Elems(t)
  <2>1. \A i \in 1 .. Len(s) : i \in 1 .. Len(t)  BY <1>1
  <2>2. Len(s) + 1 \in 1 .. Len(t)  BY <1>1
  <2> QED  BY <2>1, <2>2, <1>1 DEF Elems
<1>4. NoDup(s) /\ x \notin Elems(s) => NoDup(t)
  BY <1>1 DEF NoDup, Elems
<1> QED  BY <1>1, <1>2, <1>3, <1>4 DEF t

\* Taking the head (sched_class_dequeue of sched_class_pick_next's choice).
LEMMA TailElems ==
  ASSUME NEW S, NEW s \in Seq(S), s # <<>>, NoDup(s)
  PROVE  /\ Tail(s) \in Seq(S) /\ Head(s) \in S /\ Head(s) \in Elems(s)
         /\ Elems(Tail(s)) = Elems(s) \ {Head(s)}
         /\ NoDup(Tail(s))
<1> DEFINE t == Tail(s)
<1>1. /\ t \in Seq(S) /\ Len(s) \in Nat /\ Len(s) > 0 /\ Len(t) = Len(s) - 1
      /\ \A i \in 1 .. Len(t) : t[i] = s[i + 1]
      /\ Head(s) = s[1] /\ s[1] \in S
  OBVIOUS
<1> HIDE DEF t
<1>2. Elems(t) \subseteq Elems(s) \ {s[1]}
  <2> SUFFICES ASSUME NEW i \in 1 .. Len(t) PROVE t[i] \in Elems(s) /\ t[i] # s[1]
    BY DEF Elems
  <2>1. i + 1 \in 1 .. Len(s) /\ 1 \in 1 .. Len(s) /\ i + 1 # 1  BY <1>1
  <2> QED  BY <2>1, <1>1 DEF Elems, NoDup
<1>3. Elems(s) \ {s[1]} \subseteq Elems(t)
  <2> SUFFICES ASSUME NEW i \in 1 .. Len(s), s[i] # s[1] PROVE s[i] \in Elems(t)
    BY DEF Elems
  <2>1. i - 1 \in 1 .. Len(t) /\ t[i - 1] = s[i]  BY <1>1
  <2> QED  BY <2>1 DEF Elems
<1>4. NoDup(t)
  <2> SUFFICES ASSUME NEW i \in 1 .. Len(t), NEW j \in 1 .. Len(t), t[i] = t[j]
               PROVE  i = j
    BY DEF NoDup
  <2>1. i + 1 \in 1 .. Len(s) /\ j + 1 \in 1 .. Len(s)  BY <1>1
  <2> QED  BY <2>1, <1>1 DEF NoDup
<1>5. Head(s) \in Elems(s)  BY <1>1 DEF Elems
<1> QED  BY <1>1, <1>2, <1>3, <1>4, <1>5 DEF t

-----------------------------------------------------------------------------
\* The queue part of the invariant, as what a wakeup or a switch preserves.
QueueInv == TypeOK /\ RunQueueExact /\ state[idleproc] = "RUNNABLE"

\* The slice that RR_enqueue leaves is in range.
LEMMA SliceInRange ==
  ASSUME TypeOK, NEW p \in Proc PROVE RefilledSlice(p) \in 0 .. max_time_slice
BY ProcessAssumption DEF TypeOK, RefilledSlice

\* wakeup_proc keeps the queue exact, whomever it wakes.
LEMMA WakeupQueue ==
  ASSUME QueueInv, NEW p \in Proc, WakeupProc(p), current' = current
  PROVE  /\ state' \in [Proc -> {"FREE", "RUNNABLE", "SLEEPING", "ZOMBIE"}]
         /\ wait_state' \in [Proc -> {"none", "CHILD", "TIMER"}]
         /\ time_slice' \in [Proc -> 0 .. max_time_slice]
         /\ rq' \in Seq(Proc)
         /\ RunQueueExact'
<1>1. CASE state[p] = "RUNNABLE"
  BY <1>1 DEF WakeupProc, QueueInv, TypeOK, RunQueueExact, InRq
<1>2. CASE state[p] # "RUNNABLE" /\ p = current
  <2>1. /\ state' = [state EXCEPT ![p] = "RUNNABLE"]
        /\ wait_state' = [wait_state EXCEPT ![p] = "none"]
        /\ rq' = rq /\ time_slice' = time_slice
    BY <1>2 DEF WakeupProc
  <2>2. /\ state' \in [Proc -> {"FREE", "RUNNABLE", "SLEEPING", "ZOMBIE"}]
        /\ wait_state' \in [Proc -> {"none", "CHILD", "TIMER"}]
        /\ time_slice' \in [Proc -> 0 .. max_time_slice]
        /\ rq' \in Seq(Proc)
    BY <2>1 DEF QueueInv, TypeOK
  <2>3. {q \in Proc \ {current, idleproc} : state[q] = "RUNNABLE"}
          = {q \in Proc \ {current, idleproc} : state'[q] = "RUNNABLE"}
    BY <1>2, <2>1 DEF QueueInv, TypeOK
  <2>4. InRq' = InRq  BY <2>1 DEF InRq
  <2> QED  BY <2>1, <2>2, <2>3, <2>4 DEF QueueInv, RunQueueExact
<1>3. CASE state[p] # "RUNNABLE" /\ p # current
  <2>1. /\ state' = [state EXCEPT ![p] = "RUNNABLE"]
        /\ wait_state' = [wait_state EXCEPT ![p] = "none"]
        /\ rq' = Append(rq, p)
        /\ time_slice' = [time_slice EXCEPT ![p] = RefilledSlice(p)]
    BY <1>3 DEF WakeupProc
  <2>2. rq \in Seq(Proc) /\ NoDup(rq) /\ p \notin Elems(rq) /\ p # idleproc
    BY <1>3 DEF QueueInv, TypeOK, RunQueueExact, InRq, NoDup, Elems
  <2>3. rq' \in Seq(Proc) /\ Elems(rq') = Elems(rq) \cup {p} /\ NoDup(rq')
    BY <2>1, <2>2, AppendElems
  <2>4. /\ state' \in [Proc -> {"FREE", "RUNNABLE", "SLEEPING", "ZOMBIE"}]
        /\ wait_state' \in [Proc -> {"none", "CHILD", "TIMER"}]
        /\ time_slice' \in [Proc -> 0 .. max_time_slice]
    BY <2>1, SliceInRange DEF QueueInv, TypeOK
  <2>5. Elems(rq') = {q \in Proc \ {current, idleproc} : state'[q] = "RUNNABLE"}
    <3>1. Elems(rq) = {q \in Proc \ {current, idleproc} : state[q] = "RUNNABLE"}
      BY DEF QueueInv, RunQueueExact, InRq, Elems
    <3>2. \A q \in Proc : state'[q] = "RUNNABLE" <=> q = p \/ state[q] = "RUNNABLE"
      BY <2>1 DEF QueueInv, TypeOK
    <3> QED  BY <3>1, <3>2, <2>2, <2>3, <1>3
  <2>6. InRq' = Elems(rq')  BY DEF InRq, Elems
  <2>7. RunQueueExact'
    BY <2>3, <2>5, <2>6 DEF RunQueueExact, NoDup
  <2> QED  BY <2>3, <2>4, <2>7
<1> QED  BY <1>1, <1>2, <1>3

\* What wakeup_proc does to the state of a process.
LEMMA WakeupState ==
  ASSUME TypeOK, NEW p \in Proc, WakeupProc(p), WaitStateMeansAsleep
  PROVE  /\ state' = [state EXCEPT ![p] = "RUNNABLE"]
         /\ wait_state' = [wait_state EXCEPT ![p] = "none"]
<1>1. CASE state[p] = "RUNNABLE"
  <2>1. wait_state[p] = "none"  BY <1>1 DEF WaitStateMeansAsleep
  <2> QED  BY <1>1, <2>1 DEF WakeupProc, TypeOK
<1>2. CASE state[p] # "RUNNABLE"
  BY <1>2 DEF WakeupProc
<1> QED  BY <1>1, <1>2

\* schedule() keeps the queue exact and picks a runnable process.
LEMMA ScheduleQueue ==
  ASSUME QueueInv, NEW p \in Proc, p = current, Schedule(p), state' = state
  PROVE  /\ need_resched' \in [Proc -> BOOLEAN]
         /\ time_slice' \in [Proc -> 0 .. max_time_slice]
         /\ rq' \in Seq(Proc)
         /\ current' \in Proc /\ state[current'] = "RUNNABLE"
         /\ RunQueueExact'
<1> DEFINE q == IF Requeues(p) THEN Append(rq, p) ELSE rq
<1>1. rq \in Seq(Proc) /\ NoDup(rq) /\ p \notin Elems(rq) /\ idleproc \notin Elems(rq)
  BY DEF QueueInv, TypeOK, RunQueueExact, InRq, NoDup, Elems
<1>2. /\ q \in Seq(Proc) /\ NoDup(q)
      /\ Elems(q) = {r \in Proc \ {idleproc} : state[r] = "RUNNABLE"}
  <2>1. Elems(rq) = {r \in Proc \ {p, idleproc} : state[r] = "RUNNABLE"}
    BY DEF QueueInv, RunQueueExact, InRq, Elems
  <2>2. CASE Requeues(p)
    BY <2>1, <2>2, <1>1, AppendElems DEF Requeues
  <2>3. CASE ~Requeues(p)
    BY <2>1, <2>3, <1>1 DEF Requeues
  <2> QED  BY <2>2, <2>3
<1>3. /\ current' = IF q = <<>> THEN idleproc ELSE Head(q)
      /\ rq' = IF q = <<>> THEN q ELSE Tail(q)
      /\ need_resched' = [need_resched EXCEPT ![p] = FALSE]
      /\ time_slice' = IF Requeues(p) THEN [time_slice EXCEPT ![p] = RefilledSlice(p)]
                                      ELSE time_slice
  BY DEF Schedule
<1>4. need_resched' \in [Proc -> BOOLEAN] /\ time_slice' \in [Proc -> 0 .. max_time_slice]
  BY <1>3, SliceInRange DEF QueueInv, TypeOK
<1> HIDE DEF q
<1>5. CASE q = <<>>
  <2>1. Elems(q) = {}  BY <1>5 DEF Elems
  <2>2. rq' = q /\ current' = idleproc  BY <1>3, <1>5
  <2> QED  BY <2>1, <2>2, <1>2, <1>4 DEF QueueInv, RunQueueExact, InRq, Elems, NoDup, Proc
<1>6. CASE q # <<>>
  <2>1. rq' = Tail(q) /\ current' = Head(q)  BY <1>3, <1>6
  <2>2. /\ rq' \in Seq(Proc) /\ current' \in Proc /\ current' \in Elems(q)
        /\ Elems(rq') = Elems(q) \ {current'} /\ NoDup(rq')
    BY <2>1, <1>2, <1>6, TailElems
  <2> QED  BY <2>2, <1>2, <1>4 DEF RunQueueExact, InRq, Elems, NoDup
<1> QED  BY <1>5, <1>6

-----------------------------------------------------------------------------
\* The current process p moves to another place inside the kernel, and nobody
\* else moves.
LEMMA PlacesMove ==
  ASSUME Places, NEW p \in Proc, current = p, current' = p,
         idleproc \in Proc, initproc \in Proc, p # idleproc,
         \A r \in Proc : r # p => /\ state'[r] = state[r] /\ at'[r] = at[r]
                                  /\ wait_state'[r] = wait_state[r],
         state'[p] \in {"RUNNABLE", "SLEEPING"},
         at'[p] \notin ExitPlaces \cup {"none", "dead"},
         wait_state'[p] = "CHILD" => at'[p] \in {"wait_sched", "wait_ret"},
         wait_state'[p] = "TIMER" => at'[p] \in {"sleep_sched", "sleep_ret"},
         state'[p] = "SLEEPING" => at'[p] \in {"wait_sched", "sleep_sched"}
  PROVE  Places'
<1>1. state'[idleproc] = "RUNNABLE" /\ at'[idleproc] = "idle"  BY DEF Places
<1>2. state'[initproc] \in {"RUNNABLE", "SLEEPING"}
  <2>1. CASE initproc = p  BY <2>1
  <2>2. CASE initproc # p  BY <2>2 DEF Places
  <2> QED  BY <2>1, <2>2
<1>3. ASSUME NEW r \in Proc
      PROVE  /\ at'[r] = "none" <=> state'[r] = "FREE"
             /\ at'[r] \in ExitPlaces \cup {"dead"} <=> state'[r] = "ZOMBIE"
             /\ at'[r] \in CurrentPlaces => r = current'
             /\ wait_state'[r] = "CHILD" => at'[r] \in {"wait_sched", "wait_ret"}
             /\ wait_state'[r] = "TIMER" => at'[r] \in {"sleep_sched", "sleep_ret"}
  <2>1. CASE r = p
    <3>1. at'[p] # "none" /\ state'[p] # "FREE" /\ state'[p] # "ZOMBIE"  OBVIOUS
    <3> QED  BY <2>1, <3>1
  <2>2. CASE r # p
    <3>1. state'[r] = state[r] /\ at'[r] = at[r] /\ wait_state'[r] = wait_state[r]
      BY <2>2
    <3>2. /\ at[r] = "none" <=> state[r] = "FREE"
          /\ at[r] \in ExitPlaces \cup {"dead"} <=> state[r] = "ZOMBIE"
          /\ at[r] \in CurrentPlaces => r = current
          /\ wait_state[r] = "CHILD" => at[r] \in {"wait_sched", "wait_ret"}
          /\ wait_state[r] = "TIMER" => at[r] \in {"sleep_sched", "sleep_ret"}
      BY DEF Places
    <3>3. current' = current  OBVIOUS
    <3> QED  BY ONLY <3>1, <3>2, <3>3
  <2> QED  BY <2>1, <2>2
<1>4. /\ state'[current'] # "FREE"
      /\ state'[current'] = "SLEEPING" => at'[current'] \in {"wait_sched", "sleep_sched"}
  OBVIOUS
<1> QED  BY <1>1, <1>2, <1>3, <1>4 DEF Places

\* A step that does not touch the queue, the states and the current process
\* leaves the run queue exact.
LEMMA QueueAlone ==
  ASSUME RunQueueExact, state' = state, current' = current, rq' = rq
  PROVE  RunQueueExact'
<1>1. InRq' = InRq  BY DEF InRq
<1>2. InRq' = {p \in Proc \ {current', idleproc} : state'[p] = "RUNNABLE"}
  <2>1. InRq = {p \in Proc \ {current, idleproc} : state[p] = "RUNNABLE"}
    BY DEF RunQueueExact
  <2> QED  BY <1>1, <2>1
<1>3. \A i, j \in 1 .. Len(rq') : rq'[i] = rq'[j] => i = j
  BY DEF RunQueueExact
<1> QED  BY <1>2, <1>3 DEF RunQueueExact

-----------------------------------------------------------------------------
\* The table of places around schedule(), written out.
LEMMA ResumeFacts ==
  /\ DOMAIN Resume = {"wait_sched", "sleep_sched", "exit_sched", "init_sched", "resched"}
  /\ Resume["wait_sched"] = "wait_ret" /\ Resume["sleep_sched"] = "sleep_ret"
  /\ Resume["exit_sched"] = "dead" /\ Resume["init_sched"] = "init_wait"
  /\ Resume["resched"] = "user"
BY DEF Resume

\* idleproc, initproc and the user processes are different processes.
LEMMA ProcFacts ==
  /\ idleproc \in Proc /\ initproc \in Proc /\ User \subseteq Proc
  /\ idleproc # initproc /\ idleproc \notin User /\ initproc \notin User
BY ProcessAssumption DEF Proc

\* proc_init sets up a state that satisfies the invariant.
LEMMA InitIInv == Init => IInv
<1> SUFFICES ASSUME Init PROVE IInv  OBVIOUS
<1> USE ProcFacts
<1>1. TypeOK  BY ResumeFacts, ProcessAssumption DEF Init, TypeOK, TimerInit, AnyChild
<1>2. RunQueueExact
  <2>1. rq = <<initproc>> /\ Len(rq) = 1 /\ rq[1] = initproc  BY DEF Init
  <2>2. InRq = {initproc}  BY <2>1 DEF InRq
  <2>3. {p \in Proc \ {current, idleproc} : state[p] = "RUNNABLE"} = {initproc}
    BY DEF Init, Proc
  <2> QED  BY <2>1, <2>2, <2>3 DEF RunQueueExact
<1>3. Places /\ WaitStateMeansAsleep
  BY DEF Init, Places, WaitStateMeansAsleep, ExitPlaces, CurrentPlaces, Proc
<1>4. TimersExact  BY TimersStart DEF Init
<1>5. TimerOwnersSleep
  BY DEF Init, TimerInit, TimerOwnersSleep, Owners
<1>6. ParentCanReap /\ NoLostChildWakeup
  BY DEF Init, ParentCanReap, NoLostChildWakeup
<1> QED  BY <1>1, <1>2, <1>3, <1>4, <1>5, <1>6 DEF IInv

\* A process that runs in user mode, at the end of trap(), in init_main or
\* after schedule() returned in do_wait is runnable and waits for nothing.
LEMMA RunningFacts ==
  ASSUME IInv, NEW p \in Proc, irq = "none", current = p,
         at[p] \in {"user", "tail", "wait_ret", "init_fork", "init_wait", "sleep_ret"}
  PROVE  /\ state[p] = "RUNNABLE" /\ wait_state[p] = "none" /\ p # idleproc
         /\ at[p] # "sleep_ret" => p \notin Owners
<1>1. state[p] = "RUNNABLE"
  BY DEF IInv, TypeOK, Places, ExitPlaces
<1>2. wait_state[p] = "none"  BY <1>1 DEF IInv, WaitStateMeansAsleep
<1>3. p # idleproc  BY DEF IInv, Places
<1>4. at[p] # "sleep_ret" => p \notin Owners
  BY DEF IInv, TimerOwnersSleep
<1> QED  BY <1>1, <1>2, <1>3, <1>4

\* The timer part of the invariant, for steps that leave the timers alone.
LEMMA TimersAlone ==
  ASSUME IInv, UNCHANGED timers, irq' = "fire" <=> irq = "fire",
         \A q \in Owners : at'[q] \in {"sleep_sched", "sleep_ret"},
         \A q \in User : wait_state'[q] = "TIMER" => wait_state[q] = "TIMER"
  PROVE  TimersExact' /\ TimerOwnersSleep'
<1>1. TimersExact'  BY TimersStutter DEF IInv
<1>2. Owners' = Owners  BY DEF Owners
<1>3. TimerOwnersSleep'
  BY <1>2 DEF IInv, TimerOwnersSleep
<1> QED  BY <1>1, <1>3

\* Steps of the running process that only move it and change what it asked
\* for: the early returns of system calls, do_yield, the tail of trap().
LEMMA MoveIInv ==
  ASSUME IInv, NEW p \in Proc, irq = "none", current = p,
         at[p] \in {"user", "tail", "wait_ret", "init_wait"},
         NEW l \in {"user", "tail", "resched", "halt", "init_wait", "panic"},
         at' = [at EXCEPT ![p] = l],
         need_resched' \in [Proc -> BOOLEAN],
         waitpid' = waitpid \/ waitpid' = [waitpid EXCEPT ![p] = AnyChild],
         UNCHANGED <<timerVars, state, wait_state, exiting, parent, time_slice, current, rq>>
  PROVE  IInv'
<1>1. /\ state[p] = "RUNNABLE" /\ wait_state[p] = "none" /\ p # idleproc /\ p \notin Owners
  BY RunningFacts
<1>2. TypeOK'
  BY ResumeFacts DEF IInv, TypeOK, timerVars, AnyChild
<1>3. RunQueueExact'  BY DEF IInv, RunQueueExact, InRq
<1>4. Places' /\ WaitStateMeansAsleep'
  BY <1>1, ProcFacts DEF IInv, TypeOK, Places, WaitStateMeansAsleep, ExitPlaces, CurrentPlaces
<1>5. TimersExact' /\ TimerOwnersSleep'
  <2>1. \A q \in Owners : at'[q] \in {"sleep_sched", "sleep_ret"}
    BY <1>1 DEF IInv, TypeOK, TimerOwnersSleep
  <2> QED  BY <2>1, TimersAlone DEF timerVars
<1>6. ParentCanReap'
  BY <1>1, ProcFacts DEF IInv, TypeOK, ParentCanReap
<1>7. NoLostChildWakeup'
  BY <1>1, ProcFacts DEF IInv, TypeOK, NoLostChildWakeup, Kids, Children, Zombies
<1> QED  BY <1>2, <1>3, <1>4, <1>5, <1>6, <1>7 DEF IInv

\* schedule(): do_wait, do_sleep, do_exit, init_main or trap() switches away.
LEMMA SwitchIInv == ASSUME IInv, NEW p \in Proc, Switch(p) PROVE IInv'
<1>1. /\ current = p /\ at[p] \in DOMAIN Resume /\ Schedule(p)
      /\ at' = [at EXCEPT ![p] = Resume[at[p]]]
      /\ timers' = timers /\ irq' = irq /\ state' = state /\ wait_state' = wait_state
      /\ exiting' = exiting /\ parent' = parent /\ waitpid' = waitpid
  BY DEF Switch, timerVars
<1>2. QueueInv  BY DEF IInv, QueueInv, Places
<1>3. /\ need_resched' \in [Proc -> BOOLEAN] /\ time_slice' \in [Proc -> 0 .. max_time_slice]
      /\ rq' \in Seq(Proc) /\ current' \in Proc /\ state[current'] = "RUNNABLE"
      /\ RunQueueExact'
  BY <1>1, <1>2, ScheduleQueue
<1>4. /\ at[p] = "wait_sched" => at'[p] = "wait_ret"
      /\ at[p] = "sleep_sched" => at'[p] = "sleep_ret"
      /\ at[p] = "exit_sched" => at'[p] = "dead"
      /\ at[p] = "init_sched" => at'[p] = "init_wait"
      /\ at[p] = "resched" => at'[p] = "user"
      /\ at[p] \in {"wait_sched", "sleep_sched", "exit_sched", "init_sched", "resched"}
      /\ \A q \in Proc \ {p} : at'[q] = at[q]
  BY <1>1, ResumeFacts DEF IInv, TypeOK
<1>5. TypeOK'
  BY <1>1, <1>3, <1>4, ResumeFacts DEF IInv, TypeOK
<1>6. Places' /\ WaitStateMeansAsleep'
  <2>1. p # idleproc  BY <1>4 DEF IInv, Places
  <2>2. \A q \in Proc : at'[q] \notin CurrentPlaces
    BY <1>1, <1>4 DEF IInv, Places, CurrentPlaces, ExitPlaces
  <2>3. Places'
    <3>1. /\ state'[idleproc] = "RUNNABLE" /\ at'[idleproc] = "idle"
          /\ state'[initproc] \in {"RUNNABLE", "SLEEPING"}
      BY <2>1, <1>1, <1>4, ProcFacts DEF IInv, Places
    <3>2. \A q \in Proc : /\ at'[q] = "none" <=> state'[q] = "FREE"
                          /\ at'[q] \in ExitPlaces \cup {"dead"} <=> state'[q] = "ZOMBIE"
      BY <1>1, <1>4 DEF IInv, Places, ExitPlaces
    <3>3. \A q \in Proc : /\ wait_state'[q] = "CHILD" => at'[q] \in {"wait_sched", "wait_ret"}
                          /\ wait_state'[q] = "TIMER" => at'[q] \in {"sleep_sched", "sleep_ret"}
      BY <1>1, <1>4 DEF IInv, Places
    <3>4. state'[current'] = "RUNNABLE"
      BY <1>1, <1>3
    <3> QED BY <2>2, <3>1, <3>2, <3>3, <3>4 DEF Places
  <2>4. WaitStateMeansAsleep'
    BY <1>1, <1>3, <1>4, ProcFacts DEF IInv, TypeOK, WaitStateMeansAsleep
  <2> QED BY <2>3, <2>4
<1>7. TimersExact' /\ TimerOwnersSleep'
  <2>1. \A q \in Owners : at'[q] \in {"sleep_sched", "sleep_ret"}
    BY <1>4, ProcFacts DEF IInv, TimerOwnersSleep
  <2> QED  BY <2>1, <1>1, TimersAlone
<1>8. ParentCanReap'
  BY <1>1, <1>4, ProcFacts DEF IInv, TypeOK, ParentCanReap
<1>9. NoLostChildWakeup'
  BY <1>1, <1>4, ProcFacts DEF IInv, TypeOK, NoLostChildWakeup, Kids, Children, Zombies
<1> QED  BY <1>3, <1>5, <1>6, <1>7, <1>8, <1>9 DEF IInv

\* cpu_idle hands the CPU over.
LEMMA CpuIdleIInv == ASSUME IInv, CpuIdle PROVE IInv'
<1>1. /\ current = idleproc /\ irq = "none" /\ Schedule(idleproc)
      /\ timers' = timers /\ irq' = irq /\ state' = state /\ wait_state' = wait_state
      /\ exiting' = exiting /\ parent' = parent /\ waitpid' = waitpid /\ at' = at
  BY DEF CpuIdle, timerVars, Running
<1>2. QueueInv  BY DEF IInv, QueueInv, Places
<1>3. /\ need_resched' \in [Proc -> BOOLEAN] /\ time_slice' \in [Proc -> 0 .. max_time_slice]
      /\ rq' \in Seq(Proc) /\ current' \in Proc /\ state[current'] = "RUNNABLE"
      /\ RunQueueExact'
  BY <1>1, <1>2, ScheduleQueue, ProcFacts
<1>4. TypeOK'  BY <1>1, <1>3 DEF IInv, TypeOK
<1>5. Places' /\ WaitStateMeansAsleep'
  BY <1>1, <1>3, ProcFacts
     DEF IInv, TypeOK, Places, WaitStateMeansAsleep, CurrentPlaces, ExitPlaces
<1>6. TimersExact' /\ TimerOwnersSleep'
  <2>1. \A q \in Owners : at'[q] \in {"sleep_sched", "sleep_ret"}
    BY <1>1 DEF IInv, TimerOwnersSleep
  <2> QED  BY <2>1, <1>1, TimersAlone
<1>7. ParentCanReap' /\ NoLostChildWakeup'
  BY <1>1 DEF IInv, ParentCanReap, NoLostChildWakeup, Kids, Children, Zombies
<1> QED  BY <1>3, <1>4, <1>5, <1>6, <1>7 DEF IInv

\* do_fork, by a system call or by init_main.
LEMMA ForkIInv ==
  ASSUME IInv, NEW p \in Proc, NEW c \in User, irq = "none", current = p,
         at[p] \in {"user", "init_fork"}, DoFork(p, c),
         NEW l \in {"tail", "init_wait"}, at' = [at EXCEPT ![p] = l, ![c] = "user"]
  PROVE  IInv'
<1>1. state[p] = "RUNNABLE" /\ wait_state[p] = "none" /\ p # idleproc /\ p \notin Owners
  BY RunningFacts
<1>2. /\ state[c] = "FREE" /\ parent' = [parent EXCEPT ![c] = p] /\ WakeupProc(c)
      /\ timers' = timers /\ irq' = irq /\ exiting' = exiting
      /\ need_resched' = need_resched /\ current' = current /\ waitpid' = waitpid
  BY DEF DoFork, timerVars
<1>3. c \in Proc /\ c # p /\ c # idleproc /\ c # initproc  BY <1>1, <1>2, ProcFacts
<1>4. /\ state' = [state EXCEPT ![c] = "RUNNABLE"]
      /\ wait_state' = [wait_state EXCEPT ![c] = "none"]
  BY <1>2, <1>3, WakeupState DEF IInv
<1>5. /\ time_slice' \in [Proc -> 0 .. max_time_slice] /\ rq' \in Seq(Proc) /\ RunQueueExact'
  BY <1>2, <1>3, WakeupQueue DEF IInv, QueueInv, Places
<1>6. at'[p] = l /\ at'[c] = "user" /\ \A q \in Proc \ {p, c} : at'[q] = at[q]
  BY <1>3 DEF IInv, TypeOK
<1>7. TypeOK'
  BY <1>2, <1>3, <1>4, <1>5 DEF IInv, TypeOK
<1>8. Places' /\ WaitStateMeansAsleep'
  <2>1. /\ state'[c] = "RUNNABLE" /\ wait_state'[c] = "none"
        /\ \A q \in Proc \ {c} : state'[q] = state[q] /\ wait_state'[q] = wait_state[q]
    BY <1>4, <1>3 DEF IInv, TypeOK
  <2>2. WaitStateMeansAsleep'  BY <2>1 DEF IInv, WaitStateMeansAsleep
  <2>3. ASSUME NEW q \in Proc
        PROVE  /\ at'[q] = "none" <=> state'[q] = "FREE"
               /\ at'[q] \in ExitPlaces \cup {"dead"} <=> state'[q] = "ZOMBIE"
               /\ at'[q] \in CurrentPlaces => q = current
               /\ wait_state'[q] = "CHILD" => at'[q] \in {"wait_sched", "wait_ret"}
               /\ wait_state'[q] = "TIMER" => at'[q] \in {"sleep_sched", "sleep_ret"}
    <3>1. CASE q = p
      BY <3>1, <1>1, <1>3, <1>6, <2>1 DEF CurrentPlaces, ExitPlaces
    <3>2. CASE q = c
      BY <3>2, <1>6, <2>1 DEF CurrentPlaces, ExitPlaces
    <3>3. CASE q # p /\ q # c
      <4>1. at'[q] = at[q] /\ state'[q] = state[q] /\ wait_state'[q] = wait_state[q]
        BY <3>3, <1>6, <2>1
      <4>2. /\ at[q] = "none" <=> state[q] = "FREE"
            /\ at[q] \in ExitPlaces \cup {"dead"} <=> state[q] = "ZOMBIE"
            /\ at[q] \in CurrentPlaces => q = current
            /\ wait_state[q] = "CHILD" => at[q] \in {"wait_sched", "wait_ret"}
            /\ wait_state[q] = "TIMER" => at[q] \in {"sleep_sched", "sleep_ret"}
        BY DEF IInv, Places
      <4> QED  BY ONLY <4>1, <4>2
    <3> QED  BY <3>1, <3>2, <3>3
  <2>5. /\ state'[idleproc] = "RUNNABLE" /\ at'[idleproc] = "idle"
        /\ state'[initproc] \in {"RUNNABLE", "SLEEPING"} /\ state'[current] = "RUNNABLE"
    BY <1>1, <1>3, <1>6, <2>1, ProcFacts DEF IInv, Places
  <2> QED  BY <2>2, <2>3, <2>5, <1>2 DEF Places
<1>9. TimersExact' /\ TimerOwnersSleep'
  <2>1. at[c] = "none"  BY <1>2, <1>3 DEF IInv, Places
  <2>2. \A q \in Owners : at'[q] \in {"sleep_sched", "sleep_ret"}
    BY <2>1, <1>1, <1>6, ProcFacts DEF IInv, TimerOwnersSleep
  <2>3. \A q \in User : wait_state'[q] = "TIMER" => wait_state[q] = "TIMER"
    BY <1>4, ProcFacts DEF IInv, TypeOK
  <2> QED  BY <2>2, <2>3, <1>2, TimersAlone
<1>10. ParentCanReap'
  <2> SUFFICES ASSUME NEW d \in User, state'[d] # "FREE"
               PROVE  \/ /\ state'[parent'[d]] \in {"RUNNABLE", "SLEEPING"}
                         /\ parent'[d] # idleproc
                      \/ at'[parent'[d]] \in {"exit_zombie", "exit_reparent"}
    BY DEF ParentCanReap
  <2>1. /\ \A q \in Proc \ {c} : state'[q] = state[q] /\ parent'[q] = parent[q]
        /\ parent'[c] = p /\ parent[d] \in Proc /\ d \in Proc
    BY <1>2, <1>3, <1>4, ProcFacts DEF IInv, TypeOK
  <2>2. CASE d = c
    BY <1>1, <1>3, <2>1, <2>2
  <2>3. CASE d # c
    <3>1. /\ parent'[d] = parent[d]
          /\ \/ state[parent[d]] \in {"RUNNABLE", "SLEEPING"} /\ parent[d] # idleproc
             \/ at[parent[d]] \in {"exit_zombie", "exit_reparent"}
      BY <2>1, <2>3 DEF IInv, ParentCanReap
    <3>2. at[c] = "none"
      BY <1>2, <1>3 DEF IInv, Places
    <3>3. CASE state[parent[d]] \in {"RUNNABLE", "SLEEPING"} /\ parent[d] # idleproc
      <4>1. parent[d] # c
        BY <1>2, <3>3
      <4> QED BY <2>1, <3>1, <3>3, <4>1
    <3>4. CASE at[parent[d]] \in {"exit_zombie", "exit_reparent"}
      <4>1. parent[d] # c /\ parent[d] # p
        BY <3>2, <3>4
      <4>2. at'[parent[d]] = at[parent[d]]
        BY <1>6, <2>1, <4>1
      <4> QED BY <3>1, <3>4, <4>2
    <3> QED BY <3>1, <3>3, <3>4
  <2> QED BY <2>2, <2>3
<1>11. NoLostChildWakeup'
  BY <1>1, <1>2, <1>3, <1>4, <1>6, ProcFacts
     DEF IInv, TypeOK, NoLostChildWakeup, Kids, Children, Zombies
<1> QED  BY <1>5, <1>7, <1>8, <1>9, <1>10, <1>11 DEF IInv

\* do_exit becomes a zombie, or panics for initproc.
LEMMA DoExitIInv ==
  ASSUME IInv, NEW p \in Proc, irq = "none", current = p,
         at[p] \in {"user", "tail", "wait_ret"}, DoExit(p)
  PROVE  IInv'
<1>1. state[p] = "RUNNABLE" /\ wait_state[p] = "none" /\ p # idleproc /\ p \notin Owners
  BY RunningFacts
<1>2. CASE p = initproc
  <2>1. at' = [at EXCEPT ![p] = "panic"] /\ state' = state
    BY <1>2 DEF DoExit
  <2>2. need_resched' \in [Proc -> BOOLEAN]  BY DEF DoExit, IInv, TypeOK
  <2> QED  BY <2>1, <2>2, MoveIInv DEF DoExit
<1>3. CASE p # initproc
  <2>1. /\ state' = [state EXCEPT ![p] = "ZOMBIE"]
        /\ at' = [at EXCEPT ![p] = "exit_zombie"]
        /\ waitpid' = [waitpid EXCEPT ![p] = AnyChild]
        /\ timers' = timers /\ irq' = irq /\ wait_state' = wait_state /\ exiting' = exiting
        /\ parent' = parent /\ need_resched' = need_resched /\ time_slice' = time_slice
        /\ current' = current /\ rq' = rq
    BY <1>3 DEF DoExit, timerVars
  <2>2. TypeOK'  BY <2>1 DEF IInv, TypeOK, AnyChild
  <2>3. RunQueueExact'
    <3>1. InRq' = InRq  BY <2>1 DEF InRq
    <3>2. {q \in Proc \ {current, idleproc} : state'[q] = "RUNNABLE"}
            = {q \in Proc \ {current, idleproc} : state[q] = "RUNNABLE"}
      BY <2>1 DEF IInv, TypeOK
    <3> QED  BY <3>1, <3>2, <2>1 DEF IInv, RunQueueExact
  <2>4. Places' /\ WaitStateMeansAsleep'
    <3>1. Places'
      BY <1>1, <1>3, <2>1, ProcFacts DEF IInv, TypeOK, Places, CurrentPlaces, ExitPlaces
    <3>2. WaitStateMeansAsleep'
      BY <1>1, <1>3, <2>1, ProcFacts DEF IInv, TypeOK, WaitStateMeansAsleep
    <3> QED BY <3>1, <3>2
  <2>5. TimersExact' /\ TimerOwnersSleep'
    <3>1. \A q \in Owners : at'[q] \in {"sleep_sched", "sleep_ret"}
      BY <1>1, <2>1, ProcFacts DEF IInv, TypeOK, TimerOwnersSleep
    <3> QED  BY <3>1, <2>1, TimersAlone
  <2>6. ParentCanReap'
    BY <1>1, <2>1, ProcFacts DEF IInv, TypeOK, ParentCanReap
  <2>7. NoLostChildWakeup'
    BY <1>1, <2>1, ProcFacts DEF IInv, TypeOK, NoLostChildWakeup, Kids, Children, Zombies
  <2> QED  BY <2>2, <2>3, <2>4, <2>5, <2>6, <2>7 DEF IInv
<1> QED  BY <1>2, <1>3

\* A wakeup in do_exit, do_kill or run_timer_list, with the running process p
\* going on to place l.
LEMMA WakeMove ==
  ASSUME IInv, NEW p \in Proc, current = p, current' = current,
         NEW q \in Proc, WakeupProc(q), state[q] \in {"RUNNABLE", "SLEEPING"},
         NEW l, at' = [at EXCEPT ![p] = l],
         \/ state[p] = "ZOMBIE" /\ l \in {"exit_reparent", "exit_sched"}
         \/ state[p] = "RUNNABLE" /\ p # idleproc /\ l = "tail"
         \/ l = at[p]
  PROVE  /\ state' = [state EXCEPT ![q] = "RUNNABLE"]
         /\ wait_state' = [wait_state EXCEPT ![q] = "none"]
         /\ state' \in [Proc -> {"FREE", "RUNNABLE", "SLEEPING", "ZOMBIE"}]
         /\ wait_state' \in [Proc -> {"none", "CHILD", "TIMER"}]
         /\ time_slice' \in [Proc -> 0 .. max_time_slice]
         /\ rq' \in Seq(Proc)
         /\ RunQueueExact' /\ Places' /\ WaitStateMeansAsleep'
<1>1. /\ state' = [state EXCEPT ![q] = "RUNNABLE"]
      /\ wait_state' = [wait_state EXCEPT ![q] = "none"]
  BY WakeupState DEF IInv
<1>2. /\ state' \in [Proc -> {"FREE", "RUNNABLE", "SLEEPING", "ZOMBIE"}]
      /\ wait_state' \in [Proc -> {"none", "CHILD", "TIMER"}]
      /\ time_slice' \in [Proc -> 0 .. max_time_slice]
      /\ rq' \in Seq(Proc) /\ RunQueueExact'
  BY WakeupQueue DEF IInv, QueueInv, Places
<1>3. /\ state'[q] = "RUNNABLE" /\ wait_state'[q] = "none"
      /\ \A r \in Proc \ {q} : state'[r] = state[r] /\ wait_state'[r] = wait_state[r]
  BY <1>1 DEF IInv, TypeOK
<1>4. at'[p] = l /\ \A r \in Proc \ {p} : at'[r] = at[r]
  BY DEF IInv, TypeOK
<1>5. WaitStateMeansAsleep'  BY <1>3 DEF IInv, WaitStateMeansAsleep
<1>6. ASSUME NEW r \in Proc
      PROVE  /\ at'[r] = "none" <=> state'[r] = "FREE"
             /\ at'[r] \in ExitPlaces \cup {"dead"} <=> state'[r] = "ZOMBIE"
             /\ at'[r] \in CurrentPlaces => r = current
             /\ wait_state'[r] = "CHILD" => at'[r] \in {"wait_sched", "wait_ret"}
             /\ wait_state'[r] = "TIMER" => at'[r] \in {"sleep_sched", "sleep_ret"}
  <2>1. /\ at[r] = "none" <=> state[r] = "FREE"
        /\ at[r] \in ExitPlaces \cup {"dead"} <=> state[r] = "ZOMBIE"
        /\ at[r] \in CurrentPlaces => r = current
        /\ wait_state[r] = "CHILD" => at[r] \in {"wait_sched", "wait_ret"}
        /\ wait_state[r] = "TIMER" => at[r] \in {"sleep_sched", "sleep_ret"}
        /\ wait_state[r] # "none" <=> state[r] = "SLEEPING"
    BY DEF IInv, Places, WaitStateMeansAsleep
  <2>2. CASE at'[r] = at[r]
    <3>1. CASE r = q  BY ONLY <3>1, <2>1, <2>2, <1>3, state[q] \in {"RUNNABLE", "SLEEPING"}
    <3>2. CASE r # q
      <4>1. state'[r] = state[r] /\ wait_state'[r] = wait_state[r]  BY <3>2, <1>3
      <4> QED  BY ONLY <4>1, <2>1, <2>2
    <3> QED  BY <3>1, <3>2
  <2>3. CASE r = p /\ state[p] = "ZOMBIE" /\ l \in {"exit_reparent", "exit_sched"}
    <3>1. r # q  BY <2>3
    <3>2. state'[r] = "ZOMBIE" /\ wait_state'[r] = wait_state[r] /\ at'[r] = l
      BY <2>3, <3>1, <1>3, <1>4
    <3>3. wait_state[r] = "none"  BY <2>1, <2>3
    <3> QED  BY <2>3, <3>2, <3>3 DEF CurrentPlaces, ExitPlaces
  <2>4. CASE r = p /\ state[p] = "RUNNABLE" /\ l = "tail"
    <3>1. state'[r] = "RUNNABLE" /\ wait_state'[r] = "none" /\ at'[r] = "tail"
      BY <2>1, <2>4, <1>3, <1>4
    <3> QED  BY <2>4, <3>1 DEF CurrentPlaces, ExitPlaces
  <2> QED  BY <2>2, <2>3, <2>4, <1>4
<1>7. /\ state'[idleproc] = "RUNNABLE" /\ at'[idleproc] = "idle"
      /\ state'[initproc] \in {"RUNNABLE", "SLEEPING"}
      /\ state'[current] # "FREE"
  <2>1. state[idleproc] = "RUNNABLE" /\ at[idleproc] = "idle"
        /\ state[initproc] \in {"RUNNABLE", "SLEEPING"} /\ state[current] # "FREE"
    BY DEF IInv, Places
  <2> QED  BY <2>1, <1>3, <1>4, ProcFacts
<1>8. state'[current] = "SLEEPING" => at'[current] \in {"wait_sched", "sleep_sched"}
  <2>1. state[current] = "SLEEPING" => at[current] \in {"wait_sched", "sleep_sched"}
    BY DEF IInv, Places
  <2> QED  BY <2>1, <1>3, <1>4
<1>9. Places'
  BY <1>6, <1>7, <1>8 DEF Places
<1> QED  BY <1>1, <1>2, <1>5, <1>9

\* A step without a wakeup is one that would wake idleproc, which is runnable.
LEMMA NoWakeup ==
  ASSUME IInv, UNCHANGED <<state, wait_state, rq, time_slice>> PROVE WakeupProc(idleproc)
BY DEF IInv, Places, WakeupProc

\* do_exit wakes the parent if that waits for a child.
LEMMA ExitNotifyIInv == ASSUME IInv, NEW p \in User, ExitNotify(p) PROVE IInv'
<1>1. /\ irq = "none" /\ current = p /\ at[p] = "exit_zombie"
      /\ at' = [at EXCEPT ![p] = "exit_reparent"]
      /\ timers' = timers /\ irq' = irq /\ exiting' = exiting /\ parent' = parent
      /\ need_resched' = need_resched /\ current' = current /\ waitpid' = waitpid
  BY DEF ExitNotify, Running, timerVars
<1>2. p \in Proc /\ state[p] = "ZOMBIE" /\ parent[p] \in Proc
  BY <1>1, ProcFacts DEF IInv, Places, ExitPlaces, TypeOK
<1>3. PICK q \in Proc : /\ WakeupProc(q) /\ state[q] \in {"RUNNABLE", "SLEEPING"}
                        /\ wait_state[parent[p]] = "CHILD" => q = parent[p]
  <2>1. CASE wait_state[parent[p]] = "CHILD"
    BY <2>1, <1>2 DEF ExitNotify, IInv, WaitStateMeansAsleep
  <2>2. CASE wait_state[parent[p]] # "CHILD"
    <3>1. WakeupProc(idleproc)  BY <2>2, NoWakeup DEF ExitNotify
    <3> QED  BY <3>1, <2>2, ProcFacts DEF IInv, Places
  <2> QED  BY <2>1, <2>2
<1>4. /\ state' = [state EXCEPT ![q] = "RUNNABLE"]
      /\ wait_state' = [wait_state EXCEPT ![q] = "none"]
      /\ state' \in [Proc -> {"FREE", "RUNNABLE", "SLEEPING", "ZOMBIE"}]
      /\ wait_state' \in [Proc -> {"none", "CHILD", "TIMER"}]
      /\ time_slice' \in [Proc -> 0 .. max_time_slice] /\ rq' \in Seq(Proc)
      /\ RunQueueExact' /\ Places' /\ WaitStateMeansAsleep'
  BY <1>1, <1>2, <1>3, WakeMove
<1>5. TypeOK'  BY <1>1, <1>4 DEF IInv, TypeOK
<1>6. TimersExact' /\ TimerOwnersSleep'
  <2>1. \A r \in Owners : at'[r] \in {"sleep_sched", "sleep_ret"}
    BY <1>1, ProcFacts DEF IInv, TypeOK, TimerOwnersSleep
  <2>2. \A r \in User : wait_state'[r] = "TIMER" => wait_state[r] = "TIMER"
    BY <1>4, ProcFacts DEF IInv, TypeOK
  <2> QED  BY <2>1, <2>2, <1>1, TimersAlone
<1>7. ParentCanReap'
  BY <1>1, <1>2, <1>3, <1>4, ProcFacts DEF IInv, TypeOK, ParentCanReap
<1>8. NoLostChildWakeup'
  <2> SUFFICES ASSUME NEW r \in Proc, wait_state'[r] = "CHILD",
                      NEW z \in (Kids(r, waitpid[r]) \cap Zombies)'
               PROVE  at'[z] = "exit_zombie"
    BY <1>1 DEF NoLostChildWakeup
  <2>1. r # q /\ wait_state[r] = "CHILD"
    BY <1>4 DEF IInv, TypeOK
  <2>2. z \in User /\ z \in Proc /\ parent[z] = r /\ state'[z] = "ZOMBIE" /\ z \in Kids(r, waitpid[r])'
    BY <1>1, ProcFacts DEF Kids, Children, Zombies
  <2>3. state[z] = "ZOMBIE"
    BY <1>4, <2>2 DEF IInv, TypeOK
  <2>4. z \in Kids(r, waitpid[r]) \cap Zombies
    BY <1>1, <2>2, <2>3 DEF Kids, Children, Zombies
  <2>5. z # p
    BY <1>3, <2>1, <2>2
  <2>6. at[z] = "exit_zombie"
    BY <2>1, <2>4 DEF IInv, NoLostChildWakeup
  <2> QED BY <1>1, <2>2, <2>5, <2>6 DEF IInv, TypeOK
<1> QED  BY <1>4, <1>5, <1>6, <1>7, <1>8 DEF IInv

\* do_exit hands its children to initproc and wakes it for a zombie among them.
LEMMA ExitReparentIInv == ASSUME IInv, NEW p \in User, ExitReparent(p) PROVE IInv'
<1>1. /\ irq = "none" /\ current = p /\ at[p] = "exit_reparent"
      /\ at' = [at EXCEPT ![p] = "exit_sched"]
      /\ parent' = [c \in Proc |-> IF c \in Children(p) THEN initproc ELSE parent[c]]
      /\ timers' = timers /\ irq' = irq /\ exiting' = exiting
      /\ need_resched' = need_resched /\ current' = current /\ waitpid' = waitpid
  BY DEF ExitReparent, Running, timerVars, Adopted
<1>2. p \in Proc /\ state[p] = "ZOMBIE" /\ p # initproc /\ p # idleproc
  BY <1>1, ProcFacts DEF IInv, Places, ExitPlaces
<1>3. PICK q \in Proc : /\ WakeupProc(q) /\ state[q] \in {"RUNNABLE", "SLEEPING"}
                        /\ WakesInit(p) => q = initproc
  <2>1. CASE WakesInit(p)
    BY <2>1, ProcFacts DEF ExitReparent, IInv, Places
  <2>2. CASE ~WakesInit(p)
    <3>1. WakeupProc(idleproc)  BY <2>2, NoWakeup DEF ExitReparent
    <3> QED  BY <3>1, <2>2, ProcFacts DEF IInv, Places
  <2> QED  BY <2>1, <2>2
<1>4. /\ state' = [state EXCEPT ![q] = "RUNNABLE"]
      /\ wait_state' = [wait_state EXCEPT ![q] = "none"]
      /\ state' \in [Proc -> {"FREE", "RUNNABLE", "SLEEPING", "ZOMBIE"}]
      /\ wait_state' \in [Proc -> {"none", "CHILD", "TIMER"}]
      /\ time_slice' \in [Proc -> 0 .. max_time_slice] /\ rq' \in Seq(Proc)
      /\ RunQueueExact' /\ Places' /\ WaitStateMeansAsleep'
  BY <1>1, <1>2, <1>3, WakeMove
<1>5. TypeOK'
  <2>1. at' \in [Proc -> {"none", "dead", "user", "tail", "idle", "halt", "panic",
                          "init_fork", "init_wait", "wait_ret", "sleep_ret",
                          "exit_zombie", "exit_reparent"} \cup DOMAIN Resume]
    BY <1>1, <1>2, ResumeFacts DEF IInv, TypeOK
  <2>2. parent' \in [Proc -> Proc]
    BY <1>1, ProcFacts DEF IInv, TypeOK
  <2> QED BY <1>1, <1>4, <2>1, <2>2 DEF IInv, TypeOK
<1>6. TimersExact' /\ TimerOwnersSleep'
  <2>1. \A r \in Owners : at'[r] \in {"sleep_sched", "sleep_ret"}
    BY <1>1, ProcFacts DEF IInv, TypeOK, TimerOwnersSleep
  <2>2. \A r \in User : wait_state'[r] = "TIMER" => wait_state[r] = "TIMER"
    BY <1>4, ProcFacts DEF IInv, TypeOK
  <2> QED  BY <2>1, <2>2, <1>1, TimersAlone
<1>7. \A c \in Proc : state'[c] = "FREE" <=> state[c] = "FREE"
  BY <1>3, <1>4 DEF IInv, TypeOK
<1>8. ParentCanReap'
  <2> SUFFICES ASSUME NEW c \in User, state[c] # "FREE"
               PROVE  \/ /\ state'[parent'[c]] \in {"RUNNABLE", "SLEEPING"}
                         /\ parent'[c] # idleproc
                      \/ at'[parent'[c]] \in {"exit_zombie", "exit_reparent"}
    BY <1>7, ProcFacts DEF ParentCanReap
  <2>1. CASE c \in Children(p)
    <3>1. parent'[c] = initproc  BY <2>1, <1>1, ProcFacts
    <3> QED  BY <3>1, <1>4, ProcFacts DEF Places
  <2>2. CASE c \notin Children(p)
    <3>1. parent'[c] = parent[c] /\ parent[c] \in Proc /\ parent[c] # p
      BY <2>2, <1>1, ProcFacts DEF Children, IInv, TypeOK
    <3>2. at'[parent[c]] = at[parent[c]]  BY <3>1, <1>1 DEF IInv, TypeOK
    <3>3. state[parent[c]] \in {"RUNNABLE", "SLEEPING"}
             => state'[parent[c]] \in {"RUNNABLE", "SLEEPING"}
      BY <3>1, <1>4 DEF IInv, TypeOK
    <3> QED  BY <3>1, <3>2, <3>3 DEF IInv, ParentCanReap
  <2> QED  BY <2>1, <2>2
<1>9. NoLostChildWakeup'
  <2> SUFFICES ASSUME NEW r \in Proc, wait_state'[r] = "CHILD",
                      NEW z \in User, state'[z] = "ZOMBIE", parent'[z] = r,
                      waitpid[r] = AnyChild \/ waitpid[r] = z
               PROVE  at'[z] = "exit_zombie"
    BY <1>1 DEF NoLostChildWakeup, Kids, Children, Zombies
  <2>1. z \in Proc /\ state[z] = "ZOMBIE" /\ wait_state[r] = "CHILD" /\ r # q
    BY <1>3, <1>4, ProcFacts DEF IInv, TypeOK
  <2>2. CASE z \in Children(p)
    <3>1. r = initproc  BY <2>1, <2>2, <1>1
    <3>2. WakesInit(p)  BY <2>1, <2>2, <3>1 DEF WakesInit, Adopted, Zombies
    <3> QED  BY <3>1, <3>2, <2>1, <1>3
  <2>3. CASE z \notin Children(p)
    <3>1. parent[z] = r  BY <2>1, <2>3, <1>1
    <3>2. at[z] = "exit_zombie"
      BY <3>1, <2>1 DEF IInv, NoLostChildWakeup, Kids, Children, Zombies
    <3> QED  BY <3>2, <2>1, <1>1 DEF IInv, TypeOK
  <2> QED  BY <2>2, <2>3
<1> QED  BY <1>4, <1>5, <1>6, <1>8, <1>9 DEF IInv

\* do_wait frees a zombie child.
LEMMA WaitReapIInv ==
  ASSUME IInv, NEW p \in Proc, irq = "none", current = p,
         at[p] \in {"user", "wait_ret", "init_wait"},
         NEW t \in User \cup {AnyChild}, WaitReap(p, t)
  PROVE  IInv'
<1>1. state[p] = "RUNNABLE" /\ wait_state[p] = "none" /\ p # idleproc /\ p \notin Owners
  BY RunningFacts
<1> DEFINE l == IF p = initproc THEN "init_sched" ELSE "tail"
<1>2. PICK z \in Kids(p, t) \cap Zombies :
        /\ state' = [state EXCEPT ![z] = "FREE"]
        /\ at' = [at EXCEPT ![z] = "none", ![p] = l]
        /\ parent' = [parent EXCEPT ![z] = idleproc]
        /\ exiting' = [exiting EXCEPT ![z] = FALSE]
        /\ time_slice' = [time_slice EXCEPT ![z] = 0]
  BY DEF WaitReap
<1>3. /\ waitpid' = [waitpid EXCEPT ![p] = AnyChild]
      /\ timers' = timers /\ irq' = irq /\ wait_state' = wait_state
      /\ need_resched' = need_resched /\ current' = current /\ rq' = rq
  BY DEF WaitReap, timerVars
<1>4. /\ z \in User /\ z \in Proc /\ state[z] = "ZOMBIE" /\ parent[z] = p /\ z # p
      /\ z # idleproc /\ z # initproc
  BY <1>1, ProcFacts DEF Kids, Children, Zombies
<1>5. at[z] = "dead"
  BY <1>4 DEF IInv, Places, CurrentPlaces, ExitPlaces
<1>6. l \in {"init_sched", "tail"}  OBVIOUS
<1> HIDE DEF l
<1>7. /\ at'[z] = "none" /\ at'[p] = l /\ \A r \in Proc \ {z, p} : at'[r] = at[r]
      /\ state'[z] = "FREE" /\ \A r \in Proc \ {z} : state'[r] = state[r]
      /\ parent'[z] = idleproc /\ \A r \in Proc \ {z} : parent'[r] = parent[r]
  BY <1>2, <1>4 DEF IInv, TypeOK
<1>8. TypeOK'
  <2>1. at' \in [Proc -> {"none", "dead", "user", "tail", "idle", "halt", "panic",
                          "init_fork", "init_wait", "wait_ret", "sleep_ret",
                          "exit_zombie", "exit_reparent"} \cup DOMAIN Resume]
    BY <1>2, <1>6, ResumeFacts DEF IInv, TypeOK
  <2>2. time_slice' \in [Proc -> 0 .. max_time_slice]
    <3>1. 0 \in 0 .. max_time_slice  BY ProcessAssumption
    <3>2. time_slice \in [Proc -> 0 .. max_time_slice]  BY DEF IInv, TypeOK
    <3>3. time_slice' = [time_slice EXCEPT ![z] = 0]  BY <1>2
    <3> QED  BY ONLY <3>1, <3>2, <3>3
  <2>3. /\ state' \in [Proc -> {"FREE", "RUNNABLE", "SLEEPING", "ZOMBIE"}]
        /\ parent' \in [Proc -> Proc] /\ exiting' \in [Proc -> BOOLEAN]
    BY <1>2, ProcFacts DEF IInv, TypeOK
  <2>4. waitpid' \in [Proc -> User \cup {AnyChild}]  BY <1>3 DEF IInv, TypeOK
  <2> QED  BY <2>1, <2>2, <2>3, <2>4, <1>3 DEF IInv, TypeOK
<1>9. RunQueueExact'
  <2>1. InRq' = InRq  BY <1>3 DEF InRq
  <2>2. {r \in Proc \ {current, idleproc} : state'[r] = "RUNNABLE"}
          = {r \in Proc \ {current, idleproc} : state[r] = "RUNNABLE"}
    BY <1>4, <1>7
  <2> QED  BY <2>1, <2>2, <1>3 DEF IInv, RunQueueExact
<1>10. WaitStateMeansAsleep'
  BY <1>3, <1>4, <1>7 DEF IInv, WaitStateMeansAsleep
<1>11. Places'
  <2>1. ASSUME NEW r \in Proc
        PROVE  /\ at'[r] = "none" <=> state'[r] = "FREE"
               /\ at'[r] \in ExitPlaces \cup {"dead"} <=> state'[r] = "ZOMBIE"
               /\ at'[r] \in CurrentPlaces => r = current
               /\ wait_state[r] = "CHILD" => at'[r] \in {"wait_sched", "wait_ret"}
               /\ wait_state[r] = "TIMER" => at'[r] \in {"sleep_sched", "sleep_ret"}
    <3>1. CASE r = p
      BY <3>1, <1>1, <1>4, <1>6, <1>7 DEF CurrentPlaces, ExitPlaces
    <3>2. CASE r = z
      <4>1. wait_state[z] = "none"  BY <1>4 DEF IInv, TypeOK, WaitStateMeansAsleep
      <4> QED  BY <3>2, <4>1, <1>7 DEF CurrentPlaces, ExitPlaces
    <3>3. CASE r # p /\ r # z
      <4>1. at'[r] = at[r] /\ state'[r] = state[r]  BY <3>3, <1>7
      <4>2. /\ at[r] = "none" <=> state[r] = "FREE"
            /\ at[r] \in ExitPlaces \cup {"dead"} <=> state[r] = "ZOMBIE"
            /\ at[r] \in CurrentPlaces => r = current
            /\ wait_state[r] = "CHILD" => at[r] \in {"wait_sched", "wait_ret"}
            /\ wait_state[r] = "TIMER" => at[r] \in {"sleep_sched", "sleep_ret"}
        BY DEF IInv, Places
      <4> QED  BY ONLY <4>1, <4>2
    <3> QED  BY <3>1, <3>2, <3>3
  <2>2. /\ state'[idleproc] = "RUNNABLE" /\ at'[idleproc] = "idle"
        /\ state'[initproc] \in {"RUNNABLE", "SLEEPING"} /\ state'[current] = "RUNNABLE"
    BY <1>1, <1>4, <1>7, ProcFacts DEF IInv, Places
  <2> QED  BY <2>1, <2>2, <1>3 DEF Places
<1>12. TimersExact' /\ TimerOwnersSleep'
  <2>1. \A r \in Owners : at'[r] \in {"sleep_sched", "sleep_ret"}
    BY <1>1, <1>5, <1>7, ProcFacts DEF IInv, TimerOwnersSleep
  <2> QED  BY <2>1, <1>3, TimersAlone
<1>13. ParentCanReap'
  <2> SUFFICES ASSUME NEW c \in User, state'[c] # "FREE"
               PROVE  \/ /\ state'[parent'[c]] \in {"RUNNABLE", "SLEEPING"}
                         /\ parent'[c] # idleproc
                      \/ at'[parent'[c]] \in {"exit_zombie", "exit_reparent"}
    BY DEF ParentCanReap
  <2>1. c \in Proc /\ c # z /\ state[c] # "FREE" /\ parent'[c] = parent[c] /\ parent[c] \in Proc
    BY <1>7, ProcFacts DEF IInv, TypeOK
  <2>2. \/ state[parent[c]] \in {"RUNNABLE", "SLEEPING"} /\ parent[c] # idleproc
        \/ at[parent[c]] \in {"exit_zombie", "exit_reparent"}
    BY <2>1 DEF IInv, ParentCanReap
  <2>3. parent[c] # z  BY <2>2, <1>4, <1>5
  <2>4. state'[parent[c]] = state[parent[c]]  BY <2>1, <2>3, <1>7
  <2>5. CASE parent[c] = p  BY <2>1, <2>4, <2>5, <1>1
  <2>6. CASE parent[c] # p
    <3>1. at'[parent[c]] = at[parent[c]]  BY <2>1, <2>3, <2>6, <1>7
    <3> QED  BY <2>1, <2>2, <2>4, <3>1
  <2> QED  BY <2>5, <2>6
<1>14. NoLostChildWakeup'
  <2> SUFFICES ASSUME NEW r \in Proc, wait_state[r] = "CHILD",
                      NEW y \in User, state'[y] = "ZOMBIE", parent'[y] = r,
                      waitpid'[r] = AnyChild \/ waitpid'[r] = y
               PROVE  at'[y] = "exit_zombie"
    BY <1>3 DEF NoLostChildWakeup, Kids, Children, Zombies
  <2>1. y \in Proc /\ y # z /\ y # p /\ r # p /\ state[y] = "ZOMBIE" /\ parent[y] = r
    BY <1>1, <1>7, ProcFacts
  <2>2. waitpid'[r] = waitpid[r]  BY <2>1, <1>3 DEF IInv, TypeOK
  <2>3. at[y] = "exit_zombie"
    BY <2>1, <2>2 DEF IInv, NoLostChildWakeup, Kids, Children, Zombies
  <2> QED  BY <2>1, <2>3, <1>7
<1> QED  BY <1>8, <1>9, <1>10, <1>11, <1>12, <1>13, <1>14 DEF IInv

\* do_wait goes to sleep: its scan has found children, and no zombie.
LEMMA WaitSleepIInv ==
  ASSUME IInv, NEW p \in Proc, irq = "none", current = p,
         at[p] \in {"user", "wait_ret", "init_wait"},
         NEW t \in User \cup {AnyChild}, WaitSleep(p, t)
  PROVE  IInv'
<1>1. state[p] = "RUNNABLE" /\ wait_state[p] = "none" /\ p # idleproc /\ p \notin Owners
  BY RunningFacts
<1>2. /\ Kids(p, t) \cap Zombies = {}
      /\ state' = [state EXCEPT ![p] = "SLEEPING"]
      /\ wait_state' = [wait_state EXCEPT ![p] = "CHILD"]
      /\ waitpid' = [waitpid EXCEPT ![p] = t]
      /\ at' = [at EXCEPT ![p] = "wait_sched"]
      /\ timers' = timers /\ irq' = irq /\ exiting' = exiting /\ parent' = parent
      /\ need_resched' = need_resched /\ time_slice' = time_slice
      /\ current' = current /\ rq' = rq
  BY DEF WaitSleep, timerVars
<1>3. TypeOK'  BY <1>2, ResumeFacts DEF IInv, TypeOK
<1>4. RunQueueExact'
  <2>1. InRq' = InRq  BY <1>2 DEF InRq
  <2>2. {r \in Proc \ {current, idleproc} : state'[r] = "RUNNABLE"}
          = {r \in Proc \ {current, idleproc} : state[r] = "RUNNABLE"}
    BY <1>2 DEF IInv, TypeOK
  <2> QED  BY <2>1, <2>2, <1>2 DEF IInv, RunQueueExact
<1>5. Places' /\ WaitStateMeansAsleep'
  <2>1. /\ p \in Proc /\ idleproc \in Proc /\ initproc \in Proc /\ p # idleproc
        /\ current = p /\ current' = p /\ state[p] = "RUNNABLE" /\ at[p] # "idle"
        /\ state'[p] = "SLEEPING" /\ \A r \in Proc : r # p => state'[r] = state[r]
        /\ wait_state'[p] = "CHILD" /\ \A r \in Proc : r # p => wait_state'[r] = wait_state[r]
        /\ at'[p] = "wait_sched" /\ \A r \in Proc : r # p => at'[r] = at[r]
    BY <1>1, <1>2, ProcFacts DEF IInv, TypeOK
  <2>2. Places /\ WaitStateMeansAsleep  BY DEF IInv
  <2>3. Places'
    BY <2>1, <2>2, PlacesMove DEF ExitPlaces
  <2>4. WaitStateMeansAsleep'
    BY ONLY <2>1, <2>2 DEF WaitStateMeansAsleep
  <2> QED  BY <2>3, <2>4
<1>6. TimersExact' /\ TimerOwnersSleep'
  <2>1. \A r \in Owners : at'[r] \in {"sleep_sched", "sleep_ret"}
    BY <1>1, <1>2, ProcFacts DEF IInv, TypeOK, TimerOwnersSleep
  <2>2. \A r \in User : wait_state'[r] = "TIMER" => wait_state[r] = "TIMER"
    BY <1>2, ProcFacts DEF IInv, TypeOK
  <2> QED  BY <2>1, <2>2, <1>2, TimersAlone
<1>7. ParentCanReap'
  BY <1>1, <1>2, ProcFacts DEF IInv, TypeOK, ParentCanReap
<1>8. NoLostChildWakeup'
  <2> SUFFICES ASSUME NEW r \in Proc, wait_state'[r] = "CHILD",
                      NEW z \in User, state'[z] = "ZOMBIE", parent[z] = r,
                      waitpid'[r] = AnyChild \/ waitpid'[r] = z
               PROVE  at'[z] = "exit_zombie"
    BY <1>2 DEF NoLostChildWakeup, Kids, Children, Zombies
  <2>1. z \in Proc /\ z # p /\ state[z] = "ZOMBIE" /\ at'[z] = at[z]
    BY <1>2, ProcFacts DEF IInv, TypeOK
  <2>2. CASE r = p
    <3>1. waitpid'[r] = t  BY <2>2, <1>2 DEF IInv, TypeOK
    <3> QED  BY <3>1, <2>1, <2>2, <1>2 DEF Kids, Children, Zombies
  <2>3. CASE r # p
    <3>1. wait_state[r] = "CHILD" /\ waitpid'[r] = waitpid[r]
      BY <2>3, <1>2 DEF IInv, TypeOK
    <3> QED  BY <3>1, <2>1 DEF IInv, NoLostChildWakeup, Kids, Children, Zombies
  <2> QED  BY <2>2, <2>3
<1> QED  BY <1>3, <1>4, <1>5, <1>6, <1>7, <1>8 DEF IInv

\* do_wait, entered by a system call, by init_main or again after a wakeup.
LEMMA DoWaitIInv ==
  ASSUME IInv, NEW p \in Proc, irq = "none", current = p,
         at[p] \in {"user", "wait_ret", "init_wait"},
         NEW t \in User \cup {AnyChild}, DoWait(p, t)
  PROVE  IInv'
<1>1. CASE WaitReap(p, t)  BY <1>1, WaitReapIInv
<1>2. CASE WaitSleep(p, t)  BY <1>2, WaitSleepIInv
<1>3. CASE WaitNoChild(p, t)
  <2> DEFINE l == IF p = initproc THEN "halt" ELSE "tail"
  <2>1. l \in {"user", "tail", "resched", "halt", "init_wait", "panic"}  OBVIOUS
  <2>2. at' = [at EXCEPT ![p] = l] /\ waitpid' = [waitpid EXCEPT ![p] = AnyChild]
        /\ UNCHANGED <<timerVars, state, wait_state, exiting, parent, time_slice, current, rq>>
        /\ need_resched' \in [Proc -> BOOLEAN]
    BY <1>3 DEF WaitNoChild, IInv, TypeOK
  <2> HIDE DEF l
  <2> QED  BY <2>1, <2>2, MoveIInv
<1> QED  BY <1>1, <1>2, <1>3 DEF DoWait

\* do_wait goes on after its schedule().
LEMMA WaitRetIInv == ASSUME IInv, NEW p \in Proc, WaitRet(p) PROVE IInv'
<1>1. irq = "none" /\ current = p /\ at[p] = "wait_ret"  BY DEF WaitRet, Running
<1>2. CASE exiting[p]  BY <1>1, <1>2, DoExitIInv DEF WaitRet
<1>3. CASE ~exiting[p]
  <2>1. waitpid[p] \in User \cup {AnyChild}  BY DEF IInv, TypeOK
  <2> QED  BY <1>1, <1>3, <2>1, DoWaitIInv DEF WaitRet
<1> QED  BY <1>2, <1>3

\* do_kill sets PF_EXITING and wakes a process in an interruptible sleep.
LEMMA SysKillIInv ==
  ASSUME IInv, NEW p \in User, NEW t \in User \cup {initproc}, SysKill(p, t) PROVE IInv'
<1>1. /\ irq = "none" /\ current = p /\ at[p] = "user" /\ t \in Proc /\ p \in Proc
      /\ exiting' = [exiting EXCEPT ![t] = TRUE]
      /\ at' = [at EXCEPT ![p] = "tail"]
      /\ timers' = timers /\ irq' = irq /\ parent' = parent
      /\ need_resched' = need_resched /\ current' = current /\ waitpid' = waitpid
  BY ProcFacts DEF SysKill, Running, timerVars
<1>2. state[p] = "RUNNABLE" /\ wait_state[p] = "none" /\ p # idleproc /\ p \notin Owners
  BY <1>1, RunningFacts
<1>3. PICK q \in Proc : WakeupProc(q) /\ state[q] \in {"RUNNABLE", "SLEEPING"}
  <2>1. CASE ~exiting[t] /\ wait_state[t] \in Interruptible
    <3>1. wait_state[t] # "none"  BY <2>1 DEF Interruptible
    <3>2. state[t] = "SLEEPING"  BY <3>1, <1>1 DEF IInv, WaitStateMeansAsleep
    <3> QED  BY <2>1, <3>2, <1>1 DEF SysKill
  <2>2. CASE ~(~exiting[t] /\ wait_state[t] \in Interruptible)
    <3>1. WakeupProc(idleproc)  BY <2>2, NoWakeup DEF SysKill
    <3> QED  BY <3>1, ProcFacts DEF IInv, Places
  <2> QED  BY <2>1, <2>2
<1>4. /\ state' = [state EXCEPT ![q] = "RUNNABLE"]
      /\ wait_state' = [wait_state EXCEPT ![q] = "none"]
      /\ state' \in [Proc -> {"FREE", "RUNNABLE", "SLEEPING", "ZOMBIE"}]
      /\ wait_state' \in [Proc -> {"none", "CHILD", "TIMER"}]
      /\ time_slice' \in [Proc -> 0 .. max_time_slice] /\ rq' \in Seq(Proc)
      /\ RunQueueExact' /\ Places' /\ WaitStateMeansAsleep'
  BY <1>1, <1>2, <1>3, WakeMove
<1>5. TypeOK'  BY <1>1, <1>4 DEF IInv, TypeOK
<1>6. TimersExact' /\ TimerOwnersSleep'
  <2>1. \A r \in Owners : at'[r] \in {"sleep_sched", "sleep_ret"}
    BY <1>1, <1>2, ProcFacts DEF IInv, TypeOK, TimerOwnersSleep
  <2>2. \A r \in User : wait_state'[r] = "TIMER" => wait_state[r] = "TIMER"
    BY <1>4, ProcFacts DEF IInv, TypeOK
  <2> QED  BY <2>1, <2>2, <1>1, TimersAlone
<1>7. ParentCanReap'
  BY <1>1, <1>2, <1>3, <1>4, ProcFacts DEF IInv, TypeOK, ParentCanReap
<1>8. NoLostChildWakeup'
  <2>1. /\ parent' = parent /\ waitpid' = waitpid
        /\ \A r \in Proc : /\ state'[r] = "ZOMBIE" => state[r] = "ZOMBIE"
                           /\ wait_state'[r] = "CHILD" => wait_state[r] = "CHILD"
                           /\ at[r] = "exit_zombie" => at'[r] = "exit_zombie"
    <3>1. \A r \in Proc : /\ state'[r] = "ZOMBIE" => state[r] = "ZOMBIE"
                          /\ wait_state'[r] = "CHILD" => wait_state[r] = "CHILD"
      BY <1>4 DEF IInv, TypeOK
    <3>2. \A r \in Proc : at[r] = "exit_zombie" => at'[r] = "exit_zombie"
      BY <1>1, <1>2, ProcFacts DEF IInv, TypeOK
    <3>3. parent' = parent /\ waitpid' = waitpid
      BY <1>1
    <3> QED BY ONLY <3>1, <3>2, <3>3
  <2>2. \A r \in Proc, x \in User \cup {AnyChild} :
           Kids(r, x)' \cap Zombies' \subseteq Kids(r, x) \cap Zombies
    BY <2>1, ProcFacts DEF Kids, Children, Zombies
  <2>3. waitpid \in [Proc -> User \cup {AnyChild}] /\ NoLostChildWakeup  BY DEF IInv, TypeOK
  <2>4. Zombies \subseteq Proc  BY DEF Zombies
  <2> QED  BY ONLY <2>1, <2>2, <2>3, <2>4 DEF NoLostChildWakeup
<1> QED  BY <1>4, <1>5, <1>6, <1>7, <1>8 DEF IInv

\* do_sleep goes to sleep with a timer.
LEMMA SysSleepIInv ==
  ASSUME IInv, NEW p \in User, NEW e \in 1 .. MaxSleep, SysSleep(p, e) PROVE IInv'
<1>1. /\ irq = "none" /\ current = p /\ at[p] = "user" /\ p \in Proc /\ AddTimer(p, e)
      /\ state' = [state EXCEPT ![p] = "SLEEPING"]
      /\ wait_state' = [wait_state EXCEPT ![p] = "TIMER"]
      /\ at' = [at EXCEPT ![p] = "sleep_sched"]
      /\ irq' = irq /\ exiting' = exiting /\ parent' = parent
      /\ need_resched' = need_resched /\ time_slice' = time_slice
      /\ current' = current /\ rq' = rq /\ waitpid' = waitpid
  BY ProcFacts DEF SysSleep, Running
<1>2. state[p] = "RUNNABLE" /\ wait_state[p] = "none" /\ p # idleproc /\ p \notin Owners
  BY <1>1, RunningFacts
<1>3. TypeOK'  BY <1>1, ResumeFacts DEF IInv, TypeOK
<1>4. RunQueueExact'
  <2>1. InRq' = InRq  BY <1>1 DEF InRq
  <2>2. {r \in Proc \ {current, idleproc} : state'[r] = "RUNNABLE"}
          = {r \in Proc \ {current, idleproc} : state[r] = "RUNNABLE"}
    BY <1>1 DEF IInv, TypeOK
  <2> QED  BY <2>1, <2>2, <1>1 DEF IInv, RunQueueExact
<1>5. Places' /\ WaitStateMeansAsleep'
  <2>1. /\ p \in Proc /\ idleproc \in Proc /\ initproc \in Proc /\ p # idleproc
        /\ current = p /\ current' = p /\ state[p] = "RUNNABLE" /\ at[p] = "user"
        /\ state'[p] = "SLEEPING" /\ \A r \in Proc : r # p => state'[r] = state[r]
        /\ wait_state'[p] = "TIMER" /\ \A r \in Proc : r # p => wait_state'[r] = wait_state[r]
        /\ at'[p] = "sleep_sched" /\ \A r \in Proc : r # p => at'[r] = at[r]
    BY <1>1, <1>2, ProcFacts DEF IInv, TypeOK
  <2>2. Places /\ WaitStateMeansAsleep  BY DEF IInv
  <2>3. Places'
    BY <2>1, <2>2, PlacesMove DEF ExitPlaces
  <2>4. WaitStateMeansAsleep'
    BY ONLY <2>1, <2>2 DEF WaitStateMeansAsleep
  <2> QED  BY <2>3, <2>4
<1>6. TimersExact' /\ Owners' = Owners \cup {p}
  BY <1>1, <1>2, AddTimerStep DEF IInv, User
<1>7. \A i, j \in 1 .. Len(timers') : timers'[i].proc = timers'[j].proc => i = j
  BY <1>6 DEF TimersExact, Distinct
<1>8. TimerOwnersSleep'
  <2>0. \A r \in Owners : r \in User /\ at[r] \in {"sleep_sched", "sleep_ret"}
    BY DEF IInv, TimerOwnersSleep
  <2>1. Owners' \subseteq {r \in User : at'[r] \in {"sleep_sched", "sleep_ret"}}
    BY <1>1, <1>6, <2>0, ProcFacts DEF IInv, TypeOK
  <2>2. {r \in User : wait_state'[r] = "TIMER"} \subseteq Owners'
    BY <1>1, <1>6, ProcFacts DEF IInv, TypeOK, TimerOwnersSleep
  <2> QED  BY <2>1, <2>2, <1>7 DEF TimerOwnersSleep
<1>9. ParentCanReap'
  BY <1>1, <1>2, ProcFacts DEF IInv, TypeOK, ParentCanReap
<1>10. NoLostChildWakeup'
  BY <1>1, <1>2, ProcFacts DEF IInv, TypeOK, NoLostChildWakeup, Kids, Children, Zombies
<1> QED  BY <1>3, <1>4, <1>5, <1>6, <1>8, <1>9, <1>10 DEF IInv

\* do_sleep goes on after its schedule() and removes its timer.
LEMMA SleepRetIInv == ASSUME IInv, NEW p \in User, SleepRet(p) PROVE IInv'
<1>1. /\ irq = "none" /\ current = p /\ at[p] = "sleep_ret" /\ p \in Proc /\ DelTimer(p)
      /\ at' = [at EXCEPT ![p] = "tail"]
      /\ irq' = irq /\ state' = state /\ wait_state' = wait_state /\ exiting' = exiting
      /\ parent' = parent /\ need_resched' = need_resched /\ time_slice' = time_slice
      /\ current' = current /\ rq' = rq /\ waitpid' = waitpid
  BY ProcFacts DEF SleepRet, SleepDelTimer, Running
<1>2. state[p] = "RUNNABLE" /\ wait_state[p] = "none" /\ p # idleproc
  BY <1>1, RunningFacts
<1>3. TypeOK'  BY <1>1 DEF IInv, TypeOK
<1>4. RunQueueExact'  BY <1>1, QueueAlone DEF IInv
<1>5. Places' /\ WaitStateMeansAsleep'
  <2>1. /\ p \in Proc /\ idleproc \in Proc /\ initproc \in Proc /\ p # idleproc
        /\ current = p /\ current' = p /\ state[p] = "RUNNABLE" /\ at[p] = "sleep_ret"
        /\ wait_state[p] = "none" /\ state' = state /\ wait_state' = wait_state
        /\ at'[p] = "tail" /\ \A r \in Proc : r # p => at'[r] = at[r]
    BY <1>1, <1>2, ProcFacts DEF IInv, TypeOK
  <2>2. Places /\ WaitStateMeansAsleep  BY DEF IInv
  <2>3. Places'
    BY <2>1, <2>2, PlacesMove DEF ExitPlaces
  <2>4. WaitStateMeansAsleep'
    BY ONLY <2>1, <2>2 DEF WaitStateMeansAsleep
  <2> QED  BY <2>3, <2>4
<1>6. TimersExact' /\ Owners' = Owners \ {p}
  BY <1>1, DelTimerStep DEF IInv
<1>7. \A i, j \in 1 .. Len(timers') : timers'[i].proc = timers'[j].proc => i = j
  BY <1>6 DEF TimersExact, Distinct
<1>8. TimerOwnersSleep'
  <2>0. \A r \in Owners : r \in User /\ at[r] \in {"sleep_sched", "sleep_ret"}
    BY DEF IInv, TimerOwnersSleep
  <2>1. Owners' \subseteq {r \in User : at'[r] \in {"sleep_sched", "sleep_ret"}}
    BY <1>1, <1>6, <2>0, ProcFacts DEF IInv, TypeOK
  <2>2. {r \in User : wait_state'[r] = "TIMER"} \subseteq Owners'
    BY <1>1, <1>2, <1>6 DEF IInv, TimerOwnersSleep
  <2> QED  BY <2>1, <2>2, <1>7 DEF TimerOwnersSleep
<1>9. ParentCanReap'
  BY <1>1, <1>2, ProcFacts DEF IInv, TypeOK, ParentCanReap
<1>10. NoLostChildWakeup'
  BY <1>1, <1>2, ProcFacts DEF IInv, TypeOK, NoLostChildWakeup, Kids, Children, Zombies
<1> QED  BY <1>3, <1>4, <1>5, <1>6, <1>8, <1>9, <1>10 DEF IInv

\* The timer interrupt comes in.
LEMMA TickStartIInv == ASSUME IInv, TickStart PROVE IInv'
<1>1. /\ TimerTick /\ state' = state /\ wait_state' = wait_state /\ exiting' = exiting
      /\ parent' = parent /\ need_resched' = need_resched /\ time_slice' = time_slice
      /\ at' = at /\ current' = current /\ rq' = rq /\ waitpid' = waitpid
  BY DEF TickStart, procVars
<1>2. irq' \in {"none", "fire", "tick"}  BY <1>1 DEF TimerTick
<1>3. TypeOK'  BY <1>1, <1>2 DEF IInv, TypeOK
<1>4. RunQueueExact' /\ Places' /\ WaitStateMeansAsleep' /\ ParentCanReap' /\ NoLostChildWakeup'
  <2>1. RunQueueExact'  BY <1>1, QueueAlone DEF IInv
  <2>2. Places'  BY <1>1 DEF IInv, Places
  <2>3. WaitStateMeansAsleep'  BY <1>1 DEF IInv, WaitStateMeansAsleep
  <2>4. ParentCanReap'  BY <1>1 DEF IInv, ParentCanReap
  <2>5. NoLostChildWakeup'  BY <1>1 DEF IInv, NoLostChildWakeup, Kids, Children, Zombies
  <2> QED  BY <2>1, <2>2, <2>3, <2>4, <2>5
<1>5. TimersExact' /\ Owners' = Owners
  BY <1>1, TimerTickStep DEF IInv
<1>7. TimerOwnersSleep'
  <2>1. \A i, j \in 1 .. Len(timers') : timers'[i].proc = timers'[j].proc => i = j
    BY <1>5 DEF TimersExact, Distinct
  <2> QED  BY <2>1, <1>1, <1>5 DEF IInv, TimerOwnersSleep
<1> QED  BY <1>3, <1>4, <1>5, <1>7 DEF IInv

\* run_timer_list wakes the owner of an expired timer.
LEMMA TickWakeIInv == ASSUME IInv, TickWake PROVE IInv'
<1> DEFINE q == Head(timers).proc
<1>1. /\ FireHead /\ WakeupProc(q) /\ exiting' = exiting /\ parent' = parent
      /\ need_resched' = need_resched /\ at' = at /\ current' = current /\ waitpid' = waitpid
  BY DEF TickWake
<1>2. TimersExact' /\ q \in User /\ q \in Owners /\ Owners' = Owners \ {q}
  BY <1>1, FireHeadStep DEF IInv, User
<1>3. \A i, j \in 1 .. Len(timers') : timers'[i].proc = timers'[j].proc => i = j
  BY <1>2 DEF TimersExact, Distinct
<1> HIDE DEF q
<1>4. q \in Proc /\ at[q] \in {"sleep_sched", "sleep_ret"}
  BY <1>2, ProcFacts DEF IInv, TimerOwnersSleep
<1>5. state[q] \in {"RUNNABLE", "SLEEPING"}
  BY <1>4 DEF IInv, TypeOK, Places, ExitPlaces
<1>6. current \in Proc /\ at' = [at EXCEPT ![current] = at[current]]
  BY <1>1 DEF IInv, TypeOK
<1>7. /\ state' = [state EXCEPT ![q] = "RUNNABLE"]
      /\ wait_state' = [wait_state EXCEPT ![q] = "none"]
      /\ state' \in [Proc -> {"FREE", "RUNNABLE", "SLEEPING", "ZOMBIE"}]
      /\ wait_state' \in [Proc -> {"none", "CHILD", "TIMER"}]
      /\ time_slice' \in [Proc -> 0 .. max_time_slice] /\ rq' \in Seq(Proc)
      /\ RunQueueExact' /\ Places' /\ WaitStateMeansAsleep'
  BY <1>1, <1>4, <1>5, <1>6, WakeMove
<1>8. TypeOK'
  <2>1. irq' \in {"none", "fire", "tick"}  BY <1>1 DEF FireHead, NextIrq
  <2> QED  BY <2>1, <1>1, <1>7 DEF IInv, TypeOK
<1>9. TimerOwnersSleep'
  <2>1. Owners' \subseteq {r \in User : at'[r] \in {"sleep_sched", "sleep_ret"}}
    BY <1>1, <1>2 DEF IInv, TimerOwnersSleep
  <2>2. {r \in User : wait_state'[r] = "TIMER"} \subseteq Owners'
    BY <1>2, <1>4, <1>7, ProcFacts DEF IInv, TypeOK, TimerOwnersSleep
  <2> QED  BY <2>1, <2>2, <1>3 DEF TimerOwnersSleep
<1>10. ParentCanReap'
  BY <1>1, <1>4, <1>5, <1>7, ProcFacts DEF IInv, TypeOK, ParentCanReap
<1>11. NoLostChildWakeup'
  <2>1. /\ parent' = parent /\ waitpid' = waitpid
        /\ \A r \in Proc : /\ state'[r] = "ZOMBIE" => state[r] = "ZOMBIE"
                           /\ wait_state'[r] = "CHILD" => wait_state[r] = "CHILD"
                           /\ at[r] = "exit_zombie" => at'[r] = "exit_zombie"
    BY <1>1, <1>4, <1>5, <1>7, ProcFacts DEF IInv, TypeOK
  <2>2. \A r \in Proc, t \in User \cup {AnyChild} :
           Kids(r, t)' \cap Zombies' \subseteq Kids(r, t) \cap Zombies
    BY <2>1, ProcFacts DEF Kids, Children, Zombies
  <2>3. waitpid \in [Proc -> User \cup {AnyChild}] /\ NoLostChildWakeup  BY DEF IInv, TypeOK
  <2>4. Zombies \subseteq Proc  BY DEF Zombies
  <2> QED  BY ONLY <2>1, <2>2, <2>3, <2>4 DEF NoLostChildWakeup
<1> QED  BY <1>2, <1>7, <1>8, <1>9, <1>10, <1>11 DEF IInv

\* The end of the interrupt: RR_proc_tick, and trap() for a user process.
LEMMA TickEndIInv == ASSUME IInv, TickEnd PROVE IInv'
<1>1. /\ irq = "tick" /\ irq' = "none" /\ timers' = timers /\ ProcTick(current)
      /\ at' = [at EXCEPT ![current] = IF @ = "user" THEN "tail" ELSE @]
      /\ state' = state /\ wait_state' = wait_state /\ exiting' = exiting
      /\ parent' = parent /\ current' = current /\ rq' = rq /\ waitpid' = waitpid
  BY DEF TickEnd, TimerTickEnd
<1>2. /\ need_resched' \in [Proc -> BOOLEAN]
      /\ time_slice' \in [Proc -> 0 .. max_time_slice]
  <2>1. /\ current \in Proc /\ time_slice[current] \in 0 .. max_time_slice
        /\ need_resched \in [Proc -> BOOLEAN]
        /\ time_slice \in [Proc -> 0 .. max_time_slice]
    BY DEF IInv, TypeOK
  <2> DEFINE left == IF time_slice[current] > 0 THEN time_slice[current] - 1 ELSE 0
  <2>2. left \in 0 .. max_time_slice  BY <2>1, ProcessAssumption
  <2> HIDE DEF left
  <2>3. CASE current = idleproc  BY <2>1, <2>3, <1>1 DEF ProcTick
  <2>4. CASE current # idleproc
    <3>1. /\ time_slice' = [time_slice EXCEPT ![current] = left]
          /\ need_resched' = [need_resched EXCEPT ![current] = @ \/ left = 0]
      BY <2>4, <1>1 DEF ProcTick, left
    <3> QED  BY <3>1, <2>1, <2>2
  <2> QED  BY <2>3, <2>4
<1>3. /\ current \in Proc
      /\ at[current] = "user" => at'[current] = "tail"
      /\ at[current] # "user" => at'[current] = at[current]
      /\ \A r \in Proc \ {current} : at'[r] = at[r]
  BY <1>1 DEF IInv, TypeOK
<1>4. TypeOK'
  <2>1. at' \in [Proc -> {"none", "dead", "user", "tail", "idle", "halt", "panic",
                          "init_fork", "init_wait", "wait_ret", "sleep_ret",
                          "exit_zombie", "exit_reparent"} \cup DOMAIN Resume]
    BY <1>1 DEF IInv, TypeOK
  <2> QED  BY <2>1, <1>1, <1>2 DEF IInv, TypeOK
<1>5. RunQueueExact' /\ WaitStateMeansAsleep'
  <2>1. state' = state /\ wait_state' = wait_state /\ current' = current /\ rq' = rq
    BY <1>1
  <2>2. RunQueueExact'  BY <2>1, QueueAlone DEF IInv
  <2>3. WaitStateMeansAsleep'  BY <2>1 DEF IInv, WaitStateMeansAsleep
  <2> QED  BY <2>2, <2>3
<1>6. Places'
  <2>1. /\ state' = state /\ wait_state' = wait_state /\ current' = current
        /\ idleproc \in Proc /\ initproc \in Proc
    BY <1>1, ProcFacts
  <2>2. Places  BY DEF IInv
  <2>3. CASE at[current] = "user"
    <3>1. current # idleproc  BY <2>2, <2>3 DEF Places
    <3>2. /\ state[current] \in {"RUNNABLE", "SLEEPING"}
          /\ wait_state[current] # "CHILD" /\ wait_state[current] # "TIMER"
          /\ state[current] # "SLEEPING"
      <4>1. state[current] \in {"FREE", "RUNNABLE", "SLEEPING", "ZOMBIE"}
        BY <1>3 DEF IInv, TypeOK
      <4> QED  BY ONLY <4>1, <2>2, <2>3, <1>3 DEF Places, ExitPlaces
    <3>3. at'[current] = "tail"  BY <2>3, <1>3
    <3> QED  BY <3>1, <3>2, <3>3, <2>1, <2>2, <1>3, PlacesMove DEF ExitPlaces
  <2>4. CASE at[current] # "user"
    <3>1. \A r \in Proc : at'[r] = at[r]  BY <2>4, <1>3
    <3> QED  BY ONLY <3>1, <2>1, <2>2, <1>3 DEF Places
  <2> QED  BY <2>3, <2>4
<1>7. TimersExact' /\ TimerOwnersSleep'
  <2>1. \A r \in Owners : at'[r] \in {"sleep_sched", "sleep_ret"}
    BY <1>3, ProcFacts DEF IInv, TimerOwnersSleep
  <2> QED  BY <2>1, <1>1, TimersAlone
<1>8. ParentCanReap'
  BY <1>1, <1>3, ProcFacts DEF IInv, TypeOK, ParentCanReap
<1>9. NoLostChildWakeup'
  <2>1. /\ state' = state /\ wait_state' = wait_state /\ parent' = parent
        /\ waitpid' = waitpid
        /\ \A r \in Proc : at[r] = "exit_zombie" => at'[r] = "exit_zombie"
    BY <1>1, <1>3
  <2>2. \A r, t : Kids(r, t)' = Kids(r, t)  BY <2>1 DEF Kids, Children
  <2>3. Zombies' = Zombies /\ Zombies \subseteq Proc  BY <2>1 DEF Zombies
  <2>4. NoLostChildWakeup  BY DEF IInv
  <2> QED  BY ONLY <2>1, <2>2, <2>3, <2>4 DEF NoLostChildWakeup
<1> QED  BY <1>4, <1>5, <1>6, <1>7, <1>8, <1>9 DEF IInv

-----------------------------------------------------------------------------
\* The tail of trap() and the system calls that change little.
LEMMA SmallStepsIInv ==
  ASSUME IInv, NEW p \in User, SysNothing(p) \/ SysYield(p) \/ TrapReturn(p)
  PROVE  IInv'
<1>1. /\ irq = "none" /\ current = p /\ at[p] \in {"user", "tail"} /\ p \in Proc
      /\ waitpid' = waitpid
      /\ UNCHANGED <<timerVars, state, wait_state, exiting, parent, time_slice, current, rq>>
  BY ProcFacts DEF SysNothing, SysYield, TrapReturn, Running
<1>2. need_resched' \in [Proc -> BOOLEAN]
  BY DEF SysNothing, SysYield, TrapReturn, IInv, TypeOK
<1>3. \E l \in {"user", "tail", "resched"} : at' = [at EXCEPT ![p] = l]
  BY DEF SysNothing, SysYield, TrapReturn
<1> QED  BY <1>1, <1>2, <1>3, MoveIInv

\* Every step preserves the invariant.
LEMMA NextIInv == IInv /\ [Next]_vars => IInv'
<1> SUFFICES ASSUME IInv, [Next]_vars PROVE IInv'  OBVIOUS
<1>1. CASE KernelStep
  <2>1. ASSUME NEW p \in Proc, Switch(p) PROVE IInv'  BY <2>1, SwitchIInv
  <2>2. ASSUME NEW p \in User, ExitNotify(p) PROVE IInv'  BY <2>2, ExitNotifyIInv
  <2>3. ASSUME NEW p \in User, ExitReparent(p) PROVE IInv'  BY <2>3, ExitReparentIInv
  <2>4. ASSUME NEW p \in User, SleepRet(p) PROVE IInv'  BY <2>4, SleepRetIInv
  <2>5. ASSUME NEW p \in User, TrapExit(p) PROVE IInv'
    BY <2>5, DoExitIInv, ProcFacts DEF TrapExit, Running
  <2>6. ASSUME NEW p \in User, TrapReturn(p) PROVE IInv'  BY <2>6, SmallStepsIInv
  <2>7. ASSUME NEW p \in Proc, WaitRet(p) PROVE IInv'  BY <2>7, WaitRetIInv
  <2>8. ASSUME NEW c \in User, InitFork(c) PROVE IInv'
    BY <2>8, ForkIInv, ProcFacts DEF InitFork, Running
  <2>9. ASSUME InitWait PROVE IInv'
    BY <2>9, DoWaitIInv, ProcFacts DEF InitWait, Running
  <2>10. ASSUME CpuIdle PROVE IInv'  BY <2>10, CpuIdleIInv
  <2> QED
    BY <1>1, <2>1, <2>2, <2>3, <2>4, <2>5, <2>6, <2>7, <2>8, <2>9, <2>10 DEF KernelStep
<1>2. CASE UserStep
  <2>1. PICK p \in User :
          \/ \E c \in User : SysFork(p, c)
          \/ SysNothing(p)
          \/ SysExit(p)
          \/ \E t \in User \cup {AnyChild} : SysWait(p, t)
          \/ \E t \in User \cup {initproc} : SysKill(p, t)
          \/ SysYield(p)
          \/ \E e \in 1 .. MaxSleep : SysSleep(p, e)
    BY <1>2 DEF UserStep
  <2>2. ASSUME NEW c \in User, SysFork(p, c) PROVE IInv'
    BY <2>2, ForkIInv, ProcFacts DEF SysFork, Running
  <2>3. ASSUME SysNothing(p) \/ SysYield(p) PROVE IInv'  BY <2>3, SmallStepsIInv
  <2>4. ASSUME SysExit(p) PROVE IInv'
    BY <2>4, DoExitIInv, ProcFacts DEF SysExit, Running
  <2>5. ASSUME NEW t \in User \cup {AnyChild}, SysWait(p, t) PROVE IInv'
    BY <2>5, DoWaitIInv, ProcFacts DEF SysWait, Running
  <2>6. ASSUME NEW t \in User \cup {initproc}, SysKill(p, t) PROVE IInv'
    BY <2>6, SysKillIInv
  <2>7. ASSUME NEW e \in 1 .. MaxSleep, SysSleep(p, e) PROVE IInv'
    BY <2>7, SysSleepIInv
  <2> QED  BY <2>1, <2>2, <2>3, <2>4, <2>5, <2>6, <2>7
<1>3. CASE Tick
  BY <1>3, TickStartIInv, TickWakeIInv, TickEndIInv DEF Tick
<1>4. CASE UNCHANGED vars
  <2>1. /\ timers' = timers /\ irq' = irq /\ state' = state /\ wait_state' = wait_state
        /\ exiting' = exiting /\ parent' = parent /\ need_resched' = need_resched
        /\ time_slice' = time_slice /\ at' = at /\ current' = current /\ rq' = rq
        /\ waitpid' = waitpid
    BY <1>4 DEF vars, timerVars, procVars
  <2>2. TypeOK'  BY <2>1 DEF IInv, TypeOK
  <2>3. RunQueueExact'  BY <2>1, QueueAlone DEF IInv
  <2>4. Places'  BY <2>1 DEF IInv, Places
  <2>5. WaitStateMeansAsleep'  BY <2>1 DEF IInv, WaitStateMeansAsleep
  <2>6. TimersExact'  BY <2>1, TimersStutter DEF IInv
  <2>7. TimerOwnersSleep'
    <3>1. Owners' = Owners  BY <2>1 DEF Owners
    <3> QED  BY <2>1, <3>1 DEF IInv, TimerOwnersSleep
  <2>8. ParentCanReap'  BY <2>1 DEF IInv, ParentCanReap
  <2>9. NoLostChildWakeup'  BY <2>1 DEF IInv, NoLostChildWakeup, Kids, Children, Zombies
  <2> QED  BY <2>2, <2>3, <2>4, <2>5, <2>6, <2>7, <2>8, <2>9 DEF IInv
<1> QED  BY <1>1, <1>2, <1>3, <1>4 DEF Next, Halted

\* The invariant holds in every reachable state.
THEOREM IInvHolds == SafetySpec => []IInv
BY InitIInv, NextIInv, PTL DEF SafetySpec

\* The process table and the run queue keep their types, whatever the
\* processes do and whenever the timer interrupts.
THEOREM TypeCorrect == SafetySpec => []TypeOK
<1>1. IInv => TypeOK  BY DEF IInv
<1> QED  BY <1>1, IInvHolds, PTL

\* For any number of processes the run queue holds exactly the runnable
\* processes that are not running, each once: schedule(), wakeup_proc and the
\* round-robin class never lose or duplicate a process.
THEOREM RunQueueIsExact == SafetySpec => []RunQueueExact
<1>1. IInv => RunQueueExact  BY DEF IInv
<1> QED  BY <1>1, IInvHolds, PTL

\* No wakeup of a parent in do_wait is lost, for any family of processes and
\* any order of exits, kills, adoptions and timer interrupts.
THEOREM ChildWakeupIsNotLost == SafetySpec => []NoLostChildWakeup
<1>1. IInv => NoLostChildWakeup  BY DEF IInv
<1> QED  BY <1>1, IInvHolds, PTL

\* do_exit's hand-over to initproc leaves no process without a living parent.
THEOREM EveryChildHasAReaper == SafetySpec => []ParentCanReap
<1>1. IInv => ParentCanReap  BY DEF IInv
<1> QED  BY <1>1, IInvHolds, PTL

\* A timer is in the list only while its owner is inside do_sleep, whose
\* stack frame holds it.
THEOREM TimersLiveInDoSleep == SafetySpec => []TimerOwnersSleep
<1>1. IInv => TimerOwnersSleep  BY DEF IInv
<1> QED  BY <1>1, IInvHolds, PTL

-----------------------------------------------------------------------------
\* What a step does to zombies: none leaves that state except by being freed,
\* and that by its parent.
ZombieStep ==
  \A p \in Proc : state[p] = "ZOMBIE" /\ state'[p] # "ZOMBIE"
     => state'[p] = "FREE" /\ current = parent[p]

\* wakeup_proc of a process that is no zombie (its assert) keeps zombies.
LEMMA WakeupZombieStep ==
  ASSUME IInv, NEW q \in Proc, state[q] # "ZOMBIE", WakeupProc(q) PROVE ZombieStep
<1>1. state' = [state EXCEPT ![q] = "RUNNABLE"]  BY WakeupState DEF IInv
<1> QED  BY <1>1 DEF ZombieStep, IInv, TypeOK

\* A process that waits for something is asleep, so it is no zombie.
LEMMA WaiterIsNoZombie ==
  ASSUME IInv, NEW q \in Proc, wait_state[q] \in Interruptible PROVE state[q] # "ZOMBIE"
BY DEF IInv, WaitStateMeansAsleep, Interruptible

\* do_wait by a running process frees a zombie of its own only.
LEMMA DoWaitZombieStep ==
  ASSUME IInv, NEW p \in Proc, irq = "none", current = p,
         at[p] \in {"user", "wait_ret", "init_wait"}, NEW t, DoWait(p, t)
  PROVE  ZombieStep
<1>1. CASE WaitReap(p, t)
  <2>1. PICK z \in Kids(p, t) \cap Zombies : state' = [state EXCEPT ![z] = "FREE"]
    BY <1>1 DEF WaitReap
  <2>2. parent[z] = p /\ z \in Proc  BY ProcFacts DEF Kids, Children
  <2> QED  BY <2>1, <2>2 DEF ZombieStep, IInv, TypeOK
<1>2. CASE WaitSleep(p, t)
  <2>1. state[p] = "RUNNABLE"  BY RunningFacts
  <2> QED  BY <1>2, <2>1 DEF WaitSleep, ZombieStep, IInv, TypeOK
<1>3. CASE WaitNoChild(p, t)
  BY <1>3 DEF WaitNoChild, ZombieStep
<1> QED  BY <1>1, <1>2, <1>3 DEF DoWait

\* do_exit makes a zombie and ends none.
LEMMA DoExitZombieStep == ASSUME IInv, NEW p \in Proc, DoExit(p) PROVE ZombieStep
BY DEF DoExit, ZombieStep, IInv, TypeOK

\* Every step, for zombies.
LEMMA NextZombieStep == IInv /\ [Next]_vars => ZombieStep
<1> SUFFICES ASSUME IInv, [Next]_vars PROVE ZombieStep  OBVIOUS
<1>1. CASE state' = state  BY <1>1 DEF ZombieStep
<1>2. CASE KernelStep
  <2>1. ASSUME NEW p \in User, ExitNotify(p) PROVE ZombieStep
    <3>1. CASE wait_state[parent[p]] = "CHILD"
      <4>1. parent[p] \in Proc  BY ProcFacts DEF IInv, TypeOK
      <4>2. state[parent[p]] # "ZOMBIE"
        BY <3>1, <4>1, WaiterIsNoZombie DEF Interruptible
      <4> QED  BY <2>1, <3>1, <4>1, <4>2, WakeupZombieStep DEF ExitNotify
    <3>2. CASE wait_state[parent[p]] # "CHILD"
      BY <2>1, <3>2, <1>1 DEF ExitNotify
    <3> QED  BY <3>1, <3>2
  <2>2. ASSUME NEW p \in User, ExitReparent(p) PROVE ZombieStep
    <3>1. CASE WakesInit(p)
      <4>1. initproc \in Proc /\ state[initproc] # "ZOMBIE"
        BY ProcFacts DEF IInv, Places
      <4> QED  BY <2>2, <3>1, <4>1, WakeupZombieStep DEF ExitReparent
    <3>2. CASE ~WakesInit(p)  BY <2>2, <3>2, <1>1 DEF ExitReparent
    <3> QED  BY <3>1, <3>2
  <2>3. ASSUME NEW p \in User, TrapExit(p) PROVE ZombieStep
    BY <2>3, DoExitZombieStep, ProcFacts DEF TrapExit
  <2>4. ASSUME NEW p \in Proc, WaitRet(p) PROVE ZombieStep
    BY <2>4, DoExitZombieStep, DoWaitZombieStep DEF WaitRet, Running
  <2>5. ASSUME NEW c \in User, InitFork(c) PROVE ZombieStep
    BY <2>5, WakeupZombieStep, ProcFacts DEF InitFork, DoFork
  <2>6. ASSUME InitWait PROVE ZombieStep
    BY <2>6, DoWaitZombieStep, ProcFacts DEF InitWait, Running
  <2>7. ASSUME NEW p \in Proc, Switch(p) PROVE state' = state  BY <2>7 DEF Switch
  <2>8. ASSUME NEW p \in User, SleepRet(p) \/ TrapReturn(p) PROVE state' = state
    BY <2>8 DEF SleepRet, TrapReturn
  <2>9. ASSUME CpuIdle PROVE state' = state  BY <2>9 DEF CpuIdle
  <2> QED
    BY <1>1, <1>2, <2>1, <2>2, <2>3, <2>4, <2>5, <2>6, <2>7, <2>8, <2>9 DEF KernelStep
<1>3. CASE UserStep
  <2>1. ASSUME NEW p \in User, NEW c \in User, SysFork(p, c) PROVE ZombieStep
    BY <2>1, WakeupZombieStep, ProcFacts DEF SysFork, DoFork
  <2>2. ASSUME NEW p \in User, SysNothing(p) \/ SysYield(p) PROVE state' = state
    BY <2>2 DEF SysNothing, SysYield
  <2>3. ASSUME NEW p \in User, SysExit(p) PROVE ZombieStep
    BY <2>3, DoExitZombieStep, ProcFacts DEF SysExit
  <2>4. ASSUME NEW p \in User, NEW t, SysWait(p, t) PROVE ZombieStep
    BY <2>4, DoWaitZombieStep, ProcFacts DEF SysWait, Running
  <2>5. ASSUME NEW p \in User, NEW t \in User \cup {initproc}, SysKill(p, t) PROVE ZombieStep
    <3>1. CASE ~exiting[t] /\ wait_state[t] \in Interruptible
      <4>1. t \in Proc /\ state[t] # "ZOMBIE"  BY <3>1, ProcFacts, WaiterIsNoZombie
      <4> QED  BY <2>5, <3>1, <4>1, WakeupZombieStep DEF SysKill
    <3>2. CASE ~(~exiting[t] /\ wait_state[t] \in Interruptible)
      BY <2>5, <3>2, <1>1 DEF SysKill
    <3> QED  BY <3>1, <3>2
  <2>6. ASSUME NEW p \in User, NEW e, SysSleep(p, e) PROVE ZombieStep
    <3>1. p \in Proc /\ irq = "none" /\ current = p /\ at[p] = "user"
      BY <2>6, ProcFacts DEF SysSleep, Running
    <3>2. state[p] = "RUNNABLE"  BY <3>1, RunningFacts
    <3>3. state' = [state EXCEPT ![p] = "SLEEPING"]  BY <2>6 DEF SysSleep
    <3> QED  BY <3>1, <3>2, <3>3 DEF ZombieStep, IInv, TypeOK
  <2> QED  BY <1>1, <1>3, <2>1, <2>2, <2>3, <2>4, <2>5, <2>6 DEF UserStep
<1>4. CASE TickWake
  <2>1. FireHead /\ WakeupProc(Head(timers).proc)  BY <1>4 DEF TickWake
  <2>3. Head(timers).proc \in Owners
    BY <2>1, FireHeadStep DEF IInv
  <2>4. \A q \in Owners : q \in User /\ at[q] \in {"sleep_sched", "sleep_ret"}
    BY DEF IInv, TimerOwnersSleep
  <2>5. \A q \in Owners : q \in Proc /\ state[q] # "ZOMBIE"
    BY <2>4, ProcFacts DEF IInv, Places, ExitPlaces
  <2> QED  BY <2>1, <2>3, <2>5, WakeupZombieStep
<1>5. CASE TickStart \/ TickEnd \/ Halted \/ UNCHANGED vars
  BY <1>5, <1>1 DEF TickStart, TickEnd, Halted, vars, procVars
<1> QED  BY <1>2, <1>3, <1>4, <1>5 DEF Next, Tick

\* A zombie ends only by do_wait of its parent: neither a kill nor a timer nor
\* another exit revives or frees it.
THEOREM ZombieIsReapedByParent == SafetySpec => ZombieEndsByParent
<1>1. IInv /\ [Next]_vars => [\A p \in Proc : state[p] = "ZOMBIE" /\ state'[p] # "ZOMBIE"
                                => state'[p] = "FREE" /\ current = parent[p]]_vars
  BY NextZombieStep DEF ZombieStep
<1> QED  BY <1>1, IInvHolds, PTL DEF SafetySpec, ZombieEndsByParent

-----------------------------------------------------------------------------
\* When initproc finds no child, nobody else is left.  The family tree has no
\* cycles: every set of processes has a member whose parent is outside.
Forest ==
  \A S \in SUBSET {c \in User : state[c] # "FREE"} :
     S # {} => \E c \in S : parent[c] \notin S

\* init_main waits for any child, and once it found none nothing happens.
InitHalts ==
  /\ waitpid[initproc] = AnyChild
  /\ at[initproc] = "halt" => current = initproc /\ irq = "none" /\ Children(initproc) = {}

\* A step that makes no process: a child keeps its parent or goes to initproc.
NoBirth ==
  \A c \in User : at'[c] # "none" => at[c] # "none" /\ parent'[c] \in {parent[c], initproc}

\* A step in which p makes the process c.
Birth(p, c) ==
  /\ state[p] # "FREE" /\ state[c] = "FREE" /\ parent' = [parent EXCEPT ![c] = p]
  /\ \A q \in User \ {c} : at'[q] # "none" => at[q] # "none"

LEMMA ForestKept == ASSUME IInv, IInv', Forest, NoBirth PROVE Forest'
<1> SUFFICES ASSUME NEW S \in SUBSET {c \in User : state'[c] # "FREE"}, S # {}
             PROVE  \E c \in S : parent'[c] \notin S
  BY DEF Forest
<1>1. \A c \in S : c \in User /\ at'[c] # "none"
  BY ProcFacts DEF IInv, Places
<1>2. \A c \in S : state[c] # "FREE" /\ parent'[c] \in {parent[c], initproc}
  <2>1. \A c \in S : c \in Proc /\ at[c] # "none" /\ parent'[c] \in {parent[c], initproc}
    BY <1>1, ProcFacts DEF NoBirth
  <2> QED BY <1>1, <2>1 DEF IInv, Places
<1>3. PICK c \in S : parent[c] \notin S
  BY <1>1, <1>2 DEF Forest
<1>4. initproc \notin S
  BY <1>1, ProcFacts
<1> QED BY <1>2, <1>3, <1>4

\* The parent of a process is no free slot.
LEMMA ParentsExist ==
  ASSUME IInv, NEW c \in User, state[c] # "FREE"
  PROVE  parent[c] \in Proc /\ state[parent[c]] # "FREE"
<1>1. parent[c] \in Proc
  BY ProcFacts DEF IInv, TypeOK
<1>2. state[parent[c]] \in {"RUNNABLE", "SLEEPING"} \/ at[parent[c]] \in ExitPlaces
  BY DEF IInv, ParentCanReap, ExitPlaces
<1>3. state[parent[c]] \in {"RUNNABLE", "SLEEPING", "ZOMBIE"}
  BY <1>1, <1>2 DEF IInv, Places
<1> QED BY <1>1, <1>3

LEMMA ForestGrows ==
  ASSUME IInv, IInv', Forest, NEW p \in Proc, NEW b \in User, Birth(p, b)
  PROVE  Forest'
<1> SUFFICES ASSUME NEW S \in SUBSET {c \in User : state'[c] # "FREE"}, S # {}
             PROVE  \E c \in S : parent'[c] \notin S
  BY DEF Forest
<1>0. /\ state[p] # "FREE" /\ state[b] = "FREE" /\ parent' = [parent EXCEPT ![b] = p]
      /\ \A q \in User \ {b} : at'[q] # "none" => at[q] # "none"
  BY DEF Birth
<1>1. p # b /\ parent'[b] = p /\ \A c \in User \ {b} : parent'[c] = parent[c]
  <2>1. DOMAIN parent = Proc /\ b \in Proc /\ User \subseteq Proc
    BY ProcFacts DEF IInv, TypeOK
  <2> QED BY ONLY <1>0, <2>1
<1>2. \A c \in S \ {b} : c \in User /\ at'[c] # "none"
  BY ProcFacts DEF IInv, Places
<1>3. \A c \in S \ {b} : state[c] # "FREE"
  <2>1. \A q \in Proc : at[q] = "none" <=> state[q] = "FREE"
    BY DEF IInv, Places
  <2> QED BY ONLY <1>0, <1>2, <2>1, ProcFacts
<1>4. CASE S \ {b} = {}
  <2>1. S = {b}
    BY <1>4
  <2> QED BY <1>1, <2>1
<1>5. CASE S \ {b} # {}
  <2>1. PICK c \in S \ {b} : parent[c] \notin S \ {b}
    BY <1>2, <1>3, <1>5 DEF Forest
  <2>2. parent[c] # b
    BY <1>2, <1>3, ParentsExist DEF Birth
  <2> QED BY <1>1, <1>2, <2>1, <2>2
<1> QED BY <1>4, <1>5

\* A step of the current process that moves it alone.
LEMMA MoveNoBirth ==
  ASSUME IInv, NEW l, at' = [at EXCEPT ![current] = l] \/ at' = at,
         \A c \in User : parent'[c] \in {parent[c], initproc}
  PROVE  NoBirth
<1>1. at[current] # "none" /\ current \in Proc
  BY DEF IInv, Places, TypeOK
<1> QED BY <1>1, ProcFacts DEF NoBirth, IInv, TypeOK

\* do_wait makes no process.
LEMMA DoWaitNoBirth ==
  ASSUME IInv, NEW p \in Proc, irq = "none", current = p,
         at[p] \in {"user", "wait_ret", "init_wait"}, NEW t, DoWait(p, t)
  PROVE  NoBirth
<1>1. CASE WaitReap(p, t)
  <2>1. PICK z \in User : \E l : /\ at' = [at EXCEPT ![z] = "none", ![p] = l]
                                 /\ parent' = [parent EXCEPT ![z] = idleproc]
                                 /\ state[z] = "ZOMBIE"
    BY <1>1 DEF WaitReap, Kids, Children, Zombies
  <2>2. at[p] # "none" /\ z # p
    BY <2>1, RunningFacts DEF IInv, Places
  <2>3. /\ at'[z] = "none"
        /\ \A c \in User \ {z, p} : at'[c] = at[c]
        /\ \A c \in User \ {z} : parent'[c] = parent[c]
    BY <2>1, <2>2, ProcFacts DEF IInv, TypeOK
  <2> QED BY <2>2, <2>3 DEF NoBirth
<1>2. CASE WaitSleep(p, t)
  BY <1>2, MoveNoBirth DEF WaitSleep
<1>3. CASE WaitNoChild(p, t)
  BY <1>3, MoveNoBirth DEF WaitNoChild
<1> QED BY <1>1, <1>2, <1>3 DEF DoWait

\* Every step is a birth or keeps the processes and their parents.
LEMMA NextBirth ==
  ASSUME IInv, [Next]_vars
  PROVE  NoBirth \/ \E p \in Proc, c \in User : Birth(p, c)
<1>1. ASSUME NEW p \in Proc, Running(p, "user") \/ Running(p, "init_fork"),
             NEW c \in User, DoFork(p, c), NEW l, at' = [at EXCEPT ![p] = l, ![c] = "user"]
      PROVE  Birth(p, c)
  <2>1. current = p /\ at[p] # "none" /\ state[p] # "FREE"
    BY <1>1 DEF Running, IInv, Places
  <2>2. \A q \in User \ {c} : at'[q] = at[q] \/ q = p
    BY <1>1, ProcFacts DEF IInv, TypeOK
  <2> QED BY <1>1, <2>1, <2>2 DEF Birth, DoFork
<1>2. ASSUME NEW l, at' = [at EXCEPT ![current] = l] \/ at' = at, parent' = parent
      PROVE  NoBirth
  BY <1>2, MoveNoBirth
<1>3. ASSUME NEW p \in Proc, p = current, DoExit(p) PROVE NoBirth
  BY <1>2, <1>3 DEF DoExit
<1>4. CASE KernelStep
  <2>1. ASSUME NEW p \in Proc, Switch(p) PROVE NoBirth
    BY <1>2, <2>1 DEF Switch
  <2>2. ASSUME NEW p \in User, ExitNotify(p) PROVE NoBirth
    BY <1>2, <2>2 DEF ExitNotify, Running
  <2>3. ASSUME NEW p \in User, ExitReparent(p) PROVE NoBirth
    <3>1. \A c \in User : parent'[c] \in {parent[c], initproc}
      BY <2>3, ProcFacts DEF ExitReparent
    <3> QED BY <2>3, <3>1, MoveNoBirth DEF ExitReparent, Running
  <2>4. ASSUME NEW p \in User, SleepRet(p) \/ TrapReturn(p) PROVE NoBirth
    BY <1>2, <2>4 DEF SleepRet, TrapReturn, Running
  <2>5. ASSUME NEW p \in User, TrapExit(p) PROVE NoBirth
    BY <1>3, <2>5, ProcFacts DEF TrapExit, Running
  <2>6. ASSUME NEW p \in Proc, WaitRet(p) PROVE NoBirth
    BY <1>3, <2>6, DoWaitNoBirth DEF WaitRet, Running
  <2>7. ASSUME NEW c \in User, InitFork(c) PROVE Birth(initproc, c)
    BY <1>1, <2>7, ProcFacts DEF InitFork
  <2>8. ASSUME InitWait PROVE NoBirth
    BY <2>8, DoWaitNoBirth, ProcFacts DEF InitWait, Running
  <2>9. ASSUME CpuIdle PROVE NoBirth
    BY <1>2, <2>9 DEF CpuIdle
  <2> QED BY <1>4, <2>1, <2>2, <2>3, <2>4, <2>5, <2>6, <2>7, <2>8, <2>9, ProcFacts
          DEF KernelStep
<1>5. CASE UserStep
  <2>1. ASSUME NEW p \in User, NEW c \in User, SysFork(p, c) PROVE Birth(p, c)
    BY <1>1, <2>1, ProcFacts DEF SysFork
  <2>2. ASSUME NEW p \in User, SysNothing(p) \/ SysYield(p) PROVE NoBirth
    BY <1>2, <2>2 DEF SysNothing, SysYield, Running
  <2>3. ASSUME NEW p \in User, SysExit(p) PROVE NoBirth
    BY <1>3, <2>3, ProcFacts DEF SysExit, Running
  <2>4. ASSUME NEW p \in User, NEW t, SysWait(p, t) PROVE NoBirth
    BY <2>4, DoWaitNoBirth, ProcFacts DEF SysWait, Running
  <2>5. ASSUME NEW p \in User, NEW t, SysKill(p, t) PROVE NoBirth
    BY <1>2, <2>5 DEF SysKill, Running
  <2>6. ASSUME NEW p \in User, NEW e, SysSleep(p, e) PROVE NoBirth
    BY <1>2, <2>6 DEF SysSleep, Running
  <2> QED BY <1>5, <2>1, <2>2, <2>3, <2>4, <2>5, <2>6, ProcFacts DEF UserStep
<1>6. CASE Tick
  <2>1. ASSUME TickEnd PROVE NoBirth
    <3>1. \E l : at' = [at EXCEPT ![current] = l]
      BY <2>1 DEF TickEnd
    <3> QED BY <1>2, <2>1, <3>1 DEF TickEnd
  <2> QED BY <1>2, <1>6, <2>1 DEF Tick, TickStart, TickWake, procVars
<1>7. CASE UNCHANGED vars \/ Halted
  BY <1>2, <1>7 DEF Halted, vars, procVars
<1> QED BY <1>4, <1>5, <1>6, <1>7 DEF Next

\* After the halt of init_main there is no step.
LEMMA HaltIsFinal ==
  ASSUME IInv, InitHalts, at[initproc] = "halt", [Next]_vars
  PROVE  UNCHANGED vars
<1>1. current = initproc /\ irq = "none" /\ initproc \notin User /\ initproc # idleproc
  BY ProcFacts DEF InitHalts
<1>2. ~KernelStep
  <2>1. \A p, l : Running(p, l) => p = initproc /\ l = "halt"
    BY <1>1 DEF Running
  <2>2. \A p \in Proc : ~Switch(p)
    BY <1>1, ResumeFacts DEF Switch
  <2>3. \A p \in User : ~(ExitNotify(p) \/ ExitReparent(p) \/ SleepRet(p) \/ TrapExit(p) \/ TrapReturn(p))
    BY <1>1, <2>1 DEF ExitNotify, ExitReparent, SleepRet, TrapExit, TrapReturn
  <2>4. ASSUME NEW p \in Proc, WaitRet(p) PROVE FALSE
    <3>1. Running(p, "wait_ret")
      BY <2>4 DEF WaitRet
    <3> QED BY <2>1, <3>1
  <2>5. ~InitWait /\ ~CpuIdle
    <3>1. ~Running(initproc, "init_wait") /\ ~Running(idleproc, "idle")
      BY <2>1
    <3> QED BY <3>1 DEF InitWait, CpuIdle
  <2>6. ASSUME NEW c \in User, InitFork(c) PROVE FALSE
    <3>1. Running(initproc, "init_fork")
      BY <2>6 DEF InitFork
    <3> QED BY <2>1, <3>1
  <2> QED BY <2>2, <2>3, <2>4, <2>5, <2>6 DEF KernelStep
<1>3. ~UserStep
  BY <1>1 DEF UserStep, SysFork, SysNothing, SysExit, SysWait, SysKill, SysYield, SysSleep, Running
<1>4. ~Tick
  BY <1>1 DEF Tick, TickStart, TickWake, TickEnd, FireHead, TimerTickEnd, IntrOff
<1> QED BY <1>2, <1>3, <1>4 DEF Next, Halted

\* Only do_wait in init_main, when it finds no child, brings initproc to its end.
InitGoesOn == at'[initproc] # "halt" /\ waitpid'[initproc] = AnyChild

LEMMA NextInitHalts ==
  ASSUME IInv, InitHalts, [Next]_vars
  PROVE  InitHalts'
<1>1. CASE at[initproc] = "halt"
  <2>1. UNCHANGED vars
    BY <1>1, HaltIsFinal
  <2> QED BY <2>1 DEF InitHalts, Children, vars, procVars, timerVars
<1>2. CASE at[initproc] # "halt"
  <2>0. InitGoesOn => InitHalts'
    BY DEF InitGoesOn, InitHalts
  <2>1. ASSUME NEW p \in Proc, NEW l, l # "halt", at' = [at EXCEPT ![p] = l],
               waitpid'[initproc] = waitpid[initproc]
        PROVE  InitGoesOn
    BY <1>2, <2>1, ProcFacts DEF InitGoesOn, InitHalts, IInv, TypeOK
  <2>2. ASSUME at'[initproc] = at[initproc], waitpid'[initproc] = waitpid[initproc]
        PROVE  InitGoesOn
    BY <1>2, <2>2 DEF InitGoesOn, InitHalts
  <2>t. /\ waitpid[initproc] = AnyChild /\ initproc \notin User /\ initproc \in Proc
        /\ DOMAIN at = Proc /\ DOMAIN waitpid = Proc
    BY ProcFacts DEF InitHalts, IInv, TypeOK
  <2>3. ASSUME NEW p \in Proc, DoExit(p) PROVE InitGoesOn
    <3>1. \E l : l # "halt" /\ at' = [at EXCEPT ![p] = l]
      BY <2>3 DEF DoExit
    <3>2. waitpid'[initproc] = AnyChild
      BY <2>3, <2>t DEF DoExit
    <3> QED BY <2>1, <2>t, <3>1, <3>2
  <2>4. ASSUME NEW p \in User, NEW t, DoWait(p, t) PROVE InitGoesOn
    <3>1. waitpid'[initproc] = waitpid[initproc]
      BY <2>4, <2>t DEF DoWait, WaitReap, WaitSleep, WaitNoChild
    <3>2. CASE WaitReap(p, t)
      <4>1. PICK z \in User : /\ p # initproc
                               /\ at' = [at EXCEPT ![z] = "none", ![p] = "tail"]
        BY <2>t, <3>2 DEF WaitReap, Kids, Children
      <4> QED BY <2>2, <2>t, <3>1, <4>1
    <3>3. CASE WaitSleep(p, t) \/ WaitNoChild(p, t)
      BY <2>2, <2>t, <3>1, <3>3 DEF WaitSleep, WaitNoChild
    <3> QED BY <2>4, <3>2, <3>3 DEF DoWait
  <2>5. ASSUME irq = "none", current = initproc, DoWait(initproc, AnyChild) PROVE InitHalts'
    <3>1. CASE WaitReap(initproc, AnyChild)
      <4>1. PICK z \in User : at' = [at EXCEPT ![z] = "none", ![initproc] = "init_sched"]
        BY <3>1 DEF WaitReap, Kids, Children
      <4>2. at'[initproc] = "init_sched"
        BY <4>1, ProcFacts DEF IInv, TypeOK
      <4>3. waitpid'[initproc] = AnyChild
        <5>1. waitpid' = [waitpid EXCEPT ![initproc] = AnyChild]
          BY <3>1 DEF WaitReap
        <5>2. waitpid \in [Proc -> User \cup {AnyChild}]
          BY DEF IInv, TypeOK
        <5> QED BY <5>1, <5>2, ProcFacts
      <4> QED BY <2>0, <4>2, <4>3 DEF InitGoesOn
    <3>2. CASE WaitSleep(initproc, AnyChild)
      <4>1. at'[initproc] = "wait_sched" /\ waitpid'[initproc] = AnyChild
        BY <3>2, ProcFacts DEF WaitSleep, IInv, TypeOK
      <4> QED BY <2>0, <4>1 DEF InitGoesOn
    <3>3. CASE WaitNoChild(initproc, AnyChild)
      <4>1. /\ Kids(initproc, AnyChild) = {} /\ state' = state /\ parent' = parent
            /\ current' = current /\ irq' = irq
            /\ waitpid' = [waitpid EXCEPT ![initproc] = AnyChild]
        BY <3>3 DEF WaitNoChild, timerVars
      <4>2. Children(initproc) = {} /\ waitpid'[initproc] = AnyChild
        BY <4>1, ProcFacts DEF Kids, IInv, TypeOK
      <4> QED BY <2>5, <4>1, <4>2 DEF InitHalts, Children
    <3> QED BY <2>5, <3>1, <3>2, <3>3 DEF DoWait
  <2>6. CASE KernelStep
    <3>1. ASSUME NEW p \in Proc, Switch(p) PROVE InitGoesOn
      <4>1. Resume[at[p]] # "halt" /\ at' = [at EXCEPT ![p] = Resume[at[p]]] /\ waitpid' = waitpid
        BY <3>1, ResumeFacts DEF Switch
      <4> QED BY <2>1, <4>1
    <3>2. ASSUME NEW p \in User, ExitNotify(p) \/ ExitReparent(p) \/ SleepRet(p) PROVE InitGoesOn
      BY <2>2, <2>t, <3>2 DEF ExitNotify, ExitReparent, SleepRet
    <3>3. ASSUME NEW p \in User, TrapExit(p) PROVE InitGoesOn
      BY <2>3, <3>3, ProcFacts DEF TrapExit
    <3>4. ASSUME NEW p \in User, TrapReturn(p) PROVE InitGoesOn
      BY <2>2, <2>t, <3>4 DEF TrapReturn
    <3>5. ASSUME NEW p \in Proc, WaitRet(p) PROVE InitHalts'
      <4>1. irq = "none" /\ current = p /\ at[p] = "wait_ret"
        BY <3>5 DEF WaitRet, Running
      <4>2. CASE exiting[p]
        BY <2>0, <2>3, <3>5, <4>2 DEF WaitRet
      <4>3. CASE ~exiting[p] /\ p = initproc
        BY <2>5, <2>t, <3>5, <4>1, <4>3 DEF WaitRet
      <4>4. CASE ~exiting[p] /\ p # initproc
        <5>1. p \in User
          BY <4>1, <4>4 DEF IInv, Places, Proc
        <5> QED BY <2>0, <2>4, <3>5, <4>4, <5>1 DEF WaitRet
      <4> QED BY <4>2, <4>3, <4>4
    <3>6. ASSUME NEW c \in User, InitFork(c) PROVE InitGoesOn
      <4>1. at'[initproc] = "init_wait" /\ waitpid' = waitpid
        BY <2>t, <3>6 DEF InitFork, DoFork
      <4> QED BY <2>t, <4>1 DEF InitGoesOn
    <3>7. ASSUME InitWait PROVE InitHalts'
      BY <2>5, <3>7 DEF InitWait, Running
    <3>8. ASSUME CpuIdle PROVE InitGoesOn
      BY <2>2, <3>8 DEF CpuIdle
    <3> QED BY <2>0, <2>6, <3>1, <3>2, <3>3, <3>4, <3>5, <3>6, <3>7, <3>8 DEF KernelStep
  <2>7. CASE UserStep
    <3>1. ASSUME NEW p \in User, NEW c \in User, SysFork(p, c) PROVE InitGoesOn
      BY <2>2, <2>t, <3>1 DEF SysFork, DoFork
    <3>2. ASSUME NEW p \in User, SysNothing(p) \/ SysYield(p) PROVE InitGoesOn
      BY <2>2, <2>t, <3>2 DEF SysNothing, SysYield
    <3>3. ASSUME NEW p \in User, SysExit(p) PROVE InitGoesOn
      BY <2>3, <3>3, ProcFacts DEF SysExit
    <3>4. ASSUME NEW p \in User, NEW t, SysWait(p, t) PROVE InitGoesOn
      BY <2>4, <3>4 DEF SysWait
    <3>5. ASSUME NEW p \in User, NEW t, SysKill(p, t) PROVE InitGoesOn
      BY <2>2, <2>t, <3>5 DEF SysKill
    <3>6. ASSUME NEW p \in User, NEW e, SysSleep(p, e) PROVE InitGoesOn
      BY <2>2, <2>t, <3>6 DEF SysSleep
    <3> QED BY <2>0, <2>7, <3>1, <3>2, <3>3, <3>4, <3>5, <3>6 DEF UserStep
  <2>8. CASE Tick
    <3>1. ASSUME TickEnd PROVE InitGoesOn
      <4>1. at' = at \/ at' = [at EXCEPT ![current] = "tail"]
        BY <3>1 DEF TickEnd, IInv, TypeOK
      <4>2. current \in Proc
        BY DEF IInv, TypeOK
      <4> QED BY <2>1, <2>2, <3>1, <4>1, <4>2 DEF TickEnd
    <3>2. ASSUME TickStart \/ TickWake PROVE InitGoesOn
      BY <2>2, <3>2 DEF TickStart, TickWake, procVars
    <3> QED BY <2>0, <2>8, <3>1, <3>2 DEF Tick
  <2>9. CASE UNCHANGED vars \/ Halted
    BY <2>0, <2>2, <2>9 DEF Halted, vars, procVars
  <2> QED BY <2>6, <2>7, <2>8, <2>9 DEF Next
<1> QED BY <1>1, <1>2

\* The asserts at the end of init_main hold for any number of processes, whatever
\* tree of processes they made: nobody is left when initproc has no child left.
THEOREM NobodyIsLeftBehind == SafetySpec => []InitLeavesLast
<1>1. Init => Forest /\ InitHalts
  <2> SUFFICES ASSUME Init PROVE Forest /\ InitHalts
    OBVIOUS
  <2>1. {c \in User : state[c] # "FREE"} = {}
    BY ProcFacts DEF Init
  <2> QED BY <2>1, ProcFacts DEF Init, Forest, InitHalts
<1>2. IInv /\ IInv' /\ Forest /\ InitHalts /\ [Next]_vars => (Forest /\ InitHalts)'
  BY NextBirth, NextInitHalts, ForestKept, ForestGrows
<1>3. IInv /\ Forest /\ InitHalts => InitLeavesLast
  <2> SUFFICES ASSUME IInv, Forest, InitHalts, at[initproc] = "halt"
               PROVE  Alive = {idleproc, initproc}
    BY DEF InitLeavesLast
  <2> DEFINE L == {c \in User : state[c] # "FREE"}
  <2>1. L = {}
    <3> SUFFICES ASSUME L # {} PROVE FALSE
      OBVIOUS
    <3>1. PICK c \in L : parent[c] \notin L
      BY DEF Forest
    <3>2. parent[c] \in Proc /\ state[parent[c]] # "FREE"
      BY <3>1, ParentsExist
    <3>3. parent[c] \in {idleproc, initproc}
      BY <3>1, <3>2 DEF Proc
    <3>4. parent[c] # initproc
      BY <3>1 DEF InitHalts, Children
    <3>5. parent[c] # idleproc
      BY <3>1 DEF IInv, ParentCanReap, Places
    <3> QED BY <3>3, <3>4, <3>5
  <2>2. state[idleproc] # "FREE" /\ state[initproc] # "FREE"
    BY DEF IInv, Places
  <2> QED BY <2>1, <2>2, ProcFacts DEF Alive, Proc
<1> QED BY <1>1, <1>2, <1>3, IInvHolds, PTL DEF SafetySpec

-----------------------------------------------------------------------------
\* do_wait leaves the timers alone.
LEMMA DoWaitTimers == ASSUME NEW p, NEW t, DoWait(p, t) PROVE timers' = timers
BY DEF DoWait, WaitReap, WaitSleep, WaitNoChild, timerVars

\* The timers: every step of the processes is a step of TimerSpec, or leaves
\* every deadline as it was.
LEMMA NextTimers == IInv /\ [Next]_vars => [TS!Next]_due
<1> SUFFICES ASSUME IInv, [Next]_vars PROVE TS!Next \/ due' = due
  OBVIOUS
<1>1. TimersExact
  BY DEF IInv
<1>2. ASSUME timers' = timers PROVE due' = due
  BY <1>2 DEF due, Deadline, Owners
<1>3. ASSUME NEW p \in User, SleepRet(p) PROVE TS!Next \/ due' = due
  <2>1. irq = "none" /\ irq' = irq /\ DelTimer(p)
    BY <1>3 DEF SleepRet, SleepDelTimer, Running
  <2>2. (TS!Delete(p) /\ p \in Sleeper) \/ due' = due
    BY <1>1, <2>1, DelTimerStep
  <2> QED BY <2>2 DEF TS!Next
<1>4. ASSUME NEW p \in User, NEW e \in 1 .. MaxSleep, SysSleep(p, e) PROVE TS!Next
  <2>1. /\ irq = "none" /\ irq' = irq /\ AddTimer(p, e) /\ current = p /\ at[p] = "user"
        /\ p \in Sleeper /\ p \in Proc
    BY <1>4, ProcFacts DEF SysSleep, Running, User
  <2>2. p \notin Owners
    BY <2>1, RunningFacts
  <2>3. TS!Add(p, e)
    BY <1>1, <2>1, <2>2, AddTimerStep
  <2> QED BY <2>1, <2>3 DEF TS!Next
<1>5. ASSUME TickStart PROVE TS!Next
  BY <1>1, <1>5, TimerTickStep DEF TickStart, TS!Next
<1>6. ASSUME TickWake PROVE TS!Next
  BY <1>1, <1>6, FireHeadStep DEF TickWake, TS!Next
<1>7. ASSUME TickEnd \/ Halted \/ UNCHANGED vars PROVE timers' = timers
  BY <1>7 DEF TickEnd, TimerTickEnd, Halted, vars, timerVars
<1>8. CASE KernelStep
  <2>1. ASSUME NEW p \in Proc, Switch(p) \/ ExitNotify(p) \/ ExitReparent(p) \/ TrapReturn(p)
        PROVE  timers' = timers
    BY <2>1 DEF Switch, ExitNotify, ExitReparent, TrapReturn, timerVars
  <2>2. ASSUME NEW p \in Proc, TrapExit(p) PROVE timers' = timers
    BY <2>2 DEF TrapExit, DoExit, timerVars
  <2>3. ASSUME NEW p \in Proc, WaitRet(p) PROVE timers' = timers
    BY <2>3, DoWaitTimers DEF WaitRet, DoExit, timerVars
  <2>4. ASSUME NEW c \in User, InitFork(c) PROVE timers' = timers
    BY <2>4 DEF InitFork, DoFork, timerVars
  <2>5. ASSUME InitWait \/ CpuIdle PROVE timers' = timers
    BY <2>5, DoWaitTimers DEF InitWait, CpuIdle, timerVars
  <2> QED BY <1>2, <1>3, <1>8, <2>1, <2>2, <2>3, <2>4, <2>5, ProcFacts DEF KernelStep
<1>9. CASE UserStep
  <2>1. ASSUME NEW p \in User, NEW c \in User, SysFork(p, c) PROVE timers' = timers
    BY <2>1 DEF SysFork, DoFork, timerVars
  <2>2. ASSUME NEW p \in User, SysNothing(p) \/ SysYield(p) \/ SysExit(p)
        PROVE  timers' = timers
    BY <2>2 DEF SysNothing, SysYield, SysExit, DoExit, timerVars
  <2>3. ASSUME NEW p \in User, NEW t, SysWait(p, t) PROVE timers' = timers
    BY <2>3, DoWaitTimers DEF SysWait
  <2>4. ASSUME NEW p \in User, NEW t, SysKill(p, t) PROVE timers' = timers
    BY <2>4 DEF SysKill, timerVars
  <2> QED BY <1>2, <1>4, <1>9, <2>1, <2>2, <2>3, <2>4 DEF UserStep
<1> QED BY <1>2, <1>5, <1>6, <1>7, <1>8, <1>9 DEF Next, Tick

\* The list of kernel timers, whatever the processes that sleep on it do and
\* however they are woken, keeps every deadline exactly: add_timer and del_timer
\* move no other deadline, and a timer expires at its own tick.
THEOREM TimerListKeepsDeadlines == SafetySpec => ImplementsTimerSpec
<1>1. Init => TS!Init
  BY TimersStart DEF Init
<1> QED BY <1>1, NextTimers, IInvHolds, PTL DEF SafetySpec, ImplementsTimerSpec, TS!Spec
=============================================================================
