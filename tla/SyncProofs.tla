----------------------------- MODULE SyncProofs -----------------------------
(***************************************************************************)
(* Proofs about the kernel's semaphore (SemLock), its console input        *)
(* (Stdin), for any number of processes, and the dining philosophers of    *)
(* kern/sync/check_sync.c in the specification that MCSync composes, for   *)
(* any number of philosophers and of meals.                                *)
(*                                                                         *)
(* A semaphore conserves its permits and implements a first-come lock, for *)
(* any number of permits.  No key is missed by a sleeping reader, and the  *)
(* ring of positions modulo STDIN_BUFSIZE is the queue of KeySpec, for any *)
(* characters and buffer sizes: the ring rests on two facts about %, that  *)
(* positions less than a period apart differ and that a period apart they  *)
(* agree.                                                                  *)
(*                                                                         *)
(* Neighbours never eat together, with semaphores and with the monitor of  *)
(* kern/sync/monitor.c, and one process at a time is active in that        *)
(* monitor: the invariants and their steps are in PhilosophersProofs.      *)
(***************************************************************************)
EXTENDS MCSync, PhilosophersProofs, FiniteSetTheorems

IInv == /\ TypeOK
        /\ blocked \subseteq {p \in Client : pc[p] = "in"}
        /\ SleepersQueued
        /\ PermitsConserved

\* The record operations of up and down, spelt out once.
LEMMA SemField ==
  ASSUME TypeOK
  PROVE  /\ value \in 0 .. Permits /\ waiting \in Seq(Client)
         /\ \A v : [sem EXCEPT ![lock].value = v][lock].value = v
         /\ \A v : [sem EXCEPT ![lock].value = v][lock].queue = waiting
         /\ \A q : [sem EXCEPT ![lock].queue = q][lock].queue = q
         /\ \A q : [sem EXCEPT ![lock].queue = q][lock].value = value
         /\ \A v \in 0 .. Permits : [sem EXCEPT ![lock].value = v] \in
               [{lock} -> [value : 0 .. Permits, queue : Seq(Client)]]
         /\ \A q \in Seq(Client) : [sem EXCEPT ![lock].queue = q] \in
               [{lock} -> [value : 0 .. Permits, queue : Seq(Client)]]
  BY DEF TypeOK, value, waiting

\* The cardinality of LockSpec's instance is the usual one.
LEMMA SameCardinality == \A S : LS!Cardinality(S) = Cardinality(S)
  BY DEF LS!Cardinality, Cardinality

LEMMA HoldersFinite == IsFiniteSet(holders) /\ Cardinality(holders) \in Nat
  <1>1. holders \subseteq Client
    BY DEF holders
  <1> QED BY <1>1, LockAssumption, FS_Subset, FS_CardinalityType

LEMMA InitIInv == Init => IInv
  <1> SUFFICES ASSUME Init PROVE IInv
    OBVIOUS
  <1>1. TypeOK
    BY LockAssumption DEF Init, TypeOK, NewSem
  <1>2. holders = {}
    BY DEF Init, holders
  <1>3. PermitsConserved
    BY <1>2, FS_EmptySet, LockAssumption DEF Init, NewSem, value, PermitsConserved
  <1>4. SleepersQueued
    BY DEF Init, NewSem, value, waiting, SleepersQueued
  <1> QED BY <1>1, <1>3, <1>4 DEF IInv, Init

\* A permit is taken: by down with a positive value, or by try_down.
LEMMA TakeIInv ==
  ASSUME IInv, NEW p \in Client, pc[p] = "out", value > 0,
         sem' = [sem EXCEPT ![lock].value = @ - 1], blocked' = blocked,
         pc' = [pc EXCEPT ![p] = "in"]
  PROVE  IInv' /\ LS!Acquire(p)
  <1>1. /\ value' = value - 1 /\ waiting' = waiting
        /\ value \in 0 .. Permits
    BY SemField DEF IInv, value, waiting
  <1>2. TypeOK'
    BY SemField, LockAssumption DEF IInv, TypeOK, value
  <1>3. p \notin blocked /\ p \notin holders
    BY DEF IInv, holders
  <1>4. holders' = holders \cup {p}
    BY <1>3 DEF holders, IInv, TypeOK
  <1>5. Cardinality(holders') = Cardinality(holders) + 1
    BY <1>3, <1>4, HoldersFinite, FS_AddElement
  <1>6. PermitsConserved'
    BY <1>1, <1>5, HoldersFinite, LockAssumption DEF IInv, PermitsConserved
  <1>7. waiting = <<>>
    BY <1>1 DEF IInv, SleepersQueued
  <1>8. SleepersQueued'
    BY <1>1, <1>7 DEF IInv, SleepersQueued
  <1>9. blocked' \subseteq {q \in Client : pc'[q] = "in"}
    BY DEF IInv, TypeOK
  <1>10. Cardinality(holders) < Permits
    BY <1>1, HoldersFinite, LockAssumption DEF IInv, PermitsConserved
  <1>11. LS!Acquire(p)
    BY <1>1, <1>3, <1>4, <1>7, <1>10, SameCardinality DEF LS!Acquire
  <1> QED BY <1>2, <1>6, <1>8, <1>9, <1>11 DEF IInv

\* down with value zero: p goes to the end of the queue.
LEMMA SleepIInv ==
  ASSUME IInv, NEW p \in Client, pc[p] = "out", ~(value > 0),
         sem' = [sem EXCEPT ![lock].queue = Append(@, p)],
         blocked' = blocked \cup {p},
         pc' = [pc EXCEPT ![p] = "in"]
  PROVE  IInv' /\ LS!Wait(p)
  <1>1. /\ waiting \in Seq(Client) /\ value \in 0 .. Permits
        /\ waiting' = Append(waiting, p) /\ value' = value
    BY SemField DEF IInv, value, waiting
  <1>2. TypeOK'
    <2>1. Append(waiting, p) \in Seq(Client)
      BY <1>1
    <2>2. sem' \in [{lock} -> [value : 0 .. Permits, queue : Seq(Client)]]
      BY <2>1, SemField DEF IInv, waiting
    <2> QED BY <2>2 DEF IInv, TypeOK
  <1>3. p \notin blocked /\ p \notin holders
    BY DEF IInv, holders
  <1>4. holders' = holders
    BY <1>3 DEF holders, IInv, TypeOK
  <1>5. PermitsConserved' /\ value = 0
    BY <1>1, <1>4 DEF IInv, PermitsConserved
  <1>6. SleepersQueued'
    <2>1. /\ Len(waiting') = Len(waiting) + 1
          /\ Len(waiting) \in Nat
          /\ waiting'[Len(waiting) + 1] = p
          /\ \A i \in 1 .. Len(waiting) : waiting'[i] = waiting[i]
      BY <1>1
    <2>2. blocked' = {waiting'[i] : i \in 1 .. Len(waiting')}
      <3>1. blocked = {waiting[i] : i \in 1 .. Len(waiting)}
        BY DEF IInv, SleepersQueued
      <3>2. \A i \in 1 .. Len(waiting') : i \in 1 .. Len(waiting) \/ i = Len(waiting) + 1
        BY <2>1
      <3>3. 1 .. Len(waiting) \subseteq 1 .. Len(waiting') /\ Len(waiting) + 1 \in 1 .. Len(waiting')
        BY <2>1
      <3> QED BY <2>1, <3>1, <3>2, <3>3
    <2>3. ASSUME NEW i \in 1 .. Len(waiting'), NEW j \in 1 .. Len(waiting'),
                 waiting'[i] = waiting'[j]
          PROVE  i = j
      <3>1. \A k \in 1 .. Len(waiting) : waiting[k] # p
        BY <1>3 DEF IInv, SleepersQueued
      <3>2. CASE i = Len(waiting) + 1 \/ j = Len(waiting) + 1
        BY <2>1, <2>3, <3>1, <3>2
      <3>3. CASE i # Len(waiting) + 1 /\ j # Len(waiting) + 1
        <4>1. i \in 1 .. Len(waiting) /\ j \in 1 .. Len(waiting)
          BY <2>1, <3>3
        <4> QED BY <2>1, <2>3, <4>1 DEF IInv, SleepersQueued
      <3> QED BY <3>2, <3>3
    <2> QED BY <1>1, <1>5, <2>2, <2>3 DEF SleepersQueued
  <1>7. blocked' \subseteq {q \in Client : pc'[q] = "in"}
    BY DEF IInv, TypeOK
  <1>8. Cardinality(holders) = Permits
    BY <1>5, HoldersFinite, LockAssumption DEF IInv, PermitsConserved
  <1>9. LS!Wait(p)
    BY <1>1, <1>3, <1>4, <1>8, SameCardinality DEF LS!Wait
  <1> QED BY <1>2, <1>5, <1>6, <1>7, <1>9 DEF IInv

\* up with an empty queue: the permit goes back into the value.
LEMMA GiveIInv ==
  ASSUME IInv, NEW p \in holders, waiting = <<>>,
         sem' = [sem EXCEPT ![lock].value = @ + 1], blocked' = blocked,
         pc' = [pc EXCEPT ![p] = "out"]
  PROVE  IInv' /\ LS!Release(p)
  <1>0. p \in Client /\ pc[p] = "in" /\ p \notin blocked
    BY DEF holders
  <1>1. /\ value' = value + 1 /\ waiting' = waiting
        /\ value \in 0 .. Permits
    BY SemField DEF IInv, value, waiting
  <1>2. holders' = holders \ {p}
    BY <1>0 DEF holders, IInv, TypeOK
  <1>3. Cardinality(holders') = Cardinality(holders) - 1
    BY <1>2, HoldersFinite, FS_RemoveElement
  <1>4. PermitsConserved'
    BY <1>1, <1>3, HoldersFinite, LockAssumption DEF IInv, PermitsConserved
  <1>5. value' \in 0 .. Permits
    <2>1. Cardinality(holders') \in Nat
      <3>1. IsFiniteSet(holders')
        BY <1>2, HoldersFinite, FS_Subset
      <3> QED BY <3>1, FS_CardinalityType
    <2> QED BY <1>1, <1>4, <2>1, LockAssumption DEF PermitsConserved
  <1>6. TypeOK'
    BY <1>0, <1>1, <1>5, SemField DEF IInv, TypeOK, value
  <1>7. SleepersQueued'
    BY <1>1 DEF IInv, SleepersQueued
  <1>8. blocked' \subseteq {q \in Client : pc'[q] = "in"}
    BY <1>0 DEF IInv, TypeOK
  <1>9. LS!Release(p)
    BY <1>1, <1>2 DEF LS!Release
  <1> QED BY <1>4, <1>6, <1>7, <1>8, <1>9 DEF IInv

\* up with a waiter: the permit passes to it without touching the value.
LEMMA PassIInv ==
  ASSUME IInv, NEW p \in holders, waiting # <<>>,
         sem' = [sem EXCEPT ![lock].queue = Tail(@)],
         blocked' = blocked \ {Head(waiting)},
         pc' = [pc EXCEPT ![p] = "out"]
  PROVE  IInv' /\ LS!Pass(p)
  <1>0. p \in Client /\ pc[p] = "in" /\ p \notin blocked
    BY DEF holders
  <1> DEFINE q == Head(waiting)
  <1>1. /\ waiting \in Seq(Client) /\ value \in 0 .. Permits
        /\ waiting' = Tail(waiting) /\ value' = value
        /\ Tail(waiting) \in Seq(Client)
    <2>1. waiting \in Seq(Client) /\ value \in 0 .. Permits
      BY SemField DEF IInv
    <2>2. waiting' = Tail(waiting) /\ value' = value
      BY SemField DEF IInv, value, waiting
    <2>3. Tail(waiting) \in Seq(Client)
      BY <2>1
    <2> QED BY <2>1, <2>2, <2>3
  <1>2. /\ Len(waiting) \in Nat /\ Len(waiting) > 0
        /\ Len(waiting') = Len(waiting) - 1
        /\ \A i \in 1 .. Len(waiting') : waiting'[i] = waiting[i + 1]
        /\ q = waiting[1]
    BY <1>1
  <1>3. q \in blocked /\ q \in Client /\ pc[q] = "in" /\ q # p
    <2>1. 1 \in 1 .. Len(waiting)
      BY <1>2
    <2>2. q \in blocked
      BY <1>2, <2>1 DEF IInv, SleepersQueued
    <2> QED BY <1>0, <2>2 DEF IInv
  <1>4. holders' = (holders \ {p}) \cup {q}
    BY <1>0, <1>3 DEF holders, IInv, TypeOK
  <1>5. Cardinality(holders') = Cardinality(holders)
    <2>1. q \notin holders \ {p}
      BY <1>3 DEF holders
    <2>2. IsFiniteSet(holders \ {p}) /\ Cardinality(holders \ {p}) = Cardinality(holders) - 1
      BY HoldersFinite, FS_RemoveElement
    <2>3. Cardinality(holders') = Cardinality(holders \ {p}) + 1
      BY <1>4, <2>1, <2>2, FS_AddElement
    <2> QED BY <2>2, <2>3, HoldersFinite
  <1>6. PermitsConserved'
    BY <1>1, <1>5 DEF IInv, PermitsConserved
  <1>7. TypeOK'
    BY <1>0, <1>1, SemField DEF IInv, TypeOK, waiting
  <1>8. SleepersQueued'
    <2>1. waiting' # <<>> => value' = 0
      BY <1>1 DEF IInv, SleepersQueued
    <2>2. \A i, j \in 1 .. Len(waiting) : waiting[i] = waiting[j] => i = j
      BY DEF IInv, SleepersQueued
    <2>3. ASSUME NEW i \in 1 .. Len(waiting'), NEW j \in 1 .. Len(waiting'),
                 waiting'[i] = waiting'[j]
          PROVE  i = j
      <3>1. i + 1 \in 1 .. Len(waiting) /\ j + 1 \in 1 .. Len(waiting)
        BY <1>2
      <3>2. i + 1 = j + 1
        BY <1>2, <2>2, <2>3, <3>1
      <3> QED BY <3>2
    <2>4. blocked' = {waiting'[i] : i \in 1 .. Len(waiting')}
      <3>1. blocked = {waiting[i] : i \in 1 .. Len(waiting)}
        BY DEF IInv, SleepersQueued
      <3>2. ASSUME NEW i \in 1 .. Len(waiting') PROVE waiting'[i] \in blocked'
        <4>1. i + 1 \in 1 .. Len(waiting) /\ 1 \in 1 .. Len(waiting) /\ i + 1 # 1
          BY <1>2
        <4>2. waiting[i + 1] # waiting[1]
          BY <2>2, <4>1
        <4> QED BY <1>2, <3>1, <4>1, <4>2
      <3>3. ASSUME NEW x \in blocked'
            PROVE  \E i \in 1 .. Len(waiting') : x = waiting'[i]
        <4>1. PICK k \in 1 .. Len(waiting) : x = waiting[k] /\ k # 1
          BY <1>2, <3>1
        <4>2. k - 1 \in 1 .. Len(waiting') /\ (k - 1) + 1 = k
          BY <1>2, <4>1
        <4> QED BY <1>2, <4>1, <4>2
      <3> QED BY <3>2, <3>3
    <2> QED BY <2>1, <2>3, <2>4 DEF SleepersQueued
  <1>9. blocked' \subseteq {r \in Client : pc'[r] = "in"}
    BY <1>0 DEF IInv, TypeOK
  <1>10. LS!Pass(p)
    BY <1>1, <1>4 DEF LS!Pass
  <1> QED BY <1>6, <1>7, <1>8, <1>9, <1>10 DEF IInv

\* Every step of the semaphore preserves the invariant and is a step of the
\* abstract lock.
LEMMA StepIInv == IInv /\ [Next]_vars => IInv' /\ [LS!Next]_(LS!vars)
  <1> SUFFICES ASSUME IInv, [Next]_vars PROVE IInv' /\ [LS!Next]_(LS!vars)
    OBVIOUS
  <1>1. CASE UNCHANGED vars
    BY <1>1 DEF vars, semVars, IInv, TypeOK, SleepersQueued, PermitsConserved,
                holders, value, waiting, LS!vars
  <1>2. ASSUME NEW p \in Client, Lock(p) PROVE IInv' /\ LS!Next
    <2>1. CASE value > 0
      BY <1>2, <2>1, TakeIInv DEF Lock, Down, value, LS!Next
    <2>2. CASE ~(value > 0)
      BY <1>2, <2>2, SleepIInv DEF Lock, Down, value, LS!Next
    <2> QED BY <2>1, <2>2
  <1>3. ASSUME NEW p \in Client, TryLock(p) PROVE IInv' /\ LS!Next
    BY <1>3, TakeIInv DEF TryLock, TryDown, value, LS!Next
  <1>4. ASSUME NEW p \in Client, Unlock(p) PROVE IInv' /\ LS!Next
    <2>0. p \in holders
      BY <1>4 DEF Unlock, holders
    <2>1. CASE waiting = <<>>
      BY <1>4, <2>0, <2>1, GiveIInv DEF Unlock, Up, waiting, LS!Next
    <2>2. CASE waiting # <<>>
      BY <1>4, <2>0, <2>2, PassIInv DEF Unlock, Up, waiting, LS!Next
    <2> QED BY <2>1, <2>2
  <1> QED BY <1>1, <1>2, <1>3, <1>4 DEF Next

THEOREM IInvHolds == Spec => []IInv
  BY InitIInv, StepIInv, PTL DEF Spec

\* The value of a semaphore stays between zero and its permits.
THEOREM TypeCorrect == Spec => []TypeOK
  BY IInvHolds, PTL DEF IInv

\* up and down neither make nor lose a permit; with one permit, a lock
\* excludes.
THEOREM PermitsAreConserved == Spec => []PermitsConserved
  BY IInvHolds, PTL DEF IInv

\* The semaphore implements the first-come lock of LockSpec.
THEOREM SemaphoreIsLock == Spec => ImplementsLockSpec
  <1>1. Init => LS!Init
    BY DEF Init, LS!Init, holders, waiting, NewSem
  <1> QED BY <1>1, StepIInv, IInvHolds, PTL DEF Spec, ImplementsLockSpec, LS!Spec

-----------------------------------------------------------------------------
\* Quotient and remainder.
LEMMA Division ==
  ASSUME NEW size \in Nat \ {0}, NEW a \in Nat
  PROVE  /\ a \div size \in Nat /\ a % size \in 0 .. size - 1
         /\ a = size * (a \div size) + (a % size)
  OBVIOUS

\* A positive multiple of size is at least size.
LEMMA NoMultipleBetween ==
  ASSUME NEW size \in Nat \ {0}, NEW k \in Int, size * k > 0
  PROVE  size * k >= size
  OBVIOUS

\* Positions less than a period apart are different places of the ring.
LEMMA ModDistinct ==
  ASSUME NEW size \in Nat \ {0}, NEW a \in Nat, NEW b \in Nat, a < b, b - a < size
  PROVE  a % size # b % size
<1> DEFINE q == a \div size
           p == b \div size
<1>1. a = size * q + (a % size) /\ b = size * p + (b % size) /\ q \in Nat /\ p \in Nat
  BY Division
<1>2. a % size \in Int /\ b % size \in Int
  BY Division
<1> HIDE DEF q, p
<1>3. size * (p - q) = size * p - size * q
  BY <1>1
<1>4. size * (p - q) > 0 => size * (p - q) >= size
  BY <1>1, NoMultipleBetween
<1> QED BY <1>1, <1>2, <1>3, <1>4

\* Positions a period apart are the same place.
LEMMA RingPeriod ==
  ASSUME NEW size \in Nat \ {0}, NEW a \in Nat
  PROVE  (a + size) % size = a % size
<1> DEFINE q == a \div size
           p == (a + size) \div size
<1>1. /\ a = size * q + (a % size) /\ a + size = size * p + ((a + size) % size)
      /\ q \in Nat /\ p \in Nat
  BY Division
<1>2. a % size \in 0 .. size - 1 /\ (a + size) % size \in 0 .. size - 1
  BY Division
<1> HIDE DEF q, p
<1>3. /\ size * (p - q - 1) = size * p - size * q - size
      /\ size * (q + 1 - p) = size * q + size - size * p
  BY <1>1
<1>4. /\ size * (p - q - 1) > 0 => size * (p - q - 1) >= size
      /\ size * (q + 1 - p) > 0 => size * (q + 1 - p) >= size
  BY <1>1, NoMultipleBetween
<1> QED BY <1>1, <1>2, <1>3, <1>4

-----------------------------------------------------------------------------
\* The buffers of dev_stdin.c and console.c have room for something.
Sizes == STDIN_BUFSIZE \in Nat \ {0} /\ CONSBUFSIZE \in Nat \ {0} /\ MaxLen \in Nat

\* Types, and how far the two positions can be apart.
TypeInv ==
  /\ p_rpos \in Nat /\ p_wpos \in Nat
  /\ p_rpos <= p_wpos /\ p_wpos - p_rpos <= STDIN_BUFSIZE
  /\ stdin_buffer \in [0 .. STDIN_BUFSIZE - 1 -> Char \cup {NoChar}]
  /\ hw \in Seq(Char \cup {NoChar})
  /\ cons \in [buf : [0 .. CONSBUFSIZE - 1 -> Char \cup {NoChar}],
               rpos : 0 .. CONSBUFSIZE - 1, wpos : 0 .. CONSBUFSIZE - 1]
  /\ len \in [Reader -> Nat] /\ ret \in [Reader -> Nat]
  /\ \A r \in Reader : ret[r] <= len[r]
  /\ place \in [Reader -> {"user", "wait", "dead"}]

\* The readers in the wait queue are inside dev_stdin_read, and there is one only
\* while the buffer is empty.  Not every reader in the queue sleeps: a kill wakes
\* one and leaves it there.
WaitInv ==
  /\ wait_queue \subseteq Reader /\ asleep \subseteq wait_queue
  /\ \A r \in wait_queue : place[r] = "wait"
  /\ wait_queue # {} => p_rpos = p_wpos

Inv == TypeInv /\ WaitInv

\* The boot state has the invariant.
LEMMA InitInv == ASSUME Sizes PROVE stdin_device_init => Inv
  BY DEF Sizes, stdin_device_init, Inv, TypeInv, WaitInv, NoChar

\* What a round of the reading loop leaves.
LEMMA ReadLoopInv ==
  ASSUME Sizes, Inv, NEW r \in Reader, NEW n \in Nat, NEW g, NEW l \in Nat, n <= l,
         NEW queue \in SUBSET wait_queue, r \notin queue, r \notin asleep,
         \A x \in asleep : x \in queue,
         ReadLoop(r, n, g, l, queue)
  PROVE  Inv'
<1> DEFINE there == p_wpos - p_rpos
           more == IF l - n <= there THEN l - n ELSE there
<1>1. there \in Nat /\ more \in 0 .. there /\ n + more <= l /\ n + more \in Nat
  BY DEF Inv, TypeInv
<1>2. /\ p_rpos' = p_rpos + more /\ p_wpos' = p_wpos
      /\ ret' = [ret EXCEPT ![r] = n + more] /\ len' = [len EXCEPT ![r] = l]
      /\ UNCHANGED <<hw, cons, stdin_buffer>>
  BY DEF ReadLoop
<1> HIDE DEF there, more
<1>3. place' \in [Reader -> {"user", "wait", "dead"}]
  BY DEF ReadLoop, Return, Inv, TypeInv
<1>4. TypeInv'
  <2>1. /\ p_rpos' \in Nat /\ p_wpos' \in Nat
        /\ p_rpos' <= p_wpos' /\ p_wpos' - p_rpos' <= STDIN_BUFSIZE
    <3>1. p_rpos \in Nat /\ p_wpos \in Nat /\ STDIN_BUFSIZE \in Nat /\ there <= STDIN_BUFSIZE
      BY DEF Inv, TypeInv, Sizes, there
    <3> QED BY <1>1, <1>2, <3>1 DEF there
  <2>2. /\ len' \in [Reader -> Nat] /\ ret' \in [Reader -> Nat]
        /\ \A x \in Reader : ret'[x] <= len'[x]
    <3>1. /\ len \in [Reader -> Nat] /\ ret \in [Reader -> Nat]
          /\ \A x \in Reader : ret[x] <= len[x]
      BY DEF Inv, TypeInv
    <3> QED BY <1>1, <1>2, <3>1
  <2> QED BY <2>1, <2>2, <1>2, <1>3 DEF Inv, TypeInv
<1>5. WaitInv'
  <2>1. CASE n + more = l
    <3>1. wait_queue' = queue /\ asleep' = asleep /\ Return(r)
      BY <2>1 DEF ReadLoop, more, there
    <3>2. \A x \in queue : place'[x] = place[x]
      BY <3>1 DEF Return, Inv, TypeInv, WaitInv
    <3>3. wait_queue' # {} => p_rpos' = p_wpos'
      BY <3>1, <1>1, <1>2 DEF Inv, WaitInv, TypeInv, there
    <3> QED BY <3>1, <3>2, <3>3 DEF Inv, WaitInv
  <2>2. CASE n + more # l
    <3>1. /\ wait_queue' = queue \cup {r} /\ asleep' = asleep \cup {r}
          /\ place' = [place EXCEPT ![r] = "wait"]
      BY <2>2 DEF ReadLoop, more, there
    <3>2. more = there
      BY <2>2, <1>1 DEF more, Inv, TypeInv
    <3>3. p_rpos' = p_wpos'
      BY <3>2, <1>2 DEF there, Inv, TypeInv
    <3>4. \A x \in wait_queue' : place'[x] = "wait"
      BY <3>1 DEF Inv, TypeInv, WaitInv
    <3> QED BY <3>1, <3>3, <3>4 DEF Inv, WaitInv
  <2> QED BY <2>1, <2>2
<1> QED BY <1>4, <1>5 DEF Inv

\* Every step of the handler and of the readers keeps the invariant.
LEMMA StepInv == ASSUME Sizes, Inv, [StdinNext]_svars PROVE Inv'
<1>1. ASSUME NEW c \in Char \cup {NoChar}, press(c) PROVE Inv'
  BY <1>1 DEF press, Inv, TypeInv, WaitInv, buffer, reader
<1>2. CASE trap_kbd
  BY <1>2 DEF trap_kbd, Inv, TypeInv, WaitInv, buffer, reader
<1>3. CASE cons_intr
  <2>1. /\ hw' = Tail(hw) /\ UNCHANGED <<buffer, reader>>
        /\ cons' = IF Head(hw) = NoChar THEN cons
                   ELSE [cons EXCEPT !.buf[cons.wpos] = Head(hw), !.wpos = Advance(@)]
        /\ hw # <<>>
    BY <1>3 DEF cons_intr
  <2>2. hw' \in Seq(Char \cup {NoChar}) /\ Head(hw) \in Char \cup {NoChar}
    BY <2>1 DEF Inv, TypeInv
  <2>3. Advance(cons.wpos) \in 0 .. CONSBUFSIZE - 1
    BY DEF Advance, Inv, TypeInv, Sizes
  <2>4. cons' \in [buf : [0 .. CONSBUFSIZE - 1 -> Char \cup {NoChar}],
                   rpos : 0 .. CONSBUFSIZE - 1, wpos : 0 .. CONSBUFSIZE - 1]
    BY <2>1, <2>2, <2>3 DEF Inv, TypeInv
  <2> QED BY <2>1, <2>2, <2>4 DEF Inv, TypeInv, WaitInv, buffer, reader
<1>4. CASE cons_getc
  <2>1. Advance(cons.rpos) \in 0 .. CONSBUFSIZE - 1
    BY DEF Advance, Inv, TypeInv, Sizes
  <2>2. PICK c \in Char \cup {NoChar} : dev_stdin_write(c)
    BY <1>4 DEF cons_getc, Inv, TypeInv
  <2>3. hw' = hw /\ cons' \in [buf : [0 .. CONSBUFSIZE - 1 -> Char \cup {NoChar}],
                   rpos : 0 .. CONSBUFSIZE - 1, wpos : 0 .. CONSBUFSIZE - 1]
    BY <1>4, <2>1 DEF cons_getc, Inv, TypeInv
  <2>4. CASE c = NoChar
    BY <2>2, <2>3, <2>4 DEF dev_stdin_write, Inv, TypeInv, WaitInv, buffer, reader
  <2>5. CASE c # NoChar
    <3>1. p_wpos % STDIN_BUFSIZE \in 0 .. STDIN_BUFSIZE - 1
      BY Division DEF Inv, TypeInv, Sizes
    <3>2. TypeInv'
      <4>1. /\ stdin_buffer' = [stdin_buffer EXCEPT ![p_wpos % STDIN_BUFSIZE] = c]
            /\ p_wpos' = IF p_wpos - p_rpos < STDIN_BUFSIZE THEN p_wpos + 1 ELSE p_wpos
            /\ UNCHANGED <<p_rpos, place, len, ret>>
        BY <2>2, <2>5 DEF dev_stdin_write
      <4>2. stdin_buffer' \in [0 .. STDIN_BUFSIZE - 1 -> Char \cup {NoChar}]
        BY <4>1, <3>1 DEF Inv, TypeInv
      <4>3. /\ p_rpos' \in Nat /\ p_wpos' \in Nat
            /\ p_rpos' <= p_wpos' /\ p_wpos' - p_rpos' <= STDIN_BUFSIZE
        BY <4>1 DEF Inv, TypeInv, Sizes
      <4> QED BY <4>1, <4>2, <4>3, <2>3 DEF Inv, TypeInv
    <3>3. WaitInv'
      BY <2>2, <2>5 DEF dev_stdin_write, Inv, WaitInv
    <3> QED BY <3>2, <3>3 DEF Inv
  <2> QED BY <2>4, <2>5
<1>5. ASSUME NEW r \in Reader, NEW l \in 1 .. MaxLen, dev_stdin_read(r, l) PROVE Inv'
  <2>1. l \in Nat /\ 0 <= l
    BY DEF Sizes
  <2>2. place[r] = "user" /\ ReadLoop(r, 0, <<>>, l, wait_queue)
    BY <1>5 DEF dev_stdin_read
  <2>3. r \notin wait_queue /\ r \notin asleep /\ \A x \in asleep : x \in wait_queue
    BY <2>2 DEF Inv, WaitInv
  <2> QED BY <2>1, <2>2, <2>3, ReadLoopInv
<1>6. ASSUME NEW r \in Reader, try_again(r) PROVE Inv'
  <2>1. r \notin asleep /\ ReadLoop(r, ret[r], got[r], len[r], wait_queue \ {r})
    BY <1>6 DEF try_again
  <2>2. ret[r] \in Nat /\ len[r] \in Nat /\ ret[r] <= len[r]
    BY DEF Inv, TypeInv
  <2>3. \A x \in asleep : x \in wait_queue \ {r}
    BY <2>1 DEF Inv, WaitInv
  <2> QED BY <2>1, <2>2, <2>3, ReadLoopInv
<1>7. ASSUME NEW r \in Reader, give_up(r) PROVE Inv'
  <2>1. place' \in [Reader -> {"user", "wait", "dead"}] /\ \A x \in Reader \ {r} : place'[x] = place[x]
    BY <1>7 DEF give_up, Return, Inv, TypeInv
  <2> QED BY <1>7, <2>1 DEF give_up, Inv, TypeInv, WaitInv, input, buffer
<1>8. ASSUME NEW r \in Reader, do_kill(r) PROVE Inv'
  BY <1>8 DEF do_kill, Inv, TypeInv, WaitInv, input, buffer
<1>9. ASSUME NEW r \in Reader, do_exit(r) PROVE Inv'
  BY <1>9 DEF do_exit, Inv, TypeInv, WaitInv, input, buffer
<1>10. CASE UNCHANGED svars
  BY <1>10 DEF svars, Inv, TypeInv, WaitInv
<1> QED BY <1>1, <1>2, <1>3, <1>4, <1>5, <1>6, <1>7, <1>8, <1>9, <1>10 DEF StdinNext

\* No reader sleeps while a character is in the buffer, and whoever sleeps is in
\* the wait queue that dev_stdin_write empties: NoLostKey, for any number of readers.
THEOREM KeyIsNotLost == ASSUME Sizes PROVE StdinSpec => []NoLostKey
<1>1. stdin_device_init => Inv
  BY InitInv
<1>2. Inv /\ [StdinNext]_svars => Inv'
  BY StepInv
<1>3. Inv => NoLostKey
  BY DEF Inv, WaitInv, NoLostKey
<1> QED BY <1>1, <1>2, <1>3, PTL DEF StdinSpec
-----------------------------------------------------------------------------
(* The ring is a queue. *)

\* The place of the i-th oldest character.
Slot(i) == (p_rpos + i - 1) % STDIN_BUFSIZE

\* The i-th oldest character is neither where a new one goes, unless the buffer is
\* full, nor, for i > 1, where the oldest one is.
LEMMA SlotsDiffer ==
  ASSUME Sizes, Inv, NEW i \in 1 .. (p_wpos - p_rpos)
  PROVE  /\ Slot(i) \in 0 .. STDIN_BUFSIZE - 1
         /\ p_wpos - p_rpos < STDIN_BUFSIZE => Slot(i) # p_wpos % STDIN_BUFSIZE
         /\ i > 1 => Slot(i) # p_rpos % STDIN_BUFSIZE
<1> DEFINE size == STDIN_BUFSIZE
           a == p_rpos + i - 1
<1>1. /\ size \in Nat \ {0} /\ a \in Nat /\ p_rpos \in Nat /\ p_wpos \in Nat
      /\ a < p_wpos
      /\ p_wpos - p_rpos < size => p_wpos - a < size
      /\ i > 1 => p_rpos < a /\ a - p_rpos < size
  BY DEF Sizes, Inv, TypeInv
<1> HIDE DEF a, size
<1>2. a % size \in 0 .. size - 1
  BY <1>1, Division
<1>3. p_wpos - p_rpos < size => a % size # p_wpos % size
  BY <1>1, ModDistinct
<1>4. i > 1 => p_rpos % size # a % size
  BY <1>1, ModDistinct
<1> QED BY <1>2, <1>3, <1>4 DEF Slot, a, size

\* A character that arrives is a Put of the abstract queue.
LEMMA WriteIsPut ==
  ASSUME Sizes, Inv, Inv', NEW c \in Char, c # NoChar, dev_stdin_write(c)
  PROVE  KS!Put(c)
<1> DEFINE unread == p_wpos - p_rpos
           keys == [i \in 1 .. unread |-> stdin_buffer[(p_rpos + i - 1) % STDIN_BUFSIZE]]
<1>1. /\ stdin_buffer' = [stdin_buffer EXCEPT ![p_wpos % STDIN_BUFSIZE] = c]
      /\ p_wpos' = IF unread < STDIN_BUFSIZE THEN p_wpos + 1 ELSE p_wpos
      /\ p_rpos' = p_rpos /\ got' = got
  BY DEF dev_stdin_write
<1>2. /\ p_rpos \in Nat /\ p_wpos \in Nat /\ STDIN_BUFSIZE \in Nat \ {0}
      /\ unread \in 0 .. STDIN_BUFSIZE
      /\ stdin_buffer \in [0 .. STDIN_BUFSIZE - 1 -> Char \cup {NoChar}]
      /\ p_wpos % STDIN_BUFSIZE \in 0 .. STDIN_BUFSIZE - 1
  BY Division DEF Inv, TypeInv, Sizes
<1>3. unread' = IF unread < STDIN_BUFSIZE THEN unread + 1 ELSE unread
  BY <1>1, <1>2
<1>4. ASSUME NEW i \in 1 .. unread'
      PROVE  stdin_buffer'[(p_rpos' + i - 1) % STDIN_BUFSIZE]
               = IF i = (IF unread < STDIN_BUFSIZE THEN unread + 1 ELSE 1) THEN c ELSE keys[i]
  <2>1. CASE i \in 1 .. unread
    <3>1. /\ Slot(i) \in 0 .. STDIN_BUFSIZE - 1
          /\ unread < STDIN_BUFSIZE => Slot(i) # p_wpos % STDIN_BUFSIZE
          /\ i > 1 => Slot(i) # p_rpos % STDIN_BUFSIZE
      BY <2>1, SlotsDiffer
    <3>2. CASE unread < STDIN_BUFSIZE
      BY <1>1, <1>2, <2>1, <3>1, <3>2 DEF Slot
    <3>3. CASE unread = STDIN_BUFSIZE
      <4>1. p_wpos % STDIN_BUFSIZE = p_rpos % STDIN_BUFSIZE
        <5>1. p_wpos = p_rpos + STDIN_BUFSIZE
          BY <3>3, <1>2
        <5> QED BY <5>1, <1>2, RingPeriod
      <4>2. i = 1 => Slot(i) = p_wpos % STDIN_BUFSIZE
        BY <4>1, <1>2 DEF Slot
      <4> QED BY <1>1, <1>2, <2>1, <3>1, <3>3, <4>1, <4>2 DEF Slot
    <3> QED BY <3>2, <3>3, <1>2
  <2>2. CASE i \notin 1 .. unread
    <3>1. unread < STDIN_BUFSIZE /\ i = unread + 1 /\ p_rpos + i - 1 = p_wpos
      BY <2>2, <1>2, <1>3
    <3> QED BY <3>1, <1>1, <1>2
  <2> QED BY <2>1, <2>2
<1>5. [i \in 1 .. unread' |-> stdin_buffer'[(p_rpos' + i - 1) % STDIN_BUFSIZE]]
        = [i \in 1 .. unread' |-> IF i = (IF unread < STDIN_BUFSIZE THEN unread + 1 ELSE 1)
                                THEN c ELSE keys[i]]
  BY <1>4
<1> QED BY <1>1, <1>3, <1>5 DEF KS!Put

\* A round of the reading loop is a Take.
LEMMA ReadIsTake ==
  ASSUME Sizes, Inv, Inv', NEW r \in Reader, NEW n \in Nat, NEW g \in {<<>>, got[r]},
         NEW l \in Nat, n <= l, NEW queue, ReadLoop(r, n, g, l, queue)
  PROVE  KS!Next
<1> DEFINE unread == p_wpos - p_rpos
           more == IF l - n <= unread THEN l - n ELSE unread
           keys == [i \in 1 .. unread |-> stdin_buffer[(p_rpos + i - 1) % STDIN_BUFSIZE]]
<1>1. more \in 0 .. unread /\ unread \in Nat /\ p_rpos \in Nat /\ p_wpos \in Nat
  <2>1. p_rpos \in Nat /\ p_wpos \in Nat
    BY DEF Inv, TypeInv
  <2>2. p_rpos <= p_wpos
    BY DEF Inv, TypeInv
  <2>3. unread \in Nat
    BY ONLY <2>1, <2>2
  <2>4. l - n \in Nat
    BY ONLY l \in Nat, n \in Nat, n <= l
  <2> QED BY ONLY <2>1, <2>3, <2>4
<1>2. /\ p_rpos' = p_rpos + more /\ p_wpos' = p_wpos /\ stdin_buffer' = stdin_buffer
      /\ got' = [got EXCEPT ![r] = g \o [i \in 1 .. more |->
                               stdin_buffer[(p_rpos + i - 1) % STDIN_BUFSIZE]]]
  BY DEF ReadLoop
<1> HIDE DEF more
<1>3. unread' = unread - more
  BY <1>1, <1>2
<1>4. [i \in 1 .. more |-> stdin_buffer[(p_rpos + i - 1) % STDIN_BUFSIZE]]
        = [i \in 1 .. more |-> keys[i]]
  BY <1>1
<1>5. [i \in 1 .. unread' |-> stdin_buffer'[(p_rpos' + i - 1) % STDIN_BUFSIZE]]
        = [i \in 1 .. unread' |-> keys[i + more]]
  <2>1. ASSUME NEW i \in 1 .. unread'
        PROVE  i + more \in 1 .. unread /\ p_rpos' + i - 1 = p_rpos + (i + more) - 1
    BY <1>1, <1>2, <1>3
  <2>2. \A i \in 1 .. unread' : stdin_buffer'[(p_rpos' + i - 1) % STDIN_BUFSIZE] = keys[i + more]
    BY <2>1, <1>2
  <2> QED BY <2>2
<1>6. PICK k \in 0 .. (p_wpos - p_rpos) : k = more
  BY <1>1
<1>7. KS!Take(r, k)
  <2>1. unread' = unread - k
    BY <1>3, <1>6
  <2>2. [i \in 1 .. unread' |-> stdin_buffer'[(p_rpos' + i - 1) % STDIN_BUFSIZE]]
          = [i \in 1 .. unread' |-> keys[i + k]]
    BY <1>5, <1>6
  <2>3. got' = [got EXCEPT ![r] = g \o [i \in 1 .. k |-> keys[i]]]
    BY <1>2, <1>4, <1>6
  <2> QED BY <2>1, <2>2, <2>3, Zenon DEF KS!Take
<1> QED BY <1>6, <1>7, Zenon DEF KS!Next

\* The keyboard device implements the queue of KeySpec for all buffer sizes: the
\* positions of dev_stdin_write and dev_stdin_read, taken modulo STDIN_BUFSIZE,
\* never mix up two characters, and a full buffer gives up its oldest one.
THEOREM KeyboardIsQueue == ASSUME Sizes PROVE StdinSpec => ImplementsKeySpec
<1> DEFINE avars == <<p_wpos - p_rpos,
                      [i \in 1 .. (p_wpos - p_rpos) |-> stdin_buffer[(p_rpos + i - 1) % STDIN_BUFSIZE]],
                      got>>
<1>1. stdin_device_init => Inv
  BY InitInv
<1>2. Inv /\ [StdinNext]_svars => Inv'
  BY StepInv
<1>3. stdin_device_init => KS!Init
  BY DEF stdin_device_init, KS!Init, Sizes
<1>4. Inv /\ Inv' /\ [StdinNext]_svars => [KS!Next]_avars
  <2> SUFFICES ASSUME Inv, Inv', [StdinNext]_svars PROVE [KS!Next]_avars
    OBVIOUS
  <2>1. CASE UNCHANGED <<stdin_buffer, p_rpos, p_wpos, got>>
    BY <2>1
  <2>2. CASE cons_getc
    <3>1. PICK c \in Char \cup {NoChar} : dev_stdin_write(c)
      BY <2>2 DEF cons_getc, Inv, TypeInv
    <3>2. CASE c = NoChar
      BY <3>1, <3>2, <2>1 DEF dev_stdin_write, buffer, reader
    <3>3. CASE c # NoChar
      <4>1. c \in Char /\ KS!Put(c)
        BY <3>1, <3>3, WriteIsPut
      <4> QED BY <4>1 DEF KS!Next
    <3> QED BY <3>2, <3>3
  <2>3. ASSUME NEW r \in Reader, NEW l \in 1 .. MaxLen, dev_stdin_read(r, l) PROVE KS!Next
    <3>1. l \in Nat /\ ReadLoop(r, 0, <<>>, l, wait_queue) /\ 0 <= l
      BY <2>3 DEF dev_stdin_read, Sizes
    <3> QED BY <3>1, ReadIsTake
  <2>4. ASSUME NEW r \in Reader, try_again(r) PROVE KS!Next
    <3>1. ReadLoop(r, ret[r], got[r], len[r], wait_queue \ {r})
      BY <2>4 DEF try_again
    <3>2. ret[r] \in Nat /\ len[r] \in Nat /\ ret[r] <= len[r]
      BY DEF Inv, TypeInv
    <3> QED BY <3>1, <3>2, ReadIsTake
  <2>5. ASSUME StdinNext,
               ~ cons_getc,
               \A r \in Reader : ~ try_again(r),
               \A r \in Reader : \A l \in 1 .. MaxLen : ~ dev_stdin_read(r, l)
        PROVE  UNCHANGED <<stdin_buffer, p_rpos, p_wpos, got>>
    BY <2>5 DEF StdinNext, press, trap_kbd, cons_intr, give_up, do_kill, do_exit, buffer, reader, input
  <2>6. CASE UNCHANGED svars
    BY <2>6, <2>1 DEF svars
  <2> QED BY <2>1, <2>2, <2>3, <2>4, <2>5, <2>6
<1> HIDE DEF avars
<1>5. KS!Spec <=> KS!Init /\ [][KS!Next]_avars
  BY DEF KS!Spec, avars
<1> QED BY <1>1, <1>2, <1>3, <1>4, <1>5, PTL DEF StdinSpec, ImplementsKeySpec

-----------------------------------------------------------------------------
PhilosophersInv == /\ part = "sema" => SemaInv
                   /\ part = "condvar" => CondInv

LEMMA PhilosophersCount == Counting
<1>1. IsFiniteSet(Phil)
  BY PhilosophersAssumption, FS_Interval DEF Phil
<1>2. \A S \in SUBSET Phil : IsFiniteSet(S)
  BY <1>1, FS_Subset
<1>3. Cardinality({}) = 0
  BY FS_EmptySet
<1>4. \A S \in SUBSET Phil : Cardinality(S) \in Nat
  BY <1>2, FS_CardinalityType
<1>5. \A S \in SUBSET Phil : \A i \in S : Cardinality(S \ {i}) = Cardinality(S) - 1
  BY <1>2, FS_RemoveElement
<1>6. \A S \in SUBSET Phil : \A i \in Phil \ S : Cardinality(S \cup {i}) = Cardinality(S) + 1
  BY <1>2, FS_AddElement
<1> QED BY <1>3, <1>4, <1>5, <1>6 DEF Counting

LEMMA PhilosophersInit == MCInit => PhilosophersInv
  BY PhilosophersCount, SemaInit, CondInit DEF MCInit, PhilosophersInv

LEMMA PhilosophersStep ==
  PhilosophersInv /\ [MCNext]_<<part, vars, philosophers, svars>> => PhilosophersInv'
<1> SUFFICES ASSUME PhilosophersInv, [MCNext]_<<part, vars, philosophers, svars>>
             PROVE  PhilosophersInv'
  OBVIOUS
<1>1. CASE part = "sema" /\ PS!Next /\ UNCHANGED part
  BY <1>1, SemaStep DEF PhilosophersInv
<1>2. CASE part = "condvar" /\ PC!Next /\ UNCHANGED part
  BY <1>2, PhilosophersCount, CondStep DEF PhilosophersInv
<1>3. CASE UNCHANGED <<part, philosophers>>
  BY <1>3, TableStutters DEF PhilosophersInv
<1> QED BY <1>1, <1>2, <1>3 DEF MCNext

\* Neighbours never eat at the same time, and a philosopher that has returned from
\* phi_take_forks_sema or phi_take_forks_condvar is EATING, however many sit at the
\* table and however often they eat.
THEOREM NeighboursNeverEatTogether == MCSpec => []ForksExclusive
<1>1. PhilosophersInv => ForksExclusive
  BY SemaForksExclusive, CondForksExclusive DEF PhilosophersInv, ForksExclusive
<1> QED BY <1>1, PhilosophersInit, PhilosophersStep, PTL DEF MCSpec

\* One process at a time executes monitor code (monitor.c), and next_count is the
\* number of processes inside cond_signal, for any number of philosophers.
THEOREM OneProcessActiveInMonitor == MCSpec => []OneActive
<1>1. PhilosophersInv => OneActive
  BY PhilosophersCount, CondOneActive DEF PhilosophersInv, OneActive
<1> QED BY <1>1, PhilosophersInit, PhilosophersStep, PTL DEF MCSpec
=============================================================================
