------------------------- MODULE PhilosophersProofs -------------------------
(***************************************************************************)
(* The dining philosophers of kern/sync/check_sync.c for any number of     *)
(* philosophers and of meals: neighbours never eat together, with          *)
(* semaphores and with the monitor of kern/sync/monitor.c, and one process *)
(* at a time is active in that monitor.                                    *)
(***************************************************************************)
EXTENDS PhilosophersTable, TLAPS

Phil == 0 .. N - 1

\* A queue of different philosophers, all of them in S.
QueueOf(q, S) == /\ q \in Seq(Phil)
                 /\ \A k \in 1 .. Len(q) : q[k] \in S
                 /\ \A k, l \in 1 .. Len(q) : q[k] = q[l] => k = l

Value(s) == psem[s].value
Queue(s) == psem[s].queue

SemType(K) == /\ psem \in [K -> [value : Nat, queue : Seq(Phil)]]
              /\ pblocked \in SUBSET Phil
              /\ table \in [Phil -> {"THINKING", "HUNGRY", "EATING"}]

\* No two neighbours are EATING.
Apart(st) == \A i \in Phil : st[i] = "EATING" => st[PS!LEFT(i)] # "EATING"

-----------------------------------------------------------------------------
\* The inductive invariant of the version with semaphores.

SemaPlaces == {"think", "take", "taken", "fork", "eat", "left", "right", "leave", "quit"}

\* What place, table and semaphore of philosopher i have to do with each other:
\* s[i] is worth one only between the test that gave i its forks and its down,
\* and i sleeps on it only while it is HUNGRY.
SemaForks(i) ==
  \/ /\ ppc[i] \in {"think", "take", "right", "leave", "quit"}
     /\ table[i] = "THINKING" /\ Value(i) = 0 /\ Queue(i) = <<>>
  \/ /\ ppc[i] \in {"taken", "fork"} /\ Queue(i) = <<>>
     /\ \/ table[i] = "HUNGRY" /\ Value(i) = 0
        \/ table[i] = "EATING" /\ Value(i) = 1
  \/ /\ ppc[i] = "eat" /\ i \in pblocked
     /\ table[i] = "HUNGRY" /\ Value(i) = 0 /\ Queue(i) = <<i>>
  \/ /\ ppc[i] = "eat" /\ i \notin pblocked
     /\ table[i] = "EATING" /\ Value(i) = 0 /\ Queue(i) = <<>>
  \/ /\ ppc[i] = "left"
     /\ table[i] = "EATING" /\ Value(i) = 0 /\ Queue(i) = <<>>

SemaInv ==
  /\ SemType(0 .. N)
  /\ ppc \in [Phil -> SemaPlaces]
  /\ pblocked \subseteq {i \in Phil : ppc[i] \in {"take", "left", "eat"}}
  /\ QueueOf(Queue(N), {i \in pblocked : ppc[i] \in {"take", "left"}})
  /\ \A i \in Phil : SemaForks(i)
  /\ Apart(table)

-----------------------------------------------------------------------------
\* The inductive invariant of the version with a monitor.

CondPlaces == {"think", "enter", "test", "signalled", "resumed", "wait", "woken",
               "leave", "eat", "quit"}

Sems == 0 .. N + 1

\* The processes that sleep at a place.
Sleepers(p) == {i \in pblocked : ppc[i] = p}

\* The processes that execute monitor code.
InMonitor == {"enter", "test", "resumed", "woken", "leave"}
Active == {i \in Phil : ppc[i] \in InMonitor /\ i \notin pblocked}

Signallers == {i \in Phil : ppc[i] \in {"signalled", "resumed"}}

\* The right to be active exists once: it is with a process or in the value of
\* one semaphore.
OneRight ==
  /\ \A i, j \in Active : i = j
  /\ \A s \in Sems : Value(s) > 0 => Value(s) = 1 /\ Active = {}
  /\ \A s, t \in Sems : Value(s) > 0 /\ Value(t) > 0 => s = t

\* The condition variable of philosopher i: only i waits for it, and it is woken
\* by the test that makes it EATING.
CondForks(i) ==
  /\ count[i] = IF ppc[i] \in {"wait", "woken"} THEN 1 ELSE 0
  /\ Queue(i) = IF ppc[i] = "woken" /\ i \in pblocked THEN <<i>> ELSE <<>>
  /\ Value(i) > 0 => ppc[i] = "wait" /\ table[i] = "EATING"
  /\ ppc[i] = "woken" /\ i \notin pblocked => table[i] = "EATING"
  /\ ppc[i] = "eat" => table[i] = "EATING"
  /\ ppc[i] = "leave" /\ taking[i] => table[i] = "EATING"
  /\ ppc[i] \in {"wait", "woken"} => taking[i]
  /\ ppc[i] \in {"signalled", "resumed"} => tests[i] # <<>>

CondInv ==
  /\ SemType(Sems)
  /\ ppc \in [Phil -> CondPlaces]
  /\ tests \in [Phil -> Seq(Phil)]
  /\ taking \in [Phil -> BOOLEAN]
  /\ count \in [Phil -> Nat]
  /\ next_count \in Nat
  /\ pblocked \subseteq {i \in Phil : ppc[i] \in {"enter", "resumed", "woken"}}
  /\ QueueOf(Queue(N), Sleepers("enter"))
  /\ QueueOf(Queue(N + 1), Sleepers("resumed"))
  /\ \A i \in Phil : CondForks(i)
  /\ OneRight
  /\ next_count = Cardinality(Signallers)
  /\ Apart(table)

-----------------------------------------------------------------------------
LEMMA ModPeriod ==
  ASSUME N \in Nat, N >= 2, NEW a \in 0 .. N - 1
  PROVE  a % N = a /\ (a + N) % N = a
<1> DEFINE p == (a + N) \div N
<1>1. a + N = N * p + ((a + N) % N) /\ p \in Nat /\ (a + N) % N \in 0 .. N - 1
  OBVIOUS
<1>2. a % N = a
  OBVIOUS
<1> HIDE DEF p
<1>3. p = 1
  <2>1. CASE p = 0 BY <1>1, <2>1
  <2>2. CASE p >= 2
    <3>1. N * p >= N * 2 BY <2>2, <1>1
    <3> QED BY <1>1, <3>1
  <2> QED BY <1>1, <2>1, <2>2
<1> QED BY <1>1, <1>2, <1>3

\* The table is round: LEFT and RIGHT are each other's inverse, and nobody is a
\* neighbour of itself.
LEMMA Neighbours ==
  ASSUME NEW i \in Phil
  PROVE  /\ PS!LEFT(i) \in Phil /\ PS!RIGHT(i) \in Phil
         /\ PS!LEFT(i) # i /\ PS!RIGHT(i) # i
         /\ PS!LEFT(PS!RIGHT(i)) = i /\ PS!RIGHT(PS!LEFT(i)) = i
<1>1. \A a \in 0 .. N - 1 : a % N = a /\ (a + N) % N = a
  BY PhilosophersAssumption, ModPeriod
<1>2. /\ PS!LEFT(i) = IF i = 0 THEN N - 1 ELSE i - 1
      /\ PS!RIGHT(i) = IF i = N - 1 THEN 0 ELSE i + 1
  BY PhilosophersAssumption, <1>1 DEF PS!LEFT, PS!RIGHT, Phil
<1> QED BY PhilosophersAssumption, <1>1, <1>2 DEF PS!LEFT, PS!RIGHT, Phil

\* Both versions use the same neighbours and the same semaphores.
LEMMA SameOperators ==
  /\ \A i : PC!LEFT(i) = PS!LEFT(i) /\ PC!RIGHT(i) = PS!RIGHT(i)
  /\ \A s, p : PC!Down(s, p) <=> PS!Down(s, p)
  /\ \A s : PC!Up(s) <=> PS!Up(s)
  BY DEF PC!LEFT, PC!RIGHT, PS!LEFT, PS!RIGHT, PC!Down, PS!Down, PC!Up, PS!Up

LEMMA QueueAppend ==
  ASSUME NEW S, NEW T, NEW q, QueueOf(q, S), NEW x \in Phil, x \notin S,
         S \subseteq T, x \in T
  PROVE  QueueOf(Append(q, x), T)
<1>1. /\ Append(q, x) \in Seq(Phil) /\ Len(Append(q, x)) = Len(q) + 1 /\ Len(q) \in Nat
      /\ Append(q, x)[Len(q) + 1] = x
      /\ \A k \in 1 .. Len(q) : Append(q, x)[k] = q[k]
  BY DEF QueueOf
<1>2. \A k \in 1 .. Len(q) + 1 : k \in 1 .. Len(q) \/ k = Len(q) + 1
  BY <1>1
<1> QED BY <1>1, <1>2 DEF QueueOf

LEMMA QueueTail ==
  ASSUME NEW S, NEW T, NEW q, QueueOf(q, S), q # <<>>, S \ {Head(q)} \subseteq T
  PROVE  Head(q) \in S /\ QueueOf(Tail(q), T)
<1>1. /\ Tail(q) \in Seq(Phil) /\ Len(Tail(q)) = Len(q) - 1 /\ Len(q) \in Nat \ {0}
      /\ Head(q) = q[1]
      /\ \A k \in 1 .. Len(q) - 1 : Tail(q)[k] = q[k + 1]
  BY DEF QueueOf
<1>2. \A k \in 1 .. Len(q) - 1 : k + 1 \in 1 .. Len(q) /\ k + 1 # 1
  BY <1>1
<1>3. \A k \in 1 .. Len(q) - 1 : q[k + 1] \in S \ {Head(q)}
  BY <1>1, <1>2 DEF QueueOf
<1>4. \A k, l \in 1 .. Len(q) - 1 : q[k + 1] = q[l + 1] => k = l
  BY <1>1, <1>2 DEF QueueOf
<1> QED BY <1>1, <1>3, <1>4 DEF QueueOf

\* Writing one field of one semaphore.
LEMMA SemFields ==
  ASSUME NEW K, NEW f \in [K -> [value : Nat, queue : Seq(Phil)]], NEW s \in K
  PROVE  /\ \A v \in Nat : /\ [f EXCEPT ![s].value = v] \in [K -> [value : Nat, queue : Seq(Phil)]]
                           /\ [f EXCEPT ![s].value = v][s].value = v
                           /\ [f EXCEPT ![s].value = v][s].queue = f[s].queue
         /\ \A q \in Seq(Phil) : /\ [f EXCEPT ![s].queue = q] \in [K -> [value : Nat, queue : Seq(Phil)]]
                                 /\ [f EXCEPT ![s].queue = q][s].value = f[s].value
                                 /\ [f EXCEPT ![s].queue = q][s].queue = q
         /\ \A t \in K \ {s} : /\ \A v : [f EXCEPT ![s].value = v][t] = f[t]
                              /\ \A q : [f EXCEPT ![s].queue = q][t] = f[t]
  OBVIOUS

\* down: a unit of the value is taken, or p sleeps at the end of the queue.
LEMMA DownEffect ==
  ASSUME NEW K, SemType(K), NEW s \in K, NEW p \in Phil, PS!Down(s, p), UNCHANGED table
  PROVE  /\ SemType(K)'
         /\ \A t \in K \ {s} : Value(t)' = Value(t) /\ Queue(t)' = Queue(t)
         /\ \/ /\ Value(s) > 0 /\ Value(s)' = Value(s) - 1
               /\ Queue(s)' = Queue(s) /\ pblocked' = pblocked
            \/ /\ Value(s) = 0 /\ Value(s)' = 0
               /\ Queue(s)' = Append(Queue(s), p) /\ pblocked' = pblocked \cup {p}
<1>1. /\ psem \in [K -> [value : Nat, queue : Seq(Phil)]]
      /\ psem[s].value \in Nat /\ psem[s].queue \in Seq(Phil)
      /\ Append(psem[s].queue, p) \in Seq(Phil)
  BY DEF SemType
<1>2. CASE psem[s].value > 0
  <2>1. psem[s].value - 1 \in Nat
    BY <1>1, <1>2
  <2>2. psem' = [psem EXCEPT ![s].value = psem[s].value - 1] /\ pblocked' = pblocked
    BY <1>2 DEF PS!Down
  <2> QED BY <1>1, <1>2, <2>1, <2>2, SemFields DEF Value, Queue, SemType
<1>3. CASE ~(psem[s].value > 0)
  <2>1. psem[s].value = 0
    BY <1>1, <1>3
  <2>2. /\ psem' = [psem EXCEPT ![s].queue = Append(psem[s].queue, p)]
        /\ pblocked' = pblocked \cup {p}
    BY <1>3 DEF PS!Down
  <2>3. /\ psem' \in [K -> [value : Nat, queue : Seq(Phil)]]
        /\ psem'[s].value = psem[s].value /\ psem'[s].queue = Append(psem[s].queue, p)
    <3> DEFINE q == Append(psem[s].queue, p)
    <3>1. q \in Seq(Phil) /\ psem' = [psem EXCEPT ![s].queue = q]
      BY <1>1, <2>2
    <3> HIDE DEF q
    <3>2. psem' \in [K -> [value : Nat, queue : Seq(Phil)]] /\ psem'[s].value = psem[s].value /\ psem'[s].queue = q
      BY <1>1, <3>1, SemFields
    <3> QED BY <3>2 DEF q
  <2>4. \A t \in K \ {s} : psem'[t] = psem[t]
    BY <1>1, <2>2, SemFields
  <2> QED BY <1>1, <2>1, <2>2, <2>3, <2>4 DEF Value, Queue, SemType
<1> QED BY <1>2, <1>3

\* up: the first waiter is woken, or the value is incremented.
LEMMA UpEffect ==
  ASSUME NEW K, NEW s, SemType(K), s \in K, PS!Up(s)
  PROVE  /\ psem' \in [K -> [value : Nat, queue : Seq(Phil)]]
         /\ pblocked' \in SUBSET Phil
         /\ \A t \in K \ {s} : Value(t)' = Value(t) /\ Queue(t)' = Queue(t)
         /\ \/ /\ Queue(s) = <<>> /\ Queue(s)' = <<>>
               /\ Value(s)' = Value(s) + 1 /\ pblocked' = pblocked
            \/ /\ Queue(s) # <<>> /\ Queue(s)' = Tail(Queue(s))
               /\ Value(s)' = Value(s) /\ pblocked' = pblocked \ {Head(Queue(s))}
<1>1. /\ psem \in [K -> [value : Nat, queue : Seq(Phil)]] /\ pblocked \in SUBSET Phil
      /\ psem[s].value \in Nat /\ psem[s].queue \in Seq(Phil)
      /\ psem[s].value + 1 \in Nat
  BY DEF SemType
<1>2. CASE psem[s].queue = <<>>
  <2>1. psem' = [psem EXCEPT ![s].value = psem[s].value + 1] /\ pblocked' = pblocked
    BY <1>2 DEF PS!Up
  <2>3. /\ psem' \in [K -> [value : Nat, queue : Seq(Phil)]]
        /\ psem'[s].value = psem[s].value + 1 /\ psem'[s].queue = psem[s].queue
    BY <1>1, <2>1, SemFields
  <2>4. \A t \in K \ {s} : psem'[t] = psem[t]
    BY <1>1, <2>1, SemFields
  <2> QED BY <1>1, <1>2, <2>1, <2>3, <2>4 DEF Value, Queue
<1>3. CASE psem[s].queue # <<>>
  <2>1. Tail(psem[s].queue) \in Seq(Phil)
    BY <1>1, <1>3
  <2>2. /\ psem' = [psem EXCEPT ![s].queue = Tail(psem[s].queue)]
        /\ pblocked' = pblocked \ {Head(psem[s].queue)}
    BY <1>3 DEF PS!Up
  <2>3. /\ psem' \in [K -> [value : Nat, queue : Seq(Phil)]]
        /\ psem'[s].value = psem[s].value /\ psem'[s].queue = Tail(psem[s].queue)
    <3> DEFINE q == Tail(psem[s].queue)
    <3>1. q \in Seq(Phil) /\ psem' = [psem EXCEPT ![s].queue = q]
      BY <1>1, <2>1, <2>2
    <3> HIDE DEF q
    <3>2. psem' \in [K -> [value : Nat, queue : Seq(Phil)]] /\ psem'[s].value = psem[s].value /\ psem'[s].queue = q
      BY <1>1, <3>1, SemFields
    <3> QED BY <3>2 DEF q
  <2>4. \A t \in K \ {s} : psem'[t] = psem[t]
    BY <1>1, <2>1, <2>2, SemFields
  <2> QED BY <1>1, <1>3, <2>2, <2>3, <2>4 DEF Value, Queue
<1> QED BY <1>2, <1>3
-----------------------------------------------------------------------------
\* Every step of the version with semaphores keeps SemaInv.

\* down(&mutex), on the way to take or to put the forks.
LEMMA SemaLock ==
  ASSUME SemaInv, NEW i \in Phil, i \notin pblocked, NEW l,
         \/ ppc[i] = "think" /\ l = "take"
         \/ ppc[i] = "eat" /\ l = "left",
         PS!Down(N, i), ppc' = [ppc EXCEPT ![i] = l], UNCHANGED table
  PROVE  SemaInv'
<1> DEFINE S == {j \in pblocked : ppc[j] \in {"take", "left"}}
<1>1. N \in 0 .. N /\ Phil = (0 .. N) \ {N}
  BY PhilosophersAssumption DEF Phil
<1>2. /\ SemType(0 .. N)'
      /\ \A t \in Phil : Value(t)' = Value(t) /\ Queue(t)' = Queue(t)
      /\ \/ Queue(N)' = Queue(N) /\ pblocked' = pblocked
         \/ Queue(N)' = Append(Queue(N), i) /\ pblocked' = pblocked \cup {i}
  BY <1>1, DownEffect DEF SemaInv
<1>3. ppc' \in [Phil -> SemaPlaces] /\ ppc'[i] = l /\ \A j \in Phil \ {i} : ppc'[j] = ppc[j]
  BY DEF SemaInv, SemaPlaces
<1>4. pblocked' \subseteq {j \in Phil : ppc'[j] \in {"take", "left", "eat"}}
  BY <1>2, <1>3 DEF SemaInv
<1>5. QueueOf(Queue(N), S)'
  <2>1. QueueOf(Queue(N), S) /\ i \notin S /\ S \subseteq S'
    BY <1>2, <1>3 DEF SemaInv
  <2>2. CASE Queue(N)' = Queue(N)
    BY <2>1, <2>2 DEF QueueOf
  <2>3. CASE Queue(N)' = Append(Queue(N), i) /\ pblocked' = pblocked \cup {i}
    <3>1. i \in S'
      BY <1>3, <2>3
    <3>2. QueueOf(Append(Queue(N), i), S')
      BY <2>1, <3>1, QueueAppend
    <3> QED BY <2>3, <3>2 DEF QueueOf
  <2> QED BY <1>2, <2>2, <2>3
<1>6. ASSUME NEW j \in Phil PROVE SemaForks(j)'
  <2>1. SemaForks(j) /\ table'[j] = table[j] /\ Value(j)' = Value(j) /\ Queue(j)' = Queue(j)
    BY <1>2 DEF SemaInv
  <2>2. CASE j = i
    BY <1>3, <2>1, <2>2 DEF SemaForks
  <2>3. CASE j # i
    BY <1>2, <1>3, <2>1, <2>3 DEF SemaForks
  <2> QED BY <2>2, <2>3
<1> QED BY <1>2, <1>3, <1>4, <1>5, <1>6 DEF SemaInv, Apart, PS!LEFT

\* up(&mutex), at the end of phi_take_forks_sema and of phi_put_forks_sema.
LEMMA SemaUnlock ==
  ASSUME SemaInv, NEW i \in Phil, i \notin pblocked, NEW l,
         \/ ppc[i] = "taken" /\ l = "fork"
         \/ ppc[i] = "leave" /\ l = "think",
         PS!Up(N), ppc' = [ppc EXCEPT ![i] = l], UNCHANGED table
  PROVE  SemaInv'
<1> DEFINE S == {j \in pblocked : ppc[j] \in {"take", "left"}}
<1>1. N \in 0 .. N /\ Phil = (0 .. N) \ {N}
  BY PhilosophersAssumption DEF Phil
<1>2. /\ psem' \in [0 .. N -> [value : Nat, queue : Seq(Phil)]]
      /\ pblocked' \in SUBSET Phil
      /\ \A t \in Phil : Value(t)' = Value(t) /\ Queue(t)' = Queue(t)
      /\ \/ Queue(N)' = Queue(N) /\ pblocked' = pblocked
         \/ /\ Queue(N) # <<>> /\ Queue(N)' = Tail(Queue(N))
            /\ pblocked' = pblocked \ {Head(Queue(N))}
  BY <1>1, UpEffect DEF SemaInv
<1>3. ppc' \in [Phil -> SemaPlaces] /\ ppc'[i] = l /\ \A j \in Phil \ {i} : ppc'[j] = ppc[j]
  BY DEF SemaInv, SemaPlaces
<1>4. pblocked' \subseteq pblocked /\ i \notin pblocked'
  BY <1>2
<1>5. pblocked' \subseteq {j \in Phil : ppc'[j] \in {"take", "left", "eat"}}
  BY <1>3, <1>4 DEF SemaInv
<1>6. QueueOf(Queue(N), S)
  BY DEF SemaInv
<1>7. Queue(N) # <<>> => Head(Queue(N)) \in S
  BY <1>6, QueueTail
<1>8. QueueOf(Queue(N), S)'
  <2>1. CASE Queue(N)' = Queue(N) /\ pblocked' = pblocked
    <3>1. S \subseteq S'
      BY <1>3, <2>1 DEF SemaInv
    <3> QED BY <1>6, <2>1, <3>1 DEF QueueOf
  <2>2. CASE /\ Queue(N) # <<>> /\ Queue(N)' = Tail(Queue(N))
             /\ pblocked' = pblocked \ {Head(Queue(N))}
    <3>1. S \ {Head(Queue(N))} \subseteq S'
      BY <1>3, <2>2 DEF SemaInv
    <3>2. QueueOf(Tail(Queue(N)), S')
      BY <1>6, <2>2, <3>1, QueueTail
    <3> QED BY <2>2, <3>2 DEF QueueOf
  <2> QED BY <1>2, <2>1, <2>2
<1>9. ASSUME NEW j \in Phil PROVE SemaForks(j)'
  <2>1. SemaForks(j) /\ table'[j] = table[j] /\ Value(j)' = Value(j) /\ Queue(j)' = Queue(j)
    BY <1>2 DEF SemaInv
  <2>2. CASE j = i
    BY <1>3, <2>1, <2>2 DEF SemaForks
  <2>3. CASE j # i
    <3>1. ppc[j] = "eat" => (j \in pblocked' <=> j \in pblocked)
      BY <1>2, <1>7
    <3> QED BY <1>3, <2>1, <2>3, <3>1 DEF SemaForks
  <2> QED BY <2>2, <2>3
<1> QED BY <1>2, <1>3, <1>5, <1>8, <1>9 DEF SemaInv, SemType, Apart, PS!LEFT

\* down(&s[i]): i has its forks, or sleeps until a neighbour gives them to it.
LEMMA SemaTakeForks ==
  ASSUME SemaInv, NEW i \in Phil, PS!TakeForks(i)
  PROVE  SemaInv'
<1>1. i \in 0 .. N /\ N \in (0 .. N) \ {i} /\ Phil \subseteq 0 .. N
  BY PhilosophersAssumption DEF Phil
<1>2. /\ ppc[i] = "fork" /\ i \notin pblocked /\ PS!Down(i, i)
      /\ ppc' = [ppc EXCEPT ![i] = "eat"] /\ UNCHANGED table
  BY DEF PS!TakeForks, PS!At, PS!Goto
<1>3. /\ SemType(0 .. N)'
      /\ \A t \in (0 .. N) \ {i} : Value(t)' = Value(t) /\ Queue(t)' = Queue(t)
      /\ \/ /\ Value(i) > 0 /\ Value(i)' = Value(i) - 1
            /\ Queue(i)' = Queue(i) /\ pblocked' = pblocked
         \/ /\ Value(i) = 0 /\ Value(i)' = 0
            /\ Queue(i)' = Append(Queue(i), i) /\ pblocked' = pblocked \cup {i}
  BY <1>1, <1>2, DownEffect DEF SemaInv
<1>4. ppc' \in [Phil -> SemaPlaces] /\ ppc'[i] = "eat" /\ \A j \in Phil \ {i} : ppc'[j] = ppc[j]
  BY <1>2 DEF SemaInv, SemaPlaces
<1>5. pblocked' \subseteq {j \in Phil : ppc'[j] \in {"take", "left", "eat"}}
  BY <1>3, <1>4 DEF SemaInv
<1>6. QueueOf(Queue(N), {j \in pblocked : ppc[j] \in {"take", "left"}})'
  <2>1. Queue(N)' = Queue(N)
    BY <1>1, <1>3
  <2>2. {j \in pblocked : ppc[j] \in {"take", "left"}}
          \subseteq {j \in pblocked : ppc[j] \in {"take", "left"}}'
    BY <1>2, <1>3, <1>4 DEF SemaInv
  <2> QED BY <2>1, <2>2 DEF SemaInv, QueueOf
<1>7. ASSUME NEW j \in Phil PROVE SemaForks(j)'
  <2>1. SemaForks(j) /\ table'[j] = table[j]
    BY <1>2 DEF SemaInv
  <2>2. CASE j = i
    <3>1. /\ Queue(i) = <<>>
          /\ \/ Value(i) = 0 /\ table[i] = "HUNGRY"
             \/ Value(i) = 1 /\ table[i] = "EATING"
      BY <1>2, <2>1, <2>2 DEF SemaForks
    <3>2. Append(<<>>, i) = <<i>>
      OBVIOUS
    <3> QED BY <1>2, <1>3, <1>4, <2>1, <2>2, <3>1, <3>2 DEF SemaForks
  <2>3. CASE j # i
    <3>1. Value(j)' = Value(j) /\ Queue(j)' = Queue(j) /\ (j \in pblocked' <=> j \in pblocked)
      BY <1>1, <1>3, <2>3
    <3> QED BY <1>4, <2>1, <2>3, <3>1 DEF SemaForks
  <2> QED BY <2>2, <2>3
<1> QED BY <1>2, <1>3, <1>4, <1>5, <1>6, <1>7 DEF SemaInv, Apart, PS!LEFT

\* Changing the table: who is not EATING any more disturbs nobody, and who may
\* eat has no neighbour that eats.
LEMMA ApartChange ==
  ASSUME NEW st \in [Phil -> {"THINKING", "HUNGRY", "EATING"}], Apart(st), NEW j \in Phil
  PROVE  /\ Apart([st EXCEPT ![j] = "HUNGRY"]) /\ Apart([st EXCEPT ![j] = "THINKING"])
         /\ st[PS!LEFT(j)] # "EATING" /\ st[PS!RIGHT(j)] # "EATING"
              => Apart([st EXCEPT ![j] = "EATING"])
<1>1. \A k \in Phil : PS!LEFT(k) \in Phil /\ PS!LEFT(k) # k
  BY Neighbours
<1>2. \A k \in Phil : PS!LEFT(k) = j => k = PS!RIGHT(j)
  BY Neighbours
<1>3. ASSUME NEW v \in {"HUNGRY", "THINKING"} PROVE Apart([st EXCEPT ![j] = v])
  BY <1>1 DEF Apart
<1>4. ASSUME st[PS!LEFT(j)] # "EATING", st[PS!RIGHT(j)] # "EATING"
      PROVE  Apart([st EXCEPT ![j] = "EATING"])
  <2> DEFINE u == [st EXCEPT ![j] = "EATING"]
  <2>1. ASSUME NEW k \in Phil, u[k] = "EATING" PROVE u[PS!LEFT(k)] # "EATING"
    <3>1. CASE k = j
      BY <1>1, <1>4, <3>1
    <3>2. CASE k # j /\ PS!LEFT(k) = j
      BY <1>2, <1>4, <2>1, <3>2
    <3>3. CASE k # j /\ PS!LEFT(k) # j
      BY <1>1, <2>1, <3>3 DEF Apart
    <3> QED BY <3>1, <3>2, <3>3
  <2> QED BY <2>1 DEF Apart
<1> QED BY <1>3, <1>4

\* phi_test_sema(j) by i, with the change of i's own entry before it.
LEMMA SemaTest ==
  ASSUME SemaInv, NEW i \in Phil, NEW j \in Phil, i \notin pblocked, NEW st, NEW l,
         \/ ppc[i] = "take" /\ l = "taken" /\ j = i /\ st = [table EXCEPT ![i] = "HUNGRY"]
         \/ ppc[i] = "left" /\ l = "right" /\ j # i /\ st = [table EXCEPT ![i] = "THINKING"]
         \/ ppc[i] = "right" /\ l = "leave" /\ j # i /\ st = table,
         PS!Test(st, j), ppc' = [ppc EXCEPT ![i] = l]
  PROVE  SemaInv'
<1> DEFINE S == {k \in pblocked : ppc[k] \in {"take", "left"}}
<1>1. /\ N \in 0 .. N /\ Phil \subseteq 0 .. N /\ N \notin Phil
  BY PhilosophersAssumption DEF Phil
<1>2. /\ table \in [Phil -> {"THINKING", "HUNGRY", "EATING"}]
      /\ st \in [Phil -> {"THINKING", "HUNGRY", "EATING"}]
      /\ \A k \in Phil \ {i} : st[k] = table[k]
      /\ Apart(st)
  <2>1. table \in [Phil -> {"THINKING", "HUNGRY", "EATING"}] /\ Apart(table)
    BY DEF SemaInv, SemType
  <2>2. Apart(st)
    BY <2>1, ApartChange
  <2> QED BY <2>1, <2>2
<1>3. /\ ppc' \in [Phil -> SemaPlaces] /\ ppc'[i] = l
      /\ \A k \in Phil \ {i} : ppc'[k] = ppc[k]
  BY DEF SemaInv, SemaPlaces
<1>4. /\ SemType(0 .. N) /\ \A k \in Phil : SemaForks(k)
      /\ QueueOf(Queue(N), S)
      /\ pblocked \subseteq {k \in Phil : ppc[k] \in {"take", "left", "eat"}}
  BY DEF SemaInv
<1>5. CASE PS!MayEat(st, j)
  <2>1. /\ table' = [st EXCEPT ![j] = "EATING"] /\ PS!Up(j)
        /\ st[j] = "HUNGRY" /\ st[PS!LEFT(j)] # "EATING" /\ st[PS!RIGHT(j)] # "EATING"
    BY <1>5 DEF PS!Test, PS!MayEat
  <2>2. /\ table' \in [Phil -> {"THINKING", "HUNGRY", "EATING"}]
        /\ table'[j] = "EATING" /\ \A k \in Phil \ {j} : table'[k] = st[k]
        /\ Apart(table)'
    <3>1. Apart(table')
      BY <1>2, <2>1, ApartChange
    <3> QED BY <1>2, <2>1, <3>1 DEF Apart, PS!LEFT
  <2>3. /\ psem' \in [0 .. N -> [value : Nat, queue : Seq(Phil)]]
        /\ pblocked' \in SUBSET Phil
        /\ \A t \in (0 .. N) \ {j} : Value(t)' = Value(t) /\ Queue(t)' = Queue(t)
        /\ \/ /\ Queue(j) = <<>> /\ Queue(j)' = <<>>
              /\ Value(j)' = Value(j) + 1 /\ pblocked' = pblocked
           \/ /\ Queue(j) # <<>> /\ Queue(j)' = Tail(Queue(j))
              /\ Value(j)' = Value(j) /\ pblocked' = pblocked \ {Head(Queue(j))}
    BY <1>1, <1>4, <2>1, UpEffect
  <2>4. \/ /\ Queue(j) = <<>> /\ Value(j) = 0
           /\ j = i \/ ppc[j] \in {"taken", "fork"}
        \/ /\ Queue(j) = <<j>> /\ Value(j) = 0 /\ j # i
           /\ ppc[j] = "eat" /\ j \in pblocked
    <3>1. CASE j = i
      BY <1>4, <3>1 DEF SemaForks
    <3>2. CASE j # i
      <4>1. table[j] = "HUNGRY"
        BY <1>2, <2>1, <3>2
      <4> QED BY <1>4, <3>2, <4>1 DEF SemaForks
    <3> QED BY <3>1, <3>2
  <2>5. \/ /\ Queue(j)' = <<>> /\ Value(j)' = 1 /\ pblocked' = pblocked
           /\ j = i \/ ppc[j] \in {"taken", "fork"}
        \/ /\ Queue(j)' = <<>> /\ Value(j)' = 0 /\ pblocked' = pblocked \ {j}
           /\ ppc[j] = "eat" /\ j # i
    <3>1. Head(<<j>>) = j /\ Tail(<<j>>) = <<>> /\ <<j>> # <<>>
      OBVIOUS
    <3>2. CASE Queue(j) = <<>>
      BY <2>3, <2>4, <3>1, <3>2
    <3>3. CASE Queue(j) = <<j>>
      <4>1. Queue(j)' = <<>> /\ Value(j)' = Value(j) /\ pblocked' = pblocked \ {j}
        BY <2>3, <3>1, <3>3
      <4> QED BY <2>4, <3>1, <3>3, <4>1
    <3> QED BY <2>4, <3>2, <3>3
  <2>6. ASSUME NEW k \in Phil PROVE SemaForks(k)'
    <3>1. CASE k = j /\ j = i
      BY <1>3, <2>2, <2>5, <3>1 DEF SemaForks
    <3>2. CASE k = j /\ j # i
      BY <1>3, <2>2, <2>5, <3>2 DEF SemaForks
    <3>3. CASE k # j
      <4>1. /\ Value(k)' = Value(k) /\ Queue(k)' = Queue(k) /\ table'[k] = st[k]
            /\ (k \in pblocked' <=> k \in pblocked) /\ SemaForks(k)
        BY <1>1, <1>4, <2>2, <2>3, <2>5, <3>3
      <4>2. CASE k = i
        <5>1. \/ ppc[i] = "left" /\ l = "right" /\ st[i] = "THINKING"
              \/ ppc[i] = "right" /\ l = "leave" /\ st[i] = table[i]
          BY <1>2, <3>3, <4>2
        <5> QED BY <1>3, <4>1, <4>2, <5>1 DEF SemaForks
      <4>3. CASE k # i
        BY <1>2, <1>3, <4>1, <4>3 DEF SemaForks
      <4> QED BY <4>2, <4>3
    <3> QED BY <3>1, <3>2, <3>3
  <2>7. QueueOf(Queue(N), S)'
    <3>1. Queue(N)' = Queue(N)
      BY <1>1, <2>3
    <3>2. S \subseteq S'
      BY <1>3, <1>4, <2>5
    <3> QED BY <1>4, <3>1, <3>2 DEF QueueOf
  <2>8. pblocked' \subseteq {k \in Phil : ppc'[k] \in {"take", "left", "eat"}}
    BY <1>3, <1>4, <2>5
  <2> QED BY <1>3, <2>2, <2>3, <2>6, <2>7, <2>8 DEF SemaInv, SemType
<1>6. CASE ~PS!MayEat(st, j)
  <2>1. table' = st /\ psem' = psem /\ pblocked' = pblocked
    BY <1>6 DEF PS!Test, PS!semVars
  <2>2. ASSUME NEW k \in Phil PROVE SemaForks(k)'
    <3>1. SemaForks(k) /\ Value(k)' = Value(k) /\ Queue(k)' = Queue(k)
      BY <1>4, <2>1 DEF Value, Queue
    <3>2. CASE k = i
      <4>1. \/ ppc[i] = "take" /\ l = "taken" /\ st[i] = "HUNGRY"
            \/ ppc[i] = "left" /\ l = "right" /\ st[i] = "THINKING"
            \/ ppc[i] = "right" /\ l = "leave" /\ st[i] = table[i]
        BY <1>2
      <4> QED BY <1>3, <2>1, <3>1, <3>2, <4>1 DEF SemaForks
    <3>3. CASE k # i
      BY <1>2, <1>3, <2>1, <3>1, <3>3 DEF SemaForks
    <3> QED BY <3>2, <3>3
  <2>3. QueueOf(Queue(N), S)'
    <3>1. S \subseteq S' /\ Queue(N)' = Queue(N)
      BY <1>3, <1>4, <2>1 DEF Queue
    <3> QED BY <1>4, <3>1 DEF QueueOf
  <2>4. SemType(0 .. N)' /\ Apart(table)'
    BY <1>2, <1>4, <2>1 DEF SemType, Apart, PS!LEFT
  <2>5. pblocked' \subseteq {k \in Phil : ppc'[k] \in {"take", "left", "eat"}}
    BY <1>3, <1>4, <2>1
  <2> QED BY <1>3, <2>2, <2>3, <2>4, <2>5 DEF SemaInv
<1> QED BY <1>5, <1>6

LEMMA SemaStep ==
  ASSUME SemaInv, PS!Next
  PROVE  SemaInv'
<1>1. ASSUME NEW i \in Phil, PS!Think(i) PROVE SemaInv'
  BY <1>1, SemaLock DEF PS!Think, PS!At, PS!Goto, PS!mutex
<1>2. ASSUME NEW i \in Phil, PS!Quit(i) PROVE SemaInv'
  <2>1. /\ ppc[i] = "think" /\ i \notin pblocked /\ ppc' = [ppc EXCEPT ![i] = "quit"]
        /\ psem' = psem /\ pblocked' = pblocked /\ table' = table
    BY <1>2 DEF PS!Quit, PS!At, PS!Goto, PS!semVars
  <2>2. /\ ppc' \in [Phil -> SemaPlaces] /\ ppc'[i] = "quit"
        /\ \A k \in Phil \ {i} : ppc'[k] = ppc[k]
    BY <2>1 DEF SemaInv, SemaPlaces
  <2>3. ASSUME NEW k \in Phil PROVE SemaForks(k)'
    <3>1. SemaForks(k) /\ Value(k)' = Value(k) /\ Queue(k)' = Queue(k)
      BY <2>1 DEF SemaInv, Value, Queue
    <3> QED BY <2>1, <2>2, <3>1 DEF SemaForks
  <2>4. QueueOf(Queue(N), {k \in pblocked : ppc[k] \in {"take", "left"}})'
    <3>1. /\ Queue(N)' = Queue(N)
          /\ {k \in pblocked : ppc[k] \in {"take", "left"}}
               \subseteq {k \in pblocked : ppc[k] \in {"take", "left"}}'
      BY <2>1, <2>2 DEF Queue, SemaInv
    <3> QED BY <3>1 DEF QueueOf, SemaInv
  <2>5. pblocked' \subseteq {k \in Phil : ppc'[k] \in {"take", "left", "eat"}}
    BY <2>1, <2>2 DEF SemaInv
  <2> QED BY <2>1, <2>2, <2>3, <2>4, <2>5 DEF SemaInv, SemType, Apart, PS!LEFT
<1>3. ASSUME NEW i \in Phil, PS!TakeTest(i) PROVE SemaInv'
  BY <1>3, SemaTest DEF PS!TakeTest, PS!At, PS!Goto
<1>4. ASSUME NEW i \in Phil, PS!TakeLeave(i) PROVE SemaInv'
  BY <1>4, SemaUnlock DEF PS!TakeLeave, PS!At, PS!Goto, PS!mutex
<1>5. ASSUME NEW i \in Phil, PS!PutDown(i) PROVE SemaInv'
  BY <1>5, SemaLock DEF PS!PutDown, PS!At, PS!Goto, PS!mutex
<1>6. ASSUME NEW i \in Phil, PS!PutLeft(i) PROVE SemaInv'
  BY <1>6, SemaTest, Neighbours DEF PS!PutLeft, PS!At, PS!Goto
<1>7. ASSUME NEW i \in Phil, PS!PutRight(i) PROVE SemaInv'
  BY <1>7, SemaTest, Neighbours DEF PS!PutRight, PS!At, PS!Goto
<1>8. ASSUME NEW i \in Phil, PS!PutLeave(i) PROVE SemaInv'
  BY <1>8, SemaUnlock DEF PS!PutLeave, PS!At, PS!Goto, PS!mutex
<1>9. CASE UNCHANGED PS!vars
  BY <1>9 DEF PS!vars, PS!semVars, SemaInv, SemType, SemaForks, QueueOf, Apart, Value, Queue, PS!LEFT
<1> QED BY <1>1, <1>2, <1>3, <1>4, <1>5, <1>6, <1>7, <1>8, <1>9, SemaTakeForks
        DEF PS!Next, PS!Philosopher, Phil

-----------------------------------------------------------------------------
\* Every step of the version with a monitor keeps CondInv.

\* The semaphores of the monitor: one per philosopher, mutex and next.
LEMMA MonitorSems ==
  /\ N \in Sems /\ N + 1 \in Sems /\ N # N + 1
  /\ Phil \subseteq Sems /\ N \notin Phil /\ N + 1 \notin Phil
  BY PhilosophersAssumption DEF Phil, Sems

\* The number of members of a set of philosophers: what the proofs use of
\* Cardinality, from the theorems about finite sets (SyncProofs).
Counting == /\ Cardinality({}) = 0
            /\ \A S \in SUBSET Phil : Cardinality(S) \in Nat
            /\ \A S \in SUBSET Phil : \A i \in S :
                   Cardinality(S \ {i}) = Cardinality(S) - 1
            /\ \A S \in SUBSET Phil : \A i \in Phil \ S :
                   Cardinality(S \cup {i}) = Cardinality(S) + 1

\* i goes on to place l, and nobody else moves.
Moves(i, l) == /\ ppc' \in [Phil -> CondPlaces] /\ ppc'[i] = l
               /\ \A j \in Phil \ {i} : ppc'[j] = ppc[j]

\* down: i gets the right to be active from the semaphore, or sleeps.
LEMMA DownRight ==
  ASSUME CondInv, NEW i \in Phil, NEW s \in Sems, PS!Down(s, i), UNCHANGED table,
         i \notin pblocked, ppc[i] \notin InMonitor, NEW l, Moves(i, l)
  PROVE  OneRight'
<1>0. SemType(Sems)
  BY DEF CondInv
<1>1. /\ SemType(Sems)'
      /\ \A t \in Sems \ {s} : Value(t)' = Value(t)
      /\ \/ Value(s) > 0 /\ Value(s)' = Value(s) - 1 /\ pblocked' = pblocked
         \/ Value(s) = 0 /\ Value(s)' = 0 /\ pblocked' = pblocked \cup {i}
  BY <1>0, DownEffect
<1>2. ppc'[i] = l /\ \A j \in Phil \ {i} : ppc'[j] = ppc[j]
  BY DEF Moves
<1>3. \A t \in Sems : Value(t) \in Nat /\ Value(t)' \in Nat
  BY <1>0, <1>1 DEF SemType, Value
<1>4. CASE Value(s) > 0
  <2>1. Active = {} /\ \A t \in Sems : Value(t) > 0 => t = s /\ Value(t) = 1
    BY <1>4 DEF CondInv, OneRight
  <2>2. Active' \subseteq {i}
    BY <1>1, <1>2, <1>4, <2>1 DEF Active
  <2>3. \A t \in Sems : Value(t)' = 0
    BY <1>1, <1>3, <1>4, <2>1
  <2> QED BY <2>2, <2>3 DEF OneRight
<1>5. CASE Value(s) = 0
  <2>1. pblocked' = pblocked \cup {i} /\ \A t \in Sems : Value(t)' = Value(t)
    BY <1>1, <1>5
  <2>2. Active' = Active
    BY <1>2, <2>1 DEF Active
  <2> QED BY <2>1, <2>2 DEF CondInv, OneRight
<1> QED BY <1>1, <1>4, <1>5

\* up by the active process, which gives its right away.
LEMMA UpRight ==
  ASSUME CondInv, NEW i \in Active, NEW s \in Sems, PS!Up(s),
         NEW l, l \notin InMonitor, Moves(i, l)
  PROVE  OneRight'
<1>0. SemType(Sems) /\ OneRight
  BY DEF CondInv
<1>1. /\ psem' \in [Sems -> [value : Nat, queue : Seq(Phil)]]
      /\ \A t \in Sems \ {s} : Value(t)' = Value(t)
      /\ \/ Value(s)' = Value(s) + 1 /\ pblocked' = pblocked
         \/ Value(s)' = Value(s) /\ pblocked' = pblocked \ {Head(Queue(s))}
  BY <1>0, UpEffect
<1>2. i \in Phil /\ ppc'[i] = l /\ \A j \in Phil \ {i} : ppc'[j] = ppc[j]
  BY DEF Moves, Active
<1>3. \A t \in Sems : Value(t) = 0
  <2>1. \A t \in Sems : Value(t) \in Nat
    BY <1>0 DEF SemType, Value
  <2>2. \A t \in Sems : ~(Value(t) > 0)
    BY <1>0 DEF OneRight
  <2> QED BY <2>1, <2>2
<1>4. \A j \in Active : j = i
  BY DEF CondInv, OneRight
<1>5. CASE Value(s)' = Value(s) + 1 /\ pblocked' = pblocked
  <2>1. Active' = {}
    BY <1>2, <1>4, <1>5 DEF Active
  <2>2. Value(s)' = 1 /\ \A t \in Sems \ {s} : Value(t)' = 0
    BY <1>1, <1>3, <1>5
  <2> QED BY <2>1, <2>2 DEF OneRight
<1>6. CASE Value(s)' = Value(s) /\ pblocked' = pblocked \ {Head(Queue(s))}
  <2>1. Active' \subseteq {Head(Queue(s))}
    BY <1>2, <1>4, <1>6 DEF Active
  <2>2. \A t \in Sems : Value(t)' = 0
    BY <1>1, <1>3, <1>6
  <2> QED BY <2>1, <2>2 DEF OneRight
<1> QED BY <1>1, <1>5, <1>6

\* The active process goes on, without a semaphore operation.
LEMMA StayRight ==
  ASSUME CondInv, NEW i \in Active, UNCHANGED <<psem, pblocked>>,
         NEW l \in InMonitor, Moves(i, l)
  PROVE  OneRight'
<1>1. Active' = Active
  BY DEF Active, Moves
<1>2. \A s \in Sems : Value(s)' = Value(s)
  BY DEF Value
<1> QED BY <1>1, <1>2 DEF CondInv, OneRight

\* A step of i keeps the queue of those that sleep at place p, unless i is there.
LEMMA KeepQueue ==
  ASSUME CondInv, NEW p, NEW s, NEW i \in Phil, NEW l, Moves(i, l),
         QueueOf(Queue(s), Sleepers(p)), Queue(s)' = Queue(s),
         i \notin pblocked,
         \A j \in pblocked : ppc[j] = p => j \in pblocked'
  PROVE  QueueOf(Queue(s), Sleepers(p))'
<1>1. Sleepers(p) \subseteq Sleepers(p)'
  <2>1. pblocked \subseteq Phil
    BY DEF CondInv, SemType
  <2> QED BY <2>1 DEF Moves, Sleepers
<1> QED BY <1>1 DEF QueueOf

\* down(&mutex), before phi_take_forks_condvar or phi_put_forks_condvar.
LEMMA CondLock ==
  ASSUME CondInv, NEW i \in Phil, i \notin pblocked,
         ppc[i] \in {"think", "eat"}, ppc' = [ppc EXCEPT ![i] = "enter"],
         PS!Down(N, i), NEW b \in BOOLEAN, taking' = [taking EXCEPT ![i] = b],
         UNCHANGED <<table, next_count, count, tests>>
  PROVE  CondInv'
<1>1. SemType(Sems)
  BY DEF CondInv
<1>2. /\ SemType(Sems)'
      /\ \A t \in Sems \ {N} : Value(t)' = Value(t) /\ Queue(t)' = Queue(t)
      /\ \/ Queue(N)' = Queue(N) /\ pblocked' = pblocked
         \/ Queue(N)' = Append(Queue(N), i) /\ pblocked' = pblocked \cup {i}
  BY <1>1, DownEffect, MonitorSems
<1>m. Moves(i, "enter")
  BY DEF CondInv, CondPlaces, Moves
<1>3. /\ ppc' \in [Phil -> CondPlaces] /\ ppc'[i] = "enter"
      /\ \A j \in Phil \ {i} : ppc'[j] = ppc[j]
      /\ taking' \in [Phil -> BOOLEAN] /\ \A j \in Phil \ {i} : taking'[j] = taking[j]
  BY <1>m DEF CondInv, Moves
<1>4. OneRight'
  <2>1. ppc[i] \notin InMonitor /\ UNCHANGED table
    BY DEF InMonitor
  <2> QED BY <1>m, <2>1, DownRight, MonitorSems
<1>5. pblocked' \subseteq {j \in Phil : ppc'[j] \in {"enter", "resumed", "woken"}}
  BY <1>2, <1>3 DEF CondInv
<1>6. QueueOf(Queue(N), Sleepers("enter"))'
  <2> DEFINE S == Sleepers("enter")
  <2>1. QueueOf(Queue(N), S)
    BY DEF CondInv
  <2>2. i \notin S /\ S \subseteq S'
    BY <1>2, <1>3, <1>5 DEF Sleepers
  <2>3. CASE Queue(N)' = Queue(N)
    BY <2>1, <2>2, <2>3 DEF QueueOf
  <2>4. CASE Queue(N)' = Append(Queue(N), i) /\ pblocked' = pblocked \cup {i}
    <3>1. i \in S'
      BY <1>3, <2>4 DEF Sleepers
    <3>2. QueueOf(Append(Queue(N), i), S')
      BY <2>1, <2>2, <3>1, QueueAppend
    <3> QED BY <2>4, <3>2 DEF QueueOf
  <2> QED BY <1>2, <2>3, <2>4
<1>7. QueueOf(Queue(N + 1), Sleepers("resumed"))'
  <2>1. /\ QueueOf(Queue(N + 1), Sleepers("resumed"))
        /\ Queue(N + 1)' = Queue(N + 1)
    BY <1>2, MonitorSems DEF CondInv
  <2>2. \A j \in pblocked : ppc[j] = "resumed" => j \in pblocked'
    BY <1>2
  <2> QED BY <1>m, <2>1, <2>2, KeepQueue
<1>8. ASSUME NEW j \in Phil PROVE CondForks(j)'
  <2>1. /\ CondForks(j) /\ Value(j)' = Value(j) /\ Queue(j)' = Queue(j)
        /\ count'[j] = count[j] /\ table'[j] = table[j] /\ tests'[j] = tests[j]
    BY <1>2, MonitorSems DEF CondInv
  <2>2. CASE j = i
    BY <1>3, <2>1, <2>2 DEF CondForks
  <2>3. CASE j # i
    <3>1. ppc'[j] = ppc[j] /\ taking'[j] = taking[j] /\ (j \in pblocked' <=> j \in pblocked)
      BY <1>2, <1>3, <2>3
    <3> QED BY <2>1, <3>1 DEF CondForks
  <2> QED BY <2>2, <2>3
<1>9. next_count' = Cardinality(Signallers)'
  <2>1. Signallers' = Signallers
    BY <1>3 DEF Signallers
  <2> QED BY <2>1 DEF CondInv
<1> QED BY <1>2, <1>3, <1>4, <1>5, <1>6, <1>7, <1>8, <1>9 DEF CondInv, Apart, PS!LEFT

\* A step without a semaphore operation: what is left to be shown of it.
LEMMA CondQuiet ==
  ASSUME CondInv, NEW i \in Phil, i \notin pblocked, psem' = psem, pblocked' = pblocked,
         NEW l, Moves(i, l), OneRight',
         table' \in [Phil -> {"THINKING", "HUNGRY", "EATING"}], Apart(table)',
         tests' \in [Phil -> Seq(Phil)], taking' \in [Phil -> BOOLEAN],
         count' \in [Phil -> Nat], next_count' \in Nat,
         next_count' = Cardinality(Signallers)',
         \A j \in Phil : CondForks(j)'
  PROVE  CondInv'
<1>1. /\ SemType(Sems) /\ pblocked \subseteq {j \in Phil : ppc[j] \in {"enter", "resumed", "woken"}}
      /\ QueueOf(Queue(N), Sleepers("enter")) /\ QueueOf(Queue(N + 1), Sleepers("resumed"))
  BY DEF CondInv
<1>2. SemType(Sems)'
  BY <1>1 DEF SemType
<1>3. /\ Queue(N)' = Queue(N) /\ Queue(N + 1)' = Queue(N + 1)
      /\ \A p : \A j \in pblocked : ppc[j] = p => j \in pblocked'
  BY DEF Queue
<1>4. QueueOf(Queue(N), Sleepers("enter"))'
  BY <1>1, <1>3, KeepQueue
<1>5. QueueOf(Queue(N + 1), Sleepers("resumed"))'
  BY <1>1, <1>3, KeepQueue
<1>6. pblocked' \subseteq {j \in Phil : ppc'[j] \in {"enter", "resumed", "woken"}}
  <2>1. ASSUME NEW j \in pblocked PROVE j \in Phil \ {i} /\ ppc'[j] = ppc[j]
    BY <1>1, <2>1 DEF Moves
  <2> QED BY <1>1, <2>1
<1>7. ppc' \in [Phil -> CondPlaces]
  BY DEF Moves
<1> QED BY <1>2, <1>4, <1>5, <1>6, <1>7 DEF CondInv

\* What is the same for everybody but i after such a step.
LEMMA CondOthers ==
  ASSUME CondInv, NEW i \in Phil, psem' = psem, pblocked' = pblocked, NEW l, Moves(i, l),
         NEW j \in Phil \ {i}, count'[j] = count[j], taking'[j] = taking[j], tests'[j] = tests[j],
         \/ table'[j] = table[j]
         \/ table'[j] = "EATING"
  PROVE  CondForks(j)'
<1>1. CondForks(j) /\ Value(j)' = Value(j) /\ Queue(j)' = Queue(j) /\ ppc'[j] = ppc[j]
  BY DEF CondInv, Value, Queue, Moves
<1> QED BY <1>1 DEF CondForks

LEMMA CondQuit ==
  ASSUME CondInv, NEW i \in Phil, PC!Quit(i)
  PROVE  CondInv'
<1>1. /\ ppc[i] = "think" /\ i \notin pblocked /\ ppc' = [ppc EXCEPT ![i] = "quit"]
      /\ psem' = psem /\ pblocked' = pblocked
      /\ UNCHANGED <<next_count, count, table, tests, taking>>
  BY DEF PC!Quit, PC!At, PC!Goto, PC!semVars, PC!monitorVars
<1>2. Moves(i, "quit")
  BY <1>1 DEF CondInv, CondPlaces, Moves
<1>3. OneRight'
  <2>1. Active' = Active /\ \A s \in Sems : Value(s)' = Value(s)
    BY <1>1, <1>2 DEF Active, InMonitor, Moves, Value
  <2> QED BY <2>1 DEF CondInv, OneRight
<1>4. CondForks(i)'
  <2>1. CondForks(i) /\ ppc'[i] = "quit" /\ Value(i)' = Value(i) /\ Queue(i)' = Queue(i)
    BY <1>1, <1>2 DEF CondInv, Moves, Value, Queue
  <2> QED BY <1>1, <2>1 DEF CondForks
<1>5. \A j \in Phil : CondForks(j)'
  BY <1>1, <1>2, <1>4, CondOthers
<1>6. Signallers' = Signallers
  BY <1>1, <1>2 DEF Signallers, Moves
<1>7. /\ table' \in [Phil -> {"THINKING", "HUNGRY", "EATING"}] /\ Apart(table)'
      /\ tests' \in [Phil -> Seq(Phil)] /\ taking' \in [Phil -> BOOLEAN]
      /\ count' \in [Phil -> Nat] /\ next_count' \in Nat
      /\ next_count' = Cardinality(Signallers)'
  BY <1>1, <1>6 DEF CondInv, SemType, Apart, PS!LEFT
<1> QED BY <1>1, <1>2, <1>3, <1>5, <1>7, CondQuiet

LEMMA CondEnter ==
  ASSUME CondInv, NEW i \in Phil, PC!Enter(i)
  PROVE  CondInv'
<1>1. /\ ppc[i] = "enter" /\ i \notin pblocked /\ ppc' = [ppc EXCEPT ![i] = "test"]
      /\ psem' = psem /\ pblocked' = pblocked
      /\ UNCHANGED <<next_count, count, taking>>
      /\ table' = [table EXCEPT ![i] = IF taking[i] THEN "HUNGRY" ELSE "THINKING"]
      /\ tests' = [tests EXCEPT ![i] = IF taking[i] THEN <<i>> ELSE PC!TestedOnPut(i)]
  BY DEF PC!Enter, PC!At, PC!Goto, PC!semVars, PC!monitorVars
<1>2. Moves(i, "test")
  BY <1>1 DEF CondInv, CondPlaces, Moves
<1>3. OneRight'
  BY <1>1, <1>2, StayRight DEF Active, InMonitor
<1>4. CondForks(i)'
  <2>1. CondForks(i) /\ ppc'[i] = "test" /\ Value(i)' = Value(i) /\ Queue(i)' = Queue(i)
    BY <1>1, <1>2 DEF CondInv, Moves, Value, Queue
  <2> QED BY <1>1, <2>1 DEF CondForks
<1>5. \A j \in Phil \ {i} : table'[j] = table[j] /\ tests'[j] = tests[j]
  BY <1>1 DEF CondInv, SemType
<1>6. \A j \in Phil : CondForks(j)'
  BY <1>1, <1>2, <1>4, <1>5, CondOthers
<1>7. Signallers' = Signallers
  BY <1>1, <1>2 DEF Signallers, Moves
<1>8. /\ table' \in [Phil -> {"THINKING", "HUNGRY", "EATING"}] /\ Apart(table)'
  <2>1. table \in [Phil -> {"THINKING", "HUNGRY", "EATING"}] /\ Apart(table)
    BY DEF CondInv, SemType
  <2>2. \/ table' = [table EXCEPT ![i] = "HUNGRY"]
        \/ table' = [table EXCEPT ![i] = "THINKING"]
    BY <1>1
  <2>3. Apart(table')
    BY <2>1, <2>2, ApartChange
  <2> QED BY <2>1, <2>2, <2>3 DEF Apart, PS!LEFT
<1>9. tests' \in [Phil -> Seq(Phil)]
  <2>1. <<i>> \in Seq(Phil) /\ PC!TestedOnPut(i) \in Seq(Phil)
    BY Neighbours, SameOperators DEF PC!TestedOnPut
  <2> QED BY <1>1, <2>1 DEF CondInv
<1>10. /\ taking' \in [Phil -> BOOLEAN] /\ count' \in [Phil -> Nat] /\ next_count' \in Nat
       /\ next_count' = Cardinality(Signallers)'
  BY <1>1, <1>7 DEF CondInv
<1> QED BY <1>1, <1>2, <1>3, <1>6, <1>8, <1>9, <1>10, CondQuiet

\* The neighbours of j let it eat.
LEMMA CondMayEat ==
  ASSUME CondInv, NEW j \in Phil, PC!MayEat(j), table' = [table EXCEPT ![j] = "EATING"]
  PROVE  /\ table' \in [Phil -> {"THINKING", "HUNGRY", "EATING"}] /\ Apart(table)'
         /\ table'[j] = "EATING" /\ \A k \in Phil \ {j} : table'[k] = table[k]
<1>1. table \in [Phil -> {"THINKING", "HUNGRY", "EATING"}] /\ Apart(table)
  BY DEF CondInv, SemType
<1>2. table[PS!LEFT(j)] # "EATING" /\ table[PS!RIGHT(j)] # "EATING"
  BY SameOperators DEF PC!MayEat
<1>3. Apart(table')
  BY <1>1, <1>2, ApartChange
<1> QED BY <1>1, <1>3 DEF Apart, PS!LEFT

\* A process at "test" is the active one, and a test is a philosopher.
LEMMA CondTesting ==
  ASSUME CondInv, NEW i \in Phil, ppc[i] = "test", i \notin pblocked, tests[i] # <<>>
  PROVE  i \in Active /\ Head(tests[i]) \in Phil /\ Tail(tests[i]) \in Seq(Phil)
<1>1. i \in Active
  BY DEF Active, InMonitor
<1>2. tests[i] \in Seq(Phil)
  BY DEF CondInv
<1> QED BY <1>1, <1>2

LEMMA CondTestOnly ==
  ASSUME CondInv, NEW i \in Phil, PC!TestOnly(i)
  PROVE  CondInv'
<1> DEFINE j == Head(tests[i])
<1>1. /\ ppc[i] = "test" /\ i \notin pblocked /\ tests[i] # <<>>
      /\ ppc' = ppc /\ psem' = psem /\ pblocked' = pblocked
      /\ next_count' = next_count /\ count' = count /\ taking' = taking
      /\ tests' = [tests EXCEPT ![i] = Tail(tests[i])]
      /\ \/ PC!MayEat(j) /\ table' = [table EXCEPT ![j] = "EATING"]
         \/ table' = table
  BY DEF PC!TestOnly, PC!At, PC!semVars, PC!monitorVars
<1>2. i \in Active /\ j \in Phil /\ Tail(tests[i]) \in Seq(Phil)
  BY <1>1, CondTesting
<1> HIDE DEF j
<1>3. Moves(i, "test")
  BY <1>1 DEF CondInv, Moves
<1>4. OneRight'
  BY <1>1, <1>2, <1>3, StayRight DEF InMonitor
<1>5. /\ table' \in [Phil -> {"THINKING", "HUNGRY", "EATING"}] /\ Apart(table)'
      /\ \A k \in Phil : table'[k] = table[k] \/ table'[k] = "EATING"
  <2>1. CASE PC!MayEat(j) /\ table' = [table EXCEPT ![j] = "EATING"]
    <3>1. /\ table' \in [Phil -> {"THINKING", "HUNGRY", "EATING"}] /\ Apart(table)'
          /\ table'[j] = "EATING" /\ \A k \in Phil \ {j} : table'[k] = table[k]
      BY <1>2, <2>1, CondMayEat
    <3> QED BY <3>1
  <2>2. CASE table' = table
    BY <2>2 DEF CondInv, SemType, Apart, PS!LEFT
  <2> QED BY <1>1, <2>1, <2>2
<1>6. ASSUME NEW k \in Phil PROVE CondForks(k)'
  <2>1. CondForks(k) /\ Value(k)' = Value(k) /\ Queue(k)' = Queue(k)
    BY <1>1 DEF CondInv, Value, Queue
  <2>2. k # i => tests'[k] = tests[k]
    BY <1>1 DEF CondInv
  <2> QED BY <1>1, <1>5, <2>1, <2>2 DEF CondForks
<1>7. Signallers' = Signallers
  BY <1>1 DEF Signallers
<1>8. /\ tests' \in [Phil -> Seq(Phil)] /\ taking' \in [Phil -> BOOLEAN]
      /\ count' \in [Phil -> Nat] /\ next_count' \in Nat
      /\ next_count' = Cardinality(Signallers)'
  BY <1>1, <1>2, <1>7 DEF CondInv
<1> QED BY <1>1, <1>3, <1>4, <1>5, <1>6, <1>8, CondQuiet

\* The end of cond_signal: one process less waits for next.
LEMMA CondSignalEnd ==
  ASSUME Counting, CondInv, NEW i \in Phil, PC!SignalEnd(i)
  PROVE  CondInv'
<1>1. /\ ppc[i] = "resumed" /\ i \notin pblocked /\ ppc' = [ppc EXCEPT ![i] = "test"]
      /\ psem' = psem /\ pblocked' = pblocked /\ table' = table
      /\ count' = count /\ taking' = taking
      /\ next_count' = next_count - 1
      /\ tests' = [tests EXCEPT ![i] = Tail(tests[i])]
  BY DEF PC!SignalEnd, PC!At, PC!Goto, PC!semVars
<1>2. Moves(i, "test") /\ i \in Active
  BY <1>1 DEF CondInv, CondPlaces, Moves, Active, InMonitor
<1>3. OneRight'
  BY <1>1, <1>2, StayRight DEF InMonitor
<1>4. CondForks(i)'
  <2>1. CondForks(i) /\ ppc'[i] = "test" /\ Value(i)' = Value(i) /\ Queue(i)' = Queue(i)
    BY <1>1, <1>2 DEF CondInv, Moves, Value, Queue
  <2> QED BY <1>1, <2>1 DEF CondForks
<1>5. \A j \in Phil : CondForks(j)'
  <2>1. \A j \in Phil \ {i} : tests'[j] = tests[j]
    BY <1>1 DEF CondInv
  <2> QED BY <1>1, <1>2, <1>4, <2>1, CondOthers
<1>6. next_count' \in Nat /\ next_count' = Cardinality(Signallers)'
  <2>1. i \in Signallers /\ Signallers' = Signallers \ {i}
    BY <1>1, <1>2 DEF Signallers, Moves
  <2>3. Signallers \in SUBSET Phil /\ Signallers \ {i} \in SUBSET Phil
    BY DEF Signallers
  <2>2. Cardinality(Signallers \ {i}) = Cardinality(Signallers) - 1
    BY ONLY <2>1, <2>3, Counting DEF Counting
  <2>4. Cardinality(Signallers \ {i}) \in Nat
    BY ONLY <2>3, Counting DEF Counting
  <2> QED BY <1>1, <2>1, <2>2, <2>4 DEF CondInv
<1>7. /\ table' \in [Phil -> {"THINKING", "HUNGRY", "EATING"}] /\ Apart(table)'
      /\ taking' \in [Phil -> BOOLEAN] /\ count' \in [Phil -> Nat]
  BY <1>1 DEF CondInv, SemType, Apart, PS!LEFT
<1>8. tests' \in [Phil -> Seq(Phil)]
  <2>1. tests[i] # <<>> /\ tests[i] \in Seq(Phil)
    BY <1>1 DEF CondInv, CondForks
  <2>2. Tail(tests[i]) \in Seq(Phil)
    BY <2>1
  <2> QED BY <1>1, <2>2 DEF CondInv
<1> QED BY <1>1, <1>2, <1>3, <1>5, <1>6, <1>7, <1>8, CondQuiet

\* The end of cond_wait, and the end of a routine that did not have to wait.
LEMMA CondToLeave ==
  ASSUME CondInv, NEW i \in Phil, PC!CondWaitEnd(i) \/ PC!RoutineEnd(i)
  PROVE  CondInv'
<1>1. /\ ppc[i] \in {"test", "woken"} /\ i \notin pblocked
      /\ ppc' = [ppc EXCEPT ![i] = "leave"]
      /\ psem' = psem /\ pblocked' = pblocked /\ table' = table
      /\ next_count' = next_count /\ taking' = taking /\ tests' = tests
      /\ \/ ppc[i] = "woken" /\ count' = [count EXCEPT ![i] = count[i] - 1]
         \/ ppc[i] = "test" /\ count' = count /\ (~taking[i] \/ table[i] = "EATING")
  BY DEF PC!CondWaitEnd, PC!RoutineEnd, PC!At, PC!Goto, PC!semVars, PC!monitorVars
<1>2. Moves(i, "leave") /\ i \in Active
  BY <1>1 DEF CondInv, CondPlaces, Moves, Active, InMonitor
<1>3. OneRight'
  BY <1>1, <1>2, StayRight DEF InMonitor
<1>4. CondForks(i) /\ count \in [Phil -> Nat]
  BY DEF CondInv
<1>5. count'[i] = 0 /\ count' \in [Phil -> Nat] /\ \A j \in Phil \ {i} : count'[j] = count[j]
  <2>1. count[i] = IF ppc[i] = "woken" THEN 1 ELSE 0
    BY <1>1, <1>4 DEF CondForks
  <2>2. CASE ppc[i] = "woken" /\ count' = [count EXCEPT ![i] = count[i] - 1]
    BY <1>4, <2>1, <2>2
  <2>3. CASE ppc[i] = "test" /\ count' = count
    BY <1>4, <2>1, <2>3
  <2> QED BY <1>1, <2>2, <2>3
<1>6. CondForks(i)'
  <2>1. ppc'[i] = "leave" /\ Value(i)' = Value(i) /\ Queue(i)' = Queue(i)
    BY <1>1, <1>2 DEF Moves, Value, Queue
  <2> QED BY <1>1, <1>4, <1>5, <2>1 DEF CondForks
<1>7. \A j \in Phil : CondForks(j)'
  BY <1>1, <1>2, <1>5, <1>6, CondOthers
<1>8. Signallers' = Signallers
  BY <1>1, <1>2 DEF Signallers, Moves
<1>9. /\ table' \in [Phil -> {"THINKING", "HUNGRY", "EATING"}] /\ Apart(table)'
      /\ taking' \in [Phil -> BOOLEAN] /\ tests' \in [Phil -> Seq(Phil)]
      /\ next_count' \in Nat /\ next_count' = Cardinality(Signallers)'
  BY <1>1, <1>8 DEF CondInv, SemType, Apart, PS!LEFT
<1> QED BY <1>1, <1>2, <1>3, <1>5, <1>7, <1>9, CondQuiet

\* down(&next) in cond_signal.
LEMMA CondSignalWait ==
  ASSUME CondInv, NEW i \in Phil, PC!SignalWait(i)
  PROVE  CondInv'
<1>1. /\ ppc[i] = "signalled" /\ i \notin pblocked /\ ppc' = [ppc EXCEPT ![i] = "resumed"]
      /\ PS!Down(N + 1, i) /\ UNCHANGED table
      /\ next_count' = next_count /\ count' = count /\ tests' = tests /\ taking' = taking
  BY SameOperators DEF PC!SignalWait, PC!At, PC!Goto, PC!monitorVars, PC!next
<1>2. SemType(Sems) /\ table' = table
  BY <1>1 DEF CondInv
<1>3. /\ SemType(Sems)'
      /\ \A t \in Sems \ {N + 1} : Value(t)' = Value(t) /\ Queue(t)' = Queue(t)
      /\ \/ Queue(N + 1)' = Queue(N + 1) /\ pblocked' = pblocked
         \/ Queue(N + 1)' = Append(Queue(N + 1), i) /\ pblocked' = pblocked \cup {i}
  BY <1>1, <1>2, DownEffect, MonitorSems
<1>4. Moves(i, "resumed")
  BY <1>1 DEF CondInv, CondPlaces, Moves
<1>5. OneRight'
  BY <1>1, <1>4, DownRight, MonitorSems DEF InMonitor
<1>6. pblocked' \subseteq {j \in Phil : ppc'[j] \in {"enter", "resumed", "woken"}}
  BY <1>3, <1>4 DEF CondInv, Moves
<1>7. QueueOf(Queue(N + 1), Sleepers("resumed"))'
  <2> DEFINE S == Sleepers("resumed")
  <2>1. QueueOf(Queue(N + 1), S)
    BY DEF CondInv
  <2>2. i \notin S /\ S \subseteq S'
    BY <1>1, <1>3, <1>4, <1>6 DEF Sleepers, Moves
  <2>3. CASE Queue(N + 1)' = Queue(N + 1)
    BY <2>1, <2>2, <2>3 DEF QueueOf
  <2>4. CASE Queue(N + 1)' = Append(Queue(N + 1), i) /\ pblocked' = pblocked \cup {i}
    <3>1. i \in S'
      BY <1>4, <2>4 DEF Sleepers, Moves
    <3>2. QueueOf(Append(Queue(N + 1), i), S')
      BY <2>1, <2>2, <3>1, QueueAppend
    <3> QED BY <2>4, <3>2 DEF QueueOf
  <2> QED BY <1>3, <2>3, <2>4
<1>8. QueueOf(Queue(N), Sleepers("enter"))'
  <2>1. QueueOf(Queue(N), Sleepers("enter")) /\ Queue(N)' = Queue(N)
    BY <1>3, MonitorSems DEF CondInv
  <2>2. \A j \in pblocked : ppc[j] = "enter" => j \in pblocked'
    BY <1>3
  <2> QED BY <1>1, <1>4, <2>1, <2>2, KeepQueue
<1>9. ASSUME NEW j \in Phil PROVE CondForks(j)'
  <2>1. CondForks(j) /\ Value(j)' = Value(j) /\ Queue(j)' = Queue(j)
    BY <1>3, MonitorSems DEF CondInv
  <2>2. CASE j = i
    BY <1>1, <1>4, <2>1, <2>2 DEF CondForks, Moves
  <2>3. CASE j # i
    <3>1. ppc'[j] = ppc[j] /\ (j \in pblocked' <=> j \in pblocked)
      BY <1>3, <1>4, <2>3 DEF Moves
    <3> QED BY <1>1, <1>2, <2>1, <3>1 DEF CondForks
  <2> QED BY <2>2, <2>3
<1>10. Signallers' = Signallers
  BY <1>1, <1>4 DEF Signallers, Moves
<1>11. /\ ppc' \in [Phil -> CondPlaces] /\ tests' \in [Phil -> Seq(Phil)]
       /\ taking' \in [Phil -> BOOLEAN] /\ count' \in [Phil -> Nat] /\ next_count' \in Nat
       /\ next_count' = Cardinality(Signallers)' /\ Apart(table)'
  BY <1>1, <1>2, <1>4, <1>10 DEF CondInv, Moves, Apart, PS!LEFT
<1> QED BY <1>3, <1>5, <1>6, <1>7, <1>8, <1>9, <1>11 DEF CondInv

\* down(&cv[i].sem) in cond_wait.
LEMMA CondCondSleep ==
  ASSUME CondInv, NEW i \in Phil, PC!CondSleep(i)
  PROVE  CondInv'
<1>1. /\ ppc[i] = "wait" /\ i \notin pblocked /\ ppc' = [ppc EXCEPT ![i] = "woken"]
      /\ PS!Down(i, i) /\ UNCHANGED table
      /\ next_count' = next_count /\ count' = count /\ tests' = tests /\ taking' = taking
  BY SameOperators DEF PC!CondSleep, PC!At, PC!Goto, PC!monitorVars
<1>2. SemType(Sems) /\ table' = table /\ i \in Sems
  BY <1>1, MonitorSems DEF CondInv
<1>3. /\ SemType(Sems)'
      /\ \A t \in Sems \ {i} : Value(t)' = Value(t) /\ Queue(t)' = Queue(t)
      /\ \/ /\ Value(i) > 0 /\ Value(i)' = Value(i) - 1
            /\ Queue(i)' = Queue(i) /\ pblocked' = pblocked
         \/ /\ Value(i) = 0 /\ Value(i)' = 0
            /\ Queue(i)' = Append(Queue(i), i) /\ pblocked' = pblocked \cup {i}
  BY <1>1, <1>2, DownEffect
<1>4. Moves(i, "woken")
  BY <1>1 DEF CondInv, CondPlaces, Moves
<1>5. OneRight'
  BY <1>1, <1>2, <1>4, DownRight DEF InMonitor
<1>6. pblocked' \subseteq {j \in Phil : ppc'[j] \in {"enter", "resumed", "woken"}}
  BY <1>3, <1>4 DEF CondInv, Moves
<1>7. /\ QueueOf(Queue(N), Sleepers("enter")) /\ Queue(N)' = Queue(N)
      /\ QueueOf(Queue(N + 1), Sleepers("resumed")) /\ Queue(N + 1)' = Queue(N + 1)
      /\ \A j \in pblocked : j \in pblocked'
  BY <1>3, MonitorSems DEF CondInv
<1>8. QueueOf(Queue(N), Sleepers("enter"))'
  BY <1>1, <1>4, <1>7, KeepQueue
<1>9. QueueOf(Queue(N + 1), Sleepers("resumed"))'
  BY <1>1, <1>4, <1>7, KeepQueue
<1>10. ASSUME NEW j \in Phil PROVE CondForks(j)'
  <2>1. CondForks(j)
    BY DEF CondInv
  <2>2. CASE j = i
    <3>1. /\ Queue(i) = <<>> /\ Append(<<>>, i) = <<i>> /\ taking[i] /\ count[i] = 1
          /\ Value(i) > 0 => table[i] = "EATING"
      <4>1. Append(<<>>, i) = <<i>>
        OBVIOUS
      <4>2. Queue(i) = <<>> /\ taking[i] /\ count[i] = 1
        BY <1>1, <2>1, <2>2 DEF CondForks
      <4>3. Value(i) > 0 => table[i] = "EATING"
        BY <2>1, <2>2 DEF CondForks
      <4> QED BY <4>1, <4>2, <4>3
    <3>2. ppc'[i] = "woken"
      BY <1>4 DEF Moves
    <3>3. Value(i) > 0 => Value(i)' = 0
      <4>1. Value(i) > 0 => Value(i) = 1
        BY <1>2 DEF CondInv, OneRight
      <4> QED BY <1>3, <4>1
    <3>4. /\ count'[i] = 1 /\ taking'[i] /\ table'[i] = table[i] /\ ~(Value(i)' > 0)
          /\ Queue(i)' = IF i \in pblocked' THEN <<i>> ELSE <<>>
          /\ i \notin pblocked' => table[i] = "EATING"
      <4>1. count' = count /\ taking' = taking /\ table' = table /\ i \notin pblocked
        BY <1>1
      <4>2. CASE /\ Value(i) > 0 /\ Queue(i)' = Queue(i) /\ pblocked' = pblocked
        BY <3>1, <3>3, <4>1, <4>2
      <4>3. CASE /\ Value(i)' = 0 /\ Queue(i)' = Append(Queue(i), i)
                 /\ pblocked' = pblocked \cup {i}
        BY <3>1, <4>1, <4>3
      <4> QED BY <1>3, <4>2, <4>3
    <3> QED BY <2>2, <3>2, <3>4 DEF CondForks
  <2>3. CASE j # i
    <3>1. /\ ppc'[j] = ppc[j] /\ (j \in pblocked' <=> j \in pblocked)
          /\ Value(j)' = Value(j) /\ Queue(j)' = Queue(j)
      BY <1>3, <1>4, <2>3, MonitorSems DEF Moves
    <3> QED BY <1>1, <1>2, <2>1, <3>1 DEF CondForks
  <2> QED BY <2>2, <2>3
<1>11. Signallers' = Signallers
  BY <1>1, <1>4 DEF Signallers, Moves
<1>12. /\ ppc' \in [Phil -> CondPlaces] /\ tests' \in [Phil -> Seq(Phil)]
       /\ taking' \in [Phil -> BOOLEAN] /\ count' \in [Phil -> Nat] /\ next_count' \in Nat
       /\ next_count' = Cardinality(Signallers)' /\ Apart(table)'
  BY <1>1, <1>2, <1>4, <1>11 DEF CondInv, Moves, Apart, PS!LEFT
<1> QED BY <1>3, <1>5, <1>6, <1>8, <1>9, <1>10, <1>12 DEF CondInv

\* cond_signal(cv[j]) with somebody waiting: j is woken, or about to sleep and
\* finds the value positive; i is about to wait for next.
LEMMA CondTestSignal ==
  ASSUME Counting, CondInv, NEW i \in Phil, PC!TestSignal(i)
  PROVE  CondInv'
<1>0. ppc[i] = "test" /\ i \notin pblocked /\ tests[i] # <<>>
  BY DEF PC!TestSignal, PC!At
<1>i. i \in Active /\ Head(tests[i]) \in Phil
  BY <1>0, CondTesting
<1>1. PICK j \in Phil :
      /\ ppc[i] = "test" /\ i \notin pblocked /\ tests[i] # <<>>
      /\ ppc' = [ppc EXCEPT ![i] = "signalled"]
      /\ PC!MayEat(j) /\ count[j] > 0 /\ table' = [table EXCEPT ![j] = "EATING"]
      /\ next_count' = next_count + 1 /\ PS!Up(j)
      /\ count' = count /\ tests' = tests /\ taking' = taking
  BY <1>i, SameOperators DEF PC!TestSignal, PC!At, PC!Goto
<1>2. i \in Active /\ j \in Phil
  BY <1>i
<1>3. /\ table' \in [Phil -> {"THINKING", "HUNGRY", "EATING"}] /\ Apart(table)'
      /\ table'[j] = "EATING" /\ \A k \in Phil \ {j} : table'[k] = table[k]
  BY <1>1, <1>2, CondMayEat
<1>4. SemType(Sems) /\ j \in Sems
  BY <1>2, MonitorSems DEF CondInv
<1>5. /\ psem' \in [Sems -> [value : Nat, queue : Seq(Phil)]] /\ pblocked' \in SUBSET Phil
      /\ \A t \in Sems \ {j} : Value(t)' = Value(t) /\ Queue(t)' = Queue(t)
      /\ \/ /\ Queue(j) = <<>> /\ Queue(j)' = <<>>
            /\ Value(j)' = Value(j) + 1 /\ pblocked' = pblocked
         \/ /\ Queue(j) # <<>> /\ Queue(j)' = Tail(Queue(j))
            /\ Value(j)' = Value(j) /\ pblocked' = pblocked \ {Head(Queue(j))}
  <2>1. PS!Up(j)
    BY <1>1
  <2> QED BY ONLY <1>4, <2>1, UpEffect
<1>6. Moves(i, "signalled")
  BY <1>1 DEF CondInv, CondPlaces, Moves
<1>7. OneRight'
  BY <1>1, <1>2, <1>4, <1>6, UpRight DEF InMonitor
<1>8. /\ j # i /\ taking[j] /\ count[j] = 1
      /\ \/ ppc[j] = "wait" /\ Queue(j) = <<>>
         \/ ppc[j] = "woken" /\ j \in pblocked /\ Queue(j) = <<j>>
  <2>1. CondForks(j) /\ \A k \in Active : k = i
    BY <1>2 DEF CondInv, OneRight
  <2>2. ppc[j] \in {"wait", "woken"} /\ count[j] = 1 /\ taking[j]
    <3>1. count[j] > 0
      BY <1>1
    <3> QED BY <2>1, <3>1 DEF CondForks
  <2>3. j # i
    BY <1>1, <2>2
  <2>4. ppc[j] = "woken" => j \in pblocked
    BY <1>2, <2>1, <2>3 DEF Active, InMonitor
  <2> QED BY <2>1, <2>2, <2>3, <2>4 DEF CondForks
<1>9. \/ /\ ppc[j] = "wait" /\ Queue(j)' = <<>> /\ pblocked' = pblocked
      \/ /\ ppc[j] = "woken" /\ Queue(j)' = <<>> /\ pblocked' = pblocked \ {j}
         /\ Value(j)' = Value(j)
  <2>1. Head(<<j>>) = j /\ Tail(<<j>>) = <<>> /\ <<j>> # <<>>
    OBVIOUS
  <2>2. CASE ppc[j] = "wait" /\ Queue(j) = <<>>
    BY <1>5, <2>2
  <2>3. CASE ppc[j] = "woken" /\ Queue(j) = <<j>>
    BY <1>5, <2>1, <2>3
  <2> QED BY <1>8, <2>2, <2>3
<1>10. pblocked' \subseteq {k \in Phil : ppc'[k] \in {"enter", "resumed", "woken"}}
  <2>1. /\ pblocked \subseteq {k \in Phil : ppc[k] \in {"enter", "resumed", "woken"}}
        /\ pblocked' \subseteq pblocked
    BY <1>9 DEF CondInv
  <2> QED BY <1>1, <1>6, <2>1 DEF Moves
<1>11. /\ QueueOf(Queue(N), Sleepers("enter")) /\ Queue(N)' = Queue(N)
       /\ QueueOf(Queue(N + 1), Sleepers("resumed")) /\ Queue(N + 1)' = Queue(N + 1)
       /\ \A k \in pblocked : ppc[k] = "enter" => k \in pblocked'
       /\ \A k \in pblocked : ppc[k] = "resumed" => k \in pblocked'
  BY <1>2, <1>5, <1>9, MonitorSems DEF CondInv
<1>12. QueueOf(Queue(N), Sleepers("enter"))'
  BY <1>1, <1>6, <1>11, KeepQueue
<1>13. QueueOf(Queue(N + 1), Sleepers("resumed"))'
  BY <1>1, <1>6, <1>11, KeepQueue
<1>14. ASSUME NEW k \in Phil PROVE CondForks(k)'
  <2>1. CondForks(k)
    BY DEF CondInv
  <2>2. CASE k = j
    <3>1. ppc'[j] = ppc[j]
      BY <1>2, <1>6, <1>8 DEF Moves
    <3>2. Value(j) = 0
      <4>1. ~(Value(j) > 0) /\ Value(j) \in Nat
        BY <1>2, <1>4 DEF CondInv, OneRight, SemType, Value
      <4> QED BY <4>1
    <3>3. ppc[j] = "woken" => Value(j)' = 0 /\ j \notin pblocked'
      BY <1>9, <3>2
    <3> QED BY <1>1, <1>3, <1>8, <1>9, <2>1, <2>2, <3>1, <3>3 DEF CondForks
  <2>3. CASE k = i
    <3>1. /\ Value(i)' = Value(i) /\ Queue(i)' = Queue(i) /\ table'[i] = table[i]
          /\ ppc'[i] = "signalled" /\ i \notin pblocked'
      BY <1>1, <1>3, <1>5, <1>6, <1>8, <1>9, MonitorSems DEF Moves
    <3> QED BY <1>1, <2>1, <2>3, <3>1 DEF CondForks
  <2>4. CASE k # i /\ k # j
    <3>1. /\ Value(k)' = Value(k) /\ Queue(k)' = Queue(k) /\ table'[k] = table[k]
          /\ ppc'[k] = ppc[k] /\ (k \in pblocked' <=> k \in pblocked)
      BY <1>3, <1>5, <1>6, <1>9, <2>4, MonitorSems DEF Moves
    <3> QED BY <1>1, <2>1, <3>1 DEF CondForks
  <2> QED BY <2>2, <2>3, <2>4
<1>15. next_count' \in Nat /\ next_count' = Cardinality(Signallers)'
  <2>1. i \notin Signallers /\ Signallers' = Signallers \cup {i}
    BY <1>1, <1>6 DEF Signallers, Moves
  <2>2. Cardinality(Signallers \cup {i}) = Cardinality(Signallers) + 1
    <3>1. Signallers \in SUBSET Phil /\ i \in Phil \ Signallers
      BY <2>1 DEF Signallers
    <3> QED BY ONLY <3>1, Counting DEF Counting
  <2>3. next_count' = next_count + 1 /\ next_count \in Nat /\ next_count = Cardinality(Signallers)
    BY <1>1 DEF CondInv
  <2> QED BY <2>1, <2>2, <2>3
<1>16. /\ ppc' \in [Phil -> CondPlaces] /\ tests' \in [Phil -> Seq(Phil)]
       /\ taking' \in [Phil -> BOOLEAN] /\ count' \in [Phil -> Nat]
  BY <1>1, <1>6 DEF CondInv, Moves
<1>17. SemType(Sems)'
  BY <1>3, <1>5 DEF SemType
<1> QED BY <1>3, <1>7, <1>10, <1>12, <1>13, <1>14, <1>15, <1>16, <1>17 DEF CondInv

\* Leaving the monitor, to wait for cv[i] or at the end of a routine: a process
\* that waits for next is woken, or one that waits for mutex.
LEMMA CondHandOver ==
  ASSUME CondInv, NEW i \in Phil, PC!CondWait(i) \/ PC!Leave(i)
  PROVE  CondInv'
<1>1. PICK s \in {N, N + 1}, l \in {"wait", "eat", "think"} :
      /\ i \notin pblocked /\ ppc' = [ppc EXCEPT ![i] = l] /\ PS!Up(s)
      /\ \/ /\ ppc[i] = "test" /\ l = "wait" /\ taking[i]
            /\ count' = [count EXCEPT ![i] = count[i] + 1]
         \/ ppc[i] = "leave" /\ l = "eat" /\ taking[i] /\ count' = count
         \/ ppc[i] = "leave" /\ l = "think" /\ count' = count
      /\ next_count' = next_count /\ table' = table /\ tests' = tests /\ taking' = taking
  <2>1. CASE PC!CondWait(i)
    BY <2>1, SameOperators DEF PC!CondWait, PC!HandOver, PC!At, PC!Goto, PC!mutex, PC!next
  <2>2. CASE PC!Leave(i)
    BY <2>2, SameOperators DEF PC!Leave, PC!HandOver, PC!At, PC!Goto, PC!monitorVars, PC!mutex, PC!next
  <2> QED BY <2>1, <2>2
<1>2. i \in Active
  BY <1>1 DEF Active, InMonitor
<1>3. SemType(Sems) /\ s \in Sems /\ s \notin Phil
  BY MonitorSems DEF CondInv
<1>4. /\ psem' \in [Sems -> [value : Nat, queue : Seq(Phil)]] /\ pblocked' \in SUBSET Phil
      /\ \A t \in Sems \ {s} : Value(t)' = Value(t) /\ Queue(t)' = Queue(t)
      /\ \/ Queue(s)' = Queue(s) /\ pblocked' = pblocked
         \/ /\ Queue(s) # <<>> /\ Queue(s)' = Tail(Queue(s))
            /\ pblocked' = pblocked \ {Head(Queue(s))}
  BY <1>1, <1>3, UpEffect
<1>5. Moves(i, l)
  BY <1>1 DEF CondInv, CondPlaces, Moves
<1>6. OneRight'
  <2>1. l \notin InMonitor
    BY DEF InMonitor
  <2> QED BY <1>1, <1>2, <1>3, <1>5, <2>1, UpRight
<1>7. /\ QueueOf(Queue(N), Sleepers("enter")) /\ QueueOf(Queue(N + 1), Sleepers("resumed"))
      /\ pblocked \subseteq {k \in Phil : ppc[k] \in {"enter", "resumed", "woken"}}
  BY DEF CondInv
<1>8. ASSUME NEW p, p = IF s = N THEN "enter" ELSE "resumed"
      PROVE  /\ Queue(s) # <<>> => Head(Queue(s)) \in Sleepers(p)
             /\ QueueOf(Queue(s), Sleepers(p))'
  <2>1. QueueOf(Queue(s), Sleepers(p))
    BY <1>7, <1>8, MonitorSems
  <2>2. Queue(s) # <<>> => Head(Queue(s)) \in Sleepers(p)
    BY <2>1, QueueTail
  <2>3. CASE Queue(s)' = Queue(s) /\ pblocked' = pblocked
    <3>1. \A k \in pblocked : ppc[k] = p => k \in pblocked'
      BY <2>3
    <3> QED BY <1>1, <1>5, <2>1, <2>2, <2>3, <3>1, KeepQueue
  <2>4. CASE /\ Queue(s) # <<>> /\ Queue(s)' = Tail(Queue(s))
             /\ pblocked' = pblocked \ {Head(Queue(s))}
    <3>1. Sleepers(p) \ {Head(Queue(s))} \subseteq Sleepers(p)'
      BY <1>1, <1>5, <1>7, <2>4 DEF Sleepers, Moves
    <3>2. QueueOf(Tail(Queue(s)), Sleepers(p)') /\ Queue(s)' = Tail(Queue(s))
      BY <2>1, <2>4, <3>1, QueueTail
    <3> QED BY <2>2, <3>2 DEF QueueOf
  <2> QED BY <1>4, <2>2, <2>3, <2>4
<1>9. /\ QueueOf(Queue(N), Sleepers("enter"))' /\ QueueOf(Queue(N + 1), Sleepers("resumed"))'
      /\ \A k \in pblocked : ppc[k] = "woken" => k \in pblocked'
  <2>1. CASE s = N
    <3>1. /\ Queue(N) # <<>> => Head(Queue(N)) \in Sleepers("enter")
          /\ QueueOf(Queue(N), Sleepers("enter"))'
      BY <1>8, <2>1
    <3>2. \A k \in pblocked : ppc[k] \in {"resumed", "woken"} => k \in pblocked'
      BY <1>4, <2>1, <3>1 DEF Sleepers
    <3>3. Queue(N + 1)' = Queue(N + 1)
      BY <1>4, <2>1, MonitorSems
    <3>4. QueueOf(Queue(N + 1), Sleepers("resumed"))'
      BY <1>1, <1>5, <1>7, <3>2, <3>3, KeepQueue
    <3> QED BY <3>1, <3>2, <3>4
  <2>2. CASE s = N + 1
    <3>1. /\ Queue(N + 1) # <<>> => Head(Queue(N + 1)) \in Sleepers("resumed")
          /\ QueueOf(Queue(N + 1), Sleepers("resumed"))'
      BY <1>8, <2>2, MonitorSems
    <3>2. \A k \in pblocked : ppc[k] \in {"enter", "woken"} => k \in pblocked'
      BY <1>4, <2>2, <3>1 DEF Sleepers
    <3>3. Queue(N)' = Queue(N)
      BY <1>4, <2>2, MonitorSems
    <3>4. QueueOf(Queue(N), Sleepers("enter"))'
      BY <1>1, <1>5, <1>7, <3>2, <3>3, KeepQueue
    <3> QED BY <3>1, <3>2, <3>4
  <2> QED BY <2>1, <2>2
<1>10. pblocked' \subseteq pblocked /\ i \notin pblocked'
  BY <1>1, <1>4
<1>11. pblocked' \subseteq {k \in Phil : ppc'[k] \in {"enter", "resumed", "woken"}}
  BY <1>5, <1>7, <1>10 DEF Moves
<1>12. ASSUME NEW k \in Phil PROVE CondForks(k)'
  <2>1. CondForks(k) /\ Value(k)' = Value(k) /\ Queue(k)' = Queue(k)
    BY <1>3, <1>4, MonitorSems DEF CondInv
  <2>2. CASE k = i
    <3>1. ppc'[i] = l /\ ~(Value(i) > 0)
      BY <1>2, <1>5, MonitorSems DEF Moves, CondInv, OneRight
    <3>2. count[i] = 0 /\ count'[i] = IF l = "wait" THEN 1 ELSE 0
      <4>1. ppc[i] \notin {"wait", "woken"} => count[i] = 0
        BY <2>1, <2>2 DEF CondForks
      <4>2. count \in [Phil -> Nat]
        BY DEF CondInv
      <4> QED BY <1>1, <4>1, <4>2
    <3> QED BY <1>1, <1>10, <2>1, <2>2, <3>1, <3>2 DEF CondForks
  <2>3. CASE k # i
    <3>1. /\ ppc'[k] = ppc[k] /\ (ppc[k] = "woken" => (k \in pblocked' <=> k \in pblocked))
          /\ count'[k] = count[k]
      BY <1>1, <1>5, <1>9, <1>10, <2>3 DEF Moves, CondInv
    <3> QED BY <1>1, <2>1, <3>1 DEF CondForks
  <2> QED BY <2>2, <2>3
<1>13. Signallers' = Signallers
  BY <1>1, <1>5 DEF Signallers, Moves
<1>14. /\ ppc' \in [Phil -> CondPlaces] /\ tests' \in [Phil -> Seq(Phil)]
       /\ taking' \in [Phil -> BOOLEAN] /\ next_count' \in Nat
       /\ next_count' = Cardinality(Signallers)' /\ Apart(table)'
  BY <1>1, <1>5, <1>13 DEF CondInv, Moves, Apart, PS!LEFT
<1>15. count' \in [Phil -> Nat]
  <2>1. count \in [Phil -> Nat] /\ count[i] + 1 \in Nat
    BY DEF CondInv
  <2> QED BY <1>1, <2>1
<1>16. SemType(Sems)'
  BY <1>1, <1>3, <1>4 DEF SemType
<1> QED BY <1>6, <1>9, <1>11, <1>12, <1>14, <1>15, <1>16 DEF CondInv

LEMMA TableStutters == UNCHANGED philosophers => (SemaInv => SemaInv') /\ (CondInv => CondInv')
<1> SUFFICES ASSUME UNCHANGED philosophers PROVE (SemaInv => SemaInv') /\ (CondInv => CondInv')
  OBVIOUS
<1>1. /\ psem' = psem /\ pblocked' = pblocked /\ table' = table /\ ppc' = ppc
      /\ next_count' = next_count /\ count' = count /\ tests' = tests /\ taking' = taking
  BY DEF philosophers
<1>2. /\ \A s : Value(s)' = Value(s) /\ Queue(s)' = Queue(s)
      /\ Apart(table)' <=> Apart(table)
      /\ \A K : SemType(K)' <=> SemType(K)
  BY <1>1 DEF Value, Queue, Apart, SemType, PS!LEFT
<1>3. \A q, S : QueueOf(q, S)' <=> QueueOf(q, S)
  BY DEF QueueOf
<1>4. SemaInv => SemaInv'
  BY <1>1, <1>2, <1>3 DEF SemaInv, SemaForks
<1>5. Active' = Active /\ Signallers' = Signallers /\ \A l : Sleepers(l)' = Sleepers(l)
  BY <1>1 DEF Active, Signallers, Sleepers
<1>6. (OneRight' <=> OneRight) /\ \A i : CondForks(i)' <=> CondForks(i)
  BY <1>1, <1>2, <1>5 DEF OneRight, CondForks
<1>7. CondInv => CondInv'
  BY <1>1, <1>2, <1>3, <1>5, <1>6 DEF CondInv
<1> QED BY <1>4, <1>7

LEMMA CondStep ==
  ASSUME Counting, CondInv, PC!Next
  PROVE  CondInv'
<1>1. ASSUME NEW i \in Phil, PC!Think(i) PROVE CondInv'
  <2>1. /\ ppc[i] \in {"think", "eat"} /\ i \notin pblocked /\ ppc' = [ppc EXCEPT ![i] = "enter"]
        /\ PS!Down(N, i) /\ taking' = [taking EXCEPT ![i] = TRUE]
        /\ UNCHANGED <<table, next_count, count, tests>>
    BY <1>1, SameOperators DEF PC!Think, PC!At, PC!Goto, PC!mutex, PC!monitorVars
  <2> QED BY <2>1, CondLock
<1>2. ASSUME NEW i \in Phil, PC!Eat(i) PROVE CondInv'
  <2>1. /\ ppc[i] \in {"think", "eat"} /\ i \notin pblocked /\ ppc' = [ppc EXCEPT ![i] = "enter"]
        /\ PS!Down(N, i) /\ taking' = [taking EXCEPT ![i] = FALSE]
        /\ UNCHANGED <<table, next_count, count, tests>>
    BY <1>2, SameOperators DEF PC!Eat, PC!At, PC!Goto, PC!mutex, PC!monitorVars
  <2> QED BY <2>1, CondLock
<1>3. CASE UNCHANGED PC!vars
  <2>1. UNCHANGED philosophers
    BY <1>3 DEF PC!vars, PC!semVars, PC!monitorVars, philosophers
  <2> QED BY <2>1, TableStutters
<1> QED BY <1>1, <1>2, <1>3, CondQuit, CondEnter, CondTestSignal, CondTestOnly, CondSignalWait,
           CondSignalEnd, CondHandOver, CondCondSleep, CondToLeave
        DEF PC!Next, PC!Philosopher, Phil
-----------------------------------------------------------------------------
LEMMA SemaInit == PS!Init => SemaInv
<1> SUFFICES ASSUME PS!Init PROVE SemaInv
  OBVIOUS
<1>1. /\ psem = [s \in 0 .. N |-> [value |-> IF s = N THEN 1 ELSE 0, queue |-> <<>>]]
      /\ pblocked = {} /\ table = [i \in Phil |-> "THINKING"] /\ ppc = [i \in Phil |-> "think"]
  BY DEF PS!Init, PS!NewSem, PS!mutex, Phil
<1>2. N \in 0 .. N /\ Phil \subseteq 0 .. N /\ N \notin Phil
  BY PhilosophersAssumption DEF Phil
<1>3. \A s \in 0 .. N : Value(s) = (IF s = N THEN 1 ELSE 0) /\ Queue(s) = <<>>
  BY <1>1 DEF Value, Queue
<1>4. SemType(0 .. N)
  BY <1>1 DEF SemType
<1>5. \A i \in Phil : SemaForks(i)
  BY <1>1, <1>2, <1>3 DEF SemaForks
<1>6. QueueOf(Queue(N), {i \in pblocked : ppc[i] \in {"take", "left"}})
  <2>1. Queue(N) = <<>>
    BY <1>2, <1>3
  <2> QED BY <2>1 DEF QueueOf
<1>7. Apart(table)
  BY <1>1, Neighbours DEF Apart
<1> QED BY <1>1, <1>4, <1>5, <1>6, <1>7 DEF SemaInv, SemaPlaces

LEMMA CondInit == Counting => (PC!Init => CondInv)
<1> SUFFICES ASSUME Counting, PC!Init PROVE CondInv
  OBVIOUS
<1>1. /\ psem = [s \in Sems |-> [value |-> IF s = N THEN 1 ELSE 0, queue |-> <<>>]]
      /\ pblocked = {} /\ table = [i \in Phil |-> "THINKING"] /\ ppc = [i \in Phil |-> "think"]
      /\ next_count = 0 /\ count = [i \in Phil |-> 0]
      /\ tests = [i \in Phil |-> <<>>] /\ taking = [i \in Phil |-> TRUE]
  BY DEF PC!Init, PC!NewSem, PC!mutex, Phil, Sems
<1>2. \A s \in Sems : Value(s) = (IF s = N THEN 1 ELSE 0) /\ Queue(s) = <<>>
  BY <1>1 DEF Value, Queue
<1>3. SemType(Sems)
  BY <1>1 DEF SemType
<1>4. Active = {} /\ Signallers = {}
  BY <1>1 DEF Active, InMonitor, Signallers
<1>5. ASSUME NEW i \in Phil PROVE CondForks(i)
  <2>1. ppc[i] = "think" /\ count[i] = 0 /\ i \notin pblocked
    BY <1>1
  <2>2. Value(i) = 0 /\ Queue(i) = <<>>
    BY <1>2, MonitorSems
  <2> QED BY <2>1, <2>2 DEF CondForks
<1>6. OneRight
  BY <1>2, <1>4 DEF OneRight
<1>7. QueueOf(Queue(N), Sleepers("enter")) /\ QueueOf(Queue(N + 1), Sleepers("resumed"))
  <2>1. Queue(N) = <<>> /\ Queue(N + 1) = <<>>
    BY <1>2, MonitorSems
  <2>2. \A S : QueueOf(<<>>, S)
    BY DEF QueueOf
  <2> QED BY <2>1, <2>2
<1>8. next_count = Cardinality(Signallers)
  BY <1>1, <1>4 DEF Counting
<1>9. Apart(table)
  BY <1>1, Neighbours DEF Apart
<1>10. /\ ppc \in [Phil -> CondPlaces] /\ tests \in [Phil -> Seq(Phil)]
       /\ taking \in [Phil -> BOOLEAN] /\ count \in [Phil -> Nat] /\ next_count \in Nat
  BY <1>1 DEF CondPlaces
<1> QED BY <1>1, <1>3, <1>5, <1>6, <1>7, <1>8, <1>9, <1>10 DEF CondInv

\* What the invariants say of who eats, and of who is active in the monitor.
LEMMA SemaForksExclusive == SemaInv => PS!ForksExclusive
<1> SUFFICES ASSUME SemaInv PROVE PS!ForksExclusive
  OBVIOUS
<1>1. ASSUME NEW i \in Phil, ppc[i] = "eat", i \notin pblocked PROVE table[i] = "EATING"
  BY <1>1 DEF SemaInv, SemaForks
<1> QED BY <1>1 DEF PS!ForksExclusive, PS!At, SemaInv, Apart, Phil

LEMMA CondForksExclusive == CondInv => PC!ForksExclusive
<1> SUFFICES ASSUME CondInv PROVE PC!ForksExclusive
  OBVIOUS
<1>1. ASSUME NEW i \in Phil, ppc[i] = "eat" PROVE table[i] = "EATING"
  BY <1>1 DEF CondInv, CondForks
<1> QED BY <1>1, SameOperators DEF PC!ForksExclusive, PC!At, CondInv, Apart, Phil

LEMMA CondOneActive == Counting => (CondInv => PC!OneActive)
<1> SUFFICES ASSUME Counting, CondInv PROVE PC!OneActive
  OBVIOUS
<1>1. Cardinality(Active) <= 1
  <2>1. CASE Active = {}
    BY <2>1 DEF Counting
  <2>2. CASE Active # {}
    <3>1. PICK i : i \in Active
      BY <2>2
    <3>2. Active = {i}
      BY <3>1 DEF CondInv, OneRight
    <3>3. i \in Phil /\ {} \in SUBSET Phil /\ i \in Phil \ {} /\ {} \cup {i} = {i}
      BY <3>1 DEF Active
    <3>4. Cardinality({} \cup {i}) = Cardinality({}) + 1 /\ Cardinality({}) = 0
      BY ONLY <3>3, Counting DEF Counting
    <3> QED BY <3>2, <3>3, <3>4
  <2> QED BY <2>1, <2>2
<1>2. Active = {i \in 0 .. N - 1 : /\ ppc[i] \in {"enter", "test", "resumed", "woken", "leave"}
                                   /\ i \notin pblocked}
  BY DEF Active, InMonitor, Phil
<1>3. next_count = Cardinality({i \in 0 .. N - 1 : ppc[i] \in {"signalled", "resumed"}})
  BY DEF CondInv, Signallers, Phil
<1>4. \A S : PC!Cardinality(S) = Cardinality(S)
  BY DEF PC!Cardinality, Cardinality
<1> QED BY <1>1, <1>2, <1>3, <1>4 DEF PC!OneActive
=============================================================================
