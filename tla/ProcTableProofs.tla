-------------------------- MODULE ProcTableProofs --------------------------
(***************************************************************************)
(* The process table, continued: following the links of a row meets its    *)
(* processes in their order, the loop of get_pid finds an id that nobody   *)
(* has, and with the steps of ProcIdsProofs this makes the process table   *)
(* exact and the asserts that end init_main hold.                          *)
(***************************************************************************)
EXTENDS ProcIdsProofs, FiniteSetTheorems, WellFoundedInduction

\* Every set of natural numbers has a least member.
LEMMA LeastMember ==
  ASSUME NEW S, S \subseteq Nat, S # {}
  PROVE  \E x \in S : \A y \in S : x <= y
<1> DEFINE R == OpToRel(<, Nat)
<1>1. IsWellFoundedOn(R, Nat)
  BY NatLessThanWellFounded
<1>2. \A a, b \in Nat : a < b => <<a, b>> \in R
  BY DEF OpToRel
<1> HIDE DEF R
<1>3. PICK x \in S : \A y \in S : ~ (<<y, x>> \in R)
  BY <1>1, WFMin
<1>4. ASSUME NEW y \in S PROVE x <= y
  <2>1. x \in Nat /\ y \in Nat
    OBVIOUS
  <2>2. ~(y < x)
    BY <1>2, <1>3, <2>1
  <2> QED BY <2>1, <2>2
<1> QED BY <1>4

\* Induction up to n, for the members of a set.
LEMMA InductionUpTo ==
  ASSUME NEW S, NEW n \in Nat, 0 \in S, \A k \in 0 .. n - 1 : k \in S => k + 1 \in S
  PROVE  \A k \in 0 .. n : k \in S
<1> DEFINE out == {k \in 0 .. n : k \notin S}
<1> SUFFICES ASSUME out # {} PROVE FALSE
  OBVIOUS
<1>1. out \subseteq Nat
  OBVIOUS
<1> HIDE DEF out
<1>2. PICK x \in out : \A y \in out : x <= y
  BY <1>1, LeastMember
<1>3. x \in 0 .. n /\ x \notin S
  BY DEF out
<1>4. x # 0 /\ x - 1 \in 0 .. n - 1 /\ x - 1 \in 0 .. n /\ (x - 1) + 1 = x
  BY <1>3
<1>5. x - 1 \in S
  BY <1>2, <1>4 DEF out
<1> QED BY <1>3, <1>4, <1>5

\* Distinct members of a finite set are no more than it has.
LEMMA DistinctMembers ==
  ASSUME NEW S, NEW s, NEW n \in Nat, IsFiniteSet(S), s \in [1 .. n -> S],
         \A i, j \in 1 .. n : s[i] = s[j] => i = j
  PROVE  n <= Cardinality(S)
<1>1. s \in Injection(1 .. n, S)
  BY DEF Injection, IsInjective
<1>2. Cardinality(1 .. n) <= Cardinality(S)
  BY <1>1, FS_Injection
<1>3. Cardinality(1 .. n) = n
  <2>1. Cardinality(1 .. n) = IF 1 > n THEN 0 ELSE n - 1 + 1
    BY FS_Interval
  <2> QED BY <2>1
<1> QED BY <1>2, <1>3

\* ProcTable counts with the operator of the same module.
LEMMA SameCardinality == ASSUME NEW S PROVE T!Cardinality(S) = Cardinality(S)
BY DEF T!Cardinality, Cardinality, T!IsFiniteSet, IsFiniteSet

LEMMA FiniteProcs == IsFiniteSet(T!Proc) /\ Cardinality(T!Proc) \in Nat
<1>1. IsFiniteSet({idleproc, initproc})
  <2>1. IsFiniteSet({initproc})
    BY FS_Singleton
  <2>2. IsFiniteSet({initproc} \cup {idleproc})
    BY <2>1, FS_AddElement
  <2>3. {initproc} \cup {idleproc} = {idleproc, initproc}
    OBVIOUS
  <2> QED BY <2>2, <2>3
<1>2. IsFiniteSet(T!Proc)
  BY <1>1, FS_Union, TableAssumption DEF T!Proc
<1>3. Cardinality(T!Proc) \in Nat
  BY <1>2, FS_CardinalityType
<1> QED BY <1>2, <1>3

\* A row is no longer than there are processes.
LEMMA RowLength ==
  ASSUME NEW s, NEW n \in Nat, Row(T!Proc, s, n)
  PROVE  n <= Cardinality(T!Proc)
BY DistinctMembers, FiniteProcs DEF Row

\* Following the links of a row meets its processes, in their order.
LEMMA FollowRow ==
  ASSUME NEW s, NEW e, NEW link, NEW n \in Nat, Row(T!Proc, s, n), e \notin T!Proc,
         \A i \in 1 .. n : link[s[i]] = At(s, n, i + 1, e)
  PROVE  T!Follow(link, At(s, n, 1, e), e) = s
<1> DEFINE B == Cardinality(T!Proc)
           first == At(s, n, 1, e)
           g == [k \in 0 .. B |-> At(s, n, k + 1, e)]
           met == T!Met(link, first, e)
<1>1. n \in Nat /\ B \in Nat /\ n <= B /\ s \in [1 .. n -> T!Proc]
  BY RowLength, FiniteProcs DEF Row
<1>2. /\ \A i \in 1 .. n : At(s, n, i, e) = s[i] /\ s[i] # e
      /\ \A i \in Nat : i > n => At(s, n, i, e) = e
  BY <1>1, RowAt DEF At
<1>3. ASSUME NEW k \in 0 .. B
      PROVE  g[k] = IF k = 0 THEN first ELSE IF g[k - 1] = e THEN e ELSE link[g[k - 1]]
  <2>1. CASE k = 0
    BY <2>1, <1>1
  <2>2. CASE k # 0 /\ k <= n
    <3>1. k \in 1 .. n /\ k - 1 \in 0 .. B /\ (k - 1) + 1 = k
      BY <1>1, <2>2
    <3>2. g[k - 1] = s[k] /\ s[k] # e /\ g[k] = At(s, n, k + 1, e)
      BY <1>2, <3>1
    <3> QED BY <2>2, <3>1, <3>2
  <2>3. CASE k > n /\ k # 0
    <3>1. k - 1 \in 0 .. B /\ (k - 1) + 1 = k /\ k \in Nat /\ k + 1 \in Nat /\ k + 1 > n
      BY <1>1, <2>3
    <3>2. g[k - 1] = e /\ g[k] = e
      BY <1>2, <2>3, <3>1
    <3> QED BY <2>3, <3>2
  <2> QED BY <1>1, <2>1, <2>2, <2>3
<1>4. g = [k \in 0 .. B |-> g[k]]
  OBVIOUS
<1> HIDE DEF g, first
<1>5. g = [k \in 0 .. B |-> IF k = 0 THEN first ELSE IF g[k - 1] = e THEN e ELSE link[g[k - 1]]]
  BY <1>3, <1>4
<1>6. met = [k \in 0 .. B |-> IF k = 0 THEN first
                              ELSE IF met[k - 1] = e THEN e ELSE link[met[k - 1]]]
  <2>1. T!Cardinality(T!Proc) = B
    BY SameCardinality
  <2> HIDE DEF B
  <2> QED BY <1>5, <2>1 DEF T!Met
<1> HIDE DEF met
<1>7. ASSUME NEW k \in 0 .. B PROVE met[k] = g[k]
  <2> DEFINE S == {i \in 0 .. B : met[i] = g[i]}
  <2>1. 0 \in S
    BY <1>1, <1>5, <1>6
  <2>2. ASSUME NEW i \in 0 .. B - 1, i \in S PROVE i + 1 \in S
    <3>1. i + 1 \in 0 .. B /\ i + 1 # 0 /\ (i + 1) - 1 = i
      BY <1>1
    <3>2. met[i + 1] = IF met[i] = e THEN e ELSE link[met[i]]
      BY <1>6, <3>1
    <3>3. g[i + 1] = IF g[i] = e THEN e ELSE link[g[i]]
      BY <1>5, <3>1
    <3> QED BY <2>2, <3>1, <3>2, <3>3
  <2>3. \A i \in 0 .. B : i \in S
    <3> HIDE DEF S
    <3> QED BY <1>1, <2>1, <2>2, InductionUpTo
  <2> QED BY <2>3
<1>8. \A k \in 0 .. B : met[k] = At(s, n, k + 1, e)
  BY <1>7 DEF g
<1>9. {k \in 0 .. B : met[k] # e} = 0 .. n - 1
  <2>1. \A k \in 0 .. B : met[k] # e <=> k \in 0 .. n - 1
    <3> SUFFICES ASSUME NEW k \in 0 .. B PROVE met[k] # e <=> k \in 0 .. n - 1
      OBVIOUS
    <3>1. k + 1 \in 1 .. n \/ (k + 1 \in Nat /\ k + 1 > n)
      BY <1>1
    <3> QED BY <1>1, <1>2, <1>8, <3>1
  <2>2. 0 .. n - 1 \subseteq 0 .. B
    BY <1>1
  <2> QED BY <2>1, <2>2
<1>10. Cardinality(0 .. n - 1) = n
  <2>1. 0 \in Int /\ n - 1 \in Int
    BY <1>1
  <2>2. Cardinality(0 .. n - 1) = IF 0 > n - 1 THEN 0 ELSE n - 1 - 0 + 1
    BY <2>1, FS_Interval
  <2> QED BY <1>1, <2>2
<1>11. T!Follow(link, first, e) = [i \in 1 .. n |-> met[i - 1]]
  <2>1. T!Cardinality(T!Proc) = B /\ T!Cardinality({k \in 0 .. B : met[k] # e}) = n
    BY <1>9, <1>10, SameCardinality
  <2> HIDE DEF B
  <2> QED BY <2>1 DEF T!Follow, met
<1>12. \A i \in 1 .. n : met[i - 1] = s[i]
  <2> SUFFICES ASSUME NEW i \in 1 .. n PROVE met[i - 1] = s[i]
    OBVIOUS
  <2>1. i - 1 \in 0 .. B /\ (i - 1) + 1 = i
    BY <1>1
  <2> QED BY <1>2, <1>8, <2>1
<1>13. s = [i \in 1 .. n |-> s[i]]
  BY <1>1
<1> QED BY <1>11, <1>12, <1>13 DEF first

\* The equations of the loop have a solution.
LEMMA LoopExists ==
  ASSUME NEW ids, NEW last
  PROVE  \E g : LoopUpTo(ids, last, g, T!MaxIterations)
<1> DEFINE M == T!MaxIterations
           S == {m \in 0 .. M : \E g : LoopUpTo(ids, last, g, m)}
           start == [le |-> 1, last |-> last, safe |-> MAX_PID]
<1>0. M \in Nat
  BY PidFacts
<1> HIDE DEF M
<1>1. 0 \in S
  <2> DEFINE g == [k \in 0 .. 0 |-> start]
  <2>1. g = [k \in 0 .. 0 |-> IF k = 0 THEN start ELSE T!Iterate(ids, g[k - 1])]
    OBVIOUS
  <2>2. LoopUpTo(ids, last, g, 0)
    BY <2>1 DEF LoopUpTo
  <2> QED BY <1>0, <2>2
<1>2. ASSUME NEW m \in 0 .. M - 1, m \in S PROVE m + 1 \in S
  <2>1. PICK g : LoopUpTo(ids, last, g, m)
    BY <1>2
  <2> DEFINE h == [k \in 0 .. m + 1 |-> IF k = m + 1 THEN T!Iterate(ids, g[m]) ELSE g[k]]
  <2>2. ASSUME NEW k \in 0 .. m + 1
        PROVE  h[k] = IF k = 0 THEN start ELSE T!Iterate(ids, h[k - 1])
    <3>1. m \in Nat /\ (k = m + 1 => k # 0 /\ k - 1 = m /\ m \in 0 .. m + 1 /\ m # m + 1)
      BY <1>0
    <3>2. CASE k = m + 1
      BY <3>1, <3>2
    <3>3. CASE k # m + 1
      <4>1. k \in 0 .. m /\ h[k] = g[k]
        BY <3>1, <3>3
      <4>2. g[k] = IF k = 0 THEN start ELSE T!Iterate(ids, g[k - 1])
        BY <2>1, <4>1 DEF LoopUpTo
      <4>3. k # 0 => k - 1 \in 0 .. m + 1 /\ k - 1 # m + 1
        BY <3>1, <4>1
      <4>4. k # 0 => h[k - 1] = g[k - 1]
        BY <4>3
      <4> QED BY <4>1, <4>2, <4>4
    <3> QED BY <3>2, <3>3
  <2>3. h = [k \in 0 .. m + 1 |-> h[k]]
    OBVIOUS
  <2> HIDE DEF h, start
  <2>4. h = [k \in 0 .. m + 1 |-> IF k = 0 THEN start ELSE T!Iterate(ids, h[k - 1])]
    BY <2>2, <2>3
  <2>5. LoopUpTo(ids, last, h, m + 1)
    BY <2>4 DEF LoopUpTo, start
  <2>6. m + 1 \in 0 .. M
    BY <1>0
  <2> QED BY <2>5, <2>6
<1> HIDE DEF S
<1>3. \A k \in 0 .. M : k \in S
  BY <1>0, <1>1, <1>2, InductionUpTo
<1>4. M \in S
  BY <1>0, <1>3
<1> QED BY <1>4 DEF S, M
\* get_pid's loop: when it has passed all the ids, last is none of them.
LEMMA ScanScanned ==
  ASSUME NEW ids, NEW last, NEW n \in Nat, ids \in [1 .. n -> Pid], last \in Pid
  PROVE  Scanned(ids, n, T!Scan(ids, last))
<1> DEFINE M == T!MaxIterations
           f == T!Loop(ids, last)
           start == [le |-> 1, last |-> last, safe |-> MAX_PID]
           S == {k \in 0 .. M : Scanned(ids, n, f[k])}
<1>0. M \in Nat
  BY PidFacts
<1>1. f = [k \in 0 .. M |-> IF k = 0 THEN start ELSE T!Iterate(ids, f[k - 1])]
  <2>1. PICK g : LoopUpTo(ids, last, g, M)
    BY LoopExists
  <2>2. g = [k \in 0 .. M |-> IF k = 0 THEN start ELSE T!Iterate(ids, g[k - 1])]
    BY <2>1 DEF LoopUpTo
  <2> QED BY <2>2 DEF T!Loop
<1> HIDE DEF M, f
<1>2. 0 \in S
  <2>1. Scanned(ids, n, start)
    BY PidFacts DEF Scanned, Pid
  <2>2. f[0] = start /\ 0 \in 0 .. M
    BY <1>0, <1>1
  <2> HIDE DEF start
  <2> QED BY <2>1, <2>2
<1>3. ASSUME NEW k \in 0 .. M - 1, k \in S PROVE k + 1 \in S
  <2>1. k + 1 \in 0 .. M /\ k + 1 # 0 /\ (k + 1) - 1 = k
    BY <1>0
  <2> HIDE DEF start
  <2>2. f[k + 1] = T!Iterate(ids, f[k])
    BY <1>1, <2>1
  <2>3. Scanned(ids, n, f[k])
    BY <1>3
  <2>4. Scanned(ids, n, T!Iterate(ids, f[k]))
    BY <2>3, IterateKeepsScanned
  <2> QED BY <2>1, <2>2, <2>4
<1> HIDE DEF S
<1>4. \A k \in 0 .. M : k \in S
  BY <1>0, <1>2, <1>3, InductionUpTo
<1>5. Scanned(ids, n, f[M])
  BY <1>0, <1>4 DEF S
<1> QED BY <1>5 DEF M, f, T!Scan

\* What InList and ChildList are.
LEMMA InListIsRow ==
  ASSUME NEW s, NEW n \in Nat, ListRow(s, n)
  PROVE  T!InList = s
<1>1. Row(T!Proc, s, n) /\ Chain(next, prev, HEAD, s, n) /\ n \in Nat
  BY DEF ListRow, Row
<1>2. \A i \in 1 .. n : At(s, n, i, HEAD) = s[i]
  BY <1>1, RowAt, Constants
<1>3. \A i \in 1 .. n : next[s[i]] = At(s, n, i + 1, HEAD)
  BY <1>1, <1>2 DEF Chain
<1>4. next[HEAD] = At(s, n, 1, HEAD)
  <2>1. 0 \in 0 .. n /\ 0 + 1 = 1
    BY <1>1
  <2>2. next[At(s, n, 0, HEAD)] = At(s, n, 0 + 1, HEAD) /\ At(s, n, 0, HEAD) = HEAD
    BY <1>1, <2>1 DEF Chain, At
  <2> QED BY <2>1, <2>2
<1> QED BY <1>1, <1>3, <1>4, FollowRow, Constants DEF T!InList

LEMMA ChildListIsRow ==
  ASSUME NEW p, NEW s, NEW n \in Nat, ChildRow(p, s, n)
  PROVE  T!ChildList(p) = s
<1>1. Row(T!Proc, s, n) /\ cptr[p] = At(s, n, 1, NULL) /\ \A i \in 1 .. n : optr[s[i]] = At(s, n, i + 1, NULL)
  BY DEF ChildRow, Older
<1> QED BY <1>1, FollowRow, Constants DEF T!ChildList

\* get_pid returns an id that no process has, and leaves a window with none.
LEMMA GetPidFresh ==
  ASSUME TableTypes, Links, Ids, T!GetPid.le > Len(T!InList)
  PROVE  /\ T!GetPid.last \in Pid /\ T!GetPid.safe \in 1 .. MAX_PID
         /\ \A p \in T!Alive \ {idleproc} :
               pid[p] < T!GetPid.last \/ (pid[p] > T!GetPid.last /\ pid[p] >= T!GetPid.safe)
<1>1n. PICK n \in Nat : \E s : ListRow(s, n)
  BY DEF Links
<1>1. PICK s : ListRow(s, n)
  BY <1>1n
<1>2. Row(T!Proc, s, n) /\ Members(s, n) = T!Alive \ {idleproc} /\ n \in Nat /\ T!InList = s /\ Len(s) = n
  BY <1>1, InListIsRow, RowIsSeq DEF ListRow, Row
<1> DEFINE ids == [i \in 1 .. n |-> pid[s[i]]]
           r == T!GetPid
<1>3. ids \in [1 .. n -> Pid] /\ \A i \in 1 .. n : ids[i] = pid[s[i]]
  <2>1. \A i \in 1 .. n : pid[s[i]] \in Pid
    BY <1>2 DEF Members, Ids
  <2> QED BY <2>1
<1>4. Len(ids) = n
  <2>1. DOMAIN ids = 1 .. n
    OBVIOUS
  <2> QED BY <1>2, <2>1
<1>5. r = IF tlast + 1 >= MAX_PID THEN T!Scan(ids, 1)
          ELSE IF tlast + 1 >= tsafe THEN T!Scan(ids, tlast + 1)
          ELSE [le |-> Len(ids) + 1, last |-> tlast + 1, safe |-> tsafe]
  BY <1>2 DEF T!GetPid
<1>6. tlast \in Nat /\ tlast >= 1 /\ tlast < MAX_PID /\ MAX_PID \in Nat /\ tsafe \in Nat /\ tsafe <= MAX_PID
  BY PidFacts DEF Ids, Pid
<1>7. Scanned(ids, n, r)
  <2>1. CASE tlast + 1 >= MAX_PID
    BY <1>2, <1>3, <1>5, <2>1, ScanScanned, PidFacts
  <2>2. CASE ~ tlast + 1 >= MAX_PID /\ tlast + 1 >= tsafe
    <3>1. tlast + 1 \in Pid
      BY <1>6, <2>2 DEF Pid
    <3>2. Scanned(ids, n, T!Scan(ids, tlast + 1))
      BY <1>2, <1>3, <3>1, ScanScanned
    <3> QED BY <1>5, <2>2, <3>2
  <2>3. CASE ~ tlast + 1 >= MAX_PID /\ ~ tlast + 1 >= tsafe
    <3>1. r.le = n + 1 /\ r.last = tlast + 1 /\ r.safe = tsafe
      BY <1>4, <1>5, <2>3
    <3>2. \A i \in 1 .. n : pid[s[i]] \in Nat /\ (pid[s[i]] <= tlast \/ pid[s[i]] >= tsafe)
      BY <1>2 DEF Members, Ids, Pid
    <3>3. \A i \in 1 .. n : ids[i] < tlast + 1 \/ ids[i] >= tsafe
      BY <1>3, <1>6, <3>2
    <3>4. n + 1 \in 1 .. n + 1 /\ tlast + 1 \in Pid /\ tsafe \in 1 .. MAX_PID /\ tlast + 1 < tsafe
      BY <1>2, <1>6, <2>3 DEF Pid
    <3> HIDE DEF ids, r
    <3> QED BY <3>1, <3>3, <3>4 DEF Scanned
  <2> QED BY <2>1, <2>2, <2>3
<1> HIDE DEF ids, r
<1>8. r.le = n + 1 /\ r.last \in Pid /\ r.safe \in 1 .. MAX_PID /\ r.last < r.safe
  BY <1>2, <1>7 DEF Scanned, r
<1>9. \A i \in 1 .. n : ids[i] < r.last \/ ids[i] >= r.safe
  BY <1>2, <1>7, <1>8 DEF Scanned
<1>10. ASSUME NEW p \in T!Alive \ {idleproc}
       PROVE  pid[p] < r.last \/ (pid[p] > r.last /\ pid[p] >= r.safe)
  <2>1. PICK i \in 1 .. n : p = s[i]
    BY <1>2 DEF Members
  <2>2. (pid[p] < r.last \/ pid[p] >= r.safe) /\ pid[p] \in Pid
    BY <1>3, <1>9, <2>1
  <2> QED BY <1>8, <2>2 DEF Pid
<1> QED BY <1>8, <1>10 DEF r

LEMMA ForkIds ==
  ASSUME TableTypes, Links, Ids, NEW p \in User \cup {initproc}, NEW c \in User, T!Fork(p, c)
  PROVE  Ids'
<1>1. PICK last, safe : last = T!GetPid.last /\ safe = T!GetPid.safe
  OBVIOUS
<1>2. /\ state[c] = "FREE" /\ state' = [state EXCEPT ![c] = "LIVE"] /\ T!GetPid.le > Len(T!InList)
      /\ pid' = [pid EXCEPT ![c] = last] /\ tlast' = last /\ tsafe' = safe
  BY <1>1 DEF T!Fork
<1>3. /\ last \in Pid /\ safe \in 1 .. MAX_PID
      /\ \A q \in T!Alive \ {idleproc} : pid[q] < last \/ (pid[q] > last /\ pid[q] >= safe)
  BY <1>1, <1>2, GetPidFresh
<1>4. c \in T!Proc /\ c # idleproc /\ last \in Nat /\ last > 0
  BY <1>3, Constants, PidFacts DEF Pid
<1>5. T!Alive' = T!Alive \cup {c} /\ c \notin T!Alive /\ T!Alive \subseteq T!Proc
  <2>1. state'[c] = "LIVE" /\ \A q \in T!Proc : q # c => state'[q] = state[q]
    BY <1>2, <1>4 DEF TableTypes
  <2> QED BY <1>2, <1>4, <2>1 DEF T!Alive
<1>6. /\ pid' \in [T!Proc -> Nat] /\ pid'[c] = last
      /\ \A q \in T!Proc : q # c => pid'[q] = pid[q]
  BY <1>2, <1>4 DEF Ids
<1>7. pid'[idleproc] = 0
  BY <1>4, <1>6, Constants DEF Ids
<1>8. ASSUME NEW q \in T!Alive' \ {idleproc}
      PROVE  pid'[q] \in Pid /\ (pid'[q] <= tlast' \/ pid'[q] >= tsafe')
  <2>1. CASE q = c
    BY <1>2, <1>3, <1>4, <1>6, <2>1
  <2>2. CASE q # c
    <3>1. q \in T!Alive \ {idleproc} /\ q \in T!Proc
      BY <1>5, <2>2
    <3>2. pid'[q] = pid[q] /\ pid[q] \in Pid /\ pid[q] \in Nat
      BY <1>6, <2>2, <3>1 DEF Ids
    <3>3. pid[q] < last \/ pid[q] >= safe
      BY <1>3, <3>1
    <3> QED BY <1>2, <1>4, <3>2, <3>3
  <2> QED BY <2>1, <2>2
<1>9. \A q \in T!Alive : pid'[q] = pid[q] /\ pid[q] # last
  <2>1. ASSUME NEW q \in T!Alive PROVE pid'[q] = pid[q] /\ pid[q] # last
    <3>1. pid'[q] = pid[q] /\ pid[q] \in Nat
      BY <1>5, <1>6 DEF Ids
    <3>2. CASE q = idleproc
      BY <1>4, <3>1, <3>2 DEF Ids
    <3>3. CASE q # idleproc
      <4>1. pid[q] < last \/ pid[q] > last
        BY <1>3, <3>3
      <4> QED BY <1>4, <3>1, <4>1
    <3> QED BY <3>2, <3>3
  <2> QED BY <2>1
<1>10. T!UniquePids'
  BY <1>5, <1>6, <1>9 DEF T!UniquePids, Ids
<1> QED BY <1>2, <1>3, <1>6, <1>7, <1>8, <1>10 DEF Ids

LEMMA TableInvIsInvariant == MCSpec => []TableInv
<1>1. MCInit => TableInv
  BY InitTableInv DEF MCInit
<1>2. TableInv /\ [MCNext]_<<part, vars, tableVars>> => TableInv'
  <2> SUFFICES ASSUME TableInv, [MCNext]_<<part, vars, tableVars>> PROVE TableInv'
    OBVIOUS
  <2>1. CASE T!Next
    <3>1. \A p \in User \cup {initproc}, c \in User : T!Fork(p, c) => Ids'
      BY ForkIds DEF TableInv
    <3> QED BY <2>1, <3>1, TableStep
  <2>2. CASE UNCHANGED tableVars
    BY <2>2, TableStutter
  <2> QED BY <2>1, <2>2 DEF MCNext
<1> QED BY <1>1, <1>2, PTL DEF MCSpec

LEMMA RowsMakeTableExact == TableInv => TableExact
<1> SUFFICES ASSUME TableInv PROVE TableExact
  OBVIOUS
<1>1. T!ListExact
  <2>1n. PICK n \in Nat : \E s : ListRow(s, n)
    BY DEF TableInv, Links
  <2>1. PICK s : ListRow(s, n)
    BY <2>1n
  <2>2. /\ T!InList = s /\ Row(T!Proc, s, n) /\ Len(s) = n /\ n \in Nat
        /\ Members(s, n) = T!Alive \ {idleproc} /\ tnr = n + 1 /\ Chain(next, prev, HEAD, s, n)
    BY <2>1, InListIsRow, RowIsSeq DEF ListRow, Row
  <2>3. T!SetOf(s) = Members(s, n)
    BY <2>2 DEF T!SetOf, Members
  <2>4. ASSUME NEW m \in Members(s, n) \cup {HEAD} PROVE prev[next[m]] = m
    <3>1. PICK i \in 0 .. n : m = At(s, n, i, HEAD)
      <4>1. CASE m = HEAD
        <5>1. 0 \in 0 .. n /\ At(s, n, 0, HEAD) = HEAD
          BY <2>2 DEF At
        <5> QED BY <4>1, <5>1
      <4>2. CASE m # HEAD
        <5>1. PICK i \in 1 .. n : m = s[i]
          BY <2>4, <4>2 DEF Members
        <5>2. i \in 0 .. n /\ At(s, n, i, HEAD) = m
          BY <2>2, <5>1 DEF At
        <5> QED BY <5>2
      <4> QED BY <4>1, <4>2
    <3> QED BY <2>2, <3>1 DEF Chain
  <2> QED BY <2>2, <2>3, <2>4 DEF T!ListExact
<1>2. T!FamilyExact
  <2> SUFFICES ASSUME NEW p \in T!Alive
               PROVE  /\ T!SetOf(T!ChildList(p)) = {c \in T!Alive : parent[c] = p}
                      /\ p # exiter => \A i \in 1 .. Len(T!ChildList(p)) :
                            yptr[T!ChildList(p)[i]] = IF i = 1 THEN NULL ELSE T!ChildList(p)[i - 1]
    BY DEF T!FamilyExact
  <2>1n. PICK n \in Nat : \E s : ChildRow(p, s, n)
    BY DEF TableInv, Links, T!Alive
  <2>1. PICK s : ChildRow(p, s, n)
    BY <2>1n
  <2>2. /\ T!ChildList(p) = s /\ Row(T!Proc, s, n) /\ Len(s) = n /\ n \in Nat
        /\ Members(s, n) = {c \in T!Alive : parent[c] = p} /\ (p # exiter => Younger(yptr, NULL, s, n))
    BY <2>1, ChildListIsRow, RowIsSeq DEF ChildRow, Row
  <2>3. T!SetOf(s) = Members(s, n)
    BY <2>2 DEF T!SetOf, Members
  <2>4. ASSUME p # exiter, NEW i \in 1 .. n PROVE yptr[s[i]] = IF i = 1 THEN NULL ELSE s[i - 1]
    <3>1. yptr[s[i]] = At(s, n, i - 1, NULL)
      BY <2>2, <2>4 DEF Younger
    <3> QED BY <2>2, <3>1 DEF At
  <2> QED BY <2>2, <2>3, <2>4
<1> QED BY <1>1, <1>2 DEF TableExact, T!TableExact, TableInv, Ids

\* However processes are forked, exit and are reaped, and between any two
\* iterations of the loop in which do_exit hands its children to initproc,
\* proc_list holds every process but idleproc and is linked both ways,
\* nr_process counts it, cptr and optr lead to exactly the children of a process,
\* and get_pid has given every process an id of its own.
THEOREM TableIsExact == MCSpec => []TableExact
BY TableInvIsInvariant, RowsMakeTableExact, PTL

\* The asserts that end init_main hold whenever init has no child left and no
\* do_exit is under way: init has no sibling, only idleproc and init are
\* counted, and init is alone in proc_list.
THEOREM InitMainAssertsHold == MCSpec => []InitMainAsserts
BY TableInvIsInvariant, RowsMakeInitMainAsserts, PTL
=============================================================================
