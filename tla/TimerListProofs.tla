-------------------------- MODULE TimerListProofs --------------------------
(***************************************************************************)
(* What the list of timers of kern/schedule/sched.c computes, for lists of *)
(* any length: which deadlines the differences stand for, where add_timer  *)
(* puts a timer, and that no operation moves the deadline of another one.  *)
(***************************************************************************)
EXTENDS TimerList, FiniteSetTheorems, WellFoundedInduction, TLAPS

\* Every set of natural numbers has a least member.
LEMMA LeastMember ==
  ASSUME NEW S, S \subseteq Nat, S # {}
  PROVE  \E x \in S : \A y \in S : x <= y
<1> DEFINE R == OpToRel(<, Nat)
<1>1. IsWellFoundedOn(R, Nat)
  BY NatLessThanWellFounded
<1>2. \A a, b \in Nat : a < b => <<a, b>> \in R
  BY DEF OpToRel
<1> HIDE DEF R
<1>3. PICK x \in S : \A y \in S : ~ (<<y, x>> \in R)
  BY <1>1, WFMin
<1>4. ASSUME NEW y \in S PROVE x <= y
  <2>1. x \in Nat /\ y \in Nat
    OBVIOUS
  <2>2. ~(y < x)
    BY <1>2, <1>3, <2>1
  <2> QED BY <2>1, <2>2
<1> QED BY <1>4

\* Induction up to n, for the members of a set.
LEMMA InductionUpTo ==
  ASSUME NEW S, NEW n \in Nat, 0 \in S, \A k \in 0 .. n - 1 : k \in S => k + 1 \in S
  PROVE  \A k \in 0 .. n : k \in S
<1> DEFINE out == {k \in 0 .. n : k \notin S}
<1> SUFFICES ASSUME out # {} PROVE FALSE
  OBVIOUS
<1>1. out \subseteq Nat
  OBVIOUS
<1> HIDE DEF out
<1>2. PICK x \in out : \A y \in out : x <= y
  BY <1>1, LeastMember
<1>3. x \in 0 .. n /\ x \notin S
  BY DEF out
<1>4. x # 0 /\ x - 1 \in 0 .. n - 1 /\ x - 1 \in 0 .. n /\ (x - 1) + 1 = x
  BY <1>3
<1>5. x - 1 \in S
  BY <1>2, <1>4 DEF out
<1> QED BY <1>3, <1>4, <1>5

Timers == Seq([proc : Sleeper, expires : Nat])

\* The sums of the differences of l, as in Deadline.
Sums(l) == LET sum[k \in 0 .. Len(l)] == IF k = 0 THEN 0 ELSE sum[k - 1] + l[k].expires
           IN  sum

\* g satisfies the equations of Sums up to m.
SumsUpTo(l, g, m) ==
  /\ g \in [0 .. m -> Nat]
  /\ g[0] = 0
  /\ \A k \in 1 .. m : g[k] = g[k - 1] + l[k].expires

LEMMA SeqElements ==
  ASSUME NEW S, NEW s \in Seq(S)
  PROVE  Len(s) \in Nat /\ DOMAIN s = 1 .. Len(s) /\ \A k \in 1 .. Len(s) : s[k] \in S
OBVIOUS

LEMMA ListFields ==
  ASSUME NEW l \in Timers
  PROVE  /\ Len(l) \in Nat /\ DOMAIN l = 1 .. Len(l)
         /\ \A k \in 1 .. Len(l) : /\ l[k] \in [proc : Sleeper, expires : Nat]
                                   /\ l[k].expires \in Nat /\ l[k].proc \in Sleeper
<1>1. /\ Len(l) \in Nat /\ DOMAIN l = 1 .. Len(l)
      /\ \A k \in 1 .. Len(l) : l[k] \in [proc : Sleeper, expires : Nat]
  BY SeqElements DEF Timers
<1> QED BY <1>1

LEMMA SumsExist ==
  ASSUME NEW l \in Timers
  PROVE  \E g : SumsUpTo(l, g, Len(l))
<1> DEFINE S == {m \in 0 .. Len(l) : \E g : SumsUpTo(l, g, m)}
<1>1. 0 \in S
  <2> DEFINE g == [k \in 0 .. 0 |-> 0]
  <2>1. SumsUpTo(l, g, 0)
    BY DEF SumsUpTo
  <2> QED BY <2>1, ListFields
<1>2. ASSUME NEW k \in 0 .. Len(l) - 1, k \in S PROVE k + 1 \in S
  <2>1. PICK g : SumsUpTo(l, g, k)
    BY <1>2
  <2>2. k + 1 \in 1 .. Len(l) /\ l[k + 1].expires \in Nat
    BY ListFields
  <2> DEFINE h == [j \in 0 .. k + 1 |-> IF j = k + 1 THEN g[k] + l[k + 1].expires ELSE g[j]]
  <2>3. h \in [0 .. k + 1 -> Nat]
    BY <2>1, <2>2 DEF SumsUpTo
  <2>4. h[0] = 0 /\ \A j \in 1 .. k + 1 : h[j] = h[j - 1] + l[j].expires
    BY <2>1, <2>2 DEF SumsUpTo
  <2>5. SumsUpTo(l, h, k + 1)
    BY <2>3, <2>4 DEF SumsUpTo
  <2> QED BY <2>2, <2>5
<1> HIDE DEF S
<1>3. \A k \in 0 .. Len(l) : k \in S
  BY <1>1, <1>2, ListFields, InductionUpTo
<1>4. Len(l) \in S
  BY <1>3, ListFields
<1> QED BY <1>4 DEF S

\* The equations determine the sums: a function that satisfies them is Sums.
LEMMA SumsUnique ==
  ASSUME NEW l \in Timers, NEW g, SumsUpTo(l, g, Len(l))
  PROVE  Sums(l) = g
<1> DEFINE n == Len(l)
           s == Sums(l)
<1>n. n \in Nat
  BY ListFields
<1>1. g = [k \in 0 .. n |-> IF k = 0 THEN 0 ELSE g[k - 1] + l[k].expires]
  BY <1>n DEF SumsUpTo
<1>2. s = [k \in 0 .. n |-> IF k = 0 THEN 0 ELSE s[k - 1] + l[k].expires]
  BY <1>1 DEF Sums
<1> HIDE DEF s, n
<1> DEFINE S == {k \in 0 .. n : s[k] = g[k]}
<1>3. 0 \in S
  BY <1>1, <1>2, <1>n
<1>4. ASSUME NEW k \in 0 .. n - 1, k \in S PROVE k + 1 \in S
  <2>1. k + 1 \in 0 .. n /\ k + 1 # 0 /\ (k + 1) - 1 = k
    BY <1>n
  <2>2. s[k + 1] = s[k] + l[k + 1].expires
    BY <1>2, <2>1
  <2>3. g[k + 1] = g[k] + l[k + 1].expires
    BY <1>1, <2>1
  <2> QED BY <1>4, <2>1, <2>2, <2>3
<1>5. \A k \in 0 .. n : k \in S
  <2> HIDE DEF S
  <2> QED BY <1>3, <1>4, <1>n, InductionUpTo
<1>6. \A k \in 0 .. n : s[k] = g[k]
  BY <1>5
<1>7. s = [k \in 0 .. n |-> s[k]] /\ g = [k \in 0 .. n |-> g[k]]
  BY <1>1, <1>2
<1> QED BY <1>6, <1>7 DEF s

LEMMA SumsDef ==
  ASSUME NEW l \in Timers
  PROVE  SumsUpTo(l, Sums(l), Len(l))
BY SumsExist, SumsUnique

\* Deadlines do not decrease along the list.
LEMMA SumsGrow ==
  ASSUME NEW l \in Timers, Len(l) > 0
  PROVE  \A k \in 1 .. Len(l) : Sums(l)[k] >= l[1].expires
<1> DEFINE n == Len(l)
           s == Sums(l)
           S == {k \in 0 .. n : k = 0 \/ s[k] >= l[1].expires}
<1>1. /\ n \in Nat /\ n > 0 /\ s \in [0 .. n -> Nat] /\ s[0] = 0
      /\ \A k \in 1 .. n : s[k] = s[k - 1] + l[k].expires /\ l[k].expires \in Nat
  BY SumsDef, ListFields DEF SumsUpTo
<1> HIDE DEF n, s
<1>2. 0 \in S
  BY <1>1
<1>3. ASSUME NEW k \in 0 .. n - 1, k \in S PROVE k + 1 \in S
  <2>1. k + 1 \in 1 .. n /\ (k + 1) - 1 = k /\ s[k] \in Nat /\ 1 \in 1 .. n
    BY <1>1
  <2>2. s[k + 1] = s[k] + l[k + 1].expires /\ l[k + 1].expires \in Nat /\ l[1].expires \in Nat
    BY <1>1, <2>1
  <2>3. CASE k = 0
    BY <1>1, <2>1, <2>2, <2>3
  <2>4. CASE k # 0
    <3>1. s[k] >= l[1].expires
      BY <1>3, <2>4
    <3>2. s[k + 1] >= l[1].expires
      BY <2>1, <2>2, <3>1
    <3> QED BY <2>1, <3>2
  <2> QED BY <2>3, <2>4
<1>4. \A k \in 0 .. n : k \in S
  <2> HIDE DEF S
  <2> QED BY <1>1, <1>2, <1>3, InductionUpTo
<1> QED BY <1>4 DEF n, s
-----------------------------------------------------------------------------
\* add_timer has subtracted the differences it has passed.
LEMMA LeftIs ==
  ASSUME NEW l \in Timers, NEW e \in Nat
  PROVE  \A j \in 1 .. Len(l) + 1 : Left(l, e)[j] = e - Sums(l)[j - 1]
<1> DEFINE n == Len(l)
           s == Sums(l)
           f == Left(l, e)
           g == [j \in 1 .. n + 1 |-> e - s[j - 1]]
<1>1. /\ n \in Nat /\ s \in [0 .. n -> Nat] /\ s[0] = 0
      /\ \A k \in 1 .. n : s[k] = s[k - 1] + l[k].expires /\ l[k].expires \in Nat
  BY SumsDef, ListFields DEF SumsUpTo
<1> HIDE DEF s
<1>2. g = [i \in 1 .. n + 1 |-> IF i = 1 THEN e ELSE g[i - 1] - l[i - 1].expires]
  <2> HIDE DEF n
  <2>1. ASSUME NEW i \in 1 .. n + 1 PROVE g[i] = IF i = 1 THEN e ELSE g[i - 1] - l[i - 1].expires
    <3>1. CASE i = 1
      BY <1>1, <3>1
    <3>2. CASE i # 1
      <4>1. i - 1 \in 1 .. n /\ i - 1 \in 1 .. n + 1 /\ (i - 1) - 1 \in 0 .. n
        BY <1>1, <3>2
      <4>2. s[i - 1] = s[(i - 1) - 1] + l[i - 1].expires /\ l[i - 1].expires \in Nat
        BY <1>1, <4>1
      <4>3. s[(i - 1) - 1] \in Nat /\ s[i - 1] \in Nat
        BY <1>1, <4>1
      <4>4. g[i] = e - s[i - 1] /\ g[i - 1] = e - s[(i - 1) - 1]
        BY <1>1, <4>1
      <4> QED BY <3>2, <4>2, <4>3, <4>4
    <3> QED BY <3>1, <3>2
  <2> QED BY <2>1
<1> HIDE DEF g
<1>3. f = [i \in 1 .. n + 1 |-> IF i = 1 THEN e ELSE f[i - 1] - l[i - 1].expires]
  BY <1>2 DEF Left
<1> HIDE DEF f, n
<1> DEFINE S == {k \in 0 .. n : f[k + 1] = g[k + 1]}
<1>4. 0 \in S
  <2>1. f[1] = e /\ g[1] = e
    BY <1>1, <1>2, <1>3
  <2> QED BY <1>1, <2>1
<1>5. ASSUME NEW k \in 0 .. n - 1, k \in S PROVE k + 1 \in S
  <2>1. k + 1 \in 0 .. n /\ (k + 1) + 1 \in 1 .. n + 1 /\ (k + 1) + 1 # 1 /\ ((k + 1) + 1) - 1 = k + 1
    BY <1>1
  <2>2. f[(k + 1) + 1] = f[k + 1] - l[k + 1].expires
    BY <1>3, <2>1
  <2>3. g[(k + 1) + 1] = g[k + 1] - l[k + 1].expires
    BY <1>2, <2>1
  <2> QED BY <1>5, <2>1, <2>2, <2>3
<1>6. \A k \in 0 .. n : k \in S
  <2> HIDE DEF S
  <2> QED BY <1>1, <1>4, <1>5, InductionUpTo
<1>7. ASSUME NEW j \in 1 .. n + 1 PROVE f[j] = e - s[j - 1]
  <2>1. j - 1 \in 0 .. n /\ (j - 1) + 1 = j
    BY <1>1
  <2>2. f[j] = g[j]
    BY <1>6, <2>1
  <2> QED BY <2>2 DEF g
<1> QED BY <1>7 DEF f, n, s

\* Where the loop of add_timer ends: behind the timers that expire before the
\* new one or with it, and before the first one that expires later.
LEMMA InsertPosIs ==
  ASSUME NEW l \in Timers, NEW e \in Nat
  PROVE  /\ InsertPos(l, e) \in 1 .. Len(l) + 1
         /\ Sums(l)[InsertPos(l, e) - 1] <= e
         /\ InsertPos(l, e) <= Len(l) => e < Sums(l)[InsertPos(l, e)]
<1> DEFINE n == Len(l)
           s == Sums(l)
           Passed(j) == ~StopsAt(l, Left(l, e)[j], j)
           P == {i \in 1 .. n : \A j \in 1 .. i : Passed(j)}
           Q == {i \in 1 .. n + 1 : i \notin P}
<1>1. /\ n \in Nat /\ s \in [0 .. n -> Nat] /\ s[0] = 0
      /\ \A k \in 1 .. n : s[k] = s[k - 1] + l[k].expires /\ l[k].expires \in Nat
  BY SumsDef, ListFields DEF SumsUpTo
<1>2. ASSUME NEW j \in 1 .. n PROVE Passed(j) <=> s[j] <= e
  <2>1. Left(l, e)[j] = e - s[j - 1]
    BY <1>1, LeftIs
  <2>2. s[j - 1] \in Nat /\ s[j] = s[j - 1] + l[j].expires /\ l[j].expires \in Nat
    <3> HIDE DEF s, n
    <3>1. j - 1 \in 0 .. n
      BY <1>1
    <3> QED BY <1>1, <3>1
  <2>3. StopsAt(l, Left(l, e)[j], j) <=> e - s[j - 1] < l[j].expires
    BY <1>1, <2>1 DEF StopsAt
  <2> HIDE DEF s, n
  <2> QED BY <2>2, <2>3
<1>3. InsertPos(l, e) = 1 + Cardinality(P)
  BY DEF InsertPos
<1> HIDE DEF n, s, Passed
<1>4. Q \subseteq Nat /\ n + 1 \in Q
  BY <1>1
<1>5. PICK x \in Q : \A y \in Q : x <= y
  <2> HIDE DEF Q
  <2> QED BY <1>4, LeastMember
<1>6. P = 1 .. x - 1
  <2>1. ASSUME NEW i \in P PROVE i \in 1 .. x - 1
    <3>1. ~(x <= i)
      <4> SUFFICES ASSUME x <= i PROVE FALSE
        OBVIOUS
      <4>1. x \in 1 .. i /\ x \in 1 .. n
        BY <1>1, <1>5
      <4>2. \A j \in 1 .. x : j \in 1 .. i
        BY <4>1
      <4>3. x \in P
        BY <2>1, <4>1, <4>2
      <4> QED BY <1>5, <4>3
    <3> QED BY <1>1, <3>1
  <2>2. ASSUME NEW i \in 1 .. x - 1 PROVE i \in P
    <3>1. i \in 1 .. n + 1 /\ ~(x <= i)
      BY <1>1, <1>5
    <3> QED BY <1>5, <3>1
  <2> QED BY <2>1, <2>2
<1>7. Cardinality(P) = x - 1
  <2>1. x \in Nat /\ x >= 1 /\ x - 1 \in Int
    BY <1>1, <1>5
  <2>2. Cardinality(1 .. x - 1) = IF 1 > x - 1 THEN 0 ELSE (x - 1) - 1 + 1
    BY <2>1, FS_Interval
  <2>3. (IF 1 > x - 1 THEN 0 ELSE (x - 1) - 1 + 1) = x - 1
    BY <2>1
  <2> HIDE DEF P, Q
  <2> QED BY <1>6, <2>2, <2>3
<1>8. InsertPos(l, e) = x /\ x \in 1 .. n + 1
  BY <1>1, <1>3, <1>5, <1>7
<1>9. s[x - 1] <= e
  <2>1. CASE x = 1
    BY <1>1, <2>1
  <2>2. CASE x # 1
    <3>1. x - 1 \in 1 .. x - 1 /\ x - 1 \in 1 .. n
      BY <1>1, <1>8, <2>2
    <3>2. Passed(x - 1)
      BY <1>6, <3>1
    <3> QED BY <1>2, <3>1, <3>2
  <2> QED BY <2>1, <2>2
<1>10. ASSUME x <= n PROVE e < s[x]
  <2>1. x \in 1 .. n /\ s[x] \in Nat
    BY <1>1, <1>8, <1>10
  <2>2. PICK j \in 1 .. x : ~Passed(j)
    BY <1>5, <2>1
  <2>3. ~(j < x)
    <3> SUFFICES ASSUME j < x PROVE FALSE
      OBVIOUS
    <3>1. j \in 1 .. x - 1
      BY <2>1
    <3>2. j \in P
      BY <1>6, <3>1
    <3> QED BY <2>2, <3>2
  <2>4. j = x
    BY <2>1, <2>3
  <2> QED BY <1>2, <2>1, <2>2, <2>4
<1> QED BY <1>8, <1>9, <1>10 DEF n, s
-----------------------------------------------------------------------------
\* No process owns two timers of l.
Distinct(l) == \A i, j \in 1 .. Len(l) : l[i].proc = l[j].proc => i = j
OwnersOf(l) == {l[i].proc : i \in 1 .. Len(l)}

\* The deadlines of the owners of l.
DueOf(l) == [p \in OwnersOf(l) |-> Sums(l)[CHOOSE i \in 1 .. Len(l) : l[i].proc = p]]

LEMMA DueIs == due = DueOf(timers) /\ Owners = OwnersOf(timers)
BY DEF due, Deadline, DueOf, Owners, OwnersOf, Sums

LEMMA DueAt ==
  ASSUME NEW l, Distinct(l)
  PROVE  \A i \in 1 .. Len(l) : DueOf(l)[l[i].proc] = Sums(l)[i]
<1> SUFFICES ASSUME NEW i \in 1 .. Len(l) PROVE DueOf(l)[l[i].proc] = Sums(l)[i]
  OBVIOUS
<1> DEFINE c == CHOOSE j \in 1 .. Len(l) : l[j].proc = l[i].proc
<1>1. c \in 1 .. Len(l) /\ l[c].proc = l[i].proc
  OBVIOUS
<1>2. c = i
  BY <1>1 DEF Distinct
<1>3. DueOf(l)[l[i].proc] = Sums(l)[c]
  BY DEF DueOf, OwnersOf
<1> QED BY <1>2, <1>3

\* The deadlines of l are known when they are known for each of its timers.
LEMMA DueEquals ==
  ASSUME NEW l, Distinct(l), NEW f, f = [q \in OwnersOf(l) |-> f[q]],
         \A i \in 1 .. Len(l) : f[l[i].proc] = Sums(l)[i]
  PROVE  DueOf(l) = f
<1>1. ASSUME NEW q \in OwnersOf(l) PROVE DueOf(l)[q] = f[q]
  <2>1. PICK i \in 1 .. Len(l) : l[i].proc = q
    BY DEF OwnersOf
  <2> QED BY <2>1, DueAt
<1>2. DueOf(l) = [q \in OwnersOf(l) |-> DueOf(l)[q]]
  BY DEF DueOf
<1> QED BY <1>1, <1>2

\* The positions of a list without, or behind, its x-th.
Skip(x, k) == IF k < x THEN k ELSE k + 1

\* m has the timers of l but for the x-th, with their deadlines.
Removed(l, m, x) ==
  /\ Len(l) \in Nat /\ x \in 1 .. Len(l) /\ Len(m) = Len(l) - 1
  /\ \A k \in 1 .. Len(m) :
        m[k].proc = l[Skip(x, k)].proc /\ Sums(m)[k] = Sums(l)[Skip(x, k)]

DueWithout(l, p) == [q \in OwnersOf(l) \ {p} |-> DueOf(l)[q]]

LEMMA DueRemove ==
  ASSUME NEW l, NEW m, NEW x, Distinct(l), Removed(l, m, x)
  PROVE  /\ Distinct(m) /\ OwnersOf(m) = OwnersOf(l) \ {l[x].proc}
         /\ DueOf(m) = DueWithout(l, l[x].proc)
<1>0. /\ Len(l) \in Nat /\ x \in 1 .. Len(l) /\ Len(m) = Len(l) - 1
      /\ \A k \in 1 .. Len(m) :
            m[k].proc = l[Skip(x, k)].proc /\ Sums(m)[k] = Sums(l)[Skip(x, k)]
  BY DEF Removed
<1>1. \A k \in 1 .. Len(m) : Skip(x, k) \in 1 .. Len(l) /\ Skip(x, k) # x
  BY <1>0 DEF Skip
<1>2. \A k, j \in 1 .. Len(m) : Skip(x, k) = Skip(x, j) => k = j
  BY <1>0 DEF Skip
<1>3. \A k \in 1 .. Len(m) : m[k].proc = l[Skip(x, k)].proc /\ Sums(m)[k] = Sums(l)[Skip(x, k)]
  BY <1>0
<1>4. ASSUME NEW j \in 1 .. Len(l), j # x PROVE \E k \in 1 .. Len(m) : Skip(x, k) = j
  <2>1. CASE j < x
    <3>1. j \in 1 .. Len(m) /\ Skip(x, j) = j
      BY <1>0, <2>1 DEF Skip
    <3> QED BY <3>1
  <2>2. CASE ~(j < x)
    <3>1. j - 1 \in 1 .. Len(m) /\ Skip(x, j - 1) = j
      BY <1>0, <1>4, <2>2 DEF Skip
    <3> QED BY <3>1
  <2> QED BY <2>1, <2>2
<1>5. Distinct(m)
  <2> SUFFICES ASSUME NEW i \in 1 .. Len(m), NEW j \in 1 .. Len(m), m[i].proc = m[j].proc
               PROVE  i = j
    BY DEF Distinct
  <2>1. l[Skip(x, i)].proc = l[Skip(x, j)].proc
    BY <1>3
  <2>2. Skip(x, i) = Skip(x, j)
    BY <1>1, <2>1 DEF Distinct
  <2> QED BY <1>2, <2>2
<1>6. OwnersOf(m) = OwnersOf(l) \ {l[x].proc}
  <2>1. OwnersOf(m) \subseteq OwnersOf(l) \ {l[x].proc}
    BY <1>0, <1>1, <1>3 DEF OwnersOf, Distinct
  <2>2. ASSUME NEW q \in OwnersOf(l) \ {l[x].proc} PROVE q \in OwnersOf(m)
    <3>1. PICK j \in 1 .. Len(l) : l[j].proc = q
      BY DEF OwnersOf
    <3>2. PICK k \in 1 .. Len(m) : Skip(x, k) = j
      BY <1>4, <3>1
    <3> QED BY <1>3, <3>1, <3>2 DEF OwnersOf
  <2> QED BY <2>1, <2>2
<1> DEFINE f == [q \in OwnersOf(l) \ {l[x].proc} |-> DueOf(l)[q]]
<1>7. ASSUME NEW k \in 1 .. Len(m) PROVE f[m[k].proc] = Sums(m)[k]
  <2>1. m[k].proc \in OwnersOf(l) \ {l[x].proc}
    BY <1>6 DEF OwnersOf
  <2>2. f[m[k].proc] = DueOf(l)[l[Skip(x, k)].proc]
    BY <1>3, <2>1
  <2> QED BY <1>1, <1>3, <2>2, DueAt
<1>8. f = [q \in OwnersOf(m) |-> f[q]]
  BY <1>6
<1> HIDE DEF f
<1>9. DueOf(m) = f
  BY <1>5, <1>7, <1>8, DueEquals
<1> QED BY <1>5, <1>6, <1>9 DEF f, DueWithout

\* m has the timers of l, with their deadlines, and at x one of p for e.
Inserted(l, m, x, p, e) ==
  /\ Len(l) \in Nat /\ x \in 1 .. Len(l) + 1 /\ Len(m) = Len(l) + 1
  /\ m[x].proc = p /\ Sums(m)[x] = e
  /\ \A k \in 1 .. Len(l) :
        m[Skip(x, k)].proc = l[k].proc /\ Sums(m)[Skip(x, k)] = Sums(l)[k]

DueWith(l, p, e) == [q \in OwnersOf(l) \cup {p} |-> IF q = p THEN e ELSE DueOf(l)[q]]

LEMMA DueInsert ==
  ASSUME NEW l, NEW m, NEW x, NEW p, NEW e, Distinct(l), p \notin OwnersOf(l),
         Inserted(l, m, x, p, e)
  PROVE  /\ Distinct(m) /\ OwnersOf(m) = OwnersOf(l) \cup {p}
         /\ DueOf(m) = DueWith(l, p, e)
<1>0. /\ Len(l) \in Nat /\ x \in 1 .. Len(l) + 1 /\ Len(m) = Len(l) + 1
      /\ m[x].proc = p /\ Sums(m)[x] = e
      /\ \A k \in 1 .. Len(l) :
            m[Skip(x, k)].proc = l[k].proc /\ Sums(m)[Skip(x, k)] = Sums(l)[k]
  BY DEF Inserted
<1>1. \A k \in 1 .. Len(l) : Skip(x, k) \in 1 .. Len(m) /\ Skip(x, k) # x
  BY <1>0 DEF Skip
<1>2. \A k, j \in 1 .. Len(l) : Skip(x, k) = Skip(x, j) => k = j
  BY <1>0 DEF Skip
<1>3. \A k \in 1 .. Len(l) : m[Skip(x, k)].proc = l[k].proc /\ Sums(m)[Skip(x, k)] = Sums(l)[k]
  BY <1>0
<1>4. ASSUME NEW j \in 1 .. Len(m), j # x PROVE \E k \in 1 .. Len(l) : Skip(x, k) = j
  <2>1. CASE j < x
    <3>1. j \in 1 .. Len(l) /\ Skip(x, j) = j
      BY <1>0, <2>1 DEF Skip
    <3> QED BY <3>1
  <2>2. CASE ~(j < x)
    <3>1. j - 1 \in 1 .. Len(l) /\ Skip(x, j - 1) = j
      BY <1>0, <1>4, <2>2 DEF Skip
    <3> QED BY <3>1
  <2> QED BY <2>1, <2>2
<1>x. x \in 1 .. Len(m) /\ m[x].proc = p /\ Sums(m)[x] = e
  BY <1>0
<1>5. \A j \in 1 .. Len(m) : j # x => m[j].proc \in OwnersOf(l)
  BY <1>3, <1>4 DEF OwnersOf
<1>6. Distinct(m)
  <2> SUFFICES ASSUME NEW i \in 1 .. Len(m), NEW j \in 1 .. Len(m), m[i].proc = m[j].proc
               PROVE  i = j
    BY DEF Distinct
  <2>1. CASE i = x \/ j = x
    BY <1>5, <1>x, <2>1
  <2>2. CASE i # x /\ j # x
    <3>1. PICK a \in 1 .. Len(l) : Skip(x, a) = i
      BY <1>4, <2>2
    <3>2. PICK b \in 1 .. Len(l) : Skip(x, b) = j
      BY <1>4, <2>2
    <3>3. l[a].proc = l[b].proc
      BY <1>3, <3>1, <3>2
    <3> QED BY <3>1, <3>2, <3>3 DEF Distinct
  <2> QED BY <2>1, <2>2
<1>7. OwnersOf(m) = OwnersOf(l) \cup {p}
  <2>1. OwnersOf(m) \subseteq OwnersOf(l) \cup {p}
    BY <1>5, <1>x DEF OwnersOf
  <2>2. p \in OwnersOf(m)
    BY <1>x DEF OwnersOf
  <2>3. OwnersOf(l) \subseteq OwnersOf(m)
    <3> SUFFICES ASSUME NEW k \in 1 .. Len(l) PROVE l[k].proc \in OwnersOf(m)
      BY DEF OwnersOf
    <3> QED BY <1>1, <1>3 DEF OwnersOf
  <2> QED BY <2>1, <2>2, <2>3
<1> DEFINE f == [q \in OwnersOf(l) \cup {p} |-> IF q = p THEN e ELSE DueOf(l)[q]]
<1>8. ASSUME NEW j \in 1 .. Len(m) PROVE f[m[j].proc] = Sums(m)[j]
  <2>1. CASE j = x
    BY <1>x, <2>1
  <2>2. CASE j # x
    <3>1. PICK k \in 1 .. Len(l) : Skip(x, k) = j
      BY <1>4, <2>2
    <3>2. m[j].proc = l[k].proc /\ Sums(m)[j] = Sums(l)[k]
      BY <1>3, <3>1
    <3>3. l[k].proc \in OwnersOf(l) /\ l[k].proc # p
      BY DEF OwnersOf
    <3>4. f[m[j].proc] = DueOf(l)[l[k].proc]
      BY <3>2, <3>3
    <3> QED BY <3>2, <3>4, DueAt
  <2> QED BY <2>1, <2>2
<1>9. f = [q \in OwnersOf(m) |-> f[q]]
  BY <1>7
<1> HIDE DEF f
<1>10. DueOf(m) = f
  BY <1>6, <1>8, <1>9, DueEquals
<1> QED BY <1>6, <1>7, <1>10 DEF f, DueWith
-----------------------------------------------------------------------------
\* A function on 1 .. n with values in S is a sequence.
LEMMA FunctionIsList ==
  ASSUME NEW n \in Nat, NEW f, f = [k \in 1 .. n |-> f[k]],
         \A k \in 1 .. n : f[k] \in [proc : Sleeper, expires : Nat]
  PROVE  f \in Timers /\ Len(f) = n
<1> DEFINE S == [proc : Sleeper, expires : Nat]
<1>1. \A k \in 1 .. n : f[k] \in S
  OBVIOUS
<1> HIDE DEF S
<1>2. f \in Seq(S) /\ Len(f) = n
  BY <1>1
<1> QED BY <1>2 DEF S, Timers

\* add_timer: the new timer gets the deadline e and the others keep theirs.
LEMMA AddTimerDue ==
  ASSUME timers \in Timers, Distinct(timers), NEW p \in Sleeper, p \notin Owners,
         NEW e \in Nat, AddTimer(p, e)
  PROVE  /\ timers' \in Timers /\ Distinct(timers')
         /\ due' = [q \in Owners \cup {p} |-> IF q = p THEN e ELSE due[q]]
         /\ Len(timers') > 0
         /\ timers'[1].expires = e \/ (Len(timers) > 0 /\ timers'[1] = timers[1])
<1> DEFINE l == timers
           m == timers'
           n == Len(timers)
           s == Sums(timers)
           x == InsertPos(timers, e)
           d == Left(timers, e)[x]
<1>1. /\ n \in Nat /\ s \in [0 .. n -> Nat] /\ s[0] = 0
      /\ \A k \in 1 .. n : s[k] = s[k - 1] + l[k].expires
  BY SumsDef, ListFields DEF SumsUpTo
<1>2. \A k \in 1 .. n : /\ l[k] \in [proc : Sleeper, expires : Nat]
                         /\ l[k].expires \in Nat /\ l[k].proc \in Sleeper
  BY ListFields
<1>3. x \in 1 .. n + 1 /\ s[x - 1] <= e /\ (x <= n => e < s[x])
  BY InsertPosIs
<1>4. d = e - s[x - 1]
  BY <1>3, LeftIs
<1>5. m = [k \in 1 .. n + 1 |->
             IF k < x THEN l[k]
             ELSE IF k = x THEN [proc |-> p, expires |-> d]
             ELSE IF k = x + 1 THEN [l[x] EXCEPT !.expires = @ - d]
             ELSE l[k - 1]]
  BY DEF AddTimer, InsertBefore
<1> HIDE DEF l, m, n, s, x, d
<1>6. x - 1 \in 0 .. n /\ s[x - 1] \in Nat /\ d \in Nat
  <2>1. x - 1 \in 0 .. n
    BY <1>1, <1>3
  <2> QED BY <1>1, <1>3, <1>4, <2>1
<1>7. /\ \A k \in 1 .. n + 1 : k < x => m[k] = l[k] /\ k \in 1 .. n
      /\ m[x] = [proc |-> p, expires |-> d]
      /\ \A k \in 1 .. n + 1 : k > x + 1 => m[k] = l[k - 1] /\ k - 1 \in 1 .. n
  BY <1>1, <1>3, <1>5
<1>8. ASSUME x <= n
      PROVE  /\ x + 1 \in 1 .. n + 1 /\ x \in 1 .. n
             /\ m[x + 1] = [proc |-> l[x].proc, expires |-> l[x].expires - d]
             /\ l[x].expires - d \in Nat
  <2>1. x + 1 \in 1 .. n + 1 /\ x \in 1 .. n
    BY <1>1, <1>3, <1>8
  <2>2. l[x] \in [proc : Sleeper, expires : Nat]
    BY <1>2, <2>1
  <2>3. m[x + 1] = [l[x] EXCEPT !.expires = l[x].expires - d]
    BY <1>1, <1>3, <1>5, <2>1
  <2>4. [l[x] EXCEPT !.expires = l[x].expires - d] = [proc |-> l[x].proc, expires |-> l[x].expires - d]
    BY <2>2
  <2>5. s[x] = s[x - 1] + l[x].expires /\ s[x] \in Nat /\ l[x].expires \in Nat
    BY <1>1, <1>2, <2>1
  <2>6. l[x].expires - d \in Nat
    BY <1>3, <1>4, <1>6, <1>8, <2>5
  <2> QED BY <2>1, <2>3, <2>4, <2>6
<1>9. ASSUME NEW k \in 1 .. n + 1 PROVE m[k] \in [proc : Sleeper, expires : Nat]
  <2>1. CASE k < x
    BY <1>2, <1>7, <2>1
  <2>2. CASE k = x
    BY <1>6, <1>7, <2>2
  <2>3. CASE k = x + 1
    <3>1. x <= n
      BY <1>1, <1>3, <2>3
    <3>2. l[x].proc \in Sleeper
      BY <1>2, <1>8, <3>1
    <3> QED BY <1>8, <2>3, <3>1, <3>2
  <2>4. CASE k > x + 1
    BY <1>2, <1>7, <2>4
  <2> QED BY <1>3, <2>1, <2>2, <2>3, <2>4
<1>10. m \in Timers /\ Len(m) = n + 1
  <2>1. m = [k \in 1 .. n + 1 |-> m[k]] /\ n + 1 \in Nat
    BY <1>1, <1>5
  <2> QED BY <1>9, <2>1, FunctionIsList
<1> DEFINE g == [k \in 0 .. n + 1 |-> IF k < x THEN s[k] ELSE IF k = x THEN e ELSE s[k - 1]]
<1>11. /\ \A k \in 0 .. n + 1 : k < x => g[k] = s[k] /\ k \in 0 .. n
       /\ g[x] = e
       /\ \A k \in 0 .. n + 1 : k > x => g[k] = s[k - 1] /\ k - 1 \in 0 .. n
       /\ g = [k \in 0 .. n + 1 |-> g[k]]
  BY <1>1, <1>3
<1> HIDE DEF g
<1>12. SumsUpTo(m, g, Len(m))
  <2>1. g \in [0 .. n + 1 -> Nat]
    <3>1. ASSUME NEW k \in 0 .. n + 1 PROVE g[k] \in Nat
      <4>1. CASE k < x BY <1>1, <1>11, <4>1
      <4>2. CASE k = x BY <1>11, <4>2
      <4>3. CASE k > x BY <1>1, <1>11, <4>3
      <4> QED BY <1>3, <4>1, <4>2, <4>3
    <3> QED BY <1>11, <3>1
  <2>2. g[0] = 0
    BY <1>1, <1>3, <1>11
  <2>3. ASSUME NEW k \in 1 .. n + 1 PROVE g[k] = g[k - 1] + m[k].expires
    <3>0. k - 1 \in 0 .. n + 1
      BY <1>1
    <3>1. CASE k < x
      <4>1. k \in 1 .. n /\ m[k] = l[k] /\ g[k] = s[k] /\ g[k - 1] = s[k - 1]
        BY <1>3, <1>7, <1>11, <3>0, <3>1
      <4> QED BY <1>1, <4>1
    <3>2. CASE k = x
      <4>1. g[k - 1] = s[x - 1] /\ m[k].expires = d /\ g[k] = e
        BY <1>3, <1>7, <1>11, <3>0, <3>2
      <4> QED BY <1>4, <1>6, <4>1
    <3>3. CASE k = x + 1
      <4>1. x <= n /\ (x + 1) - 1 = x
        BY <1>1, <1>3, <3>3
      <4>2. g[k] = s[x] /\ g[k - 1] = e
        BY <1>3, <1>11, <3>3, <4>1
      <4>3. m[k].expires = l[x].expires - d
        BY <1>8, <3>3, <4>1
      <4>4. l[x].expires \in Nat /\ s[x] = s[x - 1] + l[x].expires
        BY <1>1, <1>2, <1>8, <4>1
      <4> QED BY <1>4, <1>6, <4>2, <4>3, <4>4
    <3>4. CASE k > x + 1
      <4>1. k - 1 \in 1 .. n /\ m[k] = l[k - 1] /\ g[k] = s[k - 1]
        BY <1>3, <1>7, <1>11, <3>4
      <4>2. g[k - 1] = s[(k - 1) - 1]
        BY <1>3, <1>11, <3>0, <3>4
      <4> QED BY <1>1, <4>1, <4>2
    <3> QED BY <1>3, <3>1, <3>2, <3>3, <3>4
  <2> QED BY <1>10, <2>1, <2>2, <2>3 DEF SumsUpTo
<1>13. Sums(m) = g
  BY <1>10, <1>12, SumsUnique
<1>14. ASSUME NEW k \in 1 .. n
       PROVE  m[Skip(x, k)].proc = l[k].proc /\ g[Skip(x, k)] = s[k]
  <2>1. CASE k < x
    <3>1. Skip(x, k) = k /\ k \in 1 .. n + 1 /\ k \in 0 .. n + 1
      BY <1>1, <2>1 DEF Skip
    <3> QED BY <1>7, <1>11, <2>1, <3>1
  <2>2. CASE k = x
    <3>1. x <= n /\ k + 1 \in 0 .. n + 1 /\ k + 1 > x /\ (k + 1) - 1 = k /\ ~(k < x)
      BY <1>1, <1>3, <2>2
    <3>2. m[k + 1].proc = l[k].proc
      BY <1>8, <2>2, <3>1
    <3> QED BY <1>11, <3>1, <3>2 DEF Skip
  <2>3. CASE k > x
    <3>1. k + 1 \in 1 .. n + 1 /\ k + 1 > x + 1 /\ (k + 1) - 1 = k /\ ~(k < x)
          /\ k + 1 \in 0 .. n + 1 /\ k + 1 > x
      BY <1>1, <1>3, <2>3
    <3> QED BY <1>7, <1>11, <3>1 DEF Skip
  <2> QED BY <1>3, <2>1, <2>2, <2>3
<1>15. Distinct(m) /\ DueOf(m) = DueWith(l, p, e)
  <2>1. m[x].proc = p /\ Sums(m)[x] = e
    BY <1>7, <1>11, <1>13
  <2>2. Distinct(l) /\ p \notin OwnersOf(l)
    BY DueIs DEF l
  <2>3. Len(l) = n /\ Sums(l) = s
    BY DEF l, n, s
  <2>4. \A k \in 1 .. Len(l) : m[Skip(x, k)].proc = l[k].proc /\ Sums(m)[Skip(x, k)] = Sums(l)[k]
    BY <1>13, <1>14, <2>3
  <2>5. Len(l) \in Nat /\ x \in 1 .. Len(l) + 1 /\ Len(m) = Len(l) + 1
    BY <1>1, <1>3, <1>10, <2>3
  <2>6. Inserted(l, m, x, p, e)
    BY <2>1, <2>4, <2>5 DEF Inserted
  <2> QED BY <2>2, <2>6, DueInsert
<1>16. due' = DueOf(m) /\ due = DueOf(l) /\ Owners = OwnersOf(l)
  BY DueIs DEF l, m, due, Deadline, DueOf, Owners, OwnersOf, Sums
<1>17. m[1].expires = e \/ (n > 0 /\ m[1] = l[1])
  <2>1. CASE x = 1
    <3>1. d = e
      BY <1>1, <1>4, <2>1
    <3> QED BY <1>7, <2>1, <3>1
  <2>2. CASE x # 1
    <3>1. 1 \in 1 .. n + 1 /\ 1 < x
      BY <1>1, <1>3, <2>2
    <3> QED BY <1>1, <1>7, <3>1
  <2> QED BY <2>1, <2>2
<1>18. DueWith(l, p, e) = [q \in Owners \cup {p} |-> IF q = p THEN e ELSE due[q]]
  BY <1>16 DEF DueWith
<1> QED BY <1>1, <1>10, <1>15, <1>16, <1>17, <1>18 DEF l, m, n

\* del_timer: the timer of p goes and the others keep their deadlines.
LEMMA DelTimerDue ==
  ASSUME timers \in Timers, Distinct(timers), NEW p, p \in Owners, DelTimer(p)
  PROVE  /\ timers' \in Timers /\ Distinct(timers')
         /\ due' = [q \in Owners \ {p} |-> due[q]]
         /\ Len(timers') > 0 => timers'[1].expires >= timers[1].expires
<1> DEFINE l == timers
           m == timers'
           n == Len(timers)
           s == Sums(timers)
           x == CHOOSE i \in 1 .. Len(timers) : timers[i].proc = p
<1>1. /\ n \in Nat /\ s \in [0 .. n -> Nat] /\ s[0] = 0
      /\ \A k \in 1 .. n : s[k] = s[k - 1] + l[k].expires
  BY SumsDef, ListFields DEF SumsUpTo
<1>2. \A k \in 1 .. n : /\ l[k] \in [proc : Sleeper, expires : Nat]
                         /\ l[k].expires \in Nat /\ l[k].proc \in Sleeper
  BY ListFields
<1>3. x \in 1 .. n /\ l[x].proc = p
  <2>1. PICK i \in 1 .. Len(timers) : timers[i].proc = p
    BY DEF Owners
  <2> QED BY <2>1
<1>4. m = [k \in 1 .. n - 1 |->
             IF k < x THEN l[k]
             ELSE IF k = x THEN [l[k + 1] EXCEPT !.expires = @ + l[x].expires]
             ELSE l[k + 1]]
  BY DEF DelTimer, RemoveAndOwe
<1> HIDE DEF l, m, n, s, x
<1>5. /\ n - 1 \in Nat /\ l[x].expires \in Nat
      /\ \A k \in 1 .. n - 1 : k < x => m[k] = l[k] /\ k \in 1 .. n
      /\ \A k \in 1 .. n - 1 : k > x => m[k] = l[k + 1] /\ k + 1 \in 1 .. n
  BY <1>1, <1>2, <1>3, <1>4
<1>6. ASSUME x \in 1 .. n - 1
      PROVE  /\ x + 1 \in 1 .. n /\ l[x + 1].expires \in Nat /\ l[x + 1].proc \in Sleeper
             /\ m[x] = [proc |-> l[x + 1].proc, expires |-> l[x + 1].expires + l[x].expires]
  <2>1. x + 1 \in 1 .. n
    BY <1>1, <1>6
  <2>2. l[x + 1] \in [proc : Sleeper, expires : Nat]
    BY <1>2, <2>1
  <2>3. m[x] = [l[x + 1] EXCEPT !.expires = l[x + 1].expires + l[x].expires]
    BY <1>1, <1>4, <1>6
  <2> QED BY <2>1, <2>2, <2>3
<1>7. ASSUME NEW k \in 1 .. n - 1 PROVE m[k] \in [proc : Sleeper, expires : Nat]
  <2>1. CASE k < x
    BY <1>2, <1>5, <2>1
  <2>2. CASE k = x
    BY <1>5, <1>6, <2>2
  <2>3. CASE k > x
    BY <1>2, <1>5, <2>3
  <2> QED BY <1>3, <2>1, <2>2, <2>3
<1>8. m \in Timers /\ Len(m) = n - 1
  <2>1. m = [k \in 1 .. n - 1 |-> m[k]]
    BY <1>4
  <2> QED BY <1>5, <1>7, <2>1, FunctionIsList
<1> DEFINE g == [k \in 0 .. n - 1 |-> IF k < x THEN s[k] ELSE s[k + 1]]
<1>9. /\ \A k \in 0 .. n - 1 : k < x => g[k] = s[k] /\ k \in 0 .. n
      /\ \A k \in 0 .. n - 1 : k >= x => g[k] = s[k + 1] /\ k + 1 \in 1 .. n
      /\ g = [k \in 0 .. n - 1 |-> g[k]]
  BY <1>1, <1>3
<1> HIDE DEF g
<1>10. SumsUpTo(m, g, Len(m))
  <2>1. g \in [0 .. n - 1 -> Nat]
    <3>1. ASSUME NEW k \in 0 .. n - 1 PROVE g[k] \in Nat
      <4>1. CASE k < x BY <1>1, <1>9, <4>1
      <4>2. CASE k >= x BY <1>1, <1>9, <4>2
      <4> QED BY <1>3, <4>1, <4>2
    <3> QED BY <1>9, <3>1
  <2>2. g[0] = 0
    BY <1>1, <1>3, <1>5, <1>9
  <2>3. ASSUME NEW k \in 1 .. n - 1 PROVE g[k] = g[k - 1] + m[k].expires
    <3>0. k - 1 \in 0 .. n - 1 /\ k \in 0 .. n - 1
      BY <1>5
    <3>1. CASE k < x
      <4>1. k \in 1 .. n /\ m[k] = l[k] /\ g[k] = s[k] /\ g[k - 1] = s[k - 1]
        BY <1>3, <1>5, <1>9, <3>0, <3>1
      <4> QED BY <1>1, <4>1
    <3>2. CASE k = x
      <4>1. g[k] = s[x + 1] /\ g[k - 1] = s[x - 1]
        BY <1>3, <1>9, <3>0, <3>2
      <4>2. m[k].expires = l[x + 1].expires + l[x].expires /\ l[x + 1].expires \in Nat
        BY <1>6, <3>2
      <4>3. x + 1 \in 1 .. n /\ (x + 1) - 1 = x
        BY <1>1, <1>3, <3>2
      <4>4. s[x + 1] = s[x] + l[x + 1].expires
        BY <1>1, <4>3
      <4>5. s[x] = s[x - 1] + l[x].expires /\ x - 1 \in 0 .. n
        BY <1>1, <1>3
      <4>6. s[x - 1] \in Nat
        BY <1>1, <4>5
      <4> QED BY <1>5, <4>1, <4>2, <4>4, <4>5, <4>6
    <3>3. CASE k > x
      <4>1. k + 1 \in 1 .. n /\ m[k] = l[k + 1] /\ g[k] = s[k + 1] /\ (k + 1) - 1 = k
        BY <1>3, <1>5, <1>9, <3>0, <3>3
      <4>2. g[k - 1] = s[(k - 1) + 1] /\ (k - 1) + 1 = k
        BY <1>3, <1>9, <3>0, <3>3
      <4>3. s[k + 1] = s[k] + l[k + 1].expires
        BY <1>1, <4>1
      <4> QED BY <4>1, <4>2, <4>3
    <3> QED BY <1>3, <3>1, <3>2, <3>3
  <2> QED BY <1>8, <2>1, <2>2, <2>3 DEF SumsUpTo
<1>11. Sums(m) = g
  BY <1>8, <1>10, SumsUnique
<1>12. ASSUME NEW k \in 1 .. n - 1
       PROVE  m[k].proc = l[Skip(x, k)].proc /\ g[k] = s[Skip(x, k)]
  <2>0. k \in 0 .. n - 1
    BY <1>5
  <2>1. CASE k < x
    BY <1>5, <1>9, <2>0, <2>1 DEF Skip
  <2>2. CASE k = x
    <3>1. m[k].proc = l[k + 1].proc /\ Skip(x, k) = k + 1
      BY <1>3, <1>6, <2>2 DEF Skip
    <3> QED BY <1>3, <1>9, <2>0, <2>2, <3>1
  <2>3. CASE k > x
    BY <1>3, <1>5, <1>9, <2>0, <2>3 DEF Skip
  <2> QED BY <1>3, <2>1, <2>2, <2>3
<1>13. Distinct(m) /\ DueOf(m) = DueWithout(l, p)
  <2>1. Len(l) = n /\ Sums(l) = s /\ Distinct(l)
    BY DEF l, n, s
  <2>2. \A k \in 1 .. Len(m) : m[k].proc = l[Skip(x, k)].proc /\ Sums(m)[k] = Sums(l)[Skip(x, k)]
    BY <1>8, <1>11, <1>12, <2>1
  <2>3. Removed(l, m, x)
    BY <1>1, <1>3, <1>8, <2>1, <2>2 DEF Removed
  <2> QED BY <1>3, <2>1, <2>3, DueRemove
<1>14. due' = DueOf(m) /\ due = DueOf(l) /\ Owners = OwnersOf(l)
  BY DueIs DEF l, m, due, Deadline, DueOf, Owners, OwnersOf, Sums
<1>15. DueWithout(l, p) = [q \in Owners \ {p} |-> due[q]]
  BY <1>14 DEF DueWithout
<1>16. ASSUME Len(m) > 0 PROVE m[1].expires >= l[1].expires
  <2>1. 1 \in 1 .. n - 1 /\ 1 \in 1 .. n
    BY <1>1, <1>5, <1>8, <1>16
  <2>2. CASE x = 1
    BY <1>2, <1>6, <2>1, <2>2
  <2>3. CASE x # 1
    <3>1. m[1] = l[1]
      BY <1>3, <1>5, <2>1, <2>3
    <3> QED BY <1>2, <2>1, <3>1
  <2> QED BY <2>2, <2>3
<1> QED BY <1>8, <1>13, <1>14, <1>15, <1>16 DEF l, m

\* The tick of run_timer_list: the difference at the head, and with it every
\* deadline, is one less.
LEMMA TimerTickDue ==
  ASSUME timers \in Timers, Distinct(timers), TimerTick,
         Len(timers) > 0 => timers[1].expires > 0
  PROVE  /\ timers' \in Timers /\ Distinct(timers') /\ Len(timers') = Len(timers)
         /\ Len(timers) > 0 => timers'[1].expires = timers[1].expires - 1
         /\ due' = [q \in Owners |-> due[q] - 1]
<1> DEFINE l == timers
           m == timers'
           n == Len(timers)
           s == Sums(timers)
<1>1. /\ n \in Nat /\ s \in [0 .. n -> Nat] /\ s[0] = 0
      /\ \A k \in 1 .. n : s[k] = s[k - 1] + l[k].expires
  BY SumsDef, ListFields DEF SumsUpTo
<1>2. \A k \in 1 .. n : /\ l[k] \in [proc : Sleeper, expires : Nat]
                         /\ l[k].expires \in Nat /\ l[k].proc \in Sleeper
  BY ListFields
<1>3. m = [k \in 1 .. n |-> IF k = 1 THEN [l[1] EXCEPT !.expires = @ - 1] ELSE l[k]]
  BY DEF TimerTick
<1>4. \A k \in 1 .. n : s[k] >= l[1].expires
  <2>1. CASE n > 0
    BY <2>1, SumsGrow
  <2>2. CASE n = 0
    BY <2>2
  <2> QED BY <1>1, <2>1, <2>2
<1>5. n > 0 => l[1].expires > 0
  OBVIOUS
<1> HIDE DEF l, m, n, s
<1>6. \A k \in 1 .. n : k # 1 => m[k] = l[k]
  BY <1>3
<1>7. ASSUME n > 0 PROVE m[1] = [proc |-> l[1].proc, expires |-> l[1].expires - 1] /\ 1 \in 1 .. n
  <2>1. 1 \in 1 .. n
    BY <1>1, <1>7
  <2>2. l[1] \in [proc : Sleeper, expires : Nat]
    BY <1>2, <2>1
  <2>3. m[1] = [l[1] EXCEPT !.expires = l[1].expires - 1]
    BY <1>3, <2>1
  <2> QED BY <2>1, <2>2, <2>3
<1>8. \A k \in 1 .. n : n > 0
  BY <1>1
<1>9. ASSUME NEW k \in 1 .. n PROVE m[k] \in [proc : Sleeper, expires : Nat] /\ m[k].proc = l[k].proc
  <2>1. CASE k = 1
    <3>1. l[1].proc \in Sleeper /\ l[1].expires - 1 \in Nat
      BY <1>2, <1>5, <1>8, <2>1
    <3> QED BY <1>7, <1>8, <2>1, <3>1
  <2>2. CASE k # 1
    BY <1>2, <1>6, <2>2
  <2> QED BY <2>1, <2>2
<1>10. m \in Timers /\ Len(m) = n
  <2>1. m = [k \in 1 .. n |-> m[k]]
    BY <1>3
  <2> QED BY <1>1, <1>9, <2>1, FunctionIsList
<1> DEFINE g == [k \in 0 .. n |-> IF k = 0 THEN 0 ELSE s[k] - 1]
<1>11. g[0] = 0 /\ \A k \in 1 .. n : g[k] = s[k] - 1 /\ k \in 0 .. n
  BY <1>1
<1>d. g = [k \in 0 .. n |-> g[k]]
  OBVIOUS
<1> HIDE DEF g
<1>12. SumsUpTo(m, g, Len(m))
  <2>1. ASSUME NEW k \in 1 .. n PROVE g[k] \in Nat
    <3>1. l[1].expires \in Nat /\ l[1].expires > 0 /\ s[k] >= l[1].expires
      BY <1>2, <1>4, <1>5, <1>7, <1>8
    <3>2. s[k] \in Nat
      BY <1>1, <1>11
    <3> QED BY <1>11, <3>1, <3>2
  <2>2. g \in [0 .. n -> Nat]
    <3>1. \A k \in 0 .. n : k = 0 \/ k \in 1 .. n
      BY <1>1
    <3>2. \A k \in 0 .. n : g[k] \in Nat
      BY <1>11, <2>1, <3>1
    <3> QED BY <1>d, <3>2
  <2>3. ASSUME NEW k \in 1 .. n PROVE g[k] = g[k - 1] + m[k].expires
    <3>1. CASE k = 1
      <4>1. s[1] = 0 + l[1].expires /\ m[1].expires = l[1].expires - 1 /\ l[1].expires \in Nat
        BY <1>1, <1>2, <1>7, <1>8, <3>1
      <4>2. g[1] = s[1] - 1 /\ g[k - 1] = 0
        BY <1>7, <1>8, <1>11, <3>1
      <4> QED BY <3>1, <4>1, <4>2
    <3>2. CASE k # 1
      <4>1. k - 1 \in 1 .. n /\ k - 1 \in 0 .. n
        BY <1>1, <3>2
      <4>2. g[k] = s[k] - 1 /\ g[k - 1] = s[k - 1] - 1
        BY <1>11, <4>1
      <4>3. s[k] = s[k - 1] + l[k].expires /\ s[k - 1] \in Nat /\ l[k].expires \in Nat
        BY <1>1, <1>2, <4>1
      <4> QED BY <1>6, <3>2, <4>2, <4>3
    <3> QED BY <3>1, <3>2
  <2> QED BY <1>10, <1>11, <2>2, <2>3 DEF SumsUpTo
<1>13. Sums(m) = g
  BY <1>10, <1>12, SumsUnique
<1>14. Len(l) = n /\ Sums(l) = s /\ Distinct(l)
  BY DEF l, n, s
<1>15. Distinct(m) /\ OwnersOf(m) = OwnersOf(l)
  BY <1>9, <1>10, <1>14 DEF Distinct, OwnersOf
<1> DEFINE f == [q \in OwnersOf(l) |-> DueOf(l)[q] - 1]
<1>16. ASSUME NEW k \in 1 .. Len(m) PROVE f[m[k].proc] = Sums(m)[k]
  <2>1. k \in 1 .. n /\ k \in 1 .. Len(l)
    BY <1>10, <1>14, <1>16
  <2>2. m[k].proc = l[k].proc /\ l[k].proc \in OwnersOf(l)
    BY <1>9, <2>1 DEF OwnersOf
  <2>3. DueOf(l)[l[k].proc] = s[k]
    BY <1>14, <2>1, DueAt
  <2> QED BY <1>11, <1>13, <2>1, <2>2, <2>3
<1>17. f = [q \in OwnersOf(m) |-> f[q]]
  BY <1>15
<1> HIDE DEF f
<1>18. DueOf(m) = f
  BY <1>15, <1>16, <1>17, DueEquals
<1>19. due' = DueOf(m) /\ due = DueOf(l) /\ Owners = OwnersOf(l)
  BY DueIs DEF l, m, due, Deadline, DueOf, Owners, OwnersOf, Sums
<1>20. f = [q \in Owners |-> due[q] - 1]
  BY <1>19 DEF f
<1> QED BY <1>7, <1>10, <1>15, <1>18, <1>19, <1>20 DEF l, m, n

\* An iteration of run_timer_list: the head has expired, and goes.
LEMMA FireHeadDue ==
  ASSUME timers \in Timers, Distinct(timers), Len(timers) > 0, timers[1].expires = 0,
         timers' = Tail(timers)
  PROVE  /\ timers' \in Timers /\ Distinct(timers')
         /\ timers[1].proc \in Owners /\ due[timers[1].proc] = 0
         /\ due' = [q \in Owners \ {timers[1].proc} |-> due[q]]
<1> DEFINE l == timers
           m == timers'
           n == Len(timers)
           s == Sums(timers)
<1>1. /\ n \in Nat /\ s \in [0 .. n -> Nat] /\ s[0] = 0 /\ n > 0 /\ 1 \in 1 .. n
      /\ \A k \in 1 .. n : s[k] = s[k - 1] + l[k].expires
  BY SumsDef, ListFields DEF SumsUpTo
<1>2. \A k \in 1 .. n : /\ l[k] \in [proc : Sleeper, expires : Nat]
                         /\ l[k].expires \in Nat /\ l[k].proc \in Sleeper
  BY ListFields
<1>3. m \in Timers /\ Len(m) = n - 1 /\ \A k \in 1 .. n - 1 : m[k] = l[k + 1]
  <2> DEFINE R == [proc : Sleeper, expires : Nat]
  <2>1. l \in Seq(R) /\ l # <<>>
    BY DEF Timers
  <2> HIDE DEF R
  <2>2. Tail(l) \in Seq(R) /\ Len(Tail(l)) = n - 1 /\ \A k \in 1 .. n - 1 : Tail(l)[k] = l[k + 1]
    BY <2>1
  <2> QED BY <2>2 DEF R, Timers
<1>4. s[1] = 0
  BY <1>1
<1> HIDE DEF l, m, n, s
<1> DEFINE g == [k \in 0 .. n - 1 |-> s[k + 1]]
<1>5. \A k \in 0 .. n - 1 : g[k] = s[k + 1] /\ k + 1 \in 1 .. n
  BY <1>1
<1>d. g = [k \in 0 .. n - 1 |-> g[k]]
  OBVIOUS
<1> HIDE DEF g
<1>6. SumsUpTo(m, g, Len(m))
  <2>1. g \in [0 .. n - 1 -> Nat]
    <3>0. \A k \in 1 .. n : s[k] \in Nat
      BY <1>1
    <3>1. \A k \in 0 .. n - 1 : g[k] \in Nat
      BY <1>5, <3>0
    <3> QED BY <1>d, <3>1
  <2>2. g[0] = 0
    <3>1. 0 \in 0 .. n - 1 /\ 0 + 1 = 1
      BY <1>1
    <3> QED BY <1>4, <1>5, <3>1
  <2>3. ASSUME NEW k \in 1 .. n - 1 PROVE g[k] = g[k - 1] + m[k].expires
    <3>1. k \in 0 .. n - 1 /\ k - 1 \in 0 .. n - 1 /\ (k - 1) + 1 = k /\ (k + 1) - 1 = k
      BY <1>1
    <3>2. g[k] = s[k + 1] /\ g[k - 1] = s[k] /\ k + 1 \in 1 .. n
      BY <1>5, <3>1
    <3> QED BY <1>1, <1>3, <3>1, <3>2
  <2> QED BY <1>3, <2>1, <2>2, <2>3 DEF SumsUpTo
<1>7. Sums(m) = g
  BY <1>3, <1>6, SumsUnique
<1>8. Distinct(m) /\ DueOf(m) = DueWithout(l, l[1].proc) /\ DueOf(l)[l[1].proc] = 0
  <2>1. Len(l) = n /\ Sums(l) = s /\ Distinct(l)
    BY DEF l, n, s
  <2>2. \A k \in 1 .. n - 1 : Skip(1, k) = k + 1 /\ k \in 0 .. n - 1
    BY <1>1 DEF Skip
  <2>r. \A k \in 1 .. n - 1 : m[k].proc = l[Skip(1, k)].proc /\ g[k] = s[Skip(1, k)]
    BY <1>3, <1>5, <2>2
  <2>3. Removed(l, m, 1)
    BY <1>1, <1>3, <1>7, <2>1, <2>r DEF Removed
  <2>4. Distinct(m) /\ DueOf(m) = DueWithout(l, l[1].proc)
    BY <2>1, <2>3, DueRemove
  <2> QED BY <1>1, <1>4, <2>1, <2>4, DueAt
<1>9. due' = DueOf(m) /\ due = DueOf(l) /\ Owners = OwnersOf(l)
  BY DueIs DEF l, m, due, Deadline, DueOf, Owners, OwnersOf, Sums
<1>10. DueWithout(l, l[1].proc) = [q \in Owners \ {l[1].proc} |-> due[q]]
  BY <1>9 DEF DueWithout
<1>11. l[1].proc \in OwnersOf(l)
  BY <1>1 DEF OwnersOf, l, n
<1> QED BY <1>3, <1>8, <1>9, <1>10, <1>11 DEF l, m

-----------------------------------------------------------------------------
\* What run_timer_list, add_timer and del_timer keep true of the list: the head
\* has not expired, except while run_timer_list is about to take it out.
TimersExact ==
  /\ timers \in Timers /\ Distinct(timers)
  /\ irq # "fire" /\ Len(timers) > 0 => timers[1].expires > 0
  /\ irq = "fire" => Len(timers) > 0 /\ timers[1].expires = 0

LEMMA NoneHasExpired ==
  ASSUME TimersExact, irq # "fire"
  PROVE  TS!NoneExpired /\ DOMAIN due = Owners
<1>1. DOMAIN due = Owners
  BY DEF due
<1>2. ASSUME NEW p \in Owners PROVE due[p] > 0
  <2>1. PICK k \in 1 .. Len(timers) : timers[k].proc = p
    BY DEF Owners
  <2>2. due[p] = Sums(timers)[k]
    BY <2>1, DueIs, DueAt DEF TimersExact
  <2>3. Len(timers) \in Nat /\ Len(timers) > 0 /\ timers[1].expires \in Nat
    BY ListFields DEF TimersExact
  <2>4. Sums(timers)[k] >= timers[1].expires /\ Sums(timers)[k] \in Nat
    BY <2>3, SumsGrow, SumsDef DEF TimersExact, SumsUpTo
  <2> QED BY <2>2, <2>3, <2>4 DEF TimersExact
<1> QED BY <1>1, <1>2 DEF TS!NoneExpired

\* The steps of the list, as steps of TimerSpec.
LEMMA AddTimerStep ==
  ASSUME TimersExact, irq = "none", irq' = irq, NEW p \in Sleeper, p \notin Owners,
         NEW e \in 1 .. MaxSleep, AddTimer(p, e)
  PROVE  TimersExact' /\ Owners' = Owners \cup {p} /\ TS!Add(p, e)
<1>1. timers \in Timers /\ Distinct(timers) /\ e \in Nat /\ e > 0
  BY TimerAssumption DEF TimersExact
<1>2. /\ timers' \in Timers /\ Distinct(timers')
      /\ due' = [q \in Owners \cup {p} |-> IF q = p THEN e ELSE due[q]]
      /\ timers'[1].expires = e \/ (Len(timers) > 0 /\ timers'[1] = timers[1])
  BY <1>1, AddTimerDue
<1>3. timers'[1].expires > 0
  BY <1>1, <1>2 DEF TimersExact
<1>4. TimersExact'
  BY <1>2, <1>3 DEF TimersExact
<1>5. DOMAIN due' = Owners'
  BY DEF due
<1>6. TS!NoneExpired /\ DOMAIN due = Owners
  BY NoneHasExpired
<1> QED BY <1>2, <1>4, <1>5, <1>6 DEF TS!Add

LEMMA DelTimerStep ==
  ASSUME TimersExact, irq = "none", irq' = irq, NEW p, DelTimer(p)
  PROVE  /\ TimersExact' /\ Owners' = Owners \ {p}
         /\ (TS!Delete(p) /\ p \in Sleeper) \/ due' = due
<1>1. CASE p \notin Owners
  <2>1. timers' = timers
    BY <1>1 DEF DelTimer
  <2> QED BY <1>1, <2>1 DEF TimersExact, Distinct, Timers, due, Deadline, Owners
<1>2. CASE p \in Owners
  <2>1. timers \in Timers /\ Distinct(timers)
    BY DEF TimersExact
  <2>2. /\ timers' \in Timers /\ Distinct(timers')
        /\ due' = [q \in Owners \ {p} |-> due[q]]
        /\ Len(timers') > 0 => timers'[1].expires >= timers[1].expires
    BY <1>2, <2>1, DelTimerDue
  <2>3. PICK k \in 1 .. Len(timers) : timers[k].proc = p
    BY <1>2 DEF Owners
  <2>4. p \in Sleeper /\ Len(timers) > 0 /\ timers[1].expires \in Nat
    BY <2>1, <2>3, ListFields
  <2>5. Len(timers') > 0 => timers'[1].expires > 0
    <3>1. Len(timers') > 0 => timers'[1].expires \in Nat
      BY <2>2, ListFields
    <3> QED BY <2>2, <2>4, <3>1 DEF TimersExact
  <2>6. TimersExact'
    BY <2>2, <2>5 DEF TimersExact
  <2>7. DOMAIN due' = Owners'
    BY DEF due
  <2>8. TS!NoneExpired /\ DOMAIN due = Owners
    BY NoneHasExpired
  <2> QED BY <1>2, <2>2, <2>4, <2>6, <2>7, <2>8 DEF TS!Delete
<1> QED BY <1>1, <1>2

LEMMA TimerTickStep ==
  ASSUME TimersExact, TimerTick
  PROVE  TimersExact' /\ Owners' = Owners /\ TS!Tick
<1>1. /\ timers \in Timers /\ Distinct(timers) /\ irq = "none"
      /\ Len(timers) > 0 => timers[1].expires > 0
  BY DEF TimersExact, TimerTick
<1>2. /\ timers' \in Timers /\ Distinct(timers') /\ Len(timers') = Len(timers)
      /\ Len(timers) > 0 => timers'[1].expires = timers[1].expires - 1
      /\ due' = [q \in Owners |-> due[q] - 1]
  BY <1>1, TimerTickDue
<1>3. Len(timers) > 0 => timers[1].expires \in Nat
  BY <1>1, ListFields
<1>4. irq' = IF Len(timers) > 0 /\ timers[1].expires = 1 THEN "fire" ELSE "tick"
  BY DEF TimerTick
<1>5. TimersExact'
  BY <1>1, <1>2, <1>3, <1>4 DEF TimersExact
<1>6. TS!NoneExpired /\ DOMAIN due = Owners
  BY <1>1, NoneHasExpired
<1>7. DOMAIN due' = Owners'
  BY DEF due
<1> QED BY <1>2, <1>5, <1>6, <1>7 DEF TS!Tick

LEMMA FireHeadStep ==
  ASSUME TimersExact, FireHead
  PROVE  /\ TimersExact' /\ Head(timers).proc \in Sleeper \cap Owners
         /\ Owners' = Owners \ {Head(timers).proc}
         /\ \E p \in Sleeper : TS!Expire(p)
<1> DEFINE h == timers[1].proc
<1>1. /\ timers \in Timers /\ Distinct(timers) /\ Len(timers) > 0 /\ timers[1].expires = 0
      /\ timers' = Tail(timers)
  BY DEF TimersExact, FireHead
<1>2. /\ timers' \in Timers /\ Distinct(timers') /\ h \in Owners /\ due[h] = 0
      /\ due' = [q \in Owners \ {h} |-> due[q]]
  BY <1>1, FireHeadDue
<1>3. irq' = NextIrq(timers')
  BY <1>1 DEF FireHead
<1>4. Len(timers') \in Nat /\ (Len(timers') > 0 => timers'[1].expires \in Nat)
  BY <1>2, ListFields
<1>5. TimersExact'
  BY <1>2, <1>3, <1>4 DEF TimersExact, NextIrq
<1>6. h \in Sleeper
  BY <1>1, ListFields
<1>7. DOMAIN due = Owners /\ DOMAIN due' = Owners'
  BY DEF due
<1>8. Head(timers).proc = h
  BY DEF Head
<1> HIDE DEF h
<1>9. TS!Expire(h)
  BY <1>2, <1>7 DEF TS!Expire
<1> QED BY <1>2, <1>5, <1>6, <1>7, <1>8, <1>9

\* run_timer_list returns when its head has not expired.
LEMMA TimersStutter ==
  ASSUME TimersExact, timers' = timers, irq' = "fire" <=> irq = "fire"
  PROVE  TimersExact' /\ due' = due
BY DEF TimersExact, Distinct, Timers, due, Deadline, Owners

LEMMA TimersStart == TimerInit => TimersExact /\ TS!Init
<1> SUFFICES ASSUME TimerInit PROVE TimersExact /\ TS!Init
  OBVIOUS
<1>1. timers = <<>> /\ irq = "none" /\ Len(timers) = 0
  BY DEF TimerInit
<1>2. timers \in Timers /\ Distinct(timers)
  BY <1>1 DEF Timers, Distinct
<1>3. Owners = {}
  BY <1>1 DEF Owners
<1>4. due = [p \in {} |-> 0]
  BY <1>3 DEF due
<1> QED BY <1>1, <1>2, <1>4 DEF TimersExact, TS!Init
=============================================================================
