------------------------------- MODULE Rows -------------------------------
(***************************************************************************)
(* Linked lists as rows.  A row is a sequence of distinct things; the      *)
(* lemmas say what adding at the front and taking out do to it, and to the *)
(* pointers of two lists that hold one: the circular, doubly linked list   *)
(* with a sentinel of libs/list.h, and the list of siblings that cptr,     *)
(* optr and yptr make (kern/process/proc.c).  Everything is stated of      *)
(* arbitrary pointers, so that the proofs about the process table only     *)
(* have to say which pointers a step changes.                              *)
(***************************************************************************)
EXTENDS Integers, Sequences, TLAPS

\* Rows: n distinct members of P, in an order.
Row(P, s, n) ==
  /\ n \in Nat /\ s \in [1 .. n -> P]
  /\ \A i, j \in 1 .. n : s[i] = s[j] => i = j

Members(s, n) == {s[i] : i \in 1 .. n}

\* What stands at position i of a row that has e on either side.
At(s, n, i, e) == IF i \in 1 .. n THEN s[i] ELSE e

\* Row s behind c, and without its j-th member.
Pushed(c, s, n) == [i \in 1 .. n + 1 |-> IF i = 1 THEN c ELSE s[i - 1]]
Without(s, n, j) == [i \in 1 .. n - 1 |-> IF i < j THEN s[i] ELSE s[i + 1]]

\* A row is a sequence.
LEMMA RowIsSeq ==
  ASSUME NEW P, NEW s, NEW n \in Nat, Row(P, s, n)
  PROVE  Len(s) = n
<1>1. n \in Nat /\ DOMAIN s = 1 .. n
  BY DEF Row
<1> QED BY <1>1

LEMMA RowAt ==
  ASSUME NEW P, NEW n \in Nat, NEW s, Row(P, s, n), NEW e, e \notin P
  PROVE  /\ \A i \in 1 .. n : At(s, n, i, e) = s[i] /\ s[i] \in P /\ s[i] # e
         /\ At(s, n, 0, e) = e /\ At(s, n, n + 1, e) = e
         /\ \A i, j \in 0 .. n : At(s, n, i, e) = At(s, n, j, e) => i = j
         /\ \A i, j \in 1 .. n + 1 : At(s, n, i, e) = At(s, n, j, e) => i = j
<1>1. n \in Nat /\ \A i \in 1 .. n : s[i] \in P /\ s[i] # e
  BY DEF Row
<1>2. At(s, n, 0, e) = e /\ At(s, n, n + 1, e) = e
  BY <1>1 DEF At
<1>3. \A i \in 1 .. n : At(s, n, i, e) = s[i]
  BY DEF At
<1>4. ASSUME NEW i \in 0 .. n, NEW j \in 0 .. n, At(s, n, i, e) = At(s, n, j, e)
      PROVE  i = j
  BY <1>1, <1>2, <1>3, <1>4 DEF Row
<1>5. ASSUME NEW i \in 1 .. n + 1, NEW j \in 1 .. n + 1, At(s, n, i, e) = At(s, n, j, e)
      PROVE  i = j
  BY <1>1, <1>2, <1>3, <1>5 DEF Row
<1> QED BY <1>1, <1>2, <1>3, <1>4, <1>5

LEMMA RowFront ==
  ASSUME NEW P, NEW s, NEW c, NEW n \in Nat, c \in P, Row(P, s, n), c \notin Members(s, n)
  PROVE  /\ Row(P, Pushed(c, s, n), n + 1)
         /\ Members(Pushed(c, s, n), n + 1) = Members(s, n) \cup {c}
<1> DEFINE f == Pushed(c, s, n)
<1>1. n \in Nat /\ s \in [1 .. n -> P] /\ \A i, j \in 1 .. n : s[i] = s[j] => i = j
  BY DEF Row
<1>2. n + 1 \in Nat /\ f \in [1 .. n + 1 -> P]
  BY <1>1 DEF Pushed
<1>3. f[1] = c /\ \A i \in 1 .. n : f[i + 1] = s[i] /\ i + 1 \in 1 .. n + 1
  BY <1>1 DEF Pushed
<1>4. \A i \in 1 .. n + 1 : i = 1 \/ (i - 1 \in 1 .. n /\ f[i] = s[i - 1])
  BY <1>1 DEF Pushed
<1>5. \A i \in 1 .. n : s[i] # c
  BY DEF Members
<1> HIDE DEF f
<1>6. ASSUME NEW i \in 1 .. n + 1, NEW j \in 1 .. n + 1, f[i] = f[j] PROVE i = j
  <2>1. CASE i = 1 \/ j = 1
    BY <1>3, <1>4, <1>5, <1>6, <2>1
  <2>2. CASE i # 1 /\ j # 1
    <3>1. i - 1 \in 1 .. n /\ j - 1 \in 1 .. n /\ s[i - 1] = s[j - 1]
      BY <1>4, <1>6, <2>2
    <3>2. i - 1 = j - 1
      BY <1>1, <3>1
    <3> QED BY <3>2, <1>1
  <2> QED BY <2>1, <2>2
<1>7. Row(P, f, n + 1)
  BY <1>2, <1>6 DEF Row
<1>8. Members(f, n + 1) = Members(s, n) \cup {c}
  <2>1. ASSUME NEW x \in Members(f, n + 1) PROVE x \in Members(s, n) \cup {c}
    BY <1>3, <1>4 DEF Members
  <2>2. ASSUME NEW x \in Members(s, n) PROVE x \in Members(f, n + 1)
    <3>1. PICK i \in 1 .. n : x = s[i]
      BY DEF Members
    <3>2. i + 1 \in 1 .. n + 1 /\ f[i + 1] = x
      BY <1>3, <3>1
    <3> QED BY <3>2 DEF Members
  <2>3. c \in Members(f, n + 1)
    <3>1. 1 \in 1 .. n + 1
      BY <1>1
    <3> QED BY <1>3, <3>1 DEF Members
  <2> QED BY <2>1, <2>2, <2>3
<1> QED BY <1>7, <1>8 DEF f

LEMMA RowWithout ==
  ASSUME NEW P, NEW s, NEW j, NEW n \in Nat, j \in 1 .. n, Row(P, s, n)
  PROVE  /\ Row(P, Without(s, n, j), n - 1)
         /\ Members(Without(s, n, j), n - 1) = Members(s, n) \ {s[j]}
<1> DEFINE w == Without(s, n, j)
<1>1. n \in Nat /\ s \in [1 .. n -> P] /\ \A i, k \in 1 .. n : s[i] = s[k] => i = k
  BY DEF Row
<1>2. n - 1 \in Nat /\ w \in [1 .. n - 1 -> P]
  BY <1>1 DEF Without
<1>3. \A i \in 1 .. n - 1 : i < j => w[i] = s[i] /\ i \in 1 .. n
  BY <1>1 DEF Without
<1>4. \A i \in 1 .. n - 1 : ~(i < j) => w[i] = s[i + 1] /\ i + 1 \in 1 .. n /\ i + 1 > j
  BY <1>1 DEF Without
<1> HIDE DEF w
<1>5. ASSUME NEW i \in 1 .. n - 1, NEW k \in 1 .. n - 1, w[i] = w[k] PROVE i = k
  <2>1. CASE i < j /\ k < j
    BY <1>1, <1>3, <1>5, <2>1
  <2>2. CASE ~(i < j) /\ ~(k < j)
    <3>1. i + 1 = k + 1
      BY <1>1, <1>4, <1>5, <2>2
    <3> QED BY <3>1
  <2>3. CASE i < j /\ ~(k < j)
    <3>1. i = k + 1
      BY <1>1, <1>3, <1>4, <1>5, <2>3
    <3> QED BY <2>3, <3>1
  <2>4. CASE ~(i < j) /\ k < j
    <3>1. i + 1 = k
      BY <1>1, <1>3, <1>4, <1>5, <2>4
    <3> QED BY <2>4, <3>1
  <2> QED BY <2>1, <2>2, <2>3, <2>4
<1>6. Row(P, w, n - 1)
  BY <1>2, <1>5 DEF Row
<1>7. ASSUME NEW x \in Members(w, n - 1) PROVE x \in Members(s, n) /\ x # s[j]
  <2>1. PICK i \in 1 .. n - 1 : x = w[i]
    BY DEF Members
  <2>2. CASE i < j
    BY <1>1, <1>3, <2>1, <2>2 DEF Members
  <2>3. CASE ~(i < j)
    <3>1. w[i] = s[i + 1] /\ i + 1 \in 1 .. n /\ i + 1 # j
      BY <1>4, <2>3
    <3> QED BY <1>1, <2>1, <3>1 DEF Members
  <2> QED BY <2>2, <2>3
<1>8. ASSUME NEW x \in Members(s, n), x # s[j] PROVE x \in Members(w, n - 1)
  <2>1. PICK i \in 1 .. n : x = s[i]
    BY DEF Members
  <2>2. CASE i < j
    <3>1. i \in 1 .. n - 1
      BY <1>1, <2>2
    <3> QED BY <1>3, <2>1, <2>2, <3>1 DEF Members
  <2>3. CASE i > j
    <3>1. i - 1 \in 1 .. n - 1 /\ ~(i - 1 < j) /\ (i - 1) + 1 = i
      BY <1>1, <2>3
    <3>2. w[i - 1] = s[i]
      BY <1>4, <3>1
    <3> QED BY <2>1, <3>1, <3>2 DEF Members
  <2> QED BY <1>8, <2>1, <2>2, <2>3
<1> QED BY <1>6, <1>7, <1>8 DEF w

\* The positions of the two.
LEMMA FrontAt ==
  ASSUME NEW s, NEW c, NEW e, NEW i, NEW n \in Nat, i \in 1 .. n + 1
  PROVE  At(Pushed(c, s, n), n + 1, i + 1, e) = At(s, n, i, e)
<1> DEFINE f == Pushed(c, s, n)
<1>1. \A k \in 1 .. n : f[k + 1] = s[k] /\ k + 1 \in 1 .. n + 1
  BY DEF Pushed
<1> HIDE DEF f
<1>2. CASE i \in 1 .. n
  BY <1>1, <1>2 DEF At, f
<1>3. CASE i = n + 1
  BY <1>3 DEF At
<1> QED BY <1>2, <1>3

LEMMA FrontFirst ==
  ASSUME NEW s, NEW c, NEW e, NEW n \in Nat
  PROVE  At(Pushed(c, s, n), n + 1, 0, e) = e /\ At(Pushed(c, s, n), n + 1, 1, e) = c
<1>1. Pushed(c, s, n)[1] = c
  BY DEF Pushed
<1> QED BY <1>1 DEF At

LEMMA WithoutAt ==
  ASSUME NEW n \in Nat, NEW s, NEW j \in 1 .. n, NEW e
  PROVE  /\ \A i \in 0 .. j - 1 : At(Without(s, n, j), n - 1, i, e) = At(s, n, i, e)
         /\ \A i \in j .. n : At(Without(s, n, j), n - 1, i, e) = At(s, n, i + 1, e)
<1> DEFINE w == Without(s, n, j)
<1>1. \A i \in 1 .. n - 1 : i < j => w[i] = s[i]
  BY DEF Without
<1>2. \A i \in 1 .. n - 1 : ~(i < j) => w[i] = s[i + 1] /\ i + 1 \in 1 .. n
  BY DEF Without
<1> HIDE DEF w
<1>3. ASSUME NEW i \in 0 .. j - 1 PROVE At(w, n - 1, i, e) = At(s, n, i, e)
  <2>1. i = 0 \/ (i \in 1 .. n - 1 /\ i < j /\ i \in 1 .. n)
    OBVIOUS
  <2> QED BY <1>1, <2>1 DEF At
<1>4. ASSUME NEW i \in j .. n PROVE At(w, n - 1, i, e) = At(s, n, i + 1, e)
  <2>1. CASE i = n
    BY <2>1 DEF At
  <2>2. CASE i # n
    <3>1. i \in 1 .. n - 1 /\ ~(i < j)
      BY <2>2
    <3> QED BY <1>2, <3>1 DEF At
  <2> QED BY <2>1, <2>2
<1> QED BY <1>3, <1>4 DEF w

-----------------------------------------------------------------------------
\* proc_list: the links nx and pv of a circular list that holds the row s
\* behind the sentinel.
Chain(nx, pv, h, s, n) ==
  \A i \in 0 .. n : /\ nx[At(s, n, i, h)] = At(s, n, i + 1, h)
                    /\ pv[At(s, n, i + 1, h)] = At(s, n, i, h)

\* list_add(&proc_list, c).
LEMMA ChainFront ==
  ASSUME NEW P, NEW h, NEW s, NEW nx, NEW pv, NEW nx2, NEW pv2, NEW c, NEW n \in Nat, c \in P,
         h \notin P, Row(P, s, n), Chain(nx, pv, h, s, n), c \notin Members(s, n), nx2[h] = c,
         nx2[c] = nx[h], \A x \in Members(s, n) : nx2[x] = nx[x], pv2[c] = h, pv2[nx[h]] = c,
         \A x \in Members(s, n) \cup {h} : x # nx[h] => pv2[x] = pv[x]
  PROVE  Chain(nx2, pv2, h, Pushed(c, s, n), n + 1)
<1> DEFINE f == Pushed(c, s, n)
<1>1. n \in Nat
  BY DEF Row
<1>2. /\ \A i \in 1 .. n : At(s, n, i, h) = s[i] /\ s[i] \in P /\ s[i] # h
      /\ At(s, n, 0, h) = h /\ At(s, n, n + 1, h) = h
      /\ \A i, j \in 1 .. n + 1 : At(s, n, i, h) = At(s, n, j, h) => i = j
  BY ONLY RowAt, n \in Nat, Row(P, s, n), h \notin P
<1>3. \A i \in 1 .. n : s[i] \in Members(s, n)
  BY DEF Members
<1>4. At(f, n + 1, 0, h) = h /\ At(f, n + 1, 1, h) = c
  BY FrontFirst
<1>5. \A i \in 1 .. n + 1 : At(f, n + 1, i + 1, h) = At(s, n, i, h)
  BY FrontAt
<1>7. nx[h] = At(s, n, 1, h)
  <2>1. 0 \in 0 .. n /\ 0 + 1 = 1
    BY <1>1
  <2> QED BY <1>2, <2>1 DEF Chain
<1> HIDE DEF f
<1>8. ASSUME NEW i \in 0 .. n + 1
      PROVE  /\ nx2[At(f, n + 1, i, h)] = At(f, n + 1, i + 1, h)
             /\ pv2[At(f, n + 1, i + 1, h)] = At(f, n + 1, i, h)
  <2>1. CASE i = 0
    BY <1>4, <2>1
  <2>2. CASE i = 1
    <3>1. 1 \in 1 .. n + 1
      BY <1>1
    <3>2. At(f, n + 1, 1 + 1, h) = nx[h]
      BY <1>5, <1>7, <3>1
    <3> QED BY <1>4, <2>2, <3>2
  <2>3. CASE i # 0 /\ i # 1
    <3>1. i - 1 \in 1 .. n /\ i \in 1 .. n + 1 /\ i - 1 \in 0 .. n /\ (i - 1) + 1 = i
          /\ i - 1 \in 1 .. n + 1 /\ 1 \in 1 .. n + 1
      BY <1>1, <2>3
    <3>2. At(f, n + 1, i, h) = s[i - 1] /\ At(f, n + 1, i + 1, h) = At(s, n, i, h)
      <4>1. At(f, n + 1, (i - 1) + 1, h) = At(s, n, i - 1, h)
        BY <1>5, <3>1
      <4> QED BY <1>2, <1>5, <3>1, <4>1
    <3>3. nx[s[i - 1]] = At(s, n, i, h) /\ pv[At(s, n, i, h)] = s[i - 1]
      BY <1>2, <3>1 DEF Chain
    <3>4. nx2[s[i - 1]] = nx[s[i - 1]]
      BY <1>3, <3>1
    <3>5. At(s, n, i, h) # nx[h]
      BY <1>2, <1>7, <2>3, <3>1
    <3>6. At(s, n, i, h) \in Members(s, n) \cup {h}
      <4>1. i \in 1 .. n \/ i = n + 1
        BY <1>1, <3>1
      <4> QED BY <1>2, <1>3, <4>1
    <3> QED BY <3>2, <3>3, <3>4, <3>5, <3>6
  <2> QED BY <2>1, <2>2, <2>3
<1> QED BY <1>8 DEF Chain, f

\* list_del(&s[j]).
LEMMA ChainWithout ==
  ASSUME NEW P, NEW h, NEW s, NEW nx, NEW pv, NEW nx2, NEW pv2, NEW j, NEW n \in Nat,
         j \in 1 .. n, h \notin P, Row(P, s, n), Chain(nx, pv, h, s, n),
         nx2[pv[s[j]]] = nx[s[j]],
         \A x \in Members(s, n) \cup {h} : x # pv[s[j]] => nx2[x] = nx[x],
         pv2[nx[s[j]]] = pv[s[j]],
         \A x \in Members(s, n) \cup {h} : x # nx[s[j]] => pv2[x] = pv[x]
  PROVE  Chain(nx2, pv2, h, Without(s, n, j), n - 1)
<1> DEFINE w == Without(s, n, j)
           a(i) == At(s, n, i, h)
<1>1. n \in Nat /\ n - 1 \in Nat
  BY DEF Row
<1>2. /\ \A i \in 1 .. n : a(i) = s[i] /\ s[i] # h
      /\ a(0) = h /\ a(n + 1) = h
      /\ \A i, k \in 0 .. n : a(i) = a(k) => i = k
      /\ \A i, k \in 1 .. n + 1 : a(i) = a(k) => i = k
  BY RowAt
<1>3. \A i \in 0 .. n + 1 : a(i) \in Members(s, n) \cup {h}
  BY DEF Members, At
<1>4. /\ \A i \in 0 .. j - 1 : At(w, n - 1, i, h) = a(i)
      /\ \A i \in j .. n : At(w, n - 1, i, h) = a(i + 1)
  BY WithoutAt
<1>5. \A i \in 0 .. n : nx[a(i)] = a(i + 1) /\ pv[a(i + 1)] = a(i)
  BY DEF Chain
<1>6. nx[s[j]] = a(j + 1) /\ pv[s[j]] = a(j - 1)
  <2>1. j \in 0 .. n /\ j - 1 \in 0 .. n /\ (j - 1) + 1 = j
    BY <1>1
  <2> QED BY <1>2, <1>5, <2>1
<1> HIDE DEF a, w
<1>7. ASSUME NEW i \in 0 .. n - 1
      PROVE  /\ nx2[At(w, n - 1, i, h)] = At(w, n - 1, i + 1, h)
             /\ pv2[At(w, n - 1, i + 1, h)] = At(w, n - 1, i, h)
  <2>1. CASE i < j - 1
    <3>1. /\ i \in 0 .. j - 1 /\ i + 1 \in 0 .. j - 1 /\ i \in 0 .. n /\ i + 1 \in 0 .. n + 1
          /\ i # j - 1 /\ j - 1 \in 0 .. n
          /\ i + 1 \in 1 .. n + 1 /\ j + 1 \in 1 .. n + 1 /\ i + 1 # j + 1 /\ i \in 0 .. n + 1
      BY <1>1, <2>1
    <3>2. At(w, n - 1, i, h) = a(i) /\ At(w, n - 1, i + 1, h) = a(i + 1)
      BY <1>4, <3>1
    <3>3. a(i) # a(j - 1) /\ a(i + 1) # a(j + 1)
      BY <1>2, <3>1
    <3>4. nx2[a(i)] = nx[a(i)] /\ pv2[a(i + 1)] = pv[a(i + 1)]
      BY <1>3, <1>6, <3>1, <3>3
    <3> QED BY <1>5, <3>1, <3>2, <3>4
  <2>2. CASE i = j - 1
    <3>1. i \in 0 .. j - 1 /\ i + 1 = j /\ j \in j .. n
      BY <1>1, <2>2
    <3>2. At(w, n - 1, i, h) = a(j - 1) /\ At(w, n - 1, i + 1, h) = a(j + 1)
      BY <1>4, <2>2, <3>1
    <3> QED BY <1>6, <3>2
  <2>3. CASE i > j - 1
    <3>1. /\ i \in j .. n /\ i + 1 \in j .. n /\ i + 1 \in 0 .. n /\ i + 1 \in 0 .. n + 1
          /\ (i + 1) + 1 \in 0 .. n + 1 /\ i + 1 # j - 1 /\ j - 1 \in 0 .. n
          /\ (i + 1) + 1 \in 1 .. n + 1 /\ j + 1 \in 1 .. n + 1 /\ (i + 1) + 1 # j + 1
      BY <1>1, <2>3
    <3>2. At(w, n - 1, i, h) = a(i + 1) /\ At(w, n - 1, i + 1, h) = a((i + 1) + 1)
      BY <1>4, <3>1
    <3>3. a(i + 1) # a(j - 1) /\ a((i + 1) + 1) # a(j + 1)
      BY <1>2, <3>1
    <3>4. nx2[a(i + 1)] = nx[a(i + 1)] /\ pv2[a((i + 1) + 1)] = pv[a((i + 1) + 1)]
      BY <1>3, <1>6, <3>1, <3>3
    <3> QED BY <1>5, <3>1, <3>2, <3>4
  <2> QED BY <1>1, <2>1, <2>2, <2>3
<1>8. \A i \in 0 .. n - 1 : /\ nx2[At(w, n - 1, i, h)] = At(w, n - 1, i + 1, h)
                            /\ pv2[At(w, n - 1, i + 1, h)] = At(w, n - 1, i, h)
  BY <1>7
<1> QED BY <1>8 DEF Chain, w

-----------------------------------------------------------------------------
\* The children of a process: its cptr is first and op holds the optr of the
\* row s; and yp its yptr.
Older(first, op, e, s, n) ==
  /\ first = At(s, n, 1, e)
  /\ \A i \in 1 .. n : op[s[i]] = At(s, n, i + 1, e)

Younger(yp, e, s, n) == \A i \in 1 .. n : yp[s[i]] = At(s, n, i - 1, e)

\* What set_links does to the pointers: c goes in front of the row s.
PutFirst(P, e, s, first, op, yp, op2, yp2, c, n) ==
  /\ c \in P /\ e \notin P /\ Row(P, s, n) /\ c \notin Members(s, n)
  /\ Older(first, op, e, s, n)
  /\ op2[c] = first /\ \A x \in Members(s, n) : op2[x] = op[x]
  /\ yp2[c] = e
  /\ \A x \in Members(s, n) : x = first => yp2[x] = c
  /\ \A x \in Members(s, n) : x # first => yp2[x] = yp[x]

\* set_links: c becomes the youngest child.
LEMMA SiblingsFront ==
  ASSUME NEW P, NEW e, NEW s, NEW first, NEW op, NEW yp, NEW op2, NEW yp2, NEW c,
         NEW n \in Nat, PutFirst(P, e, s, first, op, yp, op2, yp2, c, n)
  PROVE  /\ Older(c, op2, e, Pushed(c, s, n), n + 1)
         /\ Younger(yp, e, s, n) => Younger(yp2, e, Pushed(c, s, n), n + 1)
<1> USE DEF PutFirst
<1> DEFINE f == Pushed(c, s, n)
           a(i) == At(s, n, i, e)
           b(i) == At(f, n + 1, i, e)
<1>1. n \in Nat
  BY DEF Row
<1>2. /\ \A i \in 1 .. n : a(i) = s[i] /\ s[i] # e
      /\ \A i, j \in 1 .. n + 1 : a(i) = a(j) => i = j
  BY RowAt
<1>3. \A i \in 1 .. n : s[i] \in Members(s, n)
  BY DEF Members
<1>4. b(1) = c /\ \A i \in 1 .. n + 1 : b(i + 1) = a(i)
  BY FrontAt, FrontFirst
<1>5. b(0) = e
  BY FrontFirst
<1>6. \A i \in 1 .. n + 1 : f[i] = b(i)
  BY DEF At
<1>7. /\ first = a(1) /\ \A i \in 1 .. n : op[s[i]] = a(i + 1)
      /\ Younger(yp, e, s, n) => \A i \in 1 .. n : yp[s[i]] = a(i - 1)
  BY DEF Older, Younger
<1> HIDE DEF f, a, b
<1>8. ASSUME NEW i \in 1 .. n + 1
      PROVE  op2[f[i]] = b(i + 1) /\ (Younger(yp, e, s, n) => yp2[f[i]] = b(i - 1))
  <2>1. CASE i = 1
    <3>1. f[1] = c /\ b(1 + 1) = a(1) /\ 1 - 1 = 0
      BY <1>1, <1>4, <1>6
    <3> QED BY <1>5, <1>7, <2>1, <3>1
  <2>2. CASE i # 1
    <3>1. i - 1 \in 1 .. n /\ (i - 1) + 1 = i /\ i - 1 \in 1 .. n + 1 /\ 1 \in 1 .. n + 1
      BY <1>1, <2>2
    <3>2. f[i] = s[i - 1] /\ b(i + 1) = a(i) /\ s[i - 1] \in Members(s, n)
      <4>1. b((i - 1) + 1) = a(i - 1)
        BY <1>4, <3>1
      <4> QED BY <1>2, <1>3, <1>4, <1>6, <3>1, <4>1
    <3>3. op2[f[i]] = b(i + 1)
      BY <1>7, <3>1, <3>2
    <3>4. ASSUME Younger(yp, e, s, n) PROVE yp2[f[i]] = b(i - 1)
      <4>1. CASE i = 2
        <5>1. s[i - 1] = first /\ i - 1 = 1
          BY <1>2, <1>7, <3>1, <4>1
        <5> QED BY <1>4, <3>2, <5>1
      <4>2. CASE i # 2
        <5>1. (i - 1) - 1 \in 1 .. n + 1 /\ ((i - 1) - 1) + 1 = i - 1 /\ i - 1 # 1
          BY <1>1, <3>1, <4>2
        <5>2. s[i - 1] # first
          BY <1>2, <1>7, <3>1, <5>1
        <5>3. b(i - 1) = a((i - 1) - 1)
          <6>1. b(((i - 1) - 1) + 1) = a((i - 1) - 1)
            BY <1>4, <5>1
          <6> QED BY <5>1, <6>1
        <5>4. yp[s[i - 1]] = a((i - 1) - 1)
          BY <1>7, <3>1, <3>4
        <5> QED BY <3>2, <5>2, <5>3, <5>4
      <4> QED BY <4>1, <4>2
    <3> QED BY <3>3, <3>4
  <2> QED BY <2>1, <2>2
<1>9. c = b(1)
  BY <1>4
<1>10. Older(c, op2, e, f, n + 1)
  BY <1>8, <1>9 DEF Older, b
<1>11. Younger(yp, e, s, n) => Younger(yp2, e, f, n + 1)
  <2> SUFFICES ASSUME Younger(yp, e, s, n) PROVE \A i \in 1 .. n + 1 : yp2[f[i]] = b(i - 1)
    BY DEF Younger, b
  <2> QED BY <1>8
<1> QED BY <1>10, <1>11 DEF f

\* What remove_links does to the pointers: the j-th of the row s is taken out.
TakeOut(P, e, s, first, op, yp, first2, op2, yp2, j, n) ==
  /\ j \in 1 .. n /\ e \notin P /\ Row(P, s, n)
  /\ Older(first, op, e, s, n) /\ Younger(yp, e, s, n)
  /\ \A x \in Members(s, n) : x = op[s[j]] => yp2[x] = yp[s[j]]
  /\ \A x \in Members(s, n) : x # op[s[j]] => yp2[x] = yp[x]
  /\ \A x \in Members(s, n) : x = yp[s[j]] => op2[x] = op[s[j]]
  /\ \A x \in Members(s, n) : x # yp[s[j]] => op2[x] = op[x]
  /\ yp[s[j]] = e => first2 = op[s[j]]
  /\ yp[s[j]] # e => first2 = first

\* remove_links: the j-th child is taken out.
LEMMA SiblingsWithout ==
  ASSUME NEW P, NEW e, NEW s, NEW first, NEW op, NEW yp, NEW first2, NEW op2, NEW yp2, NEW j,
         NEW n \in Nat, TakeOut(P, e, s, first, op, yp, first2, op2, yp2, j, n)
  PROVE  Older(first2, op2, e, Without(s, n, j), n - 1) /\ Younger(yp2, e, Without(s, n, j), n - 1)
<1> USE DEF TakeOut
<1> DEFINE w == Without(s, n, j)
           a(i) == At(s, n, i, e)
           b(i) == At(w, n - 1, i, e)
<1>1. n \in Nat /\ n - 1 \in Nat
  BY DEF Row
<1>2. /\ \A i \in 1 .. n : a(i) = s[i] /\ s[i] # e
      /\ a(0) = e /\ a(n + 1) = e
      /\ \A i, k \in 0 .. n : a(i) = a(k) => i = k
      /\ \A i, k \in 1 .. n + 1 : a(i) = a(k) => i = k
  BY RowAt
<1>3. \A i \in 1 .. n : s[i] \in Members(s, n)
  BY DEF Members
<1>4. /\ \A i \in 0 .. j - 1 : b(i) = a(i)
      /\ \A i \in j .. n : b(i) = a(i + 1)
  BY WithoutAt
<1>5. \A i \in 1 .. n - 1 : w[i] = b(i)
  BY DEF At
<1>6. /\ first = a(1) /\ \A i \in 1 .. n : op[s[i]] = a(i + 1) /\ yp[s[i]] = a(i - 1)
  BY DEF Older, Younger
<1>7. op[s[j]] = a(j + 1) /\ yp[s[j]] = a(j - 1)
  BY <1>6
<1> HIDE DEF a, b, w
<1>8. ASSUME NEW i \in 1 .. n, i # j
      PROVE  /\ op2[a(i)] = IF i = j - 1 THEN a(j + 1) ELSE a(i + 1)
             /\ yp2[a(i)] = IF i = j + 1 THEN a(j - 1) ELSE a(i - 1)
  <2>1. i \in 0 .. n /\ j - 1 \in 0 .. n /\ i \in 1 .. n + 1 /\ j + 1 \in 1 .. n + 1
    BY <1>1
  <2>2. (s[i] = a(j - 1) <=> i = j - 1) /\ (s[i] = a(j + 1) <=> i = j + 1)
    BY <1>2, <2>1
  <2> QED BY <1>2, <1>3, <1>6, <1>7, <2>2
<1>9. ASSUME NEW i \in 1 .. n - 1
      PROVE  op2[w[i]] = b(i + 1) /\ yp2[w[i]] = b(i - 1)
  <2>1. CASE i < j - 1
    <3>1. /\ i \in 0 .. j - 1 /\ i + 1 \in 0 .. j - 1 /\ i - 1 \in 0 .. j - 1
          /\ i \in 1 .. n /\ i # j /\ i # j - 1 /\ i # j + 1
      BY <1>1, <2>1
    <3>2. b(i) = a(i) /\ b(i + 1) = a(i + 1) /\ b(i - 1) = a(i - 1)
      BY <1>4, <3>1
    <3> QED BY <1>5, <1>8, <3>1, <3>2
  <2>2. CASE i = j - 1
    <3>1. /\ i \in 0 .. j - 1 /\ i + 1 = j /\ j \in j .. n /\ i - 1 \in 0 .. j - 1
          /\ i \in 1 .. n /\ i # j /\ i # j + 1
      BY <1>1, <2>2
    <3>2. b(i) = a(i) /\ b(i + 1) = a(j + 1) /\ b(i - 1) = a(i - 1)
      BY <1>4, <3>1
    <3> QED BY <1>5, <1>8, <2>2, <3>1, <3>2
  <2>3. CASE i = j
    <3>1. /\ i \in j .. n /\ i + 1 \in j .. n /\ i - 1 \in 0 .. j - 1
          /\ i + 1 \in 1 .. n /\ i + 1 # j /\ i + 1 # j - 1
      BY <1>1, <2>3
    <3>2. b(i) = a(i + 1) /\ b(i + 1) = a((i + 1) + 1) /\ b(i - 1) = a(j - 1)
      BY <1>4, <2>3, <3>1
    <3> QED BY <1>5, <1>8, <2>3, <3>1, <3>2
  <2>4. CASE i > j
    <3>1. /\ i \in j .. n /\ i + 1 \in j .. n /\ i - 1 \in j .. n /\ (i - 1) + 1 = (i + 1) - 1
          /\ i + 1 \in 1 .. n /\ i + 1 # j /\ i + 1 # j - 1 /\ i + 1 # j + 1
      BY <1>1, <2>4
    <3>2. b(i) = a(i + 1) /\ b(i + 1) = a((i + 1) + 1) /\ b(i - 1) = a((i - 1) + 1)
      BY <1>4, <3>1
    <3> QED BY <1>5, <1>8, <3>1, <3>2
  <2> QED BY <2>1, <2>2, <2>3, <2>4, <1>1
<1>10. first2 = b(1)
  <2>1. CASE j = 1
    <3>1. a(j - 1) = e /\ 1 \in j .. n
      BY <1>1, <1>2, <2>1
    <3> QED BY <1>4, <1>7, <2>1, <3>1
  <2>2. CASE j # 1
    <3>1. j - 1 \in 1 .. n /\ 1 \in 0 .. j - 1
      BY <1>1, <2>2
    <3>2. a(j - 1) # e
      BY <1>2, <3>1
    <3> QED BY <1>4, <1>6, <1>7, <3>1, <3>2
  <2> QED BY <2>1, <2>2
<1>11. Older(first2, op2, e, w, n - 1)
  BY <1>9, <1>10 DEF Older, b
<1>12. Younger(yp2, e, w, n - 1)
  BY <1>9 DEF Younger, b
<1> QED BY <1>11, <1>12 DEF w

\* do_exit takes the youngest child away and leaves its yptr as it is.
LEMMA SiblingsTail ==
  ASSUME NEW P, NEW e, NEW s, NEW first, NEW op, NEW op2, NEW n \in Nat, e \notin P,
         Row(P, s, n), Older(first, op, e, s, n), n > 0,
         \A x \in Members(s, n) : x # first => op2[x] = op[x]
  PROVE  Older(op[first], op2, e, Without(s, n, 1), n - 1)
<1> DEFINE w == Without(s, n, 1)
<1>1. n \in Nat /\ n - 1 \in Nat /\ 1 \in 1 .. n
  BY DEF Row
<1>2. first = s[1] /\ \A i \in 1 .. n : op[s[i]] = At(s, n, i + 1, e)
  BY <1>1 DEF Older, At
<1>3. \A i \in 1 .. n : At(w, n - 1, i, e) = At(s, n, i + 1, e)
  BY <1>1, WithoutAt
<1>4. op[first] = At(w, n - 1, 1, e)
  BY <1>1, <1>2, <1>3
<1>5. ASSUME NEW i \in 1 .. n - 1 PROVE op2[w[i]] = At(w, n - 1, i + 1, e)
  <2>1. i + 1 \in 1 .. n /\ i + 1 # 1
    BY <1>1
  <2>2. w[i] = s[i + 1]
    BY <1>1 DEF Without
  <2>3. s[i + 1] # first /\ s[i + 1] \in Members(s, n)
    BY <1>1, <1>2, <2>1 DEF Row, Members
  <2> QED BY <1>2, <1>3, <2>1, <2>2, <2>3
<1> QED BY <1>4, <1>5 DEF Older
=============================================================================
