---------------------------- MODULE SwapProofs ----------------------------
(***************************************************************************)
(* Page replacement for any number of pages, of frames and of failed       *)
(* writes: the list of swappable pages is exact, the clock finds a victim, *)
(* the fifo script of check_swap runs to its end, and no access sees what  *)
(* swapping does.                                                          *)
(***************************************************************************)
EXTENDS Swap, Rows, FiniteSetTheorems, WellFoundedInduction

Page == Nat \ {0}
Bits == SUBSET {"A", "D"}

\* A state of the handlers has these fields.
IsState(s) == DOMAIN s = {"pra", "bits", "tlb", "content", "disk", "victim"}

\* Its list holds the n resident pages, once each; they have bits, and are not
\* in the swap area.
Ok(s, n) ==
  /\ IsState(s)
  /\ Row(Page, s.pra, n) /\ Members(s.pra, n) = DOMAIN s.content
  /\ s.bits \in [DOMAIN s.content -> Bits]
  /\ s.content \in [DOMAIN s.content -> Nat]
  /\ s.disk \in [DOMAIN s.disk -> Nat]
  /\ DOMAIN s.content \cap DOMAIN s.disk = {}
  /\ DOMAIN s.content \subseteq DOMAIN s.tlb

\* t differs from s in the list and the bits only.
SameMemory(s, t) == t.tlb = s.tlb /\ t.content = s.content /\ t.disk = s.disk

\* The pages a state holds, and what they contain.
Dom(s) == DOMAIN s.content \cup DOMAIN s.disk
Val(s, w) == IF w \in DOMAIN s.content THEN s.content[w] ELSE s.disk[w]

\* No page of s is lost or changed in t.
Keeps(s, t) == Dom(s) \subseteq Dom(t) /\ \A w \in Dom(s) : Val(t, w) = Val(s, w)

-----------------------------------------------------------------------------
\* Every set of natural numbers has a least member.
LEMMA LeastMember ==
  ASSUME NEW S, S \subseteq Nat, S # {}
  PROVE  \E x \in S : \A y \in S : x <= y
<1> DEFINE R == OpToRel(<, Nat)
<1>1. IsWellFoundedOn(R, Nat)
  BY NatLessThanWellFounded
<1>2. \A a, b \in Nat : a < b => <<a, b>> \in R
  BY DEF OpToRel
<1> HIDE DEF R
<1>3. PICK x \in S : \A y \in S : ~ (<<y, x>> \in R)
  BY <1>1, WFMin
<1>4. ASSUME NEW y \in S PROVE x <= y
  <2>1. x \in Nat /\ y \in Nat
    OBVIOUS
  <2>2. ~(y < x)
    BY <1>2, <1>3, <2>1
  <2> QED BY <2>1, <2>2
<1> QED BY <1>4

\* A row is a sequence; list_del and list_add of it are those of the rows.
LEMMA RowSeq ==
  ASSUME NEW P, NEW s, NEW n \in Nat, Row(P, s, n)
  PROVE  s \in Seq(P) /\ Len(s) = n
<1>1. s \in [1 .. n -> P]
  BY DEF Row
<1> QED BY <1>1

LEMMA SeqExt ==
  ASSUME NEW P, NEW s, NEW t, NEW n \in Nat, s \in Seq(P), Len(s) = n, t \in [1 .. n -> P],
         \A i \in 1 .. n : s[i] = t[i]
  PROVE  s = t
<1>1. s = [i \in 1 .. n |-> s[i]]
  OBVIOUS
<1>2. t = [i \in 1 .. n |-> t[i]]
  OBVIOUS
<1> QED BY <1>1, <1>2

LEMMA RemoveIsWithout ==
  ASSUME NEW P, NEW s, NEW j, NEW n \in Nat, j \in 1 .. n, Row(P, s, n)
  PROVE  list_del(s, j) = Without(s, n, j)
<1>1. s \in Seq(P) /\ Len(s) = n /\ j \in Nat /\ j >= 1 /\ j <= n
  BY RowSeq
<1>2. PICK a, b : a = SubSeq(s, 1, j - 1) /\ b = SubSeq(s, j + 1, n)
  OBVIOUS
<1>3. a \in Seq(P) /\ Len(a) = j - 1 /\ \A i \in 1 .. j - 1 : a[i] = s[i]
  BY <1>1, <1>2
<1>4. b \in Seq(P) /\ Len(b) = n - j /\ \A i \in 1 .. n - j : b[i] = s[i + j]
  BY <1>1, <1>2
<1>5. /\ a \o b \in Seq(P) /\ Len(a \o b) = n - 1
      /\ \A i \in 1 .. n - 1 : (a \o b)[i] = IF i < j THEN s[i] ELSE s[i + 1]
  <2>1. a \o b \in Seq(P) /\ Len(a \o b) = n - 1
    <3>1. a \o b \in Seq(P) /\ Len(a \o b) = Len(a) + Len(b)
      BY ONLY <1>3, <1>4
    <3> QED BY ONLY <1>1, <1>3, <1>4, <3>1
  <2>2. ASSUME NEW i \in 1 .. n - 1 PROVE (a \o b)[i] = IF i < j THEN s[i] ELSE s[i + 1]
    <3>1. CASE i < j
      <4>1. i \in 1 .. j - 1
        BY <1>1, <3>1
      <4> QED BY <1>3, <1>4, <3>1, <4>1
    <3>2. CASE ~(i < j)
      <4>1. i - (j - 1) \in 1 .. n - j /\ i - (j - 1) + j = i + 1
        BY <1>1, <3>2
      <4>2. (a \o b)[i] = b[i - (j - 1)]
        BY <1>1, <1>3, <1>4, <3>2
      <4> QED BY <1>4, <3>2, <4>1, <4>2
    <3> QED BY <3>1, <3>2
  <2> QED BY <2>1, <2>2
<1>6. Without(s, n, j) \in [1 .. n - 1 -> P] /\ n - 1 \in Nat
  <2>1. n - 1 \in Nat
    BY <1>1
  <2>2. Row(P, Without(s, n, j), n - 1)
    BY ONLY RowWithout, n \in Nat, j \in 1 .. n, Row(P, s, n)
  <2> QED BY <2>1, <2>2 DEF Row
<1>7. \A i \in 1 .. n - 1 : (a \o b)[i] = Without(s, n, j)[i]
  BY <1>5 DEF Without
<1>8. a \o b = Without(s, n, j)
  BY ONLY SeqExt, <1>5, <1>6, <1>7
<1> QED BY <1>1, <1>2, <1>8 DEF list_del

LEMMA ConsIsPushed ==
  ASSUME NEW P, NEW s, NEW c, NEW n \in Nat, c \in P, Row(P, s, n)
  PROVE  <<c>> \o s = Pushed(c, s, n)
<1>1. s \in Seq(P) /\ Len(s) = n /\ \A i \in 1 .. n : s[i] \in P
  BY RowSeq
<1>2. <<c>> \o s \in Seq(P) /\ Len(<<c>> \o s) = n + 1
  BY <1>1
<1>3. ASSUME NEW i \in 1 .. n + 1 PROVE (<<c>> \o s)[i] = IF i = 1 THEN c ELSE s[i - 1]
  BY <1>1
<1>4. Pushed(c, s, n) \in [1 .. n + 1 -> P] /\ n + 1 \in Nat
  BY <1>1 DEF Pushed
<1>5. \A i \in 1 .. n + 1 : (<<c>> \o s)[i] = Pushed(c, s, n)[i]
  BY <1>3 DEF Pushed
<1> QED BY ONLY SeqExt, <1>2, <1>4, <1>5

\* A row has as many members as it is long.
LEMMA RowCardinality ==
  ASSUME NEW P, NEW s, NEW n \in Nat, Row(P, s, n)
  PROVE  IsFiniteSet(Members(s, n)) /\ Cardinality(Members(s, n)) = n
<1>1. s \in Bijection(1 .. n, Members(s, n))
  BY DEF Row, Members, Bijection, Injection, Surjection, IsInjective
<1>2. IsFiniteSet(1 .. n) /\ Cardinality(1 .. n) = n
  BY FS_Interval
<1>3. ExistsBijection(1 .. n, Members(s, n))
  BY <1>1 DEF ExistsBijection
<1> QED BY ONLY <1>2, <1>3, FS_Bijection

-----------------------------------------------------------------------------
\* Assigning to one page of a function, and dropping one.
LEMMA PutDomain == ASSUME NEW f, NEW v, NEW x PROVE DOMAIN Put(f, v, x) = DOMAIN f \cup {v}
  BY DEF Put

LEMMA PutNew == ASSUME NEW f, NEW v, NEW x PROVE Put(f, v, x)[v] = x
  BY DEF Put

LEMMA PutOld ==
  ASSUME NEW f, NEW v, NEW x, NEW w, w \in DOMAIN f, w # v
  PROVE  Put(f, v, x)[w] = f[w]
  BY DEF Put

LEMMA DelFacts ==
  ASSUME NEW f, NEW v
  PROVE  /\ DOMAIN Del(f, v) = DOMAIN f \ {v}
         /\ \A w \in DOMAIN f : w # v => Del(f, v)[w] = f[w]
  BY DEF Del

LEMMA PutType ==
  ASSUME NEW f, NEW v, NEW x, NEW D, NEW T, f \in [D -> T], x \in T
  PROVE  Put(f, v, x) \in [D \cup {v} -> T]
  BY DEF Put

LEMMA DelType ==
  ASSUME NEW f, NEW v, NEW D, NEW T, f \in [D -> T]
  PROVE  Del(f, v) \in [D \ {v} -> T]
  BY DEF Del

\* t is s with its j-th page chosen and off the list, and possibly other bits.
Took(s, t, n, j) ==
  /\ IsState(t) /\ SameMemory(s, t) /\ j \in 1 .. n
  /\ t.victim = s.pra[j] /\ t.pra = Without(s.pra, n, j)
  /\ t.bits \in [DOMAIN s.content -> Bits]

LEMMA ChosenFields ==
  ASSUME NEW s, NEW i, IsState(s)
  PROVE  /\ IsState(Chosen(s, i)) /\ SameMemory(s, Chosen(s, i))
         /\ Chosen(s, i).pra = list_del(s.pra, i) /\ Chosen(s, i).victim = s.pra[i]
         /\ Chosen(s, i).bits = s.bits
  BY DEF IsState, Chosen, SameMemory

LEMMA ChosenTook ==
  ASSUME NEW s, NEW j, NEW n \in Nat, Ok(s, n), j \in 1 .. n
  PROVE  Took(s, Chosen(s, j), n, j)
<1>1. IsState(s) /\ Row(Page, s.pra, n) /\ s.bits \in [DOMAIN s.content -> Bits]
  BY DEF Ok
<1>2. list_del(s.pra, j) = Without(s.pra, n, j)
  BY ONLY <1>1, RemoveIsWithout, n \in Nat, j \in 1 .. n
<1> QED BY <1>1, <1>2, ChosenFields DEF Took

\* The fifo manager takes the last page of the list.
LEMMA FifoVictim ==
  ASSUME NEW s, NEW n \in Nat, Ok(s, n), n > 0
  PROVE  Took(s, _fifo_swap_out_victim(s), n, n)
<1>1. Len(s.pra) = n
  <2>1. Row(Page, s.pra, n)
    BY DEF Ok
  <2> QED BY <2>1, RowIsSeq
<1>2. n \in 1 .. n
  OBVIOUS
<1>3. Took(s, Chosen(s, n), n, n)
  BY ONLY <1>2, ChosenTook, n \in Nat, Ok(s, n)
<1> QED BY <1>1, <1>3 DEF _fifo_swap_out_victim

-----------------------------------------------------------------------------
\* t is s with the bits of b cleared in every page.
Cleared(s, t, b) ==
  /\ IsState(t) /\ SameMemory(s, t) /\ t.pra = s.pra /\ t.victim = s.victim
  /\ t.bits \in [DOMAIN s.content -> Bits]
  /\ \A w \in DOMAIN s.content : t.bits[w] = s.bits[w] \ b

\* A set of numbers up to n that holds 0 has a greatest member.
LEMMA GreatestMember ==
  ASSUME NEW S, NEW n \in Nat, S \subseteq 0 .. n, 0 \in S
  PROVE  Oldest(S) \in S /\ \A i \in S : i <= Oldest(S)
<1> DEFINE above == {k \in Nat : \A i \in S : i <= k}
<1>1. n \in above /\ above \subseteq Nat
  OBVIOUS
<1>2. PICK m \in above : \A k \in above : m <= k
  BY <1>1, LeastMember
<1>3. m \in Nat /\ \A i \in S : i <= m
  OBVIOUS
<1>4. m \in S
  <2> SUFFICES ASSUME m \notin S PROVE FALSE
    OBVIOUS
  <2>1. m # 0 /\ m - 1 \in Nat
    BY <1>3
  <2>2. ASSUME NEW i \in S PROVE i <= m - 1
    <3>1. i \in Nat /\ i <= m /\ i # m
      BY <1>3
    <3> QED BY <1>3, <3>1
  <2>3. m - 1 \in above
    BY <2>1, <2>2
  <2> QED BY <1>2, <1>3, <2>3
<1>5. \E x \in S : \A y \in S : x >= y
  BY <1>3, <1>4
<1>6. Oldest(S) \in S /\ \A y \in S : Oldest(S) >= y
  BY <1>5 DEF Oldest
<1> QED BY <1>6

\* The hand stops at a page without bits, and passes none.
LEMMA HandStops ==
  ASSUME NEW s, NEW n \in Nat, Ok(s, n)
  PROVE  /\ Hand(s) \in 0 .. n
         /\ \A i \in 1 .. n : i > Hand(s) => s.bits[s.pra[i]] # {}
<1>1. DOMAIN s.pra = 1 .. n
  BY DEF Ok, Row
<1> DEFINE S == {i \in DOMAIN s.pra : s.bits[s.pra[i]] = {}} \cup {0}
<1>2. S \subseteq 0 .. n /\ 0 \in S
  BY <1>1
<1>3. \A i \in 1 .. n : s.bits[s.pra[i]] = {} => i \in S
  BY <1>1
<1>4. Hand(s) = Oldest(S)
  BY DEF Hand
<1> HIDE DEF S
<1>5. Oldest(S) \in S /\ \A i \in S : i <= Oldest(S)
  BY ONLY <1>2, GreatestMember, n \in Nat
<1>6. Oldest(S) \in 0 .. n
  BY <1>2, <1>5
<1> QED BY <1>3, <1>4, <1>5, <1>6

LEMMA PassFields ==
  ASSUME NEW s, NEW b, NEW n \in Nat, Ok(s, n)
  PROVE  /\ IsState(Pass(s, b)) /\ SameMemory(s, Pass(s, b))
         /\ Pass(s, b).pra = s.pra /\ Pass(s, b).victim = s.victim
         /\ Pass(s, b).bits \in [DOMAIN s.content -> Bits]
         /\ \A i \in 1 .. n : i > Hand(s) =>
               Pass(s, b).bits[s.pra[i]] = s.bits[s.pra[i]] \ b
<1> DEFINE passed == {s.pra[i] : i \in (Hand(s) + 1) .. Len(s.pra)}
           f == [v \in DOMAIN s.bits |-> IF v \in passed THEN s.bits[v] \ b ELSE s.bits[v]]
<1>1. Pass(s, b) = [s EXCEPT !.bits = f]
  BY DEF Pass
<1>2. /\ IsState(s) /\ Row(Page, s.pra, n) /\ Members(s.pra, n) = DOMAIN s.content
      /\ s.bits \in [DOMAIN s.content -> Bits]
  BY DEF Ok
<1>3. Len(s.pra) = n
  BY <1>2, RowIsSeq
<1>4. ASSUME NEW i \in 1 .. n, i > Hand(s) PROVE s.pra[i] \in passed /\ s.pra[i] \in DOMAIN s.bits
  <2>1. Hand(s) \in 0 .. n
    BY HandStops
  <2>2. i \in (Hand(s) + 1) .. Len(s.pra)
    BY <1>3, <1>4, <2>1
  <2>3. s.pra[i] \in DOMAIN s.bits
    BY <1>2 DEF Members
  <2> QED BY <2>2, <2>3
<1> HIDE DEF passed
<1>5. f \in [DOMAIN s.content -> Bits]
  BY <1>2 DEF Bits
<1>6. \A i \in 1 .. n : i > Hand(s) => f[s.pra[i]] = s.bits[s.pra[i]] \ b
  BY <1>4
<1> HIDE DEF f
<1>7. /\ IsState(Pass(s, b)) /\ SameMemory(s, Pass(s, b))
      /\ Pass(s, b).pra = s.pra /\ Pass(s, b).victim = s.victim /\ Pass(s, b).bits = f
  BY <1>1, <1>2 DEF IsState, SameMemory
<1> QED BY <1>5, <1>6, <1>7

\* A round of the clock takes a page without bits, or clears them.
LEMMA RoundOnce ==
  ASSUME NEW s, NEW b, NEW n \in Nat, Ok(s, n), s.victim = 0
  PROVE  \/ \E j \in 1 .. n : Took(s, Round(s, b), n, j)
         \/ Cleared(s, Round(s, b), b) /\ \A w \in DOMAIN s.content : s.bits[w] # {}
<1>1. PICK j : j = Hand(s)
  OBVIOUS
<1>2. PICK t : t = Pass(s, b)
  OBVIOUS
<1>3. Round(s, b) = IF j = 0 THEN t ELSE Chosen(t, j)
  BY <1>1, <1>2 DEF Round
<1>4. j \in 0 .. n /\ \A i \in 1 .. n : i > j => s.bits[s.pra[i]] # {}
  BY <1>1, HandStops
<1>5. /\ IsState(t) /\ SameMemory(s, t) /\ t.pra = s.pra /\ t.victim = s.victim
      /\ t.bits \in [DOMAIN s.content -> Bits]
  BY <1>2, PassFields
<1>6. \A i \in 1 .. n : i > j => t.bits[s.pra[i]] = s.bits[s.pra[i]] \ b
  BY <1>1, <1>2, PassFields
<1>7. CASE j # 0
  <2>1. Ok(t, n)
    BY <1>5 DEF Ok, SameMemory
  <2>2. j \in 1 .. n /\ Round(s, b) = Chosen(t, j)
    BY <1>3, <1>4, <1>7
  <2>3. Took(t, Chosen(t, j), n, j)
    BY ONLY <2>1, <2>2, ChosenTook, n \in Nat
  <2>4. Took(s, Round(s, b), n, j)
    BY <1>5, <2>2, <2>3 DEF Took, SameMemory
  <2> QED BY <2>2, <2>4
<1>8. CASE j = 0
  <2>1. ASSUME NEW w \in DOMAIN s.content
        PROVE  t.bits[w] = s.bits[w] \ b /\ s.bits[w] # {}
    <3>1. PICK i \in 1 .. n : w = s.pra[i]
      BY DEF Ok, Members
    <3>2. i > j
      BY <1>8
    <3> QED BY <1>4, <1>6, <3>1, <3>2
  <2>2. Round(s, b) = t
    BY <1>3, <1>8
  <2> QED BY <1>5, <2>1, <2>2 DEF Cleared
<1> QED BY <1>7, <1>8

LEMMA RoundDone ==
  ASSUME NEW s, NEW b, s.victim # 0
  PROVE  Round(s, b) = s
  BY DEF Round

\* Of a page taken: it is one of s, its address is not 0.
LEMMA TookPage ==
  ASSUME NEW s, NEW t, NEW j, NEW n \in Nat, Ok(s, n), Took(s, t, n, j)
  PROVE  t.victim \in DOMAIN s.content /\ t.victim \in Page /\ t.victim # 0
<1>1. j \in 1 .. n /\ t.victim = s.pra[j]
  BY DEF Took
<1>2. s.pra[j] \in Page /\ s.pra[j] \in Members(s.pra, n)
  BY <1>1 DEF Ok, Row, Members
<1>3. Members(s.pra, n) = DOMAIN s.content
  BY DEF Ok
<1> QED BY <1>1, <1>2, <1>3 DEF Page

LEMMA ClearedOk ==
  ASSUME NEW s, NEW t, NEW b, NEW n \in Nat, Ok(s, n), Cleared(s, t, b)
  PROVE  Ok(t, n)
  BY DEF Ok, Cleared, SameMemory

LEMMA ClearedTook ==
  ASSUME NEW s, NEW t, NEW b, NEW u, NEW j, NEW n \in Nat, Cleared(s, t, b), Took(t, u, n, j)
  PROVE  Took(s, u, n, j)
  BY DEF Took, Cleared, SameMemory

\* Three rounds of the clock take a page: the first clears the accessed bits,
\* the second the dirty bits, so that the third finds nothing but clean pages.
LEMMA ClockVictim ==
  ASSUME NEW s, NEW n \in Nat, Ok(s, n), n > 0, s.victim = 0
  PROVE  \E j \in 1 .. n : Took(s, _clock_swap_out_victim(s), n, j)
<1>1. PICK r1 : r1 = Round(s, {"A"})
  OBVIOUS
<1>2. PICK r2 : r2 = Round(r1, {"D"})
  OBVIOUS
<1>3. PICK r3 : r3 = Round(r2, {})
  OBVIOUS
<1>4. _clock_swap_out_victim(s) = r3
  BY <1>1, <1>2, <1>3 DEF _clock_swap_out_victim
<1>5. CASE \E j \in 1 .. n : Took(s, r1, n, j)
  <2>1. PICK j \in 1 .. n : Took(s, r1, n, j)
    BY <1>5
  <2>2. r1.victim # 0
    BY <2>1, TookPage
  <2>3. r2 = r1
    BY <1>2, <2>2, RoundDone
  <2>4. r3 = r1
    BY <1>3, <2>2, <2>3, RoundDone
  <2> QED BY <1>4, <2>1, <2>4
<1>6. CASE Cleared(s, r1, {"A"})
  <2>1. Ok(r1, n)
    BY ONLY <1>6, ClearedOk, Ok(s, n), n \in Nat
  <2>2. r1.victim = 0
    BY <1>6 DEF Cleared
  <2>3. CASE \E j \in 1 .. n : Took(r1, r2, n, j)
    <3>1. PICK j \in 1 .. n : Took(r1, r2, n, j)
      BY <2>3
    <3>2. r2.victim # 0
      BY ONLY <2>1, <3>1, TookPage, n \in Nat
    <3>3. r3 = r2
      BY <1>3, <3>2, RoundDone
    <3>4. Took(s, r2, n, j)
      BY ONLY <1>6, <3>1, ClearedTook, n \in Nat
    <3> QED BY <1>4, <3>3, <3>4
  <2>4. CASE Cleared(r1, r2, {"D"})
    <3>1. Ok(r2, n)
      BY ONLY <2>1, <2>4, ClearedOk, n \in Nat
    <3>2. r2.victim = 0
      BY <2>2, <2>4 DEF Cleared
    <3>3. PICK w : w \in DOMAIN r2.content
      <4>1. 1 \in 1 .. n
        OBVIOUS
      <4>2. r2.pra[1] \in Members(r2.pra, n) /\ Members(r2.pra, n) = DOMAIN r2.content
        BY <3>1, <4>1 DEF Ok, Members
      <4> QED BY <4>2
    <3>4. r2.bits[w] = {}
      <4>1. w \in DOMAIN r1.content /\ w \in DOMAIN s.content
        BY <1>6, <2>4, <3>3 DEF Cleared, SameMemory
      <4>2. r1.bits[w] = s.bits[w] \ {"A"} /\ r2.bits[w] = r1.bits[w] \ {"D"}
        BY <1>6, <2>4, <4>1 DEF Cleared
      <4>3. s.bits[w] \subseteq {"A", "D"}
        BY <4>1 DEF Ok, Bits
      <4> QED BY <4>2, <4>3
    <3>5. PICK j \in 1 .. n : Took(r2, r3, n, j)
      BY <1>3, <3>1, <3>2, <3>3, <3>4, RoundOnce
    <3>6. Took(r1, r3, n, j)
      BY ONLY <2>4, <3>5, ClearedTook, n \in Nat
    <3>7. Took(s, r3, n, j)
      BY ONLY <1>6, <3>6, ClearedTook, n \in Nat
    <3> QED BY <1>4, <3>7
  <2> QED BY <1>2, <2>1, <2>2, <2>3, <2>4, RoundOnce
<1> QED BY <1>1, <1>5, <1>6, RoundOnce

\* The manager takes a page whenever there is one; fifo takes the last.
LEMMA Victim ==
  ASSUME NEW s, NEW n \in Nat, Ok(s, n), n > 0, s.victim = 0
  PROVE  \E j \in 1 .. n : Took(s, sm_victim(s), n, j) /\ (sm = "fifo" => j = n)
<1>1. CASE sm = "fifo"
  <2>1. Took(s, _fifo_swap_out_victim(s), n, n)
    BY ONLY FifoVictim, n \in Nat, Ok(s, n), n > 0
  <2>2. n \in 1 .. n
    OBVIOUS
  <2> QED BY <1>1, <2>1, <2>2 DEF sm_victim
<1>2. CASE sm # "fifo"
  BY <1>2, ClockVictim DEF sm_victim
<1> QED BY <1>1, <1>2

\* The same for the call in swap_out, which starts without a victim.
LEMMA NextVictim ==
  ASSUME NEW s, NEW n \in Nat, Ok(s, n), n > 0
  PROVE  \E j \in 1 .. n : /\ Took(s, sm_victim([s EXCEPT !.victim = 0]), n, j)
                           /\ sm = "fifo" => j = n
<1>1. PICK t : t = [s EXCEPT !.victim = 0]
  OBVIOUS
<1>2. /\ IsState(t) /\ SameMemory(s, t) /\ t.pra = s.pra /\ t.bits = s.bits /\ t.victim = 0
  BY <1>1 DEF Ok, IsState, SameMemory
<1>3. Ok(t, n)
  BY <1>2 DEF Ok, SameMemory
<1>4. PICK j \in 1 .. n : Took(t, sm_victim(t), n, j) /\ (sm = "fifo" => j = n)
  BY ONLY <1>2, <1>3, Victim, n \in Nat, n > 0
<1>5. Took(s, sm_victim(t), n, j)
  BY <1>2, <1>4 DEF Took, SameMemory
<1> QED BY <1>1, <1>4, <1>5

-----------------------------------------------------------------------------
Managers == {"fifo", "clock", "lru"}

\* list_add of page v to the list of a state.
LEMMA MapSwappable ==
  ASSUME NEW s, NEW v, NEW n \in Nat, sm \in Managers, IsState(s), Row(Page, s.pra, n), v \in Page
  PROVE  /\ IsState(swap_map_swappable(s, v)) /\ SameMemory(s, swap_map_swappable(s, v))
         /\ swap_map_swappable(s, v).bits = s.bits
         /\ swap_map_swappable(s, v).pra = Pushed(v, s.pra, n)
<1>1. <<v>> \o s.pra = Pushed(v, s.pra, n)
  BY ONLY ConsIsPushed, n \in Nat, Row(Page, s.pra, n), v \in Page
<1>2. PICK q : q = <<v>> \o s.pra
  OBVIOUS
<1>3. swap_map_swappable(s, v) = [s EXCEPT !.pra = q]
  BY <1>2 DEF Managers, swap_map_swappable, _fifo_map_swappable, _clock_map_swappable,
              _lru_map_swappable
<1> QED BY <1>1, <1>2, <1>3 DEF IsState, SameMemory

\* What swap_out makes of the state with victim v.
Out(t, v) ==
  tlb_invalidate([swapfs_write(t, v) EXCEPT !.content = Del(@, v), !.bits = Del(@, v)], v)

LEMMA OutFields ==
  ASSUME NEW t, NEW v, IsState(t)
  PROVE  /\ IsState(Out(t, v)) /\ Out(t, v).pra = t.pra
         /\ Out(t, v).content = Del(t.content, v)
         /\ Out(t, v).disk = Put(t.disk, v, t.content[v])
         /\ Out(t, v).bits = Del(t.bits, v) /\ Out(t, v).tlb = Put(t.tlb, v, "no")
<1>1. PICK d : d = Put(t.disk, v, t.content[v])
  OBVIOUS
<1>2. PICK w : w = [t EXCEPT !.disk = d]
  OBVIOUS
<1>3. /\ swapfs_write(t, v) = w /\ IsState(w) /\ w.disk = d /\ w.pra = t.pra
      /\ w.content = t.content /\ w.bits = t.bits /\ w.tlb = t.tlb
  BY <1>1, <1>2 DEF swapfs_write, IsState
<1>4. PICK c, b, l : c = Del(t.content, v) /\ b = Del(t.bits, v) /\ l = Put(t.tlb, v, "no")
  OBVIOUS
<1>5. PICK x : x = [w EXCEPT !.content = c, !.bits = b]
  OBVIOUS
<1>6. /\ IsState(x) /\ x.disk = d /\ x.pra = t.pra /\ x.content = c /\ x.bits = b /\ x.tlb = t.tlb
  BY <1>3, <1>5 DEF IsState
<1>7. Out(t, v) = [x EXCEPT !.tlb = l]
  BY <1>3, <1>4, <1>5, <1>6 DEF tlb_invalidate, Out
<1> QED BY <1>1, <1>4, <1>6, <1>7 DEF IsState

\* t holds the same pages as s, with the same contents, and no more of them are
\* resident.
Moved(s, t) == /\ Dom(t) = Dom(s) /\ DOMAIN t.content \subseteq DOMAIN s.content
               /\ \A w \in Dom(s) : Val(t, w) = Val(s, w)

\* swap_out: the victim goes to the swap area with what it contains.
LEMMA SwapOut ==
  ASSUME NEW s, NEW n \in Nat, Ok(s, n), n > 0
  PROVE  /\ Ok(swap_out(s), n - 1) /\ Moved(s, swap_out(s))
         /\ sm = "fifo" => swap_out(s).pra = Without(s.pra, n, n)
<1>1. PICK t : t = sm_victim([s EXCEPT !.victim = 0])
  OBVIOUS
<1>2. PICK j \in 1 .. n : Took(s, t, n, j) /\ (sm = "fifo" => j = n)
  BY ONLY <1>1, NextVictim, n \in Nat, Ok(s, n), n > 0
<1>3. PICK v, u : v = t.victim /\ u = swap_out(s)
  OBVIOUS
<1>4. u = Out(t, v)
  BY <1>1, <1>3 DEF swap_out, Out
<1>5. /\ IsState(t) /\ t.tlb = s.tlb /\ t.content = s.content /\ t.disk = s.disk
      /\ v = s.pra[j] /\ t.pra = Without(s.pra, n, j) /\ t.bits \in [DOMAIN s.content -> Bits]
  BY <1>2, <1>3 DEF Took, SameMemory
<1>6. /\ IsState(u) /\ u.pra = t.pra
      /\ u.content = Del(t.content, v) /\ u.disk = Put(t.disk, v, t.content[v])
      /\ u.bits = Del(t.bits, v) /\ u.tlb = Put(t.tlb, v, "no")
  BY ONLY <1>4, <1>5, OutFields
<1>7. v \in DOMAIN s.content
  BY ONLY <1>2, <1>3, TookPage, Ok(s, n), n \in Nat
<1>8. /\ Row(Page, s.pra, n) /\ Members(s.pra, n) = DOMAIN s.content
      /\ s.content \in [DOMAIN s.content -> Nat] /\ s.disk \in [DOMAIN s.disk -> Nat]
      /\ DOMAIN s.content \cap DOMAIN s.disk = {} /\ DOMAIN s.content \subseteq DOMAIN s.tlb
  BY DEF Ok
<1>9. /\ DOMAIN u.content = DOMAIN s.content \ {v} /\ DOMAIN u.disk = DOMAIN s.disk \cup {v}
      /\ DOMAIN u.tlb = DOMAIN s.tlb \cup {v} /\ u.disk[v] = s.content[v]
      /\ \A w \in DOMAIN s.content : w # v => u.content[w] = s.content[w]
      /\ \A w \in DOMAIN s.disk : w # v => u.disk[w] = s.disk[w]
  <2>1. PICK c, d, x : c = s.content /\ d = s.disk /\ x = s.content[v]
    OBVIOUS
  <2>2. /\ DOMAIN Del(c, v) = DOMAIN c \ {v}
        /\ \A w \in DOMAIN c : w # v => Del(c, v)[w] = c[w]
    BY ONLY DelFacts
  <2>3. /\ DOMAIN Put(d, v, x) = DOMAIN d \cup {v} /\ Put(d, v, x)[v] = x
        /\ \A w \in DOMAIN d : w # v => Put(d, v, x)[w] = d[w]
    <3>1. DOMAIN Put(d, v, x) = DOMAIN d \cup {v}
      BY ONLY PutDomain
    <3>2. Put(d, v, x)[v] = x
      BY ONLY PutNew
    <3>3. \A w \in DOMAIN d : w # v => Put(d, v, x)[w] = d[w]
      BY ONLY PutOld
    <3> QED BY ONLY <3>1, <3>2, <3>3
  <2>4. DOMAIN u.tlb = DOMAIN s.tlb \cup {v}
    <3>1. DOMAIN Put(s.tlb, v, "no") = DOMAIN s.tlb \cup {v}
      BY ONLY PutDomain
    <3> QED BY <1>5, <1>6, <3>1
  <2>5. u.content = Del(c, v) /\ u.disk = Put(d, v, x)
    BY <1>5, <1>6, <2>1
  <2> QED BY ONLY <2>1, <2>2, <2>3, <2>4, <2>5
<1>10. /\ u.content \in [DOMAIN u.content -> Nat] /\ u.disk \in [DOMAIN u.disk -> Nat]
       /\ u.bits \in [DOMAIN u.content -> Bits]
  <2>1. s.content[v] \in Nat
    BY <1>7, <1>8
  <2>2. Del(s.content, v) \in [DOMAIN s.content \ {v} -> Nat]
    BY ONLY <1>8, DelType
  <2>3. Put(s.disk, v, s.content[v]) \in [DOMAIN s.disk \cup {v} -> Nat]
    BY ONLY <1>8, <2>1, PutType
  <2>4. Del(t.bits, v) \in [DOMAIN s.content \ {v} -> Bits]
    BY ONLY <1>5, DelType
  <2> QED BY ONLY <1>5, <1>6, <1>9, <2>2, <2>3, <2>4
<1>11. Row(Page, u.pra, n - 1) /\ Members(u.pra, n - 1) = DOMAIN u.content
  <2>1. /\ Row(Page, Without(s.pra, n, j), n - 1)
        /\ Members(Without(s.pra, n, j), n - 1) = Members(s.pra, n) \ {s.pra[j]}
    BY ONLY <1>8, j \in 1 .. n, n \in Nat, RowWithout
  <2> QED BY ONLY <1>5, <1>6, <1>8, <1>9, <2>1
<1>12. Ok(u, n - 1)
  BY <1>6, <1>8, <1>9, <1>10, <1>11 DEF Ok
<1>13. Dom(u) = Dom(s) /\ DOMAIN u.content \subseteq DOMAIN s.content
  BY <1>7, <1>9 DEF Dom
<1>14. ASSUME NEW w \in Dom(s) PROVE Val(u, w) = Val(s, w)
  <2>1. CASE w = v
    BY <1>7, <1>9, <2>1 DEF Val
  <2>2. CASE w # v
    BY <1>9, <2>2 DEF Val, Dom
  <2> QED BY <2>1, <2>2
<1> QED BY <1>2, <1>3, <1>5, <1>6, <1>12, <1>13, <1>14 DEF Moved

\* A failed write leaves the memory as it is, and the page on the list.
LEMMA FailedOnce ==
  ASSUME NEW s, NEW n \in Nat, Ok(s, n), n > 0, sm \in Managers
  PROVE  Ok(swap_out_failed(s), n) /\ SameMemory(s, swap_out_failed(s))
<1>1. PICK t : t = sm_victim([s EXCEPT !.victim = 0])
  OBVIOUS
<1>2. PICK j \in 1 .. n : Took(s, t, n, j)
  BY ONLY <1>1, NextVictim, n \in Nat, Ok(s, n), n > 0
<1>3. PICK v, u : v = t.victim /\ u = swap_out_failed(s)
  OBVIOUS
<1>4. u = swap_map_swappable(t, v)
  BY <1>1, <1>3 DEF swap_out_failed
<1>5. /\ IsState(t) /\ SameMemory(s, t) /\ v = s.pra[j] /\ t.pra = Without(s.pra, n, j)
      /\ t.bits \in [DOMAIN s.content -> Bits]
  BY <1>2, <1>3 DEF Took
<1>6. v \in Page /\ v \in DOMAIN s.content
  BY ONLY <1>2, <1>3, TookPage, Ok(s, n), n \in Nat
<1>7. Row(Page, s.pra, n) /\ Members(s.pra, n) = DOMAIN s.content
  BY DEF Ok
<1>8. n - 1 \in Nat /\ (n - 1) + 1 = n
  OBVIOUS
<1>9. /\ Row(Page, t.pra, n - 1) /\ Members(t.pra, n - 1) = DOMAIN s.content \ {v}
  <2>1. /\ Row(Page, Without(s.pra, n, j), n - 1)
        /\ Members(Without(s.pra, n, j), n - 1) = Members(s.pra, n) \ {s.pra[j]}
    BY ONLY <1>7, j \in 1 .. n, n \in Nat, RowWithout
  <2> QED BY ONLY <1>5, <1>7, <2>1
<1>10. /\ IsState(u) /\ SameMemory(t, u) /\ u.bits = t.bits /\ u.pra = Pushed(v, t.pra, n - 1)
  BY ONLY <1>4, <1>5, <1>6, <1>8, <1>9, sm \in Managers, MapSwappable
<1>11. Row(Page, u.pra, n) /\ Members(u.pra, n) = DOMAIN s.content
  <2>1. v \notin Members(t.pra, n - 1)
    BY <1>9
  <2>2. /\ Row(Page, Pushed(v, t.pra, n - 1), (n - 1) + 1)
        /\ Members(Pushed(v, t.pra, n - 1), (n - 1) + 1) = Members(t.pra, n - 1) \cup {v}
    BY ONLY <1>6, <1>8, <1>9, <2>1, RowFront
  <2> QED BY ONLY <1>6, <1>8, <1>9, <1>10, <2>2
<1>12. SameMemory(s, u) /\ u.bits \in [DOMAIN s.content -> Bits]
  BY <1>5, <1>10 DEF SameMemory
<1> QED BY <1>3, <1>10, <1>11, <1>12 DEF Ok, SameMemory

\* Induction up to n, for the members of a set.
LEMMA InductionUpTo ==
  ASSUME NEW n \in Nat, NEW S, 0 \in S, \A k \in 0 .. n - 1 : k \in S => k + 1 \in S
  PROVE  \A k \in 0 .. n : k \in S
<1> DEFINE out == {k \in 0 .. n : k \notin S}
<1> SUFFICES ASSUME out # {} PROVE FALSE
  OBVIOUS
<1>1. out \subseteq Nat
  OBVIOUS
<1> HIDE DEF out
<1>2. PICK x \in out : \A y \in out : x <= y
  BY <1>1, LeastMember
<1>3. x \in 0 .. n /\ x \notin S
  BY DEF out
<1>4. x # 0 /\ x - 1 \in 0 .. n - 1 /\ x - 1 \in 0 .. n /\ (x - 1) + 1 = x
  BY <1>3
<1>5. x - 1 \in S
  BY <1>2, <1>4 DEF out
<1> QED BY <1>3, <1>4, <1>5

\* The states g[0], ..., g[m] that m failed writes go through.
Attempts(s, g, m) == g = [k \in 0 .. m |-> IF k = 0 THEN s ELSE swap_out_failed(g[k - 1])]

LEMMA AttemptsExist ==
  ASSUME NEW s, NEW e \in Nat
  PROVE  \E g : Attempts(s, g, e)
<1> DEFINE S == {m \in 0 .. e : \E g : Attempts(s, g, m)}
<1>1. 0 \in S
  <2> DEFINE g == [k \in 0 .. 0 |-> s]
  <2>1. g = [k \in 0 .. 0 |-> IF k = 0 THEN s ELSE swap_out_failed(g[k - 1])]
    OBVIOUS
  <2>2. Attempts(s, g, 0)
    BY <2>1 DEF Attempts
  <2> QED BY <2>2
<1>2. ASSUME NEW m \in 0 .. e - 1, m \in S PROVE m + 1 \in S
  <2>1. PICK g : Attempts(s, g, m)
    BY <1>2
  <2> DEFINE h == [k \in 0 .. m + 1 |-> IF k = m + 1 THEN swap_out_failed(g[m]) ELSE g[k]]
  <2>2. ASSUME NEW k \in 0 .. m + 1
        PROVE  h[k] = IF k = 0 THEN s ELSE swap_out_failed(h[k - 1])
    <3>1. m \in Nat /\ (k = m + 1 => k # 0 /\ k - 1 = m /\ m \in 0 .. m + 1 /\ m # m + 1)
      OBVIOUS
    <3>2. CASE k = m + 1
      BY <3>1, <3>2
    <3>3. CASE k # m + 1
      <4>1. k \in 0 .. m /\ h[k] = g[k]
        BY <3>1, <3>3
      <4>2. g[k] = IF k = 0 THEN s ELSE swap_out_failed(g[k - 1])
        BY <2>1, <4>1 DEF Attempts
      <4>3. k # 0 => k - 1 \in 0 .. m + 1 /\ k - 1 # m + 1
        BY <3>1, <4>1
      <4>4. k # 0 => h[k - 1] = g[k - 1]
        BY <4>3
      <4> QED BY <4>1, <4>2, <4>4
    <3> QED BY <3>2, <3>3
  <2>3. h = [k \in 0 .. m + 1 |-> h[k]]
    OBVIOUS
  <2> HIDE DEF h
  <2>4. h = [k \in 0 .. m + 1 |-> IF k = 0 THEN s ELSE swap_out_failed(h[k - 1])]
    BY <2>2, <2>3
  <2>5. Attempts(s, h, m + 1)
    BY <2>4 DEF Attempts
  <2>6. m + 1 \in 0 .. e
    OBVIOUS
  <2> QED BY <2>5, <2>6
<1> HIDE DEF S
<1>3. \A k \in 0 .. e : k \in S
  BY <1>1, <1>2, InductionUpTo
<1>4. e \in S
  BY <1>3
<1> QED BY <1>4 DEF S

\* However many writes fail, the memory stays as it is and every page on the list.
LEMMA FailuresKeep ==
  ASSUME NEW s, NEW e, NEW n \in Nat, Ok(s, n), n > 0, sm \in Managers, e \in Nat
  PROVE  /\ Ok(Failures(s, e), n) /\ SameMemory(s, Failures(s, e))
         /\ e = 0 => Failures(s, e) = s
<1> DEFINE f == CHOOSE g : Attempts(s, g, e)
<1>1. Failures(s, e) = f[e]
  BY DEF Failures, Attempts
<1>2. Attempts(s, f, e)
  BY AttemptsExist
<1> HIDE DEF f
<1>3. f[0] = s /\ \A k \in 0 .. e - 1 : f[k + 1] = swap_out_failed(f[k])
  <2>1. f[0] = s
    BY <1>2 DEF Attempts
  <2>2. ASSUME NEW k \in 0 .. e - 1 PROVE f[k + 1] = swap_out_failed(f[k])
    <3>1. k + 1 \in 0 .. e /\ k + 1 # 0 /\ (k + 1) - 1 = k
      OBVIOUS
    <3> QED BY <1>2, <3>1 DEF Attempts
  <2> QED BY <2>1, <2>2
<1> DEFINE S == {k \in 0 .. e : Ok(f[k], n) /\ SameMemory(s, f[k])}
<1>4. 0 \in S
  BY <1>3 DEF SameMemory
<1>5. ASSUME NEW k \in 0 .. e - 1, k \in S PROVE k + 1 \in S
  <2>1. PICK t : t = f[k]
    OBVIOUS
  <2>2. Ok(t, n) /\ SameMemory(s, t)
    BY <1>5, <2>1
  <2>3. Ok(swap_out_failed(t), n) /\ SameMemory(t, swap_out_failed(t))
    BY ONLY <2>2, FailedOnce, n \in Nat, n > 0, sm \in Managers
  <2>4. SameMemory(s, swap_out_failed(t))
    BY <2>2, <2>3 DEF SameMemory
  <2>5. f[k + 1] = swap_out_failed(t) /\ k + 1 \in 0 .. e
    BY <1>3, <2>1
  <2> QED BY <2>3, <2>4, <2>5
<1> HIDE DEF S
<1>6. \A k \in 0 .. e : k \in S
  BY ONLY <1>4, <1>5, InductionUpTo, e \in Nat
<1>7. e \in S
  BY <1>6
<1> QED BY <1>1, <1>3, <1>7 DEF S

-----------------------------------------------------------------------------
\* a is s with room for a page: m pages are resident.
Room(s, a, m) ==
  /\ m \in Nat /\ m < NFrame /\ Ok(a, m) /\ Moved(s, a)

LEMMA AllocPage ==
  ASSUME NEW s, NEW e, NEW n \in Nat, Ok(s, n), sm \in Managers, e \in Nat,
         NFrame \in Nat \ {0}, n <= NFrame
  PROVE  /\ \E m : Room(s, alloc_page(s, e), m)
         /\ n < NFrame => alloc_page(s, e) = s
         /\ sm = "fifo" /\ e = 0 /\ n = NFrame =>
               alloc_page(s, e).pra = Without(s.pra, n, n) /\ Ok(alloc_page(s, e), n - 1)
<1>1. Cardinality(DOMAIN s.content) = n
  <2>1. Row(Page, s.pra, n) /\ Members(s.pra, n) = DOMAIN s.content
    BY DEF Ok
  <2>2. Cardinality(Members(s.pra, n)) = n
    BY ONLY <2>1, RowCardinality, n \in Nat
  <2> QED BY <2>1, <2>2
<1>2. CASE n < NFrame
  <2>1. alloc_page(s, e) = s
    BY <1>1, <1>2 DEF alloc_page
  <2>2. Moved(s, s)
    BY DEF Moved
  <2>3. Room(s, s, n)
    BY <1>2, <2>2 DEF Room
  <2> QED BY <1>2, <2>1, <2>3
<1>3. CASE n = NFrame
  <2>1. n > 0 /\ n - 1 \in Nat /\ n - 1 < NFrame
    BY <1>3
  <2>2. PICK t : t = Failures(s, e)
    OBVIOUS
  <2>3. alloc_page(s, e) = swap_out(t)
    BY <1>1, <1>3, <2>2 DEF alloc_page
  <2>4. Ok(t, n) /\ SameMemory(s, t) /\ (e = 0 => t = s)
    BY ONLY <2>1, <2>2, FailuresKeep, n \in Nat, e \in Nat, Ok(s, n), sm \in Managers
  <2>5. /\ Ok(swap_out(t), n - 1) /\ Moved(t, swap_out(t))
        /\ sm = "fifo" => swap_out(t).pra = Without(t.pra, n, n)
    BY ONLY <2>1, <2>4, SwapOut, n \in Nat
  <2>6. Moved(s, swap_out(t))
    BY <2>4, <2>5 DEF Moved, SameMemory, Dom, Val
  <2>7. Room(s, swap_out(t), n - 1)
    BY <2>1, <2>5, <2>6 DEF Room
  <2> QED BY <1>3, <2>3, <2>4, <2>5, <2>7
<1> QED BY <1>2, <1>3

-----------------------------------------------------------------------------
\* What do_pgfault makes of the state a with room: page v with contents x.
In(a, v, x) ==
  tlb_invalidate([[a EXCEPT !.content = Put(@, v, x)] EXCEPT !.disk = Del(@, v),
                                                             !.bits = Put(@, v, {})], v)

LEMMA InFields ==
  ASSUME NEW a, NEW v, NEW x, IsState(a)
  PROVE  /\ IsState(In(a, v, x)) /\ In(a, v, x).pra = a.pra
         /\ In(a, v, x).content = Put(a.content, v, x)
         /\ In(a, v, x).disk = Del(a.disk, v)
         /\ In(a, v, x).bits = Put(a.bits, v, {}) /\ In(a, v, x).tlb = Put(a.tlb, v, "no")
<1>1. PICK c, d, b, l : /\ c = Put(a.content, v, x) /\ d = Del(a.disk, v)
                        /\ b = Put(a.bits, v, {}) /\ l = Put(a.tlb, v, "no")
  OBVIOUS
<1>2. PICK y : y = [a EXCEPT !.content = c]
  OBVIOUS
<1>3. /\ IsState(y) /\ y.content = c /\ y.disk = a.disk /\ y.bits = a.bits /\ y.tlb = a.tlb
      /\ y.pra = a.pra
  BY <1>2 DEF IsState
<1>4. PICK z : z = [y EXCEPT !.disk = d, !.bits = b]
  OBVIOUS
<1>5. IsState(z) /\ z.content = c /\ z.disk = d /\ z.bits = b /\ z.tlb = a.tlb /\ z.pra = a.pra
  BY <1>3, <1>4 DEF IsState
<1>6. In(a, v, x) = [z EXCEPT !.tlb = l]
  BY <1>1, <1>2, <1>3, <1>4, <1>5 DEF In, tlb_invalidate
<1> QED BY <1>1, <1>5, <1>6 DEF IsState

\* r is a with page v resident, in front of the list and with contents x.
Paged(a, r, v, x, m) ==
  /\ IsState(r) /\ r.pra = Pushed(v, a.pra, m)
  /\ r.content = Put(a.content, v, x) /\ r.disk = Del(a.disk, v)
  /\ r.bits = Put(a.bits, v, {}) /\ r.tlb = Put(a.tlb, v, "no")

LEMMA PagedOk ==
  ASSUME NEW a, NEW r, NEW v, NEW x, NEW m \in Nat, Ok(a, m), v \in Page, v \notin DOMAIN a.content,
         x \in Nat, Paged(a, r, v, x, m)
  PROVE  /\ Ok(r, m + 1) /\ Dom(r) = Dom(a) \cup {v} /\ v \in DOMAIN r.content /\ Val(r, v) = x
         /\ \A w \in Dom(a) : w # v => Val(r, w) = Val(a, w)
<1>1. /\ Row(Page, a.pra, m) /\ Members(a.pra, m) = DOMAIN a.content
      /\ a.bits \in [DOMAIN a.content -> Bits]
      /\ a.content \in [DOMAIN a.content -> Nat] /\ a.disk \in [DOMAIN a.disk -> Nat]
      /\ DOMAIN a.content \cap DOMAIN a.disk = {} /\ DOMAIN a.content \subseteq DOMAIN a.tlb
  BY DEF Ok
<1>2. /\ IsState(r) /\ r.pra = Pushed(v, a.pra, m)
      /\ r.content = Put(a.content, v, x) /\ r.disk = Del(a.disk, v)
      /\ r.bits = Put(a.bits, v, {}) /\ r.tlb = Put(a.tlb, v, "no")
  BY DEF Paged
<1>3. DOMAIN r.content = DOMAIN a.content \cup {v}
  <2>1. DOMAIN Put(a.content, v, x) = DOMAIN a.content \cup {v}
    BY ONLY PutDomain
  <2> QED BY <1>2, <2>1
<1>4. DOMAIN r.tlb = DOMAIN a.tlb \cup {v}
  <2>1. DOMAIN Put(a.tlb, v, "no") = DOMAIN a.tlb \cup {v}
    BY ONLY PutDomain
  <2> QED BY <1>2, <2>1
<1>5. r.content[v] = x
  <2>1. Put(a.content, v, x)[v] = x
    BY ONLY PutNew
  <2> QED BY <1>2, <2>1
<1>6. \A w \in DOMAIN a.content : w # v => r.content[w] = a.content[w]
  <2>1. \A w \in DOMAIN a.content : w # v => Put(a.content, v, x)[w] = a.content[w]
    BY ONLY PutOld
  <2> QED BY <1>2, <2>1
<1>7. /\ DOMAIN r.disk = DOMAIN a.disk \ {v}
      /\ \A w \in DOMAIN a.disk : w # v => r.disk[w] = a.disk[w]
  <2>1. /\ DOMAIN Del(a.disk, v) = DOMAIN a.disk \ {v}
        /\ \A w \in DOMAIN a.disk : w # v => Del(a.disk, v)[w] = a.disk[w]
    BY ONLY DelFacts
  <2> QED BY <1>2, <2>1
<1>8. /\ r.content \in [DOMAIN r.content -> Nat] /\ r.disk \in [DOMAIN r.disk -> Nat]
      /\ r.bits \in [DOMAIN r.content -> Bits]
  <2>1. {} \in Bits
    BY DEF Bits
  <2>2. Put(a.content, v, x) \in [DOMAIN a.content \cup {v} -> Nat]
    BY ONLY <1>1, x \in Nat, PutType
  <2>3. Put(a.bits, v, {}) \in [DOMAIN a.content \cup {v} -> Bits]
    BY ONLY <1>1, <2>1, PutType
  <2>4. Del(a.disk, v) \in [DOMAIN a.disk \ {v} -> Nat]
    BY ONLY <1>1, DelType
  <2> QED BY ONLY <1>2, <1>3, <1>7, <2>2, <2>3, <2>4
<1>9. Row(Page, r.pra, m + 1) /\ Members(r.pra, m + 1) = DOMAIN r.content
  <2>1. v \notin Members(a.pra, m) /\ Row(Page, a.pra, m)
    BY <1>1
  <2>2. /\ Row(Page, Pushed(v, a.pra, m), m + 1)
        /\ Members(Pushed(v, a.pra, m), m + 1) = Members(a.pra, m) \cup {v}
    BY ONLY <2>1, v \in Page, m \in Nat, RowFront
  <2> QED BY ONLY <1>1, <1>2, <1>3, <2>2
<1>10. Ok(r, m + 1)
  BY <1>1, <1>2, <1>3, <1>4, <1>7, <1>8, <1>9 DEF Ok
<1>11. Dom(r) = Dom(a) \cup {v}
  BY <1>3, <1>7 DEF Dom
<1>12. v \in DOMAIN r.content /\ Val(r, v) = x
  BY <1>3, <1>5 DEF Val
<1>13. ASSUME NEW w \in Dom(a), w # v PROVE Val(r, w) = Val(a, w)
  BY <1>3, <1>6, <1>7, <1>13 DEF Val, Dom
<1> QED BY <1>10, <1>11, <1>12, <1>13

\* A fault on page v, which is not resident: a frame is found for it, nothing
\* else changes for the program, and a page of the swap area is read back.
LEMMA PageFault ==
  ASSUME NEW s, NEW v, NEW e, NEW n \in Nat, Ok(s, n), sm \in Managers, e \in Nat,
         NFrame \in Nat \ {0}, n <= NFrame, v \in Page, v \notin DOMAIN s.content
  PROVE  LET a == alloc_page(s, e)
             r == do_pgfault(s, v, e)
         IN  /\ \E m \in Nat : /\ m < NFrame /\ Ok(a, m) /\ Ok(r, m + 1)
                               /\ r.pra = Pushed(v, a.pra, m)
             /\ Dom(r) = Dom(s) \cup {v} /\ v \in DOMAIN r.content
             /\ \A w \in Dom(s) : Val(r, w) = Val(s, w)
<1>1. PICK a, r : a = alloc_page(s, e) /\ r = do_pgfault(s, v, e)
  OBVIOUS
<1>2. PICK m : Room(s, a, m)
  BY ONLY <1>1, AllocPage, n \in Nat, Ok(s, n), sm \in Managers, e \in Nat,
          NFrame \in Nat \ {0}, n <= NFrame
<1>3. /\ m \in Nat /\ m < NFrame /\ Ok(a, m)
      /\ Dom(a) = Dom(s) /\ DOMAIN a.content \subseteq DOMAIN s.content
      /\ \A w \in Dom(s) : Val(a, w) = Val(s, w)
  BY <1>2 DEF Room, Moved
<1>4. IsState(a) /\ Row(Page, a.pra, m) /\ a.disk \in [DOMAIN a.disk -> Nat]
  BY <1>3 DEF Ok
<1>5. v \notin DOMAIN a.content
  BY <1>3
<1>6. v \in DOMAIN s.disk <=> v \in DOMAIN a.disk
  BY <1>3, <1>5 DEF Dom
<1>7. PICK x : x = IF v \in DOMAIN s.disk THEN a.disk[v] ELSE 0
  OBVIOUS
<1>8. x \in Nat
  BY <1>4, <1>6, <1>7
<1>9. r = swap_map_swappable(In(a, v, x), v)
  BY <1>1, <1>7 DEF do_pgfault, swap_in, swapfs_read, In
<1>10. Paged(a, r, v, x, m)
  <2>1. /\ IsState(In(a, v, x)) /\ In(a, v, x).pra = a.pra
        /\ In(a, v, x).content = Put(a.content, v, x)
        /\ In(a, v, x).disk = Del(a.disk, v)
        /\ In(a, v, x).bits = Put(a.bits, v, {}) /\ In(a, v, x).tlb = Put(a.tlb, v, "no")
    BY ONLY <1>4, InFields
  <2>2. PICK y : y = In(a, v, x)
    OBVIOUS
  <2>3. IsState(y) /\ Row(Page, y.pra, m)
    BY <1>4, <2>1, <2>2
  <2>4. /\ IsState(swap_map_swappable(y, v)) /\ SameMemory(y, swap_map_swappable(y, v))
        /\ swap_map_swappable(y, v).bits = y.bits
        /\ swap_map_swappable(y, v).pra = Pushed(v, y.pra, m)
    BY ONLY <1>3, <2>3, MapSwappable, sm \in Managers, v \in Page
  <2> QED BY <1>9, <2>1, <2>2, <2>4 DEF Paged, SameMemory
<1>11. /\ Ok(r, m + 1) /\ Dom(r) = Dom(a) \cup {v} /\ v \in DOMAIN r.content /\ Val(r, v) = x
       /\ \A w \in Dom(a) : w # v => Val(r, w) = Val(a, w)
  BY ONLY <1>3, <1>5, <1>8, <1>10, v \in Page, PagedOk
<1>12. v \in Dom(s) => Val(r, v) = Val(s, v)
  <2>1. v \in Dom(s) => v \in DOMAIN a.disk /\ Val(s, v) = a.disk[v]
    BY <1>3, <1>5 DEF Val, Dom
  <2> QED BY <1>6, <1>7, <1>11, <2>1
<1>13. \A w \in Dom(s) : Val(r, w) = Val(s, w)
  BY <1>3, <1>11, <1>12
<1>14. r.pra = Pushed(v, a.pra, m)
  BY <1>10 DEF Paged
<1> QED BY <1>1, <1>3, <1>11, <1>13, <1>14

\* t is s after an access to page v that leaves x in it.
Touched(s, t, v, x) ==
  /\ IsState(t) /\ t.pra = s.pra /\ t.disk = s.disk
  /\ DOMAIN t.tlb = DOMAIN s.tlb
  /\ t.bits \in [DOMAIN s.content -> Bits] /\ t.content = [s.content EXCEPT ![v] = x]

LEMMA TouchFields ==
  ASSUME NEW s, NEW v, NEW op, NEW x, NEW n \in Nat, Ok(s, n), v \in DOMAIN s.content
  PROVE  Touched(s, Touch(s, v, op, x), v, IF op = "w" THEN x ELSE s.content[v])
<1> DEFINE seen == s.tlb[v]
           fresh == IF op = "w" THEN seen # "dirty" ELSE seen = "no"
           b == s.bits[v] \cup {"A"} \cup (IF op = "w" THEN {"D"} ELSE {})
           b1 == IF fresh THEN b ELSE s.bits[v]
           l1 == IF fresh THEN IF "D" \in b THEN "dirty" ELSE "clean" ELSE s.tlb[v]
           c1 == IF op = "w" THEN x ELSE s.content[v]
<1>1. Touch(s, v, op, x) = [s EXCEPT !.bits[v] = b1, !.tlb[v] = l1, !.content[v] = c1]
  BY DEF Touch
<1>2. IsState(s) /\ s.bits \in [DOMAIN s.content -> Bits]
  BY DEF Ok
<1>3. b1 \in Bits
  BY <1>2 DEF Bits
<1> HIDE DEF b1, l1
<1>4. PICK c, d, l : /\ c = [s.content EXCEPT ![v] = c1] /\ d = [s.bits EXCEPT ![v] = b1]
                     /\ l = [s.tlb EXCEPT ![v] = l1]
  OBVIOUS
<1>5. d \in [DOMAIN s.content -> Bits] /\ DOMAIN l = DOMAIN s.tlb
  BY <1>2, <1>3, <1>4
<1> HIDE DEF c1
<1>6. Touch(s, v, op, x) = [s EXCEPT !.bits = d, !.tlb = l, !.content = c]
  BY <1>1, <1>2, <1>4 DEF IsState
<1> QED BY <1>2, <1>4, <1>5, <1>6 DEF Touched, IsState, c1

LEMMA TouchedOk ==
  ASSUME NEW s, NEW t, NEW v, NEW x, NEW n \in Nat, Ok(s, n), v \in DOMAIN s.content, x \in Nat,
         Touched(s, t, v, x)
  PROVE  /\ Ok(t, n) /\ Dom(t) = Dom(s) /\ v \in DOMAIN t.content /\ Val(t, v) = x
         /\ \A w \in Dom(s) : w # v => Val(t, w) = Val(s, w)
<1>1. /\ IsState(t) /\ t.pra = s.pra /\ t.disk = s.disk /\ DOMAIN t.tlb = DOMAIN s.tlb
      /\ t.bits \in [DOMAIN s.content -> Bits] /\ t.content = [s.content EXCEPT ![v] = x]
  BY DEF Touched
<1>2. /\ DOMAIN t.content = DOMAIN s.content /\ t.content[v] = x
      /\ \A w \in DOMAIN s.content : w # v => t.content[w] = s.content[w]
  BY <1>1
<1>3. t.content \in [DOMAIN s.content -> Nat]
  BY <1>1 DEF Ok
<1>4. Ok(t, n)
  BY <1>1, <1>2, <1>3 DEF Ok
<1> QED BY <1>1, <1>2, <1>4 DEF Dom, Val

\* u is s after an access to page v: the page holds x after a store and what it
\* held before after a load, and no other page has changed.
Accessed(s, u, v, op, x) ==
  /\ Dom(u) = Dom(s) \cup {v} /\ v \in DOMAIN u.content
  /\ op = "w" => Val(u, v) = x
  /\ op # "w" /\ v \in Dom(s) => Val(u, v) = Val(s, v)
  /\ \A w \in Dom(s) : w # v => Val(u, w) = Val(s, w)

\* The state after an access, as script_access and free_access compute it.
After(s, v, op, x, e) == Touch(IF v \in DOMAIN s.content THEN s ELSE do_pgfault(s, v, e), v, op, x)

\* How the fifo manager's list changes: not at all, or v is put in front, in the
\* place of the last if all frames are in use.
FifoList(s, u, v, n) ==
  /\ v \in DOMAIN s.content => u.pra = s.pra
  /\ v \notin DOMAIN s.content /\ n < NFrame => u.pra = Pushed(v, s.pra, n)
  /\ v \notin DOMAIN s.content /\ n = NFrame => u.pra = Pushed(v, Without(s.pra, n, n), n - 1)

LEMMA Access ==
  ASSUME NEW s, NEW v, NEW op, NEW x, NEW e, NEW n \in Nat, Ok(s, n), sm \in Managers, e \in Nat,
         NFrame \in Nat \ {0}, n <= NFrame, v \in Page, x \in Nat
  PROVE  /\ \E k \in Nat : k <= NFrame /\ Ok(After(s, v, op, x, e), k)
         /\ Accessed(s, After(s, v, op, x, e), v, op, x)
         /\ sm = "fifo" /\ e = 0 => FifoList(s, After(s, v, op, x, e), v, n)
<1>1. PICK r : r = IF v \in DOMAIN s.content THEN s ELSE do_pgfault(s, v, e)
  OBVIOUS
<1>2. PICK u : u = After(s, v, op, x, e)
  OBVIOUS
<1>3. u = Touch(r, v, op, x)
  BY <1>1, <1>2 DEF After
<1>4. /\ \E k \in Nat : k <= NFrame /\ Ok(r, k)
      /\ Dom(r) = Dom(s) \cup {v} /\ v \in DOMAIN r.content
      /\ \A w \in Dom(s) : Val(r, w) = Val(s, w)
      /\ sm = "fifo" /\ e = 0 => FifoList(s, r, v, n)
  <2>1. CASE v \in DOMAIN s.content
    BY <1>1, <2>1 DEF Dom, FifoList
  <2>2. CASE v \notin DOMAIN s.content
    <3>1. PICK a : a = alloc_page(s, e)
      OBVIOUS
    <3>2. /\ \E m \in Nat : /\ m < NFrame /\ Ok(a, m) /\ Ok(r, m + 1)
                            /\ r.pra = Pushed(v, a.pra, m)
          /\ Dom(r) = Dom(s) \cup {v} /\ v \in DOMAIN r.content
          /\ \A w \in Dom(s) : Val(r, w) = Val(s, w)
      BY <1>1, <2>2, <3>1, PageFault
    <3>3. PICK m \in Nat : m < NFrame /\ Ok(a, m) /\ Ok(r, m + 1) /\ r.pra = Pushed(v, a.pra, m)
      BY <3>2
    <3>4. m + 1 \in Nat /\ m + 1 <= NFrame
      BY <3>3
    <3>5. ASSUME sm = "fifo", e = 0 PROVE FifoList(s, r, v, n)
      <4>1. Len(a.pra) = m
        <5>1. Row(Page, a.pra, m)
          BY <3>3 DEF Ok
        <5> QED BY <5>1, RowIsSeq
      <4>2. ASSUME n < NFrame PROVE r.pra = Pushed(v, s.pra, n)
        <5>1. a = s
          BY <3>1, <4>2, AllocPage
        <5>2. Row(Page, s.pra, n)
          BY DEF Ok
        <5>3. Len(s.pra) = n
          BY <5>2, RowIsSeq
        <5> QED BY <3>3, <4>1, <5>1, <5>3
      <4>3. ASSUME n = NFrame PROVE r.pra = Pushed(v, Without(s.pra, n, n), n - 1)
        <5>1. a.pra = Without(s.pra, n, n) /\ Ok(a, n - 1) /\ n - 1 \in Nat
          BY <3>1, <3>5, <4>3, AllocPage
        <5>2. Row(Page, a.pra, n - 1)
          BY <5>1 DEF Ok
        <5>3. Len(a.pra) = n - 1
          BY ONLY <5>1, <5>2, RowIsSeq
        <5> QED BY <3>3, <4>1, <5>1, <5>3
      <4> QED BY <2>2, <4>2, <4>3 DEF FifoList
    <3> QED BY <3>2, <3>3, <3>4, <3>5
  <2> QED BY <2>1, <2>2
<1>5. PICK k \in Nat : k <= NFrame /\ Ok(r, k)
  BY <1>4
<1>6. PICK y : y = IF op = "w" THEN x ELSE r.content[v]
  OBVIOUS
<1>7. y \in Nat
  BY <1>4, <1>5, <1>6 DEF Ok
<1>8. Touched(r, u, v, y)
  BY <1>3, <1>4, <1>5, <1>6, TouchFields
<1>9. /\ Ok(u, k) /\ Dom(u) = Dom(r) /\ v \in DOMAIN u.content /\ Val(u, v) = y
      /\ \A w \in Dom(r) : w # v => Val(u, w) = Val(r, w)
  BY ONLY <1>4, <1>5, <1>7, <1>8, TouchedOk
<1>10. op # "w" => y = Val(r, v)
  BY <1>4, <1>6 DEF Val
<1>11. Accessed(s, u, v, op, x)
  BY <1>4, <1>6, <1>9, <1>10 DEF Accessed
<1>12. u.pra = r.pra
  BY <1>8 DEF Touched
<1>13. sm = "fifo" /\ e = 0 => FifoList(s, u, v, n)
  BY <1>4, <1>12 DEF FifoList
<1> QED BY <1>2, <1>5, <1>9, <1>11, <1>13

-----------------------------------------------------------------------------
\* The script of check_swap with the fifo manager.  Pages fault in the order 1,
\* 2, 3, 4, 5, 1, 2, ...: the k-th fault is on Nth(k).
FifoScript == check_content_set \o _fifo_check_swap
Nth(k) == IF k <= 5 THEN k ELSE IF k <= 10 THEN k - 5 ELSE k - 10

\* After f faults the list holds the last four pages that faulted.
Shown(f) == IF f < 4 THEN f ELSE 4
FifoAt(f) == /\ f \in 0 .. 11 /\ Len(pra) = Shown(f)
             /\ \A i \in 1 .. Len(pra) : pra[i] = Nth(f + 1 - i)
             /\ \A w \in Dom(Now) : Val(Now, w) = w
             /\ f > 0 => 1 \in Dom(Now)

FaultsBefore(k) == IF k = 1 THEN 0 ELSE FifoScript[k - 1].n

FifoRun == /\ pc \in 1 .. 22 /\ pgfault_num = FaultsBefore(pc)
           /\ FifoAt(pgfault_num)

\* The inductive invariant.
Inv == /\ sm \in Managers
       /\ stage \in {"idle", "script", "free", "pgfault", "assert"}
       /\ Ok(Now, Len(pra))
       /\ stage # "pgfault" => Len(pra) <= NFrame
       /\ stage = "idle" => content = No /\ disk = No /\ pgfault_num = 0
       /\ stage \in {"idle", "script"} => pc \in Nat \ {0}
       /\ stage = "idle" => pc = 1
       /\ sm = "fifo" => stage # "assert"
       /\ sm = "fifo" /\ stage = "script" => FifoRun

Statement == [op : {"r", "w"}, v : 1 .. 5, n : Nat]

\* The entries of a concatenation.
Joins(T, a, b, c) == a \in Seq(T) /\ b \in Seq(T) /\ c = a \o b

LEMMA Joined ==
  ASSUME NEW T, NEW a, NEW b, NEW c, Joins(T, a, b, c)
  PROVE  /\ c \in Seq(T) /\ Len(c) = Len(a) + Len(b)
         /\ \A i \in 1 .. Len(a) : c[i] = a[i]
         /\ \A i \in 1 .. Len(b) : c[i + Len(a)] = b[i]
  BY DEF Joins

LEMMA ScriptStart ==
  /\ check_content_set \in Seq(Statement) /\ Len(check_content_set) = 8
  /\ CheckStart \in Seq(Statement) /\ Len(CheckStart) = 6
<1>1. \A op \in {"r", "w"}, v \in 1 .. 5, n \in Nat : St(op, v, n) \in Statement
  BY DEF St, Statement
<1>2. check_content_set \in Seq(Statement) /\ Len(check_content_set) = 8
  BY <1>1 DEF check_content_set
<1>3. CheckStart \in Seq(Statement) /\ Len(CheckStart) = 6
  BY <1>1 DEF CheckStart
<1> QED BY <1>2, <1>3

\* Whatever the manager, the script accesses pages 1 to 5.
LEMMA ScriptStatements == sm \in Managers => check_swap \in Seq(Statement)
<1>1. \A op \in {"r", "w"}, v \in 1 .. 5, n \in Nat : St(op, v, n) \in Statement
  BY DEF St, Statement
<1>2. _fifo_check_swap \in Seq(Statement)
  BY <1>1, ScriptStart DEF _fifo_check_swap
<1>3. _clock_check_swap \in Seq(Statement)
  BY <1>1, ScriptStart DEF _clock_check_swap
<1> QED BY <1>2, <1>3, ScriptStart DEF Managers, check_swap, _lru_check_swap

LEMMA FifoEntries ==
  /\ Len(FifoScript) = 21
  /\ FifoScript[1] = St("w", 1, 1) /\ FifoScript[2] = St("w", 1, 1)
  /\ FifoScript[3] = St("w", 2, 2) /\ FifoScript[4] = St("w", 2, 2)
  /\ FifoScript[5] = St("w", 3, 3) /\ FifoScript[6] = St("w", 3, 3)
  /\ FifoScript[7] = St("w", 4, 4) /\ FifoScript[8] = St("w", 4, 4)
  /\ FifoScript[9] = St("w", 3, 4) /\ FifoScript[10] = St("w", 1, 4)
  /\ FifoScript[11] = St("w", 4, 4) /\ FifoScript[12] = St("w", 2, 4)
  /\ FifoScript[13] = St("w", 5, 5) /\ FifoScript[14] = St("w", 2, 5)
  /\ FifoScript[15] = St("w", 1, 6) /\ FifoScript[16] = St("w", 2, 7)
  /\ FifoScript[17] = St("w", 3, 8) /\ FifoScript[18] = St("w", 4, 9)
  /\ FifoScript[19] = St("w", 5, 10) /\ FifoScript[20] = St("r", 1, 11)
  /\ FifoScript[21] = St("w", 1, 11)
<1> DEFINE rest == << St("w", 1, 6), St("w", 2, 7), St("w", 3, 8), St("w", 4, 9),
                      St("w", 5, 10), St("r", 1, 11), St("w", 1, 11) >>
<1>1. Len(rest) = 7 /\ rest \in Seq(Statement)
  BY DEF St, Statement
<1>2. /\ rest[1] = St("w", 1, 6) /\ rest[2] = St("w", 2, 7)
      /\ rest[3] = St("w", 3, 8) /\ rest[4] = St("w", 4, 9)
      /\ rest[5] = St("w", 5, 10) /\ rest[6] = St("r", 1, 11)
      /\ rest[7] = St("w", 1, 11)
  OBVIOUS
<1>3. /\ check_content_set[1] = St("w", 1, 1) /\ check_content_set[2] = St("w", 1, 1)
      /\ check_content_set[3] = St("w", 2, 2) /\ check_content_set[4] = St("w", 2, 2)
      /\ check_content_set[5] = St("w", 3, 3) /\ check_content_set[6] = St("w", 3, 3)
      /\ check_content_set[7] = St("w", 4, 4) /\ check_content_set[8] = St("w", 4, 4)
  BY DEF check_content_set
<1>4. /\ CheckStart[1] = St("w", 3, 4) /\ CheckStart[2] = St("w", 1, 4)
      /\ CheckStart[3] = St("w", 4, 4) /\ CheckStart[4] = St("w", 2, 4)
      /\ CheckStart[5] = St("w", 5, 5) /\ CheckStart[6] = St("w", 2, 5)
  BY DEF CheckStart
<1>5. _fifo_check_swap = CheckStart \o rest
  BY DEF _fifo_check_swap
<1> HIDE DEF rest
<1>6. /\ _fifo_check_swap \in Seq(Statement)
      /\ Len(_fifo_check_swap) = Len(CheckStart) + Len(rest)
      /\ \A i \in 1 .. Len(CheckStart) : _fifo_check_swap[i] = CheckStart[i]
      /\ \A i \in 1 .. Len(rest) : _fifo_check_swap[i + Len(CheckStart)] = rest[i]
  <2>1. Joins(Statement, CheckStart, rest, _fifo_check_swap)
    BY <1>1, <1>5, ScriptStart DEF Joins
  <2> QED BY ONLY <2>1, Joined
<1>7. /\ Len(_fifo_check_swap) = 13
      /\ \A i \in 1 .. 6 : _fifo_check_swap[i] = CheckStart[i]
      /\ \A i \in 1 .. 7 : _fifo_check_swap[i + 6] = rest[i]
  BY ONLY <1>1, <1>6, ScriptStart
<1>8. FifoScript = check_content_set \o _fifo_check_swap
  BY DEF FifoScript
<1>m. /\ Len(FifoScript) = Len(check_content_set) + Len(_fifo_check_swap)
      /\ \A i \in 1 .. Len(check_content_set) : FifoScript[i] = check_content_set[i]
      /\ \A i \in 1 .. Len(_fifo_check_swap) :
            FifoScript[i + Len(check_content_set)] = _fifo_check_swap[i]
  <2>1. Joins(Statement, check_content_set, _fifo_check_swap, FifoScript)
    BY <1>6, <1>8, ScriptStart DEF Joins
  <2> QED BY ONLY <2>1, Joined
<1>9. /\ Len(FifoScript) = 21
      /\ \A i \in 1 .. 8 : FifoScript[i] = check_content_set[i]
      /\ \A i \in 1 .. 13 : FifoScript[i + 8] = _fifo_check_swap[i]
  BY ONLY <1>7, <1>m, ScriptStart
<1>10. /\ \A i \in 1 .. 6 : FifoScript[i + 8] = CheckStart[i]
       /\ \A i \in 1 .. 7 : FifoScript[i + 14] = rest[i]
  BY <1>7, <1>9
<1> QED BY <1>2, <1>3, <1>4, <1>9, <1>10

\* A statement i of the script after f faults: it is a fault on the next page of
\* the cycle, or finds its page among the last four; only page 1 is loaded.
Planned(i, f) ==
  /\ f \in 0 .. 11 /\ i.op \in {"r", "w"}
  /\ \/ f < 11 /\ i.n = f + 1 /\ i.v = Nth(f + 1)
     \/ i.n = f /\ \E p \in 1 .. Shown(f) : i.v = Nth(f + 1 - p)
  /\ i.op = "r" => i.v = 1 /\ f > 0

LEMMA FifoPlan ==
  ASSUME NEW k \in 1 .. 21
  PROVE  Planned(FifoScript[k], FaultsBefore(k))
<1>2. CASE k = 1
  <2>1. FaultsBefore(k) = 0 /\ FifoScript[k] = St("w", 1, 1)
    BY <1>2, FifoEntries DEF FaultsBefore, St
  <2> QED BY <2>1 DEF Planned, Nth, St
<1>3. CASE k = 2
  <2>1. FaultsBefore(k) = 1 /\ FifoScript[k] = St("w", 1, 1)
    BY <1>3, FifoEntries DEF FaultsBefore, St
  <2>2. 1 \in 1 .. Shown(1) /\ 1 = Nth(1 + 1 - 1)
    BY DEF Shown, Nth
  <2> QED BY <2>1, <2>2 DEF Planned, St
<1>4. CASE k = 3
  <2>1. FaultsBefore(k) = 1 /\ FifoScript[k] = St("w", 2, 2)
    BY <1>4, FifoEntries DEF FaultsBefore, St
  <2> QED BY <2>1 DEF Planned, Nth, St
<1>5. CASE k = 4
  <2>1. FaultsBefore(k) = 2 /\ FifoScript[k] = St("w", 2, 2)
    BY <1>5, FifoEntries DEF FaultsBefore, St
  <2>2. 1 \in 1 .. Shown(2) /\ 2 = Nth(2 + 1 - 1)
    BY DEF Shown, Nth
  <2> QED BY <2>1, <2>2 DEF Planned, St
<1>6. CASE k = 5
  <2>1. FaultsBefore(k) = 2 /\ FifoScript[k] = St("w", 3, 3)
    BY <1>6, FifoEntries DEF FaultsBefore, St
  <2> QED BY <2>1 DEF Planned, Nth, St
<1>7. CASE k = 6
  <2>1. FaultsBefore(k) = 3 /\ FifoScript[k] = St("w", 3, 3)
    BY <1>7, FifoEntries DEF FaultsBefore, St
  <2>2. 1 \in 1 .. Shown(3) /\ 3 = Nth(3 + 1 - 1)
    BY DEF Shown, Nth
  <2> QED BY <2>1, <2>2 DEF Planned, St
<1>8. CASE k = 7
  <2>1. FaultsBefore(k) = 3 /\ FifoScript[k] = St("w", 4, 4)
    BY <1>8, FifoEntries DEF FaultsBefore, St
  <2> QED BY <2>1 DEF Planned, Nth, St
<1>9. CASE k = 8
  <2>1. FaultsBefore(k) = 4 /\ FifoScript[k] = St("w", 4, 4)
    BY <1>9, FifoEntries DEF FaultsBefore, St
  <2>2. 1 \in 1 .. Shown(4) /\ 4 = Nth(4 + 1 - 1)
    BY DEF Shown, Nth
  <2> QED BY <2>1, <2>2 DEF Planned, St
<1>10. CASE k = 9
  <2>1. FaultsBefore(k) = 4 /\ FifoScript[k] = St("w", 3, 4)
    BY <1>10, FifoEntries DEF FaultsBefore, St
  <2>2. 2 \in 1 .. Shown(4) /\ 3 = Nth(4 + 1 - 2)
    BY DEF Shown, Nth
  <2> QED BY <2>1, <2>2 DEF Planned, St
<1>11. CASE k = 10
  <2>1. FaultsBefore(k) = 4 /\ FifoScript[k] = St("w", 1, 4)
    BY <1>11, FifoEntries DEF FaultsBefore, St
  <2>2. 4 \in 1 .. Shown(4) /\ 1 = Nth(4 + 1 - 4)
    BY DEF Shown, Nth
  <2> QED BY <2>1, <2>2 DEF Planned, St
<1>12. CASE k = 11
  <2>1. FaultsBefore(k) = 4 /\ FifoScript[k] = St("w", 4, 4)
    BY <1>12, FifoEntries DEF FaultsBefore, St
  <2>2. 1 \in 1 .. Shown(4) /\ 4 = Nth(4 + 1 - 1)
    BY DEF Shown, Nth
  <2> QED BY <2>1, <2>2 DEF Planned, St
<1>13. CASE k = 12
  <2>1. FaultsBefore(k) = 4 /\ FifoScript[k] = St("w", 2, 4)
    BY <1>13, FifoEntries DEF FaultsBefore, St
  <2>2. 3 \in 1 .. Shown(4) /\ 2 = Nth(4 + 1 - 3)
    BY DEF Shown, Nth
  <2> QED BY <2>1, <2>2 DEF Planned, St
<1>14. CASE k = 13
  <2>1. FaultsBefore(k) = 4 /\ FifoScript[k] = St("w", 5, 5)
    BY <1>14, FifoEntries DEF FaultsBefore, St
  <2> QED BY <2>1 DEF Planned, Nth, St
<1>15. CASE k = 14
  <2>1. FaultsBefore(k) = 5 /\ FifoScript[k] = St("w", 2, 5)
    BY <1>15, FifoEntries DEF FaultsBefore, St
  <2>2. 4 \in 1 .. Shown(5) /\ 2 = Nth(5 + 1 - 4)
    BY DEF Shown, Nth
  <2> QED BY <2>1, <2>2 DEF Planned, St
<1>16. CASE k = 15
  <2>1. FaultsBefore(k) = 5 /\ FifoScript[k] = St("w", 1, 6)
    BY <1>16, FifoEntries DEF FaultsBefore, St
  <2> QED BY <2>1 DEF Planned, Nth, St
<1>17. CASE k = 16
  <2>1. FaultsBefore(k) = 6 /\ FifoScript[k] = St("w", 2, 7)
    BY <1>17, FifoEntries DEF FaultsBefore, St
  <2> QED BY <2>1 DEF Planned, Nth, St
<1>18. CASE k = 17
  <2>1. FaultsBefore(k) = 7 /\ FifoScript[k] = St("w", 3, 8)
    BY <1>18, FifoEntries DEF FaultsBefore, St
  <2> QED BY <2>1 DEF Planned, Nth, St
<1>19. CASE k = 18
  <2>1. FaultsBefore(k) = 8 /\ FifoScript[k] = St("w", 4, 9)
    BY <1>19, FifoEntries DEF FaultsBefore, St
  <2> QED BY <2>1 DEF Planned, Nth, St
<1>20. CASE k = 19
  <2>1. FaultsBefore(k) = 9 /\ FifoScript[k] = St("w", 5, 10)
    BY <1>20, FifoEntries DEF FaultsBefore, St
  <2> QED BY <2>1 DEF Planned, Nth, St
<1>21. CASE k = 20
  <2>1. FaultsBefore(k) = 10 /\ FifoScript[k] = St("r", 1, 11)
    BY <1>21, FifoEntries DEF FaultsBefore, St
  <2> QED BY <2>1 DEF Planned, Nth, St
<1>22. CASE k = 21
  <2>1. FaultsBefore(k) = 11 /\ FifoScript[k] = St("w", 1, 11)
    BY <1>22, FifoEntries DEF FaultsBefore, St
  <2>2. 1 \in 1 .. Shown(11) /\ 1 = Nth(11 + 1 - 1)
    BY DEF Shown, Nth
  <2> QED BY <2>1, <2>2 DEF Planned, St
<1> QED BY <1>2, <1>3, <1>4, <1>5, <1>6, <1>7, <1>8, <1>9, <1>10, <1>11, <1>12,
           <1>13, <1>14, <1>15, <1>16, <1>17, <1>18, <1>19, <1>20, <1>21, <1>22

-----------------------------------------------------------------------------
LEMMA NowFields ==
  /\ IsState(Now) /\ Now.pra = pra /\ Now.bits = bits /\ Now.tlb = tlb
  /\ Now.content = content /\ Now.disk = disk /\ Now.victim = 0
  BY DEF Now, IsState

\* The next state is u.
LEMMA BecomeOk ==
  ASSUME NEW u, NEW k \in Nat, Ok(u, k), Become(u)
  PROVE  /\ Ok(Now, Len(pra))' /\ Len(pra') = k
         /\ Dom(Now)' = Dom(u) /\ \A w : Val(Now, w)' = Val(u, w)
<1>1. /\ pra' = u.pra /\ bits' = u.bits /\ tlb' = u.tlb
      /\ content' = u.content /\ disk' = u.disk
  BY DEF Become
<1>2. /\ IsState(Now)' /\ Now'.pra = u.pra /\ Now'.bits = u.bits /\ Now'.tlb = u.tlb
      /\ Now'.content = u.content /\ Now'.disk = u.disk
  BY <1>1 DEF Now, IsState
<1>3. Len(pra') = k
  <2>1. Row(Page, u.pra, k)
    BY DEF Ok
  <2> QED BY <1>1, <2>1, RowIsSeq
<1>4. Ok(Now', k)
  BY <1>2 DEF Ok, IsState
<1>5. Dom(Now') = Dom(u) /\ \A w : Val(Now', w) = Val(u, w)
  BY <1>2 DEF Dom, Val
<1> QED BY <1>3, <1>4, <1>5

LEMMA Frames == Inv => NFrame \in Nat \ {0} /\ (stage # "free" => NFrame = 4)
  BY SwapAssumption DEF NFrame

\* An access of the program.
LEMMA AccessNow ==
  ASSUME NEW v, NEW op, NEW x, NEW e, Inv, stage \in {"script", "free"},
         v \in Page, x \in Nat, e \in Nat
  PROVE  LET u == After(Now, v, op, x, e)
         IN  /\ \E k \in Nat : k <= NFrame /\ Ok(u, k)
             /\ Accessed(Now, u, v, op, x)
             /\ sm = "fifo" /\ e = 0 => FifoList(Now, u, v, Len(pra))
<1>1. /\ Ok(Now, Len(pra)) /\ sm \in Managers /\ Len(pra) <= NFrame
  BY DEF Inv
<1>2. Len(pra) \in Nat
  BY <1>1 DEF Ok, Row
<1>3. NFrame \in Nat \ {0}
  BY Frames
<1> QED BY ONLY <1>1, <1>2, <1>3, Access, v \in Page, x \in Nat, e \in Nat

\* The page the cycle comes to next is not among the last four.
LEMMA NthApart ==
  ASSUME NEW f \in 0 .. 10, NEW p \in 1 .. Shown(f)
  PROVE  Nth(f + 1 - p) # Nth(f + 1)
  BY DEF Nth, Shown

\* The list of resident pages moves on by one fault.
Cycles(f, q, u, v, n) ==
  /\ f \in 0 .. 10 /\ n = Shown(f) /\ DOMAIN q = 1 .. n
  /\ \A i \in 1 .. n : q[i] = Nth(f + 1 - i)
  /\ v = Nth(f + 1)
  /\ n < 4 => u = Pushed(v, q, n)
  /\ n = 4 => u = Pushed(v, Without(q, n, n), n - 1)

LEMMA CycleFault ==
  ASSUME NEW f, NEW q, NEW u, NEW v, NEW n \in Nat, Cycles(f, q, u, v, n)
  PROVE  Len(u) = Shown(f + 1) /\ \A i \in 1 .. Shown(f + 1) : u[i] = Nth((f + 1) + 1 - i)
<1> USE DEF Cycles
<1>1. CASE n < 4
  <2>1. Shown(f + 1) = n + 1 /\ f = n
    BY <1>1 DEF Shown
  <2>2. /\ u = [i \in 1 .. n + 1 |-> IF i = 1 THEN v ELSE q[i - 1]]
    BY <1>1 DEF Pushed
  <2>3. Len(u) = n + 1
    BY <2>2
  <2>4. ASSUME NEW i \in 1 .. n + 1 PROVE u[i] = Nth((f + 1) + 1 - i)
    <3>1. CASE i = 1
      BY <2>2, <3>1
    <3>2. CASE i # 1
      <4>1. i - 1 \in 1 .. n /\ f + 1 - (i - 1) = (f + 1) + 1 - i
        BY <3>2
      <4>2. u[i] = q[i - 1]
        BY <2>2, <3>2
      <4>3. q[i - 1] = Nth(f + 1 - (i - 1))
        BY <4>1
      <4> QED BY <4>1, <4>2, <4>3
    <3> QED BY <3>1, <3>2
  <2> QED BY <2>1, <2>3, <2>4
<1>2. CASE n = 4
  <2>1. Shown(f + 1) = 4
    BY <1>2 DEF Shown
  <2>2. u = [i \in 1 .. 4 |-> IF i = 1 THEN v ELSE q[i - 1]]
    <3>1. Without(q, 4, 4) = [i \in 1 .. 3 |-> q[i]]
      BY DEF Without
    <3>2. u = Pushed(v, Without(q, 4, 4), 3)
      BY <1>2
    <3> QED BY <3>1, <3>2 DEF Pushed
  <2>3. Len(u) = 4
    BY <2>2
  <2>4. ASSUME NEW i \in 1 .. 4 PROVE u[i] = Nth((f + 1) + 1 - i)
    <3>1. CASE i = 1
      BY <2>2, <3>1
    <3>2. CASE i # 1
      <4>1. i - 1 \in 1 .. n /\ f + 1 - (i - 1) = (f + 1) + 1 - i
        BY <1>2, <3>2
      <4>2. u[i] = q[i - 1]
        BY <2>2, <3>2
      <4>3. q[i - 1] = Nth(f + 1 - (i - 1))
        BY <4>1
      <4> QED BY <4>1, <4>2, <4>3
    <3> QED BY <3>1, <3>2
  <2> QED BY <2>1, <2>3, <2>4
<1> QED BY <1>1, <1>2 DEF Shown

\* A statement of the fifo script: it faults as often as it says, a load finds
\* the page's number, and the list is that of the faults so far.
LEMMA FifoStatement ==
  ASSUME NEW i, NEW f, NEW u, NEW k \in Nat, Ok(Now, Len(pra)), NFrame = 4, FifoAt(f), Planned(i, f),
         Ok(u, k), Accessed(Now, u, i.v, i.op, i.v), FifoList(Now, u, i.v, Len(pra)), Become(u)
  PROVE  /\ f + Faults(i.v) = i.n
         /\ i.op = "r" => u.content[i.v] = i.v
         /\ FifoAt(i.n)'
<1>1. /\ f \in 0 .. 11 /\ Len(pra) = Shown(f)
      /\ \A p \in 1 .. Len(pra) : pra[p] = Nth(f + 1 - p)
      /\ \A w \in Dom(Now) : Val(Now, w) = w
      /\ f > 0 => 1 \in Dom(Now)
  BY DEF FifoAt
<1>2. PICK n : n = Len(pra)
  OBVIOUS
<1>3. n \in Nat /\ n = Shown(f) /\ DOMAIN pra = 1 .. n /\ Members(pra, n) = DOMAIN content
  BY <1>1, <1>2, NowFields DEF Ok, Row
<1>4. /\ Ok(Now, Len(pra))' /\ Dom(Now)' = Dom(u) /\ \A w : Val(Now, w)' = Val(u, w)
  BY BecomeOk
<1>5. pra' = u.pra
  BY DEF Become
<1>6. \A w \in Dom(u) : Val(u, w) = w
  <2>1. ASSUME NEW w \in Dom(u), w # i.v PROVE Val(u, w) = w
    BY <1>1, <2>1 DEF Accessed
  <2>2. Val(u, i.v) = i.v
    <3>1. CASE i.op = "w"
      BY <3>1 DEF Accessed
    <3>2. CASE i.op = "r"
      <4>1. i.v = 1 /\ 1 \in Dom(Now)
        BY <1>1, <3>2 DEF Planned
      <4> QED BY <1>1, <3>2, <4>1 DEF Accessed
    <3> QED BY <3>1, <3>2 DEF Planned
  <2> QED BY <2>1, <2>2
<1>7. i.v \in DOMAIN u.content /\ i.v \in Dom(u) /\ Dom(Now) \subseteq Dom(u)
  BY DEF Accessed, Dom
<1>8. u.content[i.v] = i.v
  BY <1>6, <1>7 DEF Val
<1>9. CASE f < 11 /\ i.n = f + 1 /\ i.v = Nth(f + 1)
  <2>1. f \in 0 .. 10 /\ i.n > 0
    BY <1>1, <1>9
  <2>2. i.v \notin DOMAIN content
    <3>1. \A p \in 1 .. n : pra[p] # i.v
      BY <1>1, <1>3, <1>9, <2>1, NthApart
    <3> QED BY <1>3, <3>1 DEF Members
  <2>3. Faults(i.v) = 1
    BY <2>2 DEF Faults, Hit
  <2>4. /\ n < 4 => u.pra = Pushed(i.v, pra, n)
        /\ n = 4 => u.pra = Pushed(i.v, Without(pra, n, n), n - 1)
    BY <1>2, <2>2, NowFields DEF FifoList
  <2>5. PICK q, y, v : q = pra /\ y = u.pra /\ v = i.v
    OBVIOUS
  <2>6. Cycles(f, q, y, v, n)
    BY <1>1, <1>2, <1>3, <1>9, <2>1, <2>4, <2>5 DEF Cycles
  <2>7. Len(y) = Shown(f + 1) /\ \A p \in 1 .. Shown(f + 1) : y[p] = Nth((f + 1) + 1 - p)
    BY ONLY <1>3, <2>6, CycleFault
  <2>8. 1 \in Dom(u)
    <3>1. CASE f > 0
      BY <1>1, <1>7, <3>1
    <3>2. CASE f = 0
      BY <1>7, <1>9, <3>2 DEF Nth
    <3> QED BY <2>1, <3>1, <3>2
  <2>9. FifoAt(i.n)'
    <3>1. f + 1 \in 0 .. 11
      BY ONLY <2>1
    <3>2. Len(pra') = Shown(f + 1) /\ \A p \in 1 .. Len(pra') : pra'[p] = Nth((f + 1) + 1 - p)
      BY ONLY <1>5, <2>5, <2>7
    <3>3. 1 \in Dom(Now)' /\ \A w \in Dom(Now)' : Val(Now, w)' = w
      BY ONLY <1>4, <1>6, <2>8
    <3>4. FifoAt(f + 1)'
      BY <3>1, <3>2, <3>3 DEF FifoAt
    <3> QED BY <1>9, <3>4
  <2> QED BY <1>8, <1>9, <2>3, <2>9
<1>10. CASE i.n = f /\ \E p \in 1 .. Shown(f) : i.v = Nth(f + 1 - p)
  <2>1. PICK p \in 1 .. n : i.v = pra[p]
    BY <1>1, <1>2, <1>3, <1>10
  <2>2. i.v \in DOMAIN content
    BY <1>3, <2>1 DEF Members
  <2>3. Faults(i.v) = 0 /\ u.pra = pra
    BY <2>2, NowFields DEF Faults, Hit, FifoList
  <2>4. FifoAt(f)'
    <3>1. f > 0 => 1 \in Dom(u)
      BY <1>1, <1>7
    <3> QED BY <1>1, <1>4, <1>5, <1>6, <2>3, <3>1 DEF FifoAt
  <2> QED BY <1>1, <1>8, <1>10, <2>3, <2>4
<1> QED BY <1>9, <1>10 DEF Planned

-----------------------------------------------------------------------------
\* Steps that leave the pages as they are.
LEMMA SameOk ==
  ASSUME Ok(Now, Len(pra)), pra' = pra, bits' = bits, content' = content, disk' = disk,
         DOMAIN tlb' = DOMAIN tlb
  PROVE  /\ Ok(Now, Len(pra))' /\ Dom(Now)' = Dom(Now)
         /\ \A w \in Dom(Now) : Val(Now, w)' = Val(Now, w)
<1>1. /\ IsState(Now') /\ Now'.pra = Now.pra /\ Now'.bits = Now.bits
      /\ Now'.content = Now.content /\ Now'.disk = Now.disk /\ DOMAIN Now'.tlb = DOMAIN Now.tlb
  BY DEF Now, IsState
<1>2. Ok(Now', Len(pra'))
  BY <1>1 DEF Ok, IsState
<1>3. Dom(Now') = Dom(Now) /\ \A w \in Dom(Now) : Val(Now', w) = Val(Now, w)
  BY <1>1 DEF Dom, Val
<1> QED BY <1>2, <1>3

LEMMA InitInv == Init => Inv
<1> SUFFICES ASSUME Init PROVE Inv
  OBVIOUS
<1>1. /\ sm \in Managers /\ stage = "idle" /\ pra = <<>> /\ bits = No /\ content = No /\ disk = No
      /\ pgfault_num = 0 /\ pc = 1
  BY DEF Init, Managers
<1>2. DOMAIN No = {} /\ Len(<<>>) = 0 /\ No \in [{} -> Nat] /\ No \in [{} -> Bits]
  BY DEF No
<1>3. Row(Page, <<>>, 0) /\ Members(<<>>, 0) = {}
  BY DEF Row, Members
<1>4. Ok(Now, 0)
  BY <1>1, <1>2, <1>3, NowFields DEF Ok
<1> QED BY <1>1, <1>2, <1>4 DEF Inv, NFrame

\* check_swap's script: one statement.
LEMMA ScriptStep ==
  ASSUME Inv, script_access(0)
  PROVE  Inv'
<1>1. PICK i, v, n : i = check_swap[pc] /\ v = i.v /\ n = pgfault_num + Faults(v)
  OBVIOUS
<1>2. PICK u : u = After(Now, v, i.op, v, 0)
  OBVIOUS
<1>3. /\ stage = "script" /\ pc <= Len(check_swap) /\ pc' = pc + 1 /\ sm' = sm /\ pgfault_num' = n
      /\ \/ LruFault(v) /\ stage' = "pgfault" /\ Same
         \/ /\ ~LruFault(v) /\ Become(u)
            /\ stage' = IF n = i.n /\ (i.op = "r" => u.content[v] = v) THEN stage ELSE "assert"
  BY <1>1, <1>2, NowFields DEF script_access, After, Hit
<1>4. /\ sm \in Managers /\ pc \in Nat \ {0} /\ Ok(Now, Len(pra)) /\ Len(pra) <= NFrame
  BY <1>3 DEF Inv
<1>5. /\ NFrame = 4 /\ (stage' \in {"script", "assert"} => NFrame' = 4)
  BY <1>3 DEF NFrame
<1>6. CASE LruFault(v)
  <2>1. /\ stage' = "pgfault" /\ sm = "lru" /\ pra' = pra /\ bits' = bits /\ tlb' = tlb
        /\ content' = content /\ disk' = disk
    BY <1>3, <1>6 DEF LruFault, Same
  <2>2. Ok(Now, Len(pra))'
    BY <1>4, <2>1, SameOk
  <2> QED BY <1>3, <1>4, <2>1, <2>2 DEF Inv
<1>7. CASE ~LruFault(v)
  <2>1. check_swap \in Seq(Statement)
    BY <1>4, ScriptStatements
  <2>2. i \in Statement
    BY <1>1, <1>3, <1>4, <2>1
  <2>3. v \in Page /\ v \in Nat
    BY <1>1, <2>2 DEF Statement, Page
  <2>4. /\ \E k \in Nat : k <= NFrame /\ Ok(u, k)
        /\ Accessed(Now, u, v, i.op, v)
        /\ sm = "fifo" => FifoList(Now, u, v, Len(pra))
    BY <1>2, <1>3, <2>3, AccessNow
  <2>5. PICK k \in Nat : k <= NFrame /\ Ok(u, k)
    BY <2>4
  <2>6. Become(u) /\ stage' \in {"script", "assert"}
    BY <1>3, <1>7
  <2>7. Ok(Now, Len(pra))' /\ Len(pra') = k
    BY <2>5, <2>6, BecomeOk
  <2>8. ASSUME sm = "fifo" PROVE stage' = "script" /\ FifoRun'
    <3>1. check_swap = FifoScript
      BY <2>8 DEF check_swap, FifoScript
    <3>2. Len(FifoScript) = 21
      BY FifoEntries
    <3>3. pc \in 1 .. 21 /\ i = FifoScript[pc]
      BY <1>1, <1>3, <1>4, <3>1, <3>2
    <3>4. PICK f : f = FaultsBefore(pc)
      OBVIOUS
    <3>5. Planned(i, f)
      BY <3>3, <3>4, FifoPlan
    <3>6. pgfault_num = f /\ FifoAt(f)
      BY <1>3, <2>8, <3>4 DEF Inv, FifoRun
    <3>7. /\ f + Faults(i.v) = i.n
          /\ i.op = "r" => u.content[i.v] = i.v
          /\ FifoAt(i.n)'
      <4>1. Accessed(Now, u, i.v, i.op, i.v) /\ FifoList(Now, u, i.v, Len(pra))
        BY <1>1, <2>4, <2>8
      <4> QED BY ONLY <1>4, <1>5, <2>5, <2>6, <3>5, <3>6, <4>1, FifoStatement
    <3>8. n = i.n /\ stage' = "script"
      BY <1>1, <1>3, <1>7, <3>6, <3>7
    <3>9. FaultsBefore(pc + 1) = i.n
      <4>1. pc + 1 # 1 /\ (pc + 1) - 1 = pc
        BY <3>3
      <4> QED BY <3>3, <4>1 DEF FaultsBefore
    <3>10. FifoRun'
      <4>1. pc' \in 1 .. 22 /\ pgfault_num' = FaultsBefore(pc')
        BY <1>3, <3>3, <3>8, <3>9
      <4>2. FaultsBefore(pc)' = FaultsBefore(pc')
        BY DEF FaultsBefore
      <4>3. FifoAt(pgfault_num)'
        BY <1>3, <3>7, <3>8 DEF FifoAt
      <4> QED BY <4>1, <4>2, <4>3 DEF FifoRun
    <3> QED BY <3>8, <3>10
  <2>9. pc' \in Nat \ {0}
    BY <1>3, <1>4
  <2> QED BY <1>3, <1>4, <1>5, <2>5, <2>6, <2>7, <2>8, <2>9 DEF Inv
<1> QED BY <1>6, <1>7

\* Any access.
LEMMA FreeStep ==
  ASSUME NEW v \in Pages, NEW op, NEW x \in 1 .. 2, NEW e \in 0 .. MaxErrors,
         Inv, free_access(v, op, x, e)
  PROVE  Inv'
<1>1. PICK u : u = After(Now, v, op, x, e)
  OBVIOUS
<1>2. /\ stage = "free" /\ sm' = sm
      /\ \/ LruFault(v) /\ stage' = "pgfault" /\ Same
         \/ ~LruFault(v) /\ Become(u) /\ stage' = stage
  BY <1>1, NowFields DEF free_access, After, Hit
<1>3. sm \in Managers /\ Ok(Now, Len(pra))
  BY DEF Inv
<1>4. CASE LruFault(v)
  <2>1. /\ stage' = "pgfault" /\ pra' = pra /\ bits' = bits /\ tlb' = tlb
        /\ content' = content /\ disk' = disk
    BY <1>2, <1>4 DEF Same
  <2>2. Ok(Now, Len(pra))'
    BY <1>3, <2>1, SameOk
  <2> QED BY <1>2, <1>3, <2>1, <2>2 DEF Inv
<1>5. CASE ~LruFault(v)
  <2>1. v \in Page /\ x \in Nat /\ e \in Nat
    BY <1>2, SwapAssumption DEF Pages, Page
  <2>2. \E k \in Nat : k <= NFrame /\ Ok(u, k)
    BY <1>1, <1>2, <2>1, AccessNow
  <2>3. PICK k \in Nat : k <= NFrame /\ Ok(u, k)
    BY <2>2
  <2>4. Become(u) /\ stage' = stage
    BY <1>2, <1>5
  <2>5. Ok(Now, Len(pra))' /\ Len(pra') = k
    BY <2>3, <2>4, BecomeOk
  <2>6. NFrame' = NFrame
    BY <2>4 DEF NFrame
  <2> QED BY <1>2, <1>3, <2>3, <2>4, <2>5, <2>6 DEF Inv
<1> QED BY <1>4, <1>5

\* Before the check: the manager is chosen and the list is set up.
LEMMA IdleStep ==
  ASSUME Inv, \/ \E mode \in 1 .. 4 : do_change_swap(mode)
              \/ \E st \in {"script", "free"} : swap_init_mm(st)
              \/ sys_check_swap
  PROVE  Inv'
<1>1. /\ stage = "idle" /\ UNCHANGED <<bits, tlb, content, disk, pgfault_num, pc>>
      /\ sm' \in Managers /\ pra' \in {pra, <<>>}
      /\ stage' \in {"idle", "script", "free", "pgfault"}
  <2>1. ASSUME NEW mode \in 1 .. 4, do_change_swap(mode)
        PROVE  /\ stage = "idle" /\ stage' = stage /\ pra' = pra /\ sm' \in Managers
               /\ UNCHANGED <<bits, tlb, content, disk, pgfault_num, pc>>
    BY <2>1 DEF do_change_swap, Same, Inv, Managers
  <2>2. ASSUME NEW st \in {"script", "free"}, swap_init_mm(st)
        PROVE  /\ stage = "idle" /\ stage' = st /\ pra' = <<>> /\ sm' \in Managers
               /\ UNCHANGED <<bits, tlb, content, disk, pgfault_num, pc>>
    BY <2>2 DEF swap_init_mm, Inv, Managers, _fifo_init_mm, _clock_init_mm, _lru_init_mm
  <2>3. ASSUME sys_check_swap
        PROVE  /\ stage = "idle" /\ stage' = "pgfault" /\ pra' = pra /\ sm' \in Managers
               /\ UNCHANGED <<bits, tlb, content, disk, pgfault_num, pc>>
    BY <2>3 DEF sys_check_swap, Same, Inv
  <2> QED BY <2>1, <2>2, <2>3
<1>2. /\ content = No /\ disk = No /\ pgfault_num = 0 /\ pc = 1 /\ Ok(Now, Len(pra))
  BY <1>1 DEF Inv
<1>3. pra = <<>>
  <2>1. Row(Page, pra, Len(pra)) /\ Members(pra, Len(pra)) = {}
    BY <1>2, NowFields DEF Ok, No
  <2>2. Len(pra) \in Nat /\ pra \in [1 .. Len(pra) -> Page]
    BY <2>1 DEF Row
  <2>3. Len(pra) = 0
    <3> SUFFICES ASSUME Len(pra) # 0 PROVE FALSE
      OBVIOUS
    <3>1. 1 \in 1 .. Len(pra)
      BY <2>2
    <3> QED BY <2>1, <3>1 DEF Members
  <2> QED BY <2>2, <2>3
<1>4. pra' = pra
  BY <1>1, <1>3
<1>5. Ok(Now, Len(pra))' /\ Dom(Now)' = Dom(Now)
  BY <1>1, <1>2, <1>4, SameOk
<1>6. Len(pra) = 0 /\ Dom(Now) = {}
  BY <1>2, <1>3, NowFields DEF Dom, No
<1>7. NFrame' \in Nat
  BY SwapAssumption DEF NFrame
<1>8. FifoRun'
  <2>1. FifoAt(0)'
    BY <1>4, <1>5, <1>6 DEF FifoAt, Shown
  <2>2. FifoAt(pgfault_num)'
    BY <1>1, <1>2, <2>1 DEF FifoAt
  <2> QED BY <1>1, <1>2, <2>2 DEF FifoRun, FaultsBefore
<1> QED BY <1>1, <1>2, <1>4, <1>5, <1>6, <1>7, <1>8 DEF Inv

\* Steps that change the TLB only.
LEMMA TlbStep ==
  ASSUME Inv, UNCHANGED <<sm, stage, pra, bits, content, disk, pgfault_num, pc>>,
         DOMAIN tlb' = DOMAIN tlb
  PROVE  Inv'
<1>1. Ok(Now, Len(pra))
  BY DEF Inv
<1>2. /\ Ok(Now, Len(pra))' /\ Dom(Now)' = Dom(Now)
      /\ \A w \in Dom(Now) : Val(Now, w)' = Val(Now, w)
  BY <1>1, SameOk
<1>3. NFrame' = NFrame
  BY DEF NFrame
<1>4. FifoRun => FifoRun'
  BY <1>2 DEF FifoRun, FifoAt, FaultsBefore
<1> QED BY <1>2, <1>3, <1>4 DEF Inv

LEMMA NextInv == Inv /\ [Next]_svars => Inv'
<1> SUFFICES ASSUME Inv, [Next]_svars PROVE Inv'
  OBVIOUS
<1>1. ASSUME NEW v \in 1 .. 5, tlb_evict(v) PROVE Inv'
  <2>1. /\ UNCHANGED <<sm, stage, pra, bits, content, disk, pgfault_num, pc>>
        /\ DOMAIN tlb' = DOMAIN tlb
    BY <1>1 DEF tlb_evict
  <2> QED BY <2>1, TlbStep
<1>2. CASE UNCHANGED svars
  <2>1. /\ UNCHANGED <<sm, stage, pra, bits, content, disk, pgfault_num, pc>>
        /\ DOMAIN tlb' = DOMAIN tlb
    BY <1>2 DEF svars
  <2> QED BY <2>1, TlbStep
<1> QED BY <1>1, <1>2, IdleStep, ScriptStep, FreeStep DEF Next

LEMMA InvExact == Inv => SwapExact
<1> SUFFICES ASSUME Inv PROVE SwapExact
  OBVIOUS
<1>1. PICK n : n = Len(pra)
  OBVIOUS
<1>2. Ok(Now, n)
  BY <1>1 DEF Inv
<1>3. /\ Row(Page, pra, n) /\ Members(pra, n) = DOMAIN content /\ n \in Nat
      /\ DOMAIN content \cap DOMAIN disk = {} /\ content \in [DOMAIN content -> Nat]
  BY <1>2, NowFields DEF Ok, Row
<1>4. {pra[i] : i \in DOMAIN pra} = DOMAIN content
  BY <1>3 DEF Members, Row
<1>5. Len(pra) = Cardinality(DOMAIN content)
  <2>1. Cardinality(Members(pra, n)) = n
    BY ONLY <1>3, RowCardinality
  <2> QED BY <1>1, <1>3, <2>1
<1>6. stage # "pgfault" => Cardinality(DOMAIN content) <= NFrame
  BY <1>5 DEF Inv
<1>7. ASSUME content # No PROVE _clock_swap_out_victim(Now).victim # 0
  <2>1. DOMAIN content # {}
    BY <1>3, <1>7 DEF No
  <2>2. n > 0
    <3>1. n # 0
      BY <1>3, <2>1 DEF Members
    <3> QED BY <1>3, <3>1
  <2>3. PICK t : t = _clock_swap_out_victim(Now)
    OBVIOUS
  <2>4. PICK j \in 1 .. n : Took(Now, t, n, j)
    BY <1>2, <1>3, <2>2, <2>3, NowFields, ClockVictim
  <2>5. t.victim # 0
    BY ONLY <1>2, <1>3, <2>4, TookPage
  <2> QED BY <2>3, <2>5
<1>8. sm = "fifo" => stage # "assert"
  BY DEF Inv
<1> QED BY <1>3, <1>4, <1>5, <1>6, <1>7, <1>8 DEF SwapExact

\* The list of swappable pages holds exactly the resident pages, the clock always
\* finds a victim and the fifo script ends with every count it asserts, for any
\* number of pages, of frames and of failed writes in a row.
THEOREM SwapListIsExact == Spec => []SwapExact
<1>1. Spec => []Inv
  BY InitInv, NextInv, PTL DEF Spec
<1> QED BY <1>1, InvExact, PTL

-----------------------------------------------------------------------------
\* What MS sees of a state.
Seen == [p \in {"check"} |-> [v \in DOMAIN content \cup DOMAIN disk |->
            IF v \in DOMAIN content THEN content[v] ELSE disk[v]]]

LEMMA SeenFacts ==
  DOMAIN Seen["check"] = Dom(Now) /\ \A w \in Dom(Now) : Seen["check"][w] = Val(Now, w)
  BY NowFields DEF Seen, Dom, Val

LEMMA SeenFactsNext ==
  /\ DOMAIN Seen'["check"] = Dom(Now)'
  /\ \A w \in Dom(Now)' : Seen'["check"][w] = Val(Now, w)'
<1>1. Now'.content = content' /\ Now'.disk = disk'
  BY DEF Now
<1> QED BY <1>1 DEF Seen, Dom, Val

\* An access is a store of the abstract memory, or leaves it as it is.
LEMMA AccessStores ==
  ASSUME NEW u, NEW v, NEW op, NEW x, NEW k \in Nat, x \in 0 .. 5, Accessed(Now, u, v, op, x),
         Ok(u, k), Become(u)
  PROVE  MS!Next
<1>1. Dom(Now)' = Dom(u) /\ \A w : Val(Now, w)' = Val(u, w)
  BY BecomeOk
<1>2. Dom(Now) \subseteq Dom(u)
  BY DEF Accessed
<1>3. DOMAIN Seen["check"] \subseteq DOMAIN Seen'["check"]
  BY <1>1, <1>2, SeenFacts, SeenFactsNext
<1>4. ASSUME NEW w \in DOMAIN Seen["check"] PROVE Seen'["check"][w] \in {Seen["check"][w], x}
  <2>1. w \in Dom(Now) /\ Seen["check"][w] = Val(Now, w)
    BY SeenFacts
  <2>2. w \in Dom(Now)' /\ Seen'["check"][w] = Val(u, w)
    BY <1>1, <1>2, <2>1, SeenFactsNext
  <2>3. Val(u, w) \in {Val(Now, w), x}
    BY <2>1 DEF Accessed
  <2> QED BY <2>1, <2>2, <2>3
<1>5. MS!Store("check", x)
  BY <1>3, <1>4 DEF MS!Store, MS!Others, Seen
<1> QED BY <1>5 DEF MS!Next

LEMMA NextStores == Inv /\ [Next]_svars => MS!Next \/ Seen' = Seen
<1> SUFFICES ASSUME Inv, [Next]_svars PROVE MS!Next \/ Seen' = Seen
  OBVIOUS
<1>1. ASSUME content' = content, disk' = disk PROVE Seen' = Seen
  BY <1>1 DEF Seen
<1>2. CASE script_access(0)
  <2>1. PICK i, v : i = check_swap[pc] /\ v = i.v
    OBVIOUS
  <2>2. PICK u : u = After(Now, v, i.op, v, 0)
    OBVIOUS
  <2>3. stage = "script" /\ pc <= Len(check_swap) /\ (Same \/ Become(u))
    BY <1>2, <2>1, <2>2, NowFields DEF script_access, After, Hit
  <2>4. i \in Statement
    <3>1. pc \in Nat \ {0} /\ sm \in Managers
      BY <2>3 DEF Inv
    <3>2. check_swap \in Seq(Statement)
      BY <3>1, ScriptStatements
    <3> QED BY <2>1, <2>3, <3>1, <3>2
  <2>5. v \in Page /\ v \in Nat /\ v \in 0 .. 5
    BY <2>1, <2>4 DEF Statement, Page
  <2>6. (\E k \in Nat : Ok(u, k)) /\ Accessed(Now, u, v, i.op, v)
    BY <2>2, <2>3, <2>5, AccessNow
  <2>7. Become(u) => MS!Next
    BY <2>5, <2>6, AccessStores
  <2> QED BY <1>1, <2>3, <2>7 DEF Same
<1>3. ASSUME NEW v \in Pages, NEW op \in {"r", "w"}, NEW x \in 1 .. 2, NEW e \in 0 .. MaxErrors,
             free_access(v, op, x, e)
      PROVE  MS!Next \/ Seen' = Seen
  <2>1. PICK u : u = After(Now, v, op, x, e)
    OBVIOUS
  <2>2. stage = "free" /\ (Same \/ Become(u))
    BY <1>3, <2>1, NowFields DEF free_access, After, Hit
  <2>3. v \in Page /\ x \in Nat /\ x \in 0 .. 5 /\ e \in Nat
    BY <2>2, SwapAssumption DEF Pages, Page
  <2>4. (\E k \in Nat : Ok(u, k)) /\ Accessed(Now, u, v, op, x)
    BY <2>1, <2>2, <2>3, AccessNow
  <2>5. Become(u) => MS!Next
    BY <2>3, <2>4, AccessStores
  <2> QED BY <1>1, <2>2, <2>5 DEF Same
<1>4. ASSUME Next, ~script_access(0),
             ~ \E v \in Pages, op \in {"r", "w"}, x \in 1 .. 2, e \in 0 .. MaxErrors :
                  free_access(v, op, x, e)
      PROVE  content' = content /\ disk' = disk
  BY <1>4 DEF Next, do_change_swap, swap_init_mm, sys_check_swap, tlb_evict, Same
<1>5. CASE UNCHANGED svars
  BY <1>1, <1>5 DEF svars
<1> QED BY <1>1, <1>2, <1>3, <1>4, <1>5

\* A program sees memory that only its own stores change (AddrSpec), whatever is
\* swapped out and in, for any number of pages, of frames and of failed writes.
THEOREM ReplacementIsInvisible == Spec => ImplementsMemory
<1>1. Spec => []Inv
  BY InitInv, NextInv, PTL DEF Spec
<1>2. Init => MS!Init
  BY DEF Init, MS!Init, MS!None, No
<1>3. Inv /\ [Next]_svars => [MS!Next]_Seen
  BY NextStores
<1>4. MS!Spec <=> MS!Init /\ [][MS!Next]_Seen
  BY DEF MS!Spec, Seen
<1> QED BY <1>1, <1>2, <1>3, <1>4, PTL DEF Spec, ImplementsMemory
=============================================================================
