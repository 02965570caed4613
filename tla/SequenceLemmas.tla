---------------------------- MODULE SequenceLemmas ----------------------------
(***************************************************************************)
(* What the proofs about queues of messages, answers and scripts need of   *)
(* sequences: how what is put behind, taken from the front or removed      *)
(* changes the length, the elements and the positions.  A queue is a       *)
(* sequence of its own elements, so nothing need be known of their kind.   *)
(***************************************************************************)
EXTENDS SequencesExt, SequenceTheorems, FiniteSetTheorems, WellFoundedInduction, TLAPS

LEMMA Members ==
    ASSUME NEW S, NEW s \in Seq(S)
    PROVE  s \in Seq(ToSet(s)) /\ ToSet(s) \subseteq S /\ Len(s) \in Nat /\ DOMAIN s = 1..Len(s)
<1>1. Len(s) \in Nat /\ DOMAIN s = 1..Len(s) /\ s \in [1..Len(s) -> S]
  BY LenProperties
<1>2. s \in [1..Len(s) -> ToSet(s)]
  BY <1>1 DEF ToSet
<1>3. ToSet(s) \subseteq S
  BY <1>1, SMTT(60) DEF ToSet
<1>. QED
  BY <1>1, <1>2, <1>3, SeqDef

\* What is left behind the first n.
LEMMA Rest ==
    ASSUME NEW s, s \in Seq(ToSet(s)), NEW n \in 0..Len(s), NEW t, t = SubSeq(s, n + 1, Len(s))
    PROVE  /\ t \in Seq(ToSet(t)) /\ ToSet(t) \subseteq ToSet(s) /\ Len(t) = Len(s) - n
           /\ DOMAIN t = 1..Len(t) /\ Len(s) \in Nat /\ DOMAIN s = 1..Len(s)
           /\ \A i \in DOMAIN t : n + i \in DOMAIN s /\ t[i] = s[n + i]
<1>1. Len(s) \in Nat /\ DOMAIN s = 1..Len(s)
  BY LenProperties
<1>2. \A i \in (n + 1)..Len(s) : s[i] \in ToSet(s)
  BY <1>1 DEF ToSet
<1>3. /\ t \in Seq(ToSet(s)) /\ Len(t) = IF n + 1 <= Len(s) THEN Len(s) - (n + 1) + 1 ELSE 0
      /\ \A i \in 1..(Len(s) - (n + 1) + 1) : t[i] = s[n + 1 + i - 1]
  BY <1>1, <1>2, SubSeqProperties
<1>4. t \in Seq(ToSet(t)) /\ ToSet(t) \subseteq ToSet(s) /\ DOMAIN t = 1..Len(t)
  BY <1>3, Members
<1>5. /\ n \in Nat /\ (n + 1 <= Len(s) => Len(s) - (n + 1) + 1 = Len(s) - n)
      /\ (~(n + 1 <= Len(s)) => Len(s) - n = 0)
  <2>1. Len(s) \in Nat /\ n \in Nat /\ n <= Len(s)
    BY <1>1
  <2>. QED
    BY <2>1
<1>6. Len(t) = Len(s) - n
  BY <1>3, <1>5
<1>7. \A i \in 1..(Len(s) - n) : n + i \in 1..Len(s) /\ n + 1 + i - 1 = n + i /\ i \in 1..(Len(s) - (n + 1) + 1)
  BY <1>1
<1>. QED
  BY <1>1, <1>3, <1>4, <1>6, <1>7, Zenon

\* The first one, and the others.
LEMMA Others ==
    ASSUME NEW s, s \in Seq(ToSet(s)), s # <<>>
    PROVE  /\ 1 \in DOMAIN s /\ Head(s) = s[1] /\ s[1] \in ToSet(s) /\ Len(s) >= 1 /\ Len(s) \in Nat
           /\ Tail(s) \in Seq(ToSet(Tail(s))) /\ ToSet(Tail(s)) \subseteq ToSet(s) /\ Len(Tail(s)) = Len(s) - 1
           /\ \A i \in DOMAIN Tail(s) : i + 1 \in DOMAIN s /\ i + 1 # 1 /\ Tail(s)[i] = s[i + 1]
<1>1. Len(s) \in Nat /\ Len(s) >= 1 /\ DOMAIN s = 1..Len(s)
  BY LenProperties, EmptySeq
<1>2. /\ Head(s) = s[1] /\ Tail(s) \in Seq(ToSet(s)) /\ Len(Tail(s)) = Len(s) - 1
      /\ \A i \in 1..Len(Tail(s)) : Tail(s)[i] = s[i + 1]
  BY HeadTailProperties
<1>3. /\ Tail(s) \in Seq(ToSet(Tail(s))) /\ ToSet(Tail(s)) \subseteq ToSet(s)
      /\ DOMAIN Tail(s) = 1..(Len(s) - 1)
  BY <1>2, Members
<1>4. 1 \in DOMAIN s /\ \A i \in 1..(Len(s) - 1) : i + 1 \in 1..Len(s) /\ i + 1 # 1
  BY <1>1
<1>. QED
  BY <1>1, <1>2, <1>3, <1>4 DEF ToSet

\* One after the other.
LEMMA Joined ==
    ASSUME NEW s, s \in Seq(ToSet(s)), NEW t, t \in Seq(ToSet(t))
    PROVE  /\ s \o t \in Seq(ToSet(s \o t)) /\ ToSet(s \o t) = ToSet(s) \cup ToSet(t)
           /\ Len(s \o t) = Len(s) + Len(t) /\ Len(s) \in Nat /\ Len(t) \in Nat
           /\ DOMAIN s = 1..Len(s) /\ DOMAIN t = 1..Len(t) /\ DOMAIN (s \o t) = 1..Len(s \o t)
           /\ \A i \in DOMAIN s : i \in DOMAIN (s \o t) /\ (s \o t)[i] = s[i]
           /\ \A i \in DOMAIN (s \o t) :
                i \in DOMAIN s \/ (i - Len(s) \in DOMAIN t /\ (s \o t)[i] = t[i - Len(s)])
<1>. DEFINE S == ToSet(s) \cup ToSet(t)  u == s \o t
<1>1. s \in Seq(S) /\ t \in Seq(S)
  BY SeqMonotonic
<1>2. /\ u \in Seq(S) /\ Len(u) = Len(s) + Len(t) /\ Len(s) \in Nat /\ Len(t) \in Nat
      /\ DOMAIN s = 1..Len(s) /\ DOMAIN t = 1..Len(t)
      /\ \A i \in 1..Len(s) + Len(t) : u[i] = IF i <= Len(s) THEN s[i] ELSE t[i - Len(s)]
  BY <1>1, ConcatProperties, LenProperties
<1>3. u \in Seq(ToSet(u)) /\ ToSet(u) \subseteq S /\ DOMAIN u = 1..Len(u)
  BY <1>2, Members
<1>. HIDE DEF u, S
<1>4. \A i \in 1..Len(s) : i \in 1..Len(s) + Len(t) /\ i <= Len(s)
  BY <1>2
<1>5. \A i \in 1..Len(t) : Len(s) + i \in 1..Len(s) + Len(t) /\ ~(Len(s) + i <= Len(s)) /\ Len(s) + i - Len(s) = i
  BY <1>2
<1>6. \A i \in DOMAIN s : i \in DOMAIN u /\ u[i] = s[i]
  BY <1>2, <1>3, <1>4
<1>7. \A i \in DOMAIN t : Len(s) + i \in DOMAIN u /\ u[Len(s) + i] = t[i]
  BY <1>2, <1>3, <1>5
<1>8. \A i \in 1..Len(s) + Len(t) : i \in 1..Len(s) \/ (i - Len(s) \in 1..Len(t) /\ ~(i <= Len(s)))
  BY <1>2
<1>9. \A i \in DOMAIN u : i \in DOMAIN s \/ (i - Len(s) \in DOMAIN t /\ u[i] = t[i - Len(s)])
  BY <1>2, <1>3, <1>8
<1>10. ToSet(s) \subseteq ToSet(u) /\ ToSet(t) \subseteq ToSet(u)
  BY <1>6, <1>7 DEF ToSet
<1>. QED
  BY <1>2, <1>3, <1>6, <1>9, <1>10 DEF u, S

\* One more.
LEMMA OneMore ==
    ASSUME NEW s, s \in Seq(ToSet(s)), NEW m
    PROVE  Append(s, m) \in Seq(ToSet(Append(s, m))) /\ ToSet(Append(s, m)) = ToSet(s) \cup {m}
<1>. DEFINE S == ToSet(s) \cup {m}  u == Append(s, m)
<1>1. s \in Seq(S)
  BY SeqMonotonic
<1>2. /\ u \in Seq(S) /\ Len(u) = Len(s) + 1 /\ Len(s) \in Nat /\ DOMAIN s = 1..Len(s)
      /\ \A i \in 1..Len(s) : u[i] = s[i]
      /\ u[Len(s) + 1] = m
  BY <1>1, AppendProperties, LenProperties
<1>3. u \in Seq(ToSet(u)) /\ ToSet(u) \subseteq S /\ DOMAIN u = 1..Len(u)
  BY <1>2, Members
<1>. HIDE DEF u
<1>4. Len(s) + 1 \in DOMAIN u /\ \A i \in DOMAIN s : i \in DOMAIN u
  BY <1>2, <1>3
<1>5. S \subseteq ToSet(u)
  BY <1>2, <1>4 DEF ToSet
<1>. QED
  BY <1>3, <1>5 DEF u

\* Of one, of two and of none.
LEMMA OneOrTwo ==
    /\ \A m : <<m>> \in Seq(ToSet(<<m>>)) /\ ToSet(<<m>>) = {m} /\ Len(<<m>>) = 1 /\ DOMAIN <<m>> = {1}
    /\ \A m, p : /\ <<m, p>> \in Seq(ToSet(<<m, p>>)) /\ ToSet(<<m, p>>) = {m, p}
                 /\ Len(<<m, p>>) = 2 /\ DOMAIN <<m, p>> = {1, 2}
    /\ <<>> \in Seq(ToSet(<<>>)) /\ ToSet(<<>>) = {} /\ Len(<<>>) = 0 /\ DOMAIN <<>> = {}
<1>1. ASSUME NEW m
      PROVE  <<m>> \in Seq(ToSet(<<m>>)) /\ ToSet(<<m>>) = {m} /\ Len(<<m>>) = 1 /\ DOMAIN <<m>> = {1}
  BY DEF ToSet
<1>2. ASSUME NEW m, NEW p
      PROVE  /\ <<m, p>> \in Seq(ToSet(<<m, p>>)) /\ ToSet(<<m, p>>) = {m, p}
             /\ Len(<<m, p>>) = 2 /\ DOMAIN <<m, p>> = {1, 2}
  <2>1. <<m, p>> \in Seq({m, p}) /\ Len(<<m, p>>) = 2 /\ DOMAIN <<m, p>> = {1, 2}
    OBVIOUS
  <2>2. ToSet(<<m, p>>) = {m, p}
    BY <2>1 DEF ToSet
  <2>. QED
    BY <2>1, <2>2
<1>3. <<>> \in Seq(ToSet(<<>>)) /\ ToSet(<<>>) = {} /\ Len(<<>>) = 0 /\ DOMAIN <<>> = {}
  <2>1. DOMAIN <<>> = {}
    OBVIOUS
  <2>2. ToSet(<<>>) = {}
    BY <2>1 DEF ToSet
  <2>. QED
    BY <2>1, <2>2, EmptySeq
<1>. QED
  BY <1>1, <1>2, <1>3

LEMMA NoneMore ==
    ASSUME NEW s, s \in Seq(ToSet(s))
    PROVE  s \o <<>> = s /\ <<>> \o s = s /\ (Len(s) = 0 <=> s = <<>>)
BY EmptySeq, ConcatProperties

\* The first k and the others, put together again.
LEMMA CutInTwo ==
    ASSUME NEW s, s \in Seq(ToSet(s)), NEW k \in 0..Len(s)
    PROVE  /\ SubSeq(s, 1, k) \in Seq(ToSet(SubSeq(s, 1, k))) /\ Len(SubSeq(s, 1, k)) = k
           /\ ToSet(SubSeq(s, 1, k)) \subseteq ToSet(s)
           /\ SubSeq(s, 1, k) \o SubSeq(s, k + 1, Len(s)) = s
<1>. DEFINE a == SubSeq(s, 1, k)  b == SubSeq(s, k + 1, Len(s))
<1>1. Len(s) \in Nat /\ DOMAIN s = 1..Len(s) /\ k \in Nat /\ k <= Len(s)
  <2>1. Len(s) \in Nat /\ DOMAIN s = 1..Len(s)
    BY LenProperties
  <2>. QED
    BY <2>1
<1>2. \A i \in 1..k : s[i] \in ToSet(s)
  BY <1>1 DEF ToSet
<1>3. /\ a \in Seq(ToSet(s)) /\ Len(a) = IF 1 <= k THEN k - 1 + 1 ELSE 0
      /\ \A i \in 1..(k - 1 + 1) : a[i] = s[1 + i - 1]
  BY <1>1, <1>2, SubSeqProperties
<1>4. Len(a) = k /\ \A i \in 1..k : a[i] = s[i]
  <2>1. k - 1 + 1 = k /\ (~(1 <= k) => k = 0) /\ \A i \in 1..k : 1 + i - 1 = i
    BY <1>1
  <2>. QED
    BY <1>3, <2>1
<1>5. a \in Seq(ToSet(a)) /\ ToSet(a) \subseteq ToSet(s)
  BY <1>3, Members
<1>6. /\ b \in Seq(ToSet(b)) /\ ToSet(b) \subseteq ToSet(s) /\ Len(b) = Len(s) - k
      /\ DOMAIN b = 1..Len(b) /\ \A i \in DOMAIN b : b[i] = s[k + i]
  BY Rest, ZenonT(60)
<1>. HIDE DEF a, b
<1>7. b \in Seq(ToSet(s))
  BY <1>6, SeqMonotonic
<1>8. /\ a \o b \in Seq(ToSet(s)) /\ Len(a \o b) = Len(a) + Len(b)
      /\ \A i \in 1..Len(a) + Len(b) : (a \o b)[i] = IF i <= Len(a) THEN a[i] ELSE b[i - Len(a)]
  BY <1>3, <1>7, ConcatProperties
<1>9. Len(a) + Len(b) = Len(s)
  BY <1>1, <1>4, <1>6
<1>10. ASSUME NEW i \in 1..Len(s)
       PROVE  (a \o b)[i] = s[i]
  <2>1. CASE i <= k
    <3>1. i \in 1..k
      BY <1>1, <2>1
    <3>. QED
      BY <1>4, <1>8, <1>9, <2>1, <3>1
  <2>2. CASE ~(i <= k)
    <3>1. i - k \in 1..Len(b) /\ k + (i - k) = i
      BY <1>1, <1>6, <2>2
    <3>. QED
      BY <1>4, <1>6, <1>8, <1>9, <2>2, <3>1
  <2>. QED
    BY <2>1, <2>2
<1>11. a \o b = s
  BY <1>8, <1>9, <1>10, SeqEqual
<1>. QED
  BY <1>4, <1>5, <1>11 DEF a, b

\* All but the i-th.
LEMMA Without ==
    ASSUME NEW s, s \in Seq(ToSet(s)), NEW i \in 1..Len(s), NEW t, t = RemoveAt(s, i)
    PROVE  /\ t \in Seq(ToSet(t)) /\ ToSet(t) \subseteq ToSet(s) /\ Len(t) = Len(s) - 1
           /\ DOMAIN t = 1..Len(t) /\ Len(s) \in Nat
           /\ \A j \in DOMAIN t : \/ j \in DOMAIN s /\ j < i /\ t[j] = s[j]
                                  \/ j + 1 \in DOMAIN s /\ j + 1 > i /\ t[j] = s[j + 1]
<1>. DEFINE a == SubSeq(s, 1, i - 1)  b == SubSeq(s, i + 1, Len(s))
<1>1. /\ Len(s) \in Nat /\ DOMAIN s = 1..Len(s) /\ i \in 1..Len(s)
      /\ i - 1 \in 0..Len(s) /\ i \in 0..Len(s) /\ i \in Nat
  <2>1. Len(s) \in Nat /\ DOMAIN s = 1..Len(s)
    BY LenProperties
  <2>. QED
    BY <2>1
<1>2. a \in Seq(ToSet(a)) /\ Len(a) = i - 1 /\ ToSet(a) \subseteq ToSet(s)
  BY <1>1, CutInTwo
<1>3. \A j \in DOMAIN a : a[j] = s[j]
  <2>1. \A j \in 1..(i - 1) : s[j] \in ToSet(s)
    BY <1>1 DEF ToSet
  <2>2. \A j \in 1..(i - 1 - 1 + 1) : a[j] = s[1 + j - 1]
    BY <1>1, <2>1, SubSeqProperties
  <2>3. DOMAIN a = 1..i - 1 /\ \A j \in 1..i - 1 : 1 + j - 1 = j /\ j \in 1..(i - 1 - 1 + 1)
    <3>1. DOMAIN a = 1..Len(a)
      BY <1>2, LenProperties, SMTT(60)
    <3>. QED
      BY <1>1, <1>2, <3>1
  <2>. QED
    BY <2>2, <2>3
<1>4. /\ b \in Seq(ToSet(b)) /\ ToSet(b) \subseteq ToSet(s) /\ Len(b) = Len(s) - i
      /\ \A j \in DOMAIN b : i + j \in DOMAIN s /\ b[j] = s[i + j]
  BY <1>1, Rest
<1>5. t = a \o b
  BY DEF RemoveAt
<1>. HIDE DEF a, b
<1>6. /\ t \in Seq(ToSet(t)) /\ ToSet(t) = ToSet(a) \cup ToSet(b) /\ Len(t) = Len(a) + Len(b)
      /\ DOMAIN a = 1..Len(a) /\ DOMAIN b = 1..Len(b) /\ DOMAIN t = 1..Len(t)
  <2>1. a \in Seq(ToSet(a)) /\ b \in Seq(ToSet(b))
    BY <1>2, <1>4
  <2>2. /\ a \o b \in Seq(ToSet(a \o b)) /\ ToSet(a \o b) = ToSet(a) \cup ToSet(b)
        /\ Len(a \o b) = Len(a) + Len(b)
        /\ DOMAIN a = 1..Len(a) /\ DOMAIN b = 1..Len(b) /\ DOMAIN (a \o b) = 1..Len(a \o b)
    BY <2>1, Joined
  <2>. QED
    BY <1>5, <2>2
<1>7. \A j \in DOMAIN t : (j \in DOMAIN a /\ t[j] = a[j]) \/ (j - Len(a) \in DOMAIN b /\ t[j] = b[j - Len(a)])
  <2>1. \A j \in DOMAIN a : (a \o b)[j] = a[j]
    BY <1>2, <1>4, Joined
  <2>2. \A j \in DOMAIN (a \o b) : j \in DOMAIN a \/ (j - Len(a) \in DOMAIN b /\ (a \o b)[j] = b[j - Len(a)])
    BY <1>2, <1>4, Joined
  <2>. QED
    BY <1>5, <2>1, <2>2
<1>8. Len(t) = Len(s) - 1
  BY <1>1, <1>2, <1>4, <1>6
<1>9. ASSUME NEW j \in DOMAIN t
      PROVE  \/ j \in DOMAIN s /\ j < i /\ t[j] = s[j]
             \/ j + 1 \in DOMAIN s /\ j + 1 > i /\ t[j] = s[j + 1]
  <2>1. CASE j \in DOMAIN a /\ t[j] = a[j]
    <3>1. j \in DOMAIN s /\ j < i
      BY <1>1, <1>2, <1>6, <2>1
    <3>. QED
      BY <1>3, <2>1, <3>1
  <2>2. CASE j - Len(a) \in DOMAIN b /\ t[j] = b[j - Len(a)]
    <3>1. j \in Nat
      BY <1>6, <1>1, <1>8
    <3>2. i + (j - Len(a)) = j + 1 /\ j - Len(a) >= 1
      BY <1>1, <1>2, <1>6, <2>2, <3>1
    <3>3. j + 1 > i
      BY <1>1, <3>1, <3>2
    <3>. QED
      BY <1>4, <2>2, <3>2, <3>3
  <2>. QED
    BY <1>7, <2>1, <2>2
<1>10. ToSet(t) \subseteq ToSet(s)
  BY <1>2, <1>4, <1>6
<1>11. DOMAIN t = 1..Len(t) /\ Len(s) \in Nat
  BY <1>1, <1>6
<1>12. t \in Seq(ToSet(t))
  BY <1>6
<1>. QED
  BY <1>8, <1>9, <1>10, <1>11, <1>12

-----------------------------------------------------------------------------
(* Induction, by sets: the natural numbers have no set without a least     *)
(* number.  With it FlattenSeq, which is a recursive function, is shown to *)
(* exist and to be what it should.                                         *)

\* Every set of natural numbers that is not empty has a least one.
LEMMA Least ==
    ASSUME NEW T, T \subseteq Nat, T # {}
    PROVE  \E x \in T : \A y \in T : x <= y
<1>. DEFINE R == OpToRel(<, Nat)
<1>1. IsWellFoundedOn(R, Nat)
  BY Zenon, NatLessThanWellFounded
<1>2. \A x, y \in Nat : x < y => <<x, y>> \in R
  BY DEF OpToRel
<1>. HIDE DEF R
<1>3. \E x \in T : \A y \in T : ~(<<y, x>> \in R)
  BY <1>1, WFMin
<1>4. PICK x \in T : \A y \in T : ~(<<y, x>> \in R)
  BY <1>3
<1>5. \A y \in T : ~(y < x)
  BY <1>2, <1>4
<1>. QED
  BY <1>4, <1>5

\* A set that has 0, and with each number the next one, has all.
LEMMA SetInduction ==
    ASSUME NEW S, 0 \in S, \A n \in Nat : n \in S => n + 1 \in S
    PROVE  Nat \subseteq S
<1>. SUFFICES ASSUME NEW k \in Nat, k \notin S
              PROVE  FALSE
  OBVIOUS
<1>. DEFINE T == {n \in Nat : n \notin S}
<1>1. PICK x \in T : \A y \in T : x <= y
  BY Least
<1>2. x \in Nat /\ x # 0 /\ x \notin S
  OBVIOUS
<1>3. x - 1 \in Nat /\ ~(x <= x - 1)
  BY <1>2
<1>4. x - 1 \in S
  BY <1>1, <1>3
<1>. QED
  BY <1>2, <1>3, <1>4

\* The beginnings of the flattened q, put together one by one.
Sums(q, n, g) == \A i \in 1..n : g[i] = IF i = 1 THEN q[i] ELSE g[i - 1] \o q[i]

\* There is a function that holds the first n of them, whatever n is.
LEMMA SumsExist ==
    ASSUME NEW q, NEW n \in Nat
    PROVE  \E g : g = [i \in 1..n |-> g[i]] /\ Sums(q, n, g)
<1>. DEFINE S == {m \in Nat : \E g : g = [i \in 1..m |-> g[i]] /\ Sums(q, m, g)}
<1>1. 0 \in S
  <2>. DEFINE g == [i \in 1..0 |-> i]
  <2>1. g = [i \in 1..0 |-> g[i]] /\ Sums(q, 0, g)
    BY DEF Sums
  <2>. QED
    BY <2>1
<1>2. ASSUME NEW m \in Nat, m \in S
      PROVE  m + 1 \in S
  <2>1. PICK g : g = [i \in 1..m |-> g[i]] /\ Sums(q, m, g)
    BY <1>2
  <2>. DEFINE h == [i \in 1..(m + 1) |-> IF i <= m THEN g[i] ELSE IF i = 1 THEN q[i] ELSE g[i - 1] \o q[i]]
  <2>2. h = [i \in 1..(m + 1) |-> h[i]]
    OBVIOUS
  <2>3. Sums(q, m + 1, h)
    <3>1. SUFFICES ASSUME NEW i \in 1..(m + 1)
                   PROVE  h[i] = IF i = 1 THEN q[i] ELSE h[i - 1] \o q[i]
      BY DEF Sums
    <3>2. CASE i = 1
      <4>1. CASE m = 0
        <5>1. ~(i <= m)
          BY <3>2, <4>1
        <5>. QED
          BY <3>2, <5>1
      <4>2. CASE m # 0
        <5>1. i <= m /\ 1 \in 1..m
          BY <3>2, <4>2
        <5>2. g[1] = q[1]
          BY <2>1, <5>1 DEF Sums
        <5>. QED
          BY <3>2, <5>1, <5>2
      <4>. QED
        BY <4>1, <4>2
    <3>3. CASE i # 1
      <4>1. i - 1 \in 1..m /\ i - 1 \in 1..(m + 1)
        BY <3>3
      <4>2. h[i - 1] = g[i - 1]
        BY <4>1
      <4>3. CASE i <= m
        <5>1. h[i] = g[i] /\ i \in 1..m
          BY <4>3
        <5>2. g[i] = g[i - 1] \o q[i]
          BY <3>3, <5>1, <2>1 DEF Sums
        <5>. HIDE DEF h
        <5>. QED
          BY <3>3, <4>2, <5>1, <5>2
      <4>4. CASE ~(i <= m)
        <5>1. h[i] = g[i - 1] \o q[i]
          BY <3>3, <4>4
        <5>. HIDE DEF h
        <5>. QED
          BY <3>3, <4>2, <5>1
      <4>. QED
        BY <4>3, <4>4
    <3>. QED
      BY <3>2, <3>3
  <2>. HIDE DEF h
  <2>. QED
    BY <2>2, <2>3
<1>. HIDE DEF S
<1>3. n \in S
  BY <1>1, <1>2, SetInduction
<1>. QED
  BY <1>3 DEF S

\* FlattenSeq takes the last of them all.
LEMMA FlattenIsSum ==
    ASSUME NEW q, Len(q) \in Nat, Len(q) # 0
    PROVE  \E f : Sums(q, Len(q), f) /\ FlattenSeq(q) = f[Len(q)]
<1>. DEFINE F(f) == [i \in 1..Len(q) |-> IF i = 1 THEN q[i] ELSE f[i - 1] \o q[i]]
<1>. DEFINE f == CHOOSE f : f = F(f)
<1>1. PICK g : g = [i \in 1..Len(q) |-> g[i]] /\ Sums(q, Len(q), g)
  BY SumsExist
<1>2. g = F(g)
  BY <1>1, Zenon DEF Sums
<1>3. f = F(f)
  BY <1>2, Zenon
<1>4. FlattenSeq(q) = f[Len(q)]
  BY SMTT(60) DEF FlattenSeq
<1>5. Sums(q, Len(q), f)
  BY <1>3, Zenon DEF Sums
<1>. QED
  BY <1>4, <1>5

LEMMA NextSum ==
    ASSUME NEW q, NEW n, NEW f, Sums(q, n, f), NEW i \in Nat, i + 1 \in 1..n, i # 0
    PROVE  f[i + 1] = f[i] \o q[i + 1]
<1>. DEFINE k == i + 1
<1>1. k # 1 /\ k - 1 = i /\ k \in 1..n
  OBVIOUS
<1>. HIDE DEF k
<1>2. f[k] = f[k - 1] \o q[k]
  BY <1>1 DEF Sums
<1>3. f[k] = f[i] \o q[k]
  BY <1>1, <1>2
<1>. QED
  BY <1>3 DEF k

\* Induction over the places of a sequence.
LEMMA AllAreSo ==
    ASSUME NEW n \in Nat, NEW S, 1 \in S, \A i \in 1..(n - 1) : i \in S => i + 1 \in S
    PROVE  \A i \in 1..n : i \in S
<1>. DEFINE T == {i \in Nat : i + 1 \in 1..n => i + 1 \in S}
<1>1. 0 \in T
  OBVIOUS
<1>2. ASSUME NEW i \in Nat, i \in T
      PROVE  i + 1 \in T
  <2>. SUFFICES ASSUME i + 1 + 1 \in 1..n
                PROVE  i + 1 + 1 \in S
    OBVIOUS
  <2>1. i + 1 \in 1..n /\ i + 1 \in 1..(n - 1)
    OBVIOUS
  <2>. QED
    BY <1>2, <2>1
<1>. HIDE DEF T
<1>3. Nat \subseteq T
  BY <1>1, <1>2, SetInduction
<1>4. ASSUME NEW i \in 1..n
      PROVE  i \in S
  <2>1. i - 1 \in Nat /\ i - 1 + 1 = i
    OBVIOUS
  <2>2. i - 1 \in T
    BY <1>3, <2>1
  <2>. QED
    BY <2>1, <2>2 DEF T
<1>. QED
  BY <1>4

\* Flattening sequences gives a sequence of what is in them.
LEMMA Flattened ==
    ASSUME NEW B, NEW q \in Seq(Seq(B))
    PROVE  FlattenSeq(q) \in Seq(B)
<1>1. Len(q) \in Nat /\ \A i \in 1..Len(q) : q[i] \in Seq(B)
  BY LenProperties, ElementOfSeq
<1>2. CASE Len(q) = 0
  <2>1. q = <<>>
    BY <1>2, EmptySeq
  <2>2. FlattenSeq(q) = <<>>
    BY <1>2, <2>1 DEF FlattenSeq
  <2>. QED
    BY <2>2, EmptySeq
<1>3. CASE Len(q) # 0
  <2>1. PICK f : Sums(q, Len(q), f) /\ FlattenSeq(q) = f[Len(q)]
    BY <1>1, <1>3, FlattenIsSum
  <2>. DEFINE S == {i \in 1..Len(q) : f[i] \in Seq(B)}
  <2>2. 1 \in S
    <3>1. 1 \in 1..Len(q)
      BY <1>1, <1>3
    <3>2. f[1] = q[1]
      BY <2>1, <3>1 DEF Sums
    <3>. QED
      BY <1>1, <3>1, <3>2
  <2>3. ASSUME NEW i \in 1..(Len(q) - 1), i \in S
        PROVE  i + 1 \in S
    <3>1. i + 1 \in 1..Len(q) /\ i + 1 # 1 /\ i + 1 - 1 = i
      BY <1>1
    <3>2. f[i + 1] = f[i] \o q[i + 1]
      <4>1. i \in Nat /\ i # 0
        OBVIOUS
      <4>. QED
        BY <2>1, <3>1, <4>1, NextSum
    <3>3. f[i] \o q[i + 1] \in Seq(B)
      BY <1>1, <2>3, <3>1, ConcatProperties
    <3>. QED
      BY <3>1, <3>2, <3>3
  <2>. HIDE DEF S
  <2>4. \A i \in 1..Len(q) : i \in S
    BY <1>1, <2>2, <2>3, AllAreSo
  <2>5. Len(q) \in S
    BY <1>1, <1>3, <2>4
  <2>. QED
    BY <2>1, <2>5 DEF S
<1>. QED
  BY <1>2, <1>3

\* Flattening the elements of a sequence, each in a sequence of its own.
LEMMA FlattenedOnes ==
    ASSUME NEW B, NEW p \in Seq(B), NEW q, q = [i \in 1..Len(p) |-> <<p[i]>>]
    PROVE  FlattenSeq(q) = p
<1>1. Len(p) \in Nat /\ \A i \in 1..Len(p) : p[i] \in B
  BY LenProperties, ElementOfSeq
<1>2. q \in Seq(Seq(B)) /\ Len(q) = Len(p)
  <2>1. q \in [1..Len(p) -> Seq(B)]
    BY <1>1
  <2>2. q \in Seq(Seq(B))
    <3>1. \A S : [1..Len(p) -> S] \subseteq Seq(S)
      BY <1>1, SeqDef
    <3>. QED
      BY <2>1, <3>1
  <2>3. DOMAIN q = 1..Len(q) /\ DOMAIN q = 1..Len(p) /\ Len(q) \in Nat
    BY <2>1, <2>2, LenProperties
  <2>. QED
    BY <1>1, <2>2, <2>3
<1>3. CASE Len(p) = 0
  <2>1. p = <<>> /\ q = <<>>
    BY <1>2, <1>3, EmptySeq
  <2>. QED
    BY <1>2, <1>3, <2>1 DEF FlattenSeq
<1>4. CASE Len(p) # 0
  <2>1. PICK f : Sums(q, Len(p), f) /\ FlattenSeq(q) = f[Len(p)]
    BY <1>1, <1>2, <1>4, FlattenIsSum
  <2>. DEFINE S == {i \in 1..Len(p) : f[i] \in Seq(B) /\ Len(f[i]) = i /\ \A j \in 1..i : f[i][j] = p[j]}
  <2>2. 1 \in S
    <3>1. 1 \in 1..Len(p)
      BY <1>1, <1>4
    <3>2. f[1] = <<p[1]>>
      BY <2>1, <3>1 DEF Sums
    <3>3. <<p[1]>> \in Seq(B) /\ Len(<<p[1]>>) = 1 /\ \A j \in 1..1 : <<p[1]>>[j] = p[j]
      BY <1>1, <3>1
    <3>. QED
      BY <3>1, <3>2, <3>3
  <2>3. ASSUME NEW i \in 1..(Len(p) - 1), i \in S
        PROVE  i + 1 \in S
    <3>1. i + 1 \in 1..Len(p) /\ i + 1 # 1 /\ i + 1 - 1 = i /\ i \in 1..Len(p)
      BY <1>1
    <3>2. f[i + 1] = f[i] \o <<p[i + 1]>>
      <4>1. i \in Nat /\ i # 0
        OBVIOUS
      <4>2. f[i + 1] = f[i] \o q[i + 1]
        BY <2>1, <3>1, <4>1, NextSum
      <4>3. q[i + 1] = <<p[i + 1]>>
        BY <3>1
      <4>. QED
        BY <4>2, <4>3
    <3>3. p[i + 1] \in B
      BY <1>1, <3>1
    <3>4. /\ f[i + 1] \in Seq(B) /\ Len(f[i + 1]) = i + 1
          /\ \A j \in 1..i : f[i + 1][j] = f[i][j]
          /\ f[i + 1][i + 1] = p[i + 1]
      <4>1. <<p[i + 1]>> \in Seq(B) /\ Len(<<p[i + 1]>>) = 1 /\ <<p[i + 1]>>[1] = p[i + 1]
        BY <3>3
      <4>2. /\ f[i] \o <<p[i + 1]>> \in Seq(B)
            /\ Len(f[i] \o <<p[i + 1]>>) = Len(f[i]) + Len(<<p[i + 1]>>)
            /\ \A j \in 1..(Len(f[i]) + Len(<<p[i + 1]>>)) :
                 (f[i] \o <<p[i + 1]>>)[j] = IF j <= Len(f[i]) THEN f[i][j] ELSE <<p[i + 1]>>[j - Len(f[i])]
        BY <2>3, <4>1, ConcatProperties
      <4>3. Len(f[i]) = i /\ i + 1 - i = 1 /\ ~(i + 1 <= i) /\ i + 1 \in 1..(i + 1) /\ i \in Nat
        BY <2>3
      <4>4. \A j \in 1..(i + 1) : (f[i] \o <<p[i + 1]>>)[j] = IF j <= i THEN f[i][j] ELSE <<p[i + 1]>>[j - i]
        BY <4>1, <4>2, <4>3
      <4>5. \A j \in 1..i : j \in 1..(i + 1) /\ j <= i
        BY <4>3
      <4>6. (f[i] \o <<p[i + 1]>>)[i + 1] = <<p[i + 1]>>[1]
        <5>. DEFINE k == i + 1
        <5>1. k \in 1..(i + 1) /\ ~(k <= i) /\ k - i = 1
          BY <4>3
        <5>. HIDE DEF k
        <5>2. (f[i] \o <<p[i + 1]>>)[k] = <<p[i + 1]>>[k - i]
          BY <4>4, <5>1
        <5>3. (f[i] \o <<p[i + 1]>>)[k] = <<p[i + 1]>>[1]
          BY <5>1, <5>2
        <5>. QED
          BY <5>3 DEF k
      <4>7. Len(f[i] \o <<p[i + 1]>>) = i + 1
        BY <4>1, <4>2, <4>3
      <4>. QED
        BY <3>2, <4>1, <4>2, <4>4, <4>5, <4>6, <4>7
    <3>5. \A j \in 1..(i + 1) : f[i + 1][j] = p[j]
      <4>1. \A j \in 1..(i + 1) : j \in 1..i \/ j = i + 1
        OBVIOUS
      <4>2. \A j \in 1..i : f[i][j] = p[j]
        BY <2>3
      <4>. QED
        BY <3>4, <4>1, <4>2
    <3>. QED
      BY <3>1, <3>4, <3>5
  <2>. HIDE DEF S
  <2>4. \A i \in 1..Len(p) : i \in S
    BY <1>1, <2>2, <2>3, AllAreSo
  <2>5. Len(p) \in S
    BY <1>1, <1>4, <2>4
  <2>6. f[Len(p)] \in Seq(B) /\ Len(f[Len(p)]) = Len(p) /\ \A j \in 1..Len(p) : f[Len(p)][j] = p[j]
    BY <2>5 DEF S
  <2>7. f[Len(p)] = p
    BY <2>6, SeqEqual
  <2>. QED
    BY <2>1, <2>7
<1>. QED
  BY <1>3, <1>4

-----------------------------------------------------------------------------
(* Sums of numbers, which the model takes with FoldLeft, and the ranges    *)
(* between them.                                                           *)

\* Every set of numbers that has a bound has a greatest one, which Max is.
LEMMA Greatest ==
    ASSUME NEW n \in Nat, NEW S, S \subseteq 0..n, S # {}
    PROVE  Max(S) \in S /\ \A y \in S : y <= Max(S)
<1>. DEFINE T == {b \in Nat : \A y \in S : y <= b}
<1>1. n \in T
  OBVIOUS
<1>2. PICK b \in T : \A c \in T : b <= c
  BY <1>1, Least
<1>3. b \in S
  <2>. SUFFICES ASSUME b \notin S
                PROVE  FALSE
    OBVIOUS
  <2>1. b # 0
    <3>1. PICK y \in S : TRUE
      OBVIOUS
    <3>2. y \in Nat /\ y <= b /\ y # b
      BY <1>2
    <3>. QED
      BY <3>2
  <2>2. b - 1 \in Nat /\ ~(b <= b - 1)
    BY <2>1
  <2>3. b - 1 \in T
    BY <2>2
  <2>. QED
    BY <1>2, <2>2, <2>3
<1>4. \E x \in S : \A y \in S : x >= y
  BY <1>3
<1>. HIDE DEF T
<1>5. Max(S) \in S /\ \A y \in S : Max(S) >= y
  BY <1>4 DEF Max
<1>. QED
  BY <1>5

LEMMA LeastIs ==
    ASSUME NEW S, S \subseteq Nat, S # {}
    PROVE  Min(S) \in S /\ \A y \in S : Min(S) <= y
BY Least DEF Min

LEMMA MinMaxOfTwo ==
    ASSUME NEW a \in Nat, NEW b \in Nat
    PROVE  Min({a, b}) = (IF a <= b THEN a ELSE b) /\ Max({a, b}) = (IF a <= b THEN b ELSE a)
BY DEF Min, Max

Total(L, n) == FoldLeft(LAMBDA a, x : a + x, 0, SubSeq(L, 1, n))

\* The recursion of FoldLeft, over the sets of places of s.
SumsUp(s, D, f) == f = [S \in SUBSET D |-> IF S = {} THEN 0 ELSE f[S \ {Max(S)}] + s[Max(S)]]

LEMMA SumsUpExist ==
    ASSUME NEW s, NEW n \in Nat
    PROVE  \E f : SumsUp(s, 1..n, f)
<1>. DEFINE T == {m \in Nat : \E f : SumsUp(s, 1..m, f)}
<1>1. 0 \in T
  <2>. DEFINE f == [S \in SUBSET (1..0) |-> 0]
  <2>1. \A S \in SUBSET (1..0) : S = {}
    OBVIOUS
  <2>2. SumsUp(s, 1..0, f)
    BY <2>1 DEF SumsUp
  <2>. QED
    BY <2>2
<1>2. ASSUME NEW m \in Nat, m \in T
      PROVE  m + 1 \in T
  <2>1. PICK f : SumsUp(s, 1..m, f)
    BY <1>2
  <2>. DEFINE g == [S \in SUBSET (1..(m + 1)) |->
                      IF S \subseteq 1..m THEN f[S] ELSE f[S \ {m + 1}] + s[m + 1]]
  <2>2. ASSUME NEW S \in SUBSET (1..(m + 1))
        PROVE  g[S] = IF S = {} THEN 0 ELSE g[S \ {Max(S)}] + s[Max(S)]
    <3>1. CASE S = {}
      <4>1. f[{}] = 0
        BY <2>1 DEF SumsUp
      <4>. QED
        BY <3>1, <4>1
    <3>2. CASE S # {} /\ S \subseteq 1..m
      <4>1. Max(S) \in S
        <5>1. S \subseteq 0..m
          BY <3>2
        <5>. QED
          BY <3>2, <5>1, Greatest
      <4>2. S \ {Max(S)} \subseteq 1..m /\ S \ {Max(S)} \in SUBSET (1..(m + 1))
        BY <3>2
      <4>3. g[S \ {Max(S)}] = f[S \ {Max(S)}] /\ g[S] = f[S]
        BY <3>2, <4>2
      <4>4. f[S] = f[S \ {Max(S)}] + s[Max(S)]
        BY <2>1, <3>2 DEF SumsUp
      <4>. QED
        BY <3>2, <4>3, <4>4
    <3>3. CASE ~(S \subseteq 1..m)
      <4>1. m + 1 \in S
        BY <3>3
      <4>2. Max(S) \in S /\ \A y \in S : y <= Max(S)
        <5>1. S \subseteq 0..(m + 1) /\ S # {} /\ m + 1 \in Nat
          BY <4>1
        <5>. QED
          BY <5>1, Greatest
      <4>3. Max(S) = m + 1
        <5>1. Max(S) \in 1..(m + 1) /\ m + 1 <= Max(S)
          BY <4>1, <4>2
        <5>. QED
          BY <5>1
      <4>4. S \ {m + 1} \subseteq 1..m /\ S \ {m + 1} \in SUBSET (1..(m + 1))
        OBVIOUS
      <4>5. g[S \ {m + 1}] = f[S \ {m + 1}] /\ g[S] = f[S \ {m + 1}] + s[m + 1]
        BY <3>3, <4>4
      <4>. QED
        BY <3>3, <4>3, <4>5
    <3>. QED
      BY <3>1, <3>2, <3>3
  <2>3. g = [S \in SUBSET (1..(m + 1)) |-> g[S]]
    OBVIOUS
  <2>. HIDE DEF g
  <2>4. SumsUp(s, 1..(m + 1), g)
    BY <2>2, <2>3 DEF SumsUp
  <2>. QED
    BY <2>4
<1>. HIDE DEF T
<1>3. n \in T
  BY <1>1, <1>2, SetInduction
<1>. QED
  BY <1>3 DEF T

\* f sums up the first n of L.
SumsUpFirst(L, n, f) == \E s : SumsUp(s, 1..n, f) /\ \A i \in 1..n : s[i] = L[i]

LEMMA TotalIs ==
    ASSUME NEW L \in Seq(Nat)
    PROVE  /\ Total(L, 0) = 0
           /\ \A n \in 0..Len(L) : Total(L, n) \in Nat
           /\ \A n \in 1..Len(L) : Total(L, n) = Total(L, n - 1) + L[n]
<1>1. Len(L) \in Nat /\ \A i \in 1..Len(L) : L[i] \in Nat
  BY LenProperties, ElementOfSeq
<1>2. ASSUME NEW n \in 0..Len(L)
      PROVE  LET s == SubSeq(L, 1, n) IN
             /\ DOMAIN s = 1..n /\ \A i \in 1..n : s[i] = L[i]
             /\ \E f : SumsUp(s, 1..n, f) /\ Total(L, n) = f[1..n]
  <2>. DEFINE s == SubSeq(L, 1, n)
  <2>1. DOMAIN s = 1..n /\ \A i \in 1..n : s[i] = L[i]
    <3>1. L \in Seq(ToSet(L))
      BY Members
    <3>2. s \in Seq(ToSet(s)) /\ Len(s) = n
      BY <3>1, CutInTwo
    <3>3. DOMAIN s = 1..n
      BY <3>2, LenProperties
    <3>4. n \in Nat /\ \A i \in 1..n : L[i] \in Nat
      BY <1>1
    <3>5. \A i \in 1..(n - 1 + 1) : s[i] = L[1 + i - 1]
      BY <1>1, <3>4, SubSeqProperties
    <3>6. \A i \in 1..n : i \in 1..(n - 1 + 1) /\ 1 + i - 1 = i
      BY <3>4
    <3>. QED
      BY <3>3, <3>5, <3>6
  <2>. HIDE DEF s
  <2>2. FoldLeft(LAMBDA a, x : a + x, 0, s) = (CHOOSE f : SumsUp(s, DOMAIN s, f))[DOMAIN s]
    BY DEF FoldLeft, MapThenFoldSet, SumsUp
  <2>3. \E f : SumsUp(s, 1..n, f)
    BY SumsUpExist
  <2>4. SumsUp(s, 1..n, CHOOSE f : SumsUp(s, 1..n, f))
    BY <2>3
  <2>5. Total(L, n) = (CHOOSE f : SumsUp(s, 1..n, f))[1..n]
    BY <2>1, <2>2 DEF Total, s
  <2>. QED
    BY <2>1, <2>4, <2>5 DEF s
\* What the first k of n places sum up to does not depend on n.
<1>3. ASSUME NEW n \in 0..Len(L), NEW k \in 0..n, NEW f, SumsUpFirst(L, n, f)
      PROVE  /\ k = 0 => f[1..k] = 0
             /\ k # 0 => f[1..k] = f[1..(k - 1)] + L[k]
  <2>1. k \in Nat /\ 1..k \in SUBSET (1..n)
    BY <1>1
  <2>5. PICK s : SumsUp(s, 1..n, f) /\ \A i \in 1..n : s[i] = L[i]
    BY <1>3 DEF SumsUpFirst
  <2>2. f[1..k] = IF 1..k = {} THEN 0 ELSE f[(1..k) \ {Max(1..k)}] + s[Max(1..k)]
    BY <2>1, <2>5 DEF SumsUp
  <2>3. CASE k = 0
    BY <2>2, <2>3
  <2>4. CASE k # 0
    <3>1. k \in 1..k /\ k \in 1..n /\ 1..k # {} /\ (1..k) \ {k} = 1..(k - 1)
      <4>1. k \in 1..k /\ k \in 1..n
        BY <2>1, <2>4
      <4>2. (1..k) \ {k} = 1..(k - 1)
        BY <2>1, <2>4
      <4>. QED
        BY <4>1, <4>2
    <3>2. Max(1..k) \in 1..k /\ \A y \in 1..k : y <= Max(1..k)
      <4>1. 1..k \subseteq 0..k
        OBVIOUS
      <4>. QED
        BY <2>1, <3>1, <4>1, Greatest
    <3>3. Max(1..k) = k
      BY <2>1, <3>1, <3>2
    <3>. QED
      BY <2>2, <2>4, <2>5, <3>1, <3>3
  <2>. QED
    BY <2>3, <2>4
<1>4. Total(L, 0) = 0
  <2>1. 0 \in 0..Len(L)
    BY <1>1
  <2>2. PICK f : SumsUp(SubSeq(L, 1, 0), 1..0, f) /\ Total(L, 0) = f[1..0]
    BY <1>2, <2>1
  <2>. DEFINE s == SubSeq(L, 1, 0)
  <2>3. \A i \in 1..0 : s[i] = L[i]
    BY <1>2, <2>1
  <2>. HIDE DEF s
  <2>4. f[1..0] = 0
    <3>1. 0 \in 0..0 /\ SumsUpFirst(L, 0, f)
      BY <2>2, <2>3 DEF s, SumsUpFirst
    <3>. QED
      BY <1>3, <2>1, <3>1
  <2>. QED
    BY <2>2, <2>4
<1>5. ASSUME NEW n \in 1..Len(L)
      PROVE  Total(L, n) = Total(L, n - 1) + L[n]
  <2>1. n \in 0..Len(L) /\ n - 1 \in 0..Len(L) /\ n # 0 /\ n \in Nat /\ n - 1 \in Nat
    BY <1>1
  <2>2. PICK f : SumsUp(SubSeq(L, 1, n), 1..n, f) /\ Total(L, n) = f[1..n]
    BY <1>2, <2>1
  <2>3. PICK g : SumsUp(SubSeq(L, 1, n - 1), 1..(n - 1), g) /\ Total(L, n - 1) = g[1..(n - 1)]
    BY <1>2, <2>1
  <2>. DEFINE s == SubSeq(L, 1, n)  t == SubSeq(L, 1, n - 1)
  <2>4. (\A i \in 1..n : s[i] = L[i]) /\ \A i \in 1..(n - 1) : t[i] = L[i]
    BY <1>2, <2>1
  <2>5. SumsUpFirst(L, n, f) /\ SumsUpFirst(L, n - 1, g)
    BY <2>2, <2>3, <2>4 DEF SumsUpFirst
  <2>. HIDE DEF s, t
  <2>. DEFINE K == {k \in Nat : k \in 0..(n - 1) => f[1..k] = g[1..k]}
  <2>6. 0 \in K
    <3>1. 0 \in 0..n /\ 0 \in 0..(n - 1)
      BY <2>1
    <3>2. f[1..0] = 0
      BY <1>3, <2>1, <2>5, <3>1
    <3>3. g[1..0] = 0
      BY <1>3, <2>1, <2>5, <3>1
    <3>. QED
      BY <3>2, <3>3
  <2>7. ASSUME NEW k \in Nat, k \in K
        PROVE  k + 1 \in K
    <3>. SUFFICES ASSUME k + 1 \in 0..(n - 1)
                  PROVE  f[1..(k + 1)] = g[1..(k + 1)]
      OBVIOUS
    <3>. DEFINE j == k + 1
    <3>1. j \in 0..(n - 1) /\ j \in 0..n /\ j # 0 /\ j - 1 = k /\ k \in 0..(n - 1)
      BY <2>1
    <3>. HIDE DEF j
    <3>2. f[1..j] = f[1..(j - 1)] + L[j]
      BY <1>3, <2>1, <2>5, <3>1
    <3>3. g[1..j] = g[1..(j - 1)] + L[j]
      <4>. DEFINE p == n - 1
      <4>1. p \in 0..Len(L) /\ j \in 0..p /\ SumsUpFirst(L, p, g)
        BY <2>1, <2>5, <3>1
      <4>2. j # 0
        BY <3>1
      <4>. HIDE DEF p, K
      <4>. QED
        BY <1>3, <4>1, <4>2
    <3>4. f[1..k] = g[1..k]
      BY <2>7, <3>1
    <3>. QED
      BY <3>1, <3>2, <3>3, <3>4 DEF j
  <2>. HIDE DEF K
  <2>8. n - 1 \in K
    BY <2>1, <2>6, <2>7, SetInduction
  <2>9. f[1..(n - 1)] = g[1..(n - 1)]
    <3>1. n - 1 \in 0..(n - 1)
      BY <2>1
    <3>. QED
      BY <2>8, <3>1 DEF K
  <2>10. f[1..n] = f[1..(n - 1)] + L[n]
    <3>1. n \in 0..n
      BY <2>1
    <3>. QED
      BY <1>3, <2>1, <2>5, <3>1
  <2>. QED
    BY <2>2, <2>3, <2>9, <2>10
<1>. DEFINE K == {n \in Nat : n \in 0..Len(L) => Total(L, n) \in Nat}
<1>6. 0 \in K
  BY <1>4
<1>7. ASSUME NEW n \in Nat, n \in K
      PROVE  n + 1 \in K
  <2>. SUFFICES ASSUME n + 1 \in 0..Len(L)
                PROVE  Total(L, n + 1) \in Nat
    OBVIOUS
  <2>. DEFINE m == n + 1
  <2>1. m \in 1..Len(L) /\ m - 1 = n /\ n \in 0..Len(L)
    BY <1>1
  <2>. HIDE DEF m
  <2>2. Total(L, m) = Total(L, m - 1) + L[m]
    BY <1>5, <2>1
  <2>3. Total(L, n) \in Nat /\ L[m] \in Nat
    BY <1>1, <1>7, <2>1
  <2>4. Total(L, m) \in Nat
    BY <2>1, <2>2, <2>3
  <2>. QED
    BY <2>4 DEF m
<1>. HIDE DEF K
<1>8. \A n \in 0..Len(L) : Total(L, n) \in Nat
  <2>1. Nat \subseteq K
    BY <1>6, <1>7, SetInduction
  <2>. QED
    BY <1>1, <2>1 DEF K
<1>. QED
  BY <1>4, <1>5, <1>8

LEMMA TotalsRise ==
    ASSUME NEW L \in Seq(Nat \ {0})
    PROVE  /\ \A i \in 0..Len(L) : Total(L, i) \in Nat
           /\ \A i \in 1..Len(L) : L[i] \in Nat \ {0} /\ Total(L, i) = Total(L, i - 1) + L[i]
           /\ \A j \in 0..Len(L) : \A i \in 0..j : Total(L, i) <= Total(L, j)
           /\ Total(L, 0) = 0 /\ Len(L) \in Nat
<1>1. Len(L) \in Nat /\ L \in Seq(Nat) /\ \A i \in 1..Len(L) : L[i] \in Nat \ {0}
  BY LenProperties, SeqMonotonic, ElementOfSeq
<1>2. /\ Total(L, 0) = 0
      /\ \A n \in 0..Len(L) : Total(L, n) \in Nat
      /\ \A n \in 1..Len(L) : Total(L, n) = Total(L, n - 1) + L[n]
  BY <1>1, TotalIs
<1>. DEFINE K == {j \in Nat : j \in 0..Len(L) => \A i \in 0..j : Total(L, i) <= Total(L, j)}
<1>3. 0 \in K
  <2>1. \A i \in 0..0 : i = 0
    OBVIOUS
  <2>. QED
    BY <1>2, <2>1
<1>4. ASSUME NEW k \in Nat, k \in K
      PROVE  k + 1 \in K
  <2>. SUFFICES ASSUME k + 1 \in 0..Len(L), NEW i \in 0..(k + 1)
                PROVE  Total(L, i) <= Total(L, k + 1)
    OBVIOUS
  <2>. DEFINE m == k + 1
  <2>1. m \in 1..Len(L) /\ m \in 0..Len(L) /\ m - 1 = k /\ k \in 0..Len(L) /\ (i = m \/ i \in 0..k)
    BY <1>1
  <2>. HIDE DEF m
  <2>2. Total(L, m) = Total(L, k) + L[m] /\ Total(L, k) \in Nat /\ L[m] \in Nat /\ Total(L, m) \in Nat
    BY <1>1, <1>2, <2>1
  <2>3. CASE i = m
    <3>1. Total(L, m) <= Total(L, m)
      BY <2>2
    <3>. QED
      BY <2>3, <3>1 DEF m
  <2>4. CASE i \in 0..k
    <3>1. Total(L, i) <= Total(L, k) /\ i \in 0..Len(L)
      BY <1>1, <1>4, <2>1, <2>4
    <3>2. Total(L, i) \in Nat
      BY <1>2, <3>1
    <3>3. Total(L, i) <= Total(L, m)
      BY <2>2, <3>1, <3>2
    <3>. QED
      BY <3>3 DEF m
  <2>. QED
    BY <2>1, <2>3, <2>4
<1>. HIDE DEF K
<1>5. Nat \subseteq K
  BY <1>3, <1>4, SetInduction
<1>6. \A j \in 0..Len(L) : \A i \in 0..j : Total(L, i) <= Total(L, j)
  BY <1>1, <1>5 DEF K
<1>. QED
  BY <1>1, <1>2, <1>6

\* The parts of L, one behind the other from 0 on, that a range touches.
Reached(L, first, last) ==
    {i \in 1..Len(L) : first < last /\ Total(L, i - 1) < last /\ Total(L, i - 1) + L[i] > first}

\* They are one behind the other; the first of them has the beginning of the
\* range, if there is one at all, and the last one its end, or is the last
\* part of all.
LEMMA ReachedInARow ==
    ASSUME NEW L \in Seq(Nat \ {0}), NEW first \in Nat, NEW last \in Nat,
           NEW R, R = Reached(L, first, last), R # {}
    PROVE  \E lo, hi \in 1..Len(L) :
             /\ lo <= hi /\ R = lo..hi /\ Min(R) = lo /\ Cardinality(R) = hi - lo + 1
             /\ first < last /\ Total(L, lo - 1) <= first /\ first < Total(L, lo)
             /\ Total(L, hi - 1) < last
             /\ hi = Len(L) \/ last <= Total(L, hi)
<1>1. /\ Len(L) \in Nat /\ Total(L, 0) = 0
      /\ \A i \in 0..Len(L) : Total(L, i) \in Nat
      /\ \A i \in 1..Len(L) : L[i] \in Nat \ {0} /\ Total(L, i) = Total(L, i - 1) + L[i]
      /\ \A j \in 0..Len(L) : \A i \in 0..j : Total(L, i) <= Total(L, j)
  BY TotalsRise
<1>2. R \subseteq 1..Len(L) /\ R \subseteq 0..Len(L) /\ R \subseteq Nat
  BY <1>1 DEF Reached
<1>3. \A i \in 1..Len(L) : i \in R <=> first < last /\ Total(L, i - 1) < last /\ first < Total(L, i)
  <2>1. \A i \in 1..Len(L) : i \in R <=> first < last /\ Total(L, i - 1) < last /\ Total(L, i) > first
    BY <1>1 DEF Reached
  <2>2. \A i \in 1..Len(L) : i \in 0..Len(L) /\ Total(L, i) \in Nat
    BY <1>1
  <2>. QED
    BY <2>1, <2>2
<1>. DEFINE lo == Min(R)  hi == Max(R)
<1>4. lo \in R /\ (\A i \in R : lo <= i) /\ hi \in R /\ \A i \in R : i <= hi
  BY <1>1, <1>2, LeastIs, Greatest
<1>. HIDE DEF lo, hi
<1>5. lo \in 1..Len(L) /\ hi \in 1..Len(L) /\ lo <= hi
  BY <1>2, <1>4
<1>6. /\ first < last /\ Total(L, lo - 1) < last /\ first < Total(L, lo)
      /\ Total(L, hi - 1) < last /\ first < Total(L, hi)
  BY <1>3, <1>4, <1>5
<1>7. R = lo..hi
  <2>1. ASSUME NEW i \in lo..hi
        PROVE  i \in R
    <3>1. i \in 1..Len(L) /\ i \in 0..Len(L) /\ lo \in 0..i /\ i - 1 \in 0..(hi - 1) /\ hi - 1 \in 0..Len(L)
             /\ lo \in 0..Len(L) /\ i - 1 \in 0..Len(L)
      BY <1>1, <1>5
    <3>2. Total(L, lo) <= Total(L, i) /\ Total(L, i - 1) <= Total(L, hi - 1)
      BY <1>1, <3>1
    <3>3. Total(L, lo) \in Nat /\ Total(L, i) \in Nat /\ Total(L, i - 1) \in Nat /\ Total(L, hi - 1) \in Nat
      BY <1>1, <3>1
    <3>4. Total(L, i - 1) < last /\ first < Total(L, i)
      BY <1>6, <3>2, <3>3
    <3>. QED
      BY <1>3, <1>6, <3>1, <3>4
  <2>2. ASSUME NEW i \in R
        PROVE  i \in lo..hi
    BY <1>2, <1>4, <1>5
  <2>. QED
    BY <2>1, <2>2
<1>8. Cardinality(R) = hi - lo + 1
  <2>1. lo \in Int /\ hi \in Int /\ ~(lo > hi)
    BY <1>5
  <2>. QED
    BY <1>7, <2>1, FS_Interval
<1>9. Total(L, lo - 1) <= first
  <2>1. CASE lo = 1
    BY <1>1, <2>1
  <2>2. CASE lo # 1
    <3>. DEFINE p == lo - 1
    <3>1. p \in 1..Len(L) /\ p \in 0..Len(L) /\ p - 1 \in 0..p /\ p - 1 \in 0..Len(L) /\ ~(lo <= p)
      BY <1>5, <2>2
    <3>. HIDE DEF p
    <3>2. p \notin R
      BY <1>4, <3>1
    <3>3. Total(L, p - 1) <= Total(L, p) /\ Total(L, p) \in Nat /\ Total(L, p - 1) \in Nat
      BY <1>1, <3>1
    <3>4. Total(L, p) < last
      BY <1>6 DEF p
    <3>5. Total(L, p - 1) < last
      BY <3>3, <3>4
    <3>6. ~(first < Total(L, p))
      BY <1>3, <1>6, <3>1, <3>2, <3>5
    <3>7. Total(L, p) <= first
      BY <3>3, <3>6
    <3>. QED
      BY <3>7 DEF p
  <2>. QED
    BY <2>1, <2>2
<1>10. hi = Len(L) \/ last <= Total(L, hi)
  <2>. SUFFICES ASSUME hi # Len(L)
                PROVE  last <= Total(L, hi)
    OBVIOUS
  <2>. DEFINE q == hi + 1
  <2>1. q \in 1..Len(L) /\ q \in 0..Len(L) /\ q - 1 = hi /\ hi \in 0..q /\ hi \in 0..Len(L) /\ ~(q <= hi)
    BY <1>1, <1>5
  <2>. HIDE DEF q
  <2>2. q \notin R
    BY <1>4, <2>1
  <2>3. Total(L, hi) <= Total(L, q) /\ Total(L, q) \in Nat /\ Total(L, hi) \in Nat
    BY <1>1, <2>1
  <2>4. first < Total(L, q)
    BY <1>6, <2>3
  <2>5. ~(Total(L, hi) < last)
    BY <1>3, <1>6, <2>1, <2>2, <2>4
  <2>. QED
    BY <2>3, <2>5
<1>. QED
  <2>1. Min(R) = lo
    BY DEF lo
  <2>. QED
    BY <1>5, <1>6, <1>7, <1>8, <1>9, <1>10, <2>1

\* A range that begins inside the parts and is not empty reaches one.
LEMMA ReachesOne ==
    ASSUME NEW L \in Seq(Nat \ {0}), NEW first \in Nat, NEW last \in Nat,
           first < last, first < Total(L, Len(L))
    PROVE  Reached(L, first, last) # {}
<1>1. /\ Len(L) \in Nat /\ Total(L, 0) = 0
      /\ \A i \in 0..Len(L) : Total(L, i) \in Nat
      /\ \A i \in 1..Len(L) : L[i] \in Nat \ {0} /\ Total(L, i) = Total(L, i - 1) + L[i]
  BY TotalsRise
<1>. DEFINE T == {i \in 0..Len(L) : first < Total(L, i)}
<1>2. T \subseteq Nat /\ Len(L) \in T
  BY <1>1
<1>3. PICK i \in T : \A j \in T : i <= j
  BY <1>2, Least
<1>4. i \in 0..Len(L) /\ first < Total(L, i) /\ i # 0
  <2>1. ~(first < 0)
    OBVIOUS
  <2>. QED
    BY <1>1, <1>3, <2>1
<1>5. i \in 1..Len(L) /\ i - 1 \in 0..Len(L) /\ ~(i <= i - 1)
  BY <1>1, <1>4
<1>6. ~(first < Total(L, i - 1))
  BY <1>3, <1>5
<1>7. Total(L, i - 1) \in Nat /\ Total(L, i) \in Nat /\ L[i] \in Nat /\ Total(L, i) = Total(L, i - 1) + L[i]
  BY <1>1, <1>4, <1>5
<1>8. Total(L, i - 1) < last /\ Total(L, i - 1) + L[i] > first
  BY <1>4, <1>6, <1>7
<1>. QED
  BY <1>5, <1>8 DEF Reached

\* What mem_blocks of FilserMemory makes of the parts of L.
PartsOf(L, M, first, last) ==
    [n \in 1..Min({M, Cardinality(Reached(L, first, last))}) |->
       LET i    == Min(Reached(L, first, last)) + n - 1
           from == Max({first, Total(L, i - 1)})
       IN [flight |-> i, offset |-> from - Total(L, i - 1),
           length |-> Min({last, Total(L, i - 1) + L[i]}) - from]]

\* From c[i - 1] to c[i] it is the i-th of the sections.
PartBounds(L, b, n, c) ==
    /\ c \in [0..n -> Nat]
    /\ \A i \in 1..n : /\ b[i] \in [flight : 1..Len(L), offset : Nat, length : Nat \ {0}]
                       /\ b[i].offset + b[i].length <= L[b[i].flight]
                       /\ Total(L, b[i].flight - 1) + b[i].offset = c[i - 1]
                       /\ c[i] = c[i - 1] + b[i].length

\* The sections make up the range, until it, the parts or the table ends.
\* The n of them run from first to last, unless there is less or no room.
RunFromTo(L, M, first, last, b, n, c) ==
    /\ b = [i \in 1..n |-> b[i]]
    /\ PartBounds(L, b, n, c)
    /\ c[0] = first
    /\ n = 0 <=> ~(first < last /\ first < Total(L, Len(L)))
    /\ n # 0 => c[n] <= last
    /\ n # 0 /\ (n # M \/ n = Cardinality(Reached(L, first, last)))
         => c[n] = Min({last, Total(L, Len(L))})

LEMMA PartsInARow ==
    ASSUME NEW L \in Seq(Nat \ {0}), NEW M \in Nat \ {0}, NEW first \in Nat, NEW last \in Nat
    PROVE  \E n, c : n \in 0..M /\ RunFromTo(L, M, first, last, PartsOf(L, M, first, last), n, c)
<1>. DEFINE R == Reached(L, first, last)  b == PartsOf(L, M, first, last)
<1>1. /\ Len(L) \in Nat /\ Total(L, 0) = 0
      /\ \A i \in 0..Len(L) : Total(L, i) \in Nat
      /\ \A i \in 1..Len(L) : L[i] \in Nat \ {0} /\ Total(L, i) = Total(L, i - 1) + L[i]
      /\ \A j \in 0..Len(L) : \A i \in 0..j : Total(L, i) <= Total(L, j)
  BY TotalsRise
<1>2. CASE R = {}
  <2>. DEFINE c == [i \in 0..0 |-> first]
  <2>1. Min({M, Cardinality(R)}) = 0
    <3>1. Cardinality(R) = 0 /\ 0 \in Nat /\ M \in Nat
      BY <1>2, FS_EmptySet
    <3>. QED
      BY <3>1, MinMaxOfTwo
  <2>2. b = [i \in 1..0 |-> b[i]]
    BY <2>1 DEF PartsOf
  <2>3. ~(first < last /\ first < Total(L, Len(L)))
    BY <1>2, ReachesOne
  <2>4. PartBounds(L, b, 0, c) /\ c[0] = first
    BY DEF PartBounds
  <2>5. 0 \in 0..M
    OBVIOUS
  <2>. HIDE DEF b, c
  <2>. QED
    BY <2>2, <2>3, <2>4, <2>5 DEF b, RunFromTo
<1>3. CASE R # {}
  <2>1. PICK lo, hi \in 1..Len(L) :
             /\ lo <= hi /\ R = lo..hi /\ Min(R) = lo /\ Cardinality(R) = hi - lo + 1
             /\ first < last /\ Total(L, lo - 1) <= first /\ first < Total(L, lo)
             /\ Total(L, hi - 1) < last
             /\ hi = Len(L) \/ last <= Total(L, hi)
    BY <1>3, ReachedInARow
  <2>. DEFINE n == Min({M, Cardinality(R)})
              c == [i \in 0..n |-> IF i = 0 THEN first ELSE Min({last, Total(L, lo + i - 1)})]
  <2>2. n = (IF M <= hi - lo + 1 THEN M ELSE hi - lo + 1)
    <3>. DEFINE q == hi - lo + 1
    <3>1. q \in Nat /\ M \in Nat /\ Cardinality(R) = q
      BY <2>1
    <3>. HIDE DEF q, R
    <3>2. n = (IF M <= q THEN M ELSE q)
      BY <3>1, MinMaxOfTwo
    <3>. QED
      BY <3>2 DEF q
  <2>3. n \in 0..M /\ n # 0 /\ n <= hi - lo + 1 /\ n \in Nat
        /\ (n # M \/ n = Cardinality(R) => lo + n - 1 = hi)
    BY <2>1, <2>2, SMTT(60)
  <2>4. b = [i \in 1..n |-> LET k    == lo + i - 1
                                from == Max({first, Total(L, k - 1)})
                            IN [flight |-> k, offset |-> from - Total(L, k - 1),
                                length |-> Min({last, Total(L, k - 1) + L[k]}) - from]]
    BY <2>1 DEF PartsOf
  <2>. HIDE DEF n, b, R
  <2>5. \A i \in 1..n : lo + i - 1 \in lo..hi /\ lo + i - 1 \in 1..Len(L) /\ lo + i - 1 \in 0..Len(L)
                        /\ lo + i - 1 - 1 \in 0..Len(L)
    BY <1>1, <2>1, <2>3, SMTT(60)
  <2>6. c[0] = first /\ \A i \in 1..n : c[i] = Min({last, Total(L, lo + i - 1)})
    BY <2>3
  <2>7. c \in [0..n -> Nat]
    <3>1. ASSUME NEW i \in 1..n
          PROVE  Min({last, Total(L, lo + i - 1)}) \in Nat
      <4>. DEFINE t == Total(L, lo + i - 1)
      <4>1. t \in Nat
        BY <1>1, <2>5
      <4>. HIDE DEF t
      <4>2. Min({last, t}) \in Nat
        BY <4>1, MinMaxOfTwo
      <4>. QED
        BY <4>2 DEF t
    <3>2. \A i \in 0..n : i = 0 \/ i \in 1..n
      BY <2>3
    <3>3. \A i \in 0..n : (IF i = 0 THEN first ELSE Min({last, Total(L, lo + i - 1)})) \in Nat
      BY <3>1, <3>2
    <3>. QED
      BY <3>3
  <2>. HIDE DEF c
  <2>8. ASSUME NEW i \in 1..n
        PROVE  /\ b[i] \in [flight : 1..Len(L), offset : Nat, length : Nat \ {0}]
               /\ b[i].offset + b[i].length <= L[b[i].flight]
               /\ Total(L, b[i].flight - 1) + b[i].offset = c[i - 1]
               /\ c[i] = c[i - 1] + b[i].length
    <3>. DEFINE k == lo + i - 1  A == Total(L, k - 1)  E == Total(L, k)
                from == Max({first, A})  to == Min({last, E})
    <3>1. k \in lo..hi /\ k \in 1..Len(L) /\ k - 1 \in 0..Len(L) /\ A \in Nat /\ E \in Nat /\ L[k] \in Nat \ {0} /\ E = A + L[k]
      BY <1>1, <2>5, SMTT(60)
    <3>2. b[i] = [flight |-> k, offset |-> from - A, length |-> to - from]
      BY <2>4, <3>1
    <3>3. A < last /\ first < E
      <4>1. k - 1 \in 0..(hi - 1) /\ hi - 1 \in 0..Len(L) /\ lo \in 0..k /\ lo \in 0..Len(L) /\ k \in 0..Len(L)
        BY <1>1, <2>1, <3>1
      <4>2. A <= Total(L, hi - 1) /\ Total(L, lo) <= E /\ Total(L, hi - 1) \in Nat /\ Total(L, lo) \in Nat
        BY <1>1, <4>1
      <4>. DEFINE t == Total(L, hi - 1)  u == Total(L, lo)
      <4>3. t < last /\ first < u /\ t \in Nat /\ u \in Nat /\ A <= t /\ u <= E /\ A \in Nat /\ E \in Nat
        BY <2>1, <3>1, <4>2
      <4>. HIDE DEF A, E, t, u
      <4>. QED
        BY <4>3
    <3>4. /\ from = (IF first <= A THEN A ELSE first) /\ to = (IF last <= E THEN last ELSE E)
      BY <3>1, MinMaxOfTwo
    <3>5. c[i] = to
      BY <2>6
    <3>6. c[i - 1] = from
      <4>1. CASE i = 1
        <5>1. A <= first
          BY <2>1, <4>1
        <5>2. from = first
          <6>. HIDE DEF A, from
          <6>. QED
            BY <3>1, <3>4, <5>1
        <5>3. i - 1 = 0
          BY <4>1
        <5>. QED
          BY <2>6, <5>2, <5>3
      <4>2. CASE i # 1
        <5>. DEFINE j == i - 1
        <5>1. j \in 1..n /\ lo + j - 1 = k - 1 /\ k - 1 \in lo..hi /\ lo \in 0..(k - 1) /\ lo \in 0..Len(L)
          BY <1>1, <2>1, <2>3, <3>1, <4>2
        <5>. HIDE DEF j
        <5>2. c[j] = Min({last, Total(L, k - 1)})
          BY <2>6, <5>1
        <5>3. Total(L, lo) <= A /\ Total(L, lo) \in Nat /\ first < Total(L, lo)
          BY <1>1, <2>1, <3>1, <5>1
        <5>4. Min({last, A}) = A /\ from = A
          <6>1. Min({last, A}) = (IF last <= A THEN last ELSE A)
            BY <3>1, MinMaxOfTwo
          <6>. HIDE DEF A, from
          <6>. QED
            BY <3>1, <3>3, <3>4, <5>3, <6>1
        <5>. QED
          BY <5>2, <5>4 DEF j
      <4>. QED
        BY <4>1, <4>2
    <3>. HIDE DEF k, A, E, from, to
    <3>7. /\ from - A \in Nat /\ to - from \in Nat \ {0} /\ A + (from - A) = from /\ to = from + (to - from)
          /\ (from - A) + (to - from) <= L[k]
      <4>1. /\ from \in Nat /\ to \in Nat /\ A <= from /\ from < to /\ to <= E /\ A \in Nat /\ E \in Nat
        <5>1. first < last /\ A < last /\ first < E /\ A < E /\ A \in Nat /\ E \in Nat
          <6>1. first < last
            BY <2>1
          <6>2. A < E
            BY <3>1, SMTT(60)
          <6>. QED
            BY <3>1, <3>3, <6>1, <6>2
        <5>. QED
          BY <3>4, <5>1
      <4>2. E = A + L[k] /\ L[k] \in Nat
        BY <3>1
      <4>. QED
        BY <4>1, <4>2
    <3>8. b[i].flight = k /\ b[i].offset = from - A /\ b[i].length = to - from
      BY <3>2
    <3>9. b[i] \in [flight : 1..Len(L), offset : Nat, length : Nat \ {0}]
      BY <3>1, <3>2, <3>7
    <3>10. Total(L, b[i].flight - 1) = A
      BY <3>8 DEF A
    <3>. QED
      BY <3>5, <3>6, <3>7, <3>8, <3>9, <3>10
  <2>9. PartBounds(L, b, n, c)
    BY <2>7, <2>8 DEF PartBounds
  <2>10. b = [i \in 1..n |-> b[i]]
    BY <2>4
  <2>11. first < last /\ first < Total(L, Len(L))
    <3>1. lo \in 0..Len(L) /\ Len(L) \in 0..Len(L)
      BY <1>1
    <3>2. Total(L, lo) <= Total(L, Len(L)) /\ Total(L, lo) \in Nat /\ Total(L, Len(L)) \in Nat
      BY <1>1, <3>1
    <3>. QED
      BY <2>1, <3>2
  <2>12. c[n] <= last /\ (n # M \/ n = Cardinality(R) => c[n] = Min({last, Total(L, Len(L))}))
    <3>1. n \in 1..n /\ lo + n - 1 \in 0..Len(L)
      BY <2>3, <2>5
    <3>. DEFINE k == lo + n - 1
    <3>2. c[n] = Min({last, Total(L, k)}) /\ Total(L, k) \in Nat /\ Total(L, Len(L)) \in Nat
      <4>1. Len(L) \in 0..Len(L)
        BY <1>1
      <4>. QED
        BY <1>1, <2>6, <3>1, <4>1
    <3>3. c[n] = (IF last <= Total(L, k) THEN last ELSE Total(L, k))
      BY <3>2, MinMaxOfTwo
    <3>4. c[n] <= last
      <4>. HIDE DEF k
      <4>. QED
        BY <3>2, <3>3
    <3>5. ASSUME n # M \/ n = Cardinality(R)
          PROVE  c[n] = Min({last, Total(L, Len(L))})
      <4>1. k = hi
        BY <2>3, <3>5
      <4>2. Total(L, k) <= Total(L, Len(L))
        <5>1. k \in 0..Len(L) /\ Len(L) \in 0..Len(L)
          BY <1>1, <3>1
        <5>. QED
          BY <1>1, <5>1
      <4>3. CASE hi = Len(L)
        BY <3>2, <4>1, <4>3
      <4>4. CASE last <= Total(L, hi)
        <5>1. last <= Total(L, k) /\ c[n] = last
          BY <3>3, <4>1, <4>4
        <5>2. last <= Total(L, Len(L))
          <6>. HIDE DEF k
          <6>. QED
            BY <3>2, <4>2, <5>1
        <5>3. Min({last, Total(L, Len(L))}) = last
          BY <3>2, <5>2, MinMaxOfTwo
        <5>. QED
          BY <5>1, <5>3
      <4>. QED
        BY <2>1, <4>3, <4>4
    <3>. QED
      BY <3>4, <3>5
  <2>. QED
    BY <2>3, <2>6, <2>9, <2>10, <2>11, <2>12 DEF b, R, RunFromTo
<1>. QED
  BY <1>2, <1>3
=============================================================================
