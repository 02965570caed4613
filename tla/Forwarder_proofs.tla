--------------------------- MODULE Forwarder_proofs ---------------------------
(***************************************************************************)
(* For every number of sessions, bytes and tries and every size of the     *)
(* chunks: the device gets what the sessions wrote, and they read its      *)
(* answers, in order and without a hole that no flush or close explains.   *)
(* The bytes are numbered, so it is enough to know that the queues between *)
(* the session and the device are a line: each of them is in order, all of *)
(* one is before all of the next, and what was written is in the line, has *)
(* arrived or was thrown away.  Every step moves a head part of one queue  *)
(* to the end of the queue before it.                                      *)
(***************************************************************************)
EXTENDS Forwarder, SequenceTheorems, TLAPS

Bytes == {Own} \cup {ByteOf(n, syn) : n \in Nat \ {0}, syn \in BOOLEAN}

\* The numbers of the bytes in a queue, and of those thrown away on a way.
Numbers(s) == {s[i].number : i \in DOMAIN s} \ {0}
Lost(way) == {n \in Nat \ {0} : \E syn \in BOOLEAN : <<way, ByteOf(n, syn)>> \in discarded}

Before(M, N) == \A m \in M, n \in N : m < n
Rising(s) == \A i, j \in DOMAIN s :
               i < j /\ s[i].number # 0 /\ s[j].number # 0 => s[i].number < s[j].number
Queue(s) == s \in Seq(Bytes) /\ Rising(s)

\* What is in data[], by the way it goes.
UpData == IF pc = "down" THEN <<>> ELSE data
DownData == IF pc = "down" THEN data ELSE <<>>

\* The line from the session that reads back to the session that writes.
Stages == <<Numbers(heard), Numbers(toSlave), Numbers(DownData), Numbers(input),
            Numbers(output), Numbers(UpData), Numbers(toMaster)>>

\* Of the stages q the last three are on the way up; arr has arrived, up and
\* down were lost, and w bytes were written.
Line(q, arr, up, down, w) ==
    /\ \A a, b \in 1..7 : a < b => Before(q[a], q[b])
    /\ \A a \in 5..7 : Before(arr, q[a])
    /\ arr \subseteq 1..w /\ \A a \in 1..7 : q[a] \subseteq 1..w
    /\ \A n \in 1..w : n \in arr \cup up \/ \E a \in 5..7 : n \in q[a]
    /\ \A n \in 1..w : n \in up \cup down \/ \E a \in 1..7 : n \in q[a]

Queues == /\ Queue(heard) /\ Queue(toSlave) /\ Queue(input) /\ Queue(output)
          /\ Queue(data) /\ Queue(toMaster) /\ Queue(arrived)
          /\ pc \in {"select", "real", "virtual"} => data = <<>>

InLine == Line(Stages, Numbers(arrived), Lost("up"), Lost("down"), wrote)

IInv == TypeOK /\ Queues /\ InLine

-----------------------------------------------------------------------------
(* Queues of bytes.                                                        *)

\* A byte has a number, and Own has none.
LEMMA Fields ==
    /\ \A n, syn : ByteOf(n, syn).number = n /\ ByteOf(n, syn).syn = syn
    /\ Own.number = 0 /\ Own \in Bytes
    /\ \A b \in Bytes : /\ b.number \in Nat /\ (b.number = 0 <=> b = Own)
                        /\ b # Own => b.syn \in BOOLEAN /\ b = ByteOf(b.number, b.syn)
BY DEF ByteOf, Own, Bytes

\* A queue and its two parts.
LEMMA Parts ==
    ASSUME NEW s \in Seq(Bytes), NEW t \in Seq(Bytes)
    PROVE  /\ Numbers(s \o t) = Numbers(s) \cup Numbers(t)
           /\ Queue(s \o t) <=> Queue(s) /\ Queue(t) /\ Before(Numbers(s), Numbers(t))
<1>. DEFINE u == s \o t  m == Len(s)  n == Len(t)
<1>1. /\ m \in Nat /\ n \in Nat /\ DOMAIN s = 1..m /\ DOMAIN t = 1..n
      /\ u \in Seq(Bytes) /\ DOMAIN u = 1..(m + n)
      /\ \A i \in 1..(m + n) : u[i] = IF i <= m THEN s[i] ELSE t[i - m]
  BY ConcatProperties, LenProperties
<1>. HIDE DEF u, m, n
<1>2. (\A i \in 1..m : i \in 1..(m + n) /\ u[i] = s[i]) /\ \A i \in 1..n : m + i \in 1..(m + n) /\ u[m + i] = t[i]
  BY <1>1
<1>3. \A i \in 1..(m + n) : i \in 1..m \/ \E j \in 1..n : i = m + j
  <2>1. \A i \in 1..(m + n) : i \in 1..m \/ (i - m \in 1..n /\ i = m + (i - m))
    BY <1>1
  <2>. QED
    BY <2>1
<1>4. Numbers(u) = Numbers(s) \cup Numbers(t)
  <2>1. ASSUME NEW x \in Numbers(u) PROVE x \in Numbers(s) \cup Numbers(t)
    <3>1. PICK i \in 1..(m + n) : x = u[i].number /\ x # 0
      BY <1>1 DEF Numbers
    <3>2. (i \in DOMAIN s /\ u[i] = s[i]) \/ \E j \in DOMAIN t : u[i] = t[j]
      BY <1>1, <1>2, <1>3, ZenonT(60)
    <3>. QED
      BY <3>1, <3>2 DEF Numbers
  <2>2. ASSUME NEW x \in Numbers(s) PROVE x \in Numbers(u)
    <3>1. PICK i \in DOMAIN s : x = s[i].number /\ x # 0
      BY DEF Numbers
    <3>2. i \in DOMAIN u /\ u[i] = s[i]
      BY <1>1, <1>2
    <3>. QED
      BY <3>1, <3>2 DEF Numbers
  <2>3. ASSUME NEW x \in Numbers(t) PROVE x \in Numbers(u)
    <3>1. PICK i \in DOMAIN t : x = t[i].number /\ x # 0
      BY DEF Numbers
    <3>2. m + i \in DOMAIN u /\ u[m + i] = t[i]
      BY <1>1, <1>2
    <3>. QED
      BY <3>1, <3>2 DEF Numbers
  <2>. QED
    BY <2>1, <2>2, <2>3
<1>5. ASSUME Rising(u) PROVE Rising(s) /\ Rising(t) /\ Before(Numbers(s), Numbers(t))
  <2>1. Rising(s)
    BY <1>1, <1>2, <1>5 DEF Rising
  <2>2. ASSUME NEW i \in 1..n, NEW j \in 1..n, i < j, t[i].number # 0, t[j].number # 0
        PROVE  t[i].number < t[j].number
    <3>1. m + i \in DOMAIN u /\ m + j \in DOMAIN u /\ m + i < m + j
      BY <1>1, <2>2
    <3>2. u[m + i] = t[i] /\ u[m + j] = t[j]
      BY <1>2
    <3>. QED
      BY <1>5, <2>2, <3>1, <3>2 DEF Rising
  <2>3. Rising(t)
    BY <1>1, <2>2 DEF Rising
  <2>5. ASSUME NEW i \in 1..m, NEW j \in 1..n, s[i].number # 0, t[j].number # 0
        PROVE  s[i].number < t[j].number
    <3>1. i \in DOMAIN u /\ m + j \in DOMAIN u /\ i < m + j
      BY <1>1
    <3>2. u[i] = s[i] /\ u[m + j] = t[j]
      BY <1>2
    <3>. QED
      BY <1>5, <2>5, <3>1, <3>2 DEF Rising
  <2>6. Before(Numbers(s), Numbers(t))
    BY <1>1, <2>5 DEF Before, Numbers
  <2>. QED
    BY <2>1, <2>3, <2>6
<1>6. ASSUME Rising(s), Rising(t), Before(Numbers(s), Numbers(t)) PROVE Rising(u)
  <2>. SUFFICES ASSUME NEW i \in 1..(m + n), NEW j \in 1..(m + n), i < j,
                       u[i].number # 0, u[j].number # 0
                PROVE  u[i].number < u[j].number
    BY <1>1 DEF Rising
  <2>1. CASE j \in 1..m
    <3>1. i \in 1..m
      BY <1>1, <2>1
    <3>. QED
      BY <1>1, <1>2, <1>6, <2>1, <3>1 DEF Rising
  <2>2. CASE \E k \in 1..n : j = m + k
    <3>1. PICK k \in 1..n : j = m + k
      BY <2>2
    <3>2. CASE i \in 1..m
      <4>1. u[i].number \in Numbers(s) /\ u[j].number \in Numbers(t)
        <5>1. u[i] = s[i] /\ i \in DOMAIN s /\ u[j] = t[k] /\ k \in DOMAIN t
          BY <1>1, <1>2, <3>1, <3>2
        <5>. QED
          BY <5>1 DEF Numbers
      <4>. QED
        BY <1>6, <4>1 DEF Before
    <3>3. CASE \E h \in 1..n : i = m + h
      <4>1. PICK h \in 1..n : i = m + h
        BY <3>3
      <4>2. h < k
        BY <1>1, <3>1, <4>1
      <4>3. u[i] = t[h] /\ u[j] = t[k] /\ h \in DOMAIN t /\ k \in DOMAIN t
        BY <1>1, <1>2, <3>1, <4>1
      <4>. QED
        BY <1>6, <4>2, <4>3 DEF Rising
    <3>. QED
      BY <1>3, <3>2, <3>3
  <2>. QED
    BY <1>3, <2>1, <2>2
<1>. QED
  BY <1>1, <1>4, <1>5, <1>6 DEF u, Queue

\* The empty queue, and one byte.
LEMMA Short ==
    /\ Queue(<<>>) /\ Numbers(<<>>) = {}
    /\ \A b \in Bytes : Queue(<<b>>) /\ Numbers(<<b>>) = {b.number} \ {0}
<1>1. DOMAIN <<>> = {} /\ <<>> \in Seq(Bytes)
  BY EmptySeq
<1>2. \A b \in Bytes : <<b>> \in Seq(Bytes) /\ DOMAIN <<b>> = {1} /\ <<b>>[1] = b
  OBVIOUS
<1>. QED
  BY <1>1, <1>2 DEF Queue, Rising, Numbers

\* The first byte and the rest.
LEMMA FirstByte ==
    ASSUME NEW s, Queue(s), s # <<>>
    PROVE  /\ Head(s) \in Bytes /\ Queue(<<Head(s)>>) /\ Queue(Tail(s))
           /\ Numbers(s) = Numbers(<<Head(s)>>) \cup Numbers(Tail(s))
           /\ Before(Numbers(<<Head(s)>>), Numbers(Tail(s)))
<1>1. s \in Seq(Bytes)
  BY DEF Queue
<1>2. Head(s) \in Bytes /\ Tail(s) \in Seq(Bytes) /\ <<Head(s)>> \in Seq(Bytes)
  BY <1>1, HeadTailProperties
<1>3. s = <<Head(s)>> \o Tail(s)
  <2>1. 1 \in 1..Len(s) /\ Len(s) \in Nat /\ Len(s) \in 1..Len(s)
    BY <1>1, EmptySeq, LenProperties
  <2>2. SubSeq(s, 1, Len(s)) = <<s[1]>> \o SubSeq(s, 2, Len(s))
    BY <1>1, <2>1, SubSeqRecursiveFirst, 1 + 1 = 2
  <2>. QED
    BY <1>1, <2>2, SubSeqFull, TailIsSubSeq, HeadTailProperties
<1>. QED
  BY <1>2, <1>3, Parts

\* What read() takes and what it leaves.
LEMMA Chunks ==
    ASSUME NEW s, Queue(s)
    PROVE  /\ Queue(Read(s)) /\ Len(Read(s)) <= Chunk /\ Queue(Unread(s))
           /\ Numbers(s) = Numbers(Read(s)) \cup Numbers(Unread(s))
           /\ Before(Numbers(Read(s)), Numbers(Unread(s)))
<1>. DEFINE k == Min({Chunk, Len(s)})
<1>1. s \in Seq(Bytes) /\ Len(s) \in Nat /\ Chunk \in Nat
  BY LenProperties, ForwarderAssumption DEF Queue
<1>2. k = IF Chunk <= Len(s) THEN Chunk ELSE Len(s)
  <2>. DEFINE P(x) == x \in {Chunk, Len(s)} /\ \A y \in {Chunk, Len(s)} : x <= y
  <2>1. k = CHOOSE x : P(x)
    BY DEF Min
  <2>2. \E x : P(x)
    <3>1. P(IF Chunk <= Len(s) THEN Chunk ELSE Len(s))
      BY <1>1
    <3>. QED
      BY <3>1
  <2>3. P(k)
    BY <2>1, <2>2
  <2>. QED
    BY <1>1, <2>3
<1>. HIDE DEF k
<1>3. k \in 0..Len(s) /\ k <= Chunk
  BY <1>1, <1>2
<1>4. Read(s) = SubSeq(s, 1, k) /\ Unread(s) = SubSeq(s, k + 1, Len(s))
  <2>1. Chunk <= Len(s) => k = Chunk
    BY <1>1, <1>2
  <2>2. ~(Chunk <= Len(s)) => SubSeq(s, Chunk + 1, Len(s)) = <<>> /\ SubSeq(s, k + 1, Len(s)) = <<>>
    BY <1>1, <1>2, SubSeqEmpty
  <2>. QED
    BY <2>1, <2>2 DEF Read, Unread, k
<1>5. s = Read(s) \o Unread(s)
  <2>1. 1 \in 1..(Len(s) + 1) /\ k \in (1 - 1)..Len(s) /\ Len(s) \in k..Len(s)
    BY <1>1, <1>3
  <2>. QED
    BY <1>1, <1>4, <2>1, ConcatAdjacentSubSeq, SubSeqFull
<1>6. /\ \A i \in 1..k : s[i] \in Bytes
      /\ \A i \in (k + 1)..Len(s) : s[i] \in Bytes
  BY <1>1, <1>3, ElementOfSeq
<1>7. Read(s) \in Seq(Bytes) /\ Unread(s) \in Seq(Bytes) /\ Len(Read(s)) <= Chunk
  BY <1>1, <1>3, <1>4, <1>6, SubSeqProperties
<1>. QED
  BY <1>5, <1>7, Parts

\* A byte at the end of a queue is a part of its own.
LEMMA LastByte ==
    ASSUME NEW s, Queue(s), NEW b \in Bytes, Before(Numbers(s), Numbers(<<b>>))
    PROVE  Queue(Append(s, b)) /\ Numbers(Append(s, b)) = Numbers(s) \cup Numbers(<<b>>)
<1>1. s \in Seq(Bytes) /\ <<b>> \in Seq(Bytes) /\ Queue(<<b>>)
  BY Short DEF Queue
<1>2. Append(s, b) = s \o <<b>>
  BY <1>1, AppendIsConcat
<1>3. /\ Numbers(s \o <<b>>) = Numbers(s) \cup Numbers(<<b>>)
      /\ Queue(s \o <<b>>)
  BY <1>1, Parts
<1>. QED
  BY <1>2, <1>3

-----------------------------------------------------------------------------
(* The line.                                                               *)

\* A step from the line q to r: what it moves from stage k + 1 to stage k is M,
\* a first part of the one, and nothing else is new anywhere.
Moves(q, arr, up, down, r, arr2, up2, down2, k, M) ==
    /\ M \subseteq q[k + 1] /\ Before(M, r[k + 1])
    /\ \A a \in 1..7 : r[a] \subseteq q[a] \cup (IF a = k THEN M ELSE {})
    /\ arr \subseteq arr2 /\ arr2 \subseteq arr \cup (IF k = 4 THEN M ELSE {})
    /\ up \subseteq up2 /\ down \subseteq down2
    /\ \A a \in 5..7 : q[a] \subseteq up2 \cup arr2 \cup r[5] \cup r[6] \cup r[7]
    /\ \A a \in 1..7 : q[a] \subseteq up2 \cup down2 \cup r[1] \cup r[2] \cup r[3] \cup r[4]
                                               \cup r[5] \cup r[6] \cup r[7]

\* It leaves a line.
LEMMA Flow ==
    ASSUME NEW q, NEW r, NEW arr, NEW arr2, NEW up, NEW up2, NEW down, NEW down2, NEW w \in Nat,
           NEW k \in 1..6, NEW M, Line(q, arr, up, down, w),
           Moves(q, arr, up, down, r, arr2, up2, down2, k, M)
    PROVE  Line(r, arr2, up2, down2, w)
<1>. USE DEF Moves
<1>1. ASSUME NEW a \in 1..7, NEW b \in 1..7, a < b, NEW m \in r[a], NEW n \in r[b]
      PROVE  m < n
  <2>1. CASE m \in q[a] /\ n \in q[b]
    BY <1>1, <2>1 DEF Line, Before
  <2>2. CASE m \notin q[a]
    <3>1. a = k /\ m \in M /\ n \in q[b] /\ k + 1 \in 1..7 /\ (b = k + 1 \/ k + 1 < b)
      BY <1>1, <2>2
    <3>2. CASE b = k + 1
      BY <1>1, <3>1, <3>2 DEF Before
    <3>3. CASE k + 1 < b
      BY <3>1, <3>3 DEF Line, Before
    <3>. QED
      BY <3>1, <3>2, <3>3
  <2>3. CASE n \notin q[b]
    <3>1. b = k /\ n \in q[k + 1] /\ m \in q[a] /\ k + 1 \in 1..7 /\ a < k + 1
      BY <1>1, <2>3
    <3>. QED
      BY <3>1 DEF Line, Before
  <2>. QED
    BY <2>1, <2>2, <2>3
<1>2. ASSUME NEW a \in 5..7, NEW m \in arr2, NEW n \in r[a]
      PROVE  m < n
  <2>0. a \in 1..7 /\ k + 1 \in 1..7
    OBVIOUS
  <2>1. CASE m \in arr /\ n \in q[a]
    BY <2>1 DEF Line, Before
  <2>2. CASE m \notin arr
    <3>1. k = 4 /\ m \in M /\ n \in q[a]
      BY <1>2, <2>0, <2>2
    <3>2. CASE a = 5
      BY <1>2, <3>1, <3>2 DEF Before
    <3>3. CASE 5 < a
      <4>1. m \in q[5]
        BY <3>1
      <4>. QED
        BY <2>0, <3>1, <3>3, <4>1 DEF Line, Before
    <3>. QED
      BY <3>2, <3>3
  <2>3. CASE m \in arr /\ n \notin q[a]
    <3>1. a = k /\ n \in q[k + 1] /\ k + 1 \in 5..7
      BY <1>2, <2>0, <2>3
    <3>. QED
      BY <2>3, <3>1 DEF Line, Before
  <2>. QED
    BY <2>1, <2>2, <2>3
<1>3. ASSUME NEW a \in 1..7 PROVE r[a] \subseteq 1..w
  <2>1. k + 1 \in 1..7
    OBVIOUS
  <2>. QED
    BY <2>1 DEF Line
<1>4. arr2 \subseteq 1..w
  <2>1. k = 4 => M \subseteq q[5]
    OBVIOUS
  <2>. QED
    BY <2>1 DEF Line
<1>5. \A n \in 1..w : n \in arr2 \cup up2 \/ \E a \in 5..7 : n \in r[a]
  BY DEF Line
<1>6. \A n \in 1..w : n \in up2 \cup down2 \/ \E a \in 1..7 : n \in r[a]
  BY DEF Line
<1>7. \A a, b \in 1..7 : a < b => Before(r[a], r[b])
  BY <1>1 DEF Before
<1>8. \A a \in 5..7 : Before(arr2, r[a])
  BY <1>2 DEF Before
<1>. QED
  BY <1>3, <1>4, <1>5, <1>6, <1>7, <1>8 DEF Line

\* One more byte is written.
LEMMA Grow ==
    ASSUME NEW q, NEW r, NEW arr, NEW up, NEW down, NEW w \in Nat,
           Line(q, arr, up, down, w),
           \A a \in 1..6 : r[a] = q[a], r[7] = q[7] \cup {w + 1}
    PROVE  Line(r, arr, up, down, w + 1)
<1>1. \A a \in 1..7 : \A n \in q[a] : n \in 1..w /\ n < w + 1
  BY DEF Line
<1>2. \A n \in arr : n \in 1..w /\ n < w + 1
  <2>1. arr \subseteq 1..w
    BY DEF Line
  <2>. QED
    BY <2>1
<1>3. \A a \in 1..7 : a \in 1..6 \/ a = 7
  OBVIOUS
<1>4. ASSUME NEW a \in 1..7, NEW b \in 1..7, a < b
      PROVE  Before(r[a], r[b])
  <2>1. a \in 1..6 /\ r[a] = q[a] /\ Before(q[a], q[b])
    BY <1>4 DEF Line
  <2>2. r[b] = q[b] \/ r[b] = q[b] \cup {w + 1}
    BY <1>3
  <2>. QED
    BY <1>1, <2>1, <2>2 DEF Before
<1>5. ASSUME NEW a \in 5..7
      PROVE  Before(arr, r[a])
  <2>1. r[a] = q[a] \/ r[a] = q[a] \cup {w + 1}
    BY <1>3
  <2>. QED
    BY <1>2, <2>1 DEF Before, Line
<1>6. arr \subseteq 1..w + 1 /\ \A a \in 1..7 : r[a] \subseteq 1..w + 1
  <2>1. 1..w \subseteq 1..w + 1 /\ w + 1 \in 1..w + 1
    OBVIOUS
  <2>. QED
    BY <1>1, <1>2, <1>3, <2>1
<1>7. \A n \in 1..w + 1 : n \in 1..w \/ (n = w + 1 /\ n \in r[7])
  OBVIOUS
<1>8. \A a \in 1..7 : q[a] \subseteq r[a]
  BY <1>3
<1>9. \A n \in 1..w + 1 : n \in arr \cup up \/ \E a \in 5..7 : n \in r[a]
  BY <1>7, <1>8 DEF Line
<1>10. \A n \in 1..w + 1 : n \in up \cup down \/ \E a \in 1..7 : n \in r[a]
  BY <1>7, <1>8 DEF Line
<1>. QED
  BY <1>4, <1>5, <1>6, <1>9, <1>10 DEF Line

\* What is thrown away is lost.
LEMMA Losses ==
    ASSUME NEW up \in Seq(Bytes), NEW down \in Seq(Bytes), Dropped(up, down)
    PROVE  /\ Lost("up")' = Lost("up") \cup Numbers(up)
           /\ Lost("down")' = Lost("down") \cup Numbers(down)
<1>1. ASSUME NEW s \in Seq(Bytes)
      PROVE  /\ \A n \in Numbers(s) : n \in Nat \ {0} /\ \E syn \in BOOLEAN : ByteOf(n, syn) \in ToSet(s)
             /\ \A n \in Nat \ {0}, syn \in BOOLEAN : ByteOf(n, syn) \in ToSet(s) => n \in Numbers(s)
  <2>1. \A i \in DOMAIN s : s[i] \in Bytes
    BY <1>1, LenProperties, ElementOfSeq
  <2>2. \A i \in DOMAIN s : s[i].number # 0 =>
          /\ s[i].number \in Nat \ {0} /\ s[i].syn \in BOOLEAN
          /\ ByteOf(s[i].number, s[i].syn) = s[i] /\ s[i] \in ToSet(s)
    BY <2>1, Fields DEF ToSet
  <2>3. \A n \in Nat \ {0}, syn \in BOOLEAN : ByteOf(n, syn) \in ToSet(s) => n \in Numbers(s)
    BY Fields DEF ToSet, Numbers
  <2>. QED
    BY <2>2, <2>3 DEF Numbers
<1>2. \A n, syn : /\ <<"up", ByteOf(n, syn)>> \in discarded' <=>
                       <<"up", ByteOf(n, syn)>> \in discarded \/ ByteOf(n, syn) \in ToSet(up)
                  /\ <<"down", ByteOf(n, syn)>> \in discarded' <=>
                       <<"down", ByteOf(n, syn)>> \in discarded \/ ByteOf(n, syn) \in ToSet(down)
  BY DEF Dropped
<1>. QED
  BY <1>1, <1>2 DEF Lost

\* Only answers are thrown away.
LEMMA AnswersLost ==
    ASSUME NEW down \in Seq(Bytes), Dropped(<<>>, down)
    PROVE  Lost("up")' = Lost("up") /\ Lost("down")' = Lost("down") \cup Numbers(down)
<1>1. <<>> \in Seq(Bytes) /\ Numbers(<<>>) = {}
  BY Short DEF Queue
<1>. QED
  BY <1>1, Losses

-----------------------------------------------------------------------------
(* Every step keeps the line.                                              *)

Step(k, M) == Moves(Stages, Numbers(arrived), Lost("up"), Lost("down"),
                    Stages', Numbers(arrived'), Lost("up")', Lost("down")', k, M)

\* The first part of a stage moves on, or something is thrown away.
LEMMA LineStep ==
    ASSUME IInv, NEW k \in 1..6, NEW M, Step(k, M), wrote' = wrote
    PROVE  InLine'
<1>1. wrote \in Nat
  BY DEF IInv, TypeOK
<1>. QED
  BY <1>1, Flow DEF IInv, InLine, Step

\* Nothing moves.
LEMMA IdleStep ==
    ASSUME IInv, UNCHANGED <<heard, toSlave, input, output, data, toMaster, arrived, discarded, wrote>>,
           pc = "down" <=> pc' = "down",
           pc' \in {"select", "real", "virtual"} => data = <<>>
    PROVE  Queues' /\ InLine'
<1>1. Stages' = Stages /\ Lost("up")' = Lost("up") /\ Lost("down")' = Lost("down")
  BY DEF Stages, UpData, DownData, Lost
<1>. QED
  BY <1>1 DEF IInv, Queues, InLine

LEMMA SessionReadsStep == IInv /\ SessionReads => Queues' /\ InLine'
<1>. SUFFICES ASSUME IInv, SessionReads PROVE Queues' /\ InLine'
  OBVIOUS
<1>. DEFINE b == Head(toSlave)  M == Numbers(<<b>>)
<1>1. /\ Queue(heard) /\ Queue(toSlave) /\ toSlave # <<>>
      /\ toSlave' = Tail(toSlave) /\ heard' = Append(heard, b)
      /\ UNCHANGED <<input, output, data, toMaster, arrived, discarded, wrote, pc>>
  BY DEF IInv, Queues, SessionReads, pty, serial, main
<1>2. /\ b \in Bytes /\ Queue(Tail(toSlave)) /\ Numbers(toSlave) = M \cup Numbers(Tail(toSlave))
      /\ Before(M, Numbers(Tail(toSlave)))
  BY <1>1, FirstByte
<1>3. Before(Numbers(heard), Numbers(toSlave))
  BY DEF IInv, InLine, Line, Stages
<1>. HIDE DEF b
<1>4. Queue(heard') /\ Numbers(heard') = Numbers(heard) \cup M
  BY <1>1, <1>2, <1>3, LastByte DEF Before
<1>5. Queues'
  BY <1>1, <1>2, <1>4 DEF IInv, Queues
<1>6. Step(1, M)
  BY <1>1, <1>2, <1>4 DEF Step, Moves, Stages, Lost, UpData, DownData
<1>. QED
  BY <1>1, <1>5, <1>6, LineStep

LEMMA SessionWritesStep == IInv /\ SessionWrites => Queues' /\ InLine'
<1>. SUFFICES ASSUME IInv, SessionWrites PROVE Queues' /\ InLine'
  OBVIOUS
<1>1. PICK syn \in BOOLEAN : toMaster' = Append(toMaster, ByteOf(wrote + 1, syn))
  BY DEF SessionWrites
<1>. DEFINE b == ByteOf(wrote + 1, syn)
<1>2. /\ Queue(toMaster) /\ wrote \in Nat /\ wrote' = wrote + 1
      /\ UNCHANGED <<heard, toSlave, input, output, data, arrived, discarded, pc>>
  BY DEF IInv, Queues, TypeOK, SessionWrites, serial, main, seen
<1>3. b \in Bytes /\ b.number = wrote + 1
  <2>1. wrote + 1 \in Nat \ {0}
    BY <1>2
  <2>. QED
    BY <2>1, Fields DEF Bytes
<1>4. Numbers(<<b>>) = {wrote + 1}
  BY <1>2, <1>3, Short
<1>5. Before(Numbers(toMaster), Numbers(<<b>>))
  <2>1. Numbers(toMaster) \subseteq 1..wrote
    BY DEF IInv, InLine, Line, Stages
  <2>. QED
    BY <1>2, <1>4, <2>1 DEF Before
<1>. HIDE DEF b
<1>6. Queue(toMaster') /\ Numbers(toMaster') = Numbers(toMaster) \cup {wrote + 1}
  BY <1>1, <1>2, <1>3, <1>4, <1>5, LastByte DEF b
<1>7. Queues'
  BY <1>2, <1>6 DEF IInv, Queues
<1>8. /\ \A a \in 1..6 : Stages'[a] = Stages[a]
      /\ Stages'[7] = Stages[7] \cup {wrote + 1}
      /\ Numbers(arrived)' = Numbers(arrived) /\ Lost("up")' = Lost("up") /\ Lost("down")' = Lost("down")
  BY <1>2, <1>6 DEF Stages, Lost, UpData, DownData
<1>9. Line(Stages', Numbers(arrived), Lost("up"), Lost("down"), wrote + 1)
  BY <1>2, <1>8, Grow DEF IInv, InLine
<1>. QED
  BY <1>2, <1>7, <1>8, <1>9 DEF InLine

LEMMA SessionFlushesStep == IInv /\ SessionFlushes => Queues' /\ InLine'
<1>. SUFFICES ASSUME IInv, SessionFlushes PROVE Queues' /\ InLine'
  OBVIOUS
<1>1. /\ Queue(toMaster) /\ Queue(toSlave) /\ toMaster' = <<>> /\ toSlave' = <<>>
      /\ UNCHANGED <<heard, input, output, data, arrived, wrote, pc>>
  BY DEF IInv, Queues, SessionFlushes, serial, main
<1>2. /\ Lost("up")' = Lost("up") \cup Numbers(toMaster)
      /\ Lost("down")' = Lost("down") \cup Numbers(toSlave)
  BY <1>1, Losses DEF SessionFlushes, Queue
<1>3. Queues'
  BY <1>1, Short DEF IInv, Queues
<1>4. Step(1, {})
  BY <1>1, <1>2, Short DEF Step, Moves, Before, Stages, UpData, DownData
<1>. QED
  BY <1>1, <1>3, <1>4, LineStep

LEMMA SessionClosesStep == IInv /\ SessionCloses => Queues' /\ InLine'
<1>. SUFFICES ASSUME IInv, SessionCloses PROVE Queues' /\ InLine'
  OBVIOUS
<1>1. /\ Queue(toSlave) /\ toSlave' = <<>>
      /\ UNCHANGED <<heard, input, output, data, toMaster, arrived, wrote, pc>>
  BY DEF IInv, Queues, SessionCloses, serial, main
<1>2. /\ Lost("up")' = Lost("up") \cup Numbers(<<>>)
      /\ Lost("down")' = Lost("down") \cup Numbers(toSlave)
  BY <1>1, Short, Losses DEF SessionCloses, Queue
<1>3. Queues'
  BY <1>1, Short DEF IInv, Queues
<1>4. Step(1, {})
  BY <1>1, <1>2, Short DEF Step, Moves, Before, Stages, UpData, DownData
<1>. QED
  BY <1>1, <1>3, <1>4, LineStep

LEMMA DeviceAnswersStep == IInv /\ DeviceAnswers => Queues' /\ InLine'
<1>. SUFFICES ASSUME IInv, DeviceAnswers PROVE Queues' /\ InLine'
  OBVIOUS
<1>. DEFINE b == Head(output)  M == Numbers(<<b>>)
<1>1. /\ Queue(output) /\ Queue(input) /\ Queue(arrived) /\ output # <<>>
      /\ output' = Tail(output) /\ arrived' = Append(arrived, b)
      /\ UNCHANGED <<heard, toSlave, data, toMaster, wrote, pc>>
  BY DEF IInv, Queues, DeviceAnswers, pty, main
<1>2. /\ b \in Bytes /\ Queue(Tail(output)) /\ Numbers(output) = M \cup Numbers(Tail(output))
      /\ Before(M, Numbers(Tail(output)))
  BY <1>1, FirstByte
<1>3. Before(Numbers(input), Numbers(output)) /\ Before(Numbers(arrived), Numbers(output))
  BY DEF IInv, InLine, Line, Stages
<1>4. \/ input' = Append(input, b) /\ UNCHANGED discarded
      \/ input' = input /\ Dropped(<<>>, <<b>>)
  BY DEF DeviceAnswers
<1>. HIDE DEF b
<1>5. Queue(arrived') /\ Numbers(arrived') = Numbers(arrived) \cup M
  BY <1>1, <1>2, <1>3, LastByte DEF Before
<1>6. CASE input' = Append(input, b) /\ UNCHANGED discarded
  <2>1. Queue(input') /\ Numbers(input') = Numbers(input) \cup M
    BY <1>1, <1>2, <1>3, <1>6, LastByte DEF Before
  <2>2. Queues'
    BY <1>1, <1>2, <1>5, <2>1 DEF IInv, Queues
  <2>3. Step(4, M)
    BY <1>1, <1>2, <1>5, <1>6, <2>1 DEF Step, Moves, Stages, Lost, UpData, DownData
  <2>. QED
    BY <1>1, <2>2, <2>3, LineStep
<1>7. CASE input' = input /\ Dropped(<<>>, <<b>>)
  <2>1. Lost("up")' = Lost("up") /\ Lost("down")' = Lost("down") \cup M
    <3>1. <<b>> \in Seq(Bytes)
      BY <1>2
    <3>. QED
      BY <1>7, <3>1, AnswersLost
  <2>2. Queues'
    BY <1>1, <1>2, <1>5, <1>7 DEF IInv, Queues
  <2>3. Step(4, M)
    BY <1>1, <1>2, <1>5, <1>7, <2>1 DEF Step, Moves, Stages, UpData, DownData
  <2>. QED
    BY <1>1, <2>2, <2>3, LineStep
<1>. QED
  BY <1>4, <1>6, <1>7

LEMMA ReadRealStep == IInv /\ ReadReal => Queues' /\ InLine'
<1>. SUFFICES ASSUME IInv, ReadReal PROVE Queues' /\ InLine'
  OBVIOUS
<1>. DEFINE M == Numbers(Read(input))
<1>1. /\ Queue(input) /\ pc = "real" /\ data = <<>>
      /\ UNCHANGED <<heard, toSlave, output, toMaster, arrived, discarded, wrote>>
  BY DEF IInv, Queues, ReadReal, pty, seen
<1>2. CASE "real" \in ready
  <2>1. data' = Read(input) /\ input' = Unread(input) /\ pc' = "down"
    BY <1>2 DEF ReadReal, Goto
  <2>2. /\ Queue(data') /\ Queue(input') /\ Numbers(data') = M
        /\ Numbers(input) = M \cup Numbers(input') /\ Before(M, Numbers(input'))
    BY <1>1, <2>1, Chunks
  <2>3. Queues'
    BY <1>1, <2>1, <2>2 DEF IInv, Queues
  <2>. HIDE DEF M
  <2>4. Step(3, M)
    BY <1>1, <2>1, <2>2, Short DEF Step, Moves, Stages, Lost, UpData, DownData
  <2>. QED
    BY <1>1, <2>3, <2>4, LineStep
<1>3. CASE "real" \notin ready
  BY <1>1, <1>3, IdleStep DEF ReadReal, Goto
<1>. QED
  BY <1>2, <1>3

LEMMA WriteVirtualStep == IInv /\ WriteVirtual => Queues' /\ InLine'
<1>. SUFFICES ASSUME IInv, WriteVirtual PROVE Queues' /\ InLine'
  OBVIOUS
<1>. DEFINE M == Numbers(data)
<1>1. /\ Queue(data) /\ Queue(toSlave) /\ pc = "down" /\ pc' = "virtual" /\ data' = <<>>
      /\ UNCHANGED <<heard, input, output, toMaster, arrived, wrote>>
  BY DEF IInv, Queues, WriteVirtual, Goto, serial
<1>2. Before(Numbers(toSlave), M)
  BY <1>1 DEF IInv, InLine, Line, Stages, DownData
<1>3. CASE slave = "open"
  <2>1. toSlave' = toSlave \o data /\ UNCHANGED discarded
    BY <1>3 DEF WriteVirtual
  <2>2. Queue(toSlave') /\ Numbers(toSlave') = Numbers(toSlave) \cup M
    BY <1>1, <1>2, <2>1, Parts DEF Queue
  <2>3. Queues'
    BY <1>1, <2>2, Short DEF IInv, Queues
  <2>4. Step(2, M)
    BY <1>1, <2>1, <2>2, Short DEF Step, Moves, Before, Stages, Lost, UpData, DownData
  <2>. QED
    BY <1>1, <2>3, <2>4, LineStep
<1>4. CASE slave # "open"
  <2>1. Dropped(<<>>, data) /\ UNCHANGED toSlave
    BY <1>4 DEF WriteVirtual
  <2>2. Lost("up")' = Lost("up") /\ Lost("down")' = Lost("down") \cup M
    BY <1>1, <2>1, AnswersLost DEF Queue
  <2>3. Queues'
    BY <1>1, <2>1, Short DEF IInv, Queues
  <2>4. Step(2, M)
    BY <1>1, <2>1, <2>2, Short DEF Step, Moves, Before, Stages, UpData, DownData
  <2>. QED
    BY <1>1, <2>3, <2>4, LineStep
<1>. QED
  BY <1>3, <1>4

LEMMA ReadVirtualStep == IInv /\ ReadVirtual => Queues' /\ InLine'
<1>. SUFFICES ASSUME IInv, ReadVirtual PROVE Queues' /\ InLine'
  OBVIOUS
<1>. DEFINE M == Numbers(Read(toMaster))
<1>1. /\ Queue(toMaster) /\ pc = "virtual" /\ data = <<>> /\ pc' \in {"up", "open"}
      /\ data' = Read(toMaster) /\ toMaster' = Unread(toMaster)
      /\ UNCHANGED <<heard, toSlave, input, output, arrived, discarded, wrote>>
  BY DEF IInv, Queues, ReadVirtual, Goto, serial, seen
<1>2. /\ Queue(data') /\ Queue(toMaster') /\ Numbers(data') = M
      /\ Numbers(toMaster) = M \cup Numbers(toMaster') /\ Before(M, Numbers(toMaster'))
  BY <1>1, Chunks
<1>3. Queues'
  BY <1>1, <1>2 DEF IInv, Queues
<1>. HIDE DEF M
<1>4. Step(6, M)
  BY <1>1, <1>2, Short DEF Step, Moves, Stages, Lost, UpData, DownData
<1>. QED
  BY <1>1, <1>3, <1>4, LineStep

LEMMA ReopenStep == IInv /\ Reopen => Queues' /\ InLine'
<1>. SUFFICES ASSUME IInv, Reopen PROVE Queues' /\ InLine'
  OBVIOUS
<1>1. /\ Queue(toSlave) /\ Queue(input) /\ pc = "virtual" /\ pc' \in {"abort", "select"}
      /\ data = <<>> /\ toSlave' = <<>> /\ input' = <<>> /\ Dropped(<<>>, toSlave \o input)
      /\ UNCHANGED <<heard, output, data, toMaster, arrived, wrote>>
  BY DEF IInv, Queues, Reopen, Goto
<1>2. toSlave \o input \in Seq(Bytes) /\ Numbers(toSlave \o input) = Numbers(toSlave) \cup Numbers(input)
  BY <1>1, Parts, ConcatProperties DEF Queue
<1>3. /\ Lost("up")' = Lost("up")
      /\ Lost("down")' = Lost("down") \cup Numbers(toSlave) \cup Numbers(input)
  BY <1>1, <1>2, AnswersLost
<1>4. Queues'
  BY <1>1, Short DEF IInv, Queues
<1>5. Step(1, {})
  BY <1>1, <1>3, Short DEF Step, Moves, Before, Stages, UpData, DownData
<1>. QED
  BY <1>1, <1>4, <1>5, LineStep

LEMMA SendSynStep == IInv /\ SendSyn => Queues' /\ InLine'
<1>. SUFFICES ASSUME IInv, SendSyn PROVE Queues' /\ InLine'
  OBVIOUS
<1>1. /\ Queue(output) /\ Queue(input) /\ pc = "syn" /\ pc' = "ack"
      /\ output' = <<Own>> /\ input' = <<>> /\ Dropped(output, input)
      /\ UNCHANGED <<heard, toSlave, data, toMaster, arrived, wrote>>
  BY DEF IInv, Queues, SendSyn, Goto, pty
<1>2. Lost("up")' = Lost("up") \cup Numbers(output) /\ Lost("down")' = Lost("down") \cup Numbers(input)
  BY <1>1, Losses DEF Queue
<1>3. Queue(<<Own>>) /\ Numbers(<<Own>>) = {}
  BY Short, Fields
<1>4. Queues'
  BY <1>1, <1>3, Short DEF IInv, Queues
<1>5. Step(1, {})
  BY <1>1, <1>2, <1>3, Short DEF Step, Moves, Before, Stages, UpData, DownData
<1>. QED
  BY <1>1, <1>4, <1>5, LineStep

\* syn_ack_wait throws an answer away.
LEMMA AnswerReadStep ==
    ASSUME IInv, input # <<>>, input' = Tail(input), Dropped(<<>>, <<Head(input)>>),
           pc # "down", pc' \notin {"down", "select", "real", "virtual"},
           UNCHANGED <<heard, toSlave, output, data, toMaster, arrived, wrote>>
    PROVE  Queues' /\ InLine'
<1>. DEFINE M == Numbers(<<Head(input)>>)
<1>1. /\ Queue(<<Head(input)>>) /\ Queue(Tail(input))
      /\ Numbers(input) = M \cup Numbers(Tail(input))
  BY FirstByte DEF IInv, Queues
<1>2. Lost("up")' = Lost("up") /\ Lost("down")' = Lost("down") \cup M
  <2>1. <<Head(input)>> \in Seq(Bytes)
    BY <1>1 DEF Queue
  <2>. QED
    BY <2>1, AnswersLost
<1>3. Queues'
  BY <1>1 DEF IInv, Queues
<1>. HIDE DEF M
<1>4. Step(1, {})
  BY <1>1, <1>2, Short DEF Step, Moves, Before, Stages, UpData, DownData
<1>. QED
  BY <1>3, <1>4, LineStep

LEMMA RecvAckStep == IInv /\ RecvAck => Queues' /\ InLine'
BY AnswerReadStep DEF RecvAck, Goto, pty

LEMMA NoAckStep == IInv /\ NoAck => Queues' /\ InLine'
<1>. SUFFICES ASSUME IInv, NoAck PROVE Queues' /\ InLine'
  OBVIOUS
<1>1. /\ pc = "ack" /\ pc' \in {"syn", "no filser"}
      /\ UNCHANGED <<pty, output, data, arrived, heard>>
  BY DEF NoAck, Goto
<1>2. CASE input = <<>>
  BY <1>1, <1>2, IdleStep DEF NoAck, pty
<1>3. CASE input # <<>>
  BY <1>1, <1>3, AnswerReadStep DEF NoAck, pty
<1>. QED
  BY <1>2, <1>3

LEMMA WriteRealStep == IInv /\ WriteReal => Queues' /\ InLine'
<1>. SUFFICES ASSUME IInv, WriteReal PROVE Queues' /\ InLine'
  OBVIOUS
<1>. DEFINE M == Numbers(data)
<1>1. /\ Queue(data) /\ Queue(output) /\ Queue(input) /\ pc = "up" /\ pc' = "select" /\ data' = <<>>
      /\ UNCHANGED <<heard, toSlave, toMaster, arrived, wrote>>
  BY DEF IInv, Queues, WriteReal, Goto, pty
<1>2. Before(Numbers(output), M)
  BY <1>1 DEF IInv, InLine, Line, Stages, UpData
<1>3. \/ output' = data /\ input' = <<>> /\ Dropped(output, input)
      \/ output' = output \o data /\ UNCHANGED <<input, discarded>>
  BY DEF WriteReal
<1>4. CASE output' = data /\ input' = <<>> /\ Dropped(output, input)
  <2>1. Lost("up")' = Lost("up") \cup Numbers(output) /\ Lost("down")' = Lost("down") \cup Numbers(input)
    BY <1>1, <1>4, Losses DEF Queue
  <2>2. Queues'
    BY <1>1, <1>4, Short DEF IInv, Queues
  <2>3. Step(5, M)
    BY <1>1, <1>4, <2>1, Short DEF Step, Moves, Before, Stages, UpData, DownData
  <2>. QED
    BY <1>1, <2>2, <2>3, LineStep
<1>5. CASE output' = output \o data /\ UNCHANGED <<input, discarded>>
  <2>1. Queue(output') /\ Numbers(output') = Numbers(output) \cup M
    BY <1>1, <1>2, <1>5, Parts DEF Queue
  <2>2. Queues'
    BY <1>1, <1>5, <2>1, Short DEF IInv, Queues
  <2>3. Step(5, M)
    BY <1>1, <1>5, <2>1, Short DEF Step, Moves, Before, Stages, Lost, UpData, DownData
  <2>. QED
    BY <1>1, <2>2, <2>3, LineStep
<1>. QED
  BY <1>3, <1>4, <1>5

-----------------------------------------------------------------------------
(* The theorems.                                                           *)

\* The counters stay within their bounds.
LEMMA Bounds ==
    /\ \A n \in 0..MaxSessions : n < MaxSessions => n + 1 \in 0..MaxSessions
    /\ \A n \in 0..MaxBytes : n < MaxBytes => n + 1 \in 0..MaxBytes
    /\ \A n \in 0..MaxTries : n > 0 => n - 1 \in 0..MaxTries
    /\ 0 \in 0..MaxSessions /\ 0 \in 0..MaxBytes /\ 0 \in 0..MaxTries /\ MaxTries \in 0..MaxTries
    /\ Len(<<>>) <= Chunk /\ SubSeq(<<>>, Chunk + 1, Len(<<>>)) = <<>>
<1>1. Chunk \in Nat /\ MaxTries \in Nat /\ MaxSessions \in Nat /\ MaxBytes \in Nat
  BY ForwarderAssumption
<1>2. Len(<<>>) = 0 /\ Chunk + 1 \in Int /\ 0 < Chunk + 1
  BY <1>1, EmptySeq
<1>3. SubSeq(<<>>, Chunk + 1, Len(<<>>)) = <<>>
  BY <1>2, SubSeqEmpty
<1>. QED
  BY <1>1, <1>2, <1>3

\* The types, for every step.
LEMMA TypeStep == IInv /\ [Next]_vars => TypeOK'
<1>. SUFFICES ASSUME IInv, [Next]_vars PROVE TypeOK'
  OBVIOUS
<1>0. Len(<<>>) <= Chunk /\ (\A s : Queue(s) => Len(Read(s)) <= Chunk)
  BY Bounds, Chunks
<1>. USE DEF IInv, TypeOK, Ends, Goto
<1>1. CASE SessionOpens
  <2>1. sessions' \in 0..MaxSessions
    BY Bounds, <1>1 DEF SessionOpens
  <2>. QED
    BY <1>1, <2>1 DEF SessionOpens, serial, main, seen
<1>2. CASE SessionWrites
  <2>1. wrote' \in 0..MaxBytes
    BY Bounds, <1>2 DEF SessionWrites
  <2>. QED
    BY <1>2, <2>1 DEF SessionWrites, serial, main, seen
<1>3. CASE SessionReads
  BY <1>3 DEF SessionReads, serial, main
<1>4. CASE SessionFlushes
  BY <1>4 DEF SessionFlushes, serial, main
<1>5. CASE SessionCloses
  BY <1>5 DEF SessionCloses, serial, main
<1>6. CASE DeviceAnswers
  BY <1>6 DEF DeviceAnswers, pty, main
<1>7. CASE Select
  BY <1>7 DEF Select, pty, serial, seen
<1>8. CASE ReadReal
  <2>1. Len(data') <= Chunk
    BY <1>0, <1>8 DEF ReadReal, Queues
  <2>2. input' # <<>> => input # <<>>
    <3>1. CASE "real" \in ready /\ input = <<>>
      BY <1>8, <3>1, Bounds DEF ReadReal, Unread
    <3>2. CASE "real" \notin ready
      BY <1>8, <3>2 DEF ReadReal
    <3>. QED
      BY <3>1, <3>2
  <2>. QED
    BY <1>8, <2>1, <2>2 DEF ReadReal, pty, seen
<1>9. CASE WriteVirtual
  <2>1. slave = "open" \/ toSlave' = <<>>
    BY <1>9 DEF WriteVirtual
  <2>. QED
    BY <1>0, <1>9, <2>1 DEF WriteVirtual, serial
<1>10. CASE NothingVirtual
  BY <1>10 DEF NothingVirtual, pty, serial, seen
<1>11. CASE ReadVirtual
  <2>1. Len(data') <= Chunk
    BY <1>0, <1>11 DEF ReadVirtual, Queues
  <2>. QED
    BY <1>11, <2>1 DEF ReadVirtual, serial, seen
<1>12. CASE Reopen
  BY <1>12 DEF Reopen
<1>13. CASE OpenReal
  <2>1. tries' \in 0..MaxTries
    BY Bounds, <1>13 DEF OpenReal
  <2>. QED
    BY <1>13, <2>1 DEF OpenReal, pty, serial, seen
<1>14. CASE SendSyn
  BY <1>14 DEF SendSyn, pty
<1>15. CASE RecvAck
  BY Bounds, <1>15 DEF RecvAck, pty
<1>16. CASE NoAck
  <2>1. tries' \in 0..MaxTries
    BY Bounds, <1>16 DEF NoAck
  <2>. QED
    BY <1>16, <2>1 DEF NoAck, pty
<1>17. CASE WriteReal
  BY <1>0, <1>17 DEF WriteReal, pty
<1>18. CASE RealFails
  BY <1>18 DEF RealFails, pty, serial, seen
<1>19. CASE UNCHANGED vars
  BY <1>19 DEF vars, pty, serial, main, seen
<1>. QED
  BY <1>1, <1>2, <1>3, <1>4, <1>5, <1>6, <1>7, <1>8, <1>9, <1>10, <1>11, <1>12, <1>13, <1>14,
     <1>15, <1>16, <1>17, <1>18, <1>19 DEF Next, Main

\* The line, for every step.
LEMMA QueueStep == IInv /\ [Next]_vars => Queues' /\ InLine'
<1>. SUFFICES ASSUME IInv, [Next]_vars PROVE Queues' /\ InLine'
  OBVIOUS
<1>1. CASE SessionOpens
  BY <1>1, IdleStep DEF SessionOpens, serial, main, seen, IInv, Queues
<1>2. CASE Select
  BY <1>2, IdleStep DEF Select, Goto, pty, serial, seen, IInv, Queues
<1>3. CASE NothingVirtual
  BY <1>3, IdleStep DEF NothingVirtual, Goto, pty, serial, seen, IInv, Queues
<1>4. CASE OpenReal
  BY <1>4, IdleStep DEF OpenReal, Goto, pty, serial, seen
<1>5. CASE RealFails
  BY <1>5, IdleStep DEF RealFails, Goto, pty, serial, seen
<1>6. CASE UNCHANGED vars
  BY <1>6, IdleStep DEF vars, pty, serial, main, seen, IInv, Queues
<1>. QED
  BY <1>1, <1>2, <1>3, <1>4, <1>5, <1>6, SessionReadsStep, SessionWritesStep, SessionFlushesStep,
     SessionClosesStep, DeviceAnswersStep, ReadRealStep, WriteVirtualStep, ReadVirtualStep,
     ReopenStep, SendSynStep, RecvAckStep, NoAckStep, WriteRealStep DEF Next, Main

\* In the line from the beginning.
LEMMA InitLine == Init => IInv
<1>. SUFFICES ASSUME Init PROVE IInv
  OBVIOUS
<1>1. TypeOK
  BY Bounds DEF Init, TypeOK, Ends
<1>2. Queues
  BY Short DEF Init, Queues
<1>3. /\ wrote = 0 /\ Numbers(arrived) = {} /\ Lost("up") = {} /\ Lost("down") = {}
      /\ \A a \in 1..7 : Stages[a] = {}
  BY Short DEF Init, Stages, UpData, DownData, Lost
<1>4. InLine
  <2>1. \A n \in 1..0 : FALSE
    OBVIOUS
  <2>. QED
    BY <1>3, <2>1 DEF InLine, Line, Before
<1>. QED
  BY <1>1, <1>2, <1>4 DEF IInv

\* What has reached the end of a line, with everything else behind it or lost,
\* is in order and has no other holes.
LEMMA LineInOrder ==
    ASSUME NEW s, Queue(s), NEW w \in Nat, NEW ways, NEW rest,
           Numbers(s) \subseteq 1..w, Before(Numbers(s), rest),
           \A n \in 1..w : n \in Numbers(s) \cup rest \/ \E way \in ways : n \in Lost(way)
    PROVE  InOrder(s, ways)
<1>. SUFFICES ASSUME NEW j \in DOMAIN s, s[j] # Own
              PROVE  /\ \A i \in 1..j - 1 : s[i] # Own => s[i].number < s[j].number
                     /\ \A n \in 1..s[j].number - 1 : \E syn \in BOOLEAN :
                          \/ \E i \in 1..j - 1 : s[i] = ByteOf(n, syn)
                          \/ \E way \in ways : <<way, ByteOf(n, syn)>> \in discarded
  BY DEF InOrder
<1>1. /\ Len(s) \in Nat /\ DOMAIN s = 1..Len(s) /\ \A i \in DOMAIN s : s[i] \in Bytes
      /\ \A i \in 1..j - 1 : i \in DOMAIN s /\ i < j
  BY LenProperties, ElementOfSeq DEF Queue
<1>2. \A i \in 1..j - 1 : s[i] # Own => s[i].number < s[j].number
  BY <1>1, Fields DEF Queue, Rising
<1>3. ASSUME NEW n \in 1..s[j].number - 1
      PROVE  \E syn \in BOOLEAN : \/ \E i \in 1..j - 1 : s[i] = ByteOf(n, syn)
                                  \/ \E way \in ways : <<way, ByteOf(n, syn)>> \in discarded
  <2>1. s[j].number \in Numbers(s) /\ s[j].number \in 1..w
    BY <1>1, Fields DEF Numbers
  <2>2. n \in 1..w /\ n < s[j].number /\ n # 0
    BY <2>1
  <2>3. n \notin rest
    BY <2>1, <2>2 DEF Before
  <2>4. CASE n \in Numbers(s)
    <3>1. PICK i \in DOMAIN s : n = s[i].number
      BY <2>4 DEF Numbers
    <3>2. i < j
      <4>1. i # j /\ ~(j < i)
        BY <1>1, <2>1, <2>2, <3>1, Fields DEF Queue, Rising
      <4>. QED
        BY <1>1, <4>1
    <3>3. i \in 1..j - 1 /\ s[i].syn \in BOOLEAN /\ s[i] = ByteOf(n, s[i].syn)
      BY <1>1, <2>2, <3>1, <3>2, Fields
    <3>. QED
      BY <3>3
  <2>5. CASE \E way \in ways : n \in Lost(way)
    BY <2>5 DEF Lost
  <2>. QED
    BY <2>2, <2>3, <2>4, <2>5
<1>. QED
  BY <1>2, <1>3

LEMMA IInvOrder == IInv => DeviceGetsWhatWasWritten /\ SessionsHearTheAnswers
<1>. SUFFICES ASSUME IInv PROVE DeviceGetsWhatWasWritten /\ SessionsHearTheAnswers
  OBVIOUS
<1>1. /\ wrote \in Nat /\ Queue(arrived) /\ Queue(heard)
      /\ Line(Stages, Numbers(arrived), Lost("up"), Lost("down"), wrote)
  BY DEF IInv, TypeOK, Queues, InLine
<1>2. DeviceGetsWhatWasWritten
  <2>. DEFINE rest == UNION {Stages[a] : a \in 5..7}
  <2>1. Numbers(arrived) \subseteq 1..wrote /\ Before(Numbers(arrived), rest)
    BY <1>1 DEF Line, Before
  <2>2. \A n \in 1..wrote : n \in Numbers(arrived) \cup rest \/ \E way \in {"up"} : n \in Lost(way)
    BY <1>1 DEF Line
  <2>. HIDE DEF rest
  <2>. QED
    BY <1>1, <2>1, <2>2, LineInOrder DEF DeviceGetsWhatWasWritten
<1>3. SessionsHearTheAnswers
  <2>. DEFINE rest == UNION {Stages[a] : a \in 2..7}
  <2>0. Stages[1] = Numbers(heard) /\ \A a \in 1..7 : a = 1 \/ (a \in 2..7 /\ 1 < a)
    BY DEF Stages
  <2>1. Numbers(heard) \subseteq 1..wrote /\ Before(Numbers(heard), rest)
    BY <1>1, <2>0 DEF Line, Before
  <2>2. \A n \in 1..wrote : n \in Numbers(heard) \cup rest \/ \E way \in {"up", "down"} : n \in Lost(way)
    BY <1>1, <2>0 DEF Line
  <2>. HIDE DEF rest
  <2>. QED
    BY <1>1, <2>1, <2>2, LineInOrder DEF SessionsHearTheAnswers
<1>. QED
  BY <1>2, <1>3

\* Every queue is a line of bytes, in every state: see Line.
THEOREM AlwaysInLine == Spec => []IInv
<1>1. IInv /\ [Next]_vars => IInv'
  BY TypeStep, QueueStep DEF IInv
<1>. QED
  BY <1>1, InitLine, PTL DEF Spec

\* The variables of the forwarder have their types, and nothing is left in a
\* tty that is closed.
THEOREM TypeCorrect == Spec => []TypeOK
<1>1. IInv => TypeOK
  BY DEF IInv
<1>. QED
  BY <1>1, AlwaysInLine, PTL

\* However main()'s rounds, the sessions and the flushes interleave, the device
\* gets what was written in order, and only a flush leaves a hole.
THEOREM WritesArrive == Spec => []DeviceGetsWhatWasWritten
<1>1. IInv => DeviceGetsWhatWasWritten
  BY IInvOrder
<1>. QED
  BY <1>1, AlwaysInLine, PTL

\* The same of the answers: none is heard twice or before an earlier one, and
\* only a flush or a close leaves a hole.
THEOREM AnswersHeard == Spec => []SessionsHearTheAnswers
<1>1. IInv => SessionsHearTheAnswers
  BY IInvOrder
<1>. QED
  BY <1>1, AlwaysInLine, PTL
=============================================================================
