--------------------------- MODULE Lo4Logger_proofs ---------------------------
(***************************************************************************)
(* For every number of faults and tries and whatever the file holds before *)
(* a download: the sections lo4-logger writes are in order, and without    *)
(* faults it writes all of them.  The first holds because what is under    *)
(* way, in the input of the host and in that of the logger, is in order    *)
(* and behind what was written; the second because without faults nothing  *)
(* but the one exchange that is going on is under way.                     *)
(***************************************************************************)
EXTENDS Lo4Logger, SequenceTheorems, TLAPS

Requests == {Msg("SYN", 0), Msg("ERASE", 0)} \cup {Msg("READ", n) : n \in Sections}
Answers  == {Msg("ACK", 0), Msg("damaged", 0)} \cup {Msg("section", n) : n \in Sections}

Queues == request \in Seq(Requests) /\ tty \in Seq(Answers)

\* Where main() is tells how far it has come.
Progress == /\ pc \in {"download", "section"} => next \in Sections
            /\ pc \in {"syn", "ack"} /\ goal = "download" => next = 1
            /\ pc \in {"erase", "erased", "exit 0"} \/ goal = "erase" \/ memory = "erased" => next = 4
            /\ \A i \in DOMAIN request : request[i].kind = "ERASE" => next = 4

\* The last section asked for, and the last one written.
Asked == IF pc \in {"section", "CRC error", "exit 2"} THEN next ELSE next - 1
Written == IF pos = 0 THEN 0 ELSE file[pos]

\* The sections in the answers t are in order, those asked for in the
\* requests r are in order and behind them, and all are between lo and hi.
Sorted(t, r, lo, hi) ==
    /\ \A i \in DOMAIN t : t[i].kind = "section" =>
         /\ lo < t[i].section /\ t[i].section <= hi
         /\ \A j \in DOMAIN t : j < i /\ t[j].kind = "section" => t[j].section < t[i].section
         /\ \A j \in DOMAIN r : r[j].kind = "READ" => t[i].section < r[j].section
    /\ \A i \in DOMAIN r : r[i].kind = "READ" =>
         /\ lo < r[i].section /\ r[i].section <= hi
         /\ \A j \in DOMAIN r : j < i /\ r[j].kind = "READ" => r[j].section < r[i].section

Ahead == Written <= Asked /\ Sorted(tty, request, Written, Asked)

\* A request that is the only message under way, or its answer is.
Exchange(ask, answer) == \/ request = <<ask>> /\ tty = <<>>
                         \/ request = <<>> /\ tty = <<answer>>

\* Without faults every section was written, and nothing but one exchange is
\* under way.
Clean ==
    faults = 0 =>
      /\ pos = next - 1 /\ \A i \in 1..pos : file[i] = i
      /\ pc \in {"syn", "download", "erase"} => request = <<>> /\ tty = <<>>
      /\ pc = "ack" => Exchange(Msg("SYN", 0), Msg("ACK", 0))
      /\ pc = "section" => Exchange(Msg("READ", next), Msg("section", next))

IInv == TypeOK /\ SectionsInOrder /\ Queues /\ Progress /\ Ahead /\ Clean

-----------------------------------------------------------------------------
(* Queues.                                                                 *)

\* What the first message of a queue leaves behind.
LEMMA TailOfQueue ==
    ASSUME NEW S, NEW s \in Seq(S), s # <<>>
    PROVE  /\ Len(s) \in Nat /\ Len(s) > 0 /\ DOMAIN s = 1..Len(s)
           /\ Head(s) = s[1] /\ Head(s) \in S
           /\ Tail(s) \in Seq(S) /\ DOMAIN Tail(s) = 1..(Len(s) - 1)
           /\ \A i \in 1..(Len(s) - 1) : Tail(s)[i] = s[i + 1]
<1>1. Len(s) \in Nat /\ Len(s) > 0 /\ DOMAIN s = 1..Len(s)
  BY LenProperties, EmptySeq
<1>2. Head(s) = s[1] /\ Head(s) \in S
  BY HeadTailProperties
<1>3. Tail(s) \in Seq(S) /\ Len(Tail(s)) = Len(s) - 1
      /\ \A i \in 1..Len(Tail(s)) : Tail(s)[i] = s[i + 1]
  BY HeadTailProperties
<1>4. DOMAIN Tail(s) = 1..Len(Tail(s))
  BY <1>3, LenProperties
<1>. QED
  BY <1>1, <1>2, <1>3, <1>4

\* A queue with one more message.
LEMMA AppendToQueue ==
    ASSUME NEW S, NEW s \in Seq(S), NEW m \in S
    PROVE  /\ Len(s) \in Nat /\ DOMAIN s = 1..Len(s)
           /\ Append(s, m) \in Seq(S) /\ DOMAIN Append(s, m) = 1..(Len(s) + 1)
           /\ \A i \in 1..Len(s) : Append(s, m)[i] = s[i]
           /\ Append(s, m)[Len(s) + 1] = m
BY AppendProperties, LenProperties

\* A queue whose first message is another.
LEMMA DamagedQueue ==
    ASSUME NEW S, NEW s \in Seq(S), s # <<>>, NEW m \in S
    PROVE  /\ Len(s) \in Nat /\ Len(s) > 0 /\ DOMAIN s = 1..Len(s)
           /\ <<m>> \o Tail(s) \in Seq(S) /\ DOMAIN (<<m>> \o Tail(s)) = 1..Len(s)
           /\ (<<m>> \o Tail(s))[1] = m
           /\ \A i \in 2..Len(s) : (<<m>> \o Tail(s))[i] = s[i]
<1>1. Len(s) \in Nat /\ Len(s) > 0 /\ DOMAIN s = 1..Len(s)
  BY LenProperties, EmptySeq
<1>2. Tail(s) \in Seq(S) /\ Len(Tail(s)) = Len(s) - 1
      /\ \A i \in 1..Len(Tail(s)) : Tail(s)[i] = s[i + 1]
  BY HeadTailProperties
<1>3. <<m>> \in Seq(S) /\ Len(<<m>>) = 1 /\ <<m>>[1] = m
  OBVIOUS
<1>4. /\ <<m>> \o Tail(s) \in Seq(S) /\ Len(<<m>> \o Tail(s)) = Len(s)
      /\ \A i \in 1..Len(s) : (<<m>> \o Tail(s))[i] =
                                IF i <= 1 THEN <<m>>[i] ELSE Tail(s)[i - 1]
  BY <1>1, <1>2, <1>3, ConcatProperties
<1>5. DOMAIN (<<m>> \o Tail(s)) = 1..Len(s)
  BY <1>4, LenProperties
<1>6. \A i \in 2..Len(s) : Tail(s)[i - 1] = s[i]
  BY <1>1, <1>2
<1>. QED
  BY <1>1, <1>3, <1>4, <1>5, <1>6

-----------------------------------------------------------------------------
(* Messages under way stay sorted.                                         *)

\* The fields of a message.
LEMMA Fields ==
    /\ \A k, n : Msg(k, n).kind = k /\ Msg(k, n).section = n
    /\ \A m \in Requests : /\ m.kind \in {"SYN", "ERASE", "READ"}
                           /\ m.kind = "READ" => m.section \in Sections /\ m = Msg("READ", m.section)
    /\ \A m \in Answers : /\ m.kind \in {"ACK", "damaged", "section"}
                          /\ m.kind = "section" => m.section \in Sections /\ m = Msg("section", m.section)
BY DEF Msg, Requests, Answers, Sections

\* A request is answered or lost: the answer takes its place.
LEMMA AnswerSorted ==
    ASSUME NEW t \in Seq(Answers), NEW r \in Seq(Requests), NEW lo \in Nat, NEW hi \in Nat,
           Sorted(t, r, lo, hi), r # <<>>, NEW a \in Answers,
           a.kind = "section" => Head(r).kind = "READ" /\ a.section = Head(r).section
    PROVE  Sorted(Append(t, a), Tail(r), lo, hi) /\ Sorted(t, Tail(r), lo, hi)
<1>. DEFINE r1 == Tail(r)  t1 == Append(t, a)  n == Len(t)
<1>1. /\ Len(r) \in Nat /\ Len(r) > 0 /\ DOMAIN r = 1..Len(r) /\ Head(r) = r[1]
      /\ DOMAIN r1 = 1..(Len(r) - 1) /\ \A i \in DOMAIN r1 : r1[i] = r[i + 1]
  BY TailOfQueue
<1>2. /\ n \in Nat /\ DOMAIN t = 1..n /\ DOMAIN t1 = 1..(n + 1)
      /\ \A i \in 1..n : t1[i] = t[i]
      /\ t1[n + 1] = a
  BY AppendToQueue
<1>. HIDE DEF r1, t1, n
<1>3. 1 \in DOMAIN r /\ \A i \in DOMAIN r1 : i + 1 \in DOMAIN r /\ 1 < i + 1
  BY <1>1
<1>4. \A i \in DOMAIN t1 : i \in DOMAIN t \/ i = n + 1
  BY <1>2
<1>5. \A i \in DOMAIN r1 : r1[i].kind = "READ" =>
        /\ lo < r1[i].section /\ r1[i].section <= hi
        /\ \A j \in DOMAIN r1 : j < i /\ r1[j].kind = "READ" => r1[j].section < r1[i].section
        /\ r[1].kind = "READ" => r[1].section < r1[i].section
  BY <1>1, <1>3, SMTT(60) DEF Sorted
<1>6. \A i \in DOMAIN t : t[i].kind = "section" => \A j \in DOMAIN r1 :
        r1[j].kind = "READ" => t[i].section < r1[j].section
  BY <1>1, <1>3 DEF Sorted
<1>7. Sorted(t, r1, lo, hi)
  BY <1>5, <1>6 DEF Sorted
<1>8. ASSUME NEW i \in DOMAIN t1, t1[i].kind = "section"
      PROVE  /\ lo < t1[i].section /\ t1[i].section <= hi
             /\ \A j \in DOMAIN t1 : j < i /\ t1[j].kind = "section" => t1[j].section < t1[i].section
             /\ \A j \in DOMAIN r1 : r1[j].kind = "READ" => t1[i].section < r1[j].section
  <2>1. CASE i \in DOMAIN t
    <3>1. \A j \in DOMAIN t1 : j < i => j \in DOMAIN t
      BY <1>2, <2>1
    <3>. QED
      BY <1>2, <1>8, <2>1, <3>1, <1>7 DEF Sorted
  <2>2. CASE i = n + 1
    <3>1. t1[i] = a /\ r[1].kind = "READ" /\ a.section = r[1].section
      BY <1>1, <1>2, <1>8, <2>2
    <3>2. \A j \in DOMAIN t1 : j < i => j \in DOMAIN t
      BY <1>2, <2>2
    <3>. QED
      BY <1>2, <1>3, <1>5, <3>1, <3>2 DEF Sorted
  <2>. QED
    BY <1>4, <2>1, <2>2
<1>9. Sorted(t1, r1, lo, hi)
  BY <1>5, <1>8 DEF Sorted
<1>. QED
  BY <1>7, <1>9 DEF r1, t1

\* An answer is read or lost; if it is a section, the rest is behind it.
LEMMA ReadSorted ==
    ASSUME NEW t \in Seq(Answers), NEW r \in Seq(Requests), NEW lo \in Nat, NEW hi \in Nat,
           Sorted(t, r, lo, hi), t # <<>>
    PROVE  /\ Sorted(Tail(t), r, lo, hi)
           /\ Head(t).kind = "section" => /\ Sorted(Tail(t), r, Head(t).section, hi)
                                          /\ lo < Head(t).section /\ Head(t).section <= hi
<1>. DEFINE t1 == Tail(t)
<1>1. /\ Len(t) \in Nat /\ Len(t) > 0 /\ DOMAIN t = 1..Len(t) /\ Head(t) = t[1]
      /\ DOMAIN t1 = 1..(Len(t) - 1) /\ \A i \in DOMAIN t1 : t1[i] = t[i + 1]
  BY TailOfQueue
<1>. HIDE DEF t1
<1>2. 1 \in DOMAIN t /\ \A i \in DOMAIN t1 : i + 1 \in DOMAIN t /\ 1 < i + 1
  BY <1>1
<1>3. \A i \in DOMAIN t1 : t1[i].kind = "section" =>
        /\ lo < t1[i].section /\ t1[i].section <= hi
        /\ \A j \in DOMAIN t1 : j < i /\ t1[j].kind = "section" => t1[j].section < t1[i].section
        /\ \A j \in DOMAIN r : r[j].kind = "READ" => t1[i].section < r[j].section
        /\ t[1].kind = "section" => t[1].section < t1[i].section
  BY <1>1, <1>2, SMTT(60) DEF Sorted
<1>4. Sorted(t1, r, lo, hi)
  BY <1>3 DEF Sorted
<1>5. t[1].kind = "section" => /\ Sorted(t1, r, t[1].section, hi)
                               /\ lo < t[1].section /\ t[1].section <= hi
  BY <1>2, <1>3 DEF Sorted
<1>. QED
  BY <1>1, <1>4, <1>5 DEF t1

\* A damaged answer is no section.
LEMMA DamageSorted ==
    ASSUME NEW t \in Seq(Answers), NEW r \in Seq(Requests), NEW lo \in Nat, NEW hi \in Nat,
           Sorted(t, r, lo, hi), t # <<>>
    PROVE  Sorted(<<Msg("damaged", 0)>> \o Tail(t), r, lo, hi)
<1>. DEFINE d == Msg("damaged", 0)  t1 == <<d>> \o Tail(t)
<1>1. d \in Answers /\ d.kind # "section"
  BY DEF Answers, Msg
<1>. HIDE DEF d
<1>2. /\ Len(t) \in Nat /\ Len(t) > 0 /\ DOMAIN t = 1..Len(t) /\ DOMAIN t1 = 1..Len(t)
      /\ t1[1] = d /\ \A i \in 2..Len(t) : t1[i] = t[i]
  BY <1>1, DamagedQueue
<1>. HIDE DEF t1
<1>3. \A i \in DOMAIN t1 : t1[i].kind = "section" => i \in DOMAIN t /\ t1[i] = t[i]
  BY <1>1, <1>2
<1>4. Sorted(t1, r, lo, hi)
  BY <1>3 DEF Sorted
<1>. QED
  BY <1>4 DEF t1, d

\* A command is sent, after a flush.
LEMMA SendSorted ==
    ASSUME NEW t, NEW r \in Seq(Requests), NEW lo \in Nat, NEW hi \in Nat, NEW h \in Nat,
           Sorted(t, r, lo, hi), hi <= h, NEW m \in Requests,
           m.kind = "READ" => m.section = h /\ hi < h /\ lo < h
    PROVE  Sorted(<<>>, Append(r, m), lo, h)
<1>. DEFINE r1 == Append(r, m)  n == Len(r)
<1>1. /\ n \in Nat /\ DOMAIN r = 1..n /\ DOMAIN r1 = 1..(n + 1)
      /\ \A i \in 1..n : r1[i] = r[i]
      /\ r1[n + 1] = m
  BY AppendToQueue
<1>2. \A i \in DOMAIN r : r[i].kind = "READ" => r[i].section \in Nat
  BY <1>1, Fields, ElementOfSeq DEF Sections
<1>. HIDE DEF r1, n
<1>3. ASSUME NEW i \in DOMAIN r1, r1[i].kind = "READ"
      PROVE  /\ lo < r1[i].section /\ r1[i].section <= h
             /\ \A j \in DOMAIN r1 : j < i /\ r1[j].kind = "READ" => r1[j].section < r1[i].section
  <2>1. \A j \in DOMAIN r1 : j < i => j \in DOMAIN r
    BY <1>1
  <2>2. CASE i \in DOMAIN r
    BY <1>1, <1>2, <1>3, <2>1, <2>2 DEF Sorted
  <2>3. CASE i = n + 1
    BY <1>1, <1>2, <1>3, <2>1, <2>3 DEF Sorted
  <2>. QED
    BY <1>1, <2>2, <2>3
<1>4. DOMAIN <<>> = {}
  OBVIOUS
<1>. QED
  BY <1>3, <1>4 DEF Sorted, r1

-----------------------------------------------------------------------------
(* The file.                                                               *)
Put(x) == Append(SubSeq(file, 1, pos), x) \o SubSeq(file, pos + 2, Len(file))

\* A section put where the file is at changes nothing of what was written.
LEMMA PutInFile ==
    ASSUME TypeOK, next \in Sections, NEW x \in {0} \cup Sections
    PROVE  /\ Put(x) \in Seq({0} \cup Sections) /\ Len(Put(x)) <= 3 /\ pos + 1 \in 0..Len(Put(x))
           /\ Put(x)[pos + 1] = x
           /\ \A i \in 1..pos : Put(x)[i] = file[i]
<1>. DEFINE S == {0} \cup Sections  n == Len(file)
            a == SubSeq(file, 1, pos)  b == SubSeq(file, pos + 2, n)  ax == Append(a, x)
<1>1. /\ file \in Seq(S) /\ n \in Nat /\ n <= 3 /\ pos \in 0..n /\ pos + 1 <= 3
      /\ \A i \in 1..n : file[i] \in S
  BY LenProperties, ElementOfSeq DEF TypeOK, Sections
<1>2. a \in Seq(S) /\ Len(a) = pos /\ \A i \in 1..pos : a[i] = file[i]
  <2>1. \A i \in 1..pos : file[i] \in S
    BY <1>1
  <2>. QED
    BY <1>1, <2>1, SubSeqProperties
<1>3. b \in Seq(S) /\ Len(b) = IF pos + 2 <= n THEN n - pos - 1 ELSE 0
  <2>1. \A i \in (pos + 2)..n : file[i] \in S
    BY <1>1
  <2>. QED
    BY <1>1, <2>1, SubSeqProperties
<1>. HIDE DEF S, a, b, n
<1>4. x \in S
  BY DEF S
<1>5. /\ ax \in Seq(S) /\ Len(ax) = pos + 1 /\ ax[pos + 1] = x
      /\ \A i \in 1..pos : ax[i] = file[i]
  BY <1>1, <1>2, <1>4, AppendProperties
<1>. HIDE DEF ax
<1>6. /\ ax \o b \in Seq(S) /\ Len(ax \o b) = Len(ax) + Len(b)
      /\ \A i \in 1..(Len(ax) + Len(b)) : i <= Len(ax) => (ax \o b)[i] = ax[i]
  BY <1>3, <1>5, ConcatProperties
<1>7. Len(ax \o b) \in Nat /\ Len(ax \o b) <= 3 /\ pos + 1 <= Len(ax \o b)
  BY <1>1, <1>3, <1>5, <1>6
<1>8. \A i \in 1..(pos + 1) : (ax \o b)[i] = ax[i]
  BY <1>1, <1>3, <1>5, <1>6
<1>9. Put(x) = ax \o b
  BY DEF Put, ax, a, b, n
<1>10. ax \o b \in Seq({0} \cup Sections)
  BY <1>6 DEF S
<1>. QED
  BY <1>1, <1>5, <1>7, <1>8, <1>9, <1>10

\* A step of main() to the next section.
LEMMA Counting ==
    ASSUME NEW n \in 1..3, NEW p \in 0..3, p < n
    PROVE  /\ n + 1 \in 1..4 /\ n + 1 \in 2..4 /\ p < n + 1 /\ p + 1 < n + 1
           /\ n + 1 \notin 1..3 => n + 1 = 4
OBVIOUS

\* What the invariant says of numbers.
LEMMA Numbers ==
    ASSUME IInv
    PROVE  /\ next \in 1..4 /\ pos \in 0..3 /\ pos < next /\ faults \in Nat
           /\ Asked \in 0..4 /\ Written \in 0..3
<1>1. Len(file) \in Nat /\ \A i \in 1..Len(file) : file[i] \in {0} \cup Sections
  BY LenProperties, ElementOfSeq DEF IInv, TypeOK
<1>2. pos \in 0..Len(file) /\ Len(file) <= 3 /\ next \in 1..4 /\ pos < next /\ faults \in Nat
  BY Lo4Assumption DEF IInv, TypeOK
<1>3. Asked \in 0..4
  <2>1. Asked = next \/ Asked = next - 1
    BY DEF Asked
  <2>. QED
    BY <1>2, <2>1
<1>4. pos # 0 => file[pos] \in 0..3
  BY <1>1, <1>2 DEF Sections
<1>5. Written \in 0..3
  BY <1>4 DEF Written
<1>. QED
  BY <1>1, <1>2, <1>3, <1>5

-----------------------------------------------------------------------------
(* The steps of the logger and of the line.                                *)
THEOREM InitIInv == Init => IInv
<1>. SUFFICES ASSUME Init PROVE IInv
  OBVIOUS
<1>1. file \in Seq({0} \cup Sections) /\ Len(file) <= 3 /\ Len(file) \in Nat
  BY Lo4Assumption, LenProperties DEF Init
<1>2. TypeOK
  BY <1>1, Lo4Assumption DEF Init, TypeOK
<1>3. request \in Seq(Requests) /\ tty \in Seq(Answers) /\ DOMAIN request = {} /\ DOMAIN tty = {}
  BY DEF Init
<1>4. SectionsInOrder /\ Progress /\ Clean
  BY <1>3 DEF Init, SectionsInOrder, Progress, Clean
<1>5. Ahead
  BY <1>3 DEF Init, Ahead, Sorted, Written, Asked
<1>. QED
  BY <1>2, <1>3, <1>4, <1>5 DEF IInv, Queues

LEMMA ServeStep == ASSUME IInv, Serve PROVE IInv'
<1>. DEFINE r == Head(request)
            a == IF r.kind = "READ" THEN Msg("section", r.section) ELSE Msg("ACK", 0)
<1>1. /\ request # <<>> /\ request' = Tail(request) /\ tty' = Append(tty, a)
      /\ memory' = IF r.kind = "ERASE" THEN "erased" ELSE memory
      /\ UNCHANGED <<faults, erase, pc, goal, tries, next, pos, file>>
  BY DEF Serve, host
<1>2. request \in Seq(Requests) /\ tty \in Seq(Answers)
  BY DEF IInv, Queues
<1>3. /\ r \in Requests /\ r = request[1] /\ Tail(request) \in Seq(Requests) /\ 1 \in DOMAIN request
      /\ \A i \in DOMAIN Tail(request) : i + 1 \in DOMAIN request /\ Tail(request)[i] = request[i + 1]
  BY <1>1, <1>2, TailOfQueue
<1>4. a \in Answers /\ (a.kind = "section" => r.kind = "READ" /\ a.section = r.section)
  BY <1>3, Fields DEF Answers
<1>. HIDE DEF a
<1>5. Queues'
  BY <1>1, <1>2, <1>3, <1>4, AppendProperties DEF Queues
<1>6. TypeOK' /\ SectionsInOrder'
  BY <1>1 DEF IInv, TypeOK, SectionsInOrder
<1>7. Progress'
  <2>1. r.kind = "ERASE" => next = 4
    BY <1>3 DEF IInv, Progress
  <2>2. \A i \in DOMAIN request' : request'[i].kind = "ERASE" => next = 4
    BY <1>1, <1>3 DEF IInv, Progress
  <2>3. memory' = "erased" => next = 4
    BY <1>1, <2>1 DEF IInv, Progress
  <2>. QED
    BY <1>1, <2>2, <2>3 DEF IInv, Progress
<1>8. Ahead'
  <2>1. Written' = Written /\ Asked' = Asked
    BY <1>1 DEF Written, Asked
  <2>2. Sorted(Append(tty, a), Tail(request), Written, Asked)
    BY <1>1, <1>2, <1>4, AnswerSorted, Numbers DEF IInv, Ahead
  <2>3. Sorted(tty', request', Written', Asked')
    BY <1>1, <2>1, <2>2
  <2>. QED
    BY <2>1, <2>3 DEF IInv, Ahead
<1>9. Clean'
  <2>1. \A m : request = <<m>> => Tail(request) = <<>> /\ r = m
    OBVIOUS
  <2>2. tty = <<>> => Append(tty, a) = <<a>>
    OBVIOUS
  <2>3. Exchange(Msg("SYN", 0), Msg("ACK", 0)) => Exchange(Msg("SYN", 0), Msg("ACK", 0))'
    BY <1>1, <2>1, <2>2, Fields DEF Exchange, a
  <2>4. Exchange(Msg("READ", next), Msg("section", next))
          => Exchange(Msg("READ", next), Msg("section", next))'
    BY <1>1, <2>1, <2>2, Fields DEF Exchange, a
  <2>. QED
    BY <1>1, <2>3, <2>4 DEF IInv, Clean
<1>. QED
  BY <1>5, <1>6, <1>7, <1>8, <1>9 DEF IInv

\* A fault only takes a message away, or makes an answer one that is no
\* section; and after it nothing is said of a clean download.
LEMMA LineFaultStep == ASSUME IInv, LineFault PROVE IInv'
<1>1. /\ faults < MaxFaults /\ faults' = faults + 1
      /\ UNCHANGED <<memory, erase, pc, goal, tries, next, pos, file>>
  BY DEF LineFault, host
<1>2. request \in Seq(Requests) /\ tty \in Seq(Answers)
  BY DEF IInv, Queues
<1>3. TypeOK' /\ SectionsInOrder' /\ Clean'
  <2>1. faults \in Nat /\ MaxFaults \in Nat
    BY Numbers, Lo4Assumption
  <2>. QED
    BY <1>1, <2>1 DEF IInv, TypeOK, SectionsInOrder, Clean
<1>4. Written' = Written /\ Asked' = Asked /\ Written <= Asked
  BY <1>1 DEF IInv, Ahead, Written, Asked
<1>5. CASE request # <<>> /\ request' = Tail(request) /\ UNCHANGED tty
  <2>1. /\ Tail(request) \in Seq(Requests)
        /\ \A i \in DOMAIN Tail(request) : i + 1 \in DOMAIN request /\ Tail(request)[i] = request[i + 1]
    BY <1>2, <1>5, TailOfQueue
  <2>2. Queues'
    BY <1>2, <1>5, <2>1 DEF Queues
  <2>3. Progress'
    BY <1>1, <1>5, <2>1 DEF IInv, Progress
  <2>4. Sorted(tty, Tail(request), Written, Asked)
    <3>1. Msg("ACK", 0) \in Answers /\ Msg("ACK", 0).kind # "section"
      BY Fields DEF Answers
    <3>. QED
      BY <1>2, <1>5, <3>1, AnswerSorted, Numbers DEF IInv, Ahead
  <2>5. Ahead'
    BY <1>4, <1>5, <2>4 DEF Ahead
  <2>. QED
    BY <1>3, <2>2, <2>3, <2>5 DEF IInv
<1>6. CASE tty # <<>> /\ tty' = Tail(tty) /\ UNCHANGED request
  <2>1. Queues' /\ Progress'
    BY <1>1, <1>2, <1>6, TailOfQueue DEF IInv, Queues, Progress
  <2>2. Sorted(Tail(tty), request, Written, Asked)
    BY <1>2, <1>6, ReadSorted, Numbers DEF IInv, Ahead
  <2>3. Ahead'
    BY <1>4, <1>6, <2>2 DEF Ahead
  <2>. QED
    BY <1>3, <2>1, <2>3 DEF IInv
<1>7. CASE tty # <<>> /\ tty' = <<Msg("damaged", 0)>> \o Tail(tty) /\ UNCHANGED request
  <2>1. Queues'
    <3>1. Msg("damaged", 0) \in Answers
      BY DEF Answers
    <3>. QED
      BY <1>2, <1>7, <3>1, DamagedQueue DEF Queues
  <2>2. Progress'
    BY <1>1, <1>7 DEF IInv, Progress
  <2>3. Sorted(<<Msg("damaged", 0)>> \o Tail(tty), request, Written, Asked)
    BY <1>2, <1>7, DamageSorted, Numbers DEF IInv, Ahead
  <2>4. Ahead'
    BY <1>4, <1>7, <2>3 DEF Ahead
  <2>. QED
    BY <1>3, <2>1, <2>2, <2>4 DEF IInv
<1>. QED
  BY <1>5, <1>6, <1>7 DEF LineFault

-----------------------------------------------------------------------------
(* The queues under the steps of the host.                                 *)
LEMMA SendQueues ==
    ASSUME IInv, NEW m \in Requests, Send(m), UNCHANGED <<pos, file>>,
           Asked' \in Nat, Asked <= Asked', m.kind = "READ" => m.section = Asked' /\ Asked < Asked'
    PROVE  /\ Queues' /\ Ahead'
           /\ request' = Append(request, m) /\ tty' = <<>>
           /\ request = <<>> => request' = <<m>>
           /\ \A i \in DOMAIN request' : \/ request'[i] = m
                                         \/ i \in DOMAIN request /\ request'[i] = request[i]
<1>1. request' = Append(request, m) /\ tty' = <<>> /\ request \in Seq(Requests)
  BY DEF Send, IInv, Queues
<1>2. Written' = Written /\ Written \in Nat /\ Asked \in Nat /\ Written <= Asked
  BY Numbers DEF IInv, Ahead, Written
<1>3. Sorted(<<>>, Append(request, m), Written, Asked')
  BY <1>1, <1>2, SendSorted DEF IInv, Ahead
<1>4. Ahead'
  <2>1. Sorted(tty', request', Written', Asked')
    BY <1>1, <1>2, <1>3
  <2>. QED
    BY <1>2, <2>1 DEF Ahead
<1>5. Queues'
  BY <1>1, AppendProperties DEF Queues
<1>6. /\ Len(request) \in Nat /\ DOMAIN request = 1..Len(request)
      /\ DOMAIN request' = 1..(Len(request) + 1)
      /\ \A i \in 1..Len(request) : request'[i] = request[i]
      /\ request'[Len(request) + 1] = m
  BY <1>1, AppendToQueue
<1>7. \A i \in DOMAIN request' : i \in DOMAIN request \/ i = Len(request) + 1
  BY <1>6
<1>8. request = <<>> => request' = <<m>>
  BY <1>1
<1>. QED
  BY <1>1, <1>4, <1>5, <1>6, <1>7, <1>8

\* The host takes an answer, without writing it.
LEMMA TookQueues ==
    ASSUME IInv, tty # <<>>, Took, UNCHANGED <<pos, file>>, Asked' = Asked
    PROVE  Queues' /\ Ahead'
<1>1. /\ tty' = Tail(tty) /\ request' = request
      /\ request \in Seq(Requests) /\ tty \in Seq(Answers)
  BY DEF Took, IInv, Queues
<1>2. Written' = Written /\ Written \in Nat /\ Asked \in Nat /\ Written <= Asked
  BY Numbers DEF IInv, Ahead, Written
<1>3. Sorted(Tail(tty), request, Written, Asked)
  BY <1>1, <1>2, ReadSorted DEF IInv, Ahead
<1>4. Sorted(tty', request', Written', Asked')
  BY <1>1, <1>2, <1>3
<1>. QED
  BY <1>1, <1>2, <1>4, TailOfQueue DEF Queues, Ahead

\* Nothing comes.
LEMMA NothingQueues ==
    ASSUME IInv, Nothing, UNCHANGED <<pos, file>>, Asked' = Asked
    PROVE  /\ Queues' /\ Ahead' /\ faults' \in 0..MaxFaults
           /\ faults' = 0 => faults = 0 /\ request = <<>> /\ tty = <<>>
<1>1. request' = request /\ tty' = tty /\ tty = <<>>
  BY DEF Nothing
<1>2. Written' = Written
  BY DEF Written
<1>3. Sorted(tty', request', Written', Asked')
  BY <1>1, <1>2 DEF IInv, Ahead
<1>4. Queues' /\ Ahead'
  BY <1>1, <1>2, <1>3 DEF IInv, Queues, Ahead
<1>5. faults \in 0..MaxFaults /\ MaxFaults \in Nat
  BY Lo4Assumption DEF IInv, TypeOK
<1>. QED
  BY <1>1, <1>4, <1>5 DEF Nothing

\* What an exchange says of the first answer.
LEMMA ExchangeHead ==
    ASSUME NEW ask, NEW answer, Exchange(ask, answer)
    PROVE  /\ tty # <<>> => request = <<>> /\ Head(tty) = answer /\ Tail(tty) = <<>>
           /\ ~(tty = <<>> /\ request = <<>>)
<1>1. \A m : <<m>> # <<>> /\ Head(<<m>>) = m /\ Tail(<<m>>) = <<>>
  OBVIOUS
<1>2. CASE request = <<ask>> /\ tty = <<>>
  BY <1>1, <1>2
<1>3. CASE request = <<>> /\ tty = <<answer>>
  BY <1>1, <1>3
<1>. QED
  BY <1>2, <1>3 DEF Exchange

-----------------------------------------------------------------------------
(* The steps of the host.                                                  *)
LEMMA SendSynStep == ASSUME IInv, SendSyn PROVE IInv'
<1>1. /\ pc = "syn" /\ Send(Msg("SYN", 0)) /\ pc' = "ack"
      /\ UNCHANGED <<erase, goal, tries, next, pos, file, faults, memory>>
  BY DEF SendSyn, Send
<1>2. Msg("SYN", 0) \in Requests /\ Msg("SYN", 0).kind \notin {"READ", "ERASE"}
  BY Fields DEF Requests
<1>3. Asked' = Asked
  BY <1>1 DEF Asked
<1>4. /\ Queues' /\ Ahead' /\ tty' = <<>>
      /\ request = <<>> => request' = <<Msg("SYN", 0)>>
      /\ \A i \in DOMAIN request' : \/ request'[i] = Msg("SYN", 0)
                                    \/ i \in DOMAIN request /\ request'[i] = request[i]
  BY <1>1, <1>2, <1>3, SendQueues, Numbers
<1>5. TypeOK' /\ SectionsInOrder'
  BY <1>1 DEF IInv, TypeOK, SectionsInOrder
<1>6. Progress'
  BY <1>1, <1>2, <1>4 DEF IInv, Progress
<1>7. Clean'
  BY <1>1, <1>4 DEF IInv, Clean, Exchange
<1>. QED
  BY <1>4, <1>5, <1>6, <1>7 DEF IInv

LEMMA RecvAckStep == ASSUME IInv, RecvAck PROVE IInv'
<1>1. /\ pc = "ack" /\ tty # <<>> /\ Took /\ pc' = goal /\ goal \in {"download", "erase"}
      /\ tty' = Tail(tty) /\ request' = request
      /\ UNCHANGED <<erase, goal, tries, next, pos, file, faults, memory>>
  BY DEF RecvAck, Took, IInv, TypeOK
<1>2. Asked' = Asked
  BY <1>1 DEF Asked
<1>3. Queues' /\ Ahead'
  BY <1>1, <1>2, TookQueues
<1>4. TypeOK' /\ SectionsInOrder'
  BY <1>1 DEF IInv, TypeOK, SectionsInOrder
<1>5. Progress'
  <2>1. goal = "download" => next \in Sections
    BY <1>1 DEF IInv, Progress, Sections
  <2>. QED
    BY <1>1, <2>1 DEF IInv, Progress
<1>6. Clean'
  BY <1>1, ExchangeHead DEF IInv, Clean
<1>. QED
  BY <1>3, <1>4, <1>5, <1>6 DEF IInv

LEMMA NoAckStep == ASSUME IInv, NoAck PROVE IInv'
<1>1. /\ pc = "ack" /\ pc' \in {"syn", "no filser"} /\ tries' \in 0..MaxTries
      /\ request' = request
      /\ UNCHANGED <<erase, goal, next, pos, file, memory>>
  <2>1. tries \in 0..MaxTries /\ MaxTries \in Nat
    BY Lo4Assumption DEF IInv, TypeOK
  <2>2. \/ tries > 0 /\ tries' = tries - 1 /\ pc' = "syn"
        \/ pc' = "no filser" /\ tries' = tries
    BY DEF NoAck, Stop
  <2>3. tries > 0 => tries - 1 \in 0..MaxTries
    BY <2>1
  <2>4. tries' \in 0..MaxTries
    BY <2>1, <2>2, <2>3
  <2>. QED
    BY <2>2, <2>4 DEF NoAck, Took, Nothing
<1>2. Asked' = Asked
  BY <1>1 DEF Asked
<1>3. /\ Queues' /\ Ahead' /\ faults' \in 0..MaxFaults
      /\ faults' = 0 => /\ faults = 0
                        /\ \/ tty # <<>> /\ Head(tty).kind # "ACK"
                           \/ tty = <<>> /\ request = <<>>
  <2>1. CASE tty # <<>> /\ Head(tty).kind # "ACK" /\ Took
    <3>1. faults' = faults /\ faults \in 0..MaxFaults
      BY <2>1 DEF Took, IInv, TypeOK
    <3>. QED
      BY <1>1, <1>2, <2>1, <3>1, TookQueues
  <2>2. CASE Nothing
    BY <1>1, <1>2, <2>2, NothingQueues
  <2>. QED
    BY <2>1, <2>2 DEF NoAck
<1>4. TypeOK' /\ SectionsInOrder'
  BY <1>1, <1>3 DEF IInv, TypeOK, SectionsInOrder, Exits
<1>5. Progress'
  BY <1>1 DEF IInv, Progress
<1>6. faults' # 0
  <2>1. faults' = 0 => Exchange(Msg("SYN", 0), Msg("ACK", 0))
    BY <1>1, <1>3 DEF IInv, Clean
  <2>. QED
    BY <1>3, <2>1, ExchangeHead, Fields
<1>7. Clean'
  BY <1>6 DEF Clean
<1>. QED
  BY <1>3, <1>4, <1>5, <1>7 DEF IInv

LEMMA SendReadStep == ASSUME IInv, SendRead PROVE IInv'
<1>1. /\ pc = "download" /\ Send(Msg("READ", next)) /\ pc' = "section" /\ next \in Sections
      /\ UNCHANGED <<erase, goal, tries, next, pos, file, faults, memory>>
  BY DEF SendRead, Send, IInv, Progress
<1>2. /\ Msg("READ", next) \in Requests /\ Msg("READ", next).kind = "READ"
      /\ Msg("READ", next).section = next
  BY <1>1, Fields DEF Requests
<1>3. Asked = next - 1 /\ Asked' = next
  BY <1>1 DEF Asked
<1>4. /\ Queues' /\ Ahead' /\ tty' = <<>>
      /\ request = <<>> => request' = <<Msg("READ", next)>>
      /\ \A i \in DOMAIN request' : \/ request'[i] = Msg("READ", next)
                                    \/ i \in DOMAIN request /\ request'[i] = request[i]
  <2>1. next \in Nat /\ Asked' \in Nat /\ Asked <= Asked' /\ Asked < Asked'
    BY <1>3, Numbers
  <2>. QED
    BY <1>1, <1>2, <1>3, <2>1, SendQueues
<1>5. TypeOK' /\ SectionsInOrder'
  BY <1>1 DEF IInv, TypeOK, SectionsInOrder
<1>6. Progress'
  BY <1>1, <1>2, <1>4 DEF IInv, Progress
<1>7. Clean'
  BY <1>1, <1>4 DEF IInv, Clean, Exchange
<1>. QED
  BY <1>4, <1>5, <1>6, <1>7 DEF IInv

\* main() goes on with the next section, or with what is behind the last one.
LEMMA AfterSectionStep ==
    ASSUME IInv, pc = "section", next' = next + 1, AfterSection(next + 1),
           UNCHANGED <<erase, memory, request>>
    PROVE  /\ Asked' = Asked /\ Asked = next /\ next \in Sections /\ next' \in 2..4
           /\ pc' \in {"download", "syn", "exit 0"} /\ goal' \in {"download", "erase"}
           /\ tries' \in 0..MaxTries /\ Progress'
<1>1. next \in Sections /\ next \in 1..3 /\ next' \in 2..4
  BY DEF IInv, Progress, Sections
<1>2. /\ pc' \in {"download", "syn", "exit 0"} /\ goal' \in {"download", "erase"}
      /\ tries' \in 0..MaxTries
      /\ pc' = "download" => next + 1 \in Sections /\ goal' = goal
      /\ pc' = "syn" => next + 1 \notin Sections /\ goal' = "erase"
      /\ pc' = "exit 0" => next + 1 \notin Sections /\ goal' = goal
  <2>1. goal \in {"download", "erase"} /\ tries \in 0..MaxTries /\ MaxTries \in 0..MaxTries
    BY Lo4Assumption DEF IInv, TypeOK
  <2>. QED
    BY <2>1 DEF AfterSection
<1>3. next + 1 \notin Sections => next' = 4
  BY <1>1 DEF Sections
<1>4. Asked' = Asked /\ Asked = next
  <2>1. Asked = next
    BY DEF Asked
  <2>2. pc' \notin {"section", "CRC error", "exit 2"}
    BY <1>2
  <2>3. Asked' = next' - 1
    BY <2>2 DEF Asked
  <2>. QED
    BY <1>1, <2>1, <2>3
<1>5. next # 4
  BY <1>1
<1>6. Progress'
  <2>1. /\ goal # "erase" /\ memory # "erased"
        /\ \A i \in DOMAIN request : request[i].kind # "ERASE"
    BY <1>5 DEF IInv, Progress
  <2>. QED
    BY <1>2, <1>3, <2>1 DEF Progress
<1>. QED
  BY <1>1, <1>2, <1>4, <1>6

LEMMA RecvSectionStep == ASSUME IInv, RecvSection PROVE IInv'
<1>. DEFINE x == Head(tty).section
<1>1. /\ pc = "section" /\ tty # <<>> /\ Head(tty).kind = "section"
      /\ tty' = Tail(tty) /\ request' = request
      /\ file' = Put(x) /\ pos' = pos + 1 /\ next' = next + 1 /\ AfterSection(next + 1)
      /\ UNCHANGED <<erase, faults, memory>>
  BY DEF RecvSection, Took, Put
<1>2. request \in Seq(Requests) /\ tty \in Seq(Answers)
  BY DEF IInv, Queues
<1>3. x \in Sections /\ x \in {0} \cup Sections
  BY <1>1, <1>2, TailOfQueue, Fields
<1>4. /\ Asked' = Asked /\ Asked = next /\ next \in Sections /\ next' \in 2..4
      /\ pc' \in {"download", "syn", "exit 0"} /\ goal' \in {"download", "erase"}
      /\ tries' \in 0..MaxTries /\ Progress'
  BY <1>1, AfterSectionStep
<1>5. pos \in 0..3 /\ pos < next /\ next \in 1..4 /\ Asked \in 0..4 /\ Written \in 0..3
  BY Numbers
<1>6. /\ file' \in Seq({0} \cup Sections) /\ Len(file') <= 3 /\ pos' \in 0..Len(file')
      /\ file'[pos + 1] = x /\ \A i \in 1..pos : file'[i] = file[i]
  BY <1>1, <1>3, <1>4, PutInFile DEF IInv
<1>7. TypeOK'
  <2>1. next \in 1..3
    BY <1>4 DEF Sections
  <2>2. pos + 1 < next + 1 /\ next + 1 \in 1..4
    BY <1>5, <2>1, Counting
  <2>3. next' \in 1..4 /\ pos' < next'
    BY <1>1, <2>2
  <2>4. faults' \in 0..MaxFaults /\ memory' \in {"full", "erased"} /\ erase' \in BOOLEAN
    BY <1>1 DEF IInv, TypeOK
  <2>5. pc' \in {"syn", "ack", "download", "section", "erase", "erased"} \cup Exits
    BY <1>4 DEF Exits
  <2>. QED
    BY <1>4, <1>6, <2>3, <2>4, <2>5 DEF TypeOK
<1>8. Sorted(Tail(tty), request, x, Asked) /\ Written < x /\ x <= Asked
  BY <1>1, <1>2, <1>5, ReadSorted DEF IInv, Ahead
<1>9. Written' = x
  BY <1>1, <1>5, <1>6 DEF Written
<1>10. Ahead'
  <2>1. Sorted(tty', request', Written', Asked')
    BY <1>1, <1>4, <1>8, <1>9
  <2>. QED
    BY <1>4, <1>8, <1>9, <2>1 DEF Ahead
<1>11. SectionsInOrder'
  <2>1. pos > 0 => Written = file[pos]
    BY <1>5 DEF Written
  <2>2. ASSUME NEW i \in 1..(pos + 1)
        PROVE  file'[i] \in Sections /\ (i > 1 => file'[i] > file'[i - 1])
    <3>1. CASE i <= pos
      <4>1. i \in 1..pos /\ (i > 1 => i - 1 \in 1..pos)
        BY <1>5, <2>2, <3>1
      <4>. QED
        BY <1>6, <4>1 DEF IInv, SectionsInOrder
    <3>2. CASE i = pos + 1
      <4>1. i > 1 => i - 1 = pos /\ pos \in 1..pos /\ pos > 0
        BY <1>5, <3>2
      <4>2. i > 1 => file'[i - 1] = Written
        BY <1>6, <2>1, <4>1
      <4>3. x \in Nat /\ x > Written
        BY <1>3, <1>5, <1>8 DEF Sections
      <4>. QED
        BY <1>3, <1>6, <3>2, <4>2, <4>3
    <3>. QED
      BY <1>5, <2>2, <3>1, <3>2
  <2>. QED
    BY <1>1, <2>2 DEF SectionsInOrder
<1>12. Queues'
  BY <1>1, <1>2, TailOfQueue DEF Queues
<1>13. Clean'
  <2>. SUFFICES ASSUME faults' = 0 PROVE Clean'
    BY DEF Clean
  <2>1. /\ pos = next - 1 /\ \A i \in 1..pos : file[i] = i
        /\ Exchange(Msg("READ", next), Msg("section", next))
    BY <1>1 DEF IInv, Clean
  <2>2. request' = <<>> /\ tty' = <<>> /\ x = next
    BY <1>1, <2>1, ExchangeHead, Fields
  <2>3. pos' = next' - 1
    BY <1>1, <1>5, <2>1
  <2>4. \A i \in 1..(pos + 1) : i \in 1..pos \/ i = pos + 1
    BY <1>5
  <2>5. pos + 1 = next
    BY <1>5, <2>1
  <2>6. \A i \in 1..pos' : file'[i] = i
    BY <1>1, <1>6, <2>1, <2>2, <2>4, <2>5
  <2>. QED
    BY <1>4, <2>2, <2>3, <2>6 DEF Clean
<1>. QED
  BY <1>4, <1>7, <1>10, <1>11, <1>12, <1>13 DEF IInv

LEMMA WrongSectionStep == ASSUME IInv, WrongSection PROVE IInv'
<1>1. /\ pc = "section" /\ tty # <<>> /\ Head(tty).kind # "section" /\ Took /\ pc' = "CRC error"
      /\ request' = request
      /\ UNCHANGED <<erase, goal, tries, next, pos, file, faults, memory>>
  BY DEF WrongSection, Took, Stop
<1>2. Asked' = Asked
  BY <1>1 DEF Asked
<1>3. Queues' /\ Ahead'
  BY <1>1, <1>2, TookQueues
<1>4. TypeOK' /\ SectionsInOrder' /\ Progress'
  BY <1>1 DEF IInv, TypeOK, SectionsInOrder, Progress, Exits
<1>5. Clean'
  BY <1>1 DEF IInv, Clean
<1>. QED
  BY <1>3, <1>4, <1>5 DEF IInv

\* What write() leaves of a section is behind what was written.
LEMMA DiskFullStep == ASSUME IInv, DiskFull PROVE IInv'
<1>1. /\ pc = "section" /\ tty # <<>> /\ pc' = "exit 2" /\ file' \in {file, Put(0)}
      /\ tty' = Tail(tty) /\ request' = request
      /\ UNCHANGED <<erase, goal, tries, next, pos, faults, memory>>
  BY DEF DiskFull, Took, Stop, Put
<1>2. request \in Seq(Requests) /\ tty \in Seq(Answers)
  BY DEF IInv, Queues
<1>3. next \in Sections
  BY <1>1 DEF IInv, Progress
<1>4. pos \in 0..3 /\ Asked \in 0..4 /\ Written \in 0..3
  BY Numbers
<1>5. /\ file' \in Seq({0} \cup Sections) /\ Len(file') <= 3 /\ pos \in 0..Len(file')
      /\ \A i \in 1..pos : file'[i] = file[i]
  <2>1. CASE file' = file
    BY <2>1 DEF IInv, TypeOK
  <2>2. CASE file' = Put(0)
    <3>1. Len(Put(0)) \in Nat
      BY <1>3, PutInFile, LenProperties DEF IInv
    <3>. QED
      BY <1>3, <1>4, <2>2, <3>1, PutInFile DEF IInv
  <2>. QED
    BY <1>1, <2>1, <2>2
<1>6. TypeOK'
  BY <1>1, <1>5 DEF IInv, TypeOK, Exits
<1>7. SectionsInOrder'
  <2>1. \A i \in 1..pos : i > 1 => i - 1 \in 1..pos
    BY <1>4
  <2>. QED
    BY <1>1, <1>5, <2>1 DEF IInv, SectionsInOrder
<1>8. Progress'
  BY <1>1 DEF IInv, Progress
<1>9. Written' = Written /\ Asked' = Asked
  <2>1. pos # 0 => pos \in 1..pos
    BY <1>4
  <2>. QED
    BY <1>1, <1>5, <2>1 DEF Written, Asked
<1>10. Ahead'
  <2>1. Sorted(tty, request, Written, Asked) /\ Written \in Nat /\ Asked \in Nat
    BY <1>4 DEF IInv, Ahead
  <2>2. Sorted(Tail(tty), request, Written, Asked)
    BY <1>1, <1>2, <2>1, ReadSorted
  <2>3. Sorted(tty', request', Written', Asked')
    BY <1>1, <1>9, <2>2
  <2>. QED
    BY <1>9, <2>3 DEF IInv, Ahead
<1>11. Queues'
  BY <1>1, <1>2, TailOfQueue DEF Queues
<1>12. Clean'
  BY <1>1, <1>5 DEF IInv, Clean
<1>. QED
  BY <1>6, <1>7, <1>8, <1>10, <1>11, <1>12 DEF IInv

LEMMA NoSectionStep == ASSUME IInv, NoSection PROVE IInv'
<1>1. /\ pc = "section" /\ Nothing /\ next' = next + 1 /\ AfterSection(next + 1)
      /\ UNCHANGED <<erase, pos, file, memory, request>>
  BY DEF NoSection, Nothing
<1>2. /\ Asked' = Asked /\ next' \in 2..4
      /\ pc' \in {"download", "syn", "exit 0"} /\ goal' \in {"download", "erase"}
      /\ tries' \in 0..MaxTries /\ Progress'
  BY <1>1, AfterSectionStep
<1>3. /\ Queues' /\ Ahead' /\ faults' \in 0..MaxFaults
      /\ faults' = 0 => faults = 0 /\ request = <<>> /\ tty = <<>>
  BY <1>1, <1>2, NothingQueues
<1>4. TypeOK'
  <2>1. pos < next /\ pos \in 0..3 /\ next \in 1..4
    BY Numbers
  <2>2. next \in 1..3
    BY <1>1 DEF IInv, Progress, Sections
  <2>3. pos < next + 1 /\ next + 1 \in 1..4
    BY <2>1, <2>2, Counting
  <2>4. next' \in 1..4 /\ pos' < next'
    BY <1>1, <2>3
  <2>5. memory' \in {"full", "erased"} /\ erase' \in BOOLEAN
    BY <1>1 DEF IInv, TypeOK
  <2>6. file' \in Seq({0} \cup Sections) /\ Len(file') <= 3 /\ pos' \in 0..Len(file')
    BY <1>1 DEF IInv, TypeOK
  <2>7. pc' \in {"syn", "ack", "download", "section", "erase", "erased"} \cup Exits
    BY <1>2 DEF Exits
  <2>. QED
    BY <1>2, <1>3, <2>4, <2>5, <2>6, <2>7 DEF TypeOK
<1>5. SectionsInOrder'
  BY <1>1 DEF IInv, SectionsInOrder
<1>6. Clean'
  <2>1. faults' = 0 => Exchange(Msg("READ", next), Msg("section", next))
    BY <1>1, <1>3 DEF IInv, Clean
  <2>2. faults' # 0
    BY <1>3, <2>1, ExchangeHead
  <2>. QED
    BY <2>2 DEF Clean
<1>. QED
  BY <1>2, <1>3, <1>4, <1>5, <1>6 DEF IInv

LEMMA SendEraseStep == ASSUME IInv, SendErase PROVE IInv'
<1>1. /\ pc = "erase" /\ Send(Msg("ERASE", 0)) /\ pc' = "erased" /\ next = 4
      /\ UNCHANGED <<erase, goal, tries, next, pos, file, faults, memory>>
  BY DEF SendErase, Send, IInv, Progress
<1>2. Msg("ERASE", 0) \in Requests /\ Msg("ERASE", 0).kind # "READ"
  BY Fields DEF Requests
<1>3. Asked' = Asked
  BY <1>1 DEF Asked
<1>4. Queues' /\ Ahead'
  BY <1>1, <1>2, <1>3, SendQueues, Numbers
<1>5. TypeOK' /\ SectionsInOrder' /\ Progress'
  BY <1>1 DEF IInv, TypeOK, SectionsInOrder, Progress
<1>6. Clean'
  BY <1>1 DEF IInv, Clean
<1>. QED
  BY <1>4, <1>5, <1>6 DEF IInv

LEMMA EraseAnsweredStep == ASSUME IInv, EraseAnswered PROVE IInv'
<1>1. /\ pc = "erased" /\ pc' = "exit 0" /\ next = 4 /\ request' = request
      /\ UNCHANGED <<erase, goal, tries, next, pos, file, memory>>
  BY DEF EraseAnswered, Took, Nothing, IInv, Progress
<1>2. Asked' = Asked
  BY <1>1 DEF Asked
<1>3. Queues' /\ Ahead' /\ faults' \in 0..MaxFaults /\ (faults' = 0 => faults = 0)
  <2>1. CASE tty # <<>> /\ Took
    <3>1. faults' = faults /\ faults \in 0..MaxFaults
      BY <2>1 DEF Took, IInv, TypeOK
    <3>. QED
      BY <1>1, <1>2, <2>1, <3>1, TookQueues
  <2>2. CASE Nothing
    BY <1>1, <1>2, <2>2, NothingQueues
  <2>. QED
    BY <2>1, <2>2 DEF EraseAnswered
<1>4. TypeOK' /\ SectionsInOrder' /\ Progress'
  BY <1>1, <1>3 DEF IInv, TypeOK, SectionsInOrder, Progress, Exits
<1>5. Clean'
  BY <1>1, <1>3 DEF IInv, Clean
<1>. QED
  BY <1>3, <1>4, <1>5 DEF IInv

-----------------------------------------------------------------------------
LEMMA StutterStep == ASSUME IInv, UNCHANGED vars PROVE IInv'
<1>1. UNCHANGED <<request, tty, faults, memory, erase, pc, goal, tries, next, pos, file>>
  BY DEF vars, host
<1>2. TypeOK' /\ SectionsInOrder' /\ Queues' /\ Progress'
  BY <1>1 DEF IInv, TypeOK, SectionsInOrder, Queues, Progress
<1>3. Ahead'
  <2>1. Written' = Written /\ Asked' = Asked
    BY <1>1 DEF Written, Asked
  <2>2. Sorted(tty', request', Written', Asked')
    BY <1>1, <2>1 DEF IInv, Ahead
  <2>. QED
    BY <2>1, <2>2 DEF IInv, Ahead
<1>4. Clean'
  BY <1>1 DEF IInv, Clean, Exchange
<1>. QED
  BY <1>2, <1>3, <1>4 DEF IInv

\* The invariant is inductive.
THEOREM StepIInv == IInv /\ [Next]_vars => IInv'
<1>. SUFFICES ASSUME IInv, [Next]_vars PROVE IInv'
  OBVIOUS
<1>1. CASE Host
  BY <1>1, SendSynStep, RecvAckStep, NoAckStep, SendReadStep, RecvSectionStep, WrongSectionStep,
     DiskFullStep, NoSectionStep, SendEraseStep, EraseAnsweredStep DEF Host
<1>. QED
  BY <1>1, ServeStep, LineFaultStep, StutterStep DEF Next

THEOREM Invariance == Spec => []IInv
BY InitIInv, StepIInv, PTL DEF Spec

\* Whatever the line loses, damages or delays and whatever the file held: what
\* lo4-logger has written are sections in order, none twice.
THEOREM InOrder == Spec => [](TypeOK /\ SectionsInOrder)
<1>1. IInv => TypeOK /\ SectionsInOrder
  BY DEF IInv
<1>. QED
  BY <1>1, Invariance, PTL

\* A file of no more than three sections, with 1, 2 and 3 in their places.
LEMMA WholeFile ==
    ASSUME NEW s \in Seq({0} \cup Sections), Len(s) \in Nat, Len(s) <= 3,
           3 \in 0..Len(s), \A i \in 1..3 : s[i] = i
    PROVE  s = <<1, 2, 3>>
<1>1. \A n \in Nat : n <= 3 /\ 3 \in 0..n => n = 3
  OBVIOUS
<1>2. s[1] = 1 /\ s[2] = 2 /\ s[3] = 3
  OBVIOUS
<1>3. <<1, 2, 3>> \in Seq({0} \cup Sections) /\ Len(<<1, 2, 3>>) = 3
  BY DEF Sections
<1>4. \A i \in 1..3 : s[i] = <<1, 2, 3>>[i]
  BY <1>2
<1>5. Len(s) = 3
  BY <1>1
<1>. QED
  BY <1>3, <1>4, <1>5, SeqEqual

\* On a line without faults the file is the memory when lo4-logger exits well
\* or has erased the logger.
THEOREM Complete == Spec => []CleanDownload
<1>1. ASSUME IInv, faults = 0, pc = "exit 0" \/ memory = "erased"
      PROVE  file = <<1, 2, 3>>
  <2>1. next = 4
    BY <1>1 DEF IInv, Progress
  <2>2. pos = next - 1 /\ \A i \in 1..pos : file[i] = i
    BY <1>1 DEF IInv, Clean
  <2>3. /\ file \in Seq({0} \cup Sections) /\ Len(file) <= 3
        /\ pos \in 0..Len(file) /\ Len(file) \in Nat
    BY <1>1, LenProperties DEF IInv, TypeOK
  <2>4. pos = 3
    BY <2>1, <2>2
  <2>. QED
    BY <2>2, <2>3, <2>4, WholeFile
<1>2. IInv => CleanDownload
  BY <1>1 DEF CleanDownload
<1>. QED
  BY <1>2, Invariance, PTL
=============================================================================
