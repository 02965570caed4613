----------------------------- MODULE Cenfis_proofs -----------------------------
(***************************************************************************)
(* Whatever the device says, however its text is cut into pieces, however  *)
(* long the file and the buffer are: the lines arrive once and in their    *)
(* order, and no line is written before the one before is acknowledged.    *)
(* The tool takes a star for an acknowledgement, so the invariant says     *)
(* where a star may come from: after "ready" was read, what is left of the *)
(* device's text has none, and then there is one exactly when the device   *)
(* has received a line that the tool has not seen acknowledged.            *)
(***************************************************************************)
EXTENDS Cenfis, Hexfile, SequenceTheorems, TLAPS

Messages == {Key(k) : k \in {"Y", "P", "nothing"}} \cup {Line(n) : n \in Nat \ {0}}

Queues == input \in Seq(Pieces) /\ buffer \in Seq(Pieces) /\ output \in Seq(Messages)

\* The device has said that it is ready for the data.
Announced == \E d \in 1..asked : \E k \in DOMAIN Script[d].say : Script[d].say[k] = "ready"

\* The lines: those received are the first ones, and if another was written
\* it is on its way, or it was lost on a device that waits for a key.
Received == /\ received \in Seq(Nat) /\ \A i \in DOMAIN received : received[i] = i
            /\ acked <= Len(received) /\ Len(received) <= sent /\ sent <= acked + 1

Written == \A i \in DOMAIN output : output[i].kind = "line" =>
             /\ output[i].line = sent /\ sent = acked + 1 /\ Len(received) = acked
             /\ \A j \in DOMAIN output : output[j].kind = "line" => j = i

\* Where command_upload is tells how far it has come.
Progress == /\ pc \in {"wait", "send", "done"} => sent = acked
            /\ pc = "ack" => sent = acked + 1
            /\ pc = "done" => acked = Lines
            /\ pc \in {"send", "ack", "done"} => Announced

\* The stars: as long as it waits for questions, none is behind a "ready";
\* later there is one at the most, for a line received and not acknowledged.
NoStarAfterReady ==
    /\ \A i, j \in DOMAIN input : input[i] = "ready" /\ i < j => input[j] # "star"
    /\ \A i \in DOMAIN buffer : buffer[i] = "ready" => \A j \in DOMAIN input : input[j] # "star"
    /\ (\E i \in DOMAIN input : input[i] = "ready") \/ (\E i \in DOMAIN buffer : buffer[i] = "ready")
         => Announced

OneStar == \A j \in DOMAIN input : input[j] = "star" =>
             /\ sent = acked + 1 /\ Len(received) = sent
             /\ \A i \in DOMAIN input : input[i] = "star" => i = j

Stars == /\ pc = "wait" => NoStarAfterReady
         /\ pc \in {"send", "ack", "done"} => OneStar

IInv == TypeOK /\ Queues /\ Received /\ Written /\ Progress /\ Stars

-----------------------------------------------------------------------------
(* Pieces of text.                                                         *)

\* What is left behind the first k pieces.
LEMMA Suffix ==
    ASSUME NEW S, NEW s \in Seq(S), NEW k \in 0..Len(s)
    PROVE  /\ SubSeq(s, k + 1, Len(s)) \in Seq(S)
           /\ DOMAIN SubSeq(s, k + 1, Len(s)) = 1..(Len(s) - k)
           /\ Len(SubSeq(s, k + 1, Len(s))) = Len(s) - k
           /\ \A i \in 1..(Len(s) - k) : k + i \in DOMAIN s /\ SubSeq(s, k + 1, Len(s))[i] = s[k + i]
<1>. DEFINE t == SubSeq(s, k + 1, Len(s))
<1>1. Len(s) \in Nat /\ DOMAIN s = 1..Len(s)
  BY LenProperties
<1>2. \A i \in (k + 1)..Len(s) : s[i] \in S
  BY <1>1, ElementOfSeq
<1>3. /\ t \in Seq(S) /\ Len(t) = IF k + 1 <= Len(s) THEN Len(s) - (k + 1) + 1 ELSE 0
      /\ \A i \in 1..(Len(s) - (k + 1) + 1) : t[i] = s[k + 1 + i - 1]
  BY <1>1, <1>2, SubSeqProperties
<1>. HIDE DEF t
<1>4. Len(t) = Len(s) - k /\ DOMAIN t = 1..Len(t)
  <2>1. /\ k \in Nat /\ (k + 1 <= Len(s) => Len(s) - (k + 1) + 1 = Len(s) - k)
        /\ (~(k + 1 <= Len(s)) => Len(s) - k = 0)
    <3>1. Len(s) \in Nat /\ k \in Nat /\ k <= Len(s)
      BY <1>1
    <3>. QED
      BY <3>1
  <2>. QED
    BY <1>3, <2>1, LenProperties
<1>5. \A i \in 1..(Len(s) - k) : k + i \in DOMAIN s /\ k + 1 + i - 1 = k + i
  BY <1>1
<1>6. Len(s) - (k + 1) + 1 = Len(s) - k
  BY <1>1, SMTT(60)
<1>7. \A i \in 1..(Len(s) - k) : t[i] = s[k + i]
  BY <1>3, <1>5, <1>6
<1>. QED
  BY <1>3, <1>4, <1>5, <1>7 DEF t

\* The first n pieces.
LEMMA Prefix ==
    ASSUME NEW S, NEW s \in Seq(S), NEW n \in 1..Len(s)
    PROVE  /\ SubSeq(s, 1, n) \in Seq(S) /\ DOMAIN SubSeq(s, 1, n) = 1..n /\ Len(SubSeq(s, 1, n)) = n
           /\ \A i \in 1..n : i \in DOMAIN s /\ SubSeq(s, 1, n)[i] = s[i]
<1>1. Len(s) \in Nat /\ DOMAIN s = 1..Len(s) /\ \A i \in 1..n : s[i] \in S
  BY LenProperties, ElementOfSeq
<1>2. /\ SubSeq(s, 1, n) \in Seq(S) /\ Len(SubSeq(s, 1, n)) = n
      /\ \A i \in 1..n : SubSeq(s, 1, n)[i] = s[1 + i - 1]
  BY <1>1, SubSeqProperties
<1>3. \A i \in 1..n : i \in DOMAIN s /\ 1 + i - 1 = i
  BY <1>1
<1>. QED
  BY <1>2, <1>3, LenProperties

\* Two texts, one after the other.
LEMMA Both ==
    ASSUME NEW S, NEW s \in Seq(S), NEW t \in Seq(S)
    PROVE  /\ s \o t \in Seq(S) /\ Len(s \o t) = Len(s) + Len(t) /\ Len(s) \in Nat /\ Len(t) \in Nat
           /\ \A i \in DOMAIN (s \o t) : \/ i \in DOMAIN s /\ (s \o t)[i] = s[i]
                                         \/ Len(s) < i /\ i - Len(s) \in DOMAIN t /\ (s \o t)[i] = t[i - Len(s)]
           /\ \A i \in DOMAIN s : i <= Len(s) /\ i \in DOMAIN (s \o t) /\ (s \o t)[i] = s[i]
<1>1. /\ s \o t \in Seq(S) /\ Len(s \o t) = Len(s) + Len(t) /\ Len(s) \in Nat /\ Len(t) \in Nat
      /\ DOMAIN s = 1..Len(s) /\ DOMAIN t = 1..Len(t)
      /\ \A i \in 1..Len(s) + Len(t) : (s \o t)[i] = IF i <= Len(s) THEN s[i] ELSE t[i - Len(s)]
  BY ConcatProperties, LenProperties
<1>2. DOMAIN (s \o t) = 1..(Len(s) + Len(t))
  BY <1>1, LenProperties
<1>3. \A i \in 1..(Len(s) + Len(t)) : \/ i \in 1..Len(s) /\ i <= Len(s)
                                      \/ Len(s) < i /\ i - Len(s) \in 1..Len(t) /\ ~(i <= Len(s))
  BY <1>1
<1>4. \A i \in 1..Len(s) : i <= Len(s) /\ i \in 1..(Len(s) + Len(t))
  BY <1>1
<1>. QED
  BY <1>1, <1>2, <1>3, <1>4

\* The first message and the others.
LEMMA Others ==
    ASSUME NEW S, NEW s \in Seq(S), s # <<>>
    PROVE  /\ 1 \in DOMAIN s /\ Head(s) = s[1] /\ Head(s) \in S /\ Tail(s) \in Seq(S)
           /\ \A i \in DOMAIN Tail(s) : i + 1 \in DOMAIN s /\ i + 1 # 1 /\ Tail(s)[i] = s[i + 1]
<1>1. Len(s) \in Nat /\ Len(s) > 0 /\ DOMAIN s = 1..Len(s)
  BY LenProperties, EmptySeq
<1>2. /\ Head(s) = s[1] /\ Head(s) \in S
      /\ Tail(s) \in Seq(S) /\ Len(Tail(s)) = Len(s) - 1
      /\ \A i \in 1..Len(Tail(s)) : Tail(s)[i] = s[i + 1]
  BY HeadTailProperties
<1>3. DOMAIN Tail(s) = 1..(Len(s) - 1)
  BY <1>2, LenProperties
<1>. QED
  BY <1>1, <1>2, <1>3

\* One more message.
LEMMA OneMore ==
    ASSUME NEW S, NEW s \in Seq(S), NEW m \in S
    PROVE  /\ Append(s, m) \in Seq(S) /\ Len(s) \in Nat /\ Len(Append(s, m)) = Len(s) + 1
           /\ \A i \in DOMAIN Append(s, m) : \/ i \in DOMAIN s /\ Append(s, m)[i] = s[i]
                                             \/ i = Len(s) + 1 /\ Append(s, m)[i] = m
<1>1. /\ Len(s) \in Nat /\ DOMAIN s = 1..Len(s)
      /\ Append(s, m) \in Seq(S) /\ Len(Append(s, m)) = Len(s) + 1
      /\ \A i \in 1..Len(s) : Append(s, m)[i] = s[i]
      /\ Append(s, m)[Len(s) + 1] = m
  BY AppendProperties, LenProperties
<1>2. DOMAIN Append(s, m) = 1..(Len(s) + 1)
  BY <1>1, LenProperties
<1>3. \A i \in 1..(Len(s) + 1) : i \in 1..Len(s) \/ i = Len(s) + 1
  BY <1>1
<1>. QED
  BY <1>1, <1>2, <1>3

\* Keys and lines.
LEMMA Fields ==
    /\ \A k \in {"Y", "P", "nothing"} : Key(k) \in Messages /\ Key(k).kind # "line"
    /\ \A n \in Nat \ {0} : Line(n) \in Messages /\ Line(n).kind = "line" /\ Line(n).line = n
    /\ \A m \in Messages : m.kind = "line" => m.line \in Nat \ {0} /\ \A k : m # Key(k)
<1>1. \A k \in {"Y", "P", "nothing"} : Key(k) \in Messages /\ Key(k).kind # "line"
  BY DEF Messages, Key
<1>2. \A n \in Nat \ {0} : Line(n) \in Messages /\ Line(n).kind = "line" /\ Line(n).line = n
  BY DEF Messages, Line
<1>3. ASSUME NEW m \in Messages, m.kind = "line"
      PROVE  m.line \in Nat \ {0} /\ \A k : m # Key(k)
  <2>1. PICK n \in Nat \ {0} : m = Line(n)
    BY <1>1, <1>3 DEF Messages
  <2>2. \A k : Key(k).line = 0
    BY DEF Key
  <2>. QED
    BY <1>2, <2>1, <2>2
<1>. QED
  BY <1>1, <1>2, <1>3

\* What is left in the buffer was there before.
LEMMA Room ==
    ASSUME buffer \in Seq(Pieces)
    PROVE  /\ RoomMade \in Seq(Pieces) /\ Len(RoomMade) \in Nat
           /\ \A i \in DOMAIN RoomMade : \E j \in DOMAIN buffer : RoomMade[i] = buffer[j]
<1>1. CASE Len(buffer) >= 3 * Quarter
  <2>1. Quarter \in 0..Len(buffer)
    BY <1>1, LenProperties, CenfisAssumption
  <2>2. /\ RoomMade = SubSeq(buffer, Quarter + 1, Len(buffer)) /\ RoomMade \in Seq(Pieces)
        /\ \A i \in DOMAIN RoomMade : Quarter + i \in DOMAIN buffer /\ RoomMade[i] = buffer[Quarter + i]
    BY <1>1, <2>1, Suffix DEF RoomMade
  <2>. QED
    BY <2>2, LenProperties
<1>2. CASE ~(Len(buffer) >= 3 * Quarter)
  BY <1>2, LenProperties DEF RoomMade
<1>. QED
  BY <1>1, <1>2

\* A phrase that was found was in the buffer or in what was read.
LEMMA Found ==
    ASSUME NEW old \in Seq(Pieces), NEW new \in Seq(Pieces), NEW p \in Question(old, new)
    PROVE  /\ p \in Phrases
           /\ (\E i \in DOMAIN old : old[i] = p) \/ (\E i \in DOMAIN new : new[i] = p)
<1>1. p \in Phrases /\ \E i \in DOMAIN (old \o new) : p = (old \o new)[i]
  BY DEF Question
<1>. QED
  BY <1>1, Both

\* Only a colon becomes a control character.
LEMMA StruckText ==
    ASSUME NEW new \in Seq(Pieces)
    PROVE  /\ Struck(new) \in Seq(Pieces) /\ Len(Struck(new)) = Len(new)
           /\ \A i \in DOMAIN Struck(new) :
                i \in DOMAIN new /\ (Struck(new)[i] \in Phrases => new[i] = Struck(new)[i])
<1>1. Len(new) \in Nat /\ DOMAIN new = 1..Len(new) /\ \A i \in 1..Len(new) : new[i] \in Pieces
  BY LenProperties, ElementOfSeq
<1>2. Struck(new) \in [1..Len(new) -> Pieces]
  <2>. DEFINE first(i) == new[i] = "colon" /\ \A j \in 1..i - 1 : new[j] # "colon"
  <2>1. Struck(new) = [i \in 1..Len(new) |-> IF first(i) THEN "control" ELSE new[i]]
    BY <1>1 DEF Struck
  <2>. HIDE DEF first
  <2>2. \A i \in 1..Len(new) : (IF first(i) THEN "control" ELSE new[i]) \in Pieces
    BY <1>1 DEF Pieces
  <2>. QED
    BY <2>1, <2>2
<1>3. Struck(new) \in Seq(Pieces)
  BY <1>1, <1>2, SeqDef
<1>4. DOMAIN Struck(new) = 1..Len(Struck(new)) /\ DOMAIN Struck(new) = 1..Len(new) /\ Len(Struck(new)) \in Nat
  BY <1>2, <1>3, LenProperties
<1>5. Len(Struck(new)) = Len(new)
  BY <1>1, <1>2, <1>4
<1>6. "control" \notin Phrases
  BY DEF Phrases
<1>. QED
  BY <1>1, <1>3, <1>4, <1>5, <1>6 DEF Struck

-----------------------------------------------------------------------------
(* The steps.                                                              *)

\* What the device says next has no star, once it is ready for the data; nor
\* has a dialog a star behind the "ready".
LEMMA NextDialog ==
    ASSUME asked \in 0..Len(Script), asked < Len(Script)
    PROVE  /\ Script[asked + 1].say \in Seq(Pieces)
           /\ Announced => \A l \in DOMAIN Script[asked + 1].say : Script[asked + 1].say[l] # "star"
           /\ \A k, l \in DOMAIN Script[asked + 1].say :
                Script[asked + 1].say[k] = "ready" /\ k < l => Script[asked + 1].say[l] # "star"
<1>. DEFINE Dialogs == [say : Seq(Pieces), expect : {"Y", "P", "nothing"}]  e == asked + 1
<1>1. Script \in Seq(Dialogs)
  BY ScriptAssumption
<1>. HIDE DEF Dialogs
<1>2. Len(Script) \in Nat /\ DOMAIN Script = 1..Len(Script)
  BY <1>1, LenProperties
<1>3. e \in 1..Len(Script) /\ \A d \in 1..asked : d \in 1..Len(Script) /\ d < e
  BY <1>2
<1>4. Script[e] \in Dialogs
  BY <1>1, <1>3, ElementOfSeq
<1>5. Script[e].say \in Seq(Pieces)
  BY <1>4 DEF Dialogs
<1>. HIDE DEF e
<1>6. Announced => \A l \in DOMAIN Script[e].say : Script[e].say[l] # "star"
  BY <1>2, <1>3, ScriptAssumption DEF Announced
<1>7. \A k, l \in DOMAIN Script[e].say : Script[e].say[k] = "ready" /\ k < l => Script[e].say[l] # "star"
  BY <1>2, <1>3, ScriptAssumption
<1>. QED
  BY <1>5, <1>6, <1>7 DEF e

LEMMA AskStep == IInv /\ Ask => IInv'
<1>. SUFFICES ASSUME IInv, Ask PROVE IInv'
  OBVIOUS
<1>. DEFINE more == Script[asked + 1].say
<1>1. /\ asked \in 0..Len(Script) /\ asked < Len(Script) /\ asked' = asked + 1 /\ input' = input \o more
      /\ waiting' \in BOOLEAN
      /\ input \in Seq(Pieces)
      /\ UNCHANGED <<output, received, confused, trouble, status, isopen, buffer, sent, acked, pc>>
  BY DEF IInv, TypeOK, Queues, Ask, tool
<1>2. asked' \in 0..Len(Script)
  <2>1. Len(Script) \in Nat
    BY ScriptAssumption, LenProperties
  <2>. QED
    BY <1>1, <2>1
<1>3. TypeOK'
  BY <1>1, <1>2 DEF IInv, TypeOK
<1>4. /\ more \in Seq(Pieces)
      /\ Announced => \A l \in DOMAIN more : more[l] # "star"
      /\ \A k, l \in DOMAIN more : more[k] = "ready" /\ k < l => more[l] # "star"
  BY <1>1, NextDialog
<1>5. Announced' <=> Announced \/ \E k \in DOMAIN more : more[k] = "ready"
  <2>1. \A d : d \in 1..asked' <=> d \in 1..asked \/ d = asked + 1
    BY <1>1, ScriptAssumption, LenProperties
  <2>. QED
    BY <1>1, <2>1 DEF Announced
<1>. HIDE DEF more
<1>6. /\ input' \in Seq(Pieces) /\ Len(input) \in Nat
      /\ \A i \in DOMAIN input' : \/ i \in DOMAIN input /\ input'[i] = input[i]
                                  \/ Len(input) < i /\ i - Len(input) \in DOMAIN more
                                     /\ input'[i] = more[i - Len(input)]
      /\ \A i \in DOMAIN input : i <= Len(input) /\ i \in DOMAIN input' /\ input'[i] = input[i]
  BY <1>1, <1>4, Both
<1>7. Queues' /\ Received' /\ Written' /\ Progress'
  BY <1>1, <1>5, <1>6 DEF IInv, Queues, Received, Written, Progress
<1>8. ASSUME NoStarAfterReady PROVE NoStarAfterReady'
  <2>1. (\E i \in DOMAIN input' : input'[i] = "ready") \/ (\E i \in DOMAIN buffer' : buffer'[i] = "ready")
          => Announced'
    BY <1>1, <1>5, <1>6, <1>8 DEF NoStarAfterReady
  <2>2. \A i \in DOMAIN buffer' : buffer'[i] = "ready" => \A j \in DOMAIN input' : input'[j] # "star"
    BY <1>1, <1>4, <1>6, <1>8 DEF NoStarAfterReady
  <2>3. ASSUME NEW i \in DOMAIN input', NEW j \in DOMAIN input', input'[i] = "ready", i < j
        PROVE  input'[j] # "star"
    <3>1. CASE j \in DOMAIN input /\ input'[j] = input[j]
      <4>1. i \in DOMAIN input /\ input'[i] = input[i]
        <5>1. DOMAIN input' \subseteq Int
          BY <1>6, LenProperties
        <5>. QED
          BY <1>6, <2>3, <3>1, <5>1
      <4>. QED
        BY <1>8, <2>3, <3>1, <4>1 DEF NoStarAfterReady
    <3>2. CASE j - Len(input) \in DOMAIN more /\ input'[j] = more[j - Len(input)]
      <4>1. CASE i \in DOMAIN input /\ input'[i] = input[i]
        BY <1>4, <1>8, <2>3, <3>2, <4>1 DEF NoStarAfterReady
      <4>2. CASE i - Len(input) \in DOMAIN more /\ input'[i] = more[i - Len(input)]
        <5>1. i - Len(input) < j - Len(input)
          <6>1. DOMAIN input' \subseteq Int
            BY <1>6, LenProperties
          <6>. QED
            BY <1>6, <2>3, <6>1
        <5>. QED
          BY <1>4, <2>3, <3>2, <4>2, <5>1
      <4>. QED
        BY <1>6, <4>1, <4>2
    <3>. QED
      BY <1>6, <3>1, <3>2
  <2>. QED
    BY <2>1, <2>2, <2>3 DEF NoStarAfterReady
<1>9. ASSUME OneStar, Announced PROVE OneStar'
  <2>1. \A i \in DOMAIN input' : input'[i] = "star" => i \in DOMAIN input /\ input[i] = "star"
    BY <1>4, <1>6, <1>9
  <2>. QED
    BY <1>1, <2>1, <1>9 DEF OneStar
<1>. QED
  BY <1>1, <1>3, <1>7, <1>8, <1>9 DEF IInv, Stars, Progress

\* The device takes a message: what is left of the output.
LEMMA OutputRead ==
    ASSUME IInv, output # <<>>, output' = Tail(output),
           UNCHANGED <<received, sent, acked>>
    PROVE  output' \in Seq(Messages) /\ Written'
<1>1. /\ Tail(output) \in Seq(Messages)
      /\ \A i \in DOMAIN Tail(output) : i + 1 \in DOMAIN output /\ Tail(output)[i] = output[i + 1]
  BY Others DEF IInv, Queues
<1>2. DOMAIN Tail(output) \subseteq Int
  BY <1>1, LenProperties
<1>3. \A i, j \in DOMAIN Tail(output) : i + 1 = j + 1 => i = j
  BY <1>2
<1>. QED
  BY <1>1, <1>3 DEF IInv, Written

LEMMA HearStep == IInv /\ Hear => IInv'
<1>. SUFFICES ASSUME IInv, Hear PROVE IInv'
  OBVIOUS
<1>1. /\ output # <<>> /\ output' = Tail(output) /\ input \in Seq(Pieces)
      /\ UNCHANGED <<asked, trouble, status, isopen, buffer, sent, acked, pc>>
  BY DEF IInv, Queues, Hear, tool
<1>2. /\ 1 \in DOMAIN output /\ Head(output) = output[1] /\ Head(output) \in Messages
      /\ Tail(output) \in Seq(Messages)
      /\ \A i \in DOMAIN Tail(output) : i + 1 \in DOMAIN output /\ i + 1 # 1 /\ Tail(output)[i] = output[i + 1]
  BY <1>1, Others DEF IInv, Queues
<1>3. CASE UNCHANGED <<input, received>> /\ waiting' \in BOOLEAN /\ confused' \in BOOLEAN
  <2>1. output' \in Seq(Messages) /\ Written'
    BY <1>1, <1>3, OutputRead
  <2>2. TypeOK'
    BY <1>1, <1>3 DEF IInv, TypeOK
  <2>. QED
    BY <1>1, <1>3, <2>1, <2>2
    DEF IInv, Queues, Received, Progress, Announced, Stars, NoStarAfterReady, OneStar
<1>4. CASE /\ Head(output).kind = "line"
           /\ received' = Append(received, Head(output).line) /\ input' = Append(input, "star")
           /\ UNCHANGED <<waiting, confused>>
  <2>1. /\ Head(output).line = sent /\ sent = acked + 1 /\ Len(received) = acked
        /\ \A i \in DOMAIN Tail(output) : Tail(output)[i].kind # "line"
    BY <1>2, <1>4 DEF IInv, Written
  <2>2. sent \in Nat /\ acked \in Nat /\ received \in Seq(Nat)
    BY CenfisAssumption DEF IInv, TypeOK, Received
  <2>3. /\ received' \in Seq(Nat) /\ Len(received') = sent
        /\ \A i \in DOMAIN received' : received'[i] = i
    <3>1. /\ received' \in Seq(Nat) /\ Len(received') = Len(received) + 1
          /\ \A i \in DOMAIN received' : \/ i \in DOMAIN received /\ received'[i] = received[i]
                                         \/ i = Len(received) + 1 /\ received'[i] = sent
      BY <1>4, <2>1, <2>2, OneMore
    <3>. QED
      BY <2>1, <3>1 DEF IInv, Received
  <2>4. /\ input' \in Seq(Pieces)
        /\ \A i \in DOMAIN input' : (i \in DOMAIN input /\ input'[i] = input[i]) \/ i = Len(input) + 1
    <3>1. "star" \in Pieces
      BY DEF Pieces
    <3>. QED
      BY <1>1, <1>4, <3>1, OneMore
  <2>5. pc \in {"ack", "exit"}
    BY <2>1, <2>2 DEF IInv, Progress, TypeOK
  <2>6. pc = "ack" => \A i \in DOMAIN input : input[i] # "star"
    BY <2>1, <2>2 DEF IInv, Stars, OneStar
  <2>7. TypeOK'
    BY <1>1, <1>4 DEF IInv, TypeOK
  <2>8. pc = "ack" => OneStar'
    BY <1>1, <2>1, <2>3, <2>4, <2>6 DEF OneStar
  <2>9. Received' /\ Written'
    BY <1>1, <1>2, <2>1, <2>2, <2>3 DEF IInv, Received, Written
  <2>. QED
    BY <1>1, <1>2, <2>4, <2>5, <2>7, <2>8, <2>9 DEF IInv, Queues, Progress, Announced, Stars
<1>. QED
  BY <1>3, <1>4 DEF Hear, IInv, TypeOK

\* What read() and cenfis_flush leave of the input.
LEMMA Leftover ==
    ASSUME Queues, NEW n \in 1..Len(input), NEW k \in n..Len(input)
    PROVE  LET t == SubSeq(input, k + 1, Len(input)) IN
           /\ t \in Seq(Pieces) /\ Len(input) \in Nat /\ DOMAIN input = 1..Len(input)
           /\ \A i \in DOMAIN t : /\ k + i \in DOMAIN input /\ t[i] = input[k + i] /\ n < k + i
                                  /\ \A j \in DOMAIN t : (i < j <=> k + i < k + j) /\ (k + i = k + j => i = j)
<1>. DEFINE t == SubSeq(input, k + 1, Len(input))
<1>1. input \in Seq(Pieces) /\ Len(input) \in Nat /\ DOMAIN input = 1..Len(input)
  BY LenProperties DEF Queues
<1>2. k \in 0..Len(input) /\ k \in Nat /\ n <= k /\ n \in Nat
  BY <1>1
<1>3. /\ t \in Seq(Pieces) /\ DOMAIN t = 1..(Len(input) - k)
      /\ \A i \in 1..(Len(input) - k) : k + i \in DOMAIN input /\ t[i] = input[k + i]
  BY <1>1, <1>2, Suffix
<1>. HIDE DEF t
<1>4. \A i, j \in 1..(Len(input) - k) : n < k + i /\ (i < j <=> k + i < k + j) /\ (k + i = k + j => i = j)
  BY <1>1, <1>2
<1>. QED
  BY <1>1, <1>3, <1>4 DEF t

\* The buffer never gets too full.
LEMMA BufferFits ==
    ASSUME Queues, NEW n \in Readable
    PROVE  /\ n \in 1..Len(input) /\ n \in n..Len(input) /\ Len(input) \in Nat
           /\ SubSeq(input, 1, n) \in Seq(Pieces)
           /\ \A i \in DOMAIN SubSeq(input, 1, n) : i \in DOMAIN input /\ SubSeq(input, 1, n)[i] = input[i] /\ i <= n
           /\ RoomMade \in Seq(Pieces) /\ Len(RoomMade) <= Size
           /\ Len(RoomMade \o Struck(SubSeq(input, 1, n))) <= Size
           /\ RoomMade \o Struck(SubSeq(input, 1, n)) \in Seq(Pieces)
           /\ \A i \in DOMAIN (RoomMade \o Struck(SubSeq(input, 1, n))) :
                (RoomMade \o Struck(SubSeq(input, 1, n)))[i] \in Phrases =>
                  \/ \E j \in DOMAIN buffer : buffer[j] = (RoomMade \o Struck(SubSeq(input, 1, n)))[i]
                  \/ \E j \in DOMAIN input : j <= n /\ input[j] = (RoomMade \o Struck(SubSeq(input, 1, n)))[i]
<1>. DEFINE new == SubSeq(input, 1, n)  room == RoomMade  b == room \o Struck(new)
<1>1. /\ n \in 1..Len(input) /\ n + Len(room) <= Size /\ input \in Seq(Pieces) /\ Len(input) \in Nat
  BY LenProperties DEF Readable, Queues
<1>2. /\ new \in Seq(Pieces) /\ DOMAIN new = 1..n /\ Len(new) = n
      /\ \A i \in 1..n : i \in DOMAIN input /\ new[i] = input[i]
  BY <1>1, Prefix
<1>3. /\ room \in Seq(Pieces) /\ Len(room) \in Nat
      /\ \A i \in DOMAIN room : \E j \in DOMAIN buffer : room[i] = buffer[j]
  BY Room DEF Queues
<1>. HIDE DEF new, room
<1>4. /\ Struck(new) \in Seq(Pieces) /\ Len(Struck(new)) = n
      /\ \A i \in DOMAIN Struck(new) :
           i \in DOMAIN new /\ (Struck(new)[i] \in Phrases => new[i] = Struck(new)[i])
  BY <1>2, StruckText
<1>5. /\ b \in Seq(Pieces) /\ Len(b) = Len(room) + n
      /\ \A i \in DOMAIN b : \/ i \in DOMAIN room /\ b[i] = room[i]
                             \/ i - Len(room) \in DOMAIN Struck(new) /\ b[i] = Struck(new)[i - Len(room)]
  BY <1>3, <1>4, Both
<1>. HIDE DEF b
<1>6. Size \in Nat
  BY CenfisAssumption DEF Size
<1>7. n \in n..Len(input) /\ Len(room) <= Size /\ Len(b) <= Size
  BY <1>1, <1>3, <1>5, <1>6
<1>8. \A i \in DOMAIN new : i \in DOMAIN input /\ new[i] = input[i] /\ i <= n
  BY <1>1, <1>2
<1>9. \A i \in DOMAIN b : b[i] \in Phrases =>
        \/ \E j \in DOMAIN buffer : buffer[j] = b[i]
        \/ \E j \in DOMAIN input : j <= n /\ input[j] = b[i]
  BY <1>3, <1>4, <1>5, <1>8
<1>. QED
  BY <1>1, <1>2, <1>3, <1>5, <1>7, <1>8, <1>9 DEF new, room, b

LEMMA SelectQuestionStep == IInv /\ SelectQuestion => IInv'
<1>. SUFFICES ASSUME IInv, SelectQuestion PROVE IInv'
  OBVIOUS
<1>1. /\ pc = "wait" /\ status = "IDLE" /\ NoStarAfterReady /\ Queues
      /\ pc' = IF status' = "DATA" THEN "send" ELSE "wait"
      /\ UNCHANGED <<output, asked, waiting, received, confused, trouble, isopen, sent, acked>>
  BY DEF SelectQuestion, device, IInv, Stars
<1>2. PICK n \in Readable :
        LET new == SubSeq(input, 1, n)
            q   == Question(RoomMade, new)
        IN \/ /\ q # {} /\ status' = StatusOf(q) /\ FlushAfter(n)
           \/ /\ q = {} /\ buffer' = RoomMade \o Struck(new)
              /\ input' = SubSeq(input, n + 1, Len(input)) /\ UNCHANGED status
  BY DEF SelectQuestion, ReadQuestion
<1>. DEFINE new == SubSeq(input, 1, n)  q == Question(RoomMade, new)
<1>3. /\ n \in 1..Len(input) /\ n \in n..Len(input) /\ Len(input) \in Nat
      /\ new \in Seq(Pieces) /\ RoomMade \in Seq(Pieces)
      /\ \A i \in DOMAIN new : i \in DOMAIN input /\ new[i] = input[i] /\ i <= n
  BY <1>1, BufferFits
<1>4. PICK k \in n..Len(input) : input' = SubSeq(input, k + 1, Len(input))
  BY <1>2, <1>3 DEF FlushAfter
<1>5. /\ input' \in Seq(Pieces) /\ DOMAIN input = 1..Len(input)
      /\ \A i \in DOMAIN input' : /\ k + i \in DOMAIN input /\ input'[i] = input[k + i] /\ n < k + i
                                  /\ \A j \in DOMAIN input' : (i < j <=> k + i < k + j) /\ (k + i = k + j => i = j)
  <2>. DEFINE t == SubSeq(input, k + 1, Len(input))
  <2>1. /\ t \in Seq(Pieces) /\ DOMAIN input = 1..Len(input)
        /\ \A i \in DOMAIN t : /\ k + i \in DOMAIN input /\ t[i] = input[k + i] /\ n < k + i
                             /\ \A j \in DOMAIN t : (i < j <=> k + i < k + j) /\ (k + i = k + j => i = j)
    BY <1>1, <1>3, Leftover
  <2>2. input' = t
    BY <1>4
  <2>. HIDE DEF t
  <2>. QED
    BY <2>1, <2>2
<1>6. /\ buffer' \in Seq(Pieces) /\ Len(buffer') <= Size
      /\ \A i \in DOMAIN buffer' : buffer'[i] = "ready" =>
           \/ \E j \in DOMAIN buffer : buffer[j] = "ready"
           \/ \E j \in DOMAIN input : j <= n /\ input[j] = "ready"
  <2>1. CASE buffer' = <<>>
    <3>1. Size \in Nat /\ DOMAIN <<>> = {} /\ Len(<<>>) = 0 /\ <<>> \in Seq(Pieces)
      BY EmptySeq, CenfisAssumption DEF Size
    <3>. QED
      BY <2>1, <3>1
  <2>2. CASE buffer' = RoomMade \o Struck(new)
    BY <1>1, <2>2, BufferFits DEF Phrases
  <2>. QED
    BY <1>2, <2>1, <2>2 DEF FlushAfter
<1>7. status' \in {"IDLE", "DIALOG_CONFIRM", "DIALOG_SELECT", "DATA"}
  BY <1>1, <1>2 DEF StatusOf
<1>8. pc' \in {"wait", "send"}
  BY <1>1
<1>9. TypeOK'
  BY <1>1, <1>6, <1>7, <1>8 DEF IInv, TypeOK
<1>10. ASSUME (\E j \in DOMAIN buffer : buffer[j] = "ready") \/ (\E j \in DOMAIN input : j <= n /\ input[j] = "ready")
       PROVE  Announced /\ \A i \in DOMAIN input' : input'[i] # "star"
  <2>1. \A j, i \in DOMAIN input : j <= n /\ n < i => j < i
    BY <1>3, <1>5
  <2>. QED
    BY <1>1, <1>5, <1>10, <2>1 DEF NoStarAfterReady
<1>11. Announced' <=> Announced
  BY <1>1 DEF Announced
<1>12. NoStarAfterReady'
  <2>1. \A i, j \in DOMAIN input' : input'[i] = "ready" /\ i < j => input'[j] # "star"
    BY <1>1, <1>5 DEF NoStarAfterReady
  <2>2. (\E i \in DOMAIN input' : input'[i] = "ready") => Announced
    BY <1>1, <1>5 DEF NoStarAfterReady
  <2>3. ASSUME NEW i \in DOMAIN buffer', buffer'[i] = "ready"
        PROVE  Announced /\ \A j \in DOMAIN input' : input'[j] # "star"
    BY <1>6, <1>10, <2>3
  <2>. QED
    BY <1>11, <2>1, <2>2, <2>3 DEF NoStarAfterReady
<1>13. ASSUME status' = "DATA" PROVE Announced' /\ OneStar'
  <2>1. q # {} /\ status' = StatusOf(q)
    BY <1>1, <1>2, <1>13
  <2>2. \A p \in q : p \in Phrases /\ ((\E i \in DOMAIN RoomMade : RoomMade[i] = p) \/ (\E i \in DOMAIN new : new[i] = p))
    BY <1>3, Found
  <2>3. "ready" \in q
    BY <1>13, <2>1, <2>2 DEF StatusOf, Phrases
  <2>4. \A i \in DOMAIN RoomMade : \E j \in DOMAIN buffer : RoomMade[i] = buffer[j]
    BY <1>1, Room DEF Queues
  <2>5. (\E j \in DOMAIN buffer : buffer[j] = "ready") \/ (\E j \in DOMAIN input : j <= n /\ input[j] = "ready")
    BY <1>3, <2>2, <2>3, <2>4
  <2>. QED
    BY <1>10, <1>11, <2>5 DEF OneStar
<1>14. Received' /\ Written' /\ Queues'
  BY <1>1, <1>5, <1>6 DEF IInv, Received, Written, Queues
<1>15. Progress' /\ Stars'
  BY <1>1, <1>8, <1>12, <1>13 DEF IInv, Progress, Stars
<1>. QED
  BY <1>9, <1>14, <1>15 DEF IInv

\* No line is on its way while the tool asks or may write.
LEMMA NoLine ==
    ASSUME IInv, pc \in {"wait", "send"}
    PROVE  /\ sent = acked /\ acked \in Nat /\ sent \in 0..Lines /\ Lines \in Nat
           /\ Len(received) = acked
           /\ \A i \in DOMAIN output : output[i].kind # "line"
<1>1. sent = acked /\ acked \in Nat /\ sent \in 0..Lines /\ Lines \in Nat
  BY CenfisAssumption DEF IInv, TypeOK, Progress
<1>2. Len(received) \in Nat /\ acked <= Len(received) /\ Len(received) <= sent
  BY LenProperties DEF IInv, Received
<1>3. Len(received) = acked
  BY <1>1, <1>2
<1>. QED
  BY <1>1, <1>3 DEF IInv, Written

LEMMA AnswerStep ==
    ASSUME IInv, NEW s \in {"DIALOG_CONFIRM", "DIALOG_SELECT"}, NEW key \in {"Y", "P"}, Answer(s, key)
    PROVE  IInv'
<1>1. /\ pc = "wait" /\ output' = Append(output, Key(key)) /\ status = s /\ status' = "IDLE"
      /\ output \in Seq(Messages)
      /\ UNCHANGED <<input, asked, waiting, received, confused, trouble, isopen, buffer, sent, acked, pc>>
  BY DEF Answer, device, tool, IInv, Queues
<1>2. TypeOK'
  BY <1>1 DEF IInv, TypeOK
<1>3. Key(key) \in Messages /\ Key(key).kind # "line"
  BY Fields
<1>4. /\ output' \in Seq(Messages)
      /\ \A i \in DOMAIN output' : output'[i].kind # "line"
  <2>1. /\ output' \in Seq(Messages)
        /\ \A i \in DOMAIN output' : \/ i \in DOMAIN output /\ output'[i] = output[i]
                                     \/ output'[i] = Key(key)
    BY <1>1, <1>3, OneMore
  <2>. QED
    BY <1>1, <1>3, <2>1, NoLine
<1>. QED
  BY <1>1, <1>2, <1>4
  DEF IInv, Queues, Received, Written, Progress, Announced, Stars, NoStarAfterReady, OneStar

LEMMA WriteDataStep == IInv /\ WriteData => IInv'
<1>. SUFFICES ASSUME IInv, WriteData PROVE IInv'
  OBVIOUS
<1>1. /\ pc = "send" /\ output \in Seq(Messages) /\ OneStar /\ Announced
      /\ UNCHANGED <<input, asked, waiting, received, confused, trouble, isopen, buffer, acked>>
  BY DEF WriteData, device, IInv, Queues, Progress, Stars
<1>2. /\ sent = acked /\ acked \in Nat /\ sent \in 0..Lines /\ Lines \in Nat
      /\ Len(received) = acked
      /\ \A i \in DOMAIN output : output[i].kind # "line"
  BY <1>1, NoLine
<1>3. Announced' <=> Announced
  BY <1>1 DEF Announced
<1>4. \A i \in DOMAIN input : input[i] # "star"
  BY <1>1, <1>2 DEF OneStar
<1>5. status \in {"DATA", "IDLE"} /\ isopen = TRUE
  BY DEF WriteData, IInv, TypeOK
<1>6. CASE sent < Lines
  <2>. DEFINE m == Line(sent + 1)
  <2>1. sent' = sent + 1 /\ output' = Append(output, m) /\ status' = "WAIT_ACK" /\ pc' = "ack"
    BY <1>6 DEF WriteData
  <2>2. m \in Messages /\ m.kind = "line" /\ m.line = sent + 1
    BY <1>2, Fields
  <2>. HIDE DEF m
  <2>3. /\ output' \in Seq(Messages)
        /\ \A i \in DOMAIN output' : \/ i \in DOMAIN output /\ output'[i] = output[i]
                                     \/ i = Len(output) + 1 /\ output'[i] = m
    BY <1>1, <2>1, <2>2, OneMore
  <2>4. sent' \in 0..Lines /\ acked' \in 0..sent' /\ acked <= sent'
    BY <1>1, <1>2, <1>6, <2>1
  <2>5. TypeOK'
    BY <1>1, <1>5, <2>1, <2>4 DEF IInv, TypeOK
  <2>6. Written'
    BY <1>1, <1>2, <2>1, <2>2, <2>3 DEF Written
  <2>7. Received'
    <3>1. Len(received) <= sent' /\ sent' <= acked + 1
      BY <1>2, <2>1
    <3>. QED
      BY <1>1, <3>1 DEF IInv, Received
  <2>8. Progress' /\ Stars' /\ Queues'
    BY <1>1, <1>2, <1>3, <1>4, <2>1, <2>3 DEF IInv, Queues, Progress, Stars, OneStar
  <2>. QED
    BY <2>5, <2>6, <2>7, <2>8 DEF IInv
<1>7. CASE ~(sent < Lines)
  <2>1. pc' = "done" /\ UNCHANGED <<sent, output, status>>
    BY <1>7 DEF WriteData
  <2>2. acked = Lines
    BY <1>2, <1>7
  <2>. QED
    BY <1>1, <1>3, <2>1, <2>2
    DEF IInv, TypeOK, Queues, Received, Written, Progress, Stars, OneStar
<1>. QED
  BY <1>6, <1>7

LEMMA SelectAckStep == IInv /\ SelectAck => IInv'
<1>. SUFFICES ASSUME IInv, SelectAck PROVE IInv'
  OBVIOUS
<1>1. /\ pc = "ack" /\ status = "WAIT_ACK" /\ OneStar /\ Announced /\ Queues /\ sent = acked + 1
      /\ IF status' = "DATA" THEN pc' = "send" /\ acked' = acked + 1 ELSE UNCHANGED <<pc, acked>>
      /\ UNCHANGED <<output, asked, waiting, received, confused, trouble, isopen, sent>>
  BY DEF SelectAck, device, IInv, Stars, Progress
<1>2. PICK n \in Readable :
      \/ /\ "star" \in ToSet(SubSeq(input, 1, n))
         /\ status' = "DATA" /\ FlushAfter(n)
      \/ /\ "star" \notin ToSet(SubSeq(input, 1, n))
         /\ input' = SubSeq(input, n + 1, Len(input)) /\ buffer' = RoomMade
         /\ UNCHANGED status
  BY DEF SelectAck, ReadAck
<1>3. /\ n \in 1..Len(input) /\ n \in n..Len(input) /\ Len(input) \in Nat
      /\ RoomMade \in Seq(Pieces) /\ Len(RoomMade) <= Size
      /\ \A i \in DOMAIN SubSeq(input, 1, n) : i \in DOMAIN input /\ SubSeq(input, 1, n)[i] = input[i] /\ i <= n
  BY <1>1, BufferFits
<1>4. PICK k \in n..Len(input) : input' = SubSeq(input, k + 1, Len(input))
  BY <1>2, <1>3 DEF FlushAfter
<1>5. /\ input' \in Seq(Pieces) /\ DOMAIN input = 1..Len(input)
      /\ \A i \in DOMAIN input' : /\ k + i \in DOMAIN input /\ input'[i] = input[k + i] /\ n < k + i
                                  /\ \A j \in DOMAIN input' : (i < j <=> k + i < k + j) /\ (k + i = k + j => i = j)
  <2>. DEFINE t == SubSeq(input, k + 1, Len(input))
  <2>1. /\ t \in Seq(Pieces) /\ DOMAIN input = 1..Len(input)
        /\ \A i \in DOMAIN t : /\ k + i \in DOMAIN input /\ t[i] = input[k + i] /\ n < k + i
                             /\ \A j \in DOMAIN t : (i < j <=> k + i < k + j) /\ (k + i = k + j => i = j)
    BY <1>1, <1>3, Leftover
  <2>2. input' = t
    BY <1>4
  <2>. HIDE DEF t
  <2>. QED
    BY <2>1, <2>2
<1>6. buffer' \in Seq(Pieces) /\ Len(buffer') <= Size
  <2>1. <<>> \in Seq(Pieces) /\ Len(<<>>) <= Size
    <3>1. Size \in Nat /\ Len(<<>>) = 0 /\ <<>> \in Seq(Pieces)
      BY EmptySeq, CenfisAssumption DEF Size
    <3>. QED
      BY <3>1
  <2>2. buffer' = <<>> \/ buffer' = RoomMade
    BY <1>2 DEF FlushAfter
  <2>. QED
    BY <1>3, <2>1, <2>2
<1>7. Announced' <=> Announced
  BY <1>1 DEF Announced
<1>8. sent \in 0..Lines /\ acked \in 0..sent /\ Lines \in Nat
  BY CenfisAssumption DEF IInv, TypeOK
<1>9. CASE status' = "DATA"
  <2>1. pc' = "send" /\ acked' = acked + 1
    BY <1>1, <1>9
  <2>2. PICK j \in DOMAIN input : j <= n /\ input[j] = "star"
    <3>1. "star" \in ToSet(SubSeq(input, 1, n))
      BY <1>1, <1>2, <1>9
    <3>. QED
      BY <1>3, <3>1 DEF ToSet
  <2>3. Len(received) = sent /\ \A i \in DOMAIN input : input[i] = "star" => i = j
    BY <1>1, <2>2 DEF OneStar
  <2>4. \A i \in DOMAIN input' : input'[i] # "star"
    <3>1. \A i \in DOMAIN input : n < i => i # j
      BY <1>3, <1>5, <2>2
    <3>. QED
      BY <1>5, <2>3, <3>1
  <2>5. \A i \in DOMAIN output : output[i].kind # "line"
    BY <1>1, <1>8, <2>3 DEF IInv, Written
  <2>6. acked' = sent /\ acked' \in 0..sent /\ sent <= acked' + 1 /\ acked' <= Len(received)
    BY <1>1, <1>8, <2>1, <2>3
  <2>7. TypeOK'
    BY <1>1, <1>6, <1>9, <2>1, <2>6 DEF IInv, TypeOK
  <2>8. Received' /\ Written'
    BY <1>1, <2>5, <2>6 DEF IInv, Received, Written
  <2>9. Queues' /\ Progress' /\ Stars'
    BY <1>1, <1>5, <1>6, <1>7, <2>1, <2>4, <2>6 DEF Queues, Progress, Stars, OneStar
  <2>. QED
    BY <2>7, <2>8, <2>9 DEF IInv
<1>10. CASE status' # "DATA"
  <2>1. UNCHANGED <<pc, acked, status>>
    BY <1>1, <1>2, <1>10
  <2>2. OneStar'
    BY <1>1, <1>5, <2>1 DEF OneStar
  <2>3. TypeOK'
    BY <1>1, <1>6, <2>1 DEF IInv, TypeOK
  <2>4. Received' /\ Written'
    BY <1>1, <2>1 DEF IInv, Received, Written
  <2>5. Queues' /\ Progress' /\ Stars'
    BY <1>1, <1>5, <1>6, <1>7, <2>1, <2>2 DEF Queues, Progress, Stars
  <2>. QED
    BY <2>3, <2>4, <2>5 DEF IInv
<1>. QED
  BY <1>9, <1>10

\* command_upload gives up; the device may still take what was written.
LEMMA ExitStep ==
    ASSUME IInv, pc' = "exit", trouble' \in BOOLEAN,
           status' \in {status, "INVALID"}, isopen' = (status' # "INVALID"),
           UNCHANGED <<input, output, asked, waiting, received, confused, buffer, sent, acked>>
    PROVE  IInv'
<1>1. TypeOK'
  BY DEF IInv, TypeOK
<1>. QED
  BY <1>1 DEF IInv, Queues, Received, Written, Progress, Stars

LEMMA IInvStep == IInv /\ [Next]_vars => IInv'
<1>. SUFFICES ASSUME IInv, [Next]_vars PROVE IInv'
  OBVIOUS
<1>1. CASE Confirm
  BY <1>1, AnswerStep DEF Confirm
<1>2. CASE Respond
  BY <1>2, AnswerStep DEF Respond
<1>3. CASE NoAck
  <2>1. trouble' \in BOOLEAN
    BY <1>3 DEF NoAck, IInv, TypeOK
  <2>2. /\ pc' = "exit"
        /\ UNCHANGED <<input, output, asked, waiting, received, confused, status, isopen, buffer, sent, acked>>
    BY <1>3 DEF NoAck, device
  <2>3. isopen' = (status' # "INVALID")
    BY <2>2 DEF IInv, TypeOK
  <2>. QED
    BY <2>1, <2>2, <2>3, ExitStep
<1>4. CASE IoError
  <2>1. /\ pc' = "exit" /\ trouble' = TRUE /\ status' = "INVALID" /\ isopen' = FALSE
        /\ UNCHANGED <<input, output, asked, waiting, received, confused, buffer, sent, acked>>
    BY <1>4 DEF IoError, Invalidate, device
  <2>2. trouble' \in BOOLEAN /\ status' \in {status, "INVALID"} /\ isopen' = (status' # "INVALID")
    BY <2>1
  <2>. QED
    BY <2>1, <2>2, ExitStep
<1>5. CASE UNCHANGED vars
  <2>1. UNCHANGED <<input, output, asked, waiting, received, confused, trouble, status, isopen, buffer,
                    sent, acked, pc>>
    BY <1>5 DEF vars, device, tool
  <2>2. TypeOK'
    BY <2>1 DEF IInv, TypeOK
  <2>3. Queues' /\ Received' /\ Written'
    BY <2>1 DEF IInv, Queues, Received, Written
  <2>4. Progress' /\ Stars'
    BY <2>1 DEF IInv, Progress, Announced, Stars, NoStarAfterReady, OneStar
  <2>. QED
    BY <2>2, <2>3, <2>4 DEF IInv
<1>. QED
  BY <1>1, <1>2, <1>3, <1>4, <1>5, AskStep, HearStep, SelectQuestionStep, WriteDataStep, SelectAckStep
  DEF Next, Tool

LEMMA InitIInv == Init => IInv
<1>. SUFFICES ASSUME Init PROVE IInv
  OBVIOUS
<1>1. /\ Len(Script) \in Nat /\ Lines \in Nat /\ Size \in Nat
      /\ Len(<<>>) = 0 /\ DOMAIN <<>> = {} /\ <<>> \in Seq(Pieces) /\ <<>> \in Seq(Messages) /\ <<>> \in Seq(Nat)
  BY EmptySeq, LenProperties, CenfisAssumption, ScriptAssumption DEF Size
<1>2. TypeOK
  <2>1. 0 \in 0..Len(Script) /\ 0 \in 0..Lines /\ 0 \in 0..0 /\ Len(<<>>) <= Size
    BY <1>1
  <2>. QED
    BY <2>1 DEF Init, TypeOK
<1>. QED
  BY <1>1, <1>2 DEF Init, IInv, Queues, Received, Written, Progress, Stars, NoStarAfterReady

-----------------------------------------------------------------------------
(* Questions and answers.                                                  *)

\* The phrase x is that of the last dialog the device has begun, and that
\* dialog waits for its answer, or for the lines of the file.
Meant(x, a, w) ==
    \/ x = "ready" /\ a = Len(Script) /\ ~w
    \/ x = "confirm" /\ w /\ Script[a].expect = "Y"
    \/ x = "program" /\ w /\ Script[a].expect = "P"

NoPhrase(s) == \A i \in DOMAIN s : s[i] \notin Phrases

\* At most one phrase is on its way to the tool or waits in its buffer.
Said(in, buf, a, w) ==
    /\ \A i \in DOMAIN in : in[i] \in Phrases =>
         /\ Meant(in[i], a, w) /\ NoPhrase(buf)
         /\ \A j \in DOMAIN in : in[j] \in Phrases => j = i
    /\ \A i \in DOMAIN buf : buf[i] \in Phrases => Meant(buf[i], a, w) /\ NoPhrase(in)

\* A question is on its way, or the tool has seen it, or its answer is on its
\* way: never two of them, and never for two questions.
Turn(in, buf, out, a, w, st) ==
    \/ st = "IDLE" /\ out = <<>> /\ Said(in, buf, a, w)
    \/ st = "DIALOG_CONFIRM" /\ out = <<>> /\ Meant("confirm", a, w) /\ NoPhrase(in) /\ NoPhrase(buf)
    \/ st = "DIALOG_SELECT" /\ out = <<>> /\ Meant("program", a, w) /\ NoPhrase(in) /\ NoPhrase(buf)
    \/ st = "IDLE" /\ w /\ out = <<Key(Script[a].expect)>> /\ NoPhrase(in) /\ NoPhrase(buf)

\* The dialogs are over, and only lines are on their way.
Upload(out, a, w) == a = Len(Script) /\ ~w /\ \A i \in DOMAIN out : out[i].kind = "line"

\* What the device has not read is what it waits for.
Expected(out, a, w) == out = <<>> \/ (w /\ out = <<Key(Script[a].expect)>>) \/ Upload(out, a, w)

Meet == /\ ~confused
        /\ (pc = "wait" => Turn(input, buffer, output, asked, waiting, status))
        /\ (pc \in {"send", "ack", "done"} => Upload(output, asked, waiting))
        /\ (pc = "exit" => Expected(output, asked, waiting))

\* Wherever the tool is, what it has written is what the device waits for.
LEMMA MeetExpected == ASSUME TypeOK, Meet PROVE Expected(output, asked, waiting)
<1>1. CASE pc = "wait"
  BY <1>1 DEF Meet, Turn, Expected
<1>2. CASE pc \in {"send", "ack", "done"}
  BY <1>2 DEF Meet, Expected
<1>. QED
  BY <1>1, <1>2 DEF Meet, TypeOK

\* The phrase of the next question, and there is only one.
LEMMA NextPhrase ==
    ASSUME NEW a \in Nat, a < Len(Script),
           NEW k \in DOMAIN Script[a + 1].say, Script[a + 1].say[k] \in Phrases
    PROVE  /\ Meant(Script[a + 1].say[k], a + 1, Script[a + 1].expect # "nothing")
           /\ \A l \in DOMAIN Script[a + 1].say : Script[a + 1].say[l] \in Phrases => l = k
<1>1. a + 1 \in DOMAIN Script
  <2>1. Len(Script) \in Nat /\ DOMAIN Script = 1..Len(Script)
    BY ScriptAssumption, LenProperties
  <2>. QED
    BY <2>1
<1>. DEFINE d == a + 1
<1>. HIDE DEF d
<1>2. /\ \/ Script[d].say[k] = "confirm" /\ Script[d].expect = "Y"
         \/ Script[d].say[k] = "program" /\ Script[d].expect = "P"
         \/ Script[d].say[k] = "ready" /\ Script[d].expect = "nothing" /\ d = Len(Script)
      /\ \A l \in DOMAIN Script[d].say : Script[d].say[l] \in Phrases => l = k
  BY <1>1, QuestionsAssumption DEF d
<1>3. Meant(Script[d].say[k], d, Script[d].expect # "nothing")
  BY <1>2 DEF Meant
<1>. QED
  BY <1>2, <1>3 DEF d

\* A new dialog begins when nothing is left of the one before.
LEMMA AskMeets == IInv /\ Meet /\ Ask => Meet'
<1>. SUFFICES ASSUME IInv, Meet, Ask PROVE Meet'
  OBVIOUS
<1>. DEFINE more == Script[asked + 1].say  w == Script[asked + 1].expect # "nothing"
<1>1. /\ ~waiting /\ asked \in Nat /\ asked < Len(Script) /\ asked' = asked + 1
      /\ waiting' = w /\ input' = input \o more
      /\ input \in Seq(Pieces) /\ buffer \in Seq(Pieces) /\ TypeOK /\ ~confused
      /\ UNCHANGED <<output, confused, status, buffer, pc>>
  BY DEF IInv, TypeOK, Queues, Ask, tool, Meet
<1>2. Len(Script) \in Nat /\ asked # Len(Script)
  BY <1>1, ScriptAssumption, LenProperties
<1>3. /\ \A x : ~Meant(x, asked, waiting) /\ ~Upload(output, asked, waiting)
  BY <1>1, <1>2 DEF Meant, Upload
<1>4. output = <<>>
  BY <1>1, <1>3, MeetExpected DEF Expected
<1>5. pc \in {"wait", "exit"}
  BY <1>1, <1>3 DEF Meet, TypeOK
<1>6. ASSUME pc = "wait" PROVE Turn(input', buffer', output', asked', waiting', status')
  <2>1. status = "IDLE" /\ Said(input, buffer, asked, waiting)
    BY <1>1, <1>3, <1>6 DEF Meet, Turn
  <2>2. NoPhrase(input) /\ NoPhrase(buffer)
    BY <1>3, <2>1 DEF Said, NoPhrase
  <2>3. more \in Seq(Pieces)
    BY <1>1, NextDialog DEF IInv, TypeOK
  <2>4. \A k \in DOMAIN more : more[k] \in Phrases =>
          Meant(more[k], asked', w) /\ \A l \in DOMAIN more : more[l] \in Phrases => l = k
    BY <1>1, NextPhrase
  <2>. HIDE DEF more, w
  <2>5. /\ \A i \in DOMAIN input' : input'[i] \in Phrases =>
             i - Len(input) \in DOMAIN more /\ input'[i] = more[i - Len(input)]
        /\ Len(input) \in Nat /\ input' \in Seq(Pieces)
    <3>1. /\ \A i \in DOMAIN input' : \/ i \in DOMAIN input /\ input'[i] = input[i]
                                      \/ i - Len(input) \in DOMAIN more /\ input'[i] = more[i - Len(input)]
          /\ Len(input) \in Nat /\ input' \in Seq(Pieces)
      BY <1>1, <2>3, Both
    <3>. QED
      BY <2>2, <3>1 DEF NoPhrase
  <2>6. \A i, j \in DOMAIN input' : i - Len(input) = j - Len(input) => i = j
    BY <2>5, LenProperties
  <2>7. Said(input', buffer', asked', waiting')
    <3>1. NoPhrase(buffer')
      BY <1>1, <2>2
    <3>2. ASSUME NEW i \in DOMAIN input', input'[i] \in Phrases
          PROVE  Meant(input'[i], asked', waiting') /\ \A j \in DOMAIN input' : input'[j] \in Phrases => j = i
      BY ONLY <1>1, <2>4, <2>5, <2>6, <3>2
    <3>. QED
      BY <3>1, <3>2 DEF Said, NoPhrase
  <2>. QED
    BY <1>1, <1>4, <2>1, <2>7 DEF Turn
<1>7. Expected(output', asked', waiting')
  BY <1>1, <1>4 DEF Expected
<1>. QED
  BY <1>1, <1>5, <1>6, <1>7 DEF Meet

\* The device hears what it waits for.
LEMMA HearMeets == IInv /\ Meet /\ Hear => Meet'
<1>. SUFFICES ASSUME IInv, Meet, Hear PROVE Meet'
  OBVIOUS
<1>1. /\ output # <<>> /\ output' = Tail(output) /\ output \in Seq(Messages) /\ TypeOK /\ ~confused
      /\ UNCHANGED <<asked, status, buffer, pc>>
  BY DEF IInv, Queues, Hear, tool, Meet
<1>2. /\ 1 \in DOMAIN output /\ Head(output) = output[1] /\ Head(output) \in Messages
      /\ \A i \in DOMAIN Tail(output) : i + 1 \in DOMAIN output /\ Tail(output)[i] = output[i + 1]
  BY <1>1, Others
<1>3. CASE waiting /\ output = <<Key(Script[asked].expect)>>
  <2>1. Head(output) = Key(Script[asked].expect) /\ Tail(output) = <<>>
    BY <1>3, HeadTailProperties
  <2>2. waiting' = FALSE /\ UNCHANGED <<input, confused>> /\ output' = <<>>
    BY <1>1, <1>3, <2>1 DEF Hear
  <2>3. ~Upload(output, asked, waiting)
    BY <1>3 DEF Upload
  <2>4. pc \in {"wait", "exit"}
    BY <1>1, <2>3 DEF Meet, TypeOK
  <2>5. ASSUME pc = "wait" PROVE Turn(input', buffer', output', asked', waiting', status')
    <3>1. status = "IDLE" /\ NoPhrase(input) /\ NoPhrase(buffer)
      BY <1>1, <2>5 DEF Meet, Turn
    <3>2. Said(input, buffer, asked, FALSE)
      BY <3>1 DEF Said, NoPhrase
    <3>. QED
      BY <1>1, <2>2, <3>1, <3>2 DEF Turn
  <2>. QED
    BY <1>1, <2>2, <2>4, <2>5 DEF Meet, Expected
<1>4. CASE Upload(output, asked, waiting)
  <2>1. asked = Len(Script) /\ ~waiting /\ Head(output).kind = "line"
    BY <1>2, <1>4 DEF Upload
  <2>2. UNCHANGED <<waiting, confused>>
    BY <2>1 DEF Hear
  <2>3. Upload(output', asked', waiting')
    BY <1>1, <1>2, <1>4, <2>2 DEF Upload
  <2>4. pc # "wait"
    <3>1. SUFFICES ASSUME pc = "wait" PROVE FALSE
      OBVIOUS
    <3>2. output = <<Key(Script[asked].expect)>> /\ waiting
      BY <1>1, <3>1 DEF Meet, Turn
    <3>. QED
      BY <2>1, <3>2
  <2>. QED
    BY <1>1, <2>2, <2>3, <2>4 DEF Meet, Expected
<1>. QED
  BY <1>1, <1>3, <1>4, MeetExpected DEF Expected

\* What the tool takes from the text is that one phrase, or it keeps it.
LEMMA SelectQuestionMeets == IInv /\ Meet /\ SelectQuestion => Meet'
<1>. SUFFICES ASSUME IInv, Meet, SelectQuestion PROVE Meet'
  OBVIOUS
<1>1. /\ pc = "wait" /\ status = "IDLE" /\ Queues /\ input \in Seq(Pieces) /\ ~confused
      /\ pc' = IF status' = "DATA" THEN "send" ELSE "wait"
      /\ Turn(input, buffer, output, asked, waiting, status)
      /\ UNCHANGED <<output, asked, waiting, confused>>
  BY DEF SelectQuestion, device, IInv, Meet, Queues
<1>2. PICK n \in Readable :
        LET new == SubSeq(input, 1, n)
            q   == Question(RoomMade, new)
        IN \/ /\ q # {} /\ status' = StatusOf(q) /\ FlushAfter(n)
           \/ /\ q = {} /\ buffer' = RoomMade \o Struck(new)
              /\ input' = SubSeq(input, n + 1, Len(input)) /\ UNCHANGED status
  BY DEF SelectQuestion, ReadQuestion
<1>. DEFINE new == SubSeq(input, 1, n)  q == Question(RoomMade, new)
<1>3. /\ n \in 1..Len(input) /\ n \in n..Len(input) /\ Len(input) \in Nat
      /\ new \in Seq(Pieces) /\ RoomMade \in Seq(Pieces)
      /\ \A i \in DOMAIN new : i \in DOMAIN input /\ new[i] = input[i] /\ i <= n
  BY <1>1, BufferFits
<1>4. PICK k \in n..Len(input) : input' = SubSeq(input, k + 1, Len(input))
  BY <1>2, <1>3 DEF FlushAfter
<1>5. /\ DOMAIN input = 1..Len(input)
      /\ \A i \in DOMAIN input' : /\ k + i \in DOMAIN input /\ input'[i] = input[k + i] /\ n < k + i
                                  /\ \A j \in DOMAIN input' : k + i = k + j => i = j
  <2>. DEFINE t == SubSeq(input, k + 1, Len(input))
  <2>1. /\ DOMAIN input = 1..Len(input)
        /\ \A i \in DOMAIN t : /\ k + i \in DOMAIN input /\ t[i] = input[k + i] /\ n < k + i
                             /\ \A j \in DOMAIN t : (k + i = k + j => i = j)
    BY <1>1, <1>3, Leftover
  <2>2. input' = t
    BY <1>4
  <2>. HIDE DEF t
  <2>. QED
    BY <2>1, <2>2
<1>6. \A i, j \in DOMAIN input : j <= n /\ n < i => i # j
  BY <1>3, <1>5
<1>7. NoPhrase(input) => NoPhrase(input')
  BY <1>5 DEF NoPhrase
<1>8. ASSUME NEW j \in DOMAIN input, j <= n, input[j] \in Phrases,
             Said(input, buffer, asked, waiting)
      PROVE  NoPhrase(input') /\ NoPhrase(buffer) /\ Meant(input[j], asked, waiting)
  BY <1>5, <1>6, <1>8 DEF Said, NoPhrase
<1>9. \A i \in DOMAIN RoomMade : \E j \in DOMAIN buffer : RoomMade[i] = buffer[j]
  BY <1>1, Room DEF Queues
<1>10. \A p \in q : p \in Phrases /\ (\/ \E j \in DOMAIN buffer : buffer[j] = p
                                     \/ \E j \in DOMAIN input : j <= n /\ input[j] = p)
  <2>1. \A p \in q : p \in Phrases /\ ((\E i \in DOMAIN RoomMade : RoomMade[i] = p) \/ (\E i \in DOMAIN new : new[i] = p))
    BY <1>3, Found
  <2>. QED
    BY <1>3, <1>9, <2>1
<1>11. CASE output = <<>> /\ Said(input, buffer, asked, waiting)
  <2>1. CASE q # {} /\ status' = StatusOf(q) /\ buffer' = <<>>
    <3>1. \A p \in q : Meant(p, asked, waiting) /\ NoPhrase(input')
      BY <1>7, <1>8, <1>10, <1>11 DEF Said
    <3>2. NoPhrase(input') /\ NoPhrase(buffer')
      <4>1. DOMAIN <<>> = {}
        BY EmptySeq
      <4>. QED
        BY <2>1, <3>1, <4>1 DEF NoPhrase
    <3>3. CASE "confirm" \in q
      BY <1>1, <1>11, <2>1, <3>1, <3>2, <3>3 DEF StatusOf, Turn, Meet
    <3>4. CASE "confirm" \notin q /\ "program" \in q
      BY <1>1, <1>11, <2>1, <3>1, <3>2, <3>4 DEF StatusOf, Turn, Meet
    <3>5. CASE "confirm" \notin q /\ "program" \notin q
      <4>1. "ready" \in q
        BY <1>10, <2>1, <3>5 DEF Phrases
      <4>2. asked = Len(Script) /\ ~waiting
        BY <3>1, <4>1 DEF Meant
      <4>3. DOMAIN <<>> = {}
        BY EmptySeq
      <4>4. Upload(output', asked', waiting')
        BY <1>1, <1>11, <4>2, <4>3 DEF Upload
      <4>5. pc' = "send"
        BY <1>1, <2>1, <3>5 DEF StatusOf
      <4>. QED
        BY <1>1, <4>4, <4>5 DEF Meet
    <3>. QED
      BY <3>3, <3>4, <3>5
  <2>2. CASE buffer' = RoomMade \o Struck(new) /\ status' = status
    <3>1. \A i \in DOMAIN buffer' : buffer'[i] \in Phrases =>
            \/ \E j \in DOMAIN buffer : buffer[j] = buffer'[i]
            \/ \E j \in DOMAIN input : j <= n /\ input[j] = buffer'[i]
      BY <1>1, <2>2, BufferFits
    <3>2. \A i \in DOMAIN buffer' : buffer'[i] \in Phrases => Meant(buffer'[i], asked, waiting) /\ NoPhrase(input')
      BY <1>7, <1>8, <1>11, <3>1 DEF Said
    <3>3. \A i \in DOMAIN input' : input'[i] \in Phrases =>
            Meant(input'[i], asked, waiting) /\ \A j \in DOMAIN input' : input'[j] \in Phrases => j = i
      BY <1>5, <1>11 DEF Said
    <3>4. \A i \in DOMAIN input' : input'[i] \in Phrases => NoPhrase(buffer')
      BY <3>2 DEF NoPhrase
    <3>5. Said(input', buffer', asked', waiting')
      BY <1>1, <3>2, <3>3, <3>4 DEF Said
    <3>6. pc' = "wait"
      BY <1>1, <2>2
    <3>. QED
      BY <1>1, <1>11, <2>2, <3>5, <3>6 DEF Turn, Meet
  <2>. QED
    BY <1>2, <2>1, <2>2 DEF FlushAfter
<1>12. CASE waiting /\ output = <<Key(Script[asked].expect)>> /\ NoPhrase(input) /\ NoPhrase(buffer)
  <2>1. q = {}
    BY <1>10, <1>12 DEF NoPhrase
  <2>2. buffer' = RoomMade \o Struck(new) /\ status' = status
    BY <1>2, <2>1
  <2>3. \A i \in DOMAIN buffer' : buffer'[i] \in Phrases =>
          \/ \E j \in DOMAIN buffer : buffer[j] = buffer'[i]
          \/ \E j \in DOMAIN input : j <= n /\ input[j] = buffer'[i]
    BY <1>1, <2>2, BufferFits
  <2>4. NoPhrase(buffer') /\ NoPhrase(input')
    BY <1>7, <1>12, <2>3 DEF NoPhrase
  <2>5. pc' = "wait"
    BY <1>1, <2>2
  <2>. QED
    BY <1>1, <1>12, <2>2, <2>4, <2>5 DEF Turn, Meet
<1>. QED
  BY <1>1, <1>11, <1>12 DEF Turn

\* An answer is given once, to the question that was asked.
LEMMA AnswerMeets ==
    ASSUME Meet, NEW s, NEW key, Answer(s, key),
           <<s, key>> \in {<<"DIALOG_CONFIRM", "Y">>, <<"DIALOG_SELECT", "P">>}
    PROVE  Meet'
<1>1. /\ pc = "wait" /\ output' = Append(output, Key(key)) /\ status = s /\ status' = "IDLE" /\ ~confused
      /\ Turn(input, buffer, output, asked, waiting, status)
      /\ UNCHANGED <<input, asked, waiting, confused, buffer, pc>>
  BY DEF Answer, device, tool, Meet
<1>2. /\ output = <<>> /\ NoPhrase(input) /\ NoPhrase(buffer)
      /\ waiting /\ Script[asked].expect = key
  BY <1>1 DEF Turn, Meant
<1>3. output' = <<Key(key)>>
  BY <1>1, <1>2
<1>. QED
  BY <1>1, <1>2, <1>3 DEF Meet, Turn

LEMMA WriteDataMeets == IInv /\ Meet /\ WriteData => Meet'
<1>. SUFFICES ASSUME IInv, Meet, WriteData PROVE Meet'
  OBVIOUS
<1>1. /\ pc = "send" /\ output \in Seq(Messages) /\ ~confused /\ Upload(output, asked, waiting)
      /\ UNCHANGED <<asked, waiting, confused>> /\ pc' \in {"ack", "done"}
  BY DEF WriteData, device, IInv, Queues, Meet
<1>2. \A i \in DOMAIN output' : output'[i].kind = "line"
  <2>1. CASE output' = Append(output, Line(sent + 1))
    <3>1. Line(sent + 1) \in Messages /\ Line(sent + 1).kind = "line"
      <4>1. sent + 1 \in Nat \ {0}
        BY CenfisAssumption DEF IInv, TypeOK
      <4>. QED
        BY <4>1, Fields
    <3>2. \A i \in DOMAIN output' : (i \in DOMAIN output /\ output'[i] = output[i]) \/ output'[i] = Line(sent + 1)
      BY <1>1, <2>1, <3>1, OneMore
    <3>. QED
      BY <1>1, <3>1, <3>2 DEF Upload
  <2>2. CASE output' = output
    BY <1>1, <2>2 DEF Upload
  <2>. QED
    BY <2>1, <2>2 DEF WriteData
<1>3. Upload(output', asked', waiting')
  BY <1>1, <1>2 DEF Upload
<1>. QED
  BY <1>1, <1>3 DEF Meet

LEMMA MeetStep == IInv /\ Meet /\ [Next]_vars => Meet'
<1>. SUFFICES ASSUME IInv, Meet, [Next]_vars PROVE Meet'
  OBVIOUS
<1>1. CASE Confirm
  BY <1>1, AnswerMeets DEF Confirm
<1>2. CASE Respond
  BY <1>2, AnswerMeets DEF Respond
<1>3. CASE SelectAck
  <2>1. /\ pc = "ack" /\ pc' \in {"ack", "send"} /\ UNCHANGED <<output, asked, waiting, confused>>
    BY <1>3 DEF SelectAck, device
  <2>. QED
    BY <2>1 DEF Meet
<1>4. CASE NoAck \/ IoError
  <2>1. pc' = "exit" /\ UNCHANGED <<output, asked, waiting, confused>>
    BY <1>4 DEF NoAck, IoError, Invalidate, device
  <2>2. Expected(output, asked, waiting)
    BY MeetExpected DEF IInv
  <2>. QED
    BY <2>1, <2>2 DEF Meet
<1>5. CASE UNCHANGED vars
  BY <1>5 DEF vars, device, tool, Meet
<1>. QED
  BY <1>1, <1>2, <1>3, <1>4, <1>5, AskMeets, HearMeets, SelectQuestionMeets, WriteDataMeets DEF Next, Tool

LEMMA InitMeets == Init => Meet
<1>. SUFFICES ASSUME Init PROVE Meet
  OBVIOUS
<1>1. DOMAIN <<>> = {}
  BY EmptySeq
<1>2. Said(<<>>, <<>>, asked, waiting)
  BY <1>1 DEF Said
<1>. QED
  BY <1>2 DEF Init, Meet, Turn

-----------------------------------------------------------------------------
(* The theorems.                                                           *)

\* Where the lines and the stars may be, in every state: see IInv.
THEOREM StarsAreAcknowledgements == Spec => []IInv
BY InitIInv, IInvStep, PTL DEF Spec

\* The variables of the tool and the device have their types; the buffer never
\* holds more than its size, and the port is open unless a call failed.
THEOREM TypeCorrect == Spec => []TypeOK
<1>1. IInv => TypeOK
  BY DEF IInv
<1>. QED
  BY <1>1, StarsAreAcknowledgements, PTL

\* However read() cuts the text and whatever else the device says, it is never
\* sent a key or a line that it is not waiting for.
THEOREM AnswersAlwaysMeet == Spec => []AnswersMeetQuestions
<1>1. Meet => AnswersMeetQuestions
  BY DEF Meet, AnswersMeetQuestions
<1>. QED
  BY <1>1, InitMeets, MeetStep, StarsAreAcknowledgements, PTL DEF Spec

\* However read() cuts the text, the device has every acknowledged line, once
\* and in order, and the tool is at most one line ahead of it.
THEOREM LinesArrive == Spec => []LinesArriveInOrder
<1>1. IInv => LinesArriveInOrder
  <2>. SUFFICES ASSUME IInv PROVE LinesArriveInOrder
    OBVIOUS
  <2>1. /\ received \in Seq(Nat) /\ Len(received) \in Nat /\ DOMAIN received = 1..Len(received)
        /\ \A i \in DOMAIN received : received[i] = i
    BY LenProperties DEF IInv, Received
  <2>2. received = [i \in 1..Len(received) |-> i]
    <3>1. received = [i \in 1..Len(received) |-> received[i]]
      BY <2>1, LenProperties
    <3>. QED
      BY <2>1, <3>1
  <2>3. pc = "done" => Len(received) = Lines
    <3>1. acked \in Nat /\ acked <= Len(received) /\ Len(received) <= sent
      BY CenfisAssumption DEF IInv, TypeOK, Received
    <3>2. pc = "done" => sent = acked /\ acked = Lines
      BY DEF IInv, Progress
    <3>. QED
      BY <2>1, <3>1, <3>2
  <2>. QED
    BY <2>2, <2>3 DEF IInv, Received, LinesArriveInOrder
<1>. QED
  BY <1>1, StarsAreAcknowledgements, PTL
-----------------------------------------------------------------------------
(* The hexfiles the Cenfis is fed with (Hexfile).  The map of hexfile-tool *)
(* covers the image: a data record adds a range that reaches nearly as far *)
(* as its bytes, and no record takes away what was listed.                 *)
Ranges == Nat \X Nat

\* Where the decoder stands in a record, and what the map is made of.
MapInv ==
    /\ base \in Nat /\ start \in Nat /\ end \in Nat /\ start <= end /\ nibble \in Nat
    /\ record \in Seq(Nat) /\ (record # <<>> => length = 5 + record[1])
    /\ DOMAIN image \subseteq Nat /\ printed \in Seq(Ranges)
    /\ MapCoversImage

\* What a number leaves when it is divided.
LEMMA Divided ==
    ASSUME NEW n \in Nat, NEW m \in Nat \ {0}
    PROVE  /\ n \div m \in Nat /\ n % m \in Nat /\ n % m <= m - 1
           /\ (n \div m) * m \in Nat /\ n = ((n \div m) * m) + (n % m)
<1>1. /\ n \div m \in Nat /\ n % m \in Nat /\ n % m <= m - 1
      /\ n = (m * (n \div m)) + (n % m)
  OBVIOUS
<1>. DEFINE k == n \div m
<1>2. k \in Nat
  BY <1>1
<1>. HIDE DEF k
<1>3. m * k = k * m /\ k * m \in Nat
  BY <1>2
<1>. QED
  BY <1>1, <1>3 DEF k

\* Where map_callback rounds to.
LEMMA Rounded ==
    ASSUME NEW at \in Nat, NEW len \in Nat, NEW from, NEW to,
           from = (at \div D) * D, to = (((from + len) \div D) * D) + D - 1
    PROVE  /\ from \in Nat /\ to \in Nat /\ from <= at
           /\ from <= to /\ (len >= 1 => from < to)
           /\ at + len - 1 <= to + D - 2
           /\ ~((at % D) + ((from + len) % D) > D) => at + len - 1 <= to
<1>1. D \in Nat \ {0} /\ D >= 3
  BY HexAssumption
<1>. DEFINE r == at % D  e == from + len  x == e % D  y == (e \div D) * D
<1>2. r \in Nat /\ r <= D - 1 /\ from \in Nat /\ at = from + r
  BY <1>1, Divided
<1>3. e \in Nat
  BY <1>2
<1>4. x \in Nat /\ x <= D - 1 /\ y \in Nat /\ from + len = y + x
  <2>. HIDE DEF e
  <2>1. x \in Nat /\ x <= D - 1 /\ y \in Nat /\ e = y + x
    BY <1>1, <1>3, Divided
  <2>. QED
    BY <2>1 DEF e
<1>5. to = y + D - 1
  OBVIOUS
<1>6. at \in Nat /\ len \in Nat
  OBVIOUS
<1>. HIDE DEF r, x, y
<1>7. from <= y + x /\ from + len <= y + D - 1 /\ from <= at /\ at + len = y + x + r
  BY ONLY <1>1, <1>2, <1>4, <1>6
<1>8. /\ from \in Nat /\ to \in Nat /\ from <= at /\ at + len - 1 <= to + D - 2
      /\ (~(r + x > D) => at + len - 1 <= to)
  BY ONLY <1>1, <1>2, <1>4, <1>5, <1>6, <1>7
<1>9. from <= to /\ (len >= 1 => from < to)
  BY ONLY <1>1, <1>2, <1>4, <1>5, <1>6, <1>7
<1>. QED
  BY <1>8, <1>9 DEF r, x, e

\* map_print, and what was listed before.
LEMMA RangePrinted ==
    ASSUME MapInv, map_print
    PROVE  /\ printed' \in Seq(Ranges)
           /\ \A p \in Int :
                Listed(p) => \E i \in DOMAIN printed' : printed'[i][1] <= p /\ p <= printed'[i][2]
<1>1. start \in Nat /\ end \in Nat /\ printed \in Seq(Ranges)
  BY DEF MapInv
<1>2. CASE end > start
  <2>1. printed' = Append(printed, <<start, end>>) /\ <<start, end>> \in Ranges
    BY <1>1, <1>2 DEF map_print, Ranges
  <2>2. /\ printed' \in Seq(Ranges) /\ Len(printed') = Len(printed) + 1 /\ Len(printed) \in Nat
        /\ \A i \in 1..Len(printed) : printed'[i] = printed[i]
        /\ printed'[Len(printed) + 1] = <<start, end>>
    BY <1>1, <2>1, AppendProperties, LenProperties
  <2>3. DOMAIN printed = 1..Len(printed) /\ DOMAIN printed' = 1..(Len(printed) + 1)
    BY <1>1, <2>2, LenProperties
  <2>4. /\ Len(printed) + 1 \in DOMAIN printed'
        /\ \A i \in DOMAIN printed : i \in DOMAIN printed' /\ printed'[i] = printed[i]
    BY <2>2, <2>3
  <2>5. ASSUME NEW p \in Int, Listed(p)
        PROVE  \E i \in DOMAIN printed' : printed'[i][1] <= p /\ p <= printed'[i][2]
    <3>1. CASE start <= p /\ p <= end
      <4>1. printed'[Len(printed) + 1][1] = start /\ printed'[Len(printed) + 1][2] = end
        BY <2>2
      <4>. QED
        BY <2>4, <3>1, <4>1
    <3>2. CASE \E i \in DOMAIN printed : printed[i][1] <= p /\ p <= printed[i][2]
      BY <2>4, <3>2
    <3>. QED
      BY <2>5, <3>1, <3>2 DEF Listed
  <2>. QED
    BY <2>2, <2>5
<1>3. CASE ~(end > start)
  <2>1. printed' = printed /\ ~(start < end)
    BY <1>1, <1>3 DEF map_print
  <2>. QED
    BY <1>1, <2>1 DEF Listed
<1>. QED
  BY <1>2, <1>3

LEMMA LargerOf ==
    ASSUME NEW x \in Nat, NEW y \in Nat
    PROVE  Max({x, y}) \in Nat /\ x <= Max({x, y}) /\ y <= Max({x, y})
<1>1. CASE x <= y
  <2>1. y \in {x, y} /\ \A z \in {x, y} : y >= z
    BY <1>1
  <2>2. \A m \in {x, y} : (\A z \in {x, y} : m >= z) => m = y
    BY <1>1
  <2>. QED
    BY <1>1, <2>1, <2>2 DEF Max
<1>2. CASE ~(x <= y)
  <2>1. x \in {x, y} /\ \A z \in {x, y} : x >= z
    BY <1>2
  <2>2. \A m \in {x, y} : (\A z \in {x, y} : m >= z) => m = x
    BY <1>2
  <2>. QED
    BY <1>2, <2>1, <2>2 DEF Max
<1>. QED
  BY <1>1, <1>2

\* A data record: nothing that was listed is forgotten, and its bytes are
\* listed, or the last of them nearly so.
LEMMA DataMapped ==
    ASSUME MapInv, NEW at \in Nat, NEW len \in Nat, MapData(at, len)
    PROVE  /\ start' \in Nat /\ end' \in Nat /\ start' <= end' /\ printed' \in Seq(Ranges)
           /\ misjudged => misjudged'
           /\ \A p \in Int : Listed(p) => Listed(p)'
           /\ \A p \in at..(at + len - 1) : Near(p)'
<1>. DEFINE from == (at \div D) * D
            to   == (((from + len) \div D) * D) + D - 1
            short == (at % D) + ((from + len) % D) > D
<1>1. start \in Nat /\ end \in Nat /\ start <= end /\ printed \in Seq(Ranges) /\ D \in Nat /\ D >= 3
  BY HexAssumption DEF MapInv
<1>2. /\ (from < start \/ from > end + 1) => map_print /\ start' = from /\ end' = to
      /\ ~(from < start \/ from > end + 1) =>
           end' = Max({end, to}) /\ start' = start /\ printed' = printed
      /\ misjudged' = (misjudged \/ short)
  BY DEF MapData
<1>3. /\ from \in Nat /\ to \in Nat /\ from <= at /\ from <= to /\ (len >= 1 => from < to)
      /\ at + len - 1 <= to + D - 2
      /\ ~short => at + len - 1 <= to
  BY Rounded
<1>. HIDE DEF from, to, short
<1>4. (misjudged => misjudged') /\ (short => misjudged')
  BY <1>2, Zenon
<1>5. /\ start' \in Nat /\ end' \in Nat /\ start' <= from /\ to <= end' /\ printed' \in Seq(Ranges)
      /\ \A p \in Int : Listed(p) => Listed(p)'
  <2>1. CASE from < start \/ from > end + 1
    <3>1. map_print /\ start' = from /\ end' = to
      BY <1>2, <2>1
    <3>2. /\ printed' \in Seq(Ranges)
          /\ \A p \in Int : Listed(p) => \E i \in DOMAIN printed' : printed'[i][1] <= p /\ p <= printed'[i][2]
      BY <3>1, RangePrinted
    <3>3. \A p \in Int : Listed(p) => Listed(p)'
      BY <3>2 DEF Listed
    <3>. QED
      BY <1>3, <3>1, <3>2, <3>3
  <2>2. CASE ~(from < start \/ from > end + 1)
    <3>1. end' = Max({end, to}) /\ start' = start /\ printed' = printed /\ start <= from
      BY <1>1, <1>2, <1>3, <2>2
    <3>2. end' \in Nat /\ end <= end' /\ to <= end'
      BY <1>1, <1>3, <3>1, LargerOf
    <3>3. ASSUME NEW p \in Int, Listed(p) PROVE Listed(p)'
      BY <1>1, <3>1, <3>2, <3>3 DEF Listed
    <3>. QED
      BY <1>1, <3>1, <3>2, <3>3
  <2>. QED
    BY <2>1, <2>2
<1>6. ASSUME NEW p \in at..(at + len - 1)
      PROVE  Near(p)'
  <2>1. p \in Nat /\ from <= p /\ p <= at + len - 1 /\ len >= 1
    BY <1>3
  <2>2. \A q \in Int : from <= q /\ q <= to => Listed(q)'
    BY <1>3, <1>5, <2>1 DEF Listed
  <2>3. CASE p <= to
    BY <2>1, <2>2, <2>3 DEF Near
  <2>4. CASE ~(p <= to)
    <3>1. misjudged'
      BY <1>3, <1>4, <2>1, <2>4
    <3>2. to \in (p - D + 2)..(p - 1)
      BY <1>1, <1>3, <2>1, <2>4
    <3>3. Listed(to)'
      BY <1>3, <2>2
    <3>. QED
      BY <3>1, <3>2, <3>3 DEF Near
  <2>. QED
    BY <2>3, <2>4
<1>7. start' <= end'
  BY <1>3, <1>5
<1>. QED
  BY <1>4, <1>5, <1>6, <1>7

\* A bank record begins a new range.
LEMMA BankMapped ==
    ASSUME MapInv, NEW to \in Nat, MapBank(to)
    PROVE  /\ start' \in Nat /\ end' \in Nat /\ start' <= end' /\ printed' \in Seq(Ranges)
           /\ misjudged => misjudged'
           /\ \A p \in Int : Listed(p) => Listed(p)'
<1>1. start \in Nat /\ end \in Nat /\ start <= end /\ printed \in Seq(Ranges)
  BY DEF MapInv
<1>2. CASE end # to
  <2>1. map_print /\ start' = to /\ end' = to /\ misjudged' = misjudged
    BY <1>2 DEF MapBank
  <2>2. /\ printed' \in Seq(Ranges)
        /\ \A p \in Int : Listed(p) => \E i \in DOMAIN printed' : printed'[i][1] <= p /\ p <= printed'[i][2]
    BY <2>1, RangePrinted
  <2>3. \A p \in Int : Listed(p) => Listed(p)'
    BY <2>2 DEF Listed
  <2>. QED
    BY <2>1, <2>2, <2>3
<1>3. CASE end = to
  <2>1. start' = start /\ end' = end /\ printed' = printed /\ misjudged' = misjudged
    BY <1>3 DEF MapBank, mapper
  <2>. QED
    BY <1>1, <2>1 DEF Listed
<1>. QED
  BY <1>2, <1>3

\* The map covers what it covered, and what is new.
LEMMA StillCovered ==
    ASSUME MapInv, NEW new \in SUBSET Nat, DOMAIN image' = DOMAIN image \cup new,
           misjudged => misjudged', \A p \in Int : Listed(p) => Listed(p)',
           \A p \in new : Near(p)'
    PROVE  DOMAIN image' \subseteq Nat /\ MapCoversImage'
<1>1. DOMAIN image \subseteq Nat /\ DOMAIN image' \subseteq Nat
  BY DEF MapInv
<1>2. ASSUME NEW p \in DOMAIN image
      PROVE  Near(p)'
  <2>1. p \in Nat /\ D \in Nat
    BY <1>1, HexAssumption
  <2>2. Near(p)
    BY DEF MapInv, MapCoversImage, Near
  <2>3. (p - D + 2)..(p - 1) \subseteq Int
    BY <2>1
  <2>4. CASE Listed(p)
    BY <2>1, <2>4 DEF Near
  <2>5. CASE misjudged /\ \E q \in (p - D + 2)..(p - 1) : Listed(q)
    BY <2>3, <2>5 DEF Near
  <2>. QED
    BY <2>2, <2>4, <2>5 DEF Near
<1>3. \A p \in DOMAIN image' : Near(p)'
  BY <1>2
<1>. QED
  BY <1>1, <1>3 DEF MapCoversImage, Near

\* What a complete record holds.
LEMMA Complete ==
    ASSUME NEW rec \in Seq(Nat), Len(rec) = 5 + rec[1], rec # <<>>
    PROVE  /\ rec[1] \in Nat /\ rec[2] \in Nat /\ rec[3] \in Nat /\ rec[4] \in Nat
           /\ Len(SubSeq(rec, 5, 4 + rec[1])) \in Nat
<1>1. Len(rec) \in Nat /\ Len(rec) >= 1 /\ rec \in [1..Len(rec) -> Nat]
  BY LenProperties, EmptySeq
<1>2. rec[1] \in Nat
  BY <1>1
<1>3. rec[2] \in Nat /\ rec[3] \in Nat /\ rec[4] \in Nat
  BY <1>1, <1>2
<1>4. SubSeq(rec, 5, 4 + rec[1]) \in Seq(Nat)
  <2>1. \A i \in 5..(4 + rec[1]) : rec[i] \in Nat
    BY <1>1, <1>2, SMTT(60)
  <2>. QED
    BY <1>2, <2>1, SubSeqProperties
<1>. QED
  BY <1>2, <1>3, <1>4, LenProperties

LEMMA Product == ASSUME NEW a \in Nat, NEW b \in Nat PROVE a * b \in Nat
OBVIOUS

LEMMA Address ==
    ASSUME MapInv, NEW high \in Nat, NEW low \in Nat
    PROVE  base + (high * Byte) + low \in Nat
<1>1. base \in Nat /\ Byte \in Nat
  BY HexAssumption DEF MapInv, Byte
<1>. DEFINE product == high * Byte
<1>2. product \in Nat
  BY <1>1, Product
<1>. HIDE DEF product
<1>3. base + product + low \in Nat
  BY <1>1, <1>2
<1>. QED
  BY <1>3 DEF product

LEMMA RecordHandled ==
    ASSUME MapInv, NEW rec \in Seq(Nat), Len(rec) = 5 + rec[1], rec # <<>>, HandleRecord(rec)
    PROVE  MapInv'
<1>. DEFINE type == rec[4]
            at   == base + (rec[2] * Byte) + rec[3]
            data == SubSeq(rec, 5, 4 + rec[1])
<1>1. /\ type \in Nat /\ Len(data) \in Nat /\ D \in Nat /\ BankSize \in Nat /\ base \in Nat
  BY Complete, HexAssumption DEF MapInv
<1>2. at \in Nat
  BY Complete, Address
<1>3. CASE /\ WriteImage(at, data) /\ MapData(at, Len(data)) /\ UNCHANGED <<base, eof>>
           /\ RecordDone
  <2>. DEFINE new == at..(at + Len(data) - 1)
  <2>1. DOMAIN image' = DOMAIN image \cup new
    BY <1>3 DEF WriteImage
  <2>2. new \in SUBSET Nat
    BY <1>1, <1>2
  <2>3. /\ start' \in Nat /\ end' \in Nat /\ start' <= end' /\ printed' \in Seq(Ranges)
        /\ misjudged => misjudged'
        /\ \A p \in Int : Listed(p) => Listed(p)'
        /\ \A p \in new : Near(p)'
    <3>. HIDE DEF at, data
    <3>. QED
      BY <1>1, <1>2, <1>3, DataMapped
  <2>. HIDE DEF at, data, new
  <2>4. DOMAIN image' \subseteq Nat /\ MapCoversImage'
    BY <2>1, <2>2, <2>3, StillCovered
  <2>5. base' \in Nat /\ nibble' \in Nat /\ record' = <<>>
    BY <1>1, <1>3 DEF RecordDone, MapInv
  <2>. QED
    BY <2>3, <2>4, <2>5 DEF MapInv
<1>4. CASE /\ UNCHANGED <<base, image, mapper>> /\ RecordDone
  <2>1. /\ base' = base /\ image' = image /\ start' = start /\ end' = end /\ printed' = printed
        /\ misjudged' = misjudged /\ nibble' = nibble /\ record' = <<>>
    BY <1>4 DEF mapper, RecordDone
  <2>. HIDE DEF type, at, data
  <2>2. MapCoversImage'
    BY <2>1 DEF MapInv, MapCoversImage, Near, Listed
  <2>. QED
    BY <2>1, <2>2 DEF MapInv
<1>5. CASE /\ type >= D /\ base' = (type - D) * BankSize /\ MapBank(base')
           /\ UNCHANGED <<eof, image>> /\ RecordDone
  <2>1. base' \in Nat
    <3>. HIDE DEF type
    <3>1. type - D \in Nat
      BY <1>1, <1>5
    <3>. QED
      BY <1>1, <1>5, <3>1, Product
  <2>2. /\ start' \in Nat /\ end' \in Nat /\ start' <= end' /\ printed' \in Seq(Ranges)
        /\ misjudged => misjudged'
        /\ \A p \in Int : Listed(p) => Listed(p)'
    BY <1>5, <2>1, BankMapped
  <2>3. image' = image /\ nibble' = nibble /\ record' = <<>>
    BY <1>5 DEF RecordDone
  <2>4. DOMAIN image' \subseteq Nat /\ MapCoversImage'
    <3>1. DOMAIN image' = DOMAIN image \cup {}
      BY <2>3
    <3>2. {} \in SUBSET Nat /\ \A p \in {} : Near(p)'
      OBVIOUS
    <3>. QED
      BY <2>2, <3>1, <3>2, StillCovered
  <2>. QED
    BY <2>1, <2>2, <2>3, <2>4 DEF MapInv
<1>6. CASE Fail("error")
  BY <1>6 DEF Fail, hfd, sink, mapper, MapInv, MapCoversImage, Near, Listed
<1>. QED
  BY <1>3, <1>4, <1>5, <1>6 DEF HandleRecord

LEMMA DigitTaken ==
    ASSUME MapInv, NEW ch \in Digits, SecondDigit(ch)
    PROVE  MapInv'
<1>. DEFINE byte == ((nibble * D) + ch) % Byte
            rec == Append(record, byte)
            len == IF Len(rec) = 1 THEN 5 + rec[1] ELSE length
<1>1. byte \in Nat
  <2>1. nibble \in Nat /\ ch \in Nat /\ D \in Nat /\ D >= 3
    BY HexAssumption DEF MapInv, Digits
  <2>2. nibble * D \in Nat /\ Byte \in Nat \ {0}
    BY <2>1 DEF Byte
  <2>3. (nibble * D) + ch \in Nat
    BY <2>1, <2>2
  <2>. QED
    BY <2>2, <2>3, Divided
<1>2. SecondDigit(ch) <=>
        \/ /\ Len(rec) = len /\ len < Byte /\ HandleRecord(rec)
        \/ /\ Len(rec) = len /\ len >= Byte /\ Fail("assertion")
        \/ /\ Len(rec) # len
           /\ record' = rec /\ length' = len /\ state' = "RECORD"
           /\ UNCHANGED <<nibble, sink, mapper, fate>>
  BY DEF SecondDigit
<1>. HIDE DEF byte
<1>3. /\ rec \in Seq(Nat) /\ rec # <<>> /\ Len(rec) = Len(record) + 1 /\ Len(record) \in Nat
      /\ record # <<>> => rec[1] = record[1]
  <2>1. record \in Seq(Nat)
    BY DEF MapInv
  <2>2. /\ rec \in Seq(Nat) /\ Len(rec) = Len(record) + 1 /\ Len(record) \in Nat
        /\ \A i \in 1..Len(record) : rec[i] = record[i]
    BY <1>1, <2>1, AppendProperties, LenProperties
  <2>3. rec # <<>>
    BY <2>2, EmptySeq
  <2>4. record # <<>> => 1 \in 1..Len(record)
    BY <2>1, <2>2, EmptySeq
  <2>. QED
    BY <2>2, <2>3, <2>4
<1>4. len = 5 + rec[1]
  <2>1. CASE record = <<>>
    BY <1>3, <2>1, EmptySeq
  <2>2. CASE record # <<>>
    <3>1. Len(rec) # 1
      BY <1>3, <2>2, EmptySeq DEF MapInv
    <3>. QED
      BY <1>3, <2>2, <3>1 DEF MapInv
  <2>. QED
    BY <2>1, <2>2
<1>. HIDE DEF rec, len
<1>5. CASE Len(rec) = len /\ HandleRecord(rec)
  BY <1>3, <1>4, <1>5, RecordHandled
<1>6. CASE Fail("assertion")
  BY <1>6 DEF Fail, hfd, sink, mapper, MapInv, MapCoversImage, Near, Listed
<1>7. CASE record' = rec /\ length' = len /\ UNCHANGED <<nibble, sink, mapper, fate>>
  BY <1>3, <1>4, <1>7 DEF sink, mapper, MapInv, MapCoversImage, Near, Listed
<1>. QED
  BY <1>2, <1>5, <1>6, <1>7

LEMMA MapInitially == HexInit => MapInv
<1>. SUFFICES ASSUME HexInit PROVE MapInv
  OBVIOUS
<1>1. /\ base = 0 /\ start = 0 /\ end = 0 /\ nibble = 0
      /\ record = <<>> /\ image = <<>> /\ printed = <<>>
  BY DEF HexInit
<1>2. DOMAIN image = {}
  BY <1>1
<1>. QED
  BY <1>1, <1>2 DEF MapInv, MapCoversImage

LEMMA MapStays == MapInv /\ [HexNext]_hexvars => MapInv'
<1>. SUFFICES ASSUME MapInv, [HexNext]_hexvars PROVE MapInv'
  OBVIOUS
<1>. DEFINE ch == Head(text)
<1>1. CASE /\ record' = record /\ length' = length /\ nibble' = nibble
           /\ UNCHANGED <<sink, mapper>>
  BY <1>1 DEF sink, mapper, MapInv, MapCoversImage, Near, Listed
<1>2. CASE Feed
  <2>1. CASE state = "RECORD" /\ ch \in Digits /\ FirstDigit(ch)
    <3>1. ch \in Nat
      BY <2>1, HexAssumption DEF Digits
    <3>. HIDE DEF ch
    <3>2. /\ nibble' \in Nat /\ record' = record /\ length' = length /\ UNCHANGED <<sink, mapper>>
      BY <2>1, <3>1 DEF FirstDigit
    <3>. QED
      BY <3>2 DEF sink, mapper, MapInv, MapCoversImage, Near, Listed
  <2>2. CASE ch \in Digits /\ SecondDigit(ch)
    BY <2>2, DigitTaken
  <2>3. CASE Fail("error")
    BY <1>1, <2>3 DEF Fail, hfd
  <2>. QED
    BY <1>1, <1>2, <2>1, <2>2, <2>3 DEF Feed, hfd
<1>3. CASE Close
  BY <1>1, <1>3 DEF Close, hfd
<1>4. CASE UNCHANGED hexvars
  BY <1>1, <1>4 DEF hexvars, hfd
<1>. QED
  BY <1>2, <1>3, <1>4 DEF HexNext

-----------------------------------------------------------------------------
(* The types: what the decoder has of a record fits into its buffer.       *)
Shape == HexTypeOK /\ record \in Seq(0..Byte - 1) /\ length \in Nat

LEMMA BytesAreNumbers ==
    ASSUME NEW rec \in Seq(0..Byte - 1)
    PROVE  rec \in Seq(Nat)
<1>1. rec \in [1..Len(rec) -> 0..Byte - 1] /\ Len(rec) \in Nat
  BY LenProperties
<1>2. \A i \in 1..Len(rec) : rec[i] \in Nat
  BY <1>1
<1>. QED
  BY <1>1, <1>2, SeqDef

LEMMA RecordHasShape ==
    ASSUME Shape, MapInv, NEW rec \in Seq(0..Byte - 1), Len(rec) = 5 + rec[1], rec # <<>>,
           HandleRecord(rec)
    PROVE  Shape'
<1>. DEFINE at   == base + (rec[2] * Byte) + rec[3]
            data == SubSeq(rec, 5, 4 + rec[1])
<1>1. D \in Nat /\ D >= 3 /\ Byte \in Nat /\ Byte >= 0 /\ rec \in Seq(Nat)
  BY HexAssumption, BytesAreNumbers DEF Byte
<1>2. rec[1] \in Nat /\ rec[2] \in Nat /\ rec[3] \in Nat
  BY <1>1, Complete
<1>3. at \in Nat
  BY <1>2, Address
<1>4. data \in Seq(0..Byte - 1)
  <2>1. rec \in [1..Len(rec) -> 0..Byte - 1] /\ Len(rec) \in Nat
    BY LenProperties
  <2>2. \A i \in 5..(4 + rec[1]) : rec[i] \in 0..Byte - 1
    BY <1>2, <2>1, SMTT(60)
  <2>. QED
    BY <1>2, <2>2, SubSeqProperties
<1>5. CASE WriteImage(at, data) /\ RecordDone /\ UNCHANGED fate
  <2>1. data \in [1..Len(data) -> 0..Byte - 1] /\ Len(data) \in Nat
    BY <1>4, LenProperties
  <2>. HIDE DEF at, data
  <2>2. ASSUME NEW p \in DOMAIN image' PROVE image'[p] \in 0..Byte - 1
    <3>1. /\ DOMAIN image' = DOMAIN image \cup (at..(at + Len(data) - 1))
          /\ image'[p] = IF p >= at /\ p < at + Len(data) THEN data[p - at + 1] ELSE image[p]
      BY <1>5 DEF WriteImage
    <3>2. p \in Nat
      BY <1>3, <2>1, <3>1 DEF MapInv
    <3>3. CASE p >= at /\ p < at + Len(data)
      <4>1. p - at + 1 \in 1..Len(data)
        BY <1>3, <2>1, <3>2, <3>3
      <4>. QED
        BY <2>1, <3>1, <3>3, <4>1
    <3>4. CASE ~(p >= at /\ p < at + Len(data))
      <4>1. p \in DOMAIN image
        BY <1>3, <2>1, <3>1, <3>2, <3>4
      <4>. QED
        BY <3>1, <3>4, <4>1 DEF Shape, HexTypeOK
    <3>. QED
      BY <3>3, <3>4
  <2>. QED
    BY <1>1, <1>5, <2>2, EmptySeq DEF RecordDone, Shape, HexTypeOK
<1>6. CASE image' = image /\ RecordDone /\ UNCHANGED fate
  BY <1>1, <1>6, EmptySeq DEF RecordDone, Shape, HexTypeOK
<1>7. CASE Fail("error")
  BY <1>7 DEF Fail, hfd, sink, Shape, HexTypeOK
<1>. QED
  BY <1>5, <1>6, <1>7 DEF HandleRecord

LEMMA DigitHasShape ==
    ASSUME Shape, MapInv, NEW ch \in Digits, Len(record) < Byte, SecondDigit(ch)
    PROVE  Shape'
<1>. DEFINE byte == ((nibble * D) + ch) % Byte
            rec == Append(record, byte)
            len == IF Len(rec) = 1 THEN 5 + rec[1] ELSE length
<1>1. byte \in 0..Byte - 1 /\ Byte \in Nat
  <2>1. nibble \in Nat /\ ch \in Nat /\ D \in Nat /\ D >= 3
    BY HexAssumption DEF MapInv, Digits
  <2>2. nibble * D \in Nat /\ Byte \in Nat \ {0}
    BY <2>1 DEF Byte
  <2>3. (nibble * D) + ch \in Nat
    BY <2>1, <2>2
  <2>4. byte \in Nat /\ byte <= Byte - 1
    BY <2>2, <2>3, Divided
  <2>. HIDE DEF byte
  <2>. QED
    BY <2>2, <2>4
<1>2. \/ /\ Len(rec) = len /\ len < Byte /\ HandleRecord(rec)
      \/ /\ Len(rec) = len /\ len >= Byte /\ Fail("assertion")
      \/ /\ Len(rec) # len
         /\ record' = rec /\ length' = len /\ state' = "RECORD"
         /\ UNCHANGED <<nibble, sink, mapper, fate>>
  BY DEF SecondDigit
<1>. HIDE DEF byte
<1>3. /\ rec \in Seq(0..Byte - 1) /\ rec # <<>> /\ Len(rec) = Len(record) + 1 /\ Len(record) \in Nat
      /\ rec[1] \in Nat /\ (record # <<>> => rec[1] = record[1])
  <2>1. record \in Seq(0..Byte - 1)
    BY DEF Shape
  <2>2. /\ rec \in Seq(0..Byte - 1) /\ Len(rec) = Len(record) + 1 /\ Len(record) \in Nat
        /\ \A i \in 1..Len(record) : rec[i] = record[i]
    BY <1>1, <2>1, AppendProperties, LenProperties
  <2>3. rec # <<>>
    BY <2>2, EmptySeq
  <2>4. record # <<>> => 1 \in 1..Len(record)
    BY <2>1, <2>2, EmptySeq
  <2>5. rec[1] \in 0..Byte - 1
    <3>1. 1 \in 1..Len(rec)
      BY <2>2
    <3>. HIDE DEF rec
    <3>2. rec \in [1..Len(rec) -> 0..Byte - 1]
      BY <2>2, LenProperties
    <3>. QED
      BY <3>1, <3>2
  <2>. QED
    BY <1>1, <2>2, <2>3, <2>4, <2>5
<1>4. len = 5 + rec[1] /\ (Len(rec) = len \/ Len(rec) < len)
  <2>1. CASE record = <<>>
    <3>1. Len(rec) = 1
      BY <1>3, <2>1, EmptySeq
    <3>. QED
      BY <1>3, <3>1
  <2>2. CASE record # <<>>
    <3>1. Len(rec) # 1 /\ length = 5 + record[1] /\ Len(record) < length /\ length \in Nat
      BY <1>3, <2>2, EmptySeq DEF MapInv, Shape, HexTypeOK
    <3>. QED
      BY <1>3, <2>2, <3>1
  <2>. QED
    BY <2>1, <2>2
<1>. HIDE DEF rec, len
<1>5. CASE Len(rec) = len /\ HandleRecord(rec)
  BY <1>3, <1>4, <1>5, RecordHasShape
<1>6. CASE Fail("assertion")
  BY <1>6 DEF Fail, hfd, sink, Shape, HexTypeOK
<1>7. CASE /\ Len(rec) # len /\ record' = rec /\ length' = len /\ state' = "RECORD"
           /\ UNCHANGED <<nibble, sink, mapper, fate>>
  <2>1. Len(rec) <= Byte /\ Len(rec) < len /\ len \in Nat
    BY <1>1, <1>3, <1>4, <1>7
  <2>. QED
    BY <1>3, <1>7, <2>1 DEF sink, Shape, HexTypeOK
<1>. QED
  BY <1>2, <1>5, <1>6, <1>7

LEMMA ShapeInitially == HexInit => Shape
<1>. SUFFICES ASSUME HexInit PROVE Shape
  OBVIOUS
<1>1. /\ state = "NONE" /\ length = 0 /\ record = <<>> /\ image = <<>> /\ fate = "feed"
  BY DEF HexInit
<1>2. DOMAIN image = {} /\ Len(record) = 0 /\ record \in Seq(0..Byte - 1)
  BY <1>1
<1>3. Byte \in Nat
  BY HexAssumption DEF Byte
<1>. QED
  BY <1>1, <1>2, <1>3 DEF Shape, HexTypeOK

LEMMA ShapeStays == Shape /\ MapInv /\ [HexNext]_hexvars => Shape'
<1>. SUFFICES ASSUME Shape, MapInv, [HexNext]_hexvars PROVE Shape'
  OBVIOUS
<1>. DEFINE ch == Head(text)
<1>1. CASE UNCHANGED hfd /\ UNCHANGED sink /\ fate' \in {fate, "done", "error"}
  BY <1>1 DEF hfd, sink, Shape, HexTypeOK
<1>2. CASE Feed
  <2>1. CASE /\ state = "NONE" /\ state' = "RECORD"
             /\ UNCHANGED <<nibble, record, length, sink, mapper, fate>>
    BY <2>1 DEF sink, Shape, HexTypeOK
  <2>2. CASE state = "RECORD" /\ FirstDigit(ch)
    BY <2>2 DEF FirstDigit, sink, Shape, HexTypeOK
  <2>3. CASE ch \in Digits /\ Len(record) < Byte /\ SecondDigit(ch)
    BY <2>3, DigitHasShape
  <2>4. CASE Fail("error")
    BY <1>1, <2>4 DEF Fail
  <2>5. CASE UNCHANGED <<hfd, sink, mapper, fate>>
    BY <1>1, <2>5
  <2>. QED
    BY <1>2, <2>1, <2>2, <2>3, <2>4, <2>5 DEF Feed
<1>3. CASE Close
  BY <1>1, <1>3 DEF Close
<1>4. CASE UNCHANGED hexvars
  BY <1>1, <1>4 DEF hexvars
<1>. QED
  BY <1>2, <1>3, <1>4 DEF HexNext

-----------------------------------------------------------------------------
\* Every byte the hexfile decoder writes is in the map of hexfile-tool, printed
\* or under way, whatever the text: only the last bytes of records that begin
\* within a paragraph may be missing, and they lie close behind a range.
THEOREM MapAlwaysCovers == HexSpec => []MapCoversImage
<1>1. MapInv => MapCoversImage
  BY DEF MapInv
<1>. QED
  BY MapInitially, MapStays, <1>1, PTL DEF HexSpec

\* The types of the decoder hold for every text: between records it keeps
\* nothing, within one it never has more than its length says or its buffer
\* holds, and what it writes are bytes.
THEOREM HexTypeCorrect == HexSpec => []HexTypeOK
<1>1. Shape => HexTypeOK
  BY DEF Shape
<1>. QED
  BY ShapeInitially, ShapeStays, MapInitially, MapStays, <1>1, PTL DEF HexSpec
=============================================================================
