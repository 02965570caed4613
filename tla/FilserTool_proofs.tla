--------------------------- MODULE FilserTool_proofs ---------------------------
(***************************************************************************)
(* The directory of databases behind fakefilser is a register for each of  *)
(* its files: FilserTool implements DataStore, for every number of         *)
(* databases, commands, faults and restarts.  The difficult step is the    *)
(* acknowledgement: when the tool takes an ACK for that of its write, the  *)
(* file must hold what was written, and no older write of the same file    *)
(* may be left that could change it afterwards.  So the invariant follows  *)
(* each write of a file from the script to its ACK: it is in one place     *)
(* only, writes stay in the order of the commands they belong to, and      *)
(* while one is anywhere the tool is not sure of its file.  From the same  *)
(* invariant: an uploaded flight declaration is whole.  With what the      *)
(* command at work has asked for added to it: a read brings what was       *)
(* written last, from the files and from the memory of the device.  And    *)
(* with what raw_mem and download have on their way at each stage: the     *)
(* DEF_MEM of the command is the last request before its ACK, and while    *)
(* the tool waits for the next section one message is under way at most.   *)
(***************************************************************************)
EXTENDS FilserTool, SequenceLemmas, TLAPS

IsWrite(step) == step.op = "put" /\ step.message.kind = "WRITE"

\* What has come or is coming to the tool.
Replied == ToSet(answer) \cup ToSet(tty)

Sequenced == /\ request \in Seq(ToSet(request)) /\ answer \in Seq(ToSet(answer))
             /\ tty \in Seq(ToSet(tty)) /\ script \in Seq(ToSet(script))
             /\ pc \notin {"idle", "step"} => script # <<>>

\* The directory holds nothing but pieces of databases.
Pieces == {[i \in 1..k |-> v] : k \in 0..Chunks, v \in Versions}
Stored == files \in [Files -> Pieces] /\ hope = [n \in Files \cup Registers |-> hope[n]]

\* No message belongs to a command that has not been given.
Stamped == /\ given \in Nat /\ writing.of \in 0..given
           /\ \A m \in ToSet(request) \cup Replied : m.of \in 0..given

\* The writes of a command are of different things.
Steps == \A s \in ToSet(script) :
           /\ s.op \in {"ask", "most", "tell", "put"} => s.message = Msg(s.message.kind, s.message.body)
           /\ s.op \in {"ask", "most", "tell"} => s.message.kind # "WRITE"
           /\ IsWrite(s) => s.message.body \in Files \cup Registers /\ s.packet \in Versions

Once == \A j, k \in DOMAIN script :
          IsWrite(script[j]) /\ IsWrite(script[k]) /\ script[j].message.body = script[k].message.body => j = k

\* A write is followed by its packet, or what the line has made of it.
Pairs == \A i \in DOMAIN request : request[i].kind = "WRITE" =>
           /\ request[i].body \in Files \cup Registers /\ i + 1 \in DOMAIN request
           /\ request[i + 1].kind = "packet" => request[i + 1].of = request[i].of

\* Writes are in the order of their commands, and a thing is written once in each.
Ordered ==
    /\ \A i, j \in DOMAIN request : request[i].kind = "WRITE" /\ request[j].kind = "WRITE" /\ i < j =>
         /\ request[i].of <= request[j].of
         /\ request[i].of = request[j].of => request[i].body # request[j].body
    /\ \A i \in DOMAIN request : request[i].kind = "WRITE" /\ writing # NoWrite =>
         /\ writing.of <= request[i].of
         /\ writing.of = request[i].of => writing.name # request[i].body

\* What is on its way to a file was offered and is not acknowledged.
Offered(n, v) == n \in unsure /\ Whole(v) \in hope[n] /\ v \in Versions

Carries(i) == request[i].kind = "WRITE" /\ request[i + 1].kind = "packet"

Hoped == /\ \A i \in DOMAIN request : Carries(i) /\ request[i].body \in Files =>
              Offered(request[i].body, request[i + 1].body)
         /\ writing # NoWrite =>
              writing.name \in Files /\ Offered(writing.name, writing.version) /\ files[writing.name] = <<>>

\* The ACK of the command at work for a write of n.
Acked(n) == \E m \in Replied : m.kind = "ACK" /\ m.of = given /\ m.body = n

\* The command at work has not written n.
Fresh(n) == /\ \A m \in ToSet(request) : m.kind = "WRITE" /\ m.of = given => m.body # n
            /\ ~(writing.name = n /\ writing.of = given) /\ ~Acked(n)

NotYet == \A k \in DOMAIN script :
            IsWrite(script[k]) /\ (pc = "wait" => k # 1) => Fresh(script[k].message.body)

InFlight(n) == (\E m \in ToSet(request) : m.kind = "WRITE" /\ m.body = n) \/ writing.name = n

\* The write the tool waits for: on its way, being done, or done and acknowledged.
Sent == pc = "wait" /\ IsWrite(script[1]) =>
          /\ \A i \in DOMAIN request :
               Carries(i) /\ request[i].body = script[1].message.body /\ request[i].of = given
                 => request[i + 1].body = script[1].packet
          /\ writing.name = script[1].message.body /\ writing.of = given => writing.version = script[1].packet
          /\ script[1].message.body \in Files /\ Acked(script[1].message.body) =>
               files[script[1].message.body] = Whole(script[1].packet) /\ ~InFlight(script[1].message.body)

IInv == Sequenced /\ Stored /\ Stamped /\ Steps /\ Once /\ Pairs /\ Ordered /\ Hoped /\ NotYet /\ Sent

-----------------------------------------------------------------------------
(* Sequences of messages and of steps.                                     *)

\* The messages of a command.
LEMMA Stamping ==
    ASSUME NEW s, s \in Seq(ToSet(s)), NEW g
    PROVE  /\ Of(s, g) \in Seq(ToSet(Of(s, g))) /\ Len(Of(s, g)) = Len(s) /\ DOMAIN Of(s, g) = DOMAIN s
           /\ \A i \in DOMAIN s : Of(s, g)[i] = [s[i] EXCEPT !.of = g]
           /\ ToSet(Of(s, g)) = {[m EXCEPT !.of = g] : m \in ToSet(s)}
<1>. DEFINE T == {[m EXCEPT !.of = g] : m \in ToSet(s)}
<1>1. Len(s) \in Nat /\ DOMAIN s = 1..Len(s)
  BY LenProperties
<1>2. /\ Of(s, g) \in [1..Len(s) -> T]
      /\ \A i \in DOMAIN s : Of(s, g)[i] = [s[i] EXCEPT !.of = g]
  BY <1>1 DEF Of, ToSet
<1>3. Of(s, g) \in Seq(T)
  BY <1>1, <1>2, SeqDef
<1>4. /\ Of(s, g) \in Seq(ToSet(Of(s, g))) /\ ToSet(Of(s, g)) \subseteq T
      /\ DOMAIN Of(s, g) = 1..Len(Of(s, g)) /\ Len(Of(s, g)) \in Nat
  BY <1>3, Members
<1>5. DOMAIN Of(s, g) = 1..Len(s)
  BY <1>2
<1>6. Len(Of(s, g)) = Len(s)
  <2>1. \A a, b \in Nat : 1..a = 1..b => a = b
    OBVIOUS
  <2>. QED
    BY <1>1, <1>4, <1>5, <2>1, Zenon
<1>7. ASSUME NEW m \in ToSet(s)
      PROVE  [m EXCEPT !.of = g] \in ToSet(Of(s, g))
  <2>1. PICK i \in DOMAIN s : m = s[i]
    BY DEF ToSet
  <2>2. i \in DOMAIN Of(s, g) /\ Of(s, g)[i] = [m EXCEPT !.of = g]
    BY <1>1, <1>2, <1>5, <2>1
  <2>. QED
    BY <2>2 DEF ToSet
<1>. QED
  BY <1>1, <1>2, <1>4, <1>5, <1>6, <1>7

LEMMA Fields ==
    \A k, b, g : /\ Msg(k, b).kind = k /\ Msg(k, b).body = b /\ Msg(k, b).of = 0
                 /\ [Msg(k, b) EXCEPT !.of = g].kind = k
                 /\ [Msg(k, b) EXCEPT !.of = g].body = b
                 /\ [Msg(k, b) EXCEPT !.of = g].of = g
BY DEF Msg

-----------------------------------------------------------------------------
(* The steps that write nothing.                                           *)

Names == {"tp_tsk", "contest_class", "extra_data", "apt_0", "apt_1", "apt_2", "apt_3", "apt_state"}

LEMMA TheFiles ==
    /\ Files \subseteq Names /\ Files \cap Registers = {} /\ NoWrite.name \notin Files \cup Registers
    /\ {"tp_tsk", "contest_class", "apt_state"} \subseteq Files
    /\ \A i \in 1..AptBlocks : AptFile[i] \in Files
    /\ \A n \in Files \cup Registers : n \notin {"SYN", "CLEAR_LO4", "DEF_MEM"}
    /\ NoWrite.of = 0 /\ Chunks \in Nat \ {0}
<1>1. AptBlocks \in 1..4 /\ Chunks \in Nat \ {0}
  BY ToolAssumption
<1>2. \A i \in 1..AptBlocks : AptFile[i] \in {"apt_0", "apt_1", "apt_2", "apt_3"}
  BY <1>1 DEF AptFile
<1>3. Files \subseteq Names
  BY <1>2 DEF Files, AptFiles, Names
<1>. QED
  BY <1>1, <1>3 DEF Names, Registers, NoWrite, Files, AptFiles

\* An answer that is no ACK, or the ACK for something that is not in a file.
Answers(m) == /\ m.of \in 0..given
              /\ m.kind = "ACK" /\ m.body \in Files \cup Registers =>
                   /\ m.body \in Registers
                   /\ \E w \in ToSet(request) : w.kind = "WRITE" /\ w.body = m.body /\ w.of = m.of

\* The first n of the messages s are gone, and others may be spoilt.
Shifted(r, s, n) ==
    /\ n \in 0..Len(s) /\ r \in Seq(ToSet(r)) /\ Len(r) = Len(s) - n
    /\ \A i \in DOMAIN r : n + i \in DOMAIN s /\
         \/ r[i] = s[n + i]
         \/ r[i].kind \in {"damaged", "cut"} /\ r[i].of = 0

\* Messages to the device go, another may be spoilt, answers come and go, and
\* the program may be killed.
LEMMA WireStep ==
    ASSUME IInv, NEW k, Shifted(request', request, k),
           answer' \in Seq(ToSet(answer')), tty' \in Seq(ToSet(tty')),
           \A m \in Replied' : m \in Replied \/ Answers(m),
           writing' \in {writing, NoWrite},
           UNCHANGED <<files, hope, unsure, given, script, pc>>
    PROVE  IInv'
<1>0. /\ k \in 0..Len(request) /\ request' \in Seq(ToSet(request')) /\ Len(request') = Len(request) - k
      /\ \A i \in DOMAIN request' : k + i \in DOMAIN request /\
           \/ request'[i] = request[k + i]
           \/ request'[i].kind \in {"damaged", "cut"} /\ request'[i].of = 0
  BY DEF Shifted
<1>1. /\ DOMAIN request = 1..Len(request) /\ DOMAIN request' = 1..Len(request')
      /\ Len(request) \in Nat /\ Len(request') \in Nat /\ k \in Nat /\ given \in Nat
  BY <1>0, LenProperties DEF IInv, Sequenced, Stamped
<1>2. ASSUME NEW i \in DOMAIN request', request'[i].kind = "WRITE"
      PROVE  /\ k + i \in DOMAIN request /\ request[k + i] = request'[i] /\ request'[i] \in ToSet(request)
             /\ i + 1 \in DOMAIN request'
             /\ request'[i + 1].kind = "packet" => request'[i + 1] = request[(k + i) + 1]
  <2>1. k + i \in DOMAIN request /\ request[k + i] = request'[i]
    BY <1>0, <1>2
  <2>2. (k + i) + 1 \in DOMAIN request
    BY <1>2, <2>1 DEF IInv, Pairs
  <2>3. i + 1 \in DOMAIN request' /\ k + (i + 1) = (k + i) + 1
    BY <1>0, <1>1, <2>2
  <2>. QED
    BY <1>0, <2>1, <2>3 DEF ToSet
<1>3. \A m \in ToSet(request') : m \in ToSet(request) \/ (m.kind \in {"damaged", "cut"} /\ m.of = 0)
  BY <1>0 DEF ToSet
<1>4. writing' = writing \/ (writing' = NoWrite /\ NoWrite.of = 0 /\ NoWrite.name \notin Files \cup Registers)
  BY TheFiles
<1>5. Sequenced' /\ Stored' /\ Steps' /\ Once'
  BY <1>0 DEF IInv, Sequenced, Stored, Steps, Once
<1>6. Stamped'
  BY <1>1, <1>3, <1>4 DEF IInv, Stamped, Answers
<1>7. Pairs'
  BY <1>2 DEF IInv, Pairs
<1>8. Ordered'
  <2>1. \A i, j \in DOMAIN request' : i < j => k + i < k + j
    BY <1>1
  <2>2. ASSUME NEW i \in DOMAIN request', NEW j \in DOMAIN request',
               request'[i].kind = "WRITE", request'[j].kind = "WRITE", i < j
        PROVE  /\ request'[i].of <= request'[j].of
               /\ request'[i].of = request'[j].of => request'[i].body # request'[j].body
    <3>1. /\ k + i \in DOMAIN request /\ k + j \in DOMAIN request /\ k + i < k + j
          /\ request[k + i] = request'[i] /\ request[k + j] = request'[j]
      BY <1>2, <2>1, <2>2
    <3>. QED
      BY <2>2, <3>1 DEF IInv, Ordered
  <2>3. ASSUME NEW i \in DOMAIN request', request'[i].kind = "WRITE", writing' # NoWrite
        PROVE  /\ writing'.of <= request'[i].of
               /\ writing'.of = request'[i].of => writing'.name # request'[i].body
    <3>1. k + i \in DOMAIN request /\ request[k + i] = request'[i] /\ writing' = writing
      BY <1>2, <1>4, <2>3
    <3>. QED
      BY <2>3, <3>1 DEF IInv, Ordered
  <2>. QED
    BY <2>2, <2>3 DEF Ordered
<1>9. Hoped'
  BY <1>2, <1>4 DEF IInv, Hoped, Offered, Carries
<1>10. ASSUME NEW n, Acked(n)'
       PROVE  \/ Acked(n) \/ n \notin Files \cup Registers
              \/ n \in Registers /\ \E m \in ToSet(request) : m.kind = "WRITE" /\ m.of = given /\ m.body = n
  BY <1>10 DEF Acked, Answers
<1>11. ASSUME NEW n \in Files \cup Registers, Fresh(n)
       PROVE  Fresh(n)'
  BY <1>3, <1>4, <1>10, <1>11 DEF Fresh
<1>12. NotYet'
  <2>. SUFFICES ASSUME NEW j \in DOMAIN script, IsWrite(script[j]), pc = "wait" => j # 1
                PROVE  Fresh(script[j].message.body)'
    BY DEF NotYet, IsWrite
  <2>1. script[j].message.body \in Files \cup Registers
    BY DEF IInv, Steps, ToSet
  <2>2. Fresh(script[j].message.body)
    BY DEF IInv, NotYet
  <2>. QED
    BY <1>11, <2>1, <2>2
<1>13. Sent'
  <2>. SUFFICES ASSUME pc = "wait", IsWrite(script[1])
                PROVE  Sent'
    BY DEF Sent, IsWrite
  <2>. DEFINE n == script[1].message.body
  <2>1. ASSUME NEW i \in DOMAIN request',
               Carries(i)', request'[i].body = n, request'[i].of = given
        PROVE  request'[i + 1].body = script[1].packet
    <3>1. /\ k + i \in DOMAIN request /\ request[k + i] = request'[i]
          /\ request'[i + 1] = request[(k + i) + 1]
      BY <1>2, <2>1 DEF Carries
    <3>. QED
      BY <2>1, <3>1 DEF IInv, Sent, Carries
  <2>2. writing'.name = n /\ writing'.of = given => writing'.version = script[1].packet
    <3>1. n \in Files \cup Registers
      <4>1. 1 \in DOMAIN script
        BY Others DEF IInv, Sequenced
      <4>. QED
        BY <4>1 DEF IInv, Steps, ToSet
    <3>. QED
      BY <1>4, <3>1 DEF IInv, Sent
  <2>3. ASSUME n \in Files, Acked(n)'
        PROVE  files[n] = Whole(script[1].packet) /\ ~InFlight(n)'
    <3>1. Acked(n)
      BY <1>10, <2>3, TheFiles
    <3>2. files[n] = Whole(script[1].packet) /\ ~InFlight(n)
      BY <2>3, <3>1 DEF IInv, Sent
    <3>. QED
      BY <1>3, <1>4, <2>3, <3>2 DEF InFlight
  <2>. QED
    BY <2>1, <2>2, <2>3 DEF Sent
<1>. QED
  BY <1>5, <1>6, <1>7, <1>8, <1>9, <1>12, <1>13 DEF IInv

\* n messages are read, and what is answered is not an ACK for a file.
LEMMA ServeStep ==
    ASSUME IInv, NEW n \in {1, 2}, Serving(n), UNCHANGED <<files, writing>>,
           NEW s, s \in Seq(ToSet(s)), answer' = answer \o Of(s, Head(request).of) \/ answer' = answer,
           \A m \in ToSet(s) : /\ m = Msg(m.kind, m.body)
                               /\ m.kind = "ACK" /\ m.body \in Files \cup Registers =>
                                    /\ m.body \in Registers /\ request[1].kind = "WRITE"
                                    /\ request[1].body = m.body
    PROVE  IInv'
<1>1. /\ Len(request) >= n /\ request' = SubSeq(request, n + 1, Len(request))
      /\ UNCHANGED <<tty, hope, unsure, given, script, pc>>
  BY DEF Serving, tool, promised
<1>2. Len(request) \in Nat /\ request \in Seq(ToSet(request)) /\ n \in 0..Len(request)
  BY <1>1, LenProperties DEF IInv, Sequenced
<1>3. /\ request' \in Seq(ToSet(request')) /\ Len(request') = Len(request) - n
      /\ \A i \in DOMAIN request' : n + i \in DOMAIN request /\ request'[i] = request[n + i]
  BY <1>1, <1>2, Rest, ZenonT(60)
<1>4. request # <<>> /\ Head(request) = request[1] /\ request[1] \in ToSet(request)
  <2>1. request # <<>>
    BY <1>1, <1>2, EmptySeq
  <2>. QED
    BY <1>2, <2>1, Others
<1>5. request[1].of \in 0..given
  BY <1>4 DEF IInv, Stamped
<1>6. /\ answer' \in Seq(ToSet(answer'))
      /\ \A m \in Replied' : m \in Replied \/ Answers(m)
  <2>1. CASE answer' = answer
    BY <1>1, <2>1 DEF IInv, Sequenced, Replied
  <2>2. CASE answer' = answer \o Of(s, request[1].of)
    <3>1. /\ Of(s, request[1].of) \in Seq(ToSet(Of(s, request[1].of)))
          /\ ToSet(Of(s, request[1].of)) = {[m EXCEPT !.of = request[1].of] : m \in ToSet(s)}
      BY Stamping
    <3>2. answer \in Seq(ToSet(answer))
      BY DEF IInv, Sequenced
    <3>3. /\ answer' \in Seq(ToSet(answer'))
          /\ ToSet(answer') = ToSet(answer) \cup ToSet(Of(s, request[1].of))
      BY <2>2, <3>1, <3>2, Joined
    <3>4. ASSUME NEW m \in ToSet(s)
          PROVE  Answers([m EXCEPT !.of = request[1].of])
      <4>1. m = Msg(m.kind, m.body)
        OBVIOUS
      <4>. DEFINE a == [m EXCEPT !.of = request[1].of]
      <4>2. a.kind = m.kind /\ a.body = m.body /\ a.of = request[1].of
        BY <4>1, Fields
      <4>. HIDE DEF a
      <4>3. Answers(a)
        BY <1>4, <1>5, <4>2 DEF Answers
      <4>. QED
        BY <4>3 DEF a
    <3>. QED
      BY <1>1, <3>1, <3>3, <3>4 DEF Replied
  <2>. QED
    BY <1>4, <2>1, <2>2
<1>7. tty' \in Seq(ToSet(tty')) /\ Shifted(request', request, n)
  BY <1>1, <1>2, <1>3 DEF IInv, Sequenced, Shifted
<1>. QED
  BY <1>1, <1>6, <1>7, WireStep

\* One answer, or none.
LEMMA ReplyStep ==
    ASSUME IInv, NEW n \in {1, 2}, Serving(n), UNCHANGED <<files, writing>>, NEW k, NEW b,
           Reply(Msg(k, b)) \/ answer' = answer,
           k = "ACK" /\ b \in Files \cup Registers =>
             b \in Registers /\ request[1].kind = "WRITE" /\ request[1].body = b
    PROVE  IInv'
<1>1. /\ <<Msg(k, b)>> \in Seq(ToSet(<<Msg(k, b)>>)) /\ ToSet(<<Msg(k, b)>>) = {Msg(k, b)}
      /\ Msg(k, b).kind = k /\ Msg(k, b).body = b
  BY OneOrTwo, Fields
<1>2. answer' = answer \o Of(<<Msg(k, b)>>, Head(request).of) \/ answer' = answer
  BY DEF Reply, Replies
<1>. QED
  BY <1>1, <1>2, ServeStep

\* The handlers of fakefilser that write no file.
Quiet == \/ handle_syn \/ handle_fixed \/ handle_clear_lo4 \/ handle_read_register
         \/ handle_write_register \/ upload_from_file \/ handle_apt_download \/ handle_70
         \/ handle_open_flight_list \/ handle_def_mem \/ handle_get_mem_section
         \/ handle_get_logger_data \/ handle_unknown \/ dump_timeout

LEMMA QuietStep ==
    ASSUME IInv, Quiet
    PROVE  IInv' /\ UNCHANGED <<files, hope, unsure>>
<1>1. CASE handle_syn
  <2>1. Serving(1) /\ Reply(Msg("ACK", "SYN")) /\ UNCHANGED <<files, writing>>
    BY <1>1 DEF handle_syn, Serve, Ack, disk
  <2>. QED
    BY <2>1, ReplyStep, TheFiles DEF Serving, promised
<1>2. CASE handle_fixed
  <2>1. PICK k \in DOMAIN FixedAnswer :
          Serving(1) /\ Reply(Msg(FixedAnswer[k], 0)) /\ UNCHANGED <<files, writing>>
    BY <1>2 DEF handle_fixed, Serve, disk
  <2>2. FixedAnswer[k] # "ACK"
    BY DEF FixedAnswer
  <2>. QED
    BY <2>1, <2>2, ReplyStep DEF Serving, promised
<1>3. CASE handle_clear_lo4
  <2>1. Serving(1) /\ Reply(Msg("ACK", "CLEAR_LO4")) /\ UNCHANGED <<files, writing>>
    BY <1>3 DEF handle_clear_lo4, Serve, Ack, disk
  <2>. QED
    BY <2>1, ReplyStep, TheFiles DEF Serving, promised
<1>4. CASE handle_read_register
  <2>1. PICK r \in Registers : Serving(1) /\ Reply(Msg("value", memory[r])) /\ UNCHANGED <<files, writing>>
    BY <1>4 DEF handle_read_register, Asked, disk
  <2>. QED
    BY <2>1, ReplyStep DEF Serving, promised
<1>5. CASE handle_write_register
  <2>1. PICK r \in Registers :
          /\ Serving(2) /\ request[1].kind = "WRITE" /\ request[1].body = r
          /\ Reply(Ack(r)) \/ answer' = answer
          /\ UNCHANGED <<files, writing>>
    BY <1>5 DEF handle_write_register, Given, disk
  <2>. QED
    BY <2>1, ReplyStep DEF Serving, promised, Ack
<1>6. CASE upload_from_file
  <2>1. PICK n \in Files : /\ Serving(1)
                           /\ Reply(Msg("value", files[n])) \/ answer' = answer
                           /\ UNCHANGED <<files, writing>>
    BY <1>6 DEF upload_from_file, Asked, disk
  <2>2. Reply(Msg("value", files[n])) \/ answer' = answer
    BY <2>1
  <2>3. IInv'
    BY <2>1, <2>2, ReplyStep
  <2>. QED
    BY <2>1, <2>3 DEF Serving, promised
<1>7. CASE handle_apt_download
  <2>1. Serving(1) /\ Reply(Msg("garbage", 0)) /\ UNCHANGED <<files, writing>>
    BY <1>7 DEF handle_apt_download, Asked, disk
  <2>. QED
    BY <2>1, ReplyStep DEF Serving, promised
<1>8. CASE handle_70
  <2>1. Serving(1) /\ answer' = answer /\ UNCHANGED <<files, writing>>
    BY <1>8 DEF handle_70, Serve, disk
  <2>2. Reply(Msg("none", 0)) \/ answer' = answer
    BY <2>1
  <2>3. IInv'
    BY <2>1, <2>2, ReplyStep
  <2>. QED
    BY <2>1, <2>3 DEF Serving, promised
<1>9. CASE handle_open_flight_list
  <2>. DEFINE f(i) == Msg("flight", <<flight_address(i), flight_end(i)>>)
              s == [i \in Flights |-> f(i)]  z == <<Msg("null", 0)>>
  <2>1. Serving(1) /\ answer' = answer \o Of(s \o z, Head(request).of) /\ UNCHANGED <<files, writing>>
    BY <1>9 DEF handle_open_flight_list, Serve, Replies, disk
  <2>2. \A i : f(i).kind = "flight" /\ f(i) = Msg(f(i).kind, f(i).body)
    BY Fields
  <2>. HIDE DEF f
  <2>3. s \in Seq(ToSet(s)) /\ \A m \in ToSet(s) : \E i : m = f(i)
    <3>1. Flights = 1..Len(Lengths) /\ Len(Lengths) \in Nat
      BY MemoryAssumption, LenProperties DEF Flights
    <3>2. s \in [1..Len(Lengths) -> {f(i) : i \in Flights}]
      BY <3>1
    <3>3. s \in Seq({f(i) : i \in Flights})
      BY <3>1, <3>2, SeqDef
    <3>. QED
      BY <3>3, Members
  <2>4. z \in Seq(ToSet(z)) /\ ToSet(z) = {Msg("null", 0)} /\ Msg("null", 0).kind = "null" /\ Msg("null", 0).body = 0
    BY OneOrTwo, Fields
  <2>. HIDE DEF s, z
  <2>5. s \o z \in Seq(ToSet(s \o z)) /\ ToSet(s \o z) = ToSet(s) \cup ToSet(z)
    BY <2>3, <2>4, Joined
  <2>6. \A m \in ToSet(s \o z) : m = Msg(m.kind, m.body) /\ m.kind # "ACK"
    BY <2>2, <2>3, <2>4, <2>5
  <2>7. IInv'
    BY <2>1, <2>5, <2>6, ServeStep
  <2>. QED
    BY <2>1, <2>7 DEF Serving, promised
<1>10. CASE handle_def_mem
  <2>1. /\ Serving(2)
        /\ Reply(Msg("ACK", "DEF_MEM")) \/ answer' = answer
        /\ UNCHANGED <<files, writing>>
    BY <1>10 DEF handle_def_mem, Given, Ack, disk
  <2>2. /\ Reply(Msg("ACK", "DEF_MEM")) \/ answer' = answer
        /\ "DEF_MEM" \notin Files \cup Registers
    BY <2>1, TheFiles
  <2>3. IInv'
    BY <2>1, <2>2, ReplyStep
  <2>. QED
    BY <2>1, <2>3 DEF Serving, promised
<1>11. CASE handle_get_mem_section
  <2>1. Serving(1) /\ Reply(Msg("sections", section_lengths(blocks'))) /\ UNCHANGED <<files, writing>>
    BY <1>11 DEF handle_get_mem_section, Serve, disk
  <2>. QED
    BY <2>1, ReplyStep DEF Serving, promised
<1>12. CASE handle_get_logger_data
  <2>1. PICK b : Serving(1) /\ Reply(Msg("data", b)) /\ UNCHANGED <<files, writing>>
    BY <1>12 DEF handle_get_logger_data, Serve, disk
  <2>. QED
    BY <2>1, ReplyStep DEF Serving, promised
<1>13. CASE handle_unknown
  <2>1. Serving(1) /\ answer' = answer /\ UNCHANGED <<files, writing>>
    BY <1>13 DEF handle_unknown, Serve, disk
  <2>2. Reply(Msg("none", 0)) \/ answer' = answer
    BY <2>1
  <2>3. IInv'
    BY <2>1, <2>2, ReplyStep
  <2>. QED
    BY <2>1, <2>3 DEF Serving, promised
<1>14. CASE dump_timeout
  <2>1. /\ (request # <<>> /\ request' = Tail(request)) \/ request' = request
        /\ UNCHANGED <<answer, tty, files, writing, given, script, pc, hope, unsure>>
    BY <1>14 DEF dump_timeout, disk, tool, promised
  <2>2. /\ request \in Seq(ToSet(request)) /\ answer' \in Seq(ToSet(answer')) /\ tty' \in Seq(ToSet(tty'))
        /\ Len(request) \in Nat
    BY <2>1, LenProperties DEF IInv, Sequenced
  <2>3. \A m \in Replied' : m \in Replied
    BY <2>1 DEF Replied
  <2>4. CASE request # <<>> /\ request' = Tail(request)
    <3>1. /\ 1 \in 0..Len(request) /\ Len(request') = Len(request) - 1 /\ request' \in Seq(ToSet(request'))
          /\ \A i \in DOMAIN request' : i + 1 \in DOMAIN request /\ request'[i] = request[i + 1]
      BY <2>2, <2>4, Others
    <3>2. \A i \in DOMAIN request' : 1 + i = i + 1
      BY <3>1, LenProperties
    <3>3. Shifted(request', request, 1)
      BY <3>1, <3>2 DEF Shifted
    <3>. QED
      BY <2>1, <2>2, <2>3, <3>3, WireStep
  <2>5. CASE request' = request
    <3>1. Shifted(request', request, 0)
      BY <2>2, <2>5, LenProperties DEF Shifted
    <3>. QED
      BY <2>1, <2>2, <2>3, <3>1, WireStep
  <2>. QED
    BY <2>1, <2>4, <2>5
<1>. QED
  BY <1>1, <1>2, <1>3, <1>4, <1>5, <1>6, <1>7, <1>8, <1>9, <1>10, <1>11, <1>12, <1>13, <1>14 DEF Quiet

\* The line, and whoever kills fakefilser and starts it again.
LEMMA Unread ==
    ASSUME IInv, UNCHANGED request
    PROVE  Shifted(request', request, 0)
BY LenProperties DEF IInv, Sequenced, Shifted

\* What Hurt leaves of the messages on their way.
LEMMA HurtLine ==
    ASSUME NEW k, NEW s, s \in Seq(ToSet(s)), s # <<>>
    PROVE  Shifted(Hurt(k, s), s, 0) \/ Shifted(Hurt(k, s), s, 1)
<1>1. /\ Len(s) \in Nat /\ Len(s) >= 1 /\ Tail(s) \in Seq(ToSet(Tail(s))) /\ Len(Tail(s)) = Len(s) - 1
      /\ \A i \in DOMAIN Tail(s) : i + 1 \in DOMAIN s /\ i + 1 # 1 /\ Tail(s)[i] = s[i + 1]
      /\ DOMAIN Tail(s) = 1..Len(Tail(s)) /\ DOMAIN s = 1..Len(s)
  BY Others, LenProperties, SMTT(60)
<1>2. CASE Hurt(k, s) = Tail(s)
  <2>1. 1 \in 0..Len(s) /\ \A i \in DOMAIN Tail(s) : 1 + i = i + 1
    BY <1>1
  <2>. QED
    BY <1>1, <1>2, <2>1, Zenon DEF Shifted
<1>3. CASE Hurt(k, s) = <<Msg("damaged", s[1].kind)>> \o Tail(s)
  <2>. DEFINE d == <<Msg("damaged", s[1].kind)>>  t == Tail(s)  r == d \o t
  <2>1. d \in Seq(ToSet(d)) /\ Len(d) = 1 /\ DOMAIN d = {1} /\ d[1].kind = "damaged" /\ d[1].of = 0
    BY OneOrTwo, Fields
  <2>2. t \in Seq(ToSet(t)) /\ Len(t) = Len(s) - 1
    BY <1>1
  <2>3. \A i \in DOMAIN t : i + 1 \in DOMAIN s /\ t[i] = s[i + 1] /\ i \in Nat
    BY <1>1
  <2>. HIDE DEF d, t
  <2>4. r \in Seq(ToSet(r)) /\ Len(r) = Len(d) + Len(t)
    BY <2>1, <2>2, Joined
  <2>5. \A i \in DOMAIN d : i \in DOMAIN r /\ r[i] = d[i]
    BY <2>1, <2>2, Joined
  <2>6. \A i \in DOMAIN r : i \in DOMAIN d \/ (i - 1 \in DOMAIN t /\ r[i] = t[i - 1])
    <3>1. d \in Seq(ToSet(d)) /\ t \in Seq(ToSet(t))
      BY <2>1, <2>2
    <3>2. \A i \in DOMAIN r : i \in DOMAIN d \/ (i - Len(d) \in DOMAIN t /\ r[i] = t[i - Len(d)])
      BY <3>1, Joined
    <3>. QED
      BY <2>1, <3>2
  <2>. HIDE DEF r
  <2>7. \A i \in DOMAIN r : i \in Nat /\ i - 1 + 1 = i /\ 0 + i = i
    BY <2>4, LenProperties
  <2>8. ASSUME NEW i \in DOMAIN r
        PROVE  0 + i \in DOMAIN s /\ \/ r[i] = s[0 + i]
                                     \/ r[i].kind \in {"damaged", "cut"} /\ r[i].of = 0
    <3>1. CASE i = 1
      BY <1>1, <2>1, <2>5, <3>1
    <3>2. CASE i # 1
      BY <2>1, <2>3, <2>6, <2>7, <3>2
    <3>. QED
      BY <3>1, <3>2
  <2>9. Len(r) = Len(s) - 0 /\ 0 \in 0..Len(s)
    BY <1>1, <2>1, <2>2, <2>4
  <2>10. Shifted(r, s, 0)
    BY <2>4, <2>8, <2>9 DEF Shifted
  <2>. QED
    BY <1>3, <2>10 DEF d, t, r
<1>. QED
  BY <1>2, <1>3 DEF Hurt

LEMMA OutsideStep ==
    ASSUME IInv, LineFault \/ Arrive \/ Kill \/ Restart
    PROVE  IInv' /\ UNCHANGED <<files, hope, unsure>>
<1>. USE DEF IInv, Sequenced
<1>1. CASE LineFault
  <2>1. PICK k \in {"lose", "damage"} :
          \/ request # <<>> /\ request' = Hurt(k, request) /\ UNCHANGED answer
          \/ answer # <<>> /\ answer' = Hurt(k, answer) /\ UNCHANGED request
          \/ /\ request' = [request EXCEPT ![2] = Msg("cut", "packet")] /\ UNCHANGED answer
    BY <1>1 DEF LineFault
  <2>2. UNCHANGED <<tty, files, writing, given, script, pc, hope, unsure>>
    BY <1>1 DEF LineFault, device, disk, tool, promised
  <2>3. CASE request # <<>> /\ request' = Hurt(k, request) /\ UNCHANGED answer
    <3>1. answer' \in Seq(ToSet(answer')) /\ tty' \in Seq(ToSet(tty')) /\ \A m \in Replied' : m \in Replied
      BY <2>2, <2>3 DEF Replied
    <3>2. request \in Seq(ToSet(request))
      OBVIOUS
    <3>3. PICK n \in {0, 1} : Shifted(request', request, n)
      BY <2>3, <3>2, HurtLine
    <3>. QED
      BY <2>2, <3>1, <3>3, WireStep
  <2>4. CASE answer # <<>> /\ answer' = Hurt(k, answer) /\ UNCHANGED request
    <3>1. answer \in Seq(ToSet(answer))
      OBVIOUS
    <3>2. PICK n \in {0, 1} : Shifted(answer', answer, n)
      BY <2>4, <3>1, HurtLine
    <3>3. /\ answer' \in Seq(ToSet(answer'))
          /\ \A m \in ToSet(answer') : m \in ToSet(answer) \/ (m.kind \in {"damaged", "cut"} /\ m.of = 0)
      BY <3>2, ZenonT(60) DEF ToSet, Shifted
    <3>4. 0 \in 0..given
      BY DEF Stamped
    <3>5. tty' \in Seq(ToSet(tty')) /\ \A m \in Replied' : m \in Replied \/ Answers(m)
      BY <2>2, <3>3, <3>4 DEF Replied, Answers
    <3>. QED
      BY <2>2, <2>4, <3>3, <3>5, Unread, WireStep
  <2>5. CASE request' = [request EXCEPT ![2] = Msg("cut", "packet")] /\ UNCHANGED answer
    <3>1. answer' \in Seq(ToSet(answer')) /\ tty' \in Seq(ToSet(tty')) /\ \A m \in Replied' : m \in Replied
      BY <2>2, <2>5 DEF Replied
    <3>2. Len(request) \in Nat /\ DOMAIN request = 1..Len(request) /\ request \in Seq(ToSet(request))
      BY LenProperties
    <3>3. DOMAIN request' = 1..Len(request) /\ request' = [i \in 1..Len(request) |-> request'[i]]
          /\ \A i \in DOMAIN request : request'[i] = request[i] \/ request'[i] = Msg("cut", "packet")
      BY <2>5, <3>2
    <3>4. request' \in [1..Len(request) -> ToSet(request')]
      BY <3>3 DEF ToSet
    <3>5. request' \in Seq(ToSet(request')) /\ Len(request') = Len(request)
      <4>1. request' \in Seq(ToSet(request'))
        BY <3>2, <3>4, SeqDef
      <4>2. Len(request') \in Nat /\ DOMAIN request' = 1..Len(request')
        BY <4>1, LenProperties
      <4>3. \A a, b \in Nat : 1..a = 1..b => a = b
        OBVIOUS
      <4>. QED
        BY <3>2, <3>3, <4>1, <4>2, <4>3
    <3>6. Msg("cut", "packet").kind = "cut" /\ Msg("cut", "packet").of = 0
      BY Fields
    <3>7. \A i \in DOMAIN request : 0 + i = i
      BY <3>2
    <3>8. 0 \in 0..Len(request) /\ Len(request) - 0 = Len(request)
      BY <3>2
    <3>9. Shifted(request', request, 0)
      BY <3>2, <3>3, <3>5, <3>6, <3>7, <3>8 DEF Shifted
    <3>. QED
      BY <2>2, <3>1, <3>9, WireStep
  <2>. QED
    BY <2>1, <2>3, <2>4, <2>5
<1>2. CASE Arrive
  <2>1. /\ answer # <<>> /\ answer' = Tail(answer) /\ (tty' = tty \/ tty' = Append(tty, Head(answer)))
        /\ UNCHANGED <<request, files, writing, given, script, pc, hope, unsure>>
    BY <1>2 DEF Arrive, device, disk, tool, promised
  <2>2. /\ answer' \in Seq(ToSet(answer')) /\ ToSet(answer') \subseteq ToSet(answer)
        /\ Head(answer) \in ToSet(answer)
    BY <2>1, Others
  <2>3. tty' \in Seq(ToSet(tty')) /\ ToSet(tty') \subseteq ToSet(tty) \cup {Head(answer)}
    BY <2>1, OneMore
  <2>4. \A m \in Replied' : m \in Replied
    BY <2>2, <2>3 DEF Replied
  <2>. QED
    BY <2>1, <2>2, <2>3, <2>4, Unread, WireStep
<1>3. CASE Kill
  <2>1. writing' = NoWrite /\ UNCHANGED <<request, answer, tty, files, given, script, pc, hope, unsure>>
    BY <1>3 DEF Kill, wire, tool, promised
  <2>2. answer' \in Seq(ToSet(answer')) /\ tty' \in Seq(ToSet(tty')) /\ \A m \in Replied' : m \in Replied
    BY <2>1 DEF Replied
  <2>. QED
    BY <2>1, <2>2, Unread, WireStep
<1>4. CASE Restart
  <2>1. request' = <<>> /\ UNCHANGED <<answer, tty, files, writing, given, script, pc, hope, unsure>>
    BY <1>4 DEF Restart, disk, tool, promised
  <2>2. answer' \in Seq(ToSet(answer')) /\ tty' \in Seq(ToSet(tty')) /\ \A m \in Replied' : m \in Replied
    BY <2>1 DEF Replied
  <2>3. Shifted(request', request, Len(request))
    <3>1. Len(request) \in 0..Len(request) /\ Len(request) - Len(request) = 0
      <4>1. Len(request) \in Nat
        BY LenProperties
      <4>. QED
        BY <4>1
    <3>. QED
      BY <2>1, <3>1, OneOrTwo DEF Shifted
  <2>. QED
    BY <2>1, <2>2, <2>3, WireStep
<1>. QED
  BY <1>1, <1>2, <1>3, <1>4

-----------------------------------------------------------------------------
(* The steps of the tool.                                                  *)

\* The tool goes on in its script, and may ask for something that is no write.
\* What may be known of a file changes only when no write of it is on its way.
LEMMA ToolStep ==
    ASSUME IInv, UNCHANGED <<answer, files, writing, given>>,
           NEW new, new \in Seq(ToSet(new)), request' = request \/ request' = request \o new,
           \A m \in ToSet(new) : m.kind # "WRITE" /\ m.of \in 0..given,
           tty' \in Seq(ToSet(tty')), ToSet(tty') \subseteq ToSet(tty),
           script' \in Seq(ToSet(script')), pc' \notin {"idle", "step"} => script' # <<>>,
           Steps', Once', Stored',
           \A j \in DOMAIN script' : IsWrite(script'[j]) =>
             \E k \in DOMAIN script : script'[j] = script[k] /\ (pc = "wait" => k # 1),
           pc' = "wait" => ~IsWrite(script'[1]),
           \A n \in Files : InFlight(n) /\ n \in unsure => hope'[n] = hope[n] /\ n \in unsure'
    PROVE  IInv'
<1>1. request \in Seq(ToSet(request)) /\ given \in Nat
  BY DEF IInv, Sequenced, Stamped
<1>2. /\ request' \in Seq(ToSet(request')) /\ ToSet(request') \subseteq ToSet(request) \cup ToSet(new)
      /\ \A i \in DOMAIN request : i \in DOMAIN request' /\ request'[i] = request[i]
      /\ \A i \in DOMAIN request' : i \in DOMAIN request \/ request'[i] \in ToSet(new)
  <2>1. CASE request' = request
    BY <1>1, <2>1
  <2>2. CASE request' = request \o new
    <3>1. /\ request' \in Seq(ToSet(request')) /\ ToSet(request') = ToSet(request) \cup ToSet(new)
          /\ \A i \in DOMAIN request : i \in DOMAIN request' /\ request'[i] = request[i]
      BY <1>1, <2>2, Joined
    <3>2. \A i \in DOMAIN (request \o new) :
            i \in DOMAIN request \/ (i - Len(request) \in DOMAIN new /\ (request \o new)[i] = new[i - Len(request)])
      BY <1>1, Joined
    <3>3. \A i \in DOMAIN request' : i \in DOMAIN request \/ request'[i] \in ToSet(new)
      BY <2>2, <3>2 DEF ToSet
    <3>. QED
      BY <3>1, <3>3
  <2>. QED
    BY <2>1, <2>2
<1>3. ASSUME NEW i \in DOMAIN request', request'[i].kind = "WRITE"
      PROVE  /\ i \in DOMAIN request /\ request'[i] = request[i] /\ request[i] \in ToSet(request)
             /\ i + 1 \in DOMAIN request' /\ request'[i + 1] = request[i + 1]
  <2>1. i \in DOMAIN request /\ request'[i] = request[i]
    BY <1>2, <1>3
  <2>2. i + 1 \in DOMAIN request
    BY <1>3, <2>1 DEF IInv, Pairs
  <2>. QED
    BY <1>2, <2>1, <2>2 DEF ToSet
<1>4. \A m \in ToSet(request') : m \in ToSet(request) \/ (m.kind # "WRITE" /\ m.of \in 0..given)
  BY <1>2
<1>5. \A m \in Replied' : m \in Replied
  BY DEF Replied
<1>6. Sequenced'
  BY <1>2 DEF IInv, Sequenced
<1>7. Stamped'
  BY <1>4, <1>5 DEF IInv, Stamped
<1>8. Pairs'
  BY <1>3 DEF IInv, Pairs
<1>9. Ordered'
  <2>1. ASSUME NEW i \in DOMAIN request', NEW j \in DOMAIN request',
               request'[i].kind = "WRITE", request'[j].kind = "WRITE", i < j
        PROVE  /\ request'[i].of <= request'[j].of
               /\ request'[i].of = request'[j].of => request'[i].body # request'[j].body
    BY <1>3, <2>1 DEF IInv, Ordered
  <2>2. ASSUME NEW i \in DOMAIN request', request'[i].kind = "WRITE", writing # NoWrite
        PROVE  /\ writing.of <= request'[i].of
               /\ writing.of = request'[i].of => writing.name # request'[i].body
    BY <1>3, <2>2 DEF IInv, Ordered
  <2>. QED
    BY <2>1, <2>2 DEF Ordered
<1>10. Hoped'
  <2>1. ASSUME NEW i \in DOMAIN request', Carries(i)', request'[i].body \in Files
        PROVE  Offered(request[i].body, request[i + 1].body)'
    <3>1. Offered(request[i].body, request[i + 1].body) /\ InFlight(request[i].body)
      BY <1>3, <2>1 DEF IInv, Hoped, InFlight, Carries
    <3>2. request'[i].body = request[i].body /\ request'[i + 1].body = request[i + 1].body
      BY <1>3, <2>1 DEF Carries
    <3>. QED
      BY <2>1, <3>1, <3>2 DEF Offered
  <2>2. ASSUME writing # NoWrite
        PROVE  writing.name \in Files /\ Offered(writing.name, writing.version)' /\ files[writing.name] = <<>>
    <3>1. writing.name \in Files /\ Offered(writing.name, writing.version) /\ files[writing.name] = <<>>
      BY <2>2 DEF IInv, Hoped
    <3>2. InFlight(writing.name)
      BY DEF InFlight
    <3>. QED
      BY <3>1, <3>2 DEF Offered
  <2>. QED
    BY <2>1, <2>2 DEF Hoped, Offered
<1>11. NotYet'
  <2>1. ASSUME NEW j \in DOMAIN script', IsWrite(script'[j])
        PROVE  Fresh(script[j].message.body)'
    <3>1. PICK k \in DOMAIN script : script'[j] = script[k] /\ (pc = "wait" => k # 1)
      BY <2>1
    <3>2. Fresh(script[k].message.body)
      BY <2>1, <3>1 DEF IInv, NotYet
    <3>. QED
      BY <1>4, <1>5, <3>1, <3>2 DEF Fresh, Acked
  <2>. QED
    BY <2>1 DEF NotYet, IsWrite
<1>12. Sent'
  BY DEF Sent, IsWrite
<1>. QED
  BY <1>6, <1>7, <1>8, <1>9, <1>10, <1>11, <1>12 DEF IInv

\* The script is left alone, or its first step is done, or all of it dropped.
Advances == script' = script \/ (script # <<>> /\ script' = Tail(script)) \/ script' = <<>>

LEMMA ScriptStep ==
    ASSUME IInv, Advances, pc = "wait" => script' # script \/ script = <<>>
    PROVE  /\ script' \in Seq(ToSet(script')) /\ Steps' /\ Once'
           /\ \A j \in DOMAIN script' : IsWrite(script'[j]) =>
                \E k \in DOMAIN script : script'[j] = script[k] /\ (pc = "wait" => k # 1)
<1>1. script \in Seq(ToSet(script))
  BY DEF IInv, Sequenced
<1>2. CASE script' = script /\ (pc # "wait" \/ script = <<>>)
  BY <1>1, <1>2, OneOrTwo DEF IInv, Steps, Once
<1>3. CASE script # <<>> /\ script' = Tail(script)
  <2>1. /\ script' \in Seq(ToSet(script')) /\ ToSet(script') \subseteq ToSet(script)
        /\ \A j \in DOMAIN script' : j + 1 \in DOMAIN script /\ j + 1 # 1 /\ script'[j] = script[j + 1]
    BY <1>1, <1>3, Others
  <2>2. \A j, k \in DOMAIN script' : j + 1 = k + 1 => j = k
    BY <2>1, LenProperties
  <2>3. Steps'
    BY <2>1 DEF IInv, Steps, IsWrite
  <2>4. Once'
    BY <2>1, <2>2 DEF IInv, Once, IsWrite
  <2>. QED
    BY <2>1, <2>3, <2>4
<1>4. CASE script' = <<>>
  BY <1>4, OneOrTwo DEF Steps, Once
<1>. QED
  BY <1>2, <1>3, <1>4 DEF Advances

\* What most steps of the tool are: bytes are read or thrown away, a request
\* that is no write is sent, and the script goes on or ends.
Works ==
    /\ UNCHANGED <<answer, files, writing, given, hope, unsure>>
    /\ request' = request \/ \E k, b : k # "WRITE" /\ request' = request \o Of(<<Msg(k, b)>>, given)
    /\ tty' = tty \/ (tty # <<>> /\ tty' = Tail(tty)) \/ tty' = <<>>
    /\ Advances /\ (pc = "wait" => script' # script \/ script = <<>>)
    /\ pc' # "wait" /\ (pc' \notin {"idle", "step"} => script' # <<>>)

LEMMA WorksStep ==
    ASSUME IInv, Works
    PROVE  IInv' /\ UNCHANGED <<files, hope, unsure>>
<1>1. /\ UNCHANGED <<answer, files, writing, given, hope, unsure>>
      /\ pc' # "wait" /\ (pc' \notin {"idle", "step"} => script' # <<>>)
  BY DEF Works
<1>2. /\ script' \in Seq(ToSet(script')) /\ Steps' /\ Once'
      /\ \A j \in DOMAIN script' : IsWrite(script'[j]) =>
           \E k \in DOMAIN script : script'[j] = script[k] /\ (pc = "wait" => k # 1)
  BY ScriptStep DEF Works
<1>3. tty' \in Seq(ToSet(tty')) /\ ToSet(tty') \subseteq ToSet(tty)
  <2>1. tty \in Seq(ToSet(tty))
    BY DEF IInv, Sequenced
  <2>2. CASE tty # <<>> /\ tty' = Tail(tty)
    BY <2>1, <2>2, Others
  <2>. QED
    BY <2>1, <2>2, OneOrTwo DEF Works
<1>4. Stored'
  BY <1>1 DEF IInv, Stored
<1>5. PICK new : /\ new \in Seq(ToSet(new)) /\ (request' = request \/ request' = request \o new)
                 /\ \A m \in ToSet(new) : m.kind # "WRITE" /\ m.of \in 0..given
  <2>1. CASE request' = request
    BY <2>1, OneOrTwo
  <2>2. CASE \E k, b : k # "WRITE" /\ request' = request \o Of(<<Msg(k, b)>>, given)
    <3>1. PICK k, b : k # "WRITE" /\ request' = request \o Of(<<Msg(k, b)>>, given)
      BY <2>2
    <3>. DEFINE m == Msg(k, b)  new == Of(<<m>>, given)
    <3>2. <<m>> \in Seq(ToSet(<<m>>)) /\ ToSet(<<m>>) = {m}
      BY OneOrTwo
    <3>3. new \in Seq(ToSet(new)) /\ ToSet(new) = {[x EXCEPT !.of = given] : x \in ToSet(<<m>>)}
      BY <3>2, Stamping
    <3>4. [m EXCEPT !.of = given].kind = k /\ [m EXCEPT !.of = given].of = given /\ given \in 0..given
      BY Fields DEF IInv, Stamped
    <3>. HIDE DEF new
    <3>5. request' = request \o new /\ \A x \in ToSet(new) : x.kind # "WRITE" /\ x.of \in 0..given
      BY <3>1, <3>2, <3>3, <3>4 DEF new
    <3>. QED
      BY <3>3, <3>5
  <2>. QED
    BY <2>1, <2>2 DEF Works
<1>6. IInv'
  BY <1>1, <1>2, <1>3, <1>4, <1>5, ToolStep
<1>. QED
  BY <1>1, <1>6

LEMMA Doing ==
    ASSUME IInv, Done, script # <<>>
    PROVE  Advances /\ script' # script /\ pc' = "step"
<1>1. script \in Seq(ToSet(script))
  BY DEF IInv, Sequenced
<1>2. Len(script) \in Nat /\ Len(Tail(script)) = Len(script) - 1
  BY <1>1, Others
<1>3. ASSUME Tail(script) = script
      PROVE  FALSE
  <2>1. Len(script) = Len(script) - 1
    BY <1>2, <1>3, Zenon
  <2>. QED
    BY <1>2, <2>1, SMTT(60)
<1>. QED
  BY <1>3 DEF Done, Advances

\* The steps of the tool that neither write nor wait for a write.
Other == \/ SendSyn \/ RecvAck \/ NoAck \/ Tell \/ WrongAnswer \/ NoAnswer \/ Crash
         \/ open_flight_list \/ next_flight \/ download_section \/ SaveSection \/ SaveDatabase \/ Return

LEMMA OtherWorks ==
    ASSUME IInv, Other
    PROVE  Works
<1>. USE DEF device, disk, tool, work, wire, promised, Advances
<1>1. CASE SendSyn
  <2>1. pc # "wait" /\ script # <<>>
    BY <1>1 DEF SendSyn, At, IInv, Sequenced
  <2>2. /\ UNCHANGED <<answer, files, writing, given, hope, unsure, script>>
        /\ request' = request \o Of(<<Msg("SYN", 0)>>, given) /\ tty' = <<>> /\ pc' = "ack"
    BY <1>1 DEF SendSyn, FlushAndWrite
  <2>. QED
    BY <2>1, <2>2 DEF Works
<1>2. CASE RecvAck
  <2>1. script # <<>>
    BY <1>2 DEF RecvAck, IInv, Sequenced
  <2>2. /\ UNCHANGED <<answer, files, writing, given, hope, unsure, request>>
        /\ tty # <<>> /\ tty' = Tail(tty) /\ Done
    BY <1>2 DEF RecvAck, Read
  <2>. QED
    BY <2>1, <2>2, Doing DEF Works
<1>3. CASE NoAck
  <2>1. pc = "ack" /\ script # <<>>
    BY <1>3 DEF NoAck, IInv, Sequenced
  <2>2. /\ UNCHANGED <<answer, files, writing, given, hope, unsure, request>>
        /\ tty' = tty \/ (tty # <<>> /\ tty' = Tail(tty))
        /\ (script' = script /\ pc' = "syn") \/ (script' = <<>> /\ pc' = "idle")
    BY <1>3 DEF NoAck, Read, NothingYet
  <2>. QED
    BY <2>1, <2>2 DEF Works
<1>4. CASE Tell
  <2>1. script # <<>> /\ Head(script).op = "tell" /\ Done
        /\ UNCHANGED <<answer, tty, files, writing, given, hope, unsure>>
    BY <1>4 DEF Tell, At
  <2>2. \/ request' = request
        \/ request' = request \o Of(<<Head(script).message>>, given)
        \/ request' = request \o Of(<<Msg("damaged", "0x70")>>, given)
    BY <1>4 DEF Tell
  <2>3. Head(script) \in ToSet(script)
    BY <2>1, Others DEF IInv, Sequenced
  <2>4. PICK k, b : k # "WRITE" /\ Head(script).message = Msg(k, b)
    BY <2>1, <2>3 DEF IInv, Steps
  <2>. QED
    BY <2>1, <2>2, <2>4, Doing DEF Works
<1>5. CASE WrongAnswer
  <2>1. pc = "wait" /\ script # <<>>
    BY <1>5 DEF WrongAnswer, IInv, Sequenced
  <2>2. /\ UNCHANGED <<answer, files, writing, given, hope, unsure, request>>
        /\ tty' = <<>> /\ script' = <<>> /\ pc' = "idle"
    BY <1>5 DEF WrongAnswer, Finish
  <2>. QED
    BY <2>1, <2>2 DEF Works
<1>6. CASE NoAnswer
  <2>1. script # <<>>
    BY <1>6 DEF NoAnswer, IInv, Sequenced
  <2>2. /\ UNCHANGED <<answer, files, writing, given, hope, unsure, request>>
        /\ tty' = <<>> /\ script' = <<>> /\ pc' = "idle"
    BY <1>6 DEF NoAnswer, Finish
  <2>. QED
    BY <2>1, <2>2 DEF Works
<1>7. CASE Crash
  BY <1>7 DEF Works, Crash, Finish, At
<1>8. CASE open_flight_list
  <2>1. /\ UNCHANGED <<answer, files, writing, given, hope, unsure, script>>
        /\ request' = request \o Of(<<Msg("READ_FLIGHT_LIST", 0)>>, given)
        /\ tty' = <<>> /\ pc' = "flights" /\ pc = "step" /\ script # <<>>
    BY <1>8 DEF open_flight_list, FlushAndWrite, At
  <2>. QED
    BY <2>1 DEF Works
<1>9. CASE next_flight
  <2>1. pc = "flights" /\ script # <<>> /\ tty # <<>>
        /\ UNCHANGED <<answer, files, writing, given, hope, unsure, request>>
    BY <1>9 DEF next_flight, IInv, Sequenced
  <2>2. \/ Read /\ UNCHANGED <<script, pc>>
        \/ Read /\ Done
        \/ Finish("failed")
    BY <1>9 DEF next_flight
  <2>. QED
    BY <2>1, <2>2, Doing DEF Works, Read, Finish
<1>10. CASE download_section
  <2>1. /\ UNCHANGED <<answer, files, writing, given, hope, unsure>>
        /\ \/ pc = "step" /\ script # <<>> /\ pc' = "section" /\ UNCHANGED <<request, tty, script>>
           \/ /\ pc = "section" /\ pc' = "data" /\ UNCHANGED script /\ tty' = <<>>
              /\ request' = request \o Of(<<Msg("READ_LOGGER_DATA", section)>>, given)
           \/ pc = "section" /\ Done /\ UNCHANGED <<request, tty>>
    BY <1>10 DEF download_section, At, FlushAndWrite
  <2>2. script # <<>>
    BY <2>1 DEF IInv, Sequenced
  <2>. QED
    BY <2>1, <2>2, Doing DEF Works
<1>11. CASE SaveSection
  <2>1. pc = "data" /\ script # <<>> /\ tty # <<>>
        /\ UNCHANGED <<answer, files, writing, given, hope, unsure, request>>
    BY <1>11 DEF SaveSection, IInv, Sequenced
  <2>2. (Read /\ pc' = "section" /\ UNCHANGED script) \/ Finish("failed")
    BY <1>11 DEF SaveSection
  <2>. QED
    BY <2>1, <2>2 DEF Works, Read, Finish
<1>12. CASE SaveDatabase
  <2>1. script # <<>> /\ Done /\ UNCHANGED <<answer, files, writing, given, hope, unsure, request, tty>>
    BY <1>12 DEF SaveDatabase, At
  <2>. QED
    BY <2>1, Doing DEF Works
<1>13. CASE Return
  BY <1>13 DEF Works, Return, Finish
<1>. QED
  BY <1>1, <1>2, <1>3, <1>4, <1>5, <1>6, <1>7, <1>8, <1>9, <1>10, <1>11, <1>12, <1>13 DEF Other

-----------------------------------------------------------------------------
(* The scripts.                                                            *)

Proper(s) ==
    /\ s.op \in {"ask", "most", "tell", "put"} => s.message = Msg(s.message.kind, s.message.body)
    /\ s.op \in {"ask", "most", "tell"} => s.message.kind # "WRITE"
    /\ IsWrite(s) => s.message.body \in Files \cup Registers /\ s.packet \in Versions

\* What a sequence of steps writes, and that it writes it once.
Written(t) == {s.message.body : s \in {x \in ToSet(t) : IsWrite(x)}}

Legal(t) == /\ t \in Seq(ToSet(t)) /\ \A s \in ToSet(t) : Proper(s)
            /\ \A j, k \in DOMAIN t :
                 IsWrite(t[j]) /\ IsWrite(t[k]) /\ t[j].message.body = t[k].message.body => j = k

\* Steps that write nothing.
Plainly(t) == t \in Seq(ToSet(t)) /\ \A s \in ToSet(t) : Proper(s) /\ ~IsWrite(s)

LEMMA PlainlyLegal ==
    ASSUME NEW t, Plainly(t)
    PROVE  Legal(t) /\ Written(t) = {}
BY DEF Plainly, Legal, Written, ToSet

LEMMA PlainlyJoined ==
    ASSUME NEW s, NEW t, Plainly(s), Plainly(t)
    PROVE  Plainly(s \o t)
<1>1. s \in Seq(ToSet(s)) /\ t \in Seq(ToSet(t))
  BY DEF Plainly
<1>2. s \o t \in Seq(ToSet(s \o t)) /\ ToSet(s \o t) = ToSet(s) \cup ToSet(t)
  BY <1>1, Joined
<1>. QED
  BY <1>2 DEF Plainly

\* Scripts that write different things.
LEMMA LegalJoined ==
    ASSUME NEW s, NEW t, Legal(s), Legal(t), Written(s) \cap Written(t) = {}
    PROVE  Legal(s \o t) /\ Written(s \o t) = Written(s) \cup Written(t)
<1>. DEFINE u == s \o t
<1>1. s \in Seq(ToSet(s)) /\ t \in Seq(ToSet(t))
  BY DEF Legal
<1>2. u \in Seq(ToSet(u)) /\ ToSet(u) = ToSet(s) \cup ToSet(t)
  BY <1>1, Joined
<1>3. \A i \in DOMAIN s : u[i] = s[i]
  BY <1>1, Joined
<1>4. \A i \in DOMAIN u : i \in DOMAIN s \/ (i - Len(s) \in DOMAIN t /\ u[i] = t[i - Len(s)])
  BY <1>1, Joined
<1>5. Len(s) \in Nat /\ \A i \in DOMAIN u : i \in Nat
  BY <1>1, <1>2, LenProperties
<1>. HIDE DEF u
<1>6. Written(u) = Written(s) \cup Written(t)
  BY <1>2 DEF Written
<1>7. \A x \in ToSet(u) : Proper(x)
  BY <1>2 DEF Legal
<1>8. \A i \in DOMAIN s : IsWrite(s[i]) => s[i].message.body \in Written(s)
  BY DEF Written, ToSet
<1>9. \A i \in DOMAIN t : IsWrite(t[i]) => t[i].message.body \in Written(t)
  BY DEF Written, ToSet
<1>10. ASSUME NEW j \in DOMAIN u, NEW k \in DOMAIN u,
              IsWrite(u[j]), IsWrite(u[k]), u[j].message.body = u[k].message.body
       PROVE  j = k
  <2>1. CASE j \in DOMAIN s /\ k \in DOMAIN s
    BY <1>3, <1>10, <2>1 DEF Legal
  <2>2. CASE j \notin DOMAIN s /\ k \notin DOMAIN s
    <3>1. j - Len(s) = k - Len(s)
      BY <1>4, <1>10, <2>2 DEF Legal
    <3>. QED
      BY <1>5, <3>1
  <2>3. CASE j \in DOMAIN s /\ k \notin DOMAIN s
    BY <1>3, <1>4, <1>8, <1>9, <1>10, <2>3
  <2>4. CASE j \notin DOMAIN s /\ k \in DOMAIN s
    BY <1>3, <1>4, <1>8, <1>9, <1>10, <2>4
  <2>. QED
    BY <2>1, <2>2, <2>3, <2>4
<1>. QED
  BY <1>2, <1>6, <1>7, <1>10 DEF Legal, u

\* The steps that scripts are made of.
LEMMA TheSteps ==
    /\ Proper(Syn) /\ ~IsWrite(Syn)
    /\ \A w \in {"crash", "list", "seek", "sections", "save"} : Proper(Do(w)) /\ ~IsWrite(Do(w))
    /\ \A k, b, e : k # "WRITE" => Proper(Ask(k, b, e)) /\ ~IsWrite(Ask(k, b, e))
    /\ \A k, b, e : \A o \in {"most", "tell"} : k # "WRITE" =>
         Proper([Ask(k, b, e) EXCEPT !.op = o]) /\ ~IsWrite([Ask(k, b, e) EXCEPT !.op = o])
    /\ \A b, p : Proper(Put("DEF_MEM", b, p)) /\ ~IsWrite(Put("DEF_MEM", b, p))
    /\ \A n \in Files \cup Registers : \A v \in Versions :
         Proper(Put("WRITE", n, v)) /\ IsWrite(Put("WRITE", n, v)) /\ Put("WRITE", n, v).message.body = n
<1>1. Syn.op = "syn" /\ \A w : Do(w).op = w
  BY DEF Syn, Do
<1>2. \A k, b, e : Ask(k, b, e).op = "ask" /\ Ask(k, b, e).message = Msg(k, b)
  BY DEF Ask
<1>3. \A k, b, e, o : [Ask(k, b, e) EXCEPT !.op = o].op = o /\ [Ask(k, b, e) EXCEPT !.op = o].message = Msg(k, b)
  BY DEF Ask
<1>4. \A k, b, p : Put(k, b, p).op = "put" /\ Put(k, b, p).message = Msg(k, b) /\ Put(k, b, p).packet = p
  BY DEF Put
<1>5. \A k, b : Msg(k, b).kind = k /\ Msg(k, b).body = b
  BY Fields
<1>6. Proper(Syn) /\ ~IsWrite(Syn) /\ \A w \in {"crash", "list", "seek", "sections", "save"} : Proper(Do(w)) /\ ~IsWrite(Do(w))
  BY <1>1 DEF Proper, IsWrite
<1>7. ASSUME NEW k, NEW b, NEW e, k # "WRITE"
      PROVE  Proper(Ask(k, b, e)) /\ ~IsWrite(Ask(k, b, e))
  BY <1>2, <1>5, <1>7 DEF Proper, IsWrite
<1>8. ASSUME NEW k, NEW b, NEW e, NEW o \in {"most", "tell"}, k # "WRITE"
      PROVE  Proper([Ask(k, b, e) EXCEPT !.op = o]) /\ ~IsWrite([Ask(k, b, e) EXCEPT !.op = o])
  <2>. DEFINE a == [Ask(k, b, e) EXCEPT !.op = o]
  <2>1. a.op = o /\ a.message = Msg(k, b)
    BY <1>3
  <2>. HIDE DEF a
  <2>2. Proper(a) /\ ~IsWrite(a)
    BY <1>5, <1>8, <2>1 DEF Proper, IsWrite
  <2>. QED
    BY <2>2 DEF a
<1>9. ASSUME NEW b, NEW p
      PROVE  Proper(Put("DEF_MEM", b, p)) /\ ~IsWrite(Put("DEF_MEM", b, p))
  BY <1>4, <1>5 DEF Proper, IsWrite
<1>10. ASSUME NEW n \in Files \cup Registers, NEW v \in Versions
       PROVE  Proper(Put("WRITE", n, v)) /\ IsWrite(Put("WRITE", n, v)) /\ Put("WRITE", n, v).message.body = n
  BY <1>4, <1>5 DEF Proper, IsWrite
<1>. QED
  BY <1>6, <1>7, <1>8, <1>9, <1>10

LEMMA PlainTuples ==
    /\ \A a : Proper(a) /\ ~IsWrite(a) => Plainly(<<a>>)
    /\ \A a, b : Proper(a) /\ ~IsWrite(a) /\ Proper(b) /\ ~IsWrite(b) => Plainly(<<a, b>>)
BY OneOrTwo DEF Plainly

\* The commands that ask and never write a file.
LEMMA PlainScripts ==
    /\ \A n \in DOMAIN Plain : Plainly(Plain[n])
    /\ \A r : Plainly(seek_mem_x(r)) /\ Plainly(cmd_mem_section(r)) /\ Plainly(cmd_raw_mem(r))
    /\ \A s \in ForeignReads : Plainly(s)
<1>1. ASSUME NEW k, NEW b, NEW e, k # "WRITE"
      PROVE  Plainly(communicate(k, b, e))
  BY <1>1, TheSteps, PlainTuples DEF communicate
<1>2. Plainly(check_mem_settings)
  BY <1>1 DEF check_mem_settings
<1>3. \A w \in {"crash", "list", "seek", "sections", "save"} : Plainly(<<Do(w)>>) /\ Plainly(<<Syn, Do(w)>>)
  BY TheSteps, PlainTuples
<1>4. Plainly(raw)
  BY <1>2, <1>3, PlainlyJoined DEF raw
<1>5. Plainly(flight_list)
  BY <1>2, <1>3, PlainlyJoined DEF flight_list
<1>6. ASSUME NEW k, NEW b, NEW e, k # "WRITE"
      PROVE  Plainly(<<[Ask(k, b, e) EXCEPT !.op = "most"]>>)
  <2>1. Proper([Ask(k, b, e) EXCEPT !.op = "most"]) /\ ~IsWrite([Ask(k, b, e) EXCEPT !.op = "most"])
    BY <1>6, TheSteps
  <2>. QED
    BY <2>1, PlainTuples
<1>7. Plainly(get_basic_data) /\ Plainly(get_flight_info)
  BY <1>2, <1>6, PlainlyJoined DEF get_basic_data, get_flight_info
<1>8. ASSUME NEW r
      PROVE  Plainly(seek_mem_x(r))
  BY TheSteps, PlainTuples DEF seek_mem_x
<1>9. Plainly(get_mem_section)
  BY TheSteps, PlainTuples DEF get_mem_section
<1>10. ASSUME NEW r
       PROVE  Plainly(cmd_mem_section(r)) /\ Plainly(cmd_raw_mem(r))
  <2>1. Plainly(<<Syn>>)
    BY TheSteps, PlainTuples
  <2>2. Plainly(cmd_mem_section(r))
    BY <1>2, <1>8, <1>9, <2>1, PlainlyJoined DEF cmd_mem_section
  <2>. QED
    BY <1>3, <2>2, PlainlyJoined DEF cmd_raw_mem
<1>11. Plainly(download_flight)
  <2>. DEFINE t == <<Syn, Syn, Do("list"), Do("seek")>>
  <2>1. Plainly(t)
    <3>1. t \in Seq({Syn, Do("list"), Do("seek")})
      OBVIOUS
    <3>. HIDE DEF t
    <3>2. t \in Seq(ToSet(t)) /\ ToSet(t) \subseteq {Syn, Do("list"), Do("seek")}
      BY <3>1, Members
    <3>. QED
      BY <3>2, TheSteps DEF Plainly
  <2>. HIDE DEF t
  <2>2. Plainly(check_mem_settings \o t \o get_mem_section \o <<Do("sections")>>)
    BY <1>2, <1>3, <1>9, <2>1, PlainlyJoined
  <2>. QED
    BY <2>2 DEF download_flight, t
<1>12. Plainly(cmd_read_tp_tsk)
  BY <1>1, <1>3, PlainlyJoined DEF cmd_read_tp_tsk
<1>13. \A n \in DOMAIN Plain :
         Plain[n] \in {raw, flight_list, get_basic_data, get_flight_info, download_flight, cmd_read_tp_tsk}
  BY DEF Plain
<1>14. \A s \in ForeignReads : Plainly(s)
  BY <1>1 DEF ForeignReads
<1>. QED
  BY <1>4, <1>5, <1>7, <1>8, <1>10, <1>11, <1>12, <1>13, <1>14

\* The commands that write.
LEMMA SendScript ==
    ASSUME NEW n \in Files \cup Registers, NEW v \in Versions
    PROVE  Legal(filser_send(n, v)) /\ Written(filser_send(n, v)) = {n}
<1>. DEFINE p == Put("WRITE", n, v)  t == <<Syn, p>>
<1>1. Proper(Syn) /\ ~IsWrite(Syn) /\ Proper(p) /\ IsWrite(p) /\ p.message.body = n
  BY TheSteps
<1>. HIDE DEF p
<1>2. t \in Seq(ToSet(t)) /\ ToSet(t) = {Syn, p} /\ DOMAIN t = {1, 2} /\ t[1] = Syn /\ t[2] = p
  BY OneOrTwo
<1>. HIDE DEF t
<1>3. Legal(t) /\ Written(t) = {n}
  BY <1>1, <1>2 DEF Legal, Written
<1>. QED
  BY <1>3 DEF t, p, filser_send

LEMMA BlockScript ==
    ASSUME NEW v \in Versions
    PROVE  /\ Legal(send_blocks(AptBlocks, v))
           /\ Written(send_blocks(AptBlocks, v)) = {AptFile[i] : i \in 1..AptBlocks}
<1>. DEFINE n == AptBlocks  t == send_blocks(n, v)  p(i) == Put("WRITE", AptFile[i], v)
            T == {Syn} \cup {p(i) : i \in 1..n}
<1>1. n \in 1..4 /\ \A i \in 1..n : AptFile[i] \in Files
  BY ToolAssumption, TheFiles
<1>2. \A i, j \in 1..n : AptFile[i] = AptFile[j] => i = j
  BY <1>1 DEF AptFile
<1>3. /\ Proper(Syn) /\ ~IsWrite(Syn)
      /\ \A i \in 1..n : Proper(p(i)) /\ IsWrite(p(i)) /\ p(i).message.body = AptFile[i]
  BY <1>1, TheSteps
<1>4. t = [i \in 1..2 * n |-> IF i % 2 = 1 THEN Syn ELSE p(i \div 2)]
  BY DEF send_blocks
<1>. HIDE DEF t, p
<1>5. ASSUME NEW i \in 1..2 * n
      PROVE  i % 2 = 1 \/ (i % 2 = 0 /\ i \div 2 \in 1..n /\ i = 2 * (i \div 2))
  BY <1>1
<1>6. /\ 2 * n \in Nat /\ DOMAIN t = 1..2 * n /\ t \in [1..2 * n -> T]
      /\ \A i \in DOMAIN t : \/ t[i] = Syn
                             \/ i \div 2 \in 1..n /\ i = 2 * (i \div 2) /\ t[i] = p(i \div 2)
  BY <1>1, <1>4, <1>5
<1>7. t \in Seq(ToSet(t)) /\ ToSet(t) \subseteq T
  <2>1. t \in Seq(T)
    <3>. HIDE DEF T
    <3>. QED
      BY <1>6, SeqDef
  <2>. HIDE DEF T
  <2>. QED
    BY <2>1, Members
<1>8. ASSUME NEW j \in DOMAIN t, NEW k \in DOMAIN t,
             IsWrite(t[j]), IsWrite(t[k]), t[j].message.body = t[k].message.body
      PROVE  j = k
  <2>1. /\ j \div 2 \in 1..n /\ j = 2 * (j \div 2) /\ t[j] = p(j \div 2)
        /\ k \div 2 \in 1..n /\ k = 2 * (k \div 2) /\ t[k] = p(k \div 2)
    BY <1>3, <1>6, <1>8
  <2>2. j \div 2 = k \div 2
    BY <1>2, <1>3, <1>8, <2>1
  <2>. QED
    BY <2>1, <2>2
<1>9. Legal(t)
  BY <1>3, <1>7, <1>8 DEF Legal
<1>10. ASSUME NEW i \in 1..n
       PROVE  AptFile[i] \in Written(t)
  <2>1. 2 * i \in 1..2 * n /\ (2 * i) % 2 = 0 /\ (2 * i) \div 2 = i
    BY <1>1
  <2>2. t[2 * i] = p(i)
    BY <1>4, <2>1
  <2>3. p(i) \in ToSet(t)
    BY <1>6, <2>1, <2>2 DEF ToSet
  <2>. QED
    BY <1>3, <2>3 DEF Written
<1>11. Written(t) \subseteq {AptFile[i] : i \in 1..n}
  BY <1>3, <1>7 DEF Written
<1>12. Written(t) = {AptFile[i] : i \in 1..n}
  BY <1>10, <1>11
<1>. QED
  BY <1>9, <1>12 DEF t

LEMMA AptScript ==
    ASSUME NEW v \in Versions
    PROVE  /\ Legal(cmd_write_apt(v))
           /\ v \notin Incomplete => Written(cmd_write_apt(v)) = AptFiles
<1>. DEFINE a == <<Syn, [Ask("0x70", 0, "nothing") EXCEPT !.op = "tell"]>>  b == send_blocks(AptBlocks, v)
            c == <<Do("crash")>>  d == filser_send("apt_state", v)  e == a \o b
<1>1. Legal(a) /\ Written(a) = {}
  <2>1. /\ Proper([Ask("0x70", 0, "nothing") EXCEPT !.op = "tell"])
        /\ ~IsWrite([Ask("0x70", 0, "nothing") EXCEPT !.op = "tell"])
    BY TheSteps
  <2>2. Plainly(a)
    BY <2>1, TheSteps, PlainTuples
  <2>. QED
    BY <2>2, PlainlyLegal
<1>2. Legal(b) /\ Written(b) = {AptFile[i] : i \in 1..AptBlocks}
  BY BlockScript
<1>3. Legal(c) /\ Written(c) = {}
  BY TheSteps, PlainTuples, PlainlyLegal
<1>4. Legal(d) /\ Written(d) = {"apt_state"}
  BY TheFiles, SendScript
<1>. HIDE DEF a, b, c, d
<1>5. Legal(e) /\ Written(e) = {AptFile[i] : i \in 1..AptBlocks}
  BY <1>1, <1>2, LegalJoined
<1>. HIDE DEF e
<1>6. Legal(e \o c)
  BY <1>3, <1>5, LegalJoined
<1>7. Legal(e \o d) /\ Written(e \o d) = AptFiles
  <2>1. AptBlocks \in 1..4
    BY ToolAssumption
  <2>2. "apt_state" \notin {AptFile[i] : i \in 1..AptBlocks}
    BY <2>1 DEF AptFile
  <2>3. Legal(e \o d) /\ Written(e \o d) = {AptFile[i] : i \in 1..AptBlocks} \cup {"apt_state"}
    BY <1>4, <1>5, <2>2, LegalJoined
  <2>. QED
    BY <2>3 DEF AptFiles
<1>8. cmd_write_apt(v) = e \o (IF v \in Incomplete THEN c ELSE d)
  BY DEF cmd_write_apt, a, b, c, d, e
<1>. QED
  BY <1>6, <1>7, <1>8

-----------------------------------------------------------------------------
(* The steps that matter: a command begins, a write is sent, is done, and  *)
(* is acknowledged.                                                        *)

LEMMA BeginStep ==
    ASSUME IInv, Begin
    PROVE  IInv' /\ UNCHANGED <<files, hope, unsure>>
<1>1. /\ UNCHANGED <<request, answer, tty, files, writing, hope, unsure>>
      /\ given' = given + 1 /\ pc' = "step"
  BY DEF Begin, wire, device, disk, promised
<1>2. Legal(script')
  <2>1. CASE \E n \in Commands \cap DOMAIN Plain : script' = Plain[n]
    BY <2>1, PlainScripts, PlainlyLegal
  <2>2. CASE \E r \in Ranges : script' = cmd_mem_section(r) \/ script' = cmd_raw_mem(r)
    BY <2>2, PlainScripts, PlainlyLegal
  <2>3. CASE \E v \in Versions : script' = cmd_write_tp_tsk(v)
    BY <2>3, SendScript, TheFiles DEF cmd_write_tp_tsk
  <2>4. CASE \E v \in Versions : script' = cmd_write_apt(v)
    BY <2>4, AptScript
  <2>5. CASE \E v \in Versions : \E s \in ForeignWrites(v) : script' = s
    <3>1. PICK v \in Versions, n \in Registers \cup {"contest_class"} : script' = filser_send(n, v)
      BY <2>5 DEF ForeignWrites
    <3>. QED
      BY <3>1, SendScript, TheFiles
  <2>6. CASE \E s \in ForeignReads : script' = s
    BY <2>6, PlainScripts, PlainlyLegal
  <2>. QED
    BY <2>1, <2>2, <2>3, <2>4, <2>5, <2>6 DEF Begin, Call
<1>3. given \in Nat /\ given + 1 \in Nat /\ \A g \in 0..given : g \in 0..given + 1 /\ g # given + 1
  BY DEF IInv, Stamped
<1>4. Replied' = Replied
  BY <1>1 DEF Replied
<1>5. Sequenced' /\ Steps' /\ Once'
  BY <1>1, <1>2 DEF IInv, Sequenced, Legal, Proper, Steps, Once, IsWrite
<1>6. Stored' /\ Stamped' /\ Pairs' /\ Ordered' /\ Hoped'
  BY <1>1, <1>3, <1>4 DEF IInv, Stored, Stamped, Pairs, Ordered, Hoped, Offered, Carries
<1>7. \A n : Fresh(n)'
  BY <1>1, <1>3, <1>4 DEF IInv, Stamped, Fresh, Acked
<1>8. NotYet' /\ Sent'
  BY <1>1, <1>7 DEF NotYet, Sent
<1>9. IInv'
  BY <1>5, <1>6, <1>8 DEF IInv
<1>. QED
  BY <1>1, <1>9

LEMMA seek_memStep ==
    ASSUME IInv, seek_mem
    PROVE  IInv' /\ UNCHANGED <<files, hope, unsure>>
<1>1. /\ UNCHANGED <<request, answer, tty, files, writing, given, hope, unsure, pc>>
      /\ pc = "step" /\ script # <<>> /\ \E r : script' = seek_mem_x(r) \o Tail(script)
  BY DEF seek_mem, At, wire, device, disk, promised
<1>2. PICK r : script' = seek_mem_x(r) \o Tail(script)
  BY <1>1
<1>. DEFINE s == seek_mem_x(r)  t == Tail(script)
<1>3. script \in Seq(ToSet(script))
  BY DEF IInv, Sequenced
<1>4. /\ t \in Seq(ToSet(t)) /\ ToSet(t) \subseteq ToSet(script)
      /\ \A j \in DOMAIN t : j + 1 \in DOMAIN script /\ j + 1 # 1 /\ t[j] = script[j + 1]
  BY <1>1, <1>3, Others
<1>5. \A j, k \in DOMAIN t : j + 1 = k + 1 => j = k
  BY <1>4, LenProperties
<1>6. Legal(t)
  BY <1>4, <1>5 DEF IInv, Steps, Once, Legal, Proper, IsWrite
<1>7. Legal(s) /\ Written(s) = {} /\ Plainly(s)
  BY PlainScripts, PlainlyLegal
<1>. HIDE DEF s, t
<1>8. Legal(s \o t) /\ script' = s \o t
  BY <1>2, <1>6, <1>7, LegalJoined DEF s, t
<1>9. s \in Seq(ToSet(s)) /\ t \in Seq(ToSet(t))
  BY <1>6, <1>7 DEF Legal
<1>10. \A i \in DOMAIN s : (s \o t)[i] = s[i]
  BY <1>9, Joined
<1>11. \A i \in DOMAIN (s \o t) : i \in DOMAIN s \/ (i - Len(s) \in DOMAIN t /\ (s \o t)[i] = t[i - Len(s)])
  BY <1>9, Joined
<1>12. \A i \in DOMAIN s : ~IsWrite(s[i])
  BY <1>7 DEF Plainly, ToSet
<1>13. ASSUME NEW j \in DOMAIN script', IsWrite(script'[j])
       PROVE  \E k \in DOMAIN script : script'[j] = script[k] /\ (pc = "wait" => k # 1)
  <2>1. j - Len(s) \in DOMAIN t /\ script'[j] = t[j - Len(s)]
    BY <1>8, <1>10, <1>11, <1>12, <1>13
  <2>. QED
    BY <1>4, <2>1 DEF t
<1>14. Steps' /\ Once' /\ script' \in Seq(ToSet(script')) /\ Stored'
  BY <1>1, <1>8 DEF Legal, Proper, Steps, Once, IsWrite, IInv, Stored
<1>15. <<>> \in Seq(ToSet(<<>>)) /\ ToSet(<<>>) = {}
  BY OneOrTwo
<1>16. tty' \in Seq(ToSet(tty')) /\ ToSet(tty') \subseteq ToSet(tty)
  BY <1>1 DEF IInv, Sequenced
<1>17. IInv'
  BY <1>1, <1>13, <1>14, <1>15, <1>16, ToolStep
<1>. QED
  BY <1>1, <1>17

\* A request that is no write; the tool waits for its answer.
LEMMA AskStep ==
    ASSUME IInv, Send, ~Stores
    PROVE  IInv' /\ UNCHANGED <<files, hope, unsure>>
<1>. DEFINE step == Head(script)
            new == Of(IF step.op = "put" THEN <<step.message, Msg("packet", step.packet)>> ELSE <<step.message>>, given)
<1>1. /\ UNCHANGED <<answer, files, writing, given, hope, unsure, script>>
      /\ request' = request \o new /\ tty' = <<>> /\ pc' = "wait"
  BY DEF Send, FlushAndWrite, device, disk, promised
<1>2. pc = "step" /\ script # <<>> /\ step.op \in {"ask", "most", "put"} /\ ~IsWrite(step)
  BY DEF Send, At, Stores, IsWrite
<1>3. script \in Seq(ToSet(script)) /\ given \in 0..given
  BY DEF IInv, Sequenced, Stamped
<1>4. step \in ToSet(script) /\ step = script[1]
  BY <1>2, <1>3, Others
<1>5. step.message = Msg(step.message.kind, step.message.body) /\ step.message.kind # "WRITE"
  BY <1>2, <1>4 DEF IInv, Steps, IsWrite
<1>6. new \in Seq(ToSet(new)) /\ \A m \in ToSet(new) : m.kind # "WRITE" /\ m.of \in 0..given
  <2>. DEFINE m == step.message  p == Msg("packet", step.packet)  s == IF step.op = "put" THEN <<m, p>> ELSE <<m>>
  <2>1. s \in Seq(ToSet(s)) /\ ToSet(s) \subseteq {m, p}
    <3>1. s = <<m, p>> \/ s = <<m>>
      OBVIOUS
    <3>. HIDE DEF m, p, s
    <3>2. CASE s = <<m, p>>
      BY <3>2, OneOrTwo
    <3>3. CASE s = <<m>>
      BY <3>3, OneOrTwo
    <3>. QED
      BY <3>1, <3>2, <3>3
  <2>2. /\ [m EXCEPT !.of = given].kind # "WRITE" /\ [m EXCEPT !.of = given].of = given
        /\ [p EXCEPT !.of = given].kind # "WRITE" /\ [p EXCEPT !.of = given].of = given
    BY <1>5, Fields
  <2>. HIDE DEF m, p, s
  <2>3. Of(s, given) \in Seq(ToSet(Of(s, given))) /\ ToSet(Of(s, given)) = {[x EXCEPT !.of = given] : x \in ToSet(s)}
    BY <2>1, Stamping
  <2>4. \A x \in ToSet(Of(s, given)) : x.kind # "WRITE" /\ x.of \in 0..given
    BY <1>3, <2>1, <2>2, <2>3
  <2>. QED
    BY <2>3, <2>4 DEF s, m, p
<1>. HIDE DEF new
<1>7. /\ script' \in Seq(ToSet(script')) /\ Steps' /\ Once' /\ Stored' /\ tty' \in Seq(ToSet(tty'))
      /\ ToSet(tty') \subseteq ToSet(tty)
  BY <1>1, <1>3, OneOrTwo DEF IInv, Steps, Once, Stored
<1>8. IInv'
  BY <1>1, <1>2, <1>4, <1>6, <1>7, ToolStep
<1>. QED
  BY <1>1, <1>8

\* A write: there is none of the same thing by the same command, and none of
\* an earlier command behind it.
LEMMA SendStep ==
    ASSUME IInv, Send, Stores
    PROVE  /\ IInv' /\ UNCHANGED files
           /\ \E n \in Files \cup Registers : \E v \in Versions :
                hope' = [hope EXCEPT ![n] = @ \cup {Content(n, v)}] /\ unsure' = unsure \cup {n}
<1>. DEFINE step == Head(script)  n == step.message.body  v == step.packet
            a == Msg("WRITE", n)  b == Msg("packet", v)  new == Of(<<a, b>>, given)  L == Len(request)
<1>1. /\ pc = "step" /\ script # <<>> /\ step.op = "put" /\ step.message.kind = "WRITE"
  BY DEF Send, At, Stores
<1>2. script \in Seq(ToSet(script)) /\ request \in Seq(ToSet(request)) /\ given \in Nat /\ given \in 0..given
  BY DEF IInv, Sequenced, Stamped
<1>3. step \in ToSet(script) /\ step = script[1] /\ 1 \in DOMAIN script
  BY <1>1, <1>2, Others
<1>4. step.message = a /\ n \in Files \cup Registers /\ v \in Versions
  BY <1>1, <1>3 DEF IInv, Steps, IsWrite
<1>5. /\ UNCHANGED <<answer, files, writing, given, script>>
      /\ request' = request \o new /\ tty' = <<>> /\ pc' = "wait"
      /\ hope' = [hope EXCEPT ![n] = @ \cup {Content(n, v)}] /\ unsure' = unsure \cup {n}
  BY <1>1, <1>4 DEF Send, Stores, FlushAndWrite, device, disk
<1>6. Fresh(n)
  BY <1>1, <1>3 DEF IInv, NotYet, IsWrite
<1>7. /\ new \in Seq(ToSet(new)) /\ Len(new) = 2 /\ DOMAIN new = {1, 2}
      /\ new[1].kind = "WRITE" /\ new[1].body = n /\ new[1].of = given
      /\ new[2].kind = "packet" /\ new[2].body = v /\ new[2].of = given
      /\ \A m \in ToSet(new) : m = new[1] \/ m = new[2]
  <2>. HIDE DEF n, v
  <2>1. /\ <<a, b>> \in Seq(ToSet(<<a, b>>)) /\ Len(<<a, b>>) = 2 /\ DOMAIN <<a, b>> = {1, 2}
        /\ <<a, b>>[1] = a /\ <<a, b>>[2] = b
    BY OneOrTwo
  <2>2. /\ [a EXCEPT !.of = given].kind = "WRITE" /\ [a EXCEPT !.of = given].body = n /\ [a EXCEPT !.of = given].of = given
        /\ [b EXCEPT !.of = given].kind = "packet" /\ [b EXCEPT !.of = given].body = v /\ [b EXCEPT !.of = given].of = given
    BY Fields
  <2>. DEFINE s == <<a, b>>
  <2>. HIDE DEF a, b, s
  <2>3. /\ Of(s, given) \in Seq(ToSet(Of(s, given))) /\ Len(Of(s, given)) = Len(s) /\ DOMAIN Of(s, given) = DOMAIN s
        /\ \A i \in DOMAIN s : Of(s, given)[i] = [s[i] EXCEPT !.of = given]
    BY <2>1, Stamping DEF s
  <2>4. Of(s, given)[1] = [a EXCEPT !.of = given] /\ Of(s, given)[2] = [b EXCEPT !.of = given]
    BY <2>1, <2>3 DEF s
  <2>5. new = Of(s, given)
    BY DEF s
  <2>. HIDE DEF new
  <2>6. \A m \in ToSet(new) : m = new[1] \/ m = new[2]
    BY <2>1, <2>3, <2>5 DEF ToSet, s
  <2>. QED
    BY <2>1, <2>2, <2>3, <2>4, <2>5, <2>6 DEF s
<1>. HIDE DEF new, a, b, n, v, step
<1>8. L \in Nat /\ DOMAIN request = 1..L
  BY <1>2, LenProperties
<1>9. /\ request' \in Seq(ToSet(request')) /\ ToSet(request') = ToSet(request) \cup ToSet(new)
      /\ DOMAIN request' = 1..L + 2
      /\ \A i \in DOMAIN request : i \in DOMAIN request' /\ request'[i] = request[i]
      /\ request'[L + 1] = new[1] /\ request'[L + 2] = new[2]
  <2>1. new \in Seq(ToSet(new))
    BY <1>7
  <2>. DEFINE r == request \o new
  <2>2. /\ r \in Seq(ToSet(r)) /\ ToSet(r) = ToSet(request) \cup ToSet(new)
        /\ Len(r) = Len(request) + Len(new) /\ DOMAIN r = 1..Len(r)
    BY <1>2, <2>1, Joined
  <2>3. \A i \in DOMAIN request : i \in DOMAIN r /\ r[i] = request[i]
    BY <1>2, <2>1, Joined
  <2>4. \A i \in DOMAIN r : i \in DOMAIN request \/ (i - L \in DOMAIN new /\ r[i] = new[i - L])
    BY <1>2, <2>1, Joined
  <2>. HIDE DEF r
  <2>5. DOMAIN r = 1..L + 2
    BY <1>7, <2>2
  <2>6. /\ L + 1 \in DOMAIN r /\ L + 1 \notin DOMAIN request /\ L + 1 - L = 1
        /\ L + 2 \in DOMAIN r /\ L + 2 \notin DOMAIN request /\ L + 2 - L = 2
    BY <1>8, <2>5
  <2>7. r[L + 1] = new[1] /\ r[L + 2] = new[2]
    BY <2>4, <2>6
  <2>. QED
    BY <1>5, <2>2, <2>3, <2>5, <2>7 DEF r
<1>10. ASSUME NEW i \in DOMAIN request', request'[i].kind = "WRITE"
       PROVE  \/ /\ i \in DOMAIN request /\ request'[i] = request[i] /\ request[i] \in ToSet(request)
                 /\ i + 1 \in DOMAIN request' /\ request'[i + 1] = request[i + 1]
                 /\ i < L + 1
              \/ /\ i = L + 1 /\ request'[i] = new[1]
                 /\ i + 1 \in DOMAIN request' /\ request'[i + 1] = new[2]
  <2>1. CASE i \in DOMAIN request
    <3>1. request'[i] = request[i]
      BY <1>9, <2>1
    <3>2. i + 1 \in DOMAIN request
      BY <1>10, <2>1, <3>1 DEF IInv, Pairs
    <3>. QED
      BY <1>8, <1>9, <2>1, <3>1, <3>2, SMTT(60) DEF ToSet
  <2>2. CASE i \notin DOMAIN request
    <3>1. i = L + 1 \/ i = L + 2
      BY <1>8, <1>9, <2>2
    <3>2. i # L + 2
      BY <1>7, <1>9, <1>10
    <3>3. L + 1 + 1 = L + 2 /\ L + 1 + 1 \in DOMAIN request'
      BY <1>8, <1>9
    <3>. QED
      BY <1>9, <3>1, <3>2, <3>3
  <2>. QED
    BY <2>1, <2>2
<1>11. /\ Stored' /\ \A f \in Files \cup Registers : hope[f] \subseteq hope'[f]
       /\ n \in Files => Whole(v) \in hope'[n]
  <2>1. hope = [f \in Files \cup Registers |-> hope[f]]
    BY DEF IInv, Stored
  <2>2. /\ hope' = [f \in Files \cup Registers |-> hope'[f]]
        /\ \A f \in Files \cup Registers : hope[f] \subseteq hope'[f]
        /\ Content(n, v) \in hope'[n]
    BY <1>4, <1>5, <2>1
  <2>. QED
    BY <1>5, <2>2 DEF IInv, Stored, Content
<1>12. ToSet(tty') = {} /\ tty' \in Seq(ToSet(tty'))
  BY <1>5, OneOrTwo
<1>13. \A m \in Replied' : m \in Replied
  BY <1>5, <1>12 DEF Replied
<1>14. Sequenced' /\ Steps' /\ Once'
  BY <1>1, <1>5, <1>9, <1>12 DEF IInv, Sequenced, Steps, Once
<1>15. Stamped'
  BY <1>2, <1>5, <1>7, <1>9, <1>13 DEF IInv, Stamped
<1>16. Pairs'
  BY <1>4, <1>7, <1>10 DEF IInv, Pairs
<1>17. Ordered'
  <2>1. ASSUME NEW i \in DOMAIN request', NEW j \in DOMAIN request',
               request'[i].kind = "WRITE", request'[j].kind = "WRITE", i < j
        PROVE  /\ request'[i].of <= request'[j].of
               /\ request'[i].of = request'[j].of => request'[i].body # request'[j].body
    <3>1. i \in DOMAIN request /\ request'[i] = request[i] /\ request[i] \in ToSet(request)
      <4>1. i # L + 1
        BY <1>8, <1>10, <2>1
      <4>. QED
        BY <1>10, <2>1, <4>1
    <3>2. CASE j = L + 1
      <4>1. request'[j].of = given /\ request'[j].body = n
        BY <1>7, <1>9, <3>2
      <4>2. request[i].of \in 0..given /\ (request[i].of = given => request[i].body # n)
        BY <1>6, <2>1, <3>1 DEF IInv, Stamped, Fresh
      <4>. QED
        BY <3>1, <4>1, <4>2
    <3>3. CASE j # L + 1
      <4>1. j \in DOMAIN request /\ request'[j] = request[j]
        BY <1>10, <2>1, <3>3
      <4>. QED
        BY <2>1, <3>1, <4>1 DEF IInv, Ordered
    <3>. QED
      BY <3>2, <3>3
  <2>2. ASSUME NEW i \in DOMAIN request', request'[i].kind = "WRITE", writing # NoWrite
        PROVE  /\ writing.of <= request'[i].of
               /\ writing.of = request'[i].of => writing.name # request'[i].body
    <3>1. CASE i = L + 1
      <4>1. request'[i].of = given /\ request'[i].body = n
        BY <1>7, <1>9, <3>1
      <4>2. writing.of \in 0..given /\ (writing.of = given => writing.name # n)
        BY <1>6 DEF IInv, Stamped, Fresh
      <4>. QED
        BY <4>1, <4>2
    <3>2. CASE i # L + 1
      <4>1. i \in DOMAIN request /\ request'[i] = request[i]
        BY <1>10, <2>2, <3>2
      <4>. QED
        BY <2>2, <4>1 DEF IInv, Ordered
    <3>. QED
      BY <3>1, <3>2
  <2>. QED
    BY <1>5, <2>1, <2>2 DEF Ordered
<1>18. Hoped'
  <2>1. ASSUME NEW i \in DOMAIN request', Carries(i)', request'[i].body \in Files
        PROVE  Offered(request[i].body, request[i + 1].body)'
    <3>0. request'[i].kind = "WRITE"
      BY <2>1 DEF Carries
    <3>1. CASE i = L + 1
      <4>1. request'[i].body = n /\ request'[i + 1].body = v
        BY <1>7, <1>8, <1>10, <3>0, <3>1
      <4>. QED
        BY <1>4, <1>5, <1>11, <2>1, <4>1 DEF Offered
    <3>2. CASE i # L + 1
      <4>1. i \in DOMAIN request /\ request'[i] = request[i] /\ request'[i + 1] = request[i + 1]
        BY <1>10, <3>0, <3>2
      <4>2. Offered(request[i].body, request[i + 1].body)
        BY <2>1, <4>1 DEF IInv, Hoped, Carries
      <4>. QED
        BY <1>5, <1>11, <2>1, <4>1, <4>2 DEF Offered
    <3>. QED
      BY <3>1, <3>2
  <2>2. ASSUME writing # NoWrite
        PROVE  writing.name \in Files /\ Offered(writing.name, writing.version)' /\ files[writing.name] = <<>>
    <3>1. writing.name \in Files /\ Offered(writing.name, writing.version) /\ files[writing.name] = <<>>
      BY <2>2 DEF IInv, Hoped
    <3>. QED
      BY <1>5, <1>11, <3>1 DEF Offered
  <2>. QED
    BY <1>5, <2>1, <2>2 DEF Hoped, Offered
<1>19. NotYet'
  <2>1. ASSUME NEW j \in DOMAIN script, IsWrite(script[j]), j # 1
        PROVE  Fresh(script[j].message.body)'
    <3>1. Fresh(script[j].message.body)
      BY <1>1, <2>1 DEF IInv, NotYet
    <3>2. script[j].message.body # n
      BY <1>1, <1>3, <2>1 DEF IInv, Once, IsWrite, n
    <3>. QED
      BY <1>5, <1>7, <1>9, <1>13, <3>1, <3>2 DEF Fresh, Acked
  <2>. QED
    BY <1>5, <2>1 DEF NotYet, IsWrite
<1>20. Sent'
  <2>1. script'[1].message.body = n /\ script'[1].packet = v
    BY <1>3, <1>5 DEF n, v
  <2>2. ASSUME NEW i \in DOMAIN request',
               Carries(i)', request'[i].body = n, request'[i].of = given
        PROVE  request'[i + 1].body = v
    <3>0. request'[i].kind = "WRITE"
      BY <2>2 DEF Carries
    <3>1. i = L + 1
      <4>1. ~(request'[i] \in ToSet(request))
        BY <1>6, <2>2, <3>0 DEF Fresh
      <4>. QED
        BY <1>10, <3>0, <4>1
    <3>2. request'[i + 1] = new[2]
      BY <1>8, <1>10, <3>0, <3>1
    <3>. QED
      BY <1>7, <3>2
  <2>3. ~(writing.name = n /\ writing.of = given) /\ ~(\E m \in Replied : m.kind = "ACK" /\ m.of = given /\ m.body = n)
    BY <1>6 DEF Fresh, Acked
  <2>4. ~Acked(script[1].message.body)'
    BY <1>5, <1>13, <2>1, <2>3 DEF Acked
  <2>5. /\ UNCHANGED <<script, given, writing>> /\ script[1].message.body = n /\ script[1].packet = v
    BY <1>5, <2>1
  <2>. QED
    BY <2>2, <2>3, <2>4, <2>5 DEF Sent
<1>21. IInv'
  BY <1>11, <1>14, <1>15, <1>16, <1>17, <1>18, <1>19, <1>20 DEF IInv
<1>. QED
  BY <1>4, <1>5, <1>21

\* What is expected comes.  When it is the ACK for a write of a file, that
\* write is done, and no older one is left.
LEMMA ReceiveStep ==
    ASSUME IInv, Receive
    PROVE  /\ IInv' /\ UNCHANGED files
           /\ \/ UNCHANGED <<hope, unsure>>
              \/ \E n \in Files \cup Registers : \E v \in Versions :
                   /\ hope' = [hope EXCEPT ![n] = {Content(n, v)}] /\ unsure' = unsure \ {n}
                   /\ n \in Files => files[n] = Whole(v)
<1>. DEFINE step == Head(script)  n == step.message.body  v == step.packet  m == Head(tty)
<1>1. /\ pc = "wait" /\ tty # <<>> /\ tty' = Tail(tty) /\ Done /\ script # <<>>
      /\ UNCHANGED <<request, answer, files, writing, given>>
  BY DEF Receive, Read, device, disk, IInv, Sequenced
<1>2. Advances /\ script' # script /\ pc' = "step"
  BY <1>1, Doing
<1>3. CASE UNCHANGED <<hope, unsure>>
  BY <1>1, <1>2, <1>3, WorksStep DEF Works
<1>4. CASE ~UNCHANGED <<hope, unsure>>
  <2>1. /\ Stores /\ m.kind = "ACK" /\ m.of = given /\ m.body = n
        /\ hope' = [hope EXCEPT ![n] = {Content(n, v)}] /\ unsure' = unsure \ {n}
    BY <1>4 DEF Receive, Misread, Subject, Expected, Stores, promised
  <2>2. script \in Seq(ToSet(script)) /\ tty \in Seq(ToSet(tty))
    BY DEF IInv, Sequenced
  <2>3. step \in ToSet(script) /\ step = script[1] /\ IsWrite(step) /\ IsWrite(script[1])
    BY <1>1, <2>1, <2>2, Others DEF Stores, IsWrite
  <2>4. n \in Files \cup Registers /\ v \in Versions
    BY <2>3 DEF IInv, Steps
  <2>5. m \in ToSet(tty) /\ tty' \in Seq(ToSet(tty')) /\ ToSet(tty') \subseteq ToSet(tty)
    BY <1>1, <2>2, Others
  <2>6. Acked(script[1].message.body)
    BY <2>1, <2>3, <2>5 DEF Acked, Replied
  <2>7. script[1].message.body = n /\ script[1].packet = v
    BY <2>3
  <2>. HIDE DEF n, v, m, step
  <2>8. n \in Files => files[n] = Whole(v) /\ ~InFlight(n)
    BY <1>1, <2>3, <2>6, <2>7 DEF IInv, Sent
  <2>9. Stored'
    <3>1. hope = [f \in Files \cup Registers |-> hope[f]]
      BY DEF IInv, Stored
    <3>2. hope' = [f \in Files \cup Registers |-> hope'[f]]
      BY <2>1, <3>1
    <3>. QED
      BY <1>1, <3>2 DEF IInv, Stored
  <2>10. \A f \in Files : InFlight(f) /\ f \in unsure => hope'[f] = hope[f] /\ f \in unsure'
    <3>1. hope = [f \in Files \cup Registers |-> hope[f]]
      BY DEF IInv, Stored
    <3>2. \A f \in Files : f # n => hope'[f] = hope[f]
      BY <2>1, <3>1
    <3>. QED
      BY <2>1, <2>8, <3>2
  <2>11. /\ script' \in Seq(ToSet(script')) /\ Steps' /\ Once'
         /\ \A j \in DOMAIN script' : IsWrite(script'[j]) =>
              \E k \in DOMAIN script : script'[j] = script[k] /\ (pc = "wait" => k # 1)
    BY <1>2, ScriptStep
  <2>12. <<>> \in Seq(ToSet(<<>>)) /\ \A x \in ToSet(<<>>) : x.kind # "WRITE" /\ x.of \in 0..given
    BY OneOrTwo
  <2>13. IInv'
    BY <1>1, <1>2, <2>5, <2>9, <2>10, <2>11, <2>12, ToolStep
  <2>. QED
    BY <1>1, <2>1, <2>4, <2>8, <2>13
<1>. QED
  BY <1>3, <1>4

-----------------------------------------------------------------------------
(* The steps of fakefilser that write.                                     *)

\* The file is emptied; or fakefilser ends, over a packet that is not right.
LEMMA StartStep ==
    ASSUME IInv, handle_write_file \/ handle_apt_upload
    PROVE  /\ IInv' /\ UNCHANGED <<hope, unsure>>
           /\ UNCHANGED files \/ \E n \in Files : n \in unsure /\ files' = [files EXCEPT ![n] = <<>>]
<1>1. PICK n \in Files : StartWrite(n)
  BY TheFiles DEF handle_write_file, handle_apt_upload
<1>2. /\ Serving(2) /\ request[1].kind = "WRITE" /\ request[1].body = n
      /\ writing = NoWrite /\ Len(request) >= 2 /\ request' = SubSeq(request, 2 + 1, Len(request))
      /\ UNCHANGED <<answer, tty, hope, unsure, given, script, pc>>
  BY <1>1 DEF StartWrite, Given, Serving, tool, promised
<1>3. CASE UNCHANGED disk
  <2>1. UNCHANGED <<files, writing>>
    BY <1>3 DEF disk
  <2>2. <<>> \in Seq(ToSet(<<>>)) /\ ToSet(<<>>) = {}
    BY OneOrTwo
  <2>3. answer' = answer
    BY <1>2
  <2>4. IInv'
    BY <1>2, <2>1, <2>2, <2>3, ServeStep
  <2>. QED
    BY <1>2, <2>1, <2>4
<1>4. CASE ~UNCHANGED disk
  <2>. DEFINE v == request[2].body
  <2>1. /\ request[2].kind = "packet" /\ files' = [files EXCEPT ![n] = <<>>]
        /\ writing' = [name |-> n, version |-> v, of |-> request[2].of]
    BY <1>1, <1>4 DEF StartWrite, Packet, Truncated
  <2>2. Len(request) \in Nat /\ request \in Seq(ToSet(request)) /\ DOMAIN request = 1..Len(request)
    BY LenProperties DEF IInv, Sequenced
  <2>3. 1 \in DOMAIN request /\ 1 + 1 = 2 /\ 2 \in DOMAIN request /\ 2 \in 0..Len(request)
    BY <1>2, <2>2
  <2>4. /\ request' \in Seq(ToSet(request')) /\ ToSet(request') \subseteq ToSet(request)
        /\ \A i \in DOMAIN request' : 2 + i \in DOMAIN request /\ request'[i] = request[2 + i] /\ i \in Nat
    <3>1. /\ request' \in Seq(ToSet(request')) /\ ToSet(request') \subseteq ToSet(request)
          /\ \A i \in DOMAIN request' : 2 + i \in DOMAIN request /\ request'[i] = request[2 + i]
      BY <1>2, <2>2, <2>3, Rest, ZenonT(60)
    <3>. QED
      BY <3>1, LenProperties
  <2>5. request[1].of \in 0..given /\ request[2].of = request[1].of /\ request[1] \in ToSet(request)
    BY <1>2, <2>1, <2>3 DEF IInv, Pairs, Stamped, ToSet
  <2>6. n \in unsure /\ Whole(v) \in hope[n] /\ v \in Versions
    BY <1>2, <2>1, <2>3 DEF IInv, Hoped, Offered, Carries
  <2>. DEFINE g == request[1].of
  <2>7. writing'.name = n /\ writing'.version = v /\ writing'.of = g /\ writing'.of \in 0..given
    BY <2>1, <2>5
  <2>. HIDE DEF v, g
  <2>8. ASSUME NEW i \in DOMAIN request', request'[i].kind = "WRITE"
        PROVE  /\ 2 + i \in DOMAIN request /\ request[2 + i] = request'[i] /\ request'[i] \in ToSet(request)
               /\ i + 1 \in DOMAIN request' /\ request'[i + 1] = request[(2 + i) + 1] /\ 1 < 2 + i
    <3>1. 2 + i \in DOMAIN request /\ request[2 + i] = request'[i] /\ i \in Nat
      BY <2>4
    <3>2. (2 + i) + 1 \in DOMAIN request
      BY <2>8, <3>1 DEF IInv, Pairs
    <3>3. Len(request') = Len(request) - 2 /\ DOMAIN request' = 1..Len(request')
      BY <1>2, <2>2, <2>3, Rest
    <3>4. i + 1 \in DOMAIN request' /\ 2 + (i + 1) = (2 + i) + 1 /\ 1 < 2 + i
      BY <2>2, <3>1, <3>2, <3>3
    <3>. QED
      BY <2>4, <3>1, <3>4 DEF ToSet
  <2>9. Replied' = Replied
    BY <1>2 DEF Replied
  <2>10. Sequenced' /\ Steps' /\ Once'
    BY <1>2, <2>4 DEF IInv, Sequenced, Steps, Once
  <2>11. Stored'
    <3>1. <<>> \in Pieces
      <4>1. v \in Versions /\ 0 \in 0..Chunks /\ <<>> = [i \in 1..0 |-> v]
        BY <2>6, TheFiles
      <4>. QED
        BY <4>1 DEF Pieces
    <3>. QED
      BY <1>2, <2>1, <3>1 DEF IInv, Stored
  <2>12. Stamped'
    BY <1>2, <2>4, <2>7, <2>9 DEF IInv, Stamped
  <2>13. Pairs'
    BY <2>8 DEF IInv, Pairs
  <2>14. ASSUME NEW i \in DOMAIN request', request'[i].kind = "WRITE"
         PROVE  g <= request'[i].of /\ (g = request'[i].of => n # request'[i].body)
    BY <1>2, <2>3, <2>8, <2>14 DEF IInv, Ordered, g
  <2>15. Ordered'
    <3>1. ASSUME NEW i \in DOMAIN request', NEW j \in DOMAIN request',
                 request'[i].kind = "WRITE", request'[j].kind = "WRITE", i < j
          PROVE  /\ request'[i].of <= request'[j].of
                 /\ request'[i].of = request'[j].of => request'[i].body # request'[j].body
      <4>1. 2 + i < 2 + j
        BY <2>4, <3>1
      <4>. QED
        BY <2>8, <3>1, <4>1 DEF IInv, Ordered
    <3>. QED
      BY <2>7, <2>14, <3>1 DEF Ordered
  <2>16. Hoped'
    <3>1. ASSUME NEW i \in DOMAIN request', Carries(i)', request'[i].body \in Files
          PROVE  Offered(request[i].body, request[i + 1].body)'
      BY <1>2, <2>8, <3>1 DEF IInv, Hoped, Carries, Offered
    <3>2. n \in Files /\ Offered(writing.name, writing.version)' /\ files'[n] = <<>>
      BY <1>2, <2>1, <2>6, <2>7 DEF Offered, IInv, Stored
    <3>. QED
      BY <2>7, <3>1, <3>2 DEF Hoped, Offered
  <2>17. NotYet'
    <3>1. ASSUME NEW m, Fresh(m)
          PROVE  Fresh(m)'
      <4>1. ~(n = m /\ g = given)
        BY <1>2, <2>5, <3>1 DEF Fresh, g
      <4>. QED
        BY <1>2, <2>4, <2>7, <2>9, <3>1, <4>1 DEF Fresh, Acked
    <3>. QED
      BY <1>2, <3>1 DEF IInv, NotYet, IsWrite
  <2>18. Sent'
    <3>. SUFFICES ASSUME pc = "wait", IsWrite(script[1])
                  PROVE  Sent'
      BY <1>2 DEF Sent, IsWrite
    <3>. DEFINE w == script[1].message.body  p == script[1].packet
    <3>1. /\ \A i \in DOMAIN request : Carries(i) /\ request[i].body = w /\ request[i].of = given
               => request[i + 1].body = p
          /\ w \in Files /\ Acked(w) => files[w] = Whole(p) /\ ~InFlight(w)
      BY DEF IInv, Sent
    <3>2. ASSUME NEW i \in DOMAIN request', Carries(i)', request'[i].body = w, request'[i].of = given
          PROVE  request'[i + 1].body = p
      BY <2>8, <3>1, <3>2 DEF Carries
    <3>3. n = w /\ g = given => v = p
      BY <1>2, <2>1, <2>3, <3>1 DEF Carries, g, v
    <3>4. Acked(w) /\ w \in Files => w # n
      BY <1>2, <2>5, <3>1 DEF InFlight
    <3>5. ASSUME w \in Files, Acked(w)
          PROVE  files'[w] = Whole(p) /\ ~InFlight(script[1].message.body)'
      <4>1. files[w] = Whole(p) /\ ~InFlight(w) /\ w # n
        BY <3>1, <3>4, <3>5
      <4>2. \A m \in ToSet(request') : ~(m.kind = "WRITE" /\ m.body = w)
        BY <2>4, <4>1 DEF InFlight
      <4>. QED
        BY <1>2, <2>1, <2>7, <4>1, <4>2 DEF InFlight, IInv, Stored
    <3>6. Acked(script[1].message.body)' => Acked(w)
      BY <1>2, <2>9 DEF Acked
    <3>. QED
      BY <1>2, <2>7, <3>2, <3>3, <3>5, <3>6 DEF Sent
  <2>19. IInv'
    BY <2>10, <2>11, <2>12, <2>13, <2>15, <2>16, <2>17, <2>18 DEF IInv
  <2>. QED
    BY <1>2, <2>1, <2>6, <2>19
<1>. QED
  BY <1>3, <1>4

\* A database that is written into an empty file.
LEMMA Writing ==
    ASSUME NEW v \in Versions, NEW k \in 0..Chunks
    PROVE  /\ Overwritten(<<>>, Whole(v), k) \in Pieces
           /\ k = Chunks => Overwritten(<<>>, Whole(v), k) = Whole(v)
           /\ Readable(Overwritten(<<>>, Whole(v), k)) <=> k = Chunks
<1>1. Chunks \in Nat /\ k \in Nat /\ \A i \in 1..k : i <= k /\ i \in 1..Chunks
  <2>1. Chunks \in Nat
    BY ToolAssumption
  <2>. QED
    BY <2>1
<1>2. DOMAIN <<>> = {}
  BY OneOrTwo
<1>3. Overwritten(<<>>, Whole(v), k) = [i \in 1..k |-> v]
  BY <1>1, <1>2 DEF Overwritten, Whole
<1>4. Len([i \in 1..k |-> v]) = k
  <2>1. [i \in 1..k |-> v] \in Seq(Versions)
    BY <1>1, SeqDef
  <2>2. Len([i \in 1..k |-> v]) \in Nat /\ 1..Len([i \in 1..k |-> v]) = 1..k
    BY <2>1, LenProperties
  <2>3. \A a, b \in Nat : 1..a = 1..b => a = b
    OBVIOUS
  <2>. QED
    BY <1>1, <2>2, <2>3
<1>5. Overwritten(<<>>, Whole(v), k) \in Pieces
  BY <1>3 DEF Pieces
<1>6. k = Chunks => Overwritten(<<>>, Whole(v), k) = Whole(v)
  BY <1>3 DEF Whole
<1>7. Readable(Overwritten(<<>>, Whole(v), k)) <=> k = Chunks
  BY <1>3, <1>4 DEF Readable
<1>. QED
  BY <1>5, <1>6, <1>7

\* The file is written, and the ACK is sent; or there is no room for it.
LEMMA FinishStep ==
    ASSUME IInv, FinishWrite
    PROVE  /\ IInv' /\ UNCHANGED <<hope, unsure>>
           /\ \E n \in Files : \E v \in Versions : \E k \in 0..Chunks :
                /\ n \in unsure /\ Whole(v) \in hope[n] /\ files[n] = <<>>
                /\ files' = [files EXCEPT ![n] = Overwritten(<<>>, Whole(v), k)]
<1>. DEFINE n == writing.name  v == writing.version  g == writing.of  ack == Of(<<Ack(n)>>, g)
<1>1. /\ writing # NoWrite /\ writing' = NoWrite
      /\ UNCHANGED <<request, tty, hope, unsure, given, script, pc>>
  BY DEF FinishWrite, tool, promised
<1>2. n \in Files /\ n \in unsure /\ Whole(v) \in hope[n] /\ v \in Versions /\ files[n] = <<>> /\ g \in 0..given
  BY <1>1 DEF IInv, Hoped, Offered, Stamped
<1>3. PICK k \in 0..Chunks :
        /\ files' = [files EXCEPT ![n] = Overwritten(@, Whole(v), k)]
        /\ answer' = answer \/ (k = Chunks /\ answer' = answer \o ack)
  <2>1. Chunks \in 0..Chunks /\ \A k \in 0..Chunks - 1 : k \in 0..Chunks
    <3>1. Chunks \in Nat
      BY ToolAssumption
    <3>. QED
      BY <3>1
  <2>2. CASE /\ files' = [files EXCEPT ![n] = Overwritten(@, Whole(v), Chunks)]
             /\ answer' = answer \o ack
    BY <2>1, <2>2
  <2>3. CASE /\ \E k \in 0..Chunks - 1 : files' = [files EXCEPT ![n] = Overwritten(@, Whole(v), k)]
             /\ answer' = answer
    BY <2>1, <2>3
  <2>. QED
    BY <2>2, <2>3 DEF FinishWrite
<1>4. /\ ack \in Seq(ToSet(ack))
      /\ \A m \in ToSet(ack) : m.kind = "ACK" /\ m.body = n /\ m.of = g
  <2>. DEFINE m == Ack(n)
  <2>1. <<m>> \in Seq(ToSet(<<m>>)) /\ ToSet(<<m>>) = {m}
    BY OneOrTwo
  <2>2. ack \in Seq(ToSet(ack)) /\ ToSet(ack) = {[x EXCEPT !.of = g] : x \in ToSet(<<m>>)}
    BY <2>1, Stamping
  <2>3. [m EXCEPT !.of = g].kind = "ACK" /\ [m EXCEPT !.of = g].body = n /\ [m EXCEPT !.of = g].of = g
    BY Fields DEF Ack
  <2>. QED
    BY <2>1, <2>2, <2>3
<1>. HIDE DEF ack, n, v, g
<1>5. answer \in Seq(ToSet(answer))
  BY DEF IInv, Sequenced
<1>6. /\ answer' \in Seq(ToSet(answer'))
      /\ \A m \in Replied' : \/ m \in Replied
                             \/ k = Chunks /\ m.kind = "ACK" /\ m.body = n /\ m.of = g
  <2>1. CASE answer' = answer
    BY <1>1, <1>5, <2>1 DEF Replied
  <2>2. CASE k = Chunks /\ answer' = answer \o ack
    <3>1. answer' \in Seq(ToSet(answer')) /\ ToSet(answer') = ToSet(answer) \cup ToSet(ack)
      BY <1>4, <1>5, <2>2, Joined
    <3>. QED
      BY <1>1, <1>4, <2>2, <3>1 DEF Replied
  <2>. QED
    BY <1>3, <2>1, <2>2
<1>7. files' = [files EXCEPT ![n] = Overwritten(<<>>, Whole(v), k)]
  BY <1>2, <1>3
<1>8. Overwritten(<<>>, Whole(v), k) \in Pieces /\ (k = Chunks => Overwritten(<<>>, Whole(v), k) = Whole(v))
  BY <1>2, Writing
<1>9. n # NoWrite.name /\ NoWrite.of = 0 /\ NoWrite.name \notin Files \cup Registers
  BY <1>2, TheFiles
<1>10. Sequenced' /\ Steps' /\ Once'
  BY <1>1, <1>6 DEF IInv, Sequenced, Steps, Once
<1>11. Stored'
  BY <1>1, <1>7, <1>8 DEF IInv, Stored
<1>12. Stamped'
  BY <1>1, <1>2, <1>6, <1>9 DEF IInv, Stamped
<1>13. Pairs' /\ Ordered' /\ Hoped'
  BY <1>1 DEF IInv, Pairs, Ordered, Hoped, Carries, Offered
<1>14. NotYet'
  <2>1. ASSUME NEW m \in Files \cup Registers, Fresh(m)
        PROVE  Fresh(m)'
    <3>1. ~(n = m /\ g = given)
      BY <2>1 DEF Fresh, n, g
    <3>. QED
      BY <1>1, <1>6, <1>9, <2>1, <3>1 DEF Fresh, Acked
  <2>2. ASSUME NEW j \in DOMAIN script, IsWrite(script[j]), pc = "wait" => j # 1
        PROVE  Fresh(script[j].message.body)'
    <3>1. script[j].message.body \in Files \cup Registers /\ Fresh(script[j].message.body)
      BY <2>2 DEF IInv, NotYet, Steps, ToSet
    <3>. QED
      BY <1>1, <2>1, <3>1
  <2>. QED
    BY <1>1, <2>2 DEF NotYet, IsWrite
<1>15. Sent'
  <2>. SUFFICES ASSUME pc = "wait", IsWrite(script[1])
                PROVE  Sent'
    BY <1>1 DEF Sent, IsWrite
  <2>. DEFINE w == script[1].message.body  p == script[1].packet
  <2>1. /\ \A i \in DOMAIN request : Carries(i) /\ request[i].body = w /\ request[i].of = given
             => request[i + 1].body = p
        /\ n = w /\ g = given => v = p
        /\ w \in Files /\ Acked(w) => files[w] = Whole(p) /\ ~InFlight(w)
    BY DEF IInv, Sent, n, g, v
  <2>2. w \in Files \cup Registers
    <3>1. 1 \in DOMAIN script
      BY Others DEF IInv, Sequenced
    <3>. QED
      BY <3>1 DEF IInv, Steps, ToSet
  <2>3. ASSUME w \in Files, Acked(script[1].message.body)'
        PROVE  files'[w] = Whole(p) /\ ~InFlight(script[1].message.body)'
    <3>1. CASE Acked(w)
      <4>1. files[w] = Whole(p) /\ ~InFlight(w) /\ w # n
        BY <2>1, <2>3, <3>1 DEF InFlight, n
      <4>. QED
        BY <1>1, <1>7, <1>9, <2>3, <4>1 DEF InFlight, IInv, Stored
    <3>2. CASE ~Acked(w)
      <4>1. k = Chunks /\ w = n /\ g = given
        BY <1>1, <1>6, <2>3, <3>2 DEF Acked
      <4>2. files'[w] = Whole(p)
        BY <1>2, <1>7, <1>8, <2>1, <4>1 DEF IInv, Stored
      <4>3. \A m \in ToSet(request) : ~(m.kind = "WRITE" /\ m.body = w)
        <5>1. ASSUME NEW i \in DOMAIN request, request[i].kind = "WRITE", request[i].body = w
              PROVE  FALSE
          <6>1. given <= request[i].of /\ (given = request[i].of => n # request[i].body)
            BY <1>1, <4>1, <5>1 DEF IInv, Ordered, n, g
          <6>2. request[i].of \in 0..given /\ given \in Nat
            BY DEF IInv, Stamped, ToSet
          <6>3. request[i].of = given
            BY <6>1, <6>2
          <6>. QED
            BY <4>1, <5>1, <6>1, <6>3
        <5>. QED
          BY <5>1 DEF ToSet
      <4>. QED
        BY <1>1, <1>9, <2>3, <4>2, <4>3 DEF InFlight
    <3>. QED
      BY <3>1, <3>2
  <2>4. NoWrite.name # w
    BY <1>9, <2>2
  <2>. QED
    BY <1>1, <2>1, <2>3, <2>4 DEF Sent, Carries
<1>16. IInv'
  BY <1>10, <1>11, <1>12, <1>13, <1>14, <1>15 DEF IInv
<1>. QED
  BY <1>1, <1>2, <1>7, <1>16

-----------------------------------------------------------------------------
(* The invariant, and the refinement.                                      *)

LEMMA InitIInv ==
    ASSUME Init
    PROVE  IInv
<1>1. <<>> \in Seq(ToSet(<<>>)) /\ ToSet(<<>>) = {} /\ DOMAIN <<>> = {}
  BY OneOrTwo
<1>2. /\ request = <<>> /\ answer = <<>> /\ tty = <<>> /\ script = <<>> /\ given = 0 /\ pc = "idle"
      /\ writing = NoWrite /\ NoWrite.of = 0 /\ hope = [n \in Files \cup Registers |-> hope[n]]
  BY DEF Init, NoWrite
<1>3. files \in [Files -> Pieces]
  <2>1. Chunks \in Nat /\ Versions # {}
    BY ToolAssumption
  <2>. DEFINE old == CHOOSE v \in Versions : TRUE
  <2>2. old \in Versions
    BY <2>1
  <2>. HIDE DEF old
  <2>3. Whole(old) \in Pieces
    BY <2>1, <2>2 DEF Whole, Pieces
  <2>4. <<>> \in Pieces
    <3>1. 0 \in 0..Chunks /\ <<>> = [i \in 1..0 |-> old]
      BY <2>1
    <3>. QED
      BY <2>2, <3>1 DEF Pieces
  <2>5. files = [n \in Files |-> <<>>] \/ files = [n \in Files |-> Whole(old)]
    BY DEF Init, old
  <2>. QED
    BY <2>3, <2>4, <2>5
<1>4. Sequenced /\ Stored /\ Stamped /\ Steps /\ Once
  BY <1>1, <1>2, <1>3 DEF Sequenced, Stored, Stamped, Steps, Once, Replied
<1>5. Pairs /\ Ordered /\ Hoped /\ NotYet /\ Sent
  BY <1>1, <1>2 DEF Pairs, Ordered, Hoped, NotYet, Sent
<1>. QED
  BY <1>4, <1>5 DEF IInv

\* What a step does to the files and to what may be known of them.
Stays == UNCHANGED <<files, hope, unsure>>
Offers(n, v) == /\ UNCHANGED files /\ hope' = [hope EXCEPT ![n] = @ \cup {Content(n, v)}]
                /\ unsure' = unsure \cup {n}
Acknowledges(n, v) == /\ UNCHANGED files /\ hope' = [hope EXCEPT ![n] = {Content(n, v)}]
                      /\ unsure' = unsure \ {n} /\ (n \in Files => files[n] = Whole(v))
Empties(n) == UNCHANGED <<hope, unsure>> /\ n \in unsure /\ files' = [files EXCEPT ![n] = <<>>]
Fills(n, v, k) == /\ UNCHANGED <<hope, unsure>> /\ n \in unsure /\ Whole(v) \in hope[n]
                  /\ files' = [files EXCEPT ![n] = Overwritten(<<>>, Whole(v), k)]
Moves == \/ Stays
         \/ \E n \in Files \cup Registers : \E v \in Versions : Offers(n, v) \/ Acknowledges(n, v)
         \/ \E n \in Files : \/ Empties(n)
                             \/ \E v \in Versions : \E k \in 0..Chunks : Fills(n, v, k)

LEMMA IInvStep ==
    ASSUME IInv, [Next]_vars
    PROVE  IInv' /\ Moves
<1>1. CASE Begin
  BY <1>1, BeginStep DEF Moves, Stays
<1>2. CASE Tool
  <2>1. CASE Other
    BY <2>1, OtherWorks, WorksStep DEF Moves, Stays
  <2>2. CASE Send /\ ~Stores
    BY <2>2, AskStep DEF Moves, Stays
  <2>3. CASE Send /\ Stores
    <3>1. IInv' /\ \E n \in Files \cup Registers : \E v \in Versions : Offers(n, v)
      BY <2>3, SendStep DEF Offers
    <3>. QED
      BY <3>1 DEF Moves
  <2>4. CASE Receive
    <3>1. IInv' /\ (Stays \/ \E n \in Files \cup Registers : \E v \in Versions : Acknowledges(n, v))
      BY <2>4, ReceiveStep DEF Stays, Acknowledges
    <3>. QED
      BY <3>1 DEF Moves
  <2>5. CASE seek_mem
    BY <2>5, seek_memStep DEF Moves, Stays
  <2>. QED
    BY <1>2, <2>1, <2>2, <2>3, <2>4, <2>5 DEF Tool, Other
<1>3. CASE Device
  <2>1. CASE Quiet
    BY <2>1, QuietStep DEF Moves, Stays
  <2>2. CASE handle_write_file \/ handle_apt_upload
    <3>1. IInv' /\ (Stays \/ \E n \in Files : Empties(n))
      BY <2>2, StartStep DEF Stays, Empties
    <3>. QED
      BY <3>1 DEF Moves
  <2>3. CASE FinishWrite
    <3>1. IInv' /\ \E n \in Files : \E v \in Versions : \E k \in 0..Chunks : Fills(n, v, k)
      BY <2>3, FinishStep DEF Fills
    <3>. QED
      BY <3>1 DEF Moves
  <2>. QED
    BY <1>3, <2>1, <2>2, <2>3 DEF Device, Quiet
<1>4. CASE LineFault \/ Arrive \/ Kill \/ Restart
  BY <1>4, OutsideStep DEF Moves, Stays
<1>5. CASE UNCHANGED vars
  <2>1. UNCHANGED <<request, answer, tty, files, writing, given, script, pc, hope, unsure>>
    BY <1>5 DEF vars, wire, device, disk, tool, promised
  <2>2. answer' \in Seq(ToSet(answer')) /\ tty' \in Seq(ToSet(tty')) /\ \A m \in Replied' : m \in Replied
    BY <2>1 DEF Replied, IInv, Sequenced
  <2>. QED
    BY <2>1, <2>2, Unread, WireStep DEF Moves, Stays
<1>. QED
  BY <1>1, <1>2, <1>3, <1>4, <1>5 DEF Next

\* Writes stay in the order of their commands, and while one is anywhere
\* between the script of the tool and its ACK the tool is not sure of the file.
THEOREM WritesInOrder == Spec => []IInv
BY InitIInv, IInvStep, PTL DEF Spec

\* What can be read of the directory.
kept == [n \in Files |-> IF Readable(files[n]) THEN files[n] ELSE <<>>]
known == [n \in Files |-> hope[n]]

LEMMA Unreadable == Readable(<<>>) = FALSE /\ \A v : Readable(Whole(v)) = TRUE
<1>1. Chunks \in Nat \ {0} /\ Len(<<>>) = 0
  BY ToolAssumption, OneOrTwo
<1>2. ASSUME NEW v
      PROVE  Len(Whole(v)) = Chunks
  <2>1. Whole(v) \in Seq({v})
    BY <1>1, SeqDef DEF Whole
  <2>2. Len(Whole(v)) \in Nat /\ 1..Len(Whole(v)) = 1..Chunks
    BY <2>1, LenProperties DEF Whole
  <2>3. \A a, b \in Nat : 1..a = 1..b => a = b
    OBVIOUS
  <2>. QED
    BY <1>1, <2>2, <2>3
<1>. QED
  BY <1>1, <1>2 DEF Readable

LEMMA InitRefines == Init => Store!Init
<1>. SUFFICES ASSUME Init PROVE Store!Init
  OBVIOUS
<1>. DEFINE old == CHOOSE v \in Versions : TRUE
<1>1. old \in Versions
  BY ToolAssumption
<1>2. files = [n \in Files |-> <<>>] \/ files = [n \in Files |-> Whole(old)]
  BY DEF Init
<1>. HIDE DEF old
<1>3. \A n \in Files : n \in Files \cup Registers /\ n \notin Registers
  BY TheFiles
<1>4. \A n \in Files : kept[n] = files[n]
  BY <1>2, Unreadable DEF kept
<1>5. known = [n \in Files |-> {kept[n]} \ {<<>>}]
  BY <1>3, <1>4 DEF Init, known
<1>6. kept \in [Files -> {Whole(v) : v \in Versions} \cup {<<>>}]
  BY <1>1, <1>2, <1>4 DEF kept
<1>7. unsure \cap Files = {}
  BY DEF Init
<1>. QED
  BY <1>5, <1>6, <1>7 DEF Store!Init, kept, known

LEMMA StepRefines ==
    ASSUME IInv, Moves
    PROVE  [Store!Next]_(Store!store)
<1>0. /\ DOMAIN files = Files /\ files = [n \in Files |-> files[n]]
      /\ hope = [n \in Files \cup Registers |-> hope[n]] /\ Files \cap Registers = {}
  BY TheFiles DEF IInv, Stored
<1>1. CASE Stays
  <2>1. UNCHANGED <<kept, known>> /\ unsure' \cap Files = unsure \cap Files
    BY <1>1 DEF Stays, kept, known
  <2>. QED
    BY <2>1 DEF Store!store, kept, known
<1>2. ASSUME NEW n \in Files \cup Registers, NEW v \in Versions, Offers(n, v)
      PROVE  [Store!Next]_(Store!store)
  <2>1. UNCHANGED kept
    BY <1>2 DEF Offers, kept
  <2>2. CASE n \in Files
    <3>1. known' = [known EXCEPT ![n] = @ \cup {Whole(v)}] /\ unsure' \cap Files = (unsure \cap Files) \cup {n}
      BY <1>0, <1>2, <2>2, ZenonT(60) DEF Offers, known, Content
    <3>2. Store!Offer(n, Whole(v))
      BY <2>1, <3>1 DEF Store!Offer, kept, known
    <3>. QED
      BY <2>2, <3>2 DEF Store!Next
  <2>3. CASE n \notin Files
    <3>1. UNCHANGED known /\ unsure' \cap Files = unsure \cap Files
      BY <1>0, <1>2, <2>3 DEF Offers, known
    <3>. QED
      BY <2>1, <3>1 DEF Store!store, kept, known
  <2>. QED
    BY <2>2, <2>3
<1>3. ASSUME NEW n \in Files \cup Registers, NEW v \in Versions, Acknowledges(n, v)
      PROVE  [Store!Next]_(Store!store)
  <2>1. UNCHANGED kept
    BY <1>3 DEF Acknowledges, kept
  <2>2. CASE n \in Files
    <3>1. known' = [known EXCEPT ![n] = {Whole(v)}] /\ unsure' \cap Files = (unsure \cap Files) \ {n}
      BY <1>0, <1>3, <2>2 DEF Acknowledges, known, Content
    <3>2. kept[n] = Whole(v)
      BY <1>3, <2>2, Unreadable DEF Acknowledges, kept
    <3>3. Store!Acknowledge(n, Whole(v))
      BY <2>1, <3>1, <3>2 DEF Store!Acknowledge, kept, known
    <3>. QED
      BY <2>2, <3>3 DEF Store!Next
  <2>3. CASE n \notin Files
    <3>1. UNCHANGED known /\ unsure' \cap Files = unsure \cap Files
      BY <1>0, <1>3, <2>3 DEF Acknowledges, known
    <3>. QED
      BY <2>1, <3>1 DEF Store!store, kept, known
  <2>. QED
    BY <2>2, <2>3
<1>4. ASSUME NEW n \in Files, NEW c, files' = [files EXCEPT ![n] = c]
      PROVE  kept' = [kept EXCEPT ![n] = IF Readable(c) THEN c ELSE <<>>]
  BY <1>0, <1>4 DEF kept
<1>5. ASSUME NEW n \in Files, Empties(n)
      PROVE  [Store!Next]_(Store!store)
  <2>1. /\ UNCHANGED <<known, unsure>> /\ n \in unsure \cap Files
        /\ kept' = [kept EXCEPT ![n] = <<>>]
    BY <1>4, <1>5, Unreadable DEF Empties, known
  <2>2. Store!Drop(n)
    BY <2>1 DEF Store!Drop, kept, known
  <2>. QED
    BY <2>2 DEF Store!Next
<1>6. ASSUME NEW n \in Files, NEW v \in Versions, NEW k \in 0..Chunks, Fills(n, v, k)
      PROVE  [Store!Next]_(Store!store)
  <2>1. /\ UNCHANGED <<known, unsure>> /\ n \in unsure \cap Files /\ Whole(v) \in known[n]
        /\ files' = [files EXCEPT ![n] = Overwritten(<<>>, Whole(v), k)]
    BY <1>6 DEF Fills, known
  <2>2. kept' = [kept EXCEPT ![n] = IF k = Chunks THEN Whole(v) ELSE <<>>]
    BY <1>4, <2>1, Writing
  <2>3. CASE k = Chunks
    <3>1. Store!Take(n, Whole(v))
      BY <2>1, <2>2, <2>3 DEF Store!Take, kept, known
    <3>. QED
      BY <3>1 DEF Store!Next
  <2>4. CASE k # Chunks
    <3>1. Store!Drop(n)
      BY <2>1, <2>2, <2>4 DEF Store!Drop, kept, known
    <3>. QED
      BY <3>1 DEF Store!Next
  <2>. QED
    BY <2>3, <2>4
<1>. QED
  BY <1>1, <1>2, <1>3, <1>5, <1>6 DEF Moves

\* Killed, short of disk space, or on a line that spoils a message, fakefilser
\* leaves in each file a database that was offered, or nothing that reads as
\* one, and keeps the one whose write was acknowledged last.
THEOREM Registering == Spec => FilesAreRegisters
<1>1. IInv /\ [Next]_vars => [Store!Next]_(Store!store)
  BY IInvStep, StepRefines
<1>. QED
  BY <1>1, WritesInOrder, InitRefines, PTL DEF Spec, Store!Spec, FilesAreRegisters

-----------------------------------------------------------------------------
(* An upload of all apt files.  What has been written stays: a write of    *)
(* the file would have to be on its way, and there is none.                *)

\* The step of the script the tool is in the middle of.
Heads == /\ pc \in {"syn", "ack"} => Head(script).op = "syn"
         /\ pc = "wait" => Head(script).op \in {"ask", "most", "put"}
         /\ pc = "flights" => Head(script).op = "list"
         /\ pc \in {"section", "data"} => Head(script).op = "sections"

\* The steps of an upload of version v.
Uploads(t, v) == \A s \in ToSet(t) :
    /\ s.op \in {"syn", "tell", "crash", "put"}
    /\ s.op = "put" => IsWrite(s) /\ s.packet = v
Crashes(t) == \E s \in ToSet(t) : s.op = "crash"

Landed(n) == files[n] = Whole(command.arguments[1]) /\ ~InFlight(n)
Uploading == command.name = "write_apt" /\ "misread" \notin troubles

\* Each file has been written, or will be; unless the upload is given up.
Uploaded ==
    /\ Uploading /\ pc # "idle" =>
         /\ Uploads(script, command.arguments[1])
         /\ \A n \in AptFiles : Landed(n) \/ n \in Written(script) \/ Crashes(script)
    /\ Uploading /\ pc = "idle" /\ code = "ok" => \A n \in AptFiles : Landed(n)

UInv == IInv /\ Heads /\ Uploaded

LEMMA AptSteps ==
    ASSUME NEW v \in Versions
    PROVE  /\ Uploads(cmd_write_apt(v), v)
           /\ Crashes(cmd_write_apt(v)) \/ Written(cmd_write_apt(v)) = AptFiles
<1>. DEFINE T == {s \in {Syn, Do("crash"), [Ask("0x70", 0, "nothing") EXCEPT !.op = "tell"]}
                      \cup {Put("WRITE", n, v) : n \in Files} : TRUE}
            a == <<Syn, [Ask("0x70", 0, "nothing") EXCEPT !.op = "tell"]>>  b == send_blocks(AptBlocks, v)
            c == <<Do("crash")>>  d == filser_send("apt_state", v)
            e == IF v \in Incomplete THEN c ELSE d
<1>1. \A s \in T : s.op \in {"syn", "tell", "crash", "put"} /\ (s.op = "put" => IsWrite(s) /\ s.packet = v)
  BY DEF T, Syn, Do, Ask, Put, Msg, IsWrite
<1>2. a \in Seq(ToSet(a)) /\ ToSet(a) \subseteq T
  BY OneOrTwo
<1>3. b \in Seq(ToSet(b)) /\ ToSet(b) \subseteq T
  <2>1. AptBlocks \in 1..4 /\ \A i \in 1..AptBlocks : AptFile[i] \in Files
    BY ToolAssumption, TheFiles
  <2>2. \A i \in 1..2 * AptBlocks : i % 2 = 1 \/ i \div 2 \in 1..AptBlocks
    BY <2>1
  <2>3. \A i \in 1..2 * AptBlocks : (IF i % 2 = 1 THEN Syn ELSE Put("WRITE", AptFile[i \div 2], v)) \in T
    BY <2>1, <2>2
  <2>. HIDE DEF T
  <2>4. b \in [1..2 * AptBlocks -> T] /\ 2 * AptBlocks \in Nat
    BY <2>1, <2>3 DEF send_blocks
  <2>5. b \in Seq(T)
    BY <2>4, SeqDef
  <2>. QED
    BY <2>5, Members
<1>4. c \in Seq(ToSet(c)) /\ ToSet(c) \subseteq T /\ d \in Seq(ToSet(d)) /\ ToSet(d) \subseteq T
  BY OneOrTwo, TheFiles DEF filser_send
<1>5. Do("crash") \in ToSet(c) /\ Do("crash").op = "crash"
  BY OneOrTwo DEF Do
<1>6. cmd_write_apt(v) = (a \o b) \o e
  BY DEF cmd_write_apt
<1>. HIDE DEF a, b, c, d, T
<1>7. e \in Seq(ToSet(e)) /\ ToSet(e) \subseteq T
  BY <1>4
<1>. HIDE DEF e
<1>8. a \o b \in Seq(ToSet(a \o b)) /\ ToSet(a \o b) = ToSet(a) \cup ToSet(b)
  BY <1>2, <1>3, Joined
<1>9. ToSet((a \o b) \o e) = ToSet(a \o b) \cup ToSet(e)
  BY <1>7, <1>8, Joined
<1>10. Uploads(cmd_write_apt(v), v)
  BY <1>1, <1>2, <1>3, <1>6, <1>7, <1>8, <1>9 DEF Uploads
<1>11. v \in Incomplete => Crashes(cmd_write_apt(v))
  BY <1>5, <1>6, <1>9 DEF Crashes, e
<1>. QED
  BY <1>10, <1>11, AptScript

\* A step that is none of the tool leaves alone what no write is on its way to.
LEMMA Settled ==
    ASSUME IInv, Device \/ LineFault \/ Arrive \/ Kill \/ Restart
    PROVE  /\ UNCHANGED <<command, script, pc, code>>
           /\ "misread" \in troubles => "misread" \in troubles'
           /\ \A n \in Files : ~InFlight(n) => ~InFlight(n)' /\ files'[n] = files[n]
<1>. DEFINE Quietly == /\ UNCHANGED <<command, script, pc, code>>
                       /\ "misread" \in troubles => "misread" \in troubles'
            Fewer == \A m \in ToSet(request') : m \in ToSet(request) \/ m.kind # "WRITE"
<1>1. ASSUME NEW k \in {1, 2}, Serving(k)
      PROVE  Quietly /\ Fewer
  <2>1. Quietly /\ Len(request) >= k
    BY <1>1 DEF Serving, trouble, tool
  <2>2. request \in Seq(ToSet(request)) /\ Len(request) \in Nat
    BY LenProperties DEF IInv, Sequenced
  <2>. HIDE DEF Quietly
  <2>3. ToSet(request') \subseteq ToSet(request)
    <3>1. request' = SubSeq(request, k + 1, Len(request))
      BY <1>1 DEF Serving
    <3>2. PICK n \in 0..Len(request) : n = k
      BY <2>1, <2>2
    <3>3. request' = SubSeq(request, n + 1, Len(request))
      BY <3>1, <3>2
    <3>. QED
      BY <2>2, <3>3, Rest, ZenonT(60)
  <2>. QED
    BY <2>1, <2>3
<1>2. ASSUME Quietly, Fewer, files' = files, writing' = writing \/ writing' = NoWrite
      PROVE  Quietly /\ \A n \in Files : ~InFlight(n) => ~InFlight(n)' /\ files'[n] = files[n]
  BY <1>2, TheFiles DEF InFlight
<1>. DEFINE Fine == Quietly /\ \A n \in Files : ~InFlight(n) => ~InFlight(n)' /\ files'[n] = files[n]
<1>3. CASE Quiet
  <2>1. CASE \E k \in {1, 2} : Serving(k) /\ UNCHANGED disk
    BY <1>1, <1>2, <2>1 DEF disk
  <2>2. CASE dump_timeout
    <3>1. /\ Quietly /\ UNCHANGED <<files, writing>>
          /\ request' = request \/ (request # <<>> /\ request' = Tail(request))
      BY <2>2 DEF dump_timeout, trouble, disk, tool
    <3>2. request \in Seq(ToSet(request))
      BY DEF IInv, Sequenced
    <3>3. Fewer
      BY <3>1, <3>2, Others
    <3>. QED
      BY <1>2, <3>1, <3>3
  <2>3. Quiet /\ ~dump_timeout => \E k \in {1, 2} : Serving(k) /\ UNCHANGED disk
    <3>1. ASSUME NEW kind, Serve(kind), UNCHANGED disk PROVE \E k \in {1, 2} : Serving(k) /\ UNCHANGED disk
      BY <3>1 DEF Serve
    <3>2. ASSUME NEW kind, NEW about, Asked(kind, about) \/ Given(kind, about), UNCHANGED disk
          PROVE  \E k \in {1, 2} : Serving(k) /\ UNCHANGED disk
      BY <3>2 DEF Asked, Given
    <3>3. handle_syn \/ handle_fixed \/ handle_clear_lo4 \/ handle_unknown => \E k \in {1, 2} : Serving(k) /\ UNCHANGED disk
      BY <3>1 DEF handle_syn, handle_fixed, handle_clear_lo4, handle_unknown
    <3>4. handle_read_register \/ handle_write_register \/ upload_from_file \/ handle_apt_download
            => \E k \in {1, 2} : Serving(k) /\ UNCHANGED disk
      BY <3>2 DEF handle_read_register, handle_write_register, upload_from_file, handle_apt_download
    <3>5. handle_70 \/ handle_open_flight_list \/ handle_get_mem_section \/ handle_get_logger_data
            => \E k \in {1, 2} : Serving(k) /\ UNCHANGED disk
      BY <3>1 DEF handle_70, handle_open_flight_list, handle_get_mem_section, handle_get_logger_data
    <3>6. handle_def_mem => \E k \in {1, 2} : Serving(k) /\ UNCHANGED disk
      BY <3>2 DEF handle_def_mem
    <3>. QED
      BY <3>3, <3>4, <3>5, <3>6 DEF Quiet
  <2>. QED
    BY <1>3, <2>1, <2>2, <2>3
<1>4. CASE handle_write_file \/ handle_apt_upload
  <2>1. PICK n \in Files : StartWrite(n)
    BY <1>4, TheFiles DEF handle_write_file, handle_apt_upload
  <2>2. Serving(2) /\ request[1].kind = "WRITE" /\ request[1].body = n /\ Len(request) >= 2
    BY <2>1 DEF StartWrite, Given, Serving
  <2>3. InFlight(n)
    <3>1. 1 \in DOMAIN request
      BY <2>2, LenProperties DEF IInv, Sequenced
    <3>. QED
      BY <2>2, <3>1 DEF InFlight, ToSet
  <2>4. CASE UNCHANGED disk
    BY <1>1, <1>2, <2>2, <2>4 DEF disk
  <2>5. CASE files' = [files EXCEPT ![n] = Truncated(@)] /\ writing'.name = n
    BY <1>1, <2>2, <2>3, <2>5 DEF InFlight, IInv, Stored
  <2>. QED
    BY <2>1, <2>4, <2>5 DEF StartWrite
<1>5. CASE FinishWrite
  <2>1. /\ UNCHANGED <<request, command, script, pc, code>> /\ writing' = NoWrite
        /\ \E c : files' = [files EXCEPT ![writing.name] = c]
        /\ "misread" \in troubles => "misread" \in troubles'
    BY <1>5 DEF FinishWrite, Fault, trouble, tool
  <2>2. \A n \in Files : ~InFlight(n) => n # writing.name
    BY DEF InFlight
  <2>. QED
    BY <2>1, <2>2, TheFiles DEF InFlight, IInv, Stored
<1>6. CASE LineFault
  <2>1. /\ UNCHANGED <<files, writing, command, script, pc, code>>
        /\ "misread" \in troubles => "misread" \in troubles'
        /\ \/ request' = request
           \/ request # <<>> /\ \E k : request' = Hurt(k, request)
           \/ Len(request) > 1 /\ request' = [request EXCEPT ![2] = Msg("cut", "packet")]
    BY <1>6 DEF LineFault, Fault, device, disk, tool
  <2>2. request \in Seq(ToSet(request)) /\ Len(request) \in Nat /\ DOMAIN request = 1..Len(request)
    BY LenProperties DEF IInv, Sequenced
  <2>3. Fewer
    <3>1. ASSUME NEW k, request # <<>>, request' = Hurt(k, request)
          PROVE  Fewer
      <4>1. PICK n \in {0, 1} : Shifted(request', request, n)
        BY <2>2, <3>1, HurtLine
      <4>. QED
        BY <4>1 DEF Shifted, ToSet
    <3>2. ASSUME request' = [request EXCEPT ![2] = Msg("cut", "packet")]
          PROVE  Fewer
      <4>1. Msg("cut", "packet").kind # "WRITE"
        BY Fields
      <4>. QED
        BY <3>2, <4>1 DEF ToSet
    <3>. QED
      BY <2>1, <3>1, <3>2
  <2>. QED
    BY <1>2, <2>1, <2>3
<1>7. CASE Arrive
  BY <1>2, <1>7 DEF Arrive, device, disk, tool, trouble
<1>8. CASE Kill
  BY <1>2, <1>8 DEF Kill, Fault, wire, tool
<1>9. CASE Restart
  <2>1. ToSet(request') = {}
    BY <1>9, OneOrTwo DEF Restart
  <2>. QED
    BY <1>2, <1>9, <2>1 DEF Restart, disk, tool, trouble
<1>. QED
  BY <1>3, <1>4, <1>5, <1>6, <1>7, <1>8, <1>9 DEF Device, Quiet

\* The script without its first step.
LEMMA Further ==
    ASSUME NEW s, s \in Seq(ToSet(s)), s # <<>>
    PROVE  /\ ToSet(s) = {Head(s)} \cup ToSet(Tail(s))
           /\ Written(s) = Written(Tail(s)) \cup (IF IsWrite(Head(s)) THEN {Head(s).message.body} ELSE {})
<1>1. /\ 1 \in DOMAIN s /\ Head(s) = s[1] /\ s[1] \in ToSet(s) /\ ToSet(Tail(s)) \subseteq ToSet(s)
      /\ \A i \in DOMAIN Tail(s) : Tail(s)[i] = s[i + 1]
      /\ Len(s) \in Nat /\ Len(Tail(s)) = Len(s) - 1 /\ Tail(s) \in Seq(ToSet(Tail(s)))
  BY Others
<1>2. DOMAIN s = 1..Len(s) /\ DOMAIN Tail(s) = 1..Len(s) - 1
  BY <1>1, LenProperties
<1>3. ASSUME NEW j \in DOMAIN s, j # 1
      PROVE  s[j] \in ToSet(Tail(s))
  <2>1. j - 1 \in DOMAIN Tail(s) /\ (j - 1) + 1 = j
    BY <1>1, <1>2, <1>3
  <2>. QED
    BY <1>1, <2>1 DEF ToSet
<1>4. ToSet(s) = {Head(s)} \cup ToSet(Tail(s))
  BY <1>1, <1>3 DEF ToSet
<1>. QED
  BY <1>4 DEF Written

\* The ways the tool goes on: it stays in the step, it is done with one that
\* writes nothing, or the command ends, with success only at its end.
AptOps == {"syn", "tell", "crash", "put"}
Stays_on == script' = script /\ pc' # "idle"
Goes_on == /\ script # <<>> /\ script' = Tail(script) /\ pc' = "step"
           /\ Head(script).op \notin {"put", "crash"}
Ends == pc' = "idle" /\ (code' = "ok" => script = <<>> \/ Head(script).op \notin AptOps)

LEMMA Onwards ==
    ASSUME UInv, pc # "idle", UNCHANGED <<files, writing, command>>,
           "misread" \in troubles => "misread" \in troubles',
           \A n \in Files : ~InFlight(n) => ~InFlight(n)' \/ (script' = script /\ n \in Written(script)),
           Stays_on \/ Goes_on \/ Ends
    PROVE  Uploaded'
<1>. SUFFICES ASSUME Uploading, Uploading' PROVE Uploaded'
  BY DEF Uploaded, Uploading
<1>. DEFINE v == command.arguments[1]
<1>1. /\ Uploads(script, v) /\ script \in Seq(ToSet(script))
      /\ \A n \in AptFiles : n \in Files /\ (Landed(n) \/ n \in Written(script) \/ Crashes(script))
  BY DEF UInv, IInv, Sequenced, Uploaded, Files
<1>2. ASSUME NEW n \in AptFiles, Landed(n)
      PROVE  Landed(n)' \/ (script' = script /\ n \in Written(script))
  BY <1>1, <1>2 DEF Landed
<1>3. CASE Stays_on
  BY <1>1, <1>2, <1>3 DEF Stays_on, Uploaded, Landed
<1>4. CASE Goes_on
  <2>1. /\ ToSet(script) = {Head(script)} \cup ToSet(script')
        /\ Written(script) = Written(script') \cup (IF IsWrite(Head(script)) THEN {Head(script).message.body} ELSE {})
    BY <1>1, <1>4, Further DEF Goes_on
  <2>2. /\ ~IsWrite(Head(script)) /\ Head(script).op # "crash"
        /\ pc' # "idle" /\ script' # script
    <3>1. Len(Tail(script)) = Len(script) - 1 /\ Len(script) \in Nat
      BY <1>1, <1>4, Others DEF Goes_on
    <3>2. Tail(script) # script
      <4>1. ASSUME Tail(script) = script PROVE FALSE
        <5>1. Len(script) = Len(script) - 1
          BY <3>1, <4>1
        <5>. QED
          BY <3>1, <5>1
      <4>. QED
        BY <4>1
    <3>. QED
      BY <1>4, <3>2 DEF Goes_on, IsWrite
  <2>3. Uploads(script', v) /\ Written(script') = Written(script) /\ (Crashes(script) => Crashes(script'))
    BY <1>1, <2>1, <2>2 DEF Uploads, Crashes
  <2>4. \A n \in AptFiles : Landed(n)' \/ n \in Written(script') \/ Crashes(script')
    BY <1>1, <1>2, <2>2, <2>3
  <2>. QED
    BY <2>2, <2>3, <2>4 DEF Uploaded
<1>5. CASE Ends
  <2>. SUFFICES ASSUME code' = "ok" PROVE \A n \in AptFiles : Landed(n)'
    BY <1>5 DEF Ends, Uploaded
  <2>1. script = <<>>
    <3>1. script # <<>> => Head(script) \in ToSet(script)
      BY <1>1, Others
    <3>. QED
      BY <1>1, <1>5, <3>1 DEF Ends, Uploads, AptOps
  <2>2. Written(script) = {} /\ ~Crashes(script)
    BY <2>1, OneOrTwo DEF Written, Crashes
  <2>. QED
    BY <1>1, <1>2, <2>2
<1>. QED
  BY <1>3, <1>4, <1>5

\* Every step of the tool is one of these, or sends or hears of a write.
LEMMA ToolUploads ==
    ASSUME UInv, Tool
    PROVE  Heads' /\ Uploaded'
<1>. USE DEF Stays_on, Goes_on, Ends, AptOps, device, disk, tool, work
<1>. DEFINE Same == UNCHANGED <<files, writing, command>>
            Noticed == "misread" \in troubles => "misread" \in troubles'
            Goes == Stays_on \/ Goes_on \/ Ends
            Ready == \A n \in Files : ~InFlight(n) => ~InFlight(n)' \/ (script' = script /\ n \in Written(script))
<1>1. script \in Seq(ToSet(script)) /\ (pc \notin {"idle", "step"} => script # <<>>)
  BY DEF UInv, IInv, Sequenced
<1>2. ASSUME Works, UNCHANGED command, Noticed, pc # "idle", Goes
      PROVE  Uploaded'
  <2>1. Same
    BY <1>2 DEF Works
  <2>2. \A m \in ToSet(request') : m \in ToSet(request) \/ m.kind # "WRITE"
    <3>1. CASE request' = request
      BY <3>1
    <3>2. CASE \E k, b : k # "WRITE" /\ request' = request \o Of(<<Msg(k, b)>>, given)
      <4>1. PICK k, b : k # "WRITE" /\ request' = request \o Of(<<Msg(k, b)>>, given)
        BY <3>2
      <4>. DEFINE m == Msg(k, b)  new == Of(<<m>>, given)
      <4>2. <<m>> \in Seq(ToSet(<<m>>)) /\ ToSet(<<m>>) = {m} /\ [m EXCEPT !.of = given].kind = k
        BY OneOrTwo, Fields
      <4>3. new \in Seq(ToSet(new)) /\ ToSet(new) = {[x EXCEPT !.of = given] : x \in ToSet(<<m>>)}
        BY <4>2, Stamping, ZenonT(60)
      <4>. HIDE DEF new, m
      <4>4. request \in Seq(ToSet(request)) /\ new \in Seq(ToSet(new)) /\ request' = request \o new
        BY <4>1, <4>3 DEF UInv, IInv, Sequenced, new, m
      <4>5. ToSet(request') = ToSet(request) \cup ToSet(new)
        BY <4>4, Joined
      <4>. QED
        BY <4>1, <4>2, <4>3, <4>5
    <3>. QED
      BY <1>2, <3>1, <3>2 DEF Works
  <2>3. Ready
    BY <2>1, <2>2 DEF InFlight
  <2>. QED
    BY <1>2, <2>1, <2>3, Onwards
<1>3. CASE Other
  <2>1. Works
    BY <1>3, OtherWorks DEF UInv
  <2>2. UNCHANGED command /\ Noticed /\ pc # "idle"
    <3>1. SendSyn \/ RecvAck \/ NoAck \/ Tell => UNCHANGED command /\ Noticed /\ pc # "idle"
      BY DEF SendSyn, RecvAck, NoAck, NothingYet, Tell, At, Fault, trouble
    <3>2. WrongAnswer \/ NoAnswer \/ Crash \/ open_flight_list => UNCHANGED command /\ Noticed /\ pc # "idle"
      BY DEF WrongAnswer, NoAnswer, Crash, open_flight_list, At, trouble
    <3>3. next_flight \/ download_section \/ Return => UNCHANGED command /\ Noticed /\ pc # "idle"
      BY DEF next_flight, download_section, Return, At, trouble
    <3>4. SaveSection \/ SaveDatabase => UNCHANGED command /\ Noticed /\ pc # "idle"
      BY DEF SaveSection, SaveDatabase, At, Fault, Notice, trouble
    <3>. QED
      BY <1>3, <3>1, <3>2, <3>3, <3>4 DEF Other
  <2>3. Heads' /\ Goes
    <3>1. CASE SendSyn
      BY <3>1 DEF SendSyn, At, UInv, Heads
    <3>2. CASE RecvAck
      BY <1>1, <3>2 DEF RecvAck, Done, UInv, Heads
    <3>3. CASE NoAck
      BY <3>3 DEF NoAck, UInv, Heads
    <3>4. CASE Tell
      BY <3>4 DEF Tell, At, Done, Heads
    <3>5. CASE WrongAnswer
      BY <3>5 DEF WrongAnswer, Finish, Expected, UInv, Heads
    <3>6. CASE NoAnswer
      BY <3>6 DEF NoAnswer, Finish, Heads
    <3>7. CASE Crash
      BY <3>7 DEF Crash, Finish, Heads
    <3>8. CASE open_flight_list
      BY <3>8 DEF open_flight_list, At, Heads
    <3>9. CASE next_flight
      <4>1. pc = "flights" /\ (UNCHANGED <<script, pc>> \/ Done \/ Finish("failed"))
        BY <3>9 DEF next_flight
      <4>. QED
        BY <1>1, <4>1 DEF Done, Finish, UInv, Heads
    <3>10. CASE download_section
      BY <1>1, <3>10 DEF download_section, At, Done, UInv, Heads
    <3>11. CASE SaveSection
      <4>1. pc = "data" /\ ((pc' = "section" /\ UNCHANGED script) \/ Finish("failed"))
        BY <3>11 DEF SaveSection
      <4>. QED
        BY <4>1 DEF Finish, UInv, Heads
    <3>12. CASE SaveDatabase
      BY <3>12 DEF SaveDatabase, At, Done, Heads
    <3>13. CASE Return
      BY <3>13 DEF Return, Finish, Heads
    <3>. QED
      BY <1>3, <3>1, <3>2, <3>3, <3>4, <3>5, <3>6, <3>7, <3>8, <3>9, <3>10, <3>11, <3>12, <3>13 DEF Other
  <2>. QED
    BY <1>2, <2>1, <2>2, <2>3
<1>4. CASE Send
  <2>. DEFINE step == Head(script)  p == Msg("packet", step.packet)
              new == IF step.op = "put" THEN <<step.message, p>> ELSE <<step.message>>
  <2>1. /\ Same /\ Noticed /\ pc = "step" /\ script # <<>> /\ script' = script /\ pc' = "wait"
        /\ step.op \in {"ask", "most", "put"} /\ request' = request \o Of(new, given)
    BY <1>4 DEF Send, At, FlushAndWrite, trouble
  <2>2. step \in ToSet(script)
    BY <1>1, <2>1, Others
  <2>3. /\ step.message = Msg(step.message.kind, step.message.body)
        /\ step.op # "put" => step.message.kind # "WRITE"
    BY <2>1, <2>2 DEF UInv, IInv, Steps
  <2>4. \A n \in Files : step.op = "put" /\ step.message.kind = "WRITE" /\ step.message.body = n
                          => n \in Written(script)
    BY <2>2 DEF Written, IsWrite
  <2>5. ASSUME NEW m \in ToSet(request')
        PROVE  \/ m \in ToSet(request) \/ m.kind # "WRITE"
               \/ step.op = "put" /\ step.message.kind = "WRITE" /\ m.body = step.message.body
    <3>. HIDE DEF p, step
    <3>1. new \in Seq(ToSet(new)) /\ ToSet(new) \subseteq {step.message, p}
      <4>. DEFINE one == <<step.message>>  two == <<step.message, p>>
      <4>1. one \in Seq(ToSet(one)) /\ ToSet(one) = {step.message}
        BY OneOrTwo
      <4>2. two \in Seq(ToSet(two)) /\ ToSet(two) = {step.message, p}
        BY OneOrTwo
      <4>3. new = one \/ new = two
        OBVIOUS
      <4>. HIDE DEF one, two, new
      <4>. QED
        BY <4>1, <4>2, <4>3
    <3>. HIDE DEF new
    <3>2. /\ Of(new, given) \in Seq(ToSet(Of(new, given)))
          /\ ToSet(Of(new, given)) = {[x EXCEPT !.of = given] : x \in ToSet(new)}
      BY <3>1, Stamping
    <3>3. request \in Seq(ToSet(request)) /\ Of(new, given) \in Seq(ToSet(Of(new, given)))
      BY <3>2 DEF UInv, IInv, Sequenced
    <3>4. ToSet(request') = ToSet(request) \cup ToSet(Of(new, given))
      BY <2>1, <3>3, Joined
    <3>5. [p EXCEPT !.of = given].kind = "packet"
      BY Fields DEF p
    <3>6. /\ [step.message EXCEPT !.of = given].kind = step.message.kind
          /\ [step.message EXCEPT !.of = given].body = step.message.body
      BY <2>3, Fields
    <3>7. m \in ToSet(request) \/ m = [step.message EXCEPT !.of = given] \/ m = [p EXCEPT !.of = given]
      BY <2>5, <3>1, <3>2, <3>4
    <3>. QED
      BY <2>3, <3>5, <3>6, <3>7
  <2>. HIDE DEF new, p
  <2>6. Ready
    <3>1. ASSUME NEW n \in Files, ~InFlight(n), n \notin Written(script)
          PROVE  ~InFlight(n)'
      <4>1. writing'.name # n
        BY <2>1, <3>1 DEF InFlight
      <4>2. \A m \in ToSet(request') : ~(m.kind = "WRITE" /\ m.body = n)
        BY <2>4, <2>5, <3>1 DEF InFlight
      <4>. QED
        BY <4>1, <4>2 DEF InFlight
    <3>. QED
      BY <2>1, <3>1
  <2>7. Stays_on
    BY <2>1
  <2>8. Uploaded'
    BY <2>1, <2>6, <2>7, Onwards
  <2>. QED
    BY <2>1, <2>8 DEF Heads
<1>5. CASE Receive
  <2>. DEFINE step == Head(script)  n == step.message.body  m == Head(tty)
  <2>1. /\ Same /\ Noticed /\ pc = "wait" /\ script # <<>> /\ script' = Tail(script) /\ pc' = "step"
        /\ request' = request /\ tty # <<>>
    BY <1>1, <1>5 DEF Receive, Done, Read, Notice
  <2>2. step.op \in {"ask", "most", "put"}
    BY <2>1 DEF UInv, Heads
  <2>3. Ready
    BY <2>1 DEF InFlight
  <2>4. CASE step.op # "put"
    <3>1. Goes_on
      BY <2>1, <2>2, <2>4
    <3>2. Uploaded'
      BY <2>1, <2>3, <3>1, Onwards
    <3>. QED
      BY <2>1, <3>2 DEF Heads
  <2>5. CASE step.op = "put"
    <3>. SUFFICES ASSUME Uploading, Uploading' PROVE Uploaded'
      BY <2>1 DEF Heads, Uploaded, Uploading
    <3>. DEFINE v == command.arguments[1]
    <3>1. step \in ToSet(script) /\ step = script[1]
      BY <1>1, <2>1, Others
    <3>2. /\ Uploads(script, v)
          /\ \A x \in AptFiles : x \in Files /\ (Landed(x) \/ x \in Written(script) \/ Crashes(script))
      BY <2>1 DEF UInv, Uploaded, Files
    <3>3. IsWrite(step) /\ step.packet = v
      BY <2>5, <3>1, <3>2 DEF Uploads
    <3>4. ~Misread(m, Subject)
      BY <1>5 DEF Receive, Notice, Uploading
    <3>5. m.kind = "ACK" /\ m.of = given /\ m.body = n
      BY <1>5, <2>5, <3>3, <3>4 DEF Receive, Misread, Subject, Stores, Expected, IsWrite
    <3>6. m \in ToSet(tty)
      <4>1. tty \in Seq(ToSet(tty))
        BY DEF UInv, IInv, Sequenced
      <4>. QED
        BY <2>1, <4>1, Others
    <3>7. Acked(script[1].message.body) /\ script[1].message.body = n /\ script[1].packet = v /\ IsWrite(script[1])
      BY <3>1, <3>3, <3>5, <3>6 DEF Acked, Replied
    <3>8. n \in Files => Landed(n)
      BY <2>1, <3>7 DEF UInv, IInv, Sent, Landed
    <3>9. /\ ToSet(script) = {step} \cup ToSet(script')
          /\ Written(script) = Written(script') \cup (IF IsWrite(step) THEN {n} ELSE {})
      BY <1>1, <2>1, Further
    <3>10. Written(script) \subseteq Written(script') \cup {n} /\ (Crashes(script) => Crashes(script'))
      BY <2>5, <3>9 DEF Crashes
    <3>. HIDE DEF n
    <3>11. \A x \in AptFiles : Landed(x) \/ x \in Written(script') \/ Crashes(script')
      BY <3>2, <3>8, <3>10
    <3>12. \A x \in AptFiles : Landed(x) => Landed(x)'
      BY <2>1 DEF Landed, InFlight
    <3>13. Uploads(script', v) /\ command' = command
      BY <2>1, <3>2, <3>9 DEF Uploads
    <3>. QED
      BY <2>1, <3>11, <3>12, <3>13 DEF Uploaded
  <2>. QED
    BY <2>4, <2>5
<1>6. CASE seek_mem
  <2>1. UNCHANGED <<command, troubles, pc>> /\ pc = "step" /\ script # <<>> /\ Head(script).op = "seek"
    BY <1>6 DEF seek_mem, At, trouble
  <2>2. ~Uploading
    <3>1. Head(script) \in ToSet(script)
      BY <1>1, <2>1, Others
    <3>. QED
      BY <2>1, <3>1 DEF UInv, Uploaded, Uploads
  <2>. QED
    BY <2>1, <2>2 DEF Heads, Uploaded, Uploading
<1>. QED
  BY <1>3, <1>4, <1>5, <1>6 DEF Tool, Other

LEMMA UInvStep ==
    ASSUME UInv, [Next]_vars
    PROVE  UInv'
<1>1. IInv'
  BY IInvStep DEF UInv
<1>2. \A n \in AptFiles : n \in Files
  BY DEF Files
<1>3. CASE Begin
  <2>1. pc' = "step" /\ UNCHANGED <<files, troubles>>
    BY <1>3 DEF Begin, device, disk, trouble
  <2>2. command'.name = "write_apt" =>
          \E v \in Versions : command'.arguments[1] = v /\ script' = cmd_write_apt(v)
    BY <1>3 DEF Begin, Call, Plain
  <2>3. command'.name = "write_apt" =>
          /\ Uploads(script', command'.arguments[1])
          /\ Crashes(script') \/ Written(script') = AptFiles
    BY <2>2, AptSteps
  <2>. QED
    BY <1>1, <2>1, <2>3 DEF UInv, Heads, Uploaded, Uploading
<1>4. CASE Tool
  BY <1>1, <1>4, ToolUploads DEF UInv
<1>5. CASE Device \/ LineFault \/ Arrive \/ Kill \/ Restart
  <2>1. /\ UNCHANGED <<command, script, pc, code>>
        /\ "misread" \in troubles => "misread" \in troubles'
        /\ \A n \in Files : ~InFlight(n) => ~InFlight(n)' /\ files'[n] = files[n]
    BY <1>5, Settled DEF UInv
  <2>2. \A n \in AptFiles : Landed(n) => Landed(n)'
    BY <1>2, <2>1 DEF Landed
  <2>. QED
    BY <1>1, <2>1, <2>2 DEF UInv, Heads, Uploaded, Uploading
<1>6. CASE UNCHANGED vars
  <2>1. UNCHANGED <<command, script, pc, code, troubles, files, request, writing>>
    BY <1>6 DEF vars, wire, trouble, device, disk, tool
  <2>. QED
    BY <1>1, <2>1 DEF UInv, Heads, Uploaded, Uploading, Landed, InFlight
<1>. QED
  BY <1>3, <1>4, <1>5, <1>6 DEF Next

\* When write_apt says it succeeded every block and the state are those of the
\* version it was given, whatever was lost, spoilt, late or killed meanwhile,
\* unless what was no ACK to it was taken for one.
THEOREM UploadIsWhole == Spec => []AptIsWhole
<1>1. Init => UInv
  <2>1. Init => Heads /\ Uploaded
    BY DEF Init, Heads, Uploaded
  <2>. QED
    BY <2>1, InitIInv DEF UInv
<1>2. UInv => AptIsWhole
  BY DEF UInv, Uploaded, Uploading, Landed, AptIsWhole
<1>. QED
  BY <1>1, <1>2, UInvStep, PTL DEF Spec

-----------------------------------------------------------------------------
(* What is read.  A request brings what was written last because what is   *)
(* held is hoped for at any time, because a command reads one thing only,  *)
(* and because what is hoped for of it does not change while it is waited  *)
(* for.                                                                    *)

\* What a read of n may bring.
Remembered(n, x) == x \in hope[n] \/ (n \in Registers /\ restarts > 0 /\ x = Default)

\* What the directory and the memory hold, and what is on its way to the memory.
FilesHeld == \A n \in Files : /\ hope[n] \subseteq {Whole(v) : v \in Versions}
                              /\ Readable(files[n]) => files[n] \in hope[n]

MemoryHeld ==
    /\ memory = [r \in Registers |-> memory[r]] /\ \A r \in Registers : Remembered(r, memory[r])
    /\ \A i \in DOMAIN request : Carries(i) /\ request[i].body \in Registers =>
         request[i + 1].body \in hope[request[i].body]
    /\ restarts \in Nat

\* An ACK the tool waits for is that of a write the memory has, if it was not
\* cleared since, and nothing is on its way that would change it.
MemoryAcked ==
    pc = "wait" /\ IsWrite(script[1]) /\ script[1].message.body \in Registers /\ Acked(script[1].message.body) =>
      LET r == script[1].message.body IN
        /\ memory[r] = script[1].packet \/ (restarts > 0 /\ memory[r] = Default)
        /\ ~InFlight(r)

IsRead(step) == step.op \in {"ask", "most"} /\ step.message.kind = "READ"

Question(step) ==
    /\ step.op \in {"ask", "most"} /\ step.expect = "value" => IsRead(step)
    /\ step.op \in {"tell", "put"} => step.message.kind # "READ"

\* A command reads one thing at the most.
Asking(t) == /\ t \in Seq(ToSet(t)) /\ \A s \in ToSet(t) : Question(s)
             /\ \A j, k \in DOMAIN t : IsRead(t[j]) /\ IsRead(t[k]) => j = k

\* What the command has not asked for has not come; what comes is what it asked for.
Unasked == \A k \in DOMAIN script : IsRead(script[k]) /\ (pc = "wait" => k # 1) =>
             /\ \A m \in ToSet(request) : m.kind = "READ" => m.of # given
             /\ \A m \in Replied : m.kind = "value" => m.of # given

Awaited == pc = "wait" /\ IsRead(script[1]) =>
             /\ \A m \in ToSet(request) : m.kind = "READ" /\ m.of = given => m.body = script[1].message.body
             /\ \A m \in Replied : m.kind = "value" /\ m.of = given => Remembered(script[1].message.body, m.body)

Reads == Asking(script) /\ Unasked /\ Awaited

\* read_tp_tsk, step by step.
Fetching == command.name = "read_tp_tsk" /\ {"disk full", "misread"} \cap troubles = {}
FetchIt == Ask("READ", "tp_tsk", "value")
Fetched ==
    /\ da4 \in Seq(ToSet(da4))
    /\ Fetching /\ pc # "idle" =>
         \/ script = <<Syn, FetchIt, Do("save")>>
         \/ script = <<FetchIt, Do("save")>>
         \/ script = <<Do("save")>> /\ pc = "step" /\ \E x \in hope["tp_tsk"] : got = <<x>>
         \/ script = <<>> /\ pc = "step" /\ SubSeq(da4, 1, Chunks) \in hope["tp_tsk"]
    /\ Fetching /\ pc = "idle" /\ code = "ok" => SubSeq(da4, 1, Chunks) \in hope["tp_tsk"]

RInv == UInv /\ FilesHeld /\ MemoryHeld /\ MemoryAcked /\ Reads /\ Fetched

\* Where a value is hoped for it is remembered, and there is no end to that
\* while nothing is acknowledged.
LEMMA FilesStep ==
    ASSUME IInv, FilesHeld, Moves
    PROVE  FilesHeld'
<1>0. /\ DOMAIN files = Files /\ hope = [n \in Files \cup Registers |-> hope[n]] /\ Files \cap Registers = {}
  BY TheFiles DEF IInv, Stored
<1>1. CASE Stays
  BY <1>1 DEF Stays, FilesHeld
<1>2. ASSUME NEW n \in Files \cup Registers, NEW v \in Versions, Offers(n, v)
      PROVE  FilesHeld'
  <2>1. \A f \in Files : hope'[f] = hope[f] \/ (f = n /\ hope'[f] = hope[f] \cup {Whole(v)})
    BY <1>0, <1>2 DEF Offers, Content
  <2>2. files' = files
    BY <1>2 DEF Offers
  <2>. QED
    BY <2>1, <2>2 DEF FilesHeld
<1>3. ASSUME NEW n \in Files \cup Registers, NEW v \in Versions, Acknowledges(n, v)
      PROVE  FilesHeld'
  <2>1. \A f \in Files : hope'[f] = hope[f] \/ (hope'[f] = {Whole(v)} /\ files[f] = Whole(v))
    BY <1>0, <1>3 DEF Acknowledges, Content
  <2>2. files' = files
    BY <1>3 DEF Acknowledges
  <2>. QED
    BY <2>1, <2>2 DEF FilesHeld
<1>4. ASSUME NEW n \in Files, Empties(n)
      PROVE  FilesHeld'
  <2>1. hope' = hope /\ \A f \in Files : files'[f] = files[f] \/ files'[f] = <<>>
    BY <1>0, <1>4 DEF Empties
  <2>. QED
    BY <2>1, Unreadable DEF FilesHeld
<1>5. ASSUME NEW n \in Files, NEW v \in Versions, NEW k \in 0..Chunks, Fills(n, v, k)
      PROVE  FilesHeld'
  <2>1. /\ hope' = hope /\ Whole(v) \in hope[n]
        /\ \A f \in Files : files'[f] = files[f] \/ (f = n /\ files'[f] = Overwritten(<<>>, Whole(v), k))
    BY <1>0, <1>5 DEF Fills
  <2>2. Readable(Overwritten(<<>>, Whole(v), k)) => Overwritten(<<>>, Whole(v), k) = Whole(v)
    BY Writing
  <2>. QED
    BY <2>1, <2>2 DEF FilesHeld
<1>. QED
  BY <1>1, <1>2, <1>3, <1>4, <1>5 DEF Moves

\* Messages to the device go, answers come and go that are no ACK for a
\* register, and the memory is as it was, or cleared.
LEMMA MemoryWire ==
    ASSUME IInv, MemoryHeld, MemoryAcked, NEW n, Shifted(request', request, n),
           UNCHANGED <<hope, script, pc, given>>, writing' \in {writing, NoWrite} \/ writing'.name \in Files,
           \A m \in Replied' : m \in Replied \/ ~(m.kind = "ACK" /\ m.body \in Registers),
           UNCHANGED <<memory, restarts>> \/ (restarts' = restarts + 1 /\ memory' = [r \in Registers |-> Default])
    PROVE  MemoryHeld' /\ MemoryAcked'
<1>1. /\ n \in 0..Len(request) /\ request' \in Seq(ToSet(request')) /\ Len(request') = Len(request) - n
      /\ \A i \in DOMAIN request' : n + i \in DOMAIN request /\
           \/ request'[i] = request[n + i]
           \/ request'[i].kind \in {"damaged", "cut"}
  BY DEF Shifted
<1>2. /\ DOMAIN request = 1..Len(request) /\ DOMAIN request' = 1..Len(request')
      /\ Len(request) \in Nat /\ Len(request') \in Nat /\ n \in Nat
  BY <1>1, LenProperties DEF IInv, Sequenced
<1>3. ASSUME NEW i \in DOMAIN request', request'[i].kind = "WRITE"
      PROVE  /\ n + i \in DOMAIN request /\ request[n + i] = request'[i]
             /\ request'[i + 1].kind = "packet" => request'[i + 1] = request[(n + i) + 1]
  <2>1. n + i \in DOMAIN request /\ request[n + i] = request'[i]
    BY <1>1, <1>3
  <2>2. (n + i) + 1 \in DOMAIN request
    BY <1>3, <2>1 DEF IInv, Pairs
  <2>3. i + 1 \in DOMAIN request' /\ n + (i + 1) = (n + i) + 1
    BY <1>1, <1>2, <2>2
  <2>. QED
    BY <1>1, <2>1, <2>3
<1>4. \A m \in ToSet(request') : m \in ToSet(request) \/ m.kind \in {"damaged", "cut"}
  BY <1>1 DEF ToSet
<1>5. restarts' \in Nat /\ (restarts > 0 => restarts' > 0)
  BY DEF MemoryHeld
<1>6. memory' = [r \in Registers |-> memory'[r]] /\ \A r \in Registers : Remembered(r, memory[r])'
  <2>1. CASE UNCHANGED <<memory, restarts>>
    BY <2>1 DEF MemoryHeld, Remembered
  <2>2. CASE restarts' = restarts + 1 /\ memory' = [r \in Registers |-> Default]
    <3>1. restarts' > 0
      BY <2>2 DEF MemoryHeld
    <3>. QED
      BY <2>2, <3>1 DEF Remembered
  <2>. QED
    BY <2>1, <2>2
<1>7. ASSUME NEW i \in DOMAIN request', Carries(i)', request'[i].body \in Registers
      PROVE  request'[i + 1].body \in hope'[request'[i].body]
  <2>1. /\ n + i \in DOMAIN request /\ request[n + i] = request'[i]
        /\ request'[i + 1] = request[(n + i) + 1] /\ Carries(n + i)
    BY <1>3, <1>7 DEF Carries
  <2>. QED
    BY <1>7, <2>1 DEF MemoryHeld
<1>8. MemoryHeld'
  BY <1>5, <1>6, <1>7 DEF MemoryHeld
<1>9. ASSUME pc' = "wait", IsWrite(script'[1]), script'[1].message.body \in Registers, Acked(script[1].message.body)'
      PROVE  /\ memory'[script'[1].message.body] = script'[1].packet
                \/ (restarts' > 0 /\ memory'[script'[1].message.body] = Default)
             /\ ~InFlight(script[1].message.body)'
  <2>. DEFINE r == script[1].message.body
  <2>1. Acked(r)
    BY <1>9 DEF Acked
  <2>2. /\ memory[r] = script[1].packet \/ (restarts > 0 /\ memory[r] = Default)
        /\ ~InFlight(r)
    BY <1>9, <2>1 DEF MemoryAcked
  <2>3. memory'[r] = script[1].packet \/ (restarts' > 0 /\ memory'[r] = Default)
    <3>1. CASE UNCHANGED <<memory, restarts>>
      BY <2>2, <3>1
    <3>2. CASE restarts' = restarts + 1 /\ memory' = [q \in Registers |-> Default]
      BY <1>9, <3>2 DEF MemoryHeld
    <3>. QED
      BY <3>1, <3>2
  <2>4. writing'.name # r
    BY <1>9, <2>2, TheFiles DEF InFlight
  <2>5. ~InFlight(r)'
    BY <1>4, <2>2, <2>4 DEF InFlight
  <2>. QED
    BY <1>9, <2>3, <2>5
<1>10. MemoryAcked'
  BY <1>9 DEF MemoryAcked
<1>. QED
  BY <1>8, <1>10

\* The first messages are taken.
LEMMA Taken ==
    ASSUME NEW s, s \in Seq(ToSet(s)), NEW n \in {1, 2}, Len(s) >= n, NEW t, t = SubSeq(s, n + 1, Len(s))
    PROVE  Shifted(t, s, n) /\ Head(s) = s[1] /\ s[1] \in ToSet(s)
<1>1. Len(s) \in Nat /\ n \in 0..Len(s) /\ s # <<>>
  BY LenProperties, EmptySeq
<1>2. PICK k \in 0..Len(s) : k = n
  BY <1>1
<1>3. t = SubSeq(s, k + 1, Len(s))
  BY <1>2
<1>4. /\ t \in Seq(ToSet(t)) /\ Len(t) = Len(s) - k
      /\ \A i \in DOMAIN t : k + i \in DOMAIN s /\ t[i] = s[k + i]
  BY <1>3, Rest, ZenonT(60)
<1>5. Head(s) = s[1] /\ s[1] \in ToSet(s)
  BY <1>1, Others
<1>. QED
  BY <1>1, <1>2, <1>4, <1>5 DEF Shifted

LEMMA TailShifts ==
    ASSUME NEW s, s \in Seq(ToSet(s)), s # <<>>
    PROVE  Shifted(Tail(s), s, 1)
<1>1. /\ Len(s) \in Nat /\ Len(s) >= 1 /\ Tail(s) \in Seq(ToSet(Tail(s))) /\ Len(Tail(s)) = Len(s) - 1
      /\ \A i \in DOMAIN Tail(s) : i + 1 \in DOMAIN s /\ Tail(s)[i] = s[i + 1]
      /\ DOMAIN Tail(s) = 1..Len(Tail(s))
  BY Others, LenProperties
<1>2. 1 \in 0..Len(s) /\ \A i \in DOMAIN Tail(s) : 1 + i = i + 1
  BY <1>1
<1>. QED
  BY <1>1, <1>2 DEF Shifted

LEMMA CutShifts ==
    ASSUME NEW s, s \in Seq(ToSet(s)), NEW t, t = [s EXCEPT ![2] = Msg("cut", "packet")]
    PROVE  Shifted(t, s, 0)
<1>1. Len(s) \in Nat /\ DOMAIN s = 1..Len(s)
  BY LenProperties
<1>2. DOMAIN t = 1..Len(s) /\ t = [i \in 1..Len(s) |-> t[i]]
      /\ \A i \in DOMAIN s : t[i] = s[i] \/ t[i] = Msg("cut", "packet")
  BY <1>1
<1>3. t \in [1..Len(s) -> ToSet(t)]
  BY <1>2, ZenonT(60) DEF ToSet
<1>4. t \in Seq(ToSet(t)) /\ Len(t) = Len(s)
  <2>0. \A n \in Nat : \A S : [1..n -> S] \subseteq Seq(S)
    BY SeqDef
  <2>1. t \in Seq(ToSet(t))
    BY <1>1, <1>3, <2>0
  <2>2. Len(t) \in Nat /\ DOMAIN t = 1..Len(t)
    BY <2>1, LenProperties
  <2>3. \A a, b \in Nat : 1..a = 1..b => a = b
    OBVIOUS
  <2>. QED
    BY <1>1, <1>2, <2>1, <2>2, <2>3
<1>5. Msg("cut", "packet").kind = "cut" /\ Msg("cut", "packet").of = 0
  BY Fields
<1>6. 0 \in 0..Len(s) /\ Len(s) - 0 = Len(s) /\ \A i \in DOMAIN s : 0 + i = i
  BY <1>1
<1>. QED
  BY <1>1, <1>2, <1>4, <1>5, <1>6 DEF Shifted

\* What has come by a step of fakefilser.
LEMMA Answered ==
    ASSUME IInv, NEW n \in {1, 2}, Serving(n),
           NEW s, s \in Seq(ToSet(s)), answer' = answer \o Of(s, Head(request).of) \/ answer' = answer
    PROVE  /\ Shifted(request', request, n) /\ request[1] \in ToSet(request)
           /\ \A m \in Replied' : m \in Replied \/ \E x \in ToSet(s) : m = [x EXCEPT !.of = request[1].of]
<1>1. /\ Len(request) >= n /\ request' = SubSeq(request, n + 1, Len(request)) /\ tty' = tty
      /\ request \in Seq(ToSet(request))
  BY DEF Serving, IInv, Sequenced
<1>2. Shifted(request', request, n) /\ Head(request) = request[1] /\ request[1] \in ToSet(request)
  BY <1>1, Taken
<1>5. ASSUME NEW m \in Replied'
      PROVE  m \in Replied \/ \E x \in ToSet(s) : m = [x EXCEPT !.of = request[1].of]
  <2>1. CASE answer' = answer
    BY <1>1, <1>5, <2>1 DEF Replied
  <2>2. CASE answer' = answer \o Of(s, request[1].of)
    <3>1. /\ Of(s, request[1].of) \in Seq(ToSet(Of(s, request[1].of)))
          /\ ToSet(Of(s, request[1].of)) = {[x EXCEPT !.of = request[1].of] : x \in ToSet(s)}
      BY Stamping
    <3>2. answer \in Seq(ToSet(answer))
      BY DEF IInv, Sequenced
    <3>3. ToSet(answer') = ToSet(answer) \cup ToSet(Of(s, request[1].of))
      BY <2>2, <3>1, <3>2, Joined
    <3>. QED
      BY <1>1, <1>5, <3>1, <3>3 DEF Replied
  <2>. QED
    BY <1>2, <2>1, <2>2
<1>. QED
  BY <1>2, <1>5

LEMMA AnsweredOne ==
    ASSUME IInv, NEW n \in {1, 2}, Serving(n), NEW k, NEW b, Reply(Msg(k, b)) \/ answer' = answer
    PROVE  /\ Shifted(request', request, n) /\ request[1] \in ToSet(request)
           /\ \A m \in Replied' : m \in Replied \/ (m.kind = k /\ m.body = b /\ m.of = request[1].of)
<1>. DEFINE x == Msg(k, b)  s == <<x>>
<1>1. s \in Seq(ToSet(s)) /\ ToSet(s) = {x}
  BY OneOrTwo
<1>2. answer' = answer \o Of(s, Head(request).of) \/ answer' = answer
  BY DEF Reply, Replies
<1>3. \A g : [x EXCEPT !.of = g].kind = k /\ [x EXCEPT !.of = g].body = b /\ [x EXCEPT !.of = g].of = g
  BY Fields
<1>. HIDE DEF x, s
<1>4. /\ Shifted(request', request, n) /\ request[1] \in ToSet(request)
      /\ \A m \in Replied' : m \in Replied \/ \E y \in ToSet(s) : m = [y EXCEPT !.of = request[1].of]
  BY <1>1, <1>2, Answered, Zenon
<1>5. ASSUME NEW m \in Replied', m \notin Replied
      PROVE  m.kind = k /\ m.body = b /\ m.of = request[1].of
  <2>1. m = [x EXCEPT !.of = request[1].of]
    BY <1>1, <1>4, <1>5
  <2>. QED
    BY <1>3, <2>1
<1>. QED
  BY <1>4, <1>5

\* Answers come that answer what is remembered of what was asked for.
Answering(m) == m.kind = "value" =>
    \E w \in ToSet(request) : w.kind = "READ" /\ w.of = m.of /\ Remembered(w.body, m.body)

LEMMA ReadsWire ==
    ASSUME IInv, MemoryHeld, Reads, UNCHANGED <<hope, script, pc, given>>, restarts' \in {restarts, restarts + 1},
           \A m \in ToSet(request') : m \in ToSet(request) \/ m.kind # "READ",
           \A m \in Replied' : m \in Replied \/ Answering(m)
    PROVE  Reads'
<1>1. \A n, x : Remembered(n, x) => Remembered(n, x)'
  <2>1. restarts > 0 => restarts' > 0
    BY DEF MemoryHeld
  <2>. QED
    BY <2>1 DEF Remembered
<1>2. Asking(script)'
  BY DEF Reads, Asking, Question, IsRead
<1>3. ASSUME NEW k \in DOMAIN script, IsRead(script[k]), pc = "wait" => k # 1
      PROVE  /\ \A m \in ToSet(request') : m.kind = "READ" => m.of # given
             /\ \A m \in Replied' : m.kind = "value" => m.of # given
  <2>1. /\ \A m \in ToSet(request) : m.kind = "READ" => m.of # given
        /\ \A m \in Replied : m.kind = "value" => m.of # given
    BY <1>3 DEF Reads, Unasked
  <2>. QED
    BY <2>1 DEF Answering
<1>4. Unasked'
  BY <1>3 DEF Unasked, IsRead
<1>5. ASSUME pc = "wait", IsRead(script[1])
      PROVE  /\ \A m \in ToSet(request') : m.kind = "READ" /\ m.of = given => m.body = script[1].message.body
             /\ \A m \in Replied' : m.kind = "value" /\ m.of = given => Remembered(script[1].message.body, m.body)'
  <2>1. /\ \A m \in ToSet(request) : m.kind = "READ" /\ m.of = given => m.body = script[1].message.body
        /\ \A m \in Replied : m.kind = "value" /\ m.of = given => Remembered(script[1].message.body, m.body)
    BY <1>5 DEF Reads, Awaited
  <2>2. \A m \in Replied' : m.kind = "value" /\ m.of = given => Remembered(script[1].message.body, m.body)
    BY <2>1 DEF Answering
  <2>. QED
    BY <1>1, <2>1, <2>2
<1>6. Awaited'
  BY <1>5 DEF Awaited, IsRead
<1>. QED
  BY <1>2, <1>4, <1>6 DEF Reads

\* Both, for what answers one request without a change of the memory.
LEMMA AnswerStep ==
    ASSUME IInv, MemoryHeld, MemoryAcked, Reads, NEW n, Shifted(request', request, n),
           UNCHANGED <<memory, restarts, hope, script, pc, given>>,
           writing' \in {writing, NoWrite} \/ writing'.name \in Files,
           \A m \in Replied' : m \in Replied \/ (Answering(m) /\ ~(m.kind = "ACK" /\ m.body \in Registers))
    PROVE  MemoryHeld' /\ MemoryAcked' /\ Reads'
<1>1. \A m \in ToSet(request') : m \in ToSet(request) \/ m.kind \in {"damaged", "cut"}
  BY DEF Shifted, ToSet
<1>2. MemoryHeld' /\ MemoryAcked'
  BY MemoryWire
<1>3. Reads'
  BY <1>1, ReadsWire
<1>. QED
  BY <1>2, <1>3

\* The handlers of fakefilser that leave the memory alone.
LEMMA QuietReads ==
    ASSUME IInv, FilesHeld, MemoryHeld, MemoryAcked, Reads, Quiet, ~handle_write_register
    PROVE  MemoryHeld' /\ MemoryAcked' /\ Reads'
<1>. DEFINE Same == /\ UNCHANGED <<memory, restarts, hope, script, pc, given, writing>>
            Known == \A m \in Replied' : m \in Replied \/ (Answering(m) /\ ~(m.kind = "ACK" /\ m.body \in Registers))
            Right == MemoryHeld' /\ MemoryAcked' /\ Reads'
<1>1. ASSUME NEW n \in {1, 2}, Serving(n), UNCHANGED <<memory, writing>>
      PROVE  Same
  BY <1>1 DEF Serving, tool, promised
<1>2. ASSUME Same, Known, NEW n, Shifted(request', request, n)
      PROVE  Right
  BY <1>2, AnswerStep
<1>3. ASSUME NEW n \in {1, 2}, Serving(n), UNCHANGED <<memory, writing>>, NEW k, NEW b,
             Reply(Msg(k, b)) \/ answer' = answer, k # "value", ~(k = "ACK" /\ b \in Registers)
      PROVE  Right
  <2>1. /\ Shifted(request', request, n)
        /\ \A m \in Replied' : m \in Replied \/ (m.kind = k /\ m.body = b)
    BY <1>3, AnsweredOne
  <2>2. Known
    BY <1>3, <2>1 DEF Answering
  <2>. QED
    BY <1>1, <1>2, <1>3, <2>1, <2>2
<1>4. ASSUME Serving(1), UNCHANGED <<memory, writing>>, NEW n, request[1].kind = "READ", request[1].body = n,
             NEW b, Reply(Msg("value", b)) \/ answer' = answer, Reply(Msg("value", b)) => Remembered(n, b)
      PROVE  Right
  <2>1. CASE answer' = answer
    <3>1. /\ Shifted(request', request, 1)
          /\ \A m \in Replied' : m \in Replied \/ (m.kind = "none" /\ m.body = 0)
      BY <1>4, <2>1, AnsweredOne
    <3>2. Known
      BY <3>1 DEF Answering
    <3>. QED
      BY <1>1, <1>2, <1>4, <3>1, <3>2
  <2>2. CASE Reply(Msg("value", b))
    <3>1. /\ Shifted(request', request, 1) /\ request[1] \in ToSet(request)
          /\ \A m \in Replied' : m \in Replied \/ (m.kind = "value" /\ m.body = b /\ m.of = request[1].of)
      BY <1>4, AnsweredOne
    <3>2. Remembered(request[1].body, b)
      BY <1>4, <2>2
    <3>3. Known
      BY <1>4, <3>1, <3>2 DEF Answering
    <3>. QED
      BY <1>1, <1>2, <1>4, <3>1, <3>3
  <2>. QED
    BY <1>4, <2>1, <2>2
<1>. SUFFICES Right
  OBVIOUS
<1>. HIDE DEF Right, Known, Same
<1>5. CASE handle_syn
  <2>1. Serving(1) /\ Reply(Msg("ACK", "SYN")) /\ UNCHANGED <<memory, writing>>
    BY <1>5 DEF handle_syn, Serve, Ack, disk, state
  <2>. QED
    BY <1>3, <2>1, TheFiles
<1>6. CASE handle_fixed
  <2>1. PICK k \in DOMAIN FixedAnswer :
          Serving(1) /\ Reply(Msg(FixedAnswer[k], 0)) /\ UNCHANGED <<memory, writing>>
    BY <1>6 DEF handle_fixed, Serve, disk, state
  <2>2. FixedAnswer[k] \notin {"ACK", "value"}
    BY DEF FixedAnswer
  <2>. QED
    BY <1>3, <2>1, <2>2
<1>7. CASE handle_clear_lo4
  <2>1. Serving(1) /\ Reply(Msg("ACK", "CLEAR_LO4")) /\ UNCHANGED <<memory, writing>>
    BY <1>7 DEF handle_clear_lo4, Serve, Ack, disk, state
  <2>. QED
    BY <1>3, <2>1, TheFiles
<1>8. CASE handle_read_register
  <2>1. PICK r \in Registers : /\ Serving(1) /\ request[1].kind = "READ" /\ request[1].body = r
                               /\ Reply(Msg("value", memory[r])) /\ UNCHANGED <<memory, writing>>
    BY <1>8 DEF handle_read_register, Asked, disk, state
  <2>2. Remembered(r, memory[r])
    BY DEF MemoryHeld
  <2>. QED
    BY <1>4, <2>1, <2>2
<1>9. CASE upload_from_file
  <2>1. PICK n \in Files : /\ Serving(1) /\ request[1].kind = "READ" /\ request[1].body = n
                           /\ IF Readable(files[n]) THEN Reply(Msg("value", files[n])) ELSE answer' = answer
                           /\ UNCHANGED <<memory, writing>>
    BY <1>9 DEF upload_from_file, Asked, disk, state
  <2>2. Readable(files[n]) => Remembered(n, files[n])
    BY DEF FilesHeld, Remembered
  <2>3. CASE Readable(files[n])
    BY <1>4, <2>1, <2>2, <2>3
  <2>4. CASE ~Readable(files[n])
    <3>1. Serving(1) /\ answer' = answer /\ UNCHANGED <<memory, writing>>
      BY <2>1, <2>4
    <3>. QED
      BY <1>3, <3>1
  <2>. QED
    BY <2>3, <2>4
<1>10. CASE handle_apt_download
  <2>1. Serving(1) /\ Reply(Msg("garbage", 0)) /\ UNCHANGED <<memory, writing>>
    BY <1>10 DEF handle_apt_download, Asked, disk, state
  <2>. QED
    BY <1>3, <2>1
<1>11. CASE handle_70
  <2>1. Serving(1) /\ answer' = answer /\ UNCHANGED <<memory, writing>>
    BY <1>11 DEF handle_70, Serve, disk
  <2>. QED
    BY <1>3, <2>1
<1>12. CASE handle_open_flight_list
  <2>. DEFINE f(i) == Msg("flight", <<flight_address(i), flight_end(i)>>)
              s == [i \in Flights |-> f(i)]  z == <<Msg("null", 0)>>
  <2>1. Serving(1) /\ answer' = answer \o Of(s \o z, Head(request).of) /\ UNCHANGED <<memory, writing>>
    BY <1>12 DEF handle_open_flight_list, Serve, Replies, disk
  <2>2. \A i : f(i).kind = "flight" /\ f(i) = Msg(f(i).kind, f(i).body)
    BY Fields
  <2>. HIDE DEF f
  <2>3. s \in Seq(ToSet(s)) /\ \A x \in ToSet(s) : \E i : x = f(i)
    <3>1. Flights = 1..Len(Lengths) /\ Len(Lengths) \in Nat
      BY MemoryAssumption, LenProperties DEF Flights
    <3>2. s \in [1..Len(Lengths) -> {f(i) : i \in Flights}]
      BY <3>1
    <3>3. s \in Seq({f(i) : i \in Flights})
      BY <3>1, <3>2, SeqDef
    <3>. QED
      BY <3>3, Members
  <2>4. z \in Seq(ToSet(z)) /\ ToSet(z) = {Msg("null", 0)} /\ Msg("null", 0).kind = "null" /\ Msg("null", 0).body = 0
    BY OneOrTwo, Fields
  <2>. HIDE DEF s, z
  <2>5. s \o z \in Seq(ToSet(s \o z)) /\ ToSet(s \o z) = ToSet(s) \cup ToSet(z)
    BY <2>3, <2>4, Joined
  <2>6. \A x \in ToSet(s \o z) : x = Msg(x.kind, x.body) /\ x.kind \notin {"ACK", "value"}
    BY <2>2, <2>3, <2>4, <2>5
  <2>7. \A x \in ToSet(s \o z) : \A g : [x EXCEPT !.of = g].kind \notin {"ACK", "value"}
    BY <2>6, Fields
  <2>8. /\ Shifted(request', request, 1)
        /\ \A m \in Replied' : m \in Replied \/ \E x \in ToSet(s \o z) : m = [x EXCEPT !.of = request[1].of]
    BY <2>1, <2>5, Answered
  <2>9. \A m \in Replied' : m \in Replied \/ m.kind \notin {"ACK", "value"}
    <3>1. ASSUME NEW m \in Replied', m \notin Replied
          PROVE  m.kind \notin {"ACK", "value"}
      <4>1. PICK x \in ToSet(s \o z) : m = [x EXCEPT !.of = request[1].of]
        BY <2>8, <3>1
      <4>. QED
        BY <2>7, <4>1
    <3>. QED
      BY <3>1
  <2>10. Known
    BY <2>9 DEF Answering, Known
  <2>. QED
    BY <1>1, <1>2, <2>1, <2>8, <2>10
<1>13. CASE handle_def_mem
  <2>1. Serving(2) /\ (Reply(Msg("ACK", "DEF_MEM")) \/ answer' = answer) /\ UNCHANGED <<memory, writing>>
    BY <1>13 DEF handle_def_mem, Given, Ack, disk
  <2>. QED
    BY <1>3, <2>1, TheFiles
<1>14. CASE handle_get_mem_section
  <2>1. PICK b : Serving(1) /\ Reply(Msg("sections", b)) /\ UNCHANGED <<memory, writing>>
    BY <1>14 DEF handle_get_mem_section, Serve, disk
  <2>. QED
    BY <1>3, <2>1
<1>15. CASE handle_get_logger_data
  <2>1. PICK b : Serving(1) /\ Reply(Msg("data", b)) /\ UNCHANGED <<memory, writing>>
    BY <1>15 DEF handle_get_logger_data, Serve, disk, state
  <2>. QED
    BY <1>3, <2>1
<1>16. CASE handle_unknown
  <2>1. Serving(1) /\ answer' = answer /\ UNCHANGED <<memory, writing>>
    BY <1>16 DEF handle_unknown, Serve, disk, state
  <2>. QED
    BY <1>3, <2>1
<1>17. CASE dump_timeout
  <2>1. /\ UNCHANGED <<answer, tty, memory, restarts, hope, script, pc, given, writing>>
        /\ request' = request \/ (request # <<>> /\ request' = Tail(request))
    BY <1>17 DEF dump_timeout, state, disk, tool, promised
  <2>2. Known /\ Same
    BY <2>1 DEF Known, Same, Replied
  <2>3. request \in Seq(ToSet(request))
    BY DEF IInv, Sequenced
  <2>4. CASE request' = request
    BY <1>2, <2>2, <2>4, Unread
  <2>5. CASE request # <<>> /\ request' = Tail(request)
    <3>1. Shifted(request', request, 1)
      BY <2>3, <2>5, TailShifts
    <3>. QED
      BY <1>2, <2>2, <3>1
  <2>. QED
    BY <2>1, <2>4, <2>5
<1>. QED
  BY <1>5, <1>6, <1>7, <1>8, <1>9, <1>10, <1>11, <1>12, <1>13, <1>14, <1>15, <1>16, <1>17 DEF Quiet

\* A register is written: the tool hopes for what comes, and no other write of
\* it by the same command is left, nor any of an earlier one.
LEMMA RegisterStep ==
    ASSUME IInv, FilesHeld, MemoryHeld, MemoryAcked, Reads, handle_write_register
    PROVE  MemoryHeld' /\ MemoryAcked' /\ Reads'
<1>1. PICK r \in Registers :
        /\ Serving(2) /\ request[1].kind = "WRITE" /\ request[1].body = r
        /\ \/ /\ request[2].kind = "packet" /\ Reply(Msg("ACK", r))
              /\ memory' = [memory EXCEPT ![r] = request[2].body]
           \/ UNCHANGED <<memory, answer>>
        /\ UNCHANGED writing
  BY DEF handle_write_register, Given, Packet, Ack, disk
<1>2. /\ UNCHANGED <<restarts, hope, script, pc, given, writing>>
      /\ Len(request) >= 2 /\ request' = SubSeq(request, 2 + 1, Len(request))
  BY <1>1 DEF Serving, tool, promised
<1>3. request \in Seq(ToSet(request)) /\ Len(request) \in Nat
  BY LenProperties DEF IInv, Sequenced
<1>4. Shifted(request', request, 2) /\ request[1] \in ToSet(request)
  BY <1>2, <1>3, Taken
<1>5. CASE UNCHANGED <<memory, answer>>
  <2>1. /\ Shifted(request', request, 2)
        /\ \A m \in Replied' : m \in Replied \/ (m.kind = "none" /\ m.body = 0)
    BY <1>1, <1>5, AnsweredOne
  <2>2. \A m \in Replied' : m \in Replied \/ (Answering(m) /\ ~(m.kind = "ACK" /\ m.body \in Registers))
    BY <2>1 DEF Answering
  <2>. QED
    BY <1>2, <1>4, <1>5, <2>2, AnswerStep
<1>6. CASE /\ request[2].kind = "packet" /\ Reply(Msg("ACK", r))
           /\ memory' = [memory EXCEPT ![r] = request[2].body]
  <2>. DEFINE v == request[2].body
  <2>1. \A m \in Replied' : m \in Replied \/ (m.kind = "ACK" /\ m.body = r /\ m.of = request[1].of)
    BY <1>1, <1>6, AnsweredOne
  <2>2. Reads'
    <3>1. \A m \in ToSet(request') : m \in ToSet(request) \/ m.kind # "READ"
      BY <1>4 DEF Shifted, ToSet
    <3>2. \A m \in Replied' : m \in Replied \/ Answering(m)
      BY <2>1 DEF Answering
    <3>. QED
      BY <1>2, <3>1, <3>2, ReadsWire
  <2>3. 1 \in DOMAIN request /\ Carries(1) /\ request[1 + 1] = request[2]
    BY <1>1, <1>2, <1>3, <1>6, LenProperties DEF Carries
  <2>4. v \in hope[r]
    BY <1>1, <2>3 DEF MemoryHeld
  <2>. HIDE DEF v
  <2>5. /\ memory' = [q \in Registers |-> memory'[q]] /\ memory'[r] = v
        /\ \A q \in Registers : q # r => memory'[q] = memory[q]
    BY <1>6 DEF MemoryHeld, v
  <2>6. \A q \in Registers : Remembered(q, memory[q])'
    BY <1>2, <2>4, <2>5 DEF MemoryHeld, Remembered
  <2>7. MemoryHeld'
    <3>1. ASSUME NEW i \in DOMAIN request', Carries(i)', request'[i].body \in Registers
          PROVE  request'[i + 1].body \in hope[request'[i].body]
      <4>1. /\ \A j \in DOMAIN request' : 2 + j \in DOMAIN request /\
                 (request'[j] = request[2 + j] \/ request'[j].kind \in {"damaged", "cut"})
            /\ DOMAIN request' = 1..Len(request') /\ Len(request') = Len(request) - 2
            /\ DOMAIN request = 1..Len(request)
        BY <1>3, <1>4, LenProperties DEF Shifted
      <4>2. 2 + i \in DOMAIN request /\ request'[i] = request[2 + i]
        BY <3>1, <4>1 DEF Carries
      <4>3. (2 + i) + 1 \in DOMAIN request
        BY <3>1, <4>2 DEF Carries, IInv, Pairs
      <4>4. i + 1 \in DOMAIN request' /\ 2 + (i + 1) = (2 + i) + 1
        BY <1>3, <4>1, <4>3
      <4>5. request'[i + 1] = request[(2 + i) + 1]
        BY <3>1, <4>1, <4>4 DEF Carries
      <4>6. Carries(2 + i)
        BY <3>1, <4>2, <4>5 DEF Carries
      <4>. QED
        BY <3>1, <4>2, <4>5, <4>6 DEF MemoryHeld
    <3>. QED
      BY <1>2, <2>5, <2>6, <3>1 DEF MemoryHeld
  <2>8. \A m \in ToSet(request') : m \in ToSet(request) \/ m.kind \in {"damaged", "cut"}
    BY <1>4 DEF Shifted, ToSet
  <2>9. ASSUME pc = "wait", IsWrite(script[1]), script[1].message.body \in Registers, Acked(script[1].message.body)'
        PROVE  /\ memory'[script[1].message.body] = script[1].packet
                  \/ (restarts > 0 /\ memory'[script[1].message.body] = Default)
               /\ ~InFlight(script[1].message.body)'
    <3>. DEFINE q == script[1].message.body
    <3>1. CASE Acked(q)
      <4>1. /\ memory[q] = script[1].packet \/ (restarts > 0 /\ memory[q] = Default)
            /\ ~InFlight(q)
        BY <2>9, <3>1 DEF MemoryAcked
      <4>2. q # r
        BY <1>1, <1>4, <4>1 DEF InFlight
      <4>3. memory'[q] = memory[q]
        BY <2>5, <2>9, <4>2
      <4>4. ~InFlight(q)'
        BY <1>2, <2>8, <4>1 DEF InFlight
      <4>. QED
        BY <4>1, <4>3, <4>4
    <3>2. CASE ~Acked(q)
      <4>1. q = r /\ request[1].of = given
        BY <1>2, <2>1, <2>9, <3>2 DEF Acked
      <4>2. v = script[1].packet
        BY <1>1, <2>3, <2>9, <4>1 DEF IInv, Sent, v
      <4>3. ASSUME NEW m \in ToSet(request'), m.kind = "WRITE", m.body = r
            PROVE  FALSE
        <5>1. /\ \A j \in DOMAIN request' : 2 + j \in DOMAIN request /\
                   (request'[j] = request[2 + j] \/ request'[j].kind \in {"damaged", "cut"})
              /\ DOMAIN request' = 1..Len(request')
          BY <1>4, LenProperties DEF Shifted
        <5>2. PICK j \in DOMAIN request' : m = request'[j]
          BY <4>3 DEF ToSet
        <5>3. 2 + j \in DOMAIN request /\ m = request[2 + j] /\ 1 < 2 + j /\ m \in ToSet(request)
          BY <4>3, <5>1, <5>2 DEF ToSet
        <5>4. given <= m.of /\ m.of # given
          BY <1>1, <2>3, <4>1, <4>3, <5>3 DEF IInv, Ordered
        <5>5. m.of \in 0..given /\ given \in Nat
          BY <5>3 DEF IInv, Stamped
        <5>. QED
          BY <5>4, <5>5
      <4>4. writing'.name # r
        <5>1. writing = NoWrite \/ writing.name \in Files
          BY DEF IInv, Hoped
        <5>. QED
          BY <1>2, <5>1, TheFiles
      <4>5. memory'[r] = script[1].packet
        BY <2>5, <4>2
      <4>6. ~InFlight(r)'
        BY <4>3, <4>4 DEF InFlight
      <4>. QED
        BY <1>2, <4>1, <4>5, <4>6
    <3>. QED
      BY <3>1, <3>2
  <2>10. MemoryAcked'
    <3>1. UNCHANGED <<pc, script, restarts>>
      BY <1>2
    <3>. QED
      BY <2>9, <3>1 DEF MemoryAcked, IsWrite
  <2>. QED
    BY <2>2, <2>7, <2>10
<1>. QED
  BY <1>1, <1>5, <1>6

\* Whatever is none of the tool's.
LEMMA OutsideReads ==
    ASSUME IInv, FilesHeld, MemoryHeld, MemoryAcked, Reads, Device \/ LineFault \/ Arrive \/ Kill \/ Restart
    PROVE  MemoryHeld' /\ MemoryAcked' /\ Reads'
<1>. DEFINE Less == /\ UNCHANGED <<hope, script, pc, given>>
                    /\ \A m \in Replied' : m \in Replied \/ m.kind \in {"damaged", "cut"}
                    /\ writing' \in {writing, NoWrite} \/ writing'.name \in Files
            Cleared == restarts' = restarts + 1 /\ memory' = [r \in Registers |-> Default]
            Right == MemoryHeld' /\ MemoryAcked' /\ Reads'
<1>. SUFFICES Right
  OBVIOUS
<1>1. ASSUME Less, NEW n, Shifted(request', request, n), UNCHANGED <<memory, restarts>> \/ Cleared
      PROVE  Right
  <2>1. \A m \in ToSet(request') : m \in ToSet(request) \/ m.kind \in {"damaged", "cut"}
    BY <1>1 DEF Shifted, ToSet
  <2>2. MemoryHeld' /\ MemoryAcked'
    BY <1>1, MemoryWire
  <2>3. \A m \in Replied' : m \in Replied \/ Answering(m)
    BY <1>1 DEF Answering
  <2>4. Reads'
    BY <1>1, <2>1, <2>3, ReadsWire
  <2>. QED
    BY <2>2, <2>4
<1>2. request \in Seq(ToSet(request)) /\ answer \in Seq(ToSet(answer))
  BY DEF IInv, Sequenced
<1>3. CASE Device
  <2>1. CASE Quiet /\ ~handle_write_register
    BY <2>1, QuietReads
  <2>2. CASE handle_write_register
    BY <2>2, RegisterStep
  <2>3. CASE handle_write_file \/ handle_apt_upload
    <3>1. PICK n \in Files : StartWrite(n)
      BY <2>3, TheFiles DEF handle_write_file, handle_apt_upload
    <3>2. /\ Serving(2) /\ UNCHANGED <<answer, memory>> /\ (writing' = writing \/ writing'.name = n)
      BY <3>1 DEF StartWrite, Given, state, disk
    <3>3. /\ UNCHANGED <<tty, restarts, hope, script, pc, given>>
          /\ Len(request) >= 2 /\ request' = SubSeq(request, 2 + 1, Len(request))
      BY <3>2 DEF Serving, tool, promised
    <3>4. Shifted(request', request, 2)
      BY <1>2, <3>3, Taken
    <3>5. Less
      BY <3>2, <3>3 DEF Replied
    <3>. QED
      BY <1>1, <3>2, <3>3, <3>4, <3>5
  <2>4. CASE FinishWrite
    <3>1. /\ UNCHANGED <<request, tty, memory, restarts, hope, script, pc, given>> /\ writing' = NoWrite
          /\ writing # NoWrite
          /\ answer' = answer \/ answer' = answer \o Of(<<Ack(writing.name)>>, writing.of)
      BY <2>4 DEF FinishWrite, state, tool, promised
    <3>2. writing.name \in Files
      BY <3>1 DEF IInv, Hoped
    <3>3. \A m \in Replied' : m \in Replied \/ (m.kind = "ACK" /\ m.body \notin Registers)
      <4>1. CASE answer' = answer
        BY <3>1, <4>1 DEF Replied
      <4>2. CASE answer' = answer \o Of(<<Ack(writing.name)>>, writing.of)
        <5>. DEFINE x == Ack(writing.name)  new == Of(<<x>>, writing.of)
        <5>1. <<x>> \in Seq(ToSet(<<x>>)) /\ ToSet(<<x>>) = {x}
          BY OneOrTwo
        <5>2. [x EXCEPT !.of = writing.of].kind = "ACK" /\ [x EXCEPT !.of = writing.of].body = writing.name
          BY Fields DEF Ack
        <5>. HIDE DEF x
        <5>3. new \in Seq(ToSet(new)) /\ ToSet(new) = {[y EXCEPT !.of = writing.of] : y \in ToSet(<<x>>)}
          BY <5>1, Stamping
        <5>. HIDE DEF new
        <5>4. answer' = answer \o new
          BY <4>2 DEF new, x
        <5>5. ToSet(answer') = ToSet(answer) \cup ToSet(new)
          BY <1>2, <5>3, <5>4, Joined
        <5>6. \A m \in ToSet(new) : m.kind = "ACK" /\ m.body \notin Registers
          BY <3>2, <5>1, <5>2, <5>3, TheFiles
        <5>. QED
          BY <3>1, <5>5, <5>6 DEF Replied
      <4>. QED
        BY <3>1, <4>1, <4>2
    <3>4. \A m \in Replied' : m \in Replied \/ (Answering(m) /\ ~(m.kind = "ACK" /\ m.body \in Registers))
      BY <3>3 DEF Answering
    <3>. QED
      BY <3>1, <3>4, Unread, AnswerStep
  <2>. QED
    BY <1>3, <2>1, <2>2, <2>3, <2>4 DEF Device, Quiet
<1>4. CASE LineFault
  <2>1. PICK k \in {"lose", "damage"} :
          \/ request # <<>> /\ request' = Hurt(k, request) /\ UNCHANGED answer
          \/ answer # <<>> /\ answer' = Hurt(k, answer) /\ UNCHANGED request
          \/ Len(request) > 1 /\ request' = [request EXCEPT ![2] = Msg("cut", "packet")] /\ UNCHANGED answer
    BY <1>4 DEF LineFault
  <2>2. UNCHANGED <<tty, memory, restarts, writing, given, script, pc, hope>>
    BY <1>4 DEF LineFault, device, state, disk, tool, promised
  <2>3. CASE request # <<>> /\ request' = Hurt(k, request) /\ UNCHANGED answer
    <3>1. PICK n \in {0, 1} : Shifted(request', request, n)
      BY <1>2, <2>3, HurtLine
    <3>2. Less
      BY <2>2, <2>3 DEF Replied
    <3>. QED
      BY <1>1, <2>2, <3>1, <3>2
  <2>4. CASE answer # <<>> /\ answer' = Hurt(k, answer) /\ UNCHANGED request
    <3>1. PICK n \in {0, 1} : Shifted(answer', answer, n)
      BY <1>2, <2>4, HurtLine
    <3>2. \A m \in ToSet(answer') : m \in ToSet(answer) \/ m.kind \in {"damaged", "cut"}
      BY <3>1, ZenonT(60) DEF ToSet, Shifted
    <3>3. Less
      BY <2>2, <3>2 DEF Replied
    <3>. QED
      BY <1>1, <2>2, <2>4, <3>3, Unread
  <2>5. CASE Len(request) > 1 /\ request' = [request EXCEPT ![2] = Msg("cut", "packet")] /\ UNCHANGED answer
    <3>1. Shifted(request', request, 0)
      BY <1>2, <2>5, CutShifts
    <3>2. Less
      BY <2>2, <2>5 DEF Replied
    <3>. QED
      BY <1>1, <2>2, <3>1, <3>2
  <2>. QED
    BY <2>1, <2>3, <2>4, <2>5
<1>5. CASE Arrive
  <2>1. /\ answer # <<>> /\ answer' = Tail(answer) /\ (tty' = tty \/ tty' = Append(tty, Head(answer)))
        /\ UNCHANGED <<request, memory, restarts, writing, given, script, pc, hope>>
    BY <1>5 DEF Arrive, device, state, disk, tool, promised
  <2>2. ToSet(answer') \subseteq ToSet(answer) /\ Head(answer) \in ToSet(answer)
    BY <1>2, <2>1, Others
  <2>3. tty \in Seq(ToSet(tty))
    BY DEF IInv, Sequenced
  <2>4. ToSet(tty') \subseteq ToSet(tty) \cup {Head(answer)}
    BY <2>1, <2>3, OneMore
  <2>5. Less
    BY <2>1, <2>2, <2>4 DEF Replied
  <2>. QED
    BY <1>1, <2>1, <2>5, Unread
<1>6. CASE Kill
  <2>1. writing' = NoWrite /\ UNCHANGED <<request, answer, tty, memory, restarts, given, script, pc, hope>>
    BY <1>6 DEF Kill, wire, state, tool, promised
  <2>2. Less
    BY <2>1 DEF Replied
  <2>. QED
    BY <1>1, <2>1, <2>2, Unread
<1>7. CASE Restart
  <2>1. request' = <<>> /\ Cleared /\ UNCHANGED <<answer, tty, writing, given, script, pc, hope>>
    BY <1>7 DEF Restart, disk, tool, promised
  <2>2. Less
    BY <2>1 DEF Replied
  <2>3. Shifted(request', request, Len(request))
    <3>1. Len(request) \in 0..Len(request) /\ Len(request) - Len(request) = 0
      <4>1. Len(request) \in Nat
        BY <1>2, LenProperties
      <4>. QED
        BY <4>1
    <3>. QED
      BY <2>1, <3>1, OneOrTwo DEF Shifted
  <2>. QED
    BY <1>1, <2>1, <2>2, <2>3
<1>. QED
  BY <1>3, <1>4, <1>5, <1>6, <1>7

\* Steps that read nothing.
Askless(t) == t \in Seq(ToSet(t)) /\ \A s \in ToSet(t) : Question(s) /\ ~IsRead(s)

\* Steps that ask nothing are asked at most once.
LEMMA AsklessAsking ==
    ASSUME NEW t, Askless(t)
    PROVE  Asking(t)
BY DEF Askless, Asking, ToSet

LEMMA AsklessJoined ==
    ASSUME NEW s, NEW t, Askless(s), Askless(t)
    PROVE  Askless(s \o t)
<1>1. s \in Seq(ToSet(s)) /\ t \in Seq(ToSet(t))
  BY DEF Askless
<1>2. s \o t \in Seq(ToSet(s \o t)) /\ ToSet(s \o t) = ToSet(s) \cup ToSet(t)
  BY <1>1, Joined
<1>. QED
  BY <1>2 DEF Askless

\* Joined to steps that ask nothing, a command still reads one thing at the most.
LEMMA AskingJoined ==
    ASSUME NEW s, NEW t, (Asking(s) /\ Askless(t)) \/ (Askless(s) /\ Asking(t))
    PROVE  Asking(s \o t)
<1>. DEFINE u == s \o t
<1>1. /\ s \in Seq(ToSet(s)) /\ t \in Seq(ToSet(t))
      /\ \A x \in ToSet(s) \cup ToSet(t) : Question(x)
      /\ \A j, k \in DOMAIN s : IsRead(s[j]) /\ IsRead(s[k]) => j = k
      /\ \A j, k \in DOMAIN t : IsRead(t[j]) /\ IsRead(t[k]) => j = k
      /\ (\A j \in DOMAIN s : ~IsRead(s[j])) \/ (\A j \in DOMAIN t : ~IsRead(t[j]))
  BY DEF Asking, Askless, ToSet
<1>2. u \in Seq(ToSet(u)) /\ ToSet(u) = ToSet(s) \cup ToSet(t)
  BY <1>1, Joined
<1>3. \A i \in DOMAIN s : u[i] = s[i]
  BY <1>1, Joined
<1>4. \A i \in DOMAIN u : i \in DOMAIN s \/ (i - Len(s) \in DOMAIN t /\ u[i] = t[i - Len(s)])
  BY <1>1, Joined
<1>5. Len(s) \in Nat /\ \A i \in DOMAIN u : i \in Nat
  BY <1>1, <1>2, LenProperties
<1>. HIDE DEF u
<1>6. ASSUME NEW j \in DOMAIN u, NEW k \in DOMAIN u, IsRead(u[j]), IsRead(u[k])
      PROVE  j = k
  <2>1. CASE j \in DOMAIN s /\ k \in DOMAIN s
    BY <1>1, <1>3, <1>6, <2>1
  <2>2. CASE j \notin DOMAIN s /\ k \notin DOMAIN s
    <3>1. j - Len(s) = k - Len(s)
      BY <1>1, <1>4, <1>6, <2>2
    <3>. QED
      BY <1>5, <3>1
  <2>3. CASE j \in DOMAIN s /\ k \notin DOMAIN s
    BY <1>1, <1>3, <1>4, <1>6, <2>3
  <2>4. CASE j \notin DOMAIN s /\ k \in DOMAIN s
    BY <1>1, <1>3, <1>4, <1>6, <2>4
  <2>. QED
    BY <2>1, <2>2, <2>3, <2>4
<1>. QED
  BY <1>1, <1>2, <1>6 DEF Asking, u

LEMMA Singles ==
    \A a : /\ Question(a) => Asking(<<a>>)
           /\ Question(a) /\ ~IsRead(a) => Askless(<<a>>)
<1>1. ASSUME NEW a, Question(a)
      PROVE  Asking(<<a>>) /\ (~IsRead(a) => Askless(<<a>>))
  <2>1. <<a>> \in Seq(ToSet(<<a>>)) /\ ToSet(<<a>>) = {a} /\ DOMAIN <<a>> = {1}
    BY OneOrTwo
  <2>. QED
    BY <1>1, <2>1 DEF Asking, Askless
<1>. QED
  BY <1>1

\* Two steps are one and another.
LEMMA Pair ==
    ASSUME NEW a, NEW b
    PROVE  <<a, b>> = <<a>> \o <<b>>
<1>. DEFINE s == <<a>> \o <<b>>  t == <<a, b>>
<1>1. <<a>> \in Seq({a, b}) /\ <<b>> \in Seq({a, b}) /\ t \in Seq({a, b})
  OBVIOUS
<1>2. Len(<<a>>) = 1 /\ Len(<<b>>) = 1 /\ Len(t) = 2 /\ <<a>>[1] = a /\ <<b>>[1] = b /\ t[1] = a /\ t[2] = b
  OBVIOUS
<1>3. s \in Seq({a, b}) /\ Len(s) = 2 /\ s[1] = a /\ s[2] = b
  BY <1>1, <1>2, ConcatProperties
<1>. HIDE DEF s, t
<1>4. \A i \in 1..2 : i = 1 \/ i = 2
  OBVIOUS
<1>5. s = t
  BY <1>1, <1>2, <1>3, <1>4, SeqEqual
<1>. QED
  BY <1>5 DEF s, t

\* What the steps of a script ask.
LEMMA TheQuestions ==
    /\ Question(Syn) /\ ~IsRead(Syn)
    /\ \A w \in {"crash", "list", "seek", "sections", "save"} : Question(Do(w)) /\ ~IsRead(Do(w))
    /\ \A k, b, e : k # "READ" /\ e # "value" => Question(Ask(k, b, e)) /\ ~IsRead(Ask(k, b, e))
    /\ \A b, e : Question(Ask("READ", b, e))
    /\ \A k, b, e : k # "READ" /\ e # "value" =>
         /\ Question([Ask(k, b, e) EXCEPT !.op = "most"]) /\ ~IsRead([Ask(k, b, e) EXCEPT !.op = "most"])
         /\ Question([Ask(k, b, e) EXCEPT !.op = "tell"]) /\ ~IsRead([Ask(k, b, e) EXCEPT !.op = "tell"])
    /\ \A b, e : Question([Ask("READ", b, e) EXCEPT !.op = "most"])
    /\ \A k, b, p : k # "READ" => Question(Put(k, b, p)) /\ ~IsRead(Put(k, b, p))
<1>1. Syn.op = "syn" /\ \A w : Do(w).op = w
  BY DEF Syn, Do
<1>2. \A k, b, e : Ask(k, b, e).op = "ask" /\ Ask(k, b, e).message = Msg(k, b) /\ Ask(k, b, e).expect = e
  BY DEF Ask
<1>3. \A k, b, e, o : /\ [Ask(k, b, e) EXCEPT !.op = o].op = o /\ [Ask(k, b, e) EXCEPT !.op = o].message = Msg(k, b)
                      /\ [Ask(k, b, e) EXCEPT !.op = o].expect = e
  BY DEF Ask
<1>4. \A k, b, p : Put(k, b, p).op = "put" /\ Put(k, b, p).message = Msg(k, b)
  BY DEF Put
<1>5. \A k, b : Msg(k, b).kind = k
  BY Fields
<1>6. Question(Syn) /\ ~IsRead(Syn) /\ \A w \in {"crash", "list", "seek", "sections", "save"} : Question(Do(w)) /\ ~IsRead(Do(w))
  BY <1>1 DEF Question, IsRead
<1>7. ASSUME NEW k, NEW b, NEW e, k = "READ" \/ e # "value"
      PROVE  Question(Ask(k, b, e)) /\ (k # "READ" => ~IsRead(Ask(k, b, e)))
  BY <1>2, <1>5, <1>7 DEF Question, IsRead
<1>8. ASSUME NEW k, NEW b, NEW e, NEW o \in {"most", "tell"}, (k = "READ" /\ o = "most") \/ (k # "READ" /\ e # "value")
      PROVE  /\ Question([Ask(k, b, e) EXCEPT !.op = o])
             /\ k # "READ" => ~IsRead([Ask(k, b, e) EXCEPT !.op = o])
  <2>. DEFINE a == [Ask(k, b, e) EXCEPT !.op = o]
  <2>1. a.op = o /\ a.message = Msg(k, b) /\ a.expect = e
    BY <1>3
  <2>. HIDE DEF a
  <2>2. Question(a) /\ (k # "READ" => ~IsRead(a))
    BY <1>5, <1>8, <2>1 DEF Question, IsRead
  <2>. QED
    BY <2>2 DEF a
<1>9. ASSUME NEW k, NEW b, NEW p, k # "READ"
      PROVE  Question(Put(k, b, p)) /\ ~IsRead(Put(k, b, p))
  BY <1>4, <1>5, <1>9 DEF Question, IsRead
<1>. QED
  BY <1>6, <1>7, <1>8, <1>9

\* No command reads twice.
LEMMA ReadScripts ==
    /\ \A n \in DOMAIN Plain : Asking(Plain[n])
    /\ \A r : Askless(seek_mem_x(r)) /\ Askless(cmd_mem_section(r)) /\ Askless(cmd_raw_mem(r))
    /\ \A s \in ForeignReads : Asking(s)
    /\ \A n, v : Askless(filser_send(n, v))
<1>0. Askless(<<Syn>>) /\ \A w \in {"crash", "list", "seek", "sections", "save"} : Askless(<<Do(w)>>)
  BY TheQuestions, Singles
<1>1. ASSUME NEW k, NEW b, NEW e, k # "READ" /\ e # "value"
      PROVE  Askless(communicate(k, b, e)) /\ Askless(<<Ask(k, b, e)>>)
  <2>1. Askless(<<Ask(k, b, e)>>)
    BY <1>1, TheQuestions, Singles
  <2>2. communicate(k, b, e) = <<Syn>> \o <<Ask(k, b, e)>>
    BY Pair DEF communicate
  <2>. QED
    BY <1>0, <2>1, <2>2, AsklessJoined
<1>2. ASSUME NEW b, NEW e
      PROVE  Asking(communicate("READ", b, e))
  <2>1. Asking(<<Ask("READ", b, e)>>)
    BY TheQuestions, Singles
  <2>2. communicate("READ", b, e) = <<Syn>> \o <<Ask("READ", b, e)>>
    BY Pair DEF communicate
  <2>. QED
    BY <1>0, <2>1, <2>2, AskingJoined
<1>3. Askless(check_mem_settings)
  BY <1>1 DEF check_mem_settings
<1>4. Askless(raw)
  BY <1>0, <1>3, AsklessJoined DEF raw
<1>5. Askless(flight_list)
  <2>1. Askless(<<Syn, Do("list")>>)
    BY <1>0, Pair, AsklessJoined
  <2>. QED
    BY <1>3, <2>1, AsklessJoined DEF flight_list
<1>6. Askless(get_basic_data)
  <2>1. Askless(<<[Ask("READ_BASIC_DATA", 0, "basic") EXCEPT !.op = "most"]>>)
    BY TheQuestions, Singles
  <2>. QED
    BY <1>3, <2>1, AsklessJoined DEF get_basic_data
<1>7. Asking(get_flight_info)
  <2>1. Asking(<<[Ask("READ", "flight_info", "value") EXCEPT !.op = "most"]>>)
    BY TheQuestions, Singles
  <2>. QED
    BY <1>3, <2>1, AskingJoined DEF get_flight_info
<1>8. ASSUME NEW r
      PROVE  Askless(seek_mem_x(r))
  BY TheQuestions, Singles DEF seek_mem_x
<1>9. Askless(get_mem_section)
  BY <1>1 DEF get_mem_section
<1>10. ASSUME NEW r
       PROVE  Askless(cmd_mem_section(r)) /\ Askless(cmd_raw_mem(r))
  <2>1. Askless(cmd_mem_section(r))
    BY <1>0, <1>3, <1>8, <1>9, AsklessJoined DEF cmd_mem_section
  <2>. QED
    BY <1>0, <2>1, AsklessJoined DEF cmd_raw_mem
<1>11. Askless(download_flight)
  <2>. DEFINE t == <<Syn, Syn, Do("list"), Do("seek")>>
  <2>1. Askless(t)
    <3>1. t \in Seq({Syn, Do("list"), Do("seek")})
      OBVIOUS
    <3>. HIDE DEF t
    <3>2. t \in Seq(ToSet(t)) /\ ToSet(t) \subseteq {Syn, Do("list"), Do("seek")}
      BY <3>1, Members
    <3>. QED
      BY <3>2, TheQuestions DEF Askless
  <2>. HIDE DEF t
  <2>2. Askless(check_mem_settings \o t \o get_mem_section \o <<Do("sections")>>)
    BY <1>0, <1>3, <1>9, <2>1, AsklessJoined
  <2>. QED
    BY <2>2 DEF download_flight, t
<1>12. Asking(cmd_read_tp_tsk)
  BY <1>0, <1>2, AskingJoined DEF cmd_read_tp_tsk
<1>13. \A n \in DOMAIN Plain :
         Plain[n] \in {raw, flight_list, get_basic_data, get_flight_info, download_flight, cmd_read_tp_tsk}
  BY DEF Plain
<1>14. \A s \in ForeignReads : Asking(s)
  BY <1>1, <1>2, AsklessAsking DEF ForeignReads
<1>15. ASSUME NEW n, NEW v
       PROVE  Askless(filser_send(n, v))
  <2>1. Askless(<<Put("WRITE", n, v)>>)
    BY TheQuestions, Singles
  <2>. QED
    BY <1>0, <2>1, Pair, AsklessJoined DEF filser_send
<1>. QED
  BY <1>4, <1>5, <1>6, <1>7, <1>8, <1>10, <1>11, <1>12, <1>13, <1>14, <1>15, AsklessAsking

LEMMA AptReads ==
    ASSUME NEW v \in Versions
    PROVE  Askless(cmd_write_apt(v))
<1>. DEFINE a == <<Syn, [Ask("0x70", 0, "nothing") EXCEPT !.op = "tell"]>>  b == send_blocks(AptBlocks, v)
            c == <<Do("crash")>>  d == filser_send("apt_state", v)
            T == {Syn} \cup {Put("WRITE", AptFile[i], v) : i \in 1..AptBlocks}
<1>1. Askless(<<Syn>>) /\ Askless(<<[Ask("0x70", 0, "nothing") EXCEPT !.op = "tell"]>>) /\ Askless(c)
  BY TheQuestions, Singles
<1>2. Askless(a)
  BY <1>1, Pair, AsklessJoined
<1>3. Askless(b)
  <2>1. AptBlocks \in 1..4
    BY ToolAssumption
  <2>2. \A i \in 1..2 * AptBlocks : i % 2 = 1 \/ i \div 2 \in 1..AptBlocks
    BY <2>1
  <2>3. \A i \in 1..2 * AptBlocks : (IF i % 2 = 1 THEN Syn ELSE Put("WRITE", AptFile[i \div 2], v)) \in T
    BY <2>2
  <2>4. \A s \in T : Question(s) /\ ~IsRead(s)
    BY TheQuestions
  <2>. HIDE DEF T
  <2>5. b \in [1..2 * AptBlocks -> T] /\ 2 * AptBlocks \in Nat
    BY <2>1, <2>3 DEF send_blocks
  <2>6. b \in Seq(T)
    BY <2>5, SeqDef
  <2>7. b \in Seq(ToSet(b)) /\ ToSet(b) \subseteq T
    BY <2>6, Members
  <2>. QED
    BY <2>4, <2>7 DEF Askless
<1>4. Askless(d)
  BY ReadScripts
<1>5. cmd_write_apt(v) = (a \o b) \o (IF v \in Incomplete THEN c ELSE d)
  BY DEF cmd_write_apt
<1>. HIDE DEF a, b, c, d
<1>. QED
  BY <1>1, <1>2, <1>3, <1>4, <1>5, AsklessJoined

LEMMA BeginScript ==
    ASSUME Begin
    PROVE  Asking(script')
<1>1. CASE \E n \in Commands \cap DOMAIN Plain : script' = Plain[n]
  BY <1>1, ReadScripts
<1>2. CASE \E r \in Ranges : script' = cmd_mem_section(r) \/ script' = cmd_raw_mem(r)
  BY <1>2, ReadScripts, AsklessAsking
<1>3. CASE \E v \in Versions : script' = cmd_write_tp_tsk(v)
  BY <1>3, ReadScripts, AsklessAsking DEF cmd_write_tp_tsk
<1>4. CASE \E v \in Versions : script' = cmd_write_apt(v)
  BY <1>4, AptReads, AsklessAsking
<1>5. CASE \E v \in Versions : \E s \in ForeignWrites(v) : script' = s
  BY <1>5, ReadScripts, AsklessAsking DEF ForeignWrites
<1>6. CASE \E s \in ForeignReads : script' = s
  BY <1>6, ReadScripts
<1>. QED
  BY <1>1, <1>2, <1>3, <1>4, <1>5, <1>6 DEF Begin, Call

\* The tool asks for nothing that is to be read, and goes on.
LEMMA ReadsTool ==
    ASSUME IInv, Reads, UNCHANGED <<answer, given>>, Asking(script'),
           \A m \in ToSet(request') : m \in ToSet(request) \/ m.kind # "READ", ToSet(tty') \subseteq ToSet(tty),
           \A j \in DOMAIN script' : IsRead(script'[j]) =>
             \E k \in DOMAIN script : script'[j] = script[k] /\ (pc = "wait" => k # 1),
           pc' = "wait" => ~IsRead(script'[1])
    PROVE  Reads'
<1>1. \A m \in Replied' : m \in Replied
  BY DEF Replied
<1>2. ASSUME NEW j \in DOMAIN script', IsRead(script'[j])
      PROVE  /\ \A m \in ToSet(request') : m.kind = "READ" => m.of # given
             /\ \A m \in Replied' : m.kind = "value" => m.of # given
  <2>1. PICK k \in DOMAIN script : script'[j] = script[k] /\ (pc = "wait" => k # 1)
    BY <1>2
  <2>2. IsRead(script[k])
    BY <1>2, <2>1
  <2>3. /\ \A m \in ToSet(request) : m.kind = "READ" => m.of # given
        /\ \A m \in Replied : m.kind = "value" => m.of # given
    BY <2>1, <2>2 DEF Reads, Unasked
  <2>. QED
    BY <1>1, <2>3
<1>3. Unasked'
  BY <1>2 DEF Unasked, IsRead
<1>4. Awaited'
  BY DEF Awaited, IsRead
<1>5. Asking(script)'
  BY DEF Asking, Question, IsRead
<1>. QED
  BY <1>3, <1>4, <1>5 DEF Reads

\* What may be known of the memory changes only when no write of it is on its way.
LEMMA MemoryTool ==
    ASSUME IInv, MemoryHeld, UNCHANGED <<memory, restarts>>,
           NEW new, new \in Seq(ToSet(new)), request' = request \/ request' = request \o new,
           \A m \in ToSet(new) : m.kind # "WRITE",
           \A r \in Registers : hope[r] \subseteq hope'[r] \/ (~InFlight(r) /\ Remembered(r, memory[r])'),
           pc' = "wait" => ~IsWrite(script'[1])
    PROVE  MemoryHeld' /\ MemoryAcked'
<1>1. request \in Seq(ToSet(request))
  BY DEF IInv, Sequenced
<1>2. /\ \A i \in DOMAIN request : i \in DOMAIN request' /\ request'[i] = request[i]
      /\ \A i \in DOMAIN request' : i \in DOMAIN request \/ request'[i] \in ToSet(new)
  <2>1. CASE request' = request
    BY <2>1
  <2>2. CASE request' = request \o new
    <3>1. \A i \in DOMAIN request : i \in DOMAIN (request \o new) /\ (request \o new)[i] = request[i]
      BY <1>1, Joined
    <3>2. \A i \in DOMAIN (request \o new) :
            i \in DOMAIN request \/ (i - Len(request) \in DOMAIN new /\ (request \o new)[i] = new[i - Len(request)])
      BY <1>1, Joined
    <3>3. \A i \in DOMAIN request' : i \in DOMAIN request \/ request'[i] \in ToSet(new)
      BY <2>2, <3>2 DEF ToSet
    <3>. QED
      BY <2>2, <3>1, <3>3
  <2>. QED
    BY <2>1, <2>2
<1>3. ASSUME NEW i \in DOMAIN request', Carries(i)', request'[i].body \in Registers
      PROVE  request'[i + 1].body \in hope'[request'[i].body]
  <2>1. i \in DOMAIN request /\ request'[i] = request[i]
    BY <1>2, <1>3 DEF Carries
  <2>2. i + 1 \in DOMAIN request
    BY <1>3, <2>1 DEF Carries, IInv, Pairs
  <2>3. request'[i + 1] = request[i + 1] /\ Carries(i)
    BY <1>2, <1>3, <2>1, <2>2 DEF Carries
  <2>4. request[i + 1].body \in hope[request[i].body] /\ InFlight(request[i].body)
    BY <1>3, <2>1, <2>3 DEF MemoryHeld, Carries, InFlight, ToSet
  <2>. QED
    BY <1>3, <2>1, <2>3, <2>4
<1>4. \A r \in Registers : Remembered(r, memory[r])'
  <2>1. \A r \in Registers : Remembered(r, memory[r])
    BY DEF MemoryHeld
  <2>. QED
    BY <2>1 DEF Remembered
<1>5. MemoryHeld'
  BY <1>3, <1>4 DEF MemoryHeld
<1>6. MemoryAcked'
  BY DEF MemoryAcked, IsWrite
<1>. QED
  BY <1>5, <1>6

\* The script without its first step, or no script.
LEMMA AskingStep ==
    ASSUME IInv, Reads, Advances, pc = "wait" => script' # script \/ script = <<>>
    PROVE  /\ Asking(script')
           /\ \A j \in DOMAIN script' : IsRead(script'[j]) =>
                \E k \in DOMAIN script : script'[j] = script[k] /\ (pc = "wait" => k # 1)
<1>1. script \in Seq(ToSet(script))
  BY DEF IInv, Sequenced
<1>2. CASE script' = script /\ (pc # "wait" \/ script = <<>>)
  BY <1>1, <1>2, OneOrTwo DEF Reads
<1>3. CASE script # <<>> /\ script' = Tail(script)
  <2>1. /\ script' \in Seq(ToSet(script')) /\ ToSet(script') \subseteq ToSet(script)
        /\ \A j \in DOMAIN script' : j + 1 \in DOMAIN script /\ j + 1 # 1 /\ script'[j] = script[j + 1]
    BY <1>1, <1>3, Others
  <2>2. \A j, k \in DOMAIN script' : j + 1 = k + 1 => j = k
    BY <2>1, LenProperties
  <2>3. ASSUME NEW j \in DOMAIN script', NEW k \in DOMAIN script', IsRead(script'[j]), IsRead(script'[k])
        PROVE  j = k
    BY <2>1, <2>2, <2>3 DEF Reads, Asking
  <2>4. \A s \in ToSet(script') : Question(s)
    BY <2>1 DEF Reads, Asking
  <2>. QED
    BY <2>1, <2>3, <2>4 DEF Asking
<1>4. CASE script' = <<>>
  BY <1>4, OneOrTwo DEF Asking
<1>. QED
  BY <1>2, <1>3, <1>4 DEF Advances

\* One message more.
LEMMA OneAsked ==
    ASSUME request \in Seq(ToSet(request)), NEW k, NEW b, request' = request \o Of(<<Msg(k, b)>>, given)
    PROVE  \E new : /\ new \in Seq(ToSet(new)) /\ request' = request \o new
                    /\ \A m \in ToSet(new) : m.kind = k /\ m.body = b
                    /\ \A m \in ToSet(request') : m \in ToSet(request) \/ (m.kind = k /\ m.body = b)
<1>. DEFINE x == Msg(k, b)  new == Of(<<x>>, given)
<1>1. <<x>> \in Seq(ToSet(<<x>>)) /\ ToSet(<<x>>) = {x}
  BY OneOrTwo
<1>2. [x EXCEPT !.of = given].kind = k /\ [x EXCEPT !.of = given].body = b
  BY Fields
<1>. HIDE DEF x
<1>3. new \in Seq(ToSet(new)) /\ ToSet(new) = {[y EXCEPT !.of = given] : y \in ToSet(<<x>>)}
  BY <1>1, Stamping
<1>4. \A m \in ToSet(new) : m.kind = k /\ m.body = b
  BY <1>1, <1>2, <1>3
<1>. HIDE DEF new
<1>5. request' = request \o new
  BY DEF new, x
<1>6. ToSet(request') = ToSet(request) \cup ToSet(new)
  BY <1>3, <1>5, Joined
<1>. QED
  BY <1>3, <1>4, <1>5, <1>6

\* What the steps of the tool ask for that neither write nor wait for a write.
LEMMA OtherAsks ==
    ASSUME IInv, Reads, Other
    PROVE  /\ UNCHANGED <<memory, restarts>>
           /\ request' = request \/ \E k, b : k \notin {"READ", "WRITE"} /\ request' = request \o Of(<<Msg(k, b)>>, given)
<1>. USE DEF device, state, FlushAndWrite
<1>1. CASE Tell
  <2>1. script # <<>> /\ Head(script).op = "tell" /\ UNCHANGED <<memory, restarts>>
    BY <1>1 DEF Tell, At
  <2>2. \/ request' = request
        \/ request' = request \o Of(<<Head(script).message>>, given)
        \/ request' = request \o Of(<<Msg("damaged", "0x70")>>, given)
    BY <1>1 DEF Tell
  <2>3. Head(script) \in ToSet(script)
    BY <2>1, Others DEF IInv, Sequenced
  <2>4. PICK k, b : k \notin {"READ", "WRITE"} /\ Head(script).message = Msg(k, b)
    <3>1. /\ Head(script).message = Msg(Head(script).message.kind, Head(script).message.body)
          /\ Head(script).message.kind # "WRITE"
      BY <2>1, <2>3 DEF IInv, Steps
    <3>2. Head(script).message.kind # "READ"
      BY <2>1, <2>3 DEF Reads, Asking, Question
    <3>. QED
      BY <3>1, <3>2
  <2>. QED
    BY <2>1, <2>2, <2>4
<1>2. SendSyn \/ RecvAck \/ NoAck => UNCHANGED <<memory, restarts>> /\ (request' = request \/ request' = request \o Of(<<Msg("SYN", 0)>>, given))
  BY DEF SendSyn, RecvAck, NoAck
<1>3. WrongAnswer \/ NoAnswer \/ Crash \/ next_flight \/ SaveSection \/ SaveDatabase \/ Return
        => UNCHANGED <<memory, restarts, request>>
  BY DEF WrongAnswer, NoAnswer, Crash, next_flight, SaveSection, SaveDatabase, Return, wire
<1>4. open_flight_list => UNCHANGED <<memory, restarts>> /\ request' = request \o Of(<<Msg("READ_FLIGHT_LIST", 0)>>, given)
  BY DEF open_flight_list
<1>5. download_section => UNCHANGED <<memory, restarts>> /\ (request' = request \/ request' = request \o Of(<<Msg("READ_LOGGER_DATA", section)>>, given))
  BY DEF download_section, wire
<1>. QED
  BY <1>1, <1>2, <1>3, <1>4, <1>5 DEF Other


-----------------------------------------------------------------------------
(* The steps of the tool, and what is read.                                *)

\* The steps that neither send a request nor take its answer.
LEMMA OtherReads ==
    ASSUME IInv, MemoryHeld, MemoryAcked, Reads, Other
    PROVE  MemoryHeld' /\ MemoryAcked' /\ Reads'
<1>1. Works
  BY OtherWorks
<1>2. /\ UNCHANGED <<answer, given, hope>> /\ Advances /\ (pc = "wait" => script' # script \/ script = <<>>)
      /\ pc' # "wait" /\ (tty' = tty \/ (tty # <<>> /\ tty' = Tail(tty)) \/ tty' = <<>>)
  BY <1>1 DEF Works
<1>3. tty \in Seq(ToSet(tty)) /\ request \in Seq(ToSet(request))
  BY DEF IInv, Sequenced
<1>4. ToSet(tty') \subseteq ToSet(tty)
  <2>1. CASE tty' = Tail(tty) /\ tty # <<>>
    BY <1>3, <2>1, Others
  <2>. QED
    BY <1>2, <2>1, OneOrTwo
<1>5. /\ Asking(script')
      /\ \A j \in DOMAIN script' : IsRead(script'[j]) =>
           \E k \in DOMAIN script : script'[j] = script[k] /\ (pc = "wait" => k # 1)
  BY <1>2, AskingStep
<1>6. UNCHANGED <<memory, restarts>>
  BY OtherAsks
<1>7. PICK new : /\ new \in Seq(ToSet(new)) /\ (request' = request \/ request' = request \o new)
                 /\ \A m \in ToSet(new) : m.kind # "WRITE"
                 /\ \A m \in ToSet(request') : m \in ToSet(request) \/ m.kind # "READ"
  <2>1. CASE request' = request
    BY <2>1, OneOrTwo
  <2>2. CASE \E k, b : k \notin {"READ", "WRITE"} /\ request' = request \o Of(<<Msg(k, b)>>, given)
    <3>1. PICK k, b : k \notin {"READ", "WRITE"} /\ request' = request \o Of(<<Msg(k, b)>>, given)
      BY <2>2
    <3>2. PICK new : /\ new \in Seq(ToSet(new)) /\ request' = request \o new
                     /\ \A m \in ToSet(new) : m.kind = k /\ m.body = b
                     /\ \A m \in ToSet(request') : m \in ToSet(request) \/ (m.kind = k /\ m.body = b)
      BY <1>3, <3>1, OneAsked
    <3>. QED
      BY <3>1, <3>2
  <2>. QED
    BY <2>1, <2>2, OtherAsks
<1>8. Reads'
  BY <1>2, <1>4, <1>5, <1>7, ReadsTool
<1>9. MemoryHeld' /\ MemoryAcked'
  <2>1. new \in Seq(ToSet(new)) /\ \A m \in ToSet(new) : m.kind # "WRITE"
    BY <1>7
  <2>2. request' = request \/ request' = request \o new
    BY <1>7
  <2>3. \A r \in Registers : hope[r] \subseteq hope'[r]
    BY <1>2
  <2>. QED
    BY <1>2, <1>6, <2>1, <2>2, <2>3, MemoryTool
<1>. QED
  BY <1>8, <1>9

\* What was expected comes.  What is hoped for of the memory changes with an
\* ACK only, and then the memory holds it.
LEMMA ReceiveReads ==
    ASSUME IInv, MemoryHeld, MemoryAcked, Reads, Receive
    PROVE  MemoryHeld' /\ MemoryAcked' /\ Reads'
<1>. DEFINE step == Head(script)  n == step.message.body  v == step.packet  m == Head(tty)
<1>1. /\ pc = "wait" /\ tty # <<>> /\ tty' = Tail(tty) /\ Done /\ script # <<>>
      /\ UNCHANGED <<request, answer, given, memory, restarts>>
  BY DEF Receive, Read, device, state, IInv, Sequenced
<1>2. Advances /\ script' # script /\ pc' = "step"
  BY <1>1, Doing
<1>3. script \in Seq(ToSet(script)) /\ tty \in Seq(ToSet(tty))
  BY DEF IInv, Sequenced
<1>4. m \in ToSet(tty) /\ ToSet(tty') \subseteq ToSet(tty)
  BY <1>1, <1>3, Others
<1>5. /\ Asking(script')
      /\ \A j \in DOMAIN script' : IsRead(script'[j]) =>
           \E k \in DOMAIN script : script'[j] = script[k] /\ (pc = "wait" => k # 1)
  BY <1>2, AskingStep
<1>6. Reads'
  BY <1>1, <1>2, <1>4, <1>5, ReadsTool
<1>7. ASSUME NEW r \in Registers
      PROVE  hope[r] \subseteq hope'[r] \/ (~InFlight(r) /\ Remembered(r, memory[r])')
  <2>1. CASE UNCHANGED hope
    BY <2>1
  <2>2. CASE ~UNCHANGED hope
    <3>1. /\ Stores /\ m.kind = "ACK" /\ m.of = given /\ m.body = n
          /\ hope' = [hope EXCEPT ![n] = {Content(n, v)}]
      BY <2>2 DEF Receive, Misread, Subject, Expected, Stores, promised
    <3>2. step \in ToSet(script) /\ step = script[1] /\ IsWrite(script[1])
      BY <1>1, <1>3, <3>1, Others DEF Stores, IsWrite
    <3>3. script[1].message.body = n /\ script[1].packet = v /\ Acked(n)
      BY <1>4, <3>1, <3>2 DEF Acked, Replied
    <3>. HIDE DEF n, v, m, step
    <3>4. hope = [f \in Files \cup Registers |-> hope[f]]
      BY DEF IInv, Stored
    <3>5. CASE r # n
      BY <3>1, <3>4, <3>5
    <3>6. CASE r = n
      <4>1. /\ memory[n] = v \/ (restarts > 0 /\ memory[n] = Default)
            /\ ~InFlight(n)
        BY <1>1, <3>2, <3>3, <3>6 DEF MemoryAcked
      <4>2. hope'[n] = {v}
        BY <3>1, <3>4, <3>6, TheFiles DEF Content
      <4>. QED
        BY <1>1, <3>6, <4>1, <4>2 DEF Remembered
    <3>. QED
      BY <3>5, <3>6
  <2>. QED
    BY <2>1, <2>2
<1>8. <<>> \in Seq(ToSet(<<>>)) /\ ToSet(<<>>) = {}
  BY OneOrTwo
<1>9. MemoryHeld' /\ MemoryAcked'
  BY <1>1, <1>2, <1>7, <1>8, MemoryTool
<1>. QED
  BY <1>6, <1>9

\* Seeking adds steps that read nothing.
LEMMA SeekReads ==
    ASSUME IInv, MemoryHeld, MemoryAcked, Reads, seek_mem
    PROVE  MemoryHeld' /\ MemoryAcked' /\ Reads'
<1>1. /\ UNCHANGED <<request, answer, tty, given, memory, restarts, hope, pc>>
      /\ pc = "step" /\ script # <<>> /\ \E r : script' = seek_mem_x(r) \o Tail(script)
  BY DEF seek_mem, At, wire, device, state, promised
<1>2. PICK r : script' = seek_mem_x(r) \o Tail(script)
  BY <1>1
<1>. DEFINE s == seek_mem_x(r)  t == Tail(script)
<1>3. script \in Seq(ToSet(script))
  BY DEF IInv, Sequenced
<1>4. /\ t \in Seq(ToSet(t)) /\ ToSet(t) \subseteq ToSet(script)
      /\ \A j \in DOMAIN t : j + 1 \in DOMAIN script /\ j + 1 # 1 /\ t[j] = script[j + 1]
  BY <1>1, <1>3, Others
<1>5. \A j, k \in DOMAIN t : j + 1 = k + 1 => j = k
  BY <1>4, LenProperties
<1>6. Asking(t)
  <2>1. \A j, k \in DOMAIN t : IsRead(t[j]) /\ IsRead(t[k]) => j = k
    <3>. HIDE DEF t
    <3>. QED
      BY <1>4, <1>5 DEF Reads, Asking
  <2>2. \A x \in ToSet(t) : Question(x)
    BY <1>4 DEF Reads, Asking
  <2>. QED
    BY <1>4, <2>1, <2>2 DEF Asking
<1>7. Askless(s)
  BY ReadScripts
<1>. HIDE DEF s, t
<1>8. Asking(s \o t) /\ script' = s \o t
  BY <1>2, <1>6, <1>7, AskingJoined DEF s, t
<1>9. s \in Seq(ToSet(s)) /\ \A i \in DOMAIN s : ~IsRead(s[i])
  BY <1>7 DEF Askless, ToSet
<1>10. /\ \A i \in DOMAIN s : (s \o t)[i] = s[i]
       /\ \A i \in DOMAIN (s \o t) : i \in DOMAIN s \/ (i - Len(s) \in DOMAIN t /\ (s \o t)[i] = t[i - Len(s)])
  BY <1>4, <1>9, Joined
<1>11. ASSUME NEW j \in DOMAIN script', IsRead(script'[j])
       PROVE  \E k \in DOMAIN script : script'[j] = script[k]
  <2>1. j - Len(s) \in DOMAIN t /\ script'[j] = t[j - Len(s)]
    BY <1>8, <1>9, <1>10, <1>11
  <2>. QED
    BY <1>4, <2>1
<1>12. Reads'
  BY <1>1, <1>8, <1>11, ReadsTool
<1>13. <<>> \in Seq(ToSet(<<>>)) /\ ToSet(<<>>) = {}
  BY OneOrTwo
<1>14. MemoryHeld' /\ MemoryAcked'
  BY <1>1, <1>13, MemoryTool
<1>. QED
  BY <1>12, <1>14

\* A request that is no write.  What it reads was neither asked for nor
\* answered before in this command.
LEMMA AskReads ==
    ASSUME IInv, MemoryHeld, MemoryAcked, Reads, Send, ~Stores
    PROVE  MemoryHeld' /\ MemoryAcked' /\ Reads'
<1>. DEFINE step == Head(script)  m == step.message  p == Msg("packet", step.packet)
            new == Of(IF step.op = "put" THEN <<m, p>> ELSE <<m>>, given)
<1>1. /\ UNCHANGED <<answer, given, hope, script, memory, restarts>>
      /\ request' = request \o new /\ tty' = <<>> /\ pc' = "wait"
  BY DEF Send, FlushAndWrite, device, state, promised
<1>2. pc = "step" /\ script # <<>> /\ step.op \in {"ask", "most", "put"} /\ ~IsWrite(step)
  BY DEF Send, At, Stores, IsWrite
<1>3. script \in Seq(ToSet(script)) /\ request \in Seq(ToSet(request))
  BY DEF IInv, Sequenced
<1>4. step \in ToSet(script) /\ step = script[1] /\ 1 \in DOMAIN script
  BY <1>2, <1>3, Others
<1>5. m = Msg(m.kind, m.body) /\ m.kind # "WRITE"
  BY <1>2, <1>4 DEF IInv, Steps, IsWrite
<1>6. m.kind = "READ" => IsRead(step)
  BY <1>2, <1>4 DEF Reads, Asking, Question, IsRead
<1>7. /\ new \in Seq(ToSet(new))
      /\ \A x \in ToSet(new) : x.kind # "WRITE" /\ (x.kind = "READ" => x.body = m.body /\ IsRead(step))
  <2>. DEFINE s == IF step.op = "put" THEN <<m, p>> ELSE <<m>>
  <2>1. s \in Seq(ToSet(s)) /\ ToSet(s) \subseteq {m, p}
    <3>1. s = <<m, p>> \/ s = <<m>>
      OBVIOUS
    <3>. HIDE DEF m, p, s
    <3>2. CASE s = <<m, p>>
      BY <3>2, OneOrTwo
    <3>3. CASE s = <<m>>
      BY <3>3, OneOrTwo
    <3>. QED
      BY <3>1, <3>2, <3>3
  <2>2. /\ [m EXCEPT !.of = given].kind = m.kind /\ [m EXCEPT !.of = given].body = m.body
        /\ [p EXCEPT !.of = given].kind = "packet"
    BY <1>5, Fields
  <2>. HIDE DEF m, p, s, step
  <2>3. Of(s, given) \in Seq(ToSet(Of(s, given))) /\ ToSet(Of(s, given)) = {[x EXCEPT !.of = given] : x \in ToSet(s)}
    BY <2>1, Stamping
  <2>4. \A x \in ToSet(Of(s, given)) : x.kind # "WRITE" /\ (x.kind = "READ" => x.body = m.body /\ IsRead(step))
    BY <1>5, <1>6, <2>1, <2>2, <2>3
  <2>. QED
    BY <2>3, <2>4 DEF s, m, p, step
<1>. HIDE DEF new
<1>8. ToSet(request') = ToSet(request) \cup ToSet(new)
  BY <1>1, <1>3, <1>7, Joined
<1>9. \A x \in Replied' : x \in Replied
  BY <1>1, OneOrTwo DEF Replied
<1>10. ASSUME NEW k \in DOMAIN script, IsRead(script[k])
       PROVE  /\ \A x \in ToSet(request) : x.kind = "READ" => x.of # given
              /\ \A x \in Replied' : x.kind = "value" => x.of # given
  BY <1>2, <1>9, <1>10 DEF Reads, Unasked
<1>11. ASSUME NEW k \in DOMAIN script, IsRead(script[k]), k # 1
       PROVE  \A x \in ToSet(request') : x.kind = "READ" => x.of # given
  <2>1. ~IsRead(step)
    BY <1>4, <1>11 DEF Reads, Asking
  <2>. QED
    BY <1>7, <1>8, <1>10, <1>11, <2>1
<1>12. Unasked'
  <2>1. ASSUME NEW k \in DOMAIN script', IsRead(script'[k]), k # 1
        PROVE  /\ \A x \in ToSet(request') : x.kind = "READ" => x.of # given'
               /\ \A x \in Replied' : x.kind = "value" => x.of # given'
    BY <1>1, <1>10, <1>11, <2>1
  <2>. QED
    BY <1>1, <2>1 DEF Unasked, IsRead
<1>13. ASSUME IsRead(script[1])
       PROVE  /\ \A x \in ToSet(request') : x.kind = "READ" /\ x.of = given => x.body = script[1].message.body
              /\ \A x \in Replied' : x.kind = "value" => x.of # given
  <2>1. /\ \A x \in ToSet(request) : x.kind = "READ" => x.of # given
        /\ \A x \in Replied' : x.kind = "value" => x.of # given
    BY <1>4, <1>10, <1>13
  <2>. QED
    BY <1>4, <1>7, <1>8, <2>1
<1>14. Awaited'
  <2>1. ASSUME IsRead(script[1])'
        PROVE  /\ \A x \in ToSet(request') : x.kind = "READ" /\ x.of = given' => x.body = script'[1].message.body
               /\ \A x \in Replied' : x.kind = "value" => x.of # given'
    BY <1>1, <1>13, <2>1 DEF IsRead
  <2>. QED
    BY <2>1 DEF Awaited
<1>15. Reads'
  BY <1>1, <1>12, <1>14 DEF Reads, Asking, Question, IsRead
<1>16. MemoryHeld' /\ MemoryAcked'
  <2>1. \A r \in Registers : hope[r] \subseteq hope'[r]
    BY <1>1
  <2>2. ~IsWrite(script'[1])
    BY <1>1, <1>2, <1>4 DEF IsWrite
  <2>. QED
    BY <1>1, <1>7, <2>1, <2>2, MemoryTool
<1>. QED
  BY <1>15, <1>16

\* A write: what it writes is hoped for, and not acknowledged yet.
LEMMA SendReads ==
    ASSUME IInv, MemoryHeld, MemoryAcked, Reads, Send, Stores
    PROVE  MemoryHeld' /\ MemoryAcked' /\ Reads'
<1>. DEFINE step == Head(script)  n == step.message.body  v == step.packet
            a == Msg("WRITE", n)  b == Msg("packet", v)  new == Of(<<a, b>>, given)
<1>1. /\ pc = "step" /\ script # <<>> /\ step.op = "put" /\ step.message.kind = "WRITE"
  BY DEF Send, At, Stores
<1>2. script \in Seq(ToSet(script)) /\ request \in Seq(ToSet(request))
  BY DEF IInv, Sequenced
<1>3. step \in ToSet(script) /\ step = script[1] /\ 1 \in DOMAIN script
  BY <1>1, <1>2, Others
<1>4. step.message = a /\ n \in Files \cup Registers /\ v \in Versions
  BY <1>1, <1>3 DEF IInv, Steps, IsWrite
<1>5. /\ UNCHANGED <<answer, writing, given, script, memory, restarts>>
      /\ request' = request \o new /\ tty' = <<>> /\ pc' = "wait"
      /\ hope' = [hope EXCEPT ![n] = @ \cup {Content(n, v)}]
  BY <1>1, <1>4 DEF Send, Stores, FlushAndWrite, device, state, disk
<1>6. Fresh(n) /\ IsWrite(script[1]) /\ script[1].message.body = n /\ script[1].packet = v
  BY <1>1, <1>3 DEF IInv, NotYet, IsWrite
<1>7. /\ new \in Seq(ToSet(new)) /\ DOMAIN new = {1, 2}
      /\ new[1].kind = "WRITE" /\ new[1].body = n /\ new[1].of = given /\ new[2].kind = "packet"
  <2>. HIDE DEF n, v
  <2>1. /\ <<a, b>> \in Seq(ToSet(<<a, b>>)) /\ DOMAIN <<a, b>> = {1, 2}
        /\ <<a, b>>[1] = a /\ <<a, b>>[2] = b
    BY OneOrTwo
  <2>2. /\ [a EXCEPT !.of = given].kind = "WRITE" /\ [a EXCEPT !.of = given].body = n /\ [a EXCEPT !.of = given].of = given
        /\ [b EXCEPT !.of = given].kind = "packet"
    BY Fields
  <2>. DEFINE s == <<a, b>>
  <2>. HIDE DEF a, b, s
  <2>3. /\ Of(s, given) \in Seq(ToSet(Of(s, given))) /\ DOMAIN Of(s, given) = DOMAIN s
        /\ \A i \in DOMAIN s : Of(s, given)[i] = [s[i] EXCEPT !.of = given]
    BY <2>1, Stamping DEF s
  <2>4. Of(s, given)[1] = [a EXCEPT !.of = given] /\ Of(s, given)[2] = [b EXCEPT !.of = given]
    BY <2>1, <2>3 DEF s
  <2>. QED
    BY <2>1, <2>2, <2>3, <2>4 DEF s
<1>8. IInv' /\ IsWrite(script'[1]) /\ script'[1].message.body = n /\ script'[1].packet = v
  BY <1>5, <1>6, SendStep
<1>. HIDE DEF new, a, b, n, v, step
<1>9. /\ ToSet(request') = ToSet(request) \cup ToSet(new)
      /\ \A i \in DOMAIN request : request'[i] = request[i]
      /\ \A i \in DOMAIN request' : i \in DOMAIN request \/ request'[i] = new[1] \/ request'[i] = new[2]
  <2>1. new \in Seq(ToSet(new))
    BY <1>7
  <2>2. ToSet(request \o new) = ToSet(request) \cup ToSet(new)
    BY <1>2, <2>1, Joined
  <2>3. \A i \in DOMAIN request : (request \o new)[i] = request[i]
    BY <1>2, <2>1, Joined
  <2>4. \A i \in DOMAIN (request \o new) : i \in DOMAIN request \/
          (i - Len(request) \in DOMAIN new /\ (request \o new)[i] = new[i - Len(request)])
    BY <1>2, <2>1, Joined
  <2>5. \A i \in DOMAIN new : i = 1 \/ i = 2
    BY <1>7
  <2>. QED
    BY <1>5, <2>2, <2>3, <2>4, <2>5
<1>10. \A m \in ToSet(new) : m.kind # "READ"
  BY <1>7 DEF ToSet
<1>11. \A r \in Registers : hope[r] \subseteq hope'[r] /\ (r = n => v \in hope'[r])
  <2>1. hope = [f \in Files \cup Registers |-> hope[f]]
    BY DEF IInv, Stored
  <2>. QED
    BY <1>5, <2>1, TheFiles DEF Content
<1>12. ASSUME NEW i \in DOMAIN request', Carries(i)', request'[i].body \in Registers
       PROVE  request'[i + 1].body \in hope'[request'[i].body]
  <2>1. CASE i \in DOMAIN request
    <3>1. request'[i] = request[i]
      BY <1>9, <2>1
    <3>2. i + 1 \in DOMAIN request
      BY <1>12, <2>1, <3>1 DEF Carries, IInv, Pairs
    <3>3. request'[i + 1] = request[i + 1]
      BY <1>9, <3>2
    <3>4. request[i + 1].body \in hope[request[i].body]
      BY <1>12, <2>1, <3>1, <3>3 DEF MemoryHeld, Carries
    <3>. QED
      BY <1>11, <1>12, <3>1, <3>3, <3>4
  <2>2. CASE i \notin DOMAIN request
    <3>1. request'[i].body = n /\ request'[i].of = given'
      BY <1>5, <1>7, <1>9, <1>12, <2>2 DEF Carries
    <3>2. request'[i + 1].body = script'[1].packet
      BY <1>5, <1>8, <1>12, <3>1 DEF IInv, Sent
    <3>. QED
      BY <1>8, <1>11, <1>12, <3>1, <3>2
  <2>. QED
    BY <2>1, <2>2
<1>13. MemoryHeld'
  <2>1. \A r \in Registers : Remembered(r, memory[r])'
    BY <1>5, <1>11 DEF MemoryHeld, Remembered
  <2>. QED
    BY <1>5, <1>12, <2>1 DEF MemoryHeld
<1>14. ToSet(tty') = {} /\ \A m \in Replied' : m \in Replied
  BY <1>5, OneOrTwo DEF Replied
<1>15. MemoryAcked'
  <2>1. ~Acked(n)
    BY <1>6 DEF Fresh
  <2>2. ~Acked(script[1].message.body)'
    BY <1>5, <1>8, <1>14, <2>1 DEF Acked
  <2>. QED
    BY <2>2 DEF MemoryAcked
<1>16. Asking(script')
  BY <1>5 DEF Reads
<1>17. ~IsRead(script'[1])
  BY <1>8 DEF IsRead, IsWrite
<1>18. Reads'
  BY <1>1, <1>5, <1>9, <1>10, <1>14, <1>16, <1>17, ReadsTool
<1>. QED
  BY <1>13, <1>15, <1>18

\* Whatever the tool does, what is known of the memory and of what is read stays true.
LEMMA ToolReads ==
    ASSUME IInv, MemoryHeld, MemoryAcked, Reads, Tool
    PROVE  MemoryHeld' /\ MemoryAcked' /\ Reads'
<1>1. Other \/ Send \/ Receive \/ seek_mem
  BY DEF Tool, Other
<1>. QED
  BY <1>1, OtherReads, AskReads, SendReads, ReceiveReads, SeekReads

\* A command that begins has asked for nothing.
LEMMA BeginReads ==
    ASSUME IInv, MemoryHeld, MemoryAcked, Reads, Begin
    PROVE  MemoryHeld' /\ MemoryAcked' /\ Reads'
<1>1. /\ pc' = "step" /\ given' = given + 1
      /\ UNCHANGED <<request, answer, tty, memory, restarts, hope>>
  BY DEF Begin, wire, device, state, promised
<1>2. Asking(script')
  BY BeginScript
<1>3. given \in Nat /\ \A m \in ToSet(request) \cup Replied : m.of \in 0..given
  BY DEF IInv, Stamped
<1>4. \A m \in ToSet(request) \cup Replied : m.of # given'
  BY <1>1, <1>3
<1>5. Unasked'
  BY <1>1, <1>4 DEF Unasked, Replied
<1>6. Awaited' /\ MemoryAcked'
  BY <1>1 DEF Awaited, MemoryAcked
<1>7. Asking(script)'
  BY <1>2 DEF Asking, Question, IsRead
<1>8. MemoryHeld'
  BY <1>1 DEF MemoryHeld, Remembered, Carries
<1>. QED
  BY <1>5, <1>6, <1>7, <1>8 DEF Reads

-----------------------------------------------------------------------------
(* What read_tp_tsk saves.                                                 *)

\* What write() leaves of an output file that is not truncated.
LEMMA Saving ==
    ASSUME NEW f, f \in Seq(ToSet(f)), NEW c, NEW k \in Nat, NEW g, g = Overwritten(f, c, k)
    PROVE  g \in Seq(ToSet(g)) /\ \A i \in 1..k : g[i] = c[i]
<1>1. Len(f) \in Nat /\ DOMAIN f = 1..Len(f)
  BY LenProperties
<1>2. PICK n \in Nat : (1..k) \cup DOMAIN f = 1..n
  <2>1. CASE k <= Len(f)
    <3>1. (1..k) \cup DOMAIN f = 1..Len(f)
      BY <1>1, <2>1
    <3>. QED
      BY <1>1, <3>1
  <2>2. CASE ~(k <= Len(f))
    <3>1. (1..k) \cup DOMAIN f = 1..k
      BY <1>1, <2>2
    <3>. QED
      BY <3>1
  <2>. QED
    BY <2>1, <2>2
<1>3. g = [i \in 1..n |-> IF i <= k THEN c[i] ELSE f[i]]
  BY <1>2 DEF Overwritten
<1>4. g \in [1..n -> {g[i] : i \in 1..n}]
  BY <1>3
<1>5. g \in Seq({g[i] : i \in 1..n})
  <2>1. \A S : [1..n -> S] \subseteq Seq(S)
    BY SeqDef
  <2>. QED
    BY <1>4, <2>1
<1>6. g \in Seq(ToSet(g))
  BY <1>5, Members
<1>7. ASSUME NEW i \in 1..k
      PROVE  g[i] = c[i]
  <2>1. i \in 1..n /\ i <= k
    BY <1>2
  <2>. QED
    BY <1>3, <2>1
<1>. QED
  BY <1>6, <1>7

\* The front of the output file is what was saved, however long it was before.
LEMMA SavedWhole ==
    ASSUME NEW f, f \in Seq(ToSet(f)), NEW v
    PROVE  SubSeq(Overwritten(f, Whole(v), Chunks), 1, Chunks) = Whole(v)
<1>. DEFINE g == Overwritten(f, Whole(v), Chunks)  w == Whole(v)  h == SubSeq(g, 1, Chunks)
<1>1. Chunks \in Nat \ {0} /\ Chunks \in Nat /\ 1 \in Int /\ Chunks \in Int
  <2>1. Chunks \in Nat \ {0}
    BY ToolAssumption
  <2>. QED
    BY <2>1
<1>2. \A i \in 1..Chunks : g[i] = w[i]
  BY <1>1, Saving
<1>3. /\ w \in [1..Chunks -> {v}] /\ \A i \in 1..Chunks : w[i] = v
  BY DEF Whole
<1>4. \A S : [1..Chunks -> S] \subseteq Seq(S)
  BY <1>1, SeqDef
<1>. HIDE DEF g, w
<1>5. w \in Seq({v}) /\ DOMAIN w = 1..Chunks
  BY <1>3, <1>4
<1>6. Len(w) = Chunks
  BY <1>1, <1>5, LenProperties
<1>7. \A i \in 1..Chunks : g[i] \in {v}
  BY <1>2, <1>3
<1>8. /\ h \in Seq({v}) /\ Len(h) = IF 1 <= Chunks THEN Chunks - 1 + 1 ELSE 0
  BY <1>1, <1>7, SubSeqProperties
<1>9. \A i \in 1..Chunks - 1 + 1 : h[i] = g[1 + i - 1]
  BY <1>1, <1>7, SubSeqProperties
<1>. HIDE DEF h
<1>10. Len(h) = Chunks
  BY <1>1, <1>8
<1>11. \A i \in 1..Len(h) : h[i] = w[i]
  <2>1. ASSUME NEW i \in 1..Len(h)
        PROVE  h[i] = w[i]
    <3>1. i \in 1..Chunks /\ i \in 1..Chunks - 1 + 1 /\ 1 + i - 1 = i
      BY <1>1, <1>10
    <3>. QED
      BY <1>2, <1>9, <3>1
  <2>. QED
    BY <2>1
<1>12. h = w
  BY <1>5, <1>6, <1>8, <1>10, <1>11, SeqEqual
<1>. QED
  BY <1>12 DEF g, h, w

\* The steps of read_tp_tsk.
LEMMA FetchSteps ==
    /\ Syn.op = "syn" /\ FetchIt.op = "ask" /\ FetchIt.expect = "value" /\ Do("save").op = "save"
    /\ FetchIt.message.kind = "READ" /\ FetchIt.message.body = "tp_tsk" /\ IsRead(FetchIt)
<1>1. Syn.op = "syn" /\ Do("save").op = "save"
  BY DEF Syn, Do
<1>2. FetchIt.op = "ask" /\ FetchIt.expect = "value" /\ FetchIt.message = Msg("READ", "tp_tsk")
  BY DEF FetchIt, Ask
<1>. QED
  BY <1>1, <1>2, Fields DEF IsRead

LEMMA HeadsTails ==
    ASSUME NEW a, NEW b, NEW c
    PROVE  /\ Head(<<a, b, c>>) = a /\ Tail(<<a, b, c>>) = <<b, c>> /\ <<a, b, c>> # <<>>
           /\ Head(<<b, c>>) = b /\ Tail(<<b, c>>) = <<c>> /\ <<b, c>> # <<>>
           /\ Head(<<c>>) = c /\ Tail(<<c>>) = <<>> /\ <<c>> # <<>>
OBVIOUS

\* The three steps of read_tp_tsk are two and one.
LEMMA Triple ==
    ASSUME NEW a, NEW b, NEW c
    PROVE  <<a, b>> \o <<c>> = <<a, b, c>>
<1>. DEFINE s == <<a, b>> \o <<c>>  t == <<a, b, c>>  S == {a, b, c}
<1>1. <<a, b>> \in Seq(S) /\ <<c>> \in Seq(S) /\ t \in Seq(S)
  OBVIOUS
<1>2. /\ Len(<<a, b>>) = 2 /\ Len(<<c>>) = 1 /\ Len(t) = 3 /\ <<a, b>>[1] = a /\ <<a, b>>[2] = b /\ <<c>>[1] = c
      /\ t[1] = a /\ t[2] = b /\ t[3] = c
  OBVIOUS
<1>. HIDE DEF S
<1>3. s \in Seq(S) /\ Len(s) = 3 /\ s[1] = a /\ s[2] = b /\ s[3] = c
  BY <1>1, <1>2, ConcatProperties
<1>. HIDE DEF s, t
<1>4. \A i \in 1..3 : i = 1 \/ i = 2 \/ i = 3
  OBVIOUS
<1>5. s = t
  BY <1>1, <1>2, <1>3, <1>4, SeqEqual
<1>. QED
  BY <1>5 DEF s, t

\* What is not of the tool does nothing to a command, and forgets no trouble.
LEMMA Unmoved ==
    ASSUME IInv, Device \/ LineFault \/ Arrive \/ Kill \/ Restart
    PROVE  UNCHANGED <<command, script, pc, code, got, da4, hope>> /\ troubles \subseteq troubles'
<1>1. UNCHANGED <<command, script, pc, code>>
  BY Settled
<1>. DEFINE Right == UNCHANGED <<got, da4, hope>> /\ troubles \subseteq troubles'
<1>2. ASSUME NEW k, Serving(k)
      PROVE  Right
  BY <1>2 DEF Serving, trouble, tool, work, promised
<1>3. ASSUME Device
      PROVE  Right
  <2>1. handle_syn \/ handle_fixed \/ handle_clear_lo4 \/ handle_70 \/ handle_open_flight_list => \E k : Serving(k)
    BY DEF handle_syn, handle_fixed, handle_clear_lo4, handle_70, handle_open_flight_list, Serve
  <2>2. handle_get_mem_section \/ handle_get_logger_data \/ handle_unknown \/ handle_def_mem => \E k : Serving(k)
    BY DEF handle_get_mem_section, handle_get_logger_data, handle_unknown, handle_def_mem, Serve, Given
  <2>3. handle_read_register \/ handle_write_register \/ upload_from_file \/ handle_apt_download => \E k : Serving(k)
    BY DEF handle_read_register, handle_write_register, upload_from_file, handle_apt_download, Asked, Given
  <2>4. handle_write_file \/ handle_apt_upload => \E k : Serving(k)
    BY DEF handle_write_file, handle_apt_upload, StartWrite, Given
  <2>5. FinishWrite => Right
    BY DEF FinishWrite, Fault, trouble, tool, work, promised
  <2>6. dump_timeout => Right
    BY DEF dump_timeout, trouble, tool, work, promised
  <2>. HIDE DEF Right
  <2>. QED
    BY <1>2, <1>3, <2>1, <2>2, <2>3, <2>4, <2>5, <2>6 DEF Device
<1>4. LineFault => Right
  BY DEF LineFault, Fault, tool, work, promised
<1>5. Arrive => Right
  BY DEF Arrive, trouble, tool, work, promised
<1>6. Kill \/ Restart => Right
  BY DEF Kill, Restart, Fault, trouble, tool, work, promised
<1>7. Right
  <2>. SUFFICES Right
    OBVIOUS
  <2>. HIDE DEF Right
  <2>. QED
    BY <1>3, <1>4, <1>5, <1>6
<1>. QED
  BY <1>1, <1>7

\* Where read_tp_tsk is.
LEMMA FetchStages ==
    ASSUME Heads, Fetched, Fetching, pc # "idle"
    PROVE  \/ /\ script = <<Syn, FetchIt, Do("save")>> /\ Head(script) = Syn /\ Tail(script) = <<FetchIt, Do("save")>>
              /\ script # <<>> /\ Head(script).op = "syn" /\ pc \notin {"wait", "flights", "section", "data"}
           \/ /\ script = <<FetchIt, Do("save")>> /\ Head(script) = FetchIt /\ Tail(script) = <<Do("save")>>
              /\ script # <<>> /\ Head(script).op = "ask" /\ pc \notin {"syn", "ack", "flights", "section", "data"}
           \/ /\ script = <<Do("save")>> /\ pc = "step" /\ (\E x \in hope["tp_tsk"] : got = <<x>>)
              /\ Head(script).op = "save" /\ Tail(script) = <<>> /\ script # <<>>
           \/ script = <<>> /\ pc = "step" /\ SubSeq(da4, 1, Chunks) \in hope["tp_tsk"]
<1>. DEFINE a == Syn  b == FetchIt  c == Do("save")
<1>1. a.op = "syn" /\ b.op = "ask" /\ c.op = "save"
  BY FetchSteps
<1>2. /\ Head(<<a, b, c>>) = a /\ Tail(<<a, b, c>>) = <<b, c>> /\ <<a, b, c>> # <<>>
      /\ Head(<<b, c>>) = b /\ Tail(<<b, c>>) = <<c>> /\ <<b, c>> # <<>>
      /\ Head(<<c>>) = c /\ Tail(<<c>>) = <<>> /\ <<c>> # <<>>
  BY HeadsTails
<1>3. \/ script = <<a, b, c>> \/ script = <<b, c>>
      \/ script = <<c>> /\ pc = "step" /\ \E x \in hope["tp_tsk"] : got = <<x>>
      \/ script = <<>> /\ pc = "step" /\ SubSeq(da4, 1, Chunks) \in hope["tp_tsk"]
  BY DEF Fetched
<1>. HIDE DEF a, b, c
<1>4. CASE script = <<a, b, c>>
  <2>1. script # <<>> /\ Head(script) = a /\ Tail(script) = <<b, c>> /\ Head(script).op = "syn"
    BY <1>1, <1>2, <1>4
  <2>2. pc \notin {"wait", "flights", "section", "data"}
    BY <2>1 DEF Heads
  <2>. QED
    BY <1>4, <2>1, <2>2 DEF a, b, c
<1>5. CASE script = <<b, c>>
  <2>1. script # <<>> /\ Head(script) = b /\ Tail(script) = <<c>> /\ Head(script).op = "ask"
    BY <1>1, <1>2, <1>5
  <2>2. pc \notin {"syn", "ack", "flights", "section", "data"}
    BY <2>1 DEF Heads
  <2>. QED
    BY <1>5, <2>1, <2>2 DEF b, c
<1>6. CASE script = <<c>> /\ pc = "step" /\ \E x \in hope["tp_tsk"] : got = <<x>>
  <2>1. script # <<>> /\ Head(script) = c /\ Tail(script) = <<>> /\ Head(script).op = "save"
    BY <1>1, <1>2, <1>6
  <2>. QED
    BY <1>6, <2>1 DEF c
<1>. QED
  BY <1>3, <1>4, <1>5, <1>6

\* The command goes on, or does not succeed.
LEMMA FetchTool ==
    ASSUME IInv, Heads, FilesHeld, Reads, Fetched, Tool
    PROVE  Fetched'
<1>. USE DEF tool, work, trouble, wire, promised, device
<1>1. UNCHANGED command /\ pc # "idle" /\ troubles \subseteq troubles' /\ (SaveDatabase \/ da4' = da4)
  <2>1. SendSyn \/ RecvAck \/ NoAck \/ Tell
          => UNCHANGED command /\ pc # "idle" /\ troubles \subseteq troubles' /\ da4' = da4
    BY DEF SendSyn, RecvAck, NoAck, NothingYet, Tell, At, Fault
  <2>2. Send \/ Receive \/ WrongAnswer \/ NoAnswer
          => UNCHANGED command /\ pc # "idle" /\ troubles \subseteq troubles' /\ da4' = da4
    BY DEF Send, Receive, Notice, WrongAnswer, NoAnswer, At
  <2>3. Crash \/ open_flight_list \/ next_flight \/ seek_mem \/ download_section \/ Return
          => UNCHANGED command /\ pc # "idle" /\ troubles \subseteq troubles' /\ da4' = da4
    BY DEF Crash, open_flight_list, next_flight, seek_mem, download_section, Return, At
  <2>4. SaveSection => UNCHANGED command /\ pc # "idle" /\ troubles \subseteq troubles' /\ da4' = da4
    BY DEF SaveSection, Notice, Fault
  <2>5. SaveDatabase => UNCHANGED command /\ pc # "idle" /\ troubles \subseteq troubles'
    BY DEF SaveDatabase, At, Fault
  <2>. QED
    BY <2>1, <2>2, <2>3, <2>4, <2>5 DEF Tool
<1>2. da4' \in Seq(ToSet(da4'))
  <2>1. da4 \in Seq(ToSet(da4))
    BY DEF Fetched
  <2>2. ASSUME SaveDatabase
        PROVE  \E k \in Nat : da4' = Overwritten(da4, got[1], k)
    <3>1. Chunks \in Nat /\ \A k \in 0..Chunks - 1 : k \in Nat
      BY TheFiles
    <3>. QED
      BY <2>2, <3>1 DEF SaveDatabase
  <2>. QED
    BY <1>1, <2>1, <2>2, Saving
<1>3. SUFFICES ASSUME Fetching, Fetching'
               PROVE  /\ pc' # "idle" =>
                           \/ script' = <<Syn, FetchIt, Do("save")>>
                           \/ script' = <<FetchIt, Do("save")>>
                           \/ script' = <<Do("save")>> /\ pc' = "step" /\ \E x \in hope'["tp_tsk"] : got' = <<x>>
                           \/ script' = <<>> /\ pc' = "step" /\ SubSeq(da4', 1, Chunks) \in hope'["tp_tsk"]
                      /\ pc' = "idle" /\ code' = "ok" => SubSeq(da4', 1, Chunks) \in hope'["tp_tsk"]
  <2>1. Fetching' => Fetching
    BY <1>1 DEF Fetching
  <2>2. UNCHANGED <<Syn, FetchIt, Do("save")>>
    BY DEF Syn, FetchIt, Ask, Do, Msg
  <2>. QED
    BY <1>2, <2>1, <2>2 DEF Fetched
<1>. DEFINE S1 == <<Syn, FetchIt, Do("save")>>  S2 == <<FetchIt, Do("save")>>  S3 == <<Do("save")>>
            Right == /\ pc' # "idle" =>
                           \/ script' = S1
                           \/ script' = S2
                           \/ script' = S3 /\ pc' = "step" /\ \E x \in hope'["tp_tsk"] : got' = <<x>>
                           \/ script' = <<>> /\ pc' = "step" /\ SubSeq(da4', 1, Chunks) \in hope'["tp_tsk"]
                     /\ pc' = "idle" /\ code' = "ok" => SubSeq(da4', 1, Chunks) \in hope'["tp_tsk"]
<1>4. \/ /\ script = S1 /\ Head(script) = Syn /\ Tail(script) = S2
         /\ script # <<>> /\ Head(script).op = "syn" /\ pc \notin {"wait", "flights", "section", "data"}
      \/ /\ script = S2 /\ Head(script) = FetchIt /\ Tail(script) = S3
         /\ script # <<>> /\ Head(script).op = "ask" /\ pc \notin {"syn", "ack", "flights", "section", "data"}
      \/ /\ script = S3 /\ pc = "step" /\ (\E x \in hope["tp_tsk"] : got = <<x>>)
         /\ Head(script).op = "save" /\ Tail(script) = <<>> /\ script # <<>>
      \/ script = <<>> /\ pc = "step" /\ SubSeq(da4, 1, Chunks) \in hope["tp_tsk"]
  BY <1>1, <1>3, FetchStages
<1>5. /\ FetchIt.op = "ask" /\ FetchIt.expect = "value" /\ FetchIt.message.body = "tp_tsk" /\ IsRead(FetchIt)
  BY FetchSteps
<1>. SUFFICES Right
  OBVIOUS
<1>. HIDE DEF S1, S2, S3
<1>6. CASE /\ script = S1 /\ Head(script) = Syn /\ Tail(script) = S2
           /\ script # <<>> /\ Head(script).op = "syn" /\ pc \notin {"wait", "flights", "section", "data"}
  <2>1. CASE SendSyn \/ NoAck
    BY <1>6, <2>1 DEF SendSyn, NoAck
  <2>2. CASE RecvAck
    BY <1>6, <2>2 DEF RecvAck, Done
  <2>3. CASE ~(SendSyn \/ NoAck \/ RecvAck)
    BY <1>6, <2>3 DEF Tool, Tell, Send, Receive, WrongAnswer, NoAnswer, Crash, open_flight_list, next_flight, seek_mem,
                      download_section, SaveSection, SaveDatabase, Return, At
  <2>. QED
    BY <2>1, <2>2, <2>3
<1>7. CASE /\ script = S2 /\ Head(script) = FetchIt /\ Tail(script) = S3
           /\ script # <<>> /\ Head(script).op = "ask" /\ pc \notin {"syn", "ack", "flights", "section", "data"}
  <2>0. Expected = "value" /\ ~Stores
    BY <1>5, <1>7 DEF Expected, Stores
  <2>1. CASE Send
    BY <1>7, <2>1 DEF Send
  <2>2. CASE Receive
    <3>. DEFINE m == Head(tty)
    <3>1. /\ pc = "wait" /\ tty # <<>> /\ m.kind = "value" /\ got' = <<m.body>> /\ hope' = hope
          /\ script' = S3 /\ pc' = "step"
      BY <1>7, <2>0, <2>2 DEF Receive, Read, Done
    <3>2. m.of = given
      <4>1. ~Misread(m, Subject)
        BY <1>3, <2>2 DEF Receive, Notice, Fetching
      <4>. QED
        BY <4>1 DEF Misread
    <3>3. m \in Replied
      <4>1. tty \in Seq(ToSet(tty))
        BY DEF IInv, Sequenced
      <4>. QED
        BY <3>1, <4>1, Others DEF Replied
    <3>4. script[1] = FetchIt
      <4>1. script \in Seq(ToSet(script))
        BY DEF IInv, Sequenced
      <4>. QED
        BY <1>7, <4>1, Others
    <3>5. Remembered("tp_tsk", m.body)
      BY <1>5, <3>1, <3>2, <3>3, <3>4 DEF Reads, Awaited
    <3>6. m.body \in hope["tp_tsk"]
      BY <3>5 DEF Remembered, Registers
    <3>. QED
      BY <3>1, <3>6
  <2>3. CASE WrongAnswer
    BY <2>0, <2>3 DEF WrongAnswer, Finish
  <2>4. CASE NoAnswer
    BY <1>7, <2>4 DEF NoAnswer, Finish
  <2>5. CASE ~(Send \/ Receive \/ WrongAnswer \/ NoAnswer)
    BY <1>7, <2>5 DEF Tool, SendSyn, RecvAck, NoAck, Tell, Crash, open_flight_list, next_flight, seek_mem,
                      download_section, SaveSection, SaveDatabase, Return, At
  <2>. QED
    BY <2>1, <2>2, <2>3, <2>4, <2>5
<1>8. CASE /\ script = S3 /\ pc = "step" /\ (\E x \in hope["tp_tsk"] : got = <<x>>)
           /\ Head(script).op = "save" /\ Tail(script) = <<>> /\ script # <<>>
  <2>1. CASE SaveDatabase
    <3>1. PICK x \in hope["tp_tsk"] : got = <<x>>
      BY <1>8
    <3>2. PICK v \in Versions : x = Whole(v)
      BY <3>1, TheFiles DEF FilesHeld
    <3>3. da4' = Overwritten(da4, x, Chunks) /\ hope' = hope /\ script' = <<>> /\ pc' = "step"
      <4>1. "disk full" \notin troubles'
        BY <1>3 DEF Fetching
      <4>. QED
        BY <1>8, <2>1, <3>1, <4>1 DEF SaveDatabase, Done, Fault
    <3>4. SubSeq(da4', 1, Chunks) = x
      BY <3>2, <3>3, SavedWhole DEF Fetched
    <3>. QED
      BY <3>1, <3>3, <3>4
  <2>2. CASE ~SaveDatabase
    BY <1>8, <2>2 DEF Tool, SendSyn, RecvAck, NoAck, Tell, Send, Receive, WrongAnswer, NoAnswer, Crash, open_flight_list,
                      next_flight, seek_mem, download_section, SaveSection, Return, At
  <2>. QED
    BY <2>1, <2>2
<1>9. CASE script = <<>> /\ pc = "step" /\ SubSeq(da4, 1, Chunks) \in hope["tp_tsk"]
  <2>1. CASE Return
    BY <1>9, <2>1 DEF Return, Finish
  <2>2. CASE ~Return
    BY <1>9, <2>2 DEF Tool, SendSyn, RecvAck, NoAck, Tell, Send, Receive, WrongAnswer, NoAnswer, Crash, open_flight_list,
                      next_flight, seek_mem, download_section, SaveSection, SaveDatabase, At
  <2>. QED
    BY <2>1, <2>2
<1>. QED
  BY <1>4, <1>6, <1>7, <1>8, <1>9

LEMMA FetchBegins ==
    ASSUME Fetched, Begin
    PROVE  Fetched'
<1>1. pc' = "step" /\ da4' = da4
  BY DEF Begin
<1>2. command'.name = "read_tp_tsk" => script' = cmd_read_tp_tsk
  BY DEF Begin, Call, Plain
<1>3. cmd_read_tp_tsk = <<Syn, FetchIt, Do("save")>>
  BY Triple DEF cmd_read_tp_tsk, communicate, FetchIt
<1>. QED
  BY <1>1, <1>2, <1>3 DEF Fetched, Fetching

\* The invariant of reading holds in every step.
LEMMA RInvStep ==
    ASSUME RInv, [Next]_vars
    PROVE  RInv'
<1>1. UInv' /\ FilesHeld'
  <2>1. Moves
    BY IInvStep DEF RInv, UInv
  <2>. QED
    BY <2>1, UInvStep, FilesStep DEF RInv, UInv
<1>2. IInv /\ Heads
  BY DEF RInv, UInv
<1>3. CASE Begin
  <2>1. MemoryHeld' /\ MemoryAcked' /\ Reads'
    BY <1>2, <1>3, BeginReads DEF RInv
  <2>. QED
    BY <1>1, <1>3, <2>1, FetchBegins DEF RInv
<1>4. CASE Tool
  <2>1. MemoryHeld' /\ MemoryAcked' /\ Reads'
    BY <1>2, <1>4, ToolReads DEF RInv
  <2>2. Fetched'
    BY <1>2, <1>4, FetchTool DEF RInv
  <2>. QED
    BY <1>1, <2>1, <2>2 DEF RInv
<1>5. CASE Device \/ LineFault \/ Arrive \/ Kill \/ Restart
  <2>1. MemoryHeld' /\ MemoryAcked' /\ Reads'
    BY <1>2, <1>5, OutsideReads DEF RInv
  <2>2. UNCHANGED <<command, script, pc, code, got, da4, hope>> /\ troubles \subseteq troubles'
    BY <1>2, <1>5, Unmoved
  <2>3. Fetched'
    BY <2>2 DEF RInv, Fetched, Fetching
  <2>. QED
    BY <1>1, <2>1, <2>3 DEF RInv
<1>6. CASE UNCHANGED vars
  <2>1. /\ UNCHANGED <<request, answer, tty, writing, memory, restarts, given, hope>>
        /\ UNCHANGED <<command, script, pc, code, got, da4, troubles>>
    BY <1>6 DEF vars, wire, trouble, device, state, disk, tool, work, promised
  <2>2. MemoryHeld'
    BY <2>1 DEF RInv, MemoryHeld, Carries, Remembered
  <2>3. MemoryAcked'
    BY <2>1 DEF RInv, MemoryAcked, IsWrite, Acked, Replied, InFlight
  <2>4. Asking(script)'
    BY <2>1 DEF RInv, Reads, Asking, Question, IsRead
  <2>5. Unasked'
    BY <2>1 DEF RInv, Reads, Unasked, IsRead, Replied
  <2>6. Awaited'
    BY <2>1 DEF RInv, Reads, Awaited, IsRead, Replied, Remembered
  <2>7. Fetched'
    BY <2>1 DEF RInv, Fetched, Fetching
  <2>. QED
    BY <1>1, <2>2, <2>3, <2>4, <2>5, <2>6, <2>7 DEF RInv, Reads
<1>. QED
  BY <1>3, <1>4, <1>5, <1>6 DEF Next

\* And in the beginning.
LEMMA InitRInv ==
    ASSUME Init
    PROVE  RInv
<1>1. UInv
  <2>1. IInv
    BY InitIInv
  <2>. QED
    BY <2>1 DEF UInv, Init, Heads, Uploaded, Uploading
<1>2. /\ ToSet(request) = {} /\ DOMAIN request = {} /\ Replied = {} /\ script = <<>> /\ pc = "idle" /\ restarts = 0
      /\ command.name = "none"
  BY OneOrTwo DEF Init, Replied
<1>3. PICK old \in Versions :
        \/ files = [n \in Files |-> <<>>] /\ da4 = <<>>
        \/ files = [n \in Files |-> Whole(old)] /\ da4 = [i \in 1..Chunks + 1 |-> old]
  <2>1. (CHOOSE v \in Versions : TRUE) \in Versions
    BY ToolAssumption
  <2>. QED
    BY <2>1 DEF Init
<1>4. /\ \A n \in Registers : hope[n] = {Default} /\ memory[n] = Default
      /\ \A n \in Files : hope[n] = {files[n]} \ {<<>>}
      /\ memory = [r \in Registers |-> memory[r]]
  BY TheFiles DEF Init
<1>5. FilesHeld
  <2>1. ASSUME NEW n \in Files
        PROVE  /\ hope[n] \subseteq {Whole(v) : v \in Versions}
               /\ Readable(files[n]) => files[n] \in hope[n]
    <3>1. files[n] = <<>> \/ files[n] = Whole(old)
      BY <1>3
    <3>2. ~Readable(<<>>)
      BY Unreadable
    <3>3. hope[n] = {files[n]} \ {<<>>}
      BY <1>4
    <3>. QED
      BY <3>1, <3>2, <3>3
  <2>. QED
    BY <2>1 DEF FilesHeld
<1>6. MemoryHeld /\ MemoryAcked
  BY <1>2, <1>4 DEF MemoryHeld, MemoryAcked, Remembered
<1>7. Reads
  <2>1. Asking(script) /\ DOMAIN script = {}
    BY <1>2, OneOrTwo DEF Asking
  <2>. QED
    BY <1>2, <2>1 DEF Reads, Unasked, Awaited
<1>8. da4 \in Seq(ToSet(da4))
  <2>1. CASE da4 = <<>>
    BY <2>1, OneOrTwo
  <2>2. CASE da4 = [i \in 1..Chunks + 1 |-> old]
    <3>1. Chunks + 1 \in Nat
      BY TheFiles
    <3>2. da4 \in [1..Chunks + 1 -> {old}]
      BY <2>2
    <3>3. \A S : [1..Chunks + 1 -> S] \subseteq Seq(S)
      BY <3>1, SeqDef
    <3>4. da4 \in Seq({old})
      BY <3>2, <3>3
    <3>. QED
      BY <3>4, Members
  <2>. QED
    BY <1>3, <2>1, <2>2
<1>9. Fetched
  BY <1>2, <1>8 DEF Fetched, Fetching
<1>. QED
  BY <1>1, <1>5, <1>6, <1>7, <1>9 DEF RInv

\* What a read brings is what was last acknowledged or has been offered since,
\* or the default when the device was started again: the answer is that of a
\* request of this command, which read only once and could not be answered
\* before it asked, and what is hoped for does not change while it waits.
THEOREM ReadingBack == Spec => []ReadIsLastWrite
<1>1. Init => RInv
  BY InitRInv
<1>2. RInv /\ [Next]_vars => RInv'
  BY RInvStep
<1>3. RInv => ReadIsLastWrite
  <2>. SUFFICES ASSUME RInv PROVE ReadIsLastWrite
    OBVIOUS
  <2>1. ASSUME pc = "wait", tty # <<>>, Expected = "value", ~Misread(Head(tty), Subject), Head(tty).kind = "value"
        PROVE  LET n == Head(script).message.body IN
                 \/ Head(tty).body \in hope[n]
                 \/ n \in Registers /\ restarts > 0 /\ Head(tty).body = Default
    <3>1. /\ script \in Seq(ToSet(script)) /\ tty \in Seq(ToSet(tty)) /\ script # <<>>
          /\ Head(script).op \in {"ask", "most", "put"}
      BY <2>1 DEF RInv, UInv, IInv, Sequenced, Heads
    <3>2. Head(script) = script[1] /\ script[1] \in ToSet(script) /\ Head(tty) \in Replied
      BY <2>1, <3>1, Others DEF Replied
    <3>3. IsRead(script[1])
      <4>1. Head(script).op \in {"ask", "most"} /\ Head(script).expect = "value"
        BY <2>1, <3>1 DEF Expected
      <4>. QED
        BY <3>2, <4>1 DEF RInv, Reads, Asking, Question
    <3>4. Head(tty).of = given
      BY <2>1 DEF Misread
    <3>5. Remembered(script[1].message.body, Head(tty).body)
      BY <2>1, <3>2, <3>3, <3>4 DEF RInv, Reads, Awaited
    <3>. QED
      BY <3>2, <3>5 DEF Remembered
  <2>2. ASSUME pc = "idle", command.name = "read_tp_tsk", code = "ok", {"disk full", "misread"} \cap troubles = {}
        PROVE  SubSeq(da4, 1, Chunks) \in hope["tp_tsk"]
    BY <2>2 DEF RInv, Fetched, Fetching
  <2>. QED
    BY <2>1, <2>2 DEF ReadIsLastWrite
<1>. QED
  BY <1>1, <1>2, <1>3, PTL DEF Spec

-----------------------------------------------------------------------------
(* What raw_mem prints and download saves.                                 *)

\* The steps both commands are made of, and what is left of each.
Check == Ask("CHECK_MEM_SETTINGS", 0, "settings")
Bytes(r) == <<def_mem_packet(r[1]), def_mem_packet(r[2])>>
Define(r) == Put("DEF_MEM", 0, Bytes(r))
Measure == Ask("GET_MEM_SECTION", 0, "sections")
Save == Do("sections")
Collecting == <<Save>>
Measuring == <<Measure, Save>>
Defining(r) == <<Define(r), Measure, Save>>
Printing(r) == {<<Syn, Check, Syn, Define(r), Measure, Save>>,
                <<Check, Syn, Define(r), Measure, Save>>,
                <<Syn, Define(r), Measure, Save>>}
Loading == {<<Syn, Check, Syn, Syn, Do("list"), Do("seek"), Measure, Save>>,
            <<Check, Syn, Syn, Do("list"), Do("seek"), Measure, Save>>,
            <<Syn, Syn, Do("list"), Do("seek"), Measure, Save>>,
            <<Syn, Do("list"), Do("seek"), Measure, Save>>,
            <<Do("list"), Do("seek"), Measure, Save>>,
            <<Do("seek"), Measure, Save>>}
Early(name, r) == IF name = "raw_mem" THEN Printing(r) ELSE Loading

\* What a range may be, and which one the command is about.
Known == Ranges \cup FlightRanges
Dumps == command.name \in {"raw_mem", "download"}
About(r) == /\ command.name = "raw_mem" => r = command.arguments
            /\ command.name = "download" /\ Len(flights) > 1 => r = flights[Len(flights) - 1]
Sound == {"damage", "cut", "misread", "disk full"} \cap troubles = {}

\* The flight list holds flights.
Flown == /\ flights \in Seq(FlightRanges)
         /\ \A m \in Replied : m.kind = "flight" => m.body \in FlightRanges
         /\ command.name = "raw_mem" => command.arguments \in Ranges
         /\ pc # "idle" => given > 0

\* The DEF_MEM of the command at work, and its ACK.
Sets(m) == m.kind = "DEF_MEM" /\ m.of = given
Acks(m) == m.kind = "ACK" /\ m.body = "DEF_MEM" /\ m.of = given
Unset == (\A m \in ToSet(request) : ~Sets(m)) /\ (\A m \in Replied : ~Acks(m))

\* The range is set, and nothing that could change it is on its way.
Ranged(r) == listed => range = r
Served(r) == request = <<>> /\ writing = NoWrite /\ Ranged(r)

\* The DEF_MEM is the last request, and its ACK the last answer.
Setting(r) ==
    /\ \A i \in DOMAIN request : Sets(request[i]) =>
         /\ i + 1 = Len(request) /\ request[i + 1].kind = "packet" /\ request[i + 1].body = Bytes(r)
         /\ \A m \in Replied : ~Acks(m)
    /\ \A i \in DOMAIN answer : Acks(answer[i]) => i = Len(answer) /\ Served(r)
    /\ \A i \in DOMAIN tty : Acks(tty[i]) => i = Len(tty) /\ answer = <<>> /\ Served(r)

\* Nothing is on its way; or one message only.
Empty == request = <<>> /\ answer = <<>> /\ tty = <<>> /\ writing = NoWrite
Single == Len(request) + Len(answer) + Len(tty) <= 1 /\ writing = NoWrite

\* The blocks of a range, and the memory one of them stands for.
Blocks(r) == mem_blocks(r[1], r[2])
Place(b) == flight_address(b.flight) + b.offset
Part(r, i) == <<Place(Blocks(r)[i]), Place(Blocks(r)[i]) + Blocks(r)[i].length>>

\* The table of sections is that of the range; so is the one that comes.
Cut(r) == listed => blocks = Blocks(r)
Measured(r) == Cut(r) /\ (listed => lengths = section_lengths(Blocks(r)))
Awaiting(r) ==
    /\ Ranged(r) /\ \A m \in ToSet(request) : m.kind \in {"GET_MEM_SECTION", "damaged"}
    /\ \A m \in Replied : m.kind = "sections" /\ listed => Cut(r) /\ m.body = section_lengths(Blocks(r))

\* The first k of the sections have been saved, and the next one comes.
Saved(r, k) == /\ got \in Seq(ToSet(got)) /\ Len(got) = k /\ k <= Len(Blocks(r))
               /\ \A i \in 1..k : got[i] = Part(r, i)
Taking(r) == section \in Nat \ {0} /\ Measured(r) /\ (listed => Saved(r, section - 1))
Coming(r) ==
    /\ Taking(r) /\ (listed => section <= Len(Blocks(r)))
    /\ \A m \in ToSet(request) : m.kind = "damaged" \/ (m.kind = "READ_LOGGER_DATA" /\ m.body = section)
    /\ \A m \in Replied : m.kind = "data" /\ listed => m.body = Part(r, section)
Complete(r) == listed => Saved(r, Len(Blocks(r)))

\* From DEF_MEM on.
Later(r) ==
    \/ script = Defining(r) /\ pc = "step" /\ got = <<>> /\ Unset
    \/ script = Defining(r) /\ pc = "wait" /\ got = <<>> /\ (Sound => Setting(r))
    \/ script = Measuring /\ pc = "step" /\ got = <<>> /\ (Sound => Empty /\ Ranged(r))
    \/ script = Measuring /\ pc = "wait" /\ got = <<>> /\ (Sound => Single /\ Awaiting(r))
    \/ script = Collecting /\ pc = "step" /\ got = <<>> /\ (Sound => Empty /\ Measured(r))
    \/ script = Collecting /\ pc = "section" /\ (Sound => Empty /\ Taking(r))
    \/ script = Collecting /\ pc = "data" /\ (Sound => Single /\ Coming(r))
    \/ script = <<>> /\ pc = "step" /\ (Sound => Empty /\ Complete(r))

Begun == script \in Early(command.name, command.arguments) /\ got = <<>> /\ Unset
Ended(r) == Sound => Empty /\ Complete(r)

Dumped ==
    /\ Dumps /\ pc # "idle" => Begun \/ \E r \in Known : About(r) /\ Later(r)
    /\ Dumps /\ pc = "idle" /\ code = "ok" => \E r \in Known : About(r) /\ Ended(r)

DInv == UInv /\ Flown /\ Dumped

-----------------------------------------------------------------------------
(* The scripts.                                                            *)

\* What the steps of the two commands are.
LEMMA DumpSteps ==
    /\ Syn.op = "syn" /\ Check.op = "ask" /\ Check.expect = "settings" /\ Check.message = Msg("CHECK_MEM_SETTINGS", 0)
    /\ Do("list").op = "list" /\ Do("seek").op = "seek" /\ Save.op = "sections"
    /\ Measure.op = "ask" /\ Measure.expect = "sections" /\ Measure.message = Msg("GET_MEM_SECTION", 0)
    /\ \A r : /\ Define(r).op = "put" /\ Define(r).message = Msg("DEF_MEM", 0) /\ Define(r).packet = Bytes(r)
<1>1. Syn.op = "syn" /\ Do("list").op = "list" /\ Do("seek").op = "seek" /\ Save.op = "sections"
  BY DEF Syn, Do, Save
<1>2. Check.op = "ask" /\ Check.expect = "settings" /\ Check.message = Msg("CHECK_MEM_SETTINGS", 0)
  BY DEF Check, Ask
<1>3. Measure.op = "ask" /\ Measure.expect = "sections" /\ Measure.message = Msg("GET_MEM_SECTION", 0)
  BY DEF Measure, Ask
<1>4. \A r : Define(r).op = "put" /\ Define(r).message = Msg("DEF_MEM", 0) /\ Define(r).packet = Bytes(r)
  BY DEF Define, Put
<1>. QED
  BY <1>1, <1>2, <1>3, <1>4

\* Where an early script goes on.
LEMMA EarlySteps ==
    ASSUME NEW n, n \in {"raw_mem", "download"}, NEW r, NEW t, t \in Early(n, r)
    PROVE  /\ t # <<>>
           /\ \/ Head(t) = Syn /\ (Tail(t) \in Early(n, r) \/ (n = "raw_mem" /\ Tail(t) = Defining(r)))
              \/ Head(t) = Check /\ Tail(t) \in Early(n, r)
              \/ Head(t) = Do("list") /\ n = "download" /\ Tail(t) \in Early(n, r)
              \/ Head(t) = Do("seek") /\ n = "download" /\ Tail(t) = Measuring
<1>. DEFINE s == Syn  k == Check  d == Define(r)  m == Measure  z == Save  l == Do("list")  q == Do("seek")
<1>. HIDE DEF s, k, d, m, z, l, q
<1>1. CASE n = "raw_mem"
  <2>1. t = <<s, k, s, d, m, z>> \/ t = <<k, s, d, m, z>> \/ t = <<s, d, m, z>>
    BY <1>1 DEF Early, Printing, s, k, d, m, z
  <2>2. <<k, s, d, m, z>> \in Early(n, r) /\ <<s, d, m, z>> \in Early(n, r) /\ <<d, m, z>> = Defining(r)
    BY <1>1 DEF Early, Printing, Defining, s, k, d, m, z
  <2>3. /\ Head(<<s, k, s, d, m, z>>) = s /\ Tail(<<s, k, s, d, m, z>>) = <<k, s, d, m, z>> /\ <<s, k, s, d, m, z>> # <<>>
        /\ Head(<<k, s, d, m, z>>) = k /\ Tail(<<k, s, d, m, z>>) = <<s, d, m, z>> /\ <<k, s, d, m, z>> # <<>>
        /\ Head(<<s, d, m, z>>) = s /\ Tail(<<s, d, m, z>>) = <<d, m, z>> /\ <<s, d, m, z>> # <<>>
    OBVIOUS
  <2>4. s = Syn /\ k = Check
    BY DEF s, k
  <2>. QED
    BY <1>1, <2>1, <2>2, <2>3, <2>4
<1>2. CASE n = "download"
  <2>1. \/ t = <<s, k, s, s, l, q, m, z>> \/ t = <<k, s, s, l, q, m, z>> \/ t = <<s, s, l, q, m, z>>
        \/ t = <<s, l, q, m, z>> \/ t = <<l, q, m, z>> \/ t = <<q, m, z>>
    BY <1>2 DEF Early, Loading, s, k, l, q, m, z
  <2>2. /\ <<k, s, s, l, q, m, z>> \in Early(n, r) /\ <<s, s, l, q, m, z>> \in Early(n, r)
        /\ <<s, l, q, m, z>> \in Early(n, r) /\ <<l, q, m, z>> \in Early(n, r) /\ <<q, m, z>> \in Early(n, r)
        /\ <<m, z>> = Measuring
    BY <1>2 DEF Early, Loading, Measuring, s, k, l, q, m, z
  <2>3. /\ Head(<<s, k, s, s, l, q, m, z>>) = s /\ Tail(<<s, k, s, s, l, q, m, z>>) = <<k, s, s, l, q, m, z>>
        /\ Head(<<k, s, s, l, q, m, z>>) = k /\ Tail(<<k, s, s, l, q, m, z>>) = <<s, s, l, q, m, z>>
        /\ Head(<<s, s, l, q, m, z>>) = s /\ Tail(<<s, s, l, q, m, z>>) = <<s, l, q, m, z>>
        /\ Head(<<s, l, q, m, z>>) = s /\ Tail(<<s, l, q, m, z>>) = <<l, q, m, z>>
        /\ Head(<<l, q, m, z>>) = l /\ Tail(<<l, q, m, z>>) = <<q, m, z>>
        /\ Head(<<q, m, z>>) = q /\ Tail(<<q, m, z>>) = <<m, z>>
        /\ <<s, k, s, s, l, q, m, z>> # <<>> /\ <<k, s, s, l, q, m, z>> # <<>> /\ <<s, s, l, q, m, z>> # <<>>
        /\ <<s, l, q, m, z>> # <<>> /\ <<l, q, m, z>> # <<>> /\ <<q, m, z>> # <<>>
    OBVIOUS
  <2>4. s = Syn /\ k = Check /\ l = Do("list") /\ q = Do("seek")
    BY DEF s, k, l, q
  <2>. QED
    BY <1>2, <2>1, <2>2, <2>3, <2>4
<1>. QED
  BY <1>1, <1>2

LEMMA LaterSteps ==
    ASSUME NEW r
    PROVE  /\ Defining(r) # <<>> /\ Head(Defining(r)) = Define(r) /\ Tail(Defining(r)) = Measuring
           /\ Measuring # <<>> /\ Head(Measuring) = Measure /\ Tail(Measuring) = Collecting
           /\ Collecting # <<>> /\ Head(Collecting) = Save /\ Tail(Collecting) = <<>>
BY DEF Defining, Measuring, Collecting

\* Sequences put together.
LEMMA Together ==
    ASSUME NEW S, NEW s \in Seq(S), NEW t \in Seq(S), NEW u \in Seq(S), Len(u) = Len(s) + Len(t),
           \A i \in 1..Len(s) : u[i] = s[i], \A i \in 1..Len(t) : u[Len(s) + i] = t[i]
    PROVE  s \o t = u
<1>. DEFINE v == s \o t
<1>1. /\ v \in Seq(S) /\ Len(v) = Len(s) + Len(t) /\ Len(s) \in Nat /\ Len(t) \in Nat
      /\ \A i \in 1..Len(s) + Len(t) : v[i] = IF i <= Len(s) THEN s[i] ELSE t[i - Len(s)]
  BY ConcatProperties, LenProperties
<1>. HIDE DEF v
<1>2. ASSUME NEW i \in 1..Len(v)
      PROVE  v[i] = u[i]
  <2>1. CASE i <= Len(s)
    BY <1>1, <2>1
  <2>2. CASE ~(i <= Len(s))
    <3>1. i - Len(s) \in 1..Len(t) /\ Len(s) + (i - Len(s)) = i
      BY <1>1, <2>2
    <3>2. u[Len(s) + (i - Len(s))] = t[i - Len(s)]
      BY <3>1
    <3>. QED
      BY <1>1, <2>2, <3>1, <3>2
  <2>. QED
    BY <2>1, <2>2
<1>3. v = u
  BY <1>1, <1>2, SeqEqual
<1>. QED
  BY <1>3 DEF v

\* A sequence with one more behind it.
LEMMA FourInARow ==
    ASSUME NEW a, NEW b, NEW c, NEW d
    PROVE  <<a, b, c>> \o <<d>> = <<a, b, c, d>>
<1>. DEFINE S == {a, b, c, d}  s == <<a, b, c>>  t == <<d>>  u == <<a, b, c, d>>
<1>1. s \in Seq(S) /\ t \in Seq(S) /\ u \in Seq(S)
  OBVIOUS
<1>2. Len(s) = 3 /\ Len(t) = 1 /\ Len(u) = 4 /\ u[4] = t[1]
  OBVIOUS
<1>3. \A i \in 1..3 : u[i] = s[i]
  <2>1. u[1] = s[1] /\ u[2] = s[2] /\ u[3] = s[3]
    OBVIOUS
  <2>. HIDE DEF s, u
  <2>. QED
    BY <2>1
<1>. HIDE DEF S, s, t, u
<1>4. \A i \in 1..Len(s) : u[i] = s[i]
  BY <1>2, <1>3
<1>5. \A i \in 1..Len(t) : u[Len(s) + i] = t[i]
  BY <1>2
<1>6. Len(u) = Len(s) + Len(t)
  BY <1>2
<1>7. s \o t = u
  BY <1>1, <1>4, <1>5, <1>6, Together
<1>. QED
  BY <1>7 DEF s, t, u

LEMMA FiveInARow ==
    ASSUME NEW a, NEW b, NEW c, NEW d, NEW e
    PROVE  <<a, b, c, d>> \o <<e>> = <<a, b, c, d, e>>
<1>. DEFINE S == {a, b, c, d, e}  s == <<a, b, c, d>>  t == <<e>>  u == <<a, b, c, d, e>>
<1>1. s \in Seq(S) /\ t \in Seq(S) /\ u \in Seq(S)
  OBVIOUS
<1>2. Len(s) = 4 /\ Len(t) = 1 /\ Len(u) = 5 /\ u[5] = t[1]
  OBVIOUS
<1>3. \A i \in 1..4 : u[i] = s[i]
  <2>1. u[1] = s[1] /\ u[2] = s[2] /\ u[3] = s[3] /\ u[4] = s[4]
    OBVIOUS
  <2>. HIDE DEF s, u
  <2>. QED
    BY <2>1
<1>. HIDE DEF S, s, t, u
<1>4. \A i \in 1..Len(s) : u[i] = s[i]
  BY <1>2, <1>3
<1>5. \A i \in 1..Len(t) : u[Len(s) + i] = t[i]
  BY <1>2
<1>6. Len(u) = Len(s) + Len(t)
  BY <1>2
<1>7. s \o t = u
  BY <1>1, <1>4, <1>5, <1>6, Together
<1>. QED
  BY <1>7 DEF s, t, u

LEMMA SixInARow ==
    ASSUME NEW a, NEW b, NEW c, NEW d, NEW e, NEW f
    PROVE  <<a, b, c, d, e>> \o <<f>> = <<a, b, c, d, e, f>>
<1>. DEFINE S == {a, b, c, d, e, f}  s == <<a, b, c, d, e>>  t == <<f>>  u == <<a, b, c, d, e, f>>
<1>1. s \in Seq(S) /\ t \in Seq(S) /\ u \in Seq(S)
  OBVIOUS
<1>2. Len(s) = 5 /\ Len(t) = 1 /\ Len(u) = 6 /\ u[6] = t[1]
  OBVIOUS
<1>3. \A i \in 1..5 : u[i] = s[i]
  <2>1. u[1] = s[1] /\ u[2] = s[2] /\ u[3] = s[3] /\ u[4] = s[4] /\ u[5] = s[5]
    OBVIOUS
  <2>. HIDE DEF s, u
  <2>. QED
    BY <2>1
<1>. HIDE DEF S, s, t, u
<1>4. \A i \in 1..Len(s) : u[i] = s[i]
  BY <1>2, <1>3
<1>5. \A i \in 1..Len(t) : u[Len(s) + i] = t[i]
  BY <1>2
<1>6. Len(u) = Len(s) + Len(t)
  BY <1>2
<1>7. s \o t = u
  BY <1>1, <1>4, <1>5, <1>6, Together
<1>. QED
  BY <1>7 DEF s, t, u

LEMMA SevenInARow ==
    ASSUME NEW a, NEW b, NEW c, NEW d, NEW e, NEW f, NEW g
    PROVE  <<a, b, c, d, e, f>> \o <<g>> = <<a, b, c, d, e, f, g>>
<1>. DEFINE S == {a, b, c, d, e, f, g}  s == <<a, b, c, d, e, f>>  t == <<g>>  u == <<a, b, c, d, e, f, g>>
<1>1. s \in Seq(S) /\ t \in Seq(S) /\ u \in Seq(S)
  OBVIOUS
<1>2. Len(s) = 6 /\ Len(t) = 1 /\ Len(u) = 7 /\ u[7] = t[1]
  OBVIOUS
<1>3. \A i \in 1..6 : u[i] = s[i]
  <2>1. u[1] = s[1] /\ u[2] = s[2] /\ u[3] = s[3] /\ u[4] = s[4] /\ u[5] = s[5] /\ u[6] = s[6]
    OBVIOUS
  <2>. HIDE DEF s, u
  <2>. QED
    BY <2>1
<1>. HIDE DEF S, s, t, u
<1>4. \A i \in 1..Len(s) : u[i] = s[i]
  BY <1>2, <1>3
<1>5. \A i \in 1..Len(t) : u[Len(s) + i] = t[i]
  BY <1>2
<1>6. Len(u) = Len(s) + Len(t)
  BY <1>2
<1>7. s \o t = u
  BY <1>1, <1>4, <1>5, <1>6, Together
<1>. QED
  BY <1>7 DEF s, t, u

LEMMA EightInARow ==
    ASSUME NEW a, NEW b, NEW c, NEW d, NEW e, NEW f, NEW g, NEW h
    PROVE  <<a, b, c, d, e, f, g>> \o <<h>> = <<a, b, c, d, e, f, g, h>>
<1>. DEFINE S == {a, b, c, d, e, f, g, h}  s == <<a, b, c, d, e, f, g>>  t == <<h>>  u == <<a, b, c, d, e, f, g, h>>
<1>1. s \in Seq(S) /\ t \in Seq(S) /\ u \in Seq(S)
  OBVIOUS
<1>2. Len(s) = 7 /\ Len(t) = 1 /\ Len(u) = 8 /\ u[8] = t[1]
  OBVIOUS
<1>3. \A i \in 1..7 : u[i] = s[i]
  <2>1. u[1] = s[1] /\ u[2] = s[2] /\ u[3] = s[3] /\ u[4] = s[4] /\ u[5] = s[5] /\ u[6] = s[6] /\ u[7] = s[7]
    OBVIOUS
  <2>. HIDE DEF s, u
  <2>. QED
    BY <2>1
<1>. HIDE DEF S, s, t, u
<1>4. \A i \in 1..Len(s) : u[i] = s[i]
  BY <1>2, <1>3
<1>5. \A i \in 1..Len(t) : u[Len(s) + i] = t[i]
  BY <1>2
<1>6. Len(u) = Len(s) + Len(t)
  BY <1>2
<1>7. s \o t = u
  BY <1>1, <1>4, <1>5, <1>6, Together
<1>. QED
  BY <1>7 DEF s, t, u

\* Two and four, and one and two.
LEMMA TwoAndFour ==
    ASSUME NEW a, NEW b, NEW c, NEW d, NEW e, NEW f
    PROVE  <<a, b>> \o <<c, d, e, f>> = <<a, b, c, d, e, f>>
<1>. DEFINE S == {a, b, c, d, e, f}  s == <<a, b>>  t == <<c, d, e, f>>  u == <<a, b, c, d, e, f>>
<1>1. (\A i : i \in 1..2 => i \in {1, 2}) /\ (\A i : i \in 1..4 => i \in {1, 2, 3, 4})
  OBVIOUS
<1>2. s \in Seq(S) /\ t \in Seq(S) /\ u \in Seq(S)
  OBVIOUS
<1>3. /\ Len(s) = 2 /\ Len(t) = 4 /\ Len(u) = 6
      /\ u[1] = s[1] /\ u[2] = s[2] /\ u[3] = t[1] /\ u[4] = t[2] /\ u[5] = t[3] /\ u[6] = t[4]
  OBVIOUS
<1>. HIDE DEF S, s, t, u
<1>4. \A i \in 1..Len(s) : u[i] = s[i]
  BY <1>1, <1>3
<1>5. \A i \in 1..Len(t) : u[Len(s) + i] = t[i]
  BY <1>1, <1>3
<1>6. Len(u) = Len(s) + Len(t)
  BY <1>3
<1>7. s \o t = u
  BY <1>2, <1>4, <1>5, <1>6, Together
<1>. QED
  BY <1>7 DEF s, t, u

LEMMA OneAndTwo ==
    ASSUME NEW a, NEW b, NEW c
    PROVE  <<a>> \o <<b, c>> = <<a, b, c>>
<1>. DEFINE S == {a, b, c}  p == <<a>>  q == <<b, c>>  r == <<a, b, c>>
<1>1. (\A i : i \in 1..1 => i = 1) /\ (\A i : i \in 1..2 => i \in {1, 2})
  OBVIOUS
<1>2. p \in Seq(S) /\ q \in Seq(S) /\ r \in Seq(S)
  OBVIOUS
<1>3. Len(p) = 1 /\ Len(q) = 2 /\ Len(r) = 3 /\ r[1] = p[1] /\ r[2] = q[1] /\ r[3] = q[2]
  OBVIOUS
<1>. HIDE DEF S, p, q, r
<1>4. \A i \in 1..Len(p) : r[i] = p[i]
  BY <1>1, <1>3
<1>5. \A i \in 1..Len(q) : r[Len(p) + i] = q[i]
  BY <1>1, <1>3
<1>6. Len(r) = Len(p) + Len(q)
  BY <1>3
<1>7. p \o q = r
  BY <1>2, <1>4, <1>5, <1>6, Together
<1>. QED
  BY <1>7 DEF p, q, r

\* The scripts of the commands.
LEMMA DumpScripts ==
    /\ \A r : cmd_raw_mem(r) = <<Syn, Check, Syn, Define(r), Measure, Save>>
    /\ \A r : seek_mem_x(r) \o Measuring = Defining(r)
    /\ download_flight = <<Syn, Check, Syn, Syn, Do("list"), Do("seek"), Measure, Save>>
<1>1. check_mem_settings = <<Syn, Check>> /\ get_mem_section = <<Measure>>
  BY DEF check_mem_settings, communicate, get_mem_section, Check, Measure
<1>2. ASSUME NEW r
      PROVE  /\ cmd_raw_mem(r) = <<Syn, Check, Syn, Define(r), Measure, Save>>
             /\ seek_mem_x(r) \o Measuring = Defining(r)
  <2>1. seek_mem_x(r) = <<Define(r)>>
    BY DEF seek_mem_x, Define, Bytes
  <2>2. cmd_raw_mem(r) = <<Syn, Check>> \o <<Syn>> \o <<Define(r)>> \o <<Measure>> \o <<Save>>
    BY <1>1, <2>1 DEF cmd_raw_mem, cmd_mem_section, Save
  <2>3. <<Syn, Check>> \o <<Syn>> = <<Syn, Check, Syn>>
    BY Triple
  <2>4. /\ <<Syn, Check, Syn>> \o <<Define(r)>> = <<Syn, Check, Syn, Define(r)>>
        /\ <<Syn, Check, Syn, Define(r)>> \o <<Measure>> = <<Syn, Check, Syn, Define(r), Measure>>
        /\ <<Syn, Check, Syn, Define(r), Measure>> \o <<Save>> = <<Syn, Check, Syn, Define(r), Measure, Save>>
    BY FourInARow, FiveInARow, SixInARow
  <2>5. <<Define(r)>> \o <<Measure, Save>> = <<Define(r), Measure, Save>>
    BY OneAndTwo
  <2>. QED
    BY <2>1, <2>2, <2>3, <2>4, <2>5 DEF Measuring, Defining
<1>3. download_flight = <<Syn, Check, Syn, Syn, Do("list"), Do("seek"), Measure, Save>>
  <2>1. download_flight = <<Syn, Check>> \o <<Syn, Syn, Do("list"), Do("seek")>> \o <<Measure>> \o <<Save>>
    BY <1>1 DEF download_flight, Save
  <2>2. <<Syn, Check>> \o <<Syn, Syn, Do("list"), Do("seek")>> = <<Syn, Check, Syn, Syn, Do("list"), Do("seek")>>
    BY TwoAndFour
  <2>3. /\ <<Syn, Check, Syn, Syn, Do("list"), Do("seek")>> \o <<Measure>>
             = <<Syn, Check, Syn, Syn, Do("list"), Do("seek"), Measure>>
        /\ <<Syn, Check, Syn, Syn, Do("list"), Do("seek"), Measure>> \o <<Save>>
             = <<Syn, Check, Syn, Syn, Do("list"), Do("seek"), Measure, Save>>
    BY SevenInARow, EightInARow
  <2>. QED
    BY <2>1, <2>2, <2>3
<1>. QED
  BY <1>2, <1>3

-----------------------------------------------------------------------------
(* What goes on outside the tool.                                          *)

\* The first n of the messages s are gone, and the first of the others may
\* be damaged.
Moved(r, s, n) ==
    /\ n \in 0..Len(s) /\ r \in Seq(ToSet(r)) /\ Len(r) = Len(s) - n
    /\ \A i \in DOMAIN r : n + i \in DOMAIN s /\ (r[i] = s[n + i] \/ (i = 1 /\ r[i].kind = "damaged" /\ r[i].of = 0))

LEMMA TakenMoves ==
    ASSUME NEW s, s \in Seq(ToSet(s)), NEW n \in {1, 2}, Len(s) >= n, NEW t, t = SubSeq(s, n + 1, Len(s))
    PROVE  Moved(t, s, n) /\ Head(s) = s[1] /\ s[1] \in ToSet(s) /\ s # <<>>
<1>1. Len(s) \in Nat /\ n \in 0..Len(s) /\ s # <<>>
  BY LenProperties, EmptySeq
<1>2. PICK k \in 0..Len(s) : k = n
  BY <1>1
<1>3. t = SubSeq(s, k + 1, Len(s))
  BY <1>2
<1>4. /\ t \in Seq(ToSet(t)) /\ Len(t) = Len(s) - k
      /\ \A i \in DOMAIN t : k + i \in DOMAIN s /\ t[i] = s[k + i]
  BY <1>3, Rest, ZenonT(60)
<1>5. Head(s) = s[1] /\ s[1] \in ToSet(s)
  BY <1>1, Others
<1>. QED
  BY <1>1, <1>2, <1>4, <1>5 DEF Moved

LEMMA Moving ==
    ASSUME NEW s, s \in Seq(ToSet(s))
    PROVE  /\ Moved(s, s, 0) /\ Moved(<<>>, s, Len(s))
           /\ s # <<>> => Moved(Tail(s), s, 1)
<1>1. Len(s) \in Nat /\ DOMAIN s = 1..Len(s)
  BY LenProperties
<1>2. Moved(s, s, 0)
  BY <1>1 DEF Moved
<1>3. Moved(<<>>, s, Len(s))
  <2>1. Len(s) \in 0..Len(s) /\ Len(s) - Len(s) = 0
    BY <1>1
  <2>. QED
    BY <2>1, OneOrTwo DEF Moved
<1>4. ASSUME s # <<>>
      PROVE  Moved(Tail(s), s, 1)
  <2>1. /\ Len(s) >= 1 /\ Tail(s) \in Seq(ToSet(Tail(s))) /\ Len(Tail(s)) = Len(s) - 1
        /\ \A i \in DOMAIN Tail(s) : i + 1 \in DOMAIN s /\ Tail(s)[i] = s[i + 1]
        /\ DOMAIN Tail(s) = 1..Len(Tail(s))
    BY <1>4, Others, LenProperties
  <2>2. 1 \in 0..Len(s) /\ \A i \in DOMAIN Tail(s) : 1 + i = i + 1
    BY <1>1, <2>1
  <2>. QED
    BY <2>1, <2>2 DEF Moved
<1>. QED
  BY <1>2, <1>3, <1>4

LEMMA HurtMoves ==
    ASSUME NEW k, NEW s, s \in Seq(ToSet(s)), s # <<>>
    PROVE  Moved(Hurt(k, s), s, 0) \/ Moved(Hurt(k, s), s, 1)
<1>1. CASE Hurt(k, s) = Tail(s)
  BY <1>1, Moving
<1>2. CASE Hurt(k, s) = <<Msg("damaged", s[1].kind)>> \o Tail(s)
  <2>0. /\ Len(s) \in Nat /\ Len(s) >= 1 /\ Tail(s) \in Seq(ToSet(Tail(s))) /\ Len(Tail(s)) = Len(s) - 1
        /\ \A i \in DOMAIN Tail(s) : i + 1 \in DOMAIN s /\ i + 1 # 1 /\ Tail(s)[i] = s[i + 1]
        /\ DOMAIN Tail(s) = 1..Len(Tail(s)) /\ DOMAIN s = 1..Len(s)
    BY Others, LenProperties, SMTT(60)
  <2>. DEFINE d == <<Msg("damaged", s[1].kind)>>  t == Tail(s)  r == d \o t
  <2>1. d \in Seq(ToSet(d)) /\ Len(d) = 1 /\ DOMAIN d = {1} /\ d[1].kind = "damaged" /\ d[1].of = 0
    BY OneOrTwo, Fields
  <2>2. t \in Seq(ToSet(t)) /\ Len(t) = Len(s) - 1
    BY <2>0
  <2>3. \A i \in DOMAIN t : i + 1 \in DOMAIN s /\ t[i] = s[i + 1] /\ i \in Nat
    BY <2>0
  <2>. HIDE DEF d, t
  <2>4. r \in Seq(ToSet(r)) /\ Len(r) = Len(d) + Len(t)
    BY <2>1, <2>2, Joined
  <2>5. \A i \in DOMAIN d : i \in DOMAIN r /\ r[i] = d[i]
    BY <2>1, <2>2, Joined
  <2>6. \A i \in DOMAIN r : i \in DOMAIN d \/ (i - 1 \in DOMAIN t /\ r[i] = t[i - 1])
    <3>1. d \in Seq(ToSet(d)) /\ t \in Seq(ToSet(t))
      BY <2>1, <2>2
    <3>2. \A i \in DOMAIN r : i \in DOMAIN d \/ (i - Len(d) \in DOMAIN t /\ r[i] = t[i - Len(d)])
      BY <3>1, Joined
    <3>. QED
      BY <2>1, <3>2
  <2>. HIDE DEF r
  <2>7. \A i \in DOMAIN r : i \in Nat /\ i - 1 + 1 = i /\ 0 + i = i
    BY <2>4, LenProperties
  <2>8. ASSUME NEW i \in DOMAIN r
        PROVE  0 + i \in DOMAIN s /\ (r[i] = s[0 + i] \/ (i = 1 /\ r[i].kind = "damaged" /\ r[i].of = 0))
    <3>1. CASE i = 1
      BY <2>0, <2>1, <2>5, <3>1
    <3>2. CASE i # 1
      BY <2>1, <2>3, <2>6, <2>7, <3>2
    <3>. QED
      BY <3>1, <3>2
  <2>9. Len(r) = Len(s) - 0 /\ 0 \in 0..Len(s)
    BY <2>0, <2>1, <2>2, <2>4
  <2>10. Moved(r, s, 0)
    BY <2>4, <2>8, <2>9 DEF Moved
  <2>. QED
    BY <1>2, <2>10 DEF d, t, r
<1>. QED
  BY <1>1, <1>2 DEF Hurt

\* An answer that is about nothing in the memory of the device.
Hushed(m) == m.kind \notin {"flight", "sections", "data"} /\ ~(m.kind = "ACK" /\ m.body = "DEF_MEM")

\* What a handler does that is about something else.
Aside ==
    /\ UNCHANGED <<range, blocks, listed, tty>>
    /\ \E n : Moved(request', request, n)
    /\ \A m \in Replied' : m \in Replied \/ Hushed(m)
    /\ request = <<>> /\ writing = NoWrite => UNCHANGED <<request, answer, writing>>
    /\ writing = NoWrite /\ request # <<>> /\ request[1].kind \in {"damaged", "GET_MEM_SECTION", "READ_LOGGER_DATA"}
         => UNCHANGED <<answer, writing>>

\* One request is read, and there may be an answer.
LEMMA AsideStep ==
    ASSUME IInv, NEW n \in {1, 2}, Serving(n), UNCHANGED <<range, blocks, listed>>,
           NEW k, NEW b, Reply(Msg(k, b)) \/ answer' = answer,
           k \notin {"flight", "sections", "data"}, ~(k = "ACK" /\ b = "DEF_MEM"),
           request[1].kind \in {"damaged", "GET_MEM_SECTION", "READ_LOGGER_DATA"} => UNCHANGED <<answer, writing>>
    PROVE  Aside
<1>1. /\ Len(request) >= n /\ request' = SubSeq(request, n + 1, Len(request)) /\ tty' = tty
      /\ request \in Seq(ToSet(request))
  BY DEF Serving, IInv, Sequenced
<1>2. Moved(request', request, n) /\ request # <<>>
  BY <1>1, TakenMoves
<1>3. \A m \in Replied' : m \in Replied \/ (m.kind = k /\ m.body = b /\ m.of = request[1].of)
  BY AnsweredOne
<1>4. \A m \in Replied' : m \in Replied \/ Hushed(m)
  BY <1>3 DEF Hushed
<1>. QED
  BY <1>1, <1>2, <1>4 DEF Aside

\* What fakefilser does: something aside, or one of four requests about its
\* memory.
LEMMA DeviceDoes ==
    ASSUME IInv, Device
    PROVE  Aside \/ handle_open_flight_list \/ handle_def_mem \/ handle_get_mem_section \/ handle_get_logger_data
<1>. USE DEF state, disk
<1>1. CASE handle_syn
  <2>1. Serving(1) /\ Reply(Msg("ACK", "SYN")) /\ request[1].kind = "SYN" /\ UNCHANGED <<range, blocks, listed>>
    BY <1>1 DEF handle_syn, Serve, Ack
  <2>. QED
    BY <2>1, AsideStep
<1>2. CASE handle_fixed
  <2>1. PICK k \in DOMAIN FixedAnswer :
          /\ Serving(1) /\ Reply(Msg(FixedAnswer[k], 0)) /\ request[1].kind = k
          /\ UNCHANGED <<range, blocks, listed>>
    BY <1>2 DEF handle_fixed, Serve
  <2>2. /\ FixedAnswer[k] \notin {"ACK", "flight", "sections", "data"}
        /\ k \notin {"damaged", "GET_MEM_SECTION", "READ_LOGGER_DATA"}
    BY DEF FixedAnswer
  <2>. QED
    BY <2>1, <2>2, AsideStep
<1>3. CASE handle_clear_lo4
  <2>1. /\ Serving(1) /\ Reply(Msg("ACK", "CLEAR_LO4")) /\ request[1].kind = "CLEAR_LO4"
        /\ UNCHANGED <<range, blocks, listed>>
    BY <1>3 DEF handle_clear_lo4, Serve, Ack
  <2>. QED
    BY <2>1, AsideStep
<1>4. CASE handle_read_register
  <2>1. PICK r \in Registers : /\ Serving(1) /\ Reply(Msg("value", memory[r])) /\ request[1].kind = "READ"
                               /\ UNCHANGED <<range, blocks, listed>>
    BY <1>4 DEF handle_read_register, Asked
  <2>. QED
    BY <2>1, AsideStep
<1>5. CASE handle_write_register
  <2>1. PICK r \in Registers :
          /\ Serving(2) /\ request[1].kind = "WRITE" /\ request[1].body = r
          /\ Reply(Msg("ACK", r)) \/ answer' = answer
          /\ UNCHANGED <<range, blocks, listed>>
    BY <1>5 DEF handle_write_register, Given, Ack
  <2>2. r # "DEF_MEM"
    BY DEF Registers
  <2>. QED
    BY <2>1, <2>2, AsideStep
<1>6. CASE upload_from_file
  <2>1. PICK n \in Files : /\ Serving(1) /\ request[1].kind = "READ"
                           /\ Reply(Msg("value", files[n])) \/ answer' = answer
                           /\ UNCHANGED <<range, blocks, listed>>
    BY <1>6 DEF upload_from_file, Asked
  <2>. QED
    BY <2>1, AsideStep
<1>7. ASSUME NEW n, StartWrite(n)
      PROVE  Aside
  <2>1. Serving(2) /\ request[1].kind = "WRITE" /\ UNCHANGED <<answer, range, blocks, listed>>
    BY <1>7 DEF StartWrite, Given
  <2>2. Reply(Msg("none", 0)) \/ answer' = answer
    BY <2>1
  <2>. QED
    BY <2>1, <2>2, AsideStep
<1>8. CASE handle_write_file \/ handle_apt_upload
  BY <1>7, <1>8 DEF handle_write_file, handle_apt_upload
<1>9. CASE handle_apt_download
  <2>1. /\ Serving(1) /\ Reply(Msg("garbage", 0)) /\ request[1].kind = "WRITE"
        /\ UNCHANGED <<range, blocks, listed>>
    BY <1>9 DEF handle_apt_download, Asked
  <2>. QED
    BY <2>1, AsideStep
<1>10. CASE handle_70
  <2>1. Serving(1) /\ request[1].kind = "0x70" /\ UNCHANGED <<answer, range, blocks, listed>>
    BY <1>10 DEF handle_70, Serve
  <2>2. Reply(Msg("none", 0)) \/ answer' = answer
    BY <2>1
  <2>. QED
    BY <2>1, <2>2, AsideStep
<1>11. CASE FinishWrite
  <2>1. /\ writing # NoWrite /\ UNCHANGED <<request, tty, range, blocks, listed>>
        /\ answer' = answer \/ answer' = answer \o Of(<<Msg("ACK", writing.name)>>, writing.of)
    BY <1>11 DEF FinishWrite, Ack
  <2>2. writing.name # "DEF_MEM"
    <3>1. writing.name \in Files
      BY <2>1 DEF IInv, Hoped
    <3>. QED
      BY <3>1, TheFiles
  <2>3. \A m \in Replied' : m \in Replied \/ Hushed(m)
    <3>1. CASE answer' = answer
      BY <2>1, <3>1 DEF Replied
    <3>2. CASE answer' = answer \o Of(<<Msg("ACK", writing.name)>>, writing.of)
      <4>. DEFINE x == Msg("ACK", writing.name)  s == Of(<<x>>, writing.of)
      <4>1. <<x>> \in Seq(ToSet(<<x>>)) /\ ToSet(<<x>>) = {x}
        BY OneOrTwo
      <4>2. s \in Seq(ToSet(s)) /\ ToSet(s) = {[y EXCEPT !.of = writing.of] : y \in ToSet(<<x>>)}
        BY <4>1, Stamping
      <4>3. [x EXCEPT !.of = writing.of].kind = "ACK" /\ [x EXCEPT !.of = writing.of].body = writing.name
        BY Fields
      <4>4. answer \in Seq(ToSet(answer))
        BY DEF IInv, Sequenced
      <4>. HIDE DEF s
      <4>5. ToSet(answer \o s) = ToSet(answer) \cup ToSet(s)
        BY <4>2, <4>4, Joined
      <4>6. answer' = answer \o s
        BY <3>2 DEF s
      <4>7. \A m \in ToSet(s) : m.kind = "ACK" /\ m.body = writing.name
        BY <4>1, <4>2, <4>3
      <4>. QED
        BY <2>1, <2>2, <4>5, <4>6, <4>7 DEF Replied, Hushed
    <3>. QED
      BY <2>1, <3>1, <3>2
  <2>4. Moved(request', request, 0)
    BY <2>1, Moving DEF IInv, Sequenced
  <2>. QED
    BY <2>1, <2>3, <2>4 DEF Aside
<1>12. CASE handle_unknown
  <2>1. Serving(1) /\ UNCHANGED <<answer, writing, range, blocks, listed>>
    BY <1>12 DEF handle_unknown, Serve
  <2>2. Reply(Msg("none", 0)) \/ answer' = answer
    BY <2>1
  <2>. QED
    BY <2>1, <2>2, AsideStep
<1>13. CASE dump_timeout
  <2>1. /\ UNCHANGED <<answer, tty, range, blocks, listed, writing>>
        /\ (request # <<>> /\ request' = Tail(request)) \/ (request = <<>> /\ request' = request)
    BY <1>13 DEF dump_timeout
  <2>2. \E n : Moved(request', request, n)
    BY <2>1, Moving DEF IInv, Sequenced
  <2>3. \A m \in Replied' : m \in Replied
    BY <2>1 DEF Replied
  <2>. QED
    BY <2>1, <2>2, <2>3 DEF Aside
<1>. QED
  BY <1>1, <1>2, <1>3, <1>4, <1>5, <1>6, <1>8, <1>9, <1>10, <1>11, <1>12, <1>13 DEF Device

\* What the line does, and who kills and restarts: messages are moved and
\* damaged, and a device that has been started again has listed nothing.
Carried ==
    /\ UNCHANGED tty /\ (\E n : Moved(request', request, n)) /\ (\E n : Moved(answer', answer, n))
    /\ writing' \in {writing, NoWrite} /\ (listed' => listed /\ UNCHANGED <<range, blocks>>)

Delivered ==
    /\ answer # <<>> /\ answer' = Tail(answer) /\ tty' = (IF pc = "idle" THEN tty ELSE Append(tty, Head(answer)))
    /\ UNCHANGED <<request, writing, range, blocks, listed>>

Spoilt ==
    /\ "cut" \in troubles' /\ UNCHANGED <<answer, tty, writing, range, blocks, listed>>
    /\ Shifted(request', request, 0)

LEMMA LineDoes ==
    ASSUME IInv, LineFault \/ Arrive \/ Kill \/ Restart
    PROVE  Carried \/ Delivered \/ Spoilt
<1>0. request \in Seq(ToSet(request)) /\ answer \in Seq(ToSet(answer)) /\ tty \in Seq(ToSet(tty))
  BY DEF IInv, Sequenced
<1>. USE DEF device, state, disk, wire
<1>1. CASE LineFault
  <2>1. /\ UNCHANGED <<tty, writing, range, blocks, listed>>
        /\ \/ \E k : request # <<>> /\ request' = Hurt(k, request) /\ UNCHANGED answer
           \/ \E k : answer # <<>> /\ answer' = Hurt(k, answer) /\ UNCHANGED request
           \/ /\ request' = [request EXCEPT ![2] = Msg("cut", "packet")] /\ UNCHANGED answer
              /\ "cut" \in troubles'
    BY <1>1 DEF LineFault, Fault
  <2>2. CASE \E k : request # <<>> /\ request' = Hurt(k, request) /\ UNCHANGED answer
    <3>1. (\E n : Moved(request', request, n)) /\ Moved(answer', answer, 0)
      BY <1>0, <2>2, HurtMoves, Moving
    <3>. QED
      BY <2>1, <3>1 DEF Carried
  <2>3. CASE \E k : answer # <<>> /\ answer' = Hurt(k, answer) /\ UNCHANGED request
    <3>1. (\E n : Moved(answer', answer, n)) /\ Moved(request', request, 0)
      BY <1>0, <2>3, HurtMoves, Moving
    <3>. QED
      BY <2>1, <3>1 DEF Carried
  <2>4. CASE /\ request' = [request EXCEPT ![2] = Msg("cut", "packet")] /\ UNCHANGED answer
             /\ "cut" \in troubles'
    <3>1. Shifted(request', request, 0)
      BY <1>0, <2>4, CutShifts
    <3>. QED
      BY <2>1, <2>4, <3>1 DEF Spoilt
  <2>. QED
    BY <2>1, <2>2, <2>3, <2>4
<1>2. CASE Arrive
  BY <1>2 DEF Arrive, Delivered
<1>3. CASE Kill
  <2>1. /\ writing' = NoWrite /\ UNCHANGED <<request, answer, tty, range, blocks, listed>>
    BY <1>3 DEF Kill
  <2>. QED
    BY <1>0, <2>1, Moving DEF Carried
<1>4. CASE Restart
  <2>1. /\ request' = <<>> /\ UNCHANGED <<answer, tty, writing>> /\ listed' = FALSE
    BY <1>4 DEF Restart
  <2>. QED
    BY <1>0, <2>1, Moving DEF Carried
<1>. QED
  BY <1>1, <1>2, <1>3, <1>4

\* The four requests about the memory.
Listing ==
    /\ (\E n : Moved(request', request, n)) /\ request # <<>> /\ request[1].kind = "READ_FLIGHT_LIST"
    /\ UNCHANGED <<tty, writing, range>>
    /\ \A m \in Replied' : m \in Replied \/ m.kind = "null" \/ (m.kind = "flight" /\ m.body \in FlightRanges)

Placing ==
    /\ Moved(request', request, 2) /\ request # <<>> /\ request[1].kind = "DEF_MEM" /\ request[1] \in ToSet(request)
    /\ writing = NoWrite /\ UNCHANGED <<tty, writing, blocks, listed>>
    /\ \A m \in Replied' : m \in Replied \/ (m.kind = "ACK" /\ m.body = "DEF_MEM" /\ m.of = request[1].of)
    /\ \A i \in DOMAIN answer' : (i \in DOMAIN answer /\ answer'[i] = answer[i]) \/ i = Len(answer')
    /\ request[2].kind = "packet" =>
         range' = <<decoded_address(request[2].body[1]), decoded_address(request[2].body[2])>>

Dividing ==
    /\ Moved(request', request, 1) /\ request # <<>> /\ request[1].kind = "GET_MEM_SECTION"
    /\ writing = NoWrite /\ UNCHANGED <<tty, writing, range, listed>>
    /\ Len(answer') = Len(answer) + 1
    /\ blocks' = IF listed THEN mem_blocks(range[1], range[2]) ELSE <<>>
    /\ \A m \in Replied' : m \in Replied \/ (m.kind = "sections" /\ m.body = section_lengths(blocks'))

Dumping ==
    /\ Moved(request', request, 1) /\ request # <<>> /\ request[1].kind = "READ_LOGGER_DATA"
    /\ writing = NoWrite /\ UNCHANGED <<tty, writing, range, blocks, listed>>
    /\ Len(answer') = Len(answer) + 1 /\ request[1] \in ToSet(request)
    /\ \A m \in Replied' :
         \/ m \in Replied
         \/ /\ m.kind = "data"
            /\ request[1].body \in DOMAIN blocks =>
                 LET b == blocks[request[1].body] IN m.body = <<Place(b), Place(b) + b.length>>

\* The length of what has been answered.
LEMMA AnswerGrows ==
    ASSUME IInv, NEW k, NEW b, Reply(Msg(k, b))
    PROVE  /\ Len(answer') = Len(answer) + 1 /\ Len(answer) \in Nat
           /\ \A i \in DOMAIN answer' : (i \in DOMAIN answer /\ answer'[i] = answer[i]) \/ i = Len(answer')
<1>. DEFINE x == Msg(k, b)  s == Of(<<x>>, Head(request).of)
<1>1. answer' = answer \o s /\ answer \in Seq(ToSet(answer))
  BY DEF Reply, Replies, IInv, Sequenced
<1>2. s \in Seq(ToSet(s)) /\ Len(s) = 1 /\ DOMAIN s = {1}
  <2>1. <<x>> \in Seq(ToSet(<<x>>)) /\ Len(<<x>>) = 1 /\ DOMAIN <<x>> = {1}
    BY OneOrTwo
  <2>2. s \in Seq(ToSet(s)) /\ DOMAIN s = DOMAIN <<x>>
    BY <2>1, Stamping DEF Of
  <2>3. Len(s) \in Nat /\ DOMAIN s = 1..Len(s)
    BY <2>2, LenProperties
  <2>4. \A n \in Nat : 1..n = {1} => n = 1
    OBVIOUS
  <2>. QED
    BY <2>1, <2>2, <2>3, <2>4
<1>. HIDE DEF x, s
<1>3. /\ Len(answer \o s) = Len(answer) + Len(s) /\ Len(answer) \in Nat
      /\ \A i \in DOMAIN answer : i \in DOMAIN (answer \o s) /\ (answer \o s)[i] = answer[i]
      /\ \A i \in DOMAIN (answer \o s) :
           i \in DOMAIN answer \/ (i - Len(answer) \in DOMAIN s /\ (answer \o s)[i] = s[i - Len(answer)])
  BY <1>1, <1>2, Joined
<1>4. DOMAIN (answer \o s) \subseteq Int
  <2>1. answer \o s \in Seq(ToSet(answer \o s))
    BY <1>1, <1>2, Joined
  <2>. QED
    BY <2>1, LenProperties
<1>5. ASSUME NEW i \in DOMAIN answer'
      PROVE  (i \in DOMAIN answer /\ answer'[i] = answer[i]) \/ i = Len(answer')
  <2>1. CASE i \in DOMAIN answer
    BY <1>1, <1>3, <2>1
  <2>2. CASE i \notin DOMAIN answer
    <3>1. i - Len(answer) = 1 /\ i \in Int
      BY <1>1, <1>2, <1>3, <1>4, <1>5, <2>2
    <3>2. i = Len(answer) + 1
      BY <1>3, <3>1
    <3>. QED
      BY <1>1, <1>2, <1>3, <3>2
  <2>. QED
    BY <2>1, <2>2
<1>. QED
  BY <1>1, <1>2, <1>3, <1>5

LEMMA ServedMoves ==
    ASSUME IInv, NEW n \in {1, 2}, Serving(n)
    PROVE  /\ Moved(request', request, n) /\ request # <<>>
           /\ Head(request) = request[1] /\ request[1] \in ToSet(request)
           /\ writing = NoWrite /\ UNCHANGED tty
BY TakenMoves DEF Serving, IInv, Sequenced

LEMMA MemoryRequests ==
    ASSUME IInv
    PROVE  /\ handle_open_flight_list => Listing
           /\ handle_def_mem => Placing
           /\ handle_get_mem_section => Dividing
           /\ handle_get_logger_data => Dumping
<1>. USE DEF disk
<1>1. ASSUME handle_open_flight_list
      PROVE  Listing
  <2>. DEFINE f(i) == Msg("flight", <<flight_address(i), flight_end(i)>>)
              s == [i \in Flights |-> f(i)]  z == <<Msg("null", 0)>>
  <2>1. /\ Serving(1) /\ request[1].kind = "READ_FLIGHT_LIST" /\ UNCHANGED <<writing, range>>
        /\ answer' = answer \o Of(s \o z, Head(request).of)
    BY <1>1 DEF handle_open_flight_list, Serve, Replies
  <2>2. \A i \in Flights : f(i).kind = "flight" /\ f(i).body \in FlightRanges
    BY Fields DEF FlightRanges
  <2>. HIDE DEF f
  <2>3. s \in Seq(ToSet(s)) /\ \A m \in ToSet(s) : \E i \in Flights : m = f(i)
    <3>1. Flights = 1..Len(Lengths) /\ Len(Lengths) \in Nat
      BY MemoryAssumption, LenProperties DEF Flights
    <3>2. s \in [1..Len(Lengths) -> {f(i) : i \in Flights}]
      BY <3>1
    <3>3. s \in Seq({f(i) : i \in Flights})
      BY <3>1, <3>2, SeqDef
    <3>. QED
      BY <3>3, Members
  <2>4. z \in Seq(ToSet(z)) /\ ToSet(z) = {Msg("null", 0)} /\ Msg("null", 0).kind = "null"
    BY OneOrTwo, Fields
  <2>. HIDE DEF s, z
  <2>5. s \o z \in Seq(ToSet(s \o z)) /\ ToSet(s \o z) = ToSet(s) \cup ToSet(z)
    BY <2>3, <2>4, Joined
  <2>. DEFINE u == s \o z
  <2>6. \A m \in ToSet(u) : m.kind = "null" \/ (m.kind = "flight" /\ m.body \in FlightRanges)
    BY <2>2, <2>3, <2>4, <2>5
  <2>7. \A m \in ToSet(u) : m = Msg(m.kind, m.body)
    <3>1. (\A i : f(i) = Msg(f(i).kind, f(i).body)) /\ Msg("null", 0) = Msg(Msg("null", 0).kind, Msg("null", 0).body)
      BY Fields DEF f
    <3>. QED
      BY <2>3, <2>4, <2>5, <3>1
  <2>8. u \in Seq(ToSet(u)) /\ answer' = answer \o Of(u, Head(request).of)
    BY <2>1, <2>5
  <2>. HIDE DEF u
  <2>9. \A m \in Replied' : m \in Replied \/ \E x \in ToSet(u) : m = [x EXCEPT !.of = request[1].of]
    BY <2>1, <2>8, Answered, Zenon
  <2>10. ASSUME NEW m \in Replied'
         PROVE  m \in Replied \/ m.kind = "null" \/ (m.kind = "flight" /\ m.body \in FlightRanges)
    <3>1. CASE \E x \in ToSet(u) : m = [x EXCEPT !.of = request[1].of]
      <4>1. PICK x \in ToSet(u) : m = [x EXCEPT !.of = request[1].of]
        BY <3>1
      <4>2. x = Msg(x.kind, x.body)
        BY <2>7
      <4>3. m.kind = x.kind /\ m.body = x.body
        BY <4>1, <4>2, Fields
      <4>. QED
        BY <2>6, <4>3
    <3>. QED
      BY <2>9, <3>1
  <2>. QED
    BY <2>1, <2>10, ServedMoves DEF Listing
<1>2. ASSUME handle_def_mem
      PROVE  Placing
  <2>1. /\ Serving(2) /\ request[1].kind = "DEF_MEM" /\ UNCHANGED <<writing, blocks, listed>>
        /\ Reply(Msg("ACK", "DEF_MEM")) \/ answer' = answer
        /\ request[2].kind = "packet" =>
             range' = <<decoded_address(request[2].body[1]), decoded_address(request[2].body[2])>>
    BY <1>2 DEF handle_def_mem, Given, Ack, Packet
  <2>2. \A m \in Replied' : m \in Replied \/ (m.kind = "ACK" /\ m.body = "DEF_MEM" /\ m.of = request[1].of)
    BY <2>1, AnsweredOne
  <2>3. \A i \in DOMAIN answer' : (i \in DOMAIN answer /\ answer'[i] = answer[i]) \/ i = Len(answer')
    <3>1. CASE answer' = answer
      BY <3>1
    <3>2. CASE Reply(Msg("ACK", "DEF_MEM"))
      BY <3>2, AnswerGrows
    <3>. QED
      BY <2>1, <3>1, <3>2
  <2>. QED
    BY <2>1, <2>2, <2>3, ServedMoves DEF Placing
<1>3. ASSUME handle_get_mem_section
      PROVE  Dividing
  <2>1. /\ Serving(1) /\ request[1].kind = "GET_MEM_SECTION" /\ UNCHANGED <<writing, range, listed>>
        /\ Reply(Msg("sections", section_lengths(blocks')))
        /\ blocks' = IF listed THEN mem_blocks(range[1], range[2]) ELSE <<>>
    BY <1>3 DEF handle_get_mem_section, Serve
  <2>2. \A m \in Replied' : m \in Replied \/ (m.kind = "sections" /\ m.body = section_lengths(blocks'))
    BY <2>1, AnsweredOne
  <2>3. Len(answer') = Len(answer) + 1
    BY <2>1, AnswerGrows
  <2>. QED
    BY <2>1, <2>2, <2>3, ServedMoves DEF Dividing
<1>4. ASSUME handle_get_logger_data
      PROVE  Dumping
  <2>1. Serving(1) /\ request[1].kind = "READ_LOGGER_DATA" /\ UNCHANGED <<writing, range, blocks, listed>>
    BY <1>4 DEF handle_get_logger_data, Serve, state
  <2>2. Head(request) = request[1]
    BY <2>1, ServedMoves
  <2>. DEFINE i == request[1].body  d == <<Place(blocks[i]), Place(blocks[i]) + blocks[i].length>>
  <2>3. PICK b : Reply(Msg("data", b)) /\ (i \in DOMAIN blocks => b = d)
    BY <1>4, <2>2 DEF handle_get_logger_data, Place
  <2>. HIDE DEF d
  <2>4. \A m \in Replied' : m \in Replied \/ (m.kind = "data" /\ m.body = b)
    BY <2>1, <2>3, AnsweredOne
  <2>5. Len(answer') = Len(answer) + 1
    BY <2>3, AnswerGrows
  <2>6. \A m \in Replied' : m \in Replied \/ (m.kind = "data" /\ (i \in DOMAIN blocks => m.body = d))
    BY <2>3, <2>4
  <2>. QED
    BY <2>1, <2>5, <2>6, ServedMoves DEF Dumping, d
<1>. QED
  BY <1>1, <1>2, <1>3, <1>4

\* All of it.
Outside == Device \/ LineFault \/ Arrive \/ Kill \/ Restart
LEMMA OutsideDoes ==
    ASSUME IInv, Outside
    PROVE  /\ UNCHANGED <<given, command, script, pc, flights, lengths, section, got, code>>
           /\ troubles \subseteq troubles'
           /\ Aside \/ Listing \/ Placing \/ Dividing \/ Dumping \/ Carried \/ Delivered \/ Spoilt
<1>1. UNCHANGED <<command, script, pc, code, got>> /\ troubles \subseteq troubles'
  BY Unmoved DEF Outside
<1>. DEFINE Right == UNCHANGED <<given, flights, lengths, section>>
<1>2. ASSUME NEW k, Serving(k)
      PROVE  Right
  BY <1>2 DEF Serving, tool, work
<1>3. ASSUME Device
      PROVE  Right
  <2>1. handle_syn \/ handle_fixed \/ handle_clear_lo4 \/ handle_70 \/ handle_open_flight_list => \E k : Serving(k)
    BY DEF handle_syn, handle_fixed, handle_clear_lo4, handle_70, handle_open_flight_list, Serve
  <2>2. handle_get_mem_section \/ handle_get_logger_data \/ handle_unknown \/ handle_def_mem => \E k : Serving(k)
    BY DEF handle_get_mem_section, handle_get_logger_data, handle_unknown, handle_def_mem, Serve, Given
  <2>3. handle_read_register \/ handle_write_register \/ upload_from_file \/ handle_apt_download => \E k : Serving(k)
    BY DEF handle_read_register, handle_write_register, upload_from_file, handle_apt_download, Asked, Given
  <2>4. handle_write_file \/ handle_apt_upload => \E k : Serving(k)
    BY DEF handle_write_file, handle_apt_upload, StartWrite, Given
  <2>5. FinishWrite \/ dump_timeout => Right
    BY DEF FinishWrite, dump_timeout, tool, work
  <2>. HIDE DEF Right
  <2>. QED
    BY <1>2, <1>3, <2>1, <2>2, <2>3, <2>4, <2>5 DEF Device
<1>4. LineFault \/ Arrive \/ Kill \/ Restart => Right
  BY DEF LineFault, Arrive, Kill, Restart, tool, work
<1>5. Aside \/ Listing \/ Placing \/ Dividing \/ Dumping \/ Carried \/ Delivered \/ Spoilt
  BY DeviceDoes, LineDoes, MemoryRequests DEF Outside
<1>6. Right
  <2>. HIDE DEF Right
  <2>. QED
    BY <1>3, <1>4 DEF Outside
<1>. QED
  BY <1>1, <1>5, <1>6

LEMMA OutsideWires ==
    ASSUME IInv, Outside
    PROVE  /\ \A m \in ToSet(request') : m \in ToSet(request) \/ m.kind \in {"damaged", "cut"}
           /\ \A m \in Replied' :
                \/ m \in Replied \/ Hushed(m) \/ (m.kind = "flight" /\ m.body \in FlightRanges)
                \/ m.kind = "ACK" /\ \E w \in ToSet(request) : w.kind = "DEF_MEM" /\ w.of = m.of
                \/ m.kind \in {"sections", "data"}
<1>0. request \in Seq(ToSet(request)) /\ answer \in Seq(ToSet(answer)) /\ tty \in Seq(ToSet(tty))
  BY DEF IInv, Sequenced
<1>1. ASSUME NEW n, Moved(request', request, n)
      PROVE  \A m \in ToSet(request') : m \in ToSet(request) \/ m.kind \in {"damaged", "cut"}
  BY <1>1 DEF Moved, ToSet
<1>2. ASSUME NEW n, Moved(answer', answer, n)
      PROVE  \A m \in ToSet(answer') : m \in ToSet(answer) \/ Hushed(m)
  BY <1>2 DEF Moved, ToSet, Hushed
<1>3. CASE Aside
  BY <1>1, <1>3 DEF Aside
<1>4. CASE Listing
  BY <1>1, <1>4 DEF Listing, Hushed
<1>5. CASE Placing
  BY <1>1, <1>5 DEF Placing
<1>6. CASE Dividing
  BY <1>1, <1>6 DEF Dividing
<1>7. CASE Dumping
  BY <1>1, <1>7 DEF Dumping
<1>8. CASE Carried
  BY <1>1, <1>2, <1>8 DEF Carried, Replied
<1>9. CASE Delivered
  <2>1. ToSet(answer') \subseteq ToSet(answer) /\ Head(answer) \in ToSet(answer)
    BY <1>0, <1>9, Others DEF Delivered
  <2>2. ToSet(tty') \subseteq ToSet(tty) \cup {Head(answer)}
    BY <1>0, <1>9, OneMore DEF Delivered
  <2>. QED
    BY <1>9, <2>1, <2>2 DEF Delivered, Replied
<1>10. CASE Spoilt
  BY <1>10 DEF Spoilt, Shifted, ToSet, Replied
<1>. QED
  BY <1>3, <1>4, <1>5, <1>6, <1>7, <1>8, <1>9, <1>10, OutsideDoes

LEMMA UnsetOutside ==
    ASSUME IInv, Outside, Unset
    PROVE  Unset'
<1>1. given' = given
  BY OutsideDoes
<1>2. \A m \in ToSet(request') : ~Sets(m)
  BY OutsideWires DEF Unset, Sets
<1>3. \A m \in Replied' : ~Acks(m)
  BY OutsideWires DEF Unset, Acks, Sets, Hushed
<1>. QED
  BY <1>1, <1>2, <1>3 DEF Unset, Sets, Acks

LEMMA FlownOutside ==
    ASSUME IInv, Outside, Flown
    PROVE  Flown'
<1>1. UNCHANGED <<given, command, pc, flights>>
  BY OutsideDoes
<1>2. \A m \in Replied' : m.kind = "flight" => m.body \in FlightRanges
  BY OutsideWires DEF Flown, Hushed
<1>. QED
  BY <1>1, <1>2 DEF Flown

\* Nothing comes of nothing.
LEMMA NoneMoves ==
    ASSUME NEW r, NEW n, Moved(r, <<>>, n) \/ Shifted(r, <<>>, n)
    PROVE  r = <<>>
<1>1. n \in 0..Len(<<>>) /\ r \in Seq(ToSet(r)) /\ Len(r) = Len(<<>>) - n
  BY DEF Moved, Shifted
<1>2. Len(<<>>) = 0
  BY OneOrTwo
<1>3. Len(r) = 0
  BY <1>1, <1>2
<1>. QED
  BY <1>1, <1>3, NoneMore

LEMMA EmptyOutside ==
    ASSUME IInv, Outside, Sound', Empty
    PROVE  Empty' /\ (listed' => listed /\ UNCHANGED <<range, blocks>>)
<1>1. request = <<>> /\ answer = <<>> /\ tty = <<>> /\ writing = NoWrite
  BY DEF Empty
<1>2. ~(Listing \/ Placing \/ Dividing \/ Dumping \/ Delivered)
  BY <1>1 DEF Listing, Placing, Dividing, Dumping, Delivered
<1>3. ~Spoilt
  BY DEF Spoilt, Sound
<1>4. CASE Aside
  BY <1>1, <1>4 DEF Aside, Empty
<1>5. CASE Carried
  <2>1. request' = <<>> /\ answer' = <<>>
    BY <1>1, <1>5, NoneMoves DEF Carried
  <2>. QED
    BY <1>1, <1>5, <2>1 DEF Carried, Empty
<1>. QED
  BY <1>2, <1>3, <1>4, <1>5, OutsideDoes

\* A range as a packet carries it, and as the device has it then.
LEMMA KnownRange ==
    ASSUME NEW r \in Known
    PROVE  <<decoded_address(Bytes(r)[1]), decoded_address(Bytes(r)[2])>> = r
<1>1. r = <<r[1], r[2]>>
  <2>1. CASE r \in Ranges
    <3>1. r \in Nat \X Nat
      BY <2>1, ToolAssumption
    <3>. QED
      BY <3>1
  <2>2. CASE r \in FlightRanges
    BY <2>2 DEF FlightRanges
  <2>. QED
    BY <2>1, <2>2 DEF Known
<1>2. decoded_address(def_mem_packet(r[1])) = r[1] /\ decoded_address(def_mem_packet(r[2])) = r[2]
  BY RangesAssumption DEF Known
<1>3. Bytes(r)[1] = def_mem_packet(r[1]) /\ Bytes(r)[2] = def_mem_packet(r[2])
  BY DEF Bytes
<1>. QED
  BY <1>1, <1>2, <1>3

\* Where the DEF_MEM is when the messages move on.
InTheEnd(r) == \A i \in DOMAIN request : Sets(request[i]) =>
              i + 1 = Len(request) /\ request[i + 1].kind = "packet" /\ request[i + 1].body = Bytes(r)

LEMMA SetsMove ==
    ASSUME IInv, NEW n, Moved(request', request, n), given' = given, NEW r, InTheEnd(r)
    PROVE  /\ \A i \in DOMAIN request' : Sets(request'[i]) =>
                i + 1 = Len(request') /\ request'[i + 1].kind = "packet" /\ request'[i + 1].body = Bytes(r)
           /\ \A i \in DOMAIN request' : Sets(request'[i]) => \E j \in DOMAIN request : j > n /\ Sets(request[j])
<1>1. /\ n \in 0..Len(request) /\ Len(request') = Len(request) - n
      /\ \A i \in DOMAIN request' : n + i \in DOMAIN request /\
           (request'[i] = request[n + i] \/ (i = 1 /\ request'[i].kind = "damaged"))
      /\ Len(request) \in Nat /\ Len(request') \in Nat /\ DOMAIN request' = 1..Len(request')
  BY LenProperties DEF Moved, IInv, Sequenced
<1>2. ASSUME NEW i \in DOMAIN request', Sets(request'[i])
      PROVE  /\ i + 1 = Len(request') /\ request'[i + 1].kind = "packet" /\ request'[i + 1].body = Bytes(r)
             /\ \E j \in DOMAIN request : j > n /\ Sets(request[j])
  <2>1. n + i \in DOMAIN request /\ request'[i] = request[n + i] /\ i \in Nat \ {0} /\ n \in Nat
    BY <1>1, <1>2 DEF Sets
  <2>2. n + i > n /\ Sets(request[n + i])
    BY <1>2, <2>1
  <2>3. (n + i) + 1 = Len(request) /\ request[(n + i) + 1].kind = "packet" /\ request[(n + i) + 1].body = Bytes(r)
    BY <2>1, <2>2 DEF InTheEnd
  <2>4. i + 1 = Len(request') /\ i + 1 \in DOMAIN request' /\ i + 1 # 1 /\ n + (i + 1) = (n + i) + 1
    BY <1>1, <2>1, <2>3
  <2>5. request'[i + 1] = request[(n + i) + 1]
    BY <1>1, <2>4
  <2>. QED
    BY <2>1, <2>2, <2>3, <2>4, <2>5
<1>. QED
  BY <1>2

\* Once there is the ACK nothing else happens to the range.
LEMMA AckedOutside ==
    ASSUME IInv, Outside, Sound', pc = "wait", NEW r, Setting(r), \E m \in Replied : Acks(m)
    PROVE  /\ request' = <<>> /\ writing' = NoWrite /\ (listed' => range' = r)
           /\ \A i \in DOMAIN answer' : Acks(answer'[i]) => i = Len(answer')
           /\ \A i \in DOMAIN tty' : Acks(tty'[i]) => i = Len(tty') /\ answer' = <<>>
<1>0. answer \in Seq(ToSet(answer)) /\ tty \in Seq(ToSet(tty))
  BY DEF IInv, Sequenced
<1>1. /\ Served(r)
      /\ \A i \in DOMAIN answer : Acks(answer[i]) => i = Len(answer)
      /\ \A i \in DOMAIN tty : Acks(tty[i]) => i = Len(tty) /\ answer = <<>>
  BY DEF Setting, Replied, ToSet
<1>2. request = <<>> /\ writing = NoWrite /\ (listed => range = r)
  BY <1>1 DEF Served, Ranged
<1>3. ~(Listing \/ Placing \/ Dividing \/ Dumping)
  BY <1>2 DEF Listing, Placing, Dividing, Dumping
<1>4. ~Spoilt
  BY DEF Spoilt, Sound
<1>5. CASE Aside
  BY <1>1, <1>2, <1>5 DEF Aside
<1>6. CASE Carried
  <2>1. request' = <<>> /\ writing' = NoWrite /\ (listed' => range' = r) /\ tty' = tty
    BY <1>2, <1>6, NoneMoves DEF Carried
  <2>2. PICK n : Moved(answer', answer, n)
    BY <1>6 DEF Carried
  <2>3. /\ n \in 0..Len(answer) /\ Len(answer') = Len(answer) - n
        /\ \A i \in DOMAIN answer' : n + i \in DOMAIN answer /\ (answer'[i] = answer[n + i] \/ answer'[i].kind = "damaged")
        /\ Len(answer) \in Nat /\ DOMAIN answer' = 1..Len(answer')
    BY <1>0, <2>2, LenProperties DEF Moved
  <2>4. ASSUME NEW i \in DOMAIN answer', Acks(answer'[i])
        PROVE  i = Len(answer')
    <3>1. n + i \in DOMAIN answer /\ Acks(answer[n + i])
      BY <2>3, <2>4 DEF Acks
    <3>2. n + i = Len(answer)
      BY <1>1, <3>1
    <3>. QED
      BY <2>3, <2>4, <3>2
  <2>5. answer = <<>> => answer' = <<>>
    BY <2>2, NoneMoves
  <2>. QED
    BY <1>1, <2>1, <2>4, <2>5
<1>7. CASE Delivered
  <2>1. /\ answer # <<>> /\ answer' = Tail(answer) /\ tty' = Append(tty, Head(answer))
        /\ request' = <<>> /\ writing' = NoWrite /\ (listed' => range' = r)
    BY <1>2, <1>7 DEF Delivered
  <2>2. /\ Head(answer) = answer[1] /\ 1 \in DOMAIN answer /\ Len(answer') = Len(answer) - 1
        /\ Len(answer) \in Nat /\ answer' \in Seq(ToSet(answer'))
        /\ \A i \in DOMAIN answer' : i + 1 \in DOMAIN answer /\ answer'[i] = answer[i + 1]
    BY <1>0, <2>1, Others
  <2>3. \A i \in DOMAIN answer' : i \in Int
    BY <2>2, LenProperties
  <2>4. ASSUME NEW i \in DOMAIN answer', Acks(answer'[i])
        PROVE  i = Len(answer')
    <3>1. i + 1 = Len(answer)
      BY <1>1, <2>2, <2>4
    <3>. QED
      BY <2>2, <2>3, <2>4, <3>1
  <2>5. ASSUME NEW i \in DOMAIN tty', Acks(tty'[i])
        PROVE  i = Len(tty') /\ answer' = <<>>
    <3>1. /\ Len(tty') = Len(tty) + 1 /\ Len(tty) \in Nat /\ DOMAIN tty = 1..Len(tty)
          /\ \A j \in 1..Len(tty) : tty'[j] = tty[j]
          /\ tty'[Len(tty) + 1] = answer[1] /\ DOMAIN tty' = 1..Len(tty')
      <4>. DEFINE S == ToSet(tty) \cup {answer[1]}
      <4>1. tty \in Seq(S) /\ answer[1] \in S
        BY <1>0, SeqMonotonic
      <4>. HIDE DEF S
      <4>2. tty' = Append(tty, answer[1])
        BY <2>1, <2>2
      <4>3. /\ tty' \in Seq(S) /\ Len(tty') = Len(tty) + 1
            /\ (\A j \in 1..Len(tty) : tty'[j] = tty[j]) /\ tty'[Len(tty) + 1] = answer[1]
        BY <4>1, <4>2, AppendProperties
      <4>. QED
        BY <1>0, <4>3, LenProperties
    <3>2. CASE i \in DOMAIN tty
      <4>1. answer = <<>>
        BY <1>1, <2>5, <3>1, <3>2
      <4>. QED
        BY <2>1, <4>1
    <3>3. CASE i \notin DOMAIN tty
      <4>1. i = Len(tty) + 1
        BY <2>5, <3>1, <3>3
      <4>2. 1 = Len(answer)
        BY <1>1, <2>2, <2>5, <3>1, <4>1
      <4>3. Len(answer') = 0
        BY <2>2, <4>2
      <4>4. answer' = <<>>
        BY <2>2, <4>3, NoneMore
      <4>. QED
        BY <3>1, <4>1, <4>4
    <3>. QED
      BY <3>2, <3>3
  <2>. QED
    BY <2>1, <2>4, <2>5
<1>. QED
  BY <1>3, <1>4, <1>5, <1>6, <1>7, OutsideDoes

\* The DEF_MEM is on its way until it is the last, and is answered then.
LEMMA SettingOutside ==
    ASSUME IInv, Outside, Sound', pc = "wait", NEW r \in Known, Setting(r)
    PROVE  Setting(r)'
<1>1. given' = given
  BY OutsideDoes
<1>2. /\ InTheEnd(r)
      /\ (\E i \in DOMAIN request : Sets(request[i])) => \A m \in Replied : ~Acks(m)
  BY DEF Setting, InTheEnd
<1>3. CASE \E m \in Replied : Acks(m)
  <2>1. /\ request' = <<>> /\ writing' = NoWrite /\ (listed' => range' = r)
        /\ \A i \in DOMAIN answer' : Acks(answer'[i]) => i = Len(answer')
        /\ \A i \in DOMAIN tty' : Acks(tty'[i]) => i = Len(tty') /\ answer' = <<>>
    BY <1>3, AckedOutside
  <2>2. DOMAIN request' = {}
    BY <2>1
  <2>. QED
    BY <1>1, <2>1, <2>2 DEF Setting, Sets, Acks, Served, Ranged
<1>4. CASE ~(\E m \in Replied : Acks(m))
  <2>0. request \in Seq(ToSet(request)) /\ answer \in Seq(ToSet(answer)) /\ tty \in Seq(ToSet(tty))
    BY DEF IInv, Sequenced
  <2>1. ~Spoilt
    BY DEF Spoilt, Sound
  <2>2. CASE Placing /\ Sets(request[1])
    <3>1. 1 \in DOMAIN request
      BY <2>0, <2>2, Others DEF Placing
    <3>2. 2 = Len(request) /\ request[2].kind = "packet" /\ request[2].body = Bytes(r)
      <4>1. /\ 1 + 1 = Len(request) /\ request[1 + 1].kind = "packet" /\ request[1 + 1].body = Bytes(r)
        BY <1>2, <2>2, <3>1 DEF InTheEnd
      <4>2. 1 + 1 = 2
        OBVIOUS
      <4>. QED
        BY <4>1, <4>2
    <3>3. request' = <<>>
      <4>1. Len(request') = 0 /\ request' \in Seq(ToSet(request'))
        <5>1. request' \in Seq(ToSet(request')) /\ Len(request') = Len(request) - 2
          BY <2>2 DEF Placing, Moved
        <5>. QED
          BY <3>2, <5>1
      <4>. QED
        BY <4>1, NoneMore
    <3>4. range' = r
      <4>1. range' = <<decoded_address(Bytes(r)[1]), decoded_address(Bytes(r)[2])>>
        BY <2>2, <3>2 DEF Placing
      <4>. QED
        BY <4>1, KnownRange
    <3>5. writing' = NoWrite /\ tty' = tty
      BY <2>2 DEF Placing
    <3>6. \A i \in DOMAIN answer' : Acks(answer'[i]) => i = Len(answer')
      BY <1>4, <2>2 DEF Placing, Replied, ToSet
    <3>7. \A i \in DOMAIN tty' : ~Acks(tty'[i])
      BY <1>4, <3>5 DEF Replied, ToSet
    <3>8. DOMAIN request' = {}
      BY <3>3
    <3>. QED
      BY <1>1, <3>3, <3>4, <3>5, <3>6, <3>7, <3>8 DEF Setting, Sets, Acks, Served, Ranged
  <2>3. CASE ~(Placing /\ Sets(request[1]))
    <3>1. \A m \in Replied' : ~Acks(m)
      <4>1. CASE Aside
        BY <1>4, <4>1 DEF Aside, Hushed, Acks
      <4>2. CASE Listing
        BY <1>4, <4>2 DEF Listing, Acks
      <4>3. CASE Placing
        BY <1>4, <2>3, <4>3 DEF Placing, Acks, Sets
      <4>4. CASE Dividing \/ Dumping
        BY <1>4, <4>4 DEF Dividing, Dumping, Acks
      <4>5. CASE Carried
        <5>1. PICK n : Moved(answer', answer, n)
          BY <4>5 DEF Carried
        <5>2. \A m \in ToSet(answer') : m \in ToSet(answer) \/ m.kind = "damaged"
          BY <5>1 DEF Moved, ToSet
        <5>. QED
          BY <1>4, <4>5, <5>2 DEF Carried, Replied, Acks
      <4>6. CASE Delivered
        <5>1. ToSet(answer') \subseteq ToSet(answer) /\ Head(answer) \in ToSet(answer)
          BY <2>0, <4>6, Others DEF Delivered
        <5>2. ToSet(tty') \subseteq ToSet(tty) \cup {Head(answer)}
          BY <2>0, <4>6, OneMore DEF Delivered
        <5>. QED
          BY <1>4, <5>1, <5>2 DEF Replied
      <4>. QED
        BY <2>1, <4>1, <4>2, <4>3, <4>4, <4>5, <4>6, OutsideDoes
    <3>2. \E n : Moved(request', request, n)
      <4>1. Delivered => Moved(request', request, 0)
        BY <2>0, Moving DEF Delivered
      <4>2. Aside \/ Listing \/ Placing \/ Dividing \/ Dumping \/ Carried => \E n : Moved(request', request, n)
        BY DEF Aside, Listing, Placing, Dividing, Dumping, Carried
      <4>. QED
        BY <2>1, <4>1, <4>2, OutsideDoes
    <3>3. \A i \in DOMAIN request' : Sets(request'[i]) =>
                i + 1 = Len(request') /\ request'[i + 1].kind = "packet" /\ request'[i + 1].body = Bytes(r)
      BY <1>1, <1>2, <3>2, SetsMove
    <3>4. (\A i \in DOMAIN answer' : ~Acks(answer'[i])) /\ (\A i \in DOMAIN tty' : ~Acks(tty'[i]))
      BY <3>1 DEF Replied, ToSet
    <3>. QED
      BY <1>1, <3>1, <3>3, <3>4 DEF Setting, Sets, Acks
  <2>. QED
    BY <2>2, <2>3
<1>. QED
  BY <1>3, <1>4

\* With one message on the way there is never more than one.
LEMMA SingleOutside ==
    ASSUME IInv, Outside, Sound', Single,
           \A m \in ToSet(request) : m.kind \in {"damaged", "GET_MEM_SECTION", "READ_LOGGER_DATA"}
    PROVE  /\ Single' /\ \A m \in ToSet(request') : m \in ToSet(request) \/ m.kind = "damaged"
           /\ \/ /\ \A m \in Replied' : m \in Replied \/ m.kind = "damaged"
                 /\ listed' => listed /\ UNCHANGED <<range, blocks>>
              \/ Dividing \/ Dumping
<1>0. /\ request \in Seq(ToSet(request)) /\ answer \in Seq(ToSet(answer)) /\ tty \in Seq(ToSet(tty))
      /\ Len(request) \in Nat /\ Len(answer) \in Nat /\ Len(tty) \in Nat
  BY LenProperties DEF IInv, Sequenced
<1>1. Len(request) + Len(answer) + Len(tty) <= 1 /\ writing = NoWrite
  BY DEF Single
<1>2. request # <<>> => request[1] \in ToSet(request)
  BY <1>0, Others
<1>3. request # <<>> => request[1].kind \in {"damaged", "GET_MEM_SECTION", "READ_LOGGER_DATA"}
  BY <1>2
<1>4. ~Listing /\ ~Placing
  BY <1>3 DEF Listing, Placing
<1>5. ~Spoilt
  BY DEF Spoilt, Sound
<1>6. ASSUME NEW s, s \in Seq(ToSet(s)), NEW r, NEW n, Moved(r, s, n)
      PROVE  /\ Len(r) = Len(s) - n /\ n \in 0..Len(s) /\ Len(s) \in Nat /\ Len(r) <= Len(s) /\ Len(r) \in Nat
             /\ \A m \in ToSet(r) : m \in ToSet(s) \/ m.kind = "damaged"
  <2>1. Len(r) = Len(s) - n /\ n \in 0..Len(s) /\ Len(s) \in Nat
    BY <1>6, LenProperties DEF Moved
  <2>2. \A m \in ToSet(r) : m \in ToSet(s) \/ m.kind = "damaged"
    BY <1>6 DEF Moved, ToSet
  <2>. QED
    BY <2>1, <2>2
<1>7. CASE Aside
  <2>1. UNCHANGED <<answer, writing, tty, range, blocks, listed>>
    BY <1>1, <1>3, <1>7 DEF Aside
  <2>2. /\ Len(request') <= Len(request) /\ Len(request') \in Nat
        /\ \A m \in ToSet(request') : m \in ToSet(request) \/ m.kind = "damaged"
    BY <1>0, <1>6, <1>7 DEF Aside
  <2>3. Len(request') + Len(answer) + Len(tty) <= 1
    BY <1>0, <1>1, <2>2
  <2>. QED
    BY <1>1, <2>1, <2>2, <2>3 DEF Single, Replied
<1>8. CASE Dividing \/ Dumping
  <2>1. Moved(request', request, 1) /\ Len(answer') = Len(answer) + 1 /\ writing' = writing /\ tty' = tty
    BY <1>8 DEF Dividing, Dumping
  <2>2. Len(request') = Len(request) - 1 /\ \A m \in ToSet(request') : m \in ToSet(request) \/ m.kind = "damaged"
    BY <1>0, <1>6, <2>1
  <2>3. Len(request') + Len(answer') + Len(tty) <= 1
    BY <1>0, <1>1, <2>1, <2>2
  <2>. QED
    BY <1>1, <1>8, <2>1, <2>2, <2>3 DEF Single
<1>9. CASE Carried
  <2>1. /\ Len(request') <= Len(request) /\ Len(request') \in Nat /\ Len(answer') <= Len(answer) /\ Len(answer') \in Nat
        /\ \A m \in ToSet(request') : m \in ToSet(request) \/ m.kind = "damaged"
        /\ \A m \in ToSet(answer') : m \in ToSet(answer) \/ m.kind = "damaged"
    BY <1>0, <1>6, <1>9 DEF Carried
  <2>2. tty' = tty /\ writing' = NoWrite /\ (listed' => listed /\ UNCHANGED <<range, blocks>>)
    BY <1>1, <1>9 DEF Carried
  <2>3. Len(request') + Len(answer') + Len(tty) <= 1
    BY <1>0, <1>1, <2>1
  <2>. QED
    BY <2>1, <2>2, <2>3 DEF Single, Replied
<1>10. CASE Delivered
  <2>1. /\ answer # <<>> /\ answer' = Tail(answer) /\ (tty' = tty \/ tty' = Append(tty, Head(answer)))
        /\ UNCHANGED <<request, writing, range, blocks, listed>>
    BY <1>10 DEF Delivered
  <2>2. Len(answer') = Len(answer) - 1 /\ ToSet(answer') \subseteq ToSet(answer) /\ Head(answer) \in ToSet(answer)
    BY <1>0, <2>1, Others
  <2>3. ToSet(tty') \subseteq ToSet(tty) \cup {Head(answer)}
    BY <1>0, <2>1, OneMore
  <2>4. Len(tty') = Len(tty) \/ Len(tty') = Len(tty) + 1
    <3>1. CASE tty' = Append(tty, Head(answer))
      <4>1. \A S : \A s \in Seq(S) : \A x \in S : Len(Append(s, x)) = Len(s) + 1
        BY AppendProperties
      <4>2. tty \in Seq(ToSet(tty) \cup {Head(answer)})
        BY <1>0, SeqMonotonic
      <4>. QED
        BY <3>1, <4>1, <4>2
    <3>. QED
      BY <2>1, <3>1
  <2>5. Len(request') + Len(answer') + Len(tty') <= 1
    BY <1>0, <1>1, <2>1, <2>2, <2>4
  <2>6. \A m \in Replied' : m \in Replied
    BY <2>2, <2>3 DEF Replied
  <2>. QED
    BY <1>1, <2>1, <2>5, <2>6 DEF Single
<1>. QED
  BY <1>4, <1>5, <1>7, <1>8, <1>9, <1>10, OutsideDoes

LEMMA AwaitingOutside ==
    ASSUME IInv, Outside, Sound', Single, NEW r, Awaiting(r)
    PROVE  Single' /\ Awaiting(r)'
<1>1. \A m \in ToSet(request) : m.kind \in {"GET_MEM_SECTION", "damaged"}
  BY DEF Awaiting
<1>2. /\ Single' /\ \A m \in ToSet(request') : m \in ToSet(request) \/ m.kind = "damaged"
      /\ \/ /\ \A m \in Replied' : m \in Replied \/ m.kind = "damaged"
            /\ listed' => listed /\ UNCHANGED <<range, blocks>>
         \/ Dividing \/ Dumping
  BY <1>1, SingleOutside
<1>3. ~Dumping
  BY <1>1 DEF Dumping
<1>4. CASE /\ \A m \in Replied' : m \in Replied \/ m.kind = "damaged"
           /\ listed' => listed /\ UNCHANGED <<range, blocks>>
  BY <1>1, <1>2, <1>4 DEF Awaiting, Ranged, Cut
<1>5. CASE Dividing
  <2>1. range' = range /\ listed' = listed /\ (listed => range = r)
    BY <1>5 DEF Dividing, Awaiting, Ranged
  <2>2. listed => blocks' = Blocks(r)
    BY <1>5, <2>1 DEF Dividing, Blocks
  <2>3. \A m \in Replied' : m.kind = "sections" /\ listed => m.body = section_lengths(Blocks(r))
    BY <1>5, <2>2 DEF Dividing, Awaiting
  <2>. QED
    BY <1>1, <1>2, <2>1, <2>2, <2>3 DEF Awaiting, Ranged, Cut
<1>. QED
  BY <1>2, <1>3, <1>4, <1>5

LEMMA ComingOutside ==
    ASSUME IInv, Outside, Sound', Single, NEW r, Coming(r), Len(Blocks(r)) \in Int,
           \A i \in 1..Len(Blocks(r)) : i \in DOMAIN Blocks(r)
    PROVE  Single' /\ Coming(r)'
<1>0. UNCHANGED <<lengths, section, got>>
  BY OutsideDoes
<1>1. /\ \A m \in ToSet(request) : m.kind = "damaged" \/ (m.kind = "READ_LOGGER_DATA" /\ m.body = section)
      /\ Taking(r) /\ (listed => section <= Len(Blocks(r)))
      /\ \A m \in Replied : m.kind = "data" /\ listed => m.body = Part(r, section)
  BY DEF Coming
<1>2. /\ Single' /\ \A m \in ToSet(request') : m \in ToSet(request) \/ m.kind = "damaged"
      /\ \/ /\ \A m \in Replied' : m \in Replied \/ m.kind = "damaged"
            /\ listed' => listed /\ UNCHANGED <<range, blocks>>
         \/ Dividing \/ Dumping
  BY <1>1, SingleOutside
<1>3. ~Dividing
  <2>1. Dividing => request # <<>>
    BY DEF Dividing
  <2>2. request # <<>> => request[1] \in ToSet(request)
    BY Others DEF IInv, Sequenced
  <2>. QED
    BY <1>1, <2>1, <2>2 DEF Dividing
<1>4. ASSUME listed' => listed /\ UNCHANGED <<range, blocks>>,
             \A m \in Replied' : m.kind = "data" /\ listed' => m.body = Part(r, section)
      PROVE  Coming(r)'
  <2>1. Taking(r)'
    BY <1>0, <1>1, <1>4 DEF Taking, Measured, Cut, Saved
  <2>. QED
    BY <1>0, <1>1, <1>2, <1>4, <2>1 DEF Coming
<1>5. CASE /\ \A m \in Replied' : m \in Replied \/ m.kind = "damaged"
           /\ listed' => listed /\ UNCHANGED <<range, blocks>>
  BY <1>1, <1>2, <1>4, <1>5
<1>6. CASE Dumping
  <2>1. UNCHANGED <<range, blocks, listed>> /\ request[1] \in ToSet(request) /\ request[1].kind = "READ_LOGGER_DATA"
    BY <1>6 DEF Dumping
  <2>2. request[1].body = section
    BY <1>1, <2>1
  <2>3. ASSUME listed
        PROVE  /\ section \in DOMAIN blocks
               /\ <<Place(blocks[section]), Place(blocks[section]) + blocks[section].length>> = Part(r, section)
    <3>1. blocks = Blocks(r) /\ section \in Nat \ {0} /\ section <= Len(Blocks(r))
      BY <1>1, <2>3 DEF Taking, Measured, Cut
    <3>2. section \in DOMAIN blocks
      <4>1. Len(Blocks(r)) \in Int => section \in 1..Len(Blocks(r))
        BY <3>1
      <4>. QED
        BY <3>1, <4>1
    <3>. QED
      BY <3>1, <3>2 DEF Part
  <2>4. \A m \in Replied' : m \in Replied \/ (m.kind = "data" /\ (listed => m.body = Part(r, section)))
    BY <1>6, <2>2, <2>3 DEF Dumping
  <2>5. \A m \in Replied' : m.kind = "data" /\ listed' => m.body = Part(r, section)
    BY <1>1, <2>1, <2>4
  <2>. QED
    BY <1>2, <1>4, <2>1, <2>5
<1>. QED
  BY <1>2, <1>3, <1>5, <1>6

-----------------------------------------------------------------------------
(* The memory of the device.                                               *)
LEMMA BytesAreNumbers ==
    /\ Base \in Nat /\ Base > 1 /\ Worth[1] = 1 /\ Worth[2] = Base /\ Worth[3] = Base * Base
    /\ Worth[3] \in Nat /\ Worth[3] > 0
<1>1. Base \in Nat /\ Base > 1
  BY MemoryAssumption
<1>2. Worth[1] = 1 /\ Worth[2] = Base /\ Worth[3] = Base * Base
  BY DEF Worth
<1>3. Base * Base \in Nat /\ Base * Base > 0
  BY <1>1
<1>. QED
  BY <1>1, <1>2, <1>3

LEMMA TheMemory ==
    /\ Lengths \in Seq(Nat \ {0}) /\ Len(Lengths) \in Nat /\ Flights = 1..Len(Lengths)
    /\ \A i \in Flights : flight_address(i) = Total(Lengths, i - 1) /\ flight_end(i) = Total(Lengths, i - 1) + Lengths[i]
    /\ \A i \in Flights : flight_address(i) \in Nat /\ flight_end(i) \in Nat /\ flight_address(i) < flight_end(i)
    /\ MemorySize = Total(Lengths, Len(Lengths)) /\ MemorySize \in Nat
    /\ \A f, l : mem_blocks(f, l) = PartsOf(Lengths, MaxBlocks, f, l)
    /\ MaxBlocks \in Nat \ {0}
<1>1. Lengths \in Seq(Nat \ {0}) /\ MaxBlocks \in Nat \ {0}
  BY MemoryAssumption
<1>2. /\ \A i \in 0..Len(Lengths) : Total(Lengths, i) \in Nat
      /\ \A i \in 1..Len(Lengths) : Lengths[i] \in Nat \ {0} /\ Total(Lengths, i) = Total(Lengths, i - 1) + Lengths[i]
      /\ Len(Lengths) \in Nat
  BY <1>1, TotalsRise
<1>3. Flights = 1..Len(Lengths)
  BY <1>1, LenProperties DEF Flights
<1>4. \A i : flight_address(i) = Total(Lengths, i - 1) /\ flight_end(i) = Total(Lengths, i - 1) + Lengths[i]
  BY DEF flight_address, flight_end, Total
<1>5. \A i \in Flights : flight_address(i) \in Nat /\ flight_end(i) \in Nat /\ flight_address(i) < flight_end(i)
  <2>. SUFFICES ASSUME NEW i \in Flights
                PROVE  Total(Lengths, i - 1) \in Nat /\ Lengths[i] \in Nat \ {0}
    BY <1>4
  <2>1. i - 1 \in 0..Len(Lengths) /\ i \in 1..Len(Lengths)
    BY <1>2, <1>3
  <2>. QED
    BY <1>2, <2>1
<1>6. MemorySize = Total(Lengths, Len(Lengths)) /\ MemorySize \in Nat
  <2>1. Len(Lengths) + 1 - 1 = Len(Lengths) /\ Len(Lengths) \in 0..Len(Lengths)
    BY <1>2
  <2>2. MemorySize = Total(Lengths, Len(Lengths) + 1 - 1)
    BY <1>4 DEF MemorySize
  <2>. QED
    BY <1>2, <2>1, <2>2
<1>7. \A f, l : mem_blocks(f, l) = PartsOf(Lengths, MaxBlocks, f, l)
  <2>. SUFFICES ASSUME NEW f, NEW l
                PROVE  mem_blocks(f, l) = PartsOf(Lengths, MaxBlocks, f, l)
    OBVIOUS
  <2>1. Touched(f, l) = Reached(Lengths, f, l)
    BY <1>3, <1>4 DEF Touched, Reached
  <2>. QED
    BY <1>4, <2>1 DEF mem_blocks, PartsOf
<1>. QED
  BY <1>1, <1>2, <1>3, <1>4, <1>5, <1>6, <1>7

\* What the sections of a range are.
Sections(b, f, l, n, c) ==
             /\ DOMAIN b = 1..n /\ Len(b) = n /\ (n = 0 <=> b = <<>>)
             /\ \A i \in 1..n : b[i] \in [flight : Flights, offset : Nat, length : Nat \ {0}]
             /\ \A i \in 1..n : b[i].offset + b[i].length <= Lengths[b[i].flight]
             /\ \A i \in 1..n : /\ flight_address(b[i].flight) + b[i].offset = c[i - 1]
                                /\ flight_address(b[i].flight) + b[i].offset + b[i].length = c[i]
                                /\ c[i - 1] < c[i]
             /\ c \in [0..n -> Nat] /\ c[0] = f
             /\ n = 0 <=> ~(f < l /\ f < MemorySize)
             /\ n # 0 => c[n] <= l
             /\ n # 0 /\ (n # MaxBlocks \/ n = Cardinality(Touched(f, l))) => c[n] = Min({l, MemorySize})

LEMMA SectionsOf ==
    ASSUME NEW f \in Nat, NEW l \in Nat
    PROVE  \E n, c : n \in 0..MaxBlocks /\ Sections(mem_blocks(f, l), f, l, n, c)
<1>. DEFINE b == mem_blocks(f, l)
<1>1. /\ Lengths \in Seq(Nat \ {0}) /\ Flights = 1..Len(Lengths) /\ MemorySize = Total(Lengths, Len(Lengths))
      /\ b = PartsOf(Lengths, MaxBlocks, f, l) /\ MaxBlocks \in Nat \ {0}
      /\ \A i \in Flights : flight_address(i) = Total(Lengths, i - 1) /\ flight_address(i) \in Nat
  BY TheMemory
<1>2. PICK n, c : n \in 0..MaxBlocks /\ RunFromTo(Lengths, MaxBlocks, f, l, PartsOf(Lengths, MaxBlocks, f, l), n, c)
  BY <1>1, PartsInARow
<1>. HIDE DEF b
<1>3. /\ b = [i \in 1..n |-> b[i]] /\ PartBounds(Lengths, b, n, c) /\ n \in Nat
  BY <1>1, <1>2 DEF RunFromTo
<1>4. \A i \in 1..n : b[i] \in [flight : Flights, offset : Nat, length : Nat \ {0}]
  BY <1>1, <1>3 DEF PartBounds
<1>5. DOMAIN b = 1..n /\ Len(b) = n /\ (n = 0 <=> b = <<>>)
  <2>. DEFINE S == [flight : Flights, offset : Nat, length : Nat \ {0}]
  <2>1. b \in [1..n -> S]
    BY <1>3, <1>4
  <2>. HIDE DEF S
  <2>2. b \in Seq(S)
    <3>1. \A T : [1..n -> T] \subseteq Seq(T)
      BY <1>3, SeqDef
    <3>. QED
      BY <2>1, <3>1
  <2>3. b \in Seq(ToSet(b)) /\ DOMAIN b = 1..Len(b) /\ Len(b) \in Nat /\ DOMAIN b = 1..n
    BY <2>1, <2>2, Members
  <2>4. Len(b) = n
    BY <1>3, <2>3
  <2>. QED
    BY <2>3, <2>4, NoneMore
<1>6. ASSUME NEW i \in 1..n
      PROVE  /\ flight_address(b[i].flight) + b[i].offset = c[i - 1]
             /\ flight_address(b[i].flight) + b[i].offset + b[i].length = c[i]
             /\ c[i - 1] < c[i]
             /\ b[i].offset + b[i].length <= Lengths[b[i].flight]
  <2>1. /\ Total(Lengths, b[i].flight - 1) + b[i].offset = c[i - 1] /\ c[i] = c[i - 1] + b[i].length
        /\ b[i].offset + b[i].length <= Lengths[b[i].flight] /\ c \in [0..n -> Nat]
    BY <1>3 DEF PartBounds
  <2>2. b[i].flight \in Flights /\ b[i].length \in Nat \ {0}
    BY <1>4
  <2>3. flight_address(b[i].flight) = Total(Lengths, b[i].flight - 1)
    BY <1>1, <2>2
  <2>4. c[i - 1] \in Nat
    <3>1. i - 1 \in 0..n
      BY <1>3
    <3>. QED
      BY <2>1, <3>1
  <2>. QED
    BY <2>1, <2>2, <2>3, <2>4
<1>7. c \in [0..n -> Nat]
  BY <1>3 DEF PartBounds
<1>8. Touched(f, l) = Reached(Lengths, f, l)
  <2>1. \A i \in Flights : flight_address(i) = Total(Lengths, i - 1) /\ flight_end(i) = Total(Lengths, i - 1) + Lengths[i]
    BY TheMemory
  <2>. QED
    BY <1>1, <2>1 DEF Touched, Reached
<1>9. /\ n = 0 <=> ~(f < l /\ f < MemorySize)
      /\ n # 0 /\ (n # MaxBlocks \/ n = Cardinality(Touched(f, l))) => c[n] = Min({l, MemorySize})
      /\ n # 0 => c[n] <= l
      /\ c[0] = f
  BY <1>1, <1>2, <1>8 DEF RunFromTo
<1>10. Sections(b, f, l, n, c)
  BY <1>4, <1>5, <1>6, <1>7, <1>9 DEF Sections
<1>. QED
  BY <1>2, <1>10 DEF b

LEMMA KnownNumbers ==
    ASSUME NEW r \in Known
    PROVE  r[1] \in Nat /\ r[2] \in Nat
<1>1. CASE r \in Ranges
  <2>1. r \in Nat \X Nat
    BY <1>1, ToolAssumption
  <2>. QED
    BY <2>1
<1>2. CASE r \in FlightRanges
  <2>1. PICK i \in Flights : r = <<flight_address(i), flight_end(i)>>
    BY <1>2 DEF FlightRanges
  <2>2. flight_address(i) \in Nat /\ flight_end(i) \in Nat
    BY TheMemory
  <2>. QED
    BY <2>1, <2>2
<1>. QED
  BY <1>1, <1>2 DEF Known

\* The sections of a range, as their lengths tell it and as they are saved.
LEMMA BlocksOf ==
    ASSUME NEW r \in Known
    PROVE  /\ Len(Blocks(r)) \in Nat /\ DOMAIN Blocks(r) = 1..Len(Blocks(r))
           /\ \A i \in 1..Len(Blocks(r)) :
                /\ i \in DOMAIN section_lengths(Blocks(r)) /\ section_lengths(Blocks(r))[i] # 0
                /\ section_lengths(Blocks(r))[i] = Part(r, i)[2] - Part(r, i)[1]
           /\ DOMAIN section_lengths(Blocks(r)) = 1..Len(Blocks(r))
<1>1. r[1] \in Nat /\ r[2] \in Nat
  BY KnownNumbers
<1>2. PICK n, c : n \in 0..MaxBlocks /\ Sections(mem_blocks(r[1], r[2]), r[1], r[2], n, c)
  BY <1>1, SectionsOf
<1>. DEFINE b == Blocks(r)
<1>3. /\ DOMAIN b = 1..n /\ Len(b) = n /\ n \in Nat
      /\ \A i \in 1..n : b[i] \in [flight : Flights, offset : Nat, length : Nat \ {0}]
      /\ \A i \in 1..n : b[i].offset + b[i].length <= Lengths[b[i].flight]
  BY <1>2, TheMemory DEF Sections, Blocks
<1>4. DOMAIN section_lengths(b) = 1..n /\ \A i \in 1..n : section_lengths(b)[i] = b[i].length % Worth[3]
  BY <1>3 DEF section_lengths
<1>5. \A i \in 1..n : Part(r, i) = <<Place(b[i]), Place(b[i]) + b[i].length>>
  BY DEF Part
<1>. HIDE DEF b
<1>6. ASSUME NEW i \in 1..n
      PROVE  section_lengths(b)[i] # 0 /\ section_lengths(b)[i] = Part(r, i)[2] - Part(r, i)[1]
  <2>1. b[i].flight \in Flights /\ b[i].offset \in Nat /\ b[i].length \in Nat \ {0}
    BY <1>3
  <2>2. b[i].length < Worth[3]
    <3>1. Lengths[b[i].flight] < Worth[3] /\ Lengths[b[i].flight] \in Nat
      <4>1. \A k \in Flights : Lengths[k] < Worth[3]
        BY RangesAssumption
      <4>2. \A k \in Flights : Lengths[k] \in Nat
        BY TheMemory, ElementOfSeq
      <4>. QED
        BY <2>1, <4>1, <4>2
    <3>2. b[i].offset + b[i].length <= Lengths[b[i].flight]
      BY <1>3
    <3>. QED
      BY <2>1, <3>1, <3>2, BytesAreNumbers
  <2>3. b[i].length % Worth[3] = b[i].length
    <3>1. \A x, w \in Nat : x < w => x % w = x
      OBVIOUS
    <3>. QED
      BY <2>1, <2>2, <3>1, BytesAreNumbers
  <2>4. Place(b[i]) \in Nat
    <3>1. flight_address(b[i].flight) \in Nat
      BY <2>1, TheMemory
    <3>. QED
      BY <2>1, <3>1 DEF Place
  <2>5. Part(r, i)[1] = Place(b[i]) /\ Part(r, i)[2] = Place(b[i]) + b[i].length
    BY <1>5
  <2>. QED
    BY <1>4, <2>1, <2>3, <2>4, <2>5
<1>. QED
  BY <1>3, <1>4, <1>6 DEF b

\* All of them in a row are the range.
LEMMA PartsTile ==
    ASSUME NEW r \in Known, NEW g, Len(g) = Len(Blocks(r)), g \in Seq(ToSet(g)),
           \A i \in 1..Len(Blocks(r)) : g[i] = Part(r, i)
    PROVE  IF Len(g) = MaxBlocks
           THEN Tile(g, r[1], Last(g)[2]) /\ Last(g)[2] <= r[2]
           ELSE Tile(g, r[1], Min({r[2], Max({r[1], MemorySize})}))
<1>1. r[1] \in Nat /\ r[2] \in Nat /\ MemorySize \in Nat /\ MaxBlocks \in Nat \ {0}
  BY KnownNumbers, TheMemory
<1>2. PICK n, c : n \in 0..MaxBlocks /\ Sections(mem_blocks(r[1], r[2]), r[1], r[2], n, c)
  BY <1>1, SectionsOf
<1>. DEFINE b == Blocks(r)
<1>3. /\ Len(b) = n /\ n \in Nat /\ c \in [0..n -> Nat] /\ c[0] = r[1]
      /\ \A i \in 1..n : /\ flight_address(b[i].flight) + b[i].offset = c[i - 1]
                         /\ flight_address(b[i].flight) + b[i].offset + b[i].length = c[i]
                         /\ c[i - 1] < c[i]
      /\ n = 0 <=> ~(r[1] < r[2] /\ r[1] < MemorySize)
      /\ n # 0 => c[n] <= r[2]
      /\ n # 0 /\ n # MaxBlocks => c[n] = Min({r[2], MemorySize})
  BY <1>1, <1>2 DEF Sections, Blocks
<1>4. \A i \in 1..n : g[i] = <<c[i - 1], c[i]>>
  BY <1>3 DEF Part, Place
<1>. HIDE DEF b
<1>5. Len(g) = n /\ (n = 0 <=> g = <<>>)
  <2>1. Len(g) = n
    BY <1>3 DEF b
  <2>. QED
    BY <2>1, NoneMore
<1>. DEFINE end == Min({r[2], Max({r[1], MemorySize})})
<1>6. end = LET m == IF r[1] <= MemorySize THEN MemorySize ELSE r[1] IN IF r[2] <= m THEN r[2] ELSE m
  <2>1. Max({r[1], MemorySize}) = (IF r[1] <= MemorySize THEN MemorySize ELSE r[1])
    BY <1>1, MinMaxOfTwo
  <2>. DEFINE m == IF r[1] <= MemorySize THEN MemorySize ELSE r[1]
  <2>2. m \in Nat
    BY <1>1
  <2>. HIDE DEF m
  <2>3. Min({r[2], m}) = IF r[2] <= m THEN r[2] ELSE m
    BY <1>1, <2>2, MinMaxOfTwo
  <2>. QED
    BY <2>1, <2>3 DEF m
<1>. HIDE DEF end
<1>7. CASE n = 0
  <2>1. r[1] >= end
    BY <1>1, <1>3, <1>6, <1>7
  <2>2. g = <<>> /\ Len(g) # MaxBlocks /\ 1..Len(g) = {}
    BY <1>1, <1>5, <1>7
  <2>3. Tile(g, r[1], end)
    BY <2>1, <2>2 DEF Tile
  <2>. QED
    BY <2>2, <2>3 DEF end
<1>8. CASE n # 0
  <2>1. n \in 1..n /\ g[n] = <<c[n - 1], c[n]>> /\ g # <<>> /\ g[Len(g)][2] = c[n]
    BY <1>3, <1>4, <1>5, <1>8
  <2>2. Last(g)[2] = c[n]
    BY <2>1 DEF Last
  <2>3. ASSUME NEW i \in 1..n
        PROVE  g[i][1] = (IF i = 1 THEN r[1] ELSE g[i - 1][2]) /\ g[i][1] < g[i][2]
    <3>1. g[i][1] = c[i - 1] /\ g[i][2] = c[i]
      BY <1>4
    <3>2. c[i - 1] < c[i]
      BY <1>3
    <3>3. i = 1 \/ i - 1 \in 1..n
      BY <1>3
    <3>4. i = 1 => c[i - 1] = r[1]
      BY <1>3
    <3>5. i - 1 \in 1..n => g[i - 1][2] = c[i - 1]
      BY <1>4
    <3>. QED
      BY <3>1, <3>2, <3>3, <3>4, <3>5
  <2>4. Tile(g, r[1], c[n])
    BY <1>5, <2>1, <2>3 DEF Tile
  <2>5. n # MaxBlocks => c[n] = end
    <3>1. Min({r[2], MemorySize}) = IF r[2] <= MemorySize THEN r[2] ELSE MemorySize
      BY <1>1, MinMaxOfTwo
    <3>2. r[1] < r[2] /\ r[1] < MemorySize
      BY <1>3, <1>8
    <3>3. end = IF r[2] <= MemorySize THEN r[2] ELSE MemorySize
      BY <1>1, <1>6, <3>2
    <3>. QED
      BY <1>3, <1>8, <3>1, <3>3
  <2>. QED
    BY <1>3, <1>5, <1>8, <2>2, <2>4, <2>5 DEF end
<1>. QED
  BY <1>7, <1>8

\* What is known of the command stays so, whatever goes on outside.
LEMMA LaterOutside ==
    ASSUME IInv, Outside, NEW r \in Known, Later(r)
    PROVE  Later(r)'
<1>1. /\ UNCHANGED <<given, script, pc, lengths, section, got>>
      /\ Sound' => Sound
  <2>1. UNCHANGED <<given, script, pc, lengths, section, got>> /\ troubles \subseteq troubles'
    BY OutsideDoes
  <2>. QED
    BY <2>1 DEF Sound
<1>2. ASSUME Empty, Sound'
      PROVE  /\ Empty' /\ (Ranged(r) => Ranged(r)') /\ (Measured(r) => Measured(r)')
             /\ (Taking(r) => Taking(r)') /\ (Complete(r) => Complete(r)')
  <2>1. Empty' /\ (listed' => listed /\ UNCHANGED <<range, blocks>>)
    BY <1>2, EmptyOutside
  <2>2. (Ranged(r) => Ranged(r)') /\ (Complete(r) => Complete(r)')
    BY <1>1, <2>1 DEF Ranged, Complete, Saved
  <2>3. Measured(r) => Measured(r)'
    BY <1>1, <2>1 DEF Measured, Cut
  <2>4. Taking(r) => Taking(r)'
    BY <1>1, <2>1, <2>3 DEF Taking, Saved
  <2>. QED
    BY <2>1, <2>2, <2>3, <2>4
<1>3. CASE script = Defining(r) /\ pc = "step" /\ got = <<>> /\ Unset
  BY <1>1, <1>3, UnsetOutside DEF Later
<1>4. CASE script = Defining(r) /\ pc = "wait" /\ got = <<>> /\ (Sound => Setting(r))
  BY <1>1, <1>4, SettingOutside DEF Later
<1>5. CASE script = Measuring /\ pc = "step" /\ got = <<>> /\ (Sound => Empty /\ Ranged(r))
  BY <1>1, <1>2, <1>5 DEF Later
<1>6. CASE script = Measuring /\ pc = "wait" /\ got = <<>> /\ (Sound => Single /\ Awaiting(r))
  BY <1>1, <1>6, AwaitingOutside DEF Later
<1>7. CASE script = Collecting /\ pc = "step" /\ got = <<>> /\ (Sound => Empty /\ Measured(r))
  BY <1>1, <1>2, <1>7 DEF Later
<1>8. CASE script = Collecting /\ pc = "section" /\ (Sound => Empty /\ Taking(r))
  BY <1>1, <1>2, <1>8 DEF Later
<1>9. CASE script = Collecting /\ pc = "data" /\ (Sound => Single /\ Coming(r))
  <2>1. Len(Blocks(r)) \in Int /\ \A i \in 1..Len(Blocks(r)) : i \in DOMAIN Blocks(r)
    BY BlocksOf
  <2>. QED
    BY <1>1, <1>9, <2>1, ComingOutside DEF Later
<1>10. CASE script = <<>> /\ pc = "step" /\ (Sound => Empty /\ Complete(r))
  BY <1>1, <1>2, <1>10 DEF Later
<1>. QED
  BY <1>3, <1>4, <1>5, <1>6, <1>7, <1>8, <1>9, <1>10 DEF Later

LEMMA DumpedOutside ==
    ASSUME IInv, Outside, Dumped
    PROVE  Dumped'
<1>1. UNCHANGED <<given, command, script, pc, flights, got, code>> /\ troubles \subseteq troubles'
  BY OutsideDoes
<1>2. \A r : About(r) => About(r)'
  BY <1>1 DEF About
<1>3. ASSUME Dumps, pc # "idle"
      PROVE  Begun' \/ \E r \in Known : About(r)' /\ Later(r)'
  <2>1. CASE Begun
    BY <1>1, <2>1, UnsetOutside DEF Begun
  <2>2. CASE \E r \in Known : About(r) /\ Later(r)
    BY <1>2, <2>2, LaterOutside
  <2>. QED
    BY <1>3, <2>1, <2>2 DEF Dumped
<1>4. ASSUME Dumps, pc = "idle", code = "ok"
      PROVE  \E r \in Known : About(r)' /\ Ended(r)'
  <2>1. PICK r \in Known : About(r) /\ Ended(r)
    BY <1>4 DEF Dumped
  <2>2. ASSUME Sound'
        PROVE  Empty' /\ Complete(r)'
    <3>1. Sound
      BY <1>1, <2>2 DEF Sound
    <3>2. Empty /\ Complete(r)
      BY <2>1, <3>1 DEF Ended
    <3>3. Empty' /\ (listed' => listed /\ UNCHANGED <<range, blocks>>)
      BY <2>2, <3>2, EmptyOutside
    <3>. QED
      BY <1>1, <3>2, <3>3 DEF Complete, Saved
  <2>. QED
    BY <1>2, <2>1, <2>2 DEF Ended
<1>. QED
  BY <1>1, <1>3, <1>4 DEF Dumped, Dumps

\* What filsertool leaves alone while it works on a command.
LEMMA ToolMoves ==
    ASSUME IInv, Tool
    PROVE  /\ UNCHANGED <<answer, given, command, range, blocks, listed, writing>>
           /\ troubles \subseteq troubles' /\ pc # "idle"
           /\ next_flight \/ flights' = flights
           /\ tty' \in {tty, <<>>} \/ (tty # <<>> /\ tty' = Tail(tty))
<1>. USE DEF tool, work, trouble, wire, promised, device, state, disk
<1>. DEFINE Left == /\ UNCHANGED <<answer, given, command, range, blocks, listed, writing>>
                    /\ troubles \subseteq troubles' /\ pc # "idle"
            Kept == next_flight \/ flights' = flights
            Reads_on == tty' \in {tty, <<>>} \/ (tty # <<>> /\ tty' = Tail(tty))
<1>1. SendSyn \/ RecvAck \/ NoAck \/ Tell => Left /\ Kept
  BY DEF SendSyn, RecvAck, NoAck, NothingYet, Tell, At, Fault
<1>2. Send \/ Receive \/ WrongAnswer \/ NoAnswer => Left /\ Kept
  BY DEF Send, Receive, Notice, WrongAnswer, NoAnswer, At
<1>3. Crash \/ open_flight_list \/ next_flight \/ seek_mem \/ download_section \/ Return => Left /\ Kept
  BY DEF Crash, open_flight_list, next_flight, seek_mem, download_section, Return, At
<1>4. SaveSection \/ SaveDatabase => Left /\ Kept
  BY DEF SaveSection, SaveDatabase, At, Notice, Fault
<1>5. SendSyn \/ RecvAck \/ NoAck \/ Tell \/ Send \/ Receive \/ WrongAnswer \/ NoAnswer => Reads_on
  BY DEF SendSyn, RecvAck, NoAck, NothingYet, Tell, Send, Receive, WrongAnswer, NoAnswer, FlushAndWrite, Finish, Read
<1>6. Crash \/ open_flight_list \/ next_flight \/ seek_mem \/ download_section \/ Return \/ SaveSection \/ SaveDatabase
        => Reads_on
  BY DEF Crash, open_flight_list, next_flight, seek_mem, download_section, Return, SaveSection, SaveDatabase,
         FlushAndWrite, Finish, Read
<1>. QED
  BY <1>1, <1>2, <1>3, <1>4, <1>5, <1>6 DEF Tool

\* It reads what has come, or throws it away.
LEMMA ToolReading ==
    ASSUME IInv, Tool
    PROVE  Replied' \subseteq Replied /\ (tty = <<>> => tty' = <<>>)
<1>1. answer' = answer /\ (tty' \in {tty, <<>>} \/ (tty # <<>> /\ tty' = Tail(tty)))
  BY ToolMoves
<1>2. tty \in Seq(ToSet(tty))
  BY DEF IInv, Sequenced
<1>3. ToSet(<<>>) = {} /\ (tty # <<>> => ToSet(Tail(tty)) \subseteq ToSet(tty))
  BY <1>2, Others, OneOrTwo
<1>. QED
  BY <1>1, <1>3 DEF Replied

LEMMA FlownTool ==
    ASSUME IInv, Tool, Flown
    PROVE  Flown'
<1>1. /\ UNCHANGED <<command, given>> /\ pc # "idle" /\ (next_flight \/ flights' = flights) /\ Replied' \subseteq Replied
  BY ToolMoves, ToolReading
<1>2. flights' \in Seq(FlightRanges)
  <2>1. CASE flights' = flights
    BY <2>1 DEF Flown
  <2>2. CASE next_flight /\ flights' # flights
    <3>1. tty # <<>> /\ Head(tty).kind = "flight" /\ flights' = Append(flights, Head(tty).body)
      BY <2>2 DEF next_flight
    <3>2. tty \in Seq(ToSet(tty))
      BY DEF IInv, Sequenced
    <3>3. Head(tty) \in Replied
      BY <3>1, <3>2, Others DEF Replied
    <3>4. Head(tty).body \in FlightRanges /\ flights \in Seq(FlightRanges)
      BY <3>1, <3>3 DEF Flown
    <3>. QED
      BY <3>1, <3>4, AppendProperties
  <2>. QED
    BY <1>1, <2>1, <2>2
<1>. QED
  BY <1>1, <1>2 DEF Flown

\* Until DEF_MEM is sent there is none of the command, and no ACK of one.
LEMMA UnsetTool ==
    ASSUME IInv, Tool, Unset, NEW k, NEW b, k # "DEF_MEM",
           request' = request \/ request' = request \o Of(<<Msg(k, b)>>, given)
    PROVE  Unset'
<1>1. given' = given /\ Replied' \subseteq Replied
  BY ToolMoves, ToolReading
<1>2. \A m \in ToSet(request') : m \in ToSet(request) \/ m.kind # "DEF_MEM"
  <2>1. request \in Seq(ToSet(request))
    BY DEF IInv, Sequenced
  <2>2. CASE request' = request \o Of(<<Msg(k, b)>>, given)
    BY <2>1, <2>2, OneAsked
  <2>. QED
    BY <2>2
<1>. QED
  BY <1>1, <1>2 DEF Unset, Sets, Acks

\* A command that is at work may fail; it goes on as Dumped says.
Proceeds == IF pc' = "idle" THEN code' # "ok" ELSE Begun' \/ \E r \in Known : About(r)' /\ Later(r)'

LEMMA BegunStays ==
    ASSUME IInv, Tool, Begun, NEW k, NEW b, k # "DEF_MEM",
           request' = request \/ request' = request \o Of(<<Msg(k, b)>>, given),
           script' \in Early(command.name, command.arguments), got' = got, pc' # "idle"
    PROVE  Proceeds
<1>1. Unset'
  BY UnsetTool DEF Begun
<1>2. command' = command
  BY ToolMoves
<1>. QED
  BY <1>1, <1>2 DEF Begun, Proceeds

LEMMA BegunTool ==
    ASSUME IInv, Heads, Tool, Flown, Dumps, Begun
    PROVE  Proceeds
<1>1. /\ UNCHANGED <<command, given>> /\ pc # "idle" /\ (next_flight \/ flights' = flights)
  BY ToolMoves
<1>. DEFINE n == command.name  a == command.arguments
<1>2. n \in {"raw_mem", "download"} /\ script \in Early(n, a) /\ got = <<>> /\ Unset
  BY DEF Dumps, Begun
<1>3. /\ script # <<>>
      /\ \/ Head(script) = Syn /\ (Tail(script) \in Early(n, a) \/ (n = "raw_mem" /\ Tail(script) = Defining(a)))
         \/ Head(script) = Check /\ Tail(script) \in Early(n, a)
         \/ Head(script) = Do("list") /\ n = "download" /\ Tail(script) \in Early(n, a)
         \/ Head(script) = Do("seek") /\ n = "download" /\ Tail(script) = Measuring
  BY <1>2, EarlySteps
<1>. USE DEF tool, work, trouble, wire, promised, device
<1>4. CASE Head(script) = Syn /\ (Tail(script) \in Early(n, a) \/ (n = "raw_mem" /\ Tail(script) = Defining(a)))
  <2>1. Head(script).op = "syn" /\ pc \notin {"wait", "flights", "section", "data"}
    <3>1. Head(script).op = "syn"
      BY <1>4, DumpSteps
    <3>2. pc \notin {"wait", "flights", "section", "data"}
      BY <3>1 DEF Heads
    <3>. QED
      BY <3>1, <3>2
  <2>2. SendSyn \/ RecvAck \/ NoAck
    BY <1>3, <2>1 DEF Tool, Tell, Send, Receive, WrongAnswer, NoAnswer, Crash, open_flight_list, next_flight, seek_mem,
                      download_section, SaveSection, SaveDatabase, Return, At
  <2>3. CASE SendSyn
    <3>1. /\ request' = request \o Of(<<Msg("SYN", 0)>>, given)
          /\ UNCHANGED <<script, got>> /\ pc' = "ack"
      BY <2>3 DEF SendSyn, FlushAndWrite
    <3>. QED
      BY <1>2, <3>1, BegunStays
  <2>4. CASE NoAck
    <3>1. UNCHANGED <<request, got>> /\ (pc' = "idle" => code' = "failed") /\ (pc' # "idle" => script' = script)
      BY <2>4 DEF NoAck
    <3>2. CASE pc' = "idle"
      BY <3>1, <3>2 DEF Proceeds
    <3>3. CASE pc' # "idle"
      <4>1. script' \in Early(command.name, command.arguments)
        BY <1>2, <3>1, <3>3
      <4>. QED
        BY <3>1, <3>3, <4>1, BegunStays
    <3>. QED
      BY <3>2, <3>3
  <2>5. CASE RecvAck
    <3>1. UNCHANGED <<request, got>> /\ pc' = "step" /\ script' = Tail(script)
      BY <2>5 DEF RecvAck, Done
    <3>2. CASE Tail(script) \in Early(n, a)
      BY <3>1, <3>2, BegunStays
    <3>3. CASE n = "raw_mem" /\ Tail(script) = Defining(a)
      <4>0. PICK r : r = a
        OBVIOUS
      <4>1. r \in Known
        BY <3>3, <4>0 DEF Flown, Known
      <4>2. Unset'
        BY <1>2, <3>1, UnsetTool
      <4>3. Later(r)'
        BY <1>2, <3>1, <3>3, <4>0, <4>2 DEF Later
      <4>4. About(r)'
        BY <1>1, <3>3, <4>0 DEF About
      <4>. QED
        BY <1>1, <3>1, <4>1, <4>3, <4>4 DEF Proceeds
    <3>. QED
      BY <1>4, <3>2, <3>3
  <2>. QED
    BY <2>2, <2>3, <2>4, <2>5
<1>5. CASE Head(script) = Check /\ Tail(script) \in Early(n, a)
  <2>1. /\ Head(script).op = "ask" /\ Head(script).expect = "settings"
        /\ Head(script).message = Msg("CHECK_MEM_SETTINGS", 0)
        /\ pc \notin {"syn", "ack", "flights", "section", "data"}
    <3>1. /\ Head(script).op = "ask" /\ Head(script).expect = "settings"
          /\ Head(script).message = Msg("CHECK_MEM_SETTINGS", 0)
      BY <1>5, DumpSteps
    <3>2. pc \notin {"syn", "ack", "flights", "section", "data"}
      BY <3>1 DEF Heads
    <3>. QED
      BY <3>1, <3>2
  <2>2. Send \/ Receive \/ WrongAnswer \/ NoAnswer
    BY <1>3, <2>1 DEF Tool, SendSyn, RecvAck, NoAck, Tell, Crash, open_flight_list, next_flight, seek_mem,
                      download_section, SaveSection, SaveDatabase, Return, At
  <2>3. CASE Send
    <3>1. /\ request' = request \o Of(<<Msg("CHECK_MEM_SETTINGS", 0)>>, given)
          /\ UNCHANGED <<script, got>> /\ pc' = "wait"
      BY <2>1, <2>3 DEF Send, FlushAndWrite
    <3>. QED
      BY <1>2, <3>1, BegunStays
  <2>4. CASE Receive
    <3>1. Expected = "settings"
      BY <2>1 DEF Expected
    <3>2. UNCHANGED <<request, got>> /\ pc' = "step" /\ script' = Tail(script)
      BY <2>4, <3>1 DEF Receive, Done
    <3>3. script' \in Early(command.name, command.arguments) /\ pc' # "idle"
      BY <1>5, <3>2
    <3>. QED
      BY <3>2, <3>3, BegunStays
  <2>5. CASE WrongAnswer \/ NoAnswer
    <3>1. Expected = "settings"
      BY <2>1 DEF Expected
    <3>2. pc' = "idle" /\ code' = "failed"
      BY <2>1, <2>5, <3>1 DEF WrongAnswer, NoAnswer, Finish
    <3>. QED
      BY <3>2 DEF Proceeds
  <2>. QED
    BY <2>2, <2>3, <2>4, <2>5
<1>6. CASE Head(script) = Do("list") /\ n = "download" /\ Tail(script) \in Early(n, a)
  <2>1. Head(script).op = "list" /\ pc \notin {"syn", "ack", "wait", "section", "data"}
    <3>1. Head(script).op = "list"
      BY <1>6, DumpSteps
    <3>2. pc \notin {"syn", "ack", "wait", "section", "data"}
      BY <3>1 DEF Heads
    <3>. QED
      BY <3>1, <3>2
  <2>2. open_flight_list \/ next_flight \/ NoAnswer
    BY <1>3, <2>1 DEF Tool, SendSyn, RecvAck, NoAck, Tell, Send, Receive, WrongAnswer, Crash, seek_mem,
                      download_section, SaveSection, SaveDatabase, Return, At
  <2>3. CASE open_flight_list
    <3>1. /\ request' = request \o Of(<<Msg("READ_FLIGHT_LIST", 0)>>, given)
          /\ UNCHANGED <<script, got>> /\ pc' = "flights"
      BY <2>3 DEF open_flight_list, FlushAndWrite
    <3>. QED
      BY <1>2, <3>1, BegunStays
  <2>4. CASE next_flight
    <3>1. UNCHANGED <<request, got>>
      BY <2>4 DEF next_flight
    <3>2. \/ pc' = pc /\ script' = script
          \/ pc' = "step" /\ script' = Tail(script)
          \/ pc' = "idle" /\ code' = "failed"
      BY <2>4 DEF next_flight, Done, Finish
    <3>3. CASE pc' = "idle" /\ code' = "failed"
      BY <3>3 DEF Proceeds
    <3>4. CASE pc' # "idle" /\ script' \in {script, Tail(script)}
      <4>1. script' \in Early(command.name, command.arguments)
        BY <1>2, <1>6, <3>4
      <4>. QED
        BY <3>1, <3>4, <4>1, BegunStays
    <3>. QED
      BY <1>1, <3>2, <3>3, <3>4
  <2>5. CASE NoAnswer
    <3>1. pc' = "idle" /\ code' = "failed"
      BY <2>1, <2>5 DEF NoAnswer, Finish
    <3>. QED
      BY <3>1 DEF Proceeds
  <2>. QED
    BY <2>2, <2>3, <2>4, <2>5
<1>7. CASE Head(script) = Do("seek") /\ n = "download" /\ Tail(script) = Measuring
  <2>1. Head(script).op = "seek" /\ pc \notin {"syn", "ack", "wait", "flights", "section", "data"}
    <3>1. Head(script).op = "seek"
      BY <1>7, DumpSteps
    <3>2. pc \notin {"syn", "ack", "wait", "flights", "section", "data"}
      BY <3>1 DEF Heads
    <3>. QED
      BY <3>1, <3>2
  <2>2. seek_mem
    BY <1>3, <2>1 DEF Tool, SendSyn, RecvAck, NoAck, Tell, Send, Receive, WrongAnswer, NoAnswer, Crash, open_flight_list,
                      next_flight, download_section, SaveSection, SaveDatabase, Return, At
  <2>3. PICK r \in IF Len(flights) > 1 THEN {flights[Len(flights) - 1]} ELSE Ranges :
          script' = seek_mem_x(r) \o Tail(script)
    BY <2>2 DEF seek_mem
  <2>4. UNCHANGED <<request, got, pc, flights>> /\ pc = "step"
    BY <2>2 DEF seek_mem, At
  <2>5. script' = Defining(r)
    BY <1>7, <2>3, DumpScripts
  <2>6. r \in Known
    <3>1. flights \in Seq(FlightRanges) /\ Len(flights) \in Nat
      BY LenProperties DEF Flown
    <3>2. Len(flights) > 1 => flights[Len(flights) - 1] \in FlightRanges
      <4>1. Len(flights) > 1 => Len(flights) - 1 \in 1..Len(flights)
        BY <3>1
      <4>. QED
        BY <3>1, <4>1, ElementOfSeq
    <3>. QED
      BY <2>3, <3>2 DEF Known
  <2>7. About(r)'
    BY <1>1, <1>7, <2>3, <2>4 DEF About
  <2>8. Unset'
    BY <1>2, <2>4, UnsetTool
  <2>9. Later(r)'
    BY <1>2, <2>4, <2>5, <2>8 DEF Later
  <2>. QED
    BY <2>4, <2>6, <2>7, <2>9 DEF Proceeds
<1>. QED
  BY <1>3, <1>4, <1>5, <1>6, <1>7

\* From DEF_MEM on the command goes on as Later says, or ends as it should.
Follows(r) == IF pc' = "idle" THEN code' = "ok" => Ended(r)' ELSE Later(r)'

LEMMA ToolSound ==
    ASSUME IInv, Tool
    PROVE  (Sound' => Sound) /\ UNCHANGED <<answer, given, range, blocks, listed, writing>>
<1>1. troubles \subseteq troubles' /\ UNCHANGED <<answer, given, range, blocks, listed, writing>>
  BY ToolMoves
<1>. QED
  BY <1>1 DEF Sound

\* The message DEF_MEM and its packet.
LEMMA DefiningPair ==
    ASSUME NEW r, NEW g, NEW t, t = Of(<<Msg("DEF_MEM", 0), Msg("packet", Bytes(r))>>, g)
    PROVE  /\ t \in Seq(ToSet(t)) /\ Len(t) = 2 /\ DOMAIN t = {1, 2}
           /\ t[1].kind = "DEF_MEM" /\ t[2].kind = "packet" /\ t[2].body = Bytes(r)
<1>1. PICK s : s = <<Msg("DEF_MEM", 0), Msg("packet", Bytes(r))>>
  OBVIOUS
<1>2. /\ s \in Seq(ToSet(s)) /\ Len(s) = 2 /\ DOMAIN s = {1, 2}
      /\ s[1] = Msg("DEF_MEM", 0) /\ s[2] = Msg("packet", Bytes(r))
  BY <1>1, OneOrTwo
<1>3. t = Of(s, g)
  BY <1>1
<1>4. /\ t \in Seq(ToSet(t)) /\ Len(t) = Len(s) /\ DOMAIN t = DOMAIN s
      /\ \A i \in DOMAIN s : t[i] = [s[i] EXCEPT !.of = g]
  BY ONLY <1>2, <1>3, Stamping
<1>5. t[1] = [Msg("DEF_MEM", 0) EXCEPT !.of = g] /\ t[2] = [Msg("packet", Bytes(r)) EXCEPT !.of = g]
  BY ONLY <1>2, <1>4
<1>6. t[1].kind = "DEF_MEM" /\ t[2].kind = "packet" /\ t[2].body = Bytes(r)
  BY ONLY <1>5, Fields
<1>. QED
  BY ONLY <1>2, <1>4, <1>6

\* Whatever sets the range is the last request.
SetsLast(u, r, g) == \A i \in DOMAIN u : u[i].kind = "DEF_MEM" /\ u[i].of = g =>
                       i + 1 = Len(u) /\ u[i + 1].kind = "packet" /\ u[i + 1].body = Bytes(r)

\* Where it is sent there is none before it.
LEMMA DefiningAdds ==
    ASSUME NEW q, q \in Seq(ToSet(q)), NEW r, NEW g, NEW t, t \in Seq(ToSet(t)), Len(t) = 2, DOMAIN t = {1, 2},
           t[2].kind = "packet", t[2].body = Bytes(r),
           \A m \in ToSet(q) : ~(m.kind = "DEF_MEM" /\ m.of = g), NEW u, u = q \o t
    PROVE  SetsLast(u, r, g)
<1>1. /\ Len(u) = Len(q) + 2 /\ Len(q) \in Nat /\ DOMAIN u = 1..Len(u) /\ DOMAIN q = 1..Len(q)
      /\ \A i \in DOMAIN q : u[i] = q[i]
      /\ \A i \in DOMAIN u : i \in DOMAIN q \/ (i - Len(q) \in DOMAIN t /\ u[i] = t[i - Len(q)])
  BY Joined
<1>. SUFFICES ASSUME NEW i \in DOMAIN u, u[i].kind = "DEF_MEM", u[i].of = g
              PROVE  i + 1 = Len(u) /\ u[i + 1].kind = "packet" /\ u[i + 1].body = Bytes(r)
  BY DEF SetsLast
<1>2. i \notin DOMAIN q
  BY <1>1 DEF ToSet
<1>3. i - Len(q) \in {1, 2} /\ u[i] = t[i - Len(q)]
  BY <1>1, <1>2
<1>4. i - Len(q) # 2
  BY <1>3
<1>5. i + 1 = Len(u) /\ i + 1 \in DOMAIN u /\ i + 1 \notin DOMAIN q /\ i + 1 - Len(q) = 2
  BY <1>1, <1>3, <1>4
<1>6. u[i + 1] = t[2]
  BY <1>1, <1>5
<1>. QED
  BY <1>5, <1>6

\* DEF_MEM is sent: with its packet it is the last request.
LEMMA SettingSent ==
    ASSUME IInv, Tool, NEW r, Unset, tty' = <<>>,
           request' = request \o Of(<<Msg("DEF_MEM", 0), Msg("packet", Bytes(r))>>, given)
    PROVE  Setting(r)'
<1>1. UNCHANGED <<answer, given>> /\ Replied' \subseteq Replied
  BY ToolMoves, ToolReading
<1>2. request \in Seq(ToSet(request)) /\ answer \in Seq(ToSet(answer))
  BY DEF IInv, Sequenced
<1>3. PICK t : t = Of(<<Msg("DEF_MEM", 0), Msg("packet", Bytes(r))>>, given)
  OBVIOUS
<1>4. t \in Seq(ToSet(t)) /\ Len(t) = 2 /\ DOMAIN t = {1, 2} /\ t[2].kind = "packet" /\ t[2].body = Bytes(r)
  BY ONLY <1>3, DefiningPair
<1>5. request' = request \o t
  BY <1>3
<1>6. \A m \in ToSet(request) : ~(m.kind = "DEF_MEM" /\ m.of = given)
  BY DEF Unset, Sets
<1>7. \A i \in DOMAIN request' : request'[i].kind = "DEF_MEM" /\ request'[i].of = given =>
        i + 1 = Len(request') /\ request'[i + 1].kind = "packet" /\ request'[i + 1].body = Bytes(r)
  <2>1. SetsLast(request', r, given)
    BY ONLY <1>2, <1>4, <1>5, <1>6, DefiningAdds
  <2>. QED
    BY ONLY <2>1 DEF SetsLast
<1>8. \A m \in Replied : ~(m.kind = "ACK" /\ m.body = "DEF_MEM" /\ m.of = given)
  BY DEF Unset, Acks
<1>9. \A i \in DOMAIN answer : answer[i] \in Replied
  BY <1>2 DEF Replied, ToSet
<1>10. DOMAIN tty' = {}
  BY OneOrTwo
<1>. QED
  BY ONLY <1>1, <1>7, <1>8, <1>9, <1>10 DEF Setting, Sets, Acks

LEMMA DefiningTool ==
    ASSUME IInv, Heads, Tool, NEW r \in Known, script = Defining(r), got = <<>>,
           (pc = "step" /\ Unset) \/ (pc = "wait" /\ (Sound => Setting(r)))
    PROVE  Follows(r)
<1>1. /\ (Sound' => Sound) /\ UNCHANGED <<answer, given, range, blocks, listed, writing>>
  BY ToolSound
<1>2. /\ script # <<>> /\ Head(script) = Define(r) /\ Tail(script) = Measuring
  BY LaterSteps
<1>3. /\ Head(script).op = "put" /\ Head(script).message = Msg("DEF_MEM", 0) /\ Head(script).packet = Bytes(r)
      /\ Head(script).message.kind = "DEF_MEM"
  BY <1>2, DumpSteps, Fields
<1>4. Expected = "ACK" /\ ~Stores /\ Subject = "DEF_MEM"
  BY <1>3 DEF Expected, Stores, Subject
<1>5. Send \/ Receive \/ WrongAnswer \/ NoAnswer
  BY <1>2, <1>3 DEF Tool, SendSyn, RecvAck, NoAck, Tell, Crash, open_flight_list, next_flight, seek_mem,
                    download_section, SaveSection, SaveDatabase, Return, At
<1>. USE DEF tool, work, trouble, wire, promised, device
<1>6. CASE Send
  <2>1. /\ request' = request \o Of(<<Msg("DEF_MEM", 0), Msg("packet", Bytes(r))>>, given) /\ tty' = <<>>
        /\ UNCHANGED <<script, got>> /\ pc' = "wait" /\ pc = "step"
    BY <1>3, <1>6 DEF Send, FlushAndWrite, At
  <2>2. Setting(r)'
    BY <2>1, SettingSent
  <2>. QED
    BY <2>1, <2>2 DEF Follows, Later
<1>7. CASE Receive
  <2>1. /\ pc = "wait" /\ tty # <<>> /\ tty' = Tail(tty) /\ Head(tty).kind \in {"ACK", "garbage"}
        /\ UNCHANGED <<request, got>> /\ pc' = "step" /\ script' = Measuring
    BY <1>2, <1>4, <1>7 DEF Receive, Read, Done
  <2>2. ASSUME Sound'
        PROVE  Empty' /\ Ranged(r)'
    <3>1. ~Misread(Head(tty), "DEF_MEM")
      BY <1>4, <1>7, <2>2 DEF Receive, Notice, Sound
    <3>2. Acks(Head(tty))
      BY <2>1, <3>1 DEF Misread, Acks
    <3>3. tty \in Seq(ToSet(tty))
      BY DEF IInv, Sequenced
    <3>4. 1 \in DOMAIN tty /\ Acks(tty[1])
      BY <2>1, <3>2, <3>3, Others
    <3>5. Len(tty) = 1 /\ answer = <<>> /\ Served(r)
      BY <1>1, <2>1, <2>2, <3>4 DEF Setting
    <3>6. Len(Tail(tty)) = 0
      BY <2>1, <3>3, <3>5, Others
    <3>7. Tail(tty) = <<>>
      <4>1. Tail(tty) \in Seq(ToSet(Tail(tty)))
        BY <2>1, <3>3, Others
      <4>. QED
        BY <3>6, <4>1, NoneMore
    <3>. QED
      BY <1>1, <2>1, <3>5, <3>7 DEF Served, Empty, Ranged
  <2>. QED
    BY <2>1, <2>2 DEF Follows, Later
<1>8. CASE WrongAnswer \/ NoAnswer
  <2>1. pc' = "idle" /\ code' = "failed"
    BY <1>3, <1>4, <1>8 DEF WrongAnswer, NoAnswer, Finish
  <2>. QED
    BY <2>1 DEF Follows
<1>. QED
  BY <1>5, <1>6, <1>7, <1>8

\* A single message that is read leaves nothing.
LEMMA SingleRead ==
    ASSUME IInv, Tool, Single, tty # <<>>, tty' = Tail(tty), UNCHANGED request
    PROVE  Empty'
<1>1. UNCHANGED <<answer, writing>>
  BY ToolMoves
<1>2. request \in Seq(ToSet(request)) /\ answer \in Seq(ToSet(answer)) /\ tty \in Seq(ToSet(tty))
  BY DEF IInv, Sequenced
<1>3. Len(tty) >= 1 /\ Len(tty) \in Nat /\ Len(Tail(tty)) = Len(tty) - 1 /\ Tail(tty) \in Seq(ToSet(Tail(tty)))
  BY <1>2, Others
<1>4. Len(request) \in Nat /\ Len(answer) \in Nat
  BY <1>2, LenProperties
<1>5. Len(request) + Len(answer) + Len(tty) <= 1 /\ writing = NoWrite
  BY DEF Single
<1>6. Len(request) = 0 /\ Len(answer) = 0 /\ Len(Tail(tty)) = 0
  BY ONLY <1>3, <1>4, <1>5
<1>7. request = <<>> /\ answer = <<>> /\ Tail(tty) = <<>>
  BY <1>2, <1>3, <1>6, NoneMore
<1>. QED
  BY <1>1, <1>5, <1>7 DEF Empty

\* Where there was nothing, a request is all there is.
LEMMA SingleAsked ==
    ASSUME IInv, Tool, Empty, tty' = <<>>, NEW k, NEW b, request' = request \o Of(<<Msg(k, b)>>, given)
    PROVE  Single' /\ Replied' = {} /\ \A m \in ToSet(request') : m.kind = k /\ m.body = b
<1>1. UNCHANGED <<answer, writing>> /\ request = <<>> /\ answer = <<>> /\ writing = NoWrite
  BY ToolMoves DEF Empty
<1>2. PICK s : s = <<Msg(k, b)>>
  OBVIOUS
<1>3. s \in Seq(ToSet(s)) /\ ToSet(s) = {Msg(k, b)} /\ Len(s) = 1
  BY ONLY <1>2, OneOrTwo
<1>4. /\ Of(s, given) \in Seq(ToSet(Of(s, given))) /\ Len(Of(s, given)) = Len(s)
      /\ ToSet(Of(s, given)) = {[m EXCEPT !.of = given] : m \in ToSet(s)}
  BY ONLY <1>3, Stamping
<1>5. request' = Of(s, given)
  BY <1>1, <1>2, <1>4, NoneMore
<1>6. \A m \in ToSet(request') : m.kind = k /\ m.body = b
  <2>1. \A m \in ToSet(request') : m = [Msg(k, b) EXCEPT !.of = given]
    BY ONLY <1>3, <1>4, <1>5
  <2>2. [Msg(k, b) EXCEPT !.of = given].kind = k /\ [Msg(k, b) EXCEPT !.of = given].body = b
    BY ONLY Fields
  <2>. QED
    BY ONLY <2>1, <2>2
<1>7. Len(request') = 1 /\ Len(answer') = 0 /\ Len(tty') = 0
  BY ONLY <1>1, <1>3, <1>4, <1>5, tty' = <<>>, OneOrTwo
<1>8. Replied' = {}
  BY <1>1, OneOrTwo DEF Replied
<1>9. Single'
  BY ONLY <1>1, <1>7 DEF Single
<1>. QED
  BY ONLY <1>6, <1>8, <1>9

LEMMA MeasuringTool ==
    ASSUME IInv, Heads, Tool, NEW r \in Known, script = Measuring, got = <<>>,
           (pc = "step" /\ (Sound => Empty /\ Ranged(r))) \/ (pc = "wait" /\ (Sound => Single /\ Awaiting(r)))
    PROVE  Follows(r)
<1>1. /\ (Sound' => Sound) /\ UNCHANGED <<answer, given, range, blocks, listed, writing>>
  BY ToolSound
<1>2. /\ script # <<>> /\ Head(script) = Measure /\ Tail(script) = Collecting
  BY LaterSteps
<1>3. /\ Head(script).op = "ask" /\ Head(script).message = Msg("GET_MEM_SECTION", 0) /\ Head(script).expect = "sections"
  BY <1>2, DumpSteps
<1>4. Expected = "sections"
  BY <1>3 DEF Expected
<1>5. Send \/ Receive \/ WrongAnswer \/ NoAnswer
  BY <1>2, <1>3 DEF Tool, SendSyn, RecvAck, NoAck, Tell, Crash, open_flight_list, next_flight, seek_mem,
                    download_section, SaveSection, SaveDatabase, Return, At
<1>. USE DEF tool, work, trouble, wire, promised, device
<1>6. CASE Send
  <2>1. /\ request' = request \o Of(<<Msg("GET_MEM_SECTION", 0)>>, given) /\ tty' = <<>>
        /\ UNCHANGED <<script, got>> /\ pc' = "wait" /\ pc = "step"
    BY <1>3, <1>6 DEF Send, FlushAndWrite, At
  <2>2. ASSUME Sound'
        PROVE  Single' /\ Awaiting(r)'
    <3>1. Empty /\ Ranged(r)
      BY <1>1, <2>1, <2>2
    <3>2. Single' /\ Replied' = {} /\ \A m \in ToSet(request') : m.kind = "GET_MEM_SECTION"
      BY <2>1, <3>1, SingleAsked
    <3>. QED
      BY <1>1, <3>1, <3>2 DEF Awaiting, Ranged
  <2>. QED
    BY <2>1, <2>2 DEF Follows, Later
<1>7. CASE Receive
  <2>1. /\ pc = "wait" /\ tty # <<>> /\ tty' = Tail(tty) /\ Head(tty).kind = "sections"
        /\ UNCHANGED <<request, got>> /\ pc' = "step" /\ script' = Collecting /\ lengths' = Head(tty).body
    BY <1>2, <1>4, <1>7 DEF Receive, Read, Done
  <2>2. ASSUME Sound'
        PROVE  Empty' /\ Measured(r)'
    <3>1. Single /\ Awaiting(r)
      BY <1>1, <2>1, <2>2
    <3>2. Empty'
      BY <2>1, <3>1, SingleRead
    <3>3. Head(tty) \in Replied
      <4>1. tty \in Seq(ToSet(tty))
        BY DEF IInv, Sequenced
      <4>. QED
        BY <2>1, <4>1, Others DEF Replied
    <3>4. listed => Cut(r) /\ Head(tty).body = section_lengths(Blocks(r))
      BY <2>1, <3>1, <3>3 DEF Awaiting
    <3>. QED
      BY <1>1, <2>1, <3>2, <3>4 DEF Measured, Cut
  <2>. QED
    BY <2>1, <2>2 DEF Follows, Later
<1>8. CASE WrongAnswer \/ NoAnswer
  <2>1. pc' = "idle" /\ code' = "failed"
    BY <1>3, <1>4, <1>8 DEF WrongAnswer, NoAnswer, Finish
  <2>. QED
    BY <2>1 DEF Follows
<1>. QED
  BY <1>5, <1>6, <1>7, <1>8

\* What is left of the sections tells how far it has come.
LEMMA MoreSections ==
    ASSUME NEW r \in Known, Taking(r), listed
    PROVE  /\ More => section <= Len(Blocks(r))
           /\ ~More => Saved(r, Len(Blocks(r)))
<1>1. /\ section \in Nat \ {0} /\ lengths = section_lengths(Blocks(r)) /\ Saved(r, section - 1)
  BY DEF Taking, Measured
<1>2. /\ Len(Blocks(r)) \in Nat /\ DOMAIN section_lengths(Blocks(r)) = 1..Len(Blocks(r))
      /\ \A i \in 1..Len(Blocks(r)) : section_lengths(Blocks(r))[i] # 0
  BY BlocksOf
<1>3. DOMAIN lengths = 1..Len(Blocks(r)) /\ \A i \in 1..Len(Blocks(r)) : lengths[i] # 0
  BY <1>1, <1>2
<1>4. More <=> section <= Len(Blocks(r))
  BY <1>1, <1>2, <1>3 DEF More
<1>5. section - 1 <= Len(Blocks(r))
  BY <1>1 DEF Saved
<1>6. ~More => section - 1 = Len(Blocks(r))
  BY <1>1, <1>2, <1>4, <1>5
<1>. QED
  BY <1>1, <1>4, <1>6

\* A section that is saved is the next one.
LEMMA OneMoreSaved ==
    ASSUME NEW r, NEW k \in Nat, Saved(r, k), k + 1 <= Len(Blocks(r)), got' = Append(got, Part(r, k + 1))
    PROVE  Saved(r, k + 1)'
<1>1. got \in Seq(ToSet(got)) /\ Len(got) = k /\ \A i \in 1..k : got[i] = Part(r, i)
  BY DEF Saved
<1>2. got' \in Seq(ToSet(got'))
  BY <1>1, OneMore
<1>3. /\ Len(got') = Len(got) + 1 /\ got'[Len(got) + 1] = Part(r, k + 1)
      /\ \A i \in 1..Len(got) : got'[i] = got[i]
  <2>1. got \in Seq(ToSet(got) \cup {Part(r, k + 1)})
    BY <1>1, SeqMonotonic
  <2>. QED
    BY <2>1, AppendProperties
<1>4. \A i \in 1..k + 1 : i \in 1..k \/ i = k + 1
  OBVIOUS
<1>5. \A i \in 1..k + 1 : got'[i] = Part(r, i)
  BY <1>1, <1>3, <1>4
<1>. QED
  BY <1>1, <1>2, <1>3, <1>5 DEF Saved

\* The sections are read one after the other.
LEMMA StartsTaking ==
    ASSUME IInv, Heads, Tool, NEW r \in Known, script = Collecting, pc = "step", got = <<>>,
           Sound => Empty /\ Measured(r)
    PROVE  Follows(r)
<1>1. /\ (Sound' => Sound) /\ UNCHANGED <<answer, given, range, blocks, listed, writing>>
  BY ToolSound
<1>2. /\ script # <<>> /\ Head(script) = Save /\ Head(script).op = "sections"
  BY LaterSteps, DumpSteps
<1>3. download_section /\ At("sections")
  BY <1>2 DEF Tool, SendSyn, RecvAck, NoAck, Tell, Send, Receive, WrongAnswer, NoAnswer, Crash, open_flight_list,
              next_flight, seek_mem, download_section, SaveSection, SaveDatabase, Return, At
<1>4. /\ UNCHANGED <<request, tty, script, got, lengths>> /\ section' = 1 /\ pc' = "section"
  BY <1>3 DEF download_section, At, wire
<1>5. ASSUME Sound'
      PROVE  Empty' /\ Taking(r)'
  <2>1. Empty /\ Measured(r)
    BY <1>1, <1>5
  <2>2. Empty' /\ Measured(r)'
    BY <1>1, <1>4, <2>1 DEF Empty, Measured, Cut
  <2>3. Saved(r, 0)'
    <3>1. Len(Blocks(r)) \in Nat
      BY BlocksOf
    <3>2. got' = <<>> /\ <<>> \in Seq(ToSet(<<>>)) /\ Len(<<>>) = 0
      BY <1>4, OneOrTwo
    <3>3. got' \in Seq(ToSet(got')) /\ Len(got') = 0
      BY ONLY <3>2
    <3>. QED
      BY <3>1, <3>3 DEF Saved
  <2>4. section' - 1 = 0 /\ section' \in Nat \ {0}
    BY <1>4
  <2>. QED
    BY <2>2, <2>3, <2>4 DEF Taking
<1>. QED
  BY <1>4, <1>5 DEF Follows, Later

LEMMA AsksSection ==
    ASSUME IInv, Heads, Tool, NEW r \in Known, script = Collecting, pc = "section", Sound => Empty /\ Taking(r)
    PROVE  Follows(r)
<1>1. /\ (Sound' => Sound) /\ UNCHANGED <<answer, given, range, blocks, listed, writing>>
  BY ToolSound
<1>2. /\ script # <<>> /\ Tail(script) = <<>>
  BY LaterSteps
<1>3. download_section
  BY <1>2 DEF Tool, SendSyn, RecvAck, NoAck, Tell, Send, Receive, WrongAnswer, NoAnswer, Crash, open_flight_list,
              next_flight, seek_mem, SaveSection, SaveDatabase, Return, At
<1>4. CASE More /\ pc' = "data"
  <2>1. /\ request' = request \o Of(<<Msg("READ_LOGGER_DATA", section)>>, given) /\ tty' = <<>>
        /\ UNCHANGED <<script, got, section, lengths>>
    BY <1>3, <1>4 DEF download_section, Done, FlushAndWrite, At
  <2>2. ASSUME Sound'
        PROVE  Single' /\ Coming(r)'
    <3>1. Empty /\ Taking(r)
      BY <1>1, <2>2
    <3>2. Single' /\ Replied' = {} /\ \A m \in ToSet(request') : m.kind = "READ_LOGGER_DATA" /\ m.body = section
      BY <2>1, <3>1, SingleAsked
    <3>3. Taking(r)'
      BY <1>1, <2>1, <3>1 DEF Taking, Measured, Cut, Saved
    <3>4. listed => section <= Len(Blocks(r))
      BY <1>4, <3>1, MoreSections
    <3>. QED
      BY <1>1, <2>1, <3>2, <3>3, <3>4 DEF Coming
  <2>. QED
    BY <1>4, <2>1, <2>2 DEF Follows, Later
<1>5. CASE ~More /\ pc' = "step"
  <2>1. UNCHANGED <<request, tty, got>> /\ script' = <<>>
    BY <1>2, <1>3, <1>5 DEF download_section, Done, At, wire
  <2>2. ASSUME Sound'
        PROVE  Empty' /\ Complete(r)'
    <3>1. Empty /\ Taking(r)
      BY <1>1, <2>2
    <3>2. listed => Saved(r, Len(Blocks(r)))
      BY <1>5, <3>1, MoreSections
    <3>. QED
      BY <1>1, <2>1, <3>1, <3>2 DEF Empty, Complete, Saved
  <2>. QED
    BY <1>5, <2>1, <2>2 DEF Follows, Later
<1>. QED
  BY <1>3, <1>4, <1>5 DEF download_section, At, Done

LEMMA TakesSection ==
    ASSUME IInv, Heads, Tool, NEW r \in Known, script = Collecting, pc = "data", Sound => Single /\ Coming(r)
    PROVE  Follows(r)
<1>1. /\ (Sound' => Sound) /\ UNCHANGED <<answer, given, range, blocks, listed, writing>>
  BY ToolSound
<1>2. script # <<>>
  BY LaterSteps
<1>3. SaveSection \/ NoAnswer
  BY <1>2 DEF Tool, SendSyn, RecvAck, NoAck, Tell, Send, Receive, WrongAnswer, Crash, open_flight_list,
              next_flight, seek_mem, download_section, SaveDatabase, Return, At
<1>4. CASE pc' = "idle"
  <2>1. code' = "failed"
    BY <1>3, <1>4 DEF SaveSection, NoAnswer, Finish
  <2>. QED
    BY <1>4, <2>1 DEF Follows
<1>5. CASE pc' # "idle"
  <2>1. SaveSection
    BY <1>3, <1>5 DEF NoAnswer, Finish
  <2>2. /\ Head(tty).kind = "data" /\ tty # <<>> /\ tty' = Tail(tty) /\ section' = section + 1 /\ pc' = "section"
        /\ UNCHANGED <<request, script, lengths>>
        /\ \/ got' = Append(got, Head(tty).body)
           \/ Fault("disk full")
    BY <1>5, <2>1 DEF SaveSection, Read, Finish
  <2>3. ASSUME Sound'
        PROVE  Empty' /\ Taking(r)'
    <3>1. Single /\ Coming(r)
      BY <1>1, <2>3
    <3>2. Empty'
      BY <2>2, <3>1, SingleRead
    <3>3. section \in Nat \ {0} /\ Measured(r) /\ (listed => Saved(r, section - 1) /\ section <= Len(Blocks(r)))
      BY <3>1 DEF Coming, Taking
    <3>4. Measured(r)'
      BY <1>1, <2>2, <3>3 DEF Measured, Cut
    <3>5. listed => Head(tty).body = Part(r, section)
      <4>1. tty \in Seq(ToSet(tty))
        BY DEF IInv, Sequenced
      <4>2. Head(tty) \in Replied
        BY <2>2, <4>1, Others DEF Replied
      <4>. QED
        BY <2>2, <3>1, <4>2 DEF Coming
    <3>6. got' = Append(got, Head(tty).body)
      BY <2>2, <2>3 DEF Fault, Sound
    <3>9. section \in Nat \ {0} /\ section' = section + 1
      BY <2>2, <3>3
    <3>7. ASSUME listed
          PROVE  Saved(r, section - 1)'
      <4>1. PICK k \in Nat : k = section - 1 /\ section = k + 1 /\ section' - 1 = k + 1
        BY ONLY <3>9
      <4>2. Saved(r, k) /\ k + 1 <= Len(Blocks(r)) /\ got' = Append(got, Part(r, k + 1))
        BY <3>3, <3>5, <3>6, <3>7, <4>1
      <4>3. Saved(r, k + 1)'
        BY <4>2, OneMoreSaved
      <4>. QED
        BY <4>1, <4>3 DEF Saved
    <3>8. section' \in Nat \ {0}
      BY ONLY <3>9
    <3>. QED
      BY <1>1, <3>2, <3>4, <3>7, <3>8 DEF Taking
  <2>. QED
    BY <2>2, <2>3 DEF Follows, Later
<1>. QED
  BY <1>4, <1>5

LEMMA DumpReturns ==
    ASSUME IInv, Heads, Tool, NEW r \in Known, script = <<>>, pc = "step", Sound => Empty /\ Complete(r)
    PROVE  Follows(r)
<1>1. /\ (Sound' => Sound) /\ UNCHANGED <<answer, given, range, blocks, listed, writing>>
  BY ToolSound
<1>2. Return
  BY DEF Tool, SendSyn, RecvAck, NoAck, Tell, Send, Receive, WrongAnswer, NoAnswer, Crash, open_flight_list,
         next_flight, seek_mem, download_section, SaveSection, SaveDatabase, At
<1>3. pc' = "idle" /\ tty' = <<>> /\ UNCHANGED <<request, got>>
  BY <1>2 DEF Return, Finish, work
<1>4. Ended(r)'
  BY <1>1, <1>3 DEF Ended, Empty, Complete, Saved
<1>. QED
  BY <1>3, <1>4 DEF Follows

\* The stages differ in what is left of the command.
LEMMA ScriptsDiffer ==
    ASSUME NEW r
    PROVE  /\ Defining(r) # Measuring /\ Defining(r) # Collecting /\ Defining(r) # <<>>
           /\ Measuring # Collecting /\ Measuring # <<>> /\ Collecting # <<>>
<1>1. Len(Defining(r)) = 3 /\ Len(Measuring) = 2 /\ Len(Collecting) = 1 /\ Len(<<>>) = 0
  BY DEF Defining, Measuring, Collecting
<1>. QED
  BY <1>1

LEMMA LaterTool ==
    ASSUME IInv, Heads, Tool, NEW r \in Known, Later(r)
    PROVE  Follows(r) /\ pc # "flights"
<1>1. pc # "flights"
  BY DEF Later
<1>2. CASE script = Defining(r)
  <2>1. got = <<>> /\ ((pc = "step" /\ Unset) \/ (pc = "wait" /\ (Sound => Setting(r))))
    BY <1>2, ScriptsDiffer DEF Later
  <2>. QED
    BY <1>1, <1>2, <2>1, DefiningTool
<1>3. CASE script = Measuring
  <2>1. /\ got = <<>>
        /\ (pc = "step" /\ (Sound => Empty /\ Ranged(r))) \/ (pc = "wait" /\ (Sound => Single /\ Awaiting(r)))
    BY <1>3, ScriptsDiffer DEF Later
  <2>. QED
    BY <1>1, <1>3, <2>1, MeasuringTool
<1>4. CASE script = Collecting
  <2>1. \/ pc = "step" /\ got = <<>> /\ (Sound => Empty /\ Measured(r))
        \/ pc = "section" /\ (Sound => Empty /\ Taking(r))
        \/ pc = "data" /\ (Sound => Single /\ Coming(r))
    BY <1>4, ScriptsDiffer DEF Later
  <2>. QED
    BY <1>1, <1>4, <2>1, StartsTaking, AsksSection, TakesSection
<1>5. CASE script = <<>>
  <2>1. pc = "step" /\ (Sound => Empty /\ Complete(r))
    BY <1>5, ScriptsDiffer DEF Later
  <2>. QED
    BY <1>1, <1>5, <2>1, DumpReturns
<1>. QED
  BY <1>2, <1>3, <1>4, <1>5 DEF Later

\* A step of filsertool.
LEMMA DumpedTool ==
    ASSUME IInv, Heads, Tool, Flown, Dumped
    PROVE  Dumped'
<1>1. UNCHANGED command /\ pc # "idle" /\ (next_flight \/ flights' = flights)
  BY ToolMoves
<1>. SUFFICES ASSUME Dumps
              PROVE  /\ pc' # "idle" => Begun' \/ \E r \in Known : About(r)' /\ Later(r)'
                     /\ pc' = "idle" /\ code' = "ok" => \E r \in Known : About(r)' /\ Ended(r)'
  BY <1>1 DEF Dumped, Dumps
<1>2. CASE Begun
  BY <1>2, BegunTool DEF Proceeds
<1>3. CASE \E r \in Known : About(r) /\ Later(r)
  <2>1. PICK r \in Known : About(r) /\ Later(r)
    BY <1>3
  <2>2. Follows(r) /\ pc # "flights"
    BY <2>1, LaterTool
  <2>3. flights' = flights
    BY <1>1, <2>2 DEF next_flight
  <2>4. About(r)'
    BY <1>1, <2>1, <2>3 DEF About
  <2>. QED
    BY <2>2, <2>4 DEF Follows
<1>. QED
  BY <1>1, <1>2, <1>3 DEF Dumped

\* A command that begins.
LEMMA DumpBegins ==
    ASSUME IInv, Begin, Flown
    PROVE  Flown' /\ Dumped'
<1>1. /\ pc' = "step" /\ given' = given + 1 /\ got' = <<>> /\ flights' = <<>> /\ UNCHANGED <<request, answer, tty>>
  BY DEF Begin, wire
<1>2. /\ command'.name = "raw_mem" => command'.arguments \in Ranges /\ script' = cmd_raw_mem(command'.arguments)
      /\ command'.name = "download" => script' = download_flight
  BY DEF Begin, Call, Plain
<1>3. Replied' = Replied
  BY <1>1 DEF Replied
<1>4. given \in Nat /\ \A m \in ToSet(request) \cup Replied : m.of \in 0..given
  BY DEF IInv, Stamped
<1>5. given' > 0 /\ \A m \in ToSet(request) \cup Replied : m.of # given'
  BY <1>1, <1>4
<1>6. Flown'
  <2>1. flights' \in Seq(FlightRanges)
    BY <1>1
  <2>. QED
    BY <1>2, <1>3, <1>5, <2>1 DEF Flown
<1>7. Unset'
  BY <1>1, <1>3, <1>5 DEF Unset, Sets, Acks
<1>8. Dumps' => script' \in Early(command'.name, command'.arguments)
  <2>1. CASE command'.name = "raw_mem"
    <3>1. script' = <<Syn, Check, Syn, Define(command'.arguments), Measure, Save>>
      BY <1>2, <2>1, DumpScripts
    <3>. QED
      BY <2>1, <3>1 DEF Early, Printing
  <2>2. CASE command'.name = "download"
    <3>1. script' = <<Syn, Check, Syn, Syn, Do("list"), Do("seek"), Measure, Save>>
      BY <1>2, <2>2, DumpScripts
    <3>. QED
      BY <2>2, <3>1 DEF Early, Loading
  <2>. QED
    BY <2>1, <2>2 DEF Dumps
<1>9. Dumps' => Begun'
  BY <1>1, <1>7, <1>8 DEF Begun
<1>. QED
  BY <1>1, <1>6, <1>9 DEF Dumped, Dumps

\* The inductive invariant.
LEMMA InitDInv ==
    ASSUME Init
    PROVE  DInv
<1>1. UInv
  BY InitRInv DEF RInv
<1>2. Replied = {} /\ flights = <<>> /\ pc = "idle" /\ code = "none" /\ command.name = "none"
  BY OneOrTwo DEF Init, Replied
<1>3. flights \in Seq(FlightRanges)
  BY <1>2
<1>. QED
  BY <1>1, <1>2, <1>3 DEF DInv, Flown, Dumped

LEMMA DInvStep ==
    ASSUME DInv, [Next]_vars
    PROVE  DInv'
<1>1. UInv' /\ IInv /\ Heads /\ Flown /\ Dumped
  BY UInvStep DEF DInv, UInv
<1>2. CASE Begin
  BY <1>1, <1>2, DumpBegins DEF DInv
<1>3. CASE Tool
  BY <1>1, <1>3, FlownTool, DumpedTool DEF DInv
<1>4. CASE Outside
  BY <1>1, <1>4, FlownOutside, DumpedOutside DEF DInv
<1>5. CASE UNCHANGED vars
  <2>1. /\ UNCHANGED <<request, answer, tty, writing, given, command, script, pc, got, code, flights, lengths, section>>
        /\ UNCHANGED <<range, blocks, listed, troubles>>
    BY <1>5 DEF vars, wire, trouble, device, state, disk, tool, work
  <2>2. Flown'
    BY <1>1, <2>1 DEF Flown, Replied
  <2>3. Unset => Unset'
    BY <2>1 DEF Unset, Sets, Acks, Replied
  <2>4. Begun => Begun'
    BY <2>1, <2>3 DEF Begun
  <2>5. ASSUME NEW r
        PROVE  /\ (About(r) <=> About(r)') /\ (Ranged(r) <=> Ranged(r)') /\ (Measured(r) <=> Measured(r)')
               /\ (Taking(r) <=> Taking(r)') /\ (Complete(r) <=> Complete(r)') /\ (Empty <=> Empty') /\ (Single <=> Single')
               /\ (Sound <=> Sound')
    <3>1. /\ (About(r) <=> About(r)') /\ (Ranged(r) <=> Ranged(r)')
          /\ (Empty <=> Empty') /\ (Single <=> Single') /\ (Sound <=> Sound')
      BY <2>1 DEF About, Ranged, Empty, Single, Sound
    <3>2. (Measured(r) <=> Measured(r)') /\ (Complete(r) <=> Complete(r)')
      BY <2>1 DEF Measured, Cut, Complete, Saved
    <3>3. Taking(r) <=> Taking(r)'
      BY <2>1, <3>2 DEF Taking, Saved
    <3>. QED
      BY <3>1, <3>2, <3>3
  <2>6. ASSUME NEW r
        PROVE  (Setting(r) => Setting(r)') /\ (Awaiting(r) => Awaiting(r)') /\ (Coming(r) => Coming(r)')
    <3>1. Setting(r) => Setting(r)'
      BY <2>1 DEF Setting, Sets, Acks, Replied, Served, Ranged
    <3>2. Awaiting(r) => Awaiting(r)'
      BY <2>1 DEF Awaiting, Ranged, Replied, Cut
    <3>3. Coming(r) => Coming(r)'
      BY <2>1, <2>5 DEF Coming, Replied
    <3>. QED
      BY <3>1, <3>2, <3>3
  <2>7. \A r : Later(r) => Later(r)'
    BY <2>1, <2>3, <2>5, <2>6 DEF Later
  <2>8. \A r : Ended(r) => Ended(r)'
    BY <2>5 DEF Ended
  <2>9. Dumped'
    BY <1>1, <2>1, <2>4, <2>5, <2>7, <2>8 DEF Dumped, Dumps
  <2>. QED
    BY <1>1, <2>2, <2>9 DEF DInv
<1>. QED
  BY <1>2, <1>3, <1>4, <1>5 DEF Next, Outside

\* What is saved of a range is the range.
LEMMA DumpIsTheRange ==
    ASSUME DInv
    PROVE  MemoryIsTheRange
<1>. DEFINE asked == IF command.name = "raw_mem" THEN command.arguments ELSE flights[Len(flights) - 1]
<1>. SUFFICES ASSUME pc = "idle", code = "ok", listed, Sound,
                     command.name = "raw_mem" \/ (command.name = "download" /\ Len(flights) > 1)
              PROVE  IF Len(got) = MaxBlocks
                     THEN Tile(got, asked[1], Last(got)[2]) /\ Last(got)[2] <= asked[2]
                     ELSE Tile(got, asked[1], Min({asked[2], Max({asked[1], MemorySize})}))
  BY DEF MemoryIsTheRange, Sound
<1>1. PICK r \in Known : About(r) /\ Ended(r)
  BY DEF DInv, Dumped, Dumps
<1>2. asked = r
  BY <1>1 DEF About
<1>3. Saved(r, Len(Blocks(r)))
  BY <1>1 DEF Ended, Complete
<1>4. IF Len(got) = MaxBlocks
      THEN Tile(got, r[1], Last(got)[2]) /\ Last(got)[2] <= r[2]
      ELSE Tile(got, r[1], Min({r[2], Max({r[1], MemorySize})}))
  BY <1>3, PartsTile DEF Saved
<1>. QED
  BY <1>2, <1>4

\* While raw_mem or download is at work: before DEF_MEM nothing of the command
\* is anywhere, then DEF_MEM is the last request, and its range is set when the
\* ACK is under way; from then on one message at most is on its way, and what
\* has been saved is the beginning of the range.
THEOREM DumpsInStep == Spec => []DInv
BY InitDInv, DInvStep, PTL DEF Spec

\* What raw_mem prints and download saves is the memory from the first address
\* to the last, on a line that hurts no message.
THEOREM MemoryIsSaved == Spec => []MemoryIsTheRange
BY DumpsInStep, DumpIsTheRange, PTL

=============================================================================
