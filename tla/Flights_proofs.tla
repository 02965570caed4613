----------------------------- MODULE Flights_proofs -----------------------------
(***************************************************************************)
(* Proofs about the flights of LX loggers: how lxn-logger downloads them   *)
(* from fakefilser (FilserSession), and how lxn2igc converts them          *)
(* (LxnToIgc).                                                             *)
(*                                                                         *)
(* The first half shows one after the other: which kinds of messages can   *)
(* be under way at each step (InStep); that, unless an ACK is late, the    *)
(* host waits for one answer at a time (OneByOne); what the answers carry  *)
(* (Carried); that the device has the range the user chose (Aimed); and so *)
(* what is in the file (FileIsTheFlight).  When the line spoils nothing,   *)
(* the answer is always the one the host waits for (Sound).                *)
(*                                                                         *)
(* The second half relates the bytes lxn2igc has not read to the packets   *)
(* of the file (Place), its records to those of the conversion at once     *)
(* (Told), and shows that each action keeps both (LxnInv).                 *)
(***************************************************************************)
EXTENDS FilserSession, FlightFiles, SequenceLemmas

(***************************************************************************)
(* The line of FilserSession is three queues of messages.  Of a queue the  *)
(* proofs need the kinds of its messages, and which of them are not behind *)
(* all others.                                                             *)
(***************************************************************************)
Queue(s) == s \in Seq(ToSet(s))
Kinds(s) == {m.kind : m \in ToSet(s)}
Early(s) == {s[i].kind : i \in 1..(Len(s) - 1)}

LEMMA NoQueue ==
    Queue(<<>>) /\ Kinds(<<>>) = {} /\ Early(<<>>) = {} /\ ToSet(<<>>) = {} /\ Len(<<>>) = 0
<1>1. Queue(<<>>) /\ ToSet(<<>>) = {} /\ Len(<<>>) = 0
  BY OneOrTwo DEF Queue
<1>2. 1..(0 - 1) = {}
  OBVIOUS
<1>. QED
  BY <1>1, <1>2 DEF Kinds, Early

LEMMA QueueIs ==
    ASSUME NEW s, Queue(s)
    PROVE  /\ Len(s) \in Nat /\ DOMAIN s = 1..Len(s) /\ (Len(s) = 0 <=> s = <<>>)
           /\ Early(s) \subseteq Kinds(s)
           /\ s # <<>> => Head(s) \in ToSet(s) /\ Head(s).kind \in Kinds(s)
           /\ \A m \in ToSet(s) : m.kind \in Kinds(s)
<1>1. Len(s) \in Nat /\ DOMAIN s = 1..Len(s) /\ (Len(s) = 0 <=> s = <<>>)
  BY LenProperties, NoneMore DEF Queue
<1>2. s # <<>> => Head(s) \in ToSet(s)
  BY Others DEF Queue
<1>3. \A i \in 1..(Len(s) - 1) : s[i] \in ToSet(s)
  <2>1. \A i \in 1..(Len(s) - 1) : i \in DOMAIN s
    BY <1>1
  <2>. QED
    BY <2>1 DEF ToSet
<1>. QED
  BY <1>1, <1>2, <1>3 DEF Kinds, Early

\* One message more.
LEMMA Sending ==
    ASSUME NEW s, Queue(s), NEW m, NEW t, t = Append(s, m)
    PROVE  /\ Queue(t) /\ t # <<>> /\ ToSet(t) = ToSet(s) \cup {m} /\ Len(t) = Len(s) + 1
           /\ Kinds(t) = Kinds(s) \cup {m.kind} /\ Early(t) = Kinds(s)
<1>1. /\ t \in Seq(ToSet(t)) /\ ToSet(t) = ToSet(s) \cup {m}
  BY OneMore DEF Queue
<1>2. /\ Len(t) = Len(s) + 1 /\ Len(s) \in Nat /\ DOMAIN s = 1..Len(s) /\ \A i \in 1..Len(s) : t[i] = s[i]
  BY AppendProperties, LenProperties DEF Queue
<1>3. t # <<>>
  BY <1>2, EmptySeq
<1>4. 1..(Len(t) - 1) = DOMAIN s
  BY <1>2
<1>5. Early(t) = {s[i].kind : i \in DOMAIN s}
  BY <1>2, <1>4 DEF Early
<1>6. {s[i].kind : i \in DOMAIN s} = Kinds(s)
  BY DEF Kinds, ToSet
<1>7. Kinds(t) = Kinds(s) \cup {m.kind}
  BY <1>1 DEF Kinds
<1>. QED
  BY <1>1, <1>2, <1>3, <1>5, <1>6, <1>7 DEF Queue

\* The first message taken away.
LEMMA Taking ==
    ASSUME NEW s, Queue(s), s # <<>>, NEW t, t = Tail(s)
    PROVE  /\ Queue(t) /\ ToSet(t) \subseteq ToSet(s) /\ Len(t) = Len(s) - 1
           /\ Kinds(t) \subseteq Kinds(s) /\ Early(t) \subseteq Early(s)
           /\ Kinds(s) = Kinds(t) \cup {Head(s).kind}
           /\ Head(s) \in ToSet(s) /\ Head(s).kind \in Kinds(s)
           /\ Head(s).kind \notin Early(s) => t = <<>>
<1>1. /\ 1 \in DOMAIN s /\ Head(s) = s[1] /\ s[1] \in ToSet(s) /\ Len(s) >= 1 /\ Len(s) \in Nat
      /\ t \in Seq(ToSet(t)) /\ ToSet(t) \subseteq ToSet(s) /\ Len(t) = Len(s) - 1
      /\ \A i \in DOMAIN t : i + 1 \in DOMAIN s /\ i + 1 # 1 /\ t[i] = s[i + 1]
  BY Others DEF Queue
<1>2. DOMAIN t = 1..(Len(s) - 1) /\ DOMAIN s = 1..Len(s)
  BY <1>1, LenProperties DEF Queue
<1>3. Kinds(t) \subseteq Kinds(s)
  BY <1>1 DEF Kinds
<1>4. \A i \in 1..(Len(t) - 1) : i \in DOMAIN t /\ i + 1 \in 1..(Len(s) - 1)
  BY <1>1, <1>2
<1>5. Early(t) \subseteq Early(s)
  BY <1>1, <1>4 DEF Early
<1>6. \A i \in DOMAIN s : i = 1 \/ (i - 1 \in DOMAIN t /\ i - 1 + 1 = i)
  BY <1>1, <1>2
<1>7. \A i \in DOMAIN s : s[i] = s[1] \/ s[i] \in ToSet(t)
  BY <1>1, <1>6 DEF ToSet
<1>8. ToSet(s) \subseteq ToSet(t) \cup {s[1]}
  BY <1>7 DEF ToSet
<1>9. Kinds(s) = Kinds(t) \cup {Head(s).kind}
  BY <1>1, <1>8 DEF Kinds
<1>10. Head(s).kind \notin Early(s) => t = <<>>
  <2>1. t # <<>> => 1 \in 1..(Len(s) - 1)
    <3>1. t # <<>> => Len(t) # 0
      BY <1>1, EmptySeq
    <3>. QED
      BY <1>1, <3>1
  <2>. QED
    BY <1>1, <2>1 DEF Early
<1>. QED
  BY <1>1, <1>3, <1>5, <1>9, <1>10 DEF Kinds, Queue

\* The first message replaced.
LEMMA Hurting ==
    ASSUME NEW s, Queue(s), s # <<>>, NEW m, NEW t, t = <<m>> \o Tail(s)
    PROVE  /\ Queue(t) /\ t # <<>> /\ ToSet(t) \subseteq ToSet(s) \cup {m} /\ Len(t) = Len(s)
           /\ m.kind \in Kinds(t)
           /\ Kinds(t) \subseteq Kinds(s) \cup {m.kind} /\ Early(t) \subseteq Early(s) \cup {m.kind}
           /\ Kinds(s) \subseteq Kinds(t) \cup {Head(s).kind}
<1>. DEFINE u == Tail(s)  v == <<m>>
<1>1. /\ Queue(u) /\ ToSet(u) \subseteq ToSet(s) /\ Len(u) = Len(s) - 1
      /\ Kinds(s) = Kinds(u) \cup {Head(s).kind}
  BY Taking
<1>2. /\ 1 \in DOMAIN s /\ Len(s) >= 1 /\ Len(s) \in Nat
      /\ \A i \in DOMAIN u : i + 1 \in DOMAIN s /\ u[i] = s[i + 1]
  BY Others DEF Queue
<1>3. v \in Seq(ToSet(v)) /\ ToSet(v) = {m} /\ Len(v) = 1 /\ DOMAIN v = {1} /\ v[1] = m
  BY OneOrTwo
<1>. HIDE DEF u, v
<1>4. /\ t \in Seq(ToSet(t)) /\ ToSet(t) = ToSet(v) \cup ToSet(u) /\ Len(t) = Len(v) + Len(u)
      /\ DOMAIN t = 1..Len(t) /\ DOMAIN u = 1..Len(u)
      /\ \A i \in DOMAIN v : t[i] = v[i]
      /\ \A i \in DOMAIN t : i \in DOMAIN v \/ (i - Len(v) \in DOMAIN u /\ t[i] = u[i - Len(v)])
  <2>1. t = v \o u
    BY DEF u, v
  <2>2. v \in Seq(ToSet(v)) /\ u \in Seq(ToSet(u))
    BY <1>1, <1>3 DEF Queue
  <2>3. /\ v \o u \in Seq(ToSet(v \o u)) /\ ToSet(v \o u) = ToSet(v) \cup ToSet(u)
        /\ Len(v \o u) = Len(v) + Len(u)
        /\ DOMAIN v = 1..Len(v) /\ DOMAIN u = 1..Len(u) /\ DOMAIN (v \o u) = 1..Len(v \o u)
    BY <2>2, Joined
  <2>4. \A i \in DOMAIN v : (v \o u)[i] = v[i]
    BY <2>2, Joined
  <2>5. \A i \in DOMAIN (v \o u) : i \in DOMAIN v \/ (i - Len(v) \in DOMAIN u /\ (v \o u)[i] = u[i - Len(v)])
    BY <2>2, Joined
  <2>. QED
    BY <2>1, <2>3, <2>4, <2>5
<1>5. Len(t) = Len(s) /\ t # <<>>
  <2>1. Len(t) = Len(s)
    BY <1>1, <1>2, <1>3, <1>4
  <2>. QED
    BY <1>2, <2>1, EmptySeq
<1>6. ToSet(t) = ToSet(u) \cup {m}
  BY <1>3, <1>4
<1>7. \A i \in 1..(Len(t) - 1) : t[i] = m \/ \E j \in 1..(Len(s) - 1) : t[i] = s[j]
  <2>. SUFFICES ASSUME NEW i \in 1..(Len(t) - 1), i # 1
                PROVE  \E j \in 1..(Len(s) - 1) : t[i] = s[j]
    BY <1>3, <1>4
  <2>1. i \in DOMAIN t /\ i \notin DOMAIN v /\ i - 1 + 1 = i /\ i \in 1..(Len(s) - 1)
    BY <1>2, <1>3, <1>4, <1>5
  <2>2. i - 1 \in DOMAIN u /\ t[i] = u[i - 1]
    BY <1>3, <1>4, <2>1
  <2>3. t[i] = s[i]
    BY <1>2, <2>1, <2>2
  <2>. QED
    BY <2>1, <2>3
<1>8. Early(t) \subseteq Early(s) \cup {m.kind}
  <2>1. \A i \in 1..(Len(t) - 1) : t[i].kind = m.kind \/ \E j \in 1..(Len(s) - 1) : t[i].kind = s[j].kind
    BY <1>7
  <2>2. \A i \in 1..(Len(t) - 1) : t[i].kind \in Early(s) \cup {m.kind}
    BY <2>1 DEF Early
  <2>. QED
    BY <2>2 DEF Early
<1>9. Kinds(t) = Kinds(u) \cup {m.kind}
  BY <1>6 DEF Kinds
<1>. QED
  BY <1>1, <1>4, <1>5, <1>6, <1>8, <1>9 DEF Queue

\* A function on 1..n is a queue.
LEMMA Row ==
    ASSUME NEW n \in Nat, NEW S, NEW q \in [1..n -> S]
    PROVE  Queue(q) /\ Len(q) = n /\ DOMAIN q = 1..n /\ ToSet(q) \subseteq S
<1>1. q \in Seq(S)
  <2>1. \A T : [1..n -> T] \subseteq Seq(T)
    BY SeqDef
  <2>. QED
    BY <2>1
<1>2. q \in Seq(ToSet(q)) /\ DOMAIN q = 1..Len(q) /\ Len(q) \in Nat
  BY <1>1, Members
<1>3. DOMAIN q = 1..n
  OBVIOUS
<1>4. Len(q) = n
  BY <1>2, <1>3
<1>5. ToSet(q) \subseteq S
  BY <1>3 DEF ToSet
<1>. QED
  BY <1>2, <1>3, <1>4, <1>5 DEF Queue

-----------------------------------------------------------------------------
(* FilserSession: which messages can be under way when.                    *)
Commands == {"CHECK_MEM_SETTINGS", "READ_FLIGHT_LIST", "GET_MEM_SECTION", "READ_LOGGER_DATA"}
Answers == {"settings", "sections", "data"}
Entries == {"flight", "null"}

\* Where lxn-logger waits for the answer to a command, and where it does not.
Asked == [settings |-> "CHECK_MEM_SETTINGS", flights |-> "READ_FLIGHT_LIST",
          lengths |-> "GET_MEM_SECTION", data |-> "READ_LOGGER_DATA"]
Waiting == {"settings", "flights", "lengths", "data"}
Calm == {"syn", "ack", "check", "list", "prompt", "def", "seek", "sections", "section"}
Seeking == {"seek", "sections", "lengths"}

\* Where it is with a flight the user has chosen or may choose.
Chosen == \/ pc \in {"prompt", "def", "seek", "sections", "lengths", "section", "data"}
          \/ pc \in {"syn", "ack"} /\ goal = "def"

FlightIndex == {<<flight_address(i), flight_end(i)>> : i \in Flights}
Seek(m) == <<decoded_address(m.body[1]), decoded_address(m.body[2])>>

Types ==
    /\ Queue(request) /\ Queue(answer) /\ Queue(tty)
    /\ range \in Nat \X Nat /\ listed \in BOOLEAN /\ alive \in BOOLEAN
    /\ \A m \in ToSet(request) : m.kind = "DEF_MEM" => Seek(m) \in Nat \X Nat
    /\ \A m \in ToSet(answer) \cup ToSet(tty) : m.kind = "flight" => m.body \in FlightIndex
    /\ pc \in Calm \cup Waiting \cup Stopped /\ goal \in {"check", "list", "def"}
    /\ flights \in Seq(FlightIndex) /\ wanted \in 0..Len(flights)
    /\ Chosen => flights # <<>> /\ (pc # "prompt" => wanted # 0)
    /\ pc \notin Stopped /\ ~Chosen => wanted = 0

\* A command is behind all other requests, and when its answer is there
\* nothing is behind the answer.
Ordered ==
    /\ \A k \in Commands : k \notin Early(request)
    /\ \A k \in Answers : k \in Kinds(answer) => k \notin Early(answer) /\ request = <<>>
    /\ \A k \in Answers : k \in Kinds(tty) => k \notin Early(tty) /\ answer = <<>> /\ request = <<>>

Phase ==
    /\ pc \in Calm => \A k \in Commands : k \notin Kinds(request)
    /\ pc \in Calm \cup {"flights"} => \A k \in Answers : k \notin Kinds(answer) \cup Kinds(tty)
    /\ pc \in Waiting => \A k \in Commands : k # Asked[pc] => k \notin Kinds(request)
    /\ pc \in {"syn", "ack", "check", "settings", "list"} /\ ~Chosen =>
         \A k \in Entries : k \notin Kinds(answer) \cup Kinds(tty)
    /\ pc = "flights" /\ (\E k \in Entries : k \in Kinds(answer) \cup Kinds(tty)) =>
         \A k \in Commands : k \notin Kinds(request)
    /\ pc \in (Calm \cup Waiting) \ Seeking => Kinds(request) \cap {"DEF_MEM", "cut"} = {}
    /\ pc = "section" => request = <<>> /\ answer = <<>> /\ tty = <<>>

\* The device has listed its flights before it cuts a range into sections,
\* and the sections it has are those of the range.
Listed == \/ \E k \in Entries : k \in Kinds(answer) \cup Kinds(tty)
          \/ flights # <<>>
          \/ "GET_MEM_SECTION" \in Kinds(request)

Steady ==
    /\ Listed => listed
    /\ pc \in {"section", "data"} \/ "sections" \in Kinds(answer) \cup Kinds(tty)
         => blocks = mem_blocks(range[1], range[2])
    /\ blocks = <<>> \/ \E f, l \in Nat : blocks = mem_blocks(f, l)

InStep == Types /\ Ordered /\ Phase /\ Steady

-----------------------------------------------------------------------------
\* What the host writes and what it reads.
LEMMA HostSends ==
    ASSUME Types, NEW m, Send(m)
    PROVE  /\ Queue(request') /\ ToSet(request') = ToSet(request) \cup {m} /\ request' # <<>>
           /\ Kinds(request') = Kinds(request) \cup {m.kind} /\ Early(request') = Kinds(request)
           /\ tty' = <<>> /\ Queue(tty') /\ Kinds(tty') = {} /\ Early(tty') = {} /\ ToSet(tty') = {}
           /\ answer' = answer /\ Len(request') = Len(request) + 1 /\ faults' = faults /\ troubles' = troubles
<1>1. /\ tty' = <<>> /\ request' = Append(request, m) /\ Queue(request)
      /\ answer' = answer /\ faults' = faults /\ troubles' = troubles
  BY DEF Types, Send
<1>2. /\ Queue(request') /\ request' # <<>> /\ ToSet(request') = ToSet(request) \cup {m}
      /\ Len(request') = Len(request) + 1
      /\ Kinds(request') = Kinds(request) \cup {m.kind} /\ Early(request') = Kinds(request)
  BY <1>1, Sending, ZenonT(60)
<1>3. Queue(tty') /\ Kinds(tty') = {} /\ Early(tty') = {} /\ ToSet(tty') = {}
  BY <1>1, NoQueue
<1>. QED
  BY <1>1, <1>2, <1>3

LEMMA HostReads ==
    ASSUME Types, tty # <<>>, tty' = Tail(tty)
    PROVE  /\ Queue(tty') /\ ToSet(tty') \subseteq ToSet(tty) /\ Len(tty') = Len(tty) - 1
           /\ Kinds(tty') \subseteq Kinds(tty) /\ Early(tty') \subseteq Early(tty)
           /\ Head(tty) \in ToSet(tty) /\ Head(tty).kind \in Kinds(tty)
           /\ Head(tty).kind \notin Early(tty) => tty' = <<>>
           /\ Kinds(tty) = Kinds(tty') \cup {Head(tty).kind}
BY Taking DEF Types

LEMMA InStepInit == Init => InStep
<1>. SUFFICES ASSUME Init
              PROVE  InStep
  OBVIOUS
<1>1. 0 \in 0..Len(<<>>) /\ <<>> \in Seq(FlightIndex)
  BY EmptySeq
<1>2. Types
  <2>1. Queue(request) /\ Queue(answer) /\ Queue(tty) /\ ToSet(request) = {} /\ ToSet(answer) = {} /\ ToSet(tty) = {}
    BY NoQueue DEF Init
  <2>2. range \in Nat \X Nat /\ listed \in BOOLEAN /\ alive \in BOOLEAN
    BY DEF Init
  <2>3. pc \in Calm \cup Waiting \cup Stopped /\ goal \in {"check", "list", "def"} /\ ~Chosen
    BY DEF Init, Calm, Chosen
  <2>4. flights \in Seq(FlightIndex) /\ wanted \in 0..Len(flights)
    BY <1>1 DEF Init
  <2>. QED
    BY <2>1, <2>2, <2>3, <2>4 DEF Types, Init
<1>3. Ordered /\ Phase
  BY NoQueue DEF Ordered, Phase, Init, Calm, Waiting, Seeking, Commands, Answers, Entries
<1>4. Steady
  BY NoQueue DEF Steady, Listed, Init
<1>. QED
  BY <1>2, <1>3, <1>4 DEF InStep

\* Nothing but the host's own state.
LEMMA StepSendSyn ==
    ASSUME InStep, SendSyn
    PROVE  InStep'
<1>1. Send(Msg("SYN", <<>>)) /\ pc = "syn" /\ pc' = "ack" /\ UNCHANGED <<device, goal, choice>>
  BY DEF SendSyn
<1>. DEFINE m == Msg("SYN", <<>>)
<1>2. m.kind = "SYN"
  BY DEF Msg
<1>. HIDE DEF m
<1>3. /\ Queue(request') /\ ToSet(request') = ToSet(request) \cup {m} /\ request' # <<>>
      /\ Kinds(request') = Kinds(request) \cup {"SYN"} /\ Early(request') = Kinds(request)
      /\ tty' = <<>> /\ Queue(tty') /\ Kinds(tty') = {} /\ Early(tty') = {} /\ ToSet(tty') = {}
      /\ answer' = answer
  BY <1>1, <1>2, HostSends DEF InStep, m
<1>4. Types'
  BY <1>1, <1>2, <1>3 DEF InStep, Types, Chosen, Calm, Stopped, device, choice, Seek
<1>5. Ordered'
  BY <1>1, <1>3 DEF InStep, Ordered, Phase, Calm
<1>6. Phase'
  BY <1>1, <1>3 DEF InStep, Phase, Calm, Chosen, Waiting, Seeking, Commands, Answers, Entries
<1>7. Steady'
  BY <1>1, <1>3 DEF InStep, Steady, Listed, device, choice
<1>. QED
  BY <1>4, <1>5, <1>6, <1>7 DEF InStep

LEMMA StepCheckMemSettings ==
    ASSUME InStep, CheckMemSettings
    PROVE  InStep'
<1>. DEFINE m == Msg("CHECK_MEM_SETTINGS", <<>>)
<1>1. Send(m) /\ pc = "check" /\ pc' = "settings" /\ UNCHANGED <<device, goal, choice>>
  BY DEF CheckMemSettings
<1>2. m.kind = "CHECK_MEM_SETTINGS"
  BY DEF Msg
<1>. HIDE DEF m
<1>3. /\ Queue(request') /\ ToSet(request') = ToSet(request) \cup {m} /\ request' # <<>>
      /\ Kinds(request') = Kinds(request) \cup {"CHECK_MEM_SETTINGS"} /\ Early(request') = Kinds(request)
      /\ tty' = <<>> /\ Queue(tty') /\ Kinds(tty') = {} /\ Early(tty') = {} /\ ToSet(tty') = {}
      /\ answer' = answer
  BY <1>1, <1>2, HostSends DEF InStep
<1>4. Types'
  BY <1>1, <1>2, <1>3 DEF InStep, Types, Chosen, Calm, Waiting, Stopped, device, choice, Seek
<1>5. Ordered'
  BY <1>1, <1>3 DEF InStep, Ordered, Phase, Calm
<1>6. Phase'
  BY <1>1, <1>3 DEF InStep, Phase, Calm, Chosen, Waiting, Asked, Seeking, Commands, Answers, Entries
<1>7. Steady'
  BY <1>1, <1>3 DEF InStep, Steady, Listed, device, choice, Types, Chosen
<1>. QED
  BY <1>4, <1>5, <1>6, <1>7 DEF InStep

LEMMA StepGetMemSection ==
    ASSUME InStep, GetMemSection
    PROVE  InStep'
<1>. DEFINE m == Msg("GET_MEM_SECTION", <<>>)
<1>1. Send(m) /\ pc = "sections" /\ pc' = "lengths" /\ UNCHANGED <<device, goal, choice>>
  BY DEF GetMemSection
<1>2. m.kind = "GET_MEM_SECTION"
  BY DEF Msg
<1>. HIDE DEF m
<1>3. /\ Queue(request') /\ ToSet(request') = ToSet(request) \cup {m} /\ request' # <<>>
      /\ Kinds(request') = Kinds(request) \cup {"GET_MEM_SECTION"} /\ Early(request') = Kinds(request)
      /\ tty' = <<>> /\ Queue(tty') /\ Kinds(tty') = {} /\ Early(tty') = {} /\ ToSet(tty') = {}
      /\ answer' = answer
  BY <1>1, <1>2, HostSends DEF InStep
<1>4. Types'
  BY <1>1, <1>2, <1>3 DEF InStep, Types, Chosen, Calm, Waiting, Stopped, device, choice, Seek
<1>5. Ordered'
  BY <1>1, <1>3 DEF InStep, Ordered, Phase, Calm
<1>6. Phase'
  BY <1>1, <1>3 DEF InStep, Phase, Calm, Chosen, Waiting, Asked, Seeking, Commands, Answers, Entries
<1>7. Steady'
  BY <1>1, <1>3 DEF InStep, Steady, Listed, device, choice, Types, Chosen
<1>. QED
  BY <1>4, <1>5, <1>6, <1>7 DEF InStep

LEMMA StepDownloadSection ==
    ASSUME InStep, DownloadSection
    PROVE  InStep'
<1>. DEFINE m == Msg("READ_LOGGER_DATA", <<section>>)
<1>1. Send(m) /\ pc = "section" /\ pc' = "data" /\ UNCHANGED <<device, goal, choice>>
  BY DEF DownloadSection
<1>2. m.kind = "READ_LOGGER_DATA"
  BY DEF Msg
<1>. HIDE DEF m
<1>3. /\ Queue(request') /\ ToSet(request') = ToSet(request) \cup {m} /\ request' # <<>>
      /\ Kinds(request') = Kinds(request) \cup {"READ_LOGGER_DATA"} /\ Early(request') = Kinds(request)
      /\ tty' = <<>> /\ Queue(tty') /\ Kinds(tty') = {} /\ Early(tty') = {} /\ ToSet(tty') = {}
      /\ answer' = answer
  BY <1>1, <1>2, HostSends DEF InStep
<1>4. Types'
  BY <1>1, <1>2, <1>3 DEF InStep, Types, Chosen, Calm, Waiting, Stopped, device, choice, Seek
<1>5. Ordered'
  BY <1>1, <1>3 DEF InStep, Ordered, Phase, Calm
<1>6. Phase'
  BY <1>1, <1>3 DEF InStep, Phase, Calm, Chosen, Waiting, Asked, Seeking, Commands, Answers, Entries
<1>7. Steady'
  BY <1>1, <1>3 DEF InStep, Steady, Listed, device, choice, Types, Chosen
<1>. QED
  BY <1>4, <1>5, <1>6, <1>7 DEF InStep

LEMMA StepOpenFlightList ==
    ASSUME InStep, OpenFlightList
    PROVE  InStep'
<1>. DEFINE m == Msg("READ_FLIGHT_LIST", <<>>)
<1>1. Send(m) /\ pc = "list" /\ pc' = "flights" /\ flights' = <<>> /\ UNCHANGED <<device, goal, wanted>>
  BY DEF OpenFlightList
<1>2. m.kind = "READ_FLIGHT_LIST"
  BY DEF Msg
<1>. HIDE DEF m
<1>3. /\ Queue(request') /\ ToSet(request') = ToSet(request) \cup {m} /\ request' # <<>>
      /\ Kinds(request') = Kinds(request) \cup {"READ_FLIGHT_LIST"} /\ Early(request') = Kinds(request)
      /\ tty' = <<>> /\ Queue(tty') /\ Kinds(tty') = {} /\ Early(tty') = {} /\ ToSet(tty') = {}
      /\ answer' = answer
  BY <1>1, <1>2, HostSends DEF InStep
<1>4. Types'
  <2>1. flights' \in Seq(FlightIndex) /\ wanted' \in 0..Len(flights')
    BY <1>1, EmptySeq DEF InStep, Types, Chosen, Stopped
  <2>. QED
    BY <1>1, <1>2, <1>3, <2>1 DEF InStep, Types, Chosen, Calm, Waiting, Stopped, device, Seek
<1>5. Ordered'
  BY <1>1, <1>3 DEF InStep, Ordered, Phase, Calm
<1>6. Phase'
  BY <1>1, <1>3 DEF InStep, Phase, Calm, Chosen, Waiting, Asked, Seeking, Commands, Answers, Entries
<1>7. Steady'
  BY <1>1, <1>3 DEF InStep, Steady, Listed, device
<1>. QED
  BY <1>4, <1>5, <1>6, <1>7 DEF InStep

LEMMA BytesAreNumbers ==
    /\ Base \in Nat /\ Base > 1 /\ Worth[1] = 1 /\ Worth[2] = Base /\ Worth[3] = Base * Base
    /\ Worth[3] \in Nat /\ Worth[3] > 0
<1>1. Base \in Nat /\ Base > 1
  BY MemoryAssumption
<1>2. Worth[1] = 1 /\ Worth[2] = Base /\ Worth[3] = Base * Base
  BY DEF Worth
<1>3. Base * Base \in Nat /\ Base * Base > 0
  BY <1>1
<1>. QED
  BY <1>1, <1>2, <1>3

\* A DEF_MEM packet names an address.
LEMMA PacketsDecode ==
    ASSUME NEW a \in Nat
    PROVE  decoded_address(def_mem_packet(a)) \in Nat
<1>. DEFINE p == def_mem_packet(a)
<1>1. \A k \in 1..3 : Worth[k] \in Nat /\ Worth[k] > 0
  <2>1. \A k \in 1..3 : k = 1 \/ k = 2 \/ k = 3
    OBVIOUS
  <2>2. Worth[1] \in Nat /\ Worth[1] > 0 /\ Worth[2] \in Nat /\ Worth[2] > 0
    BY BytesAreNumbers
  <2>3. Worth[3] \in Nat /\ Worth[3] > 0
    BY BytesAreNumbers
  <2>. QED
    BY <2>1, <2>2, <2>3
<1>2. ASSUME NEW k \in 1..3
      PROVE  p[k] \in Nat
  <2>1. p[k] = (a \div Worth[k]) % Base
    BY DEF def_mem_packet
  <2>. DEFINE w == Worth[k]
  <2>2. w \in Nat /\ w > 0 /\ Base \in Nat /\ Base > 1
    BY <1>1, BytesAreNumbers
  <2>. HIDE DEF w
  <2>3. a \div w \in Int
    BY <2>2
  <2>. DEFINE d == a \div w
  <2>4. d \in Int
    BY <2>3
  <2>. HIDE DEF d
  <2>5. d % Base \in Nat
    BY <2>2, <2>4
  <2>. QED
    BY <2>1, <2>5 DEF d, w
<1>. HIDE DEF p
<1>3. p[1] \in Nat /\ p[2] \in Nat /\ p[3] \in Nat /\ Worth[1] \in Nat /\ Worth[2] \in Nat /\ Worth[3] \in Nat
  BY <1>1, <1>2
<1>4. p[3] * Worth[1] \in Nat /\ p[2] * Worth[2] \in Nat /\ p[1] * Worth[3] \in Nat
  <2>1. \A x, y \in Nat : x * y \in Nat
    OBVIOUS
  <2>. QED
    BY <1>3, <2>1
<1>5. decoded_address(p) \in Nat
  <2>1. \A x, y, z \in Nat : x + y + z \in Nat
    OBVIOUS
  <2>. QED
    BY <1>4, <2>1 DEF decoded_address
<1>. QED
  BY <1>5 DEF p

\* The memory of the device.
LEMMA Memory ==
    /\ Lengths \in Seq(Nat \ {0}) /\ Len(Lengths) \in Nat /\ Flights = 1..Len(Lengths)
    /\ \A i \in Flights : flight_address(i) = Total(Lengths, i - 1) /\ flight_end(i) = Total(Lengths, i - 1) + Lengths[i]
    /\ \A i \in Flights : flight_address(i) \in Nat /\ flight_end(i) \in Nat /\ flight_address(i) < flight_end(i)
    /\ MemorySize = Total(Lengths, Len(Lengths)) /\ MemorySize \in Nat
    /\ \A f, l : mem_blocks(f, l) = PartsOf(Lengths, MaxBlocks, f, l)
    /\ MaxBlocks \in Nat \ {0}
<1>1. Lengths \in Seq(Nat \ {0}) /\ MaxBlocks \in Nat \ {0}
  BY MemoryAssumption
<1>2. /\ \A i \in 0..Len(Lengths) : Total(Lengths, i) \in Nat
      /\ \A i \in 1..Len(Lengths) : Lengths[i] \in Nat \ {0} /\ Total(Lengths, i) = Total(Lengths, i - 1) + Lengths[i]
      /\ Len(Lengths) \in Nat
  BY <1>1, TotalsRise
<1>3. Flights = 1..Len(Lengths)
  BY <1>1, LenProperties DEF Flights
<1>4. \A i : flight_address(i) = Total(Lengths, i - 1) /\ flight_end(i) = Total(Lengths, i - 1) + Lengths[i]
  BY DEF flight_address, flight_end, Total
<1>5. \A i \in Flights : flight_address(i) \in Nat /\ flight_end(i) \in Nat /\ flight_address(i) < flight_end(i)
  <2>. SUFFICES ASSUME NEW i \in Flights
                PROVE  Total(Lengths, i - 1) \in Nat /\ Lengths[i] \in Nat \ {0}
    BY <1>4
  <2>1. i - 1 \in 0..Len(Lengths) /\ i \in 1..Len(Lengths)
    BY <1>2, <1>3
  <2>. QED
    BY <1>2, <2>1
<1>6. MemorySize = Total(Lengths, Len(Lengths)) /\ MemorySize \in Nat
  <2>1. Len(Lengths) + 1 - 1 = Len(Lengths) /\ Len(Lengths) \in 0..Len(Lengths)
    BY <1>2
  <2>2. MemorySize = Total(Lengths, Len(Lengths) + 1 - 1)
    BY <1>4 DEF MemorySize
  <2>. QED
    BY <1>2, <2>1, <2>2
<1>7. \A f, l : mem_blocks(f, l) = PartsOf(Lengths, MaxBlocks, f, l)
  <2>. SUFFICES ASSUME NEW f, NEW l
                PROVE  mem_blocks(f, l) = PartsOf(Lengths, MaxBlocks, f, l)
    OBVIOUS
  <2>1. Touched(f, l) = Reached(Lengths, f, l)
    BY <1>3, <1>4 DEF Touched, Reached
  <2>. QED
    BY <1>4, <2>1 DEF mem_blocks, PartsOf
<1>. QED
  BY <1>1, <1>2, <1>3, <1>4, <1>5, <1>6, <1>7

LEMMA IndexIs ==
    ASSUME NEW e \in FlightIndex
    PROVE  \E i \in Flights : e = <<flight_address(i), flight_end(i)>> /\ e[1] \in Nat /\ e[2] \in Nat
<1>1. PICK i \in Flights : e = <<flight_address(i), flight_end(i)>>
  BY DEF FlightIndex
<1>2. flight_address(i) \in Nat /\ flight_end(i) \in Nat
  BY Memory
<1>. QED
  BY <1>1, <1>2

LEMMA StepSeekMem ==
    ASSUME InStep, SeekMem
    PROVE  InStep'
<1>. DEFINE m == Msg("DEF_MEM", <<def_mem_packet(flights[wanted][1]), def_mem_packet(flights[wanted][2])>>)
<1>1. Send(m) /\ pc = "def" /\ pc' = "seek" /\ UNCHANGED <<device, goal, choice>>
  BY DEF SeekMem
<1>2. m.kind = "DEF_MEM"
  BY DEF Msg
<1>3. Seek(m) \in Nat \X Nat
  <2>1. wanted \in DOMAIN flights /\ flights[wanted] \in FlightIndex
    <3>1. wanted \in 0..Len(flights) /\ wanted # 0 /\ flights \in Seq(FlightIndex)
      BY <1>1 DEF InStep, Types, Chosen
    <3>2. Len(flights) \in Nat /\ DOMAIN flights = 1..Len(flights)
      BY <3>1, LenProperties
    <3>3. wanted \in 1..Len(flights)
      BY <3>1, <3>2
    <3>. QED
      BY <3>1, <3>2, <3>3, ElementOfSeq
  <2>2. flights[wanted][1] \in Nat /\ flights[wanted][2] \in Nat
    BY <2>1, IndexIs
  <2>3. m.body[1] = def_mem_packet(flights[wanted][1]) /\ m.body[2] = def_mem_packet(flights[wanted][2])
    BY DEF Msg
  <2>. HIDE DEF m
  <2>. QED
    BY <2>2, <2>3, PacketsDecode DEF Seek
<1>. HIDE DEF m
<1>4. /\ Queue(request') /\ ToSet(request') = ToSet(request) \cup {m} /\ request' # <<>>
      /\ Kinds(request') = Kinds(request) \cup {"DEF_MEM"} /\ Early(request') = Kinds(request)
      /\ tty' = <<>> /\ Queue(tty') /\ Kinds(tty') = {} /\ Early(tty') = {} /\ ToSet(tty') = {}
      /\ answer' = answer
  BY <1>1, <1>2, HostSends DEF InStep
<1>5. Types'
  BY <1>1, <1>2, <1>3, <1>4 DEF InStep, Types, Chosen, Calm, Waiting, Stopped, device, choice, Seek
<1>6. Ordered'
  BY <1>1, <1>4 DEF InStep, Ordered, Phase, Calm
<1>7. Phase'
  BY <1>1, <1>4 DEF InStep, Phase, Calm, Chosen, Waiting, Asked, Seeking, Commands, Answers, Entries
<1>8. Steady'
  BY <1>1, <1>4 DEF InStep, Steady, Listed, device, choice, Types, Chosen
<1>. QED
  BY <1>5, <1>6, <1>7, <1>8 DEF InStep

\* A step of lxn-logger that leaves the line alone, or only reads.
LEMMA StepRecvAck ==
    ASSUME InStep, RecvAck
    PROVE  InStep'
<1>1. /\ pc = "ack" /\ tty # <<>> /\ Head(tty) = Ack /\ tty' = Tail(tty) /\ pc' = goal
      /\ UNCHANGED <<request, answer, device, goal, choice>>
  BY DEF RecvAck, Read
<1>2. /\ Queue(tty') /\ ToSet(tty') \subseteq ToSet(tty)
      /\ Kinds(tty') \subseteq Kinds(tty) /\ Early(tty') \subseteq Early(tty)
  BY <1>1, HostReads DEF InStep
<1>3. goal \in {"check", "list", "def"}
  BY DEF InStep, Types
<1>4. Types'
  BY <1>1, <1>2, <1>3 DEF InStep, Types, Chosen, Calm, Waiting, Stopped, device, choice, Seek
<1>5. Ordered'
  BY <1>1, <1>2 DEF InStep, Ordered, Phase, Calm
<1>6. Phase'
  BY <1>1, <1>2, <1>3 DEF InStep, Phase, Calm, Chosen, Waiting, Seeking
<1>7. Steady'
  BY <1>1, <1>2, <1>3 DEF InStep, Steady, Listed, device, choice
<1>. QED
  BY <1>4, <1>5, <1>6, <1>7 DEF InStep

LEMMA StepNoAck ==
    ASSUME InStep, NoAck
    PROVE  InStep'
<1>1. /\ pc = "ack" /\ pc' \in {"syn", "no filser"}
      /\ UNCHANGED <<request, answer, device, goal, choice>>
      /\ (tty # <<>> /\ tty' = Tail(tty)) \/ (tty = <<>> /\ tty' = tty)
  BY DEF NoAck, Read, NothingYet, Stop
<1>2. /\ Queue(tty') /\ ToSet(tty') \subseteq ToSet(tty)
      /\ Kinds(tty') \subseteq Kinds(tty) /\ Early(tty') \subseteq Early(tty)
  BY <1>1, HostReads DEF InStep, Types
<1>4. Types'
  BY <1>1, <1>2 DEF InStep, Types, Chosen, Calm, Waiting, Stopped, device, choice, Seek
<1>5. Ordered'
  BY <1>1, <1>2 DEF InStep, Ordered, Phase, Calm
<1>6. Phase'
  BY <1>1, <1>2 DEF InStep, Phase, Calm, Chosen, Waiting, Seeking
<1>7. Steady'
  BY <1>1, <1>2 DEF InStep, Steady, Listed, device, choice
<1>. QED
  BY <1>4, <1>5, <1>6, <1>7 DEF InStep

LEMMA StepRecvSettings ==
    ASSUME InStep, RecvSettings
    PROVE  InStep'
<1>1. /\ pc = "settings" /\ tty # <<>> /\ Head(tty).kind = "settings" /\ tty' = Tail(tty) /\ pc' = "syn" /\ goal' = "list"
      /\ UNCHANGED <<request, answer, device, choice>>
  BY DEF RecvSettings, Read, SynAckWait
<1>2. /\ Queue(tty') /\ ToSet(tty') \subseteq ToSet(tty)
      /\ Kinds(tty') \subseteq Kinds(tty) /\ Early(tty') \subseteq Early(tty)
      /\ Head(tty).kind \in Kinds(tty) /\ (Head(tty).kind \notin Early(tty) => tty' = <<>>)
  BY <1>1, HostReads DEF InStep
<1>3. request = <<>> /\ answer = <<>> /\ tty' = <<>>
  BY <1>1, <1>2 DEF InStep, Ordered, Answers
<1>4. Types'
  BY <1>1, <1>2 DEF InStep, Types, Chosen, Calm, Waiting, Stopped, device, choice, Seek
<1>5. Ordered'
  BY <1>1, <1>3, NoQueue DEF Ordered
<1>6. Phase'
  BY <1>1, <1>3, NoQueue DEF Phase, Calm, Waiting
<1>7. Steady'
  BY <1>1, <1>2, <1>3, NoQueue DEF InStep, Steady, Listed, device, choice
<1>. QED
  BY <1>4, <1>5, <1>6, <1>7 DEF InStep

LEMMA StepNextFlight ==
    ASSUME InStep, NextFlight
    PROVE  InStep'
<1>1. /\ pc = "flights" /\ tty # <<>> /\ Head(tty).kind \in Entries /\ tty' = Tail(tty)
      /\ UNCHANGED <<request, answer, device, goal, wanted>>
      /\ \/ /\ Head(tty).kind = "flight" /\ flights' = Append(flights, Head(tty).body) /\ pc' \in {"prompt", "flights"}
         \/ /\ Head(tty).kind = "null" /\ flights' = flights
            /\ pc' = IF flights = <<>> THEN "no flights" ELSE "prompt"
  BY DEF NextFlight, Read, Entries
<1>2. /\ Queue(tty') /\ ToSet(tty') \subseteq ToSet(tty)
      /\ Kinds(tty') \subseteq Kinds(tty) /\ Early(tty') \subseteq Early(tty)
      /\ Head(tty).kind \in Kinds(tty) /\ Head(tty) \in ToSet(tty)
  BY <1>1, HostReads DEF InStep
<1>3. \A k \in Commands : k \notin Kinds(request)
  BY <1>1, <1>2 DEF InStep, Phase
<1>4. /\ flights' \in Seq(FlightIndex) /\ Len(flights') \in Nat
      /\ pc' = "flights" \/ (pc' = "prompt" /\ flights' # <<>>) \/ pc' = "no flights"
      /\ flights # <<>> => flights' # <<>>
      /\ flights' # <<>> => listed
  <2>1. flights \in Seq(FlightIndex) /\ Len(flights) \in Nat
    BY LenProperties DEF InStep, Types
  <2>4. listed
    BY <1>1, <1>2 DEF InStep, Steady, Listed
  <2>2. CASE Head(tty).kind = "flight" /\ flights' = Append(flights, Head(tty).body) /\ pc' \in {"prompt", "flights"}
    <3>1. Head(tty).body \in FlightIndex
      BY <1>2, <2>2 DEF InStep, Types
    <3>2. flights' \in Seq(FlightIndex) /\ Len(flights') = Len(flights) + 1
      BY <2>1, <2>2, <3>1, AppendProperties
    <3>3. flights' # <<>>
      BY <2>1, <3>2, EmptySeq
    <3>4. pc' = "prompt" \/ pc' = "flights"
      BY <2>2
    <3>5. Len(flights') \in Nat
      BY <3>2, LenProperties
    <3>. QED
      BY <2>4, <3>2, <3>3, <3>4, <3>5
  <2>3. CASE Head(tty).kind = "null" /\ flights' = flights /\ pc' = IF flights = <<>> THEN "no flights" ELSE "prompt"
    BY <2>1, <2>3, <2>4
  <2>. QED
    BY <1>1, <2>2, <2>3
<1>5. wanted' = 0 /\ 0 \in 0..Len(flights')
  <2>1. wanted' = 0
    BY <1>1 DEF InStep, Types, Chosen, Stopped
  <2>2. \A n \in Nat : 0 \in 0..n
    OBVIOUS
  <2>. QED
    BY <1>4, <2>1, <2>2
<1>6. Types'
  BY <1>1, <1>2, <1>4, <1>5 DEF InStep, Types, Chosen, Calm, Waiting, Stopped, device, Seek
<1>7. Ordered'
  BY <1>1, <1>2 DEF InStep, Ordered, Phase
<1>8. Phase'
  BY <1>1, <1>2, <1>3 DEF InStep, Phase, Calm, Chosen, Waiting, Seeking, Entries
<1>9. Steady'
  <2>1. listed
    BY <1>1, <1>2 DEF InStep, Steady, Listed
  <2>. QED
    BY <1>1, <1>2, <2>1 DEF InStep, Steady, Listed, device
<1>. QED
  BY <1>6, <1>7, <1>8, <1>9 DEF InStep

LEMMA StepChooseFlight ==
    ASSUME InStep, ChooseFlight
    PROVE  InStep'
<1>1. /\ pc = "prompt" /\ wanted' \in DOMAIN flights /\ goal' = "def" /\ pc' = "syn"
      /\ UNCHANGED <<request, answer, tty, device, flights>>
  BY DEF ChooseFlight, SynAckWait, line
<1>2. wanted' \in 1..Len(flights) /\ Len(flights) \in Nat
  <2>1. flights \in Seq(FlightIndex)
    BY DEF InStep, Types
  <2>. QED
    BY <1>1, <2>1, LenProperties
<1>3. Types'
  BY <1>1, <1>2 DEF InStep, Types, Chosen, Calm, Waiting, Stopped, device, Seek
<1>4. Ordered'
  BY <1>1 DEF InStep, Ordered
<1>5. Phase'
  BY <1>1 DEF InStep, Phase, Calm, Chosen, Waiting, Seeking
<1>6. Steady'
  BY <1>1 DEF InStep, Steady, Listed, device
<1>. QED
  BY <1>3, <1>4, <1>5, <1>6 DEF InStep

\* lxn-logger ends.
LEMMA StepStops ==
    ASSUME InStep, Quit \/ WrongAnswer \/ NoAnswer
    PROVE  InStep'
<1>1. /\ pc' \in Stopped /\ UNCHANGED <<request, answer, device, goal, choice>>
      /\ (tty # <<>> /\ tty' = Tail(tty)) \/ tty' = tty
  BY DEF Quit, WrongAnswer, NoAnswer, Stop, Stopped, line, Read
<1>2. /\ Queue(tty') /\ ToSet(tty') \subseteq ToSet(tty)
      /\ Kinds(tty') \subseteq Kinds(tty) /\ Early(tty') \subseteq Early(tty)
  BY <1>1, HostReads DEF InStep, Types
<1>3. pc' \notin Calm \cup Waiting
  BY <1>1 DEF Calm, Waiting, Stopped
<1>4. Types'
  <2>1. ~Chosen'
    BY <1>3 DEF Chosen, Calm, Waiting
  <2>. QED
    BY <1>1, <1>2, <2>1 DEF InStep, Types, device, choice, Seek
<1>5. Ordered'
  BY <1>1, <1>2 DEF InStep, Ordered
<1>6. Phase'
  BY <1>3 DEF Phase, Calm, Waiting
<1>7. Steady'
  BY <1>1, <1>2, <1>3 DEF InStep, Steady, Listed, device, choice, Calm, Waiting
<1>. QED
  BY <1>4, <1>5, <1>6, <1>7 DEF InStep

LEMMA StepSeekAck ==
    ASSUME InStep, SeekAck
    PROVE  InStep'
<1>1. /\ pc = "seek" /\ tty # <<>> /\ tty' = Tail(tty) /\ pc' = "sections"
      /\ UNCHANGED <<request, answer, device, goal, choice>>
  BY DEF SeekAck, Read
<1>2. /\ Queue(tty') /\ ToSet(tty') \subseteq ToSet(tty)
      /\ Kinds(tty') \subseteq Kinds(tty) /\ Early(tty') \subseteq Early(tty)
  BY <1>1, HostReads DEF InStep
<1>4. Types'
  BY <1>1, <1>2 DEF InStep, Types, Chosen, Calm, Waiting, Stopped, device, choice, Seek
<1>5. Ordered'
  BY <1>1, <1>2 DEF InStep, Ordered, Phase, Calm
<1>6. Phase'
  BY <1>1, <1>2 DEF InStep, Phase, Calm, Chosen, Waiting, Seeking
<1>7. Steady'
  BY <1>1, <1>2 DEF InStep, Steady, Listed, device, choice
<1>. QED
  BY <1>4, <1>5, <1>6, <1>7 DEF InStep

\* Nothing is left behind the sections, nor behind the data.
LEMMA LastIsRead ==
    ASSUME InStep, tty # <<>>, tty' = Tail(tty), Head(tty).kind \in Answers
    PROVE  request = <<>> /\ answer = <<>> /\ tty' = <<>>
<1>1. Head(tty).kind \in Kinds(tty) /\ (Head(tty).kind \notin Early(tty) => tty' = <<>>)
  BY HostReads DEF InStep
<1>. QED
  BY <1>1 DEF InStep, Ordered

LEMMA StepRecvMemSection ==
    ASSUME InStep, RecvMemSection
    PROVE  InStep'
<1>1. /\ pc = "lengths" /\ tty # <<>> /\ Head(tty).kind = "sections" /\ tty' = Tail(tty) /\ pc' = "section"
      /\ UNCHANGED <<request, answer, device, goal, flights, wanted>>
  BY DEF RecvMemSection, Read
<1>2. request = <<>> /\ answer = <<>> /\ tty' = <<>> /\ Head(tty).kind \in Kinds(tty)
  BY <1>1, LastIsRead, HostReads DEF Answers, InStep
<1>3. Types'
  BY <1>1, <1>2, NoQueue DEF InStep, Types, Chosen, Calm, Waiting, Stopped, device
<1>4. Ordered'
  BY <1>1, <1>2, NoQueue DEF Ordered
<1>5. Phase'
  BY <1>1, <1>2, NoQueue DEF Phase, Calm, Waiting
<1>6. Steady'
  BY <1>1, <1>2, NoQueue DEF InStep, Steady, Listed, device
<1>. QED
  BY <1>3, <1>4, <1>5, <1>6 DEF InStep

LEMMA StepRecvSection ==
    ASSUME InStep, RecvSection
    PROVE  InStep'
<1>1. /\ pc = "data" /\ tty # <<>> /\ Head(tty).kind = "data" /\ tty' = Tail(tty) /\ pc' = "section"
      /\ UNCHANGED <<request, answer, device, goal, flights, wanted>>
  BY DEF RecvSection
<1>2. request = <<>> /\ answer = <<>> /\ tty' = <<>>
  BY <1>1, LastIsRead DEF Answers
<1>3. Types'
  BY <1>1, <1>2, NoQueue DEF InStep, Types, Chosen, Calm, Waiting, Stopped, device
<1>4. Ordered'
  BY <1>1, <1>2, NoQueue DEF Ordered
<1>5. Phase'
  BY <1>1, <1>2, NoQueue DEF Phase, Calm, Waiting
<1>6. Steady'
  BY <1>1, <1>2, NoQueue DEF InStep, Steady, Listed, device
<1>. QED
  BY <1>3, <1>4, <1>5, <1>6 DEF InStep

LEMMA StepConvertFlight ==
    ASSUME InStep, ConvertFlight
    PROVE  InStep'
<1>1. /\ pc = "section" /\ pc' = "prompt"
      /\ UNCHANGED <<request, answer, tty, device, goal, choice>>
  BY DEF ConvertFlight, line
<1>2. request = <<>> /\ answer = <<>> /\ tty = <<>>
  BY <1>1 DEF InStep, Phase
<1>3. Types'
  BY <1>1 DEF InStep, Types, Chosen, Calm, Waiting, Stopped, device, choice, Seek
<1>4. Ordered'
  BY <1>1 DEF InStep, Ordered
<1>5. Phase'
  BY <1>1, <1>2, NoQueue DEF Phase, Calm, Waiting
<1>6. Steady'
  BY <1>1 DEF InStep, Steady, Listed, device, choice
<1>. QED
  BY <1>3, <1>4, <1>5, <1>6 DEF InStep

\* What the line does.
LEMMA StepArrive ==
    ASSUME InStep, Arrive
    PROVE  InStep'
<1>1. /\ answer # <<>> /\ tty' = Append(tty, Head(answer)) /\ answer' = Tail(answer)
      /\ UNCHANGED <<request, device, pc, goal, choice>>
  BY DEF Arrive
<1>2. Queue(answer) /\ Queue(tty)
  BY DEF InStep, Types
<1>3. /\ Queue(answer') /\ ToSet(answer') \subseteq ToSet(answer)
      /\ Kinds(answer') \subseteq Kinds(answer) /\ Early(answer') \subseteq Early(answer)
      /\ Head(answer) \in ToSet(answer) /\ Head(answer).kind \in Kinds(answer)
      /\ Head(answer).kind \notin Early(answer) => answer' = <<>>
  BY <1>1, <1>2, Taking
<1>4. /\ Queue(tty') /\ tty' # <<>> /\ ToSet(tty') = ToSet(tty) \cup {Head(answer)}
      /\ Kinds(tty') = Kinds(tty) \cup {Head(answer).kind} /\ Early(tty') = Kinds(tty)
  BY <1>1, <1>2, Sending, ZenonT(60)
<1>5. Types'
  BY <1>1, <1>3, <1>4 DEF InStep, Types, Chosen, device, choice, Seek
<1>6. Ordered'
  BY <1>1, <1>3, <1>4 DEF InStep, Ordered
<1>7. Phase'
  BY <1>1, <1>3, <1>4 DEF InStep, Phase, Chosen
<1>8. Steady'
  BY <1>1, <1>3, <1>4 DEF InStep, Steady, Listed, device, choice
<1>. QED
  BY <1>5, <1>6, <1>7, <1>8 DEF InStep

\* What is left of a queue whose first message the line spoils.
LEMMA Spoilt ==
    ASSUME NEW s, Queue(s), s # <<>>, NEW k, NEW t \in Hurt(k, s)
    PROVE  /\ Queue(t) /\ \A m \in ToSet(t) : m \in ToSet(s) \/ m.kind \in {"damaged", "cut"}
           /\ Kinds(t) \subseteq Kinds(s) \cup {"damaged", "cut"} /\ Early(t) \subseteq Early(s) \cup {"damaged", "cut"}
           /\ "cut" \in Kinds(t) => "cut" \in Kinds(s) \/ "DEF_MEM" \in Kinds(s)
<1>1. \/ t = Tail(s)
      \/ t = <<Msg("damaged", <<>>)>> \o Tail(s)
      \/ t = <<Msg("cut", <<>>)>> \o Tail(s) /\ s[1].kind = "DEF_MEM"
  <2>1. CASE k = "lose"
    BY <2>1 DEF Hurt
  <2>2. CASE k = "damage"
    BY <2>2 DEF Hurt
  <2>3. CASE k # "lose" /\ k # "damage"
    BY <2>3 DEF Hurt
  <2>. QED
    BY <2>1, <2>2, <2>3
<1>2. Head(s) = s[1] /\ Head(s).kind \in Kinds(s)
  BY Others, QueueIs DEF Queue
<1>3. CASE t = Tail(s)
  BY <1>3, Taking
<1>4. CASE t = <<Msg("damaged", <<>>)>> \o Tail(s)
  <2>. DEFINE m == Msg("damaged", <<>>)
  <2>1. m.kind = "damaged"
    BY DEF Msg
  <2>3. t = <<m>> \o Tail(s)
    BY <1>4
  <2>. HIDE DEF m
  <2>2. /\ Queue(t) /\ ToSet(t) \subseteq ToSet(s) \cup {m}
        /\ Kinds(t) \subseteq Kinds(s) \cup {m.kind} /\ Early(t) \subseteq Early(s) \cup {m.kind}
    BY <2>3, Hurting
  <2>. QED
    BY <2>1, <2>2
<1>5. CASE t = <<Msg("cut", <<>>)>> \o Tail(s) /\ s[1].kind = "DEF_MEM"
  <2>. DEFINE m == Msg("cut", <<>>)
  <2>1. m.kind = "cut"
    BY DEF Msg
  <2>3. t = <<m>> \o Tail(s)
    BY <1>5
  <2>. HIDE DEF m
  <2>2. /\ Queue(t) /\ ToSet(t) \subseteq ToSet(s) \cup {m}
        /\ Kinds(t) \subseteq Kinds(s) \cup {m.kind} /\ Early(t) \subseteq Early(s) \cup {m.kind}
    BY <2>3, Hurting
  <2>. QED
    BY <1>2, <1>5, <2>1, <2>2
<1>. QED
  BY <1>1, <1>3, <1>4, <1>5

(* What the device does with the first of the requests.                    *)
LEMMA Served ==
    ASSUME InStep, NEW k, Serve(k)
    PROVE  /\ Queue(request') /\ ToSet(request') \subseteq ToSet(request)
           /\ Kinds(request') \subseteq Kinds(request) /\ Early(request') \subseteq Early(request)
           /\ Head(request).kind = k /\ k \in Kinds(request) /\ Head(request) \in ToSet(request)
           /\ \A a \in Answers : a \notin Kinds(answer) \cup Kinds(tty)
           /\ k \in Commands => request' = <<>> /\ pc \notin Calm /\ (pc \in Waiting => Asked[pc] = k)
           /\ request # <<>> /\ UNCHANGED <<tty, pc, goal, choice>>
<1>1. /\ request # <<>> /\ request[1].kind = k /\ request' = Tail(request)
      /\ UNCHANGED <<tty, pc, goal, choice>>
  BY DEF Serve
<1>2. Queue(request)
  BY DEF InStep, Types
<1>3. request[1] = Head(request)
  BY <1>1, <1>2, Others DEF Queue
<1>4. /\ Queue(request') /\ ToSet(request') \subseteq ToSet(request)
      /\ Kinds(request') \subseteq Kinds(request) /\ Early(request') \subseteq Early(request)
      /\ Head(request) \in ToSet(request) /\ Head(request).kind \in Kinds(request)
      /\ Head(request).kind \notin Early(request) => request' = <<>>
  BY <1>1, <1>2, Taking
<1>5. \A a \in Answers : a \notin Kinds(answer) \cup Kinds(tty)
  BY <1>1 DEF InStep, Ordered
<1>6. ASSUME k \in Commands
      PROVE  request' = <<>> /\ pc \notin Calm /\ (pc \in Waiting => Asked[pc] = k)
  BY <1>1, <1>3, <1>4, <1>6 DEF InStep, Ordered, Phase
<1>. QED
  BY <1>1, <1>3, <1>4, <1>5, <1>6

LEMMA StepSyn ==
    ASSUME InStep, handle_syn
    PROVE  InStep'
<1>. DEFINE m == Ack
<1>1. Serve("SYN") /\ answer' = Append(answer, m) /\ UNCHANGED device
  BY DEF handle_syn
<1>2. m.kind = "ACK"
  BY DEF Msg, Ack
<1>. HIDE DEF m
<1>3. /\ Queue(request') /\ ToSet(request') \subseteq ToSet(request)
      /\ Kinds(request') \subseteq Kinds(request) /\ Early(request') \subseteq Early(request)
      /\ Head(request).kind = "SYN" /\ "SYN" \in Kinds(request) /\ Head(request) \in ToSet(request)
      /\ \A a \in Answers : a \notin Kinds(answer) \cup Kinds(tty)
      /\ request # <<>> /\ UNCHANGED <<tty, pc, goal, choice>>
  BY <1>1, Served
<1>4. /\ Queue(answer') /\ ToSet(answer') = ToSet(answer) \cup {m}
      /\ Kinds(answer') = Kinds(answer) \cup {"ACK"} /\ Early(answer') = Kinds(answer)
  <2>1. Queue(answer) /\ answer' = Append(answer, m)
    BY <1>1 DEF InStep, Types
  <2>2. /\ Queue(answer') /\ ToSet(answer') = ToSet(answer) \cup {m}
        /\ Kinds(answer') = Kinds(answer) \cup {m.kind} /\ Early(answer') = Kinds(answer)
    BY <2>1, Sending, ZenonT(60)
  <2>. QED
    BY <1>2, <2>2
<1>6. Types'
  BY <1>1, <1>2, <1>3, <1>4 DEF InStep, Types, Chosen, device, choice, Seek
<1>7. Ordered'
  BY <1>3, <1>4 DEF InStep, Ordered, Answers, Commands
<1>8. Phase'
  BY <1>3, <1>4 DEF InStep, Phase, Chosen, Answers, Entries, Seeking, Calm, Waiting, choice
<1>9. Steady'
  BY <1>1, <1>3, <1>4 DEF InStep, Steady, Listed, Entries, device, choice
<1>. QED
  BY <1>6, <1>7, <1>8, <1>9 DEF InStep

LEMMA StepSettings ==
    ASSUME InStep, handle_check_mem_settings
    PROVE  InStep'
<1>. DEFINE m == Msg("settings", <<>>)
<1>1. Serve("CHECK_MEM_SETTINGS") /\ answer' = Append(answer, m) /\ UNCHANGED device
  BY DEF handle_check_mem_settings
<1>2. m.kind = "settings"
  BY DEF Msg
<1>. HIDE DEF m
<1>3. /\ Queue(request') /\ ToSet(request') \subseteq ToSet(request)
      /\ Kinds(request') \subseteq Kinds(request) /\ Early(request') \subseteq Early(request)
      /\ Head(request).kind = "CHECK_MEM_SETTINGS" /\ "CHECK_MEM_SETTINGS" \in Kinds(request) /\ Head(request) \in ToSet(request)
      /\ \A a \in Answers : a \notin Kinds(answer) \cup Kinds(tty)
      /\ request # <<>> /\ UNCHANGED <<tty, pc, goal, choice>>
  BY <1>1, Served
<1>4. /\ Queue(answer') /\ ToSet(answer') = ToSet(answer) \cup {m}
      /\ Kinds(answer') = Kinds(answer) \cup {"settings"} /\ Early(answer') = Kinds(answer)
  <2>1. Queue(answer) /\ answer' = Append(answer, m)
    BY <1>1 DEF InStep, Types
  <2>2. /\ Queue(answer') /\ ToSet(answer') = ToSet(answer) \cup {m}
        /\ Kinds(answer') = Kinds(answer) \cup {m.kind} /\ Early(answer') = Kinds(answer)
    BY <2>1, Sending
  <2>. QED
    BY <1>2, <2>2
<1>5. request' = <<>> /\ pc \notin Calm /\ (pc \in Waiting => Asked[pc] = "CHECK_MEM_SETTINGS")
  <2>1. "CHECK_MEM_SETTINGS" \in Commands
    BY DEF Commands
  <2>. QED
    BY <1>1, <2>1, Served
<1>6. Types'
  BY <1>1, <1>2, <1>3, <1>4 DEF InStep, Types, Chosen, device, choice, Seek
<1>7. Ordered'
  BY <1>3, <1>4, <1>5, NoQueue DEF Ordered, Answers, Commands
<1>8. Phase'
  BY <1>3, <1>4, <1>5, NoQueue DEF InStep, Phase, Chosen, Answers, Entries, Calm, Waiting, Asked, choice
<1>9. Steady'
  BY <1>1, <1>3, <1>4, <1>5, NoQueue DEF InStep, Steady, Listed, Entries, device, choice
<1>. QED
  BY <1>6, <1>7, <1>8, <1>9 DEF InStep

LEMMA StepData ==
    ASSUME InStep, handle_get_logger_data
    PROVE  InStep'
<1>1. Serve("READ_LOGGER_DATA") /\ UNCHANGED device /\ \E b : answer' = Append(answer, Msg("data", b))
  BY DEF handle_get_logger_data
<1>3. /\ Queue(request') /\ ToSet(request') \subseteq ToSet(request)
      /\ Kinds(request') \subseteq Kinds(request) /\ Early(request') \subseteq Early(request)
      /\ Head(request).kind = "READ_LOGGER_DATA" /\ "READ_LOGGER_DATA" \in Kinds(request) /\ Head(request) \in ToSet(request)
      /\ \A a \in Answers : a \notin Kinds(answer) \cup Kinds(tty)
      /\ request # <<>> /\ UNCHANGED <<tty, pc, goal, choice>>
  BY <1>1, Served
<1>2. PICK b : answer' = Append(answer, Msg("data", b))
  BY <1>1
<1>. DEFINE m == Msg("data", b)
<1>10. m.kind = "data" /\ answer' = Append(answer, m)
  BY <1>2 DEF Msg
<1>. HIDE DEF m
<1>4. /\ Queue(answer') /\ ToSet(answer') = ToSet(answer) \cup {m}
      /\ Kinds(answer') = Kinds(answer) \cup {"data"} /\ Early(answer') = Kinds(answer)
  <2>1. Queue(answer) /\ answer' = Append(answer, m)
    BY <1>10 DEF InStep, Types
  <2>2. /\ Queue(answer') /\ ToSet(answer') = ToSet(answer) \cup {m}
        /\ Kinds(answer') = Kinds(answer) \cup {m.kind} /\ Early(answer') = Kinds(answer)
    BY <2>1, Sending
  <2>. QED
    BY <1>10, <2>2
<1>5. request' = <<>> /\ pc \notin Calm /\ (pc \in Waiting => Asked[pc] = "READ_LOGGER_DATA")
  <2>1. "READ_LOGGER_DATA" \in Commands
    BY DEF Commands
  <2>. QED
    BY <1>1, <2>1, Served
<1>6. Types'
  BY <1>1, <1>10, <1>3, <1>4 DEF InStep, Types, Chosen, device, choice, Seek
<1>7. Ordered'
  BY <1>3, <1>4, <1>5, NoQueue DEF Ordered, Answers, Commands
<1>8. Phase'
  BY <1>3, <1>4, <1>5, NoQueue DEF InStep, Phase, Chosen, Answers, Entries, Calm, Waiting, Asked, choice
<1>9. Steady'
  BY <1>1, <1>3, <1>4, <1>5, NoQueue DEF InStep, Steady, Listed, Entries, device, choice
<1>. QED
  BY <1>6, <1>7, <1>8, <1>9 DEF InStep

LEMMA StepSections ==
    ASSUME InStep, handle_get_mem_section
    PROVE  InStep'
<1>. DEFINE m == Msg("sections", section_lengths(blocks'))
<1>1. Serve("GET_MEM_SECTION") /\ answer' = Append(answer, m) /\ UNCHANGED <<range, listed, alive>>
      /\ blocks' = IF listed THEN mem_blocks(range[1], range[2]) ELSE <<>>
  BY DEF handle_get_mem_section, device
<1>2. m.kind = "sections"
  BY DEF Msg
<1>. HIDE DEF m
<1>3. /\ Queue(request') /\ ToSet(request') \subseteq ToSet(request)
      /\ Kinds(request') \subseteq Kinds(request) /\ Early(request') \subseteq Early(request)
      /\ Head(request).kind = "GET_MEM_SECTION" /\ "GET_MEM_SECTION" \in Kinds(request) /\ Head(request) \in ToSet(request)
      /\ \A a \in Answers : a \notin Kinds(answer) \cup Kinds(tty)
      /\ request # <<>> /\ UNCHANGED <<tty, pc, goal, choice>>
  BY <1>1, Served
<1>4. /\ Queue(answer') /\ ToSet(answer') = ToSet(answer) \cup {m}
      /\ Kinds(answer') = Kinds(answer) \cup {"sections"} /\ Early(answer') = Kinds(answer)
  <2>1. Queue(answer) /\ answer' = Append(answer, m)
    BY <1>1 DEF InStep, Types
  <2>2. /\ Queue(answer') /\ ToSet(answer') = ToSet(answer) \cup {m}
        /\ Kinds(answer') = Kinds(answer) \cup {m.kind} /\ Early(answer') = Kinds(answer)
    BY <2>1, Sending, ZenonT(60)
  <2>. QED
    BY <1>2, <2>2
<1>5. request' = <<>> /\ pc \notin Calm /\ (pc \in Waiting => Asked[pc] = "GET_MEM_SECTION")
  <2>1. "GET_MEM_SECTION" \in Commands
    BY DEF Commands
  <2>. QED
    BY <1>1, <2>1, Served
<1>10. blocks' = mem_blocks(range[1], range[2]) /\ range[1] \in Nat /\ range[2] \in Nat
  <2>1. listed
    BY <1>3 DEF InStep, Steady, Listed
  <2>2. range[1] \in Nat /\ range[2] \in Nat
    BY DEF InStep, Types
  <2>. QED
    BY <1>1, <2>1, <2>2
<1>6. Types'
  BY <1>1, <1>2, <1>3, <1>4 DEF InStep, Types, Chosen, choice, Seek
<1>7. Ordered'
  BY <1>3, <1>4, <1>5, NoQueue DEF Ordered, Answers, Commands
<1>8. Phase'
  BY <1>3, <1>4, <1>5, NoQueue DEF InStep, Phase, Chosen, Answers, Entries, Calm, Waiting, Asked, choice
<1>9. Steady'
  <2>1. listed' = listed /\ (Listed' => Listed)
    BY <1>1, <1>3, <1>4, <1>5, NoQueue DEF Listed, Entries, choice
  <2>2. blocks' = mem_blocks(range'[1], range'[2])
    BY <1>1, <1>10
  <2>3. \E f, l \in Nat : blocks' = mem_blocks(f, l)
    BY <1>10
  <2>. QED
    BY <2>1, <2>2, <2>3 DEF InStep, Steady
<1>. QED
  BY <1>6, <1>7, <1>8, <1>9 DEF InStep

LEMMA StepDefMem ==
    ASSUME InStep, handle_def_mem
    PROVE  InStep'
<1>. DEFINE m == Ack
<1>1. Serve("DEF_MEM") /\ answer' = Append(answer, m) /\ UNCHANGED <<blocks, listed, alive>>
      /\ range' = Seek(Head(request))
  BY DEF handle_def_mem, Seek
<1>2. m.kind = "ACK"
  BY DEF Msg, Ack
<1>. HIDE DEF m
<1>3. /\ Queue(request') /\ ToSet(request') \subseteq ToSet(request)
      /\ Kinds(request') \subseteq Kinds(request) /\ Early(request') \subseteq Early(request)
      /\ Head(request).kind = "DEF_MEM" /\ "DEF_MEM" \in Kinds(request) /\ Head(request) \in ToSet(request)
      /\ \A a \in Answers : a \notin Kinds(answer) \cup Kinds(tty)
      /\ request # <<>> /\ UNCHANGED <<tty, pc, goal, choice>>
  BY <1>1, Served
<1>4. /\ Queue(answer') /\ ToSet(answer') = ToSet(answer) \cup {m}
      /\ Kinds(answer') = Kinds(answer) \cup {"ACK"} /\ Early(answer') = Kinds(answer)
  <2>1. Queue(answer) /\ answer' = Append(answer, m)
    BY <1>1 DEF InStep, Types
  <2>2. /\ Queue(answer') /\ ToSet(answer') = ToSet(answer) \cup {m}
        /\ Kinds(answer') = Kinds(answer) \cup {m.kind} /\ Early(answer') = Kinds(answer)
    BY <2>1, Sending
  <2>. QED
    BY <1>2, <2>2
<1>5. range' \in Nat \X Nat
  BY <1>1, <1>3 DEF InStep, Types
<1>10. pc \notin {"section", "data"}
  BY <1>3 DEF InStep, Phase, Calm, Waiting, Seeking
<1>6. Types'
  BY <1>1, <1>2, <1>3, <1>4, <1>5 DEF InStep, Types, Chosen, choice, Seek
<1>7. Ordered'
  BY <1>3, <1>4 DEF InStep, Ordered, Answers, Commands
<1>8. Phase'
  BY <1>3, <1>4 DEF InStep, Phase, Chosen, Answers, Entries, Seeking, Calm, Waiting, choice
<1>9. Steady'
  BY <1>1, <1>3, <1>4, <1>10 DEF InStep, Steady, Listed, Entries, Answers, choice
<1>. QED
  BY <1>6, <1>7, <1>8, <1>9 DEF InStep

LEMMA StepDefMemCut ==
    ASSUME InStep, handle_def_mem_cut
    PROVE  InStep'
<1>. DEFINE m == Ack
<1>1. /\ Serve("cut") /\ UNCHANGED <<blocks, listed>>
      /\ \/ range' \in Garbage /\ answer' = Append(answer, m) /\ alive' = alive
         \/ alive' = FALSE /\ range' = range /\ answer' = answer
  BY DEF handle_def_mem_cut
<1>2. m.kind = "ACK"
  BY DEF Msg, Ack
<1>. HIDE DEF m
<1>3. /\ Queue(request') /\ ToSet(request') \subseteq ToSet(request)
      /\ Kinds(request') \subseteq Kinds(request) /\ Early(request') \subseteq Early(request)
      /\ Head(request).kind = "cut" /\ "cut" \in Kinds(request) /\ Head(request) \in ToSet(request)
      /\ \A a \in Answers : a \notin Kinds(answer) \cup Kinds(tty)
      /\ request # <<>> /\ UNCHANGED <<tty, pc, goal, choice>>
  BY <1>1, Served
<1>4. /\ Queue(answer') /\ ToSet(answer') \subseteq ToSet(answer) \cup {m}
      /\ Kinds(answer') \subseteq Kinds(answer) \cup {"ACK"}
  BY <1>1, <1>2, Sending DEF InStep, Types
<1>5. range' \in Nat \X Nat
  BY <1>1, SessionAssumption DEF InStep, Types
<1>10. pc \notin {"section", "data"}
  BY <1>3 DEF InStep, Phase, Calm, Waiting, Seeking
<1>6. Types'
  <2>1. alive' \in BOOLEAN
    BY <1>1 DEF InStep, Types
  <2>. QED
    BY <1>1, <1>2, <1>3, <1>4, <1>5, <2>1 DEF InStep, Types, Chosen, choice, Seek
<1>7. Ordered'
  BY <1>3, <1>4 DEF InStep, Ordered, Answers, Commands
<1>8. Phase'
  BY <1>3, <1>4 DEF InStep, Phase, Chosen, Answers, Entries, Seeking, Calm, Waiting, choice
<1>9. Steady'
  BY <1>1, <1>3, <1>4, <1>10 DEF InStep, Steady, Listed, Entries, Answers, choice
<1>. QED
  BY <1>6, <1>7, <1>8, <1>9 DEF InStep

LEMMA StepUnknown ==
    ASSUME InStep, handle_unknown
    PROVE  InStep'
<1>1. Serve("damaged") /\ alive' = FALSE /\ UNCHANGED <<answer, range, blocks, listed>>
  BY DEF handle_unknown
<1>3. /\ Queue(request') /\ ToSet(request') \subseteq ToSet(request)
      /\ Kinds(request') \subseteq Kinds(request) /\ Early(request') \subseteq Early(request)
      /\ Head(request).kind = "damaged" /\ "damaged" \in Kinds(request) /\ Head(request) \in ToSet(request)
      /\ \A a \in Answers : a \notin Kinds(answer) \cup Kinds(tty)
      /\ request # <<>> /\ UNCHANGED <<tty, pc, goal, choice>>
  BY <1>1, Served
<1>6. Types'
  BY <1>1, <1>3 DEF InStep, Types, Chosen, choice, Seek
<1>7. Ordered'
  BY <1>1, <1>3 DEF InStep, Ordered, Answers, Commands
<1>8. Phase'
  BY <1>1, <1>3 DEF InStep, Phase, Chosen, Answers, Entries, Seeking, Calm, Waiting, choice
<1>9. Steady'
  BY <1>1, <1>3 DEF InStep, Steady, Listed, Entries, Answers, choice
<1>. QED
  BY <1>6, <1>7, <1>8, <1>9 DEF InStep

LEMMA StepList ==
    ASSUME InStep, handle_open_flight_list
    PROVE  InStep'
<1>. DEFINE F == [i \in Flights |-> Msg("flight", <<flight_address(i), flight_end(i)>>)]
            e == Msg("null", <<>>)
            n == Len(Lengths)
<1>1. Serve("READ_FLIGHT_LIST") /\ listed' = TRUE /\ blocks' = <<>> /\ UNCHANGED <<range, alive>>
  BY DEF handle_open_flight_list
<1>3. /\ Queue(request') /\ ToSet(request') \subseteq ToSet(request)
      /\ Kinds(request') \subseteq Kinds(request) /\ Early(request') \subseteq Early(request)
      /\ Head(request).kind = "READ_FLIGHT_LIST" /\ "READ_FLIGHT_LIST" \in Kinds(request) /\ Head(request) \in ToSet(request)
      /\ \A a \in Answers : a \notin Kinds(answer) \cup Kinds(tty)
      /\ request # <<>> /\ UNCHANGED <<tty, pc, goal, choice>>
  BY <1>1, Served
<1>2. /\ n \in Nat /\ Flights = 1..n /\ e.kind = "null"
      /\ F \in [1..n -> {Msg("flight", x) : x \in FlightIndex}]
  BY Memory DEF FlightIndex, Msg
<1>4. answer' = answer \o F \o <<e>>
  BY DEF handle_open_flight_list
<1>. HIDE DEF F, e, n
<1>12. Queue(F) /\ \A m \in ToSet(F) : m.kind = "flight" /\ m.body \in FlightIndex
  <2>1. Queue(F) /\ ToSet(F) \subseteq {Msg("flight", x) : x \in FlightIndex}
    BY <1>2, Row
  <2>. QED
    BY <2>1 DEF Msg
<1>10. /\ Queue(answer') /\ ToSet(answer') = ToSet(answer) \cup ToSet(F) \cup {e}
      /\ Kinds(answer') \subseteq Kinds(answer) \cup {"flight", "null"}
  <2>1. Queue(answer)
    BY DEF InStep, Types
  <2>2. /\ Queue(answer') /\ ToSet(answer') = ToSet(answer) \cup ToSet(F) \cup {e}
        /\ Kinds(answer') = Kinds(answer) \cup Kinds(F) \cup {e.kind}
    <3>. DEFINE r == answer \o F
    <3>1. answer' = r \o <<e>>
      BY <1>4
    <3>2. Queue(r) /\ ToSet(r) = ToSet(answer) \cup ToSet(F)
      BY <1>12, <2>1, Joined DEF Queue
    <3>. HIDE DEF r
    <3>3. Queue(r) /\ answer' = Append(r, e)
      BY <3>1, <3>2, AppendIsConcat DEF Queue
    <3>4. /\ Queue(answer') /\ ToSet(answer') = ToSet(r) \cup {e}
          /\ Kinds(answer') = Kinds(r) \cup {e.kind}
      BY <3>3, Sending, ZenonT(60)
    <3>5. Kinds(r) = Kinds(answer) \cup Kinds(F)
      BY <3>2 DEF Kinds
    <3>. QED
      BY <3>2, <3>4, <3>5
  <2>3. Kinds(F) \subseteq {"flight"}
    BY <1>12 DEF Kinds
  <2>. QED
    BY <1>2, <2>2, <2>3
<1>11. \A m \in ToSet(answer') : m.kind = "flight" => m.body \in FlightIndex
  BY <1>2, <1>10, <1>12 DEF InStep, Types
<1>5. request' = <<>> /\ pc \notin Calm /\ (pc \in Waiting => Asked[pc] = "READ_FLIGHT_LIST")
  <2>1. "READ_FLIGHT_LIST" \in Commands
    BY DEF Commands
  <2>. QED
    BY <1>1, <2>1, Served
<1>6. Types'
  BY <1>1, <1>3, <1>10, <1>11 DEF InStep, Types, Chosen, choice, Seek
<1>7. Ordered'
  BY <1>3, <1>5, <1>10, NoQueue DEF Ordered, Answers, Commands
<1>8. Phase'
  BY <1>3, <1>5, <1>10, NoQueue DEF InStep, Phase, Chosen, Answers, Entries, Calm, Waiting, Asked, choice
<1>9. Steady'
  BY <1>1, <1>3, <1>5, <1>10, NoQueue DEF Steady, Calm, Waiting, Asked, Answers
<1>. QED
  BY <1>6, <1>7, <1>8, <1>9 DEF InStep

LEMMA StepLineFault ==
    ASSUME InStep, LineFault
    PROVE  InStep'
<1>1. PICK k \in Faults :
        \/ request # <<>> /\ request' \in Hurt(k, request) /\ UNCHANGED answer
        \/ answer # <<>> /\ answer' \in Hurt(k, answer) /\ UNCHANGED request
  BY DEF LineFault
<1>2. UNCHANGED <<tty, device, pc, goal, choice>>
  BY DEF LineFault
<1>3. CASE request # <<>> /\ request' \in Hurt(k, request) /\ UNCHANGED answer
  <2>1. /\ Queue(request') /\ \A m \in ToSet(request') : m \in ToSet(request) \/ m.kind \in {"damaged", "cut"}
        /\ Kinds(request') \subseteq Kinds(request) \cup {"damaged", "cut"}
        /\ Early(request') \subseteq Early(request) \cup {"damaged", "cut"}
        /\ "cut" \in Kinds(request') => "cut" \in Kinds(request) \/ "DEF_MEM" \in Kinds(request)
    <3>1. Queue(request)
      BY DEF InStep, Types
    <3>. QED
      BY <1>3, <3>1, Spoilt
  <2>2. Types'
    BY <1>2, <1>3, <2>1 DEF InStep, Types, Chosen, device, choice, Seek
  <2>3. Ordered'
    BY <1>2, <1>3, <2>1 DEF InStep, Ordered, Commands, Answers
  <2>4. Phase'
    BY <1>2, <1>3, <2>1 DEF InStep, Phase, Chosen, Commands, Asked, Waiting
  <2>5. Steady'
    BY <1>2, <1>3, <2>1 DEF InStep, Steady, Listed, device, choice
  <2>. QED
    BY <2>2, <2>3, <2>4, <2>5 DEF InStep
<1>4. CASE answer # <<>> /\ answer' \in Hurt(k, answer) /\ UNCHANGED request
  <2>1. /\ Queue(answer') /\ \A m \in ToSet(answer') : m \in ToSet(answer) \/ m.kind \in {"damaged", "cut"}
        /\ Kinds(answer') \subseteq Kinds(answer) \cup {"damaged", "cut"}
        /\ Early(answer') \subseteq Early(answer) \cup {"damaged", "cut"}
    <3>1. Queue(answer)
      BY DEF InStep, Types
    <3>. QED
      BY <1>4, <3>1, Spoilt
  <2>2. Types'
    BY <1>2, <1>4, <2>1 DEF InStep, Types, Chosen, device, choice, Seek
  <2>3. Ordered'
    BY <1>2, <1>4, <2>1 DEF InStep, Ordered, Commands, Answers
  <2>4. Phase'
    BY <1>2, <1>4, <2>1 DEF InStep, Phase, Chosen, Answers, Entries
  <2>5. Steady'
    BY <1>2, <1>4, <2>1 DEF InStep, Steady, Listed, Entries, device, choice
  <2>. QED
    BY <2>2, <2>3, <2>4, <2>5 DEF InStep
<1>. QED
  BY <1>1, <1>3, <1>4

LEMMA InStepNext == InStep /\ [Next]_vars => InStep'
<1>. SUFFICES ASSUME InStep, [Next]_vars
              PROVE  InStep'
  OBVIOUS
<1>1. CASE SendSyn
  BY <1>1, StepSendSyn
<1>2. CASE RecvAck
  BY <1>2, StepRecvAck
<1>3. CASE NoAck
  BY <1>3, StepNoAck
<1>4. CASE CheckMemSettings
  BY <1>4, StepCheckMemSettings
<1>5. CASE RecvSettings
  BY <1>5, StepRecvSettings
<1>6. CASE OpenFlightList
  BY <1>6, StepOpenFlightList
<1>7. CASE NextFlight
  BY <1>7, StepNextFlight
<1>8. CASE ChooseFlight
  BY <1>8, StepChooseFlight
<1>9. CASE SeekMem
  BY <1>9, StepSeekMem
<1>10. CASE SeekAck
  BY <1>10, StepSeekAck
<1>11. CASE GetMemSection
  BY <1>11, StepGetMemSection
<1>12. CASE RecvMemSection
  BY <1>12, StepRecvMemSection
<1>13. CASE DownloadSection
  BY <1>13, StepDownloadSection
<1>14. CASE RecvSection
  BY <1>14, StepRecvSection
<1>15. CASE Quit \/ WrongAnswer \/ NoAnswer
  BY <1>15, StepStops
<1>16. CASE ConvertFlight
  BY <1>16, StepConvertFlight
<1>17. CASE handle_syn
  BY <1>17, StepSyn
<1>18. CASE handle_check_mem_settings
  BY <1>18, StepSettings
<1>19. CASE handle_open_flight_list
  BY <1>19, StepList
<1>20. CASE handle_def_mem
  BY <1>20, StepDefMem
<1>21. CASE handle_def_mem_cut
  BY <1>21, StepDefMemCut
<1>22. CASE handle_get_mem_section
  BY <1>22, StepSections
<1>23. CASE handle_get_logger_data
  BY <1>23, StepData
<1>24. CASE handle_unknown
  BY <1>24, StepUnknown
<1>25. CASE Arrive
  BY <1>25, StepArrive
<1>26. CASE LineFault
  BY <1>26, StepLineFault
<1>27. CASE UNCHANGED vars
  <2>1. UNCHANGED <<request, answer, tty, device, pc, goal, choice>>
    BY <1>27 DEF vars, line
  <2>2. Types' /\ Ordered'
    BY <2>1 DEF InStep, Types, Ordered, Chosen, device, choice, Seek
  <2>3. Phase' /\ Steady'
    BY <2>1 DEF InStep, Phase, Steady, Chosen, Listed, device, choice
  <2>. QED
    BY <2>2, <2>3 DEF InStep
<1>. QED
  BY <1>1, <1>2, <1>3, <1>4, <1>5, <1>6, <1>7, <1>8, <1>9, <1>10, <1>11, <1>12, <1>13, <1>14, <1>15, <1>16, <1>17, <1>18, <1>19, <1>20, <1>21, <1>22, <1>23, <1>24, <1>25, <1>26, <1>27 DEF Next, Host, Device

\* At every step of lxn-logger the line holds only messages that belong there:
\* behind the last thing the host has written are the answers of the device to
\* it, what is left of earlier ones has a kind that the host skips, and the
\* blocks of the device are those of the last DEF_MEM it has read.
THEOREM AlwaysInStep == Spec => []InStep
<1>. QED
  BY InStepInit, InStepNext, PTL DEF Spec

\* What the sections of a range are.
Sections(b, f, l, n, c) ==
             /\ DOMAIN b = 1..n /\ Len(b) = n /\ (n = 0 <=> b = <<>>)
             /\ \A i \in 1..n : b[i] \in [flight : Flights, offset : Nat, length : Nat \ {0}]
             /\ \A i \in 1..n : b[i].offset + b[i].length <= Lengths[b[i].flight]
             /\ \A i \in 1..n : /\ flight_address(b[i].flight) + b[i].offset = c[i - 1]
                                /\ flight_address(b[i].flight) + b[i].offset + b[i].length = c[i]
                                /\ c[i - 1] < c[i]
             /\ c \in [0..n -> Nat] /\ c[0] = f
             /\ n = 0 <=> ~(f < l /\ f < MemorySize)
             /\ n # 0 => c[n] <= l
             /\ n # 0 /\ (n # MaxBlocks \/ n = Cardinality(Touched(f, l))) => c[n] = Min({l, MemorySize})

LEMMA SectionsOf ==
    ASSUME NEW f \in Nat, NEW l \in Nat
    PROVE  \E n, c : n \in 0..MaxBlocks /\ Sections(mem_blocks(f, l), f, l, n, c)
<1>. DEFINE b == mem_blocks(f, l)
<1>1. /\ Lengths \in Seq(Nat \ {0}) /\ Flights = 1..Len(Lengths) /\ MemorySize = Total(Lengths, Len(Lengths))
      /\ b = PartsOf(Lengths, MaxBlocks, f, l) /\ MaxBlocks \in Nat \ {0}
      /\ \A i \in Flights : flight_address(i) = Total(Lengths, i - 1) /\ flight_address(i) \in Nat
  BY Memory
<1>2. PICK n, c : n \in 0..MaxBlocks /\ RunFromTo(Lengths, MaxBlocks, f, l, PartsOf(Lengths, MaxBlocks, f, l), n, c)
  BY <1>1, PartsInARow
<1>. HIDE DEF b
<1>3. /\ b = [i \in 1..n |-> b[i]] /\ PartBounds(Lengths, b, n, c) /\ n \in Nat
  BY <1>1, <1>2 DEF RunFromTo
<1>4. \A i \in 1..n : b[i] \in [flight : Flights, offset : Nat, length : Nat \ {0}]
  BY <1>1, <1>3 DEF PartBounds
<1>5. DOMAIN b = 1..n /\ Len(b) = n /\ (n = 0 <=> b = <<>>)
  <2>. DEFINE S == [flight : Flights, offset : Nat, length : Nat \ {0}]
  <2>1. b \in [1..n -> S]
    BY <1>3, <1>4
  <2>. HIDE DEF S
  <2>2. Queue(b) /\ Len(b) = n /\ DOMAIN b = 1..n
    BY <1>3, <2>1, Row
  <2>. QED
    BY <2>2, QueueIs
<1>6. ASSUME NEW i \in 1..n
      PROVE  /\ flight_address(b[i].flight) + b[i].offset = c[i - 1]
             /\ flight_address(b[i].flight) + b[i].offset + b[i].length = c[i]
             /\ c[i - 1] < c[i]
             /\ b[i].offset + b[i].length <= Lengths[b[i].flight]
  <2>1. /\ Total(Lengths, b[i].flight - 1) + b[i].offset = c[i - 1] /\ c[i] = c[i - 1] + b[i].length
        /\ b[i].offset + b[i].length <= Lengths[b[i].flight] /\ c \in [0..n -> Nat]
    BY <1>3 DEF PartBounds
  <2>2. b[i].flight \in Flights /\ b[i].length \in Nat \ {0}
    BY <1>4
  <2>3. flight_address(b[i].flight) = Total(Lengths, b[i].flight - 1)
    BY <1>1, <2>2
  <2>4. c[i - 1] \in Nat
    <3>1. i - 1 \in 0..n
      BY <1>3
    <3>. QED
      BY <2>1, <3>1
  <2>. QED
    BY <2>1, <2>2, <2>3, <2>4
<1>7. c \in [0..n -> Nat]
  BY <1>3 DEF PartBounds
<1>8. Touched(f, l) = Reached(Lengths, f, l)
  <2>1. \A i \in Flights : flight_address(i) = Total(Lengths, i - 1) /\ flight_end(i) = Total(Lengths, i - 1) + Lengths[i]
    BY Memory
  <2>. QED
    BY <1>1, <2>1 DEF Touched, Reached
<1>9. /\ n = 0 <=> ~(f < l /\ f < MemorySize)
      /\ n # 0 /\ (n # MaxBlocks \/ n = Cardinality(Touched(f, l))) => c[n] = Min({l, MemorySize})
      /\ n # 0 => c[n] <= l
      /\ c[0] = f
  BY <1>1, <1>2, <1>8 DEF RunFromTo
<1>10. Sections(b, f, l, n, c)
  BY <1>4, <1>5, <1>6, <1>7, <1>9 DEF Sections
<1>. QED
  BY <1>2, <1>10 DEF b

LEMMA CoverInStep ==
    ASSUME InStep
    PROVE  SectionsCoverRange
<1>. DEFINE part == [i \in DOMAIN blocks |->
                   LET a == flight_address(blocks[i].flight) + blocks[i].offset
                   IN <<a, a + blocks[i].length>>]
            full == Len(blocks) = MaxBlocks
            end == Min({range[2], MemorySize})
<1>1. \A i \in DOMAIN blocks : blocks[i].offset + blocks[i].length <= Lengths[blocks[i].flight]
  <2>1. CASE blocks = <<>>
    <3>1. DOMAIN blocks = {}
      BY <2>1, EmptySeq
    <3>. QED
      BY <3>1
  <2>2. CASE \E f, l \in Nat : blocks = mem_blocks(f, l)
    <3>1. PICK f, l \in Nat : blocks = mem_blocks(f, l)
      BY <2>2
    <3>2. PICK n, c : n \in 0..MaxBlocks /\ Sections(mem_blocks(f, l), f, l, n, c)
      BY SectionsOf
    <3>. QED
      BY <3>1, <3>2 DEF Sections
  <2>. QED
    BY <2>1, <2>2 DEF InStep, Steady
<1>2. ASSUME pc = "section", range[1] < end
      PROVE  /\ blocks # <<>>
             /\ Tile(part, range[1], IF full THEN Last(part)[2] ELSE end)
             /\ Last(part)[2] <= range[2]
  <2>1. range[1] \in Nat /\ range[2] \in Nat /\ blocks = mem_blocks(range[1], range[2]) /\ MemorySize \in Nat
    BY <1>2, Memory DEF InStep, Types, Steady
  <2>12. PICK n, c : n \in 0..MaxBlocks /\ Sections(mem_blocks(range[1], range[2]), range[1], range[2], n, c)
    BY <2>1, SectionsOf
  <2>2. /\ DOMAIN blocks = 1..n /\ Len(blocks) = n /\ (n = 0 <=> blocks = <<>>)
        /\ \A i \in 1..n : /\ flight_address(blocks[i].flight) + blocks[i].offset = c[i - 1]
                           /\ flight_address(blocks[i].flight) + blocks[i].offset + blocks[i].length = c[i]
                           /\ c[i - 1] < c[i]
        /\ c[0] = range[1]
        /\ n = 0 <=> ~(range[1] < range[2] /\ range[1] < MemorySize)
        /\ n # 0 => c[n] <= range[2]
        /\ n # 0 /\ n # MaxBlocks => c[n] = end
    BY <2>1, <2>12 DEF Sections
  <2>3. n # 0 /\ n \in Nat /\ n \in 1..n
    <3>1. end = (IF range[2] <= MemorySize THEN range[2] ELSE MemorySize)
      BY <2>1, MinMaxOfTwo
    <3>2. range[1] < range[2] /\ range[1] < MemorySize
      <4>. HIDE DEF end
      <4>. QED
        BY <1>2, <2>1, <3>1
    <3>. QED
      BY <2>2, <3>2, MemoryAssumption
  <2>4. DOMAIN part = 1..n /\ \A i \in 1..n : part[i] = <<c[i - 1], c[i]>>
    BY <2>2
  <2>5. part \in [1..n -> {part[i] : i \in 1..n}]
    <3>1. part = [i \in 1..n |-> part[i]]
      BY <2>4
    <3>. HIDE DEF part
    <3>. QED
      BY <3>1
  <2>. HIDE DEF part, end
  <2>6. Len(part) = n /\ part # <<>>
    <3>. DEFINE S == {part[i] : i \in 1..n}
    <3>1. part \in [1..n -> S] /\ n \in Nat
      BY <2>3, <2>5
    <3>. HIDE DEF S
    <3>2. Queue(part) /\ Len(part) = n
      BY <3>1, Row
    <3>. QED
      BY <2>3, <3>2, QueueIs
  <2>7. Last(part)[2] = c[n] /\ part[Len(part)][2] = c[n]
    BY <2>3, <2>4, <2>6 DEF Last
  <2>8. \A i \in 1..Len(part) : part[i][1] = (IF i = 1 THEN range[1] ELSE part[i - 1][2]) /\ part[i][1] < part[i][2]
    <3>. SUFFICES ASSUME NEW i \in 1..n
                  PROVE  part[i][1] = (IF i = 1 THEN range[1] ELSE part[i - 1][2]) /\ part[i][1] < part[i][2]
      BY <2>6
    <3>1. part[i][1] = c[i - 1] /\ part[i][2] = c[i] /\ c[i - 1] < c[i]
      <4>1. part[i][1] = c[i - 1] /\ part[i][2] = c[i]
        BY <2>4
      <4>2. c[i - 1] < c[i]
        BY <2>2
      <4>. QED
        BY <4>1, <4>2
    <3>2. i = 1 \/ i - 1 \in 1..n
      BY <2>3
    <3>3. i = 1 => c[i - 1] = range[1]
      BY <2>2
    <3>4. i - 1 \in 1..n => part[i - 1][2] = c[i - 1]
      BY <2>4
    <3>. QED
      BY <3>1, <3>2, <3>3, <3>4
  <2>9. (IF full THEN Last(part)[2] ELSE end) = c[n]
    BY <2>2, <2>3, <2>7
  <2>10. Tile(part, range[1], c[n])
    BY <2>6, <2>7, <2>8 DEF Tile
  <2>11. blocks # <<>> /\ Last(part)[2] <= range[2]
    BY <2>2, <2>3, <2>7
  <2>. QED
    BY <2>9, <2>10, <2>11
<1>. HIDE DEF part
<1>. QED
  BY <1>1, <1>2 DEF SectionsCoverRange, part

\* The sections the emulator has computed for a DEF_MEM follow one another
\* through the range it names and never leave the files of the memory, for
\* every memory of up to MAX_FLIGHTS flights and whatever the line does.
THEOREM SectionsAlwaysCover == Spec => []SectionsCoverRange
<1>1. InStep => SectionsCoverRange
  BY CoverInStep
<1>. QED
  BY <1>1, AlwaysInStep, PTL

-----------------------------------------------------------------------------
(* Without a late ACK there is one message under way at a time, or the      *)
(* flight list.                                                            *)
Still == {"syn", "check", "list", "prompt", "def", "sections", "section"}
Single == {"ack", "settings", "seek", "lengths", "data"}
Cells == Len(request) + Len(answer) + Len(tty)
Dead == ~alive /\ answer = <<>> /\ tty = <<>>

InTurn ==
    /\ pc \in Still => Cells = 0
    /\ pc \in Single => Cells <= 1
    /\ pc = "flights" =>
         /\ request = <<>> \/ (Cells = 1 /\ flights = <<>>)
         /\ Len(flights) + Len(answer) + Len(tty) <= Len(Lengths) + 1
         /\ "null" \notin Early(answer)
         /\ "null" \in Kinds(tty) => "null" \notin Early(tty) /\ answer = <<>>

OneByOne == "late" \notin troubles => Dead \/ pc \in Stopped \/ InTurn

LEMMA Counted ==
    ASSUME Types
    PROVE  /\ Len(request) \in Nat /\ (Len(request) = 0 <=> request = <<>>)
           /\ Len(answer) \in Nat /\ (Len(answer) = 0 <=> answer = <<>>)
           /\ Len(tty) \in Nat /\ (Len(tty) = 0 <=> tty = <<>>)
           /\ Len(flights) \in Nat /\ (Len(flights) = 0 <=> flights = <<>>)
<1>1. Queue(request) /\ Queue(answer) /\ Queue(tty) /\ flights \in Seq(FlightIndex)
  BY DEF Types
<1>2. Len(flights) \in Nat /\ (Len(flights) = 0 <=> flights = <<>>)
  BY <1>1, LenProperties, EmptySeq
<1>. QED
  BY <1>1, <1>2, QueueIs

\* How many messages there are.
LEMMA Few ==
    ASSUME Types
    PROVE  /\ Len(request) \in Nat /\ Len(answer) \in Nat /\ Len(tty) \in Nat /\ Cells \in Nat
           /\ Cells = 0 <=> request = <<>> /\ answer = <<>> /\ tty = <<>>
           /\ Cells <= 1 /\ tty # <<>> => Len(tty) = 1 /\ request = <<>> /\ answer = <<>>
           /\ Cells <= 1 /\ request # <<>> => Len(request) = 1 /\ answer = <<>> /\ tty = <<>>
           /\ Cells <= 1 /\ answer # <<>> => Len(answer) = 1 /\ request = <<>> /\ tty = <<>>
<1>. DEFINE a == Len(request)  b == Len(answer)  c == Len(tty)
<1>1. a \in Nat /\ b \in Nat /\ c \in Nat
  BY Counted
<1>2. (a = 0 <=> request = <<>>) /\ (b = 0 <=> answer = <<>>) /\ (c = 0 <=> tty = <<>>)
  BY Counted
<1>3. Cells = a + b + c
  BY DEF Cells
<1>. HIDE DEF a, b, c
<1>4. /\ Cells \in Nat /\ (Cells = 0 <=> a = 0 /\ b = 0 /\ c = 0)
      /\ Cells <= 1 /\ c # 0 => c = 1 /\ a = 0 /\ b = 0
      /\ Cells <= 1 /\ a # 0 => a = 1 /\ b = 0 /\ c = 0
      /\ Cells <= 1 /\ b # 0 => b = 1 /\ a = 0 /\ c = 0
  BY <1>1, <1>3
<1>. QED
  BY <1>1, <1>2, <1>4 DEF a, b, c

LEMMA NoCells == request' = <<>> /\ answer' = <<>> /\ tty' = <<>> => Cells' = 0
<1>1. Len(<<>>) + Len(<<>>) + Len(<<>>) = 0
  BY NoQueue
<1>. QED
  BY <1>1 DEF Cells

LEMMA Parted ==
    /\ Still \cap Stopped = {} /\ Single \cap Stopped = {} /\ "flights" \notin Stopped \cup Still \cup Single
    /\ Still \cap Single = {}
BY DEF Still, Single, Stopped

LEMMA TurnSend ==
    ASSUME InStep, OneByOne, pc \in Still, NEW m, Send(m), alive' = alive,
           pc' \in Single \/ (pc' = "flights" /\ flights' = <<>>)
    PROVE  OneByOne'
<1>. SUFFICES ASSUME "late" \notin troubles'
              PROVE  Dead' \/ InTurn'
  BY DEF OneByOne
<1>1. /\ tty' = <<>> /\ answer' = answer /\ troubles' = troubles
      /\ Len(request') = Len(request) + 1 /\ Len(tty') = 0 /\ Kinds(tty') = {}
  BY HostSends, NoQueue DEF InStep
<1>2. CASE Dead
  BY <1>1, <1>2 DEF Dead
<1>3. CASE InTurn
  <2>1. Cells = 0 /\ Len(request) \in Nat /\ Len(answer) \in Nat /\ Len(tty) \in Nat
    BY <1>3, Counted DEF InTurn, InStep
  <2>2. Len(request) = 0 /\ Len(answer) = 0
    BY <2>1 DEF Cells
  <2>3. Cells' = 1 /\ answer = <<>>
    BY <1>1, <2>2, Counted DEF Cells, InStep
  <2>4. Early(answer') = {} /\ Len(answer') = 0 /\ Len(<<>>) = 0
    BY <1>1, <2>3, NoQueue
  <2>5. Len(Lengths) \in Nat
    BY Memory
  <2>6. pc' = "flights" => Len(flights') + Len(answer') + Len(tty') <= Len(Lengths) + 1
    BY <1>1, <2>4, <2>5, Parted
  <2>. QED
    BY <1>1, <2>3, <2>4, <2>6, Parted DEF InTurn
<1>. QED
  BY <1>1, <1>2, <1>3, Parted DEF OneByOne

LEMMA TurnRead ==
    ASSUME InStep, OneByOne, pc \in Single, tty # <<>>, tty' = Tail(tty),
           UNCHANGED <<request, answer, alive>>, troubles \subseteq troubles', pc' \in Still \cup Stopped
    PROVE  OneByOne'
<1>. SUFFICES ASSUME "late" \notin troubles', pc' \in Still
              PROVE  InTurn'
  BY DEF OneByOne
<1>1. InTurn
  BY Parted DEF OneByOne, Dead
<1>2. Types
  BY DEF InStep
<1>3. request = <<>> /\ answer = <<>> /\ Len(tty) = 1
  BY <1>1, <1>2, Few DEF InTurn
<1>4. tty' = <<>>
  <2>1. Queue(tty') /\ Len(tty') = Len(tty) - 1
    BY <1>2, HostReads
  <2>2. Len(tty') = 0
    BY <1>3, <2>1
  <2>. QED
    BY <2>1, <2>2, QueueIs
<1>5. Cells' = 0
  BY <1>3, <1>4, NoCells
<1>. QED
  BY <1>5, Parted DEF InTurn

LEMMA TurnMove ==
    ASSUME InStep, OneByOne, pc \in Still, pc' \in Still, UNCHANGED <<request, answer, tty, alive, troubles>>
    PROVE  OneByOne'
<1>. QED
  BY Parted DEF OneByOne, InTurn, Dead, Cells

LEMMA TurnNoAck ==
    ASSUME InStep, OneByOne, NoAck
    PROVE  OneByOne'
<1>1. pc = "ack" /\ pc' \in {"syn", "no filser"} /\ UNCHANGED <<request, answer, alive>>
  BY DEF NoAck, Read, NothingYet, Stop, device
<1>2. CASE tty # <<>> /\ tty' = Tail(tty) /\ troubles' = troubles
  <2>1. pc \in Single /\ pc' \in Still \cup Stopped
    BY <1>1 DEF Single, Still, Stopped
  <2>. QED
    BY <1>1, <1>2, <2>1, TurnRead
<1>3. CASE NothingYet /\ Silent /\ troubles' = troubles
  <2>1. "cut" \notin Kinds(request)
    BY <1>1 DEF InStep, Phase, Calm, Seeking
  <2>2. answer = <<>> /\ tty = <<>> /\ tty' = tty /\ (alive => request = <<>>)
    <3>1. request # <<>> => request[1].kind # "cut"
      <4>1. request # <<>> => request[1].kind \in Kinds(request)
        <5>1. Queue(request)
          BY DEF InStep, Types
        <5>2. request # <<>> => Head(request) = request[1]
          BY <5>1, Others DEF Queue
        <5>. QED
          BY <5>1, <5>2, QueueIs
      <4>. QED
        BY <2>1, <4>1
    <3>. QED
      BY <1>3, <3>1 DEF Silent, NothingYet
  <2>3. CASE alive
    <3>2. Cells' = 0
      BY <1>1, <2>2, <2>3, NoCells
    <3>3. pc' \in Stopped \/ pc' = "syn"
      BY <1>1 DEF Stopped
    <3>. QED
      BY <3>2, <3>3 DEF OneByOne, InTurn, Single
  <2>4. CASE ~alive
    BY <1>1, <2>2, <2>4 DEF OneByOne, Dead
  <2>. QED
    BY <2>3, <2>4
<1>4. CASE "late" \in troubles'
  BY <1>4 DEF OneByOne
<1>. QED
  BY <1>2, <1>3, <1>4 DEF NoAck, NothingYet, Read

LEMMA TurnNextFlight ==
    ASSUME InStep, OneByOne, NextFlight
    PROVE  OneByOne'
<1>. SUFFICES ASSUME "late" \notin troubles'
              PROVE  pc' \in Stopped \/ InTurn'
  BY DEF OneByOne
<1>1. /\ pc = "flights" /\ tty # <<>> /\ tty' = Tail(tty)
      /\ UNCHANGED <<request, answer, alive, troubles>>
      /\ \/ /\ Head(tty).kind = "flight" /\ flights' = Append(flights, Head(tty).body)
            /\ pc' = IF Len(flights) + 1 = MaxFlights THEN "prompt" ELSE "flights"
         \/ /\ Head(tty).kind = "null" /\ flights' = flights
            /\ pc' = IF flights = <<>> THEN "no flights" ELSE "prompt"
  BY DEF NextFlight, Read, device
<1>2. InTurn
  BY <1>1, Parted DEF OneByOne, Dead
<1>3. /\ Queue(tty') /\ Len(tty') = Len(tty) - 1
      /\ Kinds(tty') \subseteq Kinds(tty) /\ Early(tty') \subseteq Early(tty)
      /\ Head(tty).kind \in Kinds(tty) /\ (Head(tty).kind \notin Early(tty) => tty' = <<>>)
  BY <1>1, HostReads DEF InStep
<1>4. Len(answer) \in Nat /\ Len(tty) \in Nat /\ Len(flights) \in Nat /\ Len(tty) # 0
  BY <1>1, Counted DEF InStep
<1>5. request = <<>>
  <2>1. Cells = 1 => Cells <= 1
    OBVIOUS
  <2>2. Cells = 1 => request = <<>>
    BY <1>1, <2>1, Few DEF InStep
  <2>. QED
    BY <1>1, <1>2, <2>2 DEF InTurn
<1>6. CASE Head(tty).kind = "null" /\ flights' = flights /\ pc' = IF flights = <<>> THEN "no flights" ELSE "prompt"
  <2>1. tty' = <<>> /\ answer = <<>>
    BY <1>1, <1>2, <1>3, <1>6 DEF InTurn
  <2>3. Cells' = 0
    BY <1>1, <1>5, <2>1, NoCells
  <2>4. pc' \in Stopped \/ pc' = "prompt"
    BY <1>6 DEF Stopped
  <2>. QED
    BY <2>3, <2>4 DEF InTurn, Single
<1>7. CASE /\ Head(tty).kind = "flight" /\ flights' = Append(flights, Head(tty).body)
           /\ pc' = IF Len(flights) + 1 = MaxFlights THEN "prompt" ELSE "flights"
  <2>1. Len(flights') = Len(flights) + 1
    <3>1. flights \in Seq(FlightIndex) /\ Head(tty).body \in FlightIndex
      BY <1>1, <1>7, HostReads DEF InStep, Types
    <3>. QED
      BY <1>7, <3>1, AppendProperties
  <2>2. Len(flights) + Len(answer) + Len(tty) <= Len(Lengths) + 1
    BY <1>1, <1>2 DEF InTurn
  <2>3. Len(Lengths) \in Nat /\ MaxFlights \in Nat /\ Len(Lengths) < MaxFlights
    BY Memory, SessionAssumption, FlightsAssumption
  <2>4. CASE Len(flights) + 1 = MaxFlights
    <3>1. Len(tty) = 1 /\ Len(answer) = 0
      <4>. DEFINE a == Len(answer)  t == Len(tty)  f == Len(flights)  n == Len(Lengths)
      <4>1. a \in Nat /\ t \in Nat /\ f \in Nat /\ n \in Nat /\ t # 0
        BY <1>4, <2>3
      <4>2. f + a + t <= n + 1 /\ n < MaxFlights /\ f + 1 = MaxFlights
        BY <2>2, <2>3, <2>4
      <4>. HIDE DEF a, t, f, n
      <4>3. t = 1 /\ a = 0
        BY <4>1, <4>2
      <4>. QED
        BY <4>3 DEF a, t
    <3>3. tty' = <<>>
      <4>1. Len(tty') = 0
        BY <1>3, <3>1
      <4>. QED
        BY <1>3, <4>1, QueueIs
    <3>4. answer = <<>>
      BY <3>1, Counted DEF InStep
    <3>2. Cells' = 0
      BY <1>1, <1>5, <3>3, <3>4, NoCells
    <3>. QED
      BY <1>7, <2>4, <3>2 DEF InTurn, Single
  <2>5. CASE Len(flights) + 1 # MaxFlights
    <3>1. pc' = "flights"
      BY <1>7, <2>5
    <3>2. Len(flights') + Len(answer') + Len(tty') <= Len(Lengths) + 1
      <4>. DEFINE a == Len(answer)  t == Len(tty)  f == Len(flights)  n == Len(Lengths)
                  g == Len(flights')  u == Len(tty')
      <4>1. a \in Nat /\ t \in Nat /\ f \in Nat /\ n \in Nat
        BY <1>4, <2>3
      <4>2. f + a + t <= n + 1 /\ g = f + 1 /\ u = t - 1
        BY <1>3, <2>1, <2>2
      <4>3. answer' = answer
        BY <1>1
      <4>. HIDE DEF a, t, f, n, g, u
      <4>4. g + a + u <= n + 1
        BY <4>1, <4>2
      <4>. QED
        BY <4>3, <4>4 DEF a, t, f, n, g, u
    <3>3. "null" \notin Early(answer') /\ ("null" \in Kinds(tty') => "null" \notin Early(tty') /\ answer' = <<>>)
      BY <1>1, <1>2, <1>3 DEF InTurn
    <3>4. request' = <<>>
      BY <1>1, <1>5
    <3>. QED
      BY <3>1, <3>2, <3>3, <3>4, Parted DEF InTurn
  <2>. QED
    BY <2>4, <2>5
<1>. QED
  BY <1>1, <1>6, <1>7

LEMMA TurnAnswer ==
    ASSUME InStep, OneByOne, NEW k, Serve(k), NEW m, answer' = Append(answer, m), alive' = alive
    PROVE  OneByOne'
<1>. SUFFICES ASSUME "late" \notin troubles', pc' \notin Stopped
              PROVE  InTurn'
  BY DEF OneByOne
<1>1. alive /\ request # <<>> /\ request' = Tail(request) /\ UNCHANGED <<tty, troubles, pc, flights>>
  BY DEF Serve, choice
<1>2. InTurn
  BY <1>1 DEF OneByOne, Dead
<1>3. Queue(request) /\ Queue(answer)
  BY DEF InStep, Types
<1>4. Len(request') = Len(request) - 1 /\ Len(answer') = Len(answer) + 1 /\ Early(answer') = Kinds(answer)
  <2>1. Len(request') = Len(request) - 1
    BY <1>1, <1>3, Taking
  <2>2. Queue(answer) /\ answer' = Append(answer, m)
    BY <1>3
  <2>3. Len(answer') = Len(answer) + 1 /\ Early(answer') = Kinds(answer)
    BY <2>2, Sending
  <2>. QED
    BY <2>1, <2>3
<1>5. /\ Len(request) \in Nat /\ Len(answer) \in Nat /\ Len(tty) \in Nat /\ Len(request) # 0
      /\ (Len(answer) = 0 <=> answer = <<>>) /\ (Len(tty) = 0 <=> tty = <<>>) /\ Len(<<>>) = 0
  BY <1>1, Counted, NoQueue DEF InStep
<1>6. Cells' = Cells
  BY <1>1, <1>4, <1>5 DEF Cells
<1>7. ASSUME pc = "flights"
      PROVE  /\ request' = <<>> /\ Len(flights) + Len(answer') + Len(tty) <= Len(Lengths) + 1
             /\ Early(answer') = {} /\ Kinds(tty) = {}
  <2>1. Cells = 1 /\ flights = <<>>
    BY <1>1, <1>2, <1>7 DEF InTurn
  <2>2. Len(request) = 1 /\ answer = <<>> /\ tty = <<>>
    BY <1>1, <2>1, Few DEF InStep
  <2>3. request' = <<>>
    <3>1. Queue(request')
      BY <1>1, <1>3, Taking
    <3>2. Len(request') = 0
      BY <1>4, <2>2
    <3>. QED
      BY <3>1, <3>2, QueueIs
  <2>4. Len(answer) = 0 /\ Len(tty) = 0 /\ Len(flights) = 0
    BY <2>1, <2>2, NoQueue
  <2>5. Kinds(answer) = {} /\ Kinds(tty) = {}
    BY <2>2, NoQueue
  <2>6. Len(Lengths) \in Nat
    BY Memory
  <2>. QED
    BY <1>4, <2>3, <2>4, <2>5, <2>6
<1>8. pc' \in Still => Cells' = 0
  BY <1>1, <1>2, <1>6 DEF InTurn
<1>9. pc' \in Single => Cells' <= 1
  BY <1>1, <1>2, <1>6 DEF InTurn
<1>. QED
  BY <1>1, <1>7, <1>8, <1>9 DEF InTurn

\* A device that exits, and one that sends the flight list.
LEMMA TurnExit ==
    ASSUME InStep, OneByOne, NEW k, Serve(k), answer' = answer, alive' = FALSE
    PROVE  OneByOne'
<1>. SUFFICES ASSUME "late" \notin troubles', pc' \notin Stopped
              PROVE  InTurn'
  BY DEF OneByOne
<1>1. alive /\ request # <<>> /\ request' = Tail(request) /\ UNCHANGED <<tty, troubles, pc, flights>>
  BY DEF Serve, choice
<1>2. InTurn
  BY <1>1 DEF OneByOne, Dead
<1>3. Queue(request') /\ Len(request') = Len(request) - 1
  <2>1. Queue(request)
    BY DEF InStep, Types
  <2>. QED
    BY <1>1, <2>1, Taking
<1>4. /\ Len(request) \in Nat /\ Len(answer) \in Nat /\ Len(tty) \in Nat /\ Len(request) # 0
  BY <1>1, Counted DEF InStep
<1>5. pc \notin Still
  BY <1>2, <1>4 DEF InTurn, Cells
<1>6. pc \in Single => Cells' <= 1
  <2>1. ASSUME pc \in Single
        PROVE  Cells <= 1
    BY <1>2, <2>1 DEF InTurn
  <2>. QED
    BY <1>1, <1>3, <1>4, <2>1 DEF Cells
<1>7. pc = "flights" => request' = <<>>
  <2>1. ASSUME pc = "flights"
        PROVE  Len(request') = 0
    <3>1. Cells = 1
      BY <1>1, <1>2, <2>1 DEF InTurn
    <3>. QED
      BY <1>3, <1>4, <3>1 DEF Cells
  <2>. QED
    BY <1>3, <2>1, QueueIs
<1>8. pc = "flights" => /\ Len(flights) + Len(answer) + Len(tty) <= Len(Lengths) + 1
                        /\ "null" \notin Early(answer)
                        /\ "null" \in Kinds(tty) => "null" \notin Early(tty) /\ answer = <<>>
  BY <1>2 DEF InTurn
<1>. QED
  BY <1>1, <1>5, <1>6, <1>7, <1>8 DEF InTurn

LEMMA TurnList ==
    ASSUME InStep, OneByOne, handle_open_flight_list
    PROVE  OneByOne'
<1>. DEFINE F == [i \in Flights |-> Msg("flight", <<flight_address(i), flight_end(i)>>)]
            e == Msg("null", <<>>)
<1>. SUFFICES ASSUME "late" \notin troubles', pc' \notin Stopped
              PROVE  InTurn'
  BY DEF OneByOne
<1>1. Serve("READ_FLIGHT_LIST") /\ UNCHANGED alive
  BY DEF handle_open_flight_list
<1>2. /\ alive /\ request # <<>> /\ request' = <<>> /\ UNCHANGED <<tty, troubles, pc, flights>>
      /\ pc = "flights"
  <2>1. "READ_FLIGHT_LIST" \in Commands
    BY DEF Commands
  <2>2. request' = <<>> /\ pc \notin Calm /\ (pc \in Waiting => Asked[pc] = "READ_FLIGHT_LIST")
    BY <1>1, <2>1, Served
  <2>3. alive /\ request # <<>> /\ UNCHANGED <<tty, troubles, pc, flights>>
    BY <1>1 DEF Serve, choice
  <2>4. pc \in Calm \cup Waiting \cup Stopped
    BY DEF InStep, Types
  <2>. QED
    BY <2>2, <2>3, <2>4 DEF Waiting, Asked
<1>3. InTurn
  BY <1>2 DEF OneByOne, Dead
<1>4. answer = <<>> /\ tty = <<>> /\ flights = <<>>
  <2>1. Cells = 1 /\ flights = <<>>
    BY <1>2, <1>3 DEF InTurn
  <2>2. /\ Len(request) \in Nat /\ Len(answer) \in Nat /\ Len(tty) \in Nat /\ Len(request) # 0
        /\ (Len(answer) = 0 <=> answer = <<>>) /\ (Len(tty) = 0 <=> tty = <<>>)
    BY <1>2, Counted DEF InStep
  <2>3. Len(answer) = 0 /\ Len(tty) = 0
    BY <2>1, <2>2 DEF Cells
  <2>. QED
    BY <2>1, <2>2, <2>3
<1>5. Queue(F) /\ Len(F) = Len(Lengths) /\ (\A m \in ToSet(F) : m.kind = "flight") /\ e.kind = "null"
  <2>1. Len(Lengths) \in Nat /\ Flights = 1..Len(Lengths)
    BY Memory
  <2>. DEFINE n == Len(Lengths)
  <2>2. n \in Nat /\ F \in [1..n -> {Msg("flight", x) : x \in FlightIndex}]
    BY <2>1 DEF FlightIndex
  <2>. HIDE DEF n, F
  <2>3. Queue(F) /\ Len(F) = n /\ ToSet(F) \subseteq {Msg("flight", x) : x \in FlightIndex}
    BY <2>2, Row
  <2>. QED
    BY <2>3 DEF Msg, n
<1>6. answer' = answer \o F \o <<e>>
  BY DEF handle_open_flight_list
<1>. HIDE DEF F, e
<1>7. Queue(answer') /\ Len(answer') = Len(Lengths) + 1 /\ "null" \notin Early(answer')
  <2>. DEFINE r == answer \o F
  <2>1. answer' = r \o <<e>>
    BY <1>6
  <2>2. Queue(answer) /\ Len(answer) = 0 /\ ToSet(answer) = {}
    BY <1>4, NoQueue
  <2>3. Queue(r) /\ ToSet(r) = ToSet(answer) \cup ToSet(F) /\ Len(r) = Len(answer) + Len(F)
    BY <1>5, <2>2, Joined DEF Queue
  <2>. HIDE DEF r
  <2>4. Queue(r) /\ answer' = Append(r, e)
    BY <2>1, <2>3, AppendIsConcat DEF Queue
  <2>5. Queue(answer') /\ Len(answer') = Len(r) + 1 /\ Early(answer') = Kinds(r)
    BY <2>4, Sending
  <2>6. Kinds(r) \subseteq {"flight"}
    BY <1>5, <2>2, <2>3 DEF Kinds
  <2>7. Len(r) = Len(Lengths)
    BY <1>5, <2>2, <2>3, Memory
  <2>. QED
    BY <2>5, <2>6, <2>7
<1>8. Len(flights') + Len(answer') + Len(tty') <= Len(Lengths) + 1 /\ Kinds(tty') = {}
  <2>1. Len(flights') = 0 /\ Len(tty') = 0 /\ Kinds(tty') = {}
    BY <1>2, <1>4, NoQueue
  <2>2. Len(Lengths) \in Nat
    BY Memory
  <2>. QED
    BY <1>7, <2>1, <2>2
<1>. QED
  BY <1>2, <1>7, <1>8, Parted DEF InTurn

LEMMA TurnArrive ==
    ASSUME InStep, OneByOne, Arrive
    PROVE  OneByOne'
<1>. SUFFICES ASSUME "late" \notin troubles', pc' \notin Stopped
              PROVE  InTurn'
  BY DEF OneByOne
<1>1. /\ answer # <<>> /\ tty' = Append(tty, Head(answer)) /\ answer' = Tail(answer)
      /\ UNCHANGED <<request, troubles, alive, pc, flights>>
  BY DEF Arrive, device, choice
<1>2. InTurn
  BY <1>1 DEF OneByOne, Dead
<1>3. Queue(answer) /\ Queue(tty)
  BY DEF InStep, Types
<1>4. /\ Len(answer') = Len(answer) - 1 /\ Early(answer') \subseteq Early(answer)
      /\ Head(answer).kind \in Kinds(answer) /\ (Head(answer).kind \notin Early(answer) => answer' = <<>>)
  BY <1>1, <1>3, Taking
<1>5. /\ Len(tty') = Len(tty) + 1
      /\ Kinds(tty') = Kinds(tty) \cup {Head(answer).kind} /\ Early(tty') = Kinds(tty)
  <2>. DEFINE m == Head(answer)
  <2>1. Queue(tty) /\ tty' = Append(tty, m)
    BY <1>1, <1>3
  <2>. HIDE DEF m
  <2>2. Len(tty') = Len(tty) + 1 /\ Kinds(tty') = Kinds(tty) \cup {m.kind} /\ Early(tty') = Kinds(tty)
    BY <2>1, Sending, ZenonT(60)
  <2>. QED
    BY <2>2 DEF m
<1>6. Len(request) \in Nat /\ Len(answer) \in Nat /\ Len(tty) \in Nat /\ Len(flights) \in Nat
  BY Counted DEF InStep
<1>7. Cells' = Cells /\ Len(answer') + Len(tty') = Len(answer) + Len(tty)
  BY <1>1, <1>4, <1>5, <1>6 DEF Cells
<1>8. pc = "flights" => /\ Len(flights') + Len(answer') + Len(tty') <= Len(Lengths) + 1
                        /\ "null" \notin Early(answer')
                        /\ "null" \in Kinds(tty') => "null" \notin Early(tty') /\ answer' = <<>>
  <2>1. ASSUME pc = "flights"
        PROVE  Len(flights') + Len(answer') + Len(tty') <= Len(Lengths) + 1
    <3>1. Len(flights) + Len(answer) + Len(tty) <= Len(Lengths) + 1
      BY <1>2, <2>1 DEF InTurn
    <3>2. Len(Lengths) \in Nat
      BY Memory
    <3>. QED
      BY <1>1, <1>4, <1>5, <1>6, <3>1, <3>2
  <2>2. ASSUME pc = "flights"
        PROVE  "null" \notin Early(answer') /\ ("null" \in Kinds(tty') => "null" \notin Early(tty') /\ answer' = <<>>)
    BY <1>1, <1>2, <1>4, <1>5, <2>2 DEF InTurn
  <2>. QED
    BY <2>1, <2>2
<1>9. (pc \in Still => Cells' = 0) /\ (pc \in Single => Cells' <= 1)
      /\ (pc = "flights" => request = <<>> \/ (Cells' = 1 /\ flights = <<>>))
  BY <1>2, <1>7 DEF InTurn
<1>. QED
  BY <1>1, <1>8, <1>9 DEF InTurn

LEMMA SpoiltLength ==
    ASSUME NEW s, Queue(s), s # <<>>, NEW k, NEW t \in Hurt(k, s)
    PROVE  Len(t) = Len(s) \/ Len(t) = Len(s) - 1
<1>1. \/ t = Tail(s)
      \/ t = <<Msg("damaged", <<>>)>> \o Tail(s)
      \/ t = <<Msg("cut", <<>>)>> \o Tail(s)
  <2>1. CASE k = "lose"
    BY <2>1 DEF Hurt
  <2>2. CASE k = "damage"
    BY <2>2 DEF Hurt
  <2>3. CASE k # "lose" /\ k # "damage"
    BY <2>3 DEF Hurt
  <2>. QED
    BY <2>1, <2>2, <2>3
<1>2. CASE t = Tail(s)
  BY <1>2, Taking
<1>3. ASSUME NEW m, t = <<m>> \o Tail(s)
      PROVE  Len(t) = Len(s)
  BY <1>3, Hurting
<1>. QED
  BY <1>1, <1>2, <1>3

LEMMA TurnLineFault ==
    ASSUME InStep, InStep', OneByOne, LineFault
    PROVE  OneByOne'
<1>. SUFFICES ASSUME "late" \notin troubles', pc' \notin Stopped, ~Dead'
              PROVE  InTurn'
  BY DEF OneByOne
<1>1. PICK k \in Faults :
        \/ request # <<>> /\ request' \in Hurt(k, request) /\ UNCHANGED answer
        \/ answer # <<>> /\ answer' \in Hurt(k, answer) /\ UNCHANGED request
  BY DEF LineFault
<1>2. UNCHANGED <<tty, alive, pc, flights>> /\ "late" \notin troubles
  BY DEF LineFault, device, choice
<1>3. Queue(request) /\ Queue(answer) /\ Queue(request') /\ Queue(answer')
  BY DEF InStep, Types
<1>4. /\ Len(request) \in Nat /\ Len(answer) \in Nat /\ Len(tty) \in Nat
      /\ Len(request') \in Nat /\ Len(answer') \in Nat
      /\ (Len(request) = 0 <=> request = <<>>) /\ (Len(answer) = 0 <=> answer = <<>>)
      /\ (Len(request') = 0 <=> request' = <<>>)
  BY <1>3, Counted, QueueIs DEF InStep
<1>5. CASE request # <<>> /\ request' \in Hurt(k, request) /\ UNCHANGED answer
  <2>1. Len(request') = Len(request) \/ Len(request') = Len(request) - 1
    BY <1>3, <1>5, SpoiltLength
  <2>2. InTurn
    BY <1>2, <1>5 DEF OneByOne, Dead
  <2>. DEFINE a == Len(request)  b == Len(request')  c == Len(answer)  d == Len(tty)
  <2>3. /\ a \in Nat /\ b \in Nat /\ c \in Nat /\ d \in Nat /\ a # 0
        /\ b = a \/ b = a - 1
    BY <1>4, <1>5, <2>1
  <2>4. Cells = a + c + d /\ Cells' = b + c + d
    BY <1>2, <1>5 DEF Cells
  <2>. HIDE DEF a, b, c, d
  <2>5. Cells # 0 /\ (Cells <= 1 => Cells' <= 1) /\ (Cells = 1 => b = 0 \/ Cells' = 1)
    BY <2>3, <2>4
  <2>6. b = 0 => request' = <<>>
    BY <1>4 DEF b
  <2>7. pc \notin Still /\ (pc \in Single => Cells' <= 1)
    BY <2>2, <2>5 DEF InTurn
  <2>8. pc = "flights" => (request' = <<>> \/ (Cells' = 1 /\ flights = <<>>))
    BY <1>5, <2>2, <2>5, <2>6 DEF InTurn
  <2>9. pc = "flights" => /\ Len(flights) + Len(answer) + Len(tty) <= Len(Lengths) + 1
                          /\ "null" \notin Early(answer)
                          /\ "null" \in Kinds(tty) => "null" \notin Early(tty) /\ answer = <<>>
    BY <2>2 DEF InTurn
  <2>. QED
    BY <1>2, <1>5, <2>7, <2>8, <2>9 DEF InTurn
<1>6. CASE answer # <<>> /\ answer' \in Hurt(k, answer) /\ UNCHANGED request
  <2>1. (Len(answer') = Len(answer) \/ Len(answer') = Len(answer) - 1)
        /\ Early(answer') \subseteq Early(answer) \cup {"damaged", "cut"}
    BY <1>3, <1>6, SpoiltLength, Spoilt
  <2>2. InTurn
    BY <1>2, <1>6 DEF OneByOne, Dead
  <2>. DEFINE a == Len(request)  b == Len(answer')  c == Len(answer)  d == Len(tty)
  <2>3. /\ a \in Nat /\ b \in Nat /\ c \in Nat /\ d \in Nat /\ c # 0
        /\ b = c \/ b = c - 1
    BY <1>4, <1>6, <2>1
  <2>4. Cells = a + c + d /\ Cells' = a + b + d
    BY <1>2, <1>6 DEF Cells
  <2>10. request # <<>> => a # 0
    BY <1>4 DEF a
  <2>11. Len(flights) \in Nat /\ Len(Lengths) \in Nat
    BY Counted, Memory DEF InStep
  <2>. HIDE DEF a, b, c, d
  <2>5. Cells # 0 /\ (Cells <= 1 => Cells' <= 1) /\ (Cells = 1 => a = 0)
    BY <2>3, <2>4
  <2>7. pc \notin Still /\ (pc \in Single => Cells' <= 1)
    BY <2>2, <2>5 DEF InTurn
  <2>8. pc = "flights" => request = <<>>
    BY <2>2, <2>5, <2>10 DEF InTurn
  <2>9. pc = "flights" => Len(flights) + Len(answer') + Len(tty) <= Len(Lengths) + 1
    <3>. DEFINE f == Len(flights)  n == Len(Lengths)
    <3>1. f \in Nat /\ n \in Nat /\ (pc = "flights" => f + c + d <= n + 1)
      BY <2>2, <2>11 DEF InTurn, c, d
    <3>. HIDE DEF f, n
    <3>2. pc = "flights" => f + b + d <= n + 1
      BY <2>3, <3>1
    <3>. QED
      BY <3>2 DEF f, n, b, d
  <2>12. pc = "flights" => "null" \notin Early(answer') /\ "null" \notin Kinds(tty)
    BY <1>6, <2>1, <2>2 DEF InTurn
  <2>. QED
    BY <1>2, <1>6, <2>7, <2>8, <2>9, <2>12 DEF InTurn
<1>. QED
  BY <1>1, <1>5, <1>6

LEMMA OneByOneInit == Init => OneByOne
<1>1. Len(<<>>) + Len(<<>>) + Len(<<>>) = 0
  BY NoQueue
<1>. QED
  BY <1>1 DEF Init, OneByOne, InTurn, Cells, Single

LEMMA OneByOneNext ==
    ASSUME InStep, InStep', OneByOne, [Next]_vars
    PROVE  OneByOne'
<1>1. CASE SendSyn
  <2>1. pc \in Still /\ pc' \in Single /\ Send(Msg("SYN", <<>>)) /\ alive' = alive
    BY <1>1 DEF SendSyn, Still, Single, device
  <2>. QED
    BY <2>1, TurnSend
<1>2. CASE RecvAck
  <2>1. /\ pc \in Single /\ tty # <<>> /\ tty' = Tail(tty) /\ UNCHANGED <<request, answer, alive>>
        /\ troubles' = troubles /\ pc' \in Still \cup Stopped
    BY <1>2 DEF RecvAck, Read, Still, Single, device, InStep, Types
  <2>. QED
    BY <2>1, TurnRead
<1>3. CASE NoAck
  BY <1>3, TurnNoAck
<1>4. CASE CheckMemSettings
  <2>1. pc \in Still /\ pc' \in Single /\ Send(Msg("CHECK_MEM_SETTINGS", <<>>)) /\ alive' = alive
    BY <1>4 DEF CheckMemSettings, Still, Single, device
  <2>. QED
    BY <2>1, TurnSend
<1>5. CASE RecvSettings
  <2>1. /\ pc \in Single /\ tty # <<>> /\ tty' = Tail(tty) /\ UNCHANGED <<request, answer, alive>>
        /\ troubles' = troubles /\ pc' \in Still \cup Stopped
    BY <1>5 DEF RecvSettings, SynAckWait, Read, Still, Single, device
  <2>. QED
    BY <2>1, TurnRead
<1>6. CASE OpenFlightList
  <2>1. pc \in Still /\ pc' = "flights" /\ flights' = <<>> /\ Send(Msg("READ_FLIGHT_LIST", <<>>)) /\ alive' = alive
    BY <1>6 DEF OpenFlightList, Still, device
  <2>. QED
    BY <2>1, TurnSend
<1>7. CASE NextFlight
  BY <1>7, TurnNextFlight
<1>8. CASE ChooseFlight
  <2>1. pc \in Still /\ pc' \in Still /\ UNCHANGED <<request, answer, tty, alive, troubles>>
    BY <1>8 DEF ChooseFlight, SynAckWait, Still, line, device
  <2>. QED
    BY <2>1, TurnMove
<1>9. CASE Quit \/ WrongAnswer \/ NoAnswer
  BY <1>9 DEF Quit, WrongAnswer, NoAnswer, Stop, Stopped, OneByOne
<1>10. CASE SeekMem
  <2>1. pc \in Still /\ pc' \in Single /\ alive' = alive
        /\ Send(Msg("DEF_MEM", <<def_mem_packet(flights[wanted][1]), def_mem_packet(flights[wanted][2])>>))
    BY <1>10 DEF SeekMem, Still, Single, device
  <2>. QED
    BY <2>1, TurnSend
<1>11. CASE SeekAck
  <2>1. /\ pc \in Single /\ tty # <<>> /\ tty' = Tail(tty) /\ UNCHANGED <<request, answer, alive>>
        /\ troubles' = troubles /\ pc' \in Still \cup Stopped
    BY <1>11 DEF SeekAck, Read, Still, Single, device
  <2>. QED
    BY <2>1, TurnRead
<1>12. CASE GetMemSection
  <2>1. pc \in Still /\ pc' \in Single /\ Send(Msg("GET_MEM_SECTION", <<>>)) /\ alive' = alive
    BY <1>12 DEF GetMemSection, Still, Single, device
  <2>. QED
    BY <2>1, TurnSend
<1>13. CASE RecvMemSection
  <2>1. /\ pc \in Single /\ tty # <<>> /\ tty' = Tail(tty) /\ UNCHANGED <<request, answer, alive>>
        /\ troubles' = troubles /\ pc' \in Still \cup Stopped
    BY <1>13 DEF RecvMemSection, Read, Still, Single, device
  <2>. QED
    BY <2>1, TurnRead
<1>14. CASE DownloadSection
  <2>1. pc \in Still /\ pc' \in Single /\ Send(Msg("READ_LOGGER_DATA", <<section>>)) /\ alive' = alive
    BY <1>14 DEF DownloadSection, Still, Single, device
  <2>. QED
    BY <2>1, TurnSend
<1>15. CASE RecvSection
  <2>1. /\ pc \in Single /\ tty # <<>> /\ tty' = Tail(tty) /\ UNCHANGED <<request, answer, alive>>
        /\ troubles \subseteq troubles' /\ pc' \in Still \cup Stopped
    BY <1>15 DEF RecvSection, Still, Single, device
  <2>. QED
    BY <2>1, TurnRead
<1>16. CASE ConvertFlight
  <2>1. pc \in Still /\ pc' \in Still /\ UNCHANGED <<request, answer, tty, alive, troubles>>
    BY <1>16 DEF ConvertFlight, Still, line, device
  <2>. QED
    BY <2>1, TurnMove
<1>17. CASE handle_syn
  <2>1. Serve("SYN") /\ answer' = Append(answer, Ack) /\ alive' = alive
    BY <1>17 DEF handle_syn, device
  <2>. QED
    BY <2>1, TurnAnswer
<1>18. CASE handle_check_mem_settings
  <2>1. Serve("CHECK_MEM_SETTINGS") /\ answer' = Append(answer, Msg("settings", <<>>)) /\ alive' = alive
    BY <1>18 DEF handle_check_mem_settings, device
  <2>. QED
    BY <2>1, TurnAnswer
<1>19. CASE handle_open_flight_list
  BY <1>19, TurnList
<1>20. CASE handle_def_mem
  <2>1. Serve("DEF_MEM") /\ answer' = Append(answer, Ack) /\ alive' = alive
    BY <1>20 DEF handle_def_mem
  <2>. QED
    BY <2>1, TurnAnswer
<1>21. CASE handle_def_mem_cut
  <2>1. Serve("cut")
    BY <1>21 DEF handle_def_mem_cut
  <2>2. CASE answer' = Append(answer, Ack) /\ alive' = alive
    BY <2>1, <2>2, TurnAnswer
  <2>3. CASE answer' = answer /\ alive' = FALSE
    BY <2>1, <2>3, TurnExit
  <2>. QED
    BY <1>21, <2>2, <2>3 DEF handle_def_mem_cut
<1>22. CASE handle_get_mem_section
  <2>1. Serve("GET_MEM_SECTION") /\ answer' = Append(answer, Msg("sections", section_lengths(blocks'))) /\ alive' = alive
    BY <1>22 DEF handle_get_mem_section
  <2>. QED
    BY <2>1, TurnAnswer
<1>23. CASE handle_get_logger_data
  <2>1. PICK m : answer' = Append(answer, m)
    BY <1>23 DEF handle_get_logger_data
  <2>2. Serve("READ_LOGGER_DATA") /\ alive' = alive
    BY <1>23 DEF handle_get_logger_data, device
  <2>. QED
    BY <2>1, <2>2, TurnAnswer
<1>24. CASE handle_unknown
  <2>1. Serve("damaged") /\ answer' = answer /\ alive' = FALSE
    BY <1>24 DEF handle_unknown
  <2>. QED
    BY <2>1, TurnExit
<1>25. CASE Arrive
  BY <1>25, TurnArrive
<1>26. CASE LineFault
  BY <1>26, TurnLineFault
<1>27. CASE UNCHANGED vars
  BY <1>27 DEF vars, line, device, choice, OneByOne, InTurn, Dead, Cells
<1>. QED
  BY <1>1, <1>2, <1>3, <1>4, <1>5, <1>6, <1>7, <1>8, <1>9, <1>10, <1>11, <1>12, <1>13, <1>14, <1>15, <1>16,
     <1>17, <1>18, <1>19, <1>20, <1>21, <1>22, <1>23, <1>24, <1>25, <1>26, <1>27 DEF Next, Host, Device

-----------------------------------------------------------------------------
(* What the messages carry and what is in the file.                        *)
PartOf(b) == <<flight_address(b.flight) + b.offset, flight_address(b.flight) + b.offset + b.length>>
Parts(b, n) == [i \in 1..n |-> PartOf(b[i])]

Sized ==
    /\ Len(flights) <= MaxFlights /\ (pc = "flights" => Len(flights) < MaxFlights)
    /\ DOMAIN file = 1..MaxFlights

Named == \A m \in ToSet(answer) \cup ToSet(tty) : m.kind = "sections" => m.body = section_lengths(blocks)

Loading ==
    pc \in {"section", "data"} =>
      /\ lengths = section_lengths(blocks) /\ section \in 1..(Len(blocks) + 1)
      /\ pc = "data" => section \in 1..Len(blocks)
      /\ \A m \in ToSet(request) : m.kind = "READ_LOGGER_DATA" => m.body[1] = section
      /\ \A m \in ToSet(answer) \cup ToSet(tty) : m.kind = "data" => m.body = PartOf(blocks[section])
      /\ "disk full" \notin troubles => file[wanted] = Parts(blocks, section - 1)

Carried == Sized /\ Named /\ Loading

LEMMA PartsGrow ==
    ASSUME NEW b, NEW n \in Nat
    PROVE  Parts(b, 0) = <<>> /\ Append(Parts(b, n), PartOf(b[n + 1])) = Parts(b, n + 1)
<1>. DEFINE S == {PartOf(b[i]) : i \in 1..(n + 1)}  q == Parts(b, n)  e == PartOf(b[n + 1])  r == Parts(b, n + 1)
            k == n + 1
<1>1. Parts(b, 0) = <<>>
  <2>. DEFINE z == Parts(b, 0)
  <2>1. z \in [1..0 -> S] /\ 0 \in Nat
    BY DEF Parts
  <2>. HIDE DEF z, S
  <2>2. Queue(z) /\ Len(z) = 0
    BY <2>1, Row
  <2>. QED
    BY <2>2, QueueIs DEF z
<1>2. q \in [1..n -> S] /\ r \in [1..k -> S] /\ e \in S /\ k \in Nat /\ k = n + 1
  BY DEF Parts
<1>3. (\A i \in 1..n : q[i] = r[i]) /\ r[k] = e
  BY DEF Parts
<1>. HIDE DEF S, q, r, e, k
<1>4. \A m \in Nat : [1..m -> S] \subseteq Seq(S)
  BY SeqDef
<1>5. q \in Seq(S) /\ r \in Seq(S) /\ Len(q) = n /\ Len(r) = k
  <2>1. Len(q) = n
    BY <1>2, Row
  <2>2. Len(r) = k
    BY <1>2, Row
  <2>. QED
    BY <1>2, <1>4, <2>1, <2>2
<1>6. /\ Append(q, e) \in Seq(S) /\ Len(Append(q, e)) = k
      /\ (\A i \in 1..n : Append(q, e)[i] = q[i]) /\ Append(q, e)[k] = e
  BY <1>2, <1>5, AppendProperties
<1>7. \A i \in 1..k : Append(q, e)[i] = r[i]
  <2>1. \A i \in 1..k : i \in 1..n \/ i = k
    BY <1>2
  <2>. QED
    BY <1>3, <1>6, <2>1
<1>8. Append(q, e) = r
  BY <1>5, <1>6, <1>7, SeqEqual
<1>. QED
  BY <1>1, <1>8 DEF q, e, r, k

LEMMA BlocksAre ==
    ASSUME InStep, pc \in {"section", "data"}
    PROVE  /\ Len(blocks) \in Nat /\ DOMAIN blocks = 1..Len(blocks)
           /\ DOMAIN section_lengths(blocks) = DOMAIN blocks
           /\ wanted \in DOMAIN flights /\ wanted \in 1..Len(flights)
<1>1. range[1] \in Nat /\ range[2] \in Nat /\ blocks = mem_blocks(range[1], range[2])
  BY DEF InStep, Types, Steady
<1>2. PICK n, c : n \in 0..MaxBlocks /\ Sections(mem_blocks(range[1], range[2]), range[1], range[2], n, c)
  BY <1>1, SectionsOf
<1>3. DOMAIN blocks = 1..n /\ Len(blocks) = n /\ n \in Nat
  BY <1>1, <1>2, MemoryAssumption DEF Sections
<1>4. wanted \in 1..Len(flights) /\ flights \in Seq(FlightIndex)
  <2>1. wanted \in 0..Len(flights) /\ wanted # 0 /\ flights \in Seq(FlightIndex)
    BY DEF InStep, Types, Chosen
  <2>2. Len(flights) \in Nat
    BY <2>1, LenProperties
  <2>. QED
    BY <2>1, <2>2
<1>. QED
  BY <1>3, <1>4, LenProperties DEF section_lengths

\* A step of lxn-logger that is not about the sections.
LEMMA CarriedHost ==
    ASSUME Carried, pc' \notin {"section", "data"}, UNCHANGED <<blocks, file>>,
           ToSet(answer') \subseteq ToSet(answer), ToSet(tty') \subseteq ToSet(tty),
           Len(flights') <= MaxFlights, pc' = "flights" => Len(flights') < MaxFlights
    PROVE  Carried'
<1>1. Sized'
  BY DEF Carried, Sized
<1>2. Named'
  BY DEF Carried, Named
<1>3. Loading'
  BY DEF Loading
<1>. QED
  BY <1>1, <1>2, <1>3 DEF Carried

\* A step of the line or the device that is not about them.
LEMMA CarriedLine ==
    ASSUME Carried, UNCHANGED <<pc, choice, file, blocks>>, troubles \subseteq troubles',
           \A m \in ToSet(request') : m \in ToSet(request) \/ m.kind # "READ_LOGGER_DATA",
           \A m \in ToSet(answer') \cup ToSet(tty') :
             m \in ToSet(answer) \cup ToSet(tty) \/ m.kind \notin {"sections", "data"}
    PROVE  Carried'
<1>1. Sized'
  BY DEF Carried, Sized, choice
<1>2. Named'
  BY DEF Carried, Named
<1>3. Loading'
  BY DEF Carried, Loading, choice
<1>. QED
  BY <1>1, <1>2, <1>3 DEF Carried

LEMMA CarriedInit == Init => Carried
<1>1. Len(<<>>) = 0 /\ ToSet(<<>>) = {} /\ MaxFlights \in Nat
  BY NoQueue, SessionAssumption
<1>. QED
  BY <1>1 DEF Init, Carried, Sized, Named, Loading

\* The steps that send or read and are not about the sections.
LEMMA CarriedSend ==
    ASSUME InStep, Carried, NEW m, Send(m), pc' \notin {"section", "data", "flights"}, UNCHANGED <<blocks, file, flights>>
    PROVE  Carried'
<1>1. ToSet(tty') = {} /\ answer' = answer
  BY HostSends DEF InStep
<1>. QED
  BY <1>1, CarriedHost DEF Carried, Sized

LEMMA CarriedRead ==
    ASSUME InStep, Carried, tty' = tty \/ (tty # <<>> /\ tty' = Tail(tty)), answer' = answer,
           pc' \notin {"section", "data", "flights"}, UNCHANGED <<blocks, file, flights>>
    PROVE  Carried'
<1>1. ToSet(tty') \subseteq ToSet(tty)
  BY HostReads DEF InStep
<1>. QED
  BY <1>1, CarriedHost DEF Carried, Sized

LEMMA CarriedAnswer ==
    ASSUME InStep, Carried, NEW k, Serve(k), UNCHANGED blocks, NEW m, m.kind \notin {"sections", "data"},
           answer' = answer \/ answer' = Append(answer, m)
    PROVE  Carried'
<1>1. ToSet(request') \subseteq ToSet(request) /\ UNCHANGED <<tty, pc, choice>>
  BY Served
<1>2. troubles' = troubles /\ file' = file
  BY DEF Serve, disk
<1>3. \A x \in ToSet(answer') : x \in ToSet(answer) \/ x = m
  <2>1. CASE answer' = Append(answer, m)
    <3>1. Queue(answer) /\ answer' = Append(answer, m)
      BY <2>1 DEF InStep, Types
    <3>2. ToSet(answer') = ToSet(answer) \cup {m}
      BY <3>1, Sending
    <3>. QED
      BY <3>2
  <2>. QED
    BY <2>1
<1>. QED
  BY <1>1, <1>2, <1>3, CarriedLine

LEMMA CarriedList ==
    ASSUME InStep, Carried, handle_open_flight_list, InStep'
    PROVE  Carried'
<1>. DEFINE F == [i \in Flights |-> Msg("flight", <<flight_address(i), flight_end(i)>>)]
            e == Msg("null", <<>>)
<1>1. Serve("READ_FLIGHT_LIST") /\ "READ_FLIGHT_LIST" \in Commands
  BY DEF handle_open_flight_list, Commands
<1>2. /\ pc \notin Calm /\ (pc \in Waiting => Asked[pc] = "READ_FLIGHT_LIST") /\ UNCHANGED <<tty, pc, choice>>
      /\ \A a \in Answers : a \notin Kinds(answer) \cup Kinds(tty)
  BY <1>1, Served
<1>3. pc \notin {"section", "data"}
  BY <1>2 DEF Calm, Waiting, Asked
<1>4. "sections" \notin Kinds(answer') /\ "sections" \notin Kinds(tty)
  <2>1. \A m \in ToSet(F) : m.kind = "flight"
    BY DEF ToSet, Msg
  <2>2. Queue(F) /\ e.kind = "null" /\ Queue(answer)
    <3>. DEFINE n == Len(Lengths)
    <3>1. n \in Nat /\ Flights = 1..n
      BY Memory
    <3>2. F \in [1..n -> {Msg("flight", x) : x \in FlightIndex}]
      BY <3>1 DEF FlightIndex
    <3>. HIDE DEF F, n
    <3>3. Queue(F)
      BY <3>1, <3>2, Row
    <3>. QED
      BY <3>3 DEF Msg, InStep, Types
  <2>3. answer' = answer \o F \o <<e>>
    BY DEF handle_open_flight_list
  <2>. HIDE DEF F, e
  <2>. DEFINE r == answer \o F
  <2>4. answer' = r \o <<e>>
    BY <2>3
  <2>5. Queue(r) /\ ToSet(r) = ToSet(answer) \cup ToSet(F)
    BY <2>2, Joined DEF Queue
  <2>. HIDE DEF r
  <2>6. Queue(r) /\ answer' = Append(r, e)
    BY <2>4, <2>5, AppendIsConcat DEF Queue
  <2>7. Kinds(answer') = Kinds(r) \cup {e.kind}
    BY <2>6, Sending, ZenonT(60)
  <2>8. Kinds(r) \subseteq Kinds(answer) \cup {"flight"}
    BY <2>1, <2>5 DEF Kinds
  <2>. QED
    BY <1>2, <2>2, <2>7, <2>8 DEF Answers
<1>5. Sized'
  BY <1>1, <1>2 DEF Carried, Sized, choice, Serve, disk
<1>6. Named'
  <2>1. \A m \in ToSet(answer') \cup ToSet(tty') : m.kind # "sections"
    BY <1>2, <1>4 DEF Kinds
  <2>. QED
    BY <2>1 DEF Named
<1>7. Loading'
  BY <1>2, <1>3 DEF Loading
<1>. QED
  BY <1>5, <1>6, <1>7 DEF Carried

LEMMA CarriedSections ==
    ASSUME InStep, Carried, handle_get_mem_section
    PROVE  Carried'
<1>. DEFINE m == Msg("sections", section_lengths(blocks'))
<1>1. Serve("GET_MEM_SECTION") /\ "GET_MEM_SECTION" \in Commands /\ answer' = Append(answer, m)
  BY DEF handle_get_mem_section, Commands
<1>2. /\ pc \notin Calm /\ (pc \in Waiting => Asked[pc] = "GET_MEM_SECTION") /\ UNCHANGED <<tty, pc, choice>>
      /\ \A a \in Answers : a \notin Kinds(answer) \cup Kinds(tty)
  BY <1>1, Served
<1>3. pc \notin {"section", "data"}
  BY <1>2 DEF Calm, Waiting, Asked
<1>4. m.body = section_lengths(blocks')
  BY DEF Msg
<1>. HIDE DEF m
<1>5. Sized'
  BY <1>1, <1>2 DEF Carried, Sized, choice, Serve, disk
<1>6. Named'
  <2>1. Queue(answer) /\ answer' = Append(answer, m)
    BY <1>1 DEF InStep, Types
  <2>2. ToSet(answer') = ToSet(answer) \cup {m}
    BY <2>1, Sending
  <2>3. \A x \in ToSet(answer) \cup ToSet(tty) : x.kind # "sections"
    BY <1>2 DEF Kinds, Answers
  <2>. QED
    BY <1>2, <1>4, <2>2, <2>3 DEF Named
<1>7. Loading'
  BY <1>2, <1>3 DEF Loading
<1>. QED
  BY <1>5, <1>6, <1>7 DEF Carried

LEMMA CarriedData ==
    ASSUME InStep, Carried, handle_get_logger_data
    PROVE  Carried'
<1>. DEFINE i == Head(request).body[1]
            b == IF i \in DOMAIN blocks THEN PartOf(blocks[i]) ELSE <<0, 0>>
            m == Msg("data", b)
<1>1. Serve("READ_LOGGER_DATA") /\ "READ_LOGGER_DATA" \in Commands /\ answer' = Append(answer, m) /\ blocks' = blocks
  BY DEF handle_get_logger_data, Commands, PartOf, device
<1>2. /\ pc \notin Calm /\ (pc \in Waiting => Asked[pc] = "READ_LOGGER_DATA") /\ UNCHANGED <<tty, pc, choice>>
      /\ \A a \in Answers : a \notin Kinds(answer) \cup Kinds(tty)
      /\ ToSet(request') \subseteq ToSet(request) /\ Head(request) \in ToSet(request)
      /\ Head(request).kind = "READ_LOGGER_DATA"
  BY <1>1, Served
<1>3. m.kind = "data" /\ m.body = b
  BY DEF Msg
<1>4. ToSet(answer') = ToSet(answer) \cup {m}
  <2>. HIDE DEF m
  <2>1. Queue(answer) /\ answer' = Append(answer, m)
    BY <1>1 DEF InStep, Types
  <2>. QED
    BY <2>1, Sending
<1>5. Sized'
  BY <1>1, <1>2 DEF Carried, Sized, choice, Serve, disk
<1>6. Named'
  <2>. HIDE DEF m
  <2>. QED
    BY <1>1, <1>2, <1>3, <1>4 DEF Carried, Named
<1>7. Loading'
  <2>. SUFFICES ASSUME pc \in {"section", "data"}
                PROVE  Loading'
    BY <1>2 DEF Loading
  <2>1. i = section /\ pc = "data"
    BY <1>2 DEF Carried, Loading, Calm
  <2>2. section \in DOMAIN blocks
    BY <2>1, BlocksAre DEF Carried, Loading
  <2>3. b = PartOf(blocks[section])
    BY <2>1, <2>2
  <2>4. troubles' = troubles /\ file' = file
    BY <1>1 DEF Serve, disk
  <2>5. Loading
    BY DEF Carried
  <2>. HIDE DEF m, b, i
  <2>. QED
    BY <1>1, <1>2, <1>3, <1>4, <2>1, <2>3, <2>4, <2>5 DEF Loading, choice
<1>. QED
  BY <1>5, <1>6, <1>7 DEF Carried

LEMMA CarriedRecvMemSection ==
    ASSUME InStep, Carried, RecvMemSection, InStep'
    PROVE  Carried'
<1>1. /\ pc = "lengths" /\ tty # <<>> /\ Head(tty).kind = "sections" /\ tty' = Tail(tty) /\ pc' = "section"
      /\ UNCHANGED <<request, answer, blocks, flights, wanted>>
      /\ lengths' = Head(tty).body /\ section' = 1 /\ file' = [file EXCEPT ![wanted] = <<>>]
  BY DEF RecvMemSection, Read, device
<1>2. request = <<>> /\ answer = <<>> /\ tty' = <<>> /\ Head(tty) \in ToSet(tty)
  BY <1>1, LastIsRead, HostReads DEF Answers, InStep
<1>3. lengths' = section_lengths(blocks)
  BY <1>1, <1>2 DEF Carried, Named
<1>4. Len(blocks') \in Nat /\ wanted' \in 1..Len(flights')
  <2>1. range'[1] \in Nat /\ range'[2] \in Nat /\ blocks' = mem_blocks(range'[1], range'[2])
    BY <1>1 DEF InStep, Types, Steady
  <2>2. PICK n, c : n \in 0..MaxBlocks /\ Sections(mem_blocks(range'[1], range'[2]), range'[1], range'[2], n, c)
    BY <2>1, SectionsOf
  <2>3. Len(blocks') = n /\ n \in Nat
    BY <2>1, <2>2, MemoryAssumption DEF Sections
  <2>4. wanted \in 0..Len(flights) /\ wanted # 0 /\ flights \in Seq(FlightIndex)
    BY <1>1 DEF InStep, Types, Chosen
  <2>5. Len(flights) \in Nat
    BY <2>4, LenProperties
  <2>. QED
    BY <1>1, <2>3, <2>4, <2>5
<1>5. wanted \in DOMAIN file
  <2>1. wanted \in 1..Len(flights) /\ Len(flights) <= MaxFlights /\ DOMAIN file = 1..MaxFlights /\ Len(flights) \in Nat
    BY <1>1, <1>4, Counted DEF Carried, Sized, InStep
  <2>2. MaxFlights \in Nat
    BY SessionAssumption
  <2>. QED
    BY <2>1, <2>2
<1>6. file'[wanted] = Parts(blocks, 0)
  BY <1>1, <1>5, PartsGrow
<1>7. ToSet(request') = {} /\ ToSet(answer') = {} /\ ToSet(tty') = {}
  BY <1>1, <1>2, NoQueue
<1>8. Sized'
  BY <1>1 DEF Carried, Sized
<1>9. Named'
  BY <1>7 DEF Named
<1>10. Loading'
  <2>1. section' - 1 = 0 /\ section' \in 1..(Len(blocks') + 1)
    BY <1>1, <1>4
  <2>2. file'[wanted'] = Parts(blocks', section' - 1)
    BY <1>1, <1>6, <2>1
  <2>. QED
    BY <1>1, <1>3, <1>7, <2>1, <2>2 DEF Loading
<1>. QED
  BY <1>8, <1>9, <1>10 DEF Carried

LEMMA CarriedDownloadSection ==
    ASSUME InStep, Carried, DownloadSection
    PROVE  Carried'
<1>. DEFINE m == Msg("READ_LOGGER_DATA", <<section>>)
<1>1. /\ pc = "section" /\ section \in DOMAIN lengths /\ Send(m) /\ pc' = "data"
      /\ UNCHANGED <<blocks, choice, file>>
  BY DEF DownloadSection, More, device, disk
<1>2. m.body[1] = section
  BY DEF Msg
<1>. HIDE DEF m
<1>3. /\ ToSet(request') = ToSet(request) \cup {m} /\ ToSet(tty') = {} /\ answer' = answer /\ troubles' = troubles
  BY <1>1, HostSends DEF InStep
<1>4. request = <<>> /\ answer = <<>> /\ ToSet(<<>>) = {}
  BY <1>1, NoQueue DEF InStep, Phase
<1>5. ToSet(request') = {m} /\ ToSet(answer') = {} /\ ToSet(tty') = {}
  BY <1>3, <1>4
<1>6. section \in 1..Len(blocks)
  <2>1. lengths = section_lengths(blocks)
    BY <1>1 DEF Carried, Loading
  <2>. QED
    BY <1>1, <2>1, BlocksAre
<1>7. Sized'
  BY <1>1 DEF Carried, Sized, choice
<1>8. Named'
  BY <1>5 DEF Named
<1>9. Loading'
  <2>1. Loading
    BY DEF Carried
  <2>. QED
    BY <1>1, <1>2, <1>3, <1>5, <1>6, <2>1 DEF Loading, choice
<1>. QED
  BY <1>7, <1>8, <1>9 DEF Carried

LEMMA CarriedRecvSection ==
    ASSUME InStep, Carried, RecvSection
    PROVE  Carried'
<1>1. /\ pc = "data" /\ tty # <<>> /\ Head(tty).kind = "data" /\ tty' = Tail(tty) /\ pc' = "section"
      /\ UNCHANGED <<request, answer, blocks, flights, wanted, lengths>>
      /\ section' = section + 1
  BY DEF RecvSection, device
<1>2. request = <<>> /\ answer = <<>> /\ tty' = <<>> /\ Head(tty) \in ToSet(tty)
  BY <1>1, LastIsRead, HostReads DEF Answers, InStep
<1>3. ToSet(request') = {} /\ ToSet(answer') = {} /\ ToSet(tty') = {}
  BY <1>1, <1>2, NoQueue
<1>4. /\ Head(tty).body = PartOf(blocks[section]) /\ section \in 1..Len(blocks) /\ lengths = section_lengths(blocks)
      /\ "disk full" \notin troubles => file[wanted] = Parts(blocks, section - 1)
  BY <1>1, <1>2 DEF Carried, Loading
<1>5. Len(blocks) \in Nat /\ wanted \in 1..Len(flights)
  BY <1>1, BlocksAre
<1>12. /\ section - 1 \in Nat /\ section - 1 + 1 = section /\ section + 1 - 1 = section
       /\ section + 1 \in 1..(Len(blocks) + 1)
  <2>. DEFINE N == Len(blocks)
  <2>1. section \in 1..N /\ N \in Nat
    BY <1>4, <1>5
  <2>. HIDE DEF N
  <2>2. section - 1 \in Nat /\ section - 1 + 1 = section /\ section + 1 - 1 = section /\ section + 1 \in 1..(N + 1)
    BY <2>1
  <2>. QED
    BY <2>2 DEF N
<1>6. wanted \in DOMAIN file
  <2>1. Len(flights) <= MaxFlights /\ DOMAIN file = 1..MaxFlights /\ Len(flights) \in Nat /\ MaxFlights \in Nat
    BY Counted, SessionAssumption DEF Carried, Sized, InStep
  <2>. QED
    BY <1>5, <2>1
<1>7. DOMAIN file' = DOMAIN file
  BY DEF RecvSection
<1>8. "disk full" \notin troubles' => file'[wanted] = Parts(blocks, section)
  <2>. SUFFICES ASSUME "disk full" \notin troubles'
                PROVE  file'[wanted] = Parts(blocks, section)
    OBVIOUS
  <2>1. file' = [file EXCEPT ![wanted] = Append(@, Head(tty).body)] /\ troubles' = troubles
    BY DEF RecvSection
  <2>2. file'[wanted] = Append(file[wanted], PartOf(blocks[section]))
    BY <1>4, <1>6, <2>1
  <2>. DEFINE n == section - 1
  <2>3. n \in Nat /\ n + 1 = section
    BY <1>12
  <2>. HIDE DEF n
  <2>4. Append(Parts(blocks, n), PartOf(blocks[n + 1])) = Parts(blocks, n + 1)
    BY <2>3, PartsGrow
  <2>. QED
    BY <1>4, <2>1, <2>2, <2>3, <2>4 DEF n
<1>9. Sized'
  BY <1>1, <1>7 DEF Carried, Sized
<1>10. Named'
  BY <1>3 DEF Named
<1>11. Loading'
  <2>1. section' - 1 = section /\ section' \in 1..(Len(blocks) + 1)
    BY <1>1, <1>12
  <2>. QED
    BY <1>1, <1>3, <1>4, <1>8, <2>1 DEF Loading
<1>. QED
  BY <1>9, <1>10, <1>11 DEF Carried

LEMMA CarriedNextFlight ==
    ASSUME InStep, Carried, NextFlight
    PROVE  Carried'
<1>1. /\ pc = "flights" /\ tty # <<>> /\ tty' = Tail(tty)
      /\ UNCHANGED <<request, answer, blocks, file>>
      /\ \/ /\ Head(tty).kind = "flight" /\ flights' = Append(flights, Head(tty).body)
            /\ pc' = IF Len(flights) + 1 = MaxFlights THEN "prompt" ELSE "flights"
         \/ /\ Head(tty).kind = "null" /\ flights' = flights
            /\ pc' = IF flights = <<>> THEN "no flights" ELSE "prompt"
  BY DEF NextFlight, Read, device, disk
<1>2. ToSet(tty') \subseteq ToSet(tty) /\ Head(tty) \in ToSet(tty)
  BY <1>1, HostReads DEF InStep
<1>3. Len(flights) \in Nat /\ MaxFlights \in Nat /\ Len(flights) < MaxFlights
  BY <1>1, Counted, SessionAssumption DEF InStep, Carried, Sized
<1>4. CASE /\ Head(tty).kind = "flight" /\ flights' = Append(flights, Head(tty).body)
           /\ pc' = IF Len(flights) + 1 = MaxFlights THEN "prompt" ELSE "flights"
  <2>1. Len(flights') = Len(flights) + 1
    <3>1. flights \in Seq(FlightIndex) /\ Head(tty).body \in FlightIndex
      BY <1>2, <1>4 DEF InStep, Types
    <3>. QED
      BY <1>4, <3>1, AppendProperties
  <2>2. Len(flights') <= MaxFlights /\ (pc' = "flights" => Len(flights') < MaxFlights)
    <3>1. pc' = "flights" => Len(flights) + 1 # MaxFlights
      BY <1>4
    <3>. QED
      BY <1>3, <2>1, <3>1
  <2>3. pc' \notin {"section", "data"}
    BY <1>4
  <2>. QED
    BY <1>1, <1>2, <2>2, <2>3, CarriedHost
<1>5. CASE flights' = flights /\ pc' = IF flights = <<>> THEN "no flights" ELSE "prompt"
  <2>1. Len(flights') <= MaxFlights
    <3>1. Len(flights) <= MaxFlights
      BY <1>3
    <3>. QED
      BY <1>5, <3>1
  <2>2. pc' \notin {"section", "data", "flights"}
    BY <1>5
  <2>. QED
    BY <1>1, <1>2, <2>1, <2>2, CarriedHost
<1>. QED
  BY <1>1, <1>4, <1>5

LEMMA CarriedNext ==
    ASSUME InStep, InStep', Carried, [Next]_vars
    PROVE  Carried'
<1>1. CASE SendSyn
  <2>1. Send(Msg("SYN", <<>>)) /\ pc' \notin {"section", "data", "flights"} /\ UNCHANGED <<blocks, file, flights>>
    BY <1>1 DEF SendSyn, device, choice, disk
  <2>. QED
    BY <2>1, CarriedSend
<1>2. CASE RecvAck
  <2>1. tty # <<>> /\ tty' = Tail(tty) /\ answer' = answer /\ pc' \notin {"section", "data", "flights"}
        /\ UNCHANGED <<blocks, file, flights>>
    BY <1>2 DEF RecvAck, Read, device, choice, disk, InStep, Types
  <2>. QED
    BY <2>1, CarriedRead
<1>3. CASE NoAck
  <2>1. (tty' = tty \/ (tty # <<>> /\ tty' = Tail(tty))) /\ answer' = answer /\ pc' \notin {"section", "data", "flights"}
        /\ UNCHANGED <<blocks, file, flights>>
    BY <1>3 DEF NoAck, Read, NothingYet, Stop, device, choice, disk
  <2>. QED
    BY <2>1, CarriedRead
<1>4. CASE CheckMemSettings
  <2>1. Send(Msg("CHECK_MEM_SETTINGS", <<>>)) /\ pc' \notin {"section", "data", "flights"} /\ UNCHANGED <<blocks, file, flights>>
    BY <1>4 DEF CheckMemSettings, device, choice, disk
  <2>. QED
    BY <2>1, CarriedSend
<1>5. CASE RecvSettings
  <2>1. tty # <<>> /\ tty' = Tail(tty) /\ answer' = answer /\ pc' \notin {"section", "data", "flights"}
        /\ UNCHANGED <<blocks, file, flights>>
    BY <1>5 DEF RecvSettings, SynAckWait, Read, device, choice, disk
  <2>. QED
    BY <2>1, CarriedRead
<1>6. CASE OpenFlightList
  <2>1. Send(Msg("READ_FLIGHT_LIST", <<>>)) /\ pc' \notin {"section", "data"} /\ UNCHANGED <<blocks, file>> /\ flights' = <<>>
    BY <1>6 DEF OpenFlightList, device, disk
  <2>2. ToSet(tty') = {} /\ answer' = answer
    BY <2>1, HostSends DEF InStep
  <2>3. Len(flights') = 0
    BY <2>1, NoQueue
  <2>4. Len(flights') <= MaxFlights /\ Len(flights') < MaxFlights
    <3>1. MaxFlights \in Nat /\ MaxFlights # 0
      BY SessionAssumption
    <3>2. 0 <= MaxFlights /\ 0 < MaxFlights
      BY <3>1
    <3>. QED
      BY <2>3, <3>2
  <2>. QED
    BY <2>1, <2>2, <2>4, CarriedHost
<1>7. CASE NextFlight
  BY <1>7, CarriedNextFlight
<1>8. CASE ChooseFlight
  <2>1. tty' = tty /\ answer' = answer /\ pc' \notin {"section", "data", "flights"}
        /\ UNCHANGED <<blocks, file, flights>>
    BY <1>8 DEF ChooseFlight, SynAckWait, line, device, disk
  <2>. QED
    BY <2>1, CarriedRead
<1>9. CASE Quit \/ WrongAnswer \/ NoAnswer
  <2>1. (tty' = tty \/ (tty # <<>> /\ tty' = Tail(tty))) /\ answer' = answer /\ pc' \notin {"section", "data", "flights"}
        /\ UNCHANGED <<blocks, file, flights>>
    BY <1>9 DEF Quit, WrongAnswer, NoAnswer, Read, Stop, line, device, choice, disk
  <2>. QED
    BY <2>1, CarriedRead
<1>10. CASE SeekMem
  <2>1. Send(Msg("DEF_MEM", <<def_mem_packet(flights[wanted][1]), def_mem_packet(flights[wanted][2])>>))
        /\ pc' \notin {"section", "data", "flights"} /\ UNCHANGED <<blocks, file, flights>>
    BY <1>10 DEF SeekMem, device, choice, disk
  <2>. QED
    BY <2>1, CarriedSend
<1>11. CASE SeekAck
  <2>1. tty # <<>> /\ tty' = Tail(tty) /\ answer' = answer /\ pc' \notin {"section", "data", "flights"}
        /\ UNCHANGED <<blocks, file, flights>>
    BY <1>11 DEF SeekAck, Read, device, choice, disk
  <2>. QED
    BY <2>1, CarriedRead
<1>12. CASE GetMemSection
  <2>1. Send(Msg("GET_MEM_SECTION", <<>>)) /\ pc' \notin {"section", "data", "flights"} /\ UNCHANGED <<blocks, file, flights>>
    BY <1>12 DEF GetMemSection, device, choice, disk
  <2>. QED
    BY <2>1, CarriedSend
<1>13. CASE RecvMemSection
  BY <1>13, CarriedRecvMemSection
<1>14. CASE DownloadSection
  BY <1>14, CarriedDownloadSection
<1>15. CASE RecvSection
  BY <1>15, CarriedRecvSection
<1>16. CASE ConvertFlight
  <2>1. tty' = tty /\ answer' = answer /\ pc' \notin {"section", "data", "flights"}
        /\ UNCHANGED <<blocks, file, flights>>
    BY <1>16 DEF ConvertFlight, line, device, choice
  <2>. QED
    BY <2>1, CarriedRead
<1>17. CASE handle_syn
  <2>1. Serve("SYN") /\ answer' = Append(answer, Ack) /\ UNCHANGED blocks /\ Ack.kind \notin {"sections", "data"}
    BY <1>17 DEF handle_syn, device, Ack, Msg
  <2>. QED
    BY <2>1, CarriedAnswer
<1>18. CASE handle_check_mem_settings
  <2>. DEFINE m == Msg("settings", <<>>)
  <2>1. Serve("CHECK_MEM_SETTINGS") /\ answer' = Append(answer, m) /\ UNCHANGED blocks /\ m.kind \notin {"sections", "data"}
    BY <1>18 DEF handle_check_mem_settings, device, Msg
  <2>. HIDE DEF m
  <2>. QED
    BY <2>1, CarriedAnswer
<1>19. CASE handle_open_flight_list
  BY <1>19, CarriedList
<1>20. CASE handle_def_mem
  <2>1. Serve("DEF_MEM") /\ answer' = Append(answer, Ack) /\ UNCHANGED blocks /\ Ack.kind \notin {"sections", "data"}
    BY <1>20 DEF handle_def_mem, Ack, Msg
  <2>. QED
    BY <2>1, CarriedAnswer
<1>21. CASE handle_def_mem_cut
  <2>1. Serve("cut") /\ (answer' = answer \/ answer' = Append(answer, Ack)) /\ UNCHANGED blocks /\ Ack.kind \notin {"sections", "data"}
    BY <1>21 DEF handle_def_mem_cut, Ack, Msg
  <2>. QED
    BY <2>1, CarriedAnswer
<1>22. CASE handle_get_mem_section
  BY <1>22, CarriedSections
<1>23. CASE handle_get_logger_data
  BY <1>23, CarriedData
<1>24. CASE handle_unknown
  <2>1. Serve("damaged") /\ answer' = answer /\ UNCHANGED blocks /\ Ack.kind \notin {"sections", "data"}
    BY <1>24 DEF handle_unknown, Ack, Msg
  <2>. QED
    BY <2>1, CarriedAnswer
<1>25. CASE Arrive
  <2>1. /\ answer # <<>> /\ tty' = Append(tty, Head(answer)) /\ answer' = Tail(answer) /\ request' = request
        /\ UNCHANGED <<pc, choice, file, blocks, troubles>>
    BY <1>25 DEF Arrive, device, disk
  <2>2. Queue(answer) /\ Queue(tty)
    BY DEF InStep, Types
  <2>3. ToSet(answer') \subseteq ToSet(answer) /\ Head(answer) \in ToSet(answer)
    BY <2>1, <2>2, Taking
  <2>4. ToSet(tty') = ToSet(tty) \cup {Head(answer)}
    <3>. DEFINE m == Head(answer)
    <3>1. Queue(tty) /\ tty' = Append(tty, m)
      BY <2>1, <2>2
    <3>. HIDE DEF m
    <3>2. ToSet(tty') = ToSet(tty) \cup {m}
      BY <3>1, Sending
    <3>. QED
      BY <3>2 DEF m
  <2>. QED
    BY <2>1, <2>3, <2>4, CarriedLine
<1>26. CASE LineFault
  <2>1. UNCHANGED <<tty, pc, choice, file, blocks>> /\ troubles \subseteq troubles'
    BY <1>26 DEF LineFault, device, disk
  <2>2. PICK k \in Faults :
          \/ request # <<>> /\ request' \in Hurt(k, request) /\ UNCHANGED answer
          \/ answer # <<>> /\ answer' \in Hurt(k, answer) /\ UNCHANGED request
    BY <1>26 DEF LineFault
  <2>3. Queue(request) /\ Queue(answer)
    BY DEF InStep, Types
  <2>4. CASE request # <<>> /\ request' \in Hurt(k, request) /\ UNCHANGED answer
    <3>1. \A m \in ToSet(request') : m \in ToSet(request) \/ m.kind \in {"damaged", "cut"}
      BY <2>3, <2>4, Spoilt
    <3>. QED
      BY <2>1, <2>4, <3>1, CarriedLine
  <2>5. CASE answer # <<>> /\ answer' \in Hurt(k, answer) /\ UNCHANGED request
    <3>1. \A m \in ToSet(answer') : m \in ToSet(answer) \/ m.kind \in {"damaged", "cut"}
      BY <2>3, <2>5, Spoilt
    <3>. QED
      BY <2>1, <2>5, <3>1, CarriedLine
  <2>. QED
    BY <2>2, <2>4, <2>5
<1>27. CASE UNCHANGED vars
  BY <1>27, CarriedLine DEF vars, line, device, disk
<1>. QED
  BY <1>1, <1>2, <1>3, <1>4, <1>5, <1>6, <1>7, <1>8, <1>9, <1>10, <1>11, <1>12, <1>13, <1>14, <1>15, <1>16,
     <1>17, <1>18, <1>19, <1>20, <1>21, <1>22, <1>23, <1>24, <1>25, <1>26, <1>27 DEF Next, Host, Device

-----------------------------------------------------------------------------
(* The range of the device is the flight the user has chosen.  A request   *)
(* that is not lost is served before the ones behind it; and when no ACK is *)
(* late, the one lxn-logger reads is that of its DEF_MEM.                   *)
Uncut == "cut" \in Kinds(request) => "cut" \in troubles

Hits == pc \in Seeking => \A m \in ToSet(request) : m.kind = "DEF_MEM" => Seek(m) = flights[wanted]

WithoutLoss ==
    {"lose", "cut"} \cap troubles = {} =>
      /\ pc \in Seeking => \/ ~alive \/ range = flights[wanted]
                           \/ "DEF_MEM" \in Kinds(request) \/ "damaged" \in Kinds(request)
      /\ pc \in Seeking /\ "sections" \in Kinds(answer) \cup Kinds(tty) => range = flights[wanted]

WithoutDelay ==
    {"late", "cut"} \cap troubles = {} =>
      /\ pc = "seek" => \/ range = flights[wanted]
                        \/ /\ "ACK" \notin Kinds(answer) \cup Kinds(tty)
                           /\ alive => Kinds(request) \subseteq {"DEF_MEM", "damaged"}
      /\ pc \in {"sections", "lengths"} => range = flights[wanted]

RangeIsFlight ==
    "cut" \notin troubles /\ ~({"lose", "late"} \subseteq troubles) /\ pc \in {"section", "data"}
      => range = flights[wanted]

Aimed == Uncut /\ Hits /\ WithoutLoss /\ WithoutDelay /\ RangeIsFlight

\* lxn-logger is elsewhere.
LEMMA AimedElsewhere ==
    ASSUME Aimed, pc' \notin Seeking \cup {"section", "data"}, troubles \subseteq troubles',
           "cut" \in Kinds(request') => "cut" \in Kinds(request) \cup troubles'
    PROVE  Aimed'
BY DEF Aimed, Uncut, Hits, WithoutLoss, WithoutDelay, RangeIsFlight, Seeking

LEMMA AimedSend ==
    ASSUME InStep, Aimed, NEW m, Send(m), m.kind # "cut", pc' \notin Seeking \cup {"section", "data"}
    PROVE  Aimed'
<1>1. Kinds(request') = Kinds(request) \cup {m.kind} /\ troubles' = troubles
  BY HostSends DEF InStep
<1>. QED
  BY <1>1, AimedElsewhere

LEMMA AimedSeekMem ==
    ASSUME InStep, OneByOne, Aimed, SeekMem
    PROVE  Aimed'
<1>. DEFINE m == Msg("DEF_MEM", <<def_mem_packet(flights[wanted][1]), def_mem_packet(flights[wanted][2])>>)
<1>1. Send(m) /\ pc = "def" /\ pc' = "seek" /\ UNCHANGED <<alive, range, flights, wanted>>
  BY DEF SeekMem, device, choice
<1>2. m.kind = "DEF_MEM"
  BY DEF Msg
<1>3. Seek(m) = flights[wanted]
  <2>1. wanted \in DOMAIN flights /\ flights[wanted] \in FlightIndex
    <3>1. wanted \in 0..Len(flights) /\ wanted # 0 /\ flights \in Seq(FlightIndex)
      BY <1>1 DEF InStep, Types, Chosen
    <3>2. Len(flights) \in Nat /\ DOMAIN flights = 1..Len(flights)
      BY <3>1, LenProperties
    <3>3. wanted \in 1..Len(flights)
      BY <3>1, <3>2
    <3>. QED
      BY <3>1, <3>2, <3>3, ElementOfSeq
  <2>2. PICK i \in Flights : flights[wanted] = <<flight_address(i), flight_end(i)>>
    BY <2>1 DEF FlightIndex
  <2>3. m.body[1] = def_mem_packet(flight_address(i)) /\ m.body[2] = def_mem_packet(flight_end(i))
    BY <2>2 DEF Msg
  <2>4. /\ decoded_address(def_mem_packet(flight_address(i))) = flight_address(i)
        /\ decoded_address(def_mem_packet(flight_end(i))) = flight_end(i)
    BY FlightsAssumption
  <2>. HIDE DEF m
  <2>. QED
    BY <2>2, <2>3, <2>4 DEF Seek
<1>. HIDE DEF m
<1>4. /\ ToSet(request') = ToSet(request) \cup {m} /\ Kinds(request') = Kinds(request) \cup {"DEF_MEM"}
      /\ Kinds(tty') = {} /\ answer' = answer /\ troubles' = troubles
  BY <1>1, <1>2, HostSends DEF InStep
<1>5. Kinds(request) \cap {"DEF_MEM", "cut"} = {} /\ "sections" \notin Kinds(answer)
  BY <1>1 DEF InStep, Phase, Calm, Seeking, Answers
<1>6. \A x \in ToSet(request) : x.kind # "DEF_MEM"
  BY <1>5 DEF Kinds
<1>7. ASSUME "late" \notin troubles
      PROVE  "ACK" \notin Kinds(answer) /\ (alive => Kinds(request) = {})
  <2>1. pc \in Still /\ pc \notin Stopped
    BY <1>1 DEF Still, Stopped
  <2>2. CASE Dead
    BY <2>2, NoQueue DEF Dead
  <2>3. CASE InTurn
    <3>1. answer = <<>> /\ request = <<>>
      BY <2>1, <2>3, Few DEF InTurn, InStep
    <3>. QED
      BY <3>1, NoQueue
  <2>. QED
    BY <1>7, <2>1, <2>2, <2>3 DEF OneByOne
<1>8. Uncut'
  BY <1>4, <1>5 DEF Uncut
<1>9. Hits'
  BY <1>1, <1>3, <1>4, <1>6 DEF Hits
<1>10. WithoutLoss'
  BY <1>1, <1>4, <1>5 DEF WithoutLoss
<1>11. WithoutDelay'
  BY <1>1, <1>4, <1>7 DEF WithoutDelay
<1>12. RangeIsFlight'
  BY <1>1 DEF RangeIsFlight
<1>. QED
  BY <1>8, <1>9, <1>10, <1>11, <1>12 DEF Aimed

LEMMA AimedSeekAck ==
    ASSUME InStep, Aimed, SeekAck
    PROVE  Aimed'
<1>1. /\ pc = "seek" /\ tty # <<>> /\ Head(tty) = Ack /\ tty' = Tail(tty) /\ pc' = "sections"
      /\ UNCHANGED <<request, answer, alive, range, flights, wanted, troubles>>
  BY DEF SeekAck, Read, device, choice
<1>2. Kinds(tty') \subseteq Kinds(tty) /\ Head(tty).kind \in Kinds(tty)
  BY <1>1, HostReads DEF InStep
<1>3. "ACK" \in Kinds(tty)
  BY <1>1, <1>2 DEF Ack, Msg
<1>4. Uncut' /\ Hits' /\ RangeIsFlight'
  BY <1>1 DEF Aimed, Uncut, Hits, RangeIsFlight, Seeking
<1>5. WithoutLoss'
  BY <1>1, <1>2 DEF Aimed, WithoutLoss, Seeking
<1>6. WithoutDelay'
  BY <1>1, <1>3 DEF Aimed, WithoutDelay
<1>. QED
  BY <1>4, <1>5, <1>6 DEF Aimed

LEMMA AimedGetMemSection ==
    ASSUME InStep, Aimed, GetMemSection
    PROVE  Aimed'
<1>. DEFINE m == Msg("GET_MEM_SECTION", <<>>)
<1>1. Send(m) /\ pc = "sections" /\ pc' = "lengths" /\ UNCHANGED <<alive, range, flights, wanted>>
  BY DEF GetMemSection, device, choice
<1>2. m.kind = "GET_MEM_SECTION"
  BY DEF Msg
<1>. HIDE DEF m
<1>3. /\ ToSet(request') = ToSet(request) \cup {m} /\ Kinds(request') = Kinds(request) \cup {"GET_MEM_SECTION"}
      /\ Kinds(tty') = {} /\ answer' = answer /\ troubles' = troubles
  BY <1>1, <1>2, HostSends DEF InStep
<1>4. Uncut' /\ Hits' /\ RangeIsFlight'
  BY <1>1, <1>2, <1>3 DEF Aimed, Uncut, Hits, RangeIsFlight, Seeking
<1>5. WithoutLoss'
  BY <1>1, <1>3 DEF Aimed, WithoutLoss, Seeking
<1>6. WithoutDelay'
  BY <1>1, <1>3 DEF Aimed, WithoutDelay
<1>. QED
  BY <1>4, <1>5, <1>6 DEF Aimed

LEMMA AimedRecvMemSection ==
    ASSUME InStep, Aimed, RecvMemSection
    PROVE  Aimed'
<1>1. /\ pc = "lengths" /\ tty # <<>> /\ Head(tty).kind = "sections" /\ tty' = Tail(tty) /\ pc' = "section"
      /\ UNCHANGED <<request, answer, alive, range, flights, wanted, troubles>>
  BY DEF RecvMemSection, Read, device
<1>2. "sections" \in Kinds(tty)
  BY <1>1, HostReads DEF InStep
<1>3. RangeIsFlight'
  <2>1. "cut" \notin troubles /\ "lose" \notin troubles => range = flights[wanted]
    BY <1>1, <1>2 DEF Aimed, WithoutLoss, Seeking
  <2>2. "cut" \notin troubles /\ "late" \notin troubles => range = flights[wanted]
    BY <1>1 DEF Aimed, WithoutDelay
  <2>. QED
    BY <1>1, <2>1, <2>2 DEF RangeIsFlight
<1>4. Uncut' /\ Hits' /\ WithoutLoss' /\ WithoutDelay'
  BY <1>1 DEF Aimed, Uncut, Hits, WithoutLoss, WithoutDelay, Seeking
<1>. QED
  BY <1>3, <1>4 DEF Aimed

\* From one section to the next nobody seeks.
LEMMA AimedStay ==
    ASSUME Aimed, pc \in {"section", "data"}, pc' \in {"section", "data"}, UNCHANGED <<range, flights, wanted>>,
           troubles \subseteq troubles', "cut" \in Kinds(request') => "cut" \in Kinds(request)
    PROVE  Aimed'
BY DEF Aimed, Uncut, Hits, WithoutLoss, WithoutDelay, RangeIsFlight, Seeking

\* The device serves a request that is not about the range.
LEMMA AimedServe ==
    ASSUME InStep, Aimed, NEW k, Serve(k), k \notin {"DEF_MEM", "cut", "damaged"},
           NEW m, answer' = Append(answer, m), m.kind = "sections" => k = "GET_MEM_SECTION",
           UNCHANGED <<range, alive>>
    PROVE  Aimed'
<1>1. /\ ToSet(request') \subseteq ToSet(request) /\ Kinds(request') \subseteq Kinds(request)
      /\ k \in Kinds(request) /\ UNCHANGED <<tty, pc, choice>>
      /\ \A a \in Answers : a \notin Kinds(answer) \cup Kinds(tty)
      /\ k \in Commands => request' = <<>>
  BY Served
<1>2. alive /\ troubles' = troubles /\ request # <<>> /\ request' = Tail(request)
  BY DEF Serve
<1>3. Kinds(answer') = Kinds(answer) \cup {m.kind}
  <2>1. Queue(answer)
    BY DEF InStep, Types
  <2>2. Queue(answer) /\ answer' = Append(answer, m)
    BY <2>1
  <2>. QED
    BY ONLY <2>2, Sending, ZenonT(60)
<1>4. Kinds(request) = Kinds(request') \cup {k}
  <2>1. Queue(request) /\ request # <<>> /\ request' = Tail(request)
    BY <1>2 DEF InStep, Types
  <2>2. Kinds(request) = Kinds(request') \cup {Head(request).kind}
    BY <2>1, Taking
  <2>3. Head(request).kind = k
    BY Served
  <2>. QED
    BY <2>2, <2>3
<1>5. Uncut' /\ Hits' /\ RangeIsFlight'
  BY <1>1, <1>2 DEF Aimed, Uncut, Hits, RangeIsFlight, choice
<1>6. WithoutLoss'
  <2>. SUFFICES ASSUME {"lose", "cut"} \cap troubles = {}, pc \in Seeking
                PROVE  /\ \/ ~alive \/ range = flights[wanted]
                          \/ "DEF_MEM" \in Kinds(request') \/ "damaged" \in Kinds(request')
                       /\ "sections" \in Kinds(answer') \cup Kinds(tty) => range = flights[wanted]
    BY <1>1, <1>2 DEF WithoutLoss, choice
  <2>1. range = flights[wanted] \/ "DEF_MEM" \in Kinds(request') \/ "damaged" \in Kinds(request')
    BY <1>2, <1>4 DEF Aimed, WithoutLoss
  <2>2. ASSUME "sections" \in Kinds(answer') \cup Kinds(tty)
        PROVE  range = flights[wanted]
    <3>1. k = "GET_MEM_SECTION"
      BY <1>1, <1>3, <2>2 DEF Answers
    <3>2. Kinds(request') = {}
      BY <1>1, <3>1, NoQueue DEF Commands
    <3>. QED
      BY <2>1, <3>2
  <2>. QED
    BY <2>1, <2>2
<1>7. WithoutDelay'
  <2>1. {"late", "cut"} \cap troubles = {} /\ pc = "seek" => range = flights[wanted]
    BY <1>1, <1>2 DEF Aimed, WithoutDelay
  <2>2. {"late", "cut"} \cap troubles = {} /\ pc \in {"sections", "lengths"} => range = flights[wanted]
    BY DEF Aimed, WithoutDelay
  <2>. QED
    BY <1>1, <1>2, <2>1, <2>2 DEF WithoutDelay, choice
<1>. QED
  BY <1>5, <1>6, <1>7 DEF Aimed

LEMMA AimedDefMem ==
    ASSUME InStep, Aimed, handle_def_mem
    PROVE  Aimed'
<1>1. Serve("DEF_MEM") /\ answer' = Append(answer, Ack) /\ range' = Seek(Head(request)) /\ alive' = alive
  BY DEF handle_def_mem, Seek
<1>2. /\ ToSet(request') \subseteq ToSet(request) /\ Kinds(request') \subseteq Kinds(request)
      /\ "DEF_MEM" \in Kinds(request) /\ UNCHANGED <<tty, pc, choice>>
      /\ Head(request) \in ToSet(request) /\ Head(request).kind = "DEF_MEM"
  BY <1>1, Served
<1>3. troubles' = troubles
  BY <1>1 DEF Serve
<1>4. CASE pc \in Seeking
  <2>1. range' = flights'[wanted']
    BY <1>1, <1>2, <1>4 DEF Aimed, Hits, choice
  <2>2. Uncut' /\ Hits'
    BY <1>2, <1>3, <1>4 DEF Aimed, Uncut, Hits, choice
  <2>. QED
    BY <2>1, <2>2 DEF Aimed, WithoutLoss, WithoutDelay, RangeIsFlight
<1>5. CASE pc \notin Seeking
  <2>1. pc \notin {"section", "data"}
    BY <1>2, <1>5 DEF InStep, Phase, Calm, Waiting
  <2>. QED
    BY <1>2, <1>3, <1>5, <2>1, AimedElsewhere
<1>. QED
  BY <1>4, <1>5

LEMMA AimedDefMemCut ==
    ASSUME InStep, Aimed, handle_def_mem_cut
    PROVE  Aimed'
<1>1. Serve("cut")
  BY DEF handle_def_mem_cut
<1>2. /\ ToSet(request') \subseteq ToSet(request) /\ Kinds(request') \subseteq Kinds(request)
      /\ "cut" \in Kinds(request) /\ UNCHANGED <<tty, pc, choice>>
  BY <1>1, Served
<1>3. "cut" \in troubles /\ troubles' = troubles
  BY <1>1, <1>2 DEF Aimed, Uncut, Serve
<1>4. Uncut' /\ Hits'
  BY <1>2, <1>3 DEF Aimed, Uncut, Hits, choice
<1>. QED
  BY <1>3, <1>4 DEF Aimed, WithoutLoss, WithoutDelay, RangeIsFlight

LEMMA AimedUnknown ==
    ASSUME InStep, Aimed, handle_unknown
    PROVE  Aimed'
<1>1. Serve("damaged") /\ alive' = FALSE /\ UNCHANGED <<answer, range>>
  BY DEF handle_unknown
<1>2. /\ ToSet(request') \subseteq ToSet(request) /\ Kinds(request') \subseteq Kinds(request)
      /\ UNCHANGED <<tty, pc, choice>>
  BY <1>1, Served
<1>3. troubles' = troubles
  BY <1>1 DEF Serve
<1>4. Uncut' /\ Hits' /\ RangeIsFlight'
  BY <1>1, <1>2, <1>3 DEF Aimed, Uncut, Hits, RangeIsFlight, choice
<1>5. WithoutLoss' /\ WithoutDelay'
  BY <1>1, <1>2, <1>3 DEF Aimed, WithoutLoss, WithoutDelay, choice
<1>. QED
  BY <1>4, <1>5 DEF Aimed

LEMMA AimedArrive ==
    ASSUME InStep, Aimed, Arrive
    PROVE  Aimed'
<1>1. /\ answer # <<>> /\ tty' = Append(tty, Head(answer)) /\ answer' = Tail(answer)
      /\ UNCHANGED <<request, troubles, range, alive, pc, flights, wanted>>
  BY DEF Arrive, device, choice
<1>2. Queue(answer) /\ Queue(tty)
  BY DEF InStep, Types
<1>3. Kinds(answer') \subseteq Kinds(answer) /\ Head(answer).kind \in Kinds(answer)
  BY <1>1, <1>2, Taking
<1>4. Kinds(tty') = Kinds(tty) \cup {Head(answer).kind}
  <2>. DEFINE m == Head(answer)
  <2>1. Queue(tty) /\ tty' = Append(tty, m)
    BY <1>1, <1>2
  <2>. HIDE DEF m
  <2>2. Kinds(tty') = Kinds(tty) \cup {m.kind}
    BY <2>1, Sending, ZenonT(60)
  <2>. QED
    BY <2>2 DEF m
<1>5. Kinds(answer') \cup Kinds(tty') \subseteq Kinds(answer) \cup Kinds(tty)
  BY <1>3, <1>4
<1>6. Uncut' /\ Hits' /\ RangeIsFlight'
  BY <1>1 DEF Aimed, Uncut, Hits, RangeIsFlight
<1>7. WithoutLoss' /\ WithoutDelay'
  BY <1>1, <1>5 DEF Aimed, WithoutLoss, WithoutDelay
<1>. QED
  BY <1>6, <1>7 DEF Aimed

\* What the line does to the first of the requests or of the answers.
LEMMA FaultIs ==
    ASSUME InStep, LineFault
    PROVE  \E k \in {"lose", "damage", "cut"} :
             /\ troubles' = troubles \cup {k}
             /\ UNCHANGED <<tty, device, pc, goal, choice>>
             /\ \A m \in ToSet(request') : m \in ToSet(request) \/ m.kind \in {"damaged", "cut"}
             /\ Kinds(request') \subseteq Kinds(request) \cup {"damaged", "cut"}
             /\ k # "cut" => Kinds(request') \subseteq Kinds(request) \cup {"damaged"}
             /\ k = "damage" => request' = request \/ "damaged" \in Kinds(request')
             /\ Kinds(answer') \subseteq Kinds(answer) \cup {"damaged", "cut"}
             /\ k # "cut" => Kinds(answer') \subseteq Kinds(answer) \cup {"damaged"}
<1>1. PICK k \in Faults \cap {"lose", "damage", "cut"} :
        /\ troubles' = troubles \cup {k}
        /\ \/ request # <<>> /\ request' \in Hurt(k, request) /\ UNCHANGED answer
           \/ answer # <<>> /\ answer' \in Hurt(k, answer) /\ UNCHANGED request
  BY DEF LineFault
<1>2. UNCHANGED <<tty, device, pc, goal, choice>>
  BY DEF LineFault
<1>3. Queue(request) /\ Queue(answer)
  BY DEF InStep, Types
<1>4. ASSUME NEW s, Queue(s), s # <<>>, NEW t \in Hurt(k, s)
      PROVE  /\ \A m \in ToSet(t) : m \in ToSet(s) \/ m.kind \in {"damaged", "cut"}
             /\ Kinds(t) \subseteq Kinds(s) \cup {"damaged", "cut"}
             /\ k # "cut" => Kinds(t) \subseteq Kinds(s) \cup {"damaged"}
             /\ k = "damage" => "damaged" \in Kinds(t)
  <2>1. /\ \A m \in ToSet(t) : m \in ToSet(s) \/ m.kind \in {"damaged", "cut"}
        /\ Kinds(t) \subseteq Kinds(s) \cup {"damaged", "cut"}
    BY <1>4, Spoilt
  <2>2. ASSUME k = "lose"
        PROVE  Kinds(t) \subseteq Kinds(s)
    <3>1. t = Tail(s)
      BY <1>4, <2>2 DEF Hurt
    <3>. QED
      BY <1>4, <3>1, Taking
  <2>3. ASSUME k = "damage"
        PROVE  Kinds(t) \subseteq Kinds(s) \cup {"damaged"} /\ "damaged" \in Kinds(t)
    <3>. DEFINE m == Msg("damaged", <<>>)
    <3>1. t = <<m>> \o Tail(s) /\ m.kind = "damaged"
      BY <1>4, <2>3 DEF Hurt, Msg
    <3>. HIDE DEF m
    <3>2. t = <<m>> \o Tail(s)
      BY <3>1
    <3>3. m.kind \in Kinds(t) /\ Kinds(t) \subseteq Kinds(s) \cup {m.kind}
      BY <1>4, <3>2, Hurting
    <3>. QED
      BY <3>1, <3>3
  <2>. QED
    BY <2>1, <2>2, <2>3
<1>5. CASE request # <<>> /\ request' \in Hurt(k, request) /\ UNCHANGED answer
  <2>1. /\ \A m \in ToSet(request') : m \in ToSet(request) \/ m.kind \in {"damaged", "cut"}
        /\ Kinds(request') \subseteq Kinds(request) \cup {"damaged", "cut"}
        /\ k # "cut" => Kinds(request') \subseteq Kinds(request) \cup {"damaged"}
        /\ k = "damage" => "damaged" \in Kinds(request')
    BY <1>3, <1>4, <1>5
  <2>. QED
    BY <1>1, <1>2, <1>5, <2>1
<1>6. CASE answer # <<>> /\ answer' \in Hurt(k, answer) /\ UNCHANGED request
  <2>1. /\ Kinds(answer') \subseteq Kinds(answer) \cup {"damaged", "cut"}
        /\ k # "cut" => Kinds(answer') \subseteq Kinds(answer) \cup {"damaged"}
    BY <1>3, <1>4, <1>6
  <2>. QED
    BY <1>1, <1>2, <1>6, <2>1
<1>. QED
  BY <1>1, <1>5, <1>6

LEMMA AimedLineFault ==
    ASSUME InStep, Aimed, LineFault
    PROVE  Aimed'
<1>1. PICK k \in {"lose", "damage", "cut"} :
             /\ troubles' = troubles \cup {k}
             /\ UNCHANGED <<tty, device, pc, goal, choice>>
             /\ \A m \in ToSet(request') : m \in ToSet(request) \/ m.kind \in {"damaged", "cut"}
             /\ Kinds(request') \subseteq Kinds(request) \cup {"damaged", "cut"}
             /\ k # "cut" => Kinds(request') \subseteq Kinds(request) \cup {"damaged"}
             /\ k = "damage" => request' = request \/ "damaged" \in Kinds(request')
             /\ Kinds(answer') \subseteq Kinds(answer) \cup {"damaged", "cut"}
             /\ k # "cut" => Kinds(answer') \subseteq Kinds(answer) \cup {"damaged"}
  BY FaultIs
<1>2. UNCHANGED <<tty, pc, range, alive, flights, wanted>>
  BY <1>1 DEF device, choice
<1>3. Uncut'
  BY <1>1 DEF Aimed, Uncut
<1>4. Hits' /\ RangeIsFlight'
  BY <1>1, <1>2 DEF Aimed, Hits, RangeIsFlight
<1>5. WithoutLoss'
  <2>. SUFFICES ASSUME {"lose", "cut"} \cap troubles' = {}
                PROVE  WithoutLoss'
    BY DEF WithoutLoss
  <2>1. k = "damage" /\ {"lose", "cut"} \cap troubles = {}
    BY <1>1
  <2>. QED
    BY <1>1, <1>2, <2>1 DEF Aimed, WithoutLoss
<1>6. WithoutDelay'
  <2>. SUFFICES ASSUME {"late", "cut"} \cap troubles' = {}
                PROVE  WithoutDelay'
    BY DEF WithoutDelay
  <2>1. k # "cut" /\ {"late", "cut"} \cap troubles = {}
    BY <1>1
  <2>2. /\ Kinds(answer') \subseteq Kinds(answer) \cup {"damaged"} /\ Kinds(request') \subseteq Kinds(request) \cup {"damaged"}
    BY <1>1, <2>1
  <2>. QED
    BY <1>2, <2>1, <2>2 DEF Aimed, WithoutDelay
<1>. QED
  BY <1>3, <1>4, <1>5, <1>6 DEF Aimed

LEMMA AimedInit == Init => Aimed
<1>1. Kinds(<<>>) = {} /\ ToSet(<<>>) = {}
  BY NoQueue
<1>. QED
  BY <1>1 DEF Init, Aimed, Uncut, Hits, WithoutLoss, WithoutDelay, RangeIsFlight, Seeking

\* lxn-logger is elsewhere, and what it asks for does not change.
LEMMA AimedRead ==
    ASSUME Aimed, pc' \notin Seeking \cup {"section", "data"}, troubles \subseteq troubles', request' = request
    PROVE  Aimed'
BY AimedElsewhere

LEMMA AimedNext ==
    ASSUME InStep, InStep', OneByOne, Aimed, [Next]_vars
    PROVE  Aimed'
<1>1. CASE SendSyn
  <2>. DEFINE m == Msg("SYN", <<>>)
  <2>1. Send(m) /\ pc' \notin Seeking \cup {"section", "data"} /\ m.kind # "cut"
    BY <1>1 DEF SendSyn, Seeking, Msg
  <2>. HIDE DEF m
  <2>. QED
    BY <2>1, AimedSend
<1>2. CASE RecvAck
  <2>1. pc' \notin Seeking \cup {"section", "data"} /\ troubles' = troubles /\ request' = request
    <3>1. goal \in {"check", "list", "def"}
      BY <1>2 DEF RecvAck, InStep, Types
    <3>. QED
      BY <1>2, <3>1 DEF RecvAck, Read, Seeking
  <2>. QED
    BY <2>1, AimedRead
<1>3. CASE NoAck
  <2>1. pc' \notin Seeking \cup {"section", "data"} /\ troubles \subseteq troubles' /\ request' = request
    BY <1>3 DEF NoAck, Read, NothingYet, Stop, Seeking
  <2>. QED
    BY <2>1, AimedRead
<1>4. CASE CheckMemSettings
  <2>. DEFINE m == Msg("CHECK_MEM_SETTINGS", <<>>)
  <2>1. Send(m) /\ pc' \notin Seeking \cup {"section", "data"} /\ m.kind # "cut"
    BY <1>4 DEF CheckMemSettings, Seeking, Msg
  <2>. HIDE DEF m
  <2>. QED
    BY <2>1, AimedSend
<1>5. CASE RecvSettings
  <2>1. pc' \notin Seeking \cup {"section", "data"} /\ troubles' = troubles /\ request' = request
    BY <1>5 DEF RecvSettings, Read, SynAckWait, Seeking
  <2>. QED
    BY <2>1, AimedRead
<1>6. CASE OpenFlightList
  <2>. DEFINE m == Msg("READ_FLIGHT_LIST", <<>>)
  <2>1. Send(m) /\ pc' \notin Seeking \cup {"section", "data"} /\ m.kind # "cut"
    BY <1>6 DEF OpenFlightList, Seeking, Msg
  <2>. HIDE DEF m
  <2>. QED
    BY <2>1, AimedSend
<1>7. CASE NextFlight
  <2>1. pc' \notin Seeking \cup {"section", "data"} /\ troubles' = troubles /\ request' = request
    BY <1>7 DEF NextFlight, Read, Seeking
  <2>. QED
    BY <2>1, AimedRead
<1>8. CASE ChooseFlight
  <2>1. pc' \notin Seeking \cup {"section", "data"} /\ troubles' = troubles /\ request' = request
    BY <1>8 DEF ChooseFlight, SynAckWait, line, Seeking
  <2>. QED
    BY <2>1, AimedRead
<1>9. CASE Quit \/ WrongAnswer \/ NoAnswer
  <2>1. pc' \notin Seeking \cup {"section", "data"} /\ troubles' = troubles /\ request' = request
    BY <1>9 DEF Quit, WrongAnswer, NoAnswer, Read, Stop, line, Seeking
  <2>. QED
    BY <2>1, AimedRead
<1>10. CASE SeekMem
  BY <1>10, AimedSeekMem
<1>11. CASE SeekAck
  BY <1>11, AimedSeekAck
<1>12. CASE GetMemSection
  BY <1>12, AimedGetMemSection
<1>13. CASE RecvMemSection
  BY <1>13, AimedRecvMemSection
<1>14. CASE DownloadSection
  <2>. DEFINE m == Msg("READ_LOGGER_DATA", <<section>>)
  <2>1. Send(m) /\ m.kind = "READ_LOGGER_DATA"
    BY <1>14 DEF DownloadSection, Msg
  <2>2. pc \in {"section", "data"} /\ pc' \in {"section", "data"} /\ UNCHANGED <<range, flights, wanted, troubles>>
    BY <1>14 DEF DownloadSection, device, choice, Send
  <2>. HIDE DEF m
  <2>3. Kinds(request') = Kinds(request) \cup {m.kind}
    BY <2>1, HostSends DEF InStep
  <2>. QED
    BY <2>1, <2>2, <2>3, AimedStay
<1>15. CASE RecvSection
  <2>1. pc \in {"section", "data"} /\ pc' \in {"section", "data"} /\ UNCHANGED <<range, flights, wanted, request>>
        /\ troubles \subseteq troubles'
    BY <1>15 DEF RecvSection, device
  <2>. QED
    BY <2>1, AimedStay
<1>16. CASE ConvertFlight
  <2>1. pc' \notin Seeking \cup {"section", "data"} /\ troubles' = troubles /\ request' = request
    BY <1>16 DEF ConvertFlight, line, Seeking
  <2>. QED
    BY <2>1, AimedRead
<1>17. CASE handle_syn
  <2>. DEFINE m == Ack  k == "SYN"
  <2>1. Serve(k) /\ answer' = Append(answer, m) /\ UNCHANGED <<range, alive>>
    BY <1>17 DEF handle_syn, device
  <2>2. m.kind # "sections" /\ k \notin {"DEF_MEM", "cut", "damaged"}
    BY DEF Ack, Msg
  <2>. HIDE DEF m, k
  <2>. QED
    BY <2>1, <2>2, AimedServe
<1>18. CASE handle_check_mem_settings
  <2>. DEFINE m == Msg("settings", <<>>)  k == "CHECK_MEM_SETTINGS"
  <2>1. Serve(k) /\ answer' = Append(answer, m) /\ UNCHANGED <<range, alive>>
    BY <1>18 DEF handle_check_mem_settings, device
  <2>2. m.kind # "sections" /\ k \notin {"DEF_MEM", "cut", "damaged"}
    BY DEF Msg
  <2>. HIDE DEF m, k
  <2>. QED
    BY <2>1, <2>2, AimedServe
<1>19. CASE handle_open_flight_list
  <2>1. Serve("READ_FLIGHT_LIST")
    BY <1>19 DEF handle_open_flight_list
  <2>2. "READ_FLIGHT_LIST" \in Kinds(request) /\ pc' = pc /\ Kinds(request') \subseteq Kinds(request)
    BY <2>1, Served
  <2>3. troubles' = troubles
    BY <2>1 DEF Serve
  <2>4. pc \notin Seeking \cup {"section", "data"}
    BY <2>2 DEF InStep, Phase, Calm, Waiting, Asked, Commands, Seeking
  <2>. QED
    BY <2>2, <2>3, <2>4, AimedElsewhere
<1>20. CASE handle_def_mem
  BY <1>20, AimedDefMem
<1>21. CASE handle_def_mem_cut
  BY <1>21, AimedDefMemCut
<1>22. CASE handle_get_mem_section
  <2>. DEFINE m == Msg("sections", section_lengths(blocks'))  k == "GET_MEM_SECTION"
  <2>1. Serve(k) /\ answer' = Append(answer, m) /\ UNCHANGED <<range, alive>>
    BY <1>22 DEF handle_get_mem_section
  <2>2. k \notin {"DEF_MEM", "cut", "damaged"} /\ k = "GET_MEM_SECTION"
    OBVIOUS
  <2>. HIDE DEF m, k
  <2>. QED
    BY <2>1, <2>2, AimedServe
<1>23. CASE handle_get_logger_data
  <2>. DEFINE k == "READ_LOGGER_DATA"
  <2>1. PICK m : answer' = Append(answer, m) /\ m.kind = "data"
    BY <1>23 DEF handle_get_logger_data, Msg
  <2>2. Serve(k) /\ UNCHANGED <<range, alive>>
    BY <1>23 DEF handle_get_logger_data, device
  <2>3. m.kind # "sections" /\ k \notin {"DEF_MEM", "cut", "damaged"}
    BY <2>1
  <2>4. answer' = Append(answer, m)
    BY <2>1
  <2>. HIDE DEF k
  <2>. QED
    BY <2>2, <2>3, <2>4, AimedServe
<1>24. CASE handle_unknown
  BY <1>24, AimedUnknown
<1>25. CASE Arrive
  BY <1>25, AimedArrive
<1>26. CASE LineFault
  BY <1>26, AimedLineFault
<1>27. CASE UNCHANGED vars
  <2>1. UNCHANGED <<request, answer, tty, troubles, device, pc, choice>>
    BY <1>27 DEF vars, line
  <2>2. Uncut' /\ Hits' /\ RangeIsFlight'
    BY <2>1 DEF Aimed, Uncut, Hits, RangeIsFlight, device, choice, Seek
  <2>3. WithoutLoss' /\ WithoutDelay'
    BY <2>1 DEF Aimed, WithoutLoss, WithoutDelay, device, choice
  <2>. QED
    BY <2>2, <2>3 DEF Aimed
<1>. QED
  BY <1>1, <1>2, <1>3, <1>4, <1>5, <1>6, <1>7, <1>8, <1>9, <1>10, <1>11, <1>12, <1>13, <1>14, <1>15, <1>16,
     <1>17, <1>18, <1>19, <1>20, <1>21, <1>22, <1>23, <1>24, <1>25, <1>26, <1>27 DEF Next, Host, Device

-----------------------------------------------------------------------------
(* The range of one flight is one section, and the file is that section.   *)
LEMMA OneFile ==
    ASSUME NEW i \in Flights
    PROVE  /\ Touched(flight_address(i), flight_end(i)) = {i} /\ flight_end(i) <= MemorySize
           /\ flight_address(i) \in Nat /\ flight_end(i) \in Nat /\ flight_address(i) < flight_end(i)
<1>1. /\ Lengths \in Seq(Nat \ {0}) /\ Flights = 1..Len(Lengths) /\ Len(Lengths) \in Nat
      /\ MemorySize = Total(Lengths, Len(Lengths))
      /\ \A j \in Flights : flight_address(j) = Total(Lengths, j - 1) /\ flight_end(j) = Total(Lengths, j - 1) + Lengths[j]
      /\ \A j \in Flights : flight_address(j) \in Nat /\ flight_end(j) \in Nat /\ flight_address(j) < flight_end(j)
  BY Memory
<1>2. /\ \A j \in 1..Len(Lengths) : Total(Lengths, j) = Total(Lengths, j - 1) + Lengths[j]
      /\ \A j \in 0..Len(Lengths) : \A k \in 0..j : Total(Lengths, k) <= Total(Lengths, j)
  BY <1>1, TotalsRise
<1>3. \A j \in Flights : flight_end(j) = Total(Lengths, j)
  BY <1>1, <1>2
<1>4. ASSUME NEW j \in Flights, j < i
      PROVE  flight_end(j) <= flight_address(i)
  <2>1. i - 1 \in 0..Len(Lengths) /\ j \in 0..(i - 1)
    BY <1>1, <1>4
  <2>. QED
    BY <1>1, <1>2, <1>3, <2>1
<1>5. ASSUME NEW j \in Flights, j > i
      PROVE  flight_end(i) <= flight_address(j)
  <2>1. j - 1 \in 0..Len(Lengths) /\ i \in 0..(j - 1)
    BY <1>1, <1>5
  <2>. QED
    BY <1>1, <1>2, <1>3, <2>1
<1>6. flight_end(i) <= MemorySize
  <2>1. Len(Lengths) \in 0..Len(Lengths) /\ i \in 0..Len(Lengths)
    BY <1>1
  <2>. QED
    BY <1>1, <1>2, <1>3, <2>1
<1>7. \A j \in Flights : j \in Touched(flight_address(i), flight_end(i)) => j = i
  <2>. SUFFICES ASSUME NEW j \in Flights, j # i
                PROVE  ~(flight_address(j) < flight_end(i) /\ flight_end(j) > flight_address(i))
    BY DEF Touched
  <2>1. j < i \/ j > i
    BY <1>1
  <2>2. flight_end(j) <= flight_address(i) \/ flight_end(i) <= flight_address(j)
    BY <1>4, <1>5, <2>1
  <2>3. /\ flight_address(i) \in Nat /\ flight_end(i) \in Nat
        /\ flight_address(j) \in Nat /\ flight_end(j) \in Nat
    BY <1>1
  <2>. QED
    BY <2>2, <2>3
<1>8. i \in Touched(flight_address(i), flight_end(i))
  BY <1>1 DEF Touched
<1>9. Touched(flight_address(i), flight_end(i)) \subseteq Flights
  BY DEF Touched
<1>. QED
  BY <1>1, <1>6, <1>7, <1>8, <1>9

\* The range of one flight is one section.
LEMMA OneBlock ==
    ASSUME NEW i \in Flights, NEW b, b = mem_blocks(flight_address(i), flight_end(i))
    PROVE  /\ DOMAIN b = {1} /\ Len(b) = 1 /\ PartOf(b[1]) = <<flight_address(i), flight_end(i)>>
           /\ b[1].length % Worth[3] # 0
<1>. DEFINE f == flight_address(i)  l == flight_end(i)
<1>1. f \in Nat /\ l \in Nat /\ f < l /\ l <= MemorySize /\ Touched(f, l) = {i} /\ MemorySize \in Nat
  BY OneFile, Memory
<1>2. MaxBlocks \in Nat \ {0}
  BY Memory
<1>. HIDE DEF f, l
<1>3. Cardinality(Touched(f, l)) = 1
  BY <1>1, FS_Singleton
<1>4. DOMAIN b = {1}
  <2>1. Min({MaxBlocks, 1}) = 1
    <3>1. Min({MaxBlocks, 1}) = (IF MaxBlocks <= 1 THEN MaxBlocks ELSE 1)
      BY <1>2, MinMaxOfTwo
    <3>. QED
      BY <1>2, <3>1
  <2>2. DOMAIN mem_blocks(f, l) = 1..1
    BY <1>3, <2>1 DEF mem_blocks
  <2>. QED
    BY <2>2 DEF f, l
<1>5. b = mem_blocks(f, l)
  BY DEF f, l
<1>6. PICK n, c : n \in 0..MaxBlocks /\ Sections(mem_blocks(f, l), f, l, n, c)
  BY <1>1, SectionsOf
<1>7. n = 1
  <2>1. DOMAIN b = 1..n
    BY <1>5, <1>6 DEF Sections
  <2>2. n \in Nat
    BY <1>2, <1>6
  <2>3. 1..n = {1}
    BY <1>4, <2>1
  <2>4. 1 \in 1..n /\ n \in 1..n
    BY <2>2, <2>3
  <2>. QED
    BY <2>3, <2>4
<1>8. Sections(b, f, l, 1, c)
  BY <1>5, <1>6, <1>7
<1>9. /\ b[1] \in [flight : Flights, offset : Nat, length : Nat \ {0}]
      /\ b[1].offset + b[1].length <= Lengths[b[1].flight]
      /\ flight_address(b[1].flight) + b[1].offset = c[0]
      /\ flight_address(b[1].flight) + b[1].offset + b[1].length = c[1]
      /\ c[0] = f /\ Len(b) = 1 /\ c[1] = Min({l, MemorySize})
  <2>1. 1 \in 1..1 /\ 1 - 1 = 0
    OBVIOUS
  <2>. QED
    BY <1>3, <1>8, <2>1 DEF Sections
<1>10. c[1] = l
  BY <1>1, <1>9, MinMaxOfTwo
<1>11. PartOf(b[1]) = <<f, l>>
  BY <1>9, <1>10 DEF PartOf
<1>12. b[1].length % Worth[3] # 0
  <2>. DEFINE k == b[1].length  w == Worth[3]  m == Lengths[b[1].flight]  o == b[1].offset
  <2>1. k \in Nat \ {0} /\ o \in Nat /\ b[1].flight \in Flights /\ o + k <= m
    BY <1>9
  <2>2. m \in Nat /\ m < w
    <3>1. Lengths[b[1].flight] \in Nat
      <4>1. b[1].flight \in 1..Len(Lengths) /\ Lengths \in Seq(Nat \ {0})
        BY <2>1, Memory
      <4>. QED
        BY <4>1, ElementOfSeq
    <3>2. Lengths[b[1].flight] < Worth[3]
      BY <2>1, FlightsAssumption
    <3>. QED
      BY <3>1, <3>2
  <2>3. w \in Nat
    <3>1. w = Base * Base /\ Base \in Nat
      BY MemoryAssumption DEF Worth
    <3>. HIDE DEF w
    <3>. QED
      BY <3>1
  <2>. HIDE DEF k, w, m, o
  <2>4. k < w
    BY <2>1, <2>2, <2>3
  <2>5. k % w = k
    BY <2>1, <2>3, <2>4
  <2>. QED
    BY <2>1, <2>5 DEF k, w
<1>. QED
  BY <1>4, <1>9, <1>11, <1>12 DEF f, l

\* And when there is no section left that section is in the file.
LEMMA FileOfBlock ==
    ASSUME NEW i \in Flights, NEW b, b = mem_blocks(flight_address(i), flight_end(i)),
           NEW k \in 1..(Len(b) + 1), k \in DOMAIN section_lengths(b) => section_lengths(b)[k] = 0
    PROVE  Tile(Parts(b, k - 1), flight_address(i), flight_end(i))
<1>. DEFINE f == flight_address(i)  l == flight_end(i)  e == PartOf(b[1])  s == Parts(b, 1)
<1>1. f \in Nat /\ l \in Nat /\ f < l
  BY OneFile
<1>2. DOMAIN b = {1} /\ Len(b) = 1 /\ e = <<f, l>> /\ b[1].length % Worth[3] # 0
  BY OneBlock
<1>3. 1 \in DOMAIN section_lengths(b) /\ section_lengths(b)[1] # 0
  <2>1. 1 \in DOMAIN b
    BY <1>2
  <2>. QED
    BY <1>2, <2>1 DEF section_lengths
<1>4. k = 2
  BY <1>2, <1>3
<1>5. s \in [1..1 -> {e}] /\ s[1] = e
  BY DEF Parts
<1>. HIDE DEF e, s
<1>6. Len(s) = 1 /\ s # <<>>
  <2>1. Queue(s) /\ Len(s) = 1
    BY <1>5, Row
  <2>. QED
    BY <2>1, QueueIs
<1>. HIDE DEF f, l
<1>7. s[1][1] = f /\ s[1][2] = l
  BY <1>2, <1>5
<1>8. Tile(s, f, l)
  <2>1. \A j \in 1..Len(s) : j = 1
    BY <1>6
  <2>. QED
    BY <1>1, <1>6, <1>7, <2>1 DEF Tile
<1>9. k - 1 = 1
  BY <1>4
<1>. QED
  BY <1>8, <1>9 DEF f, l, s

LEMMA DownloadOver ==
    ASSUME InStep, Carried, pc = "section", ~More, "disk full" \notin troubles, range = flights[wanted]
    PROVE  Tile(file[wanted], flights[wanted][1], flights[wanted][2])
<1>1. PICK i \in Flights : flights[wanted] = <<flight_address(i), flight_end(i)>>
  <2>1. wanted \in DOMAIN flights /\ flights \in Seq(FlightIndex)
    BY BlocksAre DEF InStep, Types
  <2>2. flights[wanted] \in FlightIndex
    BY <2>1, ElementOfSeq, LenProperties
  <2>. QED
    BY <2>2 DEF FlightIndex
<1>2. flights[wanted][1] = flight_address(i) /\ flights[wanted][2] = flight_end(i)
  BY ONLY <1>1
<1>3. blocks = mem_blocks(flight_address(i), flight_end(i))
  <2>1. blocks = mem_blocks(range[1], range[2])
    BY DEF InStep, Steady
  <2>. QED
    BY <1>2, <2>1
<1>4. /\ section \in 1..(Len(blocks) + 1) /\ file[wanted] = Parts(blocks, section - 1)
      /\ lengths = section_lengths(blocks)
  BY DEF Carried, Loading
<1>5. section \in DOMAIN section_lengths(blocks) => section_lengths(blocks)[section] = 0
  BY <1>4 DEF More
<1>6. Tile(Parts(blocks, section - 1), flight_address(i), flight_end(i))
  BY <1>3, <1>4, <1>5, FileOfBlock
<1>. QED
  BY <1>2, <1>4, <1>6

LEMMA BackAtPrompt ==
    ASSUME InStep, InStep', [Next]_vars, pc' = "prompt", wanted' # 0
    PROVE  /\ UNCHANGED <<file, flights, wanted>> /\ troubles \subseteq troubles'
           /\ pc = "prompt" \/ (pc = "section" /\ ~More /\ troubles' = troubles)
<1>1. CASE SendSyn \/ RecvAck \/ NoAck \/ CheckMemSettings \/ RecvSettings \/ OpenFlightList
  BY <1>1 DEF SendSyn, RecvAck, NoAck, CheckMemSettings, RecvSettings, OpenFlightList, SynAckWait, Stop, InStep, Types
<1>2. CASE NextFlight
  <2>1. wanted' = wanted /\ pc = "flights"
    BY <1>2 DEF NextFlight
  <2>. QED
    BY <2>1 DEF InStep, Types, Chosen, Stopped
<1>3. CASE ChooseFlight \/ Quit \/ SeekMem \/ SeekAck \/ GetMemSection \/ RecvMemSection
  BY <1>3 DEF ChooseFlight, Quit, SeekMem, SeekAck, GetMemSection, RecvMemSection, SynAckWait, Stop
<1>4. CASE DownloadSection \/ RecvSection \/ WrongAnswer \/ NoAnswer
  BY <1>4 DEF DownloadSection, RecvSection, WrongAnswer, NoAnswer, Stop
<1>5. CASE ConvertFlight
  BY <1>5 DEF ConvertFlight, line, choice
<1>6. CASE Device
  BY <1>6 DEF Device, handle_syn, handle_check_mem_settings, handle_open_flight_list, handle_def_mem,
     handle_def_mem_cut, handle_get_mem_section, handle_get_logger_data, handle_unknown, Serve, choice, disk
<1>7. CASE Arrive \/ LineFault
  BY <1>7 DEF Arrive, LineFault, choice, disk
<1>8. CASE UNCHANGED vars
  BY <1>8 DEF vars, line, choice, disk
<1>. QED
  BY <1>1, <1>2, <1>3, <1>4, <1>5, <1>6, <1>7, <1>8 DEF Next, Host

\* What a download rests on.
Downloading == InStep /\ OneByOne /\ Carried /\ Aimed /\ FileIsTheFlight

LEMMA FileIsTheFlightNext ==
    ASSUME Downloading, InStep', [Next]_vars
    PROVE  FileIsTheFlight'
<1>. SUFFICES ASSUME ~({"lose", "late"} \subseteq troubles'), {"cut", "disk full"} \cap troubles' = {},
                     pc' = "prompt", wanted' # 0
              PROVE  Tile(file[wanted], flights[wanted][1], flights[wanted][2])'
  BY DEF FileIsTheFlight, DownloadIsTheFlight
<1>1. /\ UNCHANGED <<file, flights, wanted>> /\ troubles \subseteq troubles'
      /\ pc = "prompt" \/ (pc = "section" /\ ~More)
  BY BackAtPrompt DEF Downloading
<1>2. ~({"lose", "late"} \subseteq troubles) /\ {"cut", "disk full"} \cap troubles = {}
  BY <1>1
<1>3. Tile(file[wanted], flights[wanted][1], flights[wanted][2])
  <2>1. CASE pc = "prompt"
    BY <1>1, <1>2, <2>1 DEF Downloading, FileIsTheFlight, DownloadIsTheFlight
  <2>2. CASE pc = "section" /\ ~More
    <3>1. range = flights[wanted]
      BY <1>2, <2>2 DEF Downloading, Aimed, RangeIsFlight
    <3>. QED
      BY <1>2, <2>2, <3>1, DownloadOver DEF Downloading
  <2>. QED
    BY <1>1, <2>1, <2>2
<1>. QED
  BY <1>1, <1>3

\* While a flight is downloaded the sections that are in the file are the
\* beginning of the range the user has chosen, those not asked for are its
\* rest, and an answer under way is that of the section asked for.
THEOREM AlwaysDownloading == Spec => []Downloading
<1>1. Init => Downloading
  BY InStepInit, OneByOneInit, CarriedInit, AimedInit DEF Downloading, FileIsTheFlight, DownloadIsTheFlight, Init
<1>2. Downloading /\ InStep' /\ [Next]_vars => Downloading'
  BY OneByOneNext, CarriedNext, AimedNext, FileIsTheFlightNext DEF Downloading
<1>. QED
  BY <1>1, <1>2, AlwaysInStep, PTL DEF Spec

\* After every fault but those FileIsTheFlight names the file of a flight is
\* the memory of that flight.
THEOREM FileIsAlwaysTheFlight == Spec => []FileIsTheFlight
<1>1. Downloading => FileIsTheFlight
  BY DEF Downloading
<1>. QED
  BY <1>1, AlwaysDownloading, PTL

-----------------------------------------------------------------------------
(* A line that spoils and delays nothing: the request that is under way is *)
(* the one of the answer lxn-logger waits for, and so is the answer.       *)
Awaits == Single \cup {"flights"}
Sent == [ack |-> "SYN", settings |-> "CHECK_MEM_SETTINGS", flights |-> "READ_FLIGHT_LIST",
         seek |-> "DEF_MEM", lengths |-> "GET_MEM_SECTION", data |-> "READ_LOGGER_DATA"]
Back == [ack |-> {"ACK"}, settings |-> {"settings"}, flights |-> {"flight", "null"},
         seek |-> {"ACK"}, lengths |-> {"sections"}, data |-> {"data"}]

Healthy ==
    /\ alive /\ Kinds(request) \cap {"damaged", "cut"} = {}
    /\ pc \notin {"CRC error", "no response"}
    /\ pc \in Awaits => Kinds(request) \subseteq {Sent[pc]} /\ Kinds(answer) \cup Kinds(tty) \subseteq Back[pc]
    /\ pc \in Single => request # <<>> \/ answer # <<>> \/ tty # <<>>
    /\ pc = "flights" => request # <<>> \/ "null" \in Kinds(answer) \cup Kinds(tty)

Sound == troubles \subseteq {"disk full"} => Healthy

LEMMA SentIs ==
    /\ Awaits = {"ack", "settings", "flights", "seek", "lengths", "data"}
    /\ \A p \in Awaits : Sent[p] \notin {"damaged", "cut"}
    /\ Awaits \cap Still = {} /\ Awaits \cap Stopped = {}
    /\ DOMAIN Expected = Awaits \ {"ack"} /\ \A p \in DOMAIN Expected : Expected[p] = Back[p]
BY DEF Awaits, Single, Sent, Back, Still, Stopped, Expected

\* The answer to each request.
LEMMA BackIs ==
    ASSUME NEW p \in Awaits
    PROVE  /\ Sent[p] \in {"SYN", "DEF_MEM"} => p # "flights" /\ "ACK" \in Back[p]
           /\ Sent[p] = "CHECK_MEM_SETTINGS" => p # "flights" /\ "settings" \in Back[p]
           /\ Sent[p] = "GET_MEM_SECTION" => p # "flights" /\ "sections" \in Back[p]
           /\ Sent[p] = "READ_LOGGER_DATA" => p # "flights" /\ "data" \in Back[p]
<1>1. p \in {"ack", "settings", "flights", "seek", "lengths", "data"}
  BY DEF Awaits, Single
<1>. QED
  BY <1>1 DEF Sent, Back

\* lxn-logger waits for nothing.
LEMMA HealthyStill ==
    ASSUME Healthy, pc' \in Still \cup {"quit", "no filser", "no flights"}, alive' = alive,
           Kinds(request') \subseteq Kinds(request)
    PROVE  Healthy'
<1>1. pc' \notin Awaits /\ pc' \notin {"CRC error", "no response"}
  BY DEF Awaits, Single, Still
<1>. QED
  BY <1>1 DEF Healthy, Awaits

LEMMA HealthySend ==
    ASSUME InStep, OneByOne, Healthy, "late" \notin troubles, pc \in Still,
           NEW m, Send(m), pc' \in Awaits, m.kind = Sent[pc'], alive' = alive
    PROVE  Healthy'
<1>1. request = <<>> /\ answer = <<>> /\ tty = <<>>
  <2>1. InTurn
    BY Parted DEF OneByOne, Healthy, Dead
  <2>. QED
    BY <2>1, Few DEF InTurn, InStep
<1>2. /\ request' # <<>> /\ Kinds(request') = Kinds(request) \cup {m.kind} /\ Kinds(tty') = {} /\ answer' = answer
  BY HostSends DEF InStep
<1>3. Kinds(request') = {Sent[pc']} /\ Kinds(answer') = {}
  <2>1. Kinds(request) = {} /\ Kinds(answer) = {}
    BY <1>1, NoQueue
  <2>. QED
    BY <1>2, <2>1
<1>4. Sent[pc'] \notin {"damaged", "cut"} /\ pc' \notin {"CRC error", "no response"}
  BY SentIs DEF Stopped
<1>. QED
  BY <1>2, <1>3, <1>4 DEF Healthy

LEMMA HealthyServe ==
    ASSUME InStep, Healthy, NEW k, Serve(k), NEW m, answer' = Append(answer, m), alive' = alive,
           \A p \in Awaits : Sent[p] = k => p # "flights" /\ m.kind \in Back[p]
    PROVE  Healthy'
<1>1. /\ Kinds(request') \subseteq Kinds(request) /\ k \in Kinds(request) /\ UNCHANGED <<tty, pc>>
  BY Served
<1>2. Kinds(answer') = Kinds(answer) \cup {m.kind} /\ answer' # <<>>
  <2>1. Queue(answer)
    BY DEF InStep, Types
  <2>2. Queue(answer) /\ answer' = Append(answer, m)
    BY <2>1
  <2>. QED
    BY ONLY <2>2, Sending, ZenonT(60)
<1>3. pc \in Awaits => k = Sent[pc]
  BY <1>1 DEF Healthy
<1>4. pc \in Awaits => pc # "flights" /\ m.kind \in Back[pc]
  BY <1>3
<1>5. "flights" \in Awaits
  BY DEF Awaits
<1>6. Kinds(request') \cap {"damaged", "cut"} = {} /\ alive'
  BY <1>1 DEF Healthy
<1>7. pc' \in Awaits => Kinds(request') \subseteq {Sent[pc']} /\ Kinds(answer') \cup Kinds(tty') \subseteq Back[pc']
  BY <1>1, <1>2, <1>4 DEF Healthy
<1>. QED
  BY <1>1, <1>2, <1>4, <1>5, <1>6, <1>7 DEF Healthy

\* A request on this line is whole.
LEMMA HealthyServes ==
    ASSUME InStep, Healthy, NEW k, Serve(k)
    PROVE  k \notin {"damaged", "cut"}
<1>1. k \in Kinds(request)
  BY Served
<1>. QED
  BY <1>1 DEF Healthy

LEMMA HealthyList ==
    ASSUME InStep, Healthy, handle_open_flight_list
    PROVE  Healthy'
<1>. DEFINE F == [i \in Flights |-> Msg("flight", <<flight_address(i), flight_end(i)>>)]
            e == Msg("null", <<>>)
<1>1. Serve("READ_FLIGHT_LIST") /\ alive' = alive
  BY DEF handle_open_flight_list
<1>2. /\ Kinds(request') \subseteq Kinds(request) /\ "READ_FLIGHT_LIST" \in Kinds(request) /\ UNCHANGED <<tty, pc>>
  BY <1>1, Served
<1>3. Kinds(answer') \subseteq Kinds(answer) \cup {"flight", "null"} /\ "null" \in Kinds(answer')
  <2>1. \A m \in ToSet(F) : m.kind = "flight"
    BY DEF ToSet, Msg
  <2>2. Queue(F) /\ e.kind = "null" /\ Queue(answer)
    <3>. DEFINE n == Len(Lengths)
    <3>1. n \in Nat /\ Flights = 1..n
      BY Memory
    <3>2. F \in [1..n -> {Msg("flight", x) : x \in FlightIndex}]
      BY <3>1 DEF FlightIndex
    <3>. HIDE DEF F, n
    <3>3. Queue(F)
      BY <3>1, <3>2, Row
    <3>. QED
      BY <3>3 DEF Msg, InStep, Types
  <2>3. answer' = answer \o F \o <<e>>
    BY DEF handle_open_flight_list
  <2>. HIDE DEF F, e
  <2>. DEFINE r == answer \o F
  <2>4. answer' = r \o <<e>>
    BY <2>3
  <2>5. Queue(r) /\ ToSet(r) = ToSet(answer) \cup ToSet(F)
    BY <2>2, Joined DEF Queue
  <2>. HIDE DEF r
  <2>6. Queue(r) /\ answer' = Append(r, e)
    BY <2>4, <2>5, AppendIsConcat DEF Queue
  <2>7. Kinds(answer') = Kinds(r) \cup {e.kind}
    BY <2>6, Sending, ZenonT(60)
  <2>8. Kinds(r) \subseteq Kinds(answer) \cup {"flight"}
    BY <2>1, <2>5 DEF Kinds
  <2>. QED
    BY <2>2, <2>7, <2>8
<1>4. pc \in Awaits => pc = "flights"
  <2>1. pc \in Awaits => Sent[pc] = "READ_FLIGHT_LIST"
    BY <1>2 DEF Healthy
  <2>. QED
    BY <2>1, SentIs DEF Sent
<1>5. Back["flights"] = {"flight", "null"} /\ "flights" \in Awaits /\ "flights" \notin Single
  BY Parted DEF Back, Awaits
<1>6. pc \in Single => pc \in Awaits
  BY DEF Awaits
<1>. QED
  BY <1>1, <1>2, <1>3, <1>4, <1>5, <1>6 DEF Healthy

LEMMA HealthyArrive ==
    ASSUME InStep, Healthy, Arrive
    PROVE  Healthy'
<1>1. /\ answer # <<>> /\ tty' = Append(tty, Head(answer)) /\ answer' = Tail(answer)
      /\ UNCHANGED <<request, alive, pc>>
  BY DEF Arrive, device
<1>2. Queue(answer) /\ Queue(tty)
  BY DEF InStep, Types
<1>3. Kinds(answer) = Kinds(answer') \cup {Head(answer).kind}
  BY <1>1, <1>2, Taking
<1>4. Kinds(tty') = Kinds(tty) \cup {Head(answer).kind} /\ tty' # <<>>
  <2>. DEFINE m == Head(answer)
  <2>1. Queue(tty) /\ tty' = Append(tty, m)
    BY <1>1, <1>2
  <2>. HIDE DEF m
  <2>2. Kinds(tty') = Kinds(tty) \cup {m.kind} /\ tty' # <<>>
    BY <2>1, Sending, ZenonT(60)
  <2>. QED
    BY <2>2 DEF m
<1>5. Kinds(answer') \cup Kinds(tty') = Kinds(answer) \cup Kinds(tty)
  BY <1>3, <1>4
<1>. QED
  BY <1>1, <1>4, <1>5 DEF Healthy

LEMMA HealthyNextFlight ==
    ASSUME InStep, Healthy, NextFlight
    PROVE  Healthy'
<1>1. /\ pc = "flights" /\ tty # <<>> /\ tty' = Tail(tty)
      /\ UNCHANGED <<request, answer, alive>>
      /\ pc' \in {"flights", "prompt", "no flights"} /\ (pc' = "flights" => Head(tty).kind = "flight")
  BY DEF NextFlight, Read, device
<1>2. Kinds(tty) = Kinds(tty') \cup {Head(tty).kind}
  BY <1>1, HostReads DEF InStep
<1>3. CASE pc' = "flights"
  <2>1. Head(tty).kind = "flight"
    BY <1>1, <1>3
  <2>2. Kinds(tty) = Kinds(tty') \cup {"flight"}
    BY <1>2, <2>1
  <2>3. "null" \in Kinds(tty) => "null" \in Kinds(tty')
    BY <2>2
  <2>4. pc' = pc
    BY <1>1, <1>3
  <2>. QED
    BY <1>1, <2>2, <2>3, <2>4, Parted DEF Healthy
<1>4. CASE pc' # "flights"
  <2>1. pc' \in Still \cup {"quit", "no filser", "no flights"}
    BY <1>1, <1>4 DEF Still
  <2>. QED
    BY <1>1, <2>1, HealthyStill
<1>. QED
  BY <1>3, <1>4

\* A section has the length the host expects.
LEMMA SectionSize ==
    ASSUME InStep, Carried, pc = "data", NEW m \in ToSet(tty), m.kind = "data"
    PROVE  m.body[2] - m.body[1] = lengths[section]
<1>1. m.body = PartOf(blocks[section]) /\ section \in 1..Len(blocks) /\ lengths = section_lengths(blocks)
  BY DEF Carried, Loading
<1>2. range[1] \in Nat /\ range[2] \in Nat /\ blocks = mem_blocks(range[1], range[2])
  BY DEF InStep, Types, Steady
<1>3. PICK n, c : n \in 0..MaxBlocks /\ Sections(mem_blocks(range[1], range[2]), range[1], range[2], n, c)
  BY <1>2, SectionsOf
<1>. DEFINE b == blocks[section]  k == b.length  w == Worth[3]  o == b.offset  a == flight_address(b.flight)
            L == Lengths[b.flight]
<1>4. /\ b \in [flight : Flights, offset : Nat, length : Nat \ {0}]
      /\ o + k <= L /\ section \in DOMAIN blocks
  BY <1>1, <1>2, <1>3 DEF Sections
<1>5. lengths[section] = k % w
  BY <1>1, <1>4 DEF section_lengths
<1>6. m.body[1] = a + o /\ m.body[2] = a + o + k
  BY <1>1 DEF PartOf
<1>7. a \in Nat /\ o \in Nat /\ k \in Nat \ {0} /\ b.flight \in Flights
  BY <1>4, Memory
<1>8. L \in Nat /\ L < w
  <2>1. L \in Nat
    <3>1. b.flight \in 1..Len(Lengths) /\ Lengths \in Seq(Nat \ {0})
      BY <1>7, Memory
    <3>. QED
      BY <3>1, ElementOfSeq
  <2>2. L < w
    BY <1>7, FlightsAssumption
  <2>. QED
    BY <2>1, <2>2
<1>9. w \in Nat
  <2>1. w = Base * Base /\ Base \in Nat
    BY MemoryAssumption DEF Worth
  <2>. HIDE DEF w
  <2>. QED
    BY <2>1
<1>. HIDE DEF b, k, w, o, a, L
<1>10. k % w = k
  <2>1. k < w
    BY <1>4, <1>7, <1>8, <1>9
  <2>. QED
    BY <1>7, <1>9, <2>1
<1>. QED
  BY <1>5, <1>6, <1>7, <1>10

\* So neither of the two ways to end in an error is there.
LEMMA NothingWrong ==
    ASSUME InStep, Carried, Healthy
    PROVE  ~WrongAnswer /\ ~NoAnswer
<1>1. ASSUME WrongAnswer
      PROVE  FALSE
  <2>1. pc \in DOMAIN Expected /\ tty # <<>>
    BY <1>1 DEF WrongAnswer
  <2>2. Head(tty) \in ToSet(tty) /\ Head(tty).kind \in Kinds(tty)
    <3>1. Queue(tty)
      BY DEF InStep, Types
    <3>. QED
      BY <2>1, <3>1, QueueIs
  <2>3. Head(tty).kind \in Expected[pc]
    <3>1. pc \in Awaits /\ Expected[pc] = Back[pc]
      BY <2>1, SentIs
    <3>2. Kinds(tty) \subseteq Back[pc]
      BY <3>1 DEF Healthy
    <3>. QED
      BY <2>2, <3>1, <3>2
  <2>4. pc = "data" /\ Head(tty).kind = "data" /\ Head(tty).body[2] - Head(tty).body[1] # lengths[section]
    BY <1>1, <2>3 DEF WrongAnswer
  <2>. QED
    BY <2>2, <2>4, SectionSize
<1>2. ASSUME NoAnswer
      PROVE  FALSE
  <2>1. pc \in Awaits /\ pc \in DOMAIN Expected /\ answer = <<>> /\ tty = <<>>
        /\ (alive /\ request # <<>> => request[1].kind = "cut")
    BY <1>2, SentIs DEF NoAnswer, Silent
  <2>2. request # <<>>
    <3>1. Kinds(answer) \cup Kinds(tty) = {}
      BY <2>1, NoQueue
    <3>. QED
      BY <2>1, <3>1 DEF Healthy, Awaits
  <2>3. request[1].kind \in Kinds(request)
    <3>1. Queue(request)
      BY DEF InStep, Types
    <3>2. Head(request) = request[1] /\ Head(request).kind \in Kinds(request)
      BY <2>2, <3>1, Others, QueueIs DEF Queue
    <3>. QED
      BY <3>2
  <2>. QED
    BY <2>1, <2>2, <2>3 DEF Healthy
<1>. QED
  BY <1>1, <1>2

LEMMA SoundNext ==
    ASSUME InStep, InStep', OneByOne, Carried, Sound, [Next]_vars
    PROVE  Sound'
<1>. SUFFICES ASSUME troubles' \subseteq {"disk full"}
              PROVE  Healthy'
  BY DEF Sound
<1>1. CASE LineFault
  BY <1>1 DEF LineFault
<1>2. CASE ~LineFault
  <2>1. troubles \subseteq troubles'
    BY <1>2 DEF Next, Host, Device, vars, line, Send, Read, Serve, Stop, NothingYet, SendSyn, RecvAck, NoAck, CheckMemSettings,
       RecvSettings, OpenFlightList, NextFlight, ChooseFlight, Quit, SeekMem, SeekAck, GetMemSection, RecvMemSection,
       DownloadSection, RecvSection, WrongAnswer, NoAnswer, ConvertFlight, handle_syn, handle_check_mem_settings,
       handle_open_flight_list, handle_def_mem, handle_def_mem_cut, handle_get_mem_section, handle_get_logger_data,
       handle_unknown, Arrive
  <2>2. Healthy /\ "late" \notin troubles
    BY <2>1 DEF Sound
  <2>3. CASE SendSyn
    <3>. DEFINE m == Msg("SYN", <<>>)
    <3>1. Send(m) /\ pc \in Still /\ pc' \in Awaits /\ m.kind = Sent[pc'] /\ alive' = alive
      BY <2>3 DEF SendSyn, Msg, Still, Awaits, Single, Sent, device
    <3>. HIDE DEF m
    <3>. QED
      BY <2>2, <3>1, HealthySend
  <2>4. CASE CheckMemSettings
    <3>. DEFINE m == Msg("CHECK_MEM_SETTINGS", <<>>)
    <3>1. Send(m) /\ pc \in Still /\ pc' \in Awaits /\ m.kind = Sent[pc'] /\ alive' = alive
      BY <2>4 DEF CheckMemSettings, Msg, Still, Awaits, Single, Sent, device
    <3>. HIDE DEF m
    <3>. QED
      BY <2>2, <3>1, HealthySend
  <2>5. CASE OpenFlightList
    <3>. DEFINE m == Msg("READ_FLIGHT_LIST", <<>>)
    <3>1. Send(m) /\ pc \in Still /\ pc' \in Awaits /\ m.kind = Sent[pc'] /\ alive' = alive
      BY <2>5 DEF OpenFlightList, Msg, Still, Awaits, Single, Sent, device
    <3>. HIDE DEF m
    <3>. QED
      BY <2>2, <3>1, HealthySend
  <2>6. CASE SeekMem
    <3>. DEFINE m == Msg("DEF_MEM", <<def_mem_packet(flights[wanted][1]), def_mem_packet(flights[wanted][2])>>)
    <3>1. Send(m) /\ pc \in Still /\ pc' \in Awaits /\ m.kind = Sent[pc'] /\ alive' = alive
      BY <2>6 DEF SeekMem, Msg, Still, Awaits, Single, Sent, device
    <3>. HIDE DEF m
    <3>. QED
      BY <2>2, <3>1, HealthySend
  <2>7. CASE GetMemSection
    <3>. DEFINE m == Msg("GET_MEM_SECTION", <<>>)
    <3>1. Send(m) /\ pc \in Still /\ pc' \in Awaits /\ m.kind = Sent[pc'] /\ alive' = alive
      BY <2>7 DEF GetMemSection, Msg, Still, Awaits, Single, Sent, device
    <3>. HIDE DEF m
    <3>. QED
      BY <2>2, <3>1, HealthySend
  <2>8. CASE DownloadSection
    <3>. DEFINE m == Msg("READ_LOGGER_DATA", <<section>>)
    <3>1. Send(m) /\ pc \in Still /\ pc' \in Awaits /\ m.kind = Sent[pc'] /\ alive' = alive
      BY <2>8 DEF DownloadSection, Msg, Still, Awaits, Single, Sent, device
    <3>. HIDE DEF m
    <3>. QED
      BY <2>2, <3>1, HealthySend
  <2>9. CASE RecvAck \/ NoAck \/ RecvSettings \/ ChooseFlight \/ Quit
    <3>1. pc' \in Still \cup {"quit", "no filser", "no flights"}
      BY <2>9 DEF RecvAck, NoAck, RecvSettings, ChooseFlight, Quit, Still, Stop, SynAckWait, InStep, Types
    <3>2. request' = request /\ alive' = alive
      BY <2>9 DEF RecvAck, NoAck, RecvSettings, ChooseFlight, Quit, Read, NothingYet, line, device
    <3>. QED
      BY <2>2, <3>1, <3>2, HealthyStill
  <2>10. CASE SeekAck \/ RecvMemSection \/ RecvSection \/ ConvertFlight
    <3>1. pc' \in Still
      BY <2>10 DEF SeekAck, RecvMemSection, RecvSection, ConvertFlight, Still
    <3>2. request' = request /\ alive' = alive
      BY <2>10 DEF SeekAck, RecvMemSection, RecvSection, ConvertFlight, Read, line, device
    <3>. QED
      BY <2>2, <3>1, <3>2, HealthyStill
  <2>11. CASE NextFlight
    BY <2>2, <2>11, HealthyNextFlight
  <2>12. CASE WrongAnswer \/ NoAnswer
    BY <2>2, <2>12, NothingWrong
  <2>13. CASE handle_syn
    <3>. DEFINE m == Ack  k == "SYN"
    <3>1. Serve(k) /\ answer' = Append(answer, m) /\ alive' = alive
      BY <2>13 DEF handle_syn, device
    <3>2. \A p \in Awaits : Sent[p] = k => p # "flights" /\ m.kind \in Back[p]
      BY BackIs DEF Ack, Msg
    <3>. HIDE DEF m, k
    <3>. QED
      BY <2>2, <3>1, <3>2, HealthyServe
  <2>14. CASE handle_check_mem_settings
    <3>. DEFINE m == Msg("settings", <<>>)  k == "CHECK_MEM_SETTINGS"
    <3>1. Serve(k) /\ answer' = Append(answer, m) /\ alive' = alive
      BY <2>14 DEF handle_check_mem_settings, device
    <3>2. \A p \in Awaits : Sent[p] = k => p # "flights" /\ m.kind \in Back[p]
      BY BackIs DEF Msg
    <3>. HIDE DEF m, k
    <3>. QED
      BY <2>2, <3>1, <3>2, HealthyServe
  <2>15. CASE handle_open_flight_list
    BY <2>2, <2>15, HealthyList
  <2>16. CASE handle_def_mem
    <3>. DEFINE m == Ack  k == "DEF_MEM"
    <3>1. Serve(k) /\ answer' = Append(answer, m) /\ alive' = alive
      BY <2>16 DEF handle_def_mem
    <3>2. \A p \in Awaits : Sent[p] = k => p # "flights" /\ m.kind \in Back[p]
      BY BackIs DEF Ack, Msg
    <3>. HIDE DEF m, k
    <3>. QED
      BY <2>2, <3>1, <3>2, HealthyServe
  <2>17. CASE handle_def_mem_cut \/ handle_unknown
    <3>1. Serve("cut") \/ Serve("damaged")
      BY <2>17 DEF handle_def_mem_cut, handle_unknown
    <3>. QED
      BY <2>2, <3>1, HealthyServes
  <2>18. CASE handle_get_mem_section
    <3>. DEFINE m == Msg("sections", section_lengths(blocks'))  k == "GET_MEM_SECTION"
    <3>1. Serve(k) /\ answer' = Append(answer, m) /\ alive' = alive
      BY <2>18 DEF handle_get_mem_section
    <3>2. \A p \in Awaits : Sent[p] = k => p # "flights" /\ m.kind \in Back[p]
      BY BackIs DEF Msg
    <3>. HIDE DEF m, k
    <3>. QED
      BY <2>2, <3>1, <3>2, HealthyServe
  <2>19. CASE handle_get_logger_data
    <3>. DEFINE k == "READ_LOGGER_DATA"
    <3>1. PICK m : answer' = Append(answer, m) /\ m.kind = "data"
      BY ONLY <2>19 DEF handle_get_logger_data, Msg
    <3>2. Serve(k) /\ alive' = alive
      BY <2>19 DEF handle_get_logger_data, device
    <3>3. \A p \in Awaits : Sent[p] = k => p # "flights" /\ m.kind \in Back[p]
      BY <3>1, BackIs
    <3>4. answer' = Append(answer, m)
      BY <3>1
    <3>. HIDE DEF k
    <3>. QED
      BY <2>2, <3>2, <3>3, <3>4, HealthyServe
  <2>20. CASE Arrive
    BY <2>2, <2>20, HealthyArrive
  <2>21. CASE UNCHANGED vars
    BY <2>2, <2>21 DEF vars, line, device, Healthy
  <2>. QED
    BY <1>2, <2>3, <2>4, <2>5, <2>6, <2>7, <2>8, <2>9, <2>10, <2>11, <2>12, <2>13, <2>14, <2>15, <2>16,
       <2>17, <2>18, <2>19, <2>20, <2>21, ZenonT(60) DEF Next, Host, Device
<1>. QED
  BY <1>1, <1>2

\* On a line that spoils and delays nothing lxn-logger does not end in an
\* error.
THEOREM CleanLineNeverFailsAlways == Spec => []CleanLineNeverFails
<1>1. Init => Sound
  <2>1. Kinds(<<>>) = {}
    BY NoQueue
  <2>. QED
    BY <2>1 DEF Init, Sound, Healthy, Awaits, Single
<1>2. Downloading /\ InStep' /\ Sound /\ [Next]_vars => Sound'
  BY SoundNext DEF Downloading
<1>3. Sound => CleanLineNeverFails
  BY DEF Sound, Healthy, CleanLineNeverFails
<1>. QED
  BY <1>1, <1>2, <1>3, AlwaysInStep, AlwaysDownloading, PTL DEF Spec

-----------------------------------------------------------------------------
(* LxnToIgc computes three things packet by packet: the bytes of a file, its *)
(* conversion at once, and the records with their runs of zeros joined.  Of  *)
(* each the proofs need what one packet more does.                           *)
Bytewise == [bytes |-> <<>>, reader |-> NewReader]
AtOnce == [reader |-> NewReader, conv |-> NewConverter, records |-> <<>>]

StartOf(t) == CASE t = 1 -> Bytewise [] t = 2 -> AtOnce [] OTHER -> <<>>
One(t, x, p) == CASE t = 1 -> WithPacket(x, p) [] t = 2 -> WithConverted(x, p) [] OTHER -> WithRun(x, p)

OneByOneTo(t, s, n, g) == \A i \in 0..n : g[i] = IF i = 0 THEN StartOf(t) ELSE One(t, g[i - 1], s[i])

LEMMA StepsExist ==
    ASSUME NEW t, NEW s, NEW n \in Nat
    PROVE  \E g : g = [i \in 0..n |-> g[i]] /\ OneByOneTo(t, s, n, g)
<1>. DEFINE S == {m \in Nat : \E g : g = [i \in 0..m |-> g[i]] /\ OneByOneTo(t, s, m, g)}
<1>1. 0 \in S
  <2>. DEFINE g == [i \in 0..0 |-> StartOf(t)]
  <2>1. g = [i \in 0..0 |-> g[i]] /\ OneByOneTo(t, s, 0, g)
    BY DEF OneByOneTo
  <2>. QED
    BY <2>1
<1>2. ASSUME NEW m \in Nat, m \in S
      PROVE  m + 1 \in S
  <2>1. PICK g : g = [i \in 0..m |-> g[i]] /\ OneByOneTo(t, s, m, g)
    BY <1>2
  <2>. DEFINE x == One(t, g[m], s[m + 1])
              h == [i \in 0..(m + 1) |-> IF i <= m THEN g[i] ELSE x]
  <2>2. /\ h = [i \in 0..(m + 1) |-> h[i]] /\ h[m + 1] = x
        /\ \A i \in 0..m : h[i] = g[i]
    OBVIOUS
  <2>3. ASSUME NEW i \in 0..(m + 1)
        PROVE  h[i] = IF i = 0 THEN StartOf(t) ELSE One(t, h[i - 1], s[i])
    <3>. HIDE DEF h
    <3>1. CASE i \in 0..m
      <4>1. g[i] = IF i = 0 THEN StartOf(t) ELSE One(t, g[i - 1], s[i])
        BY <2>1, <3>1 DEF OneByOneTo
      <4>2. i = 0 \/ i - 1 \in 0..m
        BY <3>1
      <4>. QED
        BY <2>2, <3>1, <4>1, <4>2
    <3>2. CASE i = m + 1
      <4>1. i # 0 /\ i - 1 = m /\ m \in 0..m
        BY <3>2
      <4>2. h[i - 1] = g[m] /\ h[i] = One(t, g[m], s[i])
        BY <2>2, <3>2, <4>1
      <4>. QED
        BY <4>1, <4>2
    <3>. QED
      BY <3>1, <3>2
  <2>4. OneByOneTo(t, s, m + 1, h)
    BY <2>3 DEF OneByOneTo
  <2>. HIDE DEF h
  <2>. QED
    BY <2>2, <2>4
<1>. HIDE DEF S
<1>3. n \in S
  BY <1>1, <1>2, SetInduction
<1>. QED
  BY <1>3 DEF S

LEMMA EncodedIs ==
    ASSUME NEW s, Len(s) \in Nat
    PROVE  /\ Encoded(s)[0] = Bytewise
           /\ \A n \in 1..Len(s) : Encoded(s)[n] = WithPacket(Encoded(s)[n - 1], s[n])
<1>. DEFINE F(f) == [n \in 0..Len(s) |-> IF n = 0 THEN [bytes |-> <<>>, reader |-> NewReader]
                                         ELSE WithPacket(f[n - 1], s[n])]
            f == CHOOSE f : f = F(f)
<1>1. PICK g : g = [i \in 0..Len(s) |-> g[i]] /\ OneByOneTo(1, s, Len(s), g)
  BY StepsExist
<1>2. g = F(g)
  <2>1. StartOf(1) = Bytewise /\ \A x, p : One(1, x, p) = WithPacket(x, p)
    BY DEF StartOf, One
  <2>. QED
    BY <1>1, <2>1 DEF OneByOneTo, Bytewise
<1>3. f = F(f)
  BY <1>2
<1>4. Encoded(s) = f
  BY DEF Encoded
<1>. HIDE DEF f
<1>5. f[0] = Bytewise
  BY <1>3 DEF Bytewise
<1>6. \A n \in 1..Len(s) : f[n] = WithPacket(f[n - 1], s[n])
  BY <1>3
<1>. QED
  BY <1>4, <1>5, <1>6

LEMMA ConvertedIs ==
    ASSUME NEW s, Len(s) \in Nat
    PROVE  /\ Converted(s)[0] = AtOnce
           /\ \A n \in 1..Len(s) : Converted(s)[n] = WithConverted(Converted(s)[n - 1], s[n])
<1>. DEFINE F(f) == [n \in 0..Len(s) |->
                       IF n = 0 THEN [reader |-> NewReader, conv |-> NewConverter, records |-> <<>>]
                       ELSE WithConverted(f[n - 1], s[n])]
            f == CHOOSE f : f = F(f)
<1>1. PICK g : g = [i \in 0..Len(s) |-> g[i]] /\ OneByOneTo(2, s, Len(s), g)
  BY StepsExist
<1>2. g = F(g)
  <2>1. StartOf(2) = AtOnce /\ \A x, p : One(2, x, p) = WithConverted(x, p)
    BY DEF StartOf, One
  <2>. QED
    BY <1>1, <2>1 DEF OneByOneTo, AtOnce
<1>3. f = F(f)
  BY <1>2
<1>4. Converted(s) = f
  BY DEF Converted
<1>. HIDE DEF f
<1>5. f[0] = AtOnce
  BY <1>3 DEF AtOnce
<1>6. \A n \in 1..Len(s) : f[n] = WithConverted(f[n - 1], s[n])
  BY <1>3
<1>. QED
  BY <1>4, <1>5, <1>6

\* The records up to each place, their runs joined.
Joins(s, f) == f[0] = <<>> /\ \A n \in 1..Len(s) : f[n] = WithRun(f[n - 1], s[n])

LEMMA JoinedIs ==
    ASSUME NEW s, Len(s) \in Nat
    PROVE  \E f : Joins(s, f) /\ RunsJoined(s) = f[Len(s)]
<1>. DEFINE F(f) == [n \in 0..Len(s) |-> IF n = 0 THEN <<>> ELSE WithRun(f[n - 1], s[n])]
            f == CHOOSE f : f = F(f)
<1>1. PICK g : g = [i \in 0..Len(s) |-> g[i]] /\ OneByOneTo(3, s, Len(s), g)
  BY StepsExist
<1>2. g = F(g)
  BY <1>1, SMTT(60) DEF OneByOneTo, StartOf, One
<1>3. f = F(f)
  BY <1>2
<1>4. RunsJoined(s) = f[Len(s)]
  BY DEF RunsJoined
<1>. HIDE DEF f
<1>5. f[0] = <<>> /\ \A n \in 1..Len(s) : f[n] = WithRun(f[n - 1], s[n])
  BY <1>3
<1>. QED
  BY <1>4, <1>5 DEF Joins

\* One record more.
LEMMA OneRecord ==
    ASSUME NEW s, Queue(s), NEW x
    PROVE  RunsJoined(Append(s, x)) = WithRun(RunsJoined(s), x) /\ RunsJoined(<<>>) = <<>>
<1>. DEFINE t == Append(s, x)
<1>1. /\ Len(s) \in Nat /\ Len(t) = Len(s) + 1 /\ t[Len(s) + 1] = x
      /\ \A i \in 1..Len(s) : t[i] = s[i]
  BY AppendProperties, LenProperties DEF Queue
<1>. HIDE DEF t
<1>2. PICK f : Joins(s, f) /\ RunsJoined(s) = f[Len(s)]
  BY <1>1, JoinedIs
<1>3. PICK g : Joins(t, g) /\ RunsJoined(t) = g[Len(t)]
  BY <1>1, JoinedIs
<1>. DEFINE S == {n \in Nat : n <= Len(s) => f[n] = g[n]}
<1>4. 0 \in S
  BY <1>2, <1>3 DEF Joins
<1>5. ASSUME NEW n \in Nat, n \in S
      PROVE  n + 1 \in S
  <2>. SUFFICES ASSUME n + 1 <= Len(s)
                PROVE  f[n + 1] = g[n + 1]
    OBVIOUS
  <2>1. n + 1 \in 1..Len(s) /\ n + 1 \in 1..Len(t) /\ n + 1 - 1 = n /\ f[n] = g[n]
    BY <1>1, <1>5
  <2>2. f[n + 1] = WithRun(f[n], s[n + 1]) /\ g[n + 1] = WithRun(g[n], t[n + 1])
    BY <1>2, <1>3, <2>1 DEF Joins
  <2>. QED
    BY <1>1, <2>1, <2>2
<1>6. Nat \subseteq S
  <2>. HIDE DEF S
  <2>. QED
    BY <1>4, <1>5, SetInduction
<1>7. f[Len(s)] = g[Len(s)]
  BY <1>1, <1>6
<1>8. g[Len(s) + 1] = WithRun(g[Len(s)], x)
  <2>1. Len(s) + 1 \in 1..Len(t) /\ Len(s) + 1 - 1 = Len(s)
    BY <1>1
  <2>. QED
    BY <1>1, <1>3, <2>1 DEF Joins
<1>9. RunsJoined(<<>>) = <<>>
  <2>1. Len(<<>>) = 0
    BY EmptySeq
  <2>2. PICK h : Joins(<<>>, h) /\ RunsJoined(<<>>) = h[Len(<<>>)]
    BY <2>1, JoinedIs
  <2>. QED
    BY <2>1, <2>2 DEF Joins
<1>. QED
  BY <1>1, <1>2, <1>3, <1>7, <1>8, <1>9 DEF t

-----------------------------------------------------------------------------
(* Where lxn2igc is in its file: k packets have been read, and j zeros of a  *)
(* run of them.                                                              *)
Bytes == [kind : DOMAIN packet_lengths, value : Nat]
Readers == [end : BOOLEAN, b : Nat, k : Nat]

EncodedBytes(s, n) == Encoded(s)[n].bytes
EncodedReader(s, n) == Encoded(s)[n].reader

Place(s, k, j, off, r) ==
    /\ k \in 0..Len(s) /\ j \in Nat /\ off = Len(EncodedBytes(s, k)) + j /\ r = EncodedReader(s, k)
    /\ j = 0 \/ (k < Len(s) /\ s[k + 1].kind = "zeros" /\ j < s[k + 1].value)

LEMMA PacketIs ==
    ASSUME NEW p \in Packets, NEW r \in Readers, p.kind = "zeros" => p.value > 0
    PROVE  /\ LengthOf(p, r) \in Nat \ {0} /\ AfterPacket(r, p) \in Readers /\ p \in Bytes
           /\ p.kind = "zeros" => LengthOf(p, r) = p.value /\ AfterPacket(r, p) = r
           /\ p.kind = "end" => LengthOf(p, r) = 1
           /\ p.kind # "end" => AfterPacket(r, p).end = r.end
           /\ p.kind = "end" => AfterPacket(r, p).end
<1>1. p.kind \in DOMAIN packet_lengths \ {"more"} /\ p.value \in Nat /\ p \in Bytes
  BY DEF Packets, Bytes
<1>2. LengthOf(p, r) \in Nat \ {0}
  <2>1. p.kind \notin {"zeros", "end", "unknown", "string", "bext", "kext"} => packet_lengths[p.kind] \in Nat \ {0}
    BY <1>1 DEF packet_lengths
  <2>2. r.b \in Nat /\ r.k \in Nat
    BY DEF Readers
  <2>. QED
    BY <1>1, <2>1, <2>2 DEF LengthOf
<1>3. AfterPacket(r, p) \in Readers
  BY <1>1 DEF AfterPacket, Readers
<1>4. p.kind = "zeros" => LengthOf(p, r) = p.value /\ AfterPacket(r, p) = r
  BY DEF LengthOf, AfterPacket
<1>5. p.kind = "end" => LengthOf(p, r) = 1 /\ AfterPacket(r, p).end
  BY DEF LengthOf, AfterPacket, Readers
<1>6. p.kind # "end" => AfterPacket(r, p).end = r.end
  BY DEF AfterPacket, Readers
<1>. QED
  BY <1>1, <1>2, <1>3, <1>4, <1>5, <1>6

LEMMA PacketBytesAre ==
    ASSUME NEW p \in Packets, NEW r \in Readers, p.kind = "zeros" => p.value > 0
    PROVE  /\ PacketBytes(p, r) \in Seq(Bytes) /\ Len(PacketBytes(p, r)) = LengthOf(p, r)
           /\ p.kind = "zeros" => \A i \in 1..LengthOf(p, r) : PacketBytes(p, r)[i] = Packet("zeros", 1)
           /\ p.kind # "zeros" => PacketBytes(p, r)[1] = p
<1>. DEFINE n == LengthOf(p, r)
<1>1. n \in Nat \ {0} /\ p \in Bytes
  BY PacketIs
<1>2. \A i \in 1..n : /\ Packet("zeros", 1) \in Bytes /\ Packet("more", i) \in Bytes
  BY <1>1 DEF Packet, Bytes, packet_lengths
<1>. HIDE DEF n
<1>3. PacketBytes(p, r) = [i \in 1..n |-> IF p.kind = "zeros" THEN Packet("zeros", 1)
                                          ELSE IF i = 1 THEN p ELSE Packet("more", i)]
  BY DEF PacketBytes, n
<1>. DEFINE a == PacketBytes(p, r)
<1>4. a \in [1..n -> Bytes]
  BY <1>1, <1>2, <1>3
<1>5. a \in Seq(Bytes)
  BY <1>1, <1>4, SeqDef
<1>6. Len(a) = n
  BY <1>1, <1>4, <1>5, LenProperties
<1>7. 1 \in 1..n
  BY <1>1
<1>. QED
  BY <1>1, <1>3, <1>5, <1>6, <1>7 DEF n

\* What a well-formed file is.
LEMMA WellFormedIs ==
    ASSUME NEW s, WellFormed(s)
    PROVE  /\ Len(s) \in Nat /\ s \in Seq(Packets)
           /\ \A n \in 1..Len(s) : s[n] \in Packets /\ (s[n].kind = "zeros" => s[n].value > 0)
<1>1. s \in Seq(Packets)
  BY DEF WellFormed
<1>2. Len(s) \in Nat /\ \A n \in 1..Len(s) : s[n] \in Packets
  BY <1>1, LenProperties, ElementOfSeq
<1>. QED
  BY <1>1, <1>2 DEF WellFormed

LEMMA EncodedNext ==
    ASSUME NEW s, Len(s) \in Nat
    PROVE  /\ EncodedBytes(s, 0) = <<>> /\ EncodedReader(s, 0) = NewReader
           /\ \A n \in 0..(Len(s) - 1) :
                /\ EncodedBytes(s, n + 1) = EncodedBytes(s, n) \o PacketBytes(s[n + 1], EncodedReader(s, n))
                /\ EncodedReader(s, n + 1) = AfterPacket(EncodedReader(s, n), s[n + 1])
<1>1. Encoded(s)[0] = Bytewise
  BY EncodedIs
<1>2. ASSUME NEW n \in 0..(Len(s) - 1)
      PROVE  Encoded(s)[n + 1] = WithPacket(Encoded(s)[n], s[n + 1])
  <2>1. n + 1 \in 1..Len(s) /\ n + 1 - 1 = n
    OBVIOUS
  <2>. QED
    BY <2>1, EncodedIs
<1>3. ASSUME NEW x, NEW p, NEW y, y = WithPacket(x, p)
      PROVE  y.bytes = x.bytes \o PacketBytes(p, x.reader) /\ y.reader = AfterPacket(x.reader, p)
  BY <1>3 DEF WithPacket
<1>4. EncodedBytes(s, 0) = <<>> /\ EncodedReader(s, 0) = NewReader
  BY <1>1 DEF Bytewise, EncodedBytes, EncodedReader
<1>5. ASSUME NEW n \in 0..(Len(s) - 1)
      PROVE  /\ EncodedBytes(s, n + 1) = EncodedBytes(s, n) \o PacketBytes(s[n + 1], EncodedReader(s, n))
             /\ EncodedReader(s, n + 1) = AfterPacket(EncodedReader(s, n), s[n + 1])
  <2>. DEFINE x == Encoded(s)[n]  p == s[n + 1]  y == Encoded(s)[n + 1]
  <2>1. y = WithPacket(x, p)
    BY <1>2
  <2>. HIDE DEF x, p, y
  <2>2. y.bytes = x.bytes \o PacketBytes(p, x.reader) /\ y.reader = AfterPacket(x.reader, p)
    BY <1>3, <2>1
  <2>. QED
    BY <2>2 DEF EncodedBytes, EncodedReader, x, p, y
<1>. QED
  BY <1>4, <1>5

LEMMA EncodedTypes ==
    ASSUME NEW s, WellFormed(s)
    PROVE  \A n \in 0..Len(s) : EncodedBytes(s, n) \in Seq(Bytes) /\ EncodedReader(s, n) \in Readers
<1>. DEFINE S == {n \in Nat : n <= Len(s) => EncodedBytes(s, n) \in Seq(Bytes) /\ EncodedReader(s, n) \in Readers}
<1>1. Len(s) \in Nat
  BY WellFormedIs
<1>2. 0 \in S
  <2>1. EncodedBytes(s, 0) = <<>> /\ EncodedReader(s, 0) = NewReader
    BY <1>1, EncodedNext
  <2>2. NewReader \in Readers /\ <<>> \in Seq(Bytes)
    BY EmptySeq DEF NewReader, Readers
  <2>. QED
    BY <2>1, <2>2
<1>3. ASSUME NEW n \in Nat, n \in S
      PROVE  n + 1 \in S
  <2>. SUFFICES ASSUME n + 1 <= Len(s)
                PROVE  EncodedBytes(s, n + 1) \in Seq(Bytes) /\ EncodedReader(s, n + 1) \in Readers
    OBVIOUS
  <2>1. n + 1 \in 1..Len(s) /\ n + 1 - 1 = n
    BY <1>1
  <2>2. EncodedBytes(s, n) \in Seq(Bytes) /\ EncodedReader(s, n) \in Readers
    BY <1>1, <1>3
  <2>. DEFINE p == s[n + 1]  r == EncodedReader(s, n)
  <2>4. p \in Packets /\ (p.kind = "zeros" => p.value > 0)
    BY <2>1, WellFormedIs
  <2>5. EncodedBytes(s, n + 1) = EncodedBytes(s, n) \o PacketBytes(p, r) /\ EncodedReader(s, n + 1) = AfterPacket(r, p)
    <3>1. n \in 0..(Len(s) - 1)
      BY <1>1, <2>1
    <3>. QED
      BY <1>1, <3>1, EncodedNext
  <2>. HIDE DEF p, r
  <2>6. PacketBytes(p, r) \in Seq(Bytes) /\ AfterPacket(r, p) \in Readers
    BY <2>2, <2>4, PacketBytesAre, PacketIs DEF r
  <2>7. EncodedBytes(s, n) \o PacketBytes(p, r) \in Seq(Bytes)
    BY <2>2, <2>6, ConcatProperties
  <2>. QED
    BY <2>5, <2>6, <2>7
<1>. HIDE DEF S
<1>4. Nat \subseteq S
  BY <1>2, <1>3, SetInduction
<1>. QED
  BY <1>1, <1>4 DEF S

\* One packet more.
LEMMA PacketAdded ==
    ASSUME NEW s, WellFormed(s), NEW n \in 0..(Len(s) - 1)
    PROVE  /\ Len(EncodedBytes(s, n)) \in Nat /\ LengthOf(s[n + 1], EncodedReader(s, n)) \in Nat \ {0}
           /\ Len(EncodedBytes(s, n + 1)) = Len(EncodedBytes(s, n)) + LengthOf(s[n + 1], EncodedReader(s, n))
           /\ EncodedReader(s, n + 1) = AfterPacket(EncodedReader(s, n), s[n + 1])
           /\ \A i \in 1..Len(EncodedBytes(s, n)) : EncodedBytes(s, n + 1)[i] = EncodedBytes(s, n)[i]
           /\ \A i \in 1..LengthOf(s[n + 1], EncodedReader(s, n)) :
                EncodedBytes(s, n + 1)[Len(EncodedBytes(s, n)) + i] = PacketBytes(s[n + 1], EncodedReader(s, n))[i]
<1>1. Len(s) \in Nat /\ n \in Nat /\ n + 1 \in 1..Len(s) /\ n \in 0..Len(s) /\ n + 1 - 1 = n
  BY WellFormedIs
<1>. DEFINE p == s[n + 1]  r == EncodedReader(s, n)  a == EncodedBytes(s, n)  b == PacketBytes(p, r)
<1>2. p \in Packets /\ (p.kind = "zeros" => p.value > 0) /\ r \in Readers /\ a \in Seq(Bytes)
  BY <1>1, WellFormedIs, EncodedTypes
<1>3. EncodedBytes(s, n + 1) = a \o b /\ EncodedReader(s, n + 1) = AfterPacket(r, p)
  BY <1>1, EncodedNext
<1>. HIDE DEF p, r
<1>4. b \in Seq(Bytes) /\ Len(b) = LengthOf(p, r) /\ LengthOf(p, r) \in Nat \ {0}
  BY <1>2, PacketBytesAre, PacketIs
<1>. HIDE DEF a, b
<1>5. Len(a) \in Nat /\ Len(b) \in Nat
  BY <1>2, <1>4, LenProperties
<1>6. /\ Len(a \o b) = Len(a) + Len(b)
      /\ \A i \in 1..Len(a) : (a \o b)[i] = a[i]
      /\ \A i \in 1..Len(b) : (a \o b)[Len(a) + i] = b[i]
  <2>1. /\ Len(a \o b) = Len(a) + Len(b)
        /\ \A i \in 1..(Len(a) + Len(b)) : (a \o b)[i] = IF i <= Len(a) THEN a[i] ELSE b[i - Len(a)]
    BY ONLY <1>2, <1>4, ConcatProperties
  <2>2. ASSUME NEW i \in 1..Len(b)
        PROVE  (a \o b)[Len(a) + i] = b[i]
    <3>1. Len(a) + i \in 1..(Len(a) + Len(b)) /\ ~(Len(a) + i <= Len(a)) /\ Len(a) + i - Len(a) = i
      BY <1>5
    <3>. QED
      BY <2>1, <3>1
  <2>3. \A i \in 1..Len(a) : i \in 1..(Len(a) + Len(b)) /\ i <= Len(a)
    BY <1>5
  <2>. QED
    BY <2>1, <2>2, <2>3
<1>. QED
  BY <1>3, <1>4, <1>5, <1>6 DEF a, b, p, r

\* The bytes of the first packets are those the file begins with.
LEMMA Beginnings ==
    ASSUME NEW s, WellFormed(s), NEW k \in 0..Len(s)
    PROVE  /\ Len(EncodedBytes(s, k)) \in Nat /\ Len(BytesOf(s)) \in Nat
           /\ Len(EncodedBytes(s, k)) <= Len(BytesOf(s))
           /\ \A i \in 1..Len(EncodedBytes(s, k)) : BytesOf(s)[i] = EncodedBytes(s, k)[i]
<1>1. Len(s) \in Nat /\ k \in Nat
  BY WellFormedIs
<1>. DEFINE a == EncodedBytes(s, k)
<1>2. \A m \in 0..Len(s) : Len(EncodedBytes(s, m)) \in Nat
  BY EncodedTypes, LenProperties
<1>. DEFINE S == {d \in Nat : k + d <= Len(s) =>
                     /\ Len(a) <= Len(EncodedBytes(s, k + d))
                     /\ \A i \in 1..Len(a) : EncodedBytes(s, k + d)[i] = a[i]}
<1>3. 0 \in S
  <2>1. k + 0 = k
    BY <1>1
  <2>. HIDE DEF a
  <2>2. Len(a) <= Len(a)
    BY <1>2 DEF a
  <2>. QED
    BY <2>1, <2>2 DEF a
<1>4. ASSUME NEW d \in Nat, d \in S
      PROVE  d + 1 \in S
  <2>. SUFFICES ASSUME k + (d + 1) <= Len(s)
                PROVE  /\ Len(a) <= Len(EncodedBytes(s, k + (d + 1)))
                       /\ \A i \in 1..Len(a) : EncodedBytes(s, k + (d + 1))[i] = a[i]
    OBVIOUS
  <2>. DEFINE n == k + d
  <2>1. n \in 0..(Len(s) - 1) /\ k + (d + 1) = n + 1 /\ n <= Len(s) /\ n \in 0..Len(s) /\ n + 1 \in 0..Len(s)
    BY <1>1
  <2>2. Len(a) <= Len(EncodedBytes(s, n)) /\ \A i \in 1..Len(a) : EncodedBytes(s, n)[i] = a[i]
    BY <1>4, <2>1
  <2>. HIDE DEF n, a
  <2>3. /\ Len(EncodedBytes(s, n)) <= Len(EncodedBytes(s, n + 1))
        /\ \A i \in 1..Len(EncodedBytes(s, n)) : EncodedBytes(s, n + 1)[i] = EncodedBytes(s, n)[i]
    BY <2>1, PacketAdded
  <2>4. Len(a) \in Nat /\ Len(EncodedBytes(s, n)) \in Nat /\ Len(EncodedBytes(s, n + 1)) \in Nat
    BY <1>2, <2>1 DEF a
  <2>5. Len(a) <= Len(EncodedBytes(s, n + 1)) /\ \A i \in 1..Len(a) : i \in 1..Len(EncodedBytes(s, n))
    BY <2>2, <2>3, <2>4
  <2>. QED
    BY <2>1, <2>2, <2>3, <2>5
<1>5. Nat \subseteq S
  <2>. HIDE DEF S
  <2>. QED
    BY <1>3, <1>4, SetInduction
<1>6. Len(a) <= Len(EncodedBytes(s, Len(s))) /\ \A i \in 1..Len(a) : EncodedBytes(s, Len(s))[i] = a[i]
  <2>. DEFINE d == Len(s) - k
  <2>1. d \in Nat /\ k + d = Len(s) /\ k + d <= Len(s)
    BY <1>1
  <2>2. d \in S
    BY <1>5, <2>1
  <2>. HIDE DEF d
  <2>. QED
    BY <2>1, <2>2
<1>. QED
  BY <1>1, <1>2, <1>6 DEF BytesOf, EncodedBytes

\* The bytes of a packet where it is in the file.
LEMMA PacketThere ==
    ASSUME NEW s, WellFormed(s), NEW k \in 0..(Len(s) - 1), NEW a, a = Len(EncodedBytes(s, k)),
           NEW n, n = LengthOf(s[k + 1], EncodedReader(s, k))
    PROVE  /\ a \in Nat /\ n \in Nat \ {0} /\ Len(BytesOf(s)) \in Nat /\ a + n <= Len(BytesOf(s))
           /\ Len(EncodedBytes(s, k + 1)) = a + n
           /\ \A i \in 1..n : BytesOf(s)[a + i] = PacketBytes(s[k + 1], EncodedReader(s, k))[i]
<1>1. Len(s) \in Nat /\ k + 1 \in 0..Len(s)
  BY WellFormedIs
<1>2. /\ a \in Nat /\ n \in Nat \ {0} /\ Len(EncodedBytes(s, k + 1)) = a + n
      /\ \A i \in 1..n : EncodedBytes(s, k + 1)[a + i] = PacketBytes(s[k + 1], EncodedReader(s, k))[i]
  BY PacketAdded
<1>3. /\ Len(BytesOf(s)) \in Nat /\ Len(EncodedBytes(s, k + 1)) <= Len(BytesOf(s))
      /\ \A i \in 1..Len(EncodedBytes(s, k + 1)) : BytesOf(s)[i] = EncodedBytes(s, k + 1)[i]
  BY <1>1, Beginnings
<1>4. \A i \in 1..n : a + i \in 1..(a + n)
  BY <1>2
<1>. QED
  BY <1>2, <1>3, <1>4

\* What the place says of the next byte.
LEMMA PlaceIs ==
    ASSUME NEW s, WellFormed(s), NEW k, NEW j, NEW off, NEW r, Place(s, k, j, off, r)
    PROVE  /\ k \in 0..Len(s) /\ j \in Nat /\ off \in Nat /\ r \in Readers /\ Len(BytesOf(s)) \in Nat
           /\ Len(s) \in Nat /\ k \in Nat
           /\ k = Len(s) => off = Len(BytesOf(s))
<1>1. Len(s) \in Nat /\ k \in 0..Len(s) /\ k \in Nat /\ j \in Nat /\ off = Len(EncodedBytes(s, k)) + j
      /\ r = EncodedReader(s, k) /\ (j = 0 \/ k < Len(s))
  BY WellFormedIs DEF Place
<1>2. r \in Readers
  BY <1>1, EncodedTypes
<1>3. Len(EncodedBytes(s, k)) \in Nat /\ Len(BytesOf(s)) \in Nat
  BY <1>1, Beginnings
<1>4. k = Len(s) => off = Len(BytesOf(s))
  <2>1. SUFFICES ASSUME k = Len(s)
                 PROVE  off = Len(BytesOf(s))
    OBVIOUS
  <2>2. j = 0
    BY <1>1, <2>1
  <2>3. EncodedBytes(s, k) = BytesOf(s)
    BY <2>1 DEF EncodedBytes, BytesOf
  <2>. QED
    BY <1>1, <1>3, <2>2, <2>3
<1>. QED
  BY <1>1, <1>2, <1>3, <1>4

LEMMA ByteAt ==
    ASSUME NEW s, WellFormed(s), NEW k, NEW j, NEW off, NEW r, Place(s, k, j, off, r), off < Len(BytesOf(s))
    PROVE  /\ k \in 0..(Len(s) - 1) /\ s[k + 1] \in Packets /\ (s[k + 1].kind = "zeros" => s[k + 1].value > 0)
           /\ s[k + 1].kind = "zeros" => BytesOf(s)[off + 1] = Packet("zeros", 1)
           /\ s[k + 1].kind # "zeros" => j = 0 /\ BytesOf(s)[off + 1] = s[k + 1]
<1>1. /\ k \in 0..Len(s) /\ j \in Nat /\ off \in Nat /\ r \in Readers /\ Len(BytesOf(s)) \in Nat
      /\ Len(s) \in Nat /\ k \in Nat /\ k # Len(s)
  BY PlaceIs
<1>2. k \in 0..(Len(s) - 1) /\ k + 1 \in 1..Len(s)
  BY <1>1
<1>3. s[k + 1] \in Packets /\ (s[k + 1].kind = "zeros" => s[k + 1].value > 0)
  BY <1>2, WellFormedIs
<1>. DEFINE p == s[k + 1]  a == Len(EncodedBytes(s, k))  n == LengthOf(p, r)
<1>4. /\ off = a + j /\ r = EncodedReader(s, k) /\ (j = 0 \/ (p.kind = "zeros" /\ j < p.value))
  BY DEF Place
<1>5. /\ a \in Nat /\ n \in Nat \ {0}
      /\ \A i \in 1..n : BytesOf(s)[a + i] = PacketBytes(p, r)[i]
  <2>. DEFINE e == EncodedReader(s, k)  m == LengthOf(s[k + 1], e)
  <2>1. /\ a \in Nat /\ m \in Nat \ {0}
        /\ \A i \in 1..m : BytesOf(s)[a + i] = PacketBytes(s[k + 1], e)[i]
    BY ONLY WellFormed(s), <1>2, PacketThere
  <2>2. e = r
    BY <1>4
  <2>. HIDE DEF e, a
  <2>. QED
    BY <2>1, <2>2
<1>6. /\ p.kind = "zeros" => n = p.value /\ \A i \in 1..n : PacketBytes(p, r)[i] = Packet("zeros", 1)
      /\ p.kind # "zeros" => PacketBytes(p, r)[1] = p
  BY <1>1, <1>3, PacketBytesAre, PacketIs
<1>. HIDE DEF p, a, n
<1>7. CASE p.kind = "zeros"
  <2>1. j + 1 \in 1..n /\ a + (j + 1) = off + 1
    BY <1>1, <1>3, <1>4, <1>5, <1>6, <1>7, SMTT(60) DEF p
  <2>. QED
    BY <1>2, <1>3, <1>5, <1>6, <1>7, <2>1 DEF p
<1>8. CASE p.kind # "zeros"
  <2>1. j = 0 /\ 1 \in 1..n /\ a + 1 = off + 1
    BY <1>1, <1>4, <1>5, <1>8
  <2>. QED
    BY <1>2, <1>3, <1>5, <1>6, <1>8, <2>1 DEF p
<1>. QED
  BY <1>7, <1>8

\* A packet is read.
LEMMA PacketOver ==
    ASSUME NEW s, WellFormed(s), NEW k, NEW j, NEW off, NEW r, Place(s, k, j, off, r), off < Len(BytesOf(s)),
           s[k + 1].kind # "zeros", NEW n, n = LengthOf(s[k + 1], r)
    PROVE  /\ n \in Nat \ {0} /\ off + n <= Len(BytesOf(s))
           /\ Place(s, k + 1, 0, off + n, AfterPacket(r, s[k + 1]))
<1>1. /\ k \in 0..(Len(s) - 1) /\ j = 0 /\ Len(s) \in Nat
  BY ByteAt, PlaceIs
<1>2. off = Len(EncodedBytes(s, k)) + j /\ r = EncodedReader(s, k)
  BY DEF Place
<1>3. /\ Len(EncodedBytes(s, k)) \in Nat /\ n \in Nat \ {0} /\ Len(BytesOf(s)) \in Nat
      /\ Len(EncodedBytes(s, k)) + n <= Len(BytesOf(s))
      /\ Len(EncodedBytes(s, k + 1)) = Len(EncodedBytes(s, k)) + n
  BY <1>1, <1>2, PacketThere
<1>4. EncodedReader(s, k + 1) = AfterPacket(r, s[k + 1])
  BY <1>1, <1>2, PacketAdded
<1>5. off = Len(EncodedBytes(s, k)) /\ off + n = Len(EncodedBytes(s, k + 1)) + 0 /\ k + 1 \in 0..Len(s) /\ 0 \in Nat
  BY <1>1, <1>2, <1>3
<1>. QED
  BY <1>3, <1>4, <1>5 DEF Place

\* A zero is read.
LEMMA ZeroOver ==
    ASSUME NEW s, WellFormed(s), NEW k, NEW j, NEW off, NEW r, Place(s, k, j, off, r), off < Len(BytesOf(s)),
           s[k + 1].kind = "zeros"
    PROVE  /\ off + 1 <= Len(BytesOf(s))
           /\ \/ j + 1 < s[k + 1].value /\ Place(s, k, j + 1, off + 1, r)
              \/ j + 1 = s[k + 1].value /\ Place(s, k + 1, 0, off + 1, r)
<1>1. /\ k \in 0..Len(s) /\ k < Len(s) /\ j \in Nat /\ Len(s) \in Nat /\ k \in Nat /\ off \in Nat
      /\ Len(BytesOf(s)) \in Nat /\ r \in Readers /\ k \in 0..(Len(s) - 1)
      /\ s[k + 1] \in Packets /\ s[k + 1].value > 0
  <2>1. /\ k \in 0..(Len(s) - 1) /\ Len(s) \in Nat
        /\ s[k + 1] \in Packets /\ s[k + 1].value > 0
    BY ByteAt, PlaceIs
  <2>2. /\ k \in 0..Len(s) /\ j \in Nat /\ k \in Nat /\ off \in Nat /\ Len(BytesOf(s)) \in Nat /\ r \in Readers
    BY PlaceIs
  <2>. QED
    BY <2>1, <2>2
<1>2. off = Len(EncodedBytes(s, k)) + j /\ r = EncodedReader(s, k) /\ (j = 0 \/ j < s[k + 1].value)
  BY DEF Place
<1>3. s[k + 1].value \in Nat
  BY <1>1 DEF Packets
<1>4. j < s[k + 1].value
  BY <1>1, <1>2, <1>3
<1>5. LengthOf(s[k + 1], r) = s[k + 1].value /\ AfterPacket(r, s[k + 1]) = r
  BY <1>1, PacketIs
<1>6. /\ Len(EncodedBytes(s, k)) \in Nat
      /\ Len(EncodedBytes(s, k + 1)) = Len(EncodedBytes(s, k)) + s[k + 1].value
  <2>1. /\ Len(EncodedBytes(s, k)) \in Nat
        /\ Len(EncodedBytes(s, k + 1)) = Len(EncodedBytes(s, k)) + LengthOf(s[k + 1], EncodedReader(s, k))
    BY ONLY WellFormed(s), <1>1, PacketThere
  <2>. QED
    BY <1>2, <1>5, <2>1
<1>7. EncodedReader(s, k + 1) = r
  BY <1>1, <1>2, <1>5, PacketAdded
<1>8. CASE j + 1 < s[k + 1].value
  <2>1. off + 1 = Len(EncodedBytes(s, k)) + (j + 1) /\ j + 1 \in Nat
    BY <1>1, <1>2, <1>6
  <2>2. Place(s, k, j + 1, off + 1, r)
    BY <1>1, <1>2, <1>8, <2>1 DEF Place
  <2>. QED
    BY <1>1, <1>8, <2>2
<1>9. CASE ~(j + 1 < s[k + 1].value)
  <2>1. j + 1 = s[k + 1].value
    BY <1>1, <1>3, <1>4, <1>9
  <2>2. off + 1 = Len(EncodedBytes(s, k + 1)) + 0 /\ k + 1 \in 0..Len(s) /\ 0 \in Nat
    BY <1>1, <1>2, <1>6, <2>1
  <2>3. Place(s, k + 1, 0, off + 1, r)
    BY <1>7, <2>2 DEF Place
  <2>. QED
    BY <1>1, <2>1, <2>3
<1>. QED
  BY <1>8, <1>9

\* Only a configuration that has not been replaced lets the reader expect
\* extensions.
LEMMA ConfiguredIs ==
    ASSUME NEW s, WellFormed(s), NEW k \in 0..Len(s), EncodedReader(s, k).b # 0
    PROVE  Configured(s, k + 1)
<1>. DEFINE C(n) == \E m \in 1..n : /\ s[m].kind = "bconfig" /\ s[m].value # 0
                                    /\ \A i \in (m + 1)..n : s[i].kind # "bconfig"
            S == {n \in Nat : n <= Len(s) /\ EncodedReader(s, n).b # 0 => C(n)}
<1>1. Len(s) \in Nat /\ k \in Nat /\ k + 1 - 1 = k
  BY WellFormedIs
<1>2. 0 \in S
  <2>1. EncodedReader(s, 0) = NewReader
    BY <1>1, EncodedNext
  <2>. QED
    BY <2>1 DEF NewReader
<1>3. ASSUME NEW n \in Nat, n \in S
      PROVE  n + 1 \in S
  <2>. SUFFICES ASSUME n + 1 <= Len(s), EncodedReader(s, n + 1).b # 0
                PROVE  C(n + 1)
    OBVIOUS
  <2>1. n \in 0..(Len(s) - 1) /\ n \in 0..Len(s) /\ n + 1 \in 1..Len(s) /\ n <= Len(s)
    BY <1>1
  <2>. DEFINE p == s[n + 1]  r == EncodedReader(s, n)
  <2>2. EncodedReader(s, n + 1) = AfterPacket(r, p) /\ r \in Readers /\ p \in Packets
    BY <1>1, <2>1, EncodedNext, EncodedTypes, WellFormedIs
  <2>3. CASE p.kind = "bconfig"
    <3>1. AfterPacket(r, p).b = p.value
      BY <2>2, <2>3 DEF AfterPacket, Readers
    <3>2. p.value # 0
      BY <2>2, <3>1
    <3>. HIDE DEF p
    <3>3. n + 1 \in 1..(n + 1) /\ \A i \in (n + 1 + 1)..(n + 1) : FALSE
      OBVIOUS
    <3>. QED
      BY <2>3, <3>2, <3>3 DEF p
  <2>4. CASE p.kind # "bconfig"
    <3>1. AfterPacket(r, p).b = r.b
      BY <2>2, <2>4 DEF AfterPacket, Readers
    <3>2. C(n)
      BY <1>3, <2>1, <2>2, <3>1
    <3>3. PICK m \in 1..n : /\ s[m].kind = "bconfig" /\ s[m].value # 0
                            /\ \A i \in (m + 1)..n : s[i].kind # "bconfig"
      BY <3>2
    <3>4. \A i \in (m + 1)..(n + 1) : s[i].kind # "bconfig"
      <4>1. \A i \in (m + 1)..(n + 1) : i \in (m + 1)..n \/ i = n + 1
        OBVIOUS
      <4>. QED
        BY <2>4, <3>3, <4>1
    <3>. QED
      BY <3>3, <3>4
  <2>. QED
    BY <2>3, <2>4
<1>. HIDE DEF S
<1>4. k \in S
  BY <1>1, <1>2, <1>3, SetInduction
<1>5. C(k)
  BY <1>1, <1>4 DEF S
<1>. QED
  BY <1>1, <1>5 DEF Configured

-----------------------------------------------------------------------------
(* The records of a packet.                                                  *)
Shape(q, p, r) ==
    \/ q = <<>>
    \/ \E x : /\ q = <<x>> /\ p.kind # "end"
              /\ p.kind = "zeros" => x = [record |-> "LFILEMPTY", value |-> p.value]
              /\ p.kind # "zeros" => x.record # "LFILEMPTY"
              /\ x.record = "B" => p.kind = "position" /\ r.b # 0
              /\ p.kind # "bext"
    \/ \E x, z : /\ q = <<x, z>> /\ p.kind \notin {"end", "zeros"}
                 /\ x.record # "LFILEMPTY" /\ z.record # "LFILEMPTY"
                 /\ x.record = "B" => z.record \in {"ext", "eol"}
                 /\ z.record = "B" => p.kind = "position" /\ r.b # 0
                 /\ p.kind = "bext" => x.record = "ext"
    \/ \E x, z, w : /\ q = <<x, z, w>> /\ p.kind = "position"
                    /\ x.record = "E" /\ z.record = "B" /\ w.record = "eol"

LEMMA ShortOnes ==
    /\ \A a : <<>> \o <<a>> = <<a>> /\ <<a>> \o <<>> = <<a>>
    /\ \A a, b : <<a>> \o <<b>> = <<a, b>> /\ <<a, b>> \o <<>> = <<a, b>>
    /\ \A a, b, c : <<a, b>> \o <<c>> = <<a, b, c>>
<1>1. ASSUME NEW a
      PROVE  <<>> \o <<a>> = <<a>> /\ <<a>> \o <<>> = <<a>>
  BY NoneMore, OneOrTwo
<1>2. ASSUME NEW a, NEW b
      PROVE  <<a>> \o <<b>> = <<a, b>> /\ <<a, b>> \o <<>> = <<a, b>>
  <2>. DEFINE S == {a, b}
  <2>1. <<a>> \in Seq(S) /\ <<b>> \in Seq(S) /\ <<a, b>> \in Seq(S)
    OBVIOUS
  <2>2. /\ <<a>> \o <<b>> \in Seq(S) /\ Len(<<a>> \o <<b>>) = 2
        /\ (<<a>> \o <<b>>)[1] = a /\ (<<a>> \o <<b>>)[2] = b
    <3>1. /\ <<a>> \o <<b>> \in Seq(S) /\ Len(<<a>> \o <<b>>) = Len(<<a>>) + Len(<<b>>)
          /\ \A i \in 1..(Len(<<a>>) + Len(<<b>>)) :
               (<<a>> \o <<b>>)[i] = IF i <= Len(<<a>>) THEN <<a>>[i] ELSE <<b>>[i - Len(<<a>>)]
      BY <2>1, ConcatProperties
    <3>2. Len(<<a>>) = 1 /\ Len(<<b>>) = 1 /\ <<a>>[1] = a /\ <<b>>[1] = b
      OBVIOUS
    <3>. QED
      BY <3>1, <3>2
  <2>3. Len(<<a, b>>) = 2 /\ <<a, b>>[1] = a /\ <<a, b>>[2] = b
    OBVIOUS
  <2>. DEFINE q == <<a>> \o <<b>>  t == <<a, b>>
  <2>4. q \in Seq(S) /\ t \in Seq(S) /\ Len(q) = 2 /\ Len(t) = 2 /\ q[1] = t[1] /\ q[2] = t[2]
    BY <2>1, <2>2, <2>3
  <2>5. q = t
    <3>. HIDE DEF q, t
    <3>. QED
      BY <2>4, SeqEqual
  <2>6. <<a>> \o <<b>> = <<a, b>>
    BY <2>5
  <2>. QED
    BY <2>6, NoneMore, OneOrTwo
<1>3. ASSUME NEW a, NEW b, NEW c
      PROVE  <<a, b>> \o <<c>> = <<a, b, c>>
  <2>. DEFINE S == {a, b, c}  q == <<a, b>> \o <<c>>
  <2>1. <<a, b>> \in Seq(S) /\ <<c>> \in Seq(S) /\ <<a, b, c>> \in Seq(S)
    OBVIOUS
  <2>2. q \in Seq(S) /\ Len(q) = 3 /\ q[1] = a /\ q[2] = b /\ q[3] = c
    <3>1. /\ q \in Seq(S) /\ Len(q) = Len(<<a, b>>) + Len(<<c>>)
          /\ \A i \in 1..(Len(<<a, b>>) + Len(<<c>>)) :
               q[i] = IF i <= Len(<<a, b>>) THEN <<a, b>>[i] ELSE <<c>>[i - Len(<<a, b>>)]
      BY <2>1, ConcatProperties
    <3>2. Len(<<a, b>>) = 2 /\ Len(<<c>>) = 1 /\ <<a, b>>[1] = a /\ <<a, b>>[2] = b /\ <<c>>[1] = c
      OBVIOUS
    <3>. HIDE DEF q
    <3>. QED
      BY <3>1, <3>2
  <2>. HIDE DEF q
  <2>3. Len(<<a, b, c>>) = 3
    OBVIOUS
  <2>4. q = <<a, b, c>>
    BY <2>1, <2>2, <2>3, SeqEqual
  <2>. QED
    BY <2>4 DEF q
<1>. QED
  BY <1>1, <1>2, <1>3

LEMMA Outputs ==
    ASSUME NEW c, NEW r, NEW p, NEW y, y = Convert(c, r, p)
    PROVE  /\ Shape(y.out, p, r)
           /\ p.kind = "zeros" => /\ y.conv = c /\ y.good
                                  /\ y.out = <<[record |-> "LFILEMPTY", value |-> p.value]>>
           /\ p.kind = "end" => y.conv = c /\ y.good /\ y.out = <<>>
           /\ p.kind = "bext" => y.out = <<>> \/ (\E x, z : y.out = <<x, z>>)
<1>1. CASE p.kind = "zeros"
  <2>. DEFINE x == [record |-> "LFILEMPTY", value |-> p.value]
  <2>1. y.out = <<x>> /\ y.conv = c /\ y.good
    BY <1>1 DEF Convert, Record
  <2>. QED
    BY <1>1, <2>1 DEF Shape
<1>2. CASE p.kind = "end"
  <2>1. y.out = <<>> /\ y.conv = c /\ y.good
    BY <1>2 DEF Convert
  <2>. QED
    BY <1>2, <2>1 DEF Shape
<1>3. CASE p.kind \notin {"zeros", "end"} /\ p.value = 99
  <2>1. y.out = <<>>
    BY <1>3 DEF Convert
  <2>. QED
    BY <1>3, <2>1 DEF Shape
<1>4. CASE p.kind \in {"start", "date", "event"} /\ p.value # 99
  <2>1. y.out = <<>>
    BY <1>4 DEF Convert
  <2>. QED
    BY <1>4, <2>1 DEF Shape
<1>5. CASE p.kind \in {"origin", "task", "string", "kext", "info", "class", "bconfig", "kconfig"} /\ p.value # 99
  <2>1. y.out = <<>> \/ \E k, v : k \in {"LORIGIN", "C", "text", "K", "HFPLT", "I", "J"} /\ y.out = Record(k, v)
    <3>1. CASE p.kind = "origin"
      BY <1>5, <3>1 DEF Convert
    <3>2. CASE p.kind = "task"
      BY <1>5, <3>2 DEF Convert
    <3>3. CASE p.kind = "string"
      BY <1>5, <3>3 DEF Convert
    <3>4. CASE p.kind = "kext"
      BY <1>5, <3>4 DEF Convert
    <3>5. CASE p.kind = "info"
      BY <1>5, <3>5 DEF Convert
    <3>6. CASE p.kind = "class"
      BY <1>5, <3>6 DEF Convert
    <3>7. CASE p.kind = "bconfig"
      BY <1>5, <3>7 DEF Convert
    <3>8. CASE p.kind = "kconfig"
      BY <1>5, <3>8 DEF Convert
    <3>. QED
      BY <1>5, <3>1, <3>2, <3>3, <3>4, <3>5, <3>6, <3>7, <3>8
  <2>2. CASE y.out = <<>>
    BY <1>5, <2>2 DEF Shape
  <2>3. ASSUME NEW k \in {"LORIGIN", "C", "text", "K", "HFPLT", "I", "J"}, NEW v, y.out = Record(k, v)
        PROVE  Shape(y.out, p, r)
    <3>. DEFINE x == [record |-> k, value |-> v]
    <3>1. y.out = <<x>> /\ x.record \notin {"LFILEMPTY", "B"}
      BY <2>3 DEF Record
    <3>. HIDE DEF x
    <3>. QED
      BY <1>5, <3>1 DEF Shape
  <2>. QED
    BY <1>5, <2>1, <2>2, <2>3
<1>6. CASE p.kind = "serial" /\ p.value # 99
  <2>1. y.out = <<[record |-> "A", value |-> <<p.value, c.flight>>], [record |-> "HFDTE", value |-> c.date]>>
    BY <1>6, ShortOnes DEF Convert, Record
  <2>. QED
    BY <1>6, <2>1 DEF Shape
<1>7. CASE p.kind = "bext" /\ p.value # 99
  <2>1. y.out = <<[record |-> "ext", value |-> p.value], [record |-> "eol", value |-> 0]>>
    BY <1>7, ShortOnes DEF Convert, Record
  <2>. QED
    BY <1>7, <2>1 DEF Shape
<1>8. CASE p.kind = "position" /\ p.value # 99
  <2>. DEFINE e == [record |-> "E", value |-> <<c.origin + p.value, c.event>>]
              f == [record |-> "B", value |-> c.origin + p.value]
              g == [record |-> "eol", value |-> 0]
  <2>1. y.out = (IF c.event # 0 THEN <<e>> ELSE <<>>) \o <<f>> \o (IF r.b = 0 THEN <<g>> ELSE <<>>)
    BY <1>8 DEF Convert, Record
  <2>2. e.record = "E" /\ f.record = "B" /\ g.record = "eol"
    OBVIOUS
  <2>. HIDE DEF e, f, g
  <2>3. CASE r.b = 0
    <3>1. CASE c.event # 0
      <4>1. y.out = <<e>> \o <<f>> \o <<g>>
        BY <2>1, <2>3, <3>1
      <4>2. y.out = <<e, f, g>>
        <5>1. <<e>> \o <<f>> = <<e, f>> /\ <<e, f>> \o <<g>> = <<e, f, g>>
          BY ShortOnes
        <5>. QED
          BY <4>1, <5>1
      <4>. QED
        BY <1>8, <2>2, <4>2 DEF Shape
    <3>2. CASE c.event = 0
      <4>1. y.out = <<>> \o <<f>> \o <<g>>
        BY <2>1, <2>3, <3>2
      <4>2. y.out = <<f, g>>
        BY <4>1, ShortOnes
      <4>. QED
        BY <1>8, <2>2, <4>2 DEF Shape
    <3>. QED
      BY <3>1, <3>2
  <2>4. CASE r.b # 0
    <3>1. y.out = <<e, f>> \/ y.out = <<f>>
      BY <2>1, <2>4, ShortOnes, Zenon
    <3>. QED
      BY <1>8, <2>2, <2>4, <3>1 DEF Shape
  <2>. QED
    BY <2>3, <2>4
<1>9. CASE p.kind \notin {"zeros", "end", "start", "date", "event", "origin", "task", "string", "kext", "info",
                           "class", "bconfig", "kconfig", "serial", "bext", "position"} /\ p.value # 99
  BY <1>9, Zenon DEF Convert, Shape
<1>. QED
  BY <1>1, <1>2, <1>3, <1>4, <1>5, <1>6, <1>7, <1>8, <1>9

\* The runs of zeros are counted, and a B record is not cut off.
RunsCounted(q) == Queue(q) /\ \A x \in ToSet(q) : x.record = "LFILEMPTY" => x.value \in Nat

Lines(q) == \A i \in DOMAIN q : q[i].record = "B" /\ i < Len(q) => q[i + 1].record \in {"ext", "eol"}

LEMMA ShapeIs ==
    ASSUME NEW q, NEW p, NEW r, Shape(q, p, r), p.value \in Nat
    PROVE  /\ RunsCounted(q) /\ Lines(q)
           /\ q # <<>> => /\ Len(q) \in Nat \ {0}
                          /\ q[Len(q)].record = "B" => p.kind = "position" /\ r.b # 0
                          /\ p.kind = "bext" => q[1].record = "ext"
<1>1. CASE q = <<>>
  BY <1>1, OneOrTwo DEF RunsCounted, Queue, Lines
<1>2. ASSUME NEW x, q = <<x>> /\ p.kind # "end",
             p.kind = "zeros" => x = [record |-> "LFILEMPTY", value |-> p.value],
             p.kind # "zeros" => x.record # "LFILEMPTY",
             x.record = "B" => p.kind = "position" /\ r.b # 0, p.kind # "bext"
      PROVE  /\ RunsCounted(q) /\ Lines(q)
             /\ Len(q) \in Nat \ {0}
             /\ q[Len(q)].record = "B" => p.kind = "position" /\ r.b # 0
             /\ p.kind = "bext" => q[1].record = "ext"
  <2>1. Queue(q) /\ ToSet(q) = {x} /\ Len(q) = 1 /\ DOMAIN q = {1} /\ q[1] = x
    BY <1>2, OneOrTwo DEF Queue
  <2>2. x.record = "LFILEMPTY" => x.value \in Nat
    BY <1>2
  <2>. QED
    BY <1>2, <2>1, <2>2 DEF RunsCounted, Lines
<1>3. ASSUME NEW x, NEW z, q = <<x, z>>, x.record # "LFILEMPTY", z.record # "LFILEMPTY",
             x.record = "B" => z.record \in {"ext", "eol"}, z.record = "B" => p.kind = "position" /\ r.b # 0,
             p.kind = "bext" => x.record = "ext"
      PROVE  /\ RunsCounted(q) /\ Lines(q)
             /\ Len(q) \in Nat \ {0}
             /\ q[Len(q)].record = "B" => p.kind = "position" /\ r.b # 0
             /\ p.kind = "bext" => q[1].record = "ext"
  <2>1. Queue(q) /\ ToSet(q) = {x, z} /\ Len(q) = 2 /\ DOMAIN q = {1, 2} /\ q[1] = x /\ q[2] = z
    BY <1>3, OneOrTwo DEF Queue
  <2>. QED
    BY <1>3, <2>1 DEF RunsCounted, Lines
<1>4. ASSUME NEW x, NEW z, NEW w, q = <<x, z, w>>, p.kind = "position",
             x.record = "E", z.record = "B", w.record = "eol"
      PROVE  /\ RunsCounted(q) /\ Lines(q)
             /\ Len(q) \in Nat \ {0}
             /\ q[Len(q)].record = "B" => p.kind = "position" /\ r.b # 0
             /\ p.kind = "bext" => q[1].record = "ext"
  <2>1. Len(q) = 3 /\ DOMAIN q = {1, 2, 3} /\ q[1] = x /\ q[2] = z /\ q[3] = w
    BY <1>4
  <2>2. ToSet(q) = {x, z, w}
    BY <2>1 DEF ToSet
  <2>3. q \in Seq({x, z, w})
    BY <1>4
  <2>. QED
    BY <1>4, <2>1, <2>2, <2>3 DEF RunsCounted, Lines, Queue
<1>. QED
  BY <1>1, <1>2, <1>3, <1>4 DEF Shape

\* What is counted stays so when more is put behind it.
LEMMA CountedTogether ==
    ASSUME NEW a, RunsCounted(a), NEW q, RunsCounted(q)
    PROVE  RunsCounted(a \o q)
BY Joined DEF RunsCounted, Queue

\* The last record.
Open(q) == q # <<>> /\ q[Len(q)].record = "B"

LEMMA LinesTogether ==
    ASSUME NEW a, Queue(a), Lines(a), NEW q, Queue(q), Lines(q),
           Open(a) /\ q # <<>> => q[1].record \in {"ext", "eol"}
    PROVE  Lines(a \o q) /\ (Open(a \o q) => Open(q) \/ (q = <<>> /\ Open(a)))
<1>. DEFINE t == a \o q
<1>1. /\ Len(t) = Len(a) + Len(q) /\ Len(a) \in Nat /\ Len(q) \in Nat
      /\ DOMAIN a = 1..Len(a) /\ DOMAIN q = 1..Len(q) /\ DOMAIN t = 1..Len(t)
      /\ \A i \in DOMAIN a : t[i] = a[i]
      /\ \A i \in DOMAIN t : i \in DOMAIN a \/ (i - Len(a) \in DOMAIN q /\ t[i] = q[i - Len(a)])
  BY Joined DEF Queue
<1>2. (Len(q) = 0 <=> q = <<>>) /\ (Len(a) = 0 <=> a = <<>>) /\ a \o <<>> = a
  BY NoneMore DEF Queue
<1>. HIDE DEF t
<1>3. ASSUME NEW i \in DOMAIN t, t[i].record = "B", i < Len(t)
      PROVE  t[i + 1].record \in {"ext", "eol"}
  <2>1. i + 1 \in DOMAIN t
    BY <1>1, <1>3
  <2>2. CASE i \in DOMAIN a /\ i + 1 \in DOMAIN a
    <3>1. a[i].record = "B" /\ i < Len(a) /\ t[i + 1] = a[i + 1]
      BY <1>1, <1>3, <2>2
    <3>. QED
      BY <2>2, <3>1 DEF Lines
  <2>3. CASE i \in DOMAIN a /\ i + 1 \notin DOMAIN a
    <3>1. i = Len(a) /\ i + 1 - Len(a) = 1 /\ Len(a) # 0
      BY <1>1, <2>3
    <3>2. t[i + 1] = q[1] /\ 1 \in DOMAIN q
      BY <1>1, <2>1, <2>3, <3>1
    <3>3. q # <<>>
      BY <1>1, <1>2, <3>2
    <3>4. Open(a)
      BY <1>1, <1>2, <1>3, <2>3, <3>1 DEF Open
    <3>. QED
      BY <3>2, <3>3, <3>4
  <2>4. CASE i \notin DOMAIN a
    <3>1. i - Len(a) \in DOMAIN q /\ t[i] = q[i - Len(a)] /\ i + 1 \notin DOMAIN a
      BY <1>1, <2>4
    <3>2. i + 1 - Len(a) \in DOMAIN q /\ t[i + 1] = q[i + 1 - Len(a)]
      BY <1>1, <2>1, <3>1
    <3>. DEFINE m == i - Len(a)
    <3>3. i + 1 - Len(a) = m + 1 /\ m < Len(q)
      BY <1>1, <1>3, <3>1
    <3>. HIDE DEF m
    <3>4. m \in DOMAIN q /\ q[m].record = "B" /\ t[i + 1] = q[m + 1]
      BY <1>3, <3>1, <3>2, <3>3 DEF m
    <3>. QED
      BY <3>3, <3>4 DEF Lines
  <2>. QED
    BY <2>2, <2>3, <2>4
<1>4. Lines(t)
  BY <1>3 DEF Lines
<1>5. ASSUME Open(t)
      PROVE  Open(q) \/ (q = <<>> /\ Open(a))
  <2>1. CASE q = <<>>
    BY <1>2, <1>5, <2>1 DEF t
  <2>2. CASE q # <<>>
    <3>1. Len(t) \in DOMAIN t /\ Len(t) \notin DOMAIN a /\ Len(t) - Len(a) = Len(q)
      BY <1>1, <1>2, <2>2
    <3>2. t[Len(t)] = q[Len(q)]
      BY <1>1, <3>1
    <3>. QED
      BY <1>5, <2>2, <3>2 DEF Open
  <2>. QED
    BY <2>1, <2>2
<1>. QED
  BY <1>4, <1>5 DEF t

-----------------------------------------------------------------------------
(* The records with their runs joined.                                       *)
Empties(n) == [record |-> "LFILEMPTY", value |-> n]
ZerosRead(n) == IF n = 0 THEN <<>> ELSE <<Empties(n)>>

LEMMA PutBehind ==
    ASSUME NEW f, Queue(f), NEW x, NEW u, u = Append(f, x)
    PROVE  /\ u = f \o <<x>> /\ Queue(u) /\ ToSet(u) = ToSet(f) \cup {x} /\ u # <<>>
           /\ Last(u) = x /\ Front(u) = f
<1>1. Len(f) \in Nat /\ Queue(u) /\ ToSet(u) = ToSet(f) \cup {x}
  BY OneMore, LenProperties DEF Queue
<1>. DEFINE S == ToSet(u)
<1>2. f \in Seq(S) /\ x \in S /\ u \in Seq(S)
  <2>1. ToSet(f) \subseteq S /\ x \in S
    BY <1>1
  <2>. QED
    BY <1>1, <2>1, SeqMonotonic DEF Queue
<1>3. /\ u = f \o <<x>> /\ Len(u) = Len(f) + 1 /\ u[Len(f) + 1] = x
      /\ \A i \in 1..Len(f) : u[i] = f[i]
  BY <1>2, AppendProperties, AppendIsConcat
<1>4. Last(u) = x /\ u # <<>>
  BY <1>1, <1>3, EmptySeq DEF Last
<1>5. Front(u) = f
  <2>. DEFINE g == SubSeq(u, 1, Len(f))
  <2>1. Len(u) - 1 = Len(f)
    BY <1>1, <1>3
  <2>2. \A i \in 1..Len(f) : i \in 1..Len(u)
    BY <1>1, <1>3
  <2>3. g = [i \in 1..Len(f) |-> u[i]]
    <3>1. Len(f) - 1 + 1 = Len(f) /\ \A i \in 1..Len(f) : 1 + i - 1 = i
      BY <1>1
    <3>. QED
      BY <1>1, <3>1 DEF SubSeq
  <2>4. f = [i \in 1..Len(f) |-> f[i]]
    BY <1>2, LenProperties
  <2>5. g = f
    BY <1>3, <2>3, <2>4
  <2>. QED
    BY <2>1, <2>5 DEF Front
<1>. QED
  BY <1>1, <1>3, <1>4, <1>5

LEMMA FrontIs ==
    ASSUME NEW R, NEW t \in Seq(R), t # <<>>
    PROVE  Front(t) \in Seq(R) /\ Last(t) \in R
<1>1. Len(t) \in Nat /\ Len(t) # 0
  BY LenProperties, EmptySeq
<1>2. Len(t) \in 1..Len(t) /\ 1..(Len(t) - 1) \subseteq 1..Len(t)
  BY <1>1
<1>3. \A i \in 1..(Len(t) - 1) : t[i] \in R
  BY <1>2, ElementOfSeq
<1>4. SubSeq(t, 1, Len(t) - 1) \in Seq(R)
  BY <1>1, <1>3, SubSeqProperties
<1>. QED
  BY <1>2, <1>4, ElementOfSeq DEF Front, Last

LEMMA JoinedCounted ==
    ASSUME NEW a, RunsCounted(a)
    PROVE  RunsCounted(RunsJoined(a))
<1>. DEFINE R == ToSet(a) \cup [record : {"LFILEMPTY"}, value : Nat]
<1>1. \A x \in R : x.record = "LFILEMPTY" => x.value \in Nat
  BY DEF RunsCounted
<1>2. \A n \in Nat : Record("LFILEMPTY", n) \in Seq(R)
  <2>1. ASSUME NEW n \in Nat
        PROVE  Record("LFILEMPTY", n) \in Seq(R)
    <3>. DEFINE x == Empties(n)
    <3>1. x \in R
      BY DEF Empties
    <3>2. Record("LFILEMPTY", n) = <<x>>
      BY DEF Empties, Record
    <3>. HIDE DEF x, R
    <3>3. <<x>> \in Seq(R)
      BY <3>1
    <3>. QED
      BY <3>2, <3>3
  <2>. QED
    BY <2>1
<1>3. Len(a) \in Nat /\ \A i \in 1..Len(a) : a[i] \in R
  <2>1. Len(a) \in Nat /\ \A i \in 1..Len(a) : a[i] \in ToSet(a)
    BY LenProperties, ElementOfSeq DEF RunsCounted, Queue
  <2>. QED
    BY <2>1
<1>. HIDE DEF R
<1>4. ASSUME NEW t \in Seq(R), NEW x \in R
      PROVE  WithRun(t, x) \in Seq(R)
  <2>1. CASE t # <<>> /\ x.record = "LFILEMPTY" /\ Last(t).record = "LFILEMPTY"
    <3>1. Front(t) \in Seq(R) /\ Last(t) \in R
      BY <2>1, FrontIs
    <3>2. Last(t).value + x.value \in Nat
      BY <1>1, <2>1, <3>1
    <3>3. Record("LFILEMPTY", Last(t).value + x.value) \in Seq(R)
      BY <1>2, <3>2
    <3>4. WithRun(t, x) = Front(t) \o Record("LFILEMPTY", Last(t).value + x.value)
      BY <2>1 DEF WithRun
    <3>. HIDE DEF WithRun
    <3>. QED
      BY <3>1, <3>3, <3>4, ConcatProperties
  <2>2. CASE ~(t # <<>> /\ x.record = "LFILEMPTY" /\ Last(t).record = "LFILEMPTY")
    <3>1. WithRun(t, x) = Append(t, x)
      BY <2>2 DEF WithRun
    <3>. QED
      BY <3>1, AppendProperties
  <2>. QED
    BY <2>1, <2>2
<1>5. PICK f : Joins(a, f) /\ RunsJoined(a) = f[Len(a)]
  BY <1>3, JoinedIs
<1>. DEFINE S == {n \in Nat : n <= Len(a) => f[n] \in Seq(R)}
<1>6. 0 \in S
  BY <1>5, EmptySeq DEF Joins
<1>7. ASSUME NEW n \in Nat, n \in S
      PROVE  n + 1 \in S
  <2>. SUFFICES ASSUME n + 1 <= Len(a)
                PROVE  f[n + 1] \in Seq(R)
    OBVIOUS
  <2>1. n + 1 \in 1..Len(a) /\ n + 1 - 1 = n /\ f[n] \in Seq(R)
    BY <1>3, <1>7
  <2>2. f[n + 1] = WithRun(f[n], a[n + 1])
    BY <1>5, <2>1 DEF Joins
  <2>. QED
    BY <1>3, <1>4, <2>1, <2>2
<1>. HIDE DEF S
<1>8. Len(a) \in S
  BY <1>3, <1>6, <1>7, SetInduction
<1>9. RunsJoined(a) \in Seq(R)
  BY <1>3, <1>5, <1>8 DEF S
<1>10. RunsJoined(a) \in Seq(ToSet(RunsJoined(a))) /\ ToSet(RunsJoined(a)) \subseteq R
  BY <1>9, Members
<1>. QED
  BY <1>1, <1>10 DEF RunsCounted, Queue

\* A zero more in a run adds one to the last record.
LEMMA MoreZeros ==
    ASSUME NEW a, RunsCounted(a), NEW m \in Nat
    PROVE  RunsJoined(a \o ZerosRead(m + 1)) = WithRun(RunsJoined(a \o ZerosRead(m)), Empties(1))
<1>. DEFINE t == RunsJoined(a)
<1>1. RunsCounted(t) /\ Queue(t) /\ Queue(a)
  BY JoinedCounted DEF RunsCounted
<1>2. \A x : a \o <<x>> = Append(a, x) /\ RunsJoined(Append(a, x)) = WithRun(t, x)
  BY <1>1, PutBehind, OneRecord
<1>. HIDE DEF t
<1>3. RunsJoined(a \o ZerosRead(m + 1)) = WithRun(t, Empties(m + 1))
  <2>1. ZerosRead(m + 1) = <<Empties(m + 1)>>
    BY DEF ZerosRead
  <2>. QED
    BY <1>2, <2>1
<1>4. CASE m = 0
  <2>1. a \o ZerosRead(m) = a
    BY <1>1, <1>4, NoneMore DEF ZerosRead, Queue
  <2>2. m + 1 = 1
    BY <1>4
  <2>. QED
    BY <1>3, <2>1, <2>2 DEF t
<1>5. CASE m # 0
  <2>. DEFINE u == WithRun(t, Empties(m))
  <2>1. RunsJoined(a \o ZerosRead(m)) = u
    <3>1. ZerosRead(m) = <<Empties(m)>>
      BY <1>5 DEF ZerosRead
    <3>. QED
      BY <1>2, <3>1
  <2>2. /\ Empties(1).record = "LFILEMPTY" /\ Empties(1).value = 1
        /\ Empties(m).record = "LFILEMPTY" /\ Empties(m).value = m
        /\ Empties(m + 1).record = "LFILEMPTY" /\ Empties(m + 1).value = m + 1
        /\ \A n : Record("LFILEMPTY", n) = <<Empties(n)>>
        /\ \A n : Empties(n).record = "LFILEMPTY" /\ Empties(n).value = n
    BY DEF Empties, Record
  <2>3. CASE t # <<>> /\ Last(t).record = "LFILEMPTY"
    <3>. DEFINE f == Front(t)  v == Last(t).value
    <3>1. f \in Seq(ToSet(t)) /\ Last(t) \in ToSet(t)
      BY <1>1, <2>3, FrontIs DEF Queue
    <3>2. v \in Nat /\ v + m + 1 = v + (m + 1)
      BY <1>1, <2>3, <3>1 DEF RunsCounted
    <3>3. u = f \o <<Empties(v + m)>>
      BY <2>2, <2>3 DEF WithRun
    <3>4. WithRun(t, Empties(m + 1)) = f \o <<Empties(v + (m + 1))>>
      BY <2>2, <2>3 DEF WithRun
    <3>. HIDE DEF u, v, f
    <3>5. Queue(f)
      BY <3>1, Members DEF Queue
    <3>6. f \o <<Empties(v + m)>> = Append(f, Empties(v + m))
      BY <3>5, PutBehind
    <3>7. u # <<>> /\ Last(u) = Empties(v + m) /\ Front(u) = f
      BY <3>3, <3>5, <3>6, PutBehind
    <3>8. WithRun(u, Empties(1)) = f \o <<Empties(v + m + 1)>>
      BY <2>2, <3>7 DEF WithRun
    <3>. QED
      BY <1>3, <2>1, <3>2, <3>4, <3>8
  <2>4. CASE ~(t # <<>> /\ Last(t).record = "LFILEMPTY")
    <3>1. u = Append(t, Empties(m)) /\ WithRun(t, Empties(m + 1)) = Append(t, Empties(m + 1))
      BY <2>4 DEF WithRun
    <3>. HIDE DEF u
    <3>2. u # <<>> /\ Last(u) = Empties(m) /\ Front(u) = t
      BY <1>1, <3>1, PutBehind
    <3>3. WithRun(u, Empties(1)) = t \o <<Empties(m + 1)>>
      BY <2>2, <3>2 DEF WithRun
    <3>4. t \o <<Empties(m + 1)>> = Append(t, Empties(m + 1))
      BY <1>1, PutBehind
    <3>. QED
      BY <1>3, <2>1, <3>1, <3>3, <3>4
  <2>. QED
    BY <2>3, <2>4
<1>. QED
  BY <1>4, <1>5

\* What is put behind the same joined records joins them alike.
Alike(a, b) == Queue(a) /\ Queue(b) /\ RunsJoined(a) = RunsJoined(b)

LEMMA AlikeOne ==
    ASSUME NEW a, NEW b, Alike(a, b), NEW x
    PROVE  Alike(a \o <<x>>, b \o <<x>>)
<1>1. Queue(a) /\ Queue(b) /\ RunsJoined(a) = RunsJoined(b)
  BY DEF Alike
<1>2. a \o <<x>> = Append(a, x) /\ b \o <<x>> = Append(b, x) /\ Queue(Append(a, x)) /\ Queue(Append(b, x))
  BY <1>1, PutBehind
<1>3. RunsJoined(Append(a, x)) = RunsJoined(Append(b, x))
  BY <1>1, OneRecord
<1>. QED
  BY <1>2, <1>3 DEF Alike

LEMMA TwoBehind ==
    ASSUME NEW a, Queue(a), NEW x, NEW z
    PROVE  a \o <<x, z>> = (a \o <<x>>) \o <<z>>
<1>. DEFINE S == ToSet(a) \cup {x, z}
<1>1. a \in Seq(S)
  <2>1. ToSet(a) \subseteq S
    OBVIOUS
  <2>. QED
    BY <2>1, SeqMonotonic DEF Queue
<1>2. <<x>> \in Seq(S) /\ <<z>> \in Seq(S)
  <2>1. x \in S /\ z \in S
    OBVIOUS
  <2>. HIDE DEF S
  <2>. QED
    BY <2>1
<1>. HIDE DEF S
<1>3. <<x, z>> = <<x>> \o <<z>>
  BY ShortOnes
<1>4. (a \o <<x>>) \o <<z>> = a \o (<<x>> \o <<z>>)
  BY <1>1, <1>2, ConcatAssociative
<1>. QED
  BY <1>3, <1>4

LEMMA ThreeBehind ==
    ASSUME NEW a, Queue(a), NEW x, NEW z, NEW w
    PROVE  a \o <<x, z, w>> = (a \o <<x, z>>) \o <<w>>
<1>. DEFINE S == ToSet(a) \cup {x, z, w}
<1>1. a \in Seq(S)
  <2>1. ToSet(a) \subseteq S
    OBVIOUS
  <2>. QED
    BY <2>1, SeqMonotonic DEF Queue
<1>2. <<x, z>> \in Seq(S) /\ <<w>> \in Seq(S)
  <2>1. x \in S /\ z \in S /\ w \in S
    OBVIOUS
  <2>. HIDE DEF S
  <2>. QED
    BY <2>1
<1>. HIDE DEF S
<1>3. <<x, z, w>> = <<x, z>> \o <<w>>
  BY ShortOnes
<1>4. (a \o <<x, z>>) \o <<w>> = a \o (<<x, z>> \o <<w>>)
  BY <1>1, <1>2, ConcatAssociative
<1>. QED
  BY <1>3, <1>4

LEMMA AlikeMore ==
    ASSUME NEW a, NEW b, Alike(a, b), NEW q, NEW p, NEW r, Shape(q, p, r)
    PROVE  Alike(a \o q, b \o q)
<1>1. Queue(a) /\ Queue(b)
  BY DEF Alike
<1>2. CASE q = <<>>
  BY <1>1, <1>2, NoneMore DEF Queue
<1>3. ASSUME NEW x, q = <<x>>
      PROVE  Alike(a \o q, b \o q)
  BY <1>3, AlikeOne
<1>4. ASSUME NEW x, NEW z, q = <<x, z>>
      PROVE  Alike(a \o q, b \o q)
  <2>1. Alike((a \o <<x>>) \o <<z>>, (b \o <<x>>) \o <<z>>)
    <3>1. Alike(a \o <<x>>, b \o <<x>>)
      BY AlikeOne
    <3>. QED
      BY <3>1, AlikeOne
  <2>2. a \o q = (a \o <<x>>) \o <<z>>
    BY <1>1, <1>4, TwoBehind
  <2>3. b \o q = (b \o <<x>>) \o <<z>>
    BY <1>1, <1>4, TwoBehind
  <2>. QED
    BY <2>1, <2>2, <2>3
<1>5. ASSUME NEW x, NEW z, NEW w, q = <<x, z, w>>
      PROVE  Alike(a \o q, b \o q)
  <2>1. Alike((a \o <<x, z>>) \o <<w>>, (b \o <<x, z>>) \o <<w>>)
    <3>1. Alike((a \o <<x>>) \o <<z>>, (b \o <<x>>) \o <<z>>)
      <4>1. Alike(a \o <<x>>, b \o <<x>>)
        BY AlikeOne
      <4>. QED
        BY <4>1, AlikeOne
    <3>2. Alike(a \o <<x, z>>, b \o <<x, z>>)
      <4>1. a \o <<x, z>> = (a \o <<x>>) \o <<z>>
        BY <1>1, TwoBehind
      <4>2. b \o <<x, z>> = (b \o <<x>>) \o <<z>>
        BY <1>1, TwoBehind
      <4>. QED
        BY <3>1, <4>1, <4>2
    <3>. QED
      BY <3>2, AlikeOne
  <2>2. a \o q = (a \o <<x, z>>) \o <<w>>
    BY <1>1, <1>5, ThreeBehind, SMTT(60)
  <2>3. b \o q = (b \o <<x, z>>) \o <<w>>
    BY <1>1, <1>5, ThreeBehind, SMTT(60)
  <2>. QED
    BY <2>1, <2>2, <2>3
<1>. QED
  BY <1>2, <1>3, <1>4, <1>5 DEF Shape

\* The records q say what the conversion at once says of k packets and j zeros.
Told(s, k, j, c, q) ==
    /\ Converted(s)[k].reader = EncodedReader(s, k) /\ ~EncodedReader(s, k).end
    /\ c = Converted(s)[k].conv /\ RunsCounted(Converted(s)[k].records)
    /\ RunsCounted(q) /\ Alike(q, Converted(s)[k].records \o ZerosRead(j))

LEMMA ToldStart ==
    ASSUME NEW s, WellFormed(s)
    PROVE  Told(s, 0, 0, NewConverter, <<>>) /\ Place(s, 0, 0, 0, NewReader)
<1>1. Len(s) \in Nat /\ 0 \in 0..Len(s) /\ 0 \in Nat
  BY WellFormedIs
<1>2. Converted(s)[0] = AtOnce
  BY <1>1, ConvertedIs
<1>3. EncodedBytes(s, 0) = <<>> /\ EncodedReader(s, 0) = NewReader
  BY <1>1, EncodedNext
<1>4. RunsCounted(<<>>) /\ Queue(<<>>) /\ <<>> \o ZerosRead(0) = <<>> /\ Len(<<>>) = 0
  <2>1. Queue(<<>>) /\ ToSet(<<>>) = {} /\ Len(<<>>) = 0
    BY OneOrTwo DEF Queue
  <2>2. <<>> \o <<>> = <<>>
    BY <2>1, NoneMore DEF Queue
  <2>. QED
    BY <2>1, <2>2 DEF RunsCounted, ZerosRead
<1>5. Told(s, 0, 0, NewConverter, <<>>)
  BY <1>2, <1>3, <1>4 DEF Told, AtOnce, NewReader, Alike
<1>6. Place(s, 0, 0, 0, NewReader)
  BY <1>1, <1>3, <1>4 DEF Place
<1>. QED
  BY <1>5, <1>6

\* What the conversion at once does with one packet more.
LEMMA ConvertedNext ==
    ASSUME NEW s, WellFormed(s), NEW k \in 0..(Len(s) - 1), ~Converted(s)[k].reader.end
    PROVE  LET x == Converted(s)[k]
               r == AfterPacket(x.reader, s[k + 1])
               y == Convert(x.conv, r, s[k + 1])
           IN /\ Converted(s)[k + 1].reader = r /\ Converted(s)[k + 1].conv = y.conv
              /\ Converted(s)[k + 1].records = x.records \o y.out
<1>. DEFINE x == Converted(s)[k]
            r == AfterPacket(x.reader, s[k + 1])
            y == Convert(x.conv, r, s[k + 1])
<1>1. Len(s) \in Nat /\ k + 1 \in 1..Len(s) /\ k + 1 - 1 = k
  BY WellFormedIs
<1>2. Converted(s)[k + 1] = WithConverted(x, s[k + 1])
  BY <1>1, ConvertedIs
<1>3. WithConverted(x, s[k + 1]) = [reader |-> r, conv |-> y.conv, records |-> x.records \o y.out]
  BY DEF WithConverted
<1>. DEFINE v == Converted(s)[k + 1]
<1>4. v = [reader |-> r, conv |-> y.conv, records |-> x.records \o y.out]
  BY <1>2, <1>3
<1>5. v.reader = r /\ v.conv = y.conv /\ v.records = x.records \o y.out
  <2>. HIDE DEF v, x, r, y
  <2>. QED
    BY ONLY <1>4, Zenon
<1>. QED
  BY <1>5

LEMMA ToldPacket ==
    ASSUME NEW s, WellFormed(s), NEW k \in 0..(Len(s) - 1), NEW c, NEW q, Told(s, k, 0, c, q),
           s[k + 1].kind \notin {"zeros", "end"},
           NEW r, r = AfterPacket(EncodedReader(s, k), s[k + 1]), NEW y, y = Convert(c, r, s[k + 1])
    PROVE  Told(s, k + 1, 0, y.conv, q \o y.out)
<1>1. Len(s) \in Nat /\ k + 1 \in 1..Len(s) /\ k \in 0..Len(s)
  BY WellFormedIs
<1>. DEFINE x == Converted(s)[k]  p == s[k + 1]  w == Converted(s)[k + 1]
<1>2. x.reader = EncodedReader(s, k) /\ ~x.reader.end /\ c = x.conv /\ RunsCounted(x.records) /\ RunsCounted(q)
      /\ Alike(q, x.records \o ZerosRead(0))
  BY DEF Told
<1>3. p \in Packets /\ p.kind # "zeros" /\ p.value \in Nat /\ x.reader \in Readers
  BY <1>1, <1>2, WellFormedIs, EncodedTypes DEF Packets
<1>4. w.reader = r /\ w.conv = y.conv /\ w.records = x.records \o y.out
  <2>. DEFINE e == AfterPacket(x.reader, p)  f == Convert(x.conv, e, p)
  <2>1. w.reader = e /\ w.conv = f.conv /\ w.records = x.records \o f.out
    BY <1>2, ConvertedNext
  <2>2. e = r /\ f = y
    BY <1>2
  <2>. HIDE DEF e, f, w, x
  <2>. QED
    BY <2>1, <2>2
<1>5. EncodedReader(s, k + 1) = r
  BY PacketAdded
<1>6. Shape(y.out, p, r)
  BY Outputs
<1>7. ~r.end
  BY <1>2, <1>3, PacketIs
<1>. HIDE DEF x, w, p
<1>8. RunsCounted(y.out)
  BY <1>3, <1>6, ShapeIs
<1>9. RunsCounted(x.records \o y.out) /\ RunsCounted(q \o y.out)
  BY <1>2, <1>8, CountedTogether
<1>10. x.records \o ZerosRead(0) = x.records
  BY <1>2, NoneMore DEF RunsCounted, Queue, ZerosRead
<1>11. Alike(q \o y.out, x.records \o y.out)
  BY <1>2, <1>6, <1>10, AlikeMore
<1>12. w.records \o ZerosRead(0) = w.records
  BY <1>4, <1>9, NoneMore DEF RunsCounted, Queue, ZerosRead
<1>. QED
  BY <1>4, <1>5, <1>7, <1>9, <1>11, <1>12, Zenon DEF Told, w

LEMMA EndWritesNothing ==
    ASSUME NEW c, NEW r, NEW p, p.kind = "end"
    PROVE  Convert(c, r, p).out = <<>> /\ Convert(c, r, p).good
BY DEF Convert

\* Behind the LXN_END the conversion at once has nothing to add.
LEMMA ToldEnd ==
    ASSUME NEW s, WellFormed(s), NEW k \in 0..(Len(s) - 1), NEW c, NEW q, Told(s, k, 0, c, q),
           s[k + 1].kind = "end"
    PROVE  RunsJoined(q) = RunsJoined(Whole(s))
<1>1. Len(s) \in Nat /\ k + 1 \in 1..Len(s) /\ k \in 0..Len(s) /\ k \in Nat
  BY WellFormedIs
<1>. DEFINE x == Converted(s)[k]  p == s[k + 1]  w == Converted(s)[k + 1]
            r == AfterPacket(x.reader, p)  y == Convert(x.conv, r, p)
<1>2. x.reader = EncodedReader(s, k) /\ ~x.reader.end /\ RunsCounted(x.records)
      /\ Alike(q, x.records \o ZerosRead(0))
  BY DEF Told
<1>3. p \in Packets /\ p.kind = "end" /\ x.reader \in Readers
  BY <1>1, <1>2, WellFormedIs, EncodedTypes
<1>4. w.reader = r /\ w.records = x.records \o y.out
  BY <1>2, ConvertedNext
<1>5. r.end
  <2>. HIDE DEF x, p
  <2>. QED
    BY <1>3, PacketIs
<1>6. y.out = <<>>
  <2>. HIDE DEF r, x, p
  <2>. QED
    BY <1>3, EndWritesNothing
<1>7. x.records \o <<>> = x.records
  BY <1>2, NoneMore DEF RunsCounted, Queue
<1>8. RunsJoined(q) = RunsJoined(w.records)
  <2>1. w.records = x.records
    BY <1>4, <1>6, <1>7
  <2>. QED
    BY <1>2, <1>7, <2>1 DEF Alike, ZerosRead
<1>9. w.reader.end
  BY <1>4, <1>5
<1>. HIDE DEF x, p, r, y
<1>. DEFINE S == {d \in Nat : k + 1 + d <= Len(s) => Converted(s)[k + 1 + d] = w}
<1>10. 0 \in S
  BY <1>1
<1>11. ASSUME NEW d \in Nat, d \in S
       PROVE  d + 1 \in S
  <2>. SUFFICES ASSUME k + 1 + (d + 1) <= Len(s)
                PROVE  Converted(s)[k + 1 + (d + 1)] = w
    OBVIOUS
  <2>. DEFINE m == k + 1 + (d + 1)
  <2>1. m \in 1..Len(s) /\ m - 1 = k + 1 + d /\ k + 1 + d <= Len(s)
    BY <1>1
  <2>2. Converted(s)[m - 1] = w
    BY <1>11, <2>1
  <2>. HIDE DEF m, w
  <2>3. Converted(s)[m] = WithConverted(w, s[m])
    BY <1>1, <2>1, <2>2, ConvertedIs
  <2>4. WithConverted(w, s[m]) = w
    BY <1>9 DEF WithConverted
  <2>. QED
    BY <2>3, <2>4 DEF m
<1>12. Converted(s)[Len(s)] = w
  <2>. DEFINE d == Len(s) - (k + 1)
  <2>1. d \in Nat /\ k + 1 + d = Len(s) /\ k + 1 + d <= Len(s)
    BY ONLY <1>1
  <2>2. d \in S
    <3>. HIDE DEF S
    <3>. QED
      BY <1>10, <1>11, <2>1, SetInduction
  <2>. HIDE DEF d
  <2>. QED
    BY <2>1, <2>2
<1>. QED
  BY <1>8, <1>12 DEF Whole

\* A zero more.
LEMMA ToldZero ==
    ASSUME NEW s, WellFormed(s), NEW k \in 0..(Len(s) - 1), NEW j \in Nat, NEW c, NEW a, RunsCounted(a), NEW m \in Nat,
           Told(s, k, j, c, a \o ZerosRead(m)), s[k + 1].kind = "zeros"
    PROVE  /\ Told(s, k, j + 1, c, a \o ZerosRead(m + 1))
           /\ j + 1 = s[k + 1].value => Told(s, k + 1, 0, c, a \o ZerosRead(m + 1))
<1>1. Len(s) \in Nat /\ k + 1 \in 1..Len(s) /\ k \in 0..Len(s)
  BY WellFormedIs
<1>. DEFINE x == Converted(s)[k]  p == s[k + 1]  w == Converted(s)[k + 1]
            r == AfterPacket(x.reader, p)  y == Convert(x.conv, r, p)
<1>2. x.reader = EncodedReader(s, k) /\ ~x.reader.end /\ c = x.conv /\ RunsCounted(x.records)
      /\ Alike(a \o ZerosRead(m), x.records \o ZerosRead(j))
  BY DEF Told
<1>3. p \in Packets /\ p.kind = "zeros" /\ p.value \in Nat \ {0} /\ x.reader \in Readers
  BY <1>1, <1>2, WellFormedIs, EncodedTypes DEF Packets
<1>4. w.reader = r /\ w.conv = y.conv /\ w.records = x.records \o y.out
  BY <1>2, ConvertedNext
<1>5. r = x.reader
  <2>. HIDE DEF x, p
  <2>. QED
    BY <1>3, PacketIs
<1>6. y.out = <<Empties(p.value)>> /\ y.conv = c
  <2>1. y.out = <<[record |-> "LFILEMPTY", value |-> p.value]>> /\ y.conv = x.conv
    <3>. HIDE DEF r, x, p
    <3>. QED
      BY <1>3, Outputs
  <2>. QED
    BY <1>2, <2>1 DEF Empties
<1>7. EncodedReader(s, k + 1) = r
  BY <1>2, PacketAdded
<1>. HIDE DEF x, p, r, y, w
<1>8. ASSUME NEW b, RunsCounted(b), NEW i \in Nat
      PROVE  RunsCounted(b \o ZerosRead(i))
  <2>1. RunsCounted(ZerosRead(i))
    <3>1. CASE i = 0
      BY <3>1, OneOrTwo DEF ZerosRead, RunsCounted, Queue
    <3>2. CASE i # 0
      <4>1. ZerosRead(i) = <<Empties(i)>> /\ Empties(i).value = i
        BY <3>2 DEF ZerosRead, Empties
      <4>. QED
        BY <4>1, OneOrTwo DEF RunsCounted, Queue
    <3>. QED
      BY <3>1, <3>2
  <2>. QED
    BY <1>8, <2>1, CountedTogether
<1>9. RunsCounted(a \o ZerosRead(m + 1)) /\ RunsCounted(x.records \o ZerosRead(j + 1))
  <2>1. m + 1 \in Nat /\ j + 1 \in Nat
    OBVIOUS
  <2>. QED
    BY <1>2, <1>8, <2>1
<1>10. Alike(a \o ZerosRead(m + 1), x.records \o ZerosRead(j + 1))
  <2>1. RunsJoined(a \o ZerosRead(m + 1)) = WithRun(RunsJoined(a \o ZerosRead(m)), Empties(1))
    BY MoreZeros
  <2>2. RunsJoined(x.records \o ZerosRead(j + 1)) = WithRun(RunsJoined(x.records \o ZerosRead(j)), Empties(1))
    BY <1>2, MoreZeros
  <2>. QED
    BY <1>2, <1>9, <2>1, <2>2 DEF Alike, RunsCounted
<1>11. Told(s, k, j + 1, c, a \o ZerosRead(m + 1))
  BY <1>2, <1>9, <1>10 DEF Told, x
<1>12. ASSUME j + 1 = p.value
       PROVE  Told(s, k + 1, 0, c, a \o ZerosRead(m + 1))
  <2>1. y.out = ZerosRead(j + 1)
    BY <1>3, <1>6, <1>12 DEF ZerosRead
  <2>2. w.records = x.records \o ZerosRead(j + 1)
    BY <1>4, <2>1
  <2>3. w.records \o ZerosRead(0) = w.records
    BY <1>9, <2>2, NoneMore DEF RunsCounted, Queue, ZerosRead
  <2>. QED
    BY <1>2, <1>4, <1>5, <1>6, <1>7, <1>9, <1>10, <2>2, <2>3 DEF Told, w
<1>. QED
  BY <1>11, <1>12 DEF p

\* As many zeros as the buffer has are one record.
LEMMA ZerosOver ==
    ASSUME NEW s, WellFormed(s), NEW k, NEW j, NEW off, NEW r, Place(s, k, j, off, r), NEW c, NEW a, Told(s, k, j, c, a),
           NEW n \in Nat, off + n <= Len(BytesOf(s)), \A i \in 1..n : BytesOf(s)[off + i].kind = "zeros"
    PROVE  \E k2, j2 : Place(s, k2, j2, off + n, r) /\ Told(s, k2, j2, c, a \o ZerosRead(n))
<1>1. off \in Nat /\ Len(BytesOf(s)) \in Nat /\ RunsCounted(a)
  BY PlaceIs DEF Told
<1>. DEFINE S == {m \in Nat : m <= n => \E k2, j2 : Place(s, k2, j2, off + m, r) /\ Told(s, k2, j2, c, a \o ZerosRead(m))}
<1>2. 0 \in S
  <2>1. off + 0 = off /\ a \o ZerosRead(0) = a
    BY <1>1, NoneMore DEF ZerosRead, RunsCounted, Queue
  <2>. QED
    BY <2>1
<1>3. ASSUME NEW m \in Nat, m \in S
      PROVE  m + 1 \in S
  <2>. SUFFICES ASSUME m + 1 <= n
                PROVE  \E k2, j2 : Place(s, k2, j2, off + (m + 1), r) /\ Told(s, k2, j2, c, a \o ZerosRead(m + 1))
    OBVIOUS
  <2>1. m <= n /\ m + 1 \in 1..n /\ off + m < Len(BytesOf(s)) /\ off + (m + 1) = off + m + 1
    BY <1>1
  <2>2. PICK k2, j2 : Place(s, k2, j2, off + m, r) /\ Told(s, k2, j2, c, a \o ZerosRead(m))
    BY <1>3, <2>1
  <2>3. BytesOf(s)[off + m + 1].kind = "zeros"
    BY <2>1
  <2>. DEFINE o == off + m
  <2>. HIDE DEF o
  <2>4. Place(s, k2, j2, o, r) /\ o < Len(BytesOf(s)) /\ BytesOf(s)[o + 1].kind = "zeros"
    BY <2>1, <2>2, <2>3 DEF o
  <2>5. k2 \in 0..(Len(s) - 1) /\ j2 \in Nat /\ s[k2 + 1].kind = "zeros"
    BY <2>4, ByteAt, PlaceIs, SMTT(60)
  <2>6. \/ Place(s, k2, j2 + 1, o + 1, r)
        \/ j2 + 1 = s[k2 + 1].value /\ Place(s, k2 + 1, 0, o + 1, r)
    BY <2>4, <2>5, ZeroOver
  <2>7. /\ Told(s, k2, j2 + 1, c, a \o ZerosRead(m + 1))
        /\ j2 + 1 = s[k2 + 1].value => Told(s, k2 + 1, 0, c, a \o ZerosRead(m + 1))
    BY <1>1, <2>2, <2>5, ToldZero
  <2>8. off + (m + 1) = o + 1
    BY <2>1 DEF o
  <2>. QED
    BY <2>6, <2>7, <2>8
<1>. HIDE DEF S
<1>4. n \in S
  BY <1>2, <1>3, SetInduction
<1>. QED
  BY <1>4 DEF S

-----------------------------------------------------------------------------
(* The invariant of lxn2igc.  What is not read of the file are its last      *)
(* bytes; it has read k packets and j zeros, and its records are those of    *)
(* the conversion at once so far.                                            *)
Unread == Remaining \o input
Position(f, rest) == Len(BytesOf(f.packets)) - f.missing - Len(rest)

Tailing(f, rest) == \A i \in 1..Len(rest) : rest[i] = BytesOf(f.packets)[Position(f, rest) + i]

Along(s, off, r, c, q, k, j) == /\ Place(s, k, j, off, r) /\ Told(s, k, j, c, q)
                                /\ Open(q) => j = 0 /\ (k < Len(s) => s[k + 1].kind = "bext")

ReadSoFar(s, off, r, c, q) == \E k, j : Along(s, off, r, c, q, k, j)

Reading == Tailing(lxn, Unread) /\ ReadSoFar(lxn.packets, Position(lxn, Unread), reader, conv, records)

LxnTypes == /\ lxn \in Files /\ buffer \in Seq(Bytes) /\ input \in Seq(Bytes)
            /\ Len(buffer) <= Room /\ consumed \in 0..Len(buffer) /\ reader \in Readers
            /\ Queue(records) /\ Lines(records)

LxnInv == /\ LxnTypes
          /\ stage \in {"read", "process", "loop"} => Reading
          /\ stage \in {"read", "loop"} => consumed = 0
          /\ stage = "process" => lxn.pipe \/ Len(buffer) = Room \/ input = <<>>
          /\ stage = "process" => buffer # <<>>
          /\ eof => input = <<>>
          /\ stage = "done" => \/ reader.end /\ RunsJoined(records) = RunsJoined(Whole(lxn.packets))
                               \/ ~reader.end /\ eof /\ buffer = <<>>
          /\ ChunksDoNotMatter /\ AssertionHolds /\ NothingHalfDone

LEMMA FileIs ==
    ASSUME NEW f \in Files
    PROVE  /\ WellFormed(f.packets) /\ f.missing \in Nat /\ Len(BytesOf(f.packets)) \in Nat
           /\ f.missing <= Len(BytesOf(f.packets)) /\ BytesOf(f.packets) \in Seq(Bytes)
<1>1. WellFormed(f.packets) /\ f.missing \in 0..Len(BytesOf(f.packets))
  BY FilesAssumption
<1>2. Len(f.packets) \in Nat /\ Len(f.packets) \in 0..Len(f.packets)
  BY <1>1, WellFormedIs
<1>3. BytesOf(f.packets) \in Seq(Bytes)
  BY <1>1, <1>2, EncodedTypes DEF EncodedBytes, BytesOf
<1>4. Len(BytesOf(f.packets)) \in Nat
  BY <1>3, LenProperties
<1>. QED
  BY <1>1, <1>3, <1>4

\* What is left, and its first byte.
LEMMA RestIs ==
    ASSUME LxnTypes
    PROVE  /\ Remaining \in Seq(Bytes) /\ Len(Remaining) = Len(buffer) - consumed /\ Unread \in Seq(Bytes)
           /\ Len(Unread) = Len(Remaining) + Len(input) /\ Len(Remaining) \in Nat /\ Len(input) \in Nat
           /\ Len(buffer) \in Nat /\ (Len(buffer) = 0 <=> buffer = <<>>) /\ (Len(input) = 0 <=> input = <<>>)
           /\ (Len(Remaining) = 0 <=> Remaining = <<>>)
           /\ \A i \in 1..Len(Remaining) : Remaining[i] \in Bytes /\ Unread[i] = Remaining[i]
           /\ \A i \in 1..Len(Remaining) : Remaining[i] = buffer[consumed + i]
           /\ Remaining # <<>> => Head(Remaining) = Remaining[1]
<1>1. /\ buffer \in Seq(Bytes) /\ input \in Seq(Bytes) /\ consumed \in 0..Len(buffer)
      /\ Len(buffer) \in Nat /\ Len(input) \in Nat
  BY LenProperties DEF LxnTypes
<1>2. buffer \in Seq(ToSet(buffer)) /\ ToSet(buffer) \subseteq Bytes
  BY <1>1, Members
<1>. DEFINE t == SubSeq(buffer, consumed + 1, Len(buffer))
<1>3. /\ t \in Seq(ToSet(t)) /\ ToSet(t) \subseteq ToSet(buffer) /\ Len(t) = Len(buffer) - consumed
      /\ DOMAIN t = 1..Len(t) /\ \A i \in DOMAIN t : t[i] = buffer[consumed + i]
  BY <1>1, <1>2, Rest, ZenonT(60)
<1>. HIDE DEF t
<1>4. t \in Seq(Bytes) /\ Len(t) \in Nat
  BY <1>2, <1>3, SeqMonotonic, LenProperties
<1>5. \A i \in 1..Len(t) : t[i] \in Bytes
  BY <1>4, ElementOfSeq
<1>6. /\ t \o input \in Seq(Bytes) /\ Len(t \o input) = Len(t) + Len(input)
      /\ \A i \in 1..Len(t) : (t \o input)[i] = t[i]
  <2>1. /\ t \o input \in Seq(Bytes) /\ Len(t \o input) = Len(t) + Len(input)
        /\ \A i \in 1..(Len(t) + Len(input)) : (t \o input)[i] = IF i <= Len(t) THEN t[i] ELSE input[i - Len(t)]
    BY ONLY <1>1, <1>4, ConcatProperties
  <2>2. \A i \in 1..Len(t) : i \in 1..(Len(t) + Len(input)) /\ i <= Len(t)
    BY <1>1, <1>4
  <2>. QED
    BY <2>1, <2>2
<1>7. (Len(t) = 0 <=> t = <<>>) /\ (Len(buffer) = 0 <=> buffer = <<>>) /\ (Len(input) = 0 <=> input = <<>>)
  BY <1>1, <1>4, EmptySeq
<1>8. t # <<>> => Head(t) = t[1]
  BY <1>4, HeadTailProperties
<1>. QED
  BY <1>1, <1>3, <1>4, <1>5, <1>6, <1>7, <1>8 DEF Remaining, Unread, t

\* The place in the file, and the packet there.
LEMMA NextByte ==
    ASSUME LxnTypes, NEW s, s = lxn.packets, Tailing(lxn, Unread), NEW off, off = Position(lxn, Unread),
           NEW k, NEW j, Place(s, k, j, off, reader)
    PROVE  /\ WellFormed(s) /\ off \in Nat /\ Len(BytesOf(s)) \in Nat /\ lxn.missing \in Nat
           /\ off + Len(Unread) = Len(BytesOf(s)) - lxn.missing
           /\ \A i \in 1..Len(Remaining) : Remaining[i] = BytesOf(s)[off + i]
           /\ Remaining # <<>> => /\ off < Len(BytesOf(s)) /\ Head(Remaining) = BytesOf(s)[off + 1]
                                  /\ k \in 0..(Len(s) - 1) /\ s[k + 1] \in Packets
                                  /\ Head(Remaining).kind = s[k + 1].kind
                                  /\ s[k + 1].kind # "zeros" => j = 0 /\ Head(Remaining) = s[k + 1]
<1>1. /\ WellFormed(s) /\ lxn.missing \in Nat /\ Len(BytesOf(s)) \in Nat
      /\ lxn.missing <= Len(BytesOf(s))
  BY FileIs DEF LxnTypes
<1>2. off \in Nat /\ reader \in Readers
  BY <1>1, PlaceIs
<1>3. /\ Len(Unread) = Len(Remaining) + Len(input) /\ Len(Remaining) \in Nat /\ Len(input) \in Nat
      /\ (Len(Remaining) = 0 <=> Remaining = <<>>) /\ (Remaining # <<>> => Head(Remaining) = Remaining[1])
      /\ \A i \in 1..Len(Remaining) : Unread[i] = Remaining[i]
  BY RestIs
<1>4. off + Len(Unread) = Len(BytesOf(s)) - lxn.missing
  BY <1>1, <1>2, <1>3 DEF Position
<1>5. \A i \in 1..Len(Remaining) : Remaining[i] = BytesOf(s)[off + i]
  <2>1. \A i \in 1..Len(Remaining) : i \in 1..Len(Unread)
    BY <1>3
  <2>. QED
    BY <1>3, <2>1 DEF Tailing
<1>6. ASSUME Remaining # <<>>
      PROVE  /\ off < Len(BytesOf(s)) /\ Head(Remaining) = BytesOf(s)[off + 1]
             /\ k \in 0..(Len(s) - 1) /\ s[k + 1] \in Packets
             /\ Head(Remaining).kind = s[k + 1].kind
             /\ s[k + 1].kind # "zeros" => j = 0 /\ Head(Remaining) = s[k + 1]
  <2>1. off < Len(BytesOf(s)) /\ 1 \in 1..Len(Remaining)
    BY <1>1, <1>2, <1>3, <1>4, <1>6
  <2>2. Head(Remaining) = BytesOf(s)[off + 1]
    BY <1>3, <1>5, <1>6, <2>1
  <2>3. /\ k \in 0..(Len(s) - 1) /\ s[k + 1] \in Packets
        /\ s[k + 1].kind = "zeros" => BytesOf(s)[off + 1] = Packet("zeros", 1)
        /\ s[k + 1].kind # "zeros" => j = 0 /\ BytesOf(s)[off + 1] = s[k + 1]
    BY <1>1, <2>1, ByteAt
  <2>. QED
    BY <2>1, <2>2, <2>3 DEF Packet
<1>. QED
  BY <1>1, <1>2, <1>4, <1>5, <1>6

\* What get_packet_length says of it.
LEMMA PacketLength ==
    ASSUME NEW q, NEW c, c = Head(q), c \in Packets, c.kind # "zeros", reader \in Readers
    PROVE  get_packet_length(q) = IF c.kind = "unknown" THEN 0
                                  ELSE IF c.kind = "end" THEN packet_lengths["end"] ELSE LengthOf(c, reader)
<1>1. c.kind \in DOMAIN packet_lengths \ {"more"}
  BY DEF Packets
<1>2. CASE c.kind \in {"bext", "kext", "string"}
  BY <1>2 DEF get_packet_length
<1>3. CASE c.kind \notin {"bext", "kext", "string"}
  <2>1. get_packet_length(q) = packet_lengths[c.kind]
    BY <1>3 DEF get_packet_length
  <2>2. CASE c.kind = "unknown"
    BY <2>1, <2>2 DEF packet_lengths
  <2>3. CASE c.kind = "end"
    BY <2>1, <2>3
  <2>4. CASE c.kind \notin {"unknown", "end"}
    BY <1>3, <2>1, <2>4 DEF LengthOf
  <2>. QED
    BY <2>2, <2>3, <2>4
<1>. QED
  BY <1>2, <1>3

LEMMA ZerosLength ==
    ASSUME NEW q \in Seq(Bytes), q # <<>>, Head(q).kind = "zeros", NEW n, n = get_packet_length(q)
    PROVE  n \in 1..Len(q) /\ \A i \in 1..n : q[i].kind = "zeros"
<1>1. Len(q) \in Nat /\ Len(q) # 0 /\ Head(q) = q[1]
  BY LenProperties, EmptySeq, HeadTailProperties
<1>. DEFINE S == {m \in 1..Len(q) : \A i \in 1..m : q[i].kind = "zeros"}
            P(m) == /\ \A i \in 1..m : q[i].kind = "zeros"
                    /\ m < Len(q) => q[m + 1].kind # "zeros"
<1>2. 1 \in S
  BY <1>1
<1>3. PICK m \in S : \A y \in S : y <= m
  <2>1. S \subseteq 0..Len(q) /\ S # {}
    BY <1>1, <1>2
  <2>. HIDE DEF S
  <2>. QED
    BY <1>1, <2>1, Greatest
<1>4. m \in 1..Len(q) /\ P(m)
  <2>1. m \in 1..Len(q) /\ \A i \in 1..m : q[i].kind = "zeros"
    BY <1>3
  <2>2. SUFFICES ASSUME m < Len(q), q[m + 1].kind = "zeros"
                 PROVE  FALSE
    BY <2>1
  <2>3. m + 1 \in 1..Len(q) /\ \A i \in 1..(m + 1) : i \in 1..m \/ i = m + 1
    BY <1>1, <2>1, <2>2
  <2>4. m + 1 \in S
    BY <2>1, <2>2, <2>3
  <2>5. m + 1 <= m
    BY <1>3, <2>4
  <2>. QED
    BY <1>1, <2>1, <2>5
<1>5. n = CHOOSE x \in 1..Len(q) : P(x)
  BY <1>1 DEF get_packet_length
<1>. HIDE DEF P
<1>6. n \in 1..Len(q) /\ P(n)
  BY <1>4, <1>5
<1>. QED
  BY <1>6 DEF P

LEMMA ReadingStays ==
    ASSUME UNCHANGED <<lxn, reader, conv, records>>, Unread' = Unread, Reading
    PROVE  Reading'
BY DEF Reading

LEMMA AllOfIt ==
    ASSUME NEW S, NEW s \in Seq(S)
    PROVE  SubSeq(s, 0 + 1, Len(s)) = s
<1>1. Len(s) \in Nat /\ s = [i \in 1..Len(s) |-> s[i]] /\ 0 + 1 = 1
  BY LenProperties
<1>2. Len(s) - 1 + 1 = Len(s) /\ \A i \in 1..Len(s) : 1 + i - 1 = i
  BY <1>1
<1>. QED
  BY <1>1, <1>2 DEF SubSeq

LEMMA LxnInvInit ==
    ASSUME LxnInit
    PROVE  LxnInv
<1>. DEFINE s == lxn.packets  T == BytesOf(s)
<1>1. /\ lxn \in Files /\ input = Content(lxn) /\ buffer = <<>> /\ consumed = 0
      /\ eof = FALSE /\ reader = NewReader /\ conv = NewConverter /\ records = <<>> /\ stage = "read"
  BY DEF LxnInit
<1>2. /\ WellFormed(s) /\ lxn.missing \in Nat /\ Len(T) \in Nat
      /\ lxn.missing <= Len(T) /\ T \in Seq(Bytes)
  BY <1>1, FileIs
<1>. DEFINE n == Len(T) - lxn.missing
<1>3. n \in 0..Len(T)
  BY <1>2
<1>4. input \in Seq(Bytes) /\ Len(input) = n /\ \A i \in 1..n : input[i] = T[i]
  <2>1. input = SubSeq(T, 1, n)
    BY <1>1 DEF Content
  <2>. HIDE DEF n, T
  <2>2. \A i \in 1..n : T[i] \in Bytes
    <3>1. \A i \in 1..n : i \in 1..Len(T)
      BY <1>2, <1>3
    <3>. QED
      BY <1>2, <3>1, ElementOfSeq
  <2>. QED
    BY <1>2, <1>3, <2>1, <2>2, SubSeqProperties
<1>. HIDE DEF n
<1>5. <<>> \in Seq(Bytes) /\ Len(<<>>) = 0 /\ NewReader \in Readers /\ Queue(<<>>) /\ Lines(<<>>) /\ ~Open(<<>>)
  <2>1. <<>> \in Seq(Bytes) /\ Len(<<>>) = 0 /\ Queue(<<>>) /\ DOMAIN <<>> = {}
    BY OneOrTwo, EmptySeq DEF Queue
  <2>. QED
    BY <2>1 DEF Lines, Open, NewReader, Readers
<1>6. LxnTypes
  BY <1>1, <1>4, <1>5, StreamAssumption DEF LxnTypes
<1>7. Unread = input
  <2>1. Remaining = <<>>
    BY <1>1, <1>5, <1>6, RestIs
  <2>2. input \in Seq(ToSet(input))
    BY <1>4, Members
  <2>. QED
    BY <2>1, <2>2, NoneMore DEF Unread
<1>8. Position(lxn, Unread) = 0
  BY <1>2, <1>4, <1>7 DEF Position, n
<1>9. Tailing(lxn, Unread)
  <2>1. \A i \in 1..n : 0 + i = i
    BY <1>3
  <2>. QED
    BY <1>4, <1>7, <1>8, <2>1 DEF Tailing
<1>10. Along(s, 0, reader, conv, records, 0, 0)
  BY <1>1, <1>2, <1>5, ToldStart DEF Along
<1>11. Reading
  BY <1>8, <1>9, <1>10 DEF Reading, ReadSoFar
<1>. QED
  BY <1>1, <1>6, <1>11 DEF LxnInv, ChunksDoNotMatter, AssertionHolds, NothingHalfDone

LEMMA FillKeeps ==
    ASSUME LxnInv, Fill
    PROVE  LxnInv'
<1>. DEFINE room == Room - Len(buffer)
<1>1. /\ lxn \in Files /\ buffer \in Seq(Bytes) /\ input \in Seq(Bytes) /\ Len(buffer) <= Room
      /\ reader \in Readers /\ Queue(records) /\ Lines(records)
      /\ stage = "read" /\ consumed = 0 /\ (eof => input = <<>>) /\ Reading
      /\ Len(buffer) \in Nat /\ Len(input) \in Nat /\ Room \in Nat /\ room \in Nat
      /\ (Len(input) = 0 <=> input = <<>>)
  BY LenProperties, EmptySeq, StreamAssumption DEF LxnInv, LxnTypes, Fill
<1>2. PICK n \in IF room = 0 THEN {0} ELSE 0..Min({room, Len(input)}) :
         /\ n = 0 => room = 0 \/ input = <<>>
         /\ lxn.pipe \/ n = Min({room, Len(input)})
         /\ buffer' = buffer \o SubSeq(input, 1, n)
         /\ input' = SubSeq(input, n + 1, Len(input))
         /\ eof' = (eof \/ (room > 0 /\ n = 0))
  BY DEF Fill
<1>3. /\ consumed' = 0 /\ stage' = (IF buffer' = <<>> THEN "loop" ELSE "process")
      /\ UNCHANGED <<lxn, reader, conv, records, kept>>
  BY DEF Fill, writing
<1>4. Min({room, Len(input)}) = IF room <= Len(input) THEN room ELSE Len(input)
  BY <1>1, MinMaxOfTwo
<1>5. n \in 0..Len(input) /\ n <= room /\ n \in Nat
  BY <1>1, <1>2, <1>4
<1>. DEFINE a == SubSeq(input, 1, n)  b == SubSeq(input, n + 1, Len(input))
<1>6. input \in Seq(ToSet(input)) /\ ToSet(input) \subseteq Bytes
  BY <1>1, Members
<1>7. /\ a \in Seq(ToSet(a)) /\ Len(a) = n /\ ToSet(a) \subseteq ToSet(input) /\ a \o b = input
  BY <1>5, <1>6, CutInTwo
<1>8. b \in Seq(ToSet(b)) /\ ToSet(b) \subseteq ToSet(input) /\ Len(b) = Len(input) - n
  BY <1>5, <1>6, Rest
<1>. HIDE DEF a, b, room
<1>9. a \in Seq(Bytes) /\ b \in Seq(Bytes)
  BY <1>6, <1>7, <1>8, SeqMonotonic
<1>10. buffer' = buffer \o a /\ input' = b
  BY <1>2 DEF a, b
<1>11. buffer' \in Seq(Bytes) /\ Len(buffer') = Len(buffer) + n /\ (Len(b) = 0 <=> b = <<>>)
  BY <1>1, <1>7, <1>9, <1>10, ConcatProperties, EmptySeq
<1>12. Len(buffer') <= Room
  BY <1>1, <1>5, <1>11 DEF room
<1>13. LxnTypes'
  BY <1>1, <1>3, <1>5, <1>9, <1>10, <1>11, <1>12 DEF LxnTypes, Lines
<1>14. Unread' = Unread
  <2>1. Unread = buffer \o input
    <3>1. SubSeq(buffer, 0 + 1, Len(buffer)) = buffer
      BY <1>1, AllOfIt
    <3>. QED
      BY <1>1, <3>1 DEF Unread, Remaining
  <2>2. Unread' = buffer' \o input'
    <3>1. SubSeq(buffer', 0 + 1, Len(buffer')) = buffer'
      BY <1>11, AllOfIt
    <3>. QED
      BY <1>3, <3>1 DEF Unread, Remaining
  <2>3. (buffer \o a) \o b = buffer \o (a \o b)
    BY <1>1, <1>9, ConcatAssociative, SMTT(60)
  <2>. QED
    BY <1>7, <1>10, <2>1, <2>2, <2>3
<1>15. Reading'
  BY <1>1, <1>3, <1>14, ReadingStays
<1>16. lxn.pipe \/ Len(buffer') = Room \/ input' = <<>>
  <2>1. CASE n = Len(input)
    BY <1>1, <1>8, <1>10, <1>11, <2>1
  <2>2. CASE n = room
    BY <1>1, <1>11, <2>2 DEF room
  <2>. QED
    BY <1>2, <1>4, <2>1, <2>2
<1>17. eof' => input' = <<>>
  <2>1. eof' => input = <<>>
    <3>1. eof' => eof \/ (room > 0 /\ n = 0)
      BY <1>2
    <3>2. room > 0 => room # 0
      BY <1>1
    <3>. QED
      BY <1>1, <1>2, <3>1, <3>2
  <2>2. input = <<>> => Len(b) = 0
    BY <1>1, <1>5, <1>8
  <2>. QED
    BY <1>10, <1>11, <2>1, <2>2
<1>. QED
  BY <1>3, <1>13, <1>15, <1>16, <1>17 DEF LxnInv, ChunksDoNotMatter, AssertionHolds, NothingHalfDone

LEMMA AgainKeeps ==
    ASSUME LxnInv, Again
    PROVE  LxnInv'
<1>1. /\ LxnTypes /\ Reading /\ (eof => input = <<>>)
      /\ lxn.pipe \/ Len(buffer) = Room \/ input = <<>>
      /\ buffer # <<>>
      /\ Remaining # <<>> => get_packet_length(Remaining) > Len(Remaining)
      /\ stage' = (IF consumed = 0 THEN "assertion" ELSE "loop")
      /\ buffer' = Remaining /\ consumed' = 0
      /\ UNCHANGED <<lxn, input, eof, reader, conv, records, kept>>
  BY DEF LxnInv, Again, writing
<1>2. /\ Remaining \in Seq(Bytes) /\ Len(Remaining) = Len(buffer) - consumed /\ Unread \in Seq(Bytes)
      /\ Len(Unread) = Len(Remaining) + Len(input) /\ Len(Remaining) \in Nat /\ Len(input) \in Nat
      /\ Len(buffer) \in Nat /\ (Len(buffer) = 0 <=> buffer = <<>>) /\ (Len(input) = 0 <=> input = <<>>)
      /\ (Len(Remaining) = 0 <=> Remaining = <<>>)
  BY <1>1, RestIs
<1>3. /\ lxn \in Files /\ input \in Seq(Bytes) /\ Len(buffer) <= Room /\ consumed \in 0..Len(buffer)
      /\ reader \in Readers /\ Queue(records) /\ Lines(records) /\ Room \in Nat
  BY <1>1, StreamAssumption DEF LxnTypes
<1>4. LxnTypes'
  <2>1. Len(Remaining) <= Room
    BY <1>2, <1>3
  <2>. QED
    BY <1>1, <1>2, <1>3, <2>1 DEF LxnTypes, Lines
<1>5. Unread' = Unread
  <2>1. SubSeq(buffer', 0 + 1, Len(buffer')) = buffer'
    BY <1>1, <1>2, AllOfIt
  <2>. QED
    BY <1>1, <2>1 DEF Unread, Remaining
<1>6. Reading'
  BY <1>1, <1>5, ReadingStays
<1>7. ASSUME consumed = 0, ~lxn.pipe
      PROVE  lxn.missing > 0 /\ input = <<>>
  <2>. DEFINE s == lxn.packets  off == Position(lxn, Unread)  c == Head(Remaining)
  <2>1. Tailing(lxn, Unread)
    BY <1>1 DEF Reading
  <2>2. PICK k, j : Place(s, k, j, off, reader)
    BY <1>1 DEF Reading, ReadSoFar, Along
  <2>3. Remaining # <<>> /\ Len(Remaining) = Len(buffer)
    BY <1>1, <1>2, <1>7
  <2>4. /\ WellFormed(s) /\ off \in Nat /\ Len(BytesOf(s)) \in Nat /\ lxn.missing \in Nat
        /\ off + Len(Unread) = Len(BytesOf(s)) - lxn.missing
        /\ off < Len(BytesOf(s)) /\ c = BytesOf(s)[off + 1]
        /\ k \in 0..(Len(s) - 1) /\ s[k + 1] \in Packets
        /\ c.kind = s[k + 1].kind
        /\ s[k + 1].kind # "zeros" => j = 0 /\ c = s[k + 1]
    BY <1>1, <2>1, <2>2, <2>3, NextByte, SMTT(60)
  <2>. DEFINE n == get_packet_length(Remaining)
  <2>5. n > Len(Remaining)
    BY <1>1, <2>3
  <2>6. c.kind # "zeros"
    <3>1. c.kind = "zeros" => n \in 1..Len(Remaining)
      BY <1>2, <2>3, ZerosLength
    <3>. HIDE DEF n
    <3>. QED
      BY <1>2, <2>5, <3>1
  <2>7. c = s[k + 1] /\ j = 0
    BY <2>4, <2>6
  <2>. HIDE DEF c, off, s
  <2>8. n = IF c.kind = "unknown" THEN 0
            ELSE IF c.kind = "end" THEN packet_lengths["end"] ELSE LengthOf(c, reader)
    <3>1. c = Head(Remaining) /\ c \in Packets /\ c.kind # "zeros"
      BY <2>4, <2>6, <2>7 DEF c
    <3>. QED
      BY <1>3, <3>1, PacketLength
  <2>. HIDE DEF n
  <2>9. /\ k + 1 \in 1..Len(s) /\ Len(s) \in Nat /\ k \in Nat
        /\ reader = EncodedReader(s, k) /\ off = Len(EncodedBytes(s, k)) + j
    BY <2>2, <2>4, WellFormedIs DEF Place
  <2>10. c.kind # "unknown" /\ packet_lengths["end"] = 2
    BY <1>2, <2>5, <2>8 DEF packet_lengths
  <2>11. LengthOf(c, reader) \in Nat \ {0} /\ off + LengthOf(c, reader) <= Len(BytesOf(s))
    <3>1. s[k + 1].kind # "zeros" /\ Place(s, k, j, off, reader) /\ off < Len(BytesOf(s)) /\ WellFormed(s)
      BY <2>2, <2>4, <2>6 DEF s, off
    <3>2. LengthOf(s[k + 1], reader) \in Nat \ {0} /\ off + LengthOf(s[k + 1], reader) <= Len(BytesOf(s))
      BY <3>1, PacketOver
    <3>. QED
      BY <2>7, <3>2
  <2>12. /\ LengthOf(c, reader) <= Room
         /\ c.kind = "end" => k + 1 < Len(s)
    <3>1. /\ s[k + 1].kind # "zeros" => LengthOf(s[k + 1], ReaderBefore(s, k + 1)) <= Room
          /\ s[k + 1].kind = "end" => k + 1 < Len(s)
      BY <2>4, <2>9 DEF WellFormed
    <3>2. ReaderBefore(s, k + 1) = reader
      <4>1. k + 1 - 1 = k
        BY <2>9
      <4>. QED
        BY <2>9, <4>1 DEF ReaderBefore, EncodedReader
    <3>. QED
      BY <2>4, <2>6, <2>7, <3>1, <3>2
  <2>13. n <= Room /\ off + n <= Len(BytesOf(s)) /\ n \in Nat
    <3>1. CASE c.kind # "end"
      BY <2>8, <2>10, <2>11, <2>12, <3>1
    <3>2. CASE c.kind = "end"
      <4>1. n = 2 /\ Room >= 2
        BY <2>8, <2>10, <3>2, FilesAssumption
      <4>2. LengthOf(c, reader) = 1
        BY <3>2 DEF LengthOf
      <4>3. k \in 0..(Len(s) - 1) /\ k + 1 \in 0..(Len(s) - 1)
        BY <2>9, <2>12, <3>2
      <4>4. Len(EncodedBytes(s, k + 1)) = off + 1
        <5>1. Len(EncodedBytes(s, k + 1)) = Len(EncodedBytes(s, k)) + LengthOf(s[k + 1], EncodedReader(s, k))
          BY <2>4, <4>3, PacketAdded
        <5>. QED
          BY <2>4, <2>7, <2>9, <4>2, <5>1
      <4>5. Len(EncodedBytes(s, k + 1)) + 1 <= Len(BytesOf(s))
        <5>. DEFINE m == k + 1  z == LengthOf(s[m + 1], EncodedReader(s, m))
        <5>1. /\ z \in Nat \ {0} /\ Len(EncodedBytes(s, m)) \in Nat
              /\ Len(EncodedBytes(s, m)) + z <= Len(BytesOf(s))
          <6>. HIDE DEF m
          <6>. QED
            BY <2>4, <4>3, PacketThere, ZenonT(60) DEF m
        <5>. HIDE DEF z
        <5>. QED
          BY <2>4, <5>1
      <4>. QED
        BY <2>4, <4>1, <4>4, <4>5
    <3>. QED
      BY <3>1, <3>2
  <2>14. Len(buffer) < Room
    BY <1>2, <1>3, <2>3, <2>5, <2>13
  <2>15. input = <<>>
    BY <1>1, <1>2, <1>3, <1>7, <2>14
  <2>16. Len(Unread) = Len(Remaining)
    BY <1>2, <2>15
  <2>17. lxn.missing > 0
    <3>. DEFINE T == Len(BytesOf(s))  m == lxn.missing  l == Len(Remaining)
    <3>1. T \in Nat /\ m \in Nat /\ l \in Nat /\ off \in Nat /\ off + l = T - m
      BY <1>2, <2>4, <2>16
    <3>2. n \in Nat /\ n > l /\ off + n <= T
      BY <2>5, <2>13
    <3>. HIDE DEF T, m, l
    <3>3. m > 0
      BY ONLY <3>1, <3>2
    <3>. QED
      BY <3>3 DEF m
  <2>. QED
    BY <2>15, <2>17
<1>8. AssertionHolds'
  BY <1>1, <1>7 DEF AssertionHolds
<1>. QED
  BY <1>1, <1>4, <1>6, <1>8 DEF LxnInv, ChunksDoNotMatter, NothingHalfDone

LEMMA LoopKeeps ==
    ASSUME LxnInv, Loop
    PROVE  LxnInv'
<1>1. /\ LxnTypes /\ Reading /\ (eof => input = <<>>) /\ consumed = 0
      /\ \/ ~eof /\ stage' = "read"
         \/ eof /\ buffer # <<>> /\ stage' = "exit 2" /\ kept' = FALSE
         \/ eof /\ buffer = <<>> /\ stage' = "done"
      /\ UNCHANGED <<lxn, input, buffer, eof, consumed, reader, conv, records>>
  BY DEF LxnInv, Loop, Fail, reading
<1>2. LxnTypes'
  BY <1>1 DEF LxnTypes, Lines
<1>3. Reading'
  <2>1. Unread' = Unread
    BY <1>1 DEF Unread, Remaining
  <2>. QED
    BY <1>1, <2>1, ReadingStays
<1>4. ~reader.end
  BY <1>1 DEF Reading, ReadSoFar, Along, Told, Place
<1>. QED
  BY <1>1, <1>2, <1>3, <1>4 DEF LxnInv, ChunksDoNotMatter, AssertionHolds, NothingHalfDone

LEMMA CloseKeeps ==
    ASSUME LxnInv, CloseFilter
    PROVE  LxnInv'
<1>1. /\ LxnTypes /\ (eof => input = <<>>)
      /\ \/ reader.end /\ RunsJoined(records) = RunsJoined(Whole(lxn.packets)) /\ stage' = "exit 0"
         \/ ~reader.end /\ eof /\ buffer = <<>> /\ stage' = "exit 2"
      /\ UNCHANGED <<lxn, input, buffer, eof, consumed, reader, conv, records, kept>>
  BY DEF LxnInv, CloseFilter, reading, writing
<1>2. LxnTypes'
  BY <1>1 DEF LxnTypes, Lines
<1>. QED
  BY <1>1, <1>2 DEF LxnInv, ChunksDoNotMatter, AssertionHolds, NothingHalfDone

\* A packet other than zeros and the LXN_END.
LEMMA GoodExtensions ==
    ASSUME NEW c, NEW r, NEW p, p.kind = "bext", NEW y, y = Convert(c, r, p), y.good
    PROVE  y.out # <<>>
<1>1. CASE p.value = 99
  <2>1. ~y.good
    BY <1>1 DEF Convert
  <2>. QED
    BY <2>1
<1>2. CASE p.value # 99
  <2>1. y.out = <<[record |-> "ext", value |-> p.value], [record |-> "eol", value |-> 0]>>
    BY <1>2, ShortOnes DEF Convert, Record
  <2>. QED
    BY <2>1
<1>. QED
  BY <1>1, <1>2

LEMMA OnePacket ==
    ASSUME NEW s, WellFormed(s), NEW k, NEW off, NEW r, NEW c, NEW q, Along(s, off, r, c, q, k, 0), Lines(q),
           off < Len(BytesOf(s)), NEW p, p = s[k + 1], p.kind \notin {"zeros", "end"},
           NEW e, e = AfterPacket(r, p), NEW y, y = Convert(c, e, p)
    PROVE  /\ Queue(q \o y.out) /\ Lines(q \o y.out) /\ e \in Readers
           /\ y.good => Along(s, off + LengthOf(p, r), e, y.conv, q \o y.out, k + 1, 0)
<1>1. /\ Place(s, k, 0, off, r) /\ Told(s, k, 0, c, q)
      /\ Open(q) => (k < Len(s) => s[k + 1].kind = "bext")
  BY DEF Along
<1>2. /\ k \in 0..(Len(s) - 1) /\ s[k + 1] \in Packets /\ Len(s) \in Nat /\ r \in Readers /\ k \in Nat
  BY <1>1, ByteAt, PlaceIs
<1>3. Place(s, k + 1, 0, off + LengthOf(p, r), e)
  BY <1>1, PacketOver
<1>4. r = EncodedReader(s, k) /\ RunsCounted(q)
  BY <1>1 DEF Place, Told
<1>5. Told(s, k + 1, 0, y.conv, q \o y.out)
  BY <1>1, <1>2, <1>4, ToldPacket
<1>6. p.value \in Nat /\ e \in Readers /\ p \in Packets
  <2>1. p \in Packets
    BY <1>2
  <2>. QED
    BY <1>2, <2>1, PacketIs DEF Packets
<1>7. Shape(y.out, p, e)
  BY Outputs
<1>8. /\ RunsCounted(y.out) /\ Lines(y.out)
      /\ y.out # <<>> => /\ y.out[Len(y.out)].record = "B" => p.kind = "position" /\ e.b # 0
                         /\ p.kind = "bext" => y.out[1].record = "ext"
  BY <1>6, <1>7, ShapeIs
<1>9. Open(q) => p.kind = "bext"
  BY <1>1, <1>2
<1>10. /\ Lines(q \o y.out)
       /\ Open(q \o y.out) => Open(y.out) \/ (y.out = <<>> /\ Open(q))
  BY <1>4, <1>8, <1>9, LinesTogether DEF RunsCounted
<1>11. Queue(q \o y.out)
  BY <1>4, <1>8, CountedTogether DEF RunsCounted
<1>12. ASSUME y.good, Open(q \o y.out), k + 1 < Len(s)
       PROVE  s[k + 1 + 1].kind = "bext"
  <2>1. ~(y.out = <<>> /\ Open(q))
    BY <1>9, <1>12, GoodExtensions
  <2>2. p.kind = "position" /\ e.b # 0
    BY <1>8, <1>10, <1>12, <2>1 DEF Open
  <2>3. e = r
    BY <2>2 DEF AfterPacket
  <2>4. Configured(s, k + 1)
    BY <1>2, <1>4, <2>2, <2>3, ConfiguredIs
  <2>5. k + 1 \in 1..Len(s)
    BY <1>2
  <2>. QED
    BY <1>12, <2>2, <2>4, <2>5 DEF WellFormed
<1>. QED
  BY <1>3, <1>5, <1>6, <1>10, <1>11, <1>12 DEF Along

\* Some zeros.
LEMMA SomeZeros ==
    ASSUME NEW s, WellFormed(s), NEW k \in 0..(Len(s) - 1), NEW j, NEW off, NEW r, NEW c, NEW q,
           Along(s, off, r, c, q, k, j), Lines(q), s[k + 1].kind = "zeros", NEW n \in Nat \ {0},
           off + n <= Len(BytesOf(s)), \A i \in 1..n : BytesOf(s)[off + i].kind = "zeros"
    PROVE  /\ Queue(q \o <<Empties(n)>>) /\ Lines(q \o <<Empties(n)>>)
           /\ ReadSoFar(s, off + n, r, c, q \o <<Empties(n)>>)
<1>1. /\ Place(s, k, j, off, r) /\ Told(s, k, j, c, q) /\ RunsCounted(q)
      /\ Open(q) => (k < Len(s) => s[k + 1].kind = "bext")
  BY DEF Along, Told
<1>2. ~Open(q)
  <2>1. k < Len(s)
    BY WellFormedIs
  <2>. QED
    BY <1>1, <2>1
<1>3. PICK k2, j2 : Place(s, k2, j2, off + n, r) /\ Told(s, k2, j2, c, q \o ZerosRead(n))
  BY <1>1, ZerosOver
<1>. DEFINE z == Empties(n)  t == <<z>>
<1>4. ZerosRead(n) = t
  BY DEF ZerosRead
<1>5. z.record = "LFILEMPTY"
  BY DEF Empties
<1>. HIDE DEF z
<1>6. Queue(t) /\ t # <<>> /\ Len(t) = 1 /\ DOMAIN t = {1} /\ t[1] = z
  BY OneOrTwo DEF Queue
<1>7. Lines(t) /\ ~Open(t)
  BY <1>5, <1>6 DEF Lines, Open
<1>8. Lines(q \o t) /\ ~Open(q \o t)
  <2>. HIDE DEF t
  <2>. QED
    BY <1>1, <1>2, <1>6, <1>7, LinesTogether DEF RunsCounted
<1>9. Queue(q \o t)
  BY <1>3, <1>4 DEF Told, RunsCounted
<1>. HIDE DEF t
<1>10. Along(s, off + n, r, c, q \o t, k2, j2)
  BY <1>3, <1>4, <1>8 DEF Along
<1>. QED
  BY <1>8, <1>9, <1>10 DEF ReadSoFar, t, z

\* What is left when n bytes more have been consumed.
Shorter(u, v, n) == /\ Len(u) \in Nat /\ Len(v) \in Nat /\ Len(v) = Len(u) - n
                    /\ \A m \in 1..Len(v) : m + n \in 1..Len(u) /\ v[m] = u[m + n]

LEMMA Dropped ==
    ASSUME NEW R, NEW b \in Seq(R), NEW i \in Seq(R), NEW c \in 0..Len(b), NEW n \in 1..(Len(b) - c)
    PROVE  Shorter(SubSeq(b, c + 1, Len(b)) \o i, SubSeq(b, c + n + 1, Len(b)) \o i, n)
<1>. DEFINE u == SubSeq(b, c + 1, Len(b)) \o i  v == SubSeq(b, c + n + 1, Len(b)) \o i
<1>1. Len(b) \in Nat /\ Len(i) \in Nat /\ c + n \in 0..Len(b) /\ c \in Nat /\ n \in Nat
  BY LenProperties
<1>. DEFINE g == SubSeq(b, c + 1, Len(b))  h == SubSeq(b, c + n + 1, Len(b))
<1>2. \A m \in 1..Len(b) : b[m] \in R
  BY ElementOfSeq
<1>3. /\ g \in Seq(R) /\ Len(g) = Len(b) - c
      /\ \A m \in 1..(Len(b) - c) : g[m] = b[c + m]
  <2>. DEFINE m1 == c + 1  l == Len(b)
  <2>1. m1 \in Int /\ l \in Int /\ \A m \in m1..l : b[m] \in R
    BY <1>1, <1>2
  <2>2. /\ SubSeq(b, m1, l) \in Seq(R) /\ Len(SubSeq(b, m1, l)) = IF m1 <= l THEN l - m1 + 1 ELSE 0
        /\ \A m \in 1..(l - m1 + 1) : SubSeq(b, m1, l)[m] = b[m1 + m - 1]
    <3>. HIDE DEF m1, l
    <3>. QED
      BY ONLY <2>1, SubSeqProperties
  <2>3. l - m1 + 1 = Len(b) - c /\ (IF m1 <= l THEN l - m1 + 1 ELSE 0) = Len(b) - c
    BY <1>1
  <2>4. \A m \in 1..(Len(b) - c) : m1 + m - 1 = c + m
    BY <1>1
  <2>. QED
    BY <2>2, <2>3, <2>4
<1>4. /\ h \in Seq(R) /\ Len(h) = Len(b) - (c + n)
      /\ \A m \in 1..(Len(b) - (c + n)) : h[m] = b[c + n + m]
  <2>. DEFINE m1 == c + n + 1  l == Len(b)
  <2>1. m1 \in Int /\ l \in Int /\ \A m \in m1..l : b[m] \in R
    BY <1>1, <1>2
  <2>2. /\ SubSeq(b, m1, l) \in Seq(R) /\ Len(SubSeq(b, m1, l)) = IF m1 <= l THEN l - m1 + 1 ELSE 0
        /\ \A m \in 1..(l - m1 + 1) : SubSeq(b, m1, l)[m] = b[m1 + m - 1]
    <3>. HIDE DEF m1, l
    <3>. QED
      BY ONLY <2>1, SubSeqProperties
  <2>3. l - m1 + 1 = Len(b) - (c + n) /\ (IF m1 <= l THEN l - m1 + 1 ELSE 0) = Len(b) - (c + n)
    BY <1>1
  <2>4. \A m \in 1..(Len(b) - (c + n)) : m1 + m - 1 = c + n + m
    BY <1>1
  <2>. QED
    BY <2>2, <2>3, <2>4
<1>7. u = g \o i /\ v = h \o i
  OBVIOUS
<1>. HIDE DEF g, h, u, v
<1>5. /\ Len(g \o i) = Len(g) + Len(i)
      /\ \A m \in 1..(Len(g) + Len(i)) : (g \o i)[m] = IF m <= Len(g) THEN g[m] ELSE i[m - Len(g)]
  BY ONLY <1>3, i \in Seq(R), ConcatProperties
<1>6. /\ Len(h \o i) = Len(h) + Len(i)
      /\ \A m \in 1..(Len(h) + Len(i)) : (h \o i)[m] = IF m <= Len(h) THEN h[m] ELSE i[m - Len(h)]
  BY ONLY <1>4, i \in Seq(R), ConcatProperties
<1>8. Len(u) = Len(b) - c + Len(i) /\ Len(v) = Len(b) - (c + n) + Len(i)
  BY <1>3, <1>4, <1>5, <1>6, <1>7
<1>9. ASSUME NEW m \in 1..Len(v)
      PROVE  m + n \in 1..Len(u) /\ v[m] = u[m + n]
  <2>1. m + n \in 1..Len(u) /\ m \in 1..(Len(h) + Len(i)) /\ m + n \in 1..(Len(g) + Len(i))
    <3>. DEFINE B == Len(b)  I == Len(i)  G == Len(g)  H == Len(h)  U == Len(u)  V == Len(v)
    <3>1. /\ B \in Nat /\ I \in Nat /\ c \in Nat /\ n \in Nat \ {0} /\ c + n <= B
          /\ G = B - c /\ H = B - (c + n) /\ U = B - c + I /\ V = B - (c + n) + I /\ m \in 1..V
      BY <1>1, <1>3, <1>4, <1>8
    <3>. HIDE DEF B, I, G, H, U, V
    <3>2. m + n \in 1..U /\ m \in 1..(H + I) /\ m + n \in 1..(G + I)
      BY ONLY <3>1
    <3>. QED
      BY <3>2 DEF U, H, I, G
  <2>2. CASE m <= Len(h)
    <3>1. m \in 1..(Len(b) - (c + n)) /\ m + n \in 1..(Len(b) - c) /\ m + n <= Len(g) /\ c + n + m = c + (m + n)
      BY <1>1, <1>3, <1>4, <2>2, SMTT(60)
    <3>2. v[m] = h[m] /\ u[m + n] = g[m + n]
      BY <1>5, <1>6, <1>7, <2>1, <2>2, <3>1
    <3>3. h[m] = b[c + n + m] /\ g[m + n] = b[c + (m + n)]
      BY <1>3, <1>4, <3>1
    <3>. QED
      BY <2>1, <3>1, <3>2, <3>3
  <2>3. CASE ~(m <= Len(h))
    <3>1. ~(m + n <= Len(g)) /\ m - Len(h) = m + n - Len(g)
      BY <1>1, <1>3, <1>4, <2>3
    <3>. DEFINE a == m + n  l == m - Len(h)
    <3>2. v[m] = i[l]
      BY <1>6, <1>7, <2>1, <2>3
    <3>3. u[a] = i[a - Len(g)]
      <4>1. a \in 1..(Len(g) + Len(i)) /\ ~(a <= Len(g))
        BY <2>1, <3>1
      <4>. HIDE DEF a
      <4>. QED
        BY <1>5, <1>7, <4>1
    <3>4. a - Len(g) = l
      BY <3>1
    <3>. HIDE DEF l
    <3>. QED
      BY <2>1, <3>2, <3>3, <3>4
  <2>. QED
    BY <2>2, <2>3
<1>10. Len(u) \in Nat /\ Len(v) \in Nat /\ Len(v) = Len(u) - n
  <2>. DEFINE l == Len(b)  k == Len(i)  x == Len(u)  y == Len(v)
  <2>1. l \in Nat /\ k \in Nat /\ c \in Nat /\ n \in Nat /\ c + n <= l /\ x = l - c + k /\ y = l - (c + n) + k
    BY <1>1, <1>8
  <2>. HIDE DEF l, k, x, y
  <2>2. x \in Nat /\ y \in Nat /\ y = x - n
    BY ONLY <2>1
  <2>. QED
    BY <2>2 DEF x, y
<1>. QED
  BY <1>9, <1>10 DEF Shorter, u, v

LEMMA ReadOn ==
    ASSUME LxnTypes, Tailing(lxn, Unread), NEW n \in 1..Len(Remaining), UNCHANGED <<lxn, buffer, input>>,
           consumed' = consumed + n, Position(lxn, Unread) \in Nat
    PROVE  /\ Tailing(lxn', Unread') /\ Position(lxn', Unread') = Position(lxn, Unread) + n
           /\ consumed' \in 0..Len(buffer)
<1>1. /\ buffer \in Seq(Bytes) /\ input \in Seq(Bytes) /\ consumed \in 0..Len(buffer)
      /\ Len(Remaining) = Len(buffer) - consumed /\ Len(buffer) \in Nat /\ lxn \in Files
  BY RestIs DEF LxnTypes
<1>2. n \in 1..(Len(buffer) - consumed) /\ consumed' \in 0..Len(buffer)
  BY <1>1
<1>. DEFINE u == Unread  v == Unread'
<1>3. u = SubSeq(buffer, consumed + 1, Len(buffer)) \o input
  BY DEF Unread, Remaining
<1>4. v = SubSeq(buffer, consumed + n + 1, Len(buffer)) \o input
  BY DEF Unread, Remaining
<1>. HIDE DEF u, v
<1>11. Shorter(u, v, n)
  <2>1. Shorter(SubSeq(buffer, consumed + 1, Len(buffer)) \o input,
                SubSeq(buffer, consumed + n + 1, Len(buffer)) \o input, n)
    BY ONLY <1>1, <1>2, Dropped
  <2>. QED
    BY <1>3, <1>4, <2>1
<1>5. /\ Len(u) \in Nat /\ Len(v) \in Nat /\ Len(v) = Len(u) - n
      /\ \A m \in 1..Len(v) : m + n \in 1..Len(u) /\ v[m] = u[m + n]
  BY <1>11 DEF Shorter
<1>. DEFINE B == BytesOf(lxn.packets)  off == Position(lxn, u)  on == Position(lxn, v)
<1>6. off \in Nat /\ off = Len(B) - lxn.missing - Len(u) /\ on = Len(B) - lxn.missing - Len(v)
      /\ \A m \in 1..Len(u) : u[m] = B[off + m]
  BY DEF Position, Tailing, u
<1>7. Len(B) \in Nat /\ lxn.missing \in Nat
  BY <1>1, FileIs
<1>. HIDE DEF B, off, on
<1>8. on = off + n
  <2>. DEFINE t == Len(B)  g == lxn.missing  a == Len(u)  d == Len(v)
  <2>1. t \in Nat /\ g \in Nat /\ a \in Nat /\ d \in Nat /\ d = a - n /\ off = t - g - a /\ on = t - g - d
        /\ off \in Nat /\ n \in Nat
    BY <1>5, <1>6, <1>7
  <2>. HIDE DEF t, g, a, d
  <2>. QED
    BY ONLY <2>1
<1>9. \A m \in 1..Len(v) : v[m] = B[on + m]
  <2>1. \A m \in 1..Len(v) : v[m] = B[off + (m + n)]
    BY <1>5, <1>6
  <2>2. \A m \in 1..Len(v) : off + (m + n) = on + m
    BY <1>5, <1>6, <1>8, SMTT(60)
  <2>. QED
    BY <2>1, <2>2
<1>10. Tailing(lxn, v)
  BY <1>9 DEF Tailing, B, on
<1>. QED
  BY <1>2, <1>8, <1>10 DEF off, on, u, v

\* What a round of the loop starts from.
Round(s, off, k, j) ==
    /\ WellFormed(s) /\ Along(s, off, reader, conv, records, k, j)
    /\ off = Position(lxn, Unread) /\ off \in Nat /\ off < Len(BytesOf(s)) /\ Len(BytesOf(s)) \in Nat
    /\ \A i \in 1..Len(Remaining) : off + i <= Len(BytesOf(s)) /\ Remaining[i] = BytesOf(s)[off + i]
    /\ k \in 0..(Len(s) - 1) /\ s[k + 1] \in Packets /\ Head(Remaining).kind = s[k + 1].kind
    /\ s[k + 1].kind # "zeros" => j = 0 /\ Head(Remaining) = s[k + 1]

LEMMA RoundStarts ==
    ASSUME LxnTypes, Reading, Remaining # <<>>
    PROVE  \E k, j : Round(lxn.packets, Position(lxn, Unread), k, j)
<1>. DEFINE s == lxn.packets  off == Position(lxn, Unread)
<1>1. Tailing(lxn, Unread)
  BY DEF Reading
<1>2. PICK k, j : Along(s, off, reader, conv, records, k, j)
  BY DEF Reading, ReadSoFar
<1>3. Place(s, k, j, off, reader)
  BY <1>2 DEF Along
<1>4. /\ WellFormed(s) /\ off \in Nat /\ Len(BytesOf(s)) \in Nat /\ lxn.missing \in Nat
      /\ off + Len(Unread) = Len(BytesOf(s)) - lxn.missing
      /\ \A i \in 1..Len(Remaining) : Remaining[i] = BytesOf(s)[off + i]
      /\ off < Len(BytesOf(s))
      /\ k \in 0..(Len(s) - 1) /\ s[k + 1] \in Packets
      /\ Head(Remaining).kind = s[k + 1].kind
      /\ s[k + 1].kind # "zeros" => j = 0 /\ Head(Remaining) = s[k + 1]
  BY <1>1, <1>3, NextByte
<1>5. Len(Unread) = Len(Remaining) + Len(input) /\ Len(Remaining) \in Nat /\ Len(input) \in Nat
  BY RestIs
<1>6. \A i \in 1..Len(Remaining) : off + i <= Len(BytesOf(s))
  <2>. DEFINE T == Len(BytesOf(s))  m == lxn.missing  l == Len(Remaining)  a == Len(input)
  <2>1. T \in Nat /\ m \in Nat /\ l \in Nat /\ a \in Nat /\ off \in Nat /\ off + (l + a) = T - m
    BY <1>4, <1>5
  <2>. HIDE DEF T, m, l, a, off
  <2>2. \A i \in 1..l : off + i <= T
    BY ONLY <2>1
  <2>. QED
    BY <2>2 DEF T, l
<1>. HIDE DEF s, off
<1>7. Round(s, off, k, j)
  BY <1>2, <1>4, <1>6 DEF Round, off
<1>. QED
  BY <1>7 DEF s, off

\* A packet that is good takes the loop on.
LEMMA OnwardKeeps ==
    ASSUME LxnInv, stage = "process", Remaining # <<>>, NEW n \in 1..Len(Remaining), UNCHANGED reading,
           consumed' = consumed + n, reader' \in Readers, Queue(records'), Lines(records'),
           \/ stage' = "process" /\ ReadSoFar(lxn.packets, Position(lxn, Unread) + n, reader', conv', records')
           \/ stage' = "exit 2" /\ kept' = FALSE
    PROVE  LxnInv'
<1>1. /\ LxnTypes /\ Reading /\ (eof => input = <<>>) /\ buffer # <<>>
      /\ lxn.pipe \/ Len(buffer) = Room \/ input = <<>>
      /\ UNCHANGED <<lxn, input, buffer, eof>>
  BY DEF LxnInv, reading
<1>2. PICK k, j : Round(lxn.packets, Position(lxn, Unread), k, j)
  BY <1>1, RoundStarts
<1>3. Position(lxn, Unread) \in Nat /\ Tailing(lxn, Unread)
  BY <1>1, <1>2 DEF Round, Reading
<1>4. /\ Tailing(lxn', Unread') /\ Position(lxn', Unread') = Position(lxn, Unread) + n
      /\ consumed' \in 0..Len(buffer)
  BY <1>1, <1>3, ReadOn
<1>5. LxnTypes'
  BY <1>1, <1>4 DEF LxnTypes, Lines
<1>6. CASE stage' = "exit 2" /\ kept' = FALSE
  BY <1>1, <1>5, <1>6 DEF LxnInv, ChunksDoNotMatter, AssertionHolds, NothingHalfDone
<1>7. CASE stage' = "process" /\ ReadSoFar(lxn.packets, Position(lxn, Unread) + n, reader', conv', records')
  <2>1. Reading'
    BY <1>1, <1>4, <1>7 DEF Reading
  <2>. QED
    BY <1>1, <1>5, <1>7, <2>1 DEF LxnInv, ChunksDoNotMatter, AssertionHolds, NothingHalfDone
<1>. QED
  BY <1>6, <1>7

LEMMA ZerosConverted ==
    ASSUME NEW n, NEW r, NEW c
    PROVE  /\ AfterPacket(r, Packet("zeros", n)) = r
           /\ Convert(c, r, Packet("zeros", n)).conv = c /\ Convert(c, r, Packet("zeros", n)).good
           /\ Convert(c, r, Packet("zeros", n)).out = <<Empties(n)>>
<1>. DEFINE p == Packet("zeros", n)
<1>1. p.kind = "zeros" /\ p.value = n
  BY DEF Packet
<1>. HIDE DEF p
<1>2. AfterPacket(r, p) = r
  BY <1>1 DEF AfterPacket
<1>3. Convert(c, r, p).conv = c /\ Convert(c, r, p).good /\ Convert(c, r, p).out = <<Empties(n)>>
  BY <1>1, Outputs DEF Empties
<1>. QED
  BY <1>2, <1>3 DEF p

LEMMA ProcessKeeps ==
    ASSUME LxnInv, Process
    PROVE  LxnInv'
<1>. DEFINE s == lxn.packets  off == Position(lxn, Unread)
            n == get_packet_length(Remaining)  p == Found(n)  e == AfterPacket(reader, p)  y == Convert(conv, e, p)
<1>1. /\ stage = "process" /\ Remaining # <<>> /\ UNCHANGED reading
      /\ \/ n = 0 /\ Fail("exit 2") /\ UNCHANGED <<consumed, reader, conv, records>>
         \/ /\ n # 0 /\ n <= Len(Remaining) /\ reader' = e /\ conv' = y.conv /\ records' = records \o y.out
            /\ consumed' = IF p.kind = "end" THEN Len(buffer) ELSE consumed + n
            /\ IF y.good THEN stage' = (IF p.kind = "end" THEN "done" ELSE "process") /\ UNCHANGED kept
               ELSE Fail("exit 2")
  BY DEF Process
<1>2. LxnTypes /\ Reading /\ reader \in Readers /\ Queue(records) /\ Lines(records) /\ buffer \in Seq(Bytes)
      /\ UNCHANGED <<lxn, input, buffer, eof>>
  BY <1>1 DEF LxnInv, LxnTypes, reading
<1>3. PICK k, j : Round(s, off, k, j)
  BY <1>1, <1>2, RoundStarts
<1>4. /\ WellFormed(s) /\ Along(s, off, reader, conv, records, k, j)
      /\ off \in Nat /\ off < Len(BytesOf(s)) /\ Len(BytesOf(s)) \in Nat
      /\ \A i \in 1..Len(Remaining) : off + i <= Len(BytesOf(s)) /\ Remaining[i] = BytesOf(s)[off + i]
      /\ k \in 0..(Len(s) - 1) /\ s[k + 1] \in Packets /\ Head(Remaining).kind = s[k + 1].kind
      /\ s[k + 1].kind # "zeros" => j = 0 /\ Head(Remaining) = s[k + 1]
  BY <1>3 DEF Round
<1>5. Remaining \in Seq(Bytes) /\ Len(Remaining) \in Nat /\ Len(Remaining) # 0
  BY <1>1, <1>2, RestIs
<1>6. CASE n = 0 /\ Fail("exit 2") /\ UNCHANGED <<consumed, reader, conv, records>>
  <2>1. LxnTypes' /\ stage' = "exit 2" /\ kept' = FALSE /\ (eof' => input' = <<>>)
    BY <1>2, <1>6 DEF LxnTypes, Lines, Fail, LxnInv
  <2>. QED
    BY <2>1 DEF LxnInv, ChunksDoNotMatter, AssertionHolds, NothingHalfDone
<1>7. CASE /\ n <= Len(Remaining) /\ reader' = e /\ conv' = y.conv /\ records' = records \o y.out
           /\ consumed' = IF p.kind = "end" THEN Len(buffer) ELSE consumed + n
           /\ IF y.good THEN stage' = (IF p.kind = "end" THEN "done" ELSE "process") /\ UNCHANGED kept
              ELSE Fail("exit 2")
           /\ n # 0
  <2>1. CASE s[k + 1].kind = "zeros"
    <3>1. p = Packet("zeros", n)
      BY <1>4, <2>1 DEF Found
    <3>2. n \in 1..Len(Remaining) /\ \A i \in 1..n : Remaining[i].kind = "zeros"
      BY <1>1, <1>4, <1>5, <2>1, ZerosLength
    <3>3. e = reader /\ y.conv = conv /\ y.good /\ y.out = <<Empties(n)>> /\ p.kind = "zeros"
      <4>1. p.kind = "zeros"
        BY <3>1 DEF Packet
      <4>. HIDE DEF n, p
      <4>2. e = reader
        BY <3>1, ZerosConverted
      <4>3. y = Convert(conv, reader, p)
        BY <4>2
      <4>. HIDE DEF e, y
      <4>4. y = Convert(conv, reader, Packet("zeros", n))
        BY <3>1, <4>3
      <4>. QED
        BY <4>1, <4>2, <4>4, ZerosConverted
    <3>4. /\ reader' = reader /\ conv' = conv /\ records' = records \o <<Empties(n)>>
          /\ consumed' = consumed + n /\ stage' = "process"
      BY <1>7, <3>3
    <3>. HIDE DEF p, e, y, n
    <3>5. \A i \in 1..n : i \in 1..Len(Remaining)
      BY <1>5, <3>2
    <3>6. off + n <= Len(BytesOf(s)) /\ \A i \in 1..n : BytesOf(s)[off + i].kind = "zeros"
      BY <1>4, <3>2, <3>5
    <3>7. n \in Nat \ {0}
      BY <1>5, <3>2
    <3>. HIDE DEF s, off
    <3>8. /\ Queue(records \o <<Empties(n)>>) /\ Lines(records \o <<Empties(n)>>)
          /\ ReadSoFar(s, off + n, reader, conv, records \o <<Empties(n)>>)
      BY <1>2, <1>4, <2>1, <3>6, <3>7, SomeZeros
    <3>. QED
      BY <1>1, <1>2, <3>2, <3>4, <3>8, OnwardKeeps DEF s, off
  <2>2. CASE s[k + 1].kind # "zeros"
    <3>1. p = s[k + 1] /\ j = 0 /\ Head(Remaining) = s[k + 1]
      BY <1>4, <2>2 DEF Found
    <3>2. n = IF p.kind = "unknown" THEN 0
              ELSE IF p.kind = "end" THEN packet_lengths["end"] ELSE LengthOf(p, reader)
      <4>. DEFINE c == Head(Remaining)
      <4>1. c \in Packets /\ c.kind # "zeros"
        BY <1>4, <2>2, <3>1
      <4>. HIDE DEF c
      <4>2. n = IF c.kind = "unknown" THEN 0
                ELSE IF c.kind = "end" THEN packet_lengths["end"] ELSE LengthOf(c, reader)
        BY <1>2, <4>1, PacketLength DEF c
      <4>3. c = p
        BY <3>1 DEF c
      <4>. QED
        BY <4>2, <4>3
    <3>3. p \in Packets /\ p.kind # "zeros"
      BY <1>4, <2>2, <3>1
    <3>. HIDE DEF p, n
    <3>4. CASE p.kind = "end"
      <4>1. e \in Readers /\ e.end
        BY <1>2, <3>3, <3>4, PacketIs
      <4>2. y.out = <<>> /\ y.good
        <5>1. y = Convert(conv, e, p)
          OBVIOUS
        <5>. HIDE DEF e, y
        <5>. QED
          BY <3>4, <5>1, EndWritesNothing
      <4>. HIDE DEF e, y
      <4>3. records' = records /\ stage' = "done" /\ reader' = e /\ consumed' = Len(buffer) /\ UNCHANGED kept
        BY <1>2, <1>7, <3>4, <4>2, NoneMore DEF Queue
      <4>4. RunsJoined(records) = RunsJoined(Whole(s))
        <5>1. Told(s, k, 0, conv, records)
          BY <1>4, <3>1 DEF Along
        <5>2. s[k + 1].kind = "end"
          BY <3>1, <3>4
        <5>. QED
          BY <1>4, <5>1, <5>2, ToldEnd
      <4>5. LxnTypes'
        <5>1. Len(buffer) \in 0..Len(buffer)
          BY <1>2, LenProperties
        <5>. QED
          BY <1>2, <4>1, <4>3, <5>1 DEF LxnTypes, Lines
      <4>6. /\ reader'.end /\ RunsJoined(records') = RunsJoined(Whole(lxn'.packets))
            /\ stage' = "done" /\ (eof' => input' = <<>>)
        BY <1>2, <4>1, <4>3, <4>4 DEF LxnInv
      <4>. QED
        BY <4>5, <4>6 DEF LxnInv, ChunksDoNotMatter, AssertionHolds, NothingHalfDone
    <3>5. CASE p.kind # "end"
      <4>1. n = LengthOf(p, reader) /\ n \in Nat \ {0}
        <5>1. LengthOf(p, reader) \in Nat \ {0}
          BY <1>2, <3>3, PacketIs
        <5>. QED
          BY <1>7, <3>2, <3>5, <5>1
      <4>2. n \in 1..Len(Remaining)
        <5>1. n <= Len(Remaining)
          BY <1>7
        <5>. DEFINE l == Len(Remaining)
        <5>2. n \in Nat \ {0} /\ l \in Nat /\ n <= l
          BY <1>5, <4>1, <5>1
        <5>. HIDE DEF l
        <5>3. n \in 1..l
          BY ONLY <5>2
        <5>. QED
          BY <5>3 DEF l
      <4>3. /\ reader' = e /\ conv' = y.conv /\ records' = records \o y.out /\ consumed' = consumed + n
            /\ \/ y.good /\ stage' = "process"
               \/ ~y.good /\ stage' = "exit 2" /\ kept' = FALSE
        BY <1>7, <3>5 DEF Fail
      <4>. HIDE DEF s, off
      <4>4. /\ Queue(records \o y.out) /\ Lines(records \o y.out) /\ e \in Readers
            /\ y.good => Along(s, off + LengthOf(p, reader), e, y.conv, records \o y.out, k + 1, 0)
        <5>1. Along(s, off, reader, conv, records, k, 0) /\ p = s[k + 1] /\ p.kind \notin {"zeros", "end"}
          BY <1>4, <3>1, <3>3, <3>5
        <5>. QED
          BY <1>2, <1>4, <5>1, OnePacket
      <4>. HIDE DEF e, y
      <4>5. y.good => ReadSoFar(s, off + n, e, y.conv, records \o y.out)
        BY <4>1, <4>4 DEF ReadSoFar
      <4>. QED
        BY <1>1, <1>2, <4>2, <4>3, <4>4, <4>5, OnwardKeeps DEF s, off
    <3>. QED
      BY <3>4, <3>5
  <2>. QED
    BY <2>1, <2>2
<1>. QED
  BY <1>1, <1>6, <1>7

LEMMA LxnInvStays ==
    ASSUME LxnInv, UNCHANGED lxnvars
    PROVE  LxnInv'
<1>1. UNCHANGED <<lxn, input, buffer, eof, consumed, reader, conv, records, kept, stage>>
  BY DEF lxnvars, reading, writing
<1>2. LxnTypes'
  BY <1>1 DEF LxnInv, LxnTypes, Lines
<1>3. Unread' = Unread
  BY <1>1 DEF Unread, Remaining
<1>4. stage' \in {"read", "process", "loop"} => Reading'
  BY <1>1, <1>3, ReadingStays DEF LxnInv
<1>. QED
  BY <1>1, <1>2, <1>4 DEF LxnInv, ChunksDoNotMatter, AssertionHolds, NothingHalfDone

LEMMA LxnInvNext ==
    ASSUME LxnInv, LxnNext
    PROVE  LxnInv'
BY FillKeeps, ProcessKeeps, AgainKeeps, LoopKeeps, CloseKeeps DEF LxnNext

\* When the other converter runs there is no file for lxn2igc.
FlightInv == LxnInv \/ (stage = "not run" /\ records = <<>>)

LEMMA FlightInvAlways == FlightSpec => []FlightInv
<1>1. FlightInit => FlightInv
  BY LxnInvInit DEF FlightInit, FlightInv, NoLxn
<1>2. ASSUME FlightInv, [FlightNext]_<<lxnvars, zanvars>>
      PROVE  FlightInv'
  <2>1. CASE stage = "not run" /\ records = <<>>
    <3>1. ~LxnNext
      BY <2>1 DEF LxnNext, Fill, Process, Again, Loop, CloseFilter
    <3>2. UNCHANGED lxnvars
      BY <1>2, <3>1 DEF FlightNext
    <3>. QED
      BY <2>1, <3>2 DEF FlightInv, lxnvars, writing
  <2>2. CASE LxnInv
    <3>1. LxnNext \/ UNCHANGED lxnvars
      BY <1>2 DEF FlightNext
    <3>. QED
      BY <2>2, <3>1, LxnInvNext, LxnInvStays DEF FlightInv
  <2>. QED
    BY <1>2, <2>1, <2>2 DEF FlightInv
<1>. QED
  BY <1>1, <1>2, PTL DEF FlightSpec

(* The runs of zeros of records that lxn2igc has written are joined to the ones *)
(* that the conversion of the whole file at once writes, however the read()s of *)
(* run() cut the file: between packets, within one, or within a run of zeros.   *)
THEOREM ChunksNeverMatter == FlightSpec => []ChunksDoNotMatter
<1>1. FlightInv => ChunksDoNotMatter
  BY DEF FlightInv, LxnInv, ChunksDoNotMatter
<1>. QED
  BY <1>1, FlightInvAlways, PTL

(* No record of an .igc file begins on the line of a B record: handle_position   *)
(* ends the line itself unless an extension packet follows that does.             *)
THEOREM LinesAlwaysWhole == FlightSpec => []LinesAreWhole
<1>1. FlightInv => LinesAreWhole
  <2>1. CASE LxnInv
    BY <2>1 DEF LxnInv, LxnTypes, Lines, LinesAreWhole
  <2>2. CASE records = <<>>
    <3>1. DOMAIN records = {}
      BY <2>2
    <3>. QED
      BY <3>1 DEF LinesAreWhole
  <2>. QED
    BY <2>1, <2>2 DEF FlightInv
<1>. QED
  BY <1>1, FlightInvAlways, PTL

(* assert(consumed > 0) of run(): the full buffer, and what read() has brought  *)
(* of a whole file that is no pipe, always have a packet that is complete.      *)
THEOREM AssertionAlwaysHolds == FlightSpec => []AssertionHolds
<1>1. FlightInv => AssertionHolds
  BY DEF FlightInv, LxnInv, AssertionHolds
<1>. QED
  BY <1>1, FlightInvAlways, PTL

(* A conversion that fails leaves no .igc file, but for a file that is at its    *)
(* end without its LXN_END.                                                       *)
THEOREM NothingIsHalfDone == FlightSpec => []NothingHalfDone
<1>1. FlightInv => NothingHalfDone
  BY DEF FlightInv, LxnInv, NothingHalfDone
<1>. QED
  BY <1>1, FlightInvAlways, PTL
=============================================================================
