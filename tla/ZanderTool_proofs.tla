--------------------------- MODULE ZanderTool_proofs ---------------------------
(***************************************************************************)
(* What zander_address_difference computes, for every ring; and that the   *)
(* flights downloaded from a Zander device are whole and its answers never *)
(* mix, whatever programs talked to it before, and that zander-tool shows  *)
(* the answers to its questions, for every ring, list, loss and number of  *)
(* programs.                                                               *)
(*                                                                         *)
(* The wire has no frames, so the argument is one about lengths: at any    *)
(* time one request at the most is unanswered, its answer is as long as    *)
(* what zander_read waits for, or shorter, and it is whole when it is as   *)
(* long.  Of a file the answer shows, the argument goes through the queue:  *)
(* every write in it is whole and is the last or has another behind it.    *)
(***************************************************************************)
EXTENDS ZanderTool, SequenceLemmas, TLAPS

\* What % is below twice the modulus.
LEMMA ModOfSmall ==
    ASSUME NEW n \in Nat \ {0}, NEW x \in Nat, x < 2 * n
    PROVE  x % n = IF x < n THEN x ELSE x - n
<1>1. /\ x % n \in 0..n - 1
      /\ x = n * (x \div n) + (x % n)
      /\ x \div n \in Int
  OBVIOUS
<1> DEFINE q == x \div n
<1>2. q >= 0 /\ q <= 1
  <2>1. n * q > -n /\ n * q < 2 * n  BY <1>1
  <2>2. ASSUME q <= -1 PROVE FALSE
    <3>1. n * q <= n * (-1)  BY <1>1, <2>2
    <3> QED BY <2>1, <3>1
  <2>3. ASSUME q >= 2 PROVE FALSE
    <3>1. n * q >= n * 2  BY <1>1, <2>3
    <3> QED BY <2>1, <3>1
  <2> QED BY <1>1, <2>2, <2>3
<1>3. CASE q = 0  BY <1>1, <1>3
<1>4. CASE q = 1  BY <1>1, <1>4
<1> QED BY <1>1, <1>2, <1>3, <1>4

\* For two valid addresses zander_address_difference is how many steps the
\* second lies behind the first on the ring, and less than the whole ring: the
\* memory download_flight asks for begins at memory_start, ends at memory_end
\* and contains no byte twice.
THEOREM DifferenceIsDistance ==
    ASSUME NEW a \in Nat, NEW b \in Nat,
           zander_address_valid(a), zander_address_valid(b)
    PROVE  /\ zander_address_difference(a, b) \in 0..RingSize - 1
           /\ Step(a, zander_address_difference(a, b)) = b
           /\ flight_length(a, b) \in 1..RingSize
<1> DEFINE d == zander_address_difference(a, b)
<1>1. /\ First \in Nat /\ Limit \in Nat /\ RingSize \in Nat \ {0}
      /\ a - First \in 0..RingSize - 1 /\ b - First \in 0..RingSize - 1
  BY RingAssumption DEF RingSize, zander_address_valid
<1>2. d = (b - First) - (a - First) + (IF a <= b THEN 0 ELSE RingSize)
  BY <1>1 DEF zander_address_difference
<1>3. d \in 0..RingSize - 1
  BY <1>1, <1>2
<1>4. Step(a, d) = b
  <2>1. a - First + d \in Nat /\ a - First + d < 2 * RingSize
    BY <1>1, <1>3
  <2>2. a - First + d = (b - First) + (IF a <= b THEN 0 ELSE RingSize)
    BY <1>1, <1>2, <1>3
  <2>3. (a - First + d) % RingSize = b - First
    BY <1>1, <2>1, <2>2, ModOfSmall
  <2> QED BY <1>1, <2>3 DEF Step
<1> QED BY <1>1, <1>3, <1>4 DEF flight_length

\* There is one way from an address to another that is shorter than the ring.
LEMMA OneWay ==
    ASSUME NEW a \in Nat, zander_address_valid(a), NEW k \in 0..RingSize - 1, NEW m \in 0..RingSize - 1,
           Step(a, k) = Step(a, m)
    PROVE  k = m
<1>. DEFINE x == a - First + k  y == a - First + m
<1>1. First \in Nat /\ RingSize \in Nat \ {0} /\ a - First \in Nat /\ a - First < RingSize
  BY RingAssumption DEF RingSize, zander_address_valid
<1>2. x \in Nat /\ x < 2 * RingSize /\ y \in Nat /\ y < 2 * RingSize
  BY <1>1
<1>3. First + (x % RingSize) = First + (y % RingSize)
  BY DEF Step
<1>. HIDE DEF x, y
<1>4. /\ x % RingSize = IF x < RingSize THEN x ELSE x - RingSize
      /\ y % RingSize = IF y < RingSize THEN y ELSE y - RingSize
  BY <1>1, <1>2, ModOfSmall
<1>5. x % RingSize = y % RingSize
  <2>1. x % RingSize \in Int /\ y % RingSize \in Int
    BY <1>1, <1>2, <1>4
  <2>. DEFINE u == x % RingSize  v == y % RingSize
  <2>2. First + u = First + v
    BY <1>3
  <2>. HIDE DEF u, v
  <2>3. ASSUME u \in Int, v \in Int
        PROVE  u = v
    BY <1>1, <2>2, <2>3
  <2>. QED
    BY <2>1, <2>3 DEF u, v
<1>6. x = y \/ x = y + RingSize \/ y = x + RingSize
  BY <1>1, <1>2, <1>4, <1>5
<1>7. x - y = k - m /\ k - m < RingSize /\ m - k < RingSize
  BY <1>1 DEF x, y
<1>8. x = y
  BY <1>1, <1>2, <1>6, <1>7
<1>. QED
  BY <1>1, <1>8 DEF x, y

-----------------------------------------------------------------------------
(* What there is no answer to, and how long the answer to anything else is *)
(* at the most.                                                            *)
Mutes == {"data", "address", "WRITE_PERSONAL_DATA", "WRITE_TASK"}

Size(r) == CASE r.cmd = "READ_MEMORY" -> r.length
             [] r.cmd = "READ_PERSONAL_DATA" -> Chunks
             [] r.cmd = "READ_TASK" -> Chunks + 1
             [] OTHER -> 1

\* One request, and as many bytes as its answer has, or more.
Proper(q) == \E r : q.items = <<r>> /\ Size(r) \in 1..q.bytes

\* zander_read is at work, or has what it wants.
Busy == pc \in {"serial", "list", "memory", "answer"}

Length(n) == flight_length(Flights[n][1], Flights[n][2])
Valid(n) == /\ n \in DOMAIN Flights
            /\ zander_address_valid(Flights[n][1]) /\ zander_address_valid(Flights[n][2])
Flight(n) == [i \in 1..Length(n) |-> Byte("memory", Step(Flights[n][1], i - 1))]
FlightRequest(n) == [cmd |-> "READ_MEMORY", start |-> Flights[n][1], length |-> Length(n)]

(* The inductive invariant.                                                *)

\* The queues.  "raw" leaves to the device whatever the user typed.
Sequenced == /\ got \in Seq(ToSet(got)) /\ script \in Seq(ToSet(script)) /\ shown \in Seq(ToSet(shown))
             /\ pc # "raw" => wire \in Seq(ToSet(wire))
             /\ alive /\ pc # "raw" => request \in Seq(ToSet(request))

\* A logger does not exit and its files are whole.
Kept == DOMAIN files = Names /\ (device = "logger" => alive /\ \A n \in Names : Len(files[n]) = Chunks)

\* No more comes than is wanted, and nothing while nothing is.
Room == /\ want \in Nat
        /\ Busy => want >= 1 /\ Len(got) + Len(wire) <= want
        /\ ~Busy /\ pc # "raw" => wire = <<>>

\* One request at the most is to be answered, the last one, and its answer
\* is what zander_read waits for.
Pending == alive /\ pc # "raw" => \A i \in DOMAIN request :
             \/ request[i].cmd \in Mutes
             \/ /\ Busy /\ i = Len(request) /\ Size(request[i]) \in 1..want
                /\ pc = "memory" => request[i] = FlightRequest(wanted)

\* It is gone, and the others before it, when an answer has begun.
Emptied == alive /\ ((Busy /\ (got # <<>> \/ wire # <<>>)) \/ pc \in {"prompt", "ok", "failed"})
             => request = <<>>

\* Each step of a command is one request with an answer, but for the last of "raw".
Scripted ==
    /\ \A k \in DOMAIN script :
         script[k].bytes \in Nat /\ (Proper(script[k]) \/ (command = "raw" /\ k = Len(script)))
    /\ command = "battery" /\ shown = <<>> => script = cmd_battery
    /\ pc = "answer" => script # <<>>

\* What has come for a flight, with what is on its way, is the flight, unless
\* it is too short.
Flying == pc = "memory" =>
            /\ Valid(wanted) /\ want = Length(wanted)
            /\ \/ got \o wire = Flight(wanted)
               \/ Len(got \o wire) < want
               \/ device = "fakezander" /\ want = 1

Filed == file.flight # 0 =>
           /\ Valid(file.flight)
           /\ device = "logger" \/ Length(file.flight) # 1 => file.bytes = Flight(file.flight)

IInv == Sequenced /\ Kept /\ Room /\ Pending /\ Emptied /\ Scripted /\ Flying /\ Filed

-----------------------------------------------------------------------------
(* Lemmas about requests and answers.                                      *)
LEMMA Sizes ==
    ASSUME NEW r
    PROVE  /\ r.cmd = "READ_MEMORY" => Size(r) = r.length
           /\ r.cmd = "READ_PERSONAL_DATA" => Size(r) = Chunks
           /\ r.cmd = "READ_TASK" => Size(r) = Chunks + 1
           /\ r.cmd \in {"READ_SERIAL", "READ_LI_BATTERY", "READ_9V_BATTERY"} => Size(r) = 1
BY DEF Size

\* A function on the first n numbers is a sequence.
LEMMA Table ==
    ASSUME NEW n \in Nat, NEW F, F = [i \in 1..n |-> F[i]]
    PROVE  F \in Seq(ToSet(F)) /\ Len(F) = n /\ DOMAIN F = 1..n
<1>1. DOMAIN F = 1..n /\ F \in [1..n -> ToSet(F)]
  BY DEF ToSet
<1>2. F \in Seq(ToSet(F))
  BY <1>1, SeqDef
<1>3. Len(F) \in Nat /\ 1..Len(F) = 1..n
  BY <1>1, <1>2, LenProperties
<1>4. Len(F) = n
  BY <1>3
<1>. QED
  BY <1>1, <1>2, <1>4

\* A length that is at least one is a valid flight's.
LEMMA Lengths ==
    ASSUME NEW n, Valid(n)
    PROVE  /\ Flights[n][1] \in Nat /\ Flights[n][2] \in Nat /\ Flights[n][1] >= First
           /\ Length(n) \in 1..RingSize /\ Length(n) \in Nat /\ RingSize \in Nat
           /\ Flight(n) \in Seq(ToSet(Flight(n))) /\ Len(Flight(n)) = Length(n)
<1>1. Flights[n][1] \in Nat /\ Flights[n][2] \in Nat
  <2>1. Flights[n] \in Nat \X Nat
    BY SessionAssumption DEF Valid
  <2>. QED
    BY <2>1
<1>2. Flights[n][1] >= First
  BY DEF Valid, zander_address_valid
<1>3. RingSize \in Nat
  BY RingAssumption DEF RingSize
<1>4. Length(n) \in 1..RingSize
  BY <1>1, DifferenceIsDistance DEF Valid, Length
<1>5. Length(n) \in Nat
  BY <1>3, <1>4
<1>6. Flight(n) \in Seq(ToSet(Flight(n))) /\ Len(Flight(n)) = Length(n)
  <2>. DEFINE F == Flight(n)
  <2>1. F = [i \in 1..Length(n) |-> F[i]]
    BY DEF Flight
  <2>. HIDE DEF F
  <2>2. F \in Seq(ToSet(F)) /\ Len(F) = Length(n)
    BY <1>5, <2>1, Table
  <2>. QED
    BY <2>2 DEF F
<1>. QED
  BY <1>1, <1>2, <1>3, <1>4, <1>5, <1>6

\* Fewer requests, in the order they were in: the last one of those that are
\* left was the last one or is behind none that was.
Fewer(t, s) == /\ t \in Seq(ToSet(t)) /\ (s = <<>> => t = <<>>)
               /\ \A j \in DOMAIN t : \E i \in DOMAIN s : t[j] = s[i] /\ (i = Len(s) => j = Len(t))

LEMMA FewerRequests ==
    ASSUME NEW s, s \in Seq(ToSet(s))
    PROVE  /\ Fewer(s, s)
           /\ s # <<>> => Fewer(Tail(s), s)
           /\ \A k \in 0..Len(s) : Fewer(SubSeq(s, k + 1, Len(s)), s)
           /\ \A i \in 1..Len(s) : Fewer(RemoveAt(s, i), s)
<1>0. Len(s) \in Nat /\ DOMAIN s = 1..Len(s)
  BY LenProperties
<1>1. Fewer(s, s)
  BY DEF Fewer
<1>2. ASSUME NEW k \in 0..Len(s)
      PROVE  Fewer(SubSeq(s, k + 1, Len(s)), s)
  <2>. DEFINE t == SubSeq(s, k + 1, Len(s))
  <2>1. /\ t \in Seq(ToSet(t)) /\ Len(t) = Len(s) - k /\ DOMAIN t = 1..Len(t)
        /\ \A i \in DOMAIN t : k + i \in DOMAIN s /\ t[i] = s[k + i]
    BY Rest
  <2>. HIDE DEF t
  <2>2. ASSUME NEW j \in DOMAIN t
        PROVE  \E i \in DOMAIN s : t[j] = s[i] /\ (i = Len(s) => j = Len(t))
    <3>1. k + j = Len(s) => j = Len(t)
      BY <1>0, <2>1
    <3>. QED
      BY <2>1, <3>1
  <2>3. s = <<>> => t = <<>>
    <3>. SUFFICES ASSUME s = <<>> PROVE t = <<>>
      OBVIOUS
    <3>1. Len(t) = 0
      BY <1>0, <2>1
    <3>. QED
      BY <2>1, <3>1, EmptySeq
  <2>4. Fewer(t, s)
    BY <2>1, <2>2, <2>3 DEF Fewer
  <2>. QED
    BY <2>4 DEF t
<1>3. ASSUME s # <<>>
      PROVE  Fewer(Tail(s), s)
  <2>1. Len(s) >= 1
    BY <1>3, Others
  <2>2. 1 \in 0..Len(s) /\ 1 + 1 = 2
    BY <1>0, <2>1
  <2>3. Tail(s) = SubSeq(s, 1 + 1, Len(s))
    BY <1>3, <2>2, TailIsSubSeq
  <2>. QED
    BY <1>2, <2>2, <2>3
<1>4. ASSUME NEW i \in 1..Len(s)
      PROVE  Fewer(RemoveAt(s, i), s)
  <2>. DEFINE t == RemoveAt(s, i)
  <2>1. /\ t \in Seq(ToSet(t)) /\ Len(t) = Len(s) - 1 /\ DOMAIN t = 1..Len(t)
        /\ \A j \in DOMAIN t : \/ j \in DOMAIN s /\ j < i /\ t[j] = s[j]
                               \/ j + 1 \in DOMAIN s /\ j + 1 > i /\ t[j] = s[j + 1]
    BY Without
  <2>. HIDE DEF t
  <2>2. ASSUME NEW j \in DOMAIN t
        PROVE  \E k \in DOMAIN s : t[j] = s[k] /\ (k = Len(s) => j = Len(t))
    <3>1. j \in Nat /\ (j < i => j # Len(s)) /\ (j + 1 = Len(s) => j = Len(t))
      BY <1>0, <2>1
    <3>. QED
      BY <2>1, <3>1
  <2>3. s # <<>>
    BY <1>0
  <2>4. Fewer(t, s)
    BY <2>1, <2>2, <2>3 DEF Fewer
  <2>. QED
    BY <2>4 DEF t
<1>. QED
  BY <1>1, <1>2, <1>3, <1>4

\* There is a request to be answered: it is the only one, and nothing of its
\* answer has come.
LEMMA AtWork ==
    ASSUME IInv, alive, pc # "raw", request # <<>>, Head(request).cmd \notin Mutes
    PROVE  /\ Busy /\ got = <<>> /\ wire = <<>> /\ Tail(request) = <<>>
           /\ Size(Head(request)) \in 1..want /\ want \in Nat
           /\ pc = "memory" => Head(request) = FlightRequest(wanted)
<1>1. request \in Seq(ToSet(request))
  BY DEF IInv, Sequenced
<1>2. /\ 1 \in DOMAIN request /\ Head(request) = request[1] /\ Len(request) \in Nat
      /\ Tail(request) \in Seq(ToSet(Tail(request))) /\ Len(Tail(request)) = Len(request) - 1
  BY <1>1, Others
<1>3. /\ Busy /\ 1 = Len(request) /\ Size(request[1]) \in 1..want
      /\ pc = "memory" => request[1] = FlightRequest(wanted)
  BY <1>2 DEF IInv, Pending
<1>4. Len(Tail(request)) = 0
  <2>1. Len(request) = 1
    BY <1>3
  <2>2. Len(Tail(request)) = Len(request) - 1
    BY <1>2
  <2>. QED
    BY <2>1, <2>2
<1>5. Tail(request) = <<>>
  BY <1>2, <1>4, EmptySeq
<1>6. got = <<>> /\ wire = <<>>
  BY <1>3 DEF IInv, Emptied
<1>. QED
  BY <1>2, <1>3, <1>5, <1>6 DEF IInv, Room

-----------------------------------------------------------------------------
(* The steps of the device and of the line.  While "raw" reads, nothing is *)
(* known of what comes; else the device drops what nobody waits for, or    *)
(* answers what is waited for.                                             *)
same == <<device, host, command, script, shown>>

LEMMA InRaw ==
    ASSUME IInv, pc = "raw", UNCHANGED same, Kept'
    PROVE  IInv'
<1>. USE DEF same, host
<1>1. Sequenced'
  BY DEF IInv, Sequenced
<1>2. Room' /\ Pending' /\ Emptied' /\ Flying'
  BY DEF IInv, Room, Pending, Emptied, Flying, Busy
<1>3. Scripted'
  BY DEF IInv, Scripted
<1>4. Filed'
  BY DEF IInv, Filed, Valid, Length, Flight
<1>. QED
  BY <1>1, <1>2, <1>3, <1>4 DEF IInv

LEMMA Dropped ==
    ASSUME IInv, UNCHANGED same, Kept', wire' = wire, alive' => alive,
           pc # "raw" /\ alive' => Fewer(request', request)
    PROVE  IInv'
<1>. USE DEF same, host
<1>1. CASE pc = "raw"
  BY <1>1, InRaw
<1>2. CASE pc # "raw"
  <2>1. Sequenced'
    BY <1>2 DEF IInv, Sequenced, Fewer
  <2>2. Room' /\ Flying'
    BY DEF IInv, Room, Busy, Flying, Valid, Length, Flight
  <2>3. Pending'
    BY <1>2 DEF IInv, Pending, Busy, Fewer, FlightRequest, Length, Size
  <2>4. Emptied'
    BY <1>2 DEF IInv, Emptied, Busy, Fewer
  <2>5. Scripted'
    BY DEF IInv, Scripted
  <2>6. Filed'
    BY DEF IInv, Filed, Valid, Length, Flight
  <2>. QED
    BY <2>1, <2>2, <2>3, <2>4, <2>5, <2>6 DEF IInv
<1>. QED
  BY <1>1, <1>2

LEMMA Replied ==
    ASSUME IInv, UNCHANGED same, Kept', alive, request # <<>>, Head(request).cmd \notin Mutes,
           NEW s, wire' = wire \o s, request' = Tail(request),
           pc # "raw" => s \in Seq(ToSet(s)) /\ Len(s) <= Size(Head(request)),
           pc = "memory" => s = Flight(wanted) \/ Len(s) < want \/ (device = "fakezander" /\ want = 1)
    PROVE  IInv'
<1>. USE DEF same, host
<1>1. CASE pc = "raw"
  BY <1>1, InRaw
<1>2. CASE pc # "raw"
  <2>1. /\ Busy /\ got = <<>> /\ wire = <<>> /\ Tail(request) = <<>>
        /\ Size(Head(request)) \in 1..want /\ want \in Nat
    BY <1>2, AtWork
  <2>2. s \in Seq(ToSet(s)) /\ Len(s) \in Nat /\ Len(s) <= want
    <3>1. s \in Seq(ToSet(s)) /\ Len(s) <= Size(Head(request))
      BY <1>2
    <3>2. Len(s) \in Nat
      BY <3>1, LenProperties
    <3>. QED
      BY <2>1, <3>1, <3>2
  <2>3. <<>> \o s = s
    BY <2>2, NoneMore
  <2>4. wire' = s /\ request' = <<>> /\ got' = <<>>
    BY <2>1, <2>3
  <2>5. Sequenced'
    BY <2>2, <2>4, OneOrTwo DEF IInv, Sequenced
  <2>6. Room'
    <3>1. Busy' /\ Len(got') = 0 /\ Len(wire') = Len(s)
      BY <2>1, <2>4, OneOrTwo DEF Busy
    <3>2. Len(got') + Len(wire') <= want' /\ want' \in Nat /\ want' >= 1
      BY <2>1, <2>2, <3>1
    <3>. QED
      BY <3>1, <3>2 DEF Room, Busy
  <2>7. Pending' /\ Emptied'
    BY <2>4, OneOrTwo DEF Pending, Emptied
  <2>8. Scripted'
    BY DEF IInv, Scripted
  <2>9. Flying'
    <3>1. (got \o wire)' = s
      BY <2>3, <2>4
    <3>. QED
      BY <3>1 DEF IInv, Flying, Valid, Length, Flight
  <2>10. Filed'
    BY DEF IInv, Filed, Valid, Length, Flight
  <2>. QED
    BY <2>5, <2>6, <2>7, <2>8, <2>9, <2>10 DEF IInv
<1>. QED
  BY <1>1, <1>2

\* The files and the device are as they were.
LEMMA KeptOn == IInv /\ UNCHANGED <<device, alive, files>> => Kept'
BY DEF IInv, Kept

\* A fakezander that exits was no logger.
LEMMA KeptOut == IInv /\ UNCHANGED <<device, files>> /\ device # "logger" => Kept'
BY DEF IInv, Kept

\* A device that answers with nothing.
LEMMA Silent ==
    ASSUME IInv, UNCHANGED same, Kept', alive, alive' => alive, request # <<>>, Answer(<<>>)
    PROVE  IInv'
<1>. USE DEF same, host
<1>1. CASE pc = "raw"
  BY <1>1, InRaw
<1>2. CASE pc # "raw"
  <2>1. wire \in Seq(ToSet(wire)) /\ request \in Seq(ToSet(request))
    BY <1>2 DEF IInv, Sequenced
  <2>2. wire' = wire /\ request' = Tail(request)
    BY <2>1, NoneMore DEF Answer
  <2>3. Fewer(request', request)
    BY <2>1, <2>2, FewerRequests
  <2>. QED
    BY <2>2, <2>3, Dropped
<1>. QED
  BY <1>1, <1>2

LEMMA NotAFlight ==
    ASSUME IInv, alive, request # <<>>, Head(request).cmd \notin Mutes, Head(request).cmd # "READ_MEMORY"
    PROVE  pc # "memory"
<1>1. CASE pc # "raw"
  BY <1>1, AtWork DEF FlightRequest
<1>. QED
  BY <1>1

LEMMA OneByte ==
    ASSUME IInv, UNCHANGED same, Kept', alive, request # <<>>, NEW b, Answer(<<b>>),
           Head(request).cmd \in {"READ_SERIAL", "READ_LI_BATTERY", "READ_9V_BATTERY"}
    PROVE  IInv'
<1>1. Head(request).cmd \notin Mutes /\ Head(request).cmd # "READ_MEMORY" /\ Size(Head(request)) = 1
  BY Sizes DEF Mutes
<1>2. pc # "memory"
  BY <1>1, NotAFlight
<1>3. <<b>> \in Seq(ToSet(<<b>>)) /\ Len(<<b>>) <= Size(Head(request))
  BY <1>1, OneOrTwo
<1>4. wire' = wire \o <<b>> /\ request' = Tail(request)
  BY DEF Answer
<1>. QED
  BY <1>1, <1>2, <1>3, <1>4, Replied

\* The ring has no address below First.
LEMMA InRing ==
    ASSUME NEW a \in Nat, NEW k \in Nat, zander_address_valid(a), k < RingSize
    PROVE  /\ Step(a, k) \in Nat /\ Step(a, k) >= First
           /\ a + k < Limit => Step(a, k) = a + k
<1>1. First \in Nat /\ Limit \in Nat /\ RingSize \in Nat \ {0} /\ RingSize = Limit - First
  BY RingAssumption DEF RingSize
<1>2. a - First \in Nat /\ a - First < RingSize
  BY <1>1 DEF zander_address_valid
<1>. DEFINE x == a - First + k
<1>3. x \in Nat /\ x < 2 * RingSize
  BY <1>1, <1>2
<1>. HIDE DEF x
<1>4. x % RingSize = IF x < RingSize THEN x ELSE x - RingSize
  BY <1>1, <1>3, ModOfSmall
<1>5. x % RingSize \in Nat
  BY <1>1, <1>3, <1>4
<1>6. x = a - First + k
  BY DEF x
<1>7. a + k < Limit => x % RingSize = x
  BY <1>1, <1>2, <1>4, <1>6
<1>8. First + x = a + k
  BY <1>1, <1>6
<1>9. Step(a, k) = First + (x % RingSize)
  BY DEF Step, x
<1>. QED
  BY <1>1, <1>5, <1>7, <1>8, <1>9

\* A piece of the memory is the flight it was asked for.
LEMMA PieceIsFlight ==
    ASSUME NEW n, Valid(n), NEW s, s = [i \in 1..Length(n) |-> s[i]],
           \A i \in 1..Length(n) : s[i] = Memory(Step(Flights[n][1], i - 1))
    PROVE  s = Flight(n)
<1>. DEFINE a == Flights[n][1]
<1>1. a \in Nat /\ zander_address_valid(a) /\ Length(n) \in 1..RingSize /\ RingSize \in Nat /\ First \in Nat
  BY Lengths, RingAssumption DEF Valid
<1>2. ASSUME NEW i \in 1..Length(n)
      PROVE  Memory(Step(a, i - 1)) = Byte("memory", Step(a, i - 1))
  <2>1. i - 1 \in Nat /\ i - 1 < RingSize
    BY <1>1
  <2>2. Step(a, i - 1) \in Nat /\ Step(a, i - 1) >= First
    BY <1>1, <2>1, InRing
  <2>3. ~(Step(a, i - 1) < First)
    BY <1>1, <2>2
  <2>. QED
    BY <2>3 DEF Memory
<1>. QED
  BY <1>2 DEF Flight

LEMMA LoggerReadMemoryStep ==
    ASSUME IInv, LoggerReadMemory, UNCHANGED <<program, store>>
    PROVE  IInv'
<1>. DEFINE r == Head(request)
            F(i) == IF r.start < First THEN r.start + i - 1 ELSE Step(r.start, i - 1)
            s == [i \in 1..r.length |-> Memory(F(i))]
<1>1. /\ device = "logger" /\ request # <<>> /\ r.cmd = "READ_MEMORY"
      /\ wire' = wire \o s /\ request' = Tail(request)
      /\ UNCHANGED same /\ UNCHANGED <<alive, files>>
  BY DEF LoggerReadMemory, Answer, same, host, program, store
<1>2. alive /\ Kept' /\ r.cmd \notin Mutes /\ Size(r) = r.length
  BY <1>1, KeptOn, Sizes DEF IInv, Kept, Mutes, same
<1>3. ASSUME pc # "raw"
      PROVE  s \in Seq(ToSet(s)) /\ Len(s) <= Size(r)
  <2>1. r.length \in Nat
    <3>1. r.length \in 1..want /\ want \in Nat
      BY <1>1, <1>2, <1>3, AtWork
    <3>. QED
      BY <3>1
  <2>2. s = [i \in 1..r.length |-> s[i]]
    OBVIOUS
  <2>. HIDE DEF s
  <2>3. s \in Seq(ToSet(s)) /\ Len(s) = r.length
    BY <2>1, <2>2, Table
  <2>. QED
    BY <1>2, <2>1, <2>3
<1>4. ASSUME pc = "memory"
      PROVE  s = Flight(wanted)
  <2>1. r = FlightRequest(wanted)
    BY <1>1, <1>2, <1>4, AtWork
  <2>2. Valid(wanted)
    BY <1>4 DEF IInv, Flying
  <2>3. r.start = Flights[wanted][1] /\ r.length = Length(wanted)
    BY <2>1 DEF FlightRequest
  <2>4. ~(r.start < First)
    <3>1. r.start >= First /\ r.start \in Nat /\ First \in Nat
      BY <2>2, <2>3, Lengths, RingAssumption
    <3>. QED
      BY <3>1
  <2>5. /\ s = [i \in 1..Length(wanted) |-> s[i]]
        /\ \A i \in 1..Length(wanted) : s[i] = Memory(Step(Flights[wanted][1], i - 1))
    BY <2>3, <2>4
  <2>. HIDE DEF s
  <2>. QED
    BY <2>2, <2>5, PieceIsFlight
<1>. HIDE DEF s
<1>. QED
  BY <1>1, <1>2, <1>3, <1>4, Replied

LEMMA FakeReadMemoryStep ==
    ASSUME IInv, FakeReadMemory, UNCHANGED <<program, store>>
    PROVE  IInv'
<1>. DEFINE r == Head(request)
            F(i) == r.start + i - 1
            s == [i \in 1..r.length |-> Memory(F(i))]
<1>1. /\ device # "logger" /\ alive /\ request # <<>> /\ r.cmd = "READ_MEMORY"
      /\ UNCHANGED same /\ UNCHANGED <<device, files>>
  BY DEF FakeReadMemory, Answer, same, host, program, store
<1>2. Kept' /\ r.cmd \notin Mutes /\ Size(r) = r.length
  BY <1>1, KeptOut, Sizes DEF Mutes
<1>3. CASE Answer(<<>>)
  BY <1>1, <1>2, <1>3, Silent
<1>4. CASE /\ Answer(s) /\ r.start - ListBase + r.length <= FileSize
           /\ r.start \in ListBase..First - 1 \/ r.start \in First..FakeLimit - 1
  <2>0. wire' = wire \o s /\ request' = Tail(request)
    BY <1>4 DEF Answer
  <2>1. ASSUME pc # "raw"
        PROVE  s \in Seq(ToSet(s)) /\ Len(s) <= Size(r) /\ r.length \in Nat
    <3>1. r.length \in Nat
      <4>1. r.length \in 1..want /\ want \in Nat
        BY <1>1, <1>2, <2>1, AtWork
      <4>. QED
        BY <4>1
    <3>2. s = [i \in 1..r.length |-> s[i]]
      OBVIOUS
    <3>. HIDE DEF s
    <3>3. s \in Seq(ToSet(s)) /\ Len(s) = r.length
      BY <3>1, <3>2, Table
    <3>. QED
      BY <1>2, <3>1, <3>3
  <2>2. ASSUME pc = "memory"
        PROVE  s = Flight(wanted)
    <3>1. r = FlightRequest(wanted)
      BY <1>1, <1>2, <2>2, AtWork
    <3>2. Valid(wanted)
      BY <2>2 DEF IInv, Flying
    <3>3. r.start = Flights[wanted][1] /\ r.length = Length(wanted)
      BY <3>1 DEF FlightRequest
    <3>4. /\ r.start \in Nat /\ zander_address_valid(r.start) /\ r.length \in 1..RingSize
          /\ RingSize \in Nat /\ Limit \in Nat
      BY <3>2, <3>3, Lengths, RingAssumption DEF Valid
    <3>5. r.start + r.length <= Limit
      <4>1. r.start - ListBase + r.length <= FileSize
        BY <1>4
      <4>2. r.length \in Nat
        BY <3>4
      <4>3. ListBase \in Nat /\ FileSize \in Nat /\ ListBase + FileSize <= Limit
        BY SessionAssumption
      <4>. QED
        BY <3>4, <4>1, <4>2, <4>3
    <3>6. ASSUME NEW i \in 1..Length(wanted)
          PROVE  F(i) = Step(Flights[wanted][1], i - 1)
      <4>1. i \in 1..r.length
        BY <3>3
      <4>2. i - 1 \in Nat /\ i - 1 < RingSize /\ r.start + (i - 1) < Limit /\ r.start + (i - 1) = r.start + i - 1
        BY <3>4, <3>5, <4>1
      <4>3. Step(r.start, i - 1) = r.start + (i - 1)
        BY <3>4, <4>2, InRing
      <4>. QED
        BY <3>3, <4>2, <4>3
    <3>7. /\ s = [i \in 1..Length(wanted) |-> s[i]]
          /\ \A i \in 1..Length(wanted) : s[i] = Memory(F(i))
      BY <3>3
    <3>8. \A i \in 1..Length(wanted) : s[i] = Memory(Step(Flights[wanted][1], i - 1))
      BY <3>6, <3>7
    <3>. HIDE DEF s
    <3>. QED
      BY <3>2, <3>7, <3>8, PieceIsFlight
  <2>. HIDE DEF s
  <2>. QED
    BY <1>1, <1>2, <2>0, <2>1, <2>2, Replied
<1>5. Answer(<<>>) \/ (/\ Answer(s) /\ r.start - ListBase + r.length <= FileSize
                       /\ r.start \in ListBase..First - 1 \/ r.start \in First..FakeLimit - 1)
  BY DEF FakeReadMemory
<1>. QED
  BY <1>3, <1>4, <1>5

LEMMA FakeShortReadStep ==
    ASSUME IInv, FakeShortRead, UNCHANGED <<program, store>>
    PROVE  IInv'
<1>1. /\ device = "fakezander" /\ device # "logger" /\ alive /\ request # <<>>
      /\ Head(request).cmd = "READ_MEMORY" /\ UNCHANGED same /\ UNCHANGED <<device, files>>
  BY DEF FakeShortRead, Answer, same, host, program, store
<1>2. Kept' /\ Head(request).cmd \notin Mutes
  BY <1>1, KeptOut DEF Mutes
<1>3. CASE Answer(<<>>)
  BY <1>1, <1>2, <1>3, Silent
<1>4. CASE Answer(Serial)
  <2>1. wire' = wire \o Serial /\ request' = Tail(request)
    BY <1>4 DEF Answer
  <2>2. Serial \in Seq(ToSet(Serial)) /\ Len(Serial) = 1
    BY OneOrTwo DEF Serial
  <2>3. ASSUME pc # "raw"
        PROVE  want \in Nat /\ want >= 1 /\ Size(Head(request)) >= 1
    <3>1. Size(Head(request)) \in 1..want /\ want \in Nat
      BY <1>1, <1>2, <2>3, AtWork
    <3>. QED
      BY <3>1
  <2>4. ASSUME pc = "memory"
        PROVE  Len(Serial) < want \/ want = 1
    BY <2>2, <2>3, <2>4
  <2>. QED
    BY <1>1, <1>2, <2>1, <2>2, <2>3, <2>4, Replied
<1>. QED
  BY <1>3, <1>4 DEF FakeShortRead

LEMMA ReadSerialStep ==
    ASSUME IInv, ReadSerial, UNCHANGED <<program, store>>
    PROVE  IInv'
<1>1. /\ alive /\ request # <<>> /\ Head(request).cmd = "READ_SERIAL" /\ Answer(Serial)
      /\ UNCHANGED same /\ UNCHANGED <<device, alive, files>>
  BY DEF ReadSerial, Answer, same, host, program, store
<1>. QED
  BY <1>1, KeptOn, OneByte DEF Serial

LEMMA handle_read_batteryStep ==
    ASSUME IInv, handle_read_battery
    PROVE  IInv'
<1>1. /\ alive /\ request # <<>> /\ UNCHANGED same /\ UNCHANGED <<device, files>>
      /\ Head(request).cmd \in {"READ_LI_BATTERY", "READ_9V_BATTERY"}
  BY DEF handle_read_battery, Head1, Exits, Answer, same, host, program, store
<1>2. \/ (\E b : Answer(<<b>>)) /\ UNCHANGED alive
      \/ Answer(<<>>) /\ alive' = FALSE /\ device # "logger"
  BY DEF handle_read_battery, Exits
<1>3. CASE (\E b : Answer(<<b>>)) /\ UNCHANGED alive
  BY <1>1, <1>3, KeptOn, OneByte
<1>4. CASE Answer(<<>>) /\ alive' = FALSE /\ device # "logger"
  BY <1>1, <1>4, KeptOut, Silent
<1>. QED
  BY <1>2, <1>3, <1>4

LEMMA handle_readStep ==
    ASSUME IInv, handle_read
    PROVE  IInv'
<1>1. PICK n \in Names :
        /\ Head1(ReadCmd[n])
        /\ IF Len(files[n]) = Chunks
           THEN Answer(HeadOf(n) \o [i \in 1..Chunks |-> Byte(n, files[n][i])]) /\ UNCHANGED alive
           ELSE Answer(HeadOf(n)) /\ alive' = FALSE
  BY DEF handle_read
<1>. DEFINE h == HeadOf(n)  t == [i \in 1..Chunks |-> Byte(n, files[n][i])]
<1>2. /\ alive /\ request # <<>> /\ Head(request).cmd = ReadCmd[n]
      /\ UNCHANGED same /\ UNCHANGED <<device, files>>
  BY <1>1 DEF handle_read, Head1, Answer, same, host, program, store
<1>3. Chunks \in Nat /\ Chunks >= 1
  BY ToolAssumption
<1>4. /\ Head(request).cmd \notin Mutes /\ Head(request).cmd # "READ_MEMORY"
      /\ h \in Seq(ToSet(h)) /\ Len(h) \in {0, 1} /\ Size(Head(request)) = Len(h) + Chunks
  <2>1. CASE n = "task"
    <3>1. Head(request).cmd = "READ_TASK"
      BY <1>2, <2>1 DEF ReadCmd
    <3>2. Size(Head(request)) = Chunks + 1 /\ Head(request).cmd \notin Mutes
      BY <3>1, Sizes DEF Mutes
    <3>3. h \in Seq(ToSet(h)) /\ Len(h) = 1
      BY <2>1, OneOrTwo DEF HeadOf
    <3>. HIDE DEF h
    <3>4. Size(Head(request)) = Len(h) + Chunks
      BY <1>3, <3>2, <3>3
    <3>. QED
      BY <3>1, <3>2, <3>3, <3>4
  <2>2. CASE n = "personal_data"
    <3>1. Head(request).cmd = "READ_PERSONAL_DATA"
      BY <1>2, <2>2 DEF ReadCmd
    <3>2. Size(Head(request)) = Chunks /\ Head(request).cmd \notin Mutes
      BY <3>1, Sizes DEF Mutes
    <3>3. h \in Seq(ToSet(h)) /\ Len(h) = 0
      BY <2>2, OneOrTwo DEF HeadOf
    <3>. HIDE DEF h
    <3>4. Size(Head(request)) = Len(h) + Chunks
      BY <1>3, <3>2, <3>3
    <3>. QED
      BY <3>1, <3>2, <3>3, <3>4
  <2>. QED
    BY <2>1, <2>2 DEF Names
<1>5. pc # "memory"
  BY <1>2, <1>4, NotAFlight
<1>6. t \in Seq(ToSet(t)) /\ Len(t) = Chunks
  <2>1. t = [i \in 1..Chunks |-> t[i]]
    OBVIOUS
  <2>. HIDE DEF t
  <2>. QED
    BY <1>3, <2>1, Table
<1>. HIDE DEF h, t
<1>7. h \o t \in Seq(ToSet(h \o t)) /\ Len(h \o t) <= Size(Head(request)) /\ Len(h) <= Size(Head(request))
  <2>1. h \o t \in Seq(ToSet(h \o t)) /\ Len(h \o t) = Len(h) + Len(t)
    BY <1>4, <1>6, Joined
  <2>2. Len(h) + Len(t) <= Size(Head(request)) /\ Len(h) <= Size(Head(request))
    BY <1>3, <1>4, <1>6
  <2>. QED
    BY <2>1, <2>2
<1>8. CASE Len(files[n]) = Chunks
  <2>1. UNCHANGED alive /\ wire' = wire \o (h \o t) /\ request' = Tail(request)
    BY <1>1, <1>8 DEF Answer, h, t
  <2>. QED
    BY <1>2, <1>4, <1>5, <1>7, <2>1, KeptOn, Replied
<1>9. CASE Len(files[n]) # Chunks
  <2>1. device # "logger"
    BY <1>1, <1>9 DEF IInv, Kept
  <2>2. wire' = wire \o h /\ request' = Tail(request)
    BY <1>1, <1>9 DEF Answer, h
  <2>. QED
    BY <1>2, <1>4, <1>5, <1>7, <2>1, <2>2, KeptOut, Replied
<1>. QED
  BY <1>8, <1>9

LEMMA handle_writeStep ==
    ASSUME IInv, handle_write
    PROVE  IInv'
<1>1. /\ alive /\ request # <<>> /\ Answer(<<>>)
      /\ UNCHANGED same /\ UNCHANGED <<device, alive, files>>
  BY DEF handle_write, Head1, Answer, same, host, program
<1>. QED
  BY <1>1, KeptOn, Silent

LEMMA PassedOver ==
    ASSUME IInv, handle_unknown \/ LoggerIgnores
    PROVE  IInv'
<1>1. CASE handle_unknown
  <2>1. /\ alive /\ request # <<>> /\ Answer(<<>>) /\ device # "logger" /\ alive' = FALSE
        /\ UNCHANGED same /\ UNCHANGED <<device, files>>
    BY <1>1 DEF handle_unknown, Exits, Head1, Answer, same, host, program, store
  <2>. QED
    BY <2>1, KeptOut, Silent
<1>2. CASE LoggerIgnores
  <2>1. /\ alive /\ request # <<>> /\ Answer(<<>>)
        /\ UNCHANGED same /\ UNCHANGED <<device, alive, files>>
    BY <1>2 DEF LoggerIgnores, Head1, Answer, same, host, program, store
  <2>. QED
    BY <2>1, KeptOn, Silent
<1>. QED
  BY <1>1, <1>2

LEMMA StoreKept ==
    ASSUME IInv, alive, NEW n \in Names, NEW data, Store(n, data), Len(data) = Chunks
    PROVE  /\ UNCHANGED same /\ wire' = wire /\ Kept'
<1>1. UNCHANGED same /\ wire' = wire /\ device' = device
  BY DEF Store, same, host, program
<1>2. DOMAIN files' = Names
  BY DEF IInv, Kept, Store
<1>3. ASSUME device = "logger"
      PROVE  alive' /\ \A m \in Names : Len(files'[m]) = Chunks
  <2>1. files' = [files EXCEPT ![n] = data] /\ alive' = alive
    BY <1>3 DEF Store
  <2>2. \A m \in Names : files'[m] = IF m = n THEN data ELSE files[m]
    BY <2>1 DEF IInv, Kept
  <2>. QED
    BY <1>3, <2>1, <2>2 DEF IInv, Kept
<1>. QED
  BY <1>1, <1>2, <1>3 DEF Kept

LEMMA TakePieceStep ==
    ASSUME IInv, TakePiece
    PROVE  IInv'
<1>1. /\ alive /\ request # <<>> /\ request' = Tail(request) /\ UNCHANGED same /\ wire' = wire
      /\ UNCHANGED <<device, files>> /\ alive' = (device = "logger" \/ Head(request).cmd # "READ_MEMORY")
  BY DEF TakePiece, same, host, program
<1>2. Kept'
  BY <1>1 DEF IInv, Kept
<1>3. ASSUME pc # "raw"
      PROVE  Fewer(request', request)
  <2>1. request \in Seq(ToSet(request))
    BY <1>1, <1>3 DEF IInv, Sequenced
  <2>. QED
    BY <1>1, <2>1, FewerRequests
<1>. QED
  BY <1>1, <1>2, <1>3, Dropped

LEMMA StoreAllStep ==
    ASSUME IInv, StoreAll
    PROVE  IInv'
<1>1. /\ alive /\ Len(taking.data) = Chunks /\ Store("personal_data", taking.data) /\ request' = request
      /\ "personal_data" \in Names
  BY DEF StoreAll, Names
<1>2. UNCHANGED same /\ wire' = wire /\ Kept'
  BY <1>1, StoreKept
<1>3. ASSUME pc # "raw"
      PROVE  Fewer(request', request)
  <2>1. request \in Seq(ToSet(request))
    BY <1>1, <1>3 DEF IInv, Sequenced
  <2>. QED
    BY <1>1, <2>1, FewerRequests
<1>. QED
  BY <1>1, <1>2, <1>3, Dropped

LEMMA StoreTaskStep ==
    ASSUME IInv, StoreTask
    PROVE  IInv'
<1>1. PICK k \in 0..Chunks :
        /\ k <= Len(request)
        /\ Store("task", [i \in 1..Chunks |-> IF i <= k THEN PieceOf(request[i]) ELSE Zero])
        /\ request' = SubSeq(request, k + 1, Len(request))
  BY DEF StoreTask
<1>2. alive /\ "task" \in Names /\ Chunks \in Nat
  BY ToolAssumption DEF StoreTask, Names
<1>. DEFINE d == [i \in 1..Chunks |-> IF i <= k THEN PieceOf(request[i]) ELSE Zero]
<1>3. Len(d) = Chunks
  <2>1. d = [i \in 1..Chunks |-> d[i]]
    OBVIOUS
  <2>. HIDE DEF d
  <2>. QED
    BY <1>2, <2>1, Table
<1>. HIDE DEF d
<1>4. UNCHANGED same /\ wire' = wire /\ Kept'
  <2>1. Store("task", d)
    BY <1>1 DEF d
  <2>. QED
    BY <1>2, <1>3, <2>1, StoreKept
<1>5. ASSUME pc # "raw"
      PROVE  Fewer(request', request)
  <2>1. request \in Seq(ToSet(request))
    BY <1>2, <1>5 DEF IInv, Sequenced
  <2>2. k \in 0..Len(request)
    <3>1. Len(request) \in Nat
      BY <2>1, LenProperties
    <3>. QED
      BY <1>1, <1>2, <3>1
  <2>. QED
    BY <1>1, <2>1, <2>2, FewerRequests
<1>. QED
  BY <1>2, <1>4, <1>5, Dropped

LEMMA LoseRequestStep ==
    ASSUME IInv, LoseRequest
    PROVE  IInv'
<1>1. PICK i \in 1..Len(request) : request' = RemoveAt(request, i)
  BY DEF LoseRequest
<1>2. UNCHANGED same /\ wire' = wire /\ UNCHANGED <<device, alive, files>>
  BY DEF LoseRequest, same, host, program
<1>3. ASSUME pc # "raw", alive
      PROVE  Fewer(request', request)
  <2>1. request \in Seq(ToSet(request))
    BY <1>3 DEF IInv, Sequenced
  <2>. QED
    BY <1>1, <2>1, FewerRequests
<1>. QED
  BY <1>2, <1>3, KeptOn, Dropped

LEMMA LoseByteStep ==
    ASSUME IInv, LoseByte, UNCHANGED <<program, store>>
    PROVE  IInv'
<1>. USE DEF same, host
<1>1. PICK i \in 1..Len(wire) : wire' = RemoveAt(wire, i)
  BY DEF LoseByte
<1>2. UNCHANGED same /\ UNCHANGED <<device, alive, request, files>>
  BY DEF LoseByte, program, store
<1>3. Kept'
  BY <1>2, KeptOn
<1>4. CASE pc = "raw"
  BY <1>2, <1>3, <1>4, InRaw
<1>5. CASE pc # "raw"
  <2>1. /\ wire \in Seq(ToSet(wire)) /\ Len(wire) \in Nat /\ wire # <<>>
        /\ got \in Seq(ToSet(got)) /\ Len(got) \in Nat
    <3>1. wire \in Seq(ToSet(wire)) /\ got \in Seq(ToSet(got))
      BY <1>5 DEF IInv, Sequenced
    <3>2. Len(wire) \in Nat /\ Len(got) \in Nat
      BY <3>1, LenProperties
    <3>3. wire # <<>>
      BY <1>1, OneOrTwo
    <3>. QED
      BY <3>1, <3>2, <3>3
  <2>2. wire' \in Seq(ToSet(wire')) /\ Len(wire') = Len(wire) - 1
    BY <1>1, <2>1, Without
  <2>3. Busy /\ want \in Nat /\ want >= 1 /\ Len(got) + Len(wire) <= want
    BY <1>5, <2>1 DEF IInv, Room
  <2>4. Len(got) + Len(wire') < want /\ Len(got) + Len(wire') <= want
    BY <2>1, <2>2, <2>3
  <2>5. Len(got \o wire') < want
    BY <2>1, <2>2, <2>4, Joined
  <2>6. Sequenced'
    BY <1>2, <2>2 DEF IInv, Sequenced
  <2>7. Room'
    BY <1>2, <2>3, <2>4 DEF Room, Busy
  <2>8. Pending'
    BY <1>2 DEF IInv, Pending, Busy, Size, FlightRequest, Length
  <2>9. Emptied'
    BY <1>2, <2>1, <2>3 DEF IInv, Emptied, Busy
  <2>10. Scripted'
    BY <1>2 DEF IInv, Scripted
  <2>11. Flying'
    BY <1>2, <2>5 DEF IInv, Flying, Valid, Length, Flight
  <2>12. Filed'
    BY <1>2 DEF IInv, Filed, Valid, Length, Flight
  <2>. QED
    BY <1>3, <2>6, <2>7, <2>8, <2>9, <2>10, <2>11, <2>12 DEF IInv
<1>. QED
  BY <1>4, <1>5

LEMMA DeviceStep ==
    ASSUME IInv, Fake \/ LoseRequest \/ (LoseByte /\ UNCHANGED <<program, store>>)
    PROVE  IInv'
<1>1. CASE Device /\ UNCHANGED <<program, store>>
  BY <1>1, ReadSerialStep, LoggerReadMemoryStep, FakeReadMemoryStep, FakeShortReadStep DEF Device
<1>2. CASE handle_read_battery \/ handle_read \/ handle_write \/ TakePiece
  BY <1>2, handle_read_batteryStep, handle_readStep, handle_writeStep, TakePieceStep
<1>3. CASE StoreAll \/ StoreTask \/ handle_unknown \/ LoggerIgnores
  BY <1>3, StoreAllStep, StoreTaskStep, PassedOver
<1>4. CASE LoseRequest \/ (LoseByte /\ UNCHANGED <<program, store>>)
  BY <1>4, LoseRequestStep, LoseByteStep
<1>. QED
  BY <1>1, <1>2, <1>3, <1>4 DEF Fake

-----------------------------------------------------------------------------
(* The steps of the programs.                                              *)
LEMMA FiledOn == Filed /\ UNCHANGED <<device, file>> => Filed'
BY DEF Filed, Valid, Length, Flight

LEMMA ScriptedOn == Scripted /\ UNCHANGED <<command, script, shown>> /\ pc' # "answer" => Scripted'
BY DEF Scripted

\* An answer is whole: nothing else is on its way.
LEMMA AllRead ==
    ASSUME IInv, Busy, Len(got) = want
    PROVE  wire = <<>> /\ got # <<>> /\ (alive => request = <<>>) /\ pc # "raw"
<1>1. pc # "raw"
  BY DEF Busy
<1>2. got \in Seq(ToSet(got)) /\ wire \in Seq(ToSet(wire))
  BY <1>1 DEF IInv, Sequenced
<1>3. Len(got) \in Nat /\ Len(wire) \in Nat
  BY <1>2, LenProperties
<1>4. want >= 1 /\ Len(got) + Len(wire) <= want /\ want \in Nat
  BY DEF IInv, Room
<1>5. Len(wire) = 0 /\ Len(got) # 0
  BY <1>3, <1>4
<1>6. wire = <<>> /\ got # <<>>
  BY <1>2, <1>5, NoneMore
<1>. QED
  BY <1>1, <1>6 DEF IInv, Emptied

\* The requests while nothing is read.
LEMMA Unasked ==
    ASSUME IInv, ~Busy, pc # "raw"
    PROVE  /\ wire = <<>>
           /\ alive => request \in Seq(ToSet(request)) /\ \A i \in DOMAIN request : request[i].cmd \in Mutes
BY DEF IInv, Room, Pending, Sequenced

\* A step after which nothing is read.
LEMMA Quiet ==
    ASSUME IInv, pc' \notin {"serial", "list", "memory", "answer", "raw"},
           wire' = <<>>, alive' = alive, Kept', Scripted', Filed', want' \in Nat,
           got' \in Seq(ToSet(got')), script' \in Seq(ToSet(script')), shown' \in Seq(ToSet(shown')),
           alive => /\ request' \in Seq(ToSet(request'))
                    /\ \A i \in DOMAIN request' : request'[i].cmd \in Mutes
                    /\ pc' \in {"prompt", "ok", "failed"} => request' = <<>>
    PROVE  IInv'
<1>1. Sequenced'
  BY OneOrTwo DEF Sequenced
<1>2. Room' /\ Pending' /\ Emptied' /\ Flying'
  BY DEF Room, Pending, Emptied, Flying, Busy
<1>. QED
  BY <1>1, <1>2 DEF IInv

\* A request is sent, and its answer is to be read.
LEMMA Asked ==
    ASSUME IInv, NEW r, NEW n \in Nat, n >= 1, Size(r) \in 1..n, wire = <<>>,
           alive => request \in Seq(ToSet(request)) /\ \A i \in DOMAIN request : request[i].cmd \in Mutes,
           alive => request' = Append(request, r), want' = n, got' = <<>>, wire' = wire, alive' = alive, Kept', Filed',
           pc' \in {"serial", "list", "memory", "answer"}, UNCHANGED <<command, script, shown>>,
           pc' = "answer" => script # <<>>,
           pc' = "memory" => r = FlightRequest(wanted)' /\ Valid(wanted)' /\ n = Length(wanted)'
    PROVE  IInv'
<1>1. alive => /\ request' \in Seq(ToSet(request')) /\ Len(request') = Len(request) + 1 /\ Len(request) \in Nat
               /\ DOMAIN request = 1..Len(request) /\ DOMAIN request' = 1..Len(request')
               /\ \A i \in 1..Len(request) : request'[i] = request[i]
               /\ request'[Len(request')] = r
  <2>. SUFFICES ASSUME alive
                PROVE  /\ request' \in Seq(ToSet(request')) /\ Len(request') = Len(request) + 1 /\ Len(request) \in Nat
                       /\ DOMAIN request = 1..Len(request) /\ DOMAIN request' = 1..Len(request')
                       /\ \A i \in 1..Len(request) : request'[i] = request[i]
                       /\ request'[Len(request')] = r
    OBVIOUS
  <2>1. request' \in Seq(ToSet(request')) /\ request \in Seq(ToSet(request) \cup {r})
    BY OneMore, SeqMonotonic
  <2>2. /\ Len(request') = Len(request) + 1 /\ Len(request) \in Nat
        /\ \A i \in 1..Len(request) : request'[i] = request[i]
        /\ request'[Len(request) + 1] = r
    BY <2>1, AppendProperties, LenProperties
  <2>3. DOMAIN request = 1..Len(request) /\ DOMAIN request' = 1..Len(request')
    BY <2>1, LenProperties
  <2>. QED
    BY <2>1, <2>2, <2>3
<1>2. Sequenced'
  BY <1>1, OneOrTwo DEF IInv, Sequenced
<1>3. Room'
  <2>1. Busy' /\ Len(got') = 0 /\ Len(wire') = 0
    BY OneOrTwo DEF Busy
  <2>2. Len(got') + Len(wire') <= want' /\ want' \in Nat /\ want' >= 1
    BY <2>1
  <2>. QED
    BY <2>1, <2>2 DEF Room
<1>4. Pending'
  <2>1. ASSUME alive, NEW i \in DOMAIN request'
        PROVE  request'[i].cmd \in Mutes \/ (i = Len(request') /\ request'[i] = r)
    <3>1. i \in 1..Len(request) \/ i = Len(request')
      BY <1>1, <2>1
    <3>. QED
      BY <1>1, <2>1, <3>1
  <2>2. Size(r) \in 1..want' /\ Busy' /\ (pc' = "memory" => r = FlightRequest(wanted)')
    BY DEF Busy
  <2>3. Size(r)' = Size(r)
    BY DEF Size
  <2>. QED
    BY <2>1, <2>2, <2>3 DEF Pending, Size
<1>5. Emptied'
  BY DEF Emptied
<1>6. Scripted'
  BY DEF IInv, Scripted
<1>7. Flying'
  <2>1. (got \o wire)' = <<>>
    BY NoneMore, OneOrTwo
  <2>2. Len((got \o wire)') < want'
    BY <2>1, OneOrTwo
  <2>. QED
    BY <2>2 DEF Flying
<1>. QED
  BY <1>2, <1>3, <1>4, <1>5, <1>6, <1>7 DEF IInv

LEMMA TheList ==
    /\ ListLength \in Nat /\ ListLength >= 1
    /\ Size([cmd |-> "READ_MEMORY", start |-> ListBase, length |-> ListLength]) = ListLength
    /\ Size([cmd |-> "READ_SERIAL"]) = 1
<1>1. ListLength \in Nat /\ ListLength >= 1
  BY SessionAssumption, RingAssumption DEF ListLength
<1>. QED
  BY <1>1 DEF Size

LEMMA AskSerialStep ==
    ASSUME IInv, AskSerial, UNCHANGED <<program, store>>
    PROVE  IInv'
<1>. DEFINE r == [cmd |-> "READ_SERIAL"]
<1>1. /\ ~Busy /\ pc # "raw" /\ request' = Append(request, r) /\ want' = 1 /\ got' = <<>>
      /\ wire' = wire /\ alive' = alive /\ pc' = "serial" /\ UNCHANGED <<command, script, shown>>
      /\ UNCHANGED <<device, file, files>>
  BY DEF AskSerial, Ask, Busy, program, store
<1>2. Size(r) \in 1..1 /\ 1 \in Nat /\ 1 >= 1
  BY TheList
<1>3. Kept' /\ Filed'
  BY <1>1, KeptOn, FiledOn DEF IInv
<1>. HIDE DEF r
<1>. QED
  BY <1>1, <1>2, <1>3, Unasked, Asked

LEMMA AskListStep ==
    ASSUME IInv, AskList, UNCHANGED <<program, store>>
    PROVE  IInv'
<1>. DEFINE r == [cmd |-> "READ_MEMORY", start |-> ListBase, length |-> ListLength]
<1>1. /\ Busy /\ Len(got) = want /\ request' = Append(request, r) /\ want' = ListLength /\ got' = <<>>
      /\ wire' = wire /\ alive' = alive /\ pc' = "list" /\ UNCHANGED <<command, script, shown>>
      /\ UNCHANGED <<device, file, files>>
  BY DEF AskList, Ask, Busy, program, store
<1>2. Size(r) \in 1..ListLength /\ ListLength \in Nat /\ ListLength >= 1
  BY TheList
<1>3. Kept' /\ Filed'
  BY <1>1, KeptOn, FiledOn DEF IInv
<1>4. wire = <<>> /\ (alive => request \in Seq(ToSet(request)) /\ \A i \in DOMAIN request : request[i].cmd \in Mutes)
  BY <1>1, AllRead, OneOrTwo
<1>. HIDE DEF r
<1>. QED
  BY <1>1, <1>2, <1>3, <1>4, Asked

LEMMA ReadSomeStep ==
    ASSUME IInv, ReadSome, UNCHANGED <<program, store>>
    PROVE  IInv'
<1>1. PICK k \in 1..Len(wire) :
        /\ k <= want - Len(got)
        /\ got' = got \o SubSeq(wire, 1, k) /\ wire' = SubSeq(wire, k + 1, Len(wire))
  BY DEF ReadSome
<1>2. /\ Busy /\ pc # "raw" /\ UNCHANGED <<device, alive, request, files>>
      /\ UNCHANGED <<pc, want, wanted, file, command, script, shown>>
  BY DEF ReadSome, Reading, Busy, program, store
<1>3. got \in Seq(ToSet(got)) /\ wire \in Seq(ToSet(wire)) /\ Len(got) \in Nat /\ Len(wire) \in Nat
  <2>1. got \in Seq(ToSet(got)) /\ wire \in Seq(ToSet(wire))
    BY <1>2 DEF IInv, Sequenced
  <2>. QED
    BY <2>1, LenProperties
<1>. DEFINE a == SubSeq(wire, 1, k)  b == SubSeq(wire, k + 1, Len(wire))
<1>4. k \in 0..Len(wire) /\ wire # <<>>
  BY <1>3, NoneMore
<1>5. /\ a \in Seq(ToSet(a)) /\ Len(a) = k /\ a \o b = wire
      /\ b \in Seq(ToSet(b)) /\ Len(b) = Len(wire) - k
      /\ a \in Seq(ToSet(wire)) /\ b \in Seq(ToSet(wire))
  <2>1. /\ a \in Seq(ToSet(a)) /\ Len(a) = k /\ a \o b = wire /\ ToSet(a) \subseteq ToSet(wire)
    BY <1>3, <1>4, CutInTwo
  <2>2. b \in Seq(ToSet(b)) /\ Len(b) = Len(wire) - k /\ ToSet(b) \subseteq ToSet(wire)
    BY <1>3, <1>4, Rest
  <2>. HIDE DEF a, b
  <2>. QED
    BY <2>1, <2>2, SeqMonotonic
<1>6. got' = got \o a /\ wire' = b
  BY <1>1
<1>. HIDE DEF a, b
<1>7. got \o a \in Seq(ToSet(got \o a)) /\ Len(got \o a) = Len(got) + k
  BY <1>3, <1>5, Joined
<1>8. (got \o wire)' = got \o wire
  <2>. DEFINE S == ToSet(got) \cup ToSet(wire)
  <2>1. got \in Seq(S) /\ a \in Seq(S) /\ b \in Seq(S)
    BY <1>3, <1>5, SeqMonotonic
  <2>. HIDE DEF S
  <2>2. (got \o a) \o b = got \o (a \o b)
    BY <2>1, ConcatAssociative, SMTT(60)
  <2>. QED
    BY <1>5, <1>6, <2>2
<1>9. Sequenced'
  BY <1>2, <1>5, <1>6, <1>7 DEF IInv, Sequenced
<1>10. Room'
  <2>1. want \in Nat /\ want >= 1 /\ Len(got) + Len(wire) <= want
    BY <1>2 DEF IInv, Room
  <2>2. Len(got') = Len(got) + k /\ Len(wire') = Len(wire) - k
    BY <1>5, <1>6, <1>7
  <2>3. Len(got') + Len(wire') <= want
    BY <1>3, <1>4, <2>1, <2>2
  <2>. QED
    BY <1>2, <2>1, <2>3 DEF Room, Busy
<1>11. alive => request' = <<>>
  BY <1>2, <1>4 DEF IInv, Emptied
<1>12. Pending' /\ Emptied'
  BY <1>2, <1>11, OneOrTwo DEF Pending, Emptied
<1>13. Scripted'
  BY <1>2 DEF IInv, Scripted
<1>14. Flying'
  BY <1>2, <1>8 DEF IInv, Flying, Valid, Length, Flight
<1>15. Kept' /\ Filed'
  BY <1>2, KeptOn, FiledOn DEF IInv
<1>. QED
  BY <1>9, <1>10, <1>12, <1>13, <1>14, <1>15 DEF IInv

\* Nothing is sent, and nothing is read from now on.
LEMMA Ended ==
    ASSUME IInv, UNCHANGED <<link, files, want, got, file, command, script, shown>>, wire = <<>>, pc # "raw",
           pc' \notin {"serial", "list", "memory", "answer", "raw"},
           alive => /\ request \in Seq(ToSet(request))
                    /\ \A i \in DOMAIN request : request[i].cmd \in Mutes
                    /\ pc' \in {"prompt", "ok", "failed"} => request = <<>>
    PROVE  IInv'
<1>. USE DEF link
<1>1. Kept' /\ Filed' /\ Scripted'
  BY KeptOn, FiledOn, ScriptedOn DEF IInv
<1>2. want' \in Nat /\ got' \in Seq(ToSet(got')) /\ script' \in Seq(ToSet(script')) /\ shown' \in Seq(ToSet(shown'))
  BY DEF IInv, Room, Sequenced
<1>. QED
  BY <1>1, <1>2, Quiet

LEMMA ListReadStep ==
    ASSUME IInv, ListRead, UNCHANGED <<program, store>>
    PROVE  IInv'
<1>1. /\ UNCHANGED <<link, files, want, got, file, command, script, shown>> /\ Busy /\ Len(got) = want
      /\ pc' = "prompt"
  BY DEF ListRead, Busy, program, store
<1>. QED
  BY <1>1, AllRead, Ended, OneOrTwo

\* What is known at the prompt.
LEMMA AtPrompt ==
    ASSUME IInv, pc \in {"prompt", "ok", "failed"}
    PROVE  ~Busy /\ wire = <<>> /\ (alive => request = <<>>)
<1>1. ~Busy /\ pc # "raw"
  BY DEF Busy
<1>. QED
  BY <1>1, Unasked DEF IInv, Emptied

LEMMA ChooseFlightStep ==
    ASSUME IInv, ChooseFlight, UNCHANGED <<program, store>>
    PROVE  IInv'
<1>1. PICK n \in DOMAIN Flights :
        /\ wanted' = n
        /\ \/ /\ pc' \in {"abort", "failed"} /\ UNCHANGED <<link, want, got>>
           \/ /\ zander_address_valid(Flights[n][1]) /\ zander_address_valid(Flights[n][2])
              /\ Ask([cmd |-> "READ_MEMORY", start |-> Flights[n][1],
                      length |-> flight_length(Flights[n][1], Flights[n][2])],
                     flight_length(Flights[n][1], Flights[n][2]), "memory")
  BY DEF ChooseFlight, Stop
<1>2. pc = "prompt" /\ UNCHANGED <<file, files, command, script, shown>>
  BY DEF ChooseFlight, program, store
<1>3. ~Busy /\ wire = <<>> /\ (alive => request = <<>>) /\ pc # "raw"
  BY <1>2, AtPrompt
<1>4. CASE pc' \in {"abort", "failed"} /\ UNCHANGED <<link, want, got>>
  BY <1>2, <1>3, <1>4, Ended, OneOrTwo
<1>5. CASE /\ zander_address_valid(Flights[n][1]) /\ zander_address_valid(Flights[n][2])
           /\ Ask([cmd |-> "READ_MEMORY", start |-> Flights[n][1],
                   length |-> flight_length(Flights[n][1], Flights[n][2])],
                  flight_length(Flights[n][1], Flights[n][2]), "memory")
  <2>. DEFINE r == FlightRequest(n)
  <2>1. /\ request' = Append(request, r) /\ want' = Length(n) /\ got' = <<>> /\ wire' = wire /\ alive' = alive
        /\ device' = device /\ pc' = "memory"
    BY <1>5 DEF Ask, FlightRequest, Length
  <2>2. Valid(n)
    BY <1>5 DEF Valid
  <2>3. Length(n) \in Nat /\ Length(n) >= 1 /\ Size(r) \in 1..Length(n)
    <3>1. Length(n) \in 1..RingSize /\ Length(n) \in Nat
      BY <2>2, Lengths
    <3>2. r.cmd = "READ_MEMORY" /\ r.length = Length(n)
      BY DEF FlightRequest
    <3>3. Size(r) = Length(n)
      BY <3>2, Sizes
    <3>4. Length(n) >= 1
      BY <3>1
    <3>. QED
      BY <3>1, <3>3, <3>4
  <2>4. r = FlightRequest(wanted)' /\ Valid(wanted)' /\ Length(n) = Length(wanted)'
    BY <1>1, <2>2 DEF FlightRequest, Valid, Length
  <2>5. Kept' /\ Filed'
    BY <1>2, <2>1, KeptOn, FiledOn DEF IInv
  <2>6. alive => request \in Seq(ToSet(request)) /\ \A i \in DOMAIN request : request[i].cmd \in Mutes
    BY <1>3, OneOrTwo
  <2>. HIDE DEF r
  <2>. QED
    BY <1>2, <1>3, <2>1, <2>3, <2>4, <2>5, <2>6, Asked
<1>. QED
  BY <1>1, <1>4, <1>5

LEMMA WriteFileStep ==
    ASSUME IInv, WriteFile, UNCHANGED <<program, store>>
    PROVE  IInv'
<1>1. /\ pc = "memory" /\ Busy /\ Len(got) = want /\ file' = [flight |-> wanted, bytes |-> got] /\ pc' = "ok"
      /\ UNCHANGED <<link, want, got, files, command, script, shown>>
  BY DEF WriteFile, Busy, program, store
<1>2. wire = <<>> /\ got # <<>> /\ (alive => request = <<>>) /\ pc # "raw" /\ want \in Nat
  BY <1>1, AllRead DEF IInv, Room
<1>3. got \o wire = got /\ got \in Seq(ToSet(got)) /\ script \in Seq(ToSet(script)) /\ shown \in Seq(ToSet(shown))
  BY <1>2, NoneMore DEF IInv, Sequenced
<1>4. /\ Valid(wanted) /\ want = Length(wanted)
      /\ got = Flight(wanted) \/ (device = "fakezander" /\ want = 1)
  <2>1. ~(Len(got) < want)
    BY <1>1, <1>2
  <2>. QED
    BY <1>1, <1>3, <2>1 DEF IInv, Flying
<1>5. Filed'
  BY <1>1, <1>4 DEF link, Filed, Valid, Length, Flight
<1>6. Kept' /\ Scripted'
  BY <1>1, KeptOn, ScriptedOn DEF IInv, link
<1>. QED
  BY <1>1, <1>2, <1>3, <1>5, <1>6, Quiet, OneOrTwo DEF link

LEMMA EndSteps ==
    ASSUME IInv, ReadTimeout \/ DoneWithFlight \/ Quit, UNCHANGED <<program, store>>
    PROVE  IInv'
<1>1. UNCHANGED <<link, files, want, got, file, command, script, shown>>
  BY DEF ReadTimeout, DoneWithFlight, Quit, program, store
<1>2. CASE ReadTimeout
  <2>1. /\ wire = <<>> /\ (request = <<>> \/ ~alive) /\ pc # "raw" /\ pc' \in {"failed", "exit"}
    BY <1>2 DEF ReadTimeout, Reading, Stop
  <2>. QED
    BY <1>1, <2>1, Ended, OneOrTwo
<1>3. CASE DoneWithFlight \/ Quit
  <2>1. pc \in {"prompt", "ok", "failed"} /\ pc' \in {"prompt", "quit"}
    BY <1>3 DEF DoneWithFlight, Quit, Stop
  <2>. QED
    BY <1>1, <2>1, AtPrompt, Ended, OneOrTwo
<1>. QED
  BY <1>2, <1>3

LEMMA SendRequestStep ==
    ASSUME IInv, SendRequest
    PROVE  IInv'
<1>. DEFINE q == Head(script)
<1>1. /\ pc = "ask" /\ script # <<>> /\ request' = request \o q.items /\ want' = q.bytes /\ got' = <<>>
      /\ pc' = IF command = "raw" /\ Len(script) = 1 THEN "raw" ELSE "answer"
      /\ UNCHANGED <<device, alive, wire, file, files, command, script, shown>>
  BY DEF SendRequest, program, store
<1>2. ~Busy /\ pc # "raw"
  BY <1>1 DEF Busy
<1>3. /\ wire = <<>>
      /\ alive => request \in Seq(ToSet(request)) /\ \A i \in DOMAIN request : request[i].cmd \in Mutes
  BY <1>2, Unasked
<1>4. Kept' /\ Filed'
  BY <1>1, KeptOn, FiledOn DEF IInv
<1>5. script \in Seq(ToSet(script)) /\ 1 \in DOMAIN script /\ q = script[1]
  BY <1>1, Others DEF IInv, Sequenced
<1>6. q.bytes \in Nat /\ (Proper(q) \/ (command = "raw" /\ Len(script) = 1))
  BY <1>5 DEF IInv, Scripted
<1>. HIDE DEF q
<1>7. CASE pc' = "raw"
  <2>1. Sequenced' /\ Room' /\ Pending' /\ Emptied' /\ Flying'
    BY <1>1, <1>5, <1>6, <1>7, OneOrTwo DEF IInv, Sequenced, Room, Pending, Emptied, Flying, Busy
  <2>2. Scripted'
    BY <1>1, <1>7, ScriptedOn DEF IInv
  <2>. QED
    BY <1>4, <2>1, <2>2 DEF IInv
<1>8. CASE pc' = "answer"
  <2>1. PICK r : q.items = <<r>> /\ Size(r) \in 1..q.bytes
    BY <1>1, <1>6, <1>8 DEF Proper
  <2>2. q.bytes >= 1
    BY <1>6, <2>1
  <2>3. ASSUME alive
        PROVE  request' = Append(request, r)
    <3>1. request \in Seq(ToSet(request) \cup {r})
      BY <1>3, <2>3, SeqMonotonic
    <3>. QED
      BY <1>1, <2>1, <3>1, AppendIsConcat
  <2>. QED
    BY <1>1, <1>3, <1>4, <1>6, <1>8, <2>1, <2>2, <2>3, Asked
<1>. QED
  BY <1>1, <1>7, <1>8

\* What zander-tool asks.
LEMMA Questions ==
    /\ \A q \in {zander_read_serial, zander_read_personal_data, zander_read_li_battery,
                 zander_read_9v_battery, zander_read_task, zander_flight_list} :
         Proper(q) /\ q.bytes \in Nat
    /\ \A c \in DOMAIN Commands :
         /\ Commands[c] \in Seq(ToSet(Commands[c]))
         /\ \A k \in DOMAIN Commands[c] : Commands[c][k].bytes \in Nat /\ Proper(Commands[c][k])
    /\ \A r \in RawInputs :
         /\ cmd_raw(r) \in Seq(ToSet(cmd_raw(r)))
         /\ \A k \in DOMAIN cmd_raw(r) :
              cmd_raw(r)[k].bytes \in Nat /\ (Proper(cmd_raw(r)[k]) \/ k = Len(cmd_raw(r)))
    /\ "raw" \notin DOMAIN Commands /\ Commands["battery"] = cmd_battery
<1>1. Chunks \in Nat /\ Chunks >= 1 /\ ListLength \in Nat /\ ListLength >= 1
  BY ToolAssumption, TheList
<1>. DEFINE Fine(q) == Proper(q) /\ q.bytes \in Nat
<1>2. ASSUME NEW c, NEW n \in Nat, Size(Cmd(c)) \in 1..n
      PROVE  Fine(Request(c, n))
  BY <1>2 DEF Request, Proper
<1>3. /\ Size(Cmd("READ_SERIAL")) = 1 /\ Size(Cmd("READ_PERSONAL_DATA")) = Chunks
      /\ Size(Cmd("READ_LI_BATTERY")) = 1 /\ Size(Cmd("READ_9V_BATTERY")) = 1
      /\ Size(Cmd("READ_TASK")) = Chunks + 1
  BY DEF Size, Cmd
<1>4. 1 \in 1..1 /\ Chunks \in 1..Chunks /\ Chunks + 1 \in 1..Chunks + 1 /\ Chunks + 1 \in Nat
  BY <1>1
<1>5. Fine(zander_read_serial) /\ Fine(zander_read_li_battery) /\ Fine(zander_read_9v_battery)
  BY <1>2, <1>3, <1>4 DEF zander_read_serial, zander_read_li_battery, zander_read_9v_battery
<1>6. Fine(zander_read_personal_data) /\ Fine(zander_read_task)
  BY <1>1, <1>2, <1>3, <1>4 DEF zander_read_personal_data, zander_read_task
<1>7. Fine(zander_flight_list)
  <2>. DEFINE r == [cmd |-> "READ_MEMORY", start |-> ListBase, length |-> ListLength]
  <2>1. Size(r) \in 1..ListLength
    BY <1>1, TheList
  <2>. HIDE DEF r
  <2>2. zander_flight_list.items = <<r>> /\ zander_flight_list.bytes = ListLength
    BY DEF zander_flight_list, r
  <2>. QED
    BY <1>1, <2>1, <2>2 DEF Proper
<1>8. ASSUME NEW a, NEW b, NEW c
      PROVE  <<a, b, c>> \in Seq(ToSet(<<a, b, c>>)) /\ DOMAIN <<a, b, c>> = {1, 2, 3}
  <2>1. <<a, b, c>> \in Seq({a, b, c}) /\ DOMAIN <<a, b, c>> = {1, 2, 3}
    OBVIOUS
  <2>. QED
    BY <2>1, Members
<1>. HIDE DEF Fine
<1>9. /\ DOMAIN Commands = {"info", "personal_data", "battery", "show_task", "list"}
      /\ Commands["info"] = <<zander_read_serial>> /\ Commands["personal_data"] = <<zander_read_personal_data>>
      /\ Commands["battery"] = <<zander_read_serial, zander_read_li_battery, zander_read_9v_battery>>
      /\ Commands["show_task"] = <<zander_read_serial, zander_read_task>>
      /\ Commands["list"] = <<zander_read_serial, zander_flight_list>>
  BY DEF Commands, cmd_info, cmd_read_personal_data, cmd_battery, cmd_show_task, cmd_list
<1>10. ASSUME NEW c \in DOMAIN Commands
       PROVE  /\ Commands[c] \in Seq(ToSet(Commands[c]))
              /\ \A k \in DOMAIN Commands[c] : Fine(Commands[c][k])
  <2>. DEFINE Good(t) == t \in Seq(ToSet(t)) /\ \A k \in DOMAIN t : Fine(t[k])
  <2>1. \A a : Fine(a) => Good(<<a>>)
    <3>1. ASSUME NEW a, Fine(a)
          PROVE  Good(<<a>>)
      <4>1. <<a>> \in Seq(ToSet(<<a>>)) /\ DOMAIN <<a>> = {1} /\ <<a>>[1] = a
        BY OneOrTwo
      <4>. HIDE DEF Fine
      <4>. QED
        BY <3>1, <4>1
    <3>. QED
      BY <3>1
  <2>2. \A a, b : Fine(a) /\ Fine(b) => Good(<<a, b>>)
    <3>1. ASSUME NEW a, NEW b, Fine(a), Fine(b)
          PROVE  Good(<<a, b>>)
      <4>1. <<a, b>> \in Seq(ToSet(<<a, b>>)) /\ DOMAIN <<a, b>> = {1, 2}
        BY OneOrTwo
      <4>. QED
        BY <3>1, <4>1
    <3>. QED
      BY <3>1
  <2>3. \A a, b, d : Fine(a) /\ Fine(b) /\ Fine(d) => Good(<<a, b, d>>)
    <3>1. ASSUME NEW a, NEW b, NEW d, Fine(a), Fine(b), Fine(d)
          PROVE  Good(<<a, b, d>>)
      <4>1. <<a, b, d>> \in Seq(ToSet(<<a, b, d>>)) /\ DOMAIN <<a, b, d>> = {1, 2, 3}
        BY <1>8
      <4>. QED
        BY <3>1, <4>1
    <3>. QED
      BY <3>1
  <2>. HIDE DEF Good
  <2>4. Good(Commands["info"]) /\ Good(Commands["personal_data"])
    BY <1>5, <1>6, <1>9, <2>1
  <2>5. Good(Commands["show_task"]) /\ Good(Commands["list"])
    BY <1>5, <1>6, <1>7, <1>9, <2>2
  <2>6. Good(Commands["battery"])
    BY <1>5, <1>9, <2>3
  <2>7. Good(Commands[c])
    BY <1>9, <2>4, <2>5, <2>6
  <2>. QED
    BY <2>7 DEF Good
<1>11. ASSUME NEW r \in RawInputs
       PROVE  /\ cmd_raw(r) \in Seq(ToSet(cmd_raw(r)))
              /\ \A k \in DOMAIN cmd_raw(r) :
                   cmd_raw(r)[k].bytes \in Nat /\ (Proper(cmd_raw(r)[k]) \/ k = Len(cmd_raw(r)))
  <2>. DEFINE q == [items |-> [i \in 1..Len(r) |-> Cmd(r[i])], bytes |-> 0]
  <2>1. cmd_raw(r) = <<zander_read_serial, q>> /\ q.bytes = 0
    BY DEF cmd_raw
  <2>. HIDE DEF q
  <2>2. /\ cmd_raw(r) \in Seq(ToSet(cmd_raw(r))) /\ Len(cmd_raw(r)) = 2 /\ DOMAIN cmd_raw(r) = {1, 2}
        /\ cmd_raw(r)[1] = zander_read_serial /\ cmd_raw(r)[2] = q
    BY <2>1, OneOrTwo
  <2>. QED
    BY <1>5, <2>1, <2>2 DEF Fine
<1>. QED
  BY <1>5, <1>6, <1>7, <1>9, <1>10, <1>11 DEF Fine, cmd_battery

LEMMA AnsweredStep ==
    ASSUME IInv, Answered
    PROVE  IInv'
<1>1. /\ pc = "answer" /\ Busy /\ Len(got) = want /\ pc' = "ask" /\ shown' = Append(shown, got)
      /\ script' = IF command = "battery" /\ shown = <<>> /\ got[1].at = 940
                   THEN <<Head(Tail(script))>> ELSE Tail(script)
      /\ UNCHANGED <<link, want, got, file, files, command>>
  BY DEF Answered, Busy, store
<1>2. wire = <<>> /\ (alive => request = <<>>)
  BY <1>1, AllRead
<1>3. /\ got \in Seq(ToSet(got)) /\ shown \in Seq(ToSet(shown)) /\ script \in Seq(ToSet(script)) /\ script # <<>>
      /\ want \in Nat
  BY <1>1 DEF IInv, Sequenced, Scripted, Room
<1>4. shown' \in Seq(ToSet(shown')) /\ shown' # <<>>
  <2>1. shown' \in Seq(ToSet(shown')) /\ ToSet(shown') = ToSet(shown) \cup {got}
    BY <1>1, <1>3, OneMore
  <2>. QED
    BY <2>1, OneOrTwo
<1>5. /\ script' \in Seq(ToSet(script'))
      /\ \A k \in DOMAIN script' :
           script'[k].bytes \in Nat /\ (Proper(script'[k]) \/ (command = "raw" /\ k = Len(script')))
  <2>1. CASE command = "battery" /\ shown = <<>> /\ got[1].at = 940
    <3>1. script = <<zander_read_serial, zander_read_li_battery, zander_read_9v_battery>>
      BY <2>1 DEF IInv, Scripted, cmd_battery
    <3>2. script' = <<zander_read_li_battery>>
      BY <1>1, <2>1, <3>1
    <3>. QED
      BY <3>2, Questions, OneOrTwo
  <2>2. CASE script' = Tail(script)
    <3>1. /\ Tail(script) \in Seq(ToSet(Tail(script))) /\ Len(Tail(script)) = Len(script) - 1 /\ Len(script) \in Nat
          /\ \A k \in DOMAIN Tail(script) : k + 1 \in DOMAIN script /\ Tail(script)[k] = script[k + 1]
      BY <1>3, Others
    <3>2. \A k \in DOMAIN Tail(script) : k \in Nat
      <4>1. DOMAIN Tail(script) = 1..Len(Tail(script))
        BY <3>1, LenProperties
      <4>. QED
        BY <4>1
    <3>3. \A k \in DOMAIN Tail(script) : k + 1 = Len(script) => k = Len(Tail(script))
      BY <3>1, <3>2
    <3>. QED
      BY <2>2, <3>1, <3>3 DEF IInv, Scripted
  <2>. QED
    BY <1>1, <2>1, <2>2, ZenonT(60)
<1>6. Scripted'
  <2>1. command' = command /\ pc' # "answer"
    BY <1>1
  <2>. QED
    BY <1>4, <1>5, <2>1 DEF Scripted
<1>7. Kept' /\ Filed'
  BY <1>1, KeptOn, FiledOn DEF IInv, link
<1>. QED
  BY <1>1, <1>2, <1>3, <1>4, <1>5, <1>6, <1>7, Quiet, OneOrTwo, ZenonT(60) DEF link

LEMMA RawReadStep ==
    ASSUME IInv, RawRead
    PROVE  IInv'
<1>1. /\ pc = "raw" /\ UNCHANGED <<device, alive, request, want, got, file, files, command, script>>
  BY DEF RawRead, store
<1>2. Kept' /\ Filed'
  BY <1>1, KeptOn, FiledOn DEF IInv
<1>3. CASE wire' = <<>> /\ shown' = Append(shown, wire) /\ pc' = pc
  <2>1. shown' \in Seq(ToSet(shown')) /\ shown' # <<>>
    <3>1. shown \in Seq(ToSet(shown))
      BY DEF IInv, Sequenced
    <3>2. shown' \in Seq(ToSet(shown')) /\ ToSet(shown') = ToSet(shown) \cup {wire}
      BY <1>3, <3>1, OneMore
    <3>. QED
      BY <3>2, OneOrTwo
  <2>2. Sequenced' /\ Room' /\ Pending' /\ Emptied' /\ Flying'
    BY <1>1, <1>3, <2>1 DEF IInv, Sequenced, Room, Pending, Emptied, Flying, Busy
  <2>3. Scripted'
    BY <1>1, <1>3, <2>1 DEF IInv, Scripted
  <2>. QED
    BY <1>2, <2>2, <2>3 DEF IInv
<1>4. CASE wire = <<>> /\ (request = <<>> \/ ~alive) /\ pc' = "quit" /\ UNCHANGED <<wire, shown>>
  <2>1. Scripted'
    BY <1>1, <1>4, ScriptedOn DEF IInv
  <2>2. want' \in Nat /\ got' \in Seq(ToSet(got')) /\ script' \in Seq(ToSet(script')) /\ shown' \in Seq(ToSet(shown'))
    BY <1>1, <1>4 DEF IInv, Room, Sequenced
  <2>. QED
    BY <1>1, <1>2, <1>4, <2>1, <2>2, Quiet, OneOrTwo
<1>. QED
  BY <1>3, <1>4 DEF RawRead, Stop

LEMMA CloseStep ==
    ASSUME IInv, Finished \/ Close
    PROVE  IInv'
<1>1. /\ UNCHANGED <<link, files, want, got, file, command, script, shown>> /\ pc' \in {"quit", "shell"}
      /\ ~Busy /\ pc # "raw"
  BY DEF Finished, Close, Stop, Busy, program, store
<1>. QED
  BY <1>1, Unasked, Ended

\* A program is started: it finds an empty line and at the most requests that
\* nobody waits for the answers of.
LEMMA StartStep ==
    ASSUME IInv, Start, pc' \in {"start", "ask", "quit"}, Scripted', script' \in Seq(ToSet(script')),
           alive => /\ request' \in Seq(ToSet(request'))
                    /\ \A i \in DOMAIN request' : request'[i].cmd \in Mutes
    PROVE  IInv'
<1>1. /\ wire' = <<>> /\ want' = 0 /\ got' = <<>> /\ shown' = <<>>
      /\ UNCHANGED <<device, alive, file, files>>
  BY DEF Start
<1>2. Kept' /\ Filed'
  BY <1>1, KeptOn, FiledOn DEF IInv
<1>. QED
  BY <1>1, <1>2, Quiet, OneOrTwo

LEMMA AtShell ==
    ASSUME IInv, Start
    PROVE  alive => request \in Seq(ToSet(request)) /\ \A i \in DOMAIN request : request[i].cmd \in Mutes
<1>1. ~Busy /\ pc # "raw"
  BY DEF Start, Busy
<1>. QED
  BY <1>1, Unasked

LEMMA StartLoggerStep ==
    ASSUME IInv, StartLogger
    PROVE  IInv'
<1>1. Start /\ pc' = "start" /\ command' = "none" /\ script' = <<>> /\ request' = request
  BY DEF StartLogger
<1>2. Scripted' /\ script' \in Seq(ToSet(script'))
  BY <1>1, OneOrTwo DEF Scripted
<1>. QED
  BY <1>1, <1>2, AtShell, StartStep

LEMMA StartToolStep ==
    ASSUME IInv, StartTool
    PROVE  IInv'
<1>1. Start /\ pc' = "ask" /\ request' = request
  BY DEF StartTool
<1>2. Scripted' /\ script' \in Seq(ToSet(script'))
  <2>1. CASE \E c \in DOMAIN Commands : command' = c /\ script' = Commands[c]
    <3>1. PICK c \in DOMAIN Commands : command' = c /\ script' = Commands[c]
      BY <2>1
    <3>2. /\ Commands[c] \in Seq(ToSet(Commands[c]))
          /\ \A k \in DOMAIN Commands[c] : Commands[c][k].bytes \in Nat /\ Proper(Commands[c][k])
          /\ c = "battery" => Commands[c] = cmd_battery
      BY Questions
    <3>. QED
      BY <1>1, <3>1, <3>2 DEF Scripted
  <2>2. CASE \E r \in RawInputs : command' = "raw" /\ script' = cmd_raw(r)
    <3>1. PICK r \in RawInputs : command' = "raw" /\ script' = cmd_raw(r)
      BY <2>2
    <3>2. /\ cmd_raw(r) \in Seq(ToSet(cmd_raw(r)))
          /\ \A k \in DOMAIN cmd_raw(r) :
               cmd_raw(r)[k].bytes \in Nat /\ (Proper(cmd_raw(r)[k]) \/ k = Len(cmd_raw(r)))
      BY Questions
    <3>. QED
      BY <1>1, <3>1, <3>2 DEF Scripted
  <2>. QED
    BY <2>1, <2>2 DEF StartTool
<1>. QED
  BY <1>1, <1>2, AtShell, StartStep

LEMMA StartWriterStep ==
    ASSUME IInv, StartWriter
    PROVE  IInv'
<1>1. Start /\ pc' = "quit" /\ command' = "write" /\ script' = <<>>
  BY DEF StartWriter
<1>2. Scripted' /\ script' \in Seq(ToSet(script'))
  BY <1>1, OneOrTwo DEF Scripted
<1>3. PICK new : /\ new \in Seq(ToSet(new)) /\ \A i \in DOMAIN new : new[i].cmd \in Mutes
                 /\ alive => request' = request \o new
  <2>1. CASE \E n \in Names : request' = request \o <<Cmd(WriteCmd[n])>> \o Data(last'[n])
    <3>1. PICK n \in Names : request' = request \o <<Cmd(WriteCmd[n])>> \o Data(last'[n])
      BY <2>1
    <3>. DEFINE w == Cmd(WriteCmd[n])  d == Data(last'[n])
    <3>2. w.cmd \in Mutes
      BY DEF Cmd, WriteCmd, Names, Mutes
    <3>3. d \in Seq(ToSet(d)) /\ DOMAIN d = 1..Chunks /\ \A i \in 1..Chunks : d[i].cmd = "data"
      <4>1. d = [i \in 1..Chunks |-> d[i]] /\ \A i \in 1..Chunks : d[i].cmd = "data"
        BY DEF Data
      <4>2. Chunks \in Nat
        BY ToolAssumption
      <4>. HIDE DEF d
      <4>. QED
        BY <4>1, <4>2, Table
    <3>4. <<w>> \in Seq(ToSet(<<w>>)) /\ DOMAIN <<w>> = {1} /\ <<w>>[1] = w
      BY OneOrTwo
    <3>. HIDE DEF w, d
    <3>5. <<w>> \in Seq(ToSet(<<w>>)) /\ d \in Seq(ToSet(d))
      BY <3>3, <3>4
    <3>6. /\ <<w>> \o d \in Seq(ToSet(<<w>> \o d))
          /\ \A i \in DOMAIN <<w>> : (<<w>> \o d)[i] = <<w>>[i]
          /\ \A i \in DOMAIN (<<w>> \o d) :
               i \in DOMAIN <<w>> \/ (i - Len(<<w>>) \in DOMAIN d /\ (<<w>> \o d)[i] = d[i - Len(<<w>>)])
      BY <3>5, Joined
    <3>7. \A i \in DOMAIN (<<w>> \o d) : (<<w>> \o d)[i].cmd \in Mutes
      <4>1. "data" \in Mutes
        BY DEF Mutes
      <4>. QED
        BY <3>2, <3>3, <3>4, <3>6, <4>1
    <3>8. ASSUME alive
          PROVE  request' = request \o (<<w>> \o d)
      <4>. DEFINE S == ToSet(request) \cup ToSet(<<w>>) \cup ToSet(d)
      <4>1. request \in Seq(ToSet(request))
        BY <1>1, <3>8, AtShell
      <4>2. request \in Seq(S) /\ <<w>> \in Seq(S) /\ d \in Seq(S)
        BY <3>3, <3>4, <4>1, SeqMonotonic
      <4>. HIDE DEF S
      <4>3. (request \o <<w>>) \o d = request \o (<<w>> \o d)
        BY <4>2, ConcatAssociative
      <4>. QED
        BY <3>1, <4>3 DEF w, d
    <3>. QED
      BY <3>6, <3>7, <3>8
  <2>2. CASE request' = Append(request, Cmd("address"))
    <3>. DEFINE w == Cmd("address")
    <3>1. w.cmd \in Mutes
      BY DEF Cmd, Mutes
    <3>2. <<w>> \in Seq(ToSet(<<w>>)) /\ DOMAIN <<w>> = {1} /\ <<w>>[1] = w
      BY OneOrTwo
    <3>3. ASSUME alive
          PROVE  request' = request \o <<w>>
      <4>1. request \in Seq(ToSet(request) \cup {w})
        BY <1>1, <3>3, AtShell, SeqMonotonic
      <4>. QED
        BY <2>2, <4>1, AppendIsConcat
    <3>. HIDE DEF w
    <3>. QED
      BY <3>1, <3>2, <3>3
  <2>. QED
    BY <2>1, <2>2 DEF StartWriter
<1>4. ASSUME alive
      PROVE  request' \in Seq(ToSet(request')) /\ \A i \in DOMAIN request' : request'[i].cmd \in Mutes
  <2>1. request \in Seq(ToSet(request)) /\ \A i \in DOMAIN request : request[i].cmd \in Mutes
    BY <1>1, <1>4, AtShell
  <2>2. /\ request \o new \in Seq(ToSet(request \o new))
        /\ \A i \in DOMAIN request : (request \o new)[i] = request[i]
        /\ \A i \in DOMAIN (request \o new) :
             i \in DOMAIN request \/ (i - Len(request) \in DOMAIN new /\ (request \o new)[i] = new[i - Len(request)])
    BY <1>3, <2>1, Joined
  <2>. QED
    BY <1>3, <1>4, <2>1, <2>2
<1>. QED
  BY <1>1, <1>2, <1>4, StartStep

LEMMA LoggerStep ==
    ASSUME IInv, Logger
    PROVE  IInv'
BY AskSerialStep, ReadSomeStep, AskListStep, ListReadStep, ChooseFlightStep, WriteFileStep, EndSteps
   DEF Logger, Host

LEMMA IInvStep == IInv /\ [ToolNext]_allvars => IInv'
<1>. SUFFICES ASSUME IInv, [ToolNext]_allvars PROVE IInv'
  OBVIOUS
<1>1. CASE Tool
  BY <1>1, LoggerStep, SendRequestStep, AnsweredStep, CloseStep, RawReadStep DEF Tool
<1>2. CASE Fake \/ LoseRequest \/ (LoseByte /\ UNCHANGED <<program, store>>)
  BY <1>2, DeviceStep
<1>3. CASE StartLogger \/ StartTool \/ StartWriter
  BY <1>3, StartLoggerStep, StartToolStep, StartWriterStep
<1>4. CASE UNCHANGED allvars
  <2>. USE <1>4 DEF allvars, vars, link, host, program, store
  <2>1. Kept' /\ Filed'
    BY KeptOn, FiledOn DEF IInv
  <2>2. Sequenced' /\ Room' /\ Pending' /\ Emptied' /\ Scripted'
    BY DEF IInv, Sequenced, Room, Pending, Emptied, Scripted, Busy, FlightRequest, Length
  <2>3. Flying'
    BY DEF IInv, Flying, Valid, Length, Flight
  <2>. QED
    BY <2>1, <2>2, <2>3 DEF IInv
<1>. QED
  BY <1>1, <1>2, <1>3, <1>4 DEF ToolNext

LEMMA InitIInv == ToolInit => IInv
<1>. SUFFICES ASSUME ToolInit PROVE IInv
  OBVIOUS
<1>. USE DEF ToolInit, Fresh
<1>1. Sequenced
  BY OneOrTwo DEF Sequenced
<1>2. Kept
  <2>1. ASSUME NEW n \in Names
        PROVE  Len(Whole(0)) = Chunks
    <3>. DEFINE F == Whole(0)
    <3>1. F = [i \in 1..Chunks |-> F[i]] /\ Chunks \in Nat
      BY ToolAssumption DEF Whole
    <3>. HIDE DEF F
    <3>2. Len(F) = Chunks
      BY <3>1, Table
    <3>. QED
      BY <3>2 DEF F
  <2>. QED
    BY <2>1 DEF Kept
<1>3. Room /\ Pending /\ Emptied /\ Flying /\ Filed
  BY OneOrTwo DEF Room, Pending, Emptied, Flying, Filed, Busy
<1>4. Scripted
  BY OneOrTwo DEF Scripted
<1>. QED
  BY <1>1, <1>2, <1>3, <1>4 DEF IInv

\* Whatever programs ran before, at any time one request at the most is to be
\* answered, nothing but its answer is on the wire, and that is no longer than
\* what zander_read waits for.
THEOREM AnswersInStep == ToolSpec => []IInv
<1>. QED
  BY InitIInv, IInvStep, PTL DEF ToolSpec

\* When zander-logger asks which flight to download, nothing of an earlier
\* answer is left on the wire and no request is left to be answered, unless
\* fakezander has exited.
THEOREM AnswersStayApart == ToolSpec => []AnswersDoNotMix
<1>1. IInv => AnswersDoNotMix
  BY AtPrompt DEF AnswersDoNotMix
<1>. QED
  BY <1>1, AnswersInStep, PTL

\* A .zan file holds the memory of its flight from its first address to its
\* last one, around the end of the ring if it lies there: no byte is missing
\* and none is another's, whatever the line lost and fakezander left out.
THEOREM FlightsAreWhole == ToolSpec => []FileIsTheFlight
<1>1. ASSUME IInv
      PROVE  FileIsTheFlight
  <2>. SUFFICES ASSUME file.flight # 0
                PROVE  LET a == Flights[file.flight][1]
                           n == CHOOSE k \in 0..RingSize - 1 : Step(a, k) = Flights[file.flight][2]
                       IN device = "logger" \/ n > 0 => file.bytes = [i \in 1..n + 1 |-> Byte("memory", Step(a, i - 1))]
    BY DEF FileIsTheFlight
  <2>. DEFINE f == file.flight
              a == Flights[f][1]
              b == Flights[f][2]
              d == zander_address_difference(a, b)
              n == CHOOSE k \in 0..RingSize - 1 : Step(a, k) = b
  <2>1. Valid(f) /\ (device = "logger" \/ Length(f) # 1 => file.bytes = Flight(f))
    BY <1>1 DEF IInv, Filed
  <2>2. /\ a \in Nat /\ b \in Nat /\ zander_address_valid(a) /\ zander_address_valid(b)
        /\ RingSize \in Nat \ {0} /\ Length(f) = d + 1
    BY <2>1, Lengths, RingAssumption DEF Valid, Length, flight_length, RingSize
  <2>3. d \in 0..RingSize - 1 /\ Step(a, d) = b
    BY <2>2, DifferenceIsDistance
  <2>4. n \in 0..RingSize - 1 /\ Step(a, n) = b
    BY <2>3
  <2>. HIDE DEF f, a, b, d, n
  <2>5. n = d
    BY <2>2, <2>3, <2>4, OneWay
  <2>6. Length(f) = n + 1 /\ (n > 0 => Length(f) # 1)
    BY <2>2, <2>4, <2>5
  <2>7. Flight(f) = [i \in 1..n + 1 |-> Byte("memory", Step(a, i - 1))]
    BY <2>6 DEF Flight, a
  <2>8. device = "logger" \/ n > 0 => file.bytes = [i \in 1..n + 1 |-> Byte("memory", Step(a, i - 1))]
    BY <2>1, <2>6, <2>7
  <2>. QED
    BY <2>8 DEF n, a, b, f
<1>. QED
  BY <1>1, AnswersInStep, PTL

-----------------------------------------------------------------------------
(* zander-tool shows the answers to its questions.  For personal data and  *)
(* a task, what a file holds must be followed through the queue: a write   *)
(* is its command and the pieces behind it, and the last one decides.      *)

\* The pieces of v come behind the i-th request of s, those at least that are
\* still to come: i is not above 0 when the command has been read.
Follows(s, i, v) == \A j \in 1..Chunks : i + j >= 1 => i + j \in DOMAIN s /\ s[i + j] = Data(v)[j]

\* There is another write of n behind it.
Later(s, n, i) == \E k \in DOMAIN s : k > i /\ s[k].cmd = WriteCmd[n]

\* What is written there is whole, and is the last version, or overwritten.
Counts(s, n, i, v, w) == v \in Nat /\ Follows(s, i, v) /\ (v = w[n] \/ Later(s, n, i))

\* Of the queue s, the file t that is being taken, the files f and the last
\* versions w: every write in s counts, so does the one that is being taken,
\* and a file that reads holds the last version or is going to be written.
Writes(s, w) == \A n \in Names : \A i \in DOMAIN s :
                  s[i].cmd = WriteCmd[n] => \E v \in Nat : Counts(s, n, i, v, w)
Taken(s, t, w) == t # Idle =>
                    /\ t.name \in Names /\ t = [name |-> t.name, data |-> t.data]
                    /\ t.data \in Seq(ToSet(t.data)) /\ Len(t.data) <= Chunks
                    /\ t.name = "task" => t.data = <<>>
                    /\ \E v \in Nat : /\ \A j \in 1..Len(t.data) : t.data[j] = Whole(v)[j]
                                      /\ Counts(s, t.name, 0 - Len(t.data), v, w)
Current(s, t, f, w) == \A n \in Names : \/ f[n] = Whole(w[n]) \/ Len(f[n]) # Chunks
                                        \/ t.name = n \/ Later(s, n, 0)
Good(s, t, f, w) == Writes(s, w) /\ Taken(s, t, w) /\ Current(s, t, f, w)

LEMMA TheWrites ==
    /\ \A n \in Names : WriteCmd[n] # "data" /\ WriteCmd[n] \in Mutes
    /\ \A n, m \in Names : WriteCmd[n] = WriteCmd[m] => n = m
    /\ \A n \in Names : n # Idle.name
    /\ \A v : \A j \in 1..Chunks : Data(v)[j].cmd = "data" /\ PieceOf(Data(v)[j]) = Whole(v)[j]
    /\ \A v : Whole(v) = [i \in 1..Chunks |-> Whole(v)[i]]
    /\ Chunks \in Nat /\ Chunks >= 1
BY ToolAssumption DEF Names, WriteCmd, Mutes, Idle, Data, PieceOf, Whole

\* t is s without its first k elements.
Behind(t, s, k) ==
    /\ k \in Nat /\ \A m \in DOMAIN s : m \in Nat /\ m > 0
    /\ \A j \in DOMAIN t : j \in Nat /\ j > 0 /\ k + j \in DOMAIN s /\ t[j] = s[k + j]
    /\ \A m \in DOMAIN s : m > k => m - k \in DOMAIN t /\ t[m - k] = s[m]

LEMMA TheRest ==
    ASSUME NEW s, s \in Seq(ToSet(s))
    PROVE  /\ \A k \in 0..Len(s) : Behind(SubSeq(s, k + 1, Len(s)), s, k)
           /\ s # <<>> => Behind(Tail(s), s, 1) /\ 1 \in DOMAIN s /\ Head(s) = s[1]
<1>1. Len(s) \in Nat /\ DOMAIN s = 1..Len(s)
  BY LenProperties
<1>2. ASSUME NEW k \in 0..Len(s)
      PROVE  Behind(SubSeq(s, k + 1, Len(s)), s, k)
  <2>. DEFINE t == SubSeq(s, k + 1, Len(s))
  <2>1. /\ Len(t) = Len(s) - k /\ DOMAIN t = 1..Len(t)
        /\ \A j \in DOMAIN t : k + j \in DOMAIN s /\ t[j] = s[k + j]
    BY Rest
  <2>. HIDE DEF t
  <2>2. k \in Nat /\ DOMAIN t = 1..Len(s) - k
    BY <1>1, <2>1
  <2>3. ASSUME NEW m \in DOMAIN s, m > k
        PROVE  m - k \in DOMAIN t /\ t[m - k] = s[m]
    <3>1. m - k \in DOMAIN t /\ k + (m - k) = m
      BY <1>1, <2>2, <2>3
    <3>. QED
      BY <2>1, <3>1
  <2>4. \A m \in DOMAIN s : m \in Nat /\ m > 0
    BY <1>1
  <2>5. \A j \in DOMAIN t : j \in Nat /\ j > 0
    BY <1>1, <2>2
  <2>6. Behind(t, s, k)
    BY <2>1, <2>2, <2>3, <2>4, <2>5 DEF Behind
  <2>. QED
    BY <2>6 DEF t
<1>3. ASSUME s # <<>>
      PROVE  Behind(Tail(s), s, 1) /\ 1 \in DOMAIN s /\ Head(s) = s[1]
  <2>1. 1 \in DOMAIN s /\ Head(s) = s[1] /\ Len(s) >= 1
    BY <1>3, Others
  <2>2. Tail(s) = SubSeq(s, 2, Len(s))
    BY <1>3, TailIsSubSeq
  <2>3. 1 \in 0..Len(s) /\ 1 + 1 = 2
    BY <1>1, <2>1
  <2>4. Behind(SubSeq(s, 1 + 1, Len(s)), s, 1)
    BY <1>2, <2>3
  <2>. QED
    BY <2>1, <2>2, <2>3, <2>4
<1>. QED
  BY <1>2, <1>3

\* The first k requests are read, none of which is another write of n.
LEMMA CountsOn ==
    ASSUME NEW s, NEW k, NEW t, Behind(t, s, k),
           NEW n, NEW i \in Int, NEW v, NEW w, Counts(s, n, i, v, w),
           \A m \in DOMAIN s : m <= k /\ m > i => s[m].cmd # WriteCmd[n]
    PROVE  Counts(t, n, i - k, v, w)
<1>1. k \in Nat
  BY DEF Behind
<1>2. Follows(t, i - k, v)
  <2>. SUFFICES ASSUME NEW j \in 1..Chunks, i - k + j >= 1
                PROVE  i - k + j \in DOMAIN t /\ t[i - k + j] = Data(v)[j]
    BY DEF Follows
  <2>1. i + j > k /\ i + j >= 1 /\ i - k + j = (i + j) - k
    BY <1>1, TheWrites
  <2>2. i + j \in DOMAIN s /\ s[i + j] = Data(v)[j]
    BY <2>1 DEF Counts, Follows
  <2>. QED
    BY <2>1, <2>2 DEF Behind
<1>3. Later(s, n, i) => Later(t, n, i - k)
  <2>. SUFFICES ASSUME NEW m \in DOMAIN s, m > i, s[m].cmd = WriteCmd[n]
                PROVE  Later(t, n, i - k)
    BY DEF Later
  <2>1. m \in Nat /\ ~(m <= k)
    BY DEF Behind
  <2>2. m > k /\ m - k > i - k
    BY <1>1, <2>1
  <2>3. m - k \in DOMAIN t /\ t[m - k] = s[m]
    BY <2>2 DEF Behind
  <2>. QED
    BY <2>2, <2>3 DEF Later
<1>. QED
  BY <1>2, <1>3 DEF Counts

\* The same for the writes in the queue.
LEMMA WritesOn ==
    ASSUME NEW s, NEW k, NEW t, Behind(t, s, k), NEW w, Writes(s, w)
    PROVE  Writes(t, w)
<1>. SUFFICES ASSUME NEW n \in Names, NEW i \in DOMAIN t, t[i].cmd = WriteCmd[n]
              PROVE  \E v \in Nat : Counts(t, n, i, v, w)
  BY DEF Writes
<1>1. k \in Nat /\ i \in Nat /\ i > 0 /\ k + i \in DOMAIN s /\ t[i] = s[k + i] /\ \A m \in DOMAIN s : m \in Nat
  BY DEF Behind
<1>2. PICK v \in Nat : Counts(s, n, k + i, v, w)
  BY <1>1 DEF Writes
<1>3. k + i \in Int /\ (k + i) - k = i /\ \A m \in DOMAIN s : m <= k => ~(m > k + i)
  BY <1>1
<1>4. Counts(t, n, (k + i) - k, v, w)
  BY <1>2, <1>3, CountsOn
<1>. QED
  BY <1>3, <1>4

\* And for one that is still to come.
LEMMA LaterOn ==
    ASSUME NEW s, NEW k, NEW t, Behind(t, s, k),
           NEW n, Later(s, n, 0), \A m \in DOMAIN s : m <= k => s[m].cmd # WriteCmd[n]
    PROVE  Later(t, n, 0)
<1>1. PICK m \in DOMAIN s : m > 0 /\ s[m].cmd = WriteCmd[n]
  BY DEF Later
<1>2. m \in Nat /\ k \in Nat /\ ~(m <= k)
  BY <1>1 DEF Behind
<1>3. m > k
  BY <1>2
<1>4. m - k \in DOMAIN t /\ t[m - k] = s[m] /\ m - k > 0
  BY <1>2, <1>3 DEF Behind
<1>. QED
  BY <1>1, <1>4 DEF Later

(* What becomes of the writes in each step of the device.                  *)

\* A request that is no write is read, or its bytes are.
LEMMA GoodRead ==
    ASSUME NEW s, s \in Seq(ToSet(s)), s # <<>>, NEW f, NEW w, Good(s, Idle, f, w),
           \A n \in Names : Head(s).cmd # WriteCmd[n]
    PROVE  Good(Tail(s), Idle, f, w)
<1>1. Behind(Tail(s), s, 1) /\ Head(s) = s[1]
  BY TheRest
<1>2. Writes(Tail(s), w)
  BY <1>1, WritesOn DEF Good
<1>3. ASSUME NEW n \in Names
      PROVE  Later(s, n, 0) => Later(Tail(s), n, 0)
  <2>1. \A m \in DOMAIN s : m <= 1 => m = 1
    BY <1>1 DEF Behind
  <2>. QED
    BY <1>1, <2>1, LaterOn
<1>4. Current(Tail(s), Idle, f, w)
  BY <1>3 DEF Good, Current
<1>. QED
  BY <1>2, <1>4 DEF Good, Taken

\* handle_write: its pieces come next.
LEMMA GoodWrite ==
    ASSUME NEW s, s \in Seq(ToSet(s)), s # <<>>, NEW f, NEW w, Good(s, Idle, f, w),
           NEW n \in Names, Head(s).cmd = WriteCmd[n],
           NEW t, t = [name |-> n, data |-> <<>>]
    PROVE  Good(Tail(s), t, f, w)
<1>1. Behind(Tail(s), s, 1) /\ 1 \in DOMAIN s /\ Head(s) = s[1]
  BY TheRest
<1>2. Writes(Tail(s), w)
  BY <1>1, WritesOn DEF Good
<1>3. t.name = n /\ t.data = <<>> /\ Len(t.data) = 0 /\ t.data \in Seq(ToSet(t.data))
  BY OneOrTwo
<1>4. PICK v \in Nat : Counts(s, n, 1, v, w)
  BY <1>1 DEF Good, Writes
<1>5. Counts(Tail(s), n, 0, v, w)
  <2>1. 1 \in Int /\ 1 - 1 = 0 /\ \A m \in DOMAIN s : m <= 1 => ~(m > 1)
    BY <1>1 DEF Behind
  <2>2. Counts(Tail(s), n, 1 - 1, v, w)
    BY <1>1, <1>4, <2>1, CountsOn
  <2>. QED
    BY <2>1, <2>2
<1>6. Taken(Tail(s), t, w)
  <2>1. 0 <= Chunks /\ 0 - 0 = 0 /\ \A j \in 1..0 : FALSE
    BY TheWrites
  <2>. QED
    BY <1>3, <1>5, <2>1 DEF Taken
<1>7. ASSUME NEW m \in Names, m # n
      PROVE  Later(s, m, 0) => Later(Tail(s), m, 0)
  <2>1. s[1].cmd # WriteCmd[m]
    BY <1>1, <1>7, TheWrites
  <2>2. \A k \in DOMAIN s : k <= 1 => k = 1
    BY <1>1 DEF Behind
  <2>. QED
    BY <1>1, <2>1, <2>2, LaterOn
<1>8. Current(Tail(s), t, f, w)
  <2>1. \A m \in Names : m # Idle.name
    BY TheWrites
  <2>. QED
    BY <1>3, <1>7, <2>1 DEF Good, Current
<1>. QED
  BY <1>2, <1>6, <1>8 DEF Good

\* TakePiece: what it takes is the next piece.
LEMMA GoodPiece ==
    ASSUME NEW s, s \in Seq(ToSet(s)), s # <<>>, NEW f, NEW w, NEW t, Good(s, t, f, w),
           t.name = "personal_data", Len(t.data) < Chunks,
           NEW u, u = [t EXCEPT !.data = Append(@, PieceOf(Head(s)))]
    PROVE  Good(Tail(s), u, f, w)
<1>1. Behind(Tail(s), s, 1) /\ 1 \in DOMAIN s /\ Head(s) = s[1]
  BY TheRest
<1>2. Writes(Tail(s), w)
  BY <1>1, WritesOn DEF Good
<1>. DEFINE o == Len(t.data)  p == PieceOf(Head(s))  d == Append(t.data, p)
<1>3. /\ t = [name |-> t.name, data |-> t.data] /\ t.data \in Seq(ToSet(t.data)) /\ t.name \in Names
      /\ \E v \in Nat : (\A j \in 1..o : t.data[j] = Whole(v)[j]) /\ Counts(s, t.name, 0 - o, v, w)
  <2>1. t # Idle
    BY TheWrites DEF Idle
  <2>. QED
    BY <2>1 DEF Good, Taken
<1>4. PICK v \in Nat : (\A j \in 1..o : t.data[j] = Whole(v)[j]) /\ Counts(s, t.name, 0 - o, v, w)
  BY <1>3
<1>5. /\ d \in Seq(ToSet(d)) /\ Len(d) = o + 1 /\ o \in Nat
      /\ \A j \in 1..o : d[j] = t.data[j]
      /\ d[o + 1] = p
  <2>1. d \in Seq(ToSet(d)) /\ t.data \in Seq(ToSet(t.data) \cup {p})
    BY <1>3, OneMore, SeqMonotonic
  <2>. QED
    BY <2>1, AppendProperties, LenProperties
<1>6. u = [name |-> t.name, data |-> d] /\ u.name = t.name /\ u.data = d
  <2>1. u = [t EXCEPT !.data = d]
    OBVIOUS
  <2>. HIDE DEF d
  <2>. QED
    BY <1>3, <2>1
<1>. HIDE DEF d
<1>7. o + 1 \in 1..Chunks /\ (0 - o) + (o + 1) = 1 /\ 0 - o \in Int /\ (0 - o) - 1 = 0 - (o + 1) /\ o + 1 <= Chunks
  <2>1. o < Chunks /\ o \in Nat /\ Chunks \in Nat
    BY <1>5, TheWrites
  <2>. HIDE DEF o
  <2>. QED
    BY <2>1
<1>8. s[1] = Data(v)[o + 1]
  BY <1>4, <1>7 DEF Counts, Follows
<1>9. p = Whole(v)[o + 1] /\ Head(s).cmd = "data"
  BY <1>1, <1>7, <1>8, TheWrites
<1>. HIDE DEF o, p
<1>10. \A j \in 1..Len(d) : d[j] = Whole(v)[j]
  <2>. SUFFICES ASSUME NEW j \in 1..Len(d) PROVE d[j] = Whole(v)[j]
    OBVIOUS
  <2>1. j \in 1..o \/ j = o + 1
    BY <1>5
  <2>. QED
    BY <1>4, <1>5, <1>9, <2>1
<1>11. \A n \in Names : \A m \in DOMAIN s : m <= 1 => s[m].cmd # WriteCmd[n]
  <2>1. \A m \in DOMAIN s : m <= 1 => m = 1
    BY <1>1 DEF Behind
  <2>. QED
    BY <1>1, <1>9, <2>1, TheWrites
<1>12. Counts(Tail(s), t.name, 0 - Len(d), v, w)
  <2>1. Counts(Tail(s), t.name, (0 - o) - 1, v, w)
    BY <1>1, <1>3, <1>4, <1>7, <1>11, CountsOn, ZenonT(60)
  <2>. QED
    BY <1>5, <1>7, <2>1
<1>13. Taken(Tail(s), u, w)
  <2>1. Len(d) <= Chunks
    BY <1>5, <1>7
  <2>. QED
    BY <1>3, <1>5, <1>6, <1>10, <1>12, <2>1 DEF Taken
<1>14. Current(Tail(s), u, f, w)
  <2>1. \A n \in Names : Later(s, n, 0) => Later(Tail(s), n, 0)
    BY <1>1, <1>11, LaterOn
  <2>. QED
    BY <1>6, <2>1 DEF Good, Current
<1>. QED
  BY <1>2, <1>13, <1>14 DEF Good

LEMMA WholeIs ==
    ASSUME NEW v, NEW d, d \in Seq(ToSet(d)), Len(d) = Chunks, \A j \in 1..Chunks : d[j] = Whole(v)[j]
    PROVE  d = Whole(v)
<1>. DEFINE W == Whole(v)
<1>1. W = [i \in 1..Chunks |-> W[i]] /\ Chunks \in Nat
  BY TheWrites
<1>. HIDE DEF W
<1>2. W \in Seq(ToSet(W)) /\ Len(W) = Chunks
  BY <1>1, Table
<1>3. d \in Seq(ToSet(d) \cup ToSet(W)) /\ W \in Seq(ToSet(d) \cup ToSet(W))
  BY <1>2, SeqMonotonic
<1>4. \A j \in 1..Len(d) : d[j] = W[j]
  BY DEF W
<1>5. d = W
  BY <1>2, <1>3, <1>4, SeqEqual
<1>. QED
  BY <1>5 DEF W

\* A version is stored; it is the last one, or another write is to come.
LEMMA GoodStored ==
    ASSUME NEW s, NEW t, NEW f, NEW w, Current(s, t, f, w), DOMAIN f = Names, NEW n \in Names, t.name = n,
           NEW v, v = w[n] \/ Later(s, n, 0), NEW g, g = [f EXCEPT ![n] = Whole(v)]
    PROVE  Current(s, Idle, g, w)
<1>. SUFFICES ASSUME NEW m \in Names
              PROVE  \/ g[m] = Whole(w[m]) \/ Len(g[m]) # Chunks
                     \/ Idle.name = m \/ Later(s, m, 0)
  BY DEF Current
<1>1. CASE m = n
  <2>1. g[m] = Whole(v)
    BY <1>1
  <2>. QED
    BY <1>1, <2>1
<1>2. CASE m # n
  <2>1. g[m] = f[m] /\ t.name # m
    BY <1>2
  <2>. QED
    BY <2>1 DEF Current
<1>. QED
  BY <1>1, <1>2

\* StoreAll.
LEMMA GoodStore ==
    ASSUME NEW s, s \in Seq(ToSet(s)), NEW f, NEW w, NEW t, Good(s, t, f, w), DOMAIN f = Names,
           NEW n \in Names, t.name = n, Len(t.data) = Chunks,
           NEW g, g = [f EXCEPT ![n] = t.data]
    PROVE  Good(s, Idle, g, w)
<1>1. t # Idle
  BY TheWrites
<1>2. /\ t.data \in Seq(ToSet(t.data))
      /\ \E v \in Nat : (\A j \in 1..Chunks : t.data[j] = Whole(v)[j]) /\ Counts(s, n, 0 - Chunks, v, w)
  BY <1>1 DEF Good, Taken
<1>3. PICK v \in Nat : (\A j \in 1..Chunks : t.data[j] = Whole(v)[j]) /\ Counts(s, n, 0 - Chunks, v, w)
  BY <1>2
<1>4. t.data = Whole(v)
  BY <1>2, <1>3, WholeIs
<1>5. v = w[n] \/ Later(s, n, 0)
  <2>1. CASE Later(s, n, 0 - Chunks)
    <3>1. PICK k \in DOMAIN s : s[k].cmd = WriteCmd[n]
      BY <2>1 DEF Later
    <3>2. k \in Nat /\ k > 0
      <4>1. DOMAIN s = 1..Len(s) /\ Len(s) \in Nat
        BY LenProperties
      <4>. QED
        BY <4>1
    <3>. QED
      BY <3>1, <3>2 DEF Later
  <2>. QED
    BY <1>3, <2>1 DEF Counts
<1>6. Current(s, Idle, g, w)
  BY <1>4, <1>5, GoodStored DEF Good
<1>. QED
  BY <1>6 DEF Good, Taken

LEMMA TaskTaken ==
    ASSUME NEW s, NEW t, NEW w, Taken(s, t, w), t.name = "task"
    PROVE  \E v \in Nat : Counts(s, "task", 0, v, w)
<1>1. t # Idle
  <2>1. t = Idle => t.name = "none"
    BY DEF Idle
  <2>. QED
    BY <2>1
<1>2. t.data = <<>> /\ \E v \in Nat : Counts(s, "task", 0 - Len(t.data), v, w)
  BY <1>1 DEF Taken
<1>3. Len(<<>>) = 0
  BY OneOrTwo
<1>4. 0 - 0 = 0
  OBVIOUS
<1>. QED
  BY <1>2, <1>3, <1>4

\* StoreTask, when all pieces are there.
LEMMA GoodTask ==
    ASSUME NEW s, s \in Seq(ToSet(s)), NEW f, NEW w, NEW t, Good(s, t, f, w), DOMAIN f = Names,
           t.name = "task", Chunks <= Len(s),
           NEW g, g = [f EXCEPT !["task"] = [i \in 1..Chunks |-> IF i <= Chunks THEN PieceOf(s[i]) ELSE Zero]]
    PROVE  Good(SubSeq(s, Chunks + 1, Len(s)), Idle, g, w)
<1>. DEFINE u == SubSeq(s, Chunks + 1, Len(s))
<1>1. Behind(u, s, Chunks) /\ Chunks \in Nat
  <2>1. Chunks \in 0..Len(s) /\ Chunks \in Nat
    BY TheWrites, LenProperties
  <2>. QED
    BY <2>1, TheRest
<1>. HIDE DEF u
<1>2. "task" \in Names
  BY DEF Names
<1>3. PICK v \in Nat : Counts(s, "task", 0, v, w)
  BY TaskTaken DEF Good
<1>4. \A j \in 1..Chunks : j \in DOMAIN s /\ s[j] = Data(v)[j]
  <2>1. \A j \in 1..Chunks : 0 + j = j /\ j >= 1
    BY <1>1
  <2>. QED
    BY <1>3, <2>1 DEF Counts, Follows
<1>5. g = [f EXCEPT !["task"] = Whole(v)]
  <2>1. \A j \in 1..Chunks : PieceOf(s[j]) = Whole(v)[j] /\ j <= Chunks
    BY <1>1, <1>4, TheWrites
  <2>2. [i \in 1..Chunks |-> IF i <= Chunks THEN PieceOf(s[i]) ELSE Zero] = [i \in 1..Chunks |-> Whole(v)[i]]
    BY <2>1
  <2>. QED
    BY <2>2, TheWrites
<1>6. \A n \in Names : \A m \in DOMAIN s : m <= Chunks => s[m].cmd # WriteCmd[n]
  <2>1. \A m \in DOMAIN s : m <= Chunks => m \in 1..Chunks
    BY <1>1 DEF Behind
  <2>. QED
    BY <1>4, <2>1, TheWrites
<1>7. \A n \in Names : Later(s, n, 0) => Later(u, n, 0)
  BY <1>1, <1>6, LaterOn
<1>8. Writes(u, w)
  BY <1>1, WritesOn DEF Good
<1>9. Current(u, t, f, w)
  BY <1>7 DEF Good, Current
<1>10. v = w["task"] \/ Later(u, "task", 0)
  BY <1>2, <1>3, <1>7 DEF Counts
<1>11. Current(u, Idle, g, w)
  BY <1>2, <1>5, <1>9, <1>10, GoodStored, ZenonT(60)
<1>12. Good(u, Idle, g, w)
  BY <1>8, <1>11 DEF Good, Taken
<1>. QED
  BY <1>12 DEF u

\* When they are not, a piece is next, and fakezander is going to take it for
\* a command.
LEMMA GoodCut ==
    ASSUME NEW s, s \in Seq(ToSet(s)), NEW f, NEW w, NEW t, Good(s, t, f, w),
           t.name = "task", NEW k \in 0..Len(s), k < Chunks
    PROVE  SubSeq(s, k + 1, Len(s)) # <<>> /\ Head(SubSeq(s, k + 1, Len(s))).cmd = "data"
<1>. DEFINE u == SubSeq(s, k + 1, Len(s))
<1>1. Behind(u, s, k) /\ u \in Seq(ToSet(u))
  BY TheRest, Rest
<1>. HIDE DEF u
<1>2. PICK v \in Nat : Counts(s, "task", 0, v, w)
  BY TaskTaken DEF Good
<1>3. k + 1 \in 1..Chunks /\ 0 + (k + 1) = k + 1 /\ k + 1 >= 1 /\ k + 1 > k /\ (k + 1) - k = 1
  <2>1. k \in Nat /\ Chunks \in Nat
    BY <1>1, TheWrites DEF Behind
  <2>. QED
    BY <2>1
<1>4. k + 1 \in DOMAIN s /\ s[k + 1] = Data(v)[k + 1]
  BY <1>2, <1>3 DEF Counts, Follows
<1>5. 1 \in DOMAIN u /\ u[1] = s[k + 1]
  BY <1>1, <1>3, <1>4 DEF Behind
<1>6. u # <<>>
  BY <1>5, OneOrTwo
<1>7. Head(u) = u[1]
  BY <1>1, <1>6, Others
<1>8. Head(u).cmd = "data"
  BY <1>3, <1>4, <1>5, <1>7, TheWrites, SMTT(60)
<1>. QED
  BY <1>6, <1>8 DEF u

\* u begins with s.
Longer(u, s) == \A i \in DOMAIN s : i \in DOMAIN u /\ u[i] = s[i]

LEMMA CountsLonger ==
    ASSUME NEW s, NEW u, Longer(u, s), NEW n, NEW i, NEW v, NEW w, Counts(s, n, i, v, w)
    PROVE  /\ Follows(u, i, v) /\ (Later(s, n, i) => Later(u, n, i))
           /\ Counts(u, n, i, v, w)
BY DEF Longer, Counts, Follows, Later

\* Requests that are no writes are sent.
LEMMA GoodMore ==
    ASSUME NEW s, s \in Seq(ToSet(s)), NEW q, q \in Seq(ToSet(q)),
           NEW t, NEW f, NEW w, Good(s, t, f, w),
           \A i \in DOMAIN q : \A n \in Names : q[i].cmd # WriteCmd[n]
    PROVE  Good(s \o q, t, f, w)
<1>. DEFINE u == s \o q
<1>1. /\ Longer(u, s)
      /\ \A i \in DOMAIN u : i \in DOMAIN s \/ (i - Len(s) \in DOMAIN q /\ u[i] = q[i - Len(s)])
  BY Joined DEF Longer
<1>. HIDE DEF u
<1>2. ASSUME NEW n \in Names, NEW i \in DOMAIN u, u[i].cmd = WriteCmd[n]
      PROVE  \E v \in Nat : Counts(u, n, i, v, w)
  <2>1. i \in DOMAIN s /\ u[i] = s[i]
    BY <1>1, <1>2 DEF Longer
  <2>2. PICK v \in Nat : Counts(s, n, i, v, w)
    BY <1>2, <2>1 DEF Good, Writes
  <2>. QED
    BY <1>1, <2>2, CountsLonger
<1>3. Writes(u, w)
  BY <1>2 DEF Writes
<1>4. Taken(u, t, w)
  BY <1>1, CountsLonger DEF Good, Taken
<1>5. Current(u, t, f, w)
  <2>1. \A n : Later(s, n, 0) => Later(u, n, 0)
    BY <1>1 DEF Longer, Later
  <2>. QED
    BY <2>1 DEF Good, Current
<1>6. Good(u, t, f, w)
  BY <1>3, <1>4, <1>5 DEF Good
<1>. QED
  BY <1>6 DEF u

\* Where the command and the pieces of a write come.
Placed(s, c, x, u, p) ==
    /\ Longer(u, s) /\ p \in DOMAIN u /\ u[p] = c /\ p \in Nat /\ p > 0
    /\ \A i \in DOMAIN s : i < p
    /\ \A j \in 1..Chunks : p + j \in DOMAIN u /\ u[p + j] = Data(x)[j]
    /\ \A i \in DOMAIN u : i \in DOMAIN s \/ i = p \/ \E j \in 1..Chunks : u[i] = Data(x)[j]

LEMMA WritePlaces ==
    ASSUME NEW s, s \in Seq(ToSet(s)), NEW c, NEW x, NEW u, u = s \o (<<c>> \o Data(x)),
           NEW p, p = Len(s) + 1
    PROVE  Placed(s, c, x, u, p)
<1>. DEFINE d == Data(x)  e == <<c>> \o d
<1>1. d \in Seq(ToSet(d)) /\ Len(d) = Chunks /\ DOMAIN d = 1..Chunks /\ Chunks \in Nat
  <2>1. d = [i \in 1..Chunks |-> d[i]] /\ Chunks \in Nat
    BY TheWrites DEF Data
  <2>. HIDE DEF d
  <2>. QED
    BY <2>1, Table
<1>2. <<c>> \in Seq(ToSet(<<c>>)) /\ Len(<<c>>) = 1 /\ DOMAIN <<c>> = {1} /\ <<c>>[1] = c
  BY OneOrTwo
<1>. HIDE DEF d
<1>3. /\ e \in Seq(ToSet(e)) /\ Len(e) = 1 + Chunks /\ DOMAIN e = 1..Len(e) /\ 1 \in DOMAIN e /\ e[1] = c
      /\ \A i \in DOMAIN e : i = 1 \/ (i - 1 \in 1..Chunks /\ e[i] = d[i - 1])
  <2>1. <<c>> \in Seq(ToSet(<<c>>)) /\ d \in Seq(ToSet(d))
    BY <1>1, <1>2
  <2>2. /\ e \in Seq(ToSet(e)) /\ Len(e) = Len(<<c>>) + Len(d) /\ DOMAIN e = 1..Len(e)
        /\ \A i \in DOMAIN <<c>> : i \in DOMAIN e /\ e[i] = <<c>>[i]
        /\ \A i \in DOMAIN e : i \in DOMAIN <<c>> \/ (i - Len(<<c>>) \in DOMAIN d /\ e[i] = d[i - Len(<<c>>)])
    BY <2>1, Joined
  <2>. QED
    BY <1>1, <1>2, <2>2
<1>. HIDE DEF e
<1>4. u = s \o e
  BY DEF e, d
<1>5. /\ Len(u) = Len(s) + Len(e) /\ Len(s) \in Nat /\ DOMAIN s = 1..Len(s) /\ DOMAIN u = 1..Len(u)
      /\ Longer(u, s)
      /\ \A i \in DOMAIN u : i \in DOMAIN s \/ (i - Len(s) \in DOMAIN e /\ u[i] = e[i - Len(s)])
  <2>1. /\ Len(s \o e) = Len(s) + Len(e) /\ Len(s) \in Nat /\ DOMAIN s = 1..Len(s) /\ DOMAIN (s \o e) = 1..Len(s \o e)
        /\ \A i \in DOMAIN s : i \in DOMAIN (s \o e) /\ (s \o e)[i] = s[i]
        /\ \A i \in DOMAIN (s \o e) :
             i \in DOMAIN s \/ (i - Len(s) \in DOMAIN e /\ (s \o e)[i] = e[i - Len(s)])
    BY <1>3, Joined
  <2>. QED
    BY <1>4, <2>1 DEF Longer
<1>6. p \in Nat /\ p > 0 /\ \A i \in DOMAIN s : i < p
  BY <1>5
<1>7. \A j \in DOMAIN e : Len(s) + j \in DOMAIN u /\ u[Len(s) + j] = e[j]
  <2>. SUFFICES ASSUME NEW j \in DOMAIN e
                PROVE  Len(s) + j \in DOMAIN u /\ u[Len(s) + j] = e[j]
    OBVIOUS
  <2>1. /\ Len(s) + j \in DOMAIN u /\ ~(Len(s) + j \in DOMAIN s) /\ (Len(s) + j) - Len(s) = j
    BY <1>1, <1>3, <1>5
  <2>. QED
    BY <1>5, <2>1
<1>8. p \in DOMAIN u /\ u[p] = c
  BY <1>3, <1>7
<1>9. \A j \in 1..Chunks : p + j \in DOMAIN u /\ u[p + j] = d[j]
  <2>. SUFFICES ASSUME NEW j \in 1..Chunks
                PROVE  p + j \in DOMAIN u /\ u[p + j] = d[j]
    OBVIOUS
  <2>1. 1 + j \in DOMAIN e /\ 1 + j # 1 /\ (1 + j) - 1 = j /\ Len(s) + (1 + j) = p + j
    BY <1>1, <1>3, <1>5
  <2>. QED
    BY <1>3, <1>7, <2>1
<1>10. ASSUME NEW i \in DOMAIN u, i \notin DOMAIN s, i # p
       PROVE  \E j \in 1..Chunks : u[i] = d[j]
  <2>1. i - Len(s) \in DOMAIN e /\ u[i] = e[i - Len(s)]
    BY <1>5, <1>10
  <2>2. i - Len(s) # 1
    BY <1>5, <1>10
  <2>. QED
    BY <1>3, <2>1, <2>2
<1>. QED
  BY <1>5, <1>6, <1>8, <1>9, <1>10 DEF d, Placed

\* A version of n is written.
LEMMA GoodWritten ==
    ASSUME NEW s, s \in Seq(ToSet(s)), NEW t, NEW f, NEW w, Good(s, t, f, w), w \in [Names -> Nat],
           NEW n \in Names, NEW x \in Nat, NEW y, y = [w EXCEPT ![n] = x],
           NEW u, u = s \o (<<Cmd(WriteCmd[n])>> \o Data(x))
    PROVE  Good(u, t, f, y)
<1>. DEFINE p == Len(s) + 1
<1>1. /\ Longer(u, s) /\ p \in DOMAIN u /\ u[p].cmd = WriteCmd[n] /\ p \in Nat /\ p > 0
      /\ \A i \in DOMAIN s : i < p
      /\ \A j \in 1..Chunks : p + j \in DOMAIN u /\ u[p + j] = Data(x)[j]
      /\ \A i \in DOMAIN u : i \in DOMAIN s \/ i = p \/ \E j \in 1..Chunks : u[i] = Data(x)[j]
  <2>. DEFINE c == Cmd(WriteCmd[n])
  <2>1. c.cmd = WriteCmd[n] /\ u = s \o (<<c>> \o Data(x))
    BY DEF Cmd
  <2>. HIDE DEF c
  <2>2. p = Len(s) + 1
    OBVIOUS
  <2>. HIDE DEF p
  <2>3. Placed(s, c, x, u, p)
    BY <2>1, <2>2, WritePlaces
  <2>. QED
    BY <2>1, <2>3 DEF Placed
<1>. HIDE DEF p
<1>2. y[n] = x /\ \A m \in Names : m # n => y[m] = w[m]
  OBVIOUS
<1>3. ASSUME NEW m \in Names, NEW i, i < p, NEW v, Counts(s, m, i, v, w)
      PROVE  Counts(u, m, i, v, y)
  <2>1. Follows(u, i, v) /\ (Later(s, m, i) => Later(u, m, i))
    BY <1>1, <1>3, CountsLonger
  <2>2. m = n => Later(u, m, i)
    BY <1>1, <1>3 DEF Later
  <2>. QED
    BY <1>2, <1>3, <2>1, <2>2 DEF Counts
<1>4. Counts(u, n, p, x, y)
  BY <1>1, <1>2 DEF Counts, Follows
<1>5. ASSUME NEW m \in Names, NEW i \in DOMAIN u, u[i].cmd = WriteCmd[m]
      PROVE  \E v \in Nat : Counts(u, m, i, v, y)
  <2>1. CASE i \in DOMAIN s
    <3>1. s[i].cmd = WriteCmd[m] /\ i < p
      BY <1>1, <1>5, <2>1 DEF Longer
    <3>2. PICK v \in Nat : Counts(s, m, i, v, w)
      BY <2>1, <3>1 DEF Good, Writes
    <3>. QED
      BY <1>3, <3>1, <3>2
  <2>2. CASE i = p
    BY <1>1, <1>4, <1>5, <2>2, TheWrites
  <2>3. ASSUME NEW j \in 1..Chunks, u[i] = Data(x)[j]
        PROVE  FALSE
    <3>1. Data(x)[j].cmd = "data" /\ WriteCmd[m] # "data"
      BY TheWrites
    <3>. QED
      BY <1>5, <2>3, <3>1
  <2>. QED
    BY <1>1, <2>1, <2>2, <2>3
<1>6. Writes(u, y)
  BY <1>5 DEF Writes
<1>7. Taken(u, t, y)
  <2>. SUFFICES ASSUME t # Idle PROVE Taken(u, t, y)
    BY DEF Taken
  <2>1. t.name \in Names /\ t.data \in Seq(ToSet(t.data))
    BY DEF Good, Taken
  <2>2. 0 - Len(t.data) < p
    <3>1. Len(t.data) \in Nat
      BY <2>1, LenProperties
    <3>. QED
      BY <1>1, <3>1
  <2>. QED
    BY <1>3, <2>1, <2>2 DEF Good, Taken
<1>8. Current(u, t, f, y)
  <2>1. Later(u, n, 0)
    BY <1>1 DEF Later
  <2>2. \A m : Later(s, m, 0) => Later(u, m, 0)
    BY <1>1 DEF Longer, Later
  <2>. QED
    BY <1>2, <2>1, <2>2 DEF Good, Current
<1>. QED
  BY <1>6, <1>7, <1>8 DEF Good

\* A request is lost that is neither a write nor a piece.
LEMMA GoodLost ==
    ASSUME NEW s, s \in Seq(ToSet(s)), NEW t, NEW f, NEW w, Good(s, t, f, w),
           NEW k \in 1..Len(s), s[k].cmd # "data", \A n \in Names : s[k].cmd # WriteCmd[n]
    PROVE  Good(RemoveAt(s, k), t, f, w)
<1>. DEFINE u == RemoveAt(s, k)
<1>1. /\ Len(u) = Len(s) - 1 /\ DOMAIN u = 1..Len(u) /\ Len(s) \in Nat /\ DOMAIN s = 1..Len(s)
      /\ \A j \in DOMAIN u : \/ j \in DOMAIN s /\ j < k /\ u[j] = s[j]
                             \/ j + 1 \in DOMAIN s /\ j + 1 > k /\ u[j] = s[j + 1]
  BY Without, LenProperties
<1>. HIDE DEF u
<1>2. k \in Nat /\ k > 0 /\ \A i \in DOMAIN s : i \in Nat /\ i > 0
  BY <1>1
<1>3. ASSUME NEW i \in DOMAIN s, i < k
      PROVE  i \in DOMAIN u /\ u[i] = s[i]
  <2>1. i \in DOMAIN u /\ ~(i + 1 > k)
    BY <1>1, <1>3
  <2>. QED
    BY <1>1, <2>1
<1>4. ASSUME NEW i \in DOMAIN s, i > k
      PROVE  i - 1 \in DOMAIN u /\ u[i - 1] = s[i]
  <2>1. i - 1 \in DOMAIN u /\ ~(i - 1 < k) /\ (i - 1) + 1 = i
    BY <1>1, <1>4
  <2>. QED
    BY <1>1, <2>1
<1>5. ASSUME NEW n \in Names, NEW i \in Int, NEW v, i > k, Counts(s, n, i, v, w)
      PROVE  Counts(u, n, i - 1, v, w)
  <2>1. Follows(u, i - 1, v)
    <3>. SUFFICES ASSUME NEW j \in 1..Chunks
                  PROVE  i - 1 + j \in DOMAIN u /\ u[i - 1 + j] = Data(v)[j]
      BY DEF Follows
    <3>1. i + j >= 1 /\ i + j > k /\ (i + j) - 1 = i - 1 + j
      BY <1>2, <1>5, TheWrites
    <3>2. i + j \in DOMAIN s /\ s[i + j] = Data(v)[j]
      BY <1>5, <3>1 DEF Counts, Follows
    <3>. QED
      BY <1>4, <3>1, <3>2
  <2>2. ASSUME NEW m \in DOMAIN s, m > i
        PROVE  m - 1 \in DOMAIN u /\ u[m - 1] = s[m] /\ m - 1 > i - 1
    <3>1. m > k /\ m - 1 > i - 1
      BY <1>2, <1>5, <2>2
    <3>. QED
      BY <1>4, <3>1
  <2>3. Later(s, n, i) => Later(u, n, i - 1)
    BY <2>2 DEF Later
  <2>. QED
    BY <1>5, <2>1, <2>3 DEF Counts
<1>6. ASSUME NEW n \in Names, NEW i \in Int, i < k, Later(s, n, i)
      PROVE  Later(u, n, i)
  <2>1. PICK m \in DOMAIN s : m > i /\ s[m].cmd = WriteCmd[n]
    BY <1>6 DEF Later
  <2>2. CASE m < k
    BY <1>3, <2>1, <2>2 DEF Later
  <2>3. CASE m > k
    <3>1. m - 1 > i
      BY <1>2, <1>6, <2>3
    <3>. QED
      BY <1>4, <2>1, <2>3, <3>1 DEF Later
  <2>4. m # k
    BY <2>1
  <2>. QED
    BY <1>2, <2>2, <2>3, <2>4
<1>7. ASSUME NEW n \in Names, NEW i \in Int, NEW v, i < k, Counts(s, n, i, v, w)
      PROVE  Counts(u, n, i, v, w)
  <2>1. ASSUME NEW j \in 1..Chunks, i + j >= 1
        PROVE  i + j \in DOMAIN u /\ u[i + j] = Data(v)[j]
    <3>1. i + j \in DOMAIN s /\ s[i + j] = Data(v)[j]
      BY <1>7, <2>1 DEF Counts, Follows
    <3>2. i + j < k
      <4>1. ASSUME i + j >= k
            PROVE  FALSE
        <5>. DEFINE l == k - i
        <5>1. l \in 1..Chunks /\ i + l = k /\ i + l >= 1
          BY <1>2, <1>7, <4>1, TheWrites
        <5>. HIDE DEF l
        <5>2. s[k] = Data(v)[l]
          BY <1>7, <5>1 DEF Counts, Follows
        <5>. QED
          BY <5>1, <5>2, TheWrites
      <4>2. i + j \in Int
        BY TheWrites
      <4>. QED
        BY <1>2, <4>1, <4>2
    <3>. QED
      BY <1>3, <3>1, <3>2
  <2>2. Follows(u, i, v)
    BY <2>1 DEF Follows
  <2>. QED
    BY <1>6, <1>7, <2>2 DEF Counts
<1>8. ASSUME NEW n \in Names, NEW j \in DOMAIN u, u[j].cmd = WriteCmd[n]
      PROVE  \E v \in Nat : Counts(u, n, j, v, w)
  <2>1. CASE j \in DOMAIN s /\ j < k /\ u[j] = s[j]
    <3>1. PICK v \in Nat : Counts(s, n, j, v, w)
      BY <1>8, <2>1 DEF Good, Writes
    <3>2. j \in Int
      BY <1>2, <2>1
    <3>. QED
      BY <1>7, <2>1, <3>1, <3>2
  <2>2. CASE j + 1 \in DOMAIN s /\ j + 1 > k /\ u[j] = s[j + 1]
    <3>1. PICK v \in Nat : Counts(s, n, j + 1, v, w)
      BY <1>8, <2>2 DEF Good, Writes
    <3>2. j + 1 \in Int /\ (j + 1) - 1 = j
      BY <1>1, <2>2
    <3>3. Counts(u, n, (j + 1) - 1, v, w)
      BY <1>5, <2>2, <3>1, <3>2
    <3>. QED
      BY <3>2, <3>3
  <2>. QED
    BY <1>1, <2>1, <2>2
<1>9. Writes(u, w)
  BY <1>8 DEF Writes
<1>10. Taken(u, t, w)
  <2>. SUFFICES ASSUME t # Idle PROVE Taken(u, t, w)
    BY DEF Taken
  <2>1. t.name \in Names /\ t.data \in Seq(ToSet(t.data))
    BY DEF Good, Taken
  <2>2. 0 - Len(t.data) \in Int /\ 0 - Len(t.data) < k
    <3>1. Len(t.data) \in Nat
      BY <2>1, LenProperties
    <3>. QED
      BY <1>2, <3>1
  <2>. QED
    BY <1>7, <2>1, <2>2 DEF Good, Taken
<1>11. Current(u, t, f, w)
  <2>1. \A n \in Names : Later(s, n, 0) => Later(u, n, 0)
    BY <1>2, <1>6
  <2>. QED
    BY <2>1 DEF Good, Current
<1>12. Good(u, t, f, w)
  BY <1>9, <1>10, <1>11 DEF Good
<1>. QED
  BY <1>12 DEF u
(* What is stored will be what was written last.                           *)
WriteCmds == {WriteCmd[n] : n \in Names}

\* Requests none of which is a write.
NoWrites(q) == q \in Seq(ToSet(q)) /\ \A i \in DOMAIN q : q[i].cmd \notin WriteCmds

Queued == /\ device \in {"logger", "fakezander"}
          /\ request \in Seq(ToSet(request)) /\ last \in [Names -> Nat]
Modest == \A k \in DOMAIN script : NoWrites(script[k].items)

\* fakezander is about to take a piece for a command.
Doomed == device = "fakezander" /\ taking = Idle /\ request # <<>> /\ Head(request).cmd = "data"
Stored == alive /\ ~spoilt => Doomed \/ Good(request, taking, files, last)

QInv == Queued /\ Modest /\ Stored

LEMMA AWrite == WriteCmds = {"WRITE_PERSONAL_DATA", "WRITE_TASK"}
BY DEF WriteCmds, WriteCmd, Names

LEMMA NotAWrite ==
    ASSUME NEW c, c \notin WriteCmds
    PROVE  \A n \in Names : c # WriteCmd[n]
BY DEF WriteCmds

\* The queue, the files and what was written are as they were.
LEMMA QueueOn ==
    ASSUME Queued, Stored, UNCHANGED <<device, alive, request, taking, files, last, spoilt>>
    PROVE  Queued' /\ Stored'
BY DEF Queued, Stored, Doomed

\* fakezander has exited.
LEMMA QueueOut ==
    ASSUME Queued, alive' = FALSE, UNCHANGED <<device, last>>,
           request' = request \/ (request # <<>> /\ request' = Tail(request))
    PROVE  Queued' /\ Stored'
<1>1. request' \in Seq(ToSet(request'))
  BY Others DEF Queued
<1>. QED
  BY <1>1 DEF Queued, Stored

\* A request is read that is no write.
LEMMA QueueRead ==
    ASSUME Queued, Stored, taking = Idle, request # <<>>, request' = Tail(request),
           Head(request).cmd \notin WriteCmds, device = "logger" \/ Head(request).cmd # "data",
           alive, UNCHANGED <<device, taking, files, last, spoilt>>
    PROVE  Queued' /\ Stored'
<1>1. Queued'
  BY Others DEF Queued
<1>2. ASSUME ~spoilt
      PROVE  Good(request', taking', files', last')
  <2>1. Good(request, Idle, files, last)
    BY <1>2 DEF Stored, Doomed
  <2>2. \A n \in Names : Head(request).cmd # WriteCmd[n]
    BY NotAWrite
  <2>3. Good(Tail(request), Idle, files, last)
    BY <2>1, <2>2, GoodRead DEF Queued
  <2>. QED
    BY <2>3
<1>. QED
  BY <1>1, <1>2 DEF Stored

\* Requests are sent.
LEMMA StillDoomed ==
    ASSUME Queued, Doomed, NEW q, q \in Seq(ToSet(q)), request' = request \o q, UNCHANGED <<device, taking>>
    PROVE  Doomed'
<1>1. 1 \in DOMAIN request /\ Head(request) = request[1] /\ request \in Seq(ToSet(request))
  BY Others DEF Queued, Doomed
<1>2. request' \in Seq(ToSet(request')) /\ 1 \in DOMAIN request' /\ request'[1] = request[1]
  BY <1>1, Joined
<1>3. request' # <<>>
  BY <1>2, OneOrTwo
<1>4. Head(request') = request'[1]
  BY <1>2, <1>3, Others
<1>. QED
  BY <1>1, <1>2, <1>3, <1>4 DEF Doomed

LEMMA QueueMore ==
    ASSUME Queued, Stored, NEW q, NoWrites(q), request' = request \o q,
           UNCHANGED <<device, alive, taking, files, last, spoilt>>
    PROVE  Queued' /\ Stored'
<1>1. q \in Seq(ToSet(q)) /\ request \in Seq(ToSet(request))
  BY DEF NoWrites, Queued
<1>2. Queued'
  BY <1>1, Joined DEF Queued
<1>3. ASSUME alive, ~spoilt
      PROVE  Doomed' \/ Good(request', taking', files', last')
  <2>1. CASE Doomed
    BY <1>1, <2>1, StillDoomed
  <2>2. CASE Good(request, taking, files, last)
    <3>1. \A i \in DOMAIN q : \A n \in Names : q[i].cmd # WriteCmd[n]
      BY NotAWrite DEF NoWrites
    <3>2. Good(request \o q, taking, files, last)
      BY <1>1, <2>2, <3>1, GoodMore
    <3>. QED
      BY <3>2
  <2>. QED
    BY <1>3, <2>1, <2>2 DEF Stored
<1>. QED
  BY <1>2, <1>3 DEF Stored

LEMMA QueueOneMore ==
    ASSUME Queued, Stored, NEW r, r.cmd \notin WriteCmds, request' = Append(request, r),
           UNCHANGED <<device, alive, taking, files, last, spoilt>>
    PROVE  Queued' /\ Stored'
<1>1. request \in Seq(ToSet(request) \cup {r})
  BY SeqMonotonic DEF Queued
<1>2. request' = request \o <<r>>
  BY <1>1, AppendIsConcat
<1>3. NoWrites(<<r>>)
  <2>1. <<r>> \in Seq(ToSet(<<r>>)) /\ DOMAIN <<r>> = {1} /\ <<r>>[1] = r
    BY OneOrTwo
  <2>. QED
    BY <2>1 DEF NoWrites
<1>. QED
  BY <1>2, <1>3, QueueMore

-----------------------------------------------------------------------------
(* The steps of the device.                                                *)
LEMMA DeviceQueue ==
    ASSUME Queued, Stored, Device, taking = Idle, UNCHANGED <<program, store>>
    PROVE  Queued' /\ Stored'
<1>1. /\ request # <<>> /\ request' = Tail(request)
      /\ UNCHANGED <<device, taking, files, last, spoilt>>
      /\ Head(request).cmd \in {"READ_SERIAL", "READ_MEMORY"}
  BY DEF Device, ReadSerial, LoggerReadMemory, FakeReadMemory, FakeShortRead, Answer, store
<1>2. Head(request).cmd \notin WriteCmds /\ Head(request).cmd # "data"
  BY <1>1, AWrite
<1>3. alive' => alive
  BY DEF Device, ReadSerial, LoggerReadMemory, FakeReadMemory, FakeShortRead
<1>4. CASE alive
  BY <1>1, <1>2, <1>4, QueueRead
<1>5. CASE ~alive
  <2>1. Queued'
    BY <1>1, Others DEF Queued
  <2>2. Stored'
    BY <1>3, <1>5 DEF Stored
  <2>. QED
    BY <2>1, <2>2
<1>. QED
  BY <1>4, <1>5

LEMMA ReadQueue ==
    ASSUME Queued, Stored, handle_read_battery \/ handle_read \/ handle_unknown \/ LoggerIgnores
    PROVE  Queued' /\ Stored'
<1>1. CASE handle_read_battery \/ handle_read
  <2>1. /\ alive /\ taking = Idle /\ request # <<>> /\ request' = Tail(request)
      /\ UNCHANGED <<device, taking, files, last, spoilt>>
        /\ Head(request).cmd \in {"READ_LI_BATTERY", "READ_9V_BATTERY", "READ_PERSONAL_DATA", "READ_TASK"}
    BY <1>1 DEF handle_read_battery, handle_read, Exits, Head1, Answer, store, ReadCmd, Names
  <2>2. Head(request).cmd \notin WriteCmds /\ Head(request).cmd # "data"
    BY <2>1, AWrite
  <2>. QED
    BY <2>1, <2>2, QueueRead, SMTT(60)
<1>2. CASE handle_unknown
  <2>1. /\ alive' = FALSE /\ device' = device /\ request # <<>> /\ request' = Tail(request) /\ last' = last
    BY <1>2 DEF handle_unknown, Exits, Head1, Answer, store
  <2>. QED
    BY <2>1, QueueOut
<1>3. CASE LoggerIgnores
  <2>1. /\ alive /\ taking = Idle /\ request # <<>> /\ request' = Tail(request)
      /\ UNCHANGED <<device, taking, files, last, spoilt>>
        /\ Head(request).cmd \in {"data", "address"} /\ device = "logger"
    BY <1>3 DEF LoggerIgnores, Head1, Answer, store
  <2>2. Head(request).cmd \notin WriteCmds
    BY <2>1, AWrite
  <2>. QED
    BY <2>1, <2>2, QueueRead
<1>. QED
  BY <1>1, <1>2, <1>3

LEMMA WriteQueue ==
    ASSUME Queued, Stored, handle_write
    PROVE  Queued' /\ Stored'
<1>1. PICK n \in Names : Head1(WriteCmd[n]) /\ taking' = [name |-> n, data |-> <<>>]
  BY DEF handle_write
<1>2. /\ alive /\ taking = Idle /\ request # <<>> /\ Head(request).cmd = WriteCmd[n]
      /\ request' = Tail(request) /\ UNCHANGED <<device, files, last, spoilt>>
  BY <1>1 DEF handle_write, Head1, Answer
<1>3. Queued'
  BY <1>2, Others DEF Queued
<1>4. ASSUME ~spoilt
      PROVE  Good(request', taking', files', last')
  <2>1. ~Doomed
    BY <1>2, TheWrites DEF Doomed
  <2>2. Good(request, Idle, files, last)
    BY <1>2, <1>4, <2>1 DEF Stored
  <2>. DEFINE t == [name |-> n, data |-> <<>>]
  <2>3. Good(Tail(request), t, files, last)
    BY <1>2, <2>2, GoodWrite DEF Queued
  <2>. QED
    BY <1>1, <1>2, <2>3
<1>. QED
  BY <1>2, <1>3, <1>4 DEF Stored

LEMMA PieceQueue ==
    ASSUME Queued, Stored, TakePiece
    PROVE  Queued' /\ Stored'
<1>1. /\ taking.name = "personal_data" /\ alive /\ request # <<>> /\ Len(taking.data) < Chunks
      /\ taking' = [taking EXCEPT !.data = Append(@, PieceOf(Head(request)))]
      /\ request' = Tail(request) /\ UNCHANGED <<device, files, last, spoilt>>
  BY DEF TakePiece
<1>2. Queued'
  BY <1>1, Others DEF Queued
<1>3. ASSUME ~spoilt
      PROVE  Good(request', taking', files', last')
  <2>1. ~Doomed
    BY <1>1 DEF Doomed, Idle
  <2>2. Good(request, taking, files, last)
    BY <1>1, <1>3, <2>1 DEF Stored
  <2>. DEFINE u == [taking EXCEPT !.data = Append(@, PieceOf(Head(request)))]
  <2>3. Good(Tail(request), u, files, last)
    BY <1>1, <2>2, GoodPiece DEF Queued
  <2>. QED
    BY <1>1, <2>3
<1>. QED
  BY <1>1, <1>2, <1>3 DEF Stored

LEMMA StoreAllQueue ==
    ASSUME IInv, Queued, Stored, StoreAll
    PROVE  Queued' /\ Stored'
<1>1. /\ taking.name = "personal_data" /\ alive /\ Len(taking.data) = Chunks /\ request' = request
      /\ taking' = Idle /\ UNCHANGED <<device, last, spoilt>>
      /\ alive' = FALSE \/ files' = [files EXCEPT !["personal_data"] = taking.data]
  BY DEF StoreAll, Store
<1>2. Queued'
  BY <1>1 DEF Queued
<1>3. ASSUME ~spoilt, alive'
      PROVE  Good(request', taking', files', last')
  <2>1. ~Doomed
    BY <1>1 DEF Doomed, Idle
  <2>2. Good(request, taking, files, last)
    BY <1>1, <1>3, <2>1 DEF Stored
  <2>3. DOMAIN files = Names /\ "personal_data" \in Names
    BY DEF IInv, Kept, Names
  <2>4. PICK g : g = [files EXCEPT !["personal_data"] = taking.data]
    OBVIOUS
  <2>5. Good(request, Idle, g, last)
    BY <1>1, <2>2, <2>3, <2>4, GoodStore DEF Queued
  <2>. QED
    BY <1>1, <1>3, <2>4, <2>5
<1>. QED
  BY <1>1, <1>2, <1>3 DEF Stored

LEMMA StoreTaskQueue ==
    ASSUME IInv, Queued, Stored, StoreTask
    PROVE  Queued' /\ Stored'
<1>1. PICK k \in 0..Chunks :
        /\ k <= Len(request)
        /\ device = "logger" => k = Chunks
        /\ Store("task", [i \in 1..Chunks |-> IF i <= k THEN PieceOf(request[i]) ELSE Zero])
        /\ request' = SubSeq(request, k + 1, Len(request))
  BY DEF StoreTask
<1>. DEFINE d == [i \in 1..Chunks |-> IF i <= k THEN PieceOf(request[i]) ELSE Zero]
<1>2. /\ taking.name = "task" /\ alive /\ taking' = Idle /\ UNCHANGED <<device, last, spoilt>>
      /\ alive' = FALSE \/ files' = [files EXCEPT !["task"] = d]
      /\ k = Chunks \/ device = "fakezander"
  BY <1>1 DEF StoreTask, Store, Queued
<1>3. k \in 0..Len(request) /\ Chunks \in Nat /\ request \in Seq(ToSet(request))
  <2>1. Chunks \in Nat /\ request \in Seq(ToSet(request)) /\ Len(request) \in Nat
    BY TheWrites, LenProperties DEF Queued
  <2>. QED
    BY <1>1, <2>1
<1>4. Queued'
  BY <1>1, <1>2, <1>3, Rest DEF Queued
<1>5. ASSUME ~spoilt, alive'
      PROVE  Doomed' \/ Good(request', taking', files', last')
  <2>1. ~Doomed
    BY <1>2 DEF Doomed, Idle
  <2>2. Good(request, taking, files, last)
    BY <1>2, <1>5, <2>1 DEF Stored
  <2>3. DOMAIN files = Names
    BY DEF IInv, Kept
  <2>4. CASE k = Chunks
    <3>1. PICK g : g = [files EXCEPT !["task"] =
                          [i \in 1..Chunks |-> IF i <= Chunks THEN PieceOf(request[i]) ELSE Zero]]
      OBVIOUS
    <3>2. Good(SubSeq(request, Chunks + 1, Len(request)), Idle, g, last)
      BY <1>1, <1>2, <1>3, <2>2, <2>3, <2>4, <3>1, GoodTask
    <3>. QED
      BY <1>1, <1>2, <1>5, <2>4, <3>1, <3>2
  <2>5. CASE k < Chunks /\ device = "fakezander"
    <3>1. SubSeq(request, k + 1, Len(request)) # <<>> /\ Head(SubSeq(request, k + 1, Len(request))).cmd = "data"
      BY <1>2, <1>3, <2>2, <2>5, GoodCut
    <3>. QED
      BY <1>1, <1>2, <2>5, <3>1 DEF Doomed
  <2>. QED
    BY <1>1, <1>2, <1>3, <2>4, <2>5
<1>. QED
  BY <1>2, <1>4, <1>5 DEF Stored

LEMMA LoseQueue ==
    ASSUME Queued, Stored, LoseRequest
    PROVE  Queued' /\ Stored'
<1>1. PICK k \in 1..Len(request) :
        /\ request' = RemoveAt(request, k)
        /\ spoilt' = (spoilt \/ request[k].cmd \in {"data"} \cup WriteCmds)
  BY DEF LoseRequest, WriteCmds
<1>2. UNCHANGED <<device, alive, taking, files, last>>
  BY DEF LoseRequest
<1>3. request \in Seq(ToSet(request)) /\ Len(request) \in Nat /\ DOMAIN request = 1..Len(request)
  BY LenProperties DEF Queued
<1>4. /\ request' \in Seq(ToSet(request')) /\ Len(request') = Len(request) - 1 /\ DOMAIN request' = 1..Len(request')
      /\ \A j \in DOMAIN request' : \/ j \in DOMAIN request /\ j < k /\ request'[j] = request[j]
                                    \/ j + 1 \in DOMAIN request /\ j + 1 > k /\ request'[j] = request[j + 1]
  <2>. DEFINE u == RemoveAt(request, k)
  <2>1. /\ u \in Seq(ToSet(u)) /\ Len(u) = Len(request) - 1 /\ DOMAIN u = 1..Len(u)
        /\ \A j \in DOMAIN u : \/ j \in DOMAIN request /\ j < k /\ u[j] = request[j]
                               \/ j + 1 \in DOMAIN request /\ j + 1 > k /\ u[j] = request[j + 1]
    BY <1>3, Without, Zenon
  <2>2. request' = u
    BY <1>1
  <2>. HIDE DEF u
  <2>. QED
    BY <2>1, <2>2, SMTT(60)
<1>5. Queued'
  BY <1>2, <1>4 DEF Queued
<1>6. ASSUME alive', ~spoilt'
      PROVE  Doomed' \/ Good(request', taking', files', last')
  <2>1. alive /\ ~spoilt /\ request[k].cmd # "data" /\ request[k].cmd \notin WriteCmds
    BY <1>1, <1>2, <1>6
  <2>2. CASE Doomed
    <3>1. 1 \in DOMAIN request /\ request[1].cmd = "data"
      BY <1>3, <2>2, Others DEF Doomed
    <3>2. k > 1 /\ 1 \in DOMAIN request' /\ ~(1 + 1 > k /\ k # 2)
      BY <1>3, <1>4, <2>1, <3>1
    <3>3. request'[1] = request[1]
      <4>1. Len(request') \in Nat /\ 1 \in DOMAIN request' /\ ~(1 + 1 > k)
        BY <1>3, <1>4, <3>2
      <4>. QED
        BY <1>4, <4>1
    <3>4. request' # <<>>
      BY <3>2, OneOrTwo
    <3>5. Head(request') = request'[1]
      BY <1>4, <3>4, Others
    <3>. QED
      BY <1>2, <2>2, <3>1, <3>3, <3>4, <3>5 DEF Doomed
  <2>3. CASE Good(request, taking, files, last)
    <3>1. \A n \in Names : request[k].cmd # WriteCmd[n]
      BY <2>1, NotAWrite
    <3>2. Good(RemoveAt(request, k), taking, files, last)
      BY <1>3, <2>1, <2>3, <3>1, GoodLost
    <3>. QED
      BY <1>1, <1>2, <3>2
  <2>. QED
    BY <2>1, <2>2, <2>3 DEF Stored
<1>. QED
  BY <1>5, <1>6 DEF Stored

LEMMA FakeQueue ==
    ASSUME IInv, Queued, Stored, Fake \/ LoseRequest
    PROVE  Queued' /\ Stored'
BY DeviceQueue, ReadQueue, WriteQueue, PieceQueue, StoreAllQueue, StoreTaskQueue, LoseQueue DEF Fake

-----------------------------------------------------------------------------
(* The steps of the programs.                                              *)
LEMMA LoggerQueue ==
    ASSUME Queued, Stored, Logger
    PROVE  Queued' /\ Stored'
<1>1. UNCHANGED <<device, alive, taking, files, last, spoilt>>
  BY DEF Logger, Host, AskSerial, ReadSome, AskList, ListRead, ChooseFlight, WriteFile, ReadTimeout,
         DoneWithFlight, Quit, Ask, link, store
<1>2. request' = request \/ \E r : r.cmd \in {"READ_SERIAL", "READ_MEMORY"} /\ request' = Append(request, r)
  <2>1. CASE AskSerial
    <3>1. request' = Append(request, [cmd |-> "READ_SERIAL"])
      BY <2>1 DEF AskSerial, Ask
    <3>. QED
      BY <3>1
  <2>2. CASE AskList
    <3>. DEFINE r == [cmd |-> "READ_MEMORY", start |-> ListBase, length |-> ListLength]
    <3>1. request' = Append(request, r) /\ r.cmd = "READ_MEMORY"
      BY <2>2 DEF AskList, Ask
    <3>. QED
      BY <3>1
  <2>3. CASE ChooseFlight
    <3>1. PICK n \in DOMAIN Flights :
            \/ UNCHANGED link
            \/ Ask([cmd |-> "READ_MEMORY", start |-> Flights[n][1],
                    length |-> flight_length(Flights[n][1], Flights[n][2])],
                   flight_length(Flights[n][1], Flights[n][2]), "memory")
      BY <2>3 DEF ChooseFlight
    <3>. DEFINE r == [cmd |-> "READ_MEMORY", start |-> Flights[n][1],
                      length |-> flight_length(Flights[n][1], Flights[n][2])]
    <3>2. request' = request \/ (request' = Append(request, r) /\ r.cmd = "READ_MEMORY")
      BY <3>1 DEF Ask, link
    <3>. QED
      BY <3>2
  <2>4. CASE ReadSome \/ ListRead \/ WriteFile \/ ReadTimeout \/ DoneWithFlight \/ Quit
    BY <2>4 DEF ReadSome, ListRead, WriteFile, ReadTimeout, DoneWithFlight, Quit, link
  <2>. QED
    BY <2>1, <2>2, <2>3, <2>4 DEF Logger, Host
<1>. QED
  BY <1>1, <1>2, QueueOn, QueueOneMore, AWrite

LEMMA ToolQueue ==
    ASSUME IInv, QInv, SendRequest \/ Answered \/ Finished \/ RawRead \/ Close
    PROVE  Queued' /\ Stored'
<1>1. UNCHANGED <<device, alive, taking, files, last, spoilt>>
  BY DEF SendRequest, Answered, Finished, RawRead, Close, link, store
<1>2. CASE SendRequest
  <2>1. script # <<>> /\ request' = request \o Head(script).items
    BY <1>2 DEF SendRequest
  <2>2. 1 \in DOMAIN script /\ Head(script) = script[1]
    BY <2>1, Others DEF IInv, Sequenced
  <2>3. NoWrites(Head(script).items)
    BY <2>2 DEF QInv, Modest
  <2>. QED
    BY <1>1, <2>1, <2>3, QueueMore DEF QInv
<1>3. CASE Answered \/ Finished \/ RawRead \/ Close
  BY <1>1, <1>3, QueueOn DEF QInv, Answered, Finished, RawRead, Close, link
<1>. QED
  BY <1>2, <1>3

LEMMA WriterQueue ==
    ASSUME Queued, Stored, StartWriter
    PROVE  Queued' /\ Stored'
<1>1. UNCHANGED <<device, alive, taking, files, spoilt>>
  BY DEF StartWriter, Start
<1>2. CASE request' = Append(request, Cmd("address")) /\ UNCHANGED last
  BY <1>1, <1>2, QueueOneMore, AWrite DEF Cmd
<1>3. CASE \E n \in Names : /\ last' = [last EXCEPT ![n] = @ + 1]
                            /\ request' = request \o <<Cmd(WriteCmd[n])>> \o Data(last'[n])
  <2>1. PICK n \in Names : /\ last' = [last EXCEPT ![n] = @ + 1]
                           /\ request' = request \o <<Cmd(WriteCmd[n])>> \o Data(last'[n])
    BY <1>3
  <2>. DEFINE x == last'[n]  c == <<Cmd(WriteCmd[n])>>  d == Data(x)
  <2>2. last' \in [Names -> Nat] /\ x \in Nat /\ last' = [last EXCEPT ![n] = x]
    BY <2>1 DEF Queued
  <2>3. request \in Seq(ToSet(request)) /\ c \in Seq(ToSet(c)) /\ d \in Seq(ToSet(d))
    <3>1. d = [i \in 1..Chunks |-> d[i]] /\ Chunks \in Nat
      BY TheWrites DEF Data
    <3>2. c \in Seq(ToSet(c))
      BY OneOrTwo
    <3>. HIDE DEF c, d
    <3>3. d \in Seq(ToSet(d))
      BY <3>1, Table
    <3>. QED
      BY <3>2, <3>3 DEF Queued
  <2>. HIDE DEF x
  <2>4. request' = request \o (c \o d) /\ request' \in Seq(ToSet(request')) /\ c \o d \in Seq(ToSet(c \o d))
    <3>. DEFINE S == ToSet(request) \cup ToSet(c) \cup ToSet(d)
    <3>1. request' = (request \o c) \o d
      BY <2>1 DEF x
    <3>. HIDE DEF c, d
    <3>2. request \in Seq(S) /\ c \in Seq(S) /\ d \in Seq(S)
      BY <2>3, SeqMonotonic
    <3>. HIDE DEF S
    <3>3. (request \o c) \o d = request \o (c \o d)
      BY <3>2, ConcatAssociative
    <3>4. c \o d \in Seq(ToSet(c \o d))
      BY <2>3, Joined
    <3>5. request \o (c \o d) \in Seq(ToSet(request \o (c \o d)))
      BY <2>3, <3>4, Joined
    <3>. QED
      BY <3>1, <3>3, <3>4, <3>5
  <2>5. Queued'
    BY <1>1, <2>2, <2>4 DEF Queued
  <2>6. ASSUME alive, ~spoilt
        PROVE  Doomed' \/ Good(request', taking', files', last')
    <3>1. CASE Doomed
      <4>. HIDE DEF c, d
      <4>. QED
        BY <1>1, <2>4, <3>1, StillDoomed
    <3>2. CASE Good(request, taking, files, last)
      <4>1. last \in [Names -> Nat] /\ request \in Seq(ToSet(request))
        BY DEF Queued
      <4>2. request' = request \o (<<Cmd(WriteCmd[n])>> \o Data(x))
        BY <2>4
      <4>3. Good(request', taking, files, last')
        BY <2>2, <3>2, <4>1, <4>2, GoodWritten
      <4>. QED
        BY <1>1, <4>3
    <3>. QED
      BY <2>6, <3>1, <3>2 DEF Stored
  <2>. QED
    BY <1>1, <2>5, <2>6 DEF Stored
<1>. QED
  BY <1>2, <1>3 DEF StartWriter

LEMMA StartQueue ==
    ASSUME Queued, Stored, StartLogger \/ StartTool \/ StartWriter
    PROVE  Queued' /\ Stored'
<1>1. CASE StartLogger \/ StartTool
  BY <1>1, QueueOn DEF StartLogger, StartTool, Start
<1>. QED
  BY <1>1, WriterQueue

\* Nothing that zander-tool asks is a write.
LEMMA Modesty ==
    /\ \A q \in {zander_read_serial, zander_read_personal_data, zander_read_li_battery,
                 zander_read_9v_battery, zander_read_task, zander_flight_list} : NoWrites(q.items)
    /\ \A r \in RawInputs : \A k \in DOMAIN cmd_raw(r) : NoWrites(cmd_raw(r)[k].items)
<1>1. ASSUME NEW r, r.cmd \notin {"WRITE_PERSONAL_DATA", "WRITE_TASK"}
      PROVE  NoWrites(<<r>>)
  <2>1. <<r>> \in Seq(ToSet(<<r>>)) /\ DOMAIN <<r>> = {1} /\ <<r>>[1] = r
    BY OneOrTwo
  <2>. QED
    BY <1>1, <2>1, AWrite DEF NoWrites
<1>2. /\ NoWrites(zander_read_serial.items) /\ NoWrites(zander_read_personal_data.items)
      /\ NoWrites(zander_read_li_battery.items) /\ NoWrites(zander_read_9v_battery.items)
      /\ NoWrites(zander_read_task.items)
  BY <1>1 DEF zander_read_serial, zander_read_personal_data, zander_read_li_battery, zander_read_9v_battery,
              zander_read_task, Request, Cmd
<1>3. NoWrites(zander_flight_list.items)
  <2>. DEFINE r == [cmd |-> "READ_MEMORY", start |-> ListBase, length |-> ListLength]
  <2>1. r.cmd = "READ_MEMORY" /\ zander_flight_list.items = <<r>>
    BY DEF zander_flight_list
  <2>. HIDE DEF r
  <2>. QED
    BY <1>1, <2>1
<1>4. ASSUME NEW r \in RawInputs, NEW k \in DOMAIN cmd_raw(r)
      PROVE  NoWrites(cmd_raw(r)[k].items)
  <2>. DEFINE t == [i \in 1..Len(r) |-> Cmd(r[i])]
              q == [items |-> t, bytes |-> 0]
  <2>1. cmd_raw(r) = <<zander_read_serial, q>>
    BY DEF cmd_raw
  <2>2. NoWrites(t)
    <3>1. r \in Seq({"READ_SERIAL", "READ_LI_BATTERY", "READ_9V_BATTERY", "READ_PERSONAL_DATA", "READ_TASK"})
      BY ToolAssumption
    <3>2. /\ Len(r) \in Nat /\ DOMAIN r = 1..Len(r)
          /\ \A i \in 1..Len(r) : r[i] \notin {"WRITE_PERSONAL_DATA", "WRITE_TASK"}
      BY <3>1
    <3>3. \A i \in 1..Len(r) : t[i].cmd = r[i]
      BY DEF Cmd
    <3>4. t = [i \in 1..Len(r) |-> t[i]]
      OBVIOUS
    <3>. HIDE DEF t
    <3>5. t \in Seq(ToSet(t)) /\ DOMAIN t = 1..Len(r)
      BY <3>2, <3>4, Table
    <3>. QED
      BY <3>2, <3>3, <3>5, AWrite DEF NoWrites
  <2>3. q.items = t
    OBVIOUS
  <2>. HIDE DEF q
  <2>4. k \in {1, 2} /\ cmd_raw(r)[1] = zander_read_serial /\ cmd_raw(r)[2] = q
    BY <2>1, OneOrTwo
  <2>. HIDE DEF t
  <2>. QED
    BY <1>2, <2>2, <2>3, <2>4
<1>. QED
  BY <1>2, <1>3, <1>4

LEMMA CommandsAre ==
    /\ DOMAIN Commands = {"info", "personal_data", "battery", "show_task", "list"}
    /\ Commands["info"] = <<zander_read_serial>>
    /\ Commands["personal_data"] = <<zander_read_personal_data>>
    /\ Commands["battery"] = <<zander_read_serial, zander_read_li_battery, zander_read_9v_battery>>
    /\ Commands["show_task"] = <<zander_read_serial, zander_read_task>>
    /\ Commands["list"] = <<zander_read_serial, zander_flight_list>>
BY DEF Commands, cmd_info, cmd_read_personal_data, cmd_battery, cmd_show_task, cmd_list

LEMMA CommandsModest == \A c \in DOMAIN Commands : \A k \in DOMAIN Commands[c] : NoWrites(Commands[c][k].items)
<1>. SUFFICES ASSUME NEW c \in DOMAIN Commands, NEW k \in DOMAIN Commands[c]
              PROVE  NoWrites(Commands[c][k].items)
  OBVIOUS
<1>. DEFINE Q == {zander_read_serial, zander_read_personal_data, zander_read_li_battery,
                  zander_read_9v_battery, zander_read_task, zander_flight_list}
<1>1. Commands[c][k] \in Q
  BY CommandsAre
<1>. HIDE DEF Q
<1>2. \A q \in Q : NoWrites(q.items)
  BY Modesty DEF Q
<1>. QED
  BY <1>1, <1>2

LEMMA ModestStep ==
    ASSUME IInv, QInv, [ToolNext]_allvars
    PROVE  Modest'
<1>1. script \in Seq(ToSet(script)) /\ Modest
  BY DEF IInv, Sequenced, QInv
<1>2. CASE UNCHANGED script
  BY <1>1, <1>2 DEF Modest
<1>3. CASE script' = <<>>
  BY <1>3, OneOrTwo DEF Modest
<1>4. CASE StartTool
  <2>1. CASE \E c \in DOMAIN Commands : script' = Commands[c]
    BY <2>1, CommandsModest DEF Modest
  <2>2. CASE \E r \in RawInputs : script' = cmd_raw(r)
    BY <2>2, Modesty DEF Modest
  <2>. QED
    BY <1>4, <2>1, <2>2 DEF StartTool
<1>5. CASE Answered
  <2>1. script # <<>>
    BY <1>5 DEF IInv, Scripted, Answered
  <2>2. \A k \in DOMAIN Tail(script) : k + 1 \in DOMAIN script /\ Tail(script)[k] = script[k + 1]
    BY <1>1, <2>1, Others
  <2>3. CASE script' = Tail(script)
    BY <1>1, <2>2, <2>3 DEF Modest
  <2>4. CASE command = "battery" /\ shown = <<>> /\ script' = <<Head(Tail(script))>>
    <3>1. script = <<zander_read_serial, zander_read_li_battery, zander_read_9v_battery>>
      BY <2>4 DEF IInv, Scripted, cmd_battery
    <3>2. script' = <<zander_read_li_battery>>
      BY <2>4, <3>1
    <3>3. DOMAIN script' = {1} /\ script'[1] = zander_read_li_battery
      BY <3>2, OneOrTwo
    <3>4. NoWrites(zander_read_li_battery.items)
      BY Modesty
    <3>. QED
      BY <3>3, <3>4 DEF Modest
  <2>5. \/ command = "battery" /\ shown = <<>> /\ script' = <<Head(Tail(script))>>
        \/ script' = Tail(script)
    <3>1. script' = IF command = "battery" /\ shown = <<>> /\ got[1].at = 940
                    THEN <<Head(Tail(script))>> ELSE Tail(script)
      BY <1>5 DEF Answered
    <3>. DEFINE low == got[1].at = 940
    <3>. HIDE DEF low
    <3>2. script' = IF command = "battery" /\ shown = <<>> /\ low THEN <<Head(Tail(script))>> ELSE Tail(script)
      BY <3>1 DEF low
    <3>. QED
      BY ONLY <3>2
  <2>. QED
    BY <2>3, <2>4, <2>5
<1>6. UNCHANGED script \/ script' = <<>> \/ StartTool \/ Answered
  <2>1. CASE Fake \/ LoseRequest \/ (LoseByte /\ UNCHANGED <<program, store>>)
    BY <2>1 DEF Fake, handle_read_battery, handle_read, handle_write, TakePiece, StoreAll, StoreTask, Store,
                handle_unknown, LoggerIgnores, LoseRequest, program
  <2>2. CASE Logger \/ SendRequest \/ Finished \/ RawRead \/ Close \/ UNCHANGED allvars
    BY <2>2 DEF Logger, SendRequest, Finished, RawRead, Close, allvars, program
  <2>3. CASE StartLogger \/ StartWriter
    BY <2>3 DEF StartLogger, StartWriter
  <2>. QED
    BY <2>1, <2>2, <2>3 DEF ToolNext, Tool
<1>. QED
  BY <1>2, <1>3, <1>4, <1>5, <1>6

LEMMA QInvStep ==
    ASSUME IInv, QInv, [ToolNext]_allvars
    PROVE  QInv'
<1>1. Modest'
  BY ModestStep
<1>2. Queued' /\ Stored'
  <2>1. CASE Fake \/ LoseRequest
    BY <2>1, FakeQueue DEF QInv
  <2>2. CASE Tool
    BY <2>2, LoggerQueue, ToolQueue DEF QInv, Tool
  <2>3. CASE StartLogger \/ StartTool \/ StartWriter
    BY <2>3, StartQueue DEF QInv
  <2>4. CASE LoseByte /\ UNCHANGED <<program, store>>
    BY <2>4, QueueOn DEF QInv, LoseByte, store
  <2>5. CASE UNCHANGED allvars
    BY <2>5, QueueOn DEF QInv, allvars, vars, link, store
  <2>. QED
    BY <2>1, <2>2, <2>3, <2>4, <2>5 DEF ToolNext
<1>. QED
  BY <1>1, <1>2 DEF QInv

LEMMA InitQInv == ToolInit => QInv
<1>. SUFFICES ASSUME ToolInit PROVE QInv
  OBVIOUS
<1>1. Queued
  <2>1. device \in {"logger", "fakezander"}
    BY SessionAssumption DEF ToolInit, Fresh
  <2>. QED
    BY <2>1, OneOrTwo DEF ToolInit, Fresh, Queued
<1>2. Modest
  BY OneOrTwo DEF ToolInit, Modest
<1>3. Good(request, taking, files, last)
  <2>1. request = <<>> /\ DOMAIN request = {} /\ taking = Idle /\ \A n \in Names : last[n] = 0
    BY OneOrTwo DEF ToolInit, Fresh
  <2>2. Writes(request, last) /\ Taken(request, taking, last)
    BY <2>1 DEF Writes, Taken
  <2>3. \A n \in Names : files[n] = Whole(last[n]) \/ Len(files[n]) # Chunks
    <3>1. CASE files = [n \in Names |-> Whole(0)]
      BY <2>1, <3>1
    <3>2. CASE files = [n \in Names |-> <<>>]
      BY <3>2, OneOrTwo, TheWrites
    <3>. QED
      BY <3>1, <3>2 DEF ToolInit
  <2>. QED
    BY <2>2, <2>3 DEF Good, Current
<1>. QED
  BY <1>1, <1>2, <1>3 DEF QInv, Stored

-----------------------------------------------------------------------------
(* What zander-tool reads is the answer to what it has asked.              *)

\* The i-th question of a command.
Question(c, i) ==
    CASE c = "personal_data" -> zander_read_personal_data
      [] c = "show_task" /\ i = 2 -> zander_read_task
      [] c = "battery" /\ i = 2 -> zander_read_li_battery
      [] c = "battery" /\ i = 3 -> zander_read_9v_battery
      [] c = "list" /\ i = 2 -> zander_flight_list
      [] OTHER -> zander_read_serial

Now == Len(shown) + 1
Asking == pc = "answer" /\ command \in DOMAIN Commands

Running == /\ pc = "raw" => command = "raw"
           /\ pc \in {"start", "serial", "list", "prompt", "memory", "ok", "failed"} => command = "none"

Posed == command \in DOMAIN Commands =>
           \A k \in DOMAIN script : script[k] = Question(command, Len(shown) + k)

\* The question at work, and its answer when it is as long as it should be.
Answering == Asking =>
               /\ want = Question(command, Now).bytes
               /\ alive => \A i \in DOMAIN request :
                    request[i].cmd \in Mutes \/ request[i] = Question(command, Now).items[1]
               /\ ~spoilt /\ Len(got \o wire) = want => got \o wire = Right(command, Now)

Shown == pc \in {"ask", "answer", "quit"} /\ command \in DOMAIN Commands /\ ~spoilt =>
           \A i \in DOMAIN shown : shown[i] = Right(command, i)

AInv == Running /\ Posed /\ Answering /\ Shown

LEMMA TheQuestions ==
    /\ zander_read_serial.items[1].cmd = "READ_SERIAL" /\ zander_read_serial.bytes = 1
    /\ zander_read_personal_data.items[1].cmd = "READ_PERSONAL_DATA" /\ zander_read_personal_data.bytes = Chunks
    /\ zander_read_li_battery.items[1].cmd = "READ_LI_BATTERY" /\ zander_read_li_battery.bytes = 1
    /\ zander_read_9v_battery.items[1].cmd = "READ_9V_BATTERY" /\ zander_read_9v_battery.bytes = 1
    /\ zander_read_task.items[1].cmd = "READ_TASK" /\ zander_read_task.bytes = Chunks + 1
    /\ zander_flight_list.items[1] = [cmd |-> "READ_MEMORY", start |-> ListBase, length |-> ListLength]
    /\ zander_flight_list.bytes = ListLength
    /\ \A q \in {zander_read_serial, zander_read_personal_data, zander_read_li_battery,
                 zander_read_9v_battery, zander_read_task, zander_flight_list} : q.items = <<q.items[1]>>
BY DEF zander_read_serial, zander_read_personal_data, zander_read_li_battery, zander_read_9v_battery,
       zander_read_task, zander_flight_list, Request, Cmd

LEMMA TheLast ==
    ASSUME NEW c, NEW i
    PROVE  Question(c, i).items = <<Question(c, i).items[1]>>
<1>. DEFINE Q == {zander_read_serial, zander_read_personal_data, zander_read_li_battery,
                  zander_read_9v_battery, zander_read_task, zander_flight_list}
<1>1. Question(c, i) \in Q
  BY DEF Question
<1>2. \A q \in Q : q.items = <<q.items[1]>>
  BY TheQuestions
<1>. HIDE DEF Q
<1>. QED
  BY <1>1, <1>2

\* By what is asked one knows how long the answer is and what belongs in it.
LEMMA ByQuestion ==
    ASSUME NEW c \in DOMAIN Commands, NEW i, NEW q, q = Question(c, i), NEW r, r = q.items[1]
    PROVE  /\ r.cmd = "READ_SERIAL" => q.bytes = 1 /\ Right(c, i) = Serial
           /\ r.cmd = "READ_LI_BATTERY" => q.bytes = 1 /\ Right(c, i) = <<Byte("li", 0)>>
           /\ r.cmd = "READ_9V_BATTERY" => q.bytes = 1 /\ Right(c, i) = <<Byte("9v", 0)>>
           /\ r.cmd = "READ_PERSONAL_DATA" =>
                /\ q.bytes = Chunks
                /\ Right(c, i) = [k \in 1..Chunks |-> Byte("personal_data", Whole(last["personal_data"])[k])]
           /\ r.cmd = "READ_TASK" =>
                /\ q.bytes = Chunks + 1
                /\ Right(c, i) = HeadOf("task") \o [k \in 1..Chunks |-> Byte("task", Whole(last["task"])[k])]
           /\ r.cmd = "READ_MEMORY" =>
                /\ q.bytes = ListLength /\ r.start = ListBase /\ r.length = ListLength
                /\ Right(c, i) = [k \in 1..ListLength |-> Byte("list", ListBase + k - 1)]
<1>1. CASE c = "personal_data"
  <2>1. q = zander_read_personal_data
    BY <1>1 DEF Question
  <2>. QED
    BY <1>1, <2>1, TheQuestions DEF Right
<1>2. CASE c = "show_task" /\ i = 2
  <2>1. q = zander_read_task
    BY <1>2 DEF Question
  <2>. QED
    BY <1>2, <2>1, TheQuestions DEF Right
<1>3. CASE c = "battery" /\ i = 2
  <2>1. q = zander_read_li_battery
    BY <1>3 DEF Question
  <2>. QED
    BY <1>3, <2>1, TheQuestions DEF Right
<1>4. CASE c = "battery" /\ i = 3
  <2>1. q = zander_read_9v_battery
    BY <1>4 DEF Question
  <2>. QED
    BY <1>4, <2>1, TheQuestions DEF Right
<1>5. CASE c = "list" /\ i = 2
  <2>1. q = zander_flight_list
    BY <1>5 DEF Question
  <2>. QED
    BY <1>5, <2>1, TheQuestions DEF Right
<1>6. CASE ~(\/ c = "personal_data" \/ (c = "show_task" /\ i = 2) \/ (c = "battery" /\ i = 2)
             \/ (c = "battery" /\ i = 3) \/ (c = "list" /\ i = 2))
  <2>1. q = zander_read_serial
    BY <1>6 DEF Question
  <2>2. Right(c, i) = Serial
    BY <1>6 DEF Right
  <2>. QED
    BY <2>1, <2>2, TheQuestions
<1>. QED
  BY <1>1, <1>2, <1>3, <1>4, <1>5, <1>6

LEMMA RightOn ==
    ASSUME UNCHANGED <<device, last>>
    PROVE  \A c, i : Right(c, i)' = Right(c, i)
BY DEF Right, Serial

\* While zander-tool reads, or does nothing, only Answering can change.
LEMMA OnlyAnswering ==
    ASSUME AInv, UNCHANGED <<pc, command, script, shown, last, device>>, spoilt => spoilt', Answering'
    PROVE  AInv'
<1>1. Running' /\ Posed'
  BY DEF AInv, Running, Posed
<1>2. Shown'
  BY RightOn DEF AInv, Shown
<1>. QED
  BY <1>1, <1>2 DEF AInv

\* The device passes over requests, or exits.
LEMMA ADropped ==
    ASSUME AInv, UNCHANGED <<pc, command, script, shown, last, device, want, got>>, spoilt => spoilt',
           alive' => alive, Asking => wire' = wire,
           Asking /\ alive' => \A j \in DOMAIN request' : \E i \in DOMAIN request : request'[j] = request[i]
    PROVE  AInv'
<1>1. Answering'
  <2>. SUFFICES ASSUME Asking'
                PROVE  /\ want' = Question(command, Now)'.bytes
                       /\ alive' => \A i \in DOMAIN request' :
                            request'[i].cmd \in Mutes \/ request'[i] = Question(command, Now)'.items[1]
                       /\ ~spoilt' /\ Len((got \o wire)') = want' => (got \o wire)' = Right(command, Now)'
    BY DEF Answering
  <2>1. Asking /\ Now' = Now /\ Question(command, Now)' = Question(command, Now)
    BY DEF Asking, Now, Question
  <2>2. Right(command, Now)' = Right(command, Now)
    BY <2>1 DEF Right, Serial
  <2>. QED
    BY <2>1, <2>2 DEF AInv, Answering
<1>. QED
  BY <1>1, OnlyAnswering

\* It answers.
LEMMA AReplied ==
    ASSUME IInv, AInv, UNCHANGED <<pc, command, script, shown, last, device, want, got, spoilt>>,
           alive, request # <<>>, Head(request).cmd \notin Mutes, request' = Tail(request),
           NEW s, wire' = wire \o s,
           Asking => s \in Seq(ToSet(s)),
           Asking /\ ~spoilt /\ Len(s) = want /\ Tail(request) = <<>> /\ Head(request) = Question(command, Now).items[1]
             => s = Right(command, Now)
    PROVE  AInv'
<1>1. ASSUME Asking'
      PROVE  /\ want' = Question(command, Now)'.bytes
             /\ alive' => \A i \in DOMAIN request' :
                  request'[i].cmd \in Mutes \/ request'[i] = Question(command, Now)'.items[1]
             /\ ~spoilt' /\ Len((got \o wire)') = want' => (got \o wire)' = Right(command, Now)'
  <2>1. Asking /\ Now' = Now /\ Question(command, Now)' = Question(command, Now)
    BY <1>1 DEF Asking, Now, Question
  <2>2. Right(command, Now)' = Right(command, Now)
    BY <2>1 DEF Right, Serial
  <2>3. pc # "raw"
    BY <2>1 DEF Asking
  <2>4. got = <<>> /\ wire = <<>> /\ Tail(request) = <<>>
    BY <2>3, AtWork
  <2>5. Head(request) = Question(command, Now).items[1]
    <3>1. request \in Seq(ToSet(request))
      BY <2>3 DEF IInv, Sequenced
    <3>2. 1 \in DOMAIN request /\ Head(request) = request[1]
      BY <3>1, Others
    <3>. QED
      BY <2>1, <3>2 DEF AInv, Answering
  <2>6. (got \o wire)' = s
    BY <2>1, <2>4, NoneMore
  <2>7. want' = Question(command, Now)'.bytes
    BY <2>1 DEF AInv, Answering
  <2>8. DOMAIN request' = {}
    BY <2>4, OneOrTwo
  <2>9. ~spoilt' /\ Len((got \o wire)') = want' => (got \o wire)' = Right(command, Now)'
    BY <2>1, <2>2, <2>4, <2>5, <2>6
  <2>. QED
    BY <2>7, <2>8, <2>9
<1>2. Answering'
  BY <1>1 DEF Answering
<1>. QED
  BY <1>2, OnlyAnswering

\* Requests that have no answer, and what is read or lost without one.
LEMMA ASilent ==
    ASSUME IInv, AInv, UNCHANGED <<pc, command, script, shown, last, device, want, got, spoilt>>,
           alive' => alive, request # <<>>, Answer(<<>>)
    PROVE  AInv'
<1>1. ASSUME Asking
      PROVE  wire' = wire
  <2>1. wire \in Seq(ToSet(wire))
    BY <1>1 DEF Asking, IInv, Sequenced
  <2>. QED
    BY <2>1, NoneMore DEF Answer
<1>2. ASSUME Asking, alive
      PROVE  \A j \in DOMAIN request' : \E i \in DOMAIN request : request'[j] = request[i]
  <2>1. request \in Seq(ToSet(request)) /\ request' = Tail(request)
    BY <1>2 DEF Asking, IInv, Sequenced, Answer
  <2>. QED
    BY <2>1, Others
<1>. QED
  BY <1>1, <1>2, ADropped

LEMMA ReadSerialAnswer ==
    ASSUME IInv, AInv, ReadSerial, UNCHANGED <<program, store>>
    PROVE  AInv'
<1>1. /\ alive /\ request # <<>> /\ Head(request).cmd = "READ_SERIAL" /\ Head(request).cmd \notin Mutes
      /\ wire' = wire \o Serial /\ request' = Tail(request)
      /\ UNCHANGED <<pc, command, script, shown, last, device, want, got, spoilt>>
  BY DEF ReadSerial, Answer, host, program, store, Mutes
<1>2. Serial \in Seq(ToSet(Serial))
  BY OneOrTwo DEF Serial
<1>3. ASSUME Asking, Head(request) = Question(command, Now).items[1]
      PROVE  Serial = Right(command, Now)
  BY <1>1, <1>3, ByQuestion DEF Asking
<1>. QED
  BY <1>1, <1>2, <1>3, AReplied

\* What is at ListBase.
LEMMA TheListIs ==
    ASSUME NEW s, s = [k \in 1..ListLength |-> s[k]],
           \A k \in 1..ListLength : s[k] = Memory(ListBase + k - 1)
    PROVE  s = [k \in 1..ListLength |-> Byte("list", ListBase + k - 1)]
<1>1. ASSUME NEW k \in 1..ListLength
      PROVE  Memory(ListBase + k - 1) = Byte("list", ListBase + k - 1)
  <2>1. ListBase + k - 1 < First
    BY SessionAssumption, RingAssumption, SMTT(60) DEF ListLength
  <2>. QED
    BY <2>1 DEF Memory
<1>. QED
  BY <1>1

LEMMA ReadMemoryAnswer ==
    ASSUME IInv, AInv, LoggerReadMemory \/ FakeReadMemory \/ FakeShortRead, UNCHANGED <<program, store>>
    PROVE  AInv'
<1>. DEFINE r == Head(request)
            F(i) == IF r.start < First THEN r.start + i - 1 ELSE Step(r.start, i - 1)
            G(i) == r.start + i - 1
            s == [i \in 1..r.length |-> Memory(F(i))]
            t == [i \in 1..r.length |-> Memory(G(i))]
<1>1. /\ request # <<>> /\ r.cmd = "READ_MEMORY" /\ r.cmd \notin Mutes /\ request' = Tail(request)
      /\ wire' \in {wire \o s, wire \o t, wire \o <<>>, wire \o Serial}
      /\ wire' = wire \o Serial => wire' = wire \o s \/ wire' = wire \o t \/ FakeShortRead
      /\ UNCHANGED <<pc, command, script, shown, last, device, want, got, spoilt>>
  BY DEF LoggerReadMemory, FakeReadMemory, FakeShortRead, Answer, host, program, store, Mutes
<1>2. alive
  BY DEF LoggerReadMemory, FakeReadMemory, FakeShortRead, IInv, Kept
<1>3. ListLength \in Nat /\ ListLength >= 2 /\ ListBase \in Nat /\ First \in Nat /\ ListBase < First
  BY SessionAssumption, RingAssumption DEF ListLength
<1>4. ASSUME Asking, r = Question(command, Now).items[1]
      PROVE  /\ want = ListLength /\ r.start = ListBase /\ r.length = ListLength
             /\ Right(command, Now) = [k \in 1..ListLength |-> Byte("list", ListBase + k - 1)]
  <2>1. /\ Question(command, Now).bytes = ListLength /\ r.start = ListBase /\ r.length = ListLength
        /\ Right(command, Now) = [k \in 1..ListLength |-> Byte("list", ListBase + k - 1)]
    BY <1>1, <1>4, ByQuestion DEF Asking
  <2>. QED
    BY <1>4, <2>1, SMTT(60) DEF AInv, Answering
<1>5. ASSUME Asking
      PROVE  r.length \in Nat
  <2>1. pc # "raw"
    BY <1>5, SMTT(60) DEF Asking
  <2>2. Size(r) \in 1..want /\ want \in Nat /\ Size(r) = r.length
    BY <1>1, <1>2, <2>1, AtWork, Sizes
  <2>. QED
    BY <2>2
<1>6. s = [i \in 1..r.length |-> s[i]] /\ t = [i \in 1..r.length |-> t[i]]
  OBVIOUS
<1>7. ASSUME NEW u, u \in {s, t}, Asking
      PROVE  /\ u \in Seq(ToSet(u))
             /\ r = Question(command, Now).items[1] => u = Right(command, Now)
  <2>1. u = [i \in 1..r.length |-> u[i]]
    BY <1>6, <1>7
  <2>2. u \in Seq(ToSet(u))
    BY <1>5, <1>7, <2>1, Table
  <2>3. ASSUME r = Question(command, Now).items[1]
        PROVE  u = Right(command, Now)
    <3>1. /\ r.start = ListBase /\ r.length = ListLength
          /\ Right(command, Now) = [k \in 1..ListLength |-> Byte("list", ListBase + k - 1)]
      BY <1>4, <1>7, <2>3
    <3>2. \A i \in 1..ListLength : u[i] = Memory(ListBase + i - 1)
      BY <1>3, <1>7, <3>1
    <3>3. u = [k \in 1..ListLength |-> u[k]]
      BY <2>1, <3>1
    <3>. QED
      BY <3>1, <3>2, <3>3, TheListIs
  <2>. QED
    BY <2>2, <2>3
<1>8. CASE wire' = wire \o s \/ wire' = wire \o t
  <2>1. PICK u \in {s, t} : wire' = wire \o u
    BY <1>8
  <2>. HIDE DEF r, s, t
  <2>. QED
    BY <1>1, <1>2, <1>7, <2>1, AReplied DEF r
<1>9. CASE wire' = wire \o <<>> \/ wire' = wire \o Serial
  <2>1. PICK u \in {<<>>, Serial} : wire' = wire \o u
    BY <1>9
  <2>2. u \in Seq(ToSet(u)) /\ Len(u) < 2
    <3>1. CASE u = <<>>
      BY <3>1, OneOrTwo
    <3>2. CASE u = Serial
      <4>1. Serial \in Seq(ToSet(Serial)) /\ Len(Serial) = 1
        BY OneOrTwo DEF Serial
      <4>. QED
        BY <3>2, <4>1
    <3>. QED
      BY <3>1, <3>2
  <2>3. ASSUME Asking, Len(u) = want, r = Question(command, Now).items[1]
        PROVE  FALSE
    <3>1. Len(u) = ListLength
      BY <1>4, <2>3
    <3>. QED
      BY <1>3, <2>2, <3>1
  <2>. HIDE DEF r
  <2>. QED
    BY <1>1, <1>2, <2>1, <2>2, <2>3, AReplied DEF r
<1>. QED
  BY <1>1, <1>8, <1>9

LEMMA BatteryAnswer ==
    ASSUME IInv, AInv, handle_read_battery
    PROVE  AInv'
<1>1. /\ alive /\ request # <<>> /\ Head(request).cmd \in {"READ_LI_BATTERY", "READ_9V_BATTERY"}
      /\ UNCHANGED <<pc, command, script, shown, last, device, want, got, spoilt>>
  BY DEF handle_read_battery, Head1, Exits, Answer, host, program, store
<1>2. CASE Answer(<<>>)
  BY <1>1, <1>2, ASilent
<1>3. CASE \/ Head(request).cmd = "READ_LI_BATTERY" /\ Answer(<<Byte("li", 0)>>)
           \/ Head(request).cmd = "READ_9V_BATTERY" /\ Answer(<<Byte("9v", 0)>>)
  <2>1. PICK b : /\ Answer(<<b>>)
                 /\ \/ Head(request).cmd = "READ_LI_BATTERY" /\ b = Byte("li", 0)
                    \/ Head(request).cmd = "READ_9V_BATTERY" /\ b = Byte("9v", 0)
    BY <1>3
  <2>2. Head(request).cmd \notin Mutes /\ wire' = wire \o <<b>> /\ request' = Tail(request)
    BY <2>1 DEF Mutes, Answer
  <2>3. <<b>> \in Seq(ToSet(<<b>>))
    BY OneOrTwo
  <2>4. ASSUME Asking, Head(request) = Question(command, Now).items[1]
        PROVE  <<b>> = Right(command, Now)
    BY <2>1, <2>4, ByQuestion DEF Asking
  <2>. QED
    BY <1>1, <2>2, <2>3, <2>4, AReplied
<1>. QED
  BY <1>2, <1>3 DEF handle_read_battery, Head1, Exits

\* A file is read that nobody is about to write: it holds the last version.
LEMMA ReadsTheLast ==
    ASSUME Queued, Stored, alive, ~spoilt, taking = Idle, request # <<>>, Tail(request) = <<>>,
           Head(request).cmd \notin WriteCmds, Head(request).cmd # "data",
           NEW n \in Names, Len(files[n]) = Chunks
    PROVE  files[n] = Whole(last[n])
<1>1. Good(request, taking, files, last)
  BY DEF Stored, Doomed
<1>2. ~Later(request, n, 0)
  <2>1. /\ DOMAIN request = 1..Len(request) /\ Head(request) = request[1] /\ Len(request) \in Nat
        /\ Len(Tail(request)) = Len(request) - 1
    BY Others, LenProperties DEF Queued
  <2>2. Len(request) = 1
    <3>1. Len(Tail(request)) = 0
      BY OneOrTwo
    <3>. QED
      BY <2>1, <3>1
  <2>3. \A k \in DOMAIN request : request[k].cmd # WriteCmd[n]
    BY <2>1, <2>2, NotAWrite
  <2>. QED
    BY <2>3 DEF Later
<1>3. Idle.name # n
  BY TheWrites
<1>. QED
  BY <1>1, <1>2, <1>3 DEF Good, Current

LEMMA handle_readAnswer ==
    ASSUME IInv, QInv, AInv, handle_read
    PROVE  AInv'
<1>1. PICK n \in Names :
        /\ Head1(ReadCmd[n])
        /\ IF Len(files[n]) = Chunks
           THEN Answer(HeadOf(n) \o [i \in 1..Chunks |-> Byte(n, files[n][i])]) /\ UNCHANGED alive
           ELSE Answer(HeadOf(n)) /\ alive' = FALSE
  BY DEF handle_read
<1>. DEFINE h == HeadOf(n)  t == [i \in 1..Chunks |-> Byte(n, files[n][i])]
<1>2. /\ alive /\ request # <<>> /\ taking = Idle /\ Head(request).cmd = ReadCmd[n] /\ request' = Tail(request)
      /\ UNCHANGED <<pc, command, script, shown, last, device, want, got, spoilt>>
  BY <1>1 DEF handle_read, Head1, Answer, host, program, store
<1>3. Chunks \in Nat /\ Chunks >= 1
  BY ToolAssumption
<1>4. /\ Head(request).cmd \notin Mutes /\ Head(request).cmd \notin WriteCmds /\ Head(request).cmd # "data"
      /\ n = "task" => Head(request).cmd = "READ_TASK"
      /\ n = "personal_data" => Head(request).cmd = "READ_PERSONAL_DATA"
  BY <1>2, AWrite DEF ReadCmd, Names, Mutes
<1>5. h \in Seq(ToSet(h)) /\ (n = "task" => Len(h) = 1) /\ (n = "personal_data" => h = <<>> /\ Len(h) = 0)
  BY OneOrTwo DEF HeadOf
<1>6. t \in Seq(ToSet(t)) /\ Len(t) = Chunks
  <2>1. t = [i \in 1..Chunks |-> t[i]]
    OBVIOUS
  <2>. HIDE DEF t
  <2>. QED
    BY <1>3, <2>1, Table
<1>7. CASE Len(files[n]) = Chunks
  <2>1. wire' = wire \o (h \o t)
    BY <1>1, <1>7 DEF Answer
  <2>2. h \o t \in Seq(ToSet(h \o t))
    <3>. HIDE DEF h, t
    <3>. QED
      BY <1>5, <1>6, Joined
  <2>3. ASSUME Asking, ~spoilt, Tail(request) = <<>>, Head(request) = Question(command, Now).items[1]
        PROVE  h \o t = Right(command, Now)
    <3>1. files[n] = Whole(last[n])
      BY <1>2, <1>4, <1>7, <2>3, ReadsTheLast DEF QInv
    <3>2. t = [k \in 1..Chunks |-> Byte(n, Whole(last[n])[k])]
      BY <3>1
    <3>3. CASE n = "task"
      <4>1. Right(command, Now) = HeadOf("task") \o [k \in 1..Chunks |-> Byte("task", Whole(last["task"])[k])]
        <5>. HIDE DEF h, t
        <5>1. Question(command, Now).items[1].cmd = "READ_TASK" /\ command \in DOMAIN Commands
          BY <1>4, <2>3, <3>3 DEF Asking
        <5>. QED
          BY <5>1, ByQuestion, ZenonT(60)
      <4>. QED
        BY <3>2, <3>3, <4>1
    <3>4. CASE n = "personal_data"
      <4>1. Right(command, Now) = [k \in 1..Chunks |-> Byte("personal_data", Whole(last["personal_data"])[k])]
        BY <1>4, <2>3, <3>4, ByQuestion DEF Asking
      <4>2. Right(command, Now) = t
        BY <3>2, <3>4, <4>1
      <4>. HIDE DEF h, t
      <4>3. <<>> \o t = t
        BY <1>6, NoneMore
      <4>. QED
        BY <1>5, <3>4, <4>2, <4>3
    <3>. QED
      BY <3>3, <3>4 DEF Names
  <2>. HIDE DEF h, t
  <2>. QED
    BY <1>2, <1>4, <2>1, <2>2, <2>3, AReplied
<1>8. CASE Len(files[n]) # Chunks
  <2>1. wire' = wire \o h
    BY <1>1, <1>8 DEF Answer
  <2>2. ASSUME Asking, Len(h) = want, Head(request) = Question(command, Now).items[1]
        PROVE  FALSE
    <3>1. want = Question(command, Now).bytes
      BY <2>2 DEF AInv, Answering
    <3>2. CASE n = "task"
      <4>1. want = Chunks + 1
        BY <1>4, <2>2, <3>1, <3>2, ByQuestion DEF Asking
      <4>. QED
        BY <1>3, <1>5, <2>2, <3>2, <4>1
    <3>3. CASE n = "personal_data"
      <4>1. want = Chunks
        BY <1>4, <2>2, <3>1, <3>3, ByQuestion DEF Asking
      <4>. QED
        BY <1>3, <1>5, <2>2, <3>3, <4>1
    <3>. QED
      BY <3>2, <3>3 DEF Names
  <2>. HIDE DEF h
  <2>. QED
    BY <1>2, <1>4, <1>5, <2>1, <2>2, AReplied
<1>. QED
  BY <1>7, <1>8

LEMMA StoringAnswer ==
    ASSUME IInv, QInv, AInv,
           handle_write \/ TakePiece \/ StoreAll \/ StoreTask \/ handle_unknown \/ LoggerIgnores \/ LoseRequest
    PROVE  AInv'
<1>. USE DEF host, program, store
<1>1. CASE handle_write \/ handle_unknown \/ LoggerIgnores
  <2>1. /\ UNCHANGED <<pc, command, script, shown, last, device, want, got, spoilt>>
        /\ alive' => alive /\ request # <<>> /\ Answer(<<>>)
    BY <1>1 DEF handle_write, handle_unknown, LoggerIgnores, Head1, Exits, Answer
  <2>2. request # <<>> /\ Answer(<<>>) /\ (alive' => alive)
    BY <1>1 DEF handle_write, handle_unknown, LoggerIgnores, Head1, Exits
  <2>. QED
    BY <2>1, <2>2, ASilent
<1>2. CASE TakePiece \/ StoreAll \/ StoreTask \/ LoseRequest
  <2>1. UNCHANGED <<pc, command, script, shown, last, device, want, got, wire>>
    BY <1>2 DEF TakePiece, StoreAll, StoreTask, Store, LoseRequest
  <2>5. (spoilt => spoilt') /\ (alive' => alive)
    <3>1. CASE TakePiece \/ StoreAll \/ StoreTask
      <4>1. alive /\ spoilt' = spoilt
        BY <3>1 DEF TakePiece, StoreAll, StoreTask, Store
      <4>. QED
        BY <4>1
    <3>2. CASE LoseRequest
      BY <3>2 DEF LoseRequest
    <3>. QED
      BY <1>2, <3>1, <3>2
  <2>2. request \in Seq(ToSet(request)) /\ Len(request) \in Nat
    BY LenProperties DEF QInv, Queued
  <2>3. Fewer(request', request)
    <3>1. CASE TakePiece
      BY <2>2, <3>1, FewerRequests DEF TakePiece
    <3>2. CASE StoreAll
      BY <2>2, <3>2, FewerRequests DEF StoreAll
    <3>3. CASE StoreTask
      <4>1. PICK k \in 0..Chunks : k <= Len(request) /\ request' = SubSeq(request, k + 1, Len(request))
        BY <3>3 DEF StoreTask
      <4>2. k \in 0..Len(request)
        BY <2>2, <4>1, TheWrites
      <4>. QED
        BY <2>2, <4>1, <4>2, FewerRequests
    <3>4. CASE LoseRequest
      BY <2>2, <3>4, FewerRequests DEF LoseRequest
    <3>. QED
      BY <1>2, <3>1, <3>2, <3>3, <3>4
  <2>4. \A j \in DOMAIN request' : \E i \in DOMAIN request : request'[j] = request[i]
    BY <2>3 DEF Fewer
  <2>. QED
    BY <2>1, <2>4, <2>5, ADropped
<1>. QED
  BY <1>1, <1>2

LEMMA LoseByteAnswer ==
    ASSUME IInv, AInv, LoseByte, UNCHANGED <<program, store>>
    PROVE  AInv'
<1>1. PICK k \in 1..Len(wire) : wire' = RemoveAt(wire, k)
  BY DEF LoseByte
<1>2. UNCHANGED <<pc, command, script, shown, last, device, want, got, spoilt, alive, request>>
  BY DEF LoseByte, host, program, store
<1>3. ASSUME Asking
      PROVE  Len((got \o wire)') < want
  <2>1. wire \in Seq(ToSet(wire)) /\ got \in Seq(ToSet(got)) /\ Busy /\ want \in Nat /\ Len(got) + Len(wire) <= want
    BY <1>3 DEF Asking, Busy, IInv, Sequenced, Room
  <2>. DEFINE u == RemoveAt(wire, k)
  <2>2. u \in Seq(ToSet(u)) /\ Len(u) = Len(wire) - 1 /\ Len(wire) \in Nat
    BY <2>1, Without
  <2>. HIDE DEF u
  <2>3. Len(got \o u) = Len(got) + Len(u) /\ Len(got) \in Nat
    BY <2>1, <2>2, Joined
  <2>4. Len(got \o u) < want
    BY <2>1, <2>2, <2>3
  <2>. QED
    BY <1>1, <1>2, <2>4 DEF u
<1>4. ASSUME Asking'
      PROVE  /\ want' = Question(command, Now)'.bytes
             /\ alive' => \A i \in DOMAIN request' :
                  request'[i].cmd \in Mutes \/ request'[i] = Question(command, Now)'.items[1]
             /\ Len((got \o wire)') # want'
  <2>1. Asking /\ Now' = Now /\ Question(command, Now)' = Question(command, Now)
    BY <1>2, <1>4 DEF Asking, Now, Question
  <2>2. Len((got \o wire)') < want /\ want \in Nat
    BY <1>3, <2>1 DEF IInv, Room
  <2>3. Len((got \o wire)') # want'
    BY <1>2, <2>2
  <2>. QED
    BY <1>2, <2>1, <2>3 DEF AInv, Answering
<1>5. Answering'
  BY <1>4 DEF Answering
<1>. QED
  BY <1>2, <1>5, OnlyAnswering

LEMMA DeviceAnswer ==
    ASSUME IInv, QInv, AInv, Fake \/ LoseRequest \/ (LoseByte /\ UNCHANGED <<program, store>>)
    PROVE  AInv'
<1>1. CASE Device /\ UNCHANGED <<program, store>>
  BY <1>1, ReadSerialAnswer, ReadMemoryAnswer DEF Device
<1>2. CASE handle_read_battery \/ handle_read
  BY <1>2, BatteryAnswer, handle_readAnswer
<1>3. CASE handle_write \/ TakePiece \/ StoreAll \/ StoreTask \/ handle_unknown \/ LoggerIgnores \/ LoseRequest
  BY <1>3, StoringAnswer
<1>4. CASE LoseByte /\ UNCHANGED <<program, store>>
  BY <1>4, LoseByteAnswer
<1>. QED
  BY <1>1, <1>2, <1>3, <1>4 DEF Fake

-----------------------------------------------------------------------------
(* The steps of the programs.                                              *)

\* Steps after which zander-tool does not read, and has shown no more.
LEMMA AQuiet ==
    ASSUME AInv, UNCHANGED <<command, script, shown, last, device>>, spoilt => spoilt', Running', pc' # "answer",
           command \in DOMAIN Commands /\ pc' \in {"ask", "quit"} => pc \in {"ask", "answer", "quit"}
    PROVE  AInv'
<1>1. Posed'
  BY DEF AInv, Posed
<1>2. Answering'
  BY DEF Answering, Asking
<1>3. Shown'
  BY RightOn DEF AInv, Shown
<1>. QED
  BY <1>1, <1>2, <1>3 DEF AInv

\* A round of zander_read changes nothing in what has come or is on its way.
LEMMA ReadKeeps ==
    ASSUME IInv, ReadSome
    PROVE  (got \o wire)' = got \o wire
<1>1. PICK k \in 1..Len(wire) :
        got' = got \o SubSeq(wire, 1, k) /\ wire' = SubSeq(wire, k + 1, Len(wire))
  BY DEF ReadSome
<1>2. got \in Seq(ToSet(got)) /\ wire \in Seq(ToSet(wire))
  BY DEF IInv, Sequenced, ReadSome, Reading
<1>3. Len(wire) \in Nat /\ k \in 0..Len(wire)
  <2>1. Len(wire) \in Nat
    BY <1>2, LenProperties
  <2>. QED
    BY <2>1
<1>. DEFINE a == SubSeq(wire, 1, k)  b == SubSeq(wire, k + 1, Len(wire))
<1>4. a \in Seq(ToSet(wire)) /\ b \in Seq(ToSet(wire)) /\ a \o b = wire
  <2>1. a \in Seq(ToSet(a)) /\ a \o b = wire /\ ToSet(a) \subseteq ToSet(wire)
    BY <1>2, <1>3, CutInTwo
  <2>2. b \in Seq(ToSet(b)) /\ ToSet(b) \subseteq ToSet(wire)
    BY <1>2, <1>3, Rest
  <2>. HIDE DEF a, b
  <2>. QED
    BY <2>1, <2>2, SeqMonotonic
<1>5. got' = got \o a /\ wire' = b
  BY <1>1
<1>. HIDE DEF a, b
<1>. DEFINE S == ToSet(got) \cup ToSet(wire)
<1>6. got \in Seq(S) /\ a \in Seq(S) /\ b \in Seq(S)
  BY <1>2, <1>4, SeqMonotonic
<1>. HIDE DEF S
<1>7. (got \o a) \o b = got \o (a \o b)
  BY <1>6, ConcatAssociative, SMTT(60)
<1>. QED
  BY <1>4, <1>5, <1>7

LEMMA LoggerAnswer ==
    ASSUME IInv, AInv, Logger
    PROVE  AInv'
<1>1. UNCHANGED <<command, script, shown, last, device, spoilt>>
  BY DEF Logger, Host, AskSerial, ReadSome, AskList, ListRead, ChooseFlight, WriteFile, ReadTimeout,
         DoneWithFlight, Quit, Ask, link, program, store
<1>2. CASE ReadSome
  <2>1. UNCHANGED <<pc, want, alive, request>> /\ (got \o wire)' = got \o wire
    BY <1>2, ReadKeeps DEF ReadSome
  <2>2. ASSUME Asking'
        PROVE  /\ want' = Question(command, Now)'.bytes
               /\ alive' => \A i \in DOMAIN request' :
                    request'[i].cmd \in Mutes \/ request'[i] = Question(command, Now)'.items[1]
               /\ ~spoilt' /\ Len((got \o wire)') = want' => (got \o wire)' = Right(command, Now)'
    <3>1. Asking /\ Now' = Now /\ Question(command, Now)' = Question(command, Now)
      BY <1>1, <2>1, <2>2 DEF Asking, Now, Question
    <3>2. Right(command, Now)' = Right(command, Now)
      BY <1>1, <3>1 DEF Right, Serial
    <3>. QED
      BY <1>1, <2>1, <3>1, <3>2 DEF AInv, Answering
  <2>3. Answering'
    BY <2>2 DEF Answering
  <2>. QED
    BY <1>1, <2>1, <2>3, OnlyAnswering
<1>3. CASE AskSerial \/ AskList \/ ListRead \/ ChooseFlight \/ WriteFile \/ DoneWithFlight \/ Quit
  <2>1. /\ pc \in {"start", "serial", "list", "prompt", "memory", "ok", "failed"}
        /\ pc' \in {"serial", "list", "prompt", "memory", "ok", "failed", "abort", "quit"}
    BY <1>3 DEF AskSerial, AskList, ListRead, ChooseFlight, WriteFile, DoneWithFlight, Quit, Ask, Stop
  <2>2. command = "none"
    BY <2>1 DEF AInv, Running
  <2>3. command \notin DOMAIN Commands
    BY <2>2, CommandsAre
  <2>4. Running'
    BY <1>1, <2>1, <2>2 DEF Running
  <2>. QED
    BY <1>1, <2>1, <2>3, <2>4, AQuiet
<1>4. CASE ReadTimeout
  <2>1. pc' = IF pc = "memory" THEN "failed" ELSE "exit"
    BY <1>4 DEF ReadTimeout, Stop
  <2>2. Running'
    BY <1>1, <2>1 DEF AInv, Running
  <2>. QED
    BY <1>1, <2>1, <2>2, AQuiet
<1>. QED
  BY <1>2, <1>3, <1>4 DEF Logger, Host

LEMMA SendAnswer ==
    ASSUME IInv, QInv, AInv, SendRequest
    PROVE  AInv'
<1>. DEFINE q == Head(script)
<1>1. /\ pc = "ask" /\ script # <<>> /\ request' = request \o q.items /\ want' = q.bytes /\ got' = <<>>
      /\ pc' = IF command = "raw" /\ Len(script) = 1 THEN "raw" ELSE "answer"
      /\ UNCHANGED <<device, alive, wire, command, script, shown, last, spoilt>>
  BY DEF SendRequest, program, store
<1>2. 1 \in DOMAIN script /\ q = script[1]
  BY <1>1, Others DEF IInv, Sequenced
<1>. HIDE DEF q
<1>3. Running' /\ Posed'
  BY <1>1 DEF AInv, Running, Posed
<1>4. Shown'
  <2>1. \A c, i : Right(c, i)' = Right(c, i)
    BY <1>1, RightOn
  <2>. QED
    BY <1>1, <2>1 DEF AInv, Shown
<1>5. ASSUME command \in DOMAIN Commands
      PROVE  /\ q = Question(command, Now)
             /\ q.bytes >= 1 /\ q.bytes \in Nat
  <2>1. q = Question(command, Now)
    BY <1>2, <1>5 DEF AInv, Posed, Now
  <2>2. command # "raw"
    BY <1>5, CommandsAre
  <2>3. Proper(q) /\ q.bytes \in Nat
    BY <1>2, <2>2 DEF IInv, Scripted
  <2>4. PICK r : Size(r) \in 1..q.bytes
    BY <2>3 DEF Proper
  <2>. QED
    BY <2>1, <2>3, <2>4
<1>6. ~Busy /\ pc # "raw"
  BY <1>1 DEF Busy
<1>7. wire = <<>> /\ (alive => \A i \in DOMAIN request : request[i].cmd \in Mutes)
  BY <1>6, Unasked
<1>8. ASSUME Asking'
      PROVE  /\ want' = Question(command, Now)'.bytes
             /\ alive' => \A i \in DOMAIN request' :
                  request'[i].cmd \in Mutes \/ request'[i] = Question(command, Now)'.items[1]
             /\ Len((got \o wire)') # want'
  <2>1. command \in DOMAIN Commands /\ Now' = Now /\ Question(command, Now)' = Question(command, Now)
    BY <1>1, <1>8 DEF Asking, Now, Question
  <2>. DEFINE m == q.items[1]
  <2>2. q.items = <<m>>
    BY <1>5, <2>1, TheLast
  <2>. HIDE DEF m
  <2>3. ASSUME alive, NEW i \in DOMAIN request'
        PROVE  request'[i].cmd \in Mutes \/ request'[i] = m
    <3>1. request \in Seq(ToSet(request)) /\ <<m>> \in Seq(ToSet(<<m>>)) /\ DOMAIN <<m>> = {1} /\ <<m>>[1] = m
      BY OneOrTwo DEF QInv, Queued
    <3>. DEFINE u == request \o <<m>>
    <3>2. /\ \A j \in DOMAIN request : u[j] = request[j]
          /\ \A j \in DOMAIN u :
               j \in DOMAIN request \/ (j - Len(request) \in DOMAIN <<m>> /\ u[j] = <<m>>[j - Len(request)])
      BY <3>1, Joined
    <3>3. request' = u
      BY <1>1, <2>2
    <3>. HIDE DEF u
    <3>. QED
      BY <1>7, <2>3, <3>1, <3>2, <3>3
  <2>4. (got \o wire)' = <<>>
    BY <1>1, <1>7, NoneMore, OneOrTwo
  <2>5. Len((got \o wire)') # want'
    <3>1. Len((got \o wire)') = 0
      BY <2>4, OneOrTwo
    <3>2. want' >= 1 /\ want' \in Nat
      BY <1>1, <1>5, <2>1
    <3>. QED
      BY <3>1, <3>2
  <2>. QED
    BY <1>1, <1>5, <2>1, <2>3, <2>5 DEF m
<1>9. Answering'
  BY <1>8 DEF Answering
<1>. QED
  BY <1>3, <1>4, <1>9 DEF AInv

LEMMA AnsweredAnswer ==
    ASSUME IInv, AInv, Answered
    PROVE  AInv'
<1>1. /\ pc = "answer" /\ Busy /\ Len(got) = want /\ pc' = "ask" /\ shown' = Append(shown, got)
      /\ UNCHANGED <<command, device, last, spoilt>>
      /\ script' = IF command = "battery" /\ shown = <<>> /\ got[1].at = 940
                   THEN <<Head(Tail(script))>> ELSE Tail(script)
  BY DEF Answered, Busy, link, store
<1>2. got \in Seq(ToSet(got)) /\ got \o wire = got
  BY <1>1, AllRead, NoneMore DEF IInv, Sequenced
<1>3. /\ shown \in Seq(ToSet(shown)) /\ Len(shown') = Len(shown) + 1 /\ Len(shown) \in Nat
      /\ DOMAIN shown = 1..Len(shown) /\ DOMAIN shown' = 1..Len(shown) + 1
      /\ \A i \in 1..Len(shown) : shown'[i] = shown[i]
      /\ shown'[Len(shown) + 1] = got
  <2>. DEFINE u == Append(shown, got)
  <2>1. shown \in Seq(ToSet(shown)) /\ u \in Seq(ToSet(u)) /\ shown \in Seq(ToSet(shown) \cup {got})
    BY OneMore, SeqMonotonic DEF IInv, Sequenced
  <2>2. /\ Len(u) = Len(shown) + 1 /\ Len(shown) \in Nat
        /\ \A i \in 1..Len(shown) : u[i] = shown[i]
        /\ u[Len(shown) + 1] = got
    BY <2>1, AppendProperties, LenProperties
  <2>. HIDE DEF u
  <2>3. DOMAIN shown = 1..Len(shown) /\ DOMAIN u = 1..Len(u)
    BY <2>1, LenProperties
  <2>4. shown' = u
    BY <1>1 DEF u
  <2>. QED
    BY <2>1, <2>2, <2>3, <2>4
<1>4. Running'
  BY <1>1 DEF Running
<1>5. Answering'
  BY <1>1 DEF Answering, Asking
<1>6. Shown'
  <2>. SUFFICES ASSUME command \in DOMAIN Commands, ~spoilt, NEW i \in DOMAIN shown'
                PROVE  shown'[i] = Right(command, i)'
    BY <1>1 DEF Shown
  <2>1. Right(command, i)' = Right(command, i)
    BY <1>1 DEF Right, Serial
  <2>2. CASE i \in DOMAIN shown
    BY <1>1, <1>3, <2>1, <2>2 DEF AInv, Shown
  <2>3. CASE i = Now
    <3>1. got = Right(command, Now)
      BY <1>1, <1>2 DEF AInv, Answering, Asking
    <3>. QED
      BY <1>3, <2>1, <2>3, <3>1 DEF Now
  <2>. QED
    BY <1>3, <2>2, <2>3 DEF Now
<1>7. ASSUME command \in DOMAIN Commands, NEW k \in DOMAIN script'
      PROVE  script'[k] = Question(command, Len(shown') + k)
  <2>1. script \in Seq(ToSet(script)) /\ script # <<>>
    BY <1>1 DEF IInv, Sequenced, Scripted
  <2>2. CASE script' = Tail(script)
    <3>1. k + 1 \in DOMAIN script /\ Tail(script)[k] = script[k + 1]
      BY <1>7, <2>1, <2>2, Others
    <3>2. script[k + 1] = Question(command, Len(shown) + (k + 1))
      BY <1>7, <3>1 DEF AInv, Posed
    <3>3. Len(shown) + (k + 1) = Len(shown') + k
      <4>1. k \in Int
        <5>1. k \in DOMAIN Tail(script) /\ Tail(script) \in Seq(ToSet(Tail(script)))
          BY <1>7, <2>1, <2>2, Others
        <5>2. DOMAIN Tail(script) = 1..Len(Tail(script))
          BY <5>1, LenProperties
        <5>. QED
          BY <5>1, <5>2
      <4>. QED
        BY <1>3, <4>1
    <3>. QED
      BY <2>2, <3>1, <3>2, <3>3
  <2>3. CASE command = "battery" /\ shown = <<>> /\ script' = <<Head(Tail(script))>>
    <3>1. script = <<zander_read_serial, zander_read_li_battery, zander_read_9v_battery>>
      BY <2>3 DEF IInv, Scripted, cmd_battery
    <3>2. script' = <<zander_read_li_battery>>
      BY <2>3, <3>1
    <3>3. k = 1 /\ script'[k] = zander_read_li_battery
      BY <1>7, <3>2, OneOrTwo
    <3>4. Len(shown') + k = 2
      <4>1. Len(shown) = 0
        BY <2>3, OneOrTwo
      <4>. QED
        BY <1>3, <3>3, <4>1
    <3>. QED
      <4>1. Question("battery", 2) = zander_read_li_battery
        BY DEF Question
      <4>. QED
        BY <2>3, <3>3, <3>4, <4>1
  <2>. QED
    BY <1>1, <2>2, <2>3, ZenonT(60)
<1>8. Posed'
  <2>1. command' = command
    BY <1>1
  <2>. QED
    BY <1>7, <2>1 DEF Posed
<1>. QED
  BY <1>4, <1>5, <1>6, <1>8 DEF AInv

LEMMA EndAnswer ==
    ASSUME AInv, Finished \/ RawRead \/ Close
    PROVE  AInv'
<1>1. UNCHANGED <<command, script, last, device, spoilt>>
  BY DEF Finished, RawRead, Close, link, program, store
<1>2. CASE Finished \/ Close
  <2>1. shown' = shown /\ ((pc = "ask" /\ pc' = "quit") \/ pc' = "shell")
    BY <1>2 DEF Finished, Close, Stop, program
  <2>2. Running'
    BY <2>1 DEF Running
  <2>. QED
    BY <1>1, <2>1, <2>2, AQuiet
<1>3. CASE RawRead
  <2>1. pc = "raw" /\ pc' \in {"raw", "quit"}
    BY <1>3 DEF RawRead, Stop
  <2>2. command = "raw" /\ command \notin DOMAIN Commands
    BY <2>1, CommandsAre DEF AInv, Running
  <2>. QED
    BY <1>1, <2>1, <2>2 DEF AInv, Running, Posed, Answering, Asking, Shown
<1>. QED
  BY <1>2, <1>3

LEMMA StartAnswer ==
    ASSUME AInv, StartLogger \/ StartTool \/ StartWriter
    PROVE  AInv'
<1>1. CASE StartLogger \/ StartWriter
  <2>1. (command' = "none" /\ pc' = "start") \/ (command' = "write" /\ pc' = "quit")
    BY <1>1 DEF StartLogger, StartWriter
  <2>2. command' \notin DOMAIN Commands
    BY <2>1, CommandsAre
  <2>. QED
    BY <2>1, <2>2 DEF AInv, Running, Posed, Answering, Asking, Shown, Commands
<1>2. CASE StartTool
  <2>1. pc' = "ask" /\ shown' = <<>> /\ DOMAIN shown' = {} /\ Len(shown') = 0
    BY <1>2, OneOrTwo DEF StartTool, Start
  <2>2. Running' /\ Answering' /\ Shown'
    BY <2>1 DEF Running, Answering, Asking, Shown
  <2>3. CASE \E r \in RawInputs : command' = "raw"
    <3>1. command' \notin DOMAIN Commands
      BY <2>3, CommandsAre
    <3>. QED
      BY <2>2, <3>1 DEF AInv, Posed, Commands
  <2>4. CASE \E c \in DOMAIN Commands : command' = c /\ script' = Commands[c]
    <3>1. PICK c \in DOMAIN Commands : command' = c /\ script' = Commands[c]
      BY <2>4
    <3>2. ASSUME NEW k \in DOMAIN Commands[c]
          PROVE  Commands[c][k] = Question(c, 0 + k)
      <4>1. CASE c \in {"info", "personal_data"}
        <5>1. k = 1
          BY <3>2, <4>1, CommandsAre
        <5>. QED
          BY <4>1, <5>1, CommandsAre DEF Question
      <4>2. CASE c \in {"show_task", "list"}
        <5>1. k = 1 \/ k = 2
          BY <3>2, <4>2, CommandsAre
        <5>. QED
          BY <4>2, <5>1, CommandsAre DEF Question
      <4>3. CASE c = "battery"
        <5>1. k = 1 \/ k = 2 \/ k = 3
          BY <3>2, <4>3, CommandsAre
        <5>. QED
          BY <4>3, <5>1, CommandsAre DEF Question
      <4>. QED
        BY <4>1, <4>2, <4>3, CommandsAre
    <3>3. Posed'
      BY <2>1, <3>1, <3>2 DEF Posed
    <3>. QED
      BY <2>2, <3>3 DEF AInv
  <2>. QED
    BY <1>2, <2>3, <2>4 DEF StartTool
<1>. QED
  BY <1>1, <1>2

LEMMA AInvStep ==
    ASSUME IInv, QInv, AInv, [ToolNext]_allvars
    PROVE  AInv'
<1>1. CASE Tool
  BY <1>1, LoggerAnswer, SendAnswer, AnsweredAnswer, EndAnswer DEF Tool
<1>2. CASE Fake \/ LoseRequest \/ (LoseByte /\ UNCHANGED <<program, store>>)
  BY <1>2, DeviceAnswer
<1>3. CASE StartLogger \/ StartTool \/ StartWriter
  BY <1>3, StartAnswer
<1>4. CASE UNCHANGED allvars
  <2>1. /\ UNCHANGED <<pc, command, script, shown, last, device, want, got, spoilt, alive, wire, request>>
    BY <1>4 DEF allvars, vars, link, host, program, store
  <2>. QED
    BY <2>1, ADropped
<1>. QED
  BY <1>1, <1>2, <1>3, <1>4 DEF ToolNext

LEMMA InitAInv == ToolInit => AInv
<1>. SUFFICES ASSUME ToolInit PROVE AInv
  OBVIOUS
<1>1. pc = "shell" /\ command = "none"
  BY DEF ToolInit
<1>2. command \notin DOMAIN Commands
  BY <1>1, CommandsAre
<1>. QED
  BY <1>1, <1>2 DEF AInv, Running, Posed, Answering, Asking, Shown

\* Whatever zander-tool shows is the answer to its own question, and what it
\* shows of personal data or a task is what was written last, by whichever
\* program and however soon before: what the queue still holds of a write is
\* taken before the question behind it.
THEOREM AnswersAreShown == ToolSpec => []ToolShowsTheAnswers
<1>1. ToolInit => QInv /\ AInv
  BY InitQInv, InitAInv
<1>2. IInv /\ QInv /\ AInv /\ [ToolNext]_allvars => QInv' /\ AInv'
  BY QInvStep, AInvStep
<1>3. AInv => ToolShowsTheAnswers
  BY DEF AInv, Shown, ToolShowsTheAnswers
<1>. QED
  BY <1>1, <1>2, <1>3, AnswersInStep, PTL DEF ToolSpec
=============================================================================
