----------------------------- MODULE ZanderSession -----------------------------
(***************************************************************************)
(* zander-logger (zander-logger.c, zander-protocol.c, zander-io.c)         *)
(* downloading flights from a Zander logger, or from fakezander.  Nothing  *)
(* on the wire tells one answer from the next: the host knows how many     *)
(* bytes an answer has and gives up when none comes for two seconds.  The  *)
(* logger is not part of the repository; it answers a READ_MEMORY by       *)
(* walking around the ring.  fakezander sends a piece of a file.           *)
(***************************************************************************)
EXTENDS ZanderMemory, Sequences, SequencesExt, FiniteSetsExt

CONSTANTS Flights,     \* the entries of the flight list: memory_start, memory_end
          ListBase,    \* the address of the flight list, 0x3000
          FakeLimit,   \* where the memory of fakezander ends, 0x40000
          FileSize,    \* the size of fakezander's file: a logger's memory from ListBase on
          Devices,     \* what the host may talk to: "logger", "fakezander"
          Downloads,   \* how many flights the user asks for
          MaxLost      \* how many bytes the line loses

ASSUME SessionAssumption ==
    /\ Flights \in Seq(Nat \X Nat) /\ ListBase \in Nat /\ ListBase + 1 < First
    /\ FakeLimit \in Nat /\ FileSize \in Nat /\ ListBase + FileSize <= Limit
    /\ Devices \subseteq {"logger", "fakezander"}
    /\ Downloads \in Nat /\ MaxLost \in Nat

VARIABLES device,   \* what the host talks to
          alive,    \* whether it still runs
          request,  \* the requests the device has not read
          wire,     \* the bytes on their way to the host
          lost,     \* how many bytes were lost
          pc,       \* where zander-logger is
          want,     \* how many bytes its zander_read wants
          got,      \* the bytes it has
          wanted,   \* the flight the user asked for
          asked,    \* how many the user has asked for
          file,     \* the .zan file: whose download wrote it, and what
          said      \* the flight "Done with flight" was said of last

link == <<device, alive, request, wire, lost>>
host == <<pc, want, got, wanted, asked, file, said>>
vars == <<link, host>>

Byte(what, at) == [what |-> what, at |-> at]
Stop(why) == pc' = why

-----------------------------------------------------------------------------
(* The other side.                                                         *)
Answer(s) == wire' = wire \o s /\ request' = Tail(request) /\ UNCHANGED <<device, lost, host>>

\* What version[1] of the serial number says: fakezander is a GP940.
Serial == <<Byte("serial", IF device = "fakezander" THEN 940 ELSE 941)>>

ReadSerial ==
    /\ alive /\ request # <<>> /\ Head(request).cmd = "READ_SERIAL"
    /\ Answer(Serial) /\ UNCHANGED alive

Memory(a) == IF a < First THEN Byte("list", a) ELSE Byte("memory", a)

\* The logger walks around the ring; the flight list lies outside.
LoggerReadMemory ==
    /\ device = "logger" /\ request # <<>> /\ Head(request).cmd = "READ_MEMORY"
    /\ LET r == Head(request) IN
       Answer([i \in 1..r.length |->
                 Memory(IF r.start < First THEN r.start + i - 1 ELSE Step(r.start, i - 1))])
    /\ UNCHANGED alive

\* handle_read_memory of fakezander: a piece of its file for the two ranges
\* it knows, nothing at all for another address, and the end of the program
\* for a piece that reaches beyond the file.
FakeReadMemory ==
    /\ device = "fakezander" /\ alive
    /\ request # <<>> /\ Head(request).cmd = "READ_MEMORY"
    /\ LET r == Head(request) IN
       IF r.start \in ListBase..First - 1 \/ r.start \in First..FakeLimit - 1
       THEN IF r.start - ListBase + r.length <= FileSize
            THEN Answer([i \in 1..r.length |-> Memory(r.start + i - 1)]) /\ UNCHANGED alive
            ELSE Answer(<<>>) /\ alive' = FALSE
       ELSE Answer(<<>>) /\ UNCHANGED alive

\* The six bytes of its argument did not come in one read(): fakezander goes
\* back to its main loop and takes the rest for commands.  One of them may be
\* READ_SERIAL; the first that is no command makes it exit.
FakeShortRead ==
    /\ device = "fakezander" /\ alive
    /\ request # <<>> /\ Head(request).cmd = "READ_MEMORY"
    /\ \E s \in {<<>>, Serial} : Answer(s)
    /\ alive' \in BOOLEAN

LoseByte ==
    /\ lost < MaxLost /\ lost' = lost + 1
    /\ \E i \in 1..Len(wire) : wire' = RemoveAt(wire, i)
    /\ UNCHANGED <<device, alive, request, host>>

Device == ReadSerial \/ LoggerReadMemory \/ FakeReadMemory \/ FakeShortRead

-----------------------------------------------------------------------------
(* zander-logger.                                                          *)
ListLength == First - ListBase

\* Write a request and read the n bytes of its answer.  The input is not
\* flushed before.
Ask(r, n, then) ==
    /\ request' = Append(request, r)
    /\ want' = n /\ got' = <<>> /\ pc' = then
    /\ UNCHANGED <<device, alive, wire, lost>>

AskSerial ==
    /\ pc = "start" /\ Ask([cmd |-> "READ_SERIAL"], 1, "serial")
    /\ UNCHANGED <<wanted, asked, file, said>>

\* zander_read is at work; "answer" is that of zander-tool, see ZanderTool.
Reading == pc \in {"serial", "list", "memory", "answer"} /\ Len(got) < want

\* A round of zander_read.
ReadSome ==
    /\ Reading
    /\ \E k \in 1..Len(wire) :
         /\ k <= want - Len(got)
         /\ got' = got \o SubSeq(wire, 1, k) /\ wire' = SubSeq(wire, k + 1, Len(wire))
    /\ UNCHANGED <<device, alive, request, lost, pc, want, wanted, asked, file, said>>

AskList ==
    /\ pc = "serial" /\ Len(got) = want
    /\ Ask([cmd |-> "READ_MEMORY", start |-> ListBase, length |-> ListLength], ListLength, "list")
    /\ UNCHANGED <<wanted, asked, file, said>>

ListRead ==
    /\ pc = "list" /\ Len(got) = want /\ pc' = "prompt"
    /\ UNCHANGED <<link, want, got, wanted, asked, file, said>>

\* MUTANT: the byte at memory_end is not read.
ChooseFlightButLast ==
    /\ pc = "prompt" /\ asked < Downloads /\ asked' = asked + 1
    /\ \E n \in DOMAIN Flights :
         LET length == flight_length(Flights[n][1], Flights[n][2])
         IN /\ wanted' = n
            /\ Ask([cmd |-> "READ_MEMORY", start |-> Flights[n][1], length |-> length],
                   length - 1, "memory")
    /\ UNCHANGED <<file, said>>

\* The user picks a flight of the list.  download_flight asserts that its
\* length is not zero, then looks at the two addresses, then asks for the
\* memory between them.
ChooseFlight ==
    /\ pc = "prompt" /\ asked < Downloads /\ asked' = asked + 1
    /\ \E n \in DOMAIN Flights :
         LET a == Flights[n][1]
             b == Flights[n][2]
             length == flight_length(a, b)
         IN /\ wanted' = n
            /\ IF length = 0
               THEN Stop("abort") /\ UNCHANGED <<link, want, got>>
               ELSE IF zander_address_valid(a) /\ zander_address_valid(b)
               THEN Ask([cmd |-> "READ_MEMORY", start |-> a, length |-> length], length, "memory")
               ELSE Stop("failed") /\ UNCHANGED <<link, want, got>>
    /\ UNCHANGED <<file, said>>

\* MUTANT: what has come by the timeout is written.
WriteWhatCame ==
    /\ pc = "memory" /\ got # <<>>
    /\ file' = [flight |-> wanted, bytes |-> got]
    /\ pc' = "ok"
    /\ UNCHANGED <<link, want, got, wanted, asked, said>>

\* The memory is read, and only then the file is truncated and written.
WriteFile ==
    /\ pc = "memory" /\ Len(got) = want
    /\ file' = [flight |-> wanted, bytes |-> got]
    /\ pc' = "ok"
    /\ UNCHANGED <<link, want, got, wanted, asked, said>>

\* MUTANT: zander_read waits on.
KeepWaiting ==
    /\ Reading /\ pc = "serial" /\ Stop("exit")
    /\ UNCHANGED <<link, want, got, wanted, asked, file, said>>

\* No byte for two seconds.  (The line has no pauses of its own: after one the
\* rest of an answer would be taken for the beginning of the next.)
ReadTimeout ==
    /\ Reading
    /\ wire = <<>> /\ (request = <<>> \/ ~alive)
    /\ Stop(IF pc = "memory" THEN "failed" ELSE "exit")
    /\ UNCHANGED <<link, want, got, wanted, asked, file, said>>

\* main() does not look at what download_flight returned.
DoneWithFlight ==
    /\ pc \in {"ok", "failed"} /\ said' = wanted /\ pc' = "prompt"
    /\ UNCHANGED <<link, want, got, wanted, asked, file>>

Quit ==
    /\ pc = "prompt" /\ Stop("quit")
    /\ UNCHANGED <<link, want, got, wanted, asked, file, said>>

Host == \/ AskSerial \/ ReadSome \/ AskList \/ ListRead \/ ChooseFlight \/ WriteFile
        \/ ReadTimeout \/ DoneWithFlight \/ Quit

Next == Host \/ Device \/ LoseByte

Fresh == /\ device \in Devices /\ alive = TRUE /\ request = <<>> /\ wire = <<>> /\ lost = 0
         /\ want = 0 /\ got = <<>> /\ wanted = 0 /\ asked = 0
         /\ file = [flight |-> 0, bytes |-> <<>>] /\ said = 0

Init == Fresh /\ pc = "start"

Spec == Init /\ [][Next]_vars /\ WF_vars(Host) /\ WF_vars(Device)

-----------------------------------------------------------------------------
TypeOK == /\ device \in Devices /\ alive \in BOOLEAN /\ lost \in 0..MaxLost
          /\ want \in 0..Max({RingSize, ListLength}) /\ Len(got) <= want
          /\ wanted \in 0..Len(Flights) /\ said \in 0..Len(Flights) /\ asked \in 0..Downloads
          /\ pc \in {"start", "serial", "list", "prompt", "memory", "ok", "failed",
                     "quit", "exit", "abort"}

\* The .zan file is the memory of a flight of the list, from its first byte
\* to its last one, around the end of the ring if that is where it lies,
\* although nothing in the answers tells whether a byte is missing.  (Not so
\* for a flight as short as the serial number: fakezander may answer with that
\* when it reads the argument of a request in two pieces.)
FileIsTheFlight ==
    file.flight # 0 =>
      LET a == Flights[file.flight][1]
          n == CHOOSE k \in 0..RingSize - 1 : Step(a, k) = Flights[file.flight][2]
      IN device = "logger" \/ n > 0 => file.bytes = [i \in 1..n + 1 |-> Byte("memory", Step(a, i - 1))]

\* When the user is asked, every byte of the earlier answers has been read or
\* lost: the next answer begins with its own first byte.
AnswersDoNotMix == pc = "prompt" => wire = <<>> /\ (request = <<>> \/ ~alive)

\* Every download comes to an end, one way or the other.
DownloadsEnd == pc = "memory" ~> pc = "prompt"
=============================================================================
