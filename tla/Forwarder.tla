------------------------------- MODULE Forwarder -------------------------------
(***************************************************************************)
(* fwd and lxn-fwd: a program that knows only a serial port talks to       *)
(* /tmp/fwd, the slave of a pseudo terminal, and the forwarder copies what *)
(* comes from either side to the other one.  lxn-fwd also wakes the LX     *)
(* logger up before the first byte, and passes on the flush that goes with *)
(* a SYN.  The two ttys, the programs and the device are not part of the   *)
(* repository: a tty is a queue, a program opens, writes, flushes, reads   *)
(* and closes as it likes, and the device answers every byte with one.     *)
(***************************************************************************)
EXTENDS Naturals, Sequences, SequencesExt, FiniteSetsExt

CONSTANTS Programs,    \* which of the two forwarders may run: "fwd", "lxn-fwd"
          MaxSessions, \* how often the slave is opened
          MaxBytes,    \* how many bytes the sessions write
          Chunk,       \* the 16 bytes of data[]
          MaxTries     \* the 20 tries of syn_ack_wait

ASSUME ForwarderAssumption ==
    /\ Programs \subseteq {"fwd", "lxn-fwd"} /\ MaxSessions \in Nat /\ MaxBytes \in Nat
    /\ Chunk \in Nat \ {0} /\ MaxTries \in Nat

VARIABLES program,   \* the forwarder that runs
          sessions,  \* how often the slave was opened
          wrote,     \* how many bytes the sessions have written
          slave,     \* of the present pty: "new", "open", "closed"
          toMaster,  \* what the session wrote and the forwarder has not read
          toSlave,   \* the other way round
          output,    \* what the serial port has not sent
          input,     \* what it has received and the forwarder has not read
          real,      \* whether the serial port is open
          pc,        \* where main() is
          ready,     \* the file descriptors select() found readable
          data,      \* data[]
          tries,     \* tries left in syn_ack_wait
          arrived,   \* every byte the device has got, in its order
          heard,     \* every answer a session has read, in its order
          discarded  \* bytes and answers thrown away by a flush or a close

pty == <<sessions, wrote, slave, toMaster, toSlave>>
serial == <<output, input>>
main == <<program, real, pc, ready, data, tries>>
seen == <<arrived, heard, discarded>>
vars == <<pty, serial, main, seen>>

\* The n-th byte the sessions write, a SYN or not, and its answer; the SYN of
\* lxn-fwd itself has no number.
ByteOf(n, syn) == [number |-> n, syn |-> syn]
Own == ByteOf(0, TRUE)

\* A byte is thrown away on the way "up" to the device, its answer "down".
Dropped(up, down) ==
    discarded' = discarded \cup {<<"up", b>> : b \in ToSet(up)} \cup {<<"down", b>> : b \in ToSet(down)}

\* How main() may end; the pty goes with it.
Ends == {"exit 1", "no filser", "abort"}

-----------------------------------------------------------------------------
(* The session and the device.                                             *)
SessionOpens ==
    /\ pc \notin Ends /\ slave \in {"new", "closed"} /\ sessions < MaxSessions
    /\ sessions' = sessions + 1 /\ slave' = "open"
    /\ UNCHANGED <<wrote, toMaster, toSlave, serial, main, seen>>

SessionWrites ==
    /\ pc \notin Ends /\ slave = "open" /\ wrote < MaxBytes /\ wrote' = wrote + 1
    /\ \E syn \in BOOLEAN : toMaster' = Append(toMaster, ByteOf(wrote + 1, syn))
    /\ UNCHANGED <<sessions, slave, toSlave, serial, main, seen>>

SessionReads ==
    /\ slave = "open" /\ toSlave # <<>>
    /\ toSlave' = Tail(toSlave) /\ heard' = Append(heard, Head(toSlave))
    /\ UNCHANGED <<sessions, wrote, slave, toMaster, serial, main, arrived, discarded>>

SessionFlushes ==
    /\ slave = "open" /\ toMaster' = <<>> /\ toSlave' = <<>> /\ Dropped(toMaster, toSlave)
    /\ UNCHANGED <<sessions, wrote, slave, serial, main, arrived, heard>>

SessionCloses ==
    /\ slave = "open" /\ slave' = "closed" /\ toSlave' = <<>> /\ Dropped(<<>>, toSlave)
    /\ UNCHANGED <<sessions, wrote, toMaster, serial, main, arrived, heard>>

\* An answer is lost while the serial port is closed.
DeviceAnswers ==
    /\ output # <<>> /\ output' = Tail(output) /\ arrived' = Append(arrived, Head(output))
    /\ IF real THEN input' = Append(input, Head(output)) /\ UNCHANGED discarded
               ELSE Dropped(<<>>, <<Head(output)>>) /\ UNCHANGED input
    /\ UNCHANGED <<pty, main, heard>>

-----------------------------------------------------------------------------
(* main().  What nothing reads any more (data[] once it is written, rfds    *)
(* at the end of a round, the tries once there was an ACK) is set back.    *)
Goto(l) == pc' = l
Read(queue) == SubSeq(queue, 1, Min({Chunk, Len(queue)}))
Unread(queue) == SubSeq(queue, Chunk + 1, Len(queue))

\* MUTANT: the pty is forgotten once the serial port is open.
SelectOne ==
    /\ pc = "select"
    /\ ready' = IF real THEN IF input # <<>> THEN {"real"} ELSE {}
                ELSE IF toMaster # <<>> \/ slave = "closed" THEN {"virtual"} ELSE {}
    /\ ready' # {} /\ Goto("real")
    /\ UNCHANGED <<pty, serial, program, real, data, tries, seen>>

Select ==
    /\ pc = "select"
    /\ ready' = {f \in {"real", "virtual"} :
                   IF f = "real" THEN real /\ input # <<>>
                                 ELSE toMaster # <<>> \/ slave = "closed"}
    /\ ready' # {} /\ Goto("real")
    /\ UNCHANGED <<pty, serial, program, real, data, tries, seen>>

ReadReal ==
    /\ pc = "real"
    /\ IF "real" \in ready
       THEN data' = Read(input) /\ input' = Unread(input) /\ Goto("down")
       ELSE Goto("virtual") /\ UNCHANGED <<data, input>>
    /\ UNCHANGED <<pty, output, program, real, ready, tries, seen>>

\* MUTANT: the rest of the chunk is forgotten.
WriteVirtualOne ==
    /\ pc = "down" /\ Goto("virtual")
    /\ toSlave' = Append(toSlave, data[1]) /\ data' = <<>>
    /\ UNCHANGED <<sessions, wrote, slave, toMaster, serial, program, real, ready, tries, seen>>

\* What is written to a pty that nobody has open is lost.
WriteVirtual ==
    /\ pc = "down" /\ Goto("virtual")
    /\ IF slave = "open" THEN toSlave' = toSlave \o data /\ UNCHANGED discarded
                         ELSE Dropped(<<>>, data) /\ UNCHANGED toSlave
    /\ data' = <<>>
    /\ UNCHANGED <<sessions, wrote, slave, toMaster, serial, program, real, ready, tries, arrived, heard>>

NothingVirtual ==
    /\ pc = "virtual" /\ "virtual" \notin ready /\ Goto("select") /\ ready' = {}
    /\ UNCHANGED <<pty, serial, program, real, data, tries, seen>>

\* read() waits if a flush of the session was faster.
ReadVirtual ==
    /\ pc = "virtual" /\ "virtual" \in ready /\ toMaster # <<>>
    /\ data' = Read(toMaster) /\ toMaster' = Unread(toMaster)
    /\ Goto(IF real THEN "up" ELSE "open") /\ ready' = {}
    /\ UNCHANGED <<sessions, wrote, slave, toSlave, serial, program, real, tries, seen>>

\* EIO: everybody has closed the slave.  Both ttys are closed and a new pty
\* is opened.  filser_close asserts that the serial port was open.
Reopen ==
    /\ pc = "virtual" /\ "virtual" \in ready /\ toMaster = <<>> /\ slave = "closed"
    /\ slave' = "new" /\ toSlave' = <<>> /\ input' = <<>> /\ Dropped(<<>>, toSlave \o input)
    /\ real' = FALSE
    /\ Goto(IF program = "lxn-fwd" /\ ~real THEN "abort" ELSE "select") /\ ready' = {}
    /\ UNCHANGED <<sessions, wrote, toMaster, output, program, data, tries, arrived, heard>>

\* MUTANT: the bytes that had the serial port opened are forgotten.
OpenRealAndForget ==
    /\ pc = "open" /\ real' = TRUE /\ Goto("select") /\ data' = <<>>
    /\ UNCHANGED <<pty, serial, program, ready, tries, seen>>

OpenReal ==
    /\ pc = "open" /\ real' = TRUE
    /\ IF program = "fwd" THEN Goto("up") /\ UNCHANGED tries
                          ELSE Goto("syn") /\ tries' = MaxTries
    /\ UNCHANGED <<pty, serial, program, ready, data, seen>>

\* syn_ack_wait of lxn-fwd: filser_send_syn flushes both ways.
SendSyn ==
    /\ pc = "syn" /\ Goto("ack")
    /\ output' = <<Own>> /\ input' = <<>> /\ Dropped(output, input)
    /\ UNCHANGED <<pty, program, real, ready, data, tries, arrived, heard>>

RecvAck ==
    /\ pc = "ack" /\ input # <<>> /\ Head(input).syn /\ Goto("up")
    /\ input' = Tail(input) /\ Dropped(<<>>, <<Head(input)>>) /\ tries' = 0
    /\ UNCHANGED <<pty, output, program, real, ready, data, arrived, heard>>

\* Another byte, or none in a tenth of a second.
NoAck ==
    /\ pc = "ack"
    /\ IF input = <<>> THEN UNCHANGED <<input, discarded>>
       ELSE ~Head(input).syn /\ input' = Tail(input) /\ Dropped(<<>>, <<Head(input)>>)
    /\ IF tries > 0 THEN tries' = tries - 1 /\ Goto("syn")
                    ELSE Goto("no filser") /\ UNCHANGED tries
    /\ UNCHANGED <<pty, output, program, real, ready, data, arrived, heard>>

\* lxn-fwd passes on the flush of a program that sends a SYN.
WriteReal ==
    /\ pc = "up" /\ Goto("select")
    /\ IF program = "lxn-fwd" /\ Len(data) = 1 /\ data[1].syn
       THEN output' = data /\ input' = <<>> /\ Dropped(output, input)
       ELSE output' = output \o data /\ UNCHANGED <<input, discarded>>
    /\ data' = <<>>
    /\ UNCHANGED <<pty, program, real, ready, tries, arrived, heard>>

\* open(), read() or write() of the serial port fails.
RealFails ==
    /\ pc \in {"real", "open", "syn", "up"} /\ (pc = "real" => "real" \in ready) /\ Goto("exit 1")
    /\ UNCHANGED <<pty, serial, program, real, ready, data, tries, seen>>

Main == \/ Select \/ ReadReal \/ WriteVirtual \/ NothingVirtual \/ ReadVirtual \/ Reopen
        \/ OpenReal \/ SendSyn \/ RecvAck \/ NoAck \/ WriteReal

Next == \/ Main \/ RealFails \/ SessionOpens \/ SessionWrites \/ SessionReads
        \/ SessionFlushes \/ SessionCloses \/ DeviceAnswers

Init == /\ program \in Programs /\ sessions = 0 /\ wrote = 0 /\ slave = "new"
        /\ toMaster = <<>> /\ toSlave = <<>> /\ output = <<>> /\ input = <<>>
        /\ real = FALSE /\ pc = "select" /\ ready = {} /\ data = <<>> /\ tries = 0
        /\ arrived = <<>> /\ heard = <<>> /\ discarded = {}

Spec == Init /\ [][Next]_vars /\ WF_vars(Main) /\ WF_vars(DeviceAnswers)

-----------------------------------------------------------------------------
TypeOK == /\ program \in Programs /\ sessions \in 0..MaxSessions /\ wrote \in 0..MaxBytes
          /\ slave \in {"new", "open", "closed"} /\ real \in BOOLEAN
          /\ ready \subseteq {"real", "virtual"} /\ Len(data) <= Chunk /\ tries \in 0..MaxTries
          /\ toSlave # <<>> => slave = "open"
          /\ input # <<>> => real \/ pc \in Ends
          /\ pc \in Ends \cup {"select", "real", "down", "virtual", "open", "syn", "ack", "up"}

\* s has bytes in the order they were written, none of them twice, and before
\* each one all the earlier ones that were not thrown away on one of the ways.
InOrder(s, ways) ==
    \A j \in {k \in DOMAIN s : s[k] # Own} :
      /\ \A i \in 1..j - 1 : s[i] # Own => s[i].number < s[j].number
      /\ \A n \in 1..s[j].number - 1 : \E syn \in BOOLEAN :
           \/ \E i \in 1..j - 1 : s[i] = ByteOf(n, syn)
           \/ \E way \in ways : <<way, ByteOf(n, syn)>> \in discarded

\* However the two directions, the sessions and the flushes interleave, the
\* device gets what the sessions wrote, in order and without a hole that is
\* not the work of a flush.
DeviceGetsWhatWasWritten == InOrder(arrived, {"up"})

\* The same of the answers the sessions read.
SessionsHearTheAnswers == InOrder(heard, {"up", "down"})

\* What a session wrote does not stay in the pty, nor an answer in the serial
\* port, as long as the forwarder runs: it never waits at one side for ever
\* while the other one has something for it.  (Not so when a session flushes
\* what select() had found and writes nothing more: read() waits at the pty.)
BothSidesAreServed ==
    (toMaster # <<>> \/ input # <<>>) ~>
      \/ toMaster = <<>> /\ input = <<>>
      \/ pc \in Ends
      \/ pc = "virtual" /\ "virtual" \in ready /\ toMaster = <<>> /\ slave # "closed"
=============================================================================
