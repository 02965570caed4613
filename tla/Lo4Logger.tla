------------------------------- MODULE Lo4Logger -------------------------------
(***************************************************************************)
(* lo4-logger downloading the three sections of an LO4 logger into a file  *)
(* and, with -E, erasing the logger: lo4-logger.c over filser-proto.c and  *)
(* filser-io.c.  The logger is fakefilser's (handle_30, the 0x4c case of   *)
(* its main loop), with a memory that can be told from an erased one.      *)
(***************************************************************************)
EXTENDS Naturals, Sequences

CONSTANTS Found,     \* what the file may contain before: it is not truncated
          MaxFaults, \* how many messages the line may lose, damage or delay
          MaxTries   \* the 20 tries of syn_ack_wait

Sections == 1..3

ASSUME Lo4Assumption == /\ MaxFaults \in Nat /\ MaxTries \in Nat
                        /\ \A f \in Found : f \in Seq({0} \cup Sections) /\ Len(f) <= 3

VARIABLES request,  \* what the logger has not read
          tty,      \* what the host has not read
          faults,   \* how many messages were lost, damaged or late
          memory,   \* whether the logger was erased
          erase,    \* whether -E was given
          pc,       \* where lo4-logger is
          goal,     \* where it goes when the logger answers a SYN
          tries,    \* tries left in syn_ack_wait
          next,     \* i + 1 of main()
          pos,      \* the sections written: the position in the file
          file      \* the sections in the file

host == <<erase, pc, goal, tries, next, pos, file>>
vars == <<request, tty, faults, memory, host>>

Msg(k, n) == [kind |-> k, section |-> n]
Stop(why) == pc' = why

-----------------------------------------------------------------------------
(* The logger and the line.                                                *)
Serve ==
    /\ request # <<>> /\ request' = Tail(request)
    /\ LET r == Head(request) IN
       /\ tty' = Append(tty, CASE r.kind = "READ"  -> Msg("section", r.section)
                               [] OTHER            -> Msg("ACK", 0))
       /\ memory' = IF r.kind = "ERASE" THEN "erased" ELSE memory
    /\ UNCHANGED <<faults, host>>

LineFault ==
    /\ faults < MaxFaults /\ faults' = faults + 1
    /\ \/ request # <<>> /\ request' = Tail(request) /\ UNCHANGED tty
       \/ tty # <<>> /\ tty' = Tail(tty) /\ UNCHANGED request
       \/ tty # <<>> /\ tty' = <<Msg("damaged", 0)>> \o Tail(tty) /\ UNCHANGED request
    /\ UNCHANGED <<memory, host>>

\* A read of the host brings nothing in the time it has: there is nothing to
\* come, or what is to come is late.
Nothing ==
    /\ tty = <<>>
    /\ IF request = <<>> THEN UNCHANGED faults ELSE faults < MaxFaults /\ faults' = faults + 1
    /\ UNCHANGED <<request, tty, memory>>

-----------------------------------------------------------------------------
(* lo4-logger.  Every command is sent after a flush of the input.          *)
Send(m) == tty' = <<>> /\ request' = Append(request, m) /\ UNCHANGED <<faults, memory>>
Took == tty' = Tail(tty) /\ UNCHANGED <<request, faults, memory>>

SendSyn ==
    /\ pc = "syn" /\ Send(Msg("SYN", 0)) /\ pc' = "ack"
    /\ UNCHANGED <<erase, goal, tries, next, pos, file>>

RecvAck ==
    /\ pc = "ack" /\ tty # <<>> /\ Head(tty).kind = "ACK" /\ Took /\ pc' = goal
    /\ UNCHANGED <<erase, goal, tries, next, pos, file>>

\* MUTANT: the tries are not counted.
TryForever ==
    /\ pc = "ack" /\ Nothing /\ pc' = "syn"
    /\ UNCHANGED <<erase, goal, tries, next, pos, file>>

NoAck ==
    /\ pc = "ack"
    /\ \/ tty # <<>> /\ Head(tty).kind # "ACK" /\ Took
       \/ Nothing
    /\ IF tries > 0 THEN tries' = tries - 1 /\ pc' = "syn"
                    ELSE Stop("no filser") /\ UNCHANGED tries
    /\ UNCHANGED <<erase, goal, next, pos, file>>

\* MUTANT: the last section is left out.
LastLeftOut(n) ==
    IF n < 3 THEN pc' = "download" /\ UNCHANGED <<goal, tries>>
    ELSE IF erase THEN pc' = "syn" /\ goal' = "erase" /\ tries' = MaxTries
    ELSE pc' = "exit 0" /\ UNCHANGED <<goal, tries>>

\* What main() does with the next section, or after the last one.
AfterSection(n) ==
    IF n \in Sections THEN pc' = "download" /\ UNCHANGED <<goal, tries>>
    ELSE IF erase THEN pc' = "syn" /\ goal' = "erase" /\ tries' = MaxTries
    ELSE pc' = "exit 0" /\ UNCHANGED <<goal, tries>>

SendRead ==
    /\ pc = "download" /\ Send(Msg("READ", next)) /\ pc' = "section"
    /\ UNCHANGED <<erase, goal, tries, next, pos, file>>

\* MUTANT: the checksum is not looked at.
AnySection ==
    /\ pc = "section" /\ tty # <<>> /\ Took
    /\ file' = Append(SubSeq(file, 1, pos), Head(tty).section) \o SubSeq(file, pos + 2, Len(file))
    /\ pos' = pos + 1 /\ next' = next + 1 /\ AfterSection(next + 1)
    /\ UNCHANGED erase

\* A section with the right checksum is written where the file is at.
RecvSection ==
    /\ pc = "section" /\ tty # <<>> /\ Head(tty).kind = "section" /\ Took
    /\ file' = Append(SubSeq(file, 1, pos), Head(tty).section) \o SubSeq(file, pos + 2, Len(file))
    /\ pos' = pos + 1 /\ next' = next + 1 /\ AfterSection(next + 1)
    /\ UNCHANGED erase

WrongSection ==
    /\ pc = "section" /\ tty # <<>> /\ Head(tty).kind # "section" /\ Took /\ Stop("CRC error")
    /\ UNCHANGED <<erase, goal, tries, next, pos, file>>

\* After 40 seconds download_lo4_section returns -1; main() does not look.
NoSection ==
    /\ pc = "section" /\ Nothing
    /\ next' = next + 1 /\ AfterSection(next + 1)
    /\ UNCHANGED <<erase, pos, file>>

\* write() fails or is short: exit(2), with nothing or a part of the section.
DiskFull ==
    /\ pc = "section" /\ tty # <<>> /\ Head(tty).kind = "section" /\ Took /\ Stop("exit 2")
    /\ file' \in {file, Append(SubSeq(file, 1, pos), 0) \o SubSeq(file, pos + 2, Len(file))}
    /\ UNCHANGED <<erase, goal, tries, next, pos>>

SendErase ==
    /\ pc = "erase" /\ Send(Msg("ERASE", 0)) /\ pc' = "erased"
    /\ UNCHANGED <<erase, goal, tries, next, pos, file>>

\* Nor does it look at what filser_erase_lo4 read.
EraseAnswered ==
    /\ pc = "erased" /\ (IF tty # <<>> THEN Took ELSE Nothing)
    /\ pc' = "exit 0" /\ UNCHANGED <<erase, goal, tries, next, pos, file>>

Host == \/ SendSyn \/ RecvAck \/ NoAck \/ SendRead \/ RecvSection \/ WrongSection
        \/ DiskFull \/ NoSection \/ SendErase \/ EraseAnswered

Next == Host \/ Serve \/ LineFault

Init == /\ request = <<>> /\ tty = <<>> /\ faults = 0 /\ memory = "full"
        /\ erase \in BOOLEAN /\ pc = "syn" /\ goal = "download" /\ tries = MaxTries /\ next = 1
        /\ pos = 0 /\ file \in Found

Spec == Init /\ [][Next]_vars /\ WF_vars(Host) /\ WF_vars(Serve)

-----------------------------------------------------------------------------
Exits == {"exit 0", "exit 2", "no filser", "CRC error"}

TypeOK == /\ faults \in 0..MaxFaults /\ memory \in {"full", "erased"}
          /\ erase \in BOOLEAN
          /\ tries \in 0..MaxTries /\ next \in 1..4 /\ pos < next
          /\ file \in Seq({0} \cup Sections) /\ Len(file) <= 3
          /\ pos \in 0..Len(file)
          /\ goal \in {"download", "erase"}
          /\ pc \in {"syn", "ack", "download", "section", "erase", "erased"} \cup Exits

\* What this download has written are sections of the logger with the right
\* checksum, none twice and each behind the ones before it.
SectionsInOrder ==
    \A i \in 1..pos : /\ file[i] \in Sections
                      /\ i > 1 => file[i] > file[i - 1]

\* On a line without faults the file has the whole memory, whatever was in it
\* before, when lo4-logger exits well or has erased the logger.
CleanDownload ==
    faults = 0 /\ (pc = "exit 0" \/ memory = "erased") => file = <<1, 2, 3>>

\* -E: "erase memory after successful download".
EraseAfterSuccess == memory = "erased" => file = <<1, 2, 3>>

\* lo4-logger comes to an end whatever the line does.
RunEnds == <>(pc \in Exits)
=============================================================================
