----------------------------- MODULE FilserSession -----------------------------
(***************************************************************************)
(* lxn-logger (lxn-logger.c, filser-proto.c, filser-io.c) downloading      *)
(* flights from fakefilser over a serial line.  What one side writes goes  *)
(* through the line into the other side's tty buffer, and tcflush() throws *)
(* away what has arrived there, never what is still under way.  A message  *)
(* is one cell: its checksum makes the receiver see a damaged or cut cell  *)
(* for what it is.                                                         *)
(***************************************************************************)
EXTENDS FilserMemory

CONSTANTS MaxFlights,    \* MAX_FLIGHTS of lxn-logger
          MaxTries,      \* tries of syn_ack_wait
          MaxDownloads,  \* how many flights the user asks for
          Garbage,       \* ranges a packet may hold that was not read whole
          Faults,        \* what may go wrong: a subset of the kinds below
          MaxFaults      \* how many messages the line may spoil

ASSUME SessionAssumption ==
    /\ MaxFlights \in Nat \ {0} /\ MaxTries \in Nat /\ MaxDownloads \in Nat
    /\ Garbage \subseteq Nat \X Nat
    /\ Faults \subseteq {"lose", "damage", "cut", "late", "disk full"}
    /\ MaxFaults \in Nat

\* The flight list has room for all flights and its end, a section length
\* for every file, and the device reads the addresses of a flight as the
\* host means them: their first byte is the same as their last.
ASSUME FlightsAssumption ==
    /\ Len(Lengths) < MaxFlights
    /\ \A i \in Flights : Lengths[i] < Worth[3]
    /\ \A i \in Flights : \A a \in {flight_address(i), flight_end(i)} :
         decoded_address(def_mem_packet(a)) = a

VARIABLES request,   \* messages on their way to the device
          answer,    \* messages on their way to the host
          tty,       \* messages in the host's tty buffer
          faults,    \* how many messages the line has spoilt
          troubles,  \* the kinds of faults that have happened
          range,     \* start_address and end_address of the device
          blocks,    \* mem_blocks of the device
          listed,    \* whether the device has filled its flight list
          alive,     \* whether fakefilser is still running
          pc,        \* where lxn-logger is
          goal,      \* what it does after the next SYN is acknowledged
          tries,     \* tries of syn_ack_wait
          flights,   \* the flight list of the host
          wanted,    \* the number the user typed
          lengths,   \* section_lengths of download_flight
          section,   \* i of download_flight
          file,      \* wanted flight -> the ranges written to its .lxn file
          igc,       \* wanted flight -> what cmd_lxn2igc returned for it
          said       \* the flights lxn-logger has said it is done with

line == <<request, answer, tty, faults, troubles>>
device == <<range, blocks, listed, alive>>
choice == <<flights, wanted, lengths, section>>
disk == <<file, igc, said>>
vars == <<line, device, pc, goal, tries, choice, disk>>

Msg(k, b) == [kind |-> k, body |-> b]
Ack == Msg("ACK", <<>>)

\* With nothing under way and the device not at work an answer never comes.
Silent == /\ answer = <<>> /\ tty = <<>>
          /\ alive /\ request # <<>> => request[1].kind = "cut"

Stop(why) == pc' = why

-----------------------------------------------------------------------------
(* The line.                                                               *)
Arrive ==
    /\ answer # <<>>
    /\ tty' = Append(tty, Head(answer)) /\ answer' = Tail(answer)
    /\ UNCHANGED <<request, faults, troubles, device, pc, goal, tries, choice, disk>>

Hurt(k, s) == CASE k = "lose"   -> {Tail(s)}
                [] k = "damage" -> {<<Msg("damaged", <<>>)>> \o Tail(s)}
                [] OTHER        -> {<<Msg("cut", <<>>)>> \o Tail(s) : x \in
                                      IF s[1].kind = "DEF_MEM" THEN {1} ELSE {}}

LineFault ==
    /\ faults < MaxFaults /\ faults' = faults + 1
    /\ \E k \in Faults \cap {"lose", "damage", "cut"} :
         /\ troubles' = troubles \cup {k}
         /\ \/ request # <<>> /\ request' \in Hurt(k, request) /\ UNCHANGED answer
            \/ answer # <<>> /\ answer' \in Hurt(k, answer) /\ UNCHANGED request
    /\ UNCHANGED <<tty, device, pc, goal, tries, choice, disk>>

-----------------------------------------------------------------------------
(* fakefilser: one action per handler of its main loop.                    *)
Serve(kind) ==
    /\ alive /\ request # <<>> /\ request[1].kind = kind
    /\ request' = Tail(request)
    /\ UNCHANGED <<tty, faults, troubles, pc, goal, tries, choice, disk>>

handle_syn ==
    /\ Serve("SYN") /\ answer' = Append(answer, Ack) /\ UNCHANGED device

handle_check_mem_settings ==
    /\ Serve("CHECK_MEM_SETTINGS") /\ answer' = Append(answer, Msg("settings", <<>>))
    /\ UNCHANGED device

\* The list is read from the directory anew, and every entry and the null
\* entry are sent at once.
handle_open_flight_list ==
    /\ Serve("READ_FLIGHT_LIST")
    /\ listed' = TRUE /\ blocks' = <<>>
    /\ answer' = answer \o [i \in Flights |-> Msg("flight", <<flight_address(i), flight_end(i)>>)]
                        \o <<Msg("null", <<>>)>>
    /\ UNCHANGED <<range, alive>>

handle_def_mem ==
    /\ Serve("DEF_MEM")
    /\ range' = <<decoded_address(Head(request).body[1]), decoded_address(Head(request).body[2])>>
    /\ answer' = Append(answer, Ack)
    /\ UNCHANGED <<blocks, listed, alive>>

\* The packet of a DEF_MEM lacks a byte.  The read ends after 40 seconds,
\* its result is not looked at, and the range is whatever is in the packet
\* on the stack; or the host's next request fills the gap and the checksum
\* is wrong.
handle_def_mem_cut ==
    /\ Serve("cut")
    /\ IF Len(request) = 1
       THEN /\ range' \in Garbage
            /\ answer' = Append(answer, Ack)
            /\ UNCHANGED alive
       ELSE alive' = FALSE /\ UNCHANGED <<range, answer>>
    /\ UNCHANGED <<blocks, listed>>

handle_get_mem_section ==
    /\ Serve("GET_MEM_SECTION")
    /\ blocks' = IF listed THEN mem_blocks(range[1], range[2]) ELSE <<>>
    /\ answer' = Append(answer, Msg("sections", section_lengths(blocks')))
    /\ UNCHANGED <<range, listed, alive>>

\* MUTANT: the sections are counted from 1 here and from 0 there.
NextSectionSent ==
    /\ Serve("READ_LOGGER_DATA")
    /\ LET i == Head(request).body[1] + 1
           a == flight_address(blocks[i].flight) + blocks[i].offset
       IN answer' = Append(answer, Msg("data",
                      IF i \in DOMAIN blocks THEN <<a, a + blocks[i].length>> ELSE <<0, 0>>))
    /\ UNCHANGED device

\* A section is the bytes from one address to another; a block the device
\* does not have is an empty one.
handle_get_logger_data ==
    /\ Serve("READ_LOGGER_DATA")
    /\ LET i == Head(request).body[1]
           a == flight_address(blocks[i].flight) + blocks[i].offset
       IN answer' = Append(answer, Msg("data",
                      IF i \in DOMAIN blocks THEN <<a, a + blocks[i].length>> ELSE <<0, 0>>))
    /\ UNCHANGED device

\* An unknown first byte, or a wrong checksum: fakefilser exits.
handle_unknown ==
    /\ Serve("damaged") /\ alive' = FALSE
    /\ UNCHANGED <<answer, range, blocks, listed>>

Device == \/ handle_syn \/ handle_check_mem_settings \/ handle_open_flight_list
          \/ handle_def_mem \/ handle_def_mem_cut \/ handle_get_mem_section
          \/ handle_get_logger_data \/ handle_unknown

-----------------------------------------------------------------------------
(* lxn-logger.                                                             *)

\* filser_send_command and filser_send_syn: flush, then write.
Send(m) == tty' = <<>> /\ request' = Append(request, m) /\ UNCHANGED <<answer, faults, troubles>>

\* One byte, or one packet with its checksum, out of the tty buffer.
Read == tty' = Tail(tty) /\ UNCHANGED <<request, answer, faults, troubles>>

SynAckWait(g) == goal' = g /\ tries' = MaxTries /\ pc' = "syn"

SendSyn ==
    /\ pc = "syn" /\ Send(Msg("SYN", <<>>)) /\ pc' = "ack"
    /\ UNCHANGED <<device, goal, tries, choice, disk>>

RecvAck ==
    /\ pc = "ack" /\ tty # <<>> /\ Head(tty) = Ack
    /\ Read /\ pc' = goal
    /\ UNCHANGED <<device, goal, tries, choice, disk>>

\* No byte within a tenth of a second: the ACK is lost, or it is late.
NothingYet ==
    /\ tty = <<>> /\ UNCHANGED <<request, answer, tty, faults>>
    /\ \/ Silent /\ UNCHANGED troubles
       \/ ~Silent /\ "late" \in Faults /\ troubles' = troubles \cup {"late"}

\* Another byte, or none: try again, 20 times.
NoAck ==
    /\ pc = "ack"
    /\ \/ tty # <<>> /\ Head(tty) # Ack /\ Read
       \/ NothingYet
    /\ IF tries > 0 THEN tries' = tries - 1 /\ pc' = "syn"
                    ELSE Stop("no filser") /\ UNCHANGED tries
    /\ UNCHANGED <<device, goal, choice, disk>>

\* communicate() of check_mem_settings, after its syn_ack_wait.
CheckMemSettings ==
    /\ pc = "check" /\ Send(Msg("CHECK_MEM_SETTINGS", <<>>)) /\ pc' = "settings"
    /\ UNCHANGED <<device, goal, tries, choice, disk>>

RecvSettings ==
    /\ pc = "settings" /\ tty # <<>> /\ Head(tty).kind = "settings" /\ Read
    /\ SynAckWait("list")
    /\ UNCHANGED <<device, choice, disk>>

OpenFlightList ==
    /\ pc = "list" /\ Send(Msg("READ_FLIGHT_LIST", <<>>)) /\ pc' = "flights"
    /\ flights' = <<>>
    /\ UNCHANGED <<device, goal, tries, wanted, lengths, section, disk>>

\* next_flight: the list ends with an invalid entry or when it is full.
NextFlight ==
    /\ pc = "flights" /\ tty # <<>> /\ Head(tty).kind \in {"flight", "null"} /\ Read
    /\ IF Head(tty).kind = "flight"
       THEN /\ flights' = Append(flights, Head(tty).body)
            /\ pc' = IF Len(flights) + 1 = MaxFlights THEN "prompt" ELSE "flights"
       ELSE /\ pc' = IF flights = <<>> THEN "no flights" ELSE "prompt"
            /\ UNCHANGED flights
    /\ UNCHANGED <<device, goal, tries, wanted, lengths, section, disk>>

ChooseFlight ==
    /\ pc = "prompt" /\ Cardinality(said) < MaxDownloads
    /\ \E n \in DOMAIN flights : wanted' = n
    /\ SynAckWait("def")
    /\ UNCHANGED <<line, device, flights, lengths, section, disk>>

Quit ==
    /\ pc = "prompt" /\ Stop("quit")
    /\ UNCHANGED <<line, device, goal, tries, choice, disk>>

\* seek_mem.
SeekMem ==
    /\ pc = "def"
    /\ Send(Msg("DEF_MEM", <<def_mem_packet(flights[wanted][1]),
                             def_mem_packet(flights[wanted][2])>>))
    /\ pc' = "seek"
    /\ UNCHANGED <<device, goal, tries, choice, disk>>

SeekAck ==
    /\ pc = "seek" /\ tty # <<>> /\ Head(tty) = Ack /\ Read
    /\ pc' = "sections"
    /\ UNCHANGED <<device, goal, tries, choice, disk>>

GetMemSection ==
    /\ pc = "sections" /\ Send(Msg("GET_MEM_SECTION", <<>>)) /\ pc' = "lengths"
    /\ UNCHANGED <<device, goal, tries, choice, disk>>

\* The .lxn file is truncated before the first section is asked for.
RecvMemSection ==
    /\ pc = "lengths" /\ tty # <<>> /\ Head(tty).kind = "sections" /\ Read
    /\ lengths' = Head(tty).body /\ section' = 1
    /\ file' = [file EXCEPT ![wanted] = <<>>]
    /\ pc' = "section"
    /\ UNCHANGED <<device, goal, tries, flights, wanted, igc, said>>

More == section \in DOMAIN lengths /\ lengths[section] # 0

DownloadSection ==
    /\ pc = "section" /\ More
    /\ Send(Msg("READ_LOGGER_DATA", <<section>>)) /\ pc' = "data"
    /\ UNCHANGED <<device, goal, tries, choice, disk>>

\* A section of the expected length has the right checksum and is written;
\* nobody looks at what write() returns.
RecvSection ==
    /\ pc = "data" /\ tty # <<>> /\ Head(tty).kind = "data"
    /\ Head(tty).body[2] - Head(tty).body[1] = lengths[section]
    /\ tty' = Tail(tty) /\ UNCHANGED <<request, answer, faults>>
    /\ \/ /\ file' = [file EXCEPT ![wanted] = Append(@, Head(tty).body)]
          /\ UNCHANGED troubles
       \/ /\ "disk full" \in Faults /\ troubles' = troubles \cup {"disk full"}
          /\ UNCHANGED file
    /\ section' = section + 1 /\ pc' = "section"
    /\ UNCHANGED <<device, goal, tries, flights, wanted, lengths, igc, said>>

\* The read of seek_mem, and the packet reads with their checksum, get
\* something else: the program exits.
Expected == [settings |-> {"settings"}, flights |-> {"flight", "null"}, seek |-> {"ACK"},
             lengths |-> {"sections"}, data |-> {"data"}]

WrongAnswer ==
    /\ pc \in DOMAIN Expected /\ tty # <<>>
    /\ \/ Head(tty).kind \notin Expected[pc]
       \/ /\ pc = "data" /\ Head(tty).kind = "data"
          /\ Head(tty).body[2] - Head(tty).body[1] # lengths[section]
    /\ Read /\ Stop("CRC error")
    /\ UNCHANGED <<device, goal, tries, choice, disk>>

\* MUTANT: seek_mem does not look at the timeout.
SeekGoesOn ==
    /\ pc \in DOMAIN Expected /\ Silent
    /\ pc' = IF pc = "seek" THEN "sections" ELSE "no response"
    /\ UNCHANGED <<line, device, goal, tries, choice, disk>>

\* Nothing comes for 40 seconds.
NoAnswer ==
    /\ pc \in DOMAIN Expected /\ Silent /\ Stop("no response")
    /\ UNCHANGED <<line, device, goal, tries, choice, disk>>

\* The file is closed and cmd_lxn2igc converts it; main() goes on whatever
\* it returns.
ConvertFlight ==
    /\ pc = "section" /\ ~More
    /\ \E result \in {"done", "failed"} : igc' = [igc EXCEPT ![wanted] = result]
    /\ said' = said \cup {wanted}
    /\ pc' = "prompt"
    /\ UNCHANGED <<line, device, goal, tries, choice, file>>

Host == \/ SendSyn \/ RecvAck \/ NoAck \/ CheckMemSettings \/ RecvSettings
        \/ OpenFlightList \/ NextFlight \/ ChooseFlight \/ Quit \/ SeekMem \/ SeekAck
        \/ GetMemSection \/ RecvMemSection \/ DownloadSection \/ RecvSection
        \/ WrongAnswer \/ NoAnswer \/ ConvertFlight

Stopped == {"quit", "no filser", "no flights", "CRC error", "no response"}

Next == Host \/ Device \/ Arrive \/ LineFault

Init == /\ request = <<>> /\ answer = <<>> /\ tty = <<>> /\ faults = 0 /\ troubles = {}
        /\ range = <<0, 0>> /\ blocks = <<>> /\ listed = FALSE /\ alive = TRUE
        /\ pc = "syn" /\ goal = "check" /\ tries = MaxTries
        /\ flights = <<>> /\ wanted = 0 /\ lengths = <<>> /\ section = 0
        /\ file = [n \in 1..MaxFlights |-> <<>>]
        /\ igc = [n \in 1..MaxFlights |-> "none"] /\ said = {}

\* Both programs run on and the line delivers what it does not lose.
Spec == Init /\ [][Next]_vars /\ WF_vars(Host) /\ WF_vars(Device) /\ WF_vars(Arrive)

-----------------------------------------------------------------------------
TypeOK ==
    /\ faults \in 0..MaxFaults /\ troubles \subseteq Faults /\ tries \in 0..MaxTries
    /\ Len(flights) <= MaxFlights /\ wanted \in 0..Len(flights)
    /\ Len(lengths) <= MaxBlocks /\ section \in 0..MaxBlocks + 1
    /\ range \in Nat \X Nat /\ listed \in BOOLEAN /\ alive \in BOOLEAN
    /\ said \subseteq 1..MaxFlights
    /\ pc \in DOMAIN Expected \cup Stopped \cup
              {"syn", "ack", "check", "list", "prompt", "def", "sections", "section"}

\* The ranges of memory one after the other that make up first to last.
Tile(s, first, last) ==
    /\ \A i \in 1..Len(s) : s[i][1] = (IF i = 1 THEN first ELSE s[i - 1][2]) /\ s[i][1] < s[i][2]
    /\ IF s = <<>> THEN first = last ELSE s[Len(s)][2] = last

\* When a download is over and the prompt is back, the .lxn file holds the
\* memory of the flight the user picked from the list, all of it and nothing
\* else: "download flight number 1".
DownloadIsTheFlight ==
    pc = "prompt" /\ wanted # 0
        => Tile(file[wanted], flights[wanted][1], flights[wanted][2])

\* So it is after every fault but these: a message was lost and an ACK late,
\* a DEF_MEM packet was cut, or the disk was full.
FileIsTheFlight ==
    \/ {"lose", "late"} \subseteq troubles \/ {"cut", "disk full"} \cap troubles # {}
    \/ DownloadIsTheFlight

\* What the device would send for its sections is inside the files they
\* name, and the sections follow one another through the range the host
\* asked for, until it, the memory or the table of sections ends.
SectionsCoverRange ==
    LET part == [i \in DOMAIN blocks |->
                   LET a == flight_address(blocks[i].flight) + blocks[i].offset
                   IN <<a, a + blocks[i].length>>]
        full == Len(blocks) = MaxBlocks
    IN /\ \A i \in DOMAIN blocks :
             blocks[i].offset + blocks[i].length <= Lengths[blocks[i].flight]
       /\ pc = "section" /\ range[1] < Min({range[2], MemorySize})
             => /\ blocks # <<>>
                /\ Tile(part, range[1], IF full THEN Last(part)[2]
                                               ELSE Min({range[2], MemorySize}))
                /\ Last(part)[2] <= range[2]

\* On a line that spoils and delays nothing the session does not end in an
\* error, however many flights are downloaded.
CleanLineNeverFails ==
    troubles \subseteq {"disk full"} => pc \notin {"CRC error", "no response"}
=============================================================================
