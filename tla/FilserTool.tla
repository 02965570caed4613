------------------------------ MODULE FilserTool ------------------------------
(***************************************************************************)
(* filsertool (filser-tool.c) and the handlers of fakefilser.c it talks    *)
(* to, with the directory of datadir.c behind them.  A command of the tool *)
(* is a script of exchanges.  tcflush() throws away what has arrived,      *)
(* never what is on the line.  fakefilser may be killed at any point and   *)
(* started again.  Setup, contest class and declaration are written by     *)
(* another program, which is not in the repository.                        *)
(***************************************************************************)
EXTENDS FilserMemory

CONSTANTS Versions,     \* the databases there are
          Default,      \* what a freshly started fakefilser holds
          Chunks,       \* the pieces a write() may cut a file into
          AptBlocks,    \* how many apt files there are besides the state: 4
          Incomplete,   \* versions of the user's directory without apt_state
          Ranges,       \* what the user, or the stack, may name as a range
          MaxTries,     \* tries of syn_ack_wait
          MaxCommands,  \* how many commands the user gives
          Commands,     \* the names of these commands
          Faults,       \* what may go wrong: a subset of the kinds below
          MaxFaults,    \* how often
          MaxRestarts   \* how often fakefilser is started again

ASSUME ToolAssumption ==
    /\ Versions # {} /\ Default \notin Versions /\ Chunks \in Nat \ {0} /\ AptBlocks \in 1..4
    /\ Incomplete \subseteq Versions /\ Ranges \subseteq Nat \X Nat
    /\ MaxTries \in Nat /\ MaxCommands \in Nat /\ MaxFaults \in Nat /\ MaxRestarts \in Nat
    /\ Faults \subseteq {"lose", "damage", "cut", "late", "kill", "disk full"}

\* What the index says of the flights.
FlightRanges == {<<flight_address(i), flight_end(i)>> : i \in Flights}

\* The length of a section has room for every file, and the device reads an
\* address as the tool means it: its first byte is the same as its last.
ASSUME RangesAssumption ==
    /\ \A i \in Flights : Lengths[i] < Worth[3]
    /\ \A r \in Ranges \cup FlightRanges : \A k \in 1..2 : decoded_address(def_mem_packet(r[k])) = r[k]

VARIABLES request,   \* messages on their way to the device
          answer,    \* messages on their way to the tool
          tty,       \* messages in the input queue of the tool's tty
          faults, troubles,  \* how many faults there have been, and of which kinds
          mode,      \* fakefilser: "loop", "dump" of unknown input, "dead"
          restarts,  \* how often it has been started again
          was_70,    \* whether a 0x70 has been received
          range, blocks, listed,  \* as in FilserSession
          memory,    \* flight_info and setup of fakefilser
          files,     \* the data directory: name -> who wrote each piece
          writing,   \* the file datadir_write has open, and for whom
          given,     \* how many commands the user has given
          command,   \* the one at work: its name and its arguments
          script,    \* what is left of it
          pc,        \* where the tool is in the first step of the script
          tries,     \* tries of syn_ack_wait
          flights, lengths, section,  \* flight list, section table, loop variable
          got,       \* what the command has printed or saved
          da4,       \* the output file of read_tp_tsk
          code,      \* how the last command ended
          hope, unsure  \* see DataStore: what was offered and acknowledged

wire == <<request, answer, tty>>
trouble == <<faults, troubles>>
state == <<was_70, range, blocks, listed, memory>>
disk == <<files, writing>>
device == <<mode, restarts, state, disk>>
work == <<flights, lengths, section, got, da4>>
tool == <<given, command, script, pc, tries, work, code>>
promised == <<hope, unsure>>
vars == <<wire, trouble, device, tool, promised>>

\* What a message is and says, and the command it belongs to, which no
\* program can see: an answer is of the command of its request.
Msg(k, b) == [kind |-> k, body |-> b, of |-> 0]
Of(messages, g) == [i \in DOMAIN messages |-> [messages[i] EXCEPT !.of = g]]

\* An ACK is a byte; what it was sent for is noted for the properties.
Ack(what) == Msg("ACK", what)
NoWrite == [name |-> "none", version |-> Default, of |-> 0]

AptFile == <<"apt_0", "apt_1", "apt_2", "apt_3">>
AptFiles == {AptFile[i] : i \in 1..AptBlocks} \cup {"apt_state"}
Files == {"tp_tsk", "contest_class", "extra_data"} \cup AptFiles
Registers == {"flight_info", "setup"}

Whole(v) == [i \in 1..Chunks |-> v]

-----------------------------------------------------------------------------
(* datadir.c.                                                              *)

\* write() of the first k pieces of c into an open file.
Overwritten(f, c, k) == [i \in (1..k) \cup DOMAIN f |-> IF i <= k THEN c[i] ELSE f[i]]

\* MUTANT: the file is opened without O_TRUNC.
NotTruncated(f) == f

\* open() with O_TRUNC.
Truncated(f) == <<>>

\* MUTANT: the length of the file is not looked at.
AnyLength(f) == f # <<>>

\* datadir_read gives a file that has exactly the length asked for.
Readable(f) == Len(f) = Chunks

-----------------------------------------------------------------------------
(* The line.                                                               *)
\* What arrives while nobody has the tty open is lost.
Arrive ==
    /\ answer # <<>> /\ answer' = Tail(answer)
    /\ tty' = IF pc = "idle" THEN tty ELSE Append(tty, Head(answer))
    /\ UNCHANGED <<request, trouble, device, tool, promised>>

\* A SYN or an ACK is a single byte and vanishes; of anything longer a byte
\* vanishes or is changed.
Hurt(k, s) == IF s[1].kind \in {"SYN", "ACK"} /\ k = "lose" THEN Tail(s)
              ELSE <<Msg("damaged", s[1].kind)>> \o Tail(s)

Fault(k) == /\ k \in Faults /\ faults < MaxFaults /\ faults' = faults + 1
            /\ troubles' = troubles \cup {k}

\* A message is hurt when it is the first; so is a packet, which is read
\* with its command, when that is.
LineFault ==
    /\ \/ \E k \in {"lose", "damage"} :
            /\ Fault(k)
            /\ \/ request # <<>> /\ request' = Hurt(k, request) /\ UNCHANGED answer
               \/ answer # <<>> /\ answer' = Hurt(k, answer) /\ UNCHANGED request
       \/ /\ Fault("cut") /\ Len(request) > 1 /\ request[2].kind = "packet"
          /\ request' = [request EXCEPT ![2] = Msg("cut", "packet")] /\ UNCHANGED answer
    /\ UNCHANGED <<tty, device, tool, promised>>

\* With nothing on its way and the device not at work no answer comes.
Silent == /\ answer = <<>> /\ tty = <<>> /\ writing = NoWrite
          /\ request = <<>> \/ mode = "dead"

-----------------------------------------------------------------------------
(* fakefilser.                                                             *)
Serving(n) == /\ mode = "loop" /\ writing = NoWrite /\ Len(request) >= n
           /\ request' = SubSeq(request, n + 1, Len(request))
           /\ UNCHANGED <<tty, trouble, restarts, tool, promised>>

Serve(kind) == Serving(1) /\ request[1].kind = kind

\* A request about one of several things, and one with a packet behind it.
Asked(kind, about) == Serving(1) /\ request[1].kind = kind /\ request[1].body = about
Given(kind, about) == Serving(2) /\ request[1].kind = kind /\ request[1].body = about

Packet == request[2]
Replies(messages) == answer' = answer \o Of(messages, Head(request).of)
Reply(m) == Replies(<<m>>)
Exit == mode' = "dead"

handle_syn == Serve("SYN") /\ Reply(Ack("SYN")) /\ UNCHANGED <<mode, state, disk>>

\* Requests whose answer never changes: the memory settings, the basic data,
\* and the empty memory of an LO4.
FixedAnswer == [CHECK_MEM_SETTINGS |-> "settings", READ_BASIC_DATA |-> "basic", READ_LO4 |-> "zeros"]

handle_fixed ==
    \E k \in DOMAIN FixedAnswer :
        Serve(k) /\ Reply(Msg(FixedAnswer[k], 0)) /\ UNCHANGED <<mode, state, disk>>

handle_clear_lo4 == Serve("CLEAR_LO4") /\ Reply(Ack("CLEAR_LO4")) /\ UNCHANGED <<mode, state, disk>>

\* handle_get_flight_info and handle_read_setup.
handle_read_register ==
    \E r \in Registers :
        Asked("READ", r) /\ Reply(Msg("value", memory[r])) /\ UNCHANGED <<mode, state, disk>>

\* handle_write_flight_info and handle_write_setup: a packet that is not
\* right ends the program.
handle_write_register ==
    \E r \in Registers :
        /\ Given("WRITE", r)
        /\ IF Packet.kind = "packet"
           THEN memory' = [memory EXCEPT ![r] = Packet.body] /\ Reply(Ack(r)) /\ UNCHANGED mode
           ELSE Exit /\ UNCHANGED <<memory, answer>>
        /\ UNCHANGED <<was_70, range, blocks, listed, disk>>

\* handle_read_tp_tsk, handle_read_contest_class, handle_get_extra_data:
\* upload_from_file ends the program when there is nothing to read.
upload_from_file ==
    \E n \in Files \ AptFiles :
        /\ Asked("READ", n)
        /\ IF Readable(files[n]) THEN Reply(Msg("value", files[n])) /\ UNCHANGED mode
                                 ELSE Exit /\ UNCHANGED answer
        /\ UNCHANGED <<state, disk>>

\* download_to_file: the packet is read, and the file opened and truncated.
StartWrite(n) ==
    /\ Given("WRITE", n)
    /\ IF Packet.kind = "packet"
       THEN /\ files' = [files EXCEPT ![n] = Truncated(@)]
            /\ writing' = [name |-> n, version |-> Packet.body, of |-> Packet.of]
            /\ UNCHANGED mode
       ELSE Exit /\ UNCHANGED disk
    /\ UNCHANGED <<answer, state>>

\* handle_write_tp_tsk, handle_write_contest_class and handle_apt_state.
handle_write_file == \E n \in {"tp_tsk", "contest_class", "apt_state"} : StartWrite(n)

\* FILSER_APT_1 to 4 after a 0x70: handle_apt_upload.
handle_apt_upload == was_70 /\ \E i \in 1..AptBlocks : StartWrite(AptFile[i])

\* The same without a 0x70 asks for the block, and the answer is made of
\* what is on the stack.  Its first byte stands for all of it.
handle_apt_download ==
    /\ ~was_70
    /\ \E i \in 1..AptBlocks : Asked("WRITE", AptFile[i])
    /\ Reply(Msg("garbage", 0))
    /\ UNCHANGED <<mode, state, disk>>

handle_70 == Serve("0x70") /\ was_70' = TRUE
             /\ UNCHANGED <<answer, mode, range, blocks, listed, memory, disk>>

\* write(), and the ACK; or a short write, which ends the program.
FinishWrite ==
    /\ writing # NoWrite /\ mode = "loop"
    /\ LET Wrote(k) == files' = [files EXCEPT ![writing.name] = Overwritten(@, Whole(writing.version), k)]
       IN \/ /\ Wrote(Chunks) /\ answer' = answer \o Of(<<Ack(writing.name)>>, writing.of)
             /\ UNCHANGED <<trouble, mode>>
          \/ Fault("disk full") /\ Exit /\ UNCHANGED answer
             /\ \E k \in 0..Chunks - 1 : Wrote(k)
    /\ writing' = NoWrite
    /\ UNCHANGED <<request, tty, restarts, state, tool, promised>>

\* handle_open_flight_list.
handle_open_flight_list ==
    /\ Serve("READ_FLIGHT_LIST")
    /\ listed' = TRUE /\ blocks' = <<>>
    /\ Replies([i \in Flights |-> Msg("flight", <<flight_address(i), flight_end(i)>>)]
               \o <<Msg("null", 0)>>)
    /\ UNCHANGED <<mode, was_70, range, memory, disk>>

\* handle_def_mem: a packet that lacks a byte is used as it is on the stack;
\* one that has them all, but wrong, ends the program.
handle_def_mem ==
    /\ Given("DEF_MEM", 0)
    /\ \/ Packet.kind = "packet" /\ Reply(Ack("DEF_MEM")) /\ UNCHANGED mode
          /\ range' = <<decoded_address(Packet.body[1]), decoded_address(Packet.body[2])>>
       \/ Packet.kind # "packet" /\ range' \in Ranges /\ Reply(Ack("DEF_MEM")) /\ UNCHANGED mode
       \/ Packet.kind # "packet" /\ Exit /\ UNCHANGED <<answer, range>>
    /\ UNCHANGED <<was_70, blocks, listed, memory, disk>>

handle_get_mem_section ==
    /\ Serve("GET_MEM_SECTION")
    /\ blocks' = IF listed THEN mem_blocks(range[1], range[2]) ELSE <<>>
    /\ Reply(Msg("sections", section_lengths(blocks')))
    /\ UNCHANGED <<mode, was_70, range, listed, memory, disk>>

handle_get_logger_data ==
    /\ Serve("READ_LOGGER_DATA")
    /\ LET i == Head(request).body
           a == flight_address(blocks[i].flight) + blocks[i].offset
       IN Reply(Msg("data", IF i \in DOMAIN blocks THEN <<a, a + blocks[i].length>> ELSE <<0, 0>>))
    /\ UNCHANGED <<mode, state, disk>>

\* A first byte that is none of the protocol ends the program; an unknown
\* request has the input dumped.
handle_unknown ==
    /\ \E k \in {"damaged", "packet", "cut"} : Serve(k)
    /\ mode' \in {"dump", "dead"}
    /\ UNCHANGED <<answer, state, disk>>

\* dump_timeout: until nothing has come for two seconds.
dump_timeout ==
    /\ mode = "dump"
    /\ \/ request # <<>> /\ request' = Tail(request) /\ UNCHANGED mode
       \/ request = <<>> /\ mode' = "loop" /\ UNCHANGED request
    /\ UNCHANGED <<answer, tty, trouble, restarts, state, disk, tool, promised>>

Device == \/ handle_syn \/ handle_fixed \/ handle_clear_lo4 \/ handle_read_register
          \/ handle_write_register \/ upload_from_file \/ handle_write_file
          \/ handle_apt_upload \/ handle_apt_download \/ handle_70 \/ FinishWrite
          \/ handle_open_flight_list \/ handle_def_mem \/ handle_get_mem_section
          \/ handle_get_logger_data \/ handle_unknown \/ dump_timeout

\* The program is killed, or the computer it runs on goes down.
Kill ==
    /\ mode # "dead" /\ Fault("kill") /\ Exit /\ writing' = NoWrite
    /\ UNCHANGED <<wire, restarts, state, files, tool, promised>>

\* default_filser: only the files are what they were.
Restart ==
    /\ mode = "dead" /\ restarts < MaxRestarts /\ restarts' = restarts + 1
    /\ mode' = "loop" /\ request' = <<>>
    /\ was_70' = FALSE /\ range' = <<0, 0>> /\ blocks' = <<>> /\ listed' = FALSE
    /\ memory' = [r \in Registers |-> Default]
    /\ UNCHANGED <<answer, tty, trouble, disk, tool, promised>>

-----------------------------------------------------------------------------
(* The commands of filsertool, as the exchanges they are made of.          *)
Syn == [op |-> "syn"]
Ask(kind, about, wanted) == [op |-> "ask", message |-> Msg(kind, about), expect |-> wanted]
Put(kind, about, packet) == [op |-> "put", message |-> Msg(kind, about), packet |-> packet]
Do(what) == [op |-> what]

communicate(kind, about, wanted) == <<Syn, Ask(kind, about, wanted)>>
filser_send(about, version) == <<Syn, Put("WRITE", about, version)>>
check_mem_settings == communicate("CHECK_MEM_SETTINGS", 0, "settings")

\* raw reads standard input through a device that is not there.
raw == check_mem_settings \o <<Do("crash")>>
flight_list == check_mem_settings \o <<Syn, Do("list")>>
get_basic_data == check_mem_settings \o <<[Ask("READ_BASIC_DATA", 0, "basic") EXCEPT !.op = "most"]>>
get_flight_info == check_mem_settings \o <<[Ask("READ", "flight_info", "value") EXCEPT !.op = "most"]>>
\* MUTANT: the start address is copied twice.
StartTwice(r) == <<Put("DEF_MEM", 0, <<def_mem_packet(r[1]), def_mem_packet(r[1])>>)>>

seek_mem_x(r) == <<Put("DEF_MEM", 0, <<def_mem_packet(r[1]), def_mem_packet(r[2])>>)>>
get_mem_section == <<Ask("GET_MEM_SECTION", 0, "sections")>>
cmd_mem_section(r) == check_mem_settings \o <<Syn>> \o seek_mem_x(r) \o get_mem_section
cmd_raw_mem(r) == cmd_mem_section(r) \o <<Do("sections")>>
download_flight == check_mem_settings \o <<Syn, Syn, Do("list"), Do("seek")>>
                   \o get_mem_section \o <<Do("sections")>>
cmd_read_tp_tsk == communicate("READ", "tp_tsk", "value") \o <<Do("save")>>
cmd_write_tp_tsk(v) == filser_send("tp_tsk", v)

\* The first n blocks of version v, a SYN before each.
send_blocks(n, v) ==
    [i \in 1..2 * n |-> IF i % 2 = 1 THEN Syn ELSE Put("WRITE", AptFile[i \div 2], v)]

\* MUTANT: the last block is left out.
OneBlockLess(v) ==
    <<Syn, [Ask("0x70", 0, "nothing") EXCEPT !.op = "tell"]>>
    \o send_blocks(AptBlocks - 1, v)
    \o (IF v \in Incomplete THEN <<Do("crash")>> ELSE filser_send("apt_state", v))

\* A file that cannot be read gives a null pointer, and filser_write_packet
\* has an assertion against that.
cmd_write_apt(v) ==
    <<Syn, [Ask("0x70", 0, "nothing") EXCEPT !.op = "tell"]>>
    \o send_blocks(AptBlocks, v)
    \o (IF v \in Incomplete THEN <<Do("crash")>> ELSE filser_send("apt_state", v))

Plain == [raw |-> raw, list |-> flight_list, basic |-> get_basic_data, flight |-> get_flight_info,
          download |-> download_flight, read_tp_tsk |-> cmd_read_tp_tsk]

\* What other programs ask of a device.
ForeignWrites(v) == {filser_send(n, v) : n \in Registers \cup {"contest_class"}}
ForeignReads == {communicate("READ", n, "value") : n \in {"setup", "contest_class", "extra_data"}}
                \cup {communicate("READ_LO4", 0, "zeros"), communicate("CLEAR_LO4", 0, "ACK")}

-----------------------------------------------------------------------------
(* filsertool at work.                                                     *)
Call(name, arguments, exchanges) ==
    /\ command' = [name |-> name, arguments |-> arguments] /\ script' = exchanges

\* main().
Begin ==
    /\ pc = "idle" /\ given < MaxCommands /\ given' = given + 1
    /\ \/ \E n \in Commands \cap DOMAIN Plain : Call(n, <<>>, Plain[n])
       \/ \E r \in Ranges : \/ "mem_section" \in Commands /\ Call("mem_section", r, cmd_mem_section(r))
                            \/ "raw_mem" \in Commands /\ Call("raw_mem", r, cmd_raw_mem(r))
       \/ \E v \in Versions : \/ "write_tp_tsk" \in Commands /\ Call("write_tp_tsk", <<v>>, cmd_write_tp_tsk(v))
                              \/ "write_apt" \in Commands /\ Call("write_apt", <<v>>, cmd_write_apt(v))
                              \/ "write" \in Commands /\ \E s \in ForeignWrites(v) : Call("write", <<v>>, s)
       \/ "read" \in Commands /\ \E s \in ForeignReads : Call("read", <<>>, s)
    /\ pc' = "step" /\ code' = "none" /\ got' = <<>>
    /\ flights' = <<>> /\ lengths' = <<>> /\ section' = 0
    /\ UNCHANGED <<wire, trouble, device, tries, da4, promised>>

\* The tty is closed, and what comes afterwards is lost.
Finish(how) == pc' = "idle" /\ code' = how /\ script' = <<>> /\ tty' = <<>>

At(op) == pc = "step" /\ script # <<>> /\ Head(script).op = op
Done == script' = Tail(script) /\ pc' = "step"

\* tcflush and write.
FlushAndWrite(messages) == tty' = <<>> /\ request' = request \o Of(messages, given)

Read == tty # <<>> /\ tty' = Tail(tty)

SendSyn ==
    /\ \/ At("syn") /\ tries' = MaxTries
       \/ pc = "syn" /\ UNCHANGED tries
    /\ FlushAndWrite(<<Msg("SYN", 0)>>) /\ pc' = "ack"
    /\ UNCHANGED <<answer, trouble, device, given, command, script, work, code, promised>>

\* An answer to an earlier command is taken for one to this, or a byte for an
\* ACK of what it was not sent for, or it was no ACK.
Misread(m, what) == m.kind = "garbage" \/ m.of # given \/ (m.kind = "ACK" /\ m.body # what)
Notice(m, what) == troubles' = IF Misread(m, what) THEN troubles \cup {"misread"} ELSE troubles

RecvAck ==
    /\ pc = "ack" /\ Read /\ Head(tty).kind \in {"ACK", "garbage"} /\ Done
    /\ UNCHANGED <<request, answer, trouble, device, given, command, tries, work, code, promised>>

\* Nothing for a tenth of a second: the ACK is lost, or it is late.
NothingYet ==
    /\ tty = <<>> /\ UNCHANGED tty
    /\ \/ Silent /\ UNCHANGED trouble
       \/ ~Silent /\ Fault("late")

\* MUTANT: the tries are not counted.
TryForever ==
    /\ pc = "ack"
    /\ \/ Read /\ Head(tty).kind # "ACK" /\ UNCHANGED trouble
       \/ NothingYet
    /\ pc' = "syn"
    /\ UNCHANGED <<request, answer, device, given, command, script, tries, work, code, promised>>

\* Another byte, or none: try again, 20 times.
NoAck ==
    /\ pc = "ack"
    /\ \/ Read /\ Head(tty).kind # "ACK" /\ UNCHANGED trouble
       \/ NothingYet
    /\ IF tries > 0 THEN tries' = tries - 1 /\ pc' = "syn" /\ UNCHANGED <<script, code>>
                    ELSE pc' = "idle" /\ code' = "failed" /\ script' = <<>> /\ UNCHANGED tries
    /\ UNCHANGED <<request, answer, device, given, command, work, promised>>

\* filser_write_cmd by itself.  The tcflush() of the next SYN follows at
\* once, and may throw away what has not been sent yet, or a part of it.
Tell ==
    /\ At("tell") /\ Done
    /\ request' \in {request \o Of(<<m>>, given) : m \in {Head(script).message, Msg("damaged", "0x70")}} \cup {request}
    /\ UNCHANGED <<answer, tty, trouble, device, given, command, tries, work, code, promised>>

Content(n, v) == IF n \in Files THEN Whole(v) ELSE v
Stores == Head(script).op = "put" /\ Head(script).message.kind = "WRITE"

\* tcflush, then the command and its packet.
Send ==
    /\ At("ask") \/ At("most") \/ At("put")
    /\ LET step == Head(script) IN
       /\ FlushAndWrite(IF step.op = "put" THEN <<step.message, Msg("packet", step.packet)>>
                                   ELSE <<step.message>>)
       /\ IF Stores
          THEN /\ hope' = [hope EXCEPT ![step.message.body] =
                             @ \cup {Content(step.message.body, step.packet)}]
               /\ unsure' = unsure \cup {step.message.body}
          ELSE UNCHANGED promised
    /\ pc' = "wait"
    /\ UNCHANGED <<answer, trouble, device, given, command, script, tries, work, code>>

Expected == IF Head(script).op = "put" THEN "ACK" ELSE Head(script).expect
Subject == IF Stores THEN Head(script).message.body ELSE Head(script).message.kind

\* What was expected comes: a packet with its checksum, or an ACK.
Receive ==
    /\ pc = "wait" /\ Read
    /\ LET m == Head(tty) IN
       /\ m.kind = Expected \/ (m.kind = "garbage" /\ Expected = "ACK")
       /\ Notice(m, Subject)
       /\ lengths' = IF m.kind = "sections" THEN m.body ELSE lengths
       /\ got' = IF m.kind = "value" THEN <<m.body>> ELSE got
       /\ IF Stores /\ ~Misread(m, Subject)
          THEN /\ hope' = [hope EXCEPT ![Subject] = {Content(Subject, Head(script).packet)}]
               /\ unsure' = unsure \ {Subject}
          ELSE UNCHANGED promised
    /\ Done
    /\ UNCHANGED <<request, answer, faults, device, given, command, tries, flights, section, da4, code>>

\* Something else comes.  Only "basic" prints whatever it is.
WrongAnswer ==
    /\ pc = "wait" /\ tty # <<>> /\ Head(tty).kind # Expected
    /\ Finish(IF Expected = "basic" THEN "ok" ELSE "failed")
    /\ UNCHANGED <<request, answer, trouble, device, given, command, tries, work, promised>>

\* The time is up.  filser_read_most takes no bytes for an answer: "basic"
\* prints none, and "flight" prints what is on the stack.
NoAnswer ==
    /\ pc \in {"wait", "flights", "data"} /\ Silent
    /\ Finish(IF pc = "wait" /\ Head(script).op = "most" THEN "ok" ELSE "failed")
    /\ UNCHANGED <<request, answer, trouble, device, given, command, tries, work, promised>>

Crash ==
    /\ At("crash") /\ Finish("aborted")
    /\ UNCHANGED <<request, answer, trouble, device, given, command, tries, work, promised>>

open_flight_list ==
    /\ At("list") /\ FlushAndWrite(<<Msg("READ_FLIGHT_LIST", 0)>>) /\ pc' = "flights"
    /\ UNCHANGED <<answer, trouble, device, given, command, script, tries, work, code, promised>>

next_flight ==
    /\ pc = "flights" /\ tty # <<>>
    /\ CASE Head(tty).kind = "flight" -> /\ flights' = Append(flights, Head(tty).body)
                                         /\ Read /\ UNCHANGED <<script, pc, code>>
         [] Head(tty).kind = "null" -> Read /\ Done /\ UNCHANGED <<flights, code>>
         [] OTHER -> Finish("failed") /\ UNCHANGED flights
    /\ UNCHANGED <<request, answer, trouble, device, given, command, tries, lengths, section, got, da4, promised>>

\* The flight before the last one is sought; there may be none.
seek_mem ==
    /\ At("seek")
    /\ \E r \in IF Len(flights) > 1 THEN {flights[Len(flights) - 1]} ELSE Ranges :
          script' = seek_mem_x(r) \o Tail(script)
    /\ UNCHANGED <<wire, trouble, device, given, command, pc, tries, work, code, promised>>

More == section \in DOMAIN lengths /\ lengths[section] # 0

download_section ==
    \/ /\ At("sections") /\ section' = 1 /\ pc' = "section"
       /\ UNCHANGED <<wire, script, got, code>>
       /\ UNCHANGED <<trouble, device, given, command, tries, flights, lengths, da4, promised>>
    \/ /\ pc = "section" /\ More
       /\ FlushAndWrite(<<Msg("READ_LOGGER_DATA", section)>>) /\ pc' = "data"
       /\ UNCHANGED <<answer, script, section, got, code>>
       /\ UNCHANGED <<trouble, device, given, command, tries, flights, lengths, da4, promised>>
    \/ /\ pc = "section" /\ ~More /\ Done
       /\ UNCHANGED <<wire, section, got, code>>
       /\ UNCHANGED <<trouble, device, given, command, tries, flights, lengths, da4, promised>>

\* The section is printed, or saved without a look at what write() returns.
SaveSection ==
    /\ pc = "data" /\ tty # <<>>
    /\ IF Head(tty).kind = "data" /\ Head(tty).body[2] - Head(tty).body[1] = lengths[section]
       THEN /\ Read /\ section' = section + 1 /\ pc' = "section" /\ UNCHANGED <<script, code>>
            /\ \/ got' = Append(got, Head(tty).body) /\ Notice(Head(tty), "data") /\ UNCHANGED faults
               \/ command.name = "download" /\ Fault("disk full") /\ UNCHANGED got
       ELSE Finish("failed") /\ UNCHANGED <<section, got, trouble>>
    /\ UNCHANGED <<request, answer, device, given, command, tries, flights, lengths, da4, promised>>

\* The output file of read_tp_tsk is not truncated, and nobody looks at
\* what write() returns.
SaveDatabase ==
    /\ At("save") /\ Done
    /\ \/ da4' = Overwritten(da4, got[1], Chunks) /\ UNCHANGED trouble
       \/ Fault("disk full") /\ \E k \in 0..Chunks - 1 : da4' = Overwritten(da4, got[1], k)
    /\ UNCHANGED <<wire, device, given, command, tries, flights, lengths, section, got, code, promised>>

Return ==
    /\ pc = "step" /\ script = <<>> /\ Finish("ok")
    /\ UNCHANGED <<request, answer, trouble, device, given, command, tries, work, promised>>

Tool == \/ SendSyn \/ RecvAck \/ NoAck \/ Tell \/ Send \/ Receive \/ WrongAnswer \/ NoAnswer
        \/ Crash \/ open_flight_list \/ next_flight \/ seek_mem \/ download_section
        \/ SaveSection \/ SaveDatabase \/ Return

Next == Begin \/ Tool \/ Device \/ Arrive \/ LineFault \/ Kill \/ Restart

\* Everything is new; or the directory holds a database in every file, the
\* flights have been listed, and the .da4 file is there, and longer.
Init == /\ request = <<>> /\ answer = <<>> /\ tty = <<>>
        /\ faults = 0 /\ troubles = {} /\ mode = "loop" /\ restarts = 0
        /\ was_70 = FALSE /\ range = <<0, 0>> /\ blocks = <<>>
        /\ memory = [r \in Registers |-> Default] /\ writing = NoWrite
        /\ LET old == CHOOSE v \in Versions : TRUE IN
           \/ files = [n \in Files |-> <<>>] /\ da4 = <<>> /\ listed = FALSE
           \/ files = [n \in Files |-> Whole(old)] /\ da4 = [i \in 1..Chunks + 1 |-> old]
              /\ listed = TRUE
        /\ given = 0 /\ command = [name |-> "none", arguments |-> <<>>] /\ script = <<>>
        /\ pc = "idle" /\ tries = 0 /\ flights = <<>> /\ lengths = <<>> /\ section = 0
        /\ got = <<>> /\ code = "none" /\ unsure = {}
        /\ hope = [n \in Files \cup Registers |->
                     IF n \in Registers THEN {Default} ELSE {files[n]} \ {<<>>}]

\* The programs run on and the line delivers; nobody has to type a command,
\* to kill a program or to start it again.
Spec == Init /\ [][Next]_vars
        /\ WF_vars(Tool) /\ WF_vars(Device) /\ WF_vars(Arrive)

-----------------------------------------------------------------------------
TypeOK ==
    /\ faults \in 0..MaxFaults /\ troubles \subseteq Faults \cup {"misread"} /\ restarts \in 0..MaxRestarts
    /\ mode \in {"loop", "dump", "dead"} /\ was_70 \in BOOLEAN /\ listed \in BOOLEAN
    /\ DOMAIN files = Files /\ \A n \in Files : Len(files[n]) \in 0..Chunks
    /\ given \in 0..MaxCommands /\ tries \in 0..MaxTries /\ unsure \subseteq Files \cup Registers
    /\ pc \in {"idle", "step", "syn", "ack", "wait", "flights", "section", "data"}
    /\ code \in {"none", "ok", "failed", "aborted"}

\* The directory is a register for each of its files: killed, short of disk
\* space, or on a line that spoils a message, fakefilser never leaves a file
\* that reads as something nobody wrote, a mixture of two databases in
\* particular, nor loses one whose write the tool has seen acknowledged.
Store == INSTANCE DataStore WITH
            Names <- Files, Contents <- {Whole(v) : v \in Versions}, Nothing <- <<>>,
            kept <- [n \in Files |-> IF Readable(files[n]) THEN files[n] ELSE <<>>],
            hope <- [n \in Files |-> hope[n]], unsure <- unsure \cap Files
FilesAreRegisters == Store!Spec

\* What a read brings is what was last acknowledged, or offered since, or, of
\* what is not in a file, the default of a device that was restarted; so is
\* the .da4 file of a read_tp_tsk that says it succeeded, if the disk was not
\* full.  The answer to an earlier command, which nothing tells from that to
\* this one, is excepted.
ReadIsLastWrite ==
    /\ pc = "wait" /\ tty # <<>> /\ Expected = "value" /\ ~Misread(Head(tty), Subject) /\ Head(tty).kind = "value"
         => LET n == Head(script).message.body IN
            \/ Head(tty).body \in hope[n]
            \/ n \in Registers /\ restarts > 0 /\ Head(tty).body = Default
    /\ pc = "idle" /\ command.name = "read_tp_tsk" /\ code = "ok" /\ {"disk full", "misread"} \cap troubles = {}
         => SubSeq(da4, 1, Chunks) \in hope["tp_tsk"]

\* A write_apt that says it succeeded has replaced every block and the state,
\* and none is of another upload, unless what was no ACK to it was taken for one.
AptIsWhole ==
    pc = "idle" /\ command.name = "write_apt" /\ code = "ok" /\ "misread" \notin troubles
        => \A n \in AptFiles : files[n] = Whole(command.arguments[1])

\* The ranges of memory one after the other that make up first to last.
Tile(s, first, last) ==
    /\ \A i \in 1..Len(s) : s[i][1] = (IF i = 1 THEN first ELSE s[i - 1][2]) /\ s[i][1] < s[i][2]
    /\ IF s = <<>> THEN first >= last ELSE s[Len(s)][2] = last

\* What raw_mem prints, and download saves, is the memory from the first
\* address to the last, as far as the table of sections goes, when the device
\* has listed its flights before.
MemoryIsTheRange ==
    LET asked == IF command.name = "raw_mem" THEN command.arguments ELSE flights[Len(flights) - 1]
        dumped == command.name = "raw_mem" \/ (command.name = "download" /\ Len(flights) > 1)
    IN pc = "idle" /\ code = "ok" /\ dumped /\ listed /\ {"damage", "cut", "misread", "disk full"} \cap troubles = {}
       => IF Len(got) = MaxBlocks
          THEN Tile(got, asked[1], Last(got)[2]) /\ Last(got)[2] <= asked[2]
          ELSE Tile(got, asked[1], Min({asked[2], Max({asked[1], MemorySize})}))

\* Every command comes to an end, whatever happens to the device.
EveryCommandEnds == pc # "idle" ~> pc = "idle"
=============================================================================
