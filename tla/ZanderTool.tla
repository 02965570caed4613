------------------------------- MODULE ZanderTool -------------------------------
(***************************************************************************)
(* Programs one after the other at one Zander device: zander-logger        *)
(* (ZanderSession), zander-tool (zander-tool.c), and a program that uses   *)
(* the writing functions of zander-protocol.c; with the handlers of        *)
(* fakezander for them and its data directory.  Nobody waits for the end   *)
(* of a write: the next program may start while it is read.                *)
(***************************************************************************)
EXTENDS ZanderSession

CONSTANTS Chunks,      \* the pieces of a personal_data or a task
          RawInputs,   \* what the user gives to "raw": requests without an argument
          Programs,    \* how many programs are started
          Versions     \* how often personal data or a task is written

ASSUME ToolAssumption ==
    /\ Chunks \in Nat \ {0} /\ Programs \in Nat /\ Versions \in Nat
    /\ RawInputs \subseteq Seq({"READ_SERIAL", "READ_LI_BATTERY", "READ_9V_BATTERY",
                                "READ_PERSONAL_DATA", "READ_TASK"})

VARIABLES command,  \* the command of zander-tool
          script,   \* the requests it has still to send
          shown,    \* the answers it has read
          started,  \* how many programs have been started
          files,    \* fakezander's personal_data and task, or the logger's
          taking,   \* download_to_file: the file, and what has come for it
          last,     \* what was written last, for the properties
          spoilt    \* whether a byte of a write was lost, for the properties

program == <<command, script, shown, started>>
store == <<files, taking, last, spoilt>>
allvars == <<vars, program, store>>

Names == {"personal_data", "task"}

\* Each piece of each version is a number of its own; zeros are another, and
\* so is a command that was taken for data.
Whole(v) == [i \in 1..Chunks |-> v * Chunks + i]
Zero == 0
Foreign == -1

Idle == [name |-> "none", data |-> <<>>]

Cmd(c) == [cmd |-> c]
Data(v) == [i \in 1..Chunks |-> [cmd |-> "data", piece |-> Whole(v)[i]]]

ReadCmd == [personal_data |-> "READ_PERSONAL_DATA", task |-> "READ_TASK"]
WriteCmd == [personal_data |-> "WRITE_PERSONAL_DATA", task |-> "WRITE_TASK"]

-----------------------------------------------------------------------------
(* The device.  Of the logger nothing is known but what it is asked.       *)
Head1(c) == alive /\ taking = Idle /\ request # <<>> /\ Head(request).cmd = c
Exits == Answer(<<>>) /\ alive' = FALSE

\* handle_read_li_battery; fakezander knows no READ_9V_BATTERY.
handle_read_battery ==
    /\ \/ Head1("READ_LI_BATTERY") /\ Answer(<<Byte("li", 0)>>) /\ UNCHANGED alive
       \/ Head1("READ_9V_BATTERY") /\ IF device = "logger" THEN Answer(<<Byte("9v", 0)>>) /\ UNCHANGED alive
                                                           ELSE Exits
    /\ UNCHANGED <<program, store>>

\* The fixed head of the answer to READ_TASK; personal data has none.
HeadOf(n) == IF n = "task" THEN <<Byte("task head", 0)>> ELSE <<>>

\* handle_read_personal_data and handle_read_task: fakezander exits when
\* upload_from_file has no file of the right length, after the head.
handle_read ==
    /\ \E n \in Names :
         /\ Head1(ReadCmd[n])
         /\ IF Len(files[n]) = Chunks
            THEN Answer(HeadOf(n) \o [i \in 1..Chunks |-> Byte(n, files[n][i])]) /\ UNCHANGED alive
            ELSE Answer(HeadOf(n)) /\ alive' = FALSE
    /\ UNCHANGED <<program, store>>

\* handle_write_personal_data and handle_write_task begin to read.
handle_write ==
    /\ \E n \in Names : Head1(WriteCmd[n]) /\ taking' = [name |-> n, data |-> <<>>]
    /\ Answer(<<>>) /\ UNCHANGED <<alive, program, files, last, spoilt>>

\* datadir_write of data; a full disk leaves a part, and fakezander exits.
Store(n, data) ==
    /\ taking' = Idle
    /\ \/ files' = [files EXCEPT ![n] = data] /\ UNCHANGED alive
       \/ device = "fakezander" /\ alive' = FALSE
          /\ \E k \in 0..Chunks - 1 : files' = [files EXCEPT ![n] = SubSeq(data, 1, k)]
    /\ UNCHANGED <<device, wire, lost, host, program, last, spoilt>>

\* What download_to_file takes for a piece: a command is one, too.
PieceOf(r) == IF r.cmd = "data" THEN r.piece ELSE Foreign

\* A round of the loop of download_to_file.  The arguments of a command that
\* was taken for data are commands next, and end fakezander.
TakePiece ==
    /\ taking.name = "personal_data" /\ alive /\ request # <<>> /\ Len(taking.data) < Chunks
    /\ taking' = [taking EXCEPT !.data = Append(@, PieceOf(Head(request)))]
    /\ request' = Tail(request) /\ alive' = (device = "logger" \/ Head(request).cmd # "READ_MEMORY")
    /\ UNCHANGED <<device, wire, lost, host, program, files, last, spoilt>>

\* MUTANT: the loop reads once.
StoreAtOnce ==
    /\ taking.name = "personal_data" /\ alive /\ taking.data # <<>>
    /\ Store("personal_data", taking.data \o [i \in 1..Chunks - Len(taking.data) |-> Zero])
    /\ UNCHANGED request

StoreAll ==
    /\ taking.name = "personal_data" /\ alive /\ Len(taking.data) = Chunks
    /\ Store("personal_data", taking.data) /\ UNCHANGED request

\* With "pad" there is one read(), and zeros for what it did not bring.  The
\* logger takes all of its task.
StoreTask ==
    /\ taking.name = "task" /\ alive
    /\ \E k \in 0..Chunks :
         /\ k <= Len(request) /\ \A i \in 1..k : request[i].cmd = "data"
         /\ device = "logger" => k = Chunks
         /\ Store("task", [i \in 1..Chunks |-> IF i <= k THEN PieceOf(request[i]) ELSE Zero])
         /\ request' = SubSeq(request, k + 1, Len(request))

\* A byte that is no command; the bytes of data are none.
handle_unknown ==
    /\ device = "fakezander" /\ \E c \in {"data", "address"} : Head1(c)
    /\ Exits /\ UNCHANGED <<program, store>>

\* The logger passes over it.
LoggerIgnores ==
    /\ device = "logger" /\ \E c \in {"data", "address"} : Head1(c)
    /\ Answer(<<>>) /\ UNCHANGED <<alive, program, store>>

\* A single byte of a request is lost.  (FakeShortRead has what becomes of
\* a READ_MEMORY that lacks one.)
LoseRequest ==
    /\ lost < MaxLost /\ lost' = lost + 1
    /\ \E i \in 1..Len(request) :
         /\ request[i].cmd # "READ_MEMORY" /\ request' = RemoveAt(request, i)
         /\ spoilt' = (spoilt \/ request[i].cmd \in {"data"} \cup {WriteCmd[n] : n \in Names})
    /\ UNCHANGED <<device, alive, wire, host, program, files, taking, last>>

-----------------------------------------------------------------------------
(* zander-tool: what each command asks, and how many bytes it reads.       *)
Request(c, n) == [items |-> <<Cmd(c)>>, bytes |-> n]
zander_read_serial == Request("READ_SERIAL", 1)
zander_read_personal_data == Request("READ_PERSONAL_DATA", Chunks)
zander_read_li_battery == Request("READ_LI_BATTERY", 1)
zander_read_9v_battery == Request("READ_9V_BATTERY", 1)
zander_read_task == Request("READ_TASK", Chunks + 1)
zander_flight_list == [items |-> <<[cmd |-> "READ_MEMORY", start |-> ListBase, length |-> ListLength]>>,
                       bytes |-> ListLength]

cmd_info == <<zander_read_serial>>
cmd_read_personal_data == <<zander_read_personal_data>>
cmd_battery == <<zander_read_serial, zander_read_li_battery, zander_read_9v_battery>>
cmd_show_task == <<zander_read_serial, zander_read_task>>
cmd_list == <<zander_read_serial, zander_flight_list>>
cmd_raw(r) == <<zander_read_serial, [items |-> [i \in 1..Len(r) |-> Cmd(r[i])], bytes |-> 0]>>

Commands == [info |-> cmd_info, personal_data |-> cmd_read_personal_data, battery |-> cmd_battery,
             show_task |-> cmd_show_task, list |-> cmd_list]

\* A program is started.  What came while nobody had the tty open is gone.
Start ==
    /\ pc = "shell" /\ started < Programs /\ started' = started + 1
    /\ wire' = <<>> /\ want' = 0 /\ got' = <<>> /\ shown' = <<>>
    /\ UNCHANGED <<device, alive, lost, wanted, asked, file, said, files, taking, spoilt>>

StartLogger == Start /\ pc' = "start" /\ command' = "none" /\ script' = <<>> /\ UNCHANGED <<request, last>>

StartTool ==
    /\ Start /\ pc' = "ask" /\ UNCHANGED <<request, last>>
    /\ \/ \E c \in DOMAIN Commands : command' = c /\ script' = Commands[c]
       \/ \E r \in RawInputs : command' = "raw" /\ script' = cmd_raw(r)

\* zander_write_personal_data, which does not wait for anything, and its like
\* for a task; zander_write_memory, which sends no command at all.
StartWriter ==
    /\ Start /\ pc' = "quit" /\ command' = "write" /\ script' = <<>>
    /\ \/ \E n \in Names : last[n] < Versions
            /\ last' = [last EXCEPT ![n] = @ + 1]
            /\ request' = request \o <<Cmd(WriteCmd[n])>> \o Data(last'[n])
       \/ request' = Append(request, Cmd("address")) /\ UNCHANGED last

SendRequest ==
    /\ pc = "ask" /\ script # <<>>
    /\ request' = request \o Head(script).items /\ want' = Head(script).bytes /\ got' = <<>>
    /\ pc' = IF command = "raw" /\ Len(script) = 1 THEN "raw" ELSE "answer"
    /\ UNCHANGED <<device, alive, wire, lost, wanted, asked, file, said, program, store>>

\* The answer is whole.  A GP940 is not asked for its 9V battery.
Answered ==
    /\ pc = "answer" /\ Len(got) = want /\ pc' = "ask" /\ shown' = Append(shown, got)
    /\ script' = IF command = "battery" /\ shown = <<>> /\ got[1].at = 940 THEN <<Head(Tail(script))>> ELSE Tail(script)
    /\ UNCHANGED <<link, want, got, wanted, asked, file, said, command, started, store>>

Finished ==
    /\ pc = "ask" /\ script = <<>> /\ Stop("quit")
    /\ UNCHANGED <<link, want, got, wanted, asked, file, said, program, store>>

\* raw prints what comes until nothing has come twenty times.
RawRead ==
    /\ pc = "raw"
    /\ \/ wire # <<>> /\ wire' = <<>> /\ shown' = Append(shown, wire) /\ UNCHANGED pc
       \/ /\ wire = <<>> /\ (request = <<>> \/ ~alive)
          /\ Stop("quit") /\ UNCHANGED <<wire, shown>>
    /\ UNCHANGED <<device, alive, request, lost, want, got, wanted, asked, file, said>>
    /\ UNCHANGED <<command, script, started, store>>

Close ==
    /\ pc \in {"quit", "exit", "abort"} /\ pc' = "shell" /\ UNCHANGED <<link, want, got, wanted>>
    /\ UNCHANGED <<asked, file, said, program, store>>

Logger == Host /\ UNCHANGED <<program, store>>
Tool == Logger \/ SendRequest \/ Answered \/ Finished \/ RawRead \/ Close
Fake == \/ Device /\ taking = Idle /\ UNCHANGED <<program, store>>
        \/ handle_read_battery \/ handle_read \/ handle_write \/ TakePiece \/ StoreAll
        \/ StoreTask \/ handle_unknown \/ LoggerIgnores

ToolNext == \/ Tool \/ Fake \/ StartLogger \/ StartTool \/ StartWriter \/ LoseRequest
            \/ LoseByte /\ UNCHANGED <<program, store>>

ToolInit == /\ Fresh /\ pc = "shell"
            /\ command = "none" /\ script = <<>> /\ shown = <<>> /\ started = 0
            /\ \/ files = [n \in Names |-> Whole(0)]
               \/ device = "fakezander" /\ files = [n \in Names |-> <<>>]
            /\ taking = Idle /\ last = [n \in Names |-> 0] /\ spoilt = FALSE

ToolSpec == ToolInit /\ [][ToolNext]_allvars /\ WF_allvars(Tool) /\ WF_allvars(Fake)

-----------------------------------------------------------------------------
\* What belongs in each answer of a command, the device still being what it was.
Right(c, i) ==
    CASE c = "personal_data" -> [k \in 1..Chunks |-> Byte(c, Whole(last[c])[k])]
      [] c = "show_task" /\ i = 2 -> HeadOf("task") \o [k \in 1..Chunks |-> Byte("task", Whole(last["task"])[k])]
      [] c = "battery" /\ i = 2 -> <<Byte("li", 0)>>
      [] c = "battery" /\ i = 3 -> <<Byte("9v", 0)>>
      [] c = "list" /\ i = 2 -> [k \in 1..ListLength |-> Byte("list", ListBase + k - 1)]
      [] OTHER -> Serial

\* What zander-tool shows are the answers to its own questions, and for
\* personal data and a task what was written last, whichever program wrote it
\* and however soon before, unless a byte of a write was lost, which the
\* protocol cannot notice.
ToolShowsTheAnswers ==
    pc = "quit" /\ command \in DOMAIN Commands /\ ~spoilt
        => \A i \in DOMAIN shown : shown[i] = Right(command, i)
=============================================================================
