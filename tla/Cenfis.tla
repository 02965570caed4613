-------------------------------- MODULE Cenfis --------------------------------
(***************************************************************************)
(* The connection to a Cenfis (cenfis.c over serialio.c) and the tool that *)
(* uploads a file through it line by line (cenfis-upload.c, and the same   *)
(* loop in cenfis-tool.c).  Text is cut into the pieces cenfis_select      *)
(* looks for: "colon", "star", "control", the phrases it knows, and        *)
(* "text".  The device is not part of the repository: it asks the          *)
(* questions of Script, waits for each answer, and then acknowledges every *)
(* line with a star.                                                       *)
(***************************************************************************)
EXTENDS Naturals, Sequences, SequencesExt

CONSTANTS Script,     \* the dialogs: what the device says, what it then expects
          Lines,      \* how many lines that are not empty the file has
          Quarter     \* a fourth of the 2048 bytes of cenfis->buffer

\* The phrases cenfis_select knows, and all the pieces of a text.
Phrases == {"confirm", "program", "ready"}
Pieces == Phrases \cup {"text", "colon", "star", "control"}

ASSUME CenfisAssumption == Lines \in Nat /\ Quarter \in Nat \ {0}

\* Once the device has said that it is ready for the data, it says "star" only
\* to acknowledge a line.
ASSUME ScriptAssumption ==
    /\ Script \in Seq([say : Seq(Pieces), expect : {"Y", "P", "nothing"}])
    /\ \A d, e \in DOMAIN Script : \A k \in DOMAIN Script[d].say, l \in DOMAIN Script[e].say :
         Script[d].say[k] = "ready" /\ (d < e \/ (d = e /\ k < l)) => Script[e].say[l] # "star"

\* A question has one phrase of those the tool knows, that of the answer it
\* waits for, and only the last dialog says that the device is ready.
ASSUME QuestionsAssumption ==
    \A d \in DOMAIN Script : \A k \in DOMAIN Script[d].say : Script[d].say[k] \in Phrases =>
      /\ \/ Script[d].say[k] = "confirm" /\ Script[d].expect = "Y"
         \/ Script[d].say[k] = "program" /\ Script[d].expect = "P"
         \/ Script[d].say[k] = "ready" /\ Script[d].expect = "nothing" /\ d = Len(Script)
      /\ \A l \in DOMAIN Script[d].say : Script[d].say[l] \in Phrases => l = k

Size == 4 * Quarter

VARIABLES input,     \* what the device has said and the host has not read
          output,    \* what the host has written and the device has not read
          asked,     \* how many dialogs the device has begun
          waiting,   \* whether the device waits for the answer of the last one
          received,  \* the lines the device has received
          confused,  \* whether the device was sent what it did not expect
          trouble,   \* whether a call failed, or an answer took more than two seconds
          status,    \* cenfis->status
          isopen,    \* cenfis->serio # NULL
          buffer,    \* the first buffer_pos bytes of cenfis->buffer
          sent,      \* how many lines command_upload has written
          acked,     \* how many it has seen acknowledged
          pc         \* where command_upload is

device == <<asked, waiting, received, confused>>
tool == <<sent, acked, pc>>
vars == <<input, output, device, trouble, status, isopen, buffer, tool>>

\* A key, or the n-th line of the file.
Key(k) == [kind |-> k, line |-> 0]
Line(n) == [kind |-> "line", line |-> n]

\* The status after a text with the phrases of q.
StatusOf(q) == IF "confirm" \in q THEN "DIALOG_CONFIRM"
               ELSE IF "program" \in q THEN "DIALOG_SELECT" ELSE "DATA"

-----------------------------------------------------------------------------
(* The device.                                                             *)
Ask ==
    /\ ~waiting /\ asked < Len(Script)
    /\ asked' = asked + 1
    /\ waiting' = (Script[asked + 1].expect # "nothing")
    /\ input' = input \o Script[asked + 1].say
    /\ UNCHANGED <<output, received, confused, trouble, status, isopen, buffer, tool>>

\* It reads a key it waits for, or a line once all the dialogs are over.
Hear ==
    /\ output # <<>> /\ output' = Tail(output)
    /\ \/ /\ waiting /\ Head(output) = Key(Script[asked].expect)
          /\ waiting' = FALSE /\ UNCHANGED <<input, received, confused>>
       \/ /\ ~waiting /\ asked = Len(Script) /\ Head(output).kind = "line"
          /\ received' = Append(received, Head(output).line) /\ input' = Append(input, "star")
          /\ UNCHANGED <<waiting, confused>>
       \/ /\ ~ \/ waiting /\ Head(output) = Key(Script[asked].expect)
               \/ ~waiting /\ asked = Len(Script) /\ Head(output).kind = "line"
          /\ confused' = TRUE /\ UNCHANGED <<input, waiting, received>>
    /\ UNCHANGED <<asked, trouble, status, isopen, buffer, tool>>

-----------------------------------------------------------------------------
(* cenfis.c                                                                *)
IsError == status = "INVALID"

\* cenfis_invalidate, and the client gets an error and exits.
Invalidate == isopen' = FALSE /\ status' = "INVALID" /\ pc' = "exit"

\* cenfis_flush throws away what has arrived and what is in the buffer.
FlushAfter(n) ==
    /\ \E k \in n..Len(input) : input' = SubSeq(input, k + 1, Len(input))
    /\ buffer' = <<>>

\* The buffer before a read: its first quarter goes when three are full.
RoomMade == IF Len(buffer) >= 3 * Quarter THEN SubSeq(buffer, Quarter + 1, Len(buffer))
                                          ELSE buffer

\* How much read() may return.
Readable == {n \in 1..Len(input) : n + Len(RoomMade) <= Size}

\* The phrases between the first colon of what was read and the last control
\* character before it.  Later colons of the same read() are never looked at.
\* The first one is overwritten with a NUL.
Question(old, new) ==
    LET text == old \o new
        Asks(i, colon) == /\ i < colon /\ Len(old) < colon /\ text[colon] = "colon"
                          /\ \A j \in Len(old) + 1..colon - 1 : text[j] # "colon"
                          /\ \A j \in i + 1..colon - 1 : text[j] # "control"
    IN {text[i] : i \in {i \in DOMAIN text : \E colon \in DOMAIN text : Asks(i, colon)}}
       \cap Phrases

Struck(new) == [i \in DOMAIN new |->
                  IF new[i] = "colon" /\ \A j \in 1..i - 1 : new[j] # "colon"
                  THEN "control" ELSE new[i]]

\* MUTANT: the text is looked for in what was just read only.
ForgetRead ==
    \E n \in Readable :
      LET new == SubSeq(input, 1, n)
          q   == Question(<<>>, new)
      IN \/ /\ q # {} /\ status' = StatusOf(q) /\ FlushAfter(n)
         \/ /\ q = {} /\ buffer' = RoomMade \o Struck(new)
            /\ input' = SubSeq(input, n + 1, Len(input)) /\ UNCHANGED status

\* A round of cenfis_select while it waits for a question.
ReadQuestion ==
    \E n \in Readable :
      LET new == SubSeq(input, 1, n)
          q   == Question(RoomMade, new)
      IN \/ /\ q # {} /\ status' = StatusOf(q) /\ FlushAfter(n)
         \/ /\ q = {} /\ buffer' = RoomMade \o Struck(new)
            /\ input' = SubSeq(input, n + 1, Len(input)) /\ UNCHANGED status

\* A round of it while it waits for a star: what it read is not kept.
ReadAck ==
    \E n \in Readable :
      \/ /\ "star" \in ToSet(SubSeq(input, 1, n))
         /\ status' = "DATA" /\ FlushAfter(n)
      \/ /\ "star" \notin ToSet(SubSeq(input, 1, n))
         /\ input' = SubSeq(input, n + 1, Len(input)) /\ buffer' = RoomMade
         /\ UNCHANGED status

\* A select(), read() or write() that fails.
IoError ==
    /\ pc \in {"wait", "send", "ack"} /\ ~IsError
    /\ Invalidate /\ trouble' = TRUE
    /\ UNCHANGED <<input, output, device, buffer, sent, acked>>

-----------------------------------------------------------------------------
(* command_upload                                                          *)

\* The loop that waits for the device goes round after every question and
\* after every second.
SelectQuestion ==
    /\ pc = "wait" /\ status = "IDLE" /\ input # <<>> /\ ReadQuestion
    /\ pc' = IF status' = "DATA" THEN "send" ELSE "wait"
    /\ UNCHANGED <<output, device, trouble, isopen, sent, acked>>

\* MUTANT: the question is not marked as answered.
AnswerAgain(s, key) ==
    /\ pc = "wait" /\ status = s
    /\ output' = Append(output, Key(key))
    /\ UNCHANGED <<input, device, trouble, status, isopen, buffer, tool>>

\* cenfis_confirm and cenfis_dialog_respond.
Answer(s, key) ==
    /\ pc = "wait" /\ status = s
    /\ output' = Append(output, Key(key)) /\ status' = "IDLE"
    /\ UNCHANGED <<input, device, trouble, isopen, buffer, tool>>

Confirm == Answer("DIALOG_CONFIRM", "Y")
Respond == Answer("DIALOG_SELECT", "P")

\* MUTANT: a line may be written while the one before is not acknowledged.
WriteAnyTime ==
    /\ \/ pc = "send" /\ status \in {"DATA", "IDLE"}
       \/ pc = "ack" /\ status = "WAIT_ACK"
    /\ IF sent < Lines
       THEN /\ sent' = sent + 1 /\ output' = Append(output, Line(sent + 1))
            /\ status' = "WAIT_ACK" /\ pc' = "ack"
       ELSE pc' = "done" /\ UNCHANGED <<sent, output, status>>
    /\ UNCHANGED <<input, device, trouble, isopen, buffer, acked>>

\* cenfis_write_data of the next line, or the end of the file.
WriteData ==
    /\ pc = "send" /\ status \in {"DATA", "IDLE"}
    /\ IF sent < Lines
       THEN /\ sent' = sent + 1 /\ output' = Append(output, Line(sent + 1))
            /\ status' = "WAIT_ACK" /\ pc' = "ack"
       ELSE pc' = "done" /\ UNCHANGED <<sent, output, status>>
    /\ UNCHANGED <<input, device, trouble, isopen, buffer, acked>>

SelectAck ==
    /\ pc = "ack" /\ status = "WAIT_ACK" /\ input # <<>> /\ ReadAck
    /\ IF status' = "DATA" THEN pc' = "send" /\ acked' = acked + 1
                           ELSE UNCHANGED <<pc, acked>>
    /\ UNCHANGED <<output, device, trouble, isopen, sent>>

\* Two seconds without a star: "no ack from device".
NoAck ==
    /\ pc = "ack" /\ status = "WAIT_ACK"
    /\ trouble' = (trouble \/ input # <<>> \/ output # <<>>)
    /\ pc' = "exit"
    /\ UNCHANGED <<input, output, device, status, isopen, buffer, sent, acked>>

Tool == SelectQuestion \/ Confirm \/ Respond \/ WriteData \/ SelectAck \/ NoAck

Next == Tool \/ IoError \/ Ask \/ Hear

Init == /\ input = <<>> /\ output = <<>> /\ asked = 0 /\ waiting = FALSE
        /\ received = <<>> /\ confused = FALSE /\ trouble = FALSE
        /\ status = "IDLE" /\ isopen = TRUE /\ buffer = <<>>
        /\ sent = 0 /\ acked = 0 /\ pc = "wait"

\* The tool is one thread that keeps running and the device is attended to.
Spec == Init /\ [][Next]_vars /\ WF_vars(Tool) /\ WF_vars(Ask) /\ WF_vars(Hear)

-----------------------------------------------------------------------------
TypeOK == /\ asked \in 0..Len(Script) /\ waiting \in BOOLEAN /\ confused \in BOOLEAN
          /\ trouble \in BOOLEAN
          /\ status \in {"IDLE", "DIALOG_CONFIRM", "DIALOG_SELECT", "WAIT_ACK", "DATA", "INVALID"}
          /\ Len(buffer) <= Size
          /\ isopen = (status # "INVALID")
          /\ sent \in 0..Lines /\ acked \in 0..sent
          /\ pc \in {"wait", "send", "ack", "done", "exit"}

\* However the text of the device is cut into pieces by read(), and whatever
\* it says between its questions, it is never sent a key or a line that it
\* is not waiting for.
AnswersMeetQuestions == ~confused

\* The device has every acknowledged line, once and in the order of the file,
\* and the tool is never more than one line ahead of it.
LinesArriveInOrder ==
    /\ received = [i \in 1..Len(received) |-> i]
    /\ acked <= Len(received) /\ sent <= acked + 1
    /\ pc = "done" => Len(received) = Lines

\* The tool gets through the dialogs and uploads the whole file, unless a call
\* failed or an acknowledgement took more than two seconds.
\* (Not so when the device writes another colon right before a question: when
\* one read() brings both, the question is never answered.)
UploadEnds == <>(pc = "done" \/ (pc = "exit" /\ trouble))
=============================================================================
