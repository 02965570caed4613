------------------------------- MODULE FlarmLink -------------------------------
(***************************************************************************)
(* flarmtool and its receive path: flarm-mode.c, flarm-send.c,             *)
(* flarm-escape.c, flarm-recv.c and the request/answer loops of            *)
(* flarm-tool.c, talking to a FLARM over a serial line.  The two           *)
(* fifo_buffers are the byte queues FifoBuffer implements.  A frame header *)
(* is one cell of the line; payload bytes are told apart as far as the     *)
(* escaping does.  The device is not part of the repository: it answers    *)
(* each frame with one well-formed frame.                                  *)
(***************************************************************************)
EXTENDS Naturals, Sequences, SequencesExt

CONSTANTS MaxRequests,  \* how many frames a session may send
          Payloads,     \* the payloads an answer may carry
          Chatter,      \* texts the device may be sending when asked to switch
          MaxTries,     \* the 15 polls of flarm_wait_recv_frame
          MaxLost,      \* how many bytes the line may lose
          FrameCap      \* the 4096 bytes of the frame buffer

ASSUME LinkAssumption == /\ MaxLost \in Nat /\ MaxRequests \in Nat \ {0}
                         /\ MaxTries \in Nat \ {0} /\ FrameCap \in Nat \ {0}

VARIABLES requests,  \* how many frames the command of the user sends
          line,      \* cells sent by the device and not yet read
          asked,     \* the frames sent to the device and not yet answered
          answered,  \* what the device has answered: payload of each request
          lost,      \* how many bytes the line has lost
          binary,    \* flarm->binary_mode
          seq,       \* flarm->last_seq_no
          in,        \* flarm->in
          frame,     \* flarm->frame
          started,   \* flarm->frame_started
          ret,       \* the result of the last flarm_unescape
          tries,     \* n of flarm_wait_recv_frame
          got,       \* the payloads expect_ack has returned, in order
          pc         \* where flarmtool is

host == <<binary, seq, in, frame, started, ret, tries, got, pc>>
device == <<requests, asked, answered, lost>>
vars == <<line, device, host>>

-----------------------------------------------------------------------------
(* Cells of the line: the four bytes the framing knows, any other byte and *)
(* a header.                                                               *)
Cell(k, s, n) == [kind |-> k, seq |-> s, len |-> n]
Start    == Cell("STARTFRAME", 0, 0)
Escape   == Cell("ESCAPE", 0, 0)
EscStart == Cell("ESC_START", 0, 0)
EscEsc   == Cell("ESC_ESC", 0, 0)
Plain    == Cell("plain", 0, 0)
Header(s, n) == Cell("header", s, n)

\* A header comes from a frame only; payloads and text are other bytes.
Bytes == {Start, Escape, EscStart, EscEsc, Plain}

ASSUME ByteAssumption == Payloads \subseteq Seq(Bytes) /\ Chatter \subseteq Seq(Bytes)

flarm_escape(s) ==
    FlattenSeq([i \in 1..Len(s) |->
                  CASE s[i] = Start  -> <<Escape, EscStart>>
                    [] s[i] = Escape -> <<Escape, EscEsc>>
                    [] OTHER         -> <<s[i]>>])

\* The loop stops at an unescaped STARTFRAME, at an ESCAPE that is the last
\* byte, or past an ESCAPE before a byte that is no escape code.  Up to there
\* every ESCAPE becomes a STARTFRAME and every other byte, the escape codes
\* included, is copied.
flarm_unescape(s) ==
    LET stops(p) == \/ s[p] = Start
                    \/ s[p] = Escape /\ (p = Len(s) \/ s[p + 1] \notin {EscStart, EscEsc})
        halts == {p \in 1..Len(s) : stops(p)}
        p     == CHOOSE q \in halts : \A o \in halts : q <= o
        n     == IF halts = {} THEN Len(s) ELSE p - 1
        res   == CASE halts = {}    -> "SUCCESS"
                   [] s[p] = Start  -> "ECONNRESET"
                   [] p = Len(s)    -> "EAGAIN"
                   [] OTHER         -> "EINVAL"
    IN [out  |-> [i \in 1..n |-> IF s[i] = Escape THEN Start ELSE s[i]],
        used |-> IF res = "EINVAL" THEN p ELSE n,
        ret  |-> res]

-----------------------------------------------------------------------------
(* The device: it answers the frames in the order they came.               *)
FlarmAnswers ==
    /\ asked # <<>>
    /\ \E p \in Payloads :
         /\ answered' = Append(answered, p)
         /\ line' = line \o <<Start, Header(Head(asked), Len(p))>> \o flarm_escape(p)
    /\ asked' = Tail(asked)
    /\ UNCHANGED <<requests, lost, host>>

\* The line has no flow control and drops a byte the host is too slow for.
LoseByte ==
    /\ lost < MaxLost
    /\ \E i \in 1..Len(line) : line[i].kind # "header" /\ line' = RemoveAt(line, i)
    /\ lost' = lost + 1
    /\ UNCHANGED <<requests, asked, answered, host>>

-----------------------------------------------------------------------------
\* flarm_enter_binary_mode, the first thing every command does.
EnterBinary ==
    /\ pc = "open" /\ binary = FALSE
    /\ binary' = TRUE /\ pc' = "send"
    /\ line' \in Chatter
    /\ UNCHANGED <<device, seq, in, frame, started, ret, tries, got>>

\* flarm_send_frame, then flarm_expect_ack polls from n = 0.
SendFrame ==
    /\ pc = "send" /\ binary
    /\ seq' = seq + 1
    /\ asked' = Append(asked, seq + 1)
    /\ tries' = 0 /\ pc' = "recv"
    /\ UNCHANGED <<requests, line, answered, lost, binary, in, frame, started, ret, got>>

\* flarm_recv_frame starts over with an empty frame only when it is not
\* inside one.
EnterRecv ==
    /\ pc = "recv"
    /\ IF started THEN pc' = "body" /\ UNCHANGED frame
                  ELSE pc' = "sync" /\ frame' = <<>>
    /\ UNCHANGED <<line, device, binary, seq, in, started, ret, tries, got>>

\* flarm_read: what is buffered, or else whatever one read() returns, which
\* is nothing only when the line is silent (VMIN 0, VTIME 1).
Reads == IF in # <<>> THEN {<<in, line>>}
         ELSE {<<SubSeq(line, 1, k), SubSeq(line, k + 1, Len(line))>> :
                 k \in (IF line = <<>> THEN {0} ELSE 1..Len(line))}

\* One round of flarm_wait_startframe.
WaitStartframe ==
    /\ pc = "sync"
    /\ \E r \in Reads :
         LET starts == {i \in 1..Len(r[1]) : r[1][i] = Start}
             first  == CHOOSE i \in starts : \A j \in starts : i <= j
         IN /\ line' = r[2]
            /\ \/ r[1] = <<>> /\ in' = <<>> /\ pc' = "again" /\ UNCHANGED started
               \/ r[1] # <<>> /\ starts = {} /\ in' = <<>> /\ UNCHANGED <<pc, started>>
               \/ /\ starts # {} /\ in' = SubSeq(r[1], first + 1, Len(r[1]))
                  /\ started' = TRUE /\ pc' = "body"
    /\ UNCHANGED <<device, binary, seq, frame, ret, tries, got>>

\* The entry of flarm_recv_unescape: read, and ask the frame for room.
ReadBody ==
    /\ pc = "body"
    /\ \E r \in Reads :
         /\ line' = r[2] /\ in' = r[1]
         /\ \/ r[1] = <<>> /\ pc' = "again" /\ UNCHANGED started
            \/ r[1] # <<>> /\ Len(frame) = FrameCap
               /\ started' = FALSE /\ pc' = "exit"
            \/ r[1] # <<>> /\ Len(frame) # FrameCap
               /\ pc' = "unescape" /\ UNCHANGED started
    /\ UNCHANGED <<device, binary, seq, frame, ret, tries, got>>

\* One round of the loop of flarm_recv_unescape.  With a full frame buffer
\* and bytes left it goes round again with nothing changed.
UnescapeSome ==
    /\ pc = "unescape"
    /\ LET room == FrameCap - Len(frame)
           r == flarm_unescape(SubSeq(in, 1, IF Len(in) > room THEN room ELSE Len(in)))
       IN /\ in' = SubSeq(in, r.used + 1, Len(in))
          /\ frame' = frame \o r.out
          /\ ret' = r.ret
          /\ pc' = IF in' # <<>> /\ r.ret = "SUCCESS" THEN "unescape" ELSE "check"
    /\ UNCHANGED <<line, device, binary, seq, started, tries, got>>

\* The test of flarm_recv_frame for a whole frame.
\* MUTANT: the header is not counted.
CompleteWithoutHeader == /\ frame # <<>>
                         /\ Len(frame) > 1 + frame[1].len

Complete == /\ frame # <<>>
            /\ Len(frame) >= 1 + frame[1].len

\* MUTANT: a STARTFRAME inside a frame does not start the next one.
StaysInFrame ==
    /\ pc = "check" /\ ret # "EINVAL"
    /\ ret \in {"SUCCESS", "ECONNRESET"} => ~Complete
    /\ pc' = "again"
    /\ UNCHANGED <<line, device, binary, seq, in, frame, started, ret, tries, got>>

\* No complete frame: flarm_recv_frame returns an error or EAGAIN.
CheckIncomplete ==
    /\ pc = "check"
    /\ \/ ret = "EINVAL" /\ pc' = "exit" /\ UNCHANGED started
       \/ ret = "EAGAIN" /\ pc' = "again" /\ UNCHANGED started
       \/ /\ ret \in {"SUCCESS", "ECONNRESET"} /\ ~Complete
          /\ pc' = "again"
          /\ started' = (started /\ ret # "ECONNRESET")
    /\ UNCHANGED <<line, device, binary, seq, in, frame, ret, tries, got>>

\* MUTANT: flarm_expect_ack takes any frame.
TakeAnyFrame ==
    /\ pc = "check" /\ ret \in {"SUCCESS", "ECONNRESET"} /\ Complete
    /\ got' = Append(got, SubSeq(frame, 2, 1 + frame[1].len))
    /\ pc' = IF seq = requests THEN "done" ELSE "send"
    /\ UNCHANGED <<line, device, binary, seq, in, frame, started, ret, tries>>

\* A complete frame is returned; it stays in the buffer and frame_started
\* stays set.  flarm_expect_ack takes it if the number is the expected one
\* and otherwise calls again.
CheckComplete ==
    /\ pc = "check" /\ ret \in {"SUCCESS", "ECONNRESET"} /\ Complete
    /\ IF frame[1].seq = seq
       THEN /\ got' = Append(got, SubSeq(frame, 2, 1 + frame[1].len))
            /\ pc' = IF seq = requests THEN "done" ELSE "send"
            /\ UNCHANGED tries
       ELSE pc' = "recv" /\ tries' = 0 /\ UNCHANGED got
    /\ UNCHANGED <<line, device, binary, seq, in, frame, started, ret>>

\* MUTANT: the poll counter is not advanced.
PollForever ==
    /\ pc = "again" /\ pc' = "recv"
    /\ UNCHANGED <<line, device, binary, seq, in, frame, started, ret, tries, got>>

\* flarm_wait_recv_frame: poll again or give up, and then flarmtool exits.
PollAgain ==
    /\ pc = "again"
    /\ tries' = tries + 1
    /\ pc' = IF tries + 1 = MaxTries THEN "gaveup" ELSE "recv"
    /\ UNCHANGED <<line, device, binary, seq, in, frame, started, ret, got>>

\* main(), when the command has returned: flarm_exit_binary_mode sends one
\* more frame and nobody reads what the device may say to it.  A command that
\* fails exits without this, and leaves the device in binary mode.
ExitBinary ==
    /\ pc = "done" /\ pc' = "closed"
    /\ seq' = seq + 1 /\ binary' = FALSE
    /\ UNCHANGED <<line, device, in, frame, started, ret, tries, got>>

Tool == \/ ExitBinary \/ EnterBinary \/ SendFrame \/ EnterRecv \/ WaitStartframe \/ ReadBody
        \/ UnescapeSome \/ CheckIncomplete \/ CheckComplete \/ PollAgain

Next == Tool \/ FlarmAnswers \/ LoseByte

Init == /\ requests \in 1..MaxRequests /\ line = <<>> /\ asked = <<>> /\ answered = <<>> /\ lost = 0
        /\ binary = FALSE /\ seq = 0 /\ in = <<>> /\ frame = <<>>
        /\ started = FALSE /\ ret = "SUCCESS" /\ tries = 0 /\ got = <<>>
        /\ pc = "open"

\* flarmtool is one thread that never stops by itself, and the device answers.
Spec == Init /\ [][Next]_vars /\ WF_vars(Tool) /\ WF_vars(FlarmAnswers)

-----------------------------------------------------------------------------
TypeOK == /\ lost \in 0..MaxLost /\ seq \in 0..requests + 1 /\ tries \in 0..MaxTries
          /\ Len(answered) + Len(asked) = (IF pc = "closed" THEN seq - 1 ELSE seq)
          /\ Len(frame) <= FrameCap
          /\ pc \in {"open", "send", "recv", "sync", "body", "unescape", "check",
                     "again", "done", "closed", "exit", "gaveup"}

\* Payloads that come through the framing as they are.
Unescaped(p) == \A i \in DOMAIN p : p[i] \notin {Start, Escape}

\* What the command works on is what the device sent in answer to that very
\* request, although the last frame stays in the buffer and is offered again,
\* and however read() cuts the stream into pieces.  (Not so for a payload with
\* escaped bytes: flarm_unescape leaves the code of an escape behind.)
PayloadIntact ==
    \A i \in 1..Len(got) : /\ i <= Len(answered)
                           /\ Unescaped(answered[i]) => got[i] = answered[i]

\* The frame with the answer is returned, not waited for, once every byte of
\* it has arrived.
WholeFrameReturned ==
    pc = "again" /\ started /\ ret = "SUCCESS" /\ frame # <<>> /\ frame[1].seq = seq
        => Len(frame) < 1 + Len(answered[frame[1].seq])

\* When flarm_recv_frame says EAGAIN inside a frame, flarmtool is "waiting
\* for flarm": nothing it has read already is left to look at, or else the
\* next poll would look at that again and read nothing.  (Not so when a read
\* ended behind an ESCAPE.)
WaitingForFlarm == pc = "again" /\ started /\ ret # "EAGAIN" => in = <<>>

Ended == {"closed", "exit", "gaveup"}

\* A command with one request comes to an end: it succeeds, fails or gives up.
\* (Not so with an answer that is longer than the frame buffer.)
PingEnds ==
    requests = 1 ~> \/ pc \in Ended
                    \/ \E i \in 1..Len(answered) : Len(answered[i]) >= FrameCap
=============================================================================
