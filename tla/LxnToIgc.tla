------------------------------- MODULE LxnToIgc -------------------------------
(***************************************************************************)
(* lxn2igc: lxn2igc.c feeds an LXN file to lxn-to-igc.c through a buffer,  *)
(* and lxn-reader.c cuts the buffer into packets.  A packet is as long as  *)
(* its command says; a run of zero bytes is one packet; the length of an   *)
(* extension packet depends on the configuration packet read before it.    *)
(* cmd_lxn2igc of lxn-logger.c is the same loop and leaves the .igc file   *)
(* where it is when it fails.                                              *)
(***************************************************************************)
EXTENDS Naturals, Sequences, SequencesExt, FiniteSetsExt

CONSTANTS Files,  \* the files: sequences of packets, how many bytes are missing at the
                  \* end, and whether it is a pipe, of which a read() brings less
          Room    \* the 4096 bytes of the buffer of run()

ASSUME StreamAssumption == Room \in Nat \ {0}

VARIABLES lxn,       \* the file being converted
          input,     \* its bytes not read
          buffer,    \* the bytes from start to end of the buffer of run()
          consumed,  \* how many of them this lxn_to_igc_process has consumed
          eof,       \* is_eof of run()
          reader,    \* struct lxn_reader: is_end, b_ext.num, k_ext.num
          conv,      \* struct lxn_to_igc: what earlier packets have set
          records,   \* the records written
          kept,      \* whether the .igc file is there at the end
          stage      \* where lxn2igc is

reading == <<lxn, input, buffer, eof>>
writing == <<reader, conv, records, kept>>
lxnvars == <<reading, consumed, writing, stage>>

-----------------------------------------------------------------------------
(* Packets and their bytes.                                                *)
Packet(k, v) == [kind |-> k, value |-> v]

\* sizeof of the packet structs, cut down; 0 where the length is not fixed.
\* LXN_END has the length of LXN_VERSION: lxn_read waits for what follows it.
packet_lengths == [end |-> 2, date |-> 2, start |-> 2, serial |-> 2, origin |-> 2, position |-> 3,
                   task |-> 3, event |-> 2, class |-> 2, info |-> 3, bconfig |-> 2, kconfig |-> 2,
                   zeros |-> 0, bext |-> 0, kext |-> 0, string |-> 0, more |-> 0,
                   unknown |-> 0]

\* What a packet of the file has as its length, when its writer and the
\* reader agree on the configuration.
LengthOf(p, r) ==
    CASE p.kind = "zeros"  -> p.value
      [] p.kind \in {"end", "unknown"} -> 1
      [] p.kind = "string" -> 1 + p.value
      [] p.kind = "bext"   -> 1 + r.b
      [] p.kind = "kext"   -> 2 + r.k
      [] OTHER             -> packet_lengths[p.kind]

\* MUTANT: the two configurations are mixed up.
SwapConfig(r, p) ==
    CASE p.kind = "end"     -> [r EXCEPT !.end = TRUE]
      [] p.kind = "bconfig" -> [r EXCEPT !.k = p.value]
      [] p.kind = "kconfig" -> [r EXCEPT !.b = p.value]
      [] OTHER              -> r

\* lxn_read, once a packet has been read.
AfterPacket(r, p) ==
    CASE p.kind = "end"     -> [r EXCEPT !.end = TRUE]
      [] p.kind = "bconfig" -> [r EXCEPT !.b = p.value]
      [] p.kind = "kconfig" -> [r EXCEPT !.k = p.value]
      [] OTHER              -> r

NewReader == [end |-> FALSE, b |-> 0, k |-> 0]

\* The bytes of a packet: the first one tells what it is.
PacketBytes(p, r) ==
    [i \in 1..LengthOf(p, r) |-> IF p.kind = "zeros" THEN Packet("zeros", 1)
                                 ELSE IF i = 1 THEN p ELSE Packet("more", i)]

\* The bytes of the first n packets, and what the reader knows behind them.
WithPacket(x, p) == [bytes  |-> x.bytes \o PacketBytes(p, x.reader),
                     reader |-> AfterPacket(x.reader, p)]

Encoded(packets) ==
    LET f[n \in 0..Len(packets)] == IF n = 0 THEN [bytes |-> <<>>, reader |-> NewReader]
                                    ELSE WithPacket(f[n - 1], packets[n])
    IN f

BytesOf(packets) == Encoded(packets)[Len(packets)].bytes

Content(f) == LET b == BytesOf(f.packets) IN SubSeq(b, 1, Len(b) - f.missing)

\* Each packet of a file fits into the buffer, something follows its LXN_END,
\* and a position has its extensions behind it when the configuration has any:
\* handle_position leaves it to them to end the line.
Packets == [kind : DOMAIN packet_lengths \ {"more"}, value : Nat]

ReaderBefore(packets, n) == Encoded(packets)[n - 1].reader

\* Whether the last configuration before the packet n has extensions.
Configured(s, n) == \E m \in 1..(n - 1) : /\ s[m].kind = "bconfig" /\ s[m].value # 0
                                         /\ \A i \in (m + 1)..(n - 1) : s[i].kind # "bconfig"

WellFormed(s) ==
    /\ s \in Seq(Packets)
    /\ \A n \in 1..Len(s) :
         /\ s[n].kind = "zeros" => s[n].value > 0
         /\ s[n].kind # "zeros" => LengthOf(s[n], ReaderBefore(s, n)) <= Room
         /\ s[n].kind = "end" => n < Len(s)
         /\ s[n].kind = "position" /\ Configured(s, n) /\ n < Len(s) => s[n + 1].kind = "bext"

ASSUME FilesAssumption ==
    /\ Room >= packet_lengths["end"]
    /\ \A f \in Files : /\ WellFormed(f.packets) /\ f.pipe \in BOOLEAN
                        /\ f.missing \in 0..Len(BytesOf(f.packets))

-----------------------------------------------------------------------------
(* lxn-reader.c                                                            *)

\* get_packet_length of the packet at the beginning of s; as many zeros as
\* the buffer has are one packet.
get_packet_length(s) ==
    LET c == Head(s) IN
    CASE c.kind = "zeros" -> CHOOSE n \in 1..Len(s) :
                               /\ \A i \in 1..n : s[i].kind = "zeros"
                               /\ n < Len(s) => s[n + 1].kind # "zeros"
      [] c.kind \in {"bext", "kext", "string"} -> LengthOf(c, reader)
      [] OTHER -> packet_lengths[c.kind]

-----------------------------------------------------------------------------
(* lxn-to-igc.c: the records a packet writes, and what it leaves behind.   *)
NewConverter == [flight |-> 0, date |-> 0, origin |-> 0, time |-> 0, event |-> 0,
                 info |-> 0, vendor |-> 0]

Record(k, v) == <<[record |-> k, value |-> v]>>

\* The converted packet: what was set, the records, and whether it was good.
\* A value of 99 stands for one the switch refuses, an info of 7 for a pilot
\* whose class comes in a packet of its own, a string of 3 for the one with
\* the name of the vendor, and "eol" for the end of the line of a B record.
Convert(c, r, p) ==
    LET Out(s) == [conv |-> c, out |-> s, good |-> TRUE]
        Set(x) == [conv |-> x, out |-> <<>>, good |-> TRUE]
        Bad    == [conv |-> c, out |-> <<>>, good |-> FALSE]
    IN IF p.kind \notin {"zeros", "end"} /\ p.value = 99 THEN Bad
       ELSE CASE p.kind = "zeros"   -> Out(Record("LFILEMPTY", p.value))
              [] p.kind = "end"     -> Out(<<>>)
              [] p.kind = "start"   -> Set([c EXCEPT !.flight = p.value])
              [] p.kind = "date"    -> Set([c EXCEPT !.date = p.value])
              [] p.kind = "serial"  -> Out(Record("A", <<p.value, c.flight>>) \o Record("HFDTE", c.date))
              [] p.kind = "origin"  -> [Out(Record("LORIGIN", <<c.vendor, p.value>>)) EXCEPT
                                          !.conv.origin = p.value]
              [] p.kind = "position" ->
                   [conv |-> [c EXCEPT !.time = c.origin + p.value, !.event = 0],
                    out  |-> (IF c.event # 0 THEN Record("E", <<c.origin + p.value, c.event>>) ELSE <<>>)
                             \o Record("B", c.origin + p.value)
                             \o (IF r.b = 0 THEN Record("eol", 0) ELSE <<>>),
                    good |-> TRUE]
              [] p.kind = "bext"    -> Out(Record("ext", p.value) \o Record("eol", 0))
              [] p.kind = "kext"    -> Out(Record("K", c.time + p.value))
              [] p.kind = "event"   -> Set([c EXCEPT !.event = p.value])
              [] p.kind = "task"    -> [Out(Record("C", p.value)) EXCEPT !.conv.time = p.value]
              [] p.kind = "info"    -> [conv |-> [c EXCEPT !.info = p.value],
                                        out  |-> IF p.value < 7 THEN Record("HFPLT", p.value) ELSE <<>>,
                                        good |-> TRUE]
              [] p.kind = "class"   -> Out(IF c.info = 7 THEN Record("HFPLT", <<c.info, p.value>>)
                                           ELSE <<>>)
              [] p.kind \in {"bconfig", "kconfig"} ->
                   Out(IF p.value = 0 THEN <<>> ELSE Record(IF p.kind = "bconfig" THEN "I" ELSE "J", p.value))
              [] p.kind = "string"  -> [Out(Record("text", p.value)) EXCEPT
                                          !.conv.vendor = IF p.value = 3 THEN 1 ELSE c.vendor]
              [] OTHER              -> Bad

-----------------------------------------------------------------------------
(* run() and main() of lxn2igc.c                                           *)

\* MUTANT: the buffer is filled up only when it is empty.
FillWhenEmpty ==
    /\ stage = "read"
    /\ IF buffer # <<>> THEN UNCHANGED <<buffer, input, eof>>
       ELSE /\ buffer' = SubSeq(input, 1, Min({Room, Len(input)}))
            /\ input' = SubSeq(input, Len(buffer') + 1, Len(input))
            /\ eof' = (eof \/ buffer' = <<>>)
    /\ consumed' = 0
    /\ stage' = IF buffer' = <<>> THEN "loop" ELSE "process"
    /\ UNCHANGED <<lxn, writing>>

\* Realign the buffer and fill it up.
Fill ==
    /\ stage = "read"
    /\ LET room == Room - Len(buffer) IN
       \E n \in IF room = 0 THEN {0} ELSE 0..Min({room, Len(input)}) :
         /\ n = 0 => room = 0 \/ input = <<>>
         /\ lxn.pipe \/ n = Min({room, Len(input)})
         /\ buffer' = buffer \o SubSeq(input, 1, n)
         /\ input' = SubSeq(input, n + 1, Len(input))
         /\ eof' = (eof \/ (room > 0 /\ n = 0))
    /\ consumed' = 0
    /\ stage' = IF buffer' = <<>> THEN "loop" ELSE "process"
    /\ UNCHANGED <<lxn, writing>>

\* What lxn_to_igc_process has not consumed.
Remaining == SubSeq(buffer, consumed + 1, Len(buffer))

\* The packet that is there; the zeros of a run count as one.
Found(n) == IF Head(Remaining).kind = "zeros" THEN Packet("zeros", n) ELSE Head(Remaining)

\* MUTANT: the file is not removed.
FailKeeps(status) == stage' = status /\ kept' = TRUE

Fail(status) == stage' = status /\ kept' = FALSE

\* A round of the loop of lxn_to_igc_process: lxn_read and the switch.
Process ==
    /\ stage = "process" /\ Remaining # <<>>
    /\ LET n == get_packet_length(Remaining) IN
       IF n = 0
       THEN Fail("exit 2") /\ UNCHANGED <<consumed, reader, conv, records>>
       ELSE /\ n <= Len(Remaining)
            /\ LET p == Found(n)
                   r == AfterPacket(reader, p)
                   x == Convert(conv, r, p)
               IN /\ reader' = r
                  /\ conv' = x.conv /\ records' = records \o x.out
                  /\ consumed' = IF p.kind = "end" THEN Len(buffer) ELSE consumed + n
                  /\ IF x.good
                     THEN stage' = (IF p.kind = "end" THEN "done" ELSE "process") /\ UNCHANGED kept
                     ELSE Fail("exit 2")
    /\ UNCHANGED reading

\* MUTANT: each block is converted as if it were a file of its own.
ForgetState ==
    /\ stage = "process" /\ (Remaining # <<>> => get_packet_length(Remaining) > Len(Remaining))
    /\ stage' = IF consumed = 0 THEN "assertion" ELSE "loop"
    /\ buffer' = Remaining /\ consumed' = 0 /\ conv' = NewConverter
    /\ UNCHANGED <<lxn, input, eof, reader, records, kept>>

\* EAGAIN, because the buffer is used up or its last packet is not complete;
\* run() asserts that something was consumed.
Again ==
    /\ stage = "process" /\ (Remaining # <<>> => get_packet_length(Remaining) > Len(Remaining))
    /\ stage' = IF consumed = 0 THEN "assertion" ELSE "loop"
    /\ buffer' = Remaining /\ consumed' = 0
    /\ UNCHANGED <<lxn, input, eof, writing>>

\* while (!is_eof && !done), and "unexpected eof" if something is left.
Loop ==
    /\ stage = "loop"
    /\ IF ~eof THEN stage' = "read" /\ UNCHANGED kept
       ELSE IF buffer # <<>> THEN Fail("exit 2") ELSE stage' = "done" /\ UNCHANGED kept
    /\ UNCHANGED <<reading, consumed, reader, conv, records>>

\* main() keeps the file when run() returned 0; lxn_to_igc_close fails when
\* there was no LXN_END.
CloseFilter ==
    /\ stage = "done" /\ stage' = (IF reader.end THEN "exit 0" ELSE "exit 2")
    /\ UNCHANGED <<reading, consumed, writing>>

LxnNext == Fill \/ Process \/ Again \/ Loop \/ CloseFilter

LxnInit == /\ lxn \in Files /\ input = Content(lxn) /\ buffer = <<>> /\ consumed = 0
           /\ eof = FALSE /\ reader = NewReader /\ conv = NewConverter /\ records = <<>>
           /\ kept = TRUE /\ stage = "read"

LxnSpec == LxnInit /\ [][LxnNext]_lxnvars /\ WF_lxnvars(LxnNext)

-----------------------------------------------------------------------------
Exits == {"exit 0", "exit 2", "assertion"}

LxnTypeOK == /\ lxn \in Files /\ Len(buffer) <= Room /\ consumed <= Len(buffer)
             /\ eof \in BOOLEAN /\ kept \in BOOLEAN
             /\ stage \in {"read", "process", "loop", "done"} \cup Exits

\* The first n packets converted at once; behind the LXN_END nothing is read.
WithConverted(x, p) ==
    LET r == AfterPacket(x.reader, p)
        y == Convert(x.conv, r, p)
    IN IF x.reader.end THEN x
       ELSE [reader |-> r, conv |-> y.conv, records |-> x.records \o y.out]

Converted(packets) ==
    LET f[n \in 0..Len(packets)] ==
          IF n = 0 THEN [reader |-> NewReader, conv |-> NewConverter, records |-> <<>>]
          ELSE WithConverted(f[n - 1], packets[n])
    IN f

Whole(packets) == Converted(packets)[Len(packets)].records

\* One LFILEMPTY for the zeros of adjacent LFILEMPTY records: a run of zeros
\* that crosses the end of the buffer is written as two.
WithRun(t, x) ==
    IF t # <<>> /\ x.record = "LFILEMPTY" /\ Last(t).record = "LFILEMPTY"
    THEN Front(t) \o Record("LFILEMPTY", Last(t).value + x.value)
    ELSE Append(t, x)

RunsJoined(s) == LET f[n \in 0..Len(s)] == IF n = 0 THEN <<>> ELSE WithRun(f[n - 1], s[n])
                 IN f[Len(s)]

\* Where the buffer ended and how much each read() brought cannot be seen in
\* the records lxn2igc writes, nor in the state one packet leaves for the next.
ChunksDoNotMatter == stage = "exit 0" => RunsJoined(records) = RunsJoined(Whole(lxn.packets))

\* A B record ends before any other record begins: the extensions that belong
\* to it are on its line.
LinesAreWhole ==
    \A i \in DOMAIN records : records[i].record = "B" /\ i < Len(records)
                                => records[i + 1].record \in {"ext", "eol"}

\* assert(consumed > 0): a buffer of 4096 bytes always has a whole packet.
\* (Not so when the file ends within a packet, or with the LXN_END, or when a
\* read() brings a part of one: lxn_to_igc_process has then consumed nothing.)
AssertionHolds == stage = "assertion" => lxn.pipe \/ (lxn.missing > 0 /\ input = <<>>)

\* The .igc file of a failed conversion is removed, but for a file of which
\* nothing is missing except the LXN_END.
NothingHalfDone == stage = "exit 2" /\ kept => ~reader.end /\ input = <<>> /\ buffer = <<>>
=============================================================================
