-------------------------------- MODULE Hexfile --------------------------------
(***************************************************************************)
(* The hexfiles of the Cenfis: the two encoders (encode() of hexfile-tool.c*)
(* and HexfileOutputFilterBuf of hexfile-writer.cc), the decoder that is   *)
(* fed one character after the other (hexfile-decoder.c), and the two      *)
(* callbacks of hexfile-tool.c behind it, which write the image and its    *)
(* map.  D is the 16 of the code: a byte is two digits, a record takes D   *)
(* bytes of data, bank b has type D + b and the decoder's record buffer    *)
(* has D * D bytes.                                                        *)
(***************************************************************************)
EXTENDS Integers, Sequences, SequencesExt, FiniteSetsExt

CONSTANTS D,         \* the values of a hexadecimal digit
          BankSize,  \* BANK_SIZE
          Texts      \* the hexfiles that are decoded, each with the image it was made
                     \* from and whether it is still as the encoder wrote it

ASSUME HexAssumption == /\ D \in Nat \ {0, 1, 2} /\ BankSize \in Nat \ {0}
                        /\ BankSize % D = 0

Byte == D * D
Colon == Byte         \* characters that are not digits
NewLine == Byte + 1

\* decode_hex_digit takes all the letters: 16 more digits and some.
Digits == 0..2 * D

-----------------------------------------------------------------------------
(* Encoding.                                                               *)
SumOf(s) == FoldLeft(LAMBDA a, b : a + b, 0, s)

\* MUTANT: the length is left out of the checksum.
weak_checksum(body) == (body[1] - SumOf(body)) % Byte

checksum(body) == (-SumOf(body)) % Byte

\* write_record: a line of text.
write_record(address, type, data) ==
    LET body == <<Len(data) % Byte, (address \div Byte) % Byte, address % Byte, type % Byte>>
                \o data
        line == Append(body, checksum(body))
    IN <<Colon>> \o FlattenSeq([i \in 1..Len(line) |-> <<line[i] \div D, line[i] % D>>])
       \o <<NewLine>>

Slice(s, from, n) == SubSeq(s, from + 1, Min({from + n, Len(s)}))

\* MUTANT: the address goes on counting in the next bank.
count_on(address) == address

wrap(address) == address % BankSize

\* encode(): a full bank is followed by the record of the next bank at once.
encode(file) ==
    LET step(e, k) ==
          LET data == Slice(file, k * D, D)
              next == e.address + Len(data)
              line == write_record(e.address, 0, data)
          IN IF next >= BankSize
             THEN [bank |-> e.bank + 1, address |-> wrap(next),
                   text |-> e.text \o line \o write_record(0, D + e.bank + 1, <<>>)]
             ELSE [e EXCEPT !.address = next, !.text = @ \o line]
        chunks == (Len(file) + D - 1) \div D
        last == FoldLeft(step, [bank |-> 0, address |-> 0, text |-> <<>>],
                         [k \in 1..chunks |-> k - 1])
    IN last.text \o write_record(0, 1, <<>>)

\* One record of xsputn: the bank changes before the first byte of the next
\* one, and no record reaches over the end of a bank.
xsputn_record(e) ==
    IF e.rest = <<>> THEN e
    ELSE LET full == e.offset >= BankSize
             seg  == IF full THEN e.segment + 1 ELSE e.segment
             off  == IF full THEN 0 ELSE e.offset
             n    == Min({D, Len(e.rest), BankSize - off})
         IN [segment |-> seg, offset |-> off + n,
             rest |-> SubSeq(e.rest, n + 1, Len(e.rest)),
             text |-> e.text \o (IF full THEN write_record(0, D + seg, <<>>) ELSE <<>>)
                      \o write_record(off, 0, SubSeq(e.rest, 1, n))]

xsputn(e, s) == FoldLeft(LAMBDA x, k : xsputn_record(x), [e EXCEPT !.rest = s],
                         [k \in 1..Len(s) |-> k])

\* A stream that starts at a segment, gets some writes and is closed.
HexfileOutputFilter(segment, writes) ==
    LET new == [segment |-> segment, offset |-> 0, rest |-> <<>>,
                text |-> IF segment > 0 THEN write_record(0, D + segment, <<>>) ELSE <<>>]
    IN FoldLeft(xsputn, new, writes).text \o write_record(0, 1, <<>>)

-----------------------------------------------------------------------------
(* Decoding.                                                               *)
VARIABLES text,      \* the characters still to come
          original,  \* the image the text was made from, and whether it is intact
          state,     \* hfd->state
          nibble,    \* hfd->nibble
          record,    \* the record_position first bytes of hfd->record
          length,    \* hfd->record_length
          base,      \* base of both callbacks
          eof,       \* eof of both callbacks
          image,     \* the output file: position -> byte, where it was written
          start, end,  \* the mapper's
          printed,   \* the ranges map_print has printed
          misjudged, \* whether a data record was mapped shorter than it is
          fate       \* "feed", then how the program ended

hfd == <<state, nibble, record, length>>
sink == <<base, eof, image>>
mapper == <<start, end, printed, misjudged>>
hexvars == <<text, original, hfd, sink, mapper, fate>>

Fail(why) == fate' = why /\ UNCHANGED <<hfd, sink, mapper>>

\* hfd_callback with type 0: the file is written at base + offset, and what
\* is left out reads as zeros.
WriteImage(at, data) ==
    image' = [p \in DOMAIN image \cup (at..at + Len(data) - 1) |->
                IF p >= at /\ p < at + Len(data) THEN data[p - at + 1] ELSE image[p]]

map_print == printed' = IF end > start THEN Append(printed, <<start, end>>) ELSE printed

\* map_callback with type 0.  The end is counted from the rounded position.
MapData(at, len) ==
    LET from == (at \div D) * D
        to   == ((from + len) \div D) * D + D - 1
    IN /\ IF from < start \/ from > end + 1
          THEN map_print /\ start' = from /\ end' = to
          ELSE end' = Max({end, to}) /\ UNCHANGED <<start, printed>>
       /\ misjudged' = (misjudged \/ (at % D) + ((from + len) % D) > D)

\* MUTANT: the mapper starts anew without printing.
MapBankSilently(to) == start' = to /\ end' = to /\ UNCHANGED <<printed, misjudged>>

\* map_callback with type 0x10 and above.
MapBank(to) ==
    IF end # to THEN map_print /\ start' = to /\ end' = to /\ UNCHANGED misjudged
                ELSE UNCHANGED mapper

RightSum(rec) == SumOf(rec) % Byte = 0

RecordDone == state' = "NONE" /\ record' = <<>> /\ length' = 0 /\ UNCHANGED nibble

\* handle_raw_record and the callback.
HandleRecord(rec) ==
    LET type == rec[4]
        at   == base + rec[2] * Byte + rec[3]
        data == SubSeq(rec, 5, 4 + rec[1])
        ok   == RightSum(rec) /\ ~eof
    IN \/ /\ ok
          /\ \/ type = 0 /\ WriteImage(at, data) /\ MapData(at, Len(data)) /\ UNCHANGED <<base, eof>>
             \/ type = 1 /\ eof' = TRUE /\ UNCHANGED <<base, image, mapper>>
             \/ type >= D /\ base' = (type - D) * BankSize /\ MapBank(base')
                /\ UNCHANGED <<eof, image>>
          /\ RecordDone /\ UNCHANGED fate
       \/ (~ok \/ type \in 2..D - 1) /\ Fail("error")

FirstDigit(ch) ==
    /\ nibble' = ch /\ state' = "NIBBLE"
    /\ UNCHANGED <<record, length, sink, mapper, fate>>

\* The second digit completes a byte, the first byte fixes the length of the
\* record and the last byte completes it; a record that would fill the whole
\* buffer runs into an assertion.
SecondDigit(ch) ==
    LET rec == Append(record, (nibble * D + ch) % Byte)
        len == IF Len(rec) = 1 THEN 5 + rec[1] ELSE length
    IN \/ /\ Len(rec) = len /\ len < Byte /\ HandleRecord(rec)
       \/ /\ Len(rec) = len /\ len >= Byte /\ Fail("assertion")
       \/ /\ Len(rec) # len
          /\ record' = rec /\ length' = len /\ state' = "RECORD"
          /\ UNCHANGED <<nibble, sink, mapper, fate>>

\* A character of hexfile_decoder_feed.  Between records everything up to a
\* colon is skipped.
Feed ==
    /\ fate = "feed" /\ text # <<>>
    /\ text' = Tail(text) /\ UNCHANGED original
    /\ LET ch == Head(text) IN
       \/ /\ state = "NONE" /\ ch = Colon
          /\ state' = "RECORD" /\ UNCHANGED <<nibble, record, length, sink, mapper, fate>>
       \/ state = "NONE" /\ ch # Colon /\ UNCHANGED <<hfd, sink, mapper, fate>>
       \/ state # "NONE" /\ (ch \notin Digits \/ Len(record) = Byte) /\ Fail("error")
       \/ state = "RECORD" /\ ch \in Digits /\ Len(record) < Byte /\ FirstDigit(ch)
       \/ state = "NIBBLE" /\ ch \in Digits /\ Len(record) < Byte /\ SecondDigit(ch)

\* hexfile_decoder_close, and the test for the EOF record.
Close ==
    /\ fate = "feed" /\ text = <<>>
    /\ fate' = IF state = "NONE" /\ eof THEN "done" ELSE "error"
    /\ UNCHANGED <<text, original, hfd, sink, mapper>>

HexNext == Feed \/ Close

HexInit ==
    /\ \E t \in Texts : text = t.text /\ original = [image |-> t.image, intact |-> t.intact]
    /\ state = "NONE" /\ nibble = 0 /\ record = <<>> /\ length = 0
    /\ base = 0 /\ eof = FALSE /\ image = <<>>
    /\ start = 0 /\ end = 0 /\ printed = <<>> /\ misjudged = FALSE /\ fate = "feed"

HexSpec == HexInit /\ [][HexNext]_hexvars /\ WF_hexvars(HexNext)

-----------------------------------------------------------------------------
HexTypeOK ==
    /\ state \in {"NONE", "RECORD", "NIBBLE"} /\ Len(record) <= Byte
    /\ state = "NONE" => record = <<>> /\ length = 0
    /\ Len(record) < length \/ record = <<>>
    /\ \A p \in DOMAIN image : image[p] \in 0..Byte - 1
    /\ fate \in {"feed", "done", "error", "assertion"}

\* The image read back: the byte at p, and a zero where nothing was written.
ByteAt(p) == IF p \in DOMAIN image THEN image[p] ELSE 0

\* What the decoder writes when it reports success is the image the text was
\* made from, byte for byte and no longer: for every text an encoder makes,
\* however it was cut into writes, and for the same text with any digit
\* damaged but those of a length.  (Not so for an image of more banks than
\* the type byte can number.)
DecodesToOriginal ==
    fate = "done" => /\ \A p \in DOMAIN original.image : ByteAt(p - 1) = original.image[p]
                   /\ \A p \in DOMAIN image : p < Len(original.image)

\* Whether p lies in a range of the map, printed or under way.
Listed(p) == \/ start < end /\ start <= p /\ p <= end
             \/ \E i \in DOMAIN printed : printed[i][1] <= p /\ p <= printed[i][2]

\* A place in the map, or just behind one.
Near(p) == \/ Listed(p)
           \/ misjudged /\ \E q \in (p - D + 2)..(p - 1) : Listed(q)

\* Every byte of the image lies in a range of the map, even when banks change
\* and records overlap or come in any order.  Where a record begins within a
\* paragraph of D bytes and ends in another one, its last bytes may be missing:
\* fewer than a paragraph, right behind a range.  (The program ends without
\* printing the range under way.)
MapCoversImage == \A p \in DOMAIN image : Near(p)

\* Every hexfile an encoder makes is accepted.
EncodedIsAccepted == <>(fate = "done" \/ (fate # "feed" /\ ~original.intact))
=============================================================================
