----------------------------- MODULE AirspaceConv -----------------------------
(***************************************************************************)
(* airspace-conv: reads airspaces from files of two text formats and       *)
(* writes them to one file, as OpenAir or for the Cenfis                   *)
(* (airspace-conv.cc).  The file is opened first; what happens to it when  *)
(* something fails depends on where that is.                               *)
(***************************************************************************)
EXTENDS CenfisFile

CONSTANTS Formats,       \* the extensions an output file may have
          Lines(_, _, _), \* bound: the lines to come, by input format, reader and the
                         \* airspaces before
          MaxFiles       \* bound: files of input

VARIABLES pc,        \* where main is, or how it ended
          format,    \* out_format
          input,     \* in_format of the file being read
          files,     \* the files of the command line that were not opened
          reader,    \* what the reader has of the airspace it is in
          pending,   \* the airspace read() returned
          writer,    \* the Cenfis writer
          text,      \* the lines of an OpenAir file
          given,     \* the airspaces the writer was given, in order
          output     \* the file: "absent", "open", "flushed"

reading == <<input, files, reader>>
writing == <<writer, text, given>>
vars == <<pc, format, reading, pending, writing, output>>

Init == /\ format \in Formats /\ files \in 1..MaxFiles /\ input = "" /\ pc = "start"
        /\ reader = NewOpenAir /\ pending = <<>> /\ output = "absent"
        /\ writer = NewWriter /\ text = <<>> /\ given = <<>>

Stop(how) == pc' = how /\ UNCHANGED <<format, reading, pending, writing>>

\* What main does with an exception of a reader or of write(): both are
\* deleted and the file with what was written.
Unlink ==
    /\ pc' = "exit 2" /\ output' = "absent" /\ reader' = NewOpenAir /\ pending' = <<>>
    /\ writer' = NewWriter /\ text' = <<>> /\ given' = <<>> /\ UNCHANGED <<format, input, files>>

\* The output file is created; a format that cannot be written removes it.
CreateOutput ==
    /\ pc = "start"
    /\ \/ format \in {"openair", "cenfis"} /\ output' = "open" /\ pc' = "files"
          /\ UNCHANGED <<format, reading, pending, writing>>
       \/ format \notin {"openair", "cenfis"} /\ output' = "absent" /\ Stop("exit 1")

\* The next file of the command line.
OpenInput ==
    /\ pc = "files" /\ files > 0
    /\ \E f \in {"openair", "cenfistext"} :
         /\ input' = f /\ files' = files - 1 /\ pc' = "read"
         /\ reader' = IF f = "openair" THEN NewOpenAir ELSE NewCenfisText
    /\ UNCHANGED <<format, pending, writing, output>>

\* A file that is not there, or of a format without a reader: the output
\* stays as it is.
NoInput == pc = "files" /\ files > 0 /\ (Stop("exit 1") \/ Stop("exit 2")) /\ UNCHANGED output

TakeLine(l) == IF input = "openair" THEN OpenAirLine(reader, l) ELSE CenfisTextLine(reader, l)

\* read() takes a line, and returns an airspace if that ends one.
ReadLine ==
    /\ pc = "read"
    /\ \E l \in Lines(input, reader, given) :
         LET r == TakeLine(l)
         IN /\ r.ok
            /\ reader' = r.reader /\ pending' = r.out
            /\ pc' = IF r.out = <<>> THEN "read" ELSE "write"
    /\ UNCHANGED <<format, input, files, writing, output>>

\* malformed_input
Malformed ==
    /\ pc = "read" /\ \E l \in Lines(input, reader, given) : ~TakeLine(l).ok
    /\ Unlink

\* The file ends: the airspace that is open counts if it has edges, then the
\* next file comes.
EndOfFile ==
    /\ pc = "read"
    /\ \/ /\ reader.as.edges # <<>>
          /\ pending' = <<reader.as>> /\ pc' = "write"
          /\ reader' = IF input = "openair" THEN NewOpenAir ELSE NewCenfisText
       \/ reader.as.edges = <<>> /\ pc' = "files" /\ UNCHANGED <<pending, reader>>
    /\ UNCHANGED <<format, input, files, writing, output>>

\* writer->write: text at once, a record into the buffers.
Write ==
    /\ pc = "write"
    /\ \/ /\ format = "openair" /\ text' = text \o OpenAirLines(pending[1]) /\ UNCHANGED writer
       \/ /\ format = "cenfis" /\ ~TooLong(pending[1]) /\ ~RecordOf(writer, pending[1]).assertion
          /\ writer' = WriteRecord(writer, pending[1]) /\ UNCHANGED text
    /\ given' = Append(given, pending[1]) /\ pending' = <<>> /\ pc' = "read"
    /\ UNCHANGED <<format, reading, output>>

\* container_full is an exception like any other here; the assertion of
\* append_first ends the program.
WriteFails ==
    /\ pc = "write" /\ format = "cenfis"
    /\ \/ TooLong(pending[1]) /\ Unlink
       \/ /\ ~TooLong(pending[1]) /\ RecordOf(writer, pending[1]).assertion
          /\ UNCHANGED output /\ Stop("assertion")

\* flush: the Cenfis file is written here, if it fits; nothing catches the
\* exception if it does not.
Flush ==
    /\ pc = "files" /\ files = 0
    /\ \/ (format = "openair" \/ Layout(writer).length <= FileMax) /\ output' = "flushed" /\ Stop("exit 0")
       \/ format = "cenfis" /\ Layout(writer).length > FileMax /\ UNCHANGED output /\ Stop("container_full")

Next == CreateOutput \/ OpenInput \/ NoInput \/ ReadLine \/ Malformed \/ EndOfFile \/ Write \/ WriteFails \/ Flush

Spec == Init /\ [][Next]_vars

-----------------------------------------------------------------------------
TypeOK ==
    /\ pc \in {"start", "files", "read", "write", "exit 0", "exit 1", "exit 2", "assertion", "container_full"}
    /\ format \in Formats /\ input \in {"", "openair", "cenfistext"} /\ files \in 0..MaxFiles
    /\ Len(pending) <= 1 /\ output \in {"absent", "open", "flushed"}
    /\ Len(writer.records) = Len(writer.index)

\* The item a header field leads to.
ItemsAt(record, field) ==
    {i \in DOMAIN record.items : record.header[field] # None /\ record.items[i].at = record.header[field]}

\* The airspace says its place and class by a field: the field leads to an
\* item with that value, or there is none and no field either.
Says(record, field, present, what, s, n) ==
    IF present THEN \E i \in ItemsAt(record, field) :
                      LET x == record.items[i] IN x.what = what /\ x.s = s /\ x.n = n
    ELSE record.header[field] = None

\* An arc of at least three steps, with both ends in a direction below Turn,
\* that starts at a vertex: it is drawn by the points strictly between.
Clear(edges, i) ==
    edges[i].kind = "arc" =>
      /\ edges[i - 1].kind = "vertex"
      /\ LET c == edges[i].center IN
           /\ Bearing(c, edges[i - 1].end) < Turn /\ Bearing(c, edges[i].end) < Turn
           /\ ((Bearing(c, edges[i].end) - Bearing(c, edges[i - 1].end)) * edges[i].num) % Turn >= 3

Between(start, e) ==
    LET b == Bearing(e.center, start)
        d == ((Bearing(e.center, e.end) - b) * e.num) % Turn
    IN [k \in 1..(d - 1) |-> OnArc(e.center, start, (b + k * e.num) % Turn)]

\* The points of a polygon after the first one.
Outline(edges) ==
    FlattenSeq([i \in DOMAIN edges |->
                  CASE edges[i].kind = "vertex" /\ i = 1 -> <<>>
                    [] edges[i].kind = "vertex" /\ i > 1 -> <<edges[i].end>>
                    [] edges[i].kind = "arc" -> Between(edges[i - 1].end, edges[i]) \o <<edges[i].end>>])

\* A polygon that begins with a vertex of its own and is made of vertices and
\* clear arcs, with as many points as the size of the list can count.
Plain(as) ==
    /\ ~as.underscore /\ as.edges[1].kind = "vertex"
    /\ \A i \in DOMAIN as.edges : as.edges[i].kind \in {"vertex", "arc"}
    /\ \A i \in DOMAIN as.edges : Clear(as.edges, i)
    /\ 4 * Len(Outline(as.edges)) < ByteRange

\* The list of points as a reader of the record finds it: from L on, as many
\* bytes as it says, each point relative to S.
ListOf(record) ==
    LET l == CHOOSE i \in ItemsAt(record, "l") : TRUE
    IN SelectSeq(record.items, LAMBDA x : x.at > record.header["l"]
                                          /\ x.at <= record.header["l"] + record.items[l].n)

\* What was read is what the record says, found by its header: the names, the
\* altitudes, and for a polygon its points in order.  The anchor lies among
\* the points when these are north and east; nothing of an airspace before
\* shows.
RecordsReadBack ==
    \A i \in DOMAIN writer.records :
      LET record == writer.records[i]
          as     == Unpacked(record.of)
      IN /\ Says(record, "an", TRUE, "text", as.name, 0)
         /\ Says(record, "an2", as.an2 # "", "text", as.an2, 0)
         /\ Says(record, "an3", as.an3 # "", "text", as.an3, 0)
         /\ Says(record, "an4", as.an4 # "", "text", as.an4, 0)
         /\ Says(record, "ah", Defined(as.top), "altitude", as.top.ref, as.top.v \div 10)
         /\ Plain(as) =>
              LET first == as.edges[1].end
                  all   == Outline(as.edges)
                  range == {first} \cup {all[k] : k \in DOMAIN all}
              IN /\ Says(record, "s", TRUE, "first", "", first)
                 /\ [k \in DOMAIN ListOf(record) |-> ListOf(record)[k].n] = [k \in DOMAIN all |-> short(all[k] - first)]
                 /\ (\A p \in range : p >= 0) =>
                      \E a \in ItemsAt(record, "ap") : \E p, q \in range :
                        \E between \in p..q : record.items[a].n = short(between - first)

\* No record that is shorter than a bank crosses a limit of a bank, and the
\* index leads to each record or to the 0xff bytes in front of it, which are
\* all there is up to the limit.
BanksHold ==
    \A i \in DOMAIN writer.records :
      LET record == writer.records[i]
          before == IF i = 1 THEN FileHeader ELSE writer.records[i - 1].at + writer.records[i - 1].length
      IN /\ record.length < BankSize => record.at \div BankSize = (record.at + record.length - 1) \div BankSize
         /\ writer.index[i] = short(before)
         /\ record.at # before => record.at % BankSize = 0

\* The sections of a finished file follow each other, end within it, and no
\* number of its header, its index or a record was cut to its width; the index is
\* not in the bank where the records begin.
FileHoldsTogether ==
    format = "cenfis" /\ output = "flushed" =>
      LET f == Layout(writer)
      IN /\ f.asp.offset + f.asp.total_size <= f.index.offset
         /\ f.index.offset + f.index.total_size = f.config.offset
         /\ f.config.offset + f.config.total_size <= f.length
         /\ f.length <= FileMax /\ f.length % 16 = 0
         /\ f.index.offset >= BankSize
         /\ \A i \in DOMAIN writer.records :
              LET record == writer.records[i]
              IN /\ writer.index[i] >= f.asp.offset /\ writer.index[i] <= record.at
                 /\ record.at + record.length <= f.asp.offset + f.asp.total_size

\* What came of an airspace that an OpenAir file can hold.
InOpenAir(as) == [NewAirspace EXCEPT !.type = as.type, !.name = PackedName(as), !.marked = as.marked,
                                     !.bottom = as.bottom, !.top = as.top, !.edges = as.edges]

Rounded(as) == [as EXCEPT !.bottom.v = IF as.bottom.ref = "FL" THEN ((@ + 49) \div 100) * 100 ELSE @,
                          !.top.v = IF as.top.ref = "FL" THEN ((@ + 49) \div 100) * 100 ELSE @]

\* Reading an OpenAir file that airspace-conv wrote brings the airspaces it was
\* written from, whatever they were read from, as long as each arc among them
\* follows a vertex: no class, name, center or direction of one goes over to
\* the next.
OpenAirReadsBack ==
    (format = "openair" /\ \A i \in DOMAIN given : \A k \in DOMAIN given[i].edges : Drawn(given[i].edges, k)) =>
      LET back == OpenAirAirspaces(text)
      IN back.ok /\ back.airspaces = [i \in DOMAIN given |-> Rounded(InOpenAir(given[i]))]
=============================================================================
