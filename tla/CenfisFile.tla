------------------------------ MODULE CenfisFile ------------------------------
(***************************************************************************)
(* The binary airspace file of the Cenfis: airspace-cenfis-writer.cc and   *)
(* cenfis-buffer.cc.  A record is a table of offsets and a sequence of     *)
(* items, each with its place and its numbers.  Records lie in banks and   *)
(* are listed by an index, and three things outlive an airspace because    *)
(* they are static: the sum of its coordinates, the number of points of    *)
(* the last arc and the first vertex.                                      *)
(*                                                                         *)
(* The geometry is left to two operators: the direction of a point from a  *)
(* center in steps of 10 degrees, and the point of an arc in a direction.  *)
(***************************************************************************)
EXTENDS AirspaceText

CONSTANTS BankSize,      \* 0x8000
          FileHeader,    \* sizeof(struct cenfis_airspace_file_header), 0x200
          RecordHeader,  \* sizeof(struct cenfis_airspace_header), 30
          FileInfo,      \* the string only the first record has
          ConfigSize,    \* the bytes of the configuration, 0xe2
          FileMax,       \* 0x10000
          ByteRange,     \* 2^8
          ShortRange,    \* 2^16
          UnsignedRange, \* 2^32
          Turn,          \* 36 steps of 10 degrees
          Bearing(_, _), \* arc_angle_deg10: from a center to a point, 0..Turn
          OnArc(_, _, _) \* a center, a start and a direction

ASSUME SizesAssumption ==
    /\ {BankSize, FileHeader, RecordHeader, ConfigSize, FileMax, ByteRange, ShortRange,
        UnsignedRange, Turn} \subseteq Nat \ {0}
    /\ FileHeader < BankSize /\ FileMax <= ShortRange

Fields == {"ac", "s", "ap", "c", "an", "an2", "an3", "al", "ah", "l", "fis", "an4", "file_info"}
None == -1  \* 0xffff, and 0xff bytes

-----------------------------------------------------------------------------
(* A record under construction.                                            *)

\* A CenfisBuffer with the header made, and the statics it starts with.
\* "rel" is firstVertex and "arc_start" the pointer of that name, both empty
\* for NULL; "list" is l_size_offset.
NewRecord(w, has_first) ==
    [pos |-> RecordHeader, header |-> [f \in Fields |-> None], items |-> <<>>, list |-> 0,
     rel |-> IF has_first THEN <<>> ELSE <<w.vertex>>, arc_start |-> <<>>, num_vertices |-> 0,
     sum |-> w.sum, num_points |-> w.num_points, vertex |-> w.vertex, assertion |-> FALSE]

\* The header field for what is appended next.
Mark(c, field) == [c EXCEPT !.header[field] = c.pos]

\* An item: what it is, a word, two numbers, and how many bytes it takes.
Put(c, what, s, n, m, size) ==
    [c EXCEPT !.pos = @ + size,
              !.items = Append(@, [at |-> c.pos, what |-> what, s |-> s, n |-> n, m |-> m])]

\* A point of the airspace counts for the anchor.
Count(c, p) == [c EXCEPT !.sum = @ + p, !.num_vertices = @ + 1]

short(n) == n % ShortRange

\* append(pos, rel)
AddPoint(c, p) == Count(Put(c, "point", "", short(p - c.rel[1]), 0, 4), p)

\* append_circle: the center is where an arc would start.
AddCircle(c, e) ==
    [Count(Put(c, "circle", "", e.center, e.num, 11), e.center) EXCEPT !.arc_start = <<e.center>>]

\* MUTANT: the sum goes on from airspace to airspace.
FirstWithoutReset(c, p) ==
    LET s == Put(Mark(c, "s"), "first", "", p, 0, 9)
        l == Put(Mark(s, "l"), "size", "", None, 0, 1)
    IN [Count(l, p) EXCEPT !.list = s.pos, !.rel = <<p>>, !.vertex = p, !.arc_start = <<p>>,
                           !.assertion = c.num_vertices # 0]

\* The first vertex: S, the size of the list of points, and the list begins.
\* append_first asserts that nothing was counted, so that no circle came before.
AddFirst(c, p) ==
    LET s == Put(Mark([c EXCEPT !.sum = 0], "s"), "first", "", p, 0, 9)
        l == Put(Mark(s, "l"), "size", "", None, 0, 1)
    IN [Count(l, p) EXCEPT !.list = s.pos, !.rel = <<p>>, !.vertex = p, !.arc_start = <<p>>,
                           !.assertion = c.num_vertices # 0]

deg10_add(angle, add) ==
    CASE angle + add < 0                -> Turn - 1
      [] angle + add > Turn - 1         -> 0
      [] angle + add \in 0..(Turn - 1)  -> angle + add

\* How many steps lie between the first and the last point of an arc.  When
\* they are the same the number of the arc before stays.
Steps(sign, from, to, before) == IF from = to THEN before ELSE ((to - from) * sign) % Turn

\* append_arc, from the vertex before: points every 10 degrees, and the end.
\* num_points is one more afterwards.
AddArc(c, e) ==
    LET start == c.arc_start[1]
        from  == deg10_add(Bearing(e.center, start), e.num)
        to    == deg10_add(Bearing(e.center, e.end), -e.num)
        n     == Steps(e.num, from, to, c.num_points)
        ring  == [i \in 1..(n + 1) |-> OnArc(e.center, start, (from + e.num * (i - 1)) % Turn)]
    IN [FoldLeft(AddPoint, c, ring \o <<e.end>>) EXCEPT !.num_points = n + 1]

\* append(edge, firstVertex); an arc with nowhere to start is left out.
AddRelative(c, e) ==
    CASE e.kind = "vertex" -> [AddPoint(c, e.end) EXCEPT !.arc_start = <<e.end>>]
      [] e.kind = "circle" -> AddCircle(c, e)
      [] e.kind = "arc" /\ c.arc_start # <<>> -> AddArc(c, e)
      [] e.kind = "arc" /\ c.arc_start = <<>> -> c

\* The loop over the edges: until there is a first vertex a circle can come,
\* and an arc is dropped.
AddEdge(c, e) ==
    CASE c.rel # <<>>                        -> AddRelative(c, e)
      [] c.rel = <<>> /\ e.kind = "circle"   -> AddCircle(Mark(c, "c"), e)
      [] c.rel = <<>> /\ e.kind = "vertex"   -> AddFirst(c, e.end)
      [] c.rel = <<>> /\ e.kind = "arc"      -> c

\* A signed sum divided by an unsigned number, which makes the sum unsigned;
\* the result is an int again.
UnsignedDivision(sum, n) ==
    LET q == (sum % UnsignedRange) \div n IN IF 2 * q >= UnsignedRange THEN q - UnsignedRange ELSE q

\* append_anchor: what is left in the sum is what the next airspace starts
\* with if it has no first vertex.  There is a point: S, L or C made it.
AddAnchor(c) ==
    LET anchor == UnsignedDivision(c.sum, c.num_vertices) - c.rel[1]
    IN Put([Mark(c, "ap") EXCEPT !.sum = anchor], "anchor", "", short(anchor), 0, 5)

\* The size of the list of points, one byte wide.
SizeList(c) ==
    [c EXCEPT !.items = [i \in DOMAIN @ |->
                           IF @[i].what = "size" THEN [@[i] EXCEPT !.n = (c.pos - c.list - 1) % ByteRange]
                           ELSE @[i]]]

Finish(c) == IF c.rel = <<>> THEN SizeList(c) ELSE AddAnchor(SizeList(c))

-----------------------------------------------------------------------------
(* CenfisAirspaceWriter::write.                                            *)

\* AirspaceTypeToString, for the types that are not ignored.
Ignored == {"UNKNOWN", "E", "W", "GSEC"}
TypeWord(type) == IF type = "Q" THEN "D" ELSE type

\* What goes before the edges: a header field or none, and an item.
Piece(field, what, s, n, size) == [field |-> field, what |-> what, s |-> s, n |-> n, size |-> size]
Text(field, s) == Piece(field, "text", s, 0, 1 + Len(s))
AltitudePiece(field, alt) == Piece(field, "altitude", alt.ref, alt.v \div 10, 4)
Only(b, piece) == IF b THEN <<piece>> ELSE <<>>

Packed(as) == "" # as.an2 \o as.an3 \o as.an4 \o as.ac

\* The parts of a marked name that have fields of their own; the prefix stays
\* unless it goes with the type.
Unpacked(as) ==
    CASE Packed(as) -> as
      [] ~Packed(as) /\ ~as.marked -> as
      [] ~Packed(as) /\ as.marked /\ as.type \in {"R", "Q"} ->
           [as EXCEPT !.an2 = "TRA", !.an3 = "HX", !.an4 = "ED"]
      [] ~Packed(as) /\ as.marked /\ as.type \notin {"R", "Q"} ->
           [as EXCEPT !.an2 = "TRA", !.an3 = "HX", !.name = "ED-R" \o @]

\* The pieces in their order.  AN2 comes after AN4 where it did in the text;
\* a second upper bound has no field; a lower bound of 0 GND is left out.
PiecesOf(as, first) ==
    <<Text("ac", IF as.ac # "" THEN as.ac ELSE TypeWord(as.type))>>
    \o Only(first, Text("file_info", FileInfo))
    \o <<Text("an", as.name)>>
    \o Only(as.an2 # "" /\ ~as.dash, Text("an2", as.an2))
    \o Only(as.an3 # "", Text("an3", as.an3))
    \o Only(as.an4 # "", Text("an4", as.an4))
    \o Only(as.an2 # "" /\ as.dash, Text("an2", as.an2))
    \o Only(Defined(as.bottom) /\ as.bottom # Altitude(0, "GND"), AltitudePiece("al", as.bottom))
    \o Only(Defined(as.top2), AltitudePiece("", as.top2))
    \o Only(Defined(as.top), AltitudePiece("ah", as.top))
    \o Only(as.frequency > 0, Piece("fis", "frequency", "", as.frequency \div 25, 3))

AddPiece(c, p) ==
    LET m == IF p.field = "" THEN c ELSE Mark(c, p.field) IN Put(m, p.what, p.s, p.n, 0, p.size)

RecordOf(w, as) ==
    LET head == FoldLeft(AddPiece, NewRecord(w, ~as.underscore), PiecesOf(Unpacked(as), w.first))
    IN Finish(FoldLeft(AddEdge, head, as.edges))

\* A Pascal string has a length of one byte: container_full.
TooLong(as) == \E i \in DOMAIN PiecesOf(Unpacked(as), FALSE) :
                 LET p == PiecesOf(Unpacked(as), FALSE)[i] IN p.what = "text" /\ Len(p.s) >= ByteRange

\* MUTANT: auto_bank_switch forgets where the buffer begins in the file.
PaddingInBuffer(pos, length) ==
    LET there == (pos - FileHeader + length) \div BankSize
    IN IF (pos - FileHeader) \div BankSize = there THEN 0 ELSE there * BankSize - (pos - FileHeader)

\* auto_bank_switch: how many bytes 0xff come before a record.
Padding(pos, length) ==
    LET there == (pos + length) \div BankSize
    IN IF pos \div BankSize = there THEN 0 ELSE there * BankSize - pos

\* The writer: "size" is airspace_buffer.tell(), "records" what is in that
\* buffer and where, with the airspace each stands for (for the properties).
NewWriter == [first |-> TRUE, size |-> 0, records |-> <<>>, index |-> <<>>,
              sum |-> 0, num_points |-> 0, vertex |-> 0]

\* The index has the place before the padding.
WriteRecord(w, as) ==
    LET c  == RecordOf(w, as)
        at == FileHeader + w.size + Padding(FileHeader + w.size, c.pos)
    IN IF as.type \in Ignored THEN w
       ELSE [first |-> FALSE, size |-> at + c.pos - FileHeader,
             records |-> Append(w.records, [at |-> at, length |-> c.pos, header |-> c.header,
                                            items |-> c.items, voice |-> as.voice, of |-> as]),
             index |-> Append(w.index, short(FileHeader + w.size)),
             sum |-> c.sum, num_points |-> c.num_points, vertex |-> c.vertex]

-----------------------------------------------------------------------------
(* CenfisAirspaceWriter::flush.                                            *)

Section(offset, size, n) == [offset |-> offset, total_size |-> short(size), num_elements |-> n]

\* MUTANT: the index begins where the records end, in their bank.
NoFill(end) == end

\* The index does not begin in the first bank.
IndexOffset(end) == IF end < BankSize THEN BankSize ELSE end

\* The file header and how long the file is, padded to 0x10.
Layout(w) ==
    LET index  == IndexOffset(FileHeader + w.size)
        config == index + 2 * Len(w.index)
        end    == config + ConfigSize
    IN [asp    |-> Section(FileHeader, w.size, Len(w.index)),
        index  |-> Section(index, 2 * Len(w.index), Len(w.index)),
        config |-> Section(config, ConfigSize, ConfigSize \div 4),
        length |-> end + ((-end) % 16)]
=============================================================================
