----------------------------- MODULE AirspaceText -----------------------------
(***************************************************************************)
(* The text formats airspace-conv reads and writes: OpenAir               *)
(* (airspace-openair-reader.cc, airspace-openair-writer.cc) and the text   *)
(* format of the Cenfis (airspace-cenfis-txt-reader.cc).  A reader takes   *)
(* one line at a time; what it has collected is a record, and an airspace  *)
(* leaves it when a line ends it.                                          *)
(*                                                                         *)
(* A position is one number, the latitude and the longitude being treated  *)
(* alike, in seconds: both readers round so that seconds come back as      *)
(* seconds.  An altitude is in feet.                                       *)
(***************************************************************************)
EXTENDS Integers, Sequences, SequencesExt

\* A line: its command, a word, and up to two numbers.
Line(cmd, s, n, m) == [cmd |-> cmd, s |-> s, n |-> n, m |-> m]
Blank == Line("", "", 0, 0)

Altitude(v, ref) == [v |-> v, ref |-> ref]
NoAltitude == Altitude(0, "UNKNOWN")
Defined(alt) == alt.ref # "UNKNOWN"

\* class Edge: a vertex has an end, a circle a center and a radius (num), an
\* arc an end, a center and a sign (num).
Edge(kind, end, center, num) == [kind |-> kind, end |-> end, center |-> center, num |-> num]
Vertex(p) == Edge("vertex", p, 0, 0)
Circle(c, r) == Edge("circle", 0, c, r)
Arc(sign, end, center) == Edge("arc", end, center, sign)

\* class Airspace.  A name can be "marked": it has a prefix ED-R or ED-D and
\* ends in (TRA) (HX), which the Cenfis has fields for.  an2 to an4 and ac are
\* what the Cenfis text reader packs into the name.
NewAirspace ==
    [type |-> "UNKNOWN", name |-> "", marked |-> FALSE, an2 |-> "", an3 |-> "", an4 |-> "", ac |-> "",
     dash |-> FALSE, underscore |-> FALSE, bottom |-> NoAltitude, top |-> NoAltitude,
     top2 |-> NoAltitude, edges |-> <<>>, frequency |-> 0, voice |-> 0]

Letters == {"A", "B", "C", "D", "E", "W", "F", "CTR", "TMZ", "R", "Q", "GSEC"}

\* parse_type, a type being named by the word the OpenAir writer has for it.
parse_type(s) == CASE s \in {"TRA", "GP"} -> "R"
                   [] s \in Letters       -> s
                   [] OTHER               -> "UNKNOWN"

\* A reader in the middle of an airspace: x and direction are the variables of
\* OpenAir (x has been set when it is not empty), "skip" says that skip() has
\* the line, "s" is has_start.
Reader(as) == [as |-> as, x |-> <<>>, direction |-> 1, skip |-> FALSE, s |-> FALSE]
Goes(r) == [reader |-> r, out |-> <<>>, ok |-> TRUE]
Leaves(r, as) == [reader |-> r, out |-> <<as>>, ok |-> TRUE]
malformed_input == [reader |-> Reader(NewAirspace), out |-> <<>>, ok |-> FALSE]

AddEdges(r, es) == [r EXCEPT !.as.edges = @ \o es]

-----------------------------------------------------------------------------
(* OpenAir.                                                                *)

NewOpenAir == Reader(NewAirspace)

\* An AC line ends an airspace that has a class and edges already: the line
\* is put back and begins the next one, of which nothing is known yet.
StartClass(r, s) ==
    IF r.as.type # "UNKNOWN" /\ r.as.edges # <<>>
    THEN Leaves([NewOpenAir EXCEPT !.as.type = parse_type(s)], r.as)
    ELSE Goes([r EXCEPT !.as.type = parse_type(s)])

last_edge_equals(edges, p) == edges # <<>> /\ Last(edges) = Vertex(p)

\* DB: the start becomes a vertex of its own unless it is there, and the
\* direction holds for one arc.
ThreePointArc(r, start, end) ==
    LET vertex == IF last_edge_equals(r.as.edges, start) THEN <<>> ELSE <<Vertex(start)>>
    IN [AddEdges(r, vertex \o <<Arc(r.direction, end, r.x[1])>>) EXCEPT !.direction = 1]

\* skip() ends with an empty line or a line AC, both of which it has taken.
Skipping(r, l) == Goes([r EXCEPT !.skip = l.cmd \notin {"", "AC"}])

\* A line of an airspace that is not skipped.
Command(r, l) ==
    CASE l.cmd = ""    -> IF r.as.edges = <<>> THEN Goes(r) ELSE Leaves(NewOpenAir, r.as)
      [] l.cmd = "AC"  -> StartClass(r, l.s)
      [] l.cmd = "AN"  -> Goes([r EXCEPT !.as.name = l.s, !.as.marked = l.n = 1])
      [] l.cmd = "AL"  -> Goes([r EXCEPT !.as.bottom = Altitude(l.n, l.s)])
      [] l.cmd = "AH"  -> Goes([r EXCEPT !.as.top = Altitude(l.n, l.s)])
      [] l.cmd = "DP"  -> Goes(AddEdges(r, <<Vertex(l.n)>>))
      [] l.cmd = "V X" -> Goes([r EXCEPT !.x = <<l.n>>])
      [] l.cmd = "V D" -> Goes([r EXCEPT !.direction = l.n])
      [] l.cmd = "DC" /\ r.x # <<>> -> Goes(AddEdges(r, <<Circle(r.x[1], l.n)>>))
      [] l.cmd = "DA" /\ r.x # <<>> -> Goes(r)
      [] l.cmd = "DB" /\ r.x # <<>> -> Goes(ThreePointArc(r, l.n, l.m))
      [] l.cmd = "SP"  -> Goes([r EXCEPT !.skip = TRUE])
      [] OTHER         -> malformed_input

\* What read_internal and skip() do with a line.
OpenAirLine(r, l) == IF r.skip THEN Skipping(r, l) ELSE Command(r, l)

\* The altitude of a line: FL in hundreds of feet, rounded.
AltitudeLine(cmd, alt) ==
    Line(cmd, alt.ref, IF alt.ref = "FL" THEN ((alt.v + 49) \div 100) * 100 ELSE alt.v, 0)

\* MUTANT: the direction is written after the arc.
DirectionLast(e, prev) ==
    <<Line("V X", "", e.center, 0), Line("DB", "", prev.end, e.end)>>
    \o (IF e.num < 0 THEN <<Line("V D", "", -1, 0)>> ELSE <<>>)

write_arc(e, prev) ==
    (IF e.num < 0 THEN <<Line("V D", "", -1, 0)>> ELSE <<>>)
    \o <<Line("V X", "", e.center, 0), Line("DB", "", prev.end, e.end)>>

\* An arc can only be written after a vertex, where it starts.
Drawn(edges, i) == edges[i].kind = "arc" => i > 1 /\ edges[i - 1].kind = "vertex"

EdgeLines(edges, i) ==
    CASE edges[i].kind = "vertex" -> <<Line("DP", "", edges[i].end, 0)>>
      [] edges[i].kind = "circle" -> <<Line("V X", "", edges[i].center, 0), Line("DC", "", edges[i].num, 0)>>
      [] edges[i].kind = "arc" /\ Drawn(edges, i)  -> write_arc(edges[i], edges[i - 1])
      [] edges[i].kind = "arc" /\ ~Drawn(edges, i) -> <<>>

\* The name the Cenfis text reader gives to an airspace: its parts between
\* bars, as far as there are any, with a dash before an AN2 that came after
\* AN4 and an underscore before the class when there was an L before any S.
PackedName(as) ==
    LET class == (IF as.underscore THEN "_" ELSE "") \o as.ac
        from(i) == \E j \in i..4 : <<as.an2, as.an3, as.an4, class>>[j] # ""
    IN as.name \o (IF from(1) THEN "|" \o (IF as.dash THEN "-" ELSE "") \o as.an2 ELSE "")
               \o (IF from(2) THEN "|" \o as.an3 ELSE "")
               \o (IF from(3) THEN "|" \o as.an4 ELSE "")
               \o (IF from(4) THEN "|" \o class ELSE "")

\* OpenAirAirspaceWriter::write.
OpenAirLines(as) ==
    <<Line("AC", as.type, 0, 0)>>
    \o (IF PackedName(as) # "" THEN <<Line("AN", PackedName(as), IF as.marked THEN 1 ELSE 0, 0)>> ELSE <<>>)
    \o (IF Defined(as.bottom) THEN <<AltitudeLine("AL", as.bottom)>> ELSE <<>>)
    \o (IF Defined(as.top) THEN <<AltitudeLine("AH", as.top)>> ELSE <<>>)
    \o FlattenSeq([i \in DOMAIN as.edges |-> EdgeLines(as.edges, i)])
    \o <<Blank>>

\* The airspaces OpenAirAirspaceReader::read brings from a text: the one that
\* is open when the text ends counts when it has edges.
OpenAirAirspaces(text) ==
    LET Add(x, l) == LET y == OpenAirLine(x.reader, l)
                     IN [reader |-> y.reader, got |-> x.got \o y.out, ok |-> x.ok /\ y.ok]
        end == FoldLeft(Add, [reader |-> NewOpenAir, got |-> <<>>, ok |-> TRUE], text)
        open == IF end.reader.as.edges = <<>> THEN <<>> ELSE <<end.reader.as>>
    IN [ok |-> end.ok, airspaces |-> end.got \o open]

-----------------------------------------------------------------------------
(* The text format of the Cenfis.                                          *)

NewCenfisText == Reader([NewAirspace EXCEPT !.bottom = Altitude(0, "GND")])

\* L before any S: the class is marked, unless it is already.
ListPoint(r, p) ==
    LET a == AddEdges(r, <<Vertex(p)>>) IN IF r.s THEN a ELSE [a EXCEPT !.as.underscore = TRUE]

\* CenfisTextAirspaceReader::read, with a line.  AC sets the class and takes
\* the mark of an L before it away; AN2 after AN4 is marked.
CenfisTextLine(r, l) ==
    CASE l.cmd = ""    -> IF r.as.edges = <<>> THEN Goes(r) ELSE Leaves(NewCenfisText, r.as)
      [] l.cmd = "AC"  -> Goes([r EXCEPT !.as.ac = l.s, !.as.type = parse_type(l.s), !.as.underscore = FALSE])
      [] l.cmd = "AN"  -> Goes([r EXCEPT !.as.name = l.s])
      [] l.cmd = "AN2" -> Goes([r EXCEPT !.as.an2 = l.s, !.as.dash = r.as.an4 # ""])
      [] l.cmd = "AN3" -> Goes([r EXCEPT !.as.an3 = l.s])
      [] l.cmd = "AN4" -> Goes([r EXCEPT !.as.an4 = l.s])
      [] l.cmd = "AL"  -> Goes([r EXCEPT !.as.bottom = Altitude(l.n, l.s)])
      [] l.cmd = "AH"  -> Goes([r EXCEPT !.as.top = Altitude(l.n, l.s)])
      [] l.cmd = "AH2" -> Goes([r EXCEPT !.as.top2 = r.as.top, !.as.top = Altitude(l.n, l.s)])
      [] l.cmd = "S"   -> Goes([AddEdges(r, <<Vertex(l.n)>>) EXCEPT !.s = TRUE])
      [] l.cmd = "L"   -> Goes(ListPoint(r, l.n))
      [] l.cmd = "C"   -> Goes(AddEdges(r, <<Circle(l.n, l.m)>>))
      [] l.cmd = "A"   -> Goes(AddEdges(r, <<Arc(IF l.s = "+" THEN 1 ELSE -1, l.n, l.m)>>))
      [] l.cmd = "V"   -> Goes([r EXCEPT !.as.voice = l.n])
      [] l.cmd = "FIS" -> Goes([r EXCEPT !.as.frequency = l.n])
      [] OTHER         -> malformed_input
=============================================================================
