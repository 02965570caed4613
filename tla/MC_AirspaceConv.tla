--------------------------- MODULE MC_AirspaceConv ----------------------------
(* Positions 0, 7 and, south or west, -5; a turn of six steps; banks of 112  *)
(* bytes with a file header of 16, lists of less than 32 bytes.  Up to three *)
(* airspaces with four edges or attributes beyond the plain ones in all.     *)
EXTENDS AirspaceConv

CONSTANTS MaxAirspaces, MaxParts

Center == 2

MCBearing(c, p) == CASE p = 0 -> 0 [] p = 7 -> 4 [] p = -5 -> Turn [] OTHER -> 2
MCOnArc(c, start, a) == c + <<1, 4, 2, -1, 0, 3>>[a + 1]

FileInfoText == "X304"
LongName == "A NAME THAT IS TOO LONG FOR A STRING"

\* What an airspace has beyond a class R, its edges and a name of one letter.
Extras(as) ==
    Cardinality({f \in {"type", "name", "marked", "an2", "an3", "an4", "bottom", "top", "top2",
                        "frequency", "voice"} : as[f] # NewAirspace[f]})
    - (IF as.type = "R" THEN 1 ELSE 0) - (IF as.bottom = Altitude(0, "GND") THEN 1 ELSE 0)

Parts(as) == Len(as.edges) + Extras(as)
Room(r, got) == FoldLeft(LAMBDA n, as : n + Parts(as), Parts(r.as), got) < MaxParts

When(b, lines) == IF b THEN lines ELSE {}

Common == {Line("AN", "N", 0, 0), Line("AN", LongName, 0, 0), Line("AL", "MSL", 2500, 0), Line("AH", "FL", 6500, 0)}

OpenAirEdges(r) ==
    {Line("DP", "", p, 0) : p \in {7, -5}} \cup {Line("DB", "", 0, 7), Line("DB", "", 7, 7)}
    \cup {Line("DC", "", 3, 0), Line("DA", "", 0, 0)}
    \cup When(r.x = <<>>, {Line("V X", "", Center, 0)})
    \cup When(r.x # <<>> /\ r.direction = 1, {Line("V D", "", -1, 0)})

CenfisEdges ==
    {Line("S", "", p, 0) : p \in {0, -5}} \cup {Line("L", "", 7, 0), Line("C", "", Center, 3)}
    \cup {Line("A", s, 7, Center) : s \in {"+", "-"}}

MCLines(fmt, r, got) ==
    When(Len(got) < MaxAirspaces,
         {Blank, Line("junk", "", 0, 0)}
         \cup When(r.as.type = "UNKNOWN" \/ r.as.edges # <<>> \/ r.skip, {Line("AC", "R", 0, 0)})
         \cup When(r.as.edges = <<>> /\ Room(r, got), Common \cup {Line("AC", "Q", 0, 0), Line("AC", "E", 0, 0)})
         \cup (IF fmt = "openair"
               THEN When(Room(r, got) /\ got = <<>>, {Line("SP", "", 0, 0)})
                    \cup When(r.as.edges = <<>> /\ Room(r, got), {Line("AN", "N", 1, 0)})
                    \cup When(Room(r, got), OpenAirEdges(r))
               ELSE When(r.as.edges = <<>> /\ Room(r, got),
                         {Line("AN2", "T", 0, 0), Line("AN3", "HX", 0, 0), Line("AN4", "ED", 0, 0),
                          Line("AH", "FL", 4950, 0), Line("AH2", "MSL", 100, 0), Line("V", "", 1, 0),
                          Line("FIS", "", 123450, 0)})
                    \cup When(Room(r, got), CenfisEdges)))
=============================================================================
