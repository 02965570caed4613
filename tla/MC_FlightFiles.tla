----------------------------- MODULE MC_FlightFiles -----------------------------
(* LXN: a buffer of eight bytes, in which the longest packet has half the      *)
(* room.  ZAN: minutes of five seconds, hours of five minutes, days of two     *)
(* hours.                                                                      *)
EXTENDS FlightFiles

P(k, v) == Packet(k, v)
Whole_(s) == [packets |-> s, missing |-> 0, pipe |-> FALSE]
Cut(s, n) == [packets |-> s, missing |-> n, pipe |-> FALSE]

\* A flight with extensions and an event, one with a task and a class packet,
\* one without extensions, one with a bad date, one with an unknown packet.
Long   == << P("start", 2), P("date", 5), P("serial", 1), P("string", 3), P("bconfig", 2), P("origin", 10),
             P("event", 4), P("position", 1), P("bext", 6), P("kconfig", 1), P("position", 2),
             P("bext", 7), P("kext", 1), P("end", 0), P("zeros", 1) >>
Second == << P("string", 2), P("info", 7), P("class", 3), P("task", 20), P("kext", 1), P("zeros", 2),
             P("info", 3), P("class", 5), P("event", 1), P("position", 4), P("position", 5),
             P("kconfig", 0), P("string", 3), P("origin", 3), P("end", 0), P("zeros", 3) >>
Third  == << P("kconfig", 1), P("event", 2), P("position", 1), P("kext", 5), P("position", 2), P("end", 0), P("zeros", 2) >>
BadOne == << P("start", 1), P("position", 3), P("date", 99), P("end", 0), P("zeros", 1) >>
Odd    == << P("start", 1), P("position", 3), P("unknown", 1), P("end", 0), P("zeros", 1) >>

\* A text in front moves every packet against the end of the buffer.
Shifted(s) == { Whole_(<< P("string", n) >> \o s) : n \in 0..5 }

\* More zeros than the buffer has room for.
Padded   == << P("start", 1), P("zeros", 9), P("position", 1), P("end", 0), P("zeros", 1) >>
\* A file of which more and more is missing: the byte behind LXN_END, the
\* LXN_END, a part of the packet before it ...
Short    == { Cut(Long, n) : n \in 1..9 }
Piped    == { [packets |-> s, missing |-> 0, pipe |-> TRUE] : s \in {Long, Padded} }
AllFiles == Shifted(Long) \cup Shifted(Second) \cup Shifted(Third) \cup Shifted(BadOne)
            \cup { Whole_(Odd), Whole_(Padded) } \cup Short \cup Piped

-----------------------------------------------------------------------------
\* What a flight begins with, what it may consist of, and how it ends.
Opening == << Rec("datetime", 0), Rec("basic", 0), Rec("task", 1) >>
Placed == << Rec("position", 5), Rec("quality", TRUE), Rec("altitude", 7) >>
Flown  == { Rec("relative", 1), Rec("relative", 3), Rec("wind", 2), Rec("lzan", "TimeOut"), Rec("baro", 25),
            Rec("gps", 200), Rec("gps", 0 - 200), Rec("position", 9), Rec("quality", FALSE), Rec("altitude", 4) }
Legs   == UNION { [1..n -> Flown] : n \in 1..2 }
Ends   == { Clock(0, 0, 0), Clock(0, 0, 4), Clock(0, 4, 1), Clock(1, 0, 3), Clock(1, 2, 0) }
Ending(e) == << Rec("end", e), Rec("security", 0), Rec("eof", 0) >>

\* Four fixes in between take more than three of these minutes.
Cruise == << Rec("relative", 2), Rec("relative", 1), Rec("wind", 1), Rec("relative", 4), Rec("relative", 0) >>

Whole_Zan == { Opening \o pre \o leg \o mid \o Ending(e) :
                 pre \in {<<>>, Placed}, leg \in Legs, mid \in {<<>>, Cruise}, e \in Ends }
On     == << Rec("lzan", "PowerOn") >>
Leg1   == << Rec("relative", 1), Rec("lzan", "PowerOff") >>

\* Without a date, an end, a security record or any time; with an end before
\* the first record with a time, with records that are not known, and cut off.
Odd_Zan == { On \o Leg1 \o Ending(Clock(1, 0, 0)), Opening \o On \o Leg1 \o << Rec("eof", 0) >>,
             Opening \o Leg1 \o << Rec("end", Clock(0, 4, 0)), Rec("eof", 0) >>, Opening \o Ending(Clock(1, 0, 0)),
             << Rec("end", Clock(1, 1, 1)) >> \o Opening \o Leg1 \o Ending(Clock(1, 0, 0)),
             Opening \o Leg1 \o << Rec("bad", 0) >> \o Ending(Clock(1, 0, 0)),
             Opening \o << Rec("unknown6", 0), Rec("lzan", "odd"), Rec("lzan", "odd") >>, Opening \o Leg1 }

\* What an uninitialised clock may hold.
Leftovers == { Clock(0, 0, 0), Clock(1, 4, 3) }

AllZan == Whole_Zan \cup Odd_Zan
=============================================================================
