------------------------------- MODULE ZanderIgc -------------------------------
(***************************************************************************)
(* zan2igc and igc2zan: zander-igc.c reads a ZAN file twice.  Its records  *)
(* tell how much time has passed and the file tells at its end when it     *)
(* ended, so the first pass only counts, and the second one, from the      *)
(* first record that has a time, writes.  At last the file is dumped as G  *)
(* records, from which igc2zan gets it back.                               *)
(***************************************************************************)
EXTENDS Integers, Sequences, SequencesExt, FiniteSetsExt

CONSTANTS ZanFiles,       \* the files: sequences of records
          Sixty,          \* 60
          HoursADay,      \* 24
          OnTheStack      \* what an uninitialised clock may say

ASSUME ClockAssumption == Sixty \in Nat /\ Sixty >= 4 /\ HoursADay \in Nat \ {0}

VARIABLES zan,    \* the file being converted
          at,     \* which of its records is next
          local,  \* the variables of zander_to_igc, and what it has written
          step,   \* where zan2igc and igc2zan are
          back    \* what igc2zan has written

zanvars == <<zan, at, local, step, back>>

Rec(k, v) == [kind |-> k, value |-> v]
Clock(h, m, s) == [hour |-> h, minute |-> m, second |-> s]

\* Adds less than a minute.
zander_time_add(t, seconds) ==
    LET s == t.second + seconds
    IN CASE s < Sixty                          -> [t EXCEPT !.second = s]
         [] s >= Sixty /\ t.minute + 1 < Sixty -> Clock(t.hour, t.minute + 1, s - Sixty)
         [] OTHER                              -> Clock(t.hour + 1, t.minute + 1 - Sixty, s - Sixty)

\* MUTANT: a borrow is not taken from the minute.
SubtractNoBorrow(dest, src) ==
    LET Minus(a, b, turn) == IF b > a THEN a + turn - b ELSE a - b
    IN Clock(Minus(dest.hour, src.hour, HoursADay), Minus(dest.minute, src.minute, Sixty),
             Minus(dest.second, src.second, Sixty))

\* The borrow of the seconds wraps the minute around, and that of the minutes
\* the hour; the first one does not go on to the hour.
zander_time_sub(dest, src) ==
    LET Minus(a, b, turn) == IF b > a THEN a + turn - b ELSE a - b
        minute == IF src.second > dest.second THEN (dest.minute + Sixty - 1) % Sixty ELSE dest.minute
        hour   == IF src.minute > minute THEN (dest.hour + HoursADay - 1) % HoursADay ELSE dest.hour
    IN Clock(Minus(hour, src.hour, HoursADay), Minus(minute, src.minute, Sixty),
             Minus(dest.second, src.second, Sixty))

-----------------------------------------------------------------------------
(* zander_to_igc: what a record does to the clock, the fix and the output. *)
NoFix == [place |-> 0, baro |-> 0, gps |-> 0, good |-> FALSE]

\* A line of the .igc file with the time and a fix or another value.
IgcLine(what, t, v) == [what |-> what, time |-> t, value |-> v]
Written(c, line) == [c EXCEPT !.lines = Append(@, line)]
NoTime == Clock(0, 0, 0)

\* The first record with a time is where the second pass will start.
Timed(c, i) == [c EXCEPT !.first = IF @ = 0 THEN i ELSE @]
Generate(c) == c.first < 0

\* A relative fix of which the place is not valid has the value 0.
Moved(fix, n) == [fix EXCEPT !.place = @ + n, !.baro = @ + 1, !.gps = @ + 8]
Shown(fix) == [fix EXCEPT !.gps = IF fix.good THEN @ ELSE 0]

read_relative(c, p) ==
    LET t == zander_time_add(c.clock, 4)
        f == Moved(c.fix, p.value)
    IN IF Generate(c) THEN Written([c EXCEPT !.clock = t, !.fix = f], IgcLine("B", t, Shown(f)))
                      ELSE [c EXCEPT !.clock = t]

read_wind(c, p) == IF Generate(c) THEN Written(c, IgcLine("K", c.clock, p.value)) ELSE c

\* Power on, power off, and the second of a time-out; written in both passes.
read_lzan(c, p) ==
    LET t == IF p.value = "TimeOut" THEN zander_time_add(c.clock, 1) ELSE c.clock
    IN Written([c EXCEPT !.clock = t], IgcLine("LZAN", t, p.value))

\* The second pass begins with the time of the end less the duration.
StartTime(c, end) == zander_time_sub(end, zander_time_add(c.clock, 2))

AfterRecord(c, p, i) ==
    CASE p.kind = "relative" -> read_relative(Timed(c, i), p)
      [] p.kind = "wind"     -> read_wind(Timed(c, i), p)
      [] p.kind = "lzan"     -> IF c.first = 0 THEN Timed(c, i) ELSE read_lzan(c, p)
      [] p.kind = "baro"     -> IF Generate(c) THEN [c EXCEPT !.fix.baro = @ + p.value] ELSE c
      [] p.kind = "gps"      -> IF Generate(c) THEN [c EXCEPT !.fix.gps = @ + p.value] ELSE c
      [] p.kind = "position" -> [c EXCEPT !.fix.place = p.value]
      [] p.kind = "altitude" -> [c EXCEPT !.fix.baro = p.value]
      [] p.kind = "quality"  -> [c EXCEPT !.fix.good = p.value]
      [] p.kind = "datetime" -> [c EXCEPT !.clock = NoTime]
      [] p.kind = "end"      -> IF c.first > 0 THEN [c EXCEPT !.clock = StartTime(c, p.value), !.first = -1] ELSE c
      [] p.kind = "basic"    -> Written(c, IgcLine("A", NoTime, p.value))
      [] p.kind = "task"     -> Written(c, IgcLine("C", NoTime, p.value))
      [] p.kind = "security" -> Written(Written(c, IgcLine("G", NoTime, p)), IgcLine("G", NoTime, p))
      [] OTHER               -> c   \* the records nobody knows the meaning of

Malformed(c, p) == p.kind = "bad" \/ (p.kind = "lzan" /\ p.value = "odd" /\ c.first # 0)

\* A round of the loop.
ReadRecord ==
    /\ step = "convert" /\ at <= Len(zan) /\ zan[at].kind # "eof" /\ ~Malformed(local, zan[at])
    /\ local' = AfterRecord(local, zan[at], at)
    /\ at' = IF zan[at].kind = "end" /\ local.first > 0 THEN local.first ELSE at + 1
    /\ UNCHANGED <<zan, step, back>>

\* A record that is not known, or the end of the file where there should be
\* another one: zan2igc removes the .igc file.
ReadFails ==
    /\ step = "convert" /\ (at <= Len(zan) => Malformed(local, zan[at]))
    /\ step' = "removed" /\ local' = [local EXCEPT !.lines = <<>>] /\ UNCHANGED <<zan, at, back>>

\* ZAN_CMD_EOF.  A line of the dump has a record here, 32 bytes in the code.
hexdump_g ==
    /\ step = "convert" /\ at <= Len(zan) /\ zan[at].kind = "eof"
    /\ local' = [local EXCEPT !.lines = @ \o [i \in DOMAIN zan |-> IgcLine("G", NoTime, zan[i])]]
    /\ step' = "igc" /\ UNCHANGED <<zan, at, back>>

\* igc2zan: the first two G records are those of the security record.
decode_hex_to_file ==
    /\ step = "igc" /\ step' = "zan"
    /\ LET g == SelectSeq(local.lines, LAMBDA l : l.what = "G")
       IN back' = [i \in 1..Len(g) - 2 |-> g[i + 2].value]
    /\ UNCHANGED <<zan, at, local>>

ZanNext == ReadRecord \/ ReadFails \/ hexdump_g \/ decode_hex_to_file

Locals(t) == [clock |-> t, fix |-> NoFix, first |-> 0, lines |-> <<>>]

ZanInit == /\ zan \in ZanFiles /\ at = 1 /\ step = "convert" /\ back = <<>>
           /\ \E t \in OnTheStack : local = Locals(t)

-----------------------------------------------------------------------------
ZanTypeOK == /\ zan \in ZanFiles /\ at \in 1..Len(zan) + 1 /\ local.first \in -1..Len(zan)
             /\ step \in {"convert", "removed", "igc", "zan"}

Has(k) == {i \in DOMAIN zan : zan[i].kind = k}
TimeRecords == Has("relative") \cup Has("wind") \cup Has("lzan")
TheEnd == CHOOSE i \in Has("end") : TRUE
FirstTime == Min(TimeRecords)
IsTimeOut(p) == p.kind = "lzan" /\ p.value = "TimeOut"

\* A file as the loggers write it: the date, the flight, its end, a security
\* record.  The first record with a time is no time-out, which the first pass
\* would not count, and no counter comes before it, which neither would.
Plain ==
    /\ Has("datetime") = {1} /\ Cardinality(Has("end")) = 1 /\ Cardinality(Has("security")) = 1
    /\ TimeRecords # {} /\ \A i \in TimeRecords : i < TheEnd
    /\ \A i \in Has("security") : i > TheEnd
    /\ ~IsTimeOut(zan[FirstTime])
    /\ \A i \in Has("baro") \cup Has("gps") : i > FirstTime

Seconds(t) == (t.hour * Sixty + t.minute) * Sixty + t.second
Spent(i) == 4 * Cardinality({j \in Has("relative") : j <= i})
            + Cardinality({j \in 1..i : IsTimeOut(zan[j])})
TimeAt(i) == (Seconds(zan[TheEnd].value) - 2 - (Spent(TheEnd) - Spent(i))) % (HoursADay * Sixty * Sixty)

\* The duration takes more seconds than the time of the end has, and its
\* minute is zero: the hour is one too many.
LostBorrow == LET e == zan[TheEnd].value IN e.minute = 0 /\ (Spent(TheEnd) + 2) % Sixty > e.second

\* A time, but for the day it should have wrapped at.
IsTime(t, i) ==
    /\ t.minute * Sixty + t.second = TimeAt(i) % (Sixty * Sixty)
    /\ LostBorrow \/ t.hour % HoursADay = TimeAt(i) \div (Sixty * Sixty)

\* The last record of a kind up to i, or 0, and what others add behind it.
LastOf(k, i) == Max({0} \cup {j \in Has(k) : j <= i})
Sum(S) == MapThenSumSet(LAMBDA j : zan[j].value, S)

FixAt(i) ==
    LET p == LastOf("position", i)
        a == LastOf("altitude", i)
        q == LastOf("quality", i)
        Between(k, j) == {n \in Has(k) : j < n /\ n <= i}
    IN [place |-> (IF p = 0 THEN 0 ELSE zan[p].value) + Sum(Between("relative", p)),
        baro  |-> (IF a = 0 THEN 0 ELSE zan[a].value) + Sum(Between("baro", a))
                  + Cardinality(Between("relative", a)),
        gps   |-> IF q = 0 \/ ~zan[q].value THEN 0
                  ELSE Sum(Between("gps", 0)) + 8 * Cardinality(Between("relative", 0)),
        good  |-> q # 0 /\ zan[q].value]

\* Nothing that the first pass has read behind the first record with a time
\* is left when the fix is written.
Fresh(i) == \A k \in {"position", "altitude", "quality"} :
               LastOf(k, TheEnd) > FirstTime => FirstTime < LastOf(k, i)

\* The fixes and the winds of a file are written once each, in their order,
\* with their time before the end, and at the place the records before them
\* lead to, whatever the first pass has left behind; and igc2zan gives the
\* file back.
FlightIsTold ==
    step = "zan" /\ Plain =>
      LET timed == SelectSeq(local.lines, LAMBDA l : l.what \in {"B", "K"})
          order == SetToSortSeq(Has("relative") \cup Has("wind"), <)
      IN /\ Len(timed) = Len(order)
         /\ \A n \in DOMAIN order :
              LET i == order[n] IN
              /\ IsTime(timed[n].time, i)
              /\ zan[i].kind = "relative" /\ Fresh(i) => timed[n].value = FixAt(i)
              /\ zan[i].kind = "wind" => timed[n].what = "K"
         /\ back = zan
=============================================================================
