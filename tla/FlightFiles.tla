------------------------------ MODULE FlightFiles ------------------------------
(***************************************************************************)
(* The converters of flights: lxn2igc for the files of LX loggers, zan2igc *)
(* and igc2zan for those of Zander loggers.  They share no code; one of    *)
(* them runs, and what the other one would work on is not there.           *)
(***************************************************************************)
EXTENDS LxnToIgc, ZanderIgc

NoFile == [packets |-> <<>>, missing |-> 0, pipe |-> FALSE]

\* The variables of the converter that does not run.
NoLxn == /\ lxn = NoFile /\ input = <<>> /\ buffer = <<>> /\ consumed = 0 /\ eof = TRUE
         /\ reader = NewReader /\ conv = NewConverter /\ records = <<>> /\ kept = TRUE /\ stage = "not run"
NoZan == zan = <<>> /\ at = 1 /\ local = Locals(NoTime) /\ step = "not run" /\ back = <<>>

FlightInit == (LxnInit /\ NoZan) \/ (NoLxn /\ ZanInit)

FlightNext == \/ LxnNext /\ UNCHANGED zanvars
              \/ ZanNext /\ UNCHANGED lxnvars

FlightSpec == FlightInit /\ [][FlightNext]_<<lxnvars, zanvars>>

FlightTypeOK == (LxnTypeOK /\ NoZan) \/ (NoLxn /\ ZanTypeOK)
=============================================================================
