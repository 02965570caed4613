---------------------------- MODULE MC_FilserTool ----------------------------
(* Two databases in two pieces each, and two flights; a range over both, and *)
(* one from the middle of a file over the end of the memory.  The addresses  *)
(* read the same from both ends, see MC_FilserSession.                       *)
EXTENDS FilserTool

TwoFlights == <<3, 7>>
SomeRanges == {<<0, 10>>, <<6, 13>>}
=============================================================================
