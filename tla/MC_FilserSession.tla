--------------------------- MODULE MC_FilserSession ---------------------------
(* Bytes of three values: sections of up to 8 bytes, addresses up to 26.     *)
(* The flights begin and end at addresses that read the same from both ends, *)
(* as all multiples of 256 below 65536 do in the code.  A range may reach    *)
(* over all three files, one more than the table of sections has room for.   *)
EXTENDS FilserSession

RoundFlights == <<3, 3, 4>>

\* All files, within one, over the end of one, no bytes, backwards, and past
\* the end of the memory.
SomeRanges == {<<0, 10>>, <<1, 2>>, <<4, 8>>, <<2, 2>>, <<7, 2>>, <<5, 26>>, <<11, 12>>}
=============================================================================
