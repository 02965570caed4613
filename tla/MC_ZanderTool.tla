------------------------------ MODULE MC_ZanderTool ------------------------------
(* A ring of six addresses from 4 on; the list is at 2 and 3.                *)
EXTENDS ZanderTool

\* One that wraps around, a short one, one in the middle, the whole ring, one
\* whose end is no address of the ring, and one byte.  fakezander has the
\* second, the third and the last one; it is silent for the first and exits at
\* the fourth.
RingFlights == << <<8, 5>>, <<6, 7>>, <<5, 7>>, <<4, 9>>, <<7, 12>>, <<6, 6>> >>

\* Two questions at once, and one that ends fakezander if it has no file.
SomeRaw == { <<"READ_LI_BATTERY", "READ_SERIAL">>, <<"READ_PERSONAL_DATA">> }
=============================================================================
