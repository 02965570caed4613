------------------------------ MODULE ZanderMemory ------------------------------
(***************************************************************************)
(* The flight memory of a Zander logger as zander.h and zander-logger.c    *)
(* see it: a ring of the addresses First to Limit - 1 (0x30000 to 0x7ffff) *)
(* in which a flight may begin near the end and go on at the beginning.    *)
(***************************************************************************)
EXTENDS Integers

CONSTANTS First, Limit

ASSUME RingAssumption == First \in Nat /\ Limit \in Nat /\ First < Limit

Ring == First..Limit - 1
RingSize == Limit - First   \* the 0x50000 of zander_address_difference

zander_address_valid(a) == a >= First /\ a < Limit

zander_address_difference(a, b) == b - a + (IF a <= b THEN 0 ELSE RingSize)

\* length of download_flight: both ends belong to the flight.
flight_length(a, b) == zander_address_difference(a, b) + 1

-----------------------------------------------------------------------------
(* The ring itself, to measure the above by.                               *)
Step(a, n) == First + ((a - First + n) % RingSize)
=============================================================================
