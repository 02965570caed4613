------------------------------ MODULE FilserMemory ------------------------------
(***************************************************************************)
(* The logger memory fakefilser pretends to have (fakefilser.c).  The LXN  *)
(* files of its data directory lie one after the other from address 0; the *)
(* host names a range with DEF_MEM and the range is cut into at most       *)
(* MaxBlocks sections, one per file it touches.  A byte is a digit of base *)
(* Base (256 in the code), a section length has two of them and an address *)
(* in a DEF_MEM packet three.                                              *)
(***************************************************************************)
EXTENDS Naturals, Sequences, FiniteSets, SequencesExt, FiniteSetsExt

CONSTANTS Lengths,    \* the lengths of the LXN files, in directory order
          Base,       \* the values of a byte
          MaxBlocks   \* the 0x10 entries of mem_blocks

ASSUME MemoryAssumption == /\ Lengths \in Seq(Nat \ {0})
                           /\ Base \in Nat \ {0, 1}
                           /\ MaxBlocks \in Nat \ {0}

Flights == DOMAIN Lengths

\* flight->address of fill_flight_list, and the address after the flight.
flight_address(i) == FoldLeft(LAMBDA a, n : a + n, 0, SubSeq(Lengths, 1, i - 1))
flight_end(i) == flight_address(i) + Lengths[i]
MemorySize == flight_address(Len(Lengths) + 1)

\* What the bytes of an address are worth, address0 of an index entry first;
\* seek_mem puts the three of them into the DEF_MEM packet.
Worth == <<1, Base, Base * Base>>
def_mem_packet(a) == [k \in 1..3 |-> (a \div Worth[k]) % Base]

\* handle_def_mem takes the first byte of the packet as the highest one.
decoded_address(p) == p[3] * Worth[1] + p[2] * Worth[2] + p[1] * Worth[3]

\* The files a range touches.
Touched(first, last) ==
    {i \in Flights : first < last /\ flight_address(i) < last /\ flight_end(i) > first}

\* MUTANT: the first section starts where its file does.
WholeFiles(first, last) ==
    [n \in 1..Min({MaxBlocks, Cardinality(Touched(first, last))}) |->
       LET i == Min(Touched(first, last)) + n - 1 IN
       [flight |-> i, offset |-> 0, length |-> Min({last, flight_end(i)}) - flight_address(i)]]

\* handle_get_mem_section: from the file that holds the first address on,
\* every file the range touches gives a block.
mem_blocks(first, last) ==
    [n \in 1..Min({MaxBlocks, Cardinality(Touched(first, last))}) |->
       LET i    == Min(Touched(first, last)) + n - 1
           from == Max({first, flight_address(i)})
       IN [flight |-> i, offset |-> from - flight_address(i),
           length |-> Min({last, flight_end(i)}) - from]]

\* The lengths travel as 16 bit numbers.
section_lengths(blocks) == [n \in DOMAIN blocks |-> blocks[n].length % Worth[3]]
=============================================================================
