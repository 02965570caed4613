------------------------------ MODULE FifoBuffer ------------------------------
(***************************************************************************)
(* fifo-buffer.c: a linear buffer of `size' bytes with a start and an end  *)
(* offset.  fifo_buffer_read and fifo_buffer_write hand out pointers into  *)
(* it; `view' and `granted' are what the callers (flarm-recv.c) still hold *)
(* of those pointers.  Their discipline is the one flarm-recv.c follows:   *)
(* consume only what was read, append only what was granted, and no use of *)
(* a read pointer across a write or of any pointer across a clear.         *)
(***************************************************************************)
EXTENDS Naturals, Sequences

CONSTANTS Byte, Size

ASSUME SizeAssumption == Size \in Nat \ {0}

VARIABLES mem,      \* buffer->buffer
          start,    \* buffer->start
          end,      \* buffer->end
          granted,  \* what is left of the *max_length_r of the last write
          view      \* the reader's pointer and the bytes it saw there

fifo_vars == <<mem, start, end, granted, view>>

Offsets == 0..(Size - 1)

Chunk(n) == UNION {[1..m -> Byte] : m \in 0..n}

NoView == [at |-> 0, bytes |-> <<>>]

\* The bytes between the two offsets, oldest first.
Contents == [i \in 1..(end - start) |-> mem[start + i - 1]]

-----------------------------------------------------------------------------
\* malloc leaves the cells with whatever they held.
fifo_buffer_new == /\ mem \in [Offsets -> Byte]
                   /\ start = 0 /\ end = 0
                   /\ granted = 0 /\ view = NoView

fifo_buffer_clear == /\ start' = 0 /\ end' = 0
                     /\ granted' = 0 /\ view' = NoView
                     /\ UNCHANGED mem

fifo_buffer_read == /\ start # end
                    /\ view' = [at |-> start, bytes |-> Contents]
                    /\ UNCHANGED <<mem, start, end, granted>>

\* MUTANT: consuming slides the rest down at once.
ConsumeMoves(n) ==
    /\ start' = 0
    /\ end' = end - (start + n)
    /\ mem' = [c \in Offsets |->
                 IF c < end - (start + n) THEN mem[start + n + c] ELSE mem[c]]
    /\ view' = [at |-> view.at + n,
                bytes |-> SubSeq(view.bytes, n + 1, Len(view.bytes))]
    /\ UNCHANGED granted

fifo_buffer_consume(n) ==
    /\ start' = start + n
    /\ view' = [at |-> view.at + n,
                bytes |-> SubSeq(view.bytes, n + 1, Len(view.bytes))]
    /\ UNCHANGED <<mem, end, granted>>

\* MUTANT: the offsets are reset but the bytes stay where they were.
MoveForgetsBytes ==
    /\ start' = 0
    /\ end' = end - start
    /\ UNCHANGED mem

\* The memmove of everything unread to the front.
fifo_buffer_move ==
    /\ start' = 0
    /\ end' = end - start
    /\ mem' = [c \in Offsets |->
                 IF c < end - start THEN mem[start + c] ELSE mem[c]]

\* MUTANT: the room before `start' is counted as room after `end'.
WriteCountsConsumed ==
    /\ view' = NoView
    /\ IF end = Size
       THEN fifo_buffer_move
       ELSE UNCHANGED <<mem, start, end>>
    /\ granted' = Size - (end' - start')

\* Compacts only when the tail is used up, starts over when all was read;
\* returns NULL (granted = 0) when a full buffer has nothing to compact.
fifo_buffer_write ==
    /\ view' = NoView
    /\ \/ end = Size /\ fifo_buffer_move
       \/ end # Size /\ start = end /\ start' = 0 /\ end' = 0 /\ UNCHANGED mem
       \/ end # Size /\ start # end /\ UNCHANGED <<mem, start, end>>
    /\ granted' = Size - end'

\* The caller has filled the first Len(s) bytes of its window.
fifo_buffer_append(s) ==
    /\ mem' = [c \in Offsets |->
                 IF c \in end..(end + Len(s) - 1) THEN s[c - end + 1] ELSE mem[c]]
    /\ end' = end + Len(s)
    /\ granted' = granted - Len(s)
    /\ UNCHANGED <<start, view>>

FifoNext == \/ fifo_buffer_clear
        \/ fifo_buffer_read
        \/ \E n \in 0..Len(view.bytes) : fifo_buffer_consume(n)
        \/ fifo_buffer_write
        \/ \E s \in Chunk(granted) : fifo_buffer_append(s)

FifoSpec == fifo_buffer_new /\ [][FifoNext]_fifo_vars

-----------------------------------------------------------------------------
\* The state of the buffer and of its callers' pointers is well-formed.
FifoTypeOK == /\ mem \in [Offsets -> Byte]
          /\ start \in Nat /\ end \in Nat /\ granted \in Nat
          /\ view \in [at : Nat, bytes : Seq(Byte)]

\* The assertions of fifo-buffer.c (77, 91, 92, 115, 135, 136) can never
\* fire, whatever the callers do within their discipline: what was read can
\* be consumed and what was granted can be appended, in any order.
AssertionsHold ==
    /\ start <= end /\ end <= Size
    /\ view.bytes # <<>> => start + Len(view.bytes) <= end
    /\ end + granted <= Size

\* A pointer from fifo_buffer_read stays good until the next write: appends
\* and partial consumes in between neither move nor overwrite the bytes
\* behind it, and it keeps pointing at the first unconsumed byte.
ReadPointerStable ==
    view.bytes # <<>> =>
        /\ view.at = start
        /\ \A i \in 1..Len(view.bytes) : mem[view.at + i - 1] = view.bytes[i]

\* The buffer is the FIFO queue its users take it for: moving and restarting
\* lose, repeat or reorder nothing, and write refuses only a full buffer.
Queue == INSTANCE ByteQueue
         WITH queue <- Contents, Capacity <- Size, shown <- Len(view.bytes)

RefinesByteQueue == Queue!Spec
=============================================================================
