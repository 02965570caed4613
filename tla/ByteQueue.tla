------------------------------ MODULE ByteQueue ------------------------------
(***************************************************************************)
(* What a byte FIFO promises its two users, without saying where the bytes *)
(* live: bytes come out in the order they went in, room is offered until   *)
(* the queue holds Capacity bytes, and a reader may take what it was shown *)
(* until the next writer turn.  FifoBuffer implements it.                  *)
(***************************************************************************)
EXTENDS Naturals, Sequences

CONSTANTS Byte,     \* the values a cell can hold
          Capacity  \* how many of them fit

VARIABLES queue,    \* the bytes written and not yet taken, oldest first
          granted,  \* how many bytes the writer may still add
          shown     \* how many bytes the reader was shown and has not taken

vars == <<queue, granted, shown>>

\* The sequences of at most n bytes.
Chunk(n) == UNION {[1..m -> Byte] : m \in 0..n}

Init == queue = <<>> /\ granted = 0 /\ shown = 0

Reset == queue' = <<>> /\ granted' = 0 /\ shown' = 0

\* The reader looks at everything that is there.
Look == /\ queue # <<>>
        /\ shown' = Len(queue)
        /\ UNCHANGED <<queue, granted>>

Take(n) == /\ queue' = SubSeq(queue, n + 1, Len(queue))
           /\ shown' = shown - n
           /\ UNCHANGED granted

\* The writer asks for room; only a full queue refuses.
Offer == /\ shown' = 0
         /\ \/ Len(queue) = Capacity /\ granted' = 0
            \/ granted' \in 1..(Capacity - Len(queue))
         /\ UNCHANGED queue

Put(s) == /\ queue' = queue \o s
          /\ granted' = granted - Len(s)
          /\ UNCHANGED shown

Next == \/ Reset
        \/ Look
        \/ \E n \in 0..shown : Take(n)
        \/ Offer
        \/ \E s \in Chunk(granted) : Put(s)

Spec == Init /\ [][Next]_vars
=============================================================================
