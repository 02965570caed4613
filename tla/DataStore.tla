------------------------------- MODULE DataStore -------------------------------
(***************************************************************************)
(* What a directory of databases promises to who writes and reads it       *)
(* through a device (datadir.c behind fakefilser.c): a register for each   *)
(* file.  While a write has not been acknowledged the file may hold what   *)
(* it did, what was offered, or nothing that can be read; once it has been *)
(* it holds what was written until the next write is offered.              *)
(***************************************************************************)
CONSTANTS Names,     \* the files
          Contents,  \* what a file may hold
          Nothing    \* what cannot be read: no file, or a part of one

VARIABLES kept,      \* file -> its contents
          hope,      \* file -> what it may hold as far as a client knows
          unsure     \* the files with a write nobody has acknowledged

store == <<kept, hope, unsure>>

Init == /\ kept \in [Names -> Contents \cup {Nothing}]
        /\ hope = [n \in Names |-> {kept[n]} \ {Nothing}]
        /\ unsure = {}

Offer(n, c) == /\ hope' = [hope EXCEPT ![n] = @ \cup {c}]
               /\ unsure' = unsure \cup {n}
               /\ UNCHANGED kept

\* The write is under way: the old contents go, the new ones come.
Drop(n) == n \in unsure /\ kept' = [kept EXCEPT ![n] = Nothing] /\ UNCHANGED <<hope, unsure>>

Take(n, c) == /\ n \in unsure /\ c \in hope[n]
              /\ kept' = [kept EXCEPT ![n] = c] /\ UNCHANGED <<hope, unsure>>

Acknowledge(n, c) == /\ kept[n] = c
                     /\ hope' = [hope EXCEPT ![n] = {c}] /\ unsure' = unsure \ {n}
                     /\ UNCHANGED kept

Next == \E n \in Names :
           \/ Drop(n)
           \/ \E c \in Contents : Offer(n, c) \/ Take(n, c) \/ Acknowledge(n, c)

Spec == Init /\ [][Next]_store
=============================================================================
