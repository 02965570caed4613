------------------------------ MODULE MC_Hexfile ------------------------------
(* Digits of three values: bytes 0..8, records of three bytes and a record   *)
(* buffer of nine.  Files of up to three banks of six bytes.                 *)
EXTENDS Hexfile

Image(n) == [i \in 1..n |-> (5 * i) % Byte]
Text(t, s) == [text |-> t, image |-> s, intact |-> TRUE]
Zeros(n) == [i \in 1..n |-> 0]

Encoded == {Text(encode(Image(n)), Image(n)) : n \in 0..14}

\* An image from segment 0 or 1 on, written in pieces of a and b bytes.
Filtered ==
    {Text(HexfileOutputFilter(s, <<Image(a), Image(b)>>), Zeros(s * BankSize) \o Image(a) \o Image(b)) :
       s \in 0..1, a \in 1..7, b \in {1, 2, 4, 6}}

Whole == Encoded \cup Filtered

\* The places of the digits of addresses, types, data and checksums.
Body(t) == LET colons == {i \in 1..Len(t.text) : t.text[i] = Colon}
           IN {i \in 1..Len(t.text) : t.text[i] < Byte /\ \A c \in colons : i \notin c..c + 2}

\* One of them is replaced or lost, or the text ends early.
Damaged(t) == {[t EXCEPT !.text[i] = d, !.intact = FALSE] : i \in Body(t), d \in Digits}
              \cup {[t EXCEPT !.text = RemoveAt(@, i), !.intact = FALSE] : i \in Body(t)}
              \cup {[t EXCEPT !.text = SubSeq(t.text, 1, n), !.intact = FALSE] : n \in 0..Len(t.text) - 2}

Noisy == UNION {Damaged(t) : t \in {Text(encode(Image(n)), Image(n)) : n \in {2, 4, 8}}}

All == Whole \cup Noisy
=============================================================================
