----------------------------- MODULE Flarm_proofs -----------------------------
(***************************************************************************)
(* The FLARM receiver and the buffer under it.                             *)
(*                                                                         *)
(* For every Size and every set of byte values: the assertions of          *)
(* fifo-buffer.c hold, read pointers stay valid, and the buffer implements *)
(* the FIFO queue.  The inductive invariant is the conjunction of the      *)
(* three invariants of FifoBuffer: the bounds need to know that a held     *)
(* view lies inside the contents, and the refinement needs both.           *)
(*                                                                         *)
(* For every number of requests and tries, every loss and every size of    *)
(* the frame buffer: what a command works on is what the device answered   *)
(* to that request, a whole frame is returned at once, and nothing that    *)
(* was read is left when flarmtool waits.  The argument looks at what is   *)
(* still to come: in the bytes read and those on the line the header of    *)
(* the current answer is followed by the payload or by less, and so it is  *)
(* when the header has gone into the frame.                                *)
(***************************************************************************)
EXTENDS FlarmLink, FifoBuffer, SequenceLemmas

-----------------------------------------------------------------------------
FifoIInv == FifoTypeOK /\ AssertionsHold /\ ReadPointerStable

-----------------------------------------------------------------------------
\* A chunk is a sequence, with its length in range.
LEMMA ChunkIsSeq ==
    ASSUME NEW n \in Nat, NEW s \in Chunk(n)
    PROVE  s \in Seq(Byte) /\ Len(s) \in 0..n /\ s \in [1..Len(s) -> Byte]
<1>1. PICK m \in 0..n : s \in [1..m -> Byte]
  BY DEF Chunk
<1>2. s \in Seq(Byte)
  BY <1>1, SeqDef
<1>3. Len(s) = m
  BY <1>1, <1>2, LenProperties
<1>. QED
  BY <1>1, <1>2, <1>3

\* Offsets s to e - 1 of a buffer, read as a sequence.
Window(m, s, e) == [i \in 1..(e - s) |-> m[s + i - 1]]

LEMMA WindowIsSeq ==
    ASSUME NEW m \in [Offsets -> Byte], NEW s \in Nat, NEW e \in Nat,
           s <= e, e <= Size
    PROVE  /\ Window(m, s, e) \in Seq(Byte)
           /\ Len(Window(m, s, e)) = e - s
           /\ \A i \in 1..(e - s) : Window(m, s, e)[i] = m[s + i - 1]
<1>1. e - s \in Nat
  OBVIOUS
<1>2. \A i \in 1..(e - s) : m[s + i - 1] \in Byte
  <2>1. \A i \in 1..(e - s) : s + i - 1 \in Offsets
    BY SizeAssumption DEF Offsets
  <2>. QED
    BY <2>1
<1>3. Window(m, s, e) \in [1..(e - s) -> Byte]
  BY <1>2 DEF Window
<1>4. Window(m, s, e) \in Seq(Byte)
  BY <1>1, <1>3, SeqDef
<1>5. Len(Window(m, s, e)) = e - s
  BY <1>1, <1>3, <1>4, LenProperties
<1>. QED
  BY <1>4, <1>5 DEF Window

\* The contents are the window between the two offsets.
LEMMA ContentsIsSeq ==
    ASSUME FifoTypeOK, AssertionsHold
    PROVE  /\ Contents = Window(mem, start, end)
           /\ Contents \in Seq(Byte)
           /\ Len(Contents) = end - start
           /\ \A i \in 1..(end - start) : Contents[i] = mem[start + i - 1]
<1>1. Contents = Window(mem, start, end)
  BY DEF Contents, Window
<1>. QED
  BY <1>1, WindowIsSeq, ZenonT(60) DEF FifoTypeOK, AssertionsHold

\* What a partial consume leaves of a view.
LEMMA RestOfView ==
    ASSUME NEW s \in Seq(Byte), NEW n \in 0..Len(s)
    PROVE  /\ SubSeq(s, n + 1, Len(s)) \in Seq(Byte)
           /\ Len(SubSeq(s, n + 1, Len(s))) = Len(s) - n
           /\ \A i \in 1..(Len(s) - n) : SubSeq(s, n + 1, Len(s))[i] = s[n + i]
<1>1. Len(s) \in Nat /\ \A i \in 1..Len(s) : s[i] \in Byte
  BY LenProperties, ElementOfSeq
<1>2. \A i \in (n + 1)..Len(s) : s[i] \in Byte
  BY <1>1
<1>. QED
  BY <1>1, <1>2, SubSeqProperties

\* An empty view is no view.
LEMMA EmptyView ==
    FifoTypeOK => /\ Len(view.bytes) \in Nat
              /\ view.bytes = <<>> <=> Len(view.bytes) = 0
<1>. QED
  BY LenProperties, EmptySeq DEF FifoTypeOK

LEMMA InitFifoIInv == fifo_buffer_new => FifoIInv
<1>. SUFFICES ASSUME fifo_buffer_new PROVE FifoIInv
  OBVIOUS
<1>1. FifoTypeOK
  BY EmptySeq DEF fifo_buffer_new, FifoTypeOK, NoView
<1>2. AssertionsHold /\ ReadPointerStable
  BY SizeAssumption DEF fifo_buffer_new, AssertionsHold, ReadPointerStable, NoView
<1>. QED
  BY <1>1, <1>2 DEF FifoIInv

-----------------------------------------------------------------------------
\* One lemma per operation: it preserves the invariant.
LEMMA ClearFifoIInv == FifoIInv /\ fifo_buffer_clear => FifoIInv'
<1>. SUFFICES ASSUME FifoIInv, fifo_buffer_clear PROVE FifoIInv'
  OBVIOUS
<1>. USE DEF fifo_buffer_clear, NoView
<1>1. FifoTypeOK'
  BY EmptySeq DEF FifoIInv, FifoTypeOK
<1>2. AssertionsHold' /\ ReadPointerStable'
  BY SizeAssumption DEF AssertionsHold, ReadPointerStable
<1>. QED
  BY <1>1, <1>2 DEF FifoIInv

LEMMA ReadFifoIInv == FifoIInv /\ fifo_buffer_read => FifoIInv'
<1>. SUFFICES ASSUME FifoIInv, fifo_buffer_read PROVE FifoIInv'
  OBVIOUS
<1>1. /\ Contents \in Seq(Byte)
      /\ Len(Contents) = end - start
      /\ \A i \in 1..(end - start) : Contents[i] = mem[start + i - 1]
  BY ContentsIsSeq DEF FifoIInv
<1>2. view' = [at |-> start, bytes |-> Contents]
      /\ UNCHANGED <<mem, start, end, granted>>
  BY DEF fifo_buffer_read
<1>3. FifoTypeOK'
  BY <1>1, <1>2 DEF FifoIInv, FifoTypeOK
<1>4. AssertionsHold'
  BY <1>1, <1>2 DEF FifoIInv, FifoTypeOK, AssertionsHold
<1>5. ReadPointerStable'
  BY <1>1, <1>2 DEF FifoIInv, ReadPointerStable
<1>. QED
  BY <1>3, <1>4, <1>5 DEF FifoIInv

LEMMA ConsumeFifoIInv ==
    ASSUME FifoIInv, NEW n \in 0..Len(view.bytes), fifo_buffer_consume(n)
    PROVE  FifoIInv'
<1>. DEFINE rest == SubSeq(view.bytes, n + 1, Len(view.bytes))
<1>1. /\ start' = start + n
      /\ view' = [at |-> view.at + n, bytes |-> rest]
      /\ UNCHANGED <<mem, end, granted>>
  BY DEF fifo_buffer_consume
<1>2. view.at \in Nat /\ view.bytes \in Seq(Byte) /\ Len(view.bytes) \in Nat
  BY EmptyView DEF FifoIInv, FifoTypeOK
<1>3. /\ rest \in Seq(Byte)
      /\ Len(rest) = Len(view.bytes) - n
      /\ \A i \in 1..(Len(view.bytes) - n) : rest[i] = view.bytes[n + i]
  BY <1>2, RestOfView
<1>4. FifoTypeOK'
  <2>. HIDE DEF rest
  <2>1. view' \in [at : Nat, bytes : Seq(Byte)]
    BY <1>1, <1>2, <1>3
  <2>2. start' \in Nat
    BY <1>1, <1>2 DEF FifoIInv, FifoTypeOK
  <2>. QED
    BY <1>1, <2>1, <2>2 DEF FifoIInv, FifoTypeOK
<1>5. n = 0 \/ view.bytes # <<>>
  BY <1>2, EmptySeq
<1>6. rest # <<>> => Len(view.bytes) > n
  BY <1>2, <1>3, EmptySeq
<1>. HIDE DEF rest
<1>7. AssertionsHold'
  BY <1>1, <1>2, <1>3, <1>5 DEF FifoIInv, FifoTypeOK, AssertionsHold
<1>8. ReadPointerStable'
  <2>. SUFFICES ASSUME rest # <<>>
       PROVE  /\ view.at + n = start + n
              /\ \A i \in 1..Len(rest) : mem[view.at + n + i - 1] = rest[i]
    BY <1>1 DEF ReadPointerStable
  <2>1. view.bytes # <<>>
    BY <1>2, <1>6, EmptySeq
  <2>2. view.at = start
        /\ \A i \in 1..Len(view.bytes) : mem[view.at + i - 1] = view.bytes[i]
    BY <2>1 DEF FifoIInv, ReadPointerStable
  <2>3. ASSUME NEW i \in 1..Len(rest)
        PROVE  mem[view.at + n + i - 1] = rest[i]
    <3>1. n + i \in 1..Len(view.bytes) /\ i \in 1..(Len(view.bytes) - n)
      BY <1>2, <1>3
    <3>2. mem[view.at + (n + i) - 1] = view.bytes[n + i]
      BY <2>2, <3>1
    <3>3. view.at + (n + i) - 1 = view.at + n + i - 1
      BY <1>2
    <3>. QED
      BY <1>3, <3>1, <3>2, <3>3
  <2>. QED
    BY <2>2, <2>3
<1>. QED
  BY <1>4, <1>7, <1>8 DEF FifoIInv

LEMMA WriteFifoIInv == FifoIInv /\ fifo_buffer_write => FifoIInv'
<1>. SUFFICES ASSUME FifoIInv, fifo_buffer_write PROVE FifoIInv'
  OBVIOUS
<1>. USE DEF FifoIInv
<1>0. view' = NoView /\ granted' = Size - end'
  BY DEF fifo_buffer_write
<1>1. /\ mem' \in [Offsets -> Byte]
      /\ start' \in Nat /\ end' \in Nat
      /\ start' <= end' /\ end' <= Size
  <2>1. CASE end = Size /\ fifo_buffer_move
    <3>1. /\ start' = 0 /\ end' = end - start
          /\ mem' = [c \in Offsets |->
                       IF c < end - start THEN mem[start + c] ELSE mem[c]]
      BY <2>1 DEF fifo_buffer_move
    <3>2. \A c \in Offsets : c < end - start => start + c \in Offsets
      BY SizeAssumption DEF FifoTypeOK, AssertionsHold, Offsets
    <3>3. mem' \in [Offsets -> Byte]
      BY <3>1, <3>2 DEF FifoTypeOK
    <3>4. start' \in Nat /\ end' \in Nat /\ start' <= end' /\ end' <= Size
      BY <3>1, SizeAssumption DEF FifoTypeOK, AssertionsHold
    <3>. QED
      BY <3>3, <3>4
  <2>2. CASE end # Size /\ start = end /\ start' = 0 /\ end' = 0 /\ UNCHANGED mem
    BY <2>2, SizeAssumption DEF FifoTypeOK
  <2>3. CASE end # Size /\ start # end /\ UNCHANGED <<mem, start, end>>
    BY <2>3 DEF FifoTypeOK, AssertionsHold
  <2>. QED
    BY <2>1, <2>2, <2>3 DEF fifo_buffer_write
<1>2. start' \in Nat /\ end' \in Nat /\ start' <= end' /\ end' <= Size /\ Size \in Nat
  BY <1>1, SizeAssumption
<1>3. granted' \in Nat /\ end' + granted' <= Size
  <2>1. granted' = Size - end'
    BY <1>0
  <2>2. ASSUME NEW e \in Nat, NEW z \in Nat, e <= z
        PROVE  z - e \in Nat /\ e + (z - e) <= z
    BY <2>2
  <2>. QED
    BY <2>1, <2>2, <1>2
<1>4. FifoTypeOK'
  BY <1>0, <1>1, <1>3, EmptySeq DEF FifoTypeOK, NoView
<1>5. AssertionsHold' /\ ReadPointerStable'
  BY <1>0, <1>2, <1>3 DEF AssertionsHold, ReadPointerStable, NoView
<1>. QED
  BY <1>4, <1>5

LEMMA AppendFifoIInv ==
    ASSUME FifoIInv, NEW s \in Chunk(granted), fifo_buffer_append(s)
    PROVE  FifoIInv'
<1>. USE DEF FifoIInv
<1>1. /\ mem' = [c \in Offsets |-> IF c \in end..(end + Len(s) - 1)
                                THEN s[c - end + 1] ELSE mem[c]]
      /\ end' = end + Len(s)
      /\ granted' = granted - Len(s)
      /\ UNCHANGED <<start, view>>
  BY DEF fifo_buffer_append
<1>2. s \in Seq(Byte) /\ Len(s) \in 0..granted /\ s \in [1..Len(s) -> Byte]
  BY ChunkIsSeq DEF FifoTypeOK
<1>3. FifoTypeOK'
  <2>1. \A c \in end..(end + Len(s) - 1) : s[c - end + 1] \in Byte
    BY <1>2 DEF FifoTypeOK
  <2>2. mem' \in [Offsets -> Byte]
    BY <1>1, <2>1 DEF FifoTypeOK
  <2>. QED
    BY <1>1, <1>2, <2>2 DEF FifoTypeOK
<1>4. AssertionsHold'
  BY <1>1, <1>2, EmptyView, SizeAssumption DEF FifoTypeOK, AssertionsHold
<1>5. ReadPointerStable'
  <2>. SUFFICES ASSUME view.bytes # <<>>, NEW i \in 1..Len(view.bytes)
       PROVE  view.at = start /\ mem'[view.at + i - 1] = view.bytes[i]
    BY <1>1 DEF ReadPointerStable
  <2>1. view.at = start /\ mem[view.at + i - 1] = view.bytes[i]
    BY DEF ReadPointerStable
  <2>2. view.at + i - 1 \in Offsets /\ view.at + i - 1 < end
    BY <2>1, EmptyView, SizeAssumption DEF FifoTypeOK, AssertionsHold, Offsets
  <2>. QED
    BY <1>1, <1>2, <2>1, <2>2 DEF FifoTypeOK
<1>. QED
  BY <1>3, <1>4, <1>5

LEMMA StutterFifoIInv == FifoIInv /\ UNCHANGED fifo_vars => FifoIInv'
BY DEF FifoIInv, fifo_vars, FifoTypeOK, AssertionsHold, ReadPointerStable

\* The invariant is inductive.
LEMMA StepFifoIInv == FifoIInv /\ [FifoNext]_fifo_vars => FifoIInv'
BY ClearFifoIInv, ReadFifoIInv, ConsumeFifoIInv, WriteFifoIInv, AppendFifoIInv, StutterFifoIInv DEF FifoNext

THEOREM FifoInvariant == FifoSpec => []FifoIInv
BY InitFifoIInv, StepFifoIInv, PTL DEF FifoSpec

\* No assertion of fifo-buffer.c fires in any buffer of any size, and the
\* callers' windows always fit.
THEOREM AssertionsNeverFire == FifoSpec => [](FifoTypeOK /\ AssertionsHold)
<1>1. FifoIInv => FifoTypeOK /\ AssertionsHold
  BY DEF FifoIInv
<1>. QED
  BY <1>1, FifoInvariant, PTL

\* A pointer handed out by fifo_buffer_read is good until the next write.
THEOREM ReadPointersAreStable == FifoSpec => []ReadPointerStable
<1>1. FifoIInv => ReadPointerStable
  BY DEF FifoIInv
<1>. QED
  BY <1>1, FifoInvariant, PTL

-----------------------------------------------------------------------------
(***************************************************************************)
(* The refinement: each operation is one step of the queue.                *)
(***************************************************************************)
LEMMA InitRefines == fifo_buffer_new => Queue!Init
<1>. SUFFICES ASSUME fifo_buffer_new PROVE Queue!Init
  OBVIOUS
<1>1. Contents = <<>>
  BY DEF Contents, fifo_buffer_new
<1>2. granted = 0 /\ view.bytes = <<>>
  BY DEF fifo_buffer_new, NoView
<1>. QED
  BY <1>1, <1>2, EmptySeq DEF Queue!Init

LEMMA ClearRefines == FifoIInv /\ fifo_buffer_clear => Queue!Reset
<1>. SUFFICES ASSUME fifo_buffer_clear PROVE Queue!Reset
  OBVIOUS
<1>1. Contents' = <<>>
  BY DEF Contents, fifo_buffer_clear
<1>2. granted' = 0 /\ view'.bytes = <<>>
  BY DEF fifo_buffer_clear, NoView
<1>. QED
  BY <1>1, <1>2, EmptySeq DEF Queue!Reset

LEMMA ReadRefines == FifoIInv /\ fifo_buffer_read => Queue!Look
<1>. SUFFICES ASSUME FifoIInv, fifo_buffer_read PROVE Queue!Look
  OBVIOUS
<1>1. Contents \in Seq(Byte) /\ Len(Contents) = end - start
  BY ContentsIsSeq DEF FifoIInv
<1>2. end - start # 0
  BY DEF fifo_buffer_read, FifoIInv, FifoTypeOK
<1>3. Contents # <<>>
  BY <1>1, <1>2, EmptySeq
<1>4. view'.bytes = Contents /\ UNCHANGED <<mem, start, end, granted>>
  BY DEF fifo_buffer_read
<1>5. Contents' = Contents
  BY <1>4 DEF Contents
<1>. QED
  BY <1>3, <1>4, <1>5 DEF Queue!Look

LEMMA ConsumeRefines ==
    ASSUME FifoIInv, FifoIInv', NEW n \in 0..Len(view.bytes), fifo_buffer_consume(n)
    PROVE  Queue!Take(n)
<1>0. /\ start' = start + n
      /\ view' = [at |-> view.at + n,
                  bytes |-> SubSeq(view.bytes, n + 1, Len(view.bytes))]
      /\ mem' = mem /\ end' = end /\ granted' = granted
  BY DEF fifo_buffer_consume
<1>1. /\ mem \in [Offsets -> Byte] /\ start \in Nat /\ end \in Nat
      /\ start <= end /\ end <= Size /\ start' <= end
  BY <1>0 DEF FifoIInv, FifoTypeOK, AssertionsHold
<1>2. view.bytes \in Seq(Byte) /\ Len(view.bytes) \in Nat
  BY EmptyView DEF FifoIInv, FifoTypeOK
<1>3. Contents \in Seq(Byte) /\ Len(Contents) = end - start
      /\ \A i \in 1..(end - start) : Contents[i] = mem[start + i - 1]
  BY ContentsIsSeq DEF FifoIInv
<1>4. /\ Contents' \in Seq(Byte)
      /\ Len(Contents') = end - (start + n)
      /\ \A i \in 1..(end - (start + n)) : Contents'[i] = mem[start + n + i - 1]
  <2>1. Contents' = Window(mem, start + n, end)
    BY <1>0 DEF Contents, Window
  <2>2. start + n \in Nat /\ start + n <= end
    BY <1>0, <1>1
  <2>. QED
    BY <1>1, <2>1, <2>2, WindowIsSeq
<1>5. n \in 0..Len(Contents)
  BY <1>0, <1>1, <1>3
<1>6. /\ SubSeq(Contents, n + 1, Len(Contents)) \in Seq(Byte)
      /\ Len(SubSeq(Contents, n + 1, Len(Contents))) = Len(Contents) - n
      /\ \A i \in 1..(Len(Contents) - n) :
            SubSeq(Contents, n + 1, Len(Contents))[i] = Contents[n + i]
  BY <1>3, <1>5, RestOfView
<1>7. \A i \in 1..(end - (start + n)) :
        Contents'[i] = SubSeq(Contents, n + 1, Len(Contents))[i]
  <2>. SUFFICES ASSUME NEW i \in 1..(end - (start + n))
       PROVE  Contents'[i] = SubSeq(Contents, n + 1, Len(Contents))[i]
    OBVIOUS
  <2>1. n + i \in 1..(end - start) /\ i \in 1..(Len(Contents) - n)
        /\ start + (n + i) - 1 = start + n + i - 1
    BY <1>1, <1>3
  <2>. QED
    BY <1>3, <1>4, <1>6, <2>1
<1>8. end - (start + n) = Len(Contents) - n
  BY <1>1, <1>3
<1>9. Contents' = SubSeq(Contents, n + 1, Len(Contents))
  BY <1>4, <1>6, <1>7, <1>8, SeqEqual
<1>10. Len(view'.bytes) = Len(view.bytes) - n
  BY <1>0, <1>2, RestOfView
<1>. QED
  BY <1>0, <1>9, <1>10 DEF Queue!Take

LEMMA WriteRefines == FifoIInv /\ FifoIInv' /\ fifo_buffer_write => Queue!Offer
<1>. SUFFICES ASSUME FifoIInv, FifoIInv', fifo_buffer_write PROVE Queue!Offer
  OBVIOUS
<1>0. view' = NoView /\ granted' = Size - end'
  BY DEF fifo_buffer_write
<1>1. /\ mem \in [Offsets -> Byte] /\ start \in Nat /\ end \in Nat
      /\ start <= end /\ end <= Size /\ Size \in Nat
  BY SizeAssumption DEF FifoIInv, FifoTypeOK, AssertionsHold
<1>2. /\ mem' \in [Offsets -> Byte] /\ start' \in Nat /\ end' \in Nat
      /\ start' <= end' /\ end' <= Size
  BY DEF FifoIInv, FifoTypeOK, AssertionsHold
<1>3. /\ Contents \in Seq(Byte) /\ Len(Contents) = end - start
      /\ \A i \in 1..(end - start) : Contents[i] = mem[start + i - 1]
  BY ContentsIsSeq DEF FifoIInv
<1>4. /\ Contents' \in Seq(Byte) /\ Len(Contents') = end' - start'
      /\ \A i \in 1..(end' - start') : Contents'[i] = mem'[start' + i - 1]
  <2>1. Contents' = Window(mem', start', end')
    BY DEF Contents, Window
  <2>. QED
    BY <1>2, <2>1, WindowIsSeq
<1>5. /\ end' - start' = end - start
      /\ \A i \in 1..(end - start) : mem'[start' + i - 1] = mem[start + i - 1]
      /\ end' = Size => start' = 0
  <2>1. CASE end = Size /\ fifo_buffer_move
    <3>1. /\ start' = 0 /\ end' = end - start
          /\ mem' = [c \in Offsets |->
                       IF c < end - start THEN mem[start + c] ELSE mem[c]]
      BY <2>1 DEF fifo_buffer_move
    <3>2. ASSUME NEW i \in 1..(end - start)
          PROVE  mem'[start' + i - 1] = mem[start + i - 1]
      <4>1. i - 1 \in Offsets /\ i - 1 < end - start
            /\ start' + i - 1 = i - 1 /\ start + (i - 1) = start + i - 1
        BY <1>1, <3>1 DEF Offsets
      <4>. QED
        BY <3>1, <4>1
    <3>3. end' - start' = end - start
      BY <1>1, <3>1
    <3>. QED
      BY <3>1, <3>2, <3>3
  <2>2. CASE end # Size /\ start = end /\ start' = 0 /\ end' = 0 /\ UNCHANGED mem
    BY <1>1, <2>2
  <2>3. CASE end # Size /\ start # end /\ UNCHANGED <<mem, start, end>>
    BY <1>1, <2>3
  <2>. QED
    BY <2>1, <2>2, <2>3 DEF fifo_buffer_write
<1>6. Contents' = Contents
  BY <1>3, <1>4, <1>5, SeqEqual
<1>7. \/ Len(Contents) = Size /\ granted' = 0
      \/ granted' \in 1..(Size - Len(Contents))
  <2>1. CASE end' = Size
    BY <1>0, <1>1, <1>2, <1>3, <1>5, <2>1
  <2>2. CASE end' # Size
    <3>1. granted' = Size - end' /\ Len(Contents) = end' - start'
      BY <1>0, <1>3, <1>5
    <3>2. ASSUME NEW a \in Nat, NEW b \in Nat, NEW c \in Nat,
                 a <= b, b <= c, b # c
          PROVE  c - b \in 1..(c - (b - a))
      BY <3>2
    <3>3. Size - end' \in 1..(Size - (end' - start'))
      BY <1>1, <1>2, <2>2, <3>2
    <3>. QED
      BY <3>1, <3>3
  <2>. QED
    BY <2>1, <2>2
<1>8. Len(view'.bytes) = 0
  BY <1>0, EmptySeq DEF NoView
<1>. QED
  BY <1>6, <1>7, <1>8 DEF Queue!Offer

LEMMA AppendRefines ==
    ASSUME FifoIInv, FifoIInv', NEW s \in Chunk(granted), fifo_buffer_append(s)
    PROVE  Queue!Put(s)
<1>0. /\ mem' = [c \in Offsets |-> IF c \in end..(end + Len(s) - 1)
                                THEN s[c - end + 1] ELSE mem[c]]
      /\ end' = end + Len(s)
      /\ granted' = granted - Len(s)
      /\ start' = start /\ view' = view
  BY DEF fifo_buffer_append
<1>1. /\ mem \in [Offsets -> Byte] /\ start \in Nat /\ end \in Nat
      /\ start <= end /\ end <= Size /\ granted \in Nat
  BY DEF FifoIInv, FifoTypeOK, AssertionsHold
<1>2. s \in Seq(Byte) /\ Len(s) \in Nat
  BY <1>1, ChunkIsSeq
<1>3. mem' \in [Offsets -> Byte] /\ end' \in Nat /\ end' <= Size
  BY DEF FifoIInv, FifoTypeOK, AssertionsHold
<1>4. /\ Contents \in Seq(Byte) /\ Len(Contents) = end - start
      /\ \A i \in 1..(end - start) : Contents[i] = mem[start + i - 1]
  BY ContentsIsSeq DEF FifoIInv
<1>5. /\ Contents' \in Seq(Byte) /\ Len(Contents') = end' - start
      /\ \A i \in 1..(end' - start) : Contents'[i] = mem'[start + i - 1]
  <2>1. Contents' = Window(mem', start, end')
    BY <1>0 DEF Contents, Window
  <2>2. start <= end'
    BY <1>0, <1>1, <1>2
  <2>. QED
    BY <1>1, <1>3, <2>1, <2>2, WindowIsSeq, ZenonT(60)
<1>6. /\ Contents \o s \in Seq(Byte)
      /\ Len(Contents \o s) = Len(Contents) + Len(s)
      /\ \A i \in 1..(Len(Contents) + Len(s)) :
            (Contents \o s)[i] = IF i <= Len(Contents) THEN Contents[i]
                                 ELSE s[i - Len(Contents)]
  BY <1>2, <1>4, ConcatProperties
<1>7. Len(Contents') = Len(Contents \o s)
  BY <1>0, <1>1, <1>2, <1>4, <1>5, <1>6
<1>8. ASSUME NEW i \in 1..Len(Contents')
      PROVE  Contents'[i] = (Contents \o s)[i]
  <2>1. i \in 1..(end' - start) /\ start + i - 1 \in Offsets
        /\ i \in 1..(Len(Contents) + Len(s))
    <3>1. Len(Contents') = end' - start
      BY <1>5
    <3>2. Len(Contents') = Len(Contents) + Len(s)
      BY <1>6, <1>7
    <3>3. ASSUME NEW a \in Nat, NEW b \in Nat, NEW c \in Nat,
                 b <= c, NEW j \in 1..(b - a)
          PROVE  a + j - 1 \in 0..(c - 1)
      BY <3>3
    <3>4. start + i - 1 \in Offsets
      BY <1>1, <1>3, <3>1, <3>3, SizeAssumption DEF Offsets
    <3>. QED
      BY <3>1, <3>2, <3>4
  <2>2. CASE i <= end - start
    <3>1. start + i - 1 < end /\ i \in 1..(end - start)
      BY <1>1, <2>1, <2>2
    <3>2. start + i - 1 \notin end..(end + Len(s) - 1)
      BY <1>1, <1>2, <3>1
    <3>3. mem'[start + i - 1] = mem[start + i - 1]
      BY <1>0, <2>1, <3>2
    <3>. QED
      BY <1>4, <1>5, <1>6, <2>1, <2>2, <3>1, <3>3
  <2>3. CASE ~(i <= end - start)
    <3>1. start + i - 1 \in end..(end + Len(s) - 1)
          /\ (start + i - 1) - end + 1 = i - Len(Contents)
      BY <1>0, <1>1, <1>2, <1>4, <2>1, <2>3
    <3>2. mem'[start + i - 1] = s[i - Len(Contents)]
      BY <1>0, <2>1, <3>1
    <3>. QED
      BY <1>4, <1>5, <1>6, <2>1, <2>3, <3>2
  <2>. QED
    BY <2>2, <2>3
<1>9. Contents' = Contents \o s
  BY <1>5, <1>6, <1>7, <1>8, SeqEqual
<1>. QED
  BY <1>0, <1>9 DEF Queue!Put

\* Every step is a step of the queue, or none.
LEMMA StepRefines == FifoIInv /\ FifoIInv' /\ [FifoNext]_fifo_vars => [Queue!Next]_(Queue!vars)
<1>. SUFFICES ASSUME FifoIInv, FifoIInv', [FifoNext]_fifo_vars PROVE [Queue!Next]_(Queue!vars)
  OBVIOUS
<1>1. CASE fifo_buffer_clear
  BY <1>1, ClearRefines DEF Queue!Next
<1>2. CASE fifo_buffer_read
  BY <1>2, ReadRefines DEF Queue!Next
<1>3. ASSUME NEW n \in 0..Len(view.bytes), fifo_buffer_consume(n)
      PROVE  Queue!Next
  BY <1>3, ConsumeRefines DEF Queue!Next
<1>4. CASE fifo_buffer_write
  BY <1>4, WriteRefines DEF Queue!Next
<1>5. ASSUME NEW s \in Chunk(granted), fifo_buffer_append(s)
      PROVE  Queue!Next
  <2>1. s \in Queue!Chunk(granted)
    BY DEF Chunk, Queue!Chunk
  <2>. QED
    BY <1>5, <2>1, AppendRefines DEF Queue!Next
<1>6. CASE UNCHANGED fifo_vars
  BY <1>6 DEF fifo_vars, Queue!vars, Contents
<1>. QED
  BY <1>1, <1>2, <1>3, <1>4, <1>5, <1>6 DEF FifoNext

\* fifo-buffer.c is a FIFO queue: whatever the order of calls, bytes leave in
\* the order they came and room is refused only when `size' bytes are unread.
THEOREM Refinement == FifoSpec => RefinesByteQueue
<1>1. FifoSpec => []FifoIInv
  BY FifoInvariant, SMTT(60)
<1>. QED
  BY <1>1, InitRefines, StepRefines, PTL DEF FifoSpec, Queue!Spec, RefinesByteQueue

-----------------------------------------------------------------------------

(***************************************************************************)
(* The FLARM link.                                                         *)
(***************************************************************************)
Cells == Bytes \cup {Header(s, n) : s \in Nat \ {0}, n \in Nat}

\* What is behind the first k.
After(s, k) == SubSeq(s, k + 1, Len(s))

\* q is what is left of the payload p: all of it, or less.
LeftOf(p, q) == Unescaped(p) => /\ Unescaped(q) /\ Len(q) <= Len(p)
                                /\ Len(q) = Len(p) => q = p

\* The header of the answer n, one of a.
IsHeader(c, n) == c.kind = "header" /\ c.seq = n

\* A header is one of an answer there has been.
Announced(c, a) == c.kind = "header" => c.seq \in 1..Len(a) /\ c.len = Len(a[c.seq])
AllAnnounced(s, a) == \A c \in ToSet(s) : Announced(c, a)

\* The answer n, while its header is ahead in s, and when it is in the frame f.
Ahead(s, n, a) == \A i \in DOMAIN s : IsHeader(s[i], n) => LeftOf(a[n], After(s, i))
Taken(f, s, n, a) == f # <<>> /\ IsHeader(f[1], n) => LeftOf(a[n], After(f, 1) \o s)

Stream == in \o line

Queues == /\ line \in Seq(Cells) /\ in \in Seq(Cells) /\ frame \in Seq(Cells)
          /\ answered \in Seq(Payloads) /\ got \in Seq(Seq(Cells))
          /\ AllAnnounced(line, answered) /\ AllAnnounced(in, answered)
          /\ AllAnnounced(frame, answered)

Unasked == {"open", "send", "done", "closed"}

\* One frame at a time is not answered, and none when the command goes on.
Exchange ==
    /\ \/ asked = <<>> /\ Len(answered) = IF pc = "closed" THEN seq - 1 ELSE seq
       \/ asked = <<seq>> /\ Len(answered) = seq - 1 /\ pc \notin Unasked
    /\ pc \notin {"open", "send"} => seq > 0
    /\ pc = "open" => seq = 0
    /\ pc \in {"open", "send"} => seq < requests
    /\ pc # "closed" => seq <= requests
    /\ pc # "gaveup" => tries < MaxTries
    /\ Len(got) = IF pc \in {"open", "send", "done"} THEN seq ELSE seq - 1

Coming == Ahead(Stream, seq, answered) /\ Taken(frame, Stream, seq, answered)

\* Between two calls a frame is not whole, but for those that were returned.
NotWhole ==
    /\ pc = "sync" => frame = <<>>
    /\ pc = "check" /\ ret = "SUCCESS" => in = <<>>
    /\ /\ pc \in {"again", "recv", "body"} /\ started /\ ret = "SUCCESS"
       /\ frame # <<>> /\ IsHeader(frame[1], seq)
       => Len(frame) < 1 + frame[1].len

IInv == /\ requests \in 1..MaxRequests /\ TypeOK /\ Queues /\ Exchange /\ Coming
        /\ NotWhole /\ PayloadIntact /\ WaitingForFlarm

-----------------------------------------------------------------------------
(* Sequences.                                                              *)

LEMMA AfterAt ==
    ASSUME NEW S, NEW s \in Seq(S), NEW k \in 0..Len(s)
    PROVE  /\ After(s, k) \in Seq(S) /\ Len(s) \in Nat /\ Len(After(s, k)) = Len(s) - k
           /\ \A i \in 1..(Len(s) - k) : k + i \in 1..Len(s) /\ After(s, k)[i] = s[k + i]
<1>1. s \in Seq(ToSet(s)) /\ ToSet(s) \subseteq S /\ Len(s) \in Nat /\ DOMAIN s = 1..Len(s)
  BY Members, SMTT(60)
<1>. DEFINE t == SubSeq(s, k + 1, Len(s))
<1>2. /\ t \in Seq(ToSet(t)) /\ ToSet(t) \subseteq ToSet(s) /\ Len(t) = Len(s) - k
      /\ DOMAIN t = 1..Len(t) /\ \A i \in DOMAIN t : k + i \in DOMAIN s /\ t[i] = s[k + i]
  BY <1>1, Rest, ZenonT(60)
<1>. HIDE DEF t
<1>3. t \in Seq(S)
  BY <1>1, <1>2, SeqMonotonic
<1>4. t = After(s, k)
  BY DEF t, After
<1>. QED
  BY <1>1, <1>2, <1>3, <1>4, Zenon

LEMMA RemovedAt ==
    ASSUME NEW S, NEW s \in Seq(S), NEW i \in 1..Len(s)
    PROVE  /\ RemoveAt(s, i) \in Seq(S) /\ Len(s) \in Nat /\ Len(RemoveAt(s, i)) = Len(s) - 1
           /\ \A j \in 1..(Len(s) - 1) : RemoveAt(s, i)[j] = IF j < i THEN s[j] ELSE s[j + 1]
<1>1. s \in Seq(ToSet(s)) /\ ToSet(s) \subseteq S /\ Len(s) \in Nat /\ DOMAIN s = 1..Len(s)
  BY Members
<1>. DEFINE a == SubSeq(s, 1, i - 1)  b == After(s, i)
<1>2. i - 1 \in 0..Len(s) /\ i \in 0..Len(s)
  BY <1>1
<1>3. a \in Seq(S) /\ Len(a) = i - 1
  <2>1. a \in Seq(ToSet(a)) /\ Len(a) = i - 1 /\ ToSet(a) \subseteq ToSet(s)
    BY <1>1, <1>2, CutInTwo
  <2>. QED
    BY <1>1, <2>1, SeqMonotonic
<1>4. \A j \in 1..(i - 1) : a[j] = s[j]
  <2>1. \A j \in 1..(i - 1) : s[j] \in S
    BY <1>1, ElementOfSeq
  <2>2. \A j \in 1..(i - 1 - 1 + 1) : a[j] = s[1 + j - 1]
    BY <1>1, <2>1, SubSeqProperties
  <2>3. \A j \in 1..(i - 1) : 1 + j - 1 = j /\ j \in 1..(i - 1 - 1 + 1)
    BY <1>1
  <2>. QED
    BY <2>2, <2>3
<1>5. b \in Seq(S) /\ Len(b) = Len(s) - i /\ \A j \in 1..(Len(s) - i) : b[j] = s[i + j]
  BY <1>2, AfterAt
<1>6. RemoveAt(s, i) = a \o b
  BY DEF RemoveAt, After
<1>. HIDE DEF a, b
<1>7. /\ a \o b \in Seq(S) /\ Len(a \o b) = Len(a) + Len(b)
      /\ \A j \in 1..Len(a) + Len(b) : (a \o b)[j] = IF j <= Len(a) THEN a[j] ELSE b[j - Len(a)]
  BY <1>3, <1>5, ConcatProperties
<1>8. ASSUME NEW j \in 1..(Len(s) - 1)
      PROVE  (a \o b)[j] = IF j < i THEN s[j] ELSE s[j + 1]
  <2>1. j \in 1..Len(a) + Len(b)
    BY <1>1, <1>3, <1>5
  <2>2. CASE j < i
    <3>1. j <= Len(a) /\ j \in 1..(i - 1)
      BY <1>1, <1>3, <2>2
    <3>. QED
      BY <1>4, <1>7, <2>1, <2>2, <3>1
  <2>3. CASE ~(j < i)
    <3>1. ~(j <= Len(a)) /\ j - Len(a) \in 1..(Len(s) - i) /\ i + (j - Len(a)) = j + 1
      BY <1>1, <1>3, <2>3
    <3>. QED
      BY <1>5, <1>7, <2>1, <2>3, <3>1
  <2>. QED
    BY <2>2, <2>3
<1>9. Len(a \o b) = Len(s) - 1
  BY <1>1, <1>3, <1>5, <1>7
<1>. QED
  BY <1>1, <1>6, <1>7, <1>8, <1>9, Zenon

LEMMA AfterAfter ==
    ASSUME NEW S, NEW s \in Seq(S), NEW k \in 0..Len(s), NEW j \in 0..(Len(s) - k)
    PROVE  After(After(s, k), j) = After(s, k + j)
<1>. DEFINE t == After(s, k)  u == After(t, j)  v == After(s, k + j)
<1>1. Len(s) \in Nat
  BY LenProperties
<1>2. t \in Seq(S) /\ Len(t) = Len(s) - k /\ \A i \in 1..(Len(s) - k) : t[i] = s[k + i]
  BY AfterAt
<1>. HIDE DEF t
<1>3. j \in 0..Len(t) /\ k + j \in 0..Len(s)
  BY <1>1, <1>2
<1>4. u \in Seq(S) /\ Len(u) = Len(t) - j /\ \A i \in 1..(Len(t) - j) : u[i] = t[j + i]
  BY <1>2, <1>3, AfterAt, ZenonT(60)
<1>5. v \in Seq(S) /\ Len(v) = Len(s) - (k + j) /\ \A i \in 1..(Len(s) - (k + j)) : v[i] = s[k + j + i]
  BY <1>3, AfterAt
<1>. HIDE DEF u, v
<1>6. Len(u) = Len(v)
  BY <1>1, <1>2, <1>4, <1>5
<1>7. ASSUME NEW i \in 1..Len(u)
      PROVE  u[i] = v[i]
  <2>1. /\ i \in 1..(Len(t) - j) /\ j + i \in 1..(Len(s) - k)
        /\ i \in 1..(Len(s) - (k + j)) /\ k + (j + i) = k + j + i
    BY <1>1, <1>2, <1>4
  <2>2. u[i] = s[k + (j + i)]
    BY <1>2, <1>4, <2>1
  <2>. QED
    BY <1>5, <2>1, <2>2
<1>8. u = v
  BY <1>4, <1>5, <1>6, <1>7, SeqEqual
<1>. QED
  BY <1>8 DEF t, u, v

LEMMA AfterJoined ==
    ASSUME NEW S, NEW s \in Seq(S), NEW t \in Seq(S), NEW k \in 0..Len(s)
    PROVE  After(s, k) \o t = After(s \o t, k)
<1>. DEFINE a == After(s, k)  u == a \o t  st == s \o t  v == After(st, k)
<1>1. Len(s) \in Nat /\ Len(t) \in Nat
  BY LenProperties
<1>2. a \in Seq(S) /\ Len(a) = Len(s) - k /\ \A i \in 1..(Len(s) - k) : a[i] = s[k + i]
  BY AfterAt
<1>3. /\ st \in Seq(S) /\ Len(st) = Len(s) + Len(t)
      /\ \A i \in 1..Len(s) + Len(t) : st[i] = IF i <= Len(s) THEN s[i] ELSE t[i - Len(s)]
  BY ConcatProperties
<1>. HIDE DEF a, st
<1>4. /\ u \in Seq(S) /\ Len(u) = Len(a) + Len(t)
      /\ \A i \in 1..Len(a) + Len(t) : u[i] = IF i <= Len(a) THEN a[i] ELSE t[i - Len(a)]
  BY <1>2, ConcatProperties
<1>5. k \in 0..Len(st)
  BY <1>1, <1>3
<1>6. v \in Seq(S) /\ Len(v) = Len(st) - k /\ \A i \in 1..(Len(st) - k) : v[i] = st[k + i]
  BY <1>3, <1>5, AfterAt, ZenonT(60)
<1>. HIDE DEF u, v
<1>7. Len(u) = Len(v)
  BY <1>1, <1>2, <1>3, <1>4, <1>6
<1>8. ASSUME NEW i \in 1..Len(u)
      PROVE  u[i] = v[i]
  <2>1. i \in 1..Len(a) + Len(t) /\ i \in 1..(Len(st) - k) /\ k + i \in 1..Len(s) + Len(t)
    BY <1>1, <1>2, <1>3, <1>4
  <2>2. CASE i <= Len(a)
    <3>1. i \in 1..(Len(s) - k) /\ k + i <= Len(s)
      BY <1>1, <1>2, <2>1, <2>2
    <3>2. u[i] = s[k + i]
      BY <1>2, <1>4, <2>1, <2>2, <3>1
    <3>. QED
      BY <1>3, <1>6, <2>1, <3>1, <3>2
  <2>3. CASE ~(i <= Len(a))
    <3>1. ~(k + i <= Len(s)) /\ i - Len(a) = k + i - Len(s)
      BY <1>1, <1>2, <2>1, <2>3
    <3>2. u[i] = t[i - Len(a)]
      BY <1>4, <2>1, <2>3
    <3>. QED
      BY <1>3, <1>6, <2>1, <3>1, <3>2, SMTT(60)
  <2>. QED
    BY <2>2, <2>3
<1>9. u = v
  BY <1>4, <1>6, <1>7, <1>8, SeqEqual
<1>. QED
  BY <1>9 DEF a, st, u, v

LEMMA CutAt ==
    ASSUME NEW S, NEW s \in Seq(S), NEW k \in 0..Len(s)
    PROVE  /\ SubSeq(s, 1, k) \in Seq(S) /\ Len(SubSeq(s, 1, k)) = k
           /\ \A i \in 1..k : SubSeq(s, 1, k)[i] = s[i]
           /\ SubSeq(s, 1, k) \o After(s, k) = s
<1>1. s \in Seq(ToSet(s)) /\ ToSet(s) \subseteq S /\ Len(s) \in Nat /\ DOMAIN s = 1..Len(s)
  BY Members
<1>. DEFINE a == SubSeq(s, 1, k)
<1>2. /\ a \in Seq(ToSet(a)) /\ Len(a) = k /\ ToSet(a) \subseteq ToSet(s)
      /\ a \o SubSeq(s, k + 1, Len(s)) = s
  BY <1>1, CutInTwo, Zenon
<1>3. \A j \in 1..k : s[j] \in S
  BY <1>1, ElementOfSeq
<1>4. \A j \in 1..(k - 1 + 1) : a[j] = s[1 + j - 1]
  BY <1>1, <1>3, SubSeqProperties
<1>5. \A j \in 1..k : 1 + j - 1 = j /\ j \in 1..(k - 1 + 1)
  BY <1>1
<1>. HIDE DEF a
<1>6. a \in Seq(S)
  BY <1>1, <1>2, SeqMonotonic
<1>7. a \o After(s, k) = s /\ \A i \in 1..k : a[i] = s[i]
  BY <1>2, <1>4, <1>5 DEF After
<1>. QED
  BY <1>2, <1>6, <1>7, Zenon DEF a

LEMMA RemovedBehind ==
    ASSUME NEW S, NEW s \in Seq(S), NEW t \in Seq(S), NEW i \in 1..Len(t)
    PROVE  /\ Len(s) + i \in 1..Len(s \o t) /\ (s \o t)[Len(s) + i] = t[i]
           /\ s \o RemoveAt(t, i) = RemoveAt(s \o t, Len(s) + i)
<1>. DEFINE st == s \o t  r == RemoveAt(t, i)  u == s \o r  v == RemoveAt(st, Len(s) + i)
<1>1. Len(s) \in Nat /\ Len(t) \in Nat
  BY LenProperties
<1>2. /\ st \in Seq(S) /\ Len(st) = Len(s) + Len(t)
      /\ \A j \in 1..Len(s) + Len(t) : st[j] = IF j <= Len(s) THEN s[j] ELSE t[j - Len(s)]
  BY ConcatProperties
<1>3. /\ r \in Seq(S) /\ Len(r) = Len(t) - 1
      /\ \A j \in 1..(Len(t) - 1) : r[j] = IF j < i THEN t[j] ELSE t[j + 1]
  BY RemovedAt
<1>. HIDE DEF st, r
<1>4. /\ u \in Seq(S) /\ Len(u) = Len(s) + Len(r)
      /\ \A j \in 1..Len(s) + Len(r) : u[j] = IF j <= Len(s) THEN s[j] ELSE r[j - Len(s)]
  BY <1>3, ConcatProperties
<1>5. Len(s) + i \in 1..Len(st) /\ ~(Len(s) + i <= Len(s)) /\ Len(s) + i - Len(s) = i
  BY <1>1, <1>2
<1>6. /\ v \in Seq(S) /\ Len(v) = Len(st) - 1
      /\ \A j \in 1..(Len(st) - 1) : v[j] = IF j < Len(s) + i THEN st[j] ELSE st[j + 1]
  BY <1>2, <1>5, RemovedAt
<1>. HIDE DEF u, v
<1>7. Len(u) = Len(v)
  BY <1>1, <1>2, <1>3, <1>4, <1>6
<1>8. ASSUME NEW j \in 1..Len(u)
      PROVE  u[j] = v[j]
  <2>1. j \in 1..Len(s) + Len(r) /\ j \in 1..(Len(st) - 1) /\ j \in 1..Len(s) + Len(t) /\ j + 1 \in 1..Len(s) + Len(t)
    BY <1>1, <1>2, <1>3, <1>4
  <2>2. CASE j <= Len(s)
    <3>1. j < Len(s) + i
      BY <1>1, <2>1, <2>2
    <3>. QED
      BY <1>2, <1>4, <1>6, <2>1, <2>2, <3>1
  <2>3. CASE ~(j <= Len(s)) /\ j < Len(s) + i
    <3>1. j - Len(s) \in 1..(Len(t) - 1) /\ j - Len(s) < i
      BY <1>1, <1>3, <2>1, <2>3
    <3>2. u[j] = t[j - Len(s)]
      BY <1>3, <1>4, <2>1, <2>3, <3>1
    <3>. QED
      BY <1>2, <1>6, <2>1, <2>3, <3>2
  <2>4. CASE ~(j <= Len(s)) /\ ~(j < Len(s) + i)
    <3>1. /\ j - Len(s) \in 1..(Len(t) - 1) /\ ~(j - Len(s) < i)
          /\ ~(j + 1 <= Len(s)) /\ j - Len(s) + 1 = j + 1 - Len(s)
      BY <1>1, <1>3, <2>1, <2>4
    <3>2. u[j] = t[j - Len(s) + 1]
      BY <1>3, <1>4, <2>1, <2>4, <3>1
    <3>3. st[j + 1] = t[j + 1 - Len(s)]
      BY <1>2, <2>1, <3>1, SMTT(60)
    <3>. QED
      BY <1>6, <2>1, <2>4, <3>1, <3>2, <3>3
  <2>. QED
    BY <2>2, <2>3, <2>4
<1>9. u = v
  BY <1>4, <1>6, <1>7, <1>8, SeqEqual
<1>10. st[Len(s) + i] = t[i]
  BY <1>1, <1>2, <1>5
<1>. QED
  BY <1>5, <1>9, <1>10 DEF st, r, u, v

LEMMA PartsAmong ==
    ASSUME NEW S, NEW s \in Seq(S), NEW k \in 0..Len(s)
    PROVE  ToSet(After(s, k)) \subseteq ToSet(s) /\ ToSet(SubSeq(s, 1, k)) \subseteq ToSet(s)
<1>1. s \in Seq(ToSet(s))
  BY Members
<1>. DEFINE t == SubSeq(s, k + 1, Len(s))
<1>2. ToSet(t) \subseteq ToSet(s)
  BY <1>1, Rest
<1>3. ToSet(SubSeq(s, 1, k)) \subseteq ToSet(s)
  BY <1>1, CutInTwo
<1>. QED
  BY <1>2, <1>3 DEF After

-----------------------------------------------------------------------------
(* The answers: what is still ahead, what was lost and what comes.         *)

LEMMA CellFacts ==
    /\ \A c \in Bytes : c.kind # "header" /\ c.seq = 0 /\ c.len = 0 /\ c \in Cells
    /\ \A n, l : /\ Header(n, l).kind = "header" /\ Header(n, l).seq = n /\ Header(n, l).len = l
                 /\ Header(n, l) \notin {Start, Escape}
    /\ \A n \in Nat \ {0}, l \in Nat : Header(n, l) \in Cells
    /\ \A c \in Cells : /\ c.kind # "header" => c \in Bytes
                        /\ c.kind = "header" => c.seq \in Nat \ {0} /\ c.len \in Nat /\ c \notin {Start, Escape}
    /\ Start \in Bytes /\ Escape \in Bytes
<1>1. \A c \in Bytes : c.kind # "header" /\ c.seq = 0 /\ c.len = 0 /\ c \in Cells
  BY DEF Bytes, Cells, Start, Escape, EscStart, EscEsc, Plain, Cell
<1>2. \A n, l : Header(n, l).kind = "header" /\ Header(n, l).seq = n /\ Header(n, l).len = l
  BY DEF Header, Cell
<1>3. Start \in Bytes /\ Escape \in Bytes
  BY DEF Bytes
<1>4. \A c : c.kind = "header" => c \notin {Start, Escape}
  BY <1>1, <1>3
<1>5. \A n \in Nat \ {0}, l \in Nat : Header(n, l) \in Cells
  BY DEF Cells
<1>6. ASSUME NEW c \in Cells
      PROVE  /\ c.kind # "header" => c \in Bytes
             /\ c.kind = "header" => c.seq \in Nat \ {0} /\ c.len \in Nat /\ c \notin {Start, Escape}
  <2>1. CASE c \in Bytes
    BY <1>1, <2>1
  <2>2. CASE c \in {Header(n, l) : n \in Nat \ {0}, l \in Nat}
    <3>1. PICK n \in Nat \ {0}, l \in Nat : c = Header(n, l)
      BY <2>2
    <3>. QED
      BY <1>2, <1>4, <3>1
  <2>. QED
    BY <2>1, <2>2 DEF Cells
<1>. QED
  BY <1>1, <1>2, <1>3, <1>4, <1>5, <1>6

LEMMA Elements ==
    ASSUME NEW S, NEW s \in Seq(S)
    PROVE  DOMAIN s = 1..Len(s) /\ Len(s) \in Nat /\ \A i \in 1..Len(s) : s[i] \in S /\ s[i] \in ToSet(s)
<1>1. DOMAIN s = 1..Len(s) /\ Len(s) \in Nat
  BY Members
<1>2. \A i \in 1..Len(s) : s[i] \in S
  BY ElementOfSeq
<1>. QED
  BY <1>1, <1>2 DEF ToSet

\* A byte less.
LEMMA LeftLess ==
    ASSUME NEW S, NEW q \in Seq(S), NEW p, Len(p) \in Nat, LeftOf(p, q), NEW i \in 1..Len(q)
    PROVE  LeftOf(p, RemoveAt(q, i))
<1>. SUFFICES ASSUME Unescaped(p)
              PROVE  /\ Unescaped(RemoveAt(q, i)) /\ Len(RemoveAt(q, i)) <= Len(p)
                     /\ Len(RemoveAt(q, i)) # Len(p)
  BY DEF LeftOf
<1>1. Unescaped(q) /\ Len(q) <= Len(p)
  BY DEF LeftOf
<1>2. DOMAIN q = 1..Len(q) /\ Len(q) \in Nat
  BY Elements
<1>. DEFINE r == RemoveAt(q, i)
<1>3. /\ r \in Seq(S) /\ Len(r) = Len(q) - 1
      /\ \A j \in 1..(Len(q) - 1) : r[j] = IF j < i THEN q[j] ELSE q[j + 1]
  BY RemovedAt
<1>. HIDE DEF r
<1>4. DOMAIN r = 1..(Len(q) - 1)
  BY <1>3, Elements
<1>5. \A j \in 1..(Len(q) - 1) : j \in 1..Len(q) /\ j + 1 \in 1..Len(q)
  BY <1>2
<1>6. Unescaped(r)
  BY <1>1, <1>2, <1>3, <1>4, <1>5 DEF Unescaped
<1>7. Len(r) <= Len(p) /\ Len(r) # Len(p)
  <2>1. Len(q) \in Nat /\ Len(p) \in Nat /\ Len(q) <= Len(p) /\ Len(r) = Len(q) - 1
    BY <1>1, <1>2, <1>3
  <2>. QED
    BY <2>1
<1>. QED
  BY <1>6, <1>7 DEF r

LEMMA AheadAfter ==
    ASSUME NEW S, NEW s \in Seq(S), NEW n, NEW a, Ahead(s, n, a), NEW k \in 0..Len(s)
    PROVE  Ahead(After(s, k), n, a)
<1>. DEFINE t == After(s, k)
<1>1. /\ t \in Seq(S) /\ Len(s) \in Nat /\ Len(t) = Len(s) - k
      /\ \A i \in 1..(Len(s) - k) : k + i \in 1..Len(s) /\ t[i] = s[k + i]
  BY AfterAt
<1>2. DOMAIN t = 1..(Len(s) - k) /\ DOMAIN s = 1..Len(s)
  BY <1>1, Elements
<1>3. ASSUME NEW i \in 1..(Len(s) - k), IsHeader(t[i], n)
      PROVE  LeftOf(a[n], After(t, i))
  <2>1. i \in 0..(Len(s) - k)
    BY <1>1
  <2>2. After(t, i) = After(s, k + i)
    BY <2>1, AfterAfter
  <2>. QED
    BY <1>1, <1>2, <1>3, <2>2 DEF Ahead
<1>. HIDE DEF t
<1>4. Ahead(t, n, a)
  BY <1>2, <1>3 DEF Ahead
<1>. QED
  BY <1>4 DEF t

LEMMA AheadLess ==
    ASSUME NEW S, NEW s \in Seq(S), NEW n, NEW a, \A i \in 1..Len(a) : Len(a[i]) \in Nat,
           Ahead(s, n, a), AllAnnounced(s, a),
           NEW i \in 1..Len(s), s[i].kind # "header"
    PROVE  Ahead(RemoveAt(s, i), n, a)
<1>. DEFINE t == RemoveAt(s, i)
<1>1. /\ t \in Seq(S) /\ Len(s) \in Nat /\ Len(t) = Len(s) - 1
      /\ \A j \in 1..(Len(s) - 1) : t[j] = IF j < i THEN s[j] ELSE s[j + 1]
  BY RemovedAt
<1>2. DOMAIN t = 1..(Len(s) - 1) /\ DOMAIN s = 1..Len(s) /\ \A j \in 1..Len(s) : s[j] \in ToSet(s)
  BY <1>1, Elements
<1>3. ASSUME NEW j \in 1..Len(s), IsHeader(s[j], n)
      PROVE  n \in 1..Len(a) /\ Len(a[n]) \in Nat /\ LeftOf(a[n], After(s, j))
  <2>1. Announced(s[j], a)
    BY <1>2 DEF AllAnnounced
  <2>2. n \in 1..Len(a)
    BY <1>3, <2>1 DEF Announced, IsHeader
  <2>. QED
    BY <1>2, <1>3, <2>2 DEF Ahead
<1>4. ASSUME NEW j \in 1..(Len(s) - 1), IsHeader(t[j], n)
      PROVE  LeftOf(a[n], After(t, j))
  <2>1. CASE j < i
    <3>. DEFINE q == After(s, j)  u == SubSeq(s, 1, j)
    <3>1. j \in 0..Len(s) /\ j \in 1..Len(s)
      BY <1>1
    <3>2. /\ q \in Seq(S) /\ Len(q) = Len(s) - j
          /\ u \in Seq(S) /\ Len(u) = j /\ u \o q = s
      BY <3>1, AfterAt, CutAt
    <3>. HIDE DEF q, u
    <3>3. i - j \in 1..Len(q) /\ j + (i - j) = i
      BY <1>1, <2>1, <3>2
    <3>4. u \o RemoveAt(q, i - j) = t
      <4>1. u \o RemoveAt(q, i - j) = RemoveAt(u \o q, Len(u) + (i - j))
        BY <3>2, <3>3, RemovedBehind, ZenonT(60)
      <4>2. Len(u) + (i - j) = i
        BY <3>2, <3>3
      <4>. QED
        BY <3>2, <4>1, <4>2
    <3>5. After(t, j) = RemoveAt(q, i - j)
      <4>. DEFINE r == RemoveAt(q, i - j)
      <4>1. r \in Seq(S) /\ Len(r) = Len(q) - 1 /\ Len(q) \in Nat
        BY <3>2, <3>3, RemovedAt
      <4>. HIDE DEF r
      <4>2. j \in 0..Len(u) /\ j \in Nat /\ Len(t) = Len(u) + Len(r)
        BY <1>1, <3>1, <3>2, <4>1
      <4>3. After(u, j) \o r = After(u \o r, j)
        BY <3>2, <4>1, <4>2, AfterJoined, ZenonT(60)
      <4>4. After(u, j) = <<>>
        <5>0. u \in Seq(S) /\ j \in 0..Len(u) /\ Len(u) = j /\ j \in Nat
          BY <3>2, <4>2
        <5>1. After(u, j) \in Seq(S) /\ Len(After(u, j)) = Len(u) - j
          BY <5>0, AfterAt
        <5>2. Len(After(u, j)) = 0
          BY <5>0, <5>1
        <5>. QED
          BY <5>1, <5>2, EmptySeq
      <4>5. <<>> \o r = r
        BY <4>1, ConcatProperties
      <4>. QED
        BY <3>4, <4>3, <4>4, <4>5 DEF r
    <3>6. IsHeader(s[j], n)
      BY <1>1, <1>4, <2>1
    <3>7. Len(a[n]) \in Nat /\ LeftOf(a[n], q)
      BY <1>3, <3>1, <3>6 DEF q
    <3>. QED
      BY <3>2, <3>3, <3>5, <3>7, LeftLess
  <2>2. CASE ~(j < i)
    <3>. HIDE DEF t
    <3>1. j + 1 \in 1..Len(s) /\ j + 1 \in 0..Len(s) /\ j \in 0..Len(t)
      BY <1>1
    <3>2. LeftOf(a[n], After(s, j + 1))
      BY <1>1, <1>3, <1>4, <2>2, <3>1
    <3>3. After(t, j) = After(s, j + 1)
      <4>. DEFINE u == After(t, j)  v == After(s, j + 1)
      <4>1. u \in Seq(S) /\ Len(u) = Len(t) - j /\ \A l \in 1..(Len(t) - j) : u[l] = t[j + l]
        <5>1. t \in Seq(S) /\ j \in 0..Len(t)
          BY <1>1, <3>1
        <5>. QED
          BY <5>1, AfterAt
      <4>2. v \in Seq(S) /\ Len(v) = Len(s) - (j + 1) /\ \A l \in 1..(Len(s) - (j + 1)) : v[l] = s[j + 1 + l]
        BY <3>1, AfterAt
      <4>. HIDE DEF u, v
      <4>3. Len(u) = Len(v)
        BY <1>1, <3>1, <4>1, <4>2
      <4>4. ASSUME NEW l \in 1..Len(u)
            PROVE  u[l] = v[l]
        <5>1. /\ l \in 1..(Len(t) - j) /\ l \in 1..(Len(s) - (j + 1)) /\ j + l \in 1..(Len(s) - 1)
              /\ ~(j + l < i) /\ j + l + 1 = j + 1 + l
          <6>1. /\ Len(s) \in Nat /\ Len(t) = Len(s) - 1 /\ Len(u) = Len(t) - j
                /\ j \in 1..(Len(s) - 1) /\ i \in 1..Len(s) /\ l \in 1..Len(u)
            BY <1>1, <4>1
          <6>. QED
            BY <2>2, <6>1
        <5>. QED
          BY <1>1, <4>1, <4>2, <5>1, ZenonT(60)
      <4>5. u = v
        BY <4>1, <4>2, <4>3, <4>4, SeqEqual
      <4>. QED
        BY <4>5 DEF u, v
    <3>. QED
      BY <3>2, <3>3
  <2>. QED
    BY <2>1, <2>2
<1>. HIDE DEF t
<1>5. Ahead(t, n, a)
  BY <1>2, <1>4 DEF Ahead
<1>. QED
  BY <1>5 DEF t

\* The answer n has not come.
LEMMA NothingYet ==
    ASSUME NEW S, NEW s \in Seq(S), NEW n, NEW a, n \notin 1..Len(a), AllAnnounced(s, a)
    PROVE  Ahead(s, n, a) /\ \A t : Taken(s, t, n, a)
<1>1. DOMAIN s = 1..Len(s) /\ Len(s) \in Nat /\ \A i \in 1..Len(s) : s[i] \in ToSet(s)
  BY Elements
<1>2. \A i \in 1..Len(s) : ~IsHeader(s[i], n)
  BY <1>1 DEF AllAnnounced, Announced, IsHeader
<1>3. s # <<>> => 1 \in 1..Len(s)
  BY <1>1, EmptySeq
<1>. QED
  BY <1>1, <1>2, <1>3 DEF Ahead, Taken

\* What was announced stays so when there are more answers.
LEMMA StillAnnounced ==
    ASSUME NEW S, NEW a \in Seq(S), NEW p \in S, NEW s, AllAnnounced(s, a)
    PROVE  AllAnnounced(s, Append(a, p))
<1>1. /\ Len(a) \in Nat /\ Len(Append(a, p)) = Len(a) + 1
      /\ \A i \in 1..Len(a) : Append(a, p)[i] = a[i]
  BY LenProperties, AppendProperties
<1>2. \A i \in 1..Len(a) : i \in 1..(Len(a) + 1)
  BY <1>1
<1>. QED
  BY <1>1, <1>2 DEF AllAnnounced, Announced

LEMMA AnnouncedPart ==
    ASSUME NEW s, NEW t, ToSet(t) \subseteq ToSet(s), NEW a, AllAnnounced(s, a)
    PROVE  AllAnnounced(t, a)
BY DEF AllAnnounced

LEMMA AnnouncedBoth ==
    ASSUME NEW S, NEW s \in Seq(S), NEW t \in Seq(S), NEW a, AllAnnounced(s, a), AllAnnounced(t, a)
    PROVE  AllAnnounced(s \o t, a)
<1>1. s \in Seq(ToSet(s)) /\ t \in Seq(ToSet(t))
  BY Members
<1>2. ToSet(s \o t) = ToSet(s) \cup ToSet(t)
  BY <1>1, Joined
<1>. QED
  BY <1>2 DEF AllAnnounced

\* A payload without the two bytes is sent as it is.
LEMMA Escaped ==
    ASSUME NEW p \in Seq(Bytes)
    PROVE  flarm_escape(p) \in Seq(Bytes) /\ (Unescaped(p) => flarm_escape(p) = p)
<1>. DEFINE q == [i \in 1..Len(p) |-> CASE p[i] = Start  -> <<Escape, EscStart>>
                                        [] p[i] = Escape -> <<Escape, EscEsc>>
                                        [] OTHER         -> <<p[i]>>]
<1>1. Len(p) \in Nat /\ DOMAIN p = 1..Len(p) /\ \A i \in 1..Len(p) : p[i] \in Bytes
  BY Elements
<1>2. \A b \in Bytes : <<b>> \in Seq(Bytes)
  OBVIOUS
<1>3. <<Escape, EscStart>> \in Seq(Bytes) /\ <<Escape, EscEsc>> \in Seq(Bytes)
  <2>1. Escape \in Bytes /\ EscStart \in Bytes /\ EscEsc \in Bytes
    BY DEF Bytes
  <2>. QED
    BY <2>1
<1>4. q \in [1..Len(p) -> Seq(Bytes)]
  BY <1>1, <1>2, <1>3
<1>5. q \in Seq(Seq(Bytes))
  <2>1. \A S : [1..Len(p) -> S] \subseteq Seq(S)
    BY <1>1, SeqDef
  <2>. QED
    BY <1>4, <2>1
<1>6. flarm_escape(p) = FlattenSeq(q)
  BY DEF flarm_escape
<1>7. ASSUME Unescaped(p)
      PROVE  FlattenSeq(q) = p
  <2>1. \A i \in 1..Len(p) : p[i] # Start /\ p[i] # Escape
    BY <1>1, <1>7 DEF Unescaped
  <2>2. q = [i \in 1..Len(p) |-> <<p[i]>>]
    BY <2>1
  <2>. QED
    BY <2>2, FlattenedOnes
<1>8. FlattenSeq(q) \in Seq(Bytes)
  BY <1>5, Flattened
<1>. QED
  BY <1>6, <1>7, <1>8

\* The device answers.
LEMMA AheadAnswer ==
    ASSUME NEW s \in Seq(Cells), NEW n \in Nat \ {0}, NEW p \in Seq(Bytes), NEW a,
           \A i \in DOMAIN s : ~IsHeader(s[i], n), a[n] = p
    PROVE  Ahead(s \o (<<Start, Header(n, Len(p))>> \o flarm_escape(p)), n, a)
<1>. DEFINE h == <<Start, Header(n, Len(p))>>  e == flarm_escape(p)  u == h \o e  t == s \o u
<1>1. Len(s) \in Nat /\ DOMAIN s = 1..Len(s) /\ Len(p) \in Nat
  BY Elements
<1>2. h \in Seq(Cells) /\ Len(h) = 2 /\ h[1] = Start /\ h[2] = Header(n, Len(p))
  <2>1. Start \in Cells /\ Header(n, Len(p)) \in Cells
    BY <1>1, CellFacts
  <2>. QED
    BY <2>1
<1>3. e \in Seq(Bytes) /\ e \in Seq(Cells) /\ Len(e) \in Nat /\ \A i \in 1..Len(e) : e[i] \in Bytes
  <2>1. e \in Seq(Bytes)
    BY Escaped
  <2>. HIDE DEF e
  <2>2. Bytes \subseteq Cells
    BY DEF Cells
  <2>. QED
    BY <2>1, <2>2, SeqMonotonic, Elements
<1>. HIDE DEF h, e
<1>4. /\ u \in Seq(Cells) /\ Len(u) = Len(h) + Len(e)
      /\ \A i \in 1..Len(h) + Len(e) : u[i] = IF i <= Len(h) THEN h[i] ELSE e[i - Len(h)]
  BY <1>2, <1>3, ConcatProperties
<1>5. After(u, 2) = e
  <2>1. 2 \in 0..Len(h) /\ 2 \in Nat
    BY <1>2
  <2>2. After(h, 2) \o e = After(u, 2)
    BY <1>2, <1>3, <2>1, AfterJoined
  <2>3. After(h, 2) \in Seq(Cells) /\ Len(After(h, 2)) = 0
    <3>1. After(h, 2) \in Seq(Cells) /\ Len(After(h, 2)) = Len(h) - 2
      BY <1>2, <2>1, AfterAt, ZenonT(60)
    <3>. QED
      BY <1>2, <3>1
  <2>4. After(h, 2) = <<>> /\ <<>> \o e = e
    BY <1>3, <2>3, EmptySeq, ConcatProperties
  <2>. QED
    BY <2>2, <2>4
<1>. HIDE DEF u
<1>6. /\ t \in Seq(Cells) /\ Len(t) = Len(s) + Len(u)
      /\ \A i \in 1..Len(s) + Len(u) : t[i] = IF i <= Len(s) THEN s[i] ELSE u[i - Len(s)]
  BY <1>4, ConcatProperties, ZenonT(60)
<1>7. After(t, Len(s) + 2) = e
  <2>1. /\ Len(s) \in 0..Len(s) /\ 2 \in 0..Len(u) /\ Len(s) \in 0..Len(t) /\ 2 \in 0..(Len(t) - Len(s))
    BY <1>1, <1>2, <1>3, <1>4, <1>6
  <2>2. After(s, Len(s)) \o u = After(t, Len(s))
    BY <1>4, <2>1, AfterJoined
  <2>3. After(s, Len(s)) \in Seq(Cells) /\ Len(After(s, Len(s))) = 0
    BY <1>1, <2>1, AfterAt
  <2>4. After(s, Len(s)) = <<>> /\ <<>> \o u = u
    BY <1>4, <2>3, EmptySeq, ConcatProperties
  <2>. HIDE DEF t
  <2>5. After(After(t, Len(s)), 2) = After(t, Len(s) + 2)
    BY <1>6, <2>1, AfterAfter
  <2>. QED
    BY <1>5, <2>2, <2>4, <2>5 DEF t
<1>. HIDE DEF t
<1>8. LeftOf(p, e)
  <2>1. Unescaped(p) => e = p
    BY Escaped DEF e
  <2>2. Len(p) <= Len(p)
    BY <1>1
  <2>. QED
    BY <2>1, <2>2 DEF LeftOf
<1>9. ASSUME NEW i \in 1..Len(t), IsHeader(t[i], n)
      PROVE  LeftOf(a[n], After(t, i))
  <2>1. i \in 1..Len(s) + Len(u) /\ i \in Nat
    BY <1>1, <1>6
  <2>2. ~(i <= Len(s))
    <3>1. CASE i <= Len(s)
      <4>1. i \in DOMAIN s
        BY <1>1, <2>1, <3>1
      <4>2. t[i] = s[i]
        BY <1>6, <2>1, <3>1
      <4>. QED
        BY <1>9, <4>1, <4>2
    <3>. QED
      BY <3>1
  <2>. DEFINE j == i - Len(s)
  <2>3. j \in 1..Len(h) + Len(e) /\ t[i] = u[j] /\ Len(s) + j = i /\ j \in Nat
    <3>1. j \in 1..Len(u) /\ Len(s) + j = i /\ j \in Nat
      BY <1>1, <1>2, <1>3, <1>4, <2>1, <2>2
    <3>2. t[i] = u[j]
      BY <1>6, <2>1, <2>2
    <3>. QED
      BY <1>4, <3>1, <3>2
  <2>. HIDE DEF j
  <2>4. j = 2
    <3>1. j # 1
      <4>1. CASE j = 1
        <5>1. u[1] = Start
          BY <1>2, <1>4, <2>3, <4>1
        <5>. QED
          BY <1>9, <2>3, <4>1, <5>1, CellFacts DEF IsHeader
      <4>. QED
        BY <4>1
    <3>2. ~(j > 2)
      <4>1. CASE j > 2
        <5>1. ~(j <= Len(h)) /\ j - Len(h) \in 1..Len(e)
          BY <1>2, <1>3, <2>3, <4>1
        <5>2. u[j] = e[j - Len(h)]
          BY <1>4, <2>3, <5>1
        <5>3. u[j] \in Bytes
          BY <1>3, <5>1, <5>2
        <5>. QED
          BY <1>9, <2>3, <5>3, CellFacts DEF IsHeader
      <4>. QED
        BY <4>1
    <3>3. j >= 1
      BY <1>2, <1>3, <2>3
    <3>. QED
      BY <2>3, <3>1, <3>2, <3>3
  <2>. QED
    BY <1>7, <1>8, <2>3, <2>4
<1>10. DOMAIN t = 1..Len(t)
  BY <1>6, Elements
<1>11. Ahead(t, n, a)
  BY <1>9, <1>10 DEF Ahead
<1>. QED
  BY <1>11 DEF t, u, h, e

\* What flarm_unescape does to cells, and that it changes none without the two
\* bytes.
LEMMA Unescape ==
    ASSUME NEW s \in Seq(Cells), NEW r, r = flarm_unescape(s)
    PROVE  /\ r.out \in Seq(Cells) /\ Len(r.out) <= Len(s) /\ r.used \in 0..Len(s)
           /\ \A i \in 1..Len(r.out) : i \in 1..Len(s) /\ (r.out[i] = s[i] \/ r.out[i] = Start)
           /\ Unescaped(s) => r.out = s /\ r.used = Len(s)
<1>. DEFINE Out(n) == [i \in 1..n |-> IF s[i] = Escape THEN Start ELSE s[i]]
            Halts == {p \in 1..Len(s) : \/ s[p] = Start
                                        \/ s[p] = Escape /\ (p = Len(s) \/ s[p + 1] \notin {EscStart, EscEsc})}
            First == CHOOSE q \in Halts : \A o \in Halts : q <= o
<1>1. DOMAIN s = 1..Len(s) /\ Len(s) \in Nat /\ \A i \in 1..Len(s) : s[i] \in Cells
  BY Elements
<1>2. Halts \subseteq 1..Len(s) /\ (Unescaped(s) => Halts = {})
  BY <1>1 DEF Unescaped
<1>3. Halts # {} => First \in 1..Len(s)
  <2>1. ASSUME NEW H, H \subseteq Nat, H # {}
        PROVE  (CHOOSE q \in H : \A o \in H : q <= o) \in H
    BY <2>1, Least
  <2>2. Halts \subseteq Nat
    BY <1>1, <1>2
  <2>. HIDE DEF Halts
  <2>3. Halts # {} => First \in Halts
    BY <2>1, <2>2
  <2>. QED
    BY <1>2, <2>3
<1>4. \/ Halts = {} /\ r.out = Out(Len(s)) /\ r.used = Len(s)
      \/ Halts # {} /\ r.out = Out(First - 1) /\ r.used \in {First, First - 1}
  BY DEF flarm_unescape
<1>. HIDE DEF Halts, First, Out
<1>5. PICK n \in 0..Len(s) : /\ r.out = Out(n) /\ r.used \in 0..Len(s)
                             /\ Unescaped(s) => n = Len(s) /\ r.used = Len(s)
  <2>1. CASE Halts = {}
    <3>1. Len(s) \in 0..Len(s)
      BY <1>1
    <3>. QED
      BY <1>4, <2>1, <3>1
  <2>2. CASE Halts # {}
    <3>1. First \in 0..Len(s) /\ First - 1 \in 0..Len(s)
      BY <1>1, <1>3, <2>2
    <3>. QED
      BY <1>2, <1>4, <2>2, <3>1
  <2>. QED
    BY <2>1, <2>2
<1>. DEFINE out == [i \in 1..n |-> IF s[i] = Escape THEN Start ELSE s[i]]
<1>. n \in Nat /\ n <= Len(s)
  BY <1>1
<1>6. out \in [1..n -> Cells]
  <2>1. \A i \in 1..n : s[i] \in Cells
    BY <1>1
  <2>2. Start \in Cells
    BY CellFacts
  <2>. QED
    BY <2>1, <2>2
<1>7. out \in Seq(Cells) /\ Len(out) = n
  <2>1. \A S : [1..n -> S] \subseteq Seq(S)
    BY SeqDef
  <2>2. out \in Seq(Cells)
    BY <1>6, <2>1
  <2>3. DOMAIN out = 1..n
    OBVIOUS
  <2>. HIDE DEF out
  <2>4. DOMAIN out = 1..Len(out) /\ Len(out) \in Nat
    BY <2>2, Elements
  <2>. QED
    BY <2>2, <2>3, <2>4
<1>8. \A i \in 1..n : i \in 1..Len(s) /\ (out[i] = s[i] \/ out[i] = Start)
  BY <1>1
<1>9. ASSUME Unescaped(s)
      PROVE  out = s
  <2>1. n = Len(s)
    BY <1>5, <1>9
  <2>2. \A i \in 1..n : out[i] = s[i]
    BY <1>1, <1>9, <2>1 DEF Unescaped
  <2>. HIDE DEF out
  <2>. QED
    BY <1>7, <2>1, <2>2, SeqEqual
<1>10. r.out = out
  BY <1>5 DEF Out
<1>. HIDE DEF out
<1>11. n <= Len(s)
  BY <1>1
<1>. QED
  BY <1>5, <1>7, <1>8, <1>9, <1>10, <1>11

\* The frame f and the bytes s behind it, of which the first k are unescaped.
LEMMA TakenMore ==
    ASSUME NEW f \in Seq(Cells), NEW s \in Seq(Cells), NEW n \in Nat, NEW a, NEW k \in 0..Len(s),
           NEW r, r = flarm_unescape(SubSeq(s, 1, k)), Ahead(s, n, a), Taken(f, s, n, a)
    PROVE  Taken(f \o r.out, After(s, r.used), n, a)
<1>. DEFINE b == SubSeq(s, 1, k)  g == f \o r.out  v == After(s, r.used)
<1>1. /\ b \in Seq(Cells) /\ Len(b) = k /\ \A i \in 1..k : b[i] = s[i]
      /\ b \o After(s, k) = s
  BY CutAt
<1>2. /\ r.out \in Seq(Cells) /\ Len(r.out) <= Len(b) /\ r.used \in 0..Len(b)
      /\ \A i \in 1..Len(r.out) : i \in 1..Len(b) /\ (r.out[i] = b[i] \/ r.out[i] = Start)
      /\ Unescaped(b) => r.out = b /\ r.used = Len(b)
  BY <1>1, Unescape
<1>. HIDE DEF b
<1>3. Len(s) \in Nat /\ DOMAIN s = 1..Len(s) /\ k \in Nat /\ Len(f) \in Nat /\ Len(r.out) \in Nat
  BY <1>2, Elements
<1>. SUFFICES ASSUME g # <<>>, IsHeader(g[1], n), Unescaped(a[n])
              PROVE  LeftOf(a[n], After(g, 1) \o v)
  BY DEF Taken, LeftOf
<1>4. After(s, k) \in Seq(Cells)
  BY AfterAt
<1>5. CASE f # <<>>
  <2>1. Len(f) >= 1 /\ g[1] = f[1]
    <3>1. Len(f) >= 1
      BY <1>3, <1>5, EmptySeq
    <3>2. 1 \in 1..Len(f) + Len(r.out) /\ 1 <= Len(f)
      BY <1>3, <3>1
    <3>. QED
      BY <1>2, <3>1, <3>2, ConcatProperties
  <2>2. LeftOf(a[n], After(f, 1) \o s)
    BY <1>5, <2>1 DEF Taken
  <2>. DEFINE t == After(f, 1)
  <2>3. 1 \in 0..Len(f) /\ t \in Seq(Cells) /\ Len(t) \in Nat
    <3>1. 1 \in 0..Len(f)
      BY <1>3, <2>1
    <3>2. t \in Seq(Cells)
      BY <3>1, AfterAt
    <3>. QED
      BY <3>1, <3>2, LenProperties
  <2>4. After(g, 1) = t \o r.out
    <3>1. r.out \in Seq(Cells) /\ 1 \in 0..Len(f)
      BY <1>2, <2>3
    <3>2. After(f, 1) \o r.out = After(f \o r.out, 1)
      BY <3>1, AfterJoined
    <3>. QED
      BY <3>2
  <2>. HIDE DEF t, g
  <2>5. Unescaped(b)
    <3>. DEFINE w == t \o s
    <3>1. Unescaped(w)
      BY <2>2 DEF LeftOf, t
    <3>2. /\ w \in Seq(Cells) /\ Len(w) = Len(t) + Len(s)
          /\ \A i \in 1..Len(t) + Len(s) : w[i] = IF i <= Len(t) THEN t[i] ELSE s[i - Len(t)]
      BY <2>3, ConcatProperties
    <3>. HIDE DEF w
    <3>3. DOMAIN w = 1..Len(t) + Len(s)
      BY <3>2, Elements
    <3>4. ASSUME NEW i \in 1..k
          PROVE  b[i] \notin {Start, Escape}
      <4>1. /\ Len(t) + i \in 1..Len(t) + Len(s) /\ ~(Len(t) + i <= Len(t))
            /\ Len(t) + i - Len(t) = i
        BY <1>3, <2>3
      <4>2. w[Len(t) + i] = s[i]
        BY <3>2, <4>1
      <4>. QED
        BY <1>1, <3>1, <3>3, <4>1, <4>2 DEF Unescaped
    <3>5. DOMAIN b = 1..k
      BY <1>1, Elements
    <3>. QED
      BY <3>4, <3>5 DEF Unescaped
  <2>6. r.out = b /\ v = After(s, k)
    BY <1>1, <1>2, <2>5
  <2>7. (t \o b) \o After(s, k) = t \o s
    <3>1. (t \o b) \o After(s, k) = t \o (b \o After(s, k))
      <4>. DEFINE C == Cells  w == After(s, k)
      <4>1. t \in Seq(C) /\ b \in Seq(C) /\ w \in Seq(C)
        BY <1>1, <1>4, <2>3
      <4>. HIDE DEF C, w
      <4>2. (t \o b) \o w = t \o (b \o w)
        BY <4>1, ConcatAssociative, SMTT(60)
      <4>. QED
        BY <4>2 DEF w
    <3>. QED
      BY <1>1, <3>1
  <2>. HIDE DEF v
  <2>8. After(g, 1) \o v = t \o s
    BY <2>4, <2>6, <2>7
  <2>. QED
    BY <2>2, <2>8 DEF t
<1>6. CASE f = <<>>
  <2>1. g = r.out
    BY <1>2, <1>6, ConcatProperties
  <2>2. Len(r.out) >= 1 /\ 1 \in 1..Len(r.out)
    BY <1>2, <1>3, <2>1, EmptySeq
  <2>3. g[1] = s[1] /\ k >= 1 /\ 1 \in 1..Len(s)
    <3>1. r.out[1] = b[1] \/ r.out[1] = Start
      BY <1>2, <2>2
    <3>2. r.out[1] # Start
      <4>1. Start.kind # "header"
        BY CellFacts
      <4>. QED
        BY <2>1, <4>1 DEF IsHeader
    <3>3. k >= 1 /\ 1 \in 1..k /\ 1 \in 1..Len(s)
      BY <1>1, <1>2, <1>3, <2>2
    <3>. QED
      BY <1>1, <2>1, <3>1, <3>2, <3>3
  <2>4. LeftOf(a[n], After(s, 1))
    BY <1>3, <2>3 DEF Ahead
  <2>. DEFINE u == After(s, 1)
  <2>5. /\ 1 \in 0..Len(s) /\ u \in Seq(Cells) /\ Len(u) = Len(s) - 1
        /\ \A i \in 1..(Len(s) - 1) : u[i] = s[1 + i]
    <3>1. 1 \in 0..Len(s)
      BY <1>3, <2>3
    <3>. QED
      BY <3>1, AfterAt
  <2>. HIDE DEF u, v, g
  <2>6. Unescaped(b)
    <3>1. Unescaped(u) /\ DOMAIN u = 1..(Len(s) - 1)
      BY <2>4, <2>5, Elements DEF LeftOf, u
    <3>2. ASSUME NEW i \in 1..k
          PROVE  s[i] \notin {Start, Escape}
      <4>1. CASE i = 1
        <5>1. s[1].kind = "header"
          BY <2>3 DEF IsHeader
        <5>2. Start.kind # "header" /\ Escape.kind # "header"
          BY CellFacts
        <5>. QED
          BY <4>1, <5>1, <5>2
      <4>2. CASE i # 1
        <5>1. i - 1 \in 1..(Len(s) - 1) /\ 1 + (i - 1) = i
          BY <1>3, <4>2
        <5>2. u[i - 1] = s[i]
          BY <2>5, <5>1
        <5>. QED
          BY <3>1, <5>1, <5>2 DEF Unescaped
      <4>. QED
        BY <4>1, <4>2
    <3>3. DOMAIN b = 1..k
      BY <1>1, Elements
    <3>. QED
      BY <1>1, <3>2, <3>3 DEF Unescaped
  <2>7. r.out = b /\ v = After(s, k)
    BY <1>1, <1>2, <2>6 DEF v
  <2>8. 1 \in 0..Len(b)
    BY <1>1, <1>3, <2>3
  <2>9. After(b, 1) \o After(s, k) = After(b \o After(s, k), 1)
    BY <1>1, <1>4, <2>8, AfterJoined, ZenonT(60)
  <2>10. After(g, 1) \o v = u
    BY <1>1, <2>1, <2>7, <2>9 DEF u
  <2>. QED
    BY <2>4, <2>10 DEF u
<1>. QED
  BY <1>5, <1>6

LEMMA TakenLess ==
    ASSUME NEW f \in Seq(Cells), NEW s \in Seq(Cells), NEW n, NEW a,
           \A i \in 1..Len(a) : Len(a[i]) \in Nat,
           AllAnnounced(f, a), Taken(f, s, n, a), NEW i \in 1..Len(s)
    PROVE  Taken(f, RemoveAt(s, i), n, a)
<1>. SUFFICES ASSUME f # <<>>, IsHeader(f[1], n)
              PROVE  LeftOf(a[n], After(f, 1) \o RemoveAt(s, i))
  BY DEF Taken
<1>1. LeftOf(a[n], After(f, 1) \o s)
  BY DEF Taken
<1>2. Len(f) \in Nat /\ Len(f) >= 1 /\ \A j \in 1..Len(f) : f[j] \in ToSet(f)
  BY Elements, EmptySeq
<1>3. Len(a[n]) \in Nat
  <2>1. Announced(f[1], a)
    BY <1>2 DEF AllAnnounced
  <2>2. n \in 1..Len(a)
    BY <2>1 DEF Announced, IsHeader
  <2>. QED
    BY <2>2
<1>. DEFINE t == After(f, 1)
<1>4. 1 \in 0..Len(f)
  BY <1>2
<1>5. t \in Seq(Cells)
  BY <1>4, AfterAt
<1>. HIDE DEF t
<1>6. t \o RemoveAt(s, i) = RemoveAt(t \o s, Len(t) + i) /\ Len(t) + i \in 1..Len(t \o s) /\ t \o s \in Seq(Cells)
  BY <1>5, RemovedBehind, ConcatProperties
<1>7. LeftOf(a[n], RemoveAt(t \o s, Len(t) + i))
  BY <1>1, <1>3, <1>6, LeftLess DEF t
<1>. QED
  BY <1>6, <1>7 DEF t

-----------------------------------------------------------------------------
(* The invariant.                                                          *)

\* The steps that read, send and answer nothing change nothing of the stream.
LEMMA SameStream ==
    ASSUME IInv, UNCHANGED <<line, in, frame, answered, seq>>
    PROVE  Coming'
BY DEF IInv, Coming, Stream

LEMMA StreamFacts ==
    ASSUME IInv
    PROVE  /\ Stream \in Seq(Cells) /\ AllAnnounced(Stream, answered)
           /\ seq \in Nat /\ Len(answered) \in Nat /\ Len(frame) \in Nat
           /\ \A i \in 1..Len(answered) : answered[i] \in Seq(Bytes) /\ Len(answered[i]) \in Nat
           /\ Ahead(Stream, seq, answered) /\ Taken(frame, Stream, seq, answered)
<1>1. Queues /\ Coming /\ TypeOK /\ requests \in 1..MaxRequests
  BY DEF IInv
<1>2. line \in Seq(Cells) /\ in \in Seq(Cells) /\ frame \in Seq(Cells) /\ answered \in Seq(Payloads)
  BY <1>1 DEF Queues
<1>3. Stream \in Seq(Cells)
  BY <1>2, ConcatProperties DEF Stream
<1>4. AllAnnounced(Stream, answered)
  BY <1>1, <1>2, AnnouncedBoth DEF Queues, Stream
<1>5. ASSUME NEW i \in 1..Len(answered)
      PROVE  answered[i] \in Seq(Bytes) /\ Len(answered[i]) \in Nat
  <2>1. answered[i] \in Payloads
    BY <1>2, ElementOfSeq
  <2>2. answered[i] \in Seq(Bytes)
    BY <2>1, ByteAssumption
  <2>. QED
    BY <2>2, LenProperties
<1>6. seq \in Nat
  <2>1. requests \in Nat
    BY <1>1, LinkAssumption
  <2>. QED
    BY <1>1, <2>1 DEF TypeOK
<1>7. Len(answered) \in Nat /\ Len(frame) \in Nat
  BY <1>2, LenProperties
<1>. QED
  BY <1>1, <1>3, <1>4, <1>5, <1>6, <1>7 DEF Coming

\* The frame that has the number of the last request is its answer.
LEMMA FrameIsAnswer ==
    ASSUME IInv, pc \notin {"open", "send"}, frame # <<>>, frame[1].seq = seq
    PROVE  /\ IsHeader(frame[1], seq) /\ seq \in 1..Len(answered) /\ frame[1].len = Len(answered[seq])
<1>1. frame \in Seq(Cells) /\ AllAnnounced(frame, answered) /\ seq > 0 /\ seq \in Nat
  BY StreamFacts DEF IInv, Queues, Exchange
<1>2. frame[1] \in Cells /\ frame[1] \in ToSet(frame)
  <2>1. 1 \in 1..Len(frame)
    <3>1. Len(frame) \in Nat /\ Len(frame) # 0
      BY <1>1, LenProperties, EmptySeq
    <3>. QED
      BY <3>1
  <2>. QED
    BY <1>1, <2>1, Elements
<1>3. frame[1].kind = "header"
  BY <1>1, <1>2, CellFacts
<1>. QED
  BY <1>2, <1>3, <1>1 DEF AllAnnounced, Announced, IsHeader

LEMMA InitIInv == Init => IInv
<1>. SUFFICES ASSUME Init
              PROVE  IInv
  OBVIOUS
<1>1. requests \in 1..MaxRequests /\ requests \in Nat /\ requests >= 1
  BY LinkAssumption DEF Init
<1>2. ToSet(<<>>) = {} /\ DOMAIN <<>> = {} /\ Len(<<>>) = 0 /\ <<>> \o <<>> = <<>>
  BY OneOrTwo, NoneMore
<1>3. TypeOK
  BY <1>1, <1>2, LinkAssumption DEF TypeOK, Init
<1>4. Queues
  <2>1. \A S : <<>> \in Seq(S)
    BY EmptySeq
  <2>. QED
    BY <1>2, <2>1 DEF Queues, AllAnnounced, Init
<1>5. Exchange
  BY <1>1, <1>2, LinkAssumption DEF Exchange, Init, Unasked
<1>6. Coming
  BY <1>2 DEF Coming, Stream, Ahead, Taken, Init
<1>7. NotWhole /\ WaitingForFlarm /\ PayloadIntact
  BY <1>2 DEF NotWhole, WaitingForFlarm, PayloadIntact, Init
<1>. QED
  BY <1>1, <1>3, <1>4, <1>5, <1>6, <1>7 DEF IInv

LEMMA FlarmAnswersIInv == IInv /\ FlarmAnswers => IInv'
<1>. SUFFICES ASSUME IInv, FlarmAnswers
              PROVE  IInv'
  OBVIOUS
<1>1. /\ Stream \in Seq(Cells) /\ AllAnnounced(Stream, answered)
      /\ seq \in Nat /\ Len(answered) \in Nat /\ Len(frame) \in Nat
      /\ \A i \in 1..Len(answered) : answered[i] \in Seq(Bytes) /\ Len(answered[i]) \in Nat
  BY StreamFacts
<1>2. PICK p \in Payloads :
         /\ answered' = Append(answered, p)
         /\ line' = line \o <<Start, Header(Head(asked), Len(p))>> \o flarm_escape(p)
  BY DEF FlarmAnswers
<1>3. UNCHANGED <<requests, lost, binary, seq, in, frame, started, ret, tries, got, pc>>
  BY DEF FlarmAnswers, host
<1>4. asked = <<seq>> /\ Len(answered) = seq - 1 /\ pc \notin Unasked /\ asked' = <<>> /\ Head(asked) = seq
  <2>1. asked = <<seq>> /\ Len(answered) = seq - 1 /\ pc \notin Unasked
    BY DEF IInv, Exchange, FlarmAnswers
  <2>. QED
    BY <2>1 DEF FlarmAnswers
<1>5. /\ Len(answered') = seq /\ answered' \in Seq(Payloads) /\ answered'[seq] = p
      /\ \A i \in 1..Len(answered) : answered'[i] = answered[i]
  <2>1. answered \in Seq(Payloads)
    BY DEF IInv, Queues
  <2>2. Len(answered) + 1 = seq
    BY <1>1, <1>4
  <2>. QED
    BY <1>2, <2>1, <2>2, AppendProperties
<1>6. p \in Seq(Bytes) /\ Len(p) \in Nat /\ seq \in Nat \ {0} /\ seq \in 1..seq
  BY <1>1, <1>2, <1>4, ByteAssumption, LenProperties
<1>. DEFINE h == <<Start, Header(seq, Len(p))>>  e == flarm_escape(p)
<1>7. h \in Seq(Cells) /\ e \in Seq(Cells) /\ e \in Seq(Bytes)
  <2>1. Start \in Cells /\ Header(seq, Len(p)) \in Cells
    BY <1>6, CellFacts
  <2>2. e \in Seq(Bytes) /\ Bytes \subseteq Cells
    BY <1>6, Escaped DEF Cells
  <2>. HIDE DEF e
  <2>3. e \in Seq(Cells)
    BY <2>2, SeqMonotonic
  <2>. QED
    BY <2>1, <2>2, <2>3
<1>8. line \in Seq(Cells) /\ in \in Seq(Cells) /\ line' = (line \o h) \o e
  BY <1>2, <1>4 DEF IInv, Queues
<1>9. /\ AllAnnounced(line, answered') /\ AllAnnounced(in, answered') /\ AllAnnounced(frame, answered')
  <2>1. answered \in Seq(Payloads) /\ AllAnnounced(line, answered) /\ AllAnnounced(in, answered) /\ AllAnnounced(frame, answered)
    BY DEF IInv, Queues
  <2>. QED
    BY <1>2, <2>1, StillAnnounced
<1>10. AllAnnounced(h, answered') /\ AllAnnounced(e, answered')
  <2>1. Announced(Start, answered') /\ Announced(Header(seq, Len(p)), answered')
    BY <1>5, <1>6, CellFacts DEF Announced
  <2>2. ToSet(h) = {Start, Header(seq, Len(p))}
    BY OneOrTwo
  <2>3. ToSet(e) \subseteq Bytes
    BY <1>7, Members
  <2>4. \A b \in Bytes : Announced(b, answered')
    BY CellFacts DEF Announced
  <2>. HIDE DEF h, e
  <2>. QED
    BY <2>1, <2>2, <2>3, <2>4 DEF AllAnnounced
<1>. HIDE DEF h, e
<1>11. line \o h \in Seq(Cells) /\ AllAnnounced(line \o h, answered')
  BY <1>7, <1>8, <1>9, <1>10, AnnouncedBoth, ConcatProperties
<1>12. line' \in Seq(Cells) /\ AllAnnounced(line', answered')
  BY <1>7, <1>8, <1>10, <1>11, AnnouncedBoth, ConcatProperties
<1>13. Queues'
  <2>1. in' = in /\ frame' = frame /\ got' = got
    BY <1>3
  <2>2. frame \in Seq(Cells) /\ got \in Seq(Seq(Cells))
    BY DEF IInv, Queues
  <2>. QED
    BY <1>5, <1>8, <1>9, <1>12, <2>1, <2>2 DEF Queues
<1>14. Stream' = Stream \o (h \o e)
  <2>. DEFINE C == Cells
  <2>1. in \in Seq(C) /\ line \in Seq(C) /\ h \in Seq(C) /\ e \in Seq(C)
    BY <1>7, <1>8
  <2>. HIDE DEF C
  <2>. DEFINE he == h \o e
  <2>2. he \in Seq(C)
    BY <2>1, ConcatProperties
  <2>3. (line \o h) \o e = line \o (h \o e)
    BY <2>1, ConcatAssociative, SMTT(60)
  <2>. HIDE DEF he
  <2>4. (in \o line) \o he = in \o (line \o he)
    <3>. DEFINE x == in  y == line
    <3>1. x \in Seq(C) /\ y \in Seq(C) /\ he \in Seq(C)
      BY <2>1, <2>2
    <3>. HIDE DEF x, y
    <3>2. (x \o y) \o he = x \o (y \o he)
      BY <3>1, ConcatAssociative, SMTT(60)
    <3>. QED
      BY <3>2 DEF x, y
  <2>. QED
    BY <1>3, <1>8, <2>3, <2>4 DEF Stream, he
<1>15. seq \notin 1..Len(answered)
  BY <1>1, <1>4
<1>16. \A i \in DOMAIN Stream : ~IsHeader(Stream[i], seq)
  <2>1. \A i \in DOMAIN Stream : Announced(Stream[i], answered)
    BY <1>1, Elements DEF AllAnnounced
  <2>. QED
    BY <1>15, <2>1 DEF Announced, IsHeader
<1>17. Ahead(Stream', seq, answered')
  BY <1>1, <1>5, <1>6, <1>14, <1>16, AheadAnswer DEF h, e
<1>18. Taken(frame, Stream', seq, answered')
  <2>1. frame \in Seq(Cells) /\ AllAnnounced(frame, answered)
    BY DEF IInv, Queues
  <2>2. frame # <<>> => ~IsHeader(frame[1], seq)
    <3>1. frame # <<>> => 1 \in 1..Len(frame)
      BY <2>1, LenProperties, EmptySeq
    <3>2. \A i \in 1..Len(frame) : Announced(frame[i], answered)
      BY <2>1, Elements DEF AllAnnounced
    <3>. QED
      BY <1>15, <3>1, <3>2 DEF Announced, IsHeader
  <2>. QED
    BY <2>2 DEF Taken
<1>19. Coming'
  BY <1>3, <1>17, <1>18 DEF Coming
<1>20. Exchange'
  <2>1. Len(answered') = IF pc = "closed" THEN seq - 1 ELSE seq
    BY <1>4, <1>5 DEF Unasked
  <2>. QED
    BY <1>3, <1>4, <2>1 DEF IInv, Exchange
<1>21. TypeOK'
  <2>1. Len(answered') + Len(asked') = seq /\ pc # "closed"
    BY <1>1, <1>4, <1>5 DEF Unasked
  <2>. QED
    BY <1>3, <2>1 DEF IInv, TypeOK
<1>22. NotWhole' /\ WaitingForFlarm'
  BY <1>3 DEF IInv, NotWhole, WaitingForFlarm
<1>23. PayloadIntact'
  <2>1. \A i \in 1..Len(got) : i <= Len(answered) /\ (Unescaped(answered[i]) => got[i] = answered[i])
    BY DEF IInv, PayloadIntact
  <2>2. Len(got) \in Nat
    BY LenProperties DEF IInv, Queues
  <2>3. \A i \in 1..Len(got) : i \in 1..Len(answered) /\ i <= Len(answered')
    BY <1>1, <1>4, <1>5, <2>1, <2>2
  <2>. QED
    BY <1>3, <1>5, <2>1, <2>3 DEF PayloadIntact
<1>24. requests' \in 1..MaxRequests
  BY <1>3 DEF IInv
<1>. QED
  BY <1>13, <1>19, <1>20, <1>21, <1>22, <1>23, <1>24 DEF IInv

LEMMA LoseByteIInv == IInv /\ LoseByte => IInv'
<1>. SUFFICES ASSUME IInv, LoseByte
              PROVE  IInv'
  OBVIOUS
<1>1. /\ Stream \in Seq(Cells) /\ AllAnnounced(Stream, answered)
      /\ \A i \in 1..Len(answered) : Len(answered[i]) \in Nat
      /\ Ahead(Stream, seq, answered) /\ Taken(frame, Stream, seq, answered)
  BY StreamFacts
<1>2. PICK i \in 1..Len(line) : line[i].kind # "header" /\ line' = RemoveAt(line, i)
  BY DEF LoseByte
<1>3. UNCHANGED <<requests, asked, answered, binary, seq, in, frame, started, ret, tries, got, pc>>
  BY DEF LoseByte, host
<1>4. line \in Seq(Cells) /\ in \in Seq(Cells) /\ frame \in Seq(Cells) /\ AllAnnounced(line, answered)
      /\ AllAnnounced(frame, answered)
  BY DEF IInv, Queues
<1>5. line' \in Seq(Cells) /\ ToSet(line') \subseteq ToSet(line)
  <2>1. line \in Seq(ToSet(line))
    BY <1>4, Members
  <2>. QED
    BY <1>2, <1>4, <2>1, RemovedAt, Without
<1>6. Queues'
  <2>1. AllAnnounced(line', answered')
    BY <1>3, <1>4, <1>5, AnnouncedPart
  <2>. QED
    BY <1>3, <1>5, <2>1 DEF IInv, Queues
<1>. DEFINE k == Len(in) + i
<1>7. k \in 1..Len(Stream) /\ Stream[k] = line[i] /\ Stream' = RemoveAt(Stream, k)
  BY <1>2, <1>3, <1>4, RemovedBehind, ZenonT(60) DEF Stream
<1>. HIDE DEF k
<1>8. Ahead(Stream', seq, answered)
  <2>1. Stream[k].kind # "header"
    BY <1>2, <1>7
  <2>. QED
    BY <1>1, <1>7, <2>1, AheadLess
<1>9. Taken(frame, Stream', seq, answered)
  BY <1>1, <1>4, <1>7, TakenLess
<1>10. Coming'
  BY <1>3, <1>8, <1>9 DEF Coming
<1>11. TypeOK'
  <2>1. lost' \in 0..MaxLost
    BY LinkAssumption DEF LoseByte, IInv, TypeOK
  <2>. QED
    BY <1>3, <2>1 DEF IInv, TypeOK
<1>. QED
  BY <1>3, <1>6, <1>10, <1>11 DEF IInv, Exchange, NotWhole, WaitingForFlarm, PayloadIntact

LEMMA EnterBinaryIInv == IInv /\ EnterBinary => IInv'
<1>. SUFFICES ASSUME IInv, EnterBinary
              PROVE  IInv'
  OBVIOUS
<1>1. /\ seq \in Nat /\ Len(answered) \in Nat /\ pc = "open" /\ pc' = "send" /\ line' \in Chatter
      /\ UNCHANGED <<requests, asked, answered, lost, seq, in, frame, started, ret, tries, got>>
  BY StreamFacts DEF EnterBinary, device
<1>2. line' \in Seq(Cells) /\ ToSet(line') \subseteq Bytes
  <2>1. line' \in Seq(Bytes) /\ Bytes \subseteq Cells
    BY <1>1, ByteAssumption DEF Cells
  <2>. QED
    BY <2>1, SeqMonotonic, Members
<1>3. AllAnnounced(line', answered)
  BY <1>2, CellFacts DEF AllAnnounced, Announced
<1>4. /\ in \in Seq(Cells) /\ frame \in Seq(Cells) /\ AllAnnounced(in, answered) /\ AllAnnounced(frame, answered)
  BY DEF IInv, Queues
<1>5. Queues'
  BY <1>1, <1>2, <1>3 DEF IInv, Queues
<1>6. Coming'
  <2>1. Stream' \in Seq(Cells) /\ AllAnnounced(Stream', answered)
    BY <1>1, <1>2, <1>3, <1>4, AnnouncedBoth, ConcatProperties DEF Stream
  <2>2. seq \notin 1..Len(answered)
    BY <1>1 DEF IInv, Exchange
  <2>. QED
    BY <1>1, <1>4, <2>1, <2>2, NothingYet DEF Coming
<1>7. Exchange'
  BY <1>1 DEF IInv, Exchange, Unasked
<1>8. TypeOK'
  BY <1>1 DEF IInv, TypeOK
<1>9. NotWhole' /\ WaitingForFlarm' /\ PayloadIntact'
  BY <1>1 DEF IInv, NotWhole, WaitingForFlarm, PayloadIntact
<1>10. requests' \in 1..MaxRequests
  BY <1>1 DEF IInv
<1>. QED
  BY <1>5, <1>6, <1>7, <1>8, <1>9, <1>10 DEF IInv

\* A new number: nothing of its answer is there.
LEMMA NewNumber ==
    ASSUME IInv, UNCHANGED <<line, in, frame, answered>>, seq' \notin 1..Len(answered)
    PROVE  Coming' /\ (frame # <<>> => ~IsHeader(frame[1], seq'))
<1>1. /\ Stream \in Seq(Cells) /\ AllAnnounced(Stream, answered)
      /\ frame \in Seq(Cells) /\ AllAnnounced(frame, answered)
  BY StreamFacts DEF IInv, Queues
<1>2. Ahead(Stream, seq', answered) /\ Taken(frame, Stream, seq', answered)
  <2>. DEFINE n == seq'
  <2>1. n \notin 1..Len(answered)
    OBVIOUS
  <2>. HIDE DEF n
  <2>2. Ahead(Stream, n, answered) /\ Taken(frame, Stream, n, answered)
    BY <1>1, <2>1, NothingYet
  <2>. QED
    BY <2>2 DEF n
<1>3. Stream' = Stream
  BY DEF Stream
<1>4. frame # <<>> => ~IsHeader(frame[1], seq')
  <2>1. frame # <<>> => 1 \in 1..Len(frame)
    BY <1>1, LenProperties, EmptySeq
  <2>2. \A i \in 1..Len(frame) : Announced(frame[i], answered)
    BY <1>1, Elements DEF AllAnnounced
  <2>. QED
    BY <2>1, <2>2 DEF Announced, IsHeader
<1>. QED
  BY <1>2, <1>3, <1>4 DEF Coming

LEMMA SendFrameIInv == IInv /\ SendFrame => IInv'
<1>. SUFFICES ASSUME IInv, SendFrame
              PROVE  IInv'
  OBVIOUS
<1>1. /\ seq \in Nat /\ Len(answered) \in Nat /\ pc = "send" /\ pc' = "recv" /\ seq' = seq + 1
      /\ asked' = Append(asked, seq + 1) /\ tries' = 0
      /\ UNCHANGED <<requests, line, answered, lost, in, frame, started, ret, got>>
  BY StreamFacts DEF SendFrame
<1>2. asked = <<>> /\ Len(answered) = seq /\ seq < requests /\ Len(got) = seq
  BY <1>1 DEF IInv, Exchange, Unasked
<1>3. asked' = <<seq'>> /\ Len(asked') = 1
  BY <1>1, <1>2
<1>4. requests \in Nat
  BY LinkAssumption DEF IInv
<1>5. Coming' /\ (frame # <<>> => ~IsHeader(frame[1], seq'))
  <2>1. seq' \notin 1..Len(answered)
    BY <1>1, <1>2
  <2>. QED
    BY <1>1, <2>1, NewNumber
<1>6. Queues'
  BY <1>1 DEF IInv, Queues
<1>7. Exchange'
  <2>1. Len(answered) = seq' - 1 /\ seq' > 0 /\ seq' <= requests /\ Len(got) = seq' - 1 /\ 0 < MaxTries
    BY <1>1, <1>2, <1>4, LinkAssumption
  <2>. QED
    BY <1>1, <1>3, <2>1 DEF Exchange, Unasked
<1>8. TypeOK'
  <2>1. Len(answered) + Len(asked') = seq' /\ seq' \in 0..requests + 1 /\ 0 \in 0..MaxTries
    BY <1>1, <1>2, <1>3, <1>4, LinkAssumption
  <2>. QED
    BY <1>1, <2>1 DEF IInv, TypeOK
<1>9. NotWhole' /\ WaitingForFlarm' /\ PayloadIntact'
  BY <1>1, <1>5 DEF IInv, NotWhole, WaitingForFlarm, PayloadIntact
<1>10. requests' \in 1..MaxRequests
  BY <1>1 DEF IInv
<1>. QED
  BY <1>5, <1>6, <1>7, <1>8, <1>9, <1>10 DEF IInv

LEMMA ExitBinaryIInv == IInv /\ ExitBinary => IInv'
<1>. SUFFICES ASSUME IInv, ExitBinary
              PROVE  IInv'
  OBVIOUS
<1>1. /\ seq \in Nat /\ Len(answered) \in Nat /\ pc = "done" /\ pc' = "closed" /\ seq' = seq + 1
      /\ UNCHANGED <<requests, line, asked, answered, lost, in, frame, started, ret, tries, got>>
  BY StreamFacts DEF ExitBinary, device
<1>2. asked = <<>> /\ Len(answered) = seq /\ seq <= requests /\ Len(got) = seq /\ seq > 0 /\ Len(asked) = 0
  BY <1>1, OneOrTwo DEF IInv, Exchange, Unasked
<1>3. requests \in Nat
  BY LinkAssumption DEF IInv
<1>4. Coming'
  <2>1. seq' \notin 1..Len(answered)
    BY <1>1, <1>2
  <2>. QED
    BY <1>1, <2>1, NewNumber
<1>5. Queues'
  BY <1>1 DEF IInv, Queues
<1>6. Exchange'
  <2>1. Len(answered) = seq' - 1 /\ seq' > 0 /\ Len(got) = seq' - 1
    BY <1>1, <1>2
  <2>2. tries < MaxTries
    BY <1>1 DEF IInv, Exchange
  <2>. QED
    BY <1>1, <1>2, <2>1, <2>2 DEF Exchange, Unasked
<1>7. TypeOK'
  <2>1. Len(answered) + Len(asked) = seq' - 1 /\ seq' \in 0..requests + 1
    BY <1>1, <1>2, <1>3
  <2>. QED
    BY <1>1, <2>1 DEF IInv, TypeOK
<1>8. NotWhole' /\ WaitingForFlarm' /\ PayloadIntact'
  BY <1>1 DEF IInv, NotWhole, WaitingForFlarm, PayloadIntact
<1>9. requests' \in 1..MaxRequests
  BY <1>1 DEF IInv
<1>. QED
  BY <1>4, <1>5, <1>6, <1>7, <1>8, <1>9 DEF IInv

LEMMA EnterRecvIInv == IInv /\ EnterRecv => IInv'
<1>. SUFFICES ASSUME IInv, EnterRecv
              PROVE  IInv'
  OBVIOUS
<1>1. /\ pc = "recv" /\ pc' \in {"body", "sync"}
      /\ \/ pc' = "body" /\ UNCHANGED frame
         \/ pc' = "sync" /\ frame' = <<>>
      /\ UNCHANGED <<requests, line, asked, answered, lost, in, seq, started, ret, tries, got>>
  BY DEF EnterRecv, device
<1>2. frame' \in Seq(Cells) /\ AllAnnounced(frame', answered) /\ Len(frame') <= FrameCap
  <2>1. <<>> \in Seq(Cells) /\ ToSet(<<>>) = {} /\ Len(<<>>) = 0
    BY OneOrTwo, EmptySeq
  <2>2. 0 <= FrameCap
    BY LinkAssumption
  <2>. QED
    BY <1>1, <2>1, <2>2 DEF IInv, Queues, AllAnnounced, TypeOK
<1>3. Queues'
  BY <1>1, <1>2 DEF IInv, Queues
<1>4. Coming'
  BY <1>1 DEF IInv, Coming, Stream, Taken
<1>5. Exchange'
  BY <1>1 DEF IInv, Exchange, Unasked
<1>6. TypeOK'
  BY <1>1, <1>2 DEF IInv, TypeOK
<1>7. NotWhole' /\ WaitingForFlarm' /\ PayloadIntact'
  BY <1>1 DEF IInv, NotWhole, WaitingForFlarm, PayloadIntact
<1>8. requests' \in 1..MaxRequests
  BY <1>1 DEF IInv
<1>. QED
  BY <1>3, <1>4, <1>5, <1>6, <1>7, <1>8 DEF IInv

\* Reading moves a part of the line into the buffer, at most.
LEMMA ReadsSame ==
    ASSUME IInv, NEW r \in Reads
    PROVE  /\ r[1] \in Seq(Cells) /\ r[2] \in Seq(Cells) /\ r[1] \o r[2] = Stream
           /\ AllAnnounced(r[1], answered) /\ AllAnnounced(r[2], answered)
<1>1. /\ line \in Seq(Cells) /\ in \in Seq(Cells)
      /\ AllAnnounced(line, answered) /\ AllAnnounced(in, answered)
  BY DEF IInv, Queues
<1>2. CASE in # <<>>
  <2>1. r = <<in, line>>
    BY <1>2 DEF Reads
  <2>. QED
    BY <1>1, <2>1 DEF Stream
<1>3. CASE in = <<>>
  <2>1. Len(line) \in Nat /\ (line = <<>> => 0 \in 0..Len(line))
    BY <1>1, LenProperties
  <2>2. PICK k \in (IF line = <<>> THEN {0} ELSE 1..Len(line)) : r = <<SubSeq(line, 1, k), SubSeq(line, k + 1, Len(line))>>
    BY <1>3 DEF Reads
  <2>3. k \in 0..Len(line)
    BY <2>1, <2>2
  <2>. DEFINE a == SubSeq(line, 1, k)  b == After(line, k)
  <2>4. r[1] = a /\ r[2] = b
    BY <2>2 DEF After
  <2>5. a \in Seq(Cells) /\ b \in Seq(Cells) /\ a \o b = line
    BY <1>1, <2>3, CutAt, AfterAt
  <2>6. ToSet(a) \subseteq ToSet(line) /\ ToSet(b) \subseteq ToSet(line)
    BY <1>1, <2>3, PartsAmong
  <2>. HIDE DEF a, b
  <2>7. <<>> \o line = line
    BY <1>1, ConcatProperties
  <2>8. AllAnnounced(a, answered) /\ AllAnnounced(b, answered)
    BY <1>1, <2>6, AnnouncedPart
  <2>. QED
    BY <1>3, <2>4, <2>5, <2>7, <2>8 DEF Stream
<1>. QED
  BY <1>2, <1>3

LEMMA WaitStartframeIInv == IInv /\ WaitStartframe => IInv'
<1>. SUFFICES ASSUME IInv, WaitStartframe
              PROVE  IInv'
  OBVIOUS
<1>1. PICK r \in Reads :
         LET starts == {i \in 1..Len(r[1]) : r[1][i] = Start}
             first  == CHOOSE i \in starts : \A j \in starts : i <= j
         IN /\ line' = r[2]
            /\ \/ r[1] = <<>> /\ in' = <<>> /\ pc' = "again" /\ UNCHANGED started
               \/ r[1] # <<>> /\ starts = {} /\ in' = <<>> /\ UNCHANGED <<pc, started>>
               \/ /\ starts # {} /\ in' = SubSeq(r[1], first + 1, Len(r[1]))
                  /\ started' = TRUE /\ pc' = "body"
  BY DEF WaitStartframe
<1>2. pc = "sync" /\ UNCHANGED <<requests, asked, answered, lost, seq, frame, ret, tries, got>>
  BY DEF WaitStartframe, device
<1>3. /\ r[1] \in Seq(Cells) /\ r[2] \in Seq(Cells) /\ r[1] \o r[2] = Stream
      /\ AllAnnounced(r[1], answered) /\ AllAnnounced(r[2], answered)
  BY ReadsSame
<1>4. frame = <<>> /\ Len(frame) = 0 /\ Len(r[1]) \in Nat /\ Ahead(Stream, seq, answered)
  BY <1>2, <1>3, OneOrTwo, LenProperties, StreamFacts DEF IInv, NotWhole
<1>5. PICK k \in 0..Len(r[1]) :
         /\ in' = After(r[1], k)
         /\ pc' \in {"again", "sync", "body"} /\ (pc' = "again" => in' = <<>>)
  <2>1. After(r[1], Len(r[1])) = <<>>
    <3>1. Len(r[1]) \in 0..Len(r[1]) /\ Len(r[1]) - Len(r[1]) = 0
      BY <1>4
    <3>2. After(r[1], Len(r[1])) \in Seq(Cells) /\ Len(After(r[1], Len(r[1]))) = Len(r[1]) - Len(r[1])
      BY <1>3, <3>1, AfterAt
    <3>. QED
      BY <3>1, <3>2, EmptySeq
  <2>2. Len(r[1]) \in 0..Len(r[1])
    BY <1>4
  <2>3. CASE in' = <<>> /\ pc' \in {"again", "sync"}
    BY <2>1, <2>2, <2>3
  <2>4. CASE ~(in' = <<>> /\ pc' \in {"again", "sync"})
    <3>. DEFINE starts == {i \in 1..Len(r[1]) : r[1][i] = Start}
                first  == CHOOSE i \in starts : \A j \in starts : i <= j
    <3>1. starts # {} /\ in' = SubSeq(r[1], first + 1, Len(r[1])) /\ pc' = "body"
      BY <1>1, <1>2, <2>4
    <3>2. starts \subseteq Nat /\ starts \subseteq 1..Len(r[1])
      BY <1>4
    <3>3. ASSUME NEW H, H \subseteq Nat, H # {}
          PROVE  (CHOOSE q \in H : \A o \in H : q <= o) \in H
      BY <3>3, Least
    <3>. HIDE DEF starts
    <3>4. first \in starts
      BY <3>1, <3>2, <3>3
    <3>. HIDE DEF first
    <3>5. first \in 0..Len(r[1])
      BY <1>4, <3>2, <3>4
    <3>. QED
      BY <3>1, <3>5 DEF After
  <2>. QED
    BY <2>3, <2>4
<1>6. in' \in Seq(Cells) /\ ToSet(in') \subseteq ToSet(r[1])
  BY <1>3, <1>5, AfterAt, PartsAmong
<1>7. Queues'
  <2>1. AllAnnounced(in', answered)
    BY <1>3, <1>6, AnnouncedPart
  <2>2. line' = r[2]
    BY <1>1
  <2>. QED
    BY <1>2, <1>3, <1>6, <2>1, <2>2 DEF IInv, Queues
<1>8. Coming'
  <2>1. line' = r[2]
    BY <1>1
  <2>2. Stream' = After(Stream, k)
    <3>1. After(r[1], k) \o r[2] = After(r[1] \o r[2], k)
      BY <1>3, AfterJoined
    <3>. QED
      BY <1>3, <1>5, <2>1, <3>1 DEF Stream
  <2>3. Ahead(Stream', seq, answered)
    <3>1. k \in 0..Len(Stream) /\ Stream \in Seq(Cells)
      <4>1. Len(Stream) = Len(r[1]) + Len(r[2]) /\ Stream \in Seq(Cells) /\ Len(r[2]) \in Nat
        <5>. DEFINE x == r[1]  y == r[2]
        <5>1. x \in Seq(Cells) /\ y \in Seq(Cells) /\ x \o y = Stream
          BY <1>3
        <5>. HIDE DEF x, y
        <5>2. Len(x \o y) = Len(x) + Len(y) /\ x \o y \in Seq(Cells) /\ Len(y) \in Nat
          BY <5>1, ConcatProperties, LenProperties
        <5>. QED
          BY <5>1, <5>2 DEF x, y
      <4>2. Len(r[1]) \in Nat
        BY <1>4
      <4>. DEFINE l == Len(r[1])  m == Len(r[2])
      <4>3. k \in 0..l /\ l \in Nat /\ m \in Nat /\ Len(Stream) = l + m
        BY <4>1, <4>2
      <4>. HIDE DEF l, m
      <4>4. k \in 0..Len(Stream)
        BY <4>3
      <4>. QED
        BY <4>1, <4>4
    <3>. QED
      BY <1>4, <2>2, <3>1, AheadAfter
  <2>. QED
    BY <1>2, <1>4, <2>3 DEF Coming, Taken
<1>9. Exchange'
  BY <1>2, <1>5 DEF IInv, Exchange, Unasked
<1>10. TypeOK'
  BY <1>2, <1>5 DEF IInv, TypeOK
<1>11. NotWhole' /\ WaitingForFlarm' /\ PayloadIntact'
  BY <1>2, <1>4, <1>5 DEF IInv, NotWhole, WaitingForFlarm, PayloadIntact
<1>12. requests' \in 1..MaxRequests
  BY <1>2 DEF IInv
<1>. QED
  BY <1>7, <1>8, <1>9, <1>10, <1>11, <1>12 DEF IInv

LEMMA ReadBodyIInv == IInv /\ ReadBody => IInv'
<1>. SUFFICES ASSUME IInv, ReadBody
              PROVE  IInv'
  OBVIOUS
<1>1. PICK r \in Reads :
         /\ line' = r[2] /\ in' = r[1]
         /\ \/ r[1] = <<>> /\ pc' = "again" /\ UNCHANGED started
            \/ r[1] # <<>> /\ Len(frame) = FrameCap
               /\ started' = FALSE /\ pc' = "exit"
            \/ r[1] # <<>> /\ Len(frame) # FrameCap
               /\ pc' = "unescape" /\ UNCHANGED started
  BY DEF ReadBody
<1>2. pc = "body" /\ UNCHANGED <<requests, asked, answered, lost, seq, frame, ret, tries, got>>
  BY DEF ReadBody, device
<1>3. /\ r[1] \in Seq(Cells) /\ r[2] \in Seq(Cells) /\ r[1] \o r[2] = Stream
      /\ AllAnnounced(r[1], answered) /\ AllAnnounced(r[2], answered)
  BY ReadsSame
<1>4. Queues'
  BY <1>1, <1>2, <1>3 DEF IInv, Queues
<1>5. Coming'
  <2>1. Stream' = Stream
    BY <1>1, <1>3 DEF Stream
  <2>. QED
    BY <1>2, <2>1 DEF IInv, Coming
<1>6. Exchange'
  BY <1>1, <1>2 DEF IInv, Exchange, Unasked
<1>7. TypeOK'
  BY <1>1, <1>2 DEF IInv, TypeOK
<1>8. NotWhole' /\ WaitingForFlarm' /\ PayloadIntact'
  BY <1>1, <1>2 DEF IInv, NotWhole, WaitingForFlarm, PayloadIntact
<1>9. requests' \in 1..MaxRequests
  BY <1>2 DEF IInv
<1>. QED
  BY <1>4, <1>5, <1>6, <1>7, <1>8, <1>9 DEF IInv

LEMMA UnescapeSomeIInv == IInv /\ UnescapeSome => IInv'
<1>. SUFFICES ASSUME IInv, UnescapeSome
              PROVE  IInv'
  OBVIOUS
<1>. DEFINE room == FrameCap - Len(frame)
            k == IF Len(in) > room THEN room ELSE Len(in)
            r == flarm_unescape(SubSeq(in, 1, k))
<1>1. /\ pc = "unescape"
      /\ in' = After(in, r.used)
      /\ frame' = frame \o r.out
      /\ ret' = r.ret
      /\ pc' = IF in' # <<>> /\ r.ret = "SUCCESS" THEN "unescape" ELSE "check"
      /\ UNCHANGED <<requests, line, asked, answered, lost, seq, started, tries, got>>
  BY DEF UnescapeSome, After, device
<1>2. /\ line \in Seq(Cells) /\ in \in Seq(Cells) /\ frame \in Seq(Cells)
      /\ AllAnnounced(in, answered) /\ AllAnnounced(frame, answered)
  BY DEF IInv, Queues
<1>3. /\ Ahead(Stream, seq, answered) /\ Taken(frame, Stream, seq, answered)
      /\ seq \in Nat /\ Stream \in Seq(Cells)
  BY StreamFacts
<1>4. k \in 0..Len(in) /\ k <= room /\ Len(in) \in Nat /\ room \in Nat /\ Len(frame) \in Nat /\ k \in Nat
  <2>1. Len(in) \in Nat /\ Len(frame) \in Nat /\ Len(frame) <= FrameCap /\ FrameCap \in Nat
    BY <1>2, LenProperties, LinkAssumption DEF IInv, TypeOK
  <2>2. room \in Nat
    BY <2>1
  <2>. HIDE DEF room
  <2>. QED
    BY <2>1, <2>2
<1>. HIDE DEF k
<1>. DEFINE b == SubSeq(in, 1, k)
<1>5. b \in Seq(Cells) /\ Len(b) = k /\ \A i \in 1..k : b[i] = in[i]
  BY <1>2, <1>4, CutAt
<1>6. /\ r.out \in Seq(Cells) /\ Len(r.out) <= k /\ r.used \in 0..k
      /\ \A i \in 1..Len(r.out) : i \in 1..k /\ (r.out[i] = b[i] \/ r.out[i] = Start)
  <2>. HIDE DEF b
  <2>1. /\ flarm_unescape(b).out \in Seq(Cells) /\ Len(flarm_unescape(b).out) <= Len(b)
        /\ flarm_unescape(b).used \in 0..Len(b)
        /\ \A i \in 1..Len(flarm_unescape(b).out) :
             i \in 1..Len(b) /\ (flarm_unescape(b).out[i] = b[i] \/ flarm_unescape(b).out[i] = Start)
    BY <1>5, Unescape
  <2>. QED
    BY <1>5, <2>1 DEF b
<1>7. r.used \in 0..Len(in) /\ Len(r.out) \in Nat
  BY <1>4, <1>6, LenProperties
<1>8. SubSeq(Stream, 1, k) = b /\ k \in 0..Len(Stream)
  <2>1. /\ Len(line) \in Nat /\ Len(Stream) = Len(in) + Len(line)
        /\ \A i \in 1..Len(in) + Len(line) : Stream[i] = IF i <= Len(in) THEN in[i] ELSE line[i - Len(in)]
    BY <1>2, LenProperties, ConcatProperties DEF Stream
  <2>2. k \in 0..Len(Stream)
    BY <1>4, <2>1
  <2>. DEFINE c == SubSeq(Stream, 1, k)
  <2>3. c \in Seq(Cells) /\ Len(c) = k /\ \A i \in 1..k : c[i] = Stream[i]
    BY <1>3, <2>2, CutAt
  <2>4. \A i \in 1..k : Stream[i] = in[i]
    <3>1. \A i \in 1..k : i \in 1..Len(in) + Len(line) /\ i <= Len(in)
      BY <1>4, <2>1
    <3>. QED
      BY <2>1, <3>1
  <2>. HIDE DEF b, c
  <2>5. c = b
    BY <1>5, <2>3, <2>4, SeqEqual
  <2>. QED
    BY <2>2, <2>5 DEF c
<1>. HIDE DEF b
<1>9. r = flarm_unescape(b)
  BY DEF b
<1>. HIDE DEF r
<1>10. Stream' = After(Stream, r.used)
  BY <1>1, <1>2, <1>7, AfterJoined DEF Stream
<1>11. Coming'
  <2>1. Taken(frame \o r.out, After(Stream, r.used), seq, answered)
    <3>1. r = flarm_unescape(SubSeq(Stream, 1, k))
      BY <1>8, <1>9
    <3>. QED
      BY <1>2, <1>3, <1>8, <3>1, TakenMore
  <2>2. Ahead(After(Stream, r.used), seq, answered)
    <3>1. r.used \in 0..Len(Stream)
      BY <1>4, <1>6, <1>8
    <3>. QED
      BY <1>3, <3>1, AheadAfter
  <2>. QED
    BY <1>1, <1>10, <2>1, <2>2 DEF Coming
<1>12. Len(frame') <= FrameCap /\ frame' \in Seq(Cells)
  <2>1. frame \o r.out \in Seq(Cells) /\ Len(frame \o r.out) = Len(frame) + Len(r.out)
    BY <1>2, <1>6, ConcatProperties
  <2>2. FrameCap \in Nat
    BY LinkAssumption
  <2>. QED
    BY <1>1, <1>4, <1>6, <1>7, <2>1, <2>2
<1>13. Queues'
  <2>1. in' \in Seq(Cells) /\ ToSet(in') \subseteq ToSet(in)
    BY <1>1, <1>2, <1>7, AfterAt, PartsAmong
  <2>2. AllAnnounced(in', answered)
    BY <1>2, <2>1, AnnouncedPart
  <2>3. AllAnnounced(r.out, answered)
    <3>1. ASSUME NEW i \in 1..Len(r.out)
          PROVE  Announced(r.out[i], answered)
      <4>1. CASE r.out[i] = Start
        BY <4>1, CellFacts DEF Announced
      <4>2. CASE r.out[i] = b[i]
        <5>1. i \in 1..k /\ i \in 1..Len(in) /\ b[i] = in[i]
          BY <1>4, <1>5, <1>6
        <5>2. in[i] \in ToSet(in)
          BY <1>2, <5>1, Elements
        <5>. QED
          BY <1>2, <4>2, <5>1, <5>2 DEF AllAnnounced
      <4>. QED
        BY <1>6, <4>1, <4>2
    <3>2. DOMAIN r.out = 1..Len(r.out)
      BY <1>6, LenProperties
    <3>. QED
      BY <3>1, <3>2 DEF AllAnnounced, ToSet
  <2>4. AllAnnounced(frame', answered)
    BY <1>1, <1>2, <1>6, <2>3, AnnouncedBoth
  <2>. QED
    BY <1>1, <1>12, <2>1, <2>2, <2>4 DEF IInv, Queues
<1>14. Exchange'
  BY <1>1 DEF IInv, Exchange, Unasked
<1>15. TypeOK'
  BY <1>1, <1>12 DEF IInv, TypeOK
<1>16. NotWhole' /\ WaitingForFlarm' /\ PayloadIntact'
  BY <1>1 DEF IInv, NotWhole, WaitingForFlarm, PayloadIntact
<1>17. requests' \in 1..MaxRequests
  BY <1>1 DEF IInv
<1>. QED
  BY <1>11, <1>13, <1>14, <1>15, <1>16, <1>17 DEF IInv

LEMMA CheckIncompleteIInv == IInv /\ CheckIncomplete => IInv'
<1>. SUFFICES ASSUME IInv, CheckIncomplete
              PROVE  IInv'
  OBVIOUS
<1>1. /\ pc = "check" /\ pc' \in {"exit", "again"}
      /\ UNCHANGED <<requests, line, asked, answered, lost, seq, in, frame, ret, tries, got>>
  BY DEF CheckIncomplete, device
<1>2. \/ pc' = "exit"
      \/ pc' = "again" /\ ret = "EAGAIN"
      \/ pc' = "again" /\ started' = FALSE
      \/ pc' = "again" /\ ret = "SUCCESS" /\ ~Complete
  BY DEF CheckIncomplete
<1>3. Queues' /\ Coming' /\ Exchange' /\ TypeOK' /\ requests' \in 1..MaxRequests
  <2>1. Coming'
    BY <1>1, SameStream
  <2>. QED
    BY <1>1, <2>1 DEF IInv, Queues, Exchange, Unasked, TypeOK
<1>4. PayloadIntact'
  BY <1>1 DEF IInv, PayloadIntact
<1>5. WaitingForFlarm'
  BY <1>1, <1>2 DEF IInv, NotWhole, WaitingForFlarm
<1>6. NotWhole'
  <2>1. ASSUME ~Complete, frame # <<>>, IsHeader(frame[1], seq)
        PROVE  Len(frame) < 1 + frame[1].len
    <3>1. frame[1].len \in Nat /\ Len(frame) \in Nat
      <4>1. pc \notin {"open", "send"} /\ frame[1].seq = seq
        BY <1>1, <2>1 DEF IsHeader
      <4>2. seq \in 1..Len(answered) /\ frame[1].len = Len(answered[seq])
        BY <2>1, <4>1, FrameIsAnswer
      <4>. QED
        BY <4>2, StreamFacts
    <3>2. ~(Len(frame) >= 1 + frame[1].len)
      BY <2>1 DEF Complete
    <3>. QED
      BY <3>1, <3>2
  <2>. QED
    BY <1>1, <1>2, <2>1 DEF NotWhole
<1>. QED
  BY <1>3, <1>4, <1>5, <1>6 DEF IInv

LEMMA PollAgainIInv == IInv /\ PollAgain => IInv'
<1>. SUFFICES ASSUME IInv, PollAgain
              PROVE  IInv'
  OBVIOUS
<1>1. /\ pc = "again" /\ tries' = tries + 1
      /\ pc' = IF tries + 1 = MaxTries THEN "gaveup" ELSE "recv"
      /\ UNCHANGED <<requests, line, asked, answered, lost, seq, in, frame, started, ret, got>>
  BY DEF PollAgain, device
<1>2. tries \in Nat /\ tries < MaxTries /\ MaxTries \in Nat
  BY <1>1, LinkAssumption DEF IInv, Exchange, TypeOK
<1>3. Coming'
  BY <1>1, SameStream
<1>4. tries' \in 0..MaxTries /\ (pc' # "gaveup" => tries' < MaxTries)
  BY <1>1, <1>2
<1>5. Queues' /\ requests' \in 1..MaxRequests
  BY <1>1 DEF IInv, Queues
<1>6. Exchange'
  BY <1>1, <1>4 DEF IInv, Exchange, Unasked
<1>7. TypeOK'
  BY <1>1, <1>4 DEF IInv, TypeOK
<1>8. NotWhole' /\ WaitingForFlarm' /\ PayloadIntact'
  BY <1>1 DEF IInv, NotWhole, WaitingForFlarm, PayloadIntact
<1>. QED
  BY <1>3, <1>5, <1>6, <1>7, <1>8 DEF IInv

LEMMA CheckCompleteIInv == IInv /\ CheckComplete => IInv'
<1>. SUFFICES ASSUME IInv, CheckComplete
              PROVE  IInv'
  OBVIOUS
<1>1. /\ pc = "check" /\ Complete
      /\ UNCHANGED <<requests, line, asked, answered, lost, seq, in, frame, started, ret>>
  BY DEF CheckComplete, device
<1>2. Coming'
  BY <1>1, SameStream
<1>3. /\ frame \in Seq(Cells) /\ got \in Seq(Seq(Cells)) /\ Len(got) \in Nat /\ frame # <<>>
      /\ Len(frame) >= 1 + frame[1].len
  BY <1>1, LenProperties DEF IInv, Queues, Complete
<1>4. CASE frame[1].seq = seq
  <2>1. /\ got' = Append(got, SubSeq(frame, 2, 1 + frame[1].len))
        /\ pc' = IF seq = requests THEN "done" ELSE "send"
        /\ tries' = tries
    BY <1>4 DEF CheckComplete
  <2>2. IsHeader(frame[1], seq) /\ seq \in 1..Len(answered) /\ frame[1].len = Len(answered[seq])
    BY <1>1, <1>3, <1>4, FrameIsAnswer
  <2>3. seq \in Nat /\ seq > 0 /\ Len(answered) \in Nat /\ Len(frame) \in Nat /\ Len(answered[seq]) \in Nat
    BY <2>2, StreamFacts
  <2>. DEFINE p == answered[seq]  q == SubSeq(frame, 2, 1 + frame[1].len)  t == After(frame, 1)
  <2>4. /\ t \in Seq(Cells) /\ Len(t) = Len(frame) - 1
        /\ \A i \in 1..(Len(frame) - 1) : 1 + i \in 1..Len(frame) /\ t[i] = frame[1 + i]
    <3>1. 1 \in 0..Len(frame)
      BY <1>3, <2>2, <2>3
    <3>. QED
      BY <1>3, <3>1, AfterAt
  <2>5. q \in Seq(Cells) /\ Len(q) = Len(p) /\ \A i \in 1..Len(p) : q[i] = frame[1 + i]
    <3>. DEFINE m == 2  n == 1 + Len(p)
    <3>1. \A i \in m..n : frame[i] \in Cells
      <4>1. \A i \in m..n : i \in 1..Len(frame)
        BY <1>3, <2>2, <2>3
      <4>. QED
        BY <1>3, <4>1, Elements
    <3>2. m \in Int /\ n \in Int /\ n - m + 1 = Len(p) /\ (~(m <= n) => Len(p) = 0)
      BY <2>3
    <3>3. \A i \in 1..(n - m + 1) : m + i - 1 = 1 + i
      BY <2>3
    <3>. HIDE DEF m, n
    <3>. DEFINE w == SubSeq(frame, m, n)
    <3>4. /\ w \in Seq(Cells) /\ Len(w) = IF m <= n THEN n - m + 1 ELSE 0
          /\ \A i \in 1..(n - m + 1) : w[i] = frame[m + i - 1]
      BY <1>3, <3>1, <3>2, SubSeqProperties
    <3>. HIDE DEF w
    <3>5. w \in Seq(Cells) /\ Len(w) = Len(p) /\ \A i \in 1..Len(p) : w[i] = frame[1 + i]
      BY <3>2, <3>3, <3>4
    <3>6. q = w
      BY <2>2 DEF w, m, n
    <3>. QED
      BY <3>5, <3>6
  <2>. HIDE DEF t
  <2>6. Unescaped(p) => q = p
    <3>. SUFFICES ASSUME Unescaped(p)
                  PROVE  q = p
      OBVIOUS
    <3>1. LeftOf(p, t \o Stream)
      BY <1>3, <2>2, StreamFacts DEF Taken, t
    <3>2. /\ Stream \in Seq(Cells) /\ Len(Stream) \in Nat
      BY StreamFacts, LenProperties
    <3>3. /\ t \o Stream \in Seq(Cells) /\ Len(t \o Stream) = Len(t) + Len(Stream)
          /\ \A i \in 1..Len(t) + Len(Stream) : (t \o Stream)[i] = IF i <= Len(t) THEN t[i] ELSE Stream[i - Len(t)]
      BY <2>4, <3>2, ConcatProperties
    <3>4. Len(t \o Stream) = Len(p) /\ Len(t) = Len(p) /\ t \o Stream = p
      <4>1. Len(t \o Stream) <= Len(p) /\ Len(t) >= Len(p) /\ Len(t) \in Nat
        BY <1>3, <2>2, <2>3, <2>4, <3>1 DEF LeftOf
      <4>2. Len(t \o Stream) = Len(p) /\ Len(t) = Len(p)
        BY <2>3, <3>2, <3>3, <4>1
      <4>. QED
        BY <3>1, <4>2 DEF LeftOf
    <3>5. ASSUME NEW i \in 1..Len(p)
          PROVE  q[i] = (t \o Stream)[i]
      <4>1. i \in 1..(Len(frame) - 1) /\ i \in 1..Len(t) + Len(Stream) /\ i <= Len(t)
        BY <2>3, <2>4, <3>2, <3>4
      <4>. QED
        BY <2>4, <2>5, <3>3, <4>1
    <3>6. q = t \o Stream
      <4>. DEFINE u == t \o Stream
      <4>1. u \in Seq(Cells) /\ Len(u) = Len(p) /\ \A i \in 1..Len(p) : q[i] = u[i]
        BY <3>3, <3>4, <3>5
      <4>. HIDE DEF u, q, p
      <4>2. q = u
        BY <2>5, <4>1, SeqEqual
      <4>. QED
        BY <4>2 DEF u
    <3>. QED
      BY <3>4, <3>6
  <2>. HIDE DEF q
  <2>7. Len(got) = seq - 1 /\ seq <= requests /\ requests \in Nat /\ tries < MaxTries
    BY <1>1, LinkAssumption DEF IInv, Exchange
  <2>8. asked = <<>> /\ Len(answered) = seq
    BY <1>1, <2>2, <2>3 DEF IInv, Exchange
  <2>9. /\ got' \in Seq(Seq(Cells)) /\ Len(got') = seq /\ got'[seq] = q
        /\ \A i \in 1..Len(got) : got'[i] = got[i]
    <3>1. got' = Append(got, q) /\ Len(got) + 1 = seq
      BY <2>1, <2>3, <2>7 DEF q
    <3>. QED
      BY <1>3, <2>5, <3>1, AppendProperties
  <2>10. PayloadIntact'
    <3>1. ASSUME NEW i \in 1..Len(got')
          PROVE  i <= Len(answered') /\ (Unescaped(answered'[i]) => got'[i] = answered'[i])
      <4>1. CASE i = seq
        BY <1>1, <2>3, <2>6, <2>8, <2>9, <4>1
      <4>2. CASE i # seq
        <5>1. i \in 1..Len(got)
          BY <2>3, <2>7, <2>9, <4>2
        <5>2. i <= Len(answered) /\ (Unescaped(answered[i]) => got[i] = answered[i])
          BY <5>1 DEF IInv, PayloadIntact
        <5>. QED
          BY <1>1, <2>9, <5>1, <5>2
      <4>. QED
        BY <4>1, <4>2
    <3>. QED
      BY <3>1 DEF PayloadIntact
  <2>11. Queues' /\ requests' \in 1..MaxRequests
    BY <1>1, <2>9 DEF IInv, Queues
  <2>12. Exchange'
    <3>1. seq = requests \/ seq < requests
      BY <2>3, <2>7
    <3>. QED
      BY <1>1, <2>1, <2>3, <2>7, <2>8, <2>9, <3>1 DEF Exchange, Unasked
  <2>13. TypeOK'
    BY <1>1, <2>1 DEF IInv, TypeOK
  <2>14. NotWhole' /\ WaitingForFlarm'
    BY <1>1, <2>1 DEF NotWhole, WaitingForFlarm
  <2>. QED
    BY <1>2, <2>10, <2>11, <2>12, <2>13, <2>14 DEF IInv
<1>5. CASE frame[1].seq # seq
  <2>1. pc' = "recv" /\ tries' = 0 /\ got' = got
    BY <1>5 DEF CheckComplete
  <2>2. 0 < MaxTries /\ 0 \in 0..MaxTries
    BY LinkAssumption
  <2>3. Queues' /\ requests' \in 1..MaxRequests
    BY <1>1, <2>1 DEF IInv, Queues
  <2>4. Exchange'
    BY <1>1, <2>1, <2>2 DEF IInv, Exchange, Unasked
  <2>5. TypeOK'
    BY <1>1, <2>1, <2>2 DEF IInv, TypeOK
  <2>6. NotWhole' /\ WaitingForFlarm' /\ PayloadIntact'
    BY <1>1, <1>5, <2>1 DEF IInv, NotWhole, WaitingForFlarm, PayloadIntact, IsHeader
  <2>. QED
    BY <1>2, <2>3, <2>4, <2>5, <2>6 DEF IInv
<1>. QED
  BY <1>4, <1>5

\* A step that changes nothing.
LEMMA StutterIInv == IInv /\ UNCHANGED vars => IInv'
<1>. SUFFICES ASSUME IInv, UNCHANGED vars
              PROVE  IInv'
  OBVIOUS
<1>1. UNCHANGED <<line, requests, asked, answered, lost, binary, seq, in, frame, started, ret, tries, got, pc>>
  BY DEF vars, host, device
<1>2. Coming'
  BY <1>1, SameStream
<1>. QED
  BY <1>1, <1>2 DEF IInv, TypeOK, Queues, Exchange, NotWhole, WaitingForFlarm, PayloadIntact

LEMMA StepIInv == IInv /\ [Next]_vars => IInv'
BY EnterBinaryIInv, SendFrameIInv, ExitBinaryIInv, EnterRecvIInv, WaitStartframeIInv, ReadBodyIInv,
   UnescapeSomeIInv, CheckIncompleteIInv, CheckCompleteIInv, PollAgainIInv, FlarmAnswersIInv,
   LoseByteIInv, StutterIInv DEF Next, Tool

\* What holds in every reachable state; the theorems below follow from it.
LEMMA Invariant == Spec => []IInv
BY InitIInv, StepIInv, PTL DEF Spec

-----------------------------------------------------------------------------
\* The sequence numbers, the poll counter and the frame buffer stay in their
\* bounds, and every frame is answered or waited for: flarm_send_frame is
\* not called while an answer is outstanding.
THEOREM TypeCorrect == Spec => []TypeOK
<1>1. IInv => TypeOK
  BY DEF IInv
<1>. QED
  BY <1>1, Invariant, PTL

\* What flarm_expect_ack returns for a request is the payload the device sent
\* in answer to it, whatever the line loses, however read() cuts it and
\* although the frame of before stays in the buffer (payloads without escapes).
THEOREM AnswersArriveWhole == Spec => []PayloadIntact
<1>1. IInv => PayloadIntact
  BY DEF IInv
<1>. QED
  BY <1>1, Invariant, PTL

\* When flarm_recv_frame returns without a frame, the answer is not all there.
THEOREM FramesAreReturned == Spec => []WholeFrameReturned
<1>1. IInv => WholeFrameReturned
  <2>. SUFFICES ASSUME IInv, pc = "again", started, ret = "SUCCESS", frame # <<>>, frame[1].seq = seq
                PROVE  Len(frame) < 1 + Len(answered[frame[1].seq])
    BY DEF WholeFrameReturned
  <2>1. IsHeader(frame[1], seq) /\ frame[1].len = Len(answered[seq])
    BY FrameIsAnswer
  <2>. QED
    BY <2>1 DEF IInv, NotWhole
<1>. QED
  BY <1>1, Invariant, PTL

\* flarmtool waits only when it has looked at everything it has read: the
\* EAGAIN of flarm_recv_frame leaves nothing in flarm->in (but for a read that
\* ended behind an ESCAPE).
THEOREM WaitingIsForMore == Spec => []WaitingForFlarm
<1>1. IInv => WaitingForFlarm
  BY DEF IInv
<1>. QED
  BY <1>1, Invariant, PTL
=============================================================================
