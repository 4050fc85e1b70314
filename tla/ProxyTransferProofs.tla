------------------------- MODULE ProxyTransferProofs ------------------------
(***************************************************************************)
(* Proofs about StreamReader, for any bytes, delimiter and buffer size,    *)
(* whatever the peer sends and however recv cuts it, and about             *)
(* ProxyTransfer, whose transfer reads the answer of the host through it:  *)
(* what the client of the proxy gets.                                      *)
(***************************************************************************)
EXTENDS ProxyTransfer, SequenceTheorems, WellFoundedInduction, TLAPS

-----------------------------------------------------------------------------
(***************************************************************************)
(* The reader. Shape says what the three fields of get_pchar mean          *)
(* together, after an error of recv too: a negative data_length stands for *)
(* an empty buffer.                                                        *)
(***************************************************************************)
Content == IF data_length < 0 THEN 0 ELSE data_length

Shape ==
    /\ Len(buffer) = Content
    /\ reader_position <= Content
    /\ Content <= BUFSIZE
    /\ ~failed => data_length >= 0

RInv == TypeOK /\ Shape
-----------------------------------------------------------------------------
USE StreamReaderAssumption DEF StreamReaderAssumption

\* What recv hands over and what it leaves in the socket are sequences of bytes,
\* and the first is as long as recv says.
LEMMA ReceivedBytes ==
    ASSUME TypeOK, NEW n \in Nat, n <= Len(incoming)
    PROVE  /\ Received(n) \in Seq(Bytes) /\ Len(Received(n)) = n
           /\ Dropped(n) \in Seq(Bytes)
BY DEF TypeOK, Received, Dropped

\* The unread rest of the buffer is a sequence of Available bytes.
LEMMA KeptBytes ==
    ASSUME RInv, data_length >= 0
    PROVE  Kept \in Seq(Bytes) /\ Len(Kept) = Available
BY DEF RInv, TypeOK, Shape, Content, Kept, Available

\* The boundary has a length, zero when there is none.
LEMMA BoundLength ==
    ASSUME TypeOK
    PROVE  Len(bound) \in Nat
<1>1. <<>> \in Seq(Bytes) /\ Delimiter \in Seq(Bytes)
  BY EmptySeq
<1>2. bound \in Seq(Bytes)
  BY <1>1 DEF TypeOK
<1> QED BY <1>2, LenProperties

\* Type correctness and the shape of the buffer, for all sizes recv may return.
THEOREM ReaderInv == Spec => []RInv
<1>1. Init => RInv
  <2> SUFFICES ASSUME Init PROVE RInv
    OBVIOUS
  <2>1. sent \in Seq(Bytes) /\ <<>> \in Seq(Bytes) /\ Len(<<>>) = 0
    BY DEF Init, StreamReaderAssumption
  <2>2. TypeOK
    <3>1. sent \in Seq(Bytes) /\ incoming \in Seq(Bytes)
      BY <2>1 DEF Init
    <3>2. buffer \in Seq(Bytes) /\ out \in Seq(Bytes) /\ bound \in {<<>>, Delimiter}
      BY <2>1 DEF Init
    <3>3. data_length \in Int /\ reader_position \in Nat /\ rest_size \in Int
      BY DEF Init
    <3>4. last_state = "Ok" /\ pc = "idle"
      BY DEF Init
    <3>5. filled \in BOOLEAN /\ lengthSet \in BOOLEAN /\ failed \in BOOLEAN
      BY DEF Init
    <3> QED BY <3>1, <3>2, <3>3, <3>4, <3>5 DEF TypeOK
  <2> QED BY <2>1, <2>2 DEF Init, RInv, Shape, Content
<1>2. RInv /\ [Next]_vars => RInv'
  <2> SUFFICES ASSUME RInv, [Next]_vars PROVE RInv'
    OBVIOUS
  <2> USE DEF RInv, TypeOK, Shape, Content, input, marks
  <2>1. CASE UNCHANGED vars
    BY <2>1 DEF vars
  <2>2. CASE Owner
    <3>1. ASSUME NEW b \in {<<>>, Delimiter}, SetBound(b) PROVE RInv'
      BY <3>1 DEF SetBound
    <3>2. ASSUME NEW n \in Lengths, SetContentLength(n) PROVE RInv'
      BY <3>2 DEF SetContentLength, StreamReaderAssumption
    <3>3. CASE Call
      BY <3>3 DEF Call
    <3> QED BY <2>2, <3>1, <3>2, <3>3 DEF Owner
  <2>3. CASE TimedRecv
    <3>1. ASSUME NEW n \in 1 .. BUFSIZE, Refill(n) PROVE RInv'
      BY <3>1, ReceivedBytes DEF Refill, RestAfterRefill
    <3>2. CASE RefillEnds
      BY <3>2 DEF RefillEnds
    <3>3. CASE RefillFails
      BY <3>3 DEF RefillFails
    <3> QED BY <2>3, <3>1, <3>2, <3>3 DEF TimedRecv
  <2>4. CASE UntimedRecv
    <3>1. ASSUME NEW n \in 1 .. BUFSIZE, Arrange(n) PROVE RInv'
      <4> USE DEF Available
      <4>1. data_length >= 0 /\ Available \in 0 .. BUFSIZE
        BY <3>1 DEF Arrange
      <4>2. Kept \in Seq(Bytes) /\ Len(Kept) = Available
        BY <4>1, KeptBytes
      <4>3. /\ Received(n) \in Seq(Bytes) /\ Len(Received(n)) = n
            /\ Dropped(n) \in Seq(Bytes)
        BY <3>1, ReceivedBytes DEF Arrange
      <4>4. buffer' \in Seq(Bytes) /\ Len(buffer') = Available + n
        <5>1. buffer' = Kept \o Received(n)
          BY <3>1 DEF Arrange
        <5> QED BY <4>2, <4>3, <5>1, ConcatProperties, ZenonT(40)
      <4> QED BY <3>1, <4>1, <4>3, <4>4 DEF Arrange, Room
    <3>2. CASE ArrangeEnds
      BY <3>2, KeptBytes DEF ArrangeEnds, AtLook, Available
    <3>3. CASE ArrangeFails
      BY <3>3, KeptBytes DEF ArrangeFails, AtLook, Available
    <3> QED BY <2>4, <3>1, <3>2, <3>3 DEF UntimedRecv
  <2>5. CASE Local
    <3>1. CASE Enough
      BY <3>1 DEF Enough, AtLook
    <3>2. CASE Drained
      BY <3>2 DEF Drained
    <3>3. CASE Throw
      BY <3>3 DEF Throw
    <3>4. CASE GiveBound
      BY <3>4, SMTT(40) DEF GiveBound, AtBound, AtPrefix, Cut, Give, Here, Available
    <3>5. CASE GiveByte
      BY <3>5 DEF GiveByte, Give, Here
    <3> QED BY <2>5, <3>1, <3>2, <3>3, <3>4, <3>5 DEF Local
  <2> QED BY <2>1, <2>2, <2>3, <2>4, <2>5 DEF Next
<1> QED BY <1>1, <1>2, PTL DEF Spec

\* TypeOK: what get_pchar keeps, and the bytes around it, keep to their domains.
THEOREM TypeCorrect == Spec => []TypeOK
<1>1. RInv => TypeOK
  BY DEF RInv
<1> QED BY <1>1, ReaderInv, PTL

\* InsideBuffer: get_pchar never addresses a byte outside its buffer and never
\* tells recv more room than is left in it, until recv fails.
THEOREM NeverOutside == Spec => []InsideBuffer
<1>1. RInv => InsideBuffer
  BY DEF RInv, TypeOK, Shape, Content, InsideBuffer
<1> QED BY <1>1, ReaderInv, PTL

\* RestIsAvailable: in chunk mode rest_size counts exactly the unread bytes.
THEOREM ChunkModeIsExact == Spec => []RestIsAvailable
<1>1. Init => RestIsAvailable
  BY DEF Init, RestIsAvailable, Available
<1>2. RInv /\ RestIsAvailable /\ [Next]_vars => RestIsAvailable'
  <2> SUFFICES ASSUME RInv, RestIsAvailable, [Next]_vars PROVE RestIsAvailable'
    OBVIOUS
  <2> USE DEF RestIsAvailable, Available, RInv, TypeOK, Shape, Content, marks
  <2>1. CASE UNCHANGED vars
    BY <2>1 DEF vars
  <2>2. CASE Owner
    BY <2>2 DEF Owner, SetBound, SetContentLength, Call
  <2>3. CASE TimedRecv
    <3>1. ASSUME NEW n \in 1 .. BUFSIZE, Refill(n) PROVE RestIsAvailable'
      <4> SUFFICES ASSUME ~filled', ~lengthSet', ~failed' PROVE rest_size' = Available'
        OBVIOUS
      <4>1. ~filled /\ n # BUFSIZE /\ ~lengthSet /\ ~failed
        BY <3>1, Zenon DEF Refill
      <4>2. data_length = 0 /\ reader_position = 0 /\ rest_size = 0
        BY <3>1, <4>1 DEF Refill
      <4>3. rest_size' = n /\ data_length' = n /\ reader_position' = 0
        BY <3>1, <4>1, <4>2 DEF Refill, RestAfterRefill
      <4> QED BY <4>3
    <3>2. CASE RefillEnds \/ RefillFails
      BY <3>2 DEF RefillEnds, RefillFails
    <3> QED BY <2>3, <3>1, <3>2 DEF TimedRecv
  <2>4. CASE UntimedRecv
    BY <2>4 DEF UntimedRecv, Arrange, ArrangeEnds, ArrangeFails, AtLook, Short
  <2>5. CASE Enough \/ Drained \/ Throw
    BY <2>5 DEF Enough, Drained, Throw
  <2>6. CASE GiveBound
    BY <2>6, BoundLength DEF GiveBound
  <2>7. CASE GiveByte
    BY <2>7 DEF GiveByte
  <2> QED BY <2>1, <2>2, <2>3, <2>4, <2>5, <2>6, <2>7 DEF Next, Local
<1> QED BY <1>1, <1>2, ReaderInv, PTL DEF Spec
-----------------------------------------------------------------------------
(* The order of the bytes *)

HIDE StreamReaderAssumption

\* When nothing is unread the rest is empty.
LEMMA NothingKept ==
    ASSUME RInv, reader_position = data_length
    PROVE  Kept = <<>>
BY SubSeqEmpty DEF RInv, TypeOK, Kept

\* recv cuts what is in the socket in two.
LEMMA ReceivedThenDropped ==
    ASSUME TypeOK, NEW n \in Nat, n <= Len(incoming)
    PROVE  Received(n) \o Dropped(n) = incoming
<1>1. /\ incoming \in Seq(Bytes)
      /\ 1 \in 1 .. Len(incoming) + 1
      /\ n \in 1 - 1 .. Len(incoming)
      /\ Len(incoming) \in n .. Len(incoming)
  BY DEF TypeOK
<1>2. Received(n) \o Dropped(n) = SubSeq(incoming, 1, Len(incoming))
  BY <1>1, ConcatAdjacentSubSeq DEF Received, Dropped
<1> QED BY <1>1, <1>2, SubSeqFull

\* Reading m bytes of the buffer cuts its unread rest in two.
LEMMA GivenThenKept ==
    ASSUME RInv, ~failed, NEW m \in Nat, m <= Available
    PROVE  SubSeq(buffer, Here, reader_position + m)
             \o SubSeq(buffer, reader_position + m + 1, data_length) = Kept
<1>1. /\ Here \in 1 .. Len(buffer) + 1
      /\ reader_position + m \in Here - 1 .. Len(buffer)
      /\ data_length \in reader_position + m .. Len(buffer)
  BY DEF RInv, TypeOK, Shape, Content, Here, Available
<1> QED BY <1>1, ConcatAdjacentSubSeq DEF RInv, TypeOK, Here, Kept

\* Concatenation may be regrouped.
LEMMA Regrouped == \A a, b, c \in Seq(Bytes) : (a \o b) \o c = a \o (b \o c)
BY ConcatAssociative

\* A sequence of one element cut out of another.
LEMMA OneByte ==
    ASSUME NEW s \in Seq(Bytes), NEW i \in 1 .. Len(s)
    PROVE  SubSeq(s, i, i) = <<s[i]>>
<1>1. i \in i .. Len(s) /\ i \in Int /\ i + 1 \in Int /\ i < i + 1
  OBVIOUS
<1>2. SubSeq(s, i, i) = <<s[i]>> \o SubSeq(s, i + 1, i)
  BY <1>1, SubSeqRecursiveFirst
<1>3. SubSeq(s, i + 1, i) = <<>>
  BY <1>1, SubSeqEmpty
<1>4. <<s[i]>> \in Seq(Bytes)
  BY ElementOfSeq
<1> QED BY <1>2, <1>3, <1>4, ConcatEmptySeq

\* InOrder: whatever get_pchar gives, and however often it refills, rearranges
\* and recognizes boundaries, no byte is lost, doubled or reordered.
THEOREM BytesInOrder == Spec => []InOrder
<1>1. Init => InOrder
  <2> SUFFICES ASSUME Init PROVE InOrder
    OBVIOUS
  <2>1. out = <<>> /\ Kept = <<>> /\ incoming = sent /\ sent \in Seq(Bytes)
    BY SubSeqEmpty, StreamReaderAssumption DEF Init, Kept, StreamReaderAssumption
  <2> QED BY <2>1, ConcatEmptySeq, EmptySeq DEF InOrder
<1>2. RInv /\ RInv' /\ InOrder /\ [Next]_vars => InOrder'
  <2> SUFFICES ASSUME RInv, RInv', InOrder, [Next]_vars, ~failed' PROVE InOrder'
    BY DEF InOrder
  <2>0. ~failed
    BY DEF Next, Owner, SetBound, SetContentLength, Call, TimedRecv, Refill, RefillEnds,
           RefillFails, UntimedRecv, Arrange, ArrangeEnds, ArrangeFails, Local, Enough,
           Drained, Throw, GiveBound, GiveByte, vars, marks
  <2>a. out \o Kept \o incoming = sent
    BY <2>0 DEF InOrder
  <2>b. /\ out \in Seq(Bytes) /\ incoming \in Seq(Bytes)
        /\ Kept \in Seq(Bytes) /\ Len(Kept) = Available
    BY <2>0, KeptBytes DEF RInv, TypeOK, Shape
  <2>1. CASE UNCHANGED <<sent, incoming, buffer, data_length, reader_position, out>>
    BY <2>1, <2>a DEF InOrder, Kept
  <2>2. ASSUME NEW n \in 1 .. BUFSIZE, Refill(n) PROVE InOrder'
    <3>1. Kept = <<>>
      BY <2>0, <2>2, NothingKept DEF Refill, RInv, TypeOK, Shape, Content
    <3>2. Received(n) \in Seq(Bytes) /\ Len(Received(n)) = n
      BY <2>2, ReceivedBytes DEF Refill, RInv
    <3>3. reader_position = 0
      BY <2>2 DEF Refill, RInv, TypeOK, Shape, Content
    <3>4. Kept' = Received(n)
      BY <2>2, <3>2, <3>3, SubSeqFull DEF Refill, Kept
    <3>5. Dropped(n) \in Seq(Bytes) /\ Received(n) \o Dropped(n) = incoming
      <4>1. TypeOK /\ n \in Nat /\ n <= Len(incoming)
        BY <2>2 DEF Refill, RInv
      <4> QED BY <4>1, ReceivedBytes, ReceivedThenDropped
    <3>6. out \o Received(n) \o Dropped(n) = out \o incoming
      <4>1. /\ out \in Seq(Bytes) /\ Received(n) \in Seq(Bytes)
            /\ Dropped(n) \in Seq(Bytes)
        BY <2>b, <3>2, <3>5
      <4>2. out \o Received(n) \o Dropped(n) = out \o (Received(n) \o Dropped(n))
        BY <4>1, Regrouped, Zenon
      <4> QED BY <4>2, <3>5
    <3>7. out \o Kept = out
      BY <2>b, <3>1, ConcatEmptySeq
    <3> QED BY <2>2, <2>a, <3>4, <3>6, <3>7 DEF InOrder, Refill
  <2>3. ASSUME NEW n \in 1 .. BUFSIZE, Arrange(n) PROVE InOrder'
    <3>1. /\ Received(n) \in Seq(Bytes) /\ Len(Received(n)) = n
          /\ Dropped(n) \in Seq(Bytes) /\ Received(n) \o Dropped(n) = incoming
      <4>1. TypeOK /\ n \in Nat /\ n <= Len(incoming)
        BY <2>3 DEF Arrange, RInv
      <4> QED BY <4>1, ReceivedBytes, ReceivedThenDropped
    <3>2. Kept \o Received(n) \in Seq(Bytes) /\ Len(Kept \o Received(n)) = Available + n
      BY <2>b, <3>1, ConcatProperties
    <3>3. Kept' = Kept \o Received(n)
      <4>1. Kept' = SubSeq(Kept \o Received(n), 0 + 1, Available + n)
        BY <2>3 DEF Arrange, Kept
      <4> QED BY <4>1, <3>2, SubSeqFull
    <3>4. out \o (Kept \o Received(n)) \o Dropped(n)
            = (out \o Kept) \o (Received(n) \o Dropped(n))
      <4>1. out \o Kept \in Seq(Bytes)
        BY <2>b, ConcatProperties
      <4>2. /\ out \in Seq(Bytes) /\ Kept \in Seq(Bytes)
            /\ Received(n) \in Seq(Bytes) /\ Dropped(n) \in Seq(Bytes)
        BY <2>b, <3>1
      <4>3. out \o (Kept \o Received(n)) = (out \o Kept) \o Received(n)
        BY <4>2, Regrouped, Zenon
      <4>4. (out \o Kept) \o Received(n) \o Dropped(n)
              = (out \o Kept) \o (Received(n) \o Dropped(n))
        BY <4>1, <4>2, Regrouped, Zenon
      <4> QED BY <4>3, <4>4
    <3> QED BY <2>3, <2>a, <3>1, <3>3, <3>4 DEF InOrder, Arrange
  <2>4. CASE ArrangeEnds
    <3>1. Kept' = SubSeq(Kept, 0 + 1, Available)
      BY <2>4 DEF ArrangeEnds, Kept
    <3>2. Kept' = Kept
      BY <3>1, <2>b, SubSeqFull
    <3> QED BY <2>4, <2>a, <3>2 DEF InOrder, ArrangeEnds, input
  <2>5. CASE Drained
    <3>1. Kept = <<>> /\ Kept' = <<>>
      BY <2>0, <2>5, NothingKept, SubSeqEmpty DEF Drained, Kept, RInv, TypeOK, Shape, Content
    <3> QED BY <2>5, <2>a, <3>1 DEF InOrder, Drained, input
  <2>6. ASSUME NEW m \in Nat, NEW given \in Seq(Bytes), m <= Available,
               given = SubSeq(buffer, Here, reader_position + m), out' = out \o given,
               reader_position' = reader_position + m,
               UNCHANGED <<sent, incoming, buffer, data_length>>
        PROVE  InOrder'
    <3>1. given \o Kept' = Kept
      BY <2>0, <2>6, GivenThenKept DEF Kept
    <3>2. Kept' \in Seq(Bytes)
      BY KeptBytes, <2>0, <2>6 DEF RInv, TypeOK, Shape, Kept, Content
    <3>3. (out \o given) \o Kept' = out \o (given \o Kept')
      BY <2>b, <2>6, <3>2, Regrouped, ZenonT(40)
    <3> QED BY <2>6, <2>a, <3>1, <3>3 DEF InOrder
  <2>7. CASE GiveBound
    <3>1. Len(bound) + 4 \in Nat /\ Len(bound) + 4 <= Available
      <4>1. TypeOK /\ Available \in Int /\ Available >= 4 /\ ~(Available - 4 < Len(bound))
        BY <2>7 DEF GiveBound, AtBound, AtPrefix, Cut, Available, RInv, TypeOK
      <4> QED BY <4>1, BoundLength
    <3>2. SubSeq(buffer, Here, Here + 3 + Len(bound))
            = SubSeq(buffer, Here, reader_position + (Len(bound) + 4))
      BY <3>1 DEF Here, RInv, TypeOK
    <3>3. SubSeq(buffer, Here, reader_position + (Len(bound) + 4)) \in Seq(Bytes)
      BY <2>0, <3>1 DEF Here, Available, RInv, TypeOK, Shape, Content
    <3>4. reader_position' = reader_position + (Len(bound) + 4)
      BY <2>7, <3>1 DEF GiveBound, RInv, TypeOK
    <3> QED BY <2>7, <2>6, <3>1, <3>2, <3>3, <3>4 DEF GiveBound, Give, input
  <2>8. CASE GiveByte
    <3>1. Here \in 1 .. Len(buffer) /\ 1 <= Available
      BY <2>0, <2>8 DEF GiveByte, Here, Available, RInv, TypeOK, Shape, Content
    <3>2. SubSeq(buffer, Here, reader_position + 1) = <<buffer[Here]>>
      <4>1. buffer \in Seq(Bytes) /\ Here = reader_position + 1 /\ Here \in Nat
        BY DEF Here, RInv, TypeOK
      <4>2. SubSeq(buffer, Here, Here) = <<buffer[Here]>>
        BY <3>1, <4>1, OneByte
      <4> QED BY <4>1, <4>2
    <3>3. <<buffer[Here]>> \in Seq(Bytes)
      BY <3>1, ElementOfSeq DEF RInv, TypeOK
    <3> QED BY <2>8, <2>6, <3>1, <3>2, <3>3 DEF GiveByte, Give, input
  <2> QED
    BY <2>0, <2>1, <2>2, <2>3, <2>4, <2>5, <2>7, <2>8
       DEF Next, Owner, SetBound, SetContentLength, Call, TimedRecv, RefillEnds, RefillFails,
           UntimedRecv, ArrangeFails, Local, Enough, Throw, vars, input, marks
<1> QED BY <1>1, <1>2, ReaderInv, PTL DEF Spec

-----------------------------------------------------------------------------
(***************************************************************************)
(* The transfer. Every step of it is one of the reader, or leaves it       *)
(* alone, so that the reader's theorems hold here. Taken counts the bytes  *)
(* of the answer that process_req has dealt with: all that get_pchar gave, *)
(* but the one it has just returned. Calls says what get_pchar may have    *)
(* returned where process_req is, and Copied what that means for the       *)
(* client, as long as recv has reported no error.                          *)
(***************************************************************************)
Asking == {"status", "fields", "copy"}
Reads == {"status read", "fields read", "byte read"}

Pending == turn \in Reads /\ pc = "idle" /\ last_state = "Ok"
Taken == IF Pending THEN Len(out) - 1 ELSE Len(out)

OwnerTypes ==
    /\ turn \in Asking \cup Reads \cup {"send", "closed"}
    /\ length \in Int /\ rest \in Int
    /\ chunk \in Seq(Bytes) /\ delivered \in Seq(Bytes)
    /\ bound = <<>>
    /\ Pending => Len(out) >= 1

Calls ==
    /\ turn \notin Reads => pc = "idle"
    /\ turn \in Asking \/ pc # "idle" => last_state = "Ok"
    /\ last_state \in {"Ok", "Complete"}
    /\ last_state = "Complete" => data_length = 0
    /\ pc # "thrown"

\* The bytes taken are lines of a header that goes on.
InHeader == \A i \in 2 .. Taken : i \notin HeaderEnds
Untouched == delivered = <<>> /\ chunk = <<>>

\* The header has ended, and what was taken since then is copied.
Behind ==
    /\ HeaderEnds # {}
    /\ Min(HeaderEnds) <= Taken
    /\ delivered \o chunk = SubSeq(sent, Min(HeaderEnds) + 1, Taken)

Copied ==
    /\ turn \in {"status", "status read"} => Taken = 0 /\ Untouched
    /\ turn \in {"fields", "fields read"} => InHeader /\ Taken >= 1 /\ Untouched
    /\ turn \in {"copy", "byte read", "send"} => Behind
    /\ turn = "send" => Len(chunk) = COPY \/ last_state # "Ok"
    /\ turn = "closed" =>
           /\ chunk = <<>>
           /\ \/ delivered = <<>> /\ sent # <<>> /\ sent[1] # "status"
              \/ delivered = <<>> /\ last_state = "Complete" /\ InHeader
              \/ Behind /\ last_state = "Complete"
              \/ Behind /\ length # 0 /\ Len(delivered) >= COPY

TransferInv == OwnerTypes /\ (~failed => Calls /\ Copied)
-----------------------------------------------------------------------------
\* The transfer runs the reader: each of its steps is a step of the reader, or none.
THEOREM RunsReader == ProxySpec => Spec
<1>1. ProxyInit => Init
  BY DEF ProxyInit
<1>2. [ProxyNext]_pvars => [Next]_vars
  BY DEF ProxyNext, OwnerStep, ReaderStep, Ask, StatusLine, FieldLine, HeaderLineEnds, NoHeader,
         CopyByte, CopyEnds, SendChunk, Next, Owner, pvars
<1> QED BY <1>1, <1>2, PTL DEF ProxySpec, Spec

\* A set of numbers has a smallest one.
LEMMA Smallest ==
    ASSUME NEW T, T \subseteq Nat, T # {}
    PROVE  Min(T) \in T /\ \A t \in T : Min(T) <= t
<1> DEFINE Below == {ss \in Nat \X Nat : ss[1] < ss[2]}
<1>1. IsWellFoundedOn(Below, Nat)
  BY NatLessThanWellFounded DEF OpToRel
<1>2. PICK x \in T : \A t \in T : ~ (<<t, x>> \in Below)
  BY <1>1, WFMin
<1>3. \A t \in T : x <= t
  <2> SUFFICES ASSUME NEW t \in T PROVE ~(t < x)
    OBVIOUS
  <2>1. t \in Nat /\ x \in Nat /\ ~(<<t, x>> \in Below)
    BY <1>2
  <2> QED BY <2>1
<1> QED BY <1>3 DEF Min

\* The line that ends the header is the first of those that are no fields.
LEMMA EndOfHeader ==
    /\ HeaderEnds # {} => Min(HeaderEnds) \in HeaderEnds
    /\ \A i \in HeaderEnds : Min(HeaderEnds) <= i
<1>1. HeaderEnds \subseteq Nat
  BY DEF HeaderEnds
<1> QED BY <1>1, Smallest

\* The elements of two sequences of bytes put together.
LEMMA TogetherBytes ==
    \A s, t \in Seq(Bytes) :
        /\ s \o t \in Seq(Bytes) /\ Len(s \o t) = Len(s) + Len(t)
        /\ \A i \in 1 .. Len(s) : (s \o t)[i] = s[i]
<1> SUFFICES ASSUME NEW s \in Seq(Bytes), NEW t \in Seq(Bytes)
             PROVE  /\ s \o t \in Seq(Bytes) /\ Len(s \o t) = Len(s) + Len(t)
                    /\ \A i \in 1 .. Len(s) : (s \o t)[i] = s[i]
  OBVIOUS
<1>1. Len(s) \in Nat /\ Len(t) \in Nat
  OBVIOUS
<1> QED BY <1>1, ConcatProperties

\* As long as recv has not failed, what the caller got is how the answer begins, and
\* the rest of the answer is in the buffer or in the socket.
LEMMA OutIsSent ==
    ASSUME RInv, InOrder, ~failed
    PROVE  /\ Len(sent) = Len(out) + Available + Len(incoming)
           /\ \A i \in 1 .. Len(out) : out[i] = sent[i]
<1>1. /\ out \in Seq(Bytes) /\ incoming \in Seq(Bytes) /\ sent \in Seq(Bytes)
      /\ Kept \in Seq(Bytes) /\ Len(Kept) = Available
  BY KeptBytes DEF RInv, TypeOK, Shape
<1>2. out \o Kept \o incoming = sent
  BY DEF InOrder
<1>3. /\ out \o Kept \in Seq(Bytes)
      /\ Len(out \o Kept) = Len(out) + Available
      /\ \A i \in 1 .. Len(out) : (out \o Kept)[i] = out[i]
  BY <1>1, TogetherBytes
<1>4. /\ Len((out \o Kept) \o incoming) = Len(out) + Available + Len(incoming)
      /\ \A i \in 1 .. Len(out) + Available : ((out \o Kept) \o incoming)[i] = (out \o Kept)[i]
  BY <1>1, <1>3, TogetherBytes
<1>5. Available \in Nat /\ Len(out) \in Nat
  BY <1>1
<1>6. \A i \in 1 .. Len(out) : i \in 1 .. Len(out) + Available
  BY <1>5
<1> QED BY <1>2, <1>3, <1>4, <1>6
-----------------------------------------------------------------------------
(* The reader's steps *)

\* A byte given makes the output longer.
LEMMA GivesOne ==
    ASSUME RInv, GiveByte
    PROVE  Len(out') = Len(out) + 1 /\ Len(out) \in Nat
<1>1. Here \in 1 .. Len(buffer)
  BY DEF GiveByte, Here, RInv, TypeOK, Shape, Content
<1>2. buffer[Here] \in Bytes
  BY <1>1, ElementOfSeq DEF RInv, TypeOK
<1>3. out' = out \o <<buffer[Here]>> /\ out \in Seq(Bytes)
  BY DEF GiveByte, Give, RInv, TypeOK
<1> QED BY <1>2, <1>3

\* While get_pchar runs, what it has given stays what process_req has taken; when it
\* gives a byte, that one is not taken yet.
LEMMA ReaderKeeps ==
    ASSUME RInv, TransferInv, ReaderStep, ~failed'
    PROVE  /\ ~failed /\ turn \in Reads /\ Taken' = Taken
           /\ UNCHANGED <<sent, owner, bound>> /\ Calls'
<1>1. ~failed /\ UNCHANGED <<owner, sent, bound>> /\ pc \in {"top", "scan"}
  BY DEF ReaderStep, TimedRecv, Refill, RefillEnds, RefillFails, UntimedRecv, Arrange,
         ArrangeEnds, ArrangeFails, Local, Enough, Drained, Throw, GiveBound, GiveByte, AtLook,
         input, marks
<1>2. Calls /\ bound = <<>> /\ Len(<<>>) = 0
  BY <1>1 DEF TransferInv, OwnerTypes
<1>3. turn \in Reads /\ last_state = "Ok" /\ Taken = Len(out)
  BY <1>1, <1>2 DEF Calls, Pending, Taken
<1>4. turn' \in Reads /\ turn' \notin Asking
  BY <1>1, <1>3 DEF owner, Reads, Asking
<1>5. CASE out' = out /\ pc' \in {"top", "scan"} /\ last_state' = last_state
  BY <1>1, <1>3, <1>4, <1>5 DEF Calls, Pending, Taken
<1>6. CASE RefillEnds
  BY <1>1, <1>3, <1>4, <1>6 DEF RefillEnds, Calls, Pending, Taken
<1>7. CASE GiveByte
  BY <1>1, <1>3, <1>4, <1>7, GivesOne DEF GiveByte, Calls, Pending, Taken
<1>8. ~Throw /\ ~GiveBound
  BY <1>1, <1>2 DEF Throw, GiveBound, Cut, AtPrefix, AtBound, Available, RInv, TypeOK
<1>9. ~RefillFails /\ ~ArrangeFails
  BY DEF RefillFails, ArrangeFails
<1> QED
  BY <1>5, <1>6, <1>7, <1>8, <1>9
     DEF ReaderStep, TimedRecv, Refill, UntimedRecv, Arrange, ArrangeEnds, Local, Enough, Drained,
         AtLook

\* When get_pchar returns a byte there is one more, also after an error.
LEMMA ReaderTypes ==
    ASSUME RInv, OwnerTypes, ReaderStep
    PROVE  OwnerTypes'
<1>1. UNCHANGED <<owner, bound>>
  BY DEF ReaderStep, TimedRecv, Refill, RefillEnds, RefillFails, UntimedRecv, Arrange,
         ArrangeEnds, ArrangeFails, Local, Enough, Drained, Throw, GiveBound, GiveByte
<1>2. bound = <<>> /\ Len(<<>>) = 0
  BY DEF OwnerTypes
<1>3. Pending' => Len(out') >= 1
  <2>1. CASE GiveByte
    BY <2>1, GivesOne
  <2>2. ~GiveBound
    BY <1>2 DEF GiveBound, AtBound
  <2>3. CASE pc' # "idle" \/ last_state' # "Ok"
    BY <2>3 DEF Pending
  <2> QED
    BY <2>1, <2>2, <2>3
       DEF ReaderStep, TimedRecv, Refill, RefillEnds, RefillFails, UntimedRecv, Arrange,
           ArrangeEnds, ArrangeFails, Local, Enough, Drained, Throw, AtLook
<1> QED BY <1>1, <1>3 DEF OwnerTypes, owner

\* All steps of the reader keep the invariant.
LEMMA ReaderStepKeeps ==
    ASSUME RInv, TransferInv, ReaderStep
    PROVE  TransferInv'
<1>1. OwnerTypes'
  BY ReaderTypes DEF TransferInv
<1> SUFFICES ASSUME ~failed' PROVE Calls' /\ Copied'
  BY <1>1 DEF TransferInv
<1>2. /\ ~failed /\ turn \in Reads /\ Taken' = Taken
      /\ UNCHANGED <<sent, owner, bound>> /\ Calls'
  BY ReaderKeeps
<1>3. Copied
  BY <1>2 DEF TransferInv
<1>4. HeaderEnds' = HeaderEnds
  BY <1>2 DEF HeaderEnds
<1>5. turn' = turn /\ turn \notin {"status", "fields", "copy", "send", "closed"}
  BY <1>2 DEF owner, Reads
<1>6. delivered' = delivered /\ chunk' = chunk /\ sent' = sent
  BY <1>2 DEF owner
<1>7. (InHeader => InHeader') /\ (Behind => Behind') /\ (Untouched => Untouched')
  BY <1>2, <1>4, <1>6 DEF InHeader, Behind, Untouched
<1> QED
  BY <1>2, <1>3, <1>5, <1>7 DEF Copied
-----------------------------------------------------------------------------
(* The steps of process_req *)

\* The body of the answer is a sequence of bytes.
LEMMA BodyBytes == ASSUME TypeOK PROVE BodySent \in Seq(Bytes)
<1>1. CASE HeaderEnds = {}
  BY <1>1, EmptySeq DEF BodySent
<1>2. CASE HeaderEnds # {}
  <2>1. Min(HeaderEnds) \in 2 .. Len(sent)
    BY <1>2, EndOfHeader DEF HeaderEnds
  <2> QED BY <1>2, <2>1 DEF BodySent, TypeOK
<1> QED BY <1>1, <1>2

\* The byte that get_pchar has returned is the next of the answer.
LEMMA NextByte ==
    ASSUME RInv, InOrder, OwnerTypes, ~failed, Pending
    PROVE  /\ Taken \in Nat /\ Len(out) = Taken + 1 /\ Taken + 1 <= Len(sent)
           /\ Last(out) = sent[Taken + 1]
<1>1. /\ out \in Seq(Bytes) /\ incoming \in Seq(Bytes) /\ Available \in Nat
      /\ Len(sent) = Len(out) + Available + Len(incoming)
      /\ \A i \in 1 .. Len(out) : out[i] = sent[i]
  BY OutIsSent DEF RInv, TypeOK, Shape, Content, Available
<1>2. Len(out) \in Nat /\ Len(incoming) \in Nat
  BY <1>1
<1>3. Len(out) >= 1 /\ Taken = Len(out) - 1
  BY DEF OwnerTypes, Taken
<1>4. out[Len(out)] = sent[Len(out)] /\ Taken + 1 = Len(out)
  BY <1>1, <1>2, <1>3
<1>5. Last(out) = out[Len(out)]
  BY DEF Last
<1> QED BY <1>1, <1>2, <1>3, <1>4, <1>5

\* The owner's own types after its steps.
LEMMA OwnerStepTypes ==
    ASSUME RInv, OwnerTypes, OwnerStep
    PROVE  OwnerTypes'
<1> USE CopyAssumption DEF OwnerTypes
<1>0. /\ bound' = bound
      /\ pc' = "idle" => UNCHANGED vars
  BY DEF OwnerStep, Ask, Call, StatusLine, FieldLine, HeaderLineEnds, NoHeader, CopyByte,
         CopyEnds, SendChunk, vars
<1>1. Pending' => Len(out') >= 1
  BY <1>0 DEF OwnerStep, Ask, Call, StatusLine, FieldLine, HeaderLineEnds, NoHeader, CopyByte,
         CopyEnds, SendChunk, Pending, Reads
<1>2. turn' \in Asking \cup Reads \cup {"send", "closed"}
  BY DEF OwnerStep, Ask, StatusLine, FieldLine, HeaderLineEnds, NoHeader, CopyByte, CopyEnds,
         SendChunk, Asking, Reads
<1>3. length' \in Int
  <2>1. Len(BodySent) \in Int
    BY BodyBytes DEF RInv
  <2> QED
    BY <2>1 DEF OwnerStep, Ask, StatusLine, FieldLine, HeaderLineEnds, NoHeader, CopyByte,
                CopyEnds, SendChunk
<1>4. rest' \in Int
  <2>1. rest_size - 1 \in Int
    BY DEF RInv, TypeOK
  <2>2. rest' \in {rest, length, rest_size - 1}
    BY DEF OwnerStep, Ask, StatusLine, FieldLine, HeaderLineEnds, NoHeader, CopyByte, CopyEnds,
           SendChunk
  <2> QED BY <2>1, <2>2
<1>5. chunk' \in Seq(Bytes) /\ delivered' \in Seq(Bytes)
  <2>1. CASE CopyByte
    <3>1. out \in Seq(Bytes) /\ Len(out) \in 1 .. Len(out)
      <4>1. out \in Seq(Bytes) /\ Len(out) \in Nat
        BY DEF RInv, TypeOK
      <4>2. Pending
        BY <2>1 DEF CopyByte, Returned, Given, Pending, Reads
      <4> QED BY <4>1, <4>2
    <3>2. Last(out) \in Bytes
      BY <3>1, ElementOfSeq DEF Last
    <3>3. Append(chunk, Last(out)) \in Seq(Bytes)
      BY <3>2, AppendProperties
    <3> QED BY <2>1, <3>3 DEF CopyByte
  <2>2. CASE SendChunk
    BY <2>2, EmptySeq, TogetherBytes DEF SendChunk
  <2> QED
    BY <2>1, <2>2 DEF OwnerStep, Ask, StatusLine, FieldLine, HeaderLineEnds, NoHeader, CopyEnds
<1> QED BY <1>0, <1>1, <1>2, <1>3, <1>4, <1>5

\* Where nothing is pending after a step, all that get_pchar has given is taken.
LEMMA AllTaken ==
    ASSUME turn' \notin Reads \/ pc' # "idle", UNCHANGED out
    PROVE  Taken' = Len(out)
BY DEF Taken, Pending

\* A byte copied is one more of the body.
LEMMA OneMore ==
    ASSUME TypeOK, OwnerTypes, Behind, NEW e \in Bytes,
           Taken \in Nat, Taken + 1 <= Len(sent), sent[Taken + 1] = e
    PROVE  delivered \o Append(chunk, e) = SubSeq(sent, Min(HeaderEnds) + 1, Taken + 1)
<1> DEFINE m == Min(HeaderEnds)
<1>1. m \in 2 .. Taken /\ sent \in Seq(Bytes)
  BY EndOfHeader DEF Behind, HeaderEnds, TypeOK
<1>2. SubSeq(sent, m + 1, Taken + 1) = SubSeq(sent, m + 1, Taken) \o <<e>>
  <2>1. m + 1 \in 1 .. Len(sent) /\ Taken + 1 \in m + 1 .. Len(sent) /\ (Taken + 1) - 1 = Taken
    BY <1>1
  <2> HIDE DEF m
  <2> QED BY <1>1, <2>1, SubSeqRecursiveSecond
<1>3. <<e>> \in Seq(Bytes) /\ Append(chunk, e) = chunk \o <<e>>
  BY AppendIsConcat DEF OwnerTypes
<1>4. delivered \o (chunk \o <<e>>) = (delivered \o chunk) \o <<e>>
  BY <1>3, Regrouped DEF OwnerTypes
<1> QED BY <1>2, <1>3, <1>4 DEF Behind

\* The steps of process_req that take no byte: a call of get_pchar, an end, a write.
LEMMA TakesNone ==
    ASSUME RInv, TransferInv, ~failed, Ask \/ NoHeader \/ CopyEnds \/ SendChunk
    PROVE  Calls' /\ Copied'
<1>1. Calls /\ Copied /\ OwnerTypes
  BY DEF TransferInv
<1>2. UNCHANGED <<sent, out, last_state, data_length>> /\ HeaderEnds' = HeaderEnds
  BY DEF Ask, Call, NoHeader, CopyEnds, SendChunk, vars, input, HeaderEnds
<1>3. Taken' = Taken
  <2>1. ~Pending
    BY DEF Ask, NoHeader, CopyEnds, SendChunk, Pending, Reads, Asking, Given
  <2>2. turn' \notin Reads \/ pc' # "idle"
    BY DEF Ask, Call, NoHeader, CopyEnds, SendChunk, Reads
  <2> QED BY <1>2, <2>1, <2>2, AllTaken DEF Taken
<1>4. CASE Ask
  <2>1. /\ turn \in Asking /\ pc' = "top" /\ UNCHANGED <<chunk, delivered>>
        /\ turn = "status" => turn' = "status read"
        /\ turn = "fields" => turn' = "fields read"
        /\ turn = "copy" => turn' = "byte read"
    BY <1>4 DEF Ask, Call, Asking
  <2>2. (InHeader => InHeader') /\ (Behind => Behind') /\ (Untouched => Untouched')
    BY <1>2, <1>3, <2>1 DEF InHeader, Behind, Untouched
  <2> QED BY <1>1, <1>2, <1>3, <2>1, <2>2 DEF Calls, Copied, Asking, Reads
<1>5. CASE NoHeader
  <2>1. /\ turn \in {"status read", "fields read"} /\ turn' = "closed" /\ pc' = "idle"
        /\ last_state = "Complete" /\ UNCHANGED <<chunk, delivered>>
    BY <1>1, <1>5 DEF NoHeader, Returned, Given, Calls, vars
  <2>2. InHeader /\ Untouched
    <3>1. Taken = 0 => InHeader
      BY DEF InHeader
    <3> QED BY <1>1, <2>1, <3>1 DEF Copied
  <2>3. InHeader' /\ Untouched'
    BY <1>2, <1>3, <2>1, <2>2 DEF InHeader, Untouched
  <2> QED BY <1>1, <1>2, <2>1, <2>3 DEF Calls, Copied, Asking, Untouched
<1>6. CASE CopyEnds
  <2>1. /\ turn = "byte read" /\ turn' = "send" /\ pc' = "idle"
        /\ last_state # "Ok" /\ UNCHANGED <<chunk, delivered>>
    BY <1>6 DEF CopyEnds, Returned, Given, vars
  <2>2. Behind'
    BY <1>1, <1>2, <1>3, <2>1 DEF Copied, Behind
  <2> QED BY <1>1, <1>2, <2>1, <2>2 DEF Calls, Copied, Asking
<1>7. CASE SendChunk
  <2>1. /\ turn = "send" /\ pc' = "idle" /\ chunk' = <<>>
        /\ delivered' = delivered \o chunk /\ UNCHANGED <<length, rest>>
        /\ \/ turn' = "copy" /\ last_state # "Complete"
           \/ turn' = "closed" /\ (last_state = "Complete" \/ length # 0)
    BY <1>1, <1>7 DEF SendChunk, GoesOn, Calls, Reads, vars
  <2>2. delivered \o chunk \in Seq(Bytes) /\ Len(delivered \o chunk) = Len(delivered) + Len(chunk)
    BY <1>1, TogetherBytes DEF OwnerTypes
  <2>3. Behind'
    <3>1. (delivered \o chunk) \o <<>> = delivered \o chunk
      BY <2>2, ConcatEmptySeq
    <3> QED BY <1>1, <1>2, <1>3, <2>1, <3>1 DEF Copied, Behind
  <2>4. last_state = "Complete" \/ Len(delivered') >= COPY
    <3>1. last_state = "Complete" \/ Len(chunk) = COPY
      BY <1>1, <2>1 DEF Calls, Copied
    <3>2. Len(delivered) \in Nat /\ COPY \in Nat
      BY <1>1, CopyAssumption DEF OwnerTypes
    <3> QED BY <2>1, <2>2, <3>1, <3>2
  <2>5. Calls'
    BY <1>1, <1>2, <2>1 DEF Calls, Asking
  <2> QED BY <1>2, <2>1, <2>3, <2>4, <2>5 DEF Copied
<1> QED BY <1>4, <1>5, <1>6, <1>7

\* The steps of process_req that take the byte get_pchar has returned.
LEMMA TakesOne ==
    ASSUME RInv, InOrder, TransferInv, ~failed,
           StatusLine \/ FieldLine \/ HeaderLineEnds \/ CopyByte
    PROVE  Calls' /\ Copied'
<1>1. Calls /\ Copied /\ OwnerTypes /\ sent \in Seq(Bytes)
  BY DEF TransferInv, RInv, TypeOK
<1>2. /\ UNCHANGED <<sent, out, last_state, data_length, pc>> /\ HeaderEnds' = HeaderEnds
      /\ pc = "idle" /\ last_state = "Ok"
  BY DEF StatusLine, FieldLine, HeaderLineEnds, CopyByte, Returned, Given, vars, HeaderEnds
<1>3. Pending /\ turn' \notin Reads
  BY <1>2 DEF StatusLine, FieldLine, HeaderLineEnds, CopyByte, Returned, Pending, Reads
<1>4. /\ Taken \in Nat /\ Taken' = Taken + 1 /\ Taken + 1 <= Len(sent)
      /\ Last(out) = sent[Taken + 1]
  BY <1>1, <1>2, <1>3, NextByte, AllTaken
<1>5. Calls'
  BY <1>1, <1>2, <1>3 DEF Calls
<1> SUFFICES Copied'
  BY <1>5
<1>6. CASE StatusLine
  <2>1. /\ turn = "status read" /\ UNCHANGED <<length, chunk, delivered>>
        /\ turn' = IF Last(out) = "status" THEN "fields" ELSE "closed"
    BY <1>6 DEF StatusLine, Returned
  <2>2. Untouched /\ Taken = 0
    BY <1>1, <2>1 DEF Copied
  <2>3. InHeader' /\ Untouched' /\ Taken' = 1
    <3>1. Untouched'
      BY <2>1, <2>2 DEF Untouched
    <3>2. Taken' = 1
      BY <1>4, <2>2
    <3>3. \A i \in 2 .. 1 : FALSE
      OBVIOUS
    <3> QED BY <3>1, <3>2, <3>3 DEF InHeader
  <2>4. CASE Last(out) = "status"
    <3>1. turn' = "fields"
      BY <2>1, <2>4
    <3>2. Taken' >= 1
      BY <2>3
    <3> QED BY <2>3, <3>1, <3>2 DEF Copied
  <2>5. CASE Last(out) # "status"
    <3>1. sent' # <<>> /\ sent'[1] # "status"
      BY <1>1, <1>2, <1>4, <2>2, <2>5, EmptySeq
    <3> QED BY <2>1, <2>3, <2>5, <3>1 DEF Copied, Untouched
  <2> QED BY <2>4, <2>5
<1>7. CASE FieldLine
  <2>1. /\ turn = "fields read" /\ turn' = "fields" /\ UNCHANGED <<chunk, delivered>>
        /\ Last(out) \in {"length", "field"}
    BY <1>7 DEF FieldLine, Returned
  <2>2. InHeader /\ Untouched /\ Taken + 1 \notin HeaderEnds
    BY <1>1, <1>4, <2>1 DEF Copied, HeaderEnds
  <2>3. \A i \in 2 .. Taken + 1 : i \in 2 .. Taken \/ i = Taken + 1
    BY <1>4
  <2>4. InHeader' /\ Untouched'
    BY <1>2, <1>4, <2>1, <2>2, <2>3 DEF InHeader, Untouched
  <2>5. Taken' >= 1
    BY <1>4
  <2> QED BY <2>1, <2>4, <2>5 DEF Copied
<1>8. CASE HeaderLineEnds
  <2>1. /\ turn = "fields read" /\ turn' = "copy" /\ UNCHANGED <<chunk, delivered>>
        /\ Last(out) \notin {"length", "field"}
    BY <1>8 DEF HeaderLineEnds, Returned
  <2>2. InHeader /\ Untouched /\ Taken >= 1
    BY <1>1, <2>1 DEF Copied
  <2>3. Taken + 1 \in HeaderEnds
    <3>1. Taken + 1 \in 2 .. Len(sent)
      BY <1>4, <2>2, <1>1
    <3> QED BY <1>4, <2>1, <3>1 DEF HeaderEnds
  <2>4. /\ Min(HeaderEnds) \in HeaderEnds /\ Min(HeaderEnds) <= Taken + 1
        /\ Min(HeaderEnds) \in Nat /\ Min(HeaderEnds) >= 2
    BY <2>3, EndOfHeader DEF HeaderEnds
  <2>5. Min(HeaderEnds) = Taken + 1
    BY <1>4, <2>2, <2>4 DEF InHeader
  <2>6. SubSeq(sent, (Taken + 1) + 1, Taken + 1) = <<>>
    BY <1>4, SubSeqEmpty
  <2>7. <<>> \o <<>> = <<>>
    BY ConcatEmptySeq, EmptySeq
  <2>8. delivered' \o chunk' = <<>>
    BY <2>1, <2>2, <2>7 DEF Untouched
  <2>9. HeaderEnds' # {} /\ Min(HeaderEnds') = Taken + 1
    BY <1>2, <2>3, <2>5
  <2>10. Min(HeaderEnds') <= Taken'
    BY <1>4, <2>9
  <2>11. SubSeq(sent', Min(HeaderEnds') + 1, Taken') = <<>>
    BY <1>2, <1>4, <2>6, <2>9
  <2>12. Behind'
    BY <2>8, <2>9, <2>10, <2>11 DEF Behind
  <2> QED BY <2>1, <2>12 DEF Copied
<1>9. CASE CopyByte
  <2>1. /\ turn = "byte read" /\ UNCHANGED delivered /\ chunk' = Append(chunk, Last(out))
        /\ turn' = IF Len(chunk) + 1 = COPY THEN "send" ELSE "copy"
    BY <1>9 DEF CopyByte, Returned
  <2>2. Behind /\ Last(out) \in Bytes
    <3>1. Taken + 1 \in 1 .. Len(sent)
      BY <1>4
    <3>2. sent[Taken + 1] \in Bytes
      BY <1>1, <3>1, ElementOfSeq
    <3> QED BY <1>1, <1>4, <2>1, <3>2 DEF Copied
  <2>3. /\ delivered \o Append(chunk, Last(out)) = SubSeq(sent, Min(HeaderEnds) + 1, Taken + 1)
        /\ Len(Append(chunk, Last(out))) = Len(chunk) + 1
    BY <1>1, <1>4, <2>2, OneMore, AppendProperties DEF OwnerTypes, RInv
  <2>4. Min(HeaderEnds) <= Taken + 1
    <3>1. Min(HeaderEnds) \in Nat
      BY <2>2, EndOfHeader DEF Behind, HeaderEnds
    <3> QED BY <1>4, <2>2, <3>1 DEF Behind
  <2>5. Behind'
    BY <1>2, <1>4, <2>1, <2>2, <2>3, <2>4 DEF Behind
  <2> QED BY <2>1, <2>3, <2>5 DEF Copied
<1> QED BY <1>6, <1>7, <1>8, <1>9

\* TransferInv: for all answers of the host, cuts of the network and sizes of a copy.
THEOREM TransferInvariant == ProxySpec => [](RInv /\ InOrder /\ TransferInv)
<1>1. ProxyInit => TransferInv
  <2> SUFFICES ASSUME ProxyInit PROVE TransferInv
    OBVIOUS
  <2>1. Len(<<>>) = 0 /\ <<>> \in Seq(Bytes)
    BY EmptySeq
  <2>2. Taken = 0 /\ ~Pending
    BY <2>1 DEF ProxyInit, Init, Pending, Reads, Taken
  <2>3. OwnerTypes
    BY <2>1, <2>2, CopyAssumption DEF ProxyInit, Init, OwnerTypes, Asking
  <2>4. Calls
    BY DEF ProxyInit, Init, Calls, Reads
  <2>5. Copied
    BY <2>2 DEF ProxyInit, Copied, Untouched
  <2> QED BY <2>3, <2>4, <2>5 DEF TransferInv
<1>2. RInv /\ InOrder /\ TransferInv /\ [ProxyNext]_pvars => TransferInv'
  <2> SUFFICES ASSUME RInv, InOrder, TransferInv, [ProxyNext]_pvars PROVE TransferInv'
    OBVIOUS
  <2>1. CASE UNCHANGED pvars
    BY <2>1, ZenonT(40) DEF pvars, vars, owner, TransferInv, OwnerTypes, Pending, Taken, Calls, Copied,
                InHeader, Untouched, Behind, HeaderEnds
  <2>2. CASE ReaderStep
    BY <2>2, ReaderStepKeeps
  <2>3. CASE OwnerStep
    <3>1. OwnerTypes' /\ failed' = failed
      BY <2>3, OwnerStepTypes
         DEF TransferInv, OwnerStep, Ask, Call, StatusLine, FieldLine, HeaderLineEnds, NoHeader,
             CopyByte, CopyEnds, SendChunk, vars, marks
    <3>2. ~failed => Calls' /\ Copied'
      BY <2>3, TakesNone, TakesOne DEF OwnerStep
    <3> QED BY <3>1, <3>2 DEF TransferInv
  <2> QED BY <2>1, <2>2, <2>3 DEF ProxyNext
<1> QED BY <1>1, <1>2, RunsReader, ReaderInv, BytesInOrder, PTL DEF ProxySpec
-----------------------------------------------------------------------------
(* What the client gets *)

\* What process_req has taken is part of the answer.
LEMMA TakenOfSent ==
    ASSUME RInv, InOrder, OwnerTypes, ~failed
    PROVE  Taken \in Nat /\ Taken <= Len(sent)
<1>1. /\ Len(out) \in Nat /\ Len(incoming) \in Nat /\ Available \in Nat
      /\ Len(sent) = Len(out) + Available + Len(incoming)
  BY OutIsSent DEF RInv, TypeOK, Shape, Content, Available
<1>2. CASE Pending
  BY <1>1, <1>2 DEF Taken, OwnerTypes
<1>3. CASE ~Pending
  BY <1>1, <1>3 DEF Taken
<1> QED BY <1>2, <1>3

\* Of two pieces of a sequence that begin together the one that ends first begins the
\* other.
LEMMA CutIsPrefix ==
    ASSUME NEW s \in Seq(Bytes), NEW m \in Nat, NEW n \in Nat, m <= n, n <= Len(s)
    PROVE  IsPrefix(SubSeq(s, m + 1, n), SubSeq(s, m + 1, Len(s)))
<1> DEFINE a == SubSeq(s, m + 1, n)
           b == SubSeq(s, m + 1, Len(s))
<1>1. /\ a \in Seq(Bytes) /\ Len(a) = n - m
      /\ b \in Seq(Bytes) /\ Len(b) = Len(s) - m
  OBVIOUS
<1>2. \A i \in 1 .. n - m : a[i] = s[m + i] /\ b[i] = s[m + i]
  OBVIOUS
<1> HIDE DEF a, b
<1>3. SubSeq(a, 1, n - m) = a
  BY <1>1, SubSeqFull
<1>4. SubSeq(b, 1, n - m) \in Seq(Bytes) /\ Len(SubSeq(b, 1, n - m)) = n - m
  BY <1>1
<1>5. \A i \in 1 .. n - m : SubSeq(b, 1, n - m)[i] = b[i]
  BY <1>1
<1>6. SubSeq(b, 1, n - m) = a
  BY <1>1, <1>2, <1>4, <1>5, SeqEqual
<1>7. IsPrefix(a, b)
  BY <1>1, <1>3, <1>6 DEF IsPrefix
<1> QED BY <1>7 DEF a, b

\* InOrderForClient: until the connection to the host fails, what the client was sent
\* and will be sent next is how the body begins.
THEOREM ClientInOrder == ProxySpec => []InOrderForClient
<1>1. RInv /\ InOrder /\ TransferInv => InOrderForClient
  <2> SUFFICES ASSUME RInv, InOrder, TransferInv, ~failed
               PROVE  IsPrefix(delivered \o chunk, BodySent)
    BY DEF InOrderForClient
  <2>1. OwnerTypes /\ Copied /\ BodySent \in Seq(Bytes) /\ sent \in Seq(Bytes)
    BY BodyBytes DEF TransferInv, RInv, TypeOK
  <2>2. CASE delivered = <<>> /\ chunk = <<>>
    <3>1. delivered \o chunk = <<>>
      BY <2>2, ConcatEmptySeq, EmptySeq
    <3>2. Len(<<>>) = 0 /\ Len(BodySent) \in Nat
      BY <2>1
    <3>3. SubSeq(<<>>, 1, 0) = <<>> /\ SubSeq(BodySent, 1, 0) = <<>>
      BY SubSeqEmpty
    <3> QED BY <3>1, <3>2, <3>3 DEF IsPrefix
  <2>3. CASE Behind
    <3> DEFINE m == Min(HeaderEnds)
    <3>1. m \in 2 .. Len(sent) /\ m <= Taken /\ Taken \in Nat /\ Taken <= Len(sent)
      <4>1. m \in 2 .. Len(sent) /\ m <= Taken
        BY <2>3, EndOfHeader DEF Behind, HeaderEnds
      <4>2. Taken \in Nat /\ Taken <= Len(sent)
        BY <2>1, TakenOfSent
      <4> QED BY <4>1, <4>2
    <3>2. BodySent = SubSeq(sent, m + 1, Len(sent))
      BY <2>3 DEF Behind, BodySent
    <3>3. delivered \o chunk = SubSeq(sent, m + 1, Taken)
      BY <2>3 DEF Behind
    <3> HIDE DEF m
    <3>4. IsPrefix(SubSeq(sent, m + 1, Taken), SubSeq(sent, m + 1, Len(sent)))
      BY <2>1, <3>1, CutIsPrefix
    <3> QED BY <3>2, <3>3, <3>4
  <2> QED BY <2>1, <2>2, <2>3 DEF OwnerTypes, Copied, Untouched, Asking, Reads
<1> QED BY <1>1, TransferInvariant, PTL

\* CutForAReason: an answer that is understood, whose host keeps up and does not fail,
\* and which fits in one copy or has no length, reaches the client whole.
THEOREM WholeOrForAReason == ProxySpec => []CutForAReason
<1>1. RInv /\ InOrder /\ TransferInv => CutForAReason
  <2> SUFFICES ASSUME RInv, InOrder, TransferInv, turn = "closed",
                      sent # <<>>, sent[1] = "status", incoming = <<>>, ~failed,
                      ~(Len(BodySent) >= COPY /\ length # 0)
               PROVE  delivered = BodySent
    BY DEF CutForAReason
  <2>1. OwnerTypes /\ Calls /\ Copied /\ chunk = <<>> /\ sent \in Seq(Bytes)
    BY DEF TransferInv, RInv, TypeOK, Copied
  <2>2. Taken = Len(out) /\ Len(sent) = Len(out) + Available
    <3>1. Taken = Len(out)
      BY DEF Taken, Pending, Reads
    <3>2. Len(<<>>) = 0 /\ Len(out) \in Nat /\ Available \in Int
      BY DEF RInv, TypeOK, Available
    <3> QED BY <3>1, <3>2, OutIsSent
  <2>3. last_state = "Complete" => Taken = Len(sent)
    <3> SUFFICES ASSUME last_state = "Complete" PROVE Taken = Len(sent)
      OBVIOUS
    <3>1. data_length = 0
      BY <2>1 DEF Calls
    <3>2. reader_position = 0 /\ Len(out) \in Nat
      BY <3>1 DEF RInv, TypeOK, Shape, Content
    <3> QED BY <2>2, <3>1, <3>2 DEF Available
  <2>4. CASE delivered = <<>> /\ last_state = "Complete" /\ InHeader
    <3>1. HeaderEnds = {}
      BY <2>3, <2>4 DEF InHeader, HeaderEnds
    <3> QED BY <2>4, <3>1 DEF BodySent
  <2>5. Behind => delivered = SubSeq(sent, Min(HeaderEnds) + 1, Taken)
    BY <2>1, ConcatEmptySeq DEF Behind, OwnerTypes
  <2>6. CASE Behind /\ last_state = "Complete"
    BY <2>3, <2>5, <2>6 DEF BodySent, Behind
  <2>7. ~(Behind /\ length # 0 /\ Len(delivered) >= COPY)
    <3> SUFFICES ASSUME Behind, length # 0, Len(delivered) >= COPY PROVE Len(BodySent) >= COPY
      OBVIOUS
    <3> DEFINE m == Min(HeaderEnds)
    <3>1. m \in 2 .. Len(sent) /\ m <= Taken /\ Taken \in Nat /\ Taken <= Len(sent)
      <4>1. m \in 2 .. Len(sent) /\ m <= Taken
        BY EndOfHeader DEF Behind, HeaderEnds
      <4>2. Taken \in Nat /\ Taken <= Len(sent)
        BY <2>1, TakenOfSent
      <4> QED BY <4>1, <4>2
    <3>2. BodySent = SubSeq(sent, m + 1, Len(sent)) /\ delivered = SubSeq(sent, m + 1, Taken)
      BY <2>5 DEF Behind, BodySent
    <3> HIDE DEF m
    <3>3. Len(delivered) <= Len(BodySent)
      BY <2>1, <3>1, <3>2, CutIsPrefix DEF IsPrefix
    <3>4. Len(delivered) \in Nat /\ Len(BodySent) \in Nat /\ COPY \in Nat
      BY <2>1, BodyBytes, CopyAssumption DEF OwnerTypes, RInv
    <3> QED BY <3>3, <3>4
  <2> QED BY <2>1, <2>4, <2>6, <2>7 DEF Copied
<1> QED BY <1>1, TransferInvariant, PTL
=============================================================================
