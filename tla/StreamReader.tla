---------------------------- MODULE StreamReader ----------------------------
(***************************************************************************)
(* multipart_stream_reader_t: bytes of a connection one at a time, and a   *)
(* signal in place of a multipart boundary (lib/stream_reader.cc).         *)
(*                                                                         *)
(* get_pchar refills its buffer with a recv that has a timeout, and when   *)
(* it may be inside a boundary it reads more with a recv that has none.    *)
(* rest_size decides: as long as it equals what the buffer holds the       *)
(* reader takes the buffer for the whole of the message ("chunk mode").    *)
(***************************************************************************)
EXTENDS Integers, Sequences

CONSTANTS
    Bytes,
    CR, LF, Dash,     \* bytes
    Delimiter,        \* the boundary the header announces
    Inputs,           \* what a peer may send
    BUFSIZE,
    Lengths           \* arguments of set_content_length

ASSUME StreamReaderAssumption ==
    /\ {CR, LF, Dash} \subseteq Bytes
    /\ Delimiter \in Seq(Bytes) /\ Delimiter # <<>>
    /\ Inputs \subseteq Seq(Bytes)
    /\ BUFSIZE \in Nat /\ BUFSIZE >= Len(Delimiter) + 6
    /\ Lengths \subseteq Nat

VARIABLES
    sent,             \* all the peer sends
    incoming,         \* what of it was not received yet
    buffer,           \* the data_length bytes of the buffer
    data_length, reader_position, rest_size,
    bound,            \* <<>> for no bound
    last_state,
    out,              \* bytes given to the caller, boundaries included
    pc,               \* "idle": get_pchar is not running
    filled,           \* some recv has filled the whole buffer
    lengthSet,        \* set_content_length was called
    failed            \* recv has reported an error; it will from now on

input == <<sent, incoming>>
marks == <<filled, lengthSet, failed>>
vars == <<sent, incoming, buffer, data_length, reader_position, rest_size,
          bound, last_state, out, pc, filled, lengthSet, failed>>

Init ==
    /\ sent \in Inputs
    /\ incoming = sent
    /\ buffer = <<>>
    /\ data_length = 0 /\ reader_position = 0 /\ rest_size = 0
    /\ bound = <<>>
    /\ last_state = "Ok"
    /\ out = <<>>
    /\ pc = "idle"
    /\ filled = FALSE /\ lengthSet = FALSE /\ failed = FALSE

Received(n) == SubSeq(incoming, 1, n)
Dropped(n) == SubSeq(incoming, n + 1, Len(incoming))
Give(bytes) == out' = out \o bytes
-----------------------------------------------------------------------------
(* Faulty variants of definitions below, to see the properties fail. *)

\* of Kept: the bytes are moved from the start of the buffer.
KeptFromStart == SubSeq(buffer, 1, data_length - reader_position)

\* of RestAfterRefill: the size is taken over for a full buffer as well, and
\* for one that is not full it is left alone.
RestOfFullBuffer(n) == IF rest_size = 0 /\ n = BUFSIZE THEN n ELSE rest_size

\* of Room: the bytes that are kept are not subtracted.
WholeBuffer == BUFSIZE

-----------------------------------------------------------------------------
(* Calls of the owner between two calls of get_pchar *)

SetBound(b) ==
    /\ pc = "idle"
    /\ bound' = b
    /\ UNCHANGED <<input, buffer, data_length, reader_position, rest_size,
                   last_state, out, pc, marks>>

SetContentLength(n) ==
    /\ pc = "idle"
    /\ rest_size' = n
    /\ lengthSet' = TRUE
    /\ UNCHANGED <<input, buffer, data_length, reader_position, bound,
                   last_state, out, pc, filled, failed>>

Call ==
    /\ pc = "idle"
    /\ pc' = "top"
    /\ UNCHANGED <<input, buffer, data_length, reader_position, rest_size,
                   bound, last_state, out, marks>>
-----------------------------------------------------------------------------
(* get_pchar: refill an empty buffer, five minutes or five seconds long *)

RestAfterRefill(n) == IF rest_size = 0 /\ n < BUFSIZE THEN n ELSE rest_size

Refill(n) ==
    /\ pc = "top" /\ data_length = 0
    /\ ~failed
    /\ n \in 1 .. BUFSIZE /\ n <= Len(incoming)
    /\ buffer' = Received(n)
    /\ incoming' = Dropped(n)
    /\ data_length' = n
    /\ rest_size' = RestAfterRefill(n)
    /\ filled' = (filled \/ n = BUFSIZE)
    /\ UNCHANGED <<sent, reader_position, bound, last_state, out, pc, lengthSet, failed>>

\* The time is over, or the stream.
RefillEnds ==
    /\ pc = "top" /\ data_length = 0
    /\ ~failed
    /\ last_state' = "Complete"
    /\ pc' = "idle"
    /\ UNCHANGED <<input, buffer, data_length, reader_position, rest_size, bound, out, marks>>

\* data_length keeps the error code.
RefillFails ==
    /\ pc = "top" /\ data_length = 0
    /\ data_length' = -1
    /\ failed' = TRUE
    /\ last_state' = "SockerError"
    /\ pc' = "idle"
    /\ UNCHANGED <<input, buffer, reader_position, rest_size, bound, out, filled, lengthSet>>
-----------------------------------------------------------------------------
(* get_pchar: enough bytes to recognize a boundary, or none are expected *)

Available == data_length - reader_position
Short == rest_size # Available /\ Available < Len(bound) + 4 + 2
AtLook == pc = "top" /\ data_length # 0

Kept == SubSeq(buffer, reader_position + 1, data_length)
Room == BUFSIZE - Available

Enough ==
    /\ AtLook /\ ~Short
    /\ pc' = "scan"
    /\ UNCHANGED <<input, buffer, data_length, reader_position, rest_size, bound,
                   last_state, out, marks>>

\* The rest moves to the front and recv, with no timeout, writes behind it.
Arrange(n) ==
    /\ AtLook /\ Short
    /\ ~failed
    /\ n \in 1 .. Room /\ n <= Len(incoming)
    /\ buffer' = Kept \o Received(n)
    /\ incoming' = Dropped(n)
    /\ data_length' = Available + n
    /\ reader_position' = 0
    /\ filled' = (filled \/ Available + n = BUFSIZE)
    /\ pc' = "scan"
    /\ UNCHANGED <<sent, rest_size, bound, last_state, out, lengthSet, failed>>

\* The peer has closed: recv returns 0.
ArrangeEnds ==
    /\ AtLook /\ Short
    /\ ~failed
    /\ incoming = <<>>
    /\ buffer' = Kept
    /\ data_length' = Available
    /\ reader_position' = 0
    /\ pc' = "scan"
    /\ UNCHANGED <<input, rest_size, bound, last_state, out, marks>>

\* The error code is added to the length as if it were a count.
ArrangeFails ==
    /\ AtLook /\ Short
    /\ failed' = TRUE
    /\ buffer' = SubSeq(Kept, 1, Available - 1)
    /\ data_length' = Available - 1
    /\ reader_position' = 0
    /\ pc' = "scan"
    /\ UNCHANGED <<input, rest_size, bound, last_state, out, filled, lengthSet>>
-----------------------------------------------------------------------------
(* get_pchar: the byte at reader_position, or a boundary *)

Here == reader_position + 1
Prefix == <<CR, LF, Dash, Dash>>

AtPrefix ==
    /\ Available >= 4
    /\ SubSeq(buffer, Here, Here + 3) = Prefix

\* throw "Fix me ASAP!!!"
Cut == AtPrefix /\ Available - 4 < Len(bound)
AtBound == /\ AtPrefix /\ ~Cut
           /\ bound # <<>>
           /\ SubSeq(buffer, Here + 4, Here + 3 + Len(bound)) = bound

Drained ==
    /\ pc = "scan"
    /\ reader_position >= data_length
    /\ buffer' = <<>>
    /\ data_length' = 0
    /\ reader_position' = 0
    /\ pc' = "top"
    /\ UNCHANGED <<input, rest_size, bound, last_state, out, marks>>

Throw ==
    /\ pc = "scan"
    /\ reader_position < data_length
    /\ Cut
    /\ pc' = "thrown"
    /\ UNCHANGED <<input, buffer, data_length, reader_position, rest_size, bound,
                   last_state, out, marks>>

GiveBound ==
    /\ pc = "scan"
    /\ reader_position < data_length
    /\ AtBound
    /\ Give(SubSeq(buffer, Here, Here + 3 + Len(bound)))
    /\ last_state' = "Bound"
    /\ rest_size' = rest_size - (Len(bound) + 4)
    /\ reader_position' = reader_position + Len(bound) + 4
    /\ pc' = "idle"
    /\ UNCHANGED <<input, buffer, data_length, bound, marks>>

GiveByte ==
    /\ pc = "scan"
    /\ reader_position < data_length
    /\ ~Cut /\ ~AtBound
    /\ Give(<<buffer[Here]>>)
    /\ last_state' = "Ok"
    /\ rest_size' = IF rest_size # -1 THEN rest_size - 1 ELSE -1
    /\ reader_position' = reader_position + 1
    /\ pc' = "idle"
    /\ UNCHANGED <<input, buffer, data_length, bound, marks>>
-----------------------------------------------------------------------------
Owner ==
    \/ \E b \in {<<>>, Delimiter} : SetBound(b)
    \/ \E n \in Lengths : SetContentLength(n)
    \/ Call

\* The recv with a timeout returns, with bytes or without.
TimedRecv ==
    \/ \E n \in 1 .. BUFSIZE : Refill(n)
    \/ RefillEnds
    \/ RefillFails

\* The one without may wait for ever.
UntimedRecv ==
    \/ \E n \in 1 .. BUFSIZE : Arrange(n)
    \/ ArrangeEnds
    \/ ArrangeFails

Local == Enough \/ Drained \/ Throw \/ GiveBound \/ GiveByte

Next == Owner \/ TimedRecv \/ UntimedRecv \/ Local

Spec == Init /\ [][Next]_vars

FairSpec == Spec /\ WF_vars(TimedRecv \/ Local)
-----------------------------------------------------------------------------
(* Properties *)

\* The members of the reader and the bytes around it keep to their domains.
TypeOK ==
    /\ sent \in Seq(Bytes) /\ incoming \in Seq(Bytes)
    /\ buffer \in Seq(Bytes)
    /\ data_length \in Int /\ reader_position \in Nat /\ rest_size \in Int
    /\ bound \in {<<>>, Delimiter}
    /\ last_state \in {"Ok", "Bound", "SockerError", "Complete"}
    /\ out \in Seq(Bytes)
    /\ pc \in {"idle", "top", "scan", "thrown"}
    /\ filled \in BOOLEAN /\ lengthSet \in BOOLEAN /\ failed \in BOOLEAN

\* Until recv fails, reader_position and data_length stay inside the buffer,
\* whatever sizes recv returns, and the move to the front leaves recv the room
\* it is told.
InsideBuffer ==
    ~failed => /\ 0 <= reader_position /\ reader_position <= data_length
               /\ data_length <= BUFSIZE
               /\ Len(buffer) = data_length

\* Bytes are given to the caller in the order they were sent, none lost, none
\* twice, however the network cuts the stream and wherever boundaries lie.
InOrder ==
    ~failed => out \o Kept \o incoming = sent

\* Chunk mode: unless a recv has filled the whole buffer or the owner has set a
\* length, rest_size is what the buffer holds; multipart_form.cc takes it for
\* the size of the rest of the message.
RestIsAvailable ==
    ~filled /\ ~lengthSet /\ ~failed => rest_size = Available

\* In chunk mode a call of get_pchar returns although the peer stays silent: it
\* never waits in the recv that has no timeout.
CallReturns ==
    (pc = "top" /\ ~filled /\ ~lengthSet /\ ~failed) ~> pc \in {"idle", "thrown"}

\* The exception "Fix me ASAP!!!", which nobody catches, is never thrown.
NeverThrows == pc # "thrown"
=============================================================================
