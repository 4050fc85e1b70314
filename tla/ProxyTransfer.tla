----------------------------- MODULE ProxyTransfer -----------------------------
(***************************************************************************)
(* The answer of the host a request is passed on to: its header            *)
(* (lib/http_response.cc 16-137), and the loop that copies its body to the *)
(* client (actions/proxy_page.cc 136-190), on top of the reader of module  *)
(* StreamReader, with the network and the time limits that has.            *)
(*                                                                         *)
(* A line of the header is one byte of the reader here, named for what     *)
(* parse_header takes it for.  What follows the line that ends the header  *)
(* is the body, whatever bytes it has.                                     *)
(***************************************************************************)
EXTENDS StreamReader, SequencesExt

CONSTANTS
    COPY,       \* the bytes of buffer that are filled: sizeof(buffer) - 1
    Garbage     \* what _content_lenght may be before it is set

ASSUME CopyAssumption ==
    COPY \in Nat \ {0} /\ Garbage \subseteq Int

VARIABLES
    turn,       \* where process_req is
    length,     \* proxy_response->_content_lenght
    rest,       \* rest
    chunk,      \* buffer up to dst
    delivered   \* what the client was sent behind the header

owner == <<turn, length, rest, chunk, delivered>>
pvars == <<vars, owner>>

\* The lines behind the first that are no fields; the first of them ends the header.
HeaderEnds == {i \in 2 .. Len(sent) : sent[i] \notin {"length", "field"}}
BodySent == IF HeaderEnds = {} THEN <<>>
            ELSE SubSeq(sent, Min(HeaderEnds) + 1, Len(sent))

ProxyInit ==
    /\ Init
    /\ turn = "status"
    /\ length \in Garbage
    /\ rest = 0
    /\ chunk = <<>> /\ delivered = <<>>

\* get_pchar is called, and runs by itself until it returns.
Ask ==
    /\ turn \in {"status", "fields", "copy"}
    /\ Call
    /\ turn' = CASE turn = "status" -> "status read"
                 [] turn = "fields" -> "fields read"
                 [] turn = "copy" -> "byte read"
    /\ UNCHANGED <<length, rest, chunk, delivered>>
ReaderStep == (TimedRecv \/ UntimedRecv \/ Local) /\ UNCHANGED owner

Returned(there) == pc = "idle" /\ turn = there
Given == last_state = "Ok"
-----------------------------------------------------------------------------
(* Faulty variants of definitions below, to see the properties fail. *)

\* of CopyByte: the byte that fills the buffer is not copied, nor those before it.
ForgetsByte ==
    /\ Returned("byte read") /\ Given
    /\ chunk' = IF Len(chunk) + 1 = COPY THEN <<>> ELSE Append(chunk, Last(out))
    /\ rest' = rest_size - 1
    /\ turn' = IF Len(chunk) + 1 = COPY THEN "send" ELSE "copy"
    /\ UNCHANGED <<vars, length, delivered>>

\* of GoesOn: the loop ends with what the reader holds, with a length or without.
EndsWithBuffer == rest > 0 /\ last_state # "Complete"
\* of GoesOn: the end of the answer is no end.
NeverEnds == length = 0 \/ rest > 0 \/ last_state = "Complete"
-----------------------------------------------------------------------------
(* parse_header *)

\* The first line has the code; anything else is no answer.
StatusLine ==
    /\ Returned("status read") /\ Given
    /\ turn' = IF Last(out) = "status" THEN "fields" ELSE "closed"
    /\ UNCHANGED <<vars, length, rest, chunk, delivered>>

FieldLine ==
    /\ Returned("fields read") /\ Given /\ Last(out) \in {"length", "field"}
    /\ length' = IF Last(out) = "length" THEN Len(BodySent) ELSE length
    /\ turn' = "fields"
    /\ UNCHANGED <<vars, rest, chunk, delivered>>

\* Any line without a colon ends the header; the client gets one with the length.
HeaderLineEnds ==
    /\ Returned("fields read") /\ Given /\ Last(out) \notin {"length", "field"}
    /\ rest' = length
    /\ turn' = "copy"
    /\ UNCHANGED <<vars, length, chunk, delivered>>

\* The host is gone or silent: the client gets nothing.
NoHeader ==
    /\ Returned("status read") \/ Returned("fields read")
    /\ ~Given
    /\ turn' = "closed"
    /\ UNCHANGED <<vars, length, rest, chunk, delivered>>
-----------------------------------------------------------------------------
(* The loops of process_req *)

\* get_pchar writes rest, which is decremented after that.
CopyByte ==
    /\ Returned("byte read") /\ Given
    /\ chunk' = Append(chunk, Last(out))
    /\ rest' = rest_size - 1
    /\ turn' = IF Len(chunk) + 1 = COPY THEN "send" ELSE "copy"
    /\ UNCHANGED <<vars, length, delivered>>

CopyEnds ==
    /\ Returned("byte read") /\ ~Given
    /\ turn' = "send"
    /\ UNCHANGED <<vars, length, rest, chunk, delivered>>

GoesOn == (length = 0 \/ rest > 0) /\ last_state # "Complete"

SendChunk ==
    /\ turn = "send"
    /\ delivered' = delivered \o chunk
    /\ chunk' = <<>>
    /\ turn' = IF GoesOn THEN "copy" ELSE "closed"
    /\ UNCHANGED <<vars, length, rest>>

OwnerStep ==
    \/ Ask \/ StatusLine \/ FieldLine \/ HeaderLineEnds \/ NoHeader
    \/ CopyByte \/ CopyEnds \/ SendChunk

ProxyNext == OwnerStep \/ ReaderStep
ProxySpec == ProxyInit /\ [][ProxyNext]_pvars
ProxyFairness == WF_pvars(OwnerStep) /\ WF_pvars((TimedRecv \/ Local) /\ UNCHANGED owner)
ProxyFairSpec == ProxySpec /\ ProxyFairness
-----------------------------------------------------------------------------
(* Properties *)

\* Until the connection to the host fails, the client gets bytes of the body, each
\* once and in order, however the network cuts the answer and wherever the copies
\* of 4095 bytes begin.
InOrderForClient == ~failed => IsPrefix(delivered \o chunk, BodySent)

\* The client gets less than the host sends only for one of these reasons: the
\* answer is not understood; the host is slower than the time limit, or fails; the
\* body is longer than one copy, and is announced, so that the loop goes by what the
\* reader happens to hold.
CutForAReason ==
    turn = "closed" =>
        \/ delivered = BodySent
        \/ sent = <<>> \/ sent[1] # "status"
        \/ incoming # <<>> \/ failed
        \/ Len(BodySent) >= COPY /\ length # 0

\* The transfer ends, unless the host fails when no length ends the loop: none was
\* announced, or rest still has what it was before the first byte; then the next byte
\* is asked for for ever. And unless a recv has filled the buffer: from then on the
\* reader looks ahead without a time limit, and a host that keeps the connection open
\* is waited for.
TransferEnds ==
    turn = "status" ~>
        \/ turn = "closed"
        \/ failed /\ (length = 0 \/ rest > 0)
        \/ filled
=============================================================================
