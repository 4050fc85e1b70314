-------------------------- MODULE ContentDecoders --------------------------
(***************************************************************************)
(* base64_decoder and quouted_printable_decoder of lib/multipart_form.cc   *)
(* as operators.  A decoder takes one character per call and gives one     *)
(* byte, or asks for more input, or says that it has more to give; its     *)
(* caller then drains it.  The state of a decoder is a record, characters  *)
(* and bytes are their codes.                                              *)
(***************************************************************************)
EXTENDS Integers, Sequences, SequencesExt

CR == 13
LF == 10
Equals == 61

\* decoding_table
Alphabet == {43} \cup 47..57 \cup 65..90 \cup 97..122
Sextet == [c \in Alphabet |->
    CASE c \in 65..90  -> c - 65
      [] c \in 97..122 -> c - 71
      [] c \in 48..57  -> c + 4
      [] c = 43        -> 62
      [] c = 47        -> 63]

\* sextets: those of the current group; triple: the 24 bits of the last one.
NewBase64 == [stage |-> "in", skiper |-> 0, sextets |-> <<>>, triple |-> 0]

\* Shifts by 3 * 6, 2 * 6 and 6 bits, and by 8 * i bits.
Bits(q) == q[1] * 262144 + q[2] * 4096 + q[3] * 64 + q[4]
Octet(triple, i) == (triple \div <<1, 256, 65536>>[i + 1]) % 256

Answer(decoder, status, ch) == [decoder |-> decoder, status |-> status, ch |-> ch]

\* skiper counts the '=' seen so far; nothing resets it.  With more than two
\* the fourth character leaves the status of the call unset.
Fourth(d) ==
    LET triple == Bits(d.sextets)
        full == [d EXCEPT !.triple = triple, !.sextets = <<>>]
    IN CASE d.skiper = 0 -> Answer([full EXCEPT !.stage = "five"], "have_more", Octet(triple, 2))
         [] d.skiper = 1 -> Answer([full EXCEPT !.stage = "last"], "have_more", Octet(triple, 2))
         [] d.skiper = 2 -> Answer(full, "data", Octet(triple, 2))
         [] OTHER -> Answer(d, "unset", Octet(triple, 2))

\* stream(in, status)
Base64In(d, c) ==
    LET taken == [d EXCEPT !.sextets = Append(@, IF c = Equals THEN 0 ELSE Sextet[c]),
                           !.skiper = IF c = Equals THEN @ + 1 ELSE @]
    IN IF c \in {CR, LF} THEN Answer(d, "need_more", 0)
       ELSE IF d.stage # "in" THEN Answer(d, "throw", 0)
       ELSE IF Len(taken.sextets) < 4 THEN Answer(taken, "need_more", 0)
       ELSE Fourth(taken)

\* stream(status)
Base64More(d) ==
    CASE d.stage = "five" -> Answer([d EXCEPT !.stage = "six"], "have_more", Octet(d.triple, 1))
      [] d.stage = "six"  -> Answer([d EXCEPT !.stage = "in"], "data", Octet(d.triple, 0))
      [] d.stage = "last" -> Answer([d EXCEPT !.stage = "in"], "data", Octet(d.triple, 1))
      [] OTHER -> Answer(d, "throw", 0)
-----------------------------------------------------------------------------
(* quouted_printable_decoder *)

HexDigits == 48..57 \cup 65..70 \cup 97..102
toXDigit(c) == IF c >= 97 THEN c - 87 ELSE IF c >= 65 THEN c - 55 ELSE c - 48

NewQuoted == [stage |-> "passthrough", ch |-> 0]

\* In state second a character that is no digit leaves the status unset; in
\* state first one that is neither a digit nor CR is given out, and the state stays.
QuotedIn(d, c) ==
    CASE d.stage = "passthrough" /\ c # Equals ->
            Answer([d EXCEPT !.ch = c], "data", c)
      [] d.stage = "passthrough" /\ c = Equals ->
            Answer([d EXCEPT !.stage = "first"], "need_more", d.ch)
      [] d.stage = "first" /\ c = CR ->
            Answer([stage |-> "crlf", ch |-> c], "need_more", c)
      [] d.stage = "first" /\ c \in HexDigits ->
            Answer([stage |-> "second", ch |-> toXDigit(c) * 16], "need_more", toXDigit(c) * 16)
      [] d.stage = "first" /\ c \notin HexDigits \cup {CR} ->
            Answer([d EXCEPT !.ch = c], "data", c)
      [] d.stage = "second" /\ c \in HexDigits ->
            Answer([stage |-> "passthrough", ch |-> d.ch + toXDigit(c)], "data", d.ch + toXDigit(c))
      [] d.stage = "second" /\ c \notin HexDigits ->
            Answer(d, "unset", d.ch)
      [] d.stage = "crlf" /\ c = LF ->
            Answer([stage |-> "passthrough", ch |-> 0], "need_more", 0)
      [] d.stage = "crlf" /\ c # LF ->
            Answer([d EXCEPT !.ch = c], "have_more", CR)

QuotedMore(d) ==
    IF d.stage = "crlf" THEN Answer([d EXCEPT !.stage = "passthrough"], "data", d.ch)
    ELSE Answer(d, "throw", d.ch)
-----------------------------------------------------------------------------
(* What parse_form_data does with a character: stream(in, status), and      *)
(* stream(status) while the decoder has more.                               *)

NewDecoder(encoding) == IF encoding = "base64" THEN NewBase64 ELSE NewQuoted
In(encoding, d, c) == IF encoding = "base64" THEN Base64In(d, c) ELSE QuotedIn(d, c)
More(encoding, d) == IF encoding = "base64" THEN Base64More(d) ELSE QuotedMore(d)

Decoded(encoding, d, c) ==
    LET a == In(encoding, d, c)
        b == More(encoding, a.decoder)
        e == More(encoding, b.decoder)
    IN CASE a.status = "need_more" -> [decoder |-> a.decoder, bytes |-> <<>>]
         [] a.status = "data" -> [decoder |-> a.decoder, bytes |-> <<a.ch>>]
         [] a.status = "have_more" /\ b.status = "data" ->
               [decoder |-> b.decoder, bytes |-> <<a.ch, b.ch>>]
         [] a.status = "have_more" /\ b.status = "have_more" ->
               [decoder |-> e.decoder, bytes |-> <<a.ch, b.ch, e.ch>>]
-----------------------------------------------------------------------------
(* What a sender makes of its bytes (RFC 2045). *)

Letter(n) == CHOOSE c \in Alphabet : Sextet[c] = n

Group(b) ==
    LET n == Len(b)
        at(i) == IF i <= n THEN b[i] ELSE 0
    IN <<Letter(at(1) \div 4),
         Letter((at(1) % 4) * 16 + at(2) \div 16),
         IF n < 2 THEN Equals ELSE Letter((at(2) % 16) * 4 + at(3) \div 64),
         IF n < 3 THEN Equals ELSE Letter(at(3) % 64)>>

Groups(bytes) ==
    [i \in 1..((Len(bytes) + 2) \div 3) |->
        Group(SubSeq(bytes, 3 * i - 2, IF 3 * i < Len(bytes) THEN 3 * i ELSE Len(bytes)))]

HexDigit(n) == IF n < 10 THEN n + 48 ELSE n + 55
Escaped(b) == IF b \in 33..126 \ {Equals} THEN <<b>>
              ELSE <<Equals, HexDigit(b \div 16), HexDigit(b % 16)>>

\* The pieces one after the other, with a line break behind those of `breaks`.
Joined(pieces, breaks, break) ==
    FlattenSeq([i \in DOMAIN pieces |->
        IF i \in breaks THEN pieces[i] \o break ELSE pieces[i]])

Encoded(encoding, bytes, breaks) ==
    CASE encoding = "base64" -> Joined(Groups(bytes), breaks, <<CR, LF>>)
      [] encoding = "quoted_printable" ->
            Joined([i \in DOMAIN bytes |-> Escaped(bytes[i])], breaks, <<Equals, CR, LF>>)
      [] OTHER -> bytes
=============================================================================
