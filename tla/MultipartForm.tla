---------------------------- MODULE MultipartForm ----------------------------
(***************************************************************************)
(* parse_form_data of lib/multipart_form.cc: a multipart/form-data body    *)
(* comes from the stream reader one symbol per call, and becomes a list of *)
(* sections, with a temporary file for some of them; when the form is      *)
(* deleted the files go with it.                                           *)
(*                                                                         *)
(* A symbol is a character (its code) or a word: a header name, a header   *)
(* value, or the boundary, which the reader hands over as one event.  The  *)
(* peer is a browser that sends `form`; the connection may end or fail     *)
(* between any two symbols.                                                *)
(***************************************************************************)
EXTENDS ContentDecoders, FiniteSets

CONSTANT Forms    \* the forms a browser may send: sequences of parts

Ch(c) == [code |-> c, word |-> "", file |-> ""]
Word(w) == [code |-> -1, word |-> w, file |-> ""]
Disposition(name, filename) == [code |-> -2, word |-> name, file |-> filename]

Bound == [code |-> -3, word |-> "", file |-> ""]
Dash == Ch(45)
Colon == Ch(58)
Return == Ch(CR)
NewLine == Ch(LF)

\* A part: filename, ctype and encoding are "" if they are not sent, content is
\* a sequence of byte codes, breaks tells where the encoder broke the line.
IsPart(p) ==
    /\ DOMAIN p = {"name", "filename", "ctype", "encoding", "content", "breaks"}
    /\ p.encoding \in {"", "base64", "quoted_printable"}
    /\ p.content \in Seq(0..255)
    /\ p.ctype = "" => p.encoding = ""

ASSUME MultipartFormAssumption ==
    \A f \in Forms : f \in Seq(ToSet(f)) /\ \A i \in DOMAIN f : IsPart(f[i])

VARIABLES
    form,         \* what the browser sends
    input,        \* the symbols that parse_form_data has not taken yet
    objects,      \* form_data->_objects
    section,      \* the section in work
    nameState,    \* name_state
    headerName,   \* header_name
    headerValue,  \* header_value
    disk,         \* number of temporary files of the form
    outcome       \* "reading", or how the call ended

sent == <<form, input>>
header == <<nameState, headerName, headerValue>>
vars == <<form, input, objects, section, nameState, headerName, headerValue, disk, outcome>>
-----------------------------------------------------------------------------
(* What a browser sends (RFC 7578). *)

HeaderLine(name, value) == <<Word(name), Colon, value, Return, NewLine>>
Optional(name, value) == IF value = "" THEN <<>> ELSE HeaderLine(name, Word(value))

Chars(codes) == [i \in DOMAIN codes |-> Ch(codes[i])]
Body(p) == Chars(Encoded(p.encoding, p.content, p.breaks))

PartSent(p) ==
    <<Bound, Return, NewLine>>
    \o HeaderLine("content-disposition", Disposition(p.name, p.filename))
    \o Optional("content-type", p.ctype)
    \o Optional("content-transfer-encoding", p.encoding)
    \o <<Return, NewLine>> \o Body(p)

FormSent(f) ==
    FlattenSeq([i \in DOMAIN f |-> PartSent(f[i])]) \o <<Bound, Dash, Dash, Return, NewLine>>
-----------------------------------------------------------------------------
(* Steps the actions share. *)

\* region(): state says how far the headers brought the section; type where
\* its bytes go; value is filename followed by body.
NewSection(type) ==
    [type |-> type, state |-> "sync", name |-> "", filename |-> "", ctype |-> "",
     encoding |-> "", decoding |-> FALSE, decoder |-> NewQuoted, open |-> FALSE,
     body |-> <<>>, data |-> <<>>]

Init ==
    /\ form \in Forms
    /\ \E first \in {"header", "sync"}, preamble \in BOOLEAN :
          \* The boundary may have ended the request's header: get_state() is Bound.
          /\ section = NewSection(first)
          /\ input = IF first = "header" THEN Tail(FormSent(form))
                     ELSE (IF preamble THEN <<Ch(80)>> ELSE <<>>) \o FormSent(form)
    /\ objects = <<>>
    /\ nameState = "enter_sync"
    /\ headerName = <<>>
    /\ headerValue = <<>>
    /\ disk = 0
    /\ outcome = "reading"

\* get_pchar returns p, a character or the boundary.
Taken(p) ==
    /\ outcome = "reading"
    /\ input # <<>>
    /\ p = Head(input)
    /\ input' = Tail(input)
    /\ UNCHANGED form

Goes(state) == nameState' = state
Throws == outcome' = "thrown"

\* section_t::create_object: what the content type makes of a section.
TextTypes == {"text/css"}
FileTypes == {"application/octet-stream", "image/gif", "text/xml"}
IgnoredTypes == {"text/tml", "image/png", "image/jpg"}

Created(s, opens) ==
    LET typed == CASE s.ctype \in TextTypes \cup {""} -> [s EXCEPT !.type = "text"]
                   [] s.ctype \in FileTypes -> [s EXCEPT !.type = "file", !.open = opens]
                   [] s.ctype \in IgnoredTypes -> [s EXCEPT !.type = "file"]
                   [] OTHER -> s
    IN [typed EXCEPT !.state = "file",
                     !.decoding = s.ctype # "" /\ s.encoding # "",
                     !.decoder = NewDecoder(s.encoding)]
-----------------------------------------------------------------------------
(* Faulty variants of definitions below, to see the properties fail. *)

\* of EndsSection: the state of the header parser is not set back.
KeepsNameState ==
    /\ Taken(Bound)
    /\ section.type \in {"text", "file"}
    /\ objects' = Append(objects, section)
    /\ section' = NewSection("header")
    /\ UNCHANGED <<header, disk, outcome>>

\* of ConnectionEnds: a section is kept only if it has a name and no file yet.
KeepsTextOnly ==
    /\ outcome = "reading"
    /\ IF section.state = "text"
       THEN objects' = Append(objects, section) /\ outcome' = "ended" /\ section' = NewSection("sync")
       ELSE outcome' = "failed" /\ UNCHANGED <<objects, section>>
    /\ UNCHANGED <<sent, header, disk>>

\* of SecondSync: the second dash does not end the form.
GoesOn(p) ==
    /\ section.type = "header"
    /\ nameState = "second_sync"
    /\ p # Bound
    /\ Taken(p)
    /\ CASE p = Dash -> Goes("enter_sync") /\ UNCHANGED outcome
         [] p = NewLine -> Goes("name_sync") /\ UNCHANGED outcome
         [] OTHER -> Throws /\ UNCHANGED nameState
    /\ UNCHANGED <<objects, section, headerName, headerValue, disk>>

-----------------------------------------------------------------------------
(* The boundary *)

StartsForm ==
    /\ Taken(Bound)
    /\ section.type = "sync"
    /\ section' = [section EXCEPT !.type = "header"]
    /\ Goes("enter_sync")
    /\ headerName' = <<>>
    /\ headerValue' = <<>>
    /\ UNCHANGED <<objects, disk, outcome>>

BoundInHeader ==
    /\ Taken(Bound)
    /\ section.type = "header"
    /\ UNCHANGED <<objects, section, header, disk, outcome>>

EndsSection ==
    /\ Taken(Bound)
    /\ section.type \in {"text", "file"}
    /\ section.type = "text" => section.state # "sync"
    /\ objects' = Append(objects, section)
    /\ section' = NewSection("header")
    /\ Goes("enter_sync")
    /\ UNCHANGED <<headerName, headerValue, disk, outcome>>
-----------------------------------------------------------------------------
(* The end of the stream *)

\* zero_socket: a section whose header has begun is kept as it is.
ConnectionEnds ==
    /\ outcome = "reading"
    /\ IF section.state # "sync"
       THEN objects' = Append(objects, section) /\ outcome' = "ended"
       ELSE outcome' = "failed" /\ UNCHANGED objects
    /\ section' = NewSection("sync")
    /\ UNCHANGED <<sent, header, disk>>

\* error_socket: the loop ends, and nobody deletes the section in work.
SocketFails ==
    /\ outcome = "reading"
    /\ outcome' = "broken"
    /\ UNCHANGED <<sent, objects, section, header, disk>>
-----------------------------------------------------------------------------
(* A character *)

\* In front of the first boundary.
Skip(p) ==
    /\ section.type = "sync"
    /\ p # Bound
    /\ Taken(p)
    /\ UNCHANGED <<objects, section, header, disk, outcome>>

InHeader(state, p) ==
    /\ section.type = "header"
    /\ nameState = state
    /\ p # Bound
    /\ Taken(p)

EnterSync(p) ==
    /\ InHeader("enter_sync", p)
    /\ IF p \in {Dash, Return} THEN Goes("second_sync") /\ UNCHANGED outcome
       ELSE Throws /\ UNCHANGED nameState
    /\ UNCHANGED <<objects, section, headerName, headerValue, disk>>

\* Two dashes behind a boundary end the form.
SecondSync(p) ==
    /\ InHeader("second_sync", p)
    /\ CASE p = Dash -> Goes("enter_sync") /\ outcome' = "complete"
         [] p = NewLine -> Goes("name_sync") /\ UNCHANGED outcome
         [] OTHER -> Throws /\ UNCHANGED nameState
    /\ UNCHANGED <<objects, section, headerName, headerValue, disk>>

NameChar(p) ==
    /\ InHeader("name_sync", p)
    /\ p # NewLine
    /\ CASE p = Return -> UNCHANGED header
         [] p = Colon -> Goes("value_sync") /\ headerValue' = <<>> /\ UNCHANGED headerName
         [] OTHER -> headerName' = Append(headerName, p) /\ UNCHANGED <<nameState, headerValue>>
    /\ UNCHANGED <<objects, section, disk, outcome>>

\* The empty line: the section gets its type, and perhaps a temporary file.
HeaderEnds(opens) ==
    /\ InHeader("name_sync", NewLine)
    /\ section' = Created(section, opens)
    /\ disk' = disk + (IF section'.open /\ ~section.open THEN 1 ELSE 0)
    /\ UNCHANGED <<objects, header, outcome>>

ValueChar(p) ==
    /\ InHeader("value_sync", p)
    /\ p # NewLine
    /\ headerValue' = IF p = Return THEN headerValue ELSE Append(headerValue, p)
    /\ UNCHANGED <<objects, section, nameState, headerName, disk, outcome>>

\* The end of a header line; an unknown one is skipped.
HeaderLineEnds ==
    /\ InHeader("value_sync", NewLine)
    /\ LET value == headerValue[1]
           Named(n) == headerName = <<Word(n)>> /\ Len(headerValue) = 1
       IN
       section' =
         CASE Named("content-disposition") /\ value.code = -2 ->
                [section EXCEPT !.name = value.word,
                                !.filename = IF value.file = "" THEN @ ELSE value.file,
                                !.state = IF value.file = "" THEN "text" ELSE "file"]
           [] Named("content-type") ->
                [section EXCEPT !.ctype = value.word]
           [] Named("content-transfer-encoding") ->
                [section EXCEPT !.encoding = value.word]
           [] OTHER -> section
    /\ Goes("name_sync")
    /\ headerName' = <<>>
    /\ UNCHANGED <<objects, headerValue, disk, outcome>>

TextChar(p) ==
    /\ section.type = "text"
    /\ p # Bound
    /\ Taken(p)
    /\ LET d == Decoded(section.encoding, section.decoder, p.code) IN
       section' = IF section.decoding
                  THEN [section EXCEPT !.decoder = d.decoder, !.body = @ \o d.bytes]
                  ELSE [section EXCEPT !.body = Append(@, p.code)]
    /\ UNCHANGED <<objects, header, disk, outcome>>

\* Without an open file the bytes are dropped.  What a decoder gives goes to
\* the file and to value, which holds the name of the uploaded file.
FileChar(p) ==
    /\ section.type = "file"
    /\ p # Bound
    /\ Taken(p)
    /\ LET d == Decoded(section.encoding, section.decoder, p.code) IN
       section' = CASE ~section.open -> section
                    [] section.open /\ section.decoding ->
                         [section EXCEPT !.decoder = d.decoder,
                                         !.body = @ \o d.bytes, !.data = @ \o d.bytes]
                    [] OTHER -> [section EXCEPT !.data = Append(@, p.code)]
    /\ UNCHANGED <<objects, header, disk, outcome>>
-----------------------------------------------------------------------------
\* Number of sections with a file.
Opened(sections) == Cardinality({i \in DOMAIN sections : sections[i].open})

\* The caller deletes the form: every section in it unlinks its file.
DeleteForm ==
    /\ outcome \in {"complete", "ended", "failed", "broken"}
    /\ disk' = disk - Opened(objects)
    /\ objects' = <<>>
    /\ outcome' = "deleted"
    /\ UNCHANGED <<sent, section, header>>

\* One turn of the loop that finds a symbol.
Turn ==
    \/ StartsForm \/ BoundInHeader \/ EndsSection
    \/ \E p \in {input[i] : i \in {1} \cap DOMAIN input} :
          \/ Skip(p)
          \/ EnterSync(p) \/ SecondSync(p) \/ NameChar(p) \/ ValueChar(p)
          \/ TextChar(p) \/ FileChar(p)
    \/ \E opens \in BOOLEAN : HeaderEnds(opens)
    \/ HeaderLineEnds

Next == Turn \/ ConnectionEnds \/ SocketFails \/ DeleteForm

Spec == Init /\ [][Next]_vars

\* The thread of the session runs; the browser sends what it has to send.
FairSpec == Spec /\ WF_vars(Turn)
-----------------------------------------------------------------------------
(* Properties *)

\* Section s holds what part p brought: the names, and all of its bytes, decoded,
\* in its value or in its file.
Holds(s, p) ==
    /\ s.name = p.name
    /\ s.filename = p.filename
    /\ s.ctype = p.ctype
    /\ s.type = IF p.ctype \in TextTypes \cup {""} THEN "text" ELSE "file"
    /\ s.type = "text" => s.body = p.content
    /\ s.open => s.data = p.content

Bounds(symbols) == Cardinality({i \in DOMAIN symbols : symbols[i] = Bound})

\* The parts whose closing boundary was taken.
Received == IF Bounds(input) > Len(form) THEN 0 ELSE Len(form) - Bounds(input)

\* As soon as its closing boundary is taken every part sits in the form, in
\* order, and nothing else does but, when the connection ends inside a part, the
\* beginning of that one; a form is complete when all parts are in.
KeptInOrder ==
    /\ Len(objects) = Received + (IF outcome = "ended" THEN 1 ELSE 0)
    /\ \A i \in 1..Received : Holds(objects[i], form[i])
    /\ outcome = "complete" => Received = Len(form) /\ input = <<Return, NewLine>>

TypesIn(types) == \A i \in DOMAIN form : form[i].ctype \in types

\* Parts are kept in order in every form whose content types parse_form_data knows.
PartsInOrder ==
    TypesIn({""} \cup TextTypes \cup FileTypes \cup IgnoredTypes) /\ outcome # "deleted"
        => KeptInOrder

\* At every moment the section in work, and the last one of a form that ended
\* early, holds the first bytes of its part, decoded, and nothing else: neither
\* padding, line breaks, nor bytes that a decoder still keeps.
StartOfPart(s) ==
    Received < Len(form) =>
        LET p == form[Received + 1] IN
        /\ s.type = "text" => IsPrefix(s.body, p.content)
        /\ s.type = "file" => IsPrefix(s.data, p.content)

PartialIsPrefix ==
    TypesIn({""} \cup TextTypes \cup FileTypes \cup IgnoredTypes) =>
        /\ outcome \in {"reading", "broken"} => StartOfPart(section)
        /\ outcome = "ended" => StartOfPart(objects[Len(objects)])

\* create_object ignores attachments of html, png and jpeg, and so keeps to the
\* parts around them (the comment in multipart_form.cc:543).
AttachmentsIgnored ==
    TypesIn({"", "text/html", "image/png", "image/jpeg"}) /\ outcome # "deleted" => KeptInOrder

\* What a browser sends never runs into "Sync error 1" or "Sync error 2", not
\* even behind a part of an unknown type.
NoSyncError == outcome # "thrown"

\* parse_form_data keeps what the browser sends: every part whole and in its place, at
\* every moment no more than its beginning, and never at odds with the boundaries.
FormIsKept == PartsInOrder /\ PartialIsPrefix /\ NoSyncError

\* A temporary file belongs to a section of the form or to the one in work, so
\* that it goes with the form; only a socket error leaves one behind.
FilesHaveOwner ==
    /\ disk = Opened(objects) + (IF section.open THEN 1 ELSE 0)
    /\ outcome \in {"complete", "ended", "failed"} => ~section.open

\* The call returns when a whole form has come, without waiting for more.
FormReturns ==
    TypesIn({""} \cup TextTypes \cup FileTypes \cup IgnoredTypes) ~> outcome # "reading"
=============================================================================
