----------------------------- MODULE RequestHeader -----------------------------
(***************************************************************************)
(* The header of a request (lib/http_request.cc 395-577, 629-684) and what *)
(* the request loop takes from the reader afterwards (lib/session.cc       *)
(* 183-300): several requests come one after the other on a connection,    *)
(* and where one ends is where the next begins.                            *)
(*                                                                         *)
(* The stream is a sequence of symbols: a word stands for a request line,  *)
(* the name of a field or a value.  The reader is the ideal one; what it   *)
(* does with a boundary that the network cuts is in StreamReader.          *)
(***************************************************************************)
EXTENDS Integers, FiniteSets, SequencesExt

CONSTANTS
    FirstLines,     \* header lines of the first request on a connection
    NextLines,      \* header lines of those behind it
    MaxLines,       \* bound on the header lines of the first request,
    MaxNextLines,   \* on those of each behind it,
    MaxNext         \* and on the requests behind it

\* The paths of a request line, by what the action of the route does.
PathsSent == {"page", "missing", "cgi", "form"}

CR == "\r"
LF == "\n"
Colon == ":"
Blank == "blank"
Bound == "--bound"      \* two dashes and the boundary of a form
Closing == "--"         \* the two dashes behind the last boundary

LineKinds == {"host", "port", "length", "cookie", "type", "empty", "nocolon", "fold",
              "spaced", "lf", "emptylf", "barecr"}

ASSUME HeaderAssumption ==
    /\ FirstLines \cup NextLines \subseteq LineKinds
    /\ MaxLines \in Nat /\ MaxNextLines \in Nat /\ MaxNext \in Nat

\* The lines a client may send.  "lid" is the cookie of a tracked visitor.
LineOf(kind) ==
    CASE kind = "host"    -> <<"host", Colon, Blank, "a", CR, LF>>
      [] kind = "port"    -> <<"host", Colon, "b", Colon, "8080", CR, LF>>
      [] kind = "length"  -> <<"content-length", Colon, Blank, "2", CR, LF>>
      [] kind = "cookie"  -> <<"cookie", Colon, Blank, "lid", CR, LF>>
      [] kind = "type"    -> <<"content-type", Colon, Blank, "form-data", CR, LF>>
      [] kind = "empty"   -> <<"referer", Colon, CR, LF>>
      [] kind = "nocolon" -> <<"host", CR, LF>>
      [] kind = "fold"    -> <<Blank, "c", CR, LF>>
      [] kind = "spaced"  -> <<"x", Blank, "y", Colon, "d", CR, LF>>
      [] kind = "lf"      -> <<"host", Colon, "g", LF>>
      [] kind = "emptylf" -> <<"referer", Colon, LF>>
      [] kind = "barecr"  -> <<"host", Colon, "e", CR, "f", CR, LF>>

FormBody == <<Bound, CR, LF, "part", CR, LF, Bound, Closing, CR, LF>>
BodyOf(req) == IF req.body = "none" THEN <<>>
               ELSE IF req.body = "form" THEN FormBody ELSE <<"page", LF>>

Sent(req) == <<req.path, CR, LF>>
             \o FlattenSeq([k \in DOMAIN req.lines |-> LineOf(req.lines[k])])
             \o <<CR, LF>> \o BodyOf(req)

HasLine(req, kind) == \E k \in DOMAIN req.lines : req.lines[k] = kind

\* A body comes with the field that announces it; a folded line follows another.
Meant(req) ==
    /\ req.body = "data" <=> HasLine(req, "length")
    /\ req.body = "form" <=> HasLine(req, "type")
    /\ req.lines # <<>> => req.lines[1] # "fold"
Requests(kinds, n) ==
    {r \in [path : PathsSent, lines : SeqOf(kinds, n),
            body : {"none", "data", "form"}] : Meant(r)}

VARIABLES
    requests,   \* what the client sends
    stream,     \* the same, symbol by symbol
    pos,        \* the symbols read
    state,      \* state of parse_http_header
    wrote,      \* dst_ptr # header
    name,       \* the string at the start of header
    val,        \* the string at val
    inVal,      \* dst_ptr is behind val
    host,       \* http_request_t::_host
    port,       \* port
    length,     \* _content_lenght
    cookie,     \* the cookie "lid" is in _cookies
    type,       \* _content_type
    bounded,    \* the reader has a boundary
    answered,   \* the requests that got through: the fields and where they end
    path,       \* url.path
    phase       \* where the session is: "line", "header", "action", or how it ended

input == <<requests, stream>>
scan == <<state, wrote, name, val, inVal>>
fields == <<host, port, length, cookie, type, bounded>>
hvars == <<input, pos, scan, fields, answered, path, phase>>

HeaderInit ==
    /\ \E first \in Requests(FirstLines, MaxLines) :
          \E next \in SeqOf(Requests(NextLines, MaxNextLines), MaxNext) :
             requests = <<first>> \o next
    /\ stream = FlattenSeq([k \in DOMAIN requests |-> Sent(requests[k])])
    /\ pos = 0
    /\ state = "name" /\ wrote = FALSE /\ name = <<>> /\ val = <<>> /\ inVal = FALSE
    /\ host = "" /\ port = "0" /\ length = "0" /\ cookie = FALSE /\ type = ""
    /\ bounded = FALSE
    /\ answered = <<>>
    /\ path = ""
    /\ phase = "line"

Read == pos' = pos + 1
More == pos < Len(stream)
ch == stream[pos + 1]

\* get_pchar reports a boundary instead of the line end in front of it.
AtBound == bounded /\ ch = CR /\ pos + 3 <= Len(stream) /\ stream[pos + 3] = Bound
-----------------------------------------------------------------------------
(* Faulty variants of definitions below, to see the properties fail. *)

\* of Prepare: the cookies of the request before are kept.
KeepsCookies ==
    /\ length' = "0"
    /\ port' = "0"
    /\ UNCHANGED cookie
    /\ UNCHANGED <<host, type, bounded>>

-----------------------------------------------------------------------------
(* parse_request: the request line *)

Prepare ==
    /\ length' = "0"
    /\ cookie' = FALSE
    /\ port' = "0"
    /\ UNCHANGED <<host, type, bounded>>

LineEndsAt == CHOOSE i \in pos + 1 .. Len(stream) :
                 stream[i] = LF /\ \A j \in pos + 1 .. i - 1 : stream[j] # LF
LineIsThere == \E i \in pos + 1 .. Len(stream) : stream[i] = LF

\* parse_http_request looks at the start of the line; RequestTarget has the rest.
RequestLine ==
    /\ phase = "line" /\ LineIsThere
    /\ pos' = LineEndsAt
    /\ IF ch \in PathsSent
          THEN /\ path' = ch
               /\ Prepare
               /\ state' = "name" /\ wrote' = FALSE /\ inVal' = FALSE
               /\ name' = <<>> /\ val' = <<>>
               /\ phase' = "header"
          ELSE /\ phase' = "refused"
               /\ UNCHANGED <<path, fields, scan>>
    /\ UNCHANGED <<input, answered>>

\* The client has sent all and the reader reports the end, an error or, after the
\* time limit, nothing: parse_request and parse_http_header tell the loop to stop.
StreamEnds ==
    /\ phase \in {"line", "header"}
    /\ ~More \/ (phase = "line" /\ ~LineIsThere)
    /\ phase' = "ended"
    /\ UNCHANGED <<input, pos, scan, fields, answered, path>>
-----------------------------------------------------------------------------
(* parse_http_header: one action per branch of the switch *)

InHeader(here) == phase = "header" /\ More /\ ~AtBound /\ state \in here

\* *dst_ptr++ = c.  At the start of the line the string there begins anew.
Store(c) ==
    /\ wrote' = TRUE
    /\ name' = IF inVal THEN name ELSE IF wrote THEN Append(name, c) ELSE <<c>>
    /\ val' = IF inVal THEN Append(val, c) ELSE val

\* In a name letters are made small by setting a bit, which turns line ends into
\* other characters.
Small(c) == CASE c = CR -> "-" [] c = LF -> "*" [] OTHER -> c

\* The null character behind a name or a value.
StoreNul == wrote' = TRUE /\ name' = (IF wrote THEN name ELSE <<>>) /\ UNCHANGED val

ColonEndsName ==
    /\ InHeader({"enter", "name"}) /\ ch = Colon
    /\ StoreNul
    /\ state' = "delimiter"
    /\ Read
    /\ UNCHANGED <<input, inVal, fields, answered, path, phase>>

\* The state stays "enter" until the colon.
NameChar ==
    /\ InHeader({"enter", "name"})
    /\ IF state = "name" THEN ch # Colon ELSE ch \notin {Colon, Blank, CR}
    /\ Store(Small(ch))
    /\ Read
    /\ UNCHANGED <<input, state, inVal, fields, answered, path, phase>>

\* A blank before the colon takes dst_ptr behind the line before: at the start of
\* a line its name stays, else the beginning of it is overwritten.
BlankContinues ==
    /\ InHeader({"enter"}) /\ ch = Blank
    /\ state' = "delimiter"
    /\ wrote' = TRUE
    /\ name' = IF wrote THEN Append(name, "...") ELSE name
    /\ Read
    /\ UNCHANGED <<input, val, inVal, fields, answered, path, phase>>

ReturnBeforeColon ==
    /\ InHeader({"enter"}) /\ ch = CR
    /\ state' = "body"
    /\ Read
    /\ UNCHANGED <<input, wrote, name, val, inVal, fields, answered, path, phase>>

SkipBlank ==
    /\ InHeader({"delimiter"}) /\ ch = Blank
    /\ Read
    /\ UNCHANGED <<input, scan, fields, answered, path, phase>>

\* Whatever comes is the first character of the value, a line end too.
ValueBegins ==
    /\ InHeader({"delimiter"}) /\ ch \notin {Blank, LF}
    /\ state' = "value"
    /\ val' = <<ch>>
    /\ inVal' = TRUE
    /\ wrote' = TRUE
    /\ Read
    /\ UNCHANGED <<input, name, fields, answered, path, phase>>

ValueChar ==
    /\ InHeader({"value"}) /\ ch \notin {CR, LF}
    /\ Store(ch)
    /\ Read
    /\ UNCHANGED <<input, state, inVal, fields, answered, path, phase>>

ValueEnds ==
    /\ InHeader({"value"}) /\ ch = CR
    /\ StoreNul
    /\ state' = "finish"
    /\ Read
    /\ UNCHANGED <<input, inVal, fields, answered, path, phase>>

\* throw "Line end error", which nobody catches.
Throws ==
    /\ InHeader({"finish"}) /\ ch # LF
    /\ phase' = "thrown"
    /\ Read
    /\ UNCHANGED <<input, scan, fields, answered, path>>

\* Everything up to the line end is thrown away.
BodyChar ==
    /\ InHeader({"body"}) /\ ch # LF
    /\ Read
    /\ UNCHANGED <<input, scan, fields, answered, path, phase>>
-----------------------------------------------------------------------------
(* The end of a line: the switch over the names *)

Number(sym) == IF sym \in {"2", "8080"} THEN sym ELSE "0"        \* atoi

Field(n, v) ==
    LET colons == {i \in DOMAIN v : v[i] = Colon /\ i < Len(v)}
    IN  /\ host' = IF n = <<"host">> THEN v[1] ELSE host
        /\ port' = IF n = <<"host">> /\ colons # {} THEN Number(v[Min(colons) + 1])
                   ELSE port
        /\ length' = IF n = <<"content-length">> THEN Number(v[1]) ELSE length
        /\ cookie' = (cookie \/ (n = <<"cookie">> /\ v[1] = "lid"))
        /\ type' = IF n = <<"content-type">> THEN v[1] ELSE type
        /\ bounded' = (bounded \/ (n = <<"content-type">> /\ v[1] = "form-data"))

\* When the line has no value, val points to what is left of an earlier one or to
\* what this line has written over it.
Values(v) == IF inVal THEN {v} ELSE {v, <<"junk">>}

\* The line n: v is complete; the next one is read in state s.
LineDone(n, v, s) ==
    /\ Field(n, v)
    /\ name' = n
    /\ val' = v
    /\ state' = s
    /\ wrote' = FALSE
    /\ inVal' = FALSE
    /\ Read
    /\ UNCHANGED <<input, answered, path, phase>>

\* Faulty variant of EndOfLine: a line always begins with a name, so that the empty
\* line is one.
BeginsWithName ==
    /\ InHeader({"finish"}) /\ ch = LF
    /\ \E v \in Values(val) : LineDone(name, v, "name")

EndOfLine ==
    /\ InHeader({"finish"}) /\ ch = LF
    /\ \E v \in Values(val) : LineDone(name, v, "enter")

\* A line end without a return belongs to the value, and the next line too.
BareLineEnd ==
    /\ InHeader({"delimiter", "value"}) /\ ch = LF
    /\ \/ state = "delimiter" /\ LineDone(name, <<LF>>, "value")
       \/ state = "value" /\ inVal /\ LineDone(name, Append(val, LF), "value")
       \/ /\ state = "value" /\ ~inVal
          /\ \E v \in Values(val) :
                LineDone(IF wrote THEN Append(name, LF) ELSE <<LF>>, v, "value")

\* A line without a colon; the next one is thrown away.
EndOfName ==
    /\ InHeader({"body"}) /\ ch = LF /\ wrote
    /\ \E v \in Values(val) : LineDone(name, v, "body")

HeaderEnds ==
    /\ InHeader({"body"}) /\ ch = LF /\ ~wrote
    /\ phase' = "action"
    /\ Read
    /\ UNCHANGED <<input, scan, fields, answered, path>>

\* The boundary behind the empty line of a form's header ends it, and is read.
HeaderEndsAtBound ==
    /\ phase = "header" /\ More /\ AtBound
    /\ phase' = "action"
    /\ pos' = pos + 3
    /\ UNCHANGED <<input, scan, fields, answered, path>>
-----------------------------------------------------------------------------
(* The request loop: what the action reads of the body *)

Got == [path |-> path, host |-> host, port |-> port, length |-> length,
        cookie |-> cookie, type |-> type, ends |-> pos]

AnswerWith(taken, next) ==
    /\ phase = "action"
    /\ answered' = Append(answered, Got)
    /\ pos' = pos + taken
    /\ phase' = next
    /\ UNCHANGED <<input, scan, fields, path>>

Page == path = "page" /\ AnswerWith(0, "line")

\* page_not_found; the connection is given up when a body follows.
NotFound == path = "missing" /\ AnswerWith(0, IF length = "0" THEN "line" ELSE "closed")

\* Content-Length bytes, unless the stream ends before.
Cgi ==
    /\ path = "cgi"
    /\ AnswerWith(Min({IF length = "2" THEN 2 ELSE 0, Len(stream) - pos}), "line")

\* A visitor without the cookie gets another page, and the loop goes on.
Tracked == path = "form" /\ ~cookie /\ AnswerWith(0, "line")

\* parse_form_data reads up to the two dashes of the last boundary.
UpToClosing ==
    LET closings == {i \in pos + 1 .. Len(stream) : stream[i] = Closing}
    IN  IF closings = {} THEN Len(stream) - pos ELSE Min(closings) - pos
Form ==
    /\ path = "form" /\ cookie
    /\ AnswerWith(IF type = "form-data" THEN UpToClosing ELSE 0, "line")
-----------------------------------------------------------------------------
HeaderNext ==
    \/ RequestLine \/ StreamEnds
    \/ ColonEndsName \/ NameChar \/ BlankContinues \/ ReturnBeforeColon
    \/ SkipBlank \/ ValueBegins \/ ValueChar \/ ValueEnds \/ Throws \/ BodyChar
    \/ EndOfLine \/ BareLineEnd \/ EndOfName \/ HeaderEnds \/ HeaderEndsAtBound
    \/ Page \/ NotFound \/ Cgi \/ Tracked \/ Form

HeaderSpec == HeaderInit /\ [][HeaderNext]_hvars
-----------------------------------------------------------------------------
(* Properties *)

\* Each header field has a name, a value and a line of its own.
Plain(r) == r.lines # <<>> /\ ToSet(r.lines) \subseteq {"host", "port", "length", "cookie", "type"}

\* Something of the request is still in the reader when the next one is read: a
\* body that the action does not take, and the line end behind the last boundary.
LeavesBytes(r) == r.body # "none" /\ ~(r.path = "cgi" /\ r.body = "data")

\* What the k-th request says.  A host and a type that are not named are those of
\* the request before.
LastLine(k, kinds) ==
    LET of == {j \in DOMAIN requests[k].lines : requests[k].lines[j] \in kinds}
    IN  IF of = {} THEN "none" ELSE requests[k].lines[Max(of)]
HostSaid(k) ==
    LET saying == {j \in 1 .. k : LastLine(j, {"host", "port"}) # "none"}
    IN  IF saying = {} THEN ""
        ELSE IF LastLine(Max(saying), {"host", "port"}) = "host" THEN "a" ELSE "b"
Starts(k) == Len(FlattenSeq([j \in 1 .. k - 1 |-> Sent(requests[j])]))
Said(k) ==
    LET r == requests[k] IN
    [path |-> r.path,
     host |-> HostSaid(k),
     port |-> IF HasLine(r, "port") THEN "8080" ELSE "0",
     length |-> IF HasLine(r, "length") THEN "2" ELSE "0",
     cookie |-> HasLine(r, "cookie"),
     type |-> IF \E j \in 1 .. k : HasLine(requests[j], "type") THEN "form-data" ELSE "",
     ends |-> Starts(k) + Len(Sent(r)) - Len(BodyOf(r)) + (IF r.body = "form" THEN 1 ELSE 0)]

\* On a connection that carries plain requests whose bodies are taken whole, each
\* request is understood as it was sent, none of its fields is one of the request
\* before, and the next is read from where it ends.
AnsweredAsSent ==
    \A k \in DOMAIN answered :
        (\A j \in 1 .. k : j \in DOMAIN requests => Plain(requests[j]))
        /\ (\A j \in 1 .. k - 1 : ~LeavesBytes(requests[j]))
        => k \in DOMAIN requests /\ answered[k] = Said(k)

\* The header as it is read ends later than it was sent, or earlier: it has no line
\* at all, an empty value or a bare line feed in the last one, a line without a colon that is the first
\* or is not the last.
Misread(r) ==
    LET n == Len(r.lines) IN
    \/ n = 0
    \/ r.lines[n] \in {"empty", "lf", "emptylf"}
    \/ \E k \in 1 .. n : r.lines[k] = "nocolon" /\ (k = 1 \/ k < n)

\* A request is lost, refused, or waited for in vain only when the end of a header
\* was misread, that request's or an earlier one's, or a body left in the reader;
\* other odd lines cost no more than themselves and the one behind.  The parser
\* throws only on a return inside a value.
EndsForAReason ==
    /\ phase \in {"ended", "refused", "closed"} /\ Len(answered) < Len(requests) =>
          \E j \in 1 .. Len(answered) + 1 :
             Misread(requests[j]) \/ (j <= Len(answered) /\ LeavesBytes(requests[j]))
    /\ phase = "thrown" => \E j \in DOMAIN requests : HasLine(requests[j], "barecr")
=============================================================================
