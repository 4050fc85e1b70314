----------------------------- MODULE ResponseFields -----------------------------
(***************************************************************************)
(* What the headers of a connection say: the members of response_holder    *)
(* that outlive a request (session.h 102-142), the header built from them  *)
(* (lib/session.cc 39-170) and the ways the actions send it or return it   *)
(* (lib/lib.cc 86-154, actions/).                                          *)
(*                                                                         *)
(* One connection, one request a step. The loop sends what an action       *)
(* returns and resets the members (release()); what an action has sent     *)
(* itself, returning nullptr, leaves them as they are.                     *)
(***************************************************************************)
EXTENDS Naturals, Sequences

CONSTANT Unset      \* what _code is before anything is assigned to it

ASSUME UnsetAssumption == Unset \notin {200, 201, 308, 404}

\* What a request may come to: an action with the turn it takes.
FileSent == {"file", "tracked, file", "touch, file"}
FileMissing == {"no file", "tracked, no file", "touch, no file"}
NotFound == {"no route", "no route, body", "no icon", "no script", "script failed",
             "proxy, no url"}
Pages == FileSent \cup FileMissing \cup NotFound \cup
         {"listing", "no listing", "no listing, file", "form", "admin", "touch", "icon",
          "script", "no pipe", "proxy page", "proxied", "not proxied"}

\* The status that tells the client what became of its request.
Status(p) ==
    IF p \in FileMissing \cup NotFound \cup {"no listing"} THEN 404
    ELSE IF p = "form" THEN 201
    ELSE IF p = "touch" THEN 308
    ELSE 200

VARIABLES
    page,           \* what the last request came to, "none" before the first
    code,           \* _code
    validator,      \* etag (and _max_age) are set
    cookie,         \* _cookies holds one
    size,           \* _header_size is not 0
    header,         \* _header
    answers,        \* the headers sent for the last request
    open,           \* the connection
    kept            \* what requests came to since the last release(), or the start

fields == <<code, validator, cookie, size, header>>
rvars == <<page, fields, answers, open, kept>>

\* prepare_header(), with the code it is given; redirect_to() leaves out the etag.
Prepared(p, c, v, k) == [page |-> p, code |-> c, validator |-> v, cookie |-> k]
Headers == [page : Pages \cup {"none"}, code : {Unset, 200, 201, 308, 404},
            validator : BOOLEAN, cookie : BOOLEAN]

FieldsInit ==
    /\ page = "none" /\ answers = <<>> /\ open = TRUE
    /\ code = Unset /\ validator = FALSE /\ cookie = FALSE
    /\ size = FALSE /\ header = Prepared("none", Unset, FALSE, FALSE)
    /\ kept = {"none"}
-----------------------------------------------------------------------------
(* Faulty variants of definitions below, to see the properties fail. *)

\* of Released: the code of the last page stays.
KeepsCode(k) == code' = code /\ validator' = FALSE /\ cookie' = FALSE /\ size' = FALSE
\* of AfterFile: the size of the header that was sent stays.
KeepsSize == TRUE
-----------------------------------------------------------------------------
(* The session's loop *)

\* With k for whether there is a cookie.
Released(k) == code' = 200 /\ validator' = FALSE /\ cookie' = FALSE /\ size' = FALSE

\* The response is returned: its header, if it has a size, is sent, and the members reset.
Returns(sent, h, hasSize, k) ==
    /\ header' = h
    /\ answers' = IF hasSize THEN Append(sent, h) ELSE sent
    /\ Released(k)
    /\ kept' = {}
    /\ UNCHANGED open

\* nullptr: what was sent was sent, and nothing is reset.
Keeps(sent, p) ==
    /\ answers' = sent
    /\ kept' = kept \cup {p}
    /\ UNCHANGED <<cookie, open>>
-----------------------------------------------------------------------------
(* response_send_file *)

MissStatus == 404
AfterFile == FALSE

FileHeader(p) == Prepared(p, 200, validator, cookie)
MissHeader(p) == Prepared(p, MissStatus, validator, cookie)

\* The header of a file is not built in _header.
SendFile(p) ==
    /\ open /\ p \in FileSent /\ page' = p
    /\ code' = 200 /\ size' = AfterFile
    /\ UNCHANGED <<validator, header>>
    /\ Keeps(<<FileHeader(p)>>, p)

SendMiss(p) ==
    /\ open /\ p \in FileMissing /\ page' = p
    /\ code' = MissStatus /\ size' = TRUE
    /\ header' = MissHeader(p)
    /\ UNCHANGED validator
    /\ Keeps(<<MissHeader(p)>>, p)
-----------------------------------------------------------------------------
(* Actions *)

\* page_not_found() builds the header of the page that is returned.
ReturnMiss(p) ==
    /\ open /\ p \in NotFound \ {"no route, body"} /\ page' = p
    /\ Returns(<<>>, MissHeader(p), TRUE, cookie)

\* A body nobody will read: the page is sent and the connection closed.
BreaksOff ==
    /\ open /\ page' = "no route, body"
    /\ header' = MissHeader("no route, body")
    /\ answers' = <<header'>>
    /\ code' = MissStatus /\ size' = TRUE
    /\ open' = FALSE
    /\ UNCHANGED <<validator, cookie, kept>>

\* The header is built with a literal, or with the code just assigned.
ReturnPage(p) ==
    /\ open /\ p \in {"listing", "form", "admin", "proxy page"} /\ page' = p
    /\ Returns(<<>>, Prepared(p, Status(p), validator, cookie), TRUE, cookie)

\* The page of a path that is no directory is sent, and the response returned.
ReturnAfterSend(p) ==
    /\ open /\ p \in {"no listing", "no listing, file"} /\ page' = p
    /\ IF p = "no listing"
          THEN Returns(<<MissHeader(p)>>, MissHeader(p), TRUE, cookie)
          ELSE Returns(<<FileHeader(p)>>, header, AfterFile, cookie)

\* add_cookie() and redirect_to()
Redirect ==
    /\ open /\ page' = "touch"
    /\ Returns(<<>>, Prepared("touch", 308, FALSE, TRUE), TRUE, TRUE)

\* The output of a script, under the code that is there.
ReturnOutput ==
    /\ open /\ page' = "script"
    /\ Returns(<<>>, Prepared("script", code, validator, cookie), TRUE, cookie)

\* No pipes, no child or no stream: the response is returned as it was found.
ReturnUnfilled ==
    /\ open /\ page' = "no pipe"
    /\ Returns(<<>>, header, size, cookie)

\* The icon: sent under the code that is there, with a validator that stays.
SendIcon ==
    /\ open /\ page' = "icon"
    /\ validator' = TRUE /\ size' = TRUE
    /\ header' = Prepared("icon", code, TRUE, cookie)
    /\ UNCHANGED code
    /\ Keeps(<<header'>>, "icon")

\* The host's own code goes to the client; 200 stands for it here.
Proxied ==
    /\ open /\ page' = "proxied"
    /\ Returns(<<FileHeader("proxied")>>, header, FALSE, cookie)

\* No connection to the host, or no answer: none for the client.
NotProxied ==
    /\ open /\ page' = "not proxied"
    /\ Returns(<<>>, header, FALSE, cookie)

FieldsNext ==
    \/ \E p \in Pages : \/ SendFile(p) \/ SendMiss(p) \/ ReturnMiss(p)
                        \/ ReturnPage(p) \/ ReturnAfterSend(p)
    \/ BreaksOff \/ Redirect \/ ReturnOutput \/ ReturnUnfilled \/ SendIcon
    \/ Proxied \/ NotProxied

FieldsSpec == FieldsInit /\ [][FieldsNext]_rvars
-----------------------------------------------------------------------------
(* Properties *)

\* The members keep to their domains, and an answer is a header.
FieldsTypeOK ==
    /\ page \in Pages \cup {"none"}
    /\ code \in {Unset, 200, 404}
    /\ validator \in BOOLEAN /\ cookie \in BOOLEAN /\ size \in BOOLEAN
    /\ header \in Headers
    /\ answers \in Seq(Headers)
    /\ open \in BOOLEAN
    /\ kept \subseteq Pages \cup {"none"}

Sent == {answers[i] : i \in 1 .. Len(answers)}

\* The status is that of the page, except for the icon and the output of a script:
\* they go out under the code that was there, which may be that of a page not found
\* earlier, or not set at all.
StatusIsItsOwn ==
    [][\A h \in Sent' :
          h.page = page' /\ h.code # Status(page') =>
              /\ page' \in {"icon", "script"}
              /\ kept \cap (FileMissing \cup {"none"}) # {}]_rvars

\* Only the icon is to be cached for days. Its validator is on another page when
\* nothing was released between the two.
ValidatorIsItsOwn ==
    [][\A h \in Sent' :
          h.page = page' /\ h.validator => page' = "icon" \/ "icon" \in kept]_rvars

\* What release() does not reset reaches no other page than these.
HeaderIsItsOwn == StatusIsItsOwn /\ ValidatorIsItsOwn

\* A cookie is set by the answer to the request that asks for it, and by no other of
\* the connection.
CookieIsItsOwn ==
    \A h \in Sent : h.page = page => (h.cookie <=> page = "touch")

\* Each request has one answer, and it is its own: requests and answers stay in step.
\* But a path that is no directory has two, a host that does not answer none, and a
\* script without pipes whatever is there.
AnsweredOnce ==
    page \notin {"none", "no listing", "not proxied", "no pipe"} =>
        Len(answers) = 1 /\ answers[1].page = page

\* Requests and answers stay in step, the cookies they set included.
AnswerIsItsOwn == CookieIsItsOwn /\ AnsweredOnce
=============================================================================
