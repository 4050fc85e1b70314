---------------------------- MODULE PageActions ----------------------------
(***************************************************************************)
(* The request loop of a session (lib/session.cc) and the actions that     *)
(* answer requests (lib/lib.cc, actions/).  A session answers with its     *)
(* response_holder, whose body is a block of the heap shared by all        *)
(* threads.  All threads share the favicon as well (static_pages.cc),      *)
(* without a lock.  The proxy is in ProxyAction, which completes this      *)
(* module to a specification.                                              *)
(*                                                                         *)
(* new gives any free block, so a pointer kept beyond delete may come to   *)
(* point to the body of another session.                                   *)
(***************************************************************************)
EXTENDS Integers, FiniteSets

CONSTANTS
    Sessions,  \* sessions, each with its thread
    Blocks,    \* blocks of the heap
    Hosts,     \* the urls a form can name
    None       \* nullptr, and a form without a url

ASSUME NoneIsNothing == None \notin Sessions \cup Blocks \cup Hosts

NoForm == "null"                              \* form_data == nullptr
Free == <<None, "free">>
Icon == <<None, "favicon">>


VARIABLES
    place,         \* where the session's thread is
    req,           \* the action of its request
    body,          \* response_holder._body; _body_size is that of the body last assigned
    header,        \* response_holder._header_size # 0
    form_data,     \* request.form_data: NoForm, or the url in the form
    heap,          \* a block is Free, or filled for a session's request: <<s, action>>
    favicon_buff,
    favicon_size,  \* 0, -1 for a missing file, 1 for any size
    loading,       \* ptr in alloc_file, for the favicon
    wrong,         \* history: the first action to send or delete a body not its own
    ended          \* why the process ended

response == <<body, header>>
request == <<place, req, response, form_data>>
favicon == <<favicon_buff, favicon_size, loading>>
memory == <<heap, wrong>>
pageVars == <<request, favicon, memory, ended>>

PageInit ==
    /\ place = [s \in Sessions |-> "request"]
    /\ req = [s \in Sessions |-> "none"]
    /\ body = [s \in Sessions |-> None]
    /\ header = [s \in Sessions |-> FALSE]
    /\ form_data = [s \in Sessions |-> NoForm]
    /\ heap = [b \in Blocks |-> Free]
    /\ favicon_buff = None
    /\ favicon_size = 0
    /\ loading = [s \in Sessions |-> None]
    /\ wrong = "none"
    /\ ended = "no"
-----------------------------------------------------------------------------
(* The parts actions are made of. *)

Up == ended = "no"
At(s, p) == Up /\ place[s] = p
Goes(s, p) == place' = [place EXCEPT ![s] = p]
Holds(s, b, h) == body' = [body EXCEPT ![s] = b] /\ header' = [header EXCEPT ![s] = h]
EndsWith(cause) == ended' = cause

\* The request is done, and the session reads the next one.
Done(s) == Goes(s, "request") /\ req' = [req EXCEPT ![s] = "none"]

\* The session is deleted, response_holder and request with it.
Gone(s) ==
    /\ Goes(s, "gone")
    /\ req' = [req EXCEPT ![s] = "none"]
    /\ Holds(s, None, FALSE)
    /\ form_data' = [form_data EXCEPT ![s] = NoForm]

\* The session reads a request that its route gives to action k.
Asks(s, k) == At(s, "request") /\ req' = [req EXCEPT ![s] = k]

\* _body = new char[..], filled, with its size and a header.
NewBody(s, k) ==
    \E b \in Blocks :
        /\ heap[b] = Free
        /\ heap' = [heap EXCEPT ![b] = <<s, k>>]
        /\ Holds(s, b, TRUE)
        /\ UNCHANGED wrong

\* The body is the one this request made, or the icon.
Mine(s) == \/ heap[body[s]] = <<s, req[s]>>
           \/ req[s] = "favicon" /\ heap[body[s]] = Icon

Touches(s) ==
    wrong' = IF body[s] = None \/ Mine(s) \/ wrong # "none" THEN wrong ELSE req[s]

\* transport->send(_body, _body_size)
Sends(s) == Touches(s) /\ UNCHANGED ended

\* delete _body; of a block that is free, the allocator aborts.
Deletes(s) ==
    LET b == body[s]
    IN  /\ Touches(s)
        /\ IF b = None
               THEN UNCHANGED <<heap, ended>>
               ELSE /\ heap' = [heap EXCEPT ![b] = Free]
                    /\ IF heap[b] = Free THEN EndsWith("double free") ELSE UNCHANGED ended
-----------------------------------------------------------------------------
(* Faulty variants of definitions below, to see the properties fail. *)

\* of IconSend: the response is returned.
IconReturned(s) ==
    /\ At(s, "iconSend")
    /\ Sends(s)
    /\ Goes(s, "respond")
    /\ UNCHANGED <<req, response, form_data, heap, favicon>>

\* of MissDelete: the body is not deleted.
MissKept(s) ==
    /\ At(s, "missDelete")
    /\ IF req[s] = "directory" THEN Goes(s, "respond") /\ UNCHANGED req ELSE Done(s)
    /\ UNCHANGED <<response, form_data, memory, favicon, ended>>

-----------------------------------------------------------------------------
(* The loop: send the response, release it, read the next request. *)

Respond(s) ==
    /\ At(s, "respond")
    /\ IF header[s] THEN Sends(s) ELSE UNCHANGED <<wrong, ended>>
    /\ Goes(s, "release")
    /\ UNCHANGED <<req, response, form_data, heap, favicon>>

\* release(): the body goes, and the sizes.
Release(s) ==
    /\ At(s, "release")
    /\ Deletes(s)
    /\ Holds(s, None, FALSE)
    /\ Done(s)
    /\ UNCHANGED <<form_data, favicon>>

\* The connection ends; nobody releases what response_holder still has.
Leave(s) ==
    /\ At(s, "request")
    /\ Gone(s)
    /\ UNCHANGED <<memory, favicon, ended>>

\* No route: the page, or the page and the end when content follows.
Unrouted(s) ==
    /\ Asks(s, "unrouted")
    /\ NewBody(s, "unrouted")
    /\ place' \in {[place EXCEPT ![s] = p] : p \in {"respond", "breakOff"}}
    /\ UNCHANGED <<form_data, favicon, ended>>

BreakOff(s) ==
    /\ At(s, "breakOff")
    /\ Sends(s)
    /\ Gone(s)
    /\ UNCHANGED <<heap, favicon>>
-----------------------------------------------------------------------------
(* response_send_file *)

\* The file is sent from a buffer of its own: static pages, the page of those not
\* tracked, /reload/ without url; a directory that is none answers with a page, too.
FileFound(s) ==
    /\ \/ At(s, "request") /\ UNCHANGED <<place, req>>
       \/ Asks(s, "directory") /\ Goes(s, "respond")
    /\ Holds(s, body[s], FALSE)
    /\ UNCHANGED <<form_data, memory, favicon, ended>>

FileMissing(s) ==
    \E k \in {"file", "directory"} :
        /\ Asks(s, k)
        /\ NewBody(s, k)
        /\ Goes(s, "missSend")
        /\ UNCHANGED <<form_data, favicon, ended>>

MissSend(s) ==
    /\ At(s, "missSend")
    /\ Sends(s)
    /\ Goes(s, "missDelete")
    /\ UNCHANGED <<req, response, form_data, heap, favicon>>

\* The pointer and the sizes stay; get_directory_action returns the response.
MissDelete(s) ==
    /\ At(s, "missDelete")
    /\ Deletes(s)
    /\ IF req[s] = "directory" THEN Goes(s, "respond") /\ UNCHANGED req ELSE Done(s)
    /\ UNCHANGED <<response, form_data, favicon>>
-----------------------------------------------------------------------------
(* The other actions with a body of their own. *)

\* A listing (get_directory_action).
Directory(s) ==
    /\ Asks(s, "directory")
    /\ NewBody(s, "directory")
    /\ Goes(s, "respond")
    /\ UNCHANGED <<form_data, favicon, ended>>

\* A form sent to "/" (post_form_action); its header made request.form_data, and
\* the form is parsed into an object of the action.
PostForm(s) ==
    /\ Asks(s, "form")
    /\ NewBody(s, "form")
    /\ form_data' \in {form_data, [form_data EXCEPT ![s] = None]}
    /\ Goes(s, "respond")
    /\ UNCHANGED <<favicon, ended>>

\* A page of the administration.  A file that is not there leaves the _body_size of
\* an earlier body: OpenSSL copies from a null pointer, the kernel refuses to.
Admin(s) ==
    /\ Asks(s, "admin")
    /\ \/ NewBody(s, "admin") /\ UNCHANGED ended
       \/ /\ Holds(s, None, TRUE)
          /\ ended' \in IF body[s] = None THEN {ended} ELSE {ended, "null body"}
          /\ UNCHANGED memory
    /\ Goes(s, "respond")
    /\ UNCHANGED <<form_data, favicon>>

\* /reload/ with url: a header without a body.
Touch(s) ==
    /\ Asks(s, "touch")
    /\ Holds(s, body[s], TRUE)
    /\ Goes(s, "respond")
    /\ UNCHANGED <<form_data, memory, favicon, ended>>

\* No executable, no pipe, no process, or a process whose output is read.
Cgi(s) ==
    /\ Asks(s, "cgi")
    /\ \/ NewBody(s, "cgi") /\ place' \in {[place EXCEPT ![s] = p] : p \in {"respond", "pclose"}}
       \/ UNCHANGED <<response, memory>> /\ Goes(s, "respond")
    /\ UNCHANGED <<form_data, favicon, ended>>

\* pclose on what fdopen made: with an error page_not_found takes another body.
Pclose(s) ==
    /\ At(s, "pclose")
    /\ NewBody(s, "cgi") \/ UNCHANGED <<response, memory>>
    /\ Goes(s, "respond")
    /\ UNCHANGED <<req, form_data, favicon, ended>>
-----------------------------------------------------------------------------
(* get_favicon_action *)

Favicon(s) ==
    /\ Asks(s, "favicon")
    /\ Goes(s, IF favicon_buff = None /\ favicon_size = 0 THEN "iconLoad" ELSE "iconServe")
    /\ UNCHANGED <<response, form_data, memory, favicon, ended>>

\* alloc_file: the size is written before the file is read.
IconLoad(s) ==
    /\ At(s, "iconLoad")
    /\ \/ /\ favicon_buff' = None
          /\ favicon_size' = -1
          /\ Goes(s, "iconServe")
          /\ UNCHANGED <<loading, heap>>
       \/ \E b \in Blocks :
             /\ heap[b] = Free
             /\ heap' = [heap EXCEPT ![b] = Icon]
             /\ loading' = [loading EXCEPT ![s] = b]
             /\ favicon_size' = 1
             /\ Goes(s, "iconRead")
             /\ UNCHANGED favicon_buff
    /\ UNCHANGED <<req, response, form_data, wrong, ended>>

\* The file is read, or not to its end.
IconRead(s) ==
    /\ At(s, "iconRead")
    /\ \/ /\ favicon_buff' = loading[s]
          /\ UNCHANGED <<favicon_size, heap>>
       \/ /\ favicon_buff' = None
          /\ favicon_size' = -1
          /\ heap' = [heap EXCEPT ![loading[s]] = Free]
    /\ loading' = [loading EXCEPT ![s] = None]
    /\ Goes(s, "iconServe")
    /\ UNCHANGED <<req, response, form_data, wrong, ended>>

IconServe(s) ==
    /\ At(s, "iconServe")
    /\ \/ /\ favicon_buff # None
          /\ Holds(s, favicon_buff, TRUE)
          /\ Goes(s, "iconSend")
          /\ UNCHANGED memory
       \/ /\ favicon_buff = None
          /\ NewBody(s, "favicon")
          /\ Goes(s, "respond")
    /\ UNCHANGED <<req, form_data, favicon, ended>>

\* The response is not returned, and so not released.
IconSend(s) ==
    /\ At(s, "iconSend")
    /\ Sends(s)
    /\ Done(s)
    /\ UNCHANGED <<response, form_data, heap, favicon>>

PageStep(s) ==
    \/ Respond(s) \/ Release(s) \/ Leave(s)
    \/ Unrouted(s) \/ BreakOff(s)
    \/ FileFound(s) \/ FileMissing(s) \/ MissSend(s) \/ MissDelete(s)
    \/ Directory(s) \/ PostForm(s) \/ Admin(s) \/ Touch(s)
    \/ Cgi(s) \/ Pclose(s)
    \/ Favicon(s) \/ IconLoad(s) \/ IconRead(s) \/ IconServe(s) \/ IconSend(s)
=============================================================================
