---------------------------- MODULE ProxyAction ----------------------------
(***************************************************************************)
(* proxy_action::process_req (actions/proxy_page.cc) next to the other     *)
(* actions.  One object serves all eight routes of the proxy: destination  *)
(* and proxy_transport are members of it, which every session thread reads *)
(* and writes without a lock.                                              *)
(***************************************************************************)
EXTENDS PageActions

VARIABLES
    destination,      \* the members of proxy_action
    proxy_transport,  \* named by the session that created it
    via,              \* the transport the session's own reader was given, Deleted later
    host,             \* request->_host
    disturbed         \* history: another session was in the proxy meanwhile

Deleted == "deleted"

ASSUME DeletedIsNobody == Deleted \notin Sessions

members == <<destination, proxy_transport>>
locals == <<via, host>>
proxy == <<members, locals, disturbed>>
vars == <<pageVars, proxy>>

Init ==
    /\ PageInit
    /\ destination = None
    /\ proxy_transport = None
    /\ via = [s \in Sessions |-> None]
    /\ host = [s \in Sessions |-> None]
    /\ disturbed = [s \in Sessions |-> FALSE]

\* Where a thread is between its test of destination and its return.
Inside == {"loadForm", "named", "go", "create", "dial", "transfer", "close", "drop", "clear"}
InProxy == {s \in Sessions : place[s] \in Inside}

\* What the request keeps for itself, given up when it leaves.
Forgets(s) ==
    /\ host' = [host EXCEPT ![s] = None]
    /\ via' = [via EXCEPT ![s] = None]
    /\ disturbed' = [disturbed EXCEPT ![s] = FALSE]

\* s is about to join those inside: from now on they disturb each other.
Joins(s) ==
    LET others == InProxy \ {s}
    IN  disturbed' = [t \in Sessions |->
            IF t = s THEN others # {} ELSE disturbed[t] \/ t \in others]

Moves(s, from, to) ==
    /\ At(s, from)
    /\ Goes(s, to)
    /\ UNCHANGED <<req, form_data, favicon>>
    /\ IF to \in Inside THEN UNCHANGED disturbed ELSE Forgets(s)
-----------------------------------------------------------------------------
(* Faulty variants of definitions below, to see the properties fail. *)

\* of ProxyClear: the destination stays.
DestinationStays(s) ==
    /\ Moves(s, "clear", "respond")
    /\ Holds(s, body[s], FALSE)
    /\ UNCHANGED <<members, memory, ended>>

\* of ProxyDrop: the deleted transport stays in proxy_transport.
TransportStays(s) ==
    /\ Moves(s, "drop", "clear")
    /\ UNCHANGED <<response, members, locals, memory, ended>>
-----------------------------------------------------------------------------
\* destination is not empty.
ProxyBusy(s) ==
    /\ Asks(s, "proxy")
    /\ destination # None
    /\ EndsWith("WE DID IT!")
    /\ UNCHANGED <<place, response, form_data, favicon, memory, proxy>>

\* GET: the page with the form.
ProxyGet(s) ==
    /\ Asks(s, "proxy")
    /\ destination = None
    /\ NewBody(s, "proxy")
    /\ Goes(s, "respond")
    /\ UNCHANGED <<form_data, favicon, proxy, ended>>

\* POST, PUT or DELETE: with a multipart body there is a new form, which is loaded
\* for POST only; without one the form is that of an earlier request, or none.
ProxyForm(s) ==
    /\ Asks(s, "proxy")
    /\ destination = None
    /\ \/ /\ form_data' = [form_data EXCEPT ![s] = None]
          /\ place' \in {[place EXCEPT ![s] = p] : p \in {"loadForm", "named"}}
          /\ Joins(s)
          /\ UNCHANGED ended
       \/ /\ form_data[s] # NoForm
          /\ Goes(s, "named")
          /\ Joins(s)
          /\ UNCHANGED <<form_data, ended>>
       \/ /\ form_data[s] = NoForm
          /\ EndsWith("no form")
          /\ UNCHANGED <<place, form_data, disturbed>>
    /\ UNCHANGED <<response, favicon, memory, members, locals>>

\* load_form, as long as the client takes to send it.
LoadForm(s) ==
    /\ At(s, "loadForm")
    /\ Goes(s, "named")
    /\ \E u \in Hosts \cup {None} : form_data' = [form_data EXCEPT ![s] = u]
    /\ UNCHANGED <<req, response, favicon, memory, proxy, ended>>

\* The url of the form becomes the destination.
Named(s) ==
    /\ Moves(s, "named", "go")
    /\ destination' = IF form_data[s] = None THEN destination ELSE form_data[s]
    /\ UNCHANGED <<response, memory, proxy_transport, locals, ended>>

\* No destination, or a transport that is there already, or on to the connection.
Go(s) ==
    \/ /\ destination = None
       /\ Moves(s, "go", "respond")
       /\ NewBody(s, "proxy")
       /\ UNCHANGED <<members, ended>>
    \/ /\ At(s, "go")
       /\ destination # None /\ proxy_transport # None
       /\ EndsWith("Proxy transport already defined")
       /\ UNCHANGED <<request, favicon, memory, proxy>>
    \/ /\ destination # None /\ proxy_transport = None
       /\ Moves(s, "go", "create")
       /\ host' = [host EXCEPT ![s] = destination]
       /\ UNCHANGED <<response, memory, members, via, ended>>

Create(s) ==
    /\ Moves(s, "create", "dial")
    /\ proxy_transport' = s
    /\ UNCHANGED <<response, memory, destination, locals, ended>>

\* A call of a member function of a transport: null ends the process, a deleted
\* object may.
Calls(t) ==
    ended' \in (IF t = None THEN {} ELSE {ended})
                 \cup (IF t \in {None, Deleted} THEN {"no transport"} ELSE {})

\* connect fails, or the request is sent and a reader made for the answer.
Dial(s) ==
    /\ Calls(proxy_transport)
    /\ \/ Moves(s, "dial", "drop") /\ UNCHANGED via
       \/ Moves(s, "dial", "transfer") /\ via' = [via EXCEPT ![s] = proxy_transport]
    /\ UNCHANGED <<response, memory, members, host>>

\* The answer is read through the session's reader, and sent on.
Transfer(s) ==
    /\ Moves(s, "transfer", "close")
    /\ Calls(via[s])
    /\ Holds(s, body[s], header[s]) \/ Holds(s, body[s], TRUE)
    /\ via' = [via EXCEPT ![s] = None]
    /\ UNCHANGED <<memory, members, host>>

Close(s) ==
    /\ Moves(s, "close", "drop")
    /\ Calls(proxy_transport)
    /\ UNCHANGED <<response, memory, members, locals>>

\* delete proxy_transport, null or not.
ProxyDrop(s) ==
    /\ Moves(s, "drop", "clear")
    /\ via' = [t \in Sessions |->
                  IF via[t] = proxy_transport /\ via[t] # None THEN Deleted ELSE via[t]]
    /\ proxy_transport' = None
    /\ UNCHANGED <<response, destination, host, memory, ended>>

\* The response without a header: nothing is sent, what it holds is released.
ProxyClear(s) ==
    /\ Moves(s, "clear", "respond")
    /\ destination' = None
    /\ Holds(s, body[s], FALSE)
    /\ UNCHANGED <<proxy_transport, memory, ended>>

ProxyStep(s) ==
    \/ ProxyBusy(s) \/ ProxyGet(s) \/ ProxyForm(s) \/ LoadForm(s) \/ Named(s)
    \/ Go(s) \/ Create(s) \/ Dial(s) \/ Transfer(s) \/ Close(s)
    \/ ProxyDrop(s) \/ ProxyClear(s)

Next == \E s \in Sessions : (PageStep(s) /\ UNCHANGED proxy) \/ ProxyStep(s)
Spec == Init /\ [][Next]_vars
-----------------------------------------------------------------------------
(* Properties *)

PagePlaces == {"request", "respond", "release", "gone", "breakOff", "missSend", "missDelete",
               "pclose", "iconLoad", "iconRead", "iconServe", "iconSend"}

Kinds == {"none", "unrouted", "file", "directory", "form", "admin", "touch", "cgi", "favicon",
          "proxy"}
Causes == {"no", "double free", "null body", "no form", "no transport", "WE DID IT!",
           "Proxy transport already defined"}

\* Types; a thread that reads the icon has a block for it, one that names the
\* destination has a form, one that sends the icon or a page of its own has a body.
TypeOK ==
    /\ place \in [Sessions -> PagePlaces \cup Inside]
    /\ req \in [Sessions -> Kinds]
    /\ body \in [Sessions -> Blocks \cup {None}]
    /\ header \in [Sessions -> BOOLEAN]
    /\ form_data \in [Sessions -> Hosts \cup {None, NoForm}]
    /\ heap \in [Blocks -> (Sessions \cup {None}) \X (Kinds \cup {"free"})]
    /\ favicon_buff \in Blocks \cup {None}
    /\ favicon_size \in {-1, 0, 1}
    /\ loading \in [Sessions -> Blocks \cup {None}]
    /\ \A s \in Sessions : place[s] = "iconRead" => loading[s] \in Blocks
    /\ \A s \in Sessions : place[s] = "named" => form_data[s] \in Hosts \cup {None}
    /\ \A s \in Sessions :
           place[s] \in {"missSend", "missDelete", "breakOff", "iconSend"} => body[s] \in Blocks
    /\ destination \in Hosts \cup {None}
    /\ proxy_transport \in Sessions \cup {None}
    /\ via \in [Sessions -> Sessions \cup {None, Deleted}]
    /\ host \in [Sessions -> Hosts \cup {None}]
    /\ disturbed \in [Sessions -> BOOLEAN]
    /\ wrong \in Kinds
    /\ ended \in Causes

\* Who sends or deletes a body: whatever requests come on whatever connections, in
\* any order, each is answered with the body made for it, which is allocated until
\* the request is done, and the icon is never freed.  The first to break this can
\* only be one of the four actions that return a response_holder they may not have
\* filled: a redirection, a path that is no directory, a CGI without pipes, a
\* proxied page.
Unfilled == {"touch", "directory", "cgi", "proxy"}
OwnBody == wrong \in {"none"} \cup Unfilled

\* No memory is lost (the message of http_response_t::clear): a block belongs to a
\* request being answered or is the icon; those lost are the page of a connection
\* broken off, the output of a CGI whose pclose fails, an icon loaded twice.
Held == {body[s] : s \in {t \in Sessions : place[t] \notin {"request", "gone"}}}
LostAreKnown ==
    \A b \in Blocks :
        \/ heap[b] = Free
        \/ b \in Held \cup {favicon_buff} \cup {loading[s] : s \in Sessions}
        \/ heap[b][2] \in {"unrouted", "cgi", "favicon"}

\* When no thread is in the proxy its members are as at the start, whoever was in it
\* together before: the next request finds no destination of somebody else.
ProxyLeftClean == InProxy = {} => destination = None /\ proxy_transport = None

\* A request of the proxy that no other one overlaps goes to the host its form
\* names, through its own transport, and meets no transport that is there already
\* and none that is gone.
AloneIsServed ==
    \A s \in InProxy : ~disturbed[s] =>
        /\ destination = IF place[s] \in {"loadForm", "named"} \/ form_data[s] = None
                             THEN None ELSE form_data[s]
        /\ proxy_transport = IF place[s] \in {"dial", "transfer", "close", "drop"}
                                 THEN s ELSE None
        /\ place[s] \in Inside \ {"loadForm", "named", "go"} => host[s] = form_data[s]
        /\ place[s] = "transfer" => via[s] = s
        /\ ended \notin {"Proxy transport already defined", "no transport"}

\* proxy_page.cc:122, "Proxy transport already defined": the test stands for a
\* transport that is never there.
NeverDefined == ended # "Proxy transport already defined"
=============================================================================
