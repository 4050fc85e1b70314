------------------------- MODULE ProxyActionProofs -------------------------
(***************************************************************************)
(* Proofs about PageActions and ProxyAction, for any sessions, blocks and  *)
(* hosts.                                                                  *)
(***************************************************************************)
EXTENDS ProxyAction, TLAPS

Places == PagePlaces \cup Inside
BlockTypes == (Sessions \cup {None}) \X (Kinds \cup {"free"})

PageTypes ==
    /\ place \in [Sessions -> Places]
    /\ req \in [Sessions -> Kinds]
    /\ body \in [Sessions -> Blocks \cup {None}]
    /\ header \in [Sessions -> BOOLEAN]
    /\ form_data \in [Sessions -> Hosts \cup {None, NoForm}]
    /\ heap \in [Blocks -> BlockTypes]
    /\ favicon_buff \in Blocks \cup {None}
    /\ favicon_size \in {-1, 0, 1}
    /\ loading \in [Sessions -> Blocks \cup {None}]
    /\ wrong \in Kinds
    /\ ended \in Causes

ProxyTypes ==
    /\ destination \in Hosts \cup {None}
    /\ proxy_transport \in Sessions \cup {None}
    /\ via \in [Sessions -> Sessions \cup {None, Deleted}]
    /\ host \in [Sessions -> Hosts \cup {None}]
    /\ disturbed \in [Sessions -> BOOLEAN]

Loads(s) == place[s] = "iconRead" => loading[s] \in Blocks
Formed(s) == place[s] = "named" => form_data[s] \in Hosts \cup {None}
Bodied(s) ==
    place[s] \in {"missSend", "missDelete", "breakOff", "iconSend"} => body[s] \in Blocks
Ready(s) == Loads(s) /\ Formed(s) /\ Bodied(s)

\* TypeOK by parts: the pages, the proxy, and that who sends a page has one.
LEMMA TypeParts ==
    TypeOK <=> PageTypes /\ ProxyTypes /\ \A s \in Sessions : Ready(s)
BY DEF TypeOK, PageTypes, ProxyTypes, Loads, Formed, Bodied, Ready, Places, BlockTypes

USE DEF response, request, favicon, memory, pageVars, members, locals, proxy, vars
-----------------------------------------------------------------------------
(* Types *)

\* The members of the sets that the code names.
LEMMA Members ==
    /\ Free \in BlockTypes /\ Icon \in BlockTypes
    /\ \A s \in Sessions, k \in Kinds : <<s, k>> \in BlockTypes
BY DEF Free, Icon, BlockTypes, Kinds

\* The places, kinds and causes that the steps below name are among those declared.
LEMMA NamedPlaces ==
    /\ "request" \in Places /\ "respond" \in Places /\ "release" \in Places
    /\ "gone" \in Places /\ "breakOff" \in Places /\ "missSend" \in Places
    /\ "missDelete" \in Places /\ "pclose" \in Places /\ "iconLoad" \in Places
    /\ "iconRead" \in Places /\ "iconServe" \in Places /\ "iconSend" \in Places
    /\ "loadForm" \in Places /\ "named" \in Places /\ "go" \in Places
    /\ "create" \in Places /\ "dial" \in Places /\ "transfer" \in Places
    /\ "close" \in Places /\ "drop" \in Places /\ "clear" \in Places
BY DEF Places, PagePlaces, Inside

\* The kinds of requests.
LEMMA NamedKinds ==
    /\ "none" \in Kinds /\ "unrouted" \in Kinds /\ "file" \in Kinds
    /\ "directory" \in Kinds /\ "form" \in Kinds /\ "admin" \in Kinds
    /\ "touch" \in Kinds /\ "cgi" \in Kinds /\ "favicon" \in Kinds
    /\ "proxy" \in Kinds
BY DEF Kinds

\* The causes of wrong.
LEMMA NamedCauses ==
    /\ "no" \in Causes /\ "double free" \in Causes /\ "null body" \in Causes
    /\ "no form" \in Causes /\ "no transport" \in Causes /\ "WE DID IT!" \in Causes
    /\ "Proxy transport already defined" \in Causes
BY DEF Causes

\* It holds at the start.
LEMMA TypeInit == Init => TypeOK
BY NoneIsNothing DEF Init, PageInit, TypeOK, PagePlaces, Inside, Free, NoForm, Kinds, Causes

\* A new body is a block that was free.
LEMMA NewBodyTypes ==
    ASSUME PageTypes, NEW s \in Sessions, NEW k \in Kinds, NewBody(s, k)
    PROVE  /\ body' \in [Sessions -> Blocks \cup {None}]
           /\ header' \in [Sessions -> BOOLEAN]
           /\ heap' \in [Blocks -> BlockTypes]
           /\ wrong' = wrong
           /\ body'[s] \in Blocks
           /\ \A t \in Sessions \ {s} : body'[t] = body[t]
<1>1. PICK b \in Blocks : /\ heap[b] = Free /\ heap' = [heap EXCEPT ![b] = <<s, k>>]
                        /\ Holds(s, b, TRUE) /\ wrong' = wrong
  BY DEF NewBody
<1>2. <<s, k>> \in BlockTypes
  BY Members
<1> QED BY <1>1, <1>2 DEF Holds, PageTypes

\* The steps of the pages keep the types of what the pages use.
LEMMA PageTypesKept ==
    ASSUME PageTypes, NEW s \in Sessions, PageStep(s)
    PROVE  PageTypes'
<1> USE Members, NamedPlaces, NamedKinds, NamedCauses DEF PageTypes
<1>1. CASE Respond(s)
  BY <1>1 DEF Respond, At, Goes, Sends, Touches
<1>2. CASE Release(s)
  BY <1>2 DEF Release, At, Done, Goes, Holds, Deletes, Touches, EndsWith
<1>3. CASE Leave(s)
  BY <1>3 DEF Leave, At, Gone, Goes, Holds
<1>4. CASE Unrouted(s)
  <2>1. PICK p \in {"respond", "breakOff"} : Goes(s, p)
    BY <1>4 DEF Unrouted, Goes
  <2>2. p \in Places /\ NewBody(s, "unrouted") /\ Asks(s, "unrouted")
        /\ UNCHANGED <<form_data, favicon, ended>>
    BY <1>4 DEF Unrouted
  <2> QED BY <2>1, <2>2, NewBodyTypes DEF Asks, Goes
<1>5. CASE BreakOff(s)
  BY <1>5 DEF BreakOff, At, Gone, Goes, Holds, Sends, Touches
<1>6. CASE FileFound(s)
  <2>1. CASE UNCHANGED <<place, req>>
    BY <1>6, <2>1 DEF FileFound, Holds
  <2>2. CASE Asks(s, "directory") /\ Goes(s, "respond")
    BY <1>6, <2>2 DEF FileFound, Asks, Goes, Holds
  <2> QED BY <1>6, <2>1, <2>2 DEF FileFound
<1>7. CASE FileMissing(s)
  <2>1. PICK k \in {"file", "directory"} :
           Asks(s, k) /\ NewBody(s, k) /\ Goes(s, "missSend")
           /\ UNCHANGED <<form_data, favicon, ended>>
    BY <1>7 DEF FileMissing
  <2>2. k \in Kinds
    OBVIOUS
  <2> QED BY <2>1, <2>2, NewBodyTypes DEF Asks, At, Goes
<1>8. CASE MissSend(s)
  BY <1>8 DEF MissSend, At, Goes, Sends, Touches
<1>9. CASE MissDelete(s)
  BY <1>9 DEF MissDelete, At, Deletes, Touches, EndsWith, Done, Goes
<1>10. CASE Directory(s)
  BY <1>10, NewBodyTypes DEF Directory, Asks, At, Goes
<1>11. CASE PostForm(s)
  BY <1>11, NewBodyTypes DEF PostForm, Asks, At, Goes
<1>12. CASE Admin(s)
  BY <1>12, NewBodyTypes DEF Admin, Asks, At, Holds, Goes
<1>13. CASE Touch(s)
  BY <1>13 DEF Touch, Asks, At, Holds, Goes
<1>14. CASE Cgi(s)
  <2>1. PICK p \in {"respond", "pclose"} : Goes(s, p)
    BY <1>14 DEF Cgi, Goes
  <2>2. p \in Places /\ Asks(s, "cgi") /\ UNCHANGED <<form_data, favicon, ended>>
    BY <1>14 DEF Cgi
  <2>3. CASE NewBody(s, "cgi")
    BY <2>1, <2>2, <2>3, NewBodyTypes DEF Asks, Goes
  <2>4. CASE UNCHANGED <<response, memory>>
    BY <2>1, <2>2, <2>4 DEF Asks, Goes
  <2> QED BY <1>14, <2>3, <2>4 DEF Cgi
<1>15. CASE Pclose(s)
  BY <1>15, NewBodyTypes DEF Pclose, At, Goes
<1>16. CASE Favicon(s)
  BY <1>16 DEF Favicon, Asks, At, Goes
<1>17. CASE IconLoad(s)
  <2>1. CASE /\ favicon_buff' = None /\ favicon_size' = -1 /\ Goes(s, "iconServe")
             /\ UNCHANGED <<loading, heap>>
    <3>1. UNCHANGED <<req, response, form_data, wrong, ended>>
      BY <1>17 DEF IconLoad
    <3> QED BY <2>1, <3>1 DEF Goes
  <2>2. ASSUME NEW b \in Blocks, heap' = [heap EXCEPT ![b] = Icon],
               loading' = [loading EXCEPT ![s] = b], favicon_size' = 1,
               Goes(s, "iconRead"), UNCHANGED favicon_buff
        PROVE  PageTypes'
    <3>1. UNCHANGED <<req, response, form_data, wrong, ended>>
      BY <1>17 DEF IconLoad
    <3> QED BY <2>2, <3>1 DEF Goes
  <2> QED BY <1>17, <2>1, <2>2 DEF IconLoad
<1>18. CASE IconRead(s)
  BY <1>18 DEF IconRead, At, Goes
<1>19. CASE IconServe(s)
  <2>1. CASE favicon_buff # None
    <3>1. /\ Holds(s, favicon_buff, TRUE) /\ Goes(s, "iconSend")
          /\ UNCHANGED <<memory, req, form_data, favicon, ended>>
      BY <1>19, <2>1 DEF IconServe
    <3> QED BY <3>1 DEF Holds, Goes
  <2>2. CASE favicon_buff = None
    <3>1. NewBody(s, "favicon") /\ Goes(s, "respond")
      BY <1>19, <2>2 DEF IconServe
    <3> QED BY <1>19, <3>1, NewBodyTypes DEF IconServe, At, Goes
  <2> QED BY <2>1, <2>2
<1>20. CASE IconSend(s)
  BY <1>20 DEF IconSend, At, Sends, Touches, Done, Goes
<1> QED BY <1>1, <1>2, <1>3, <1>4, <1>5, <1>6, <1>7, <1>8, <1>9, <1>10, <1>11, <1>12,
       <1>13, <1>14, <1>15, <1>16, <1>17, <1>18, <1>19, <1>20 DEF PageStep

\* So do the steps of the proxy.
LEMMA ProxyPagesKept ==
    ASSUME PageTypes, NEW s \in Sessions, ProxyStep(s)
    PROVE  PageTypes'
<1> USE Members, NamedPlaces, NamedKinds, NamedCauses DEF PageTypes
<1>1. CASE ProxyBusy(s)
  BY <1>1 DEF ProxyBusy, Asks, At, EndsWith
<1>2. CASE ProxyGet(s)
  BY <1>2, NewBodyTypes DEF ProxyGet, Asks, At, Goes
<1>3. CASE ProxyForm(s)
  <2>1. place' \in [Sessions -> Places]
    <3>1. \/ place' \in {[place EXCEPT ![s] = p] : p \in {"loadForm", "named"}}
          \/ Goes(s, "named")
          \/ UNCHANGED place
      BY <1>3 DEF ProxyForm
    <3> QED BY <3>1 DEF Goes
  <2>2. form_data' \in [Sessions -> Hosts \cup {None, NoForm}]
    BY <1>3 DEF ProxyForm
  <2>3. ended' \in Causes
    BY <1>3 DEF ProxyForm, EndsWith
  <2> QED BY <1>3, <2>1, <2>2, <2>3 DEF ProxyForm, Asks, At
<1>4. CASE LoadForm(s)
  BY <1>4 DEF LoadForm, At, Goes
<1>5. CASE Named(s)
  BY <1>5 DEF Named, Moves, At, Goes
<1>6. CASE Go(s)
  <2>1. CASE destination = None
    <3>1. Moves(s, "go", "respond") /\ NewBody(s, "proxy") /\ UNCHANGED ended
      BY <1>6, <2>1 DEF Go
    <3> QED BY <3>1, NewBodyTypes DEF Moves, At, Goes
  <2>2. CASE destination # None /\ proxy_transport # None
    BY <1>6, <2>2 DEF Go, EndsWith
  <2>3. CASE destination # None /\ proxy_transport = None
    BY <1>6, <2>3 DEF Go, Moves, At, Goes
  <2> QED BY <2>1, <2>2, <2>3
<1>7. CASE Create(s)
  BY <1>7 DEF Create, Moves, At, Goes
<1>8. CASE Dial(s)
  BY <1>8 DEF Dial, Moves, At, Goes, Calls
<1>9. CASE Transfer(s)
  BY <1>9 DEF Transfer, Moves, At, Goes, Calls, Holds
<1>10. CASE Close(s)
  BY <1>10 DEF Close, Moves, At, Goes, Calls
<1>11. CASE ProxyDrop(s)
  BY <1>11 DEF ProxyDrop, Moves, At, Goes
<1>12. CASE ProxyClear(s)
  BY <1>12 DEF ProxyClear, Moves, At, Goes, Holds, Forgets
<1> QED BY <1>1, <1>2, <1>3, <1>4, <1>5, <1>6, <1>7, <1>8, <1>9, <1>10, <1>11,
       <1>12 DEF ProxyStep
-----------------------------------------------------------------------------
(* OwnBody *)

\* The action of a request in places that only one action reaches.
Reqs(s) ==
    /\ place[s] = "pclose" => req[s] = "cgi"
    /\ place[s] \in {"iconLoad", "iconRead", "iconServe", "iconSend"} => req[s] = "favicon"
    /\ place[s] \in Inside => req[s] = "proxy"
    /\ place[s] \notin {"request", "gone"} => req[s] # "none"

Own(s) == body[s] \in Blocks /\ heap[body[s]] = <<s, req[s]>>

\* The blocks of a session: the page it is about to send or to release is its own,
\* unless its action is one of the four; the icon it sends or loads is the icon.
BodyOf(s) ==
    /\ place[s] \in {"missSend", "missDelete", "breakOff"} => Own(s)
    /\ place[s] \in {"respond",
           "release"} /\ req[s] \notin Unfilled => body[s] = None \/ Own(s)
    /\ place[s] = "iconSend" => body[s] \in Blocks /\ heap[body[s]] = Icon
    /\ place[s] = "iconRead" => loading[s] \in Blocks /\ heap[loading[s]] = Icon

\* What a thread loads is not used by anybody yet, so it may give it up.
LoadsAlone(s) ==
    place[s] = "iconRead" =>
        /\ favicon_buff # loading[s]
        /\ \A t \in Sessions \ {s} :
               /\ place[t] = "iconRead" => loading[t] # loading[s]
               /\ place[t] = "iconSend" => body[t] # loading[s]

BodyInv ==
    /\ \A s \in Sessions : Reqs(s)
    /\ OwnBody
    /\ wrong = "none" =>
           /\ \A s \in Sessions : BodyOf(s) /\ LoadsAlone(s)
           /\ favicon_buff # None => heap[favicon_buff] = Icon

\* What a block holds says whether it is free, the icon or a body.
LEMMA Contents ==
    /\ Free # Icon
    /\ \A s \in Sessions, k \in Kinds : <<s, k>> # Free /\ <<s, k>> # Icon
BY NoneIsNothing DEF Free, Icon

\* At the start nobody has a body.
LEMMA BodyInit == Init => BodyInv
BY DEF Init, PageInit, BodyInv, Reqs, BodyOf, LoadsAlone, OwnBody, Inside

\* A body is made, in a block nobody knows of.
LEMMA NewBodyKeeps ==
    ASSUME PageTypes, BodyInv, NEW s \in Sessions, NEW k \in Kinds, NewBody(s, k),
           k # "none", req' = [req EXCEPT ![s] = k], UNCHANGED <<favicon_buff, loading>>,
           NEW p \in {"respond", "breakOff", "missSend", "pclose"}, Goes(s, p),
           p = "pclose" => k = "cgi"
    PROVE  BodyInv'
<1> USE DEF PageTypes, Goes
<1>1. PICK b \in Blocks : /\ heap[b] = Free /\ heap' = [heap EXCEPT ![b] = <<s, k>>]
                        /\ Holds(s, b, TRUE) /\ wrong' = wrong
  BY DEF NewBody
<1>2. body' = [body EXCEPT ![s] = b]
  BY <1>1 DEF Holds
<1>3. \A t \in Sessions : Reqs(t)'
  BY DEF BodyInv, Reqs, Inside
<1>4. OwnBody'
  BY <1>1 DEF BodyInv, OwnBody
<1>5. SUFFICES ASSUME wrong = "none"
      PROVE  /\ \A t \in Sessions : BodyOf(t)' /\ LoadsAlone(t)'
             /\ favicon_buff' # None => heap'[favicon_buff'] = Icon
  BY <1>1, <1>3, <1>4 DEF BodyInv
<1>6. favicon_buff' # None => heap'[favicon_buff'] = Icon
  BY <1>1, <1>5, Contents DEF BodyInv
<1>7. BodyOf(s)' /\ LoadsAlone(s)'
  BY <1>1, <1>2 DEF BodyOf, LoadsAlone, Own
<1>8. ASSUME NEW t \in Sessions \ {s} PROVE BodyOf(t)' /\ LoadsAlone(t)'
  <2>1. BodyOf(t) /\ LoadsAlone(t)
    BY <1>5 DEF BodyInv
  <2>2. /\ place'[t] = place[t] /\ req'[t] = req[t] /\ body'[t] = body[t]
        /\ loading'[t] = loading[t]
    BY <1>2
  <2>3. \A c \in Blocks : heap[c] # Free => heap'[c] = heap[c]
    BY <1>1
  <2>4. BodyOf(t)'
    BY <2>1, <2>2, <2>3, Contents DEF BodyOf, Own
  <2>5. LoadsAlone(t)'
    BY <2>1, <2>2, <1>2 DEF LoadsAlone
  <2> QED BY <2>4, <2>5
<1> QED BY <1>6, <1>7, <1>8

\* A body is deleted, by the only session that knows of it.
LEMMA DeletesKeeps ==
    ASSUME PageTypes, BodyInv, NEW s \in Sessions, Deletes(s),
           place[s] \in {"release", "missDelete"}, UNCHANGED <<favicon_buff, loading>>,
           NEW p \in {"request", "respond"}, Goes(s, p),
           \A t \in Sessions \ {s} : req'[t] = req[t] /\ body'[t] = body[t],
           p = "respond" => req'[s] \in Unfilled
    PROVE  BodyInv'
<1> USE DEF PageTypes, Goes
<1>1. Touches(s)
  BY DEF Deletes
<1>2. \A t \in Sessions : Reqs(t)'
  BY DEF BodyInv, Reqs, Inside, Unfilled
<1>3. wrong = "none" /\ req[s] \notin Unfilled => body[s] = None \/ Own(s)
  BY DEF BodyInv, BodyOf
<1>4. OwnBody'
  BY <1>1, <1>3 DEF BodyInv, OwnBody, Touches, Mine, Own
<1>5. SUFFICES ASSUME wrong' = "none"
      PROVE  /\ \A t \in Sessions : BodyOf(t)' /\ LoadsAlone(t)'
             /\ favicon_buff' # None => heap'[favicon_buff'] = Icon
  BY <1>2, <1>4 DEF BodyInv
<1>6. wrong = "none" /\ (body[s] = None \/ Mine(s))
  <2>1. req[s] # "none"
    BY DEF BodyInv, Reqs
  <2> QED BY <1>1, <1>5, <2>1 DEF Touches
<1>7. body[s] = None \/ heap[body[s]] = <<s, req[s]>>
  BY <1>3, <1>6 DEF Mine, Own, Unfilled
<1>8. \A c \in Blocks : (\A k \in Kinds : heap[c] # <<s, k>>) => heap'[c] = heap[c]
  BY <1>7 DEF Deletes
<1>9. favicon_buff' # None => heap'[favicon_buff'] = Icon
  BY <1>6, <1>8, Contents DEF BodyInv
<1>10. BodyOf(s)' /\ LoadsAlone(s)'
  BY DEF BodyOf, LoadsAlone
<1>11. ASSUME NEW t \in Sessions \ {s} PROVE BodyOf(t)' /\ LoadsAlone(t)'
  <2>1. BodyOf(t) /\ LoadsAlone(t)
    BY <1>6 DEF BodyInv
  <2>2. /\ place'[t] = place[t] /\ req'[t] = req[t] /\ body'[t] = body[t]
        /\ loading'[t] = loading[t]
    OBVIOUS
  <2>3. \A c \in Blocks : heap[c] \in {<<t, req[t]>>, Icon} => heap'[c] = heap[c]
    <3>1. \A k \in Kinds : <<t, req[t]>> # <<s, k>> /\ Icon # <<s, k>>
      BY Contents
    <3> QED BY <1>8, <3>1
  <2>4. BodyOf(t)'
    BY <2>1, <2>2, <2>3 DEF BodyOf, Own
  <2>5. LoadsAlone(t)'
    BY <2>1, <2>2 DEF LoadsAlone
  <2> QED BY <2>4, <2>5
<1> QED BY <1>9, <1>10, <1>11

\* In the proxy, and on the way there and back, a session makes and deletes no body.
LEMMA MovesKeeps ==
    ASSUME PageTypes, BodyInv, NEW s \in Sessions,
           UNCHANGED <<body, heap, favicon_buff, loading, wrong>>,
           req' = [req EXCEPT ![s] = "proxy"],
           NEW p \in Inside \cup {"request", "respond"}, Goes(s, p)
    PROVE  BodyInv'
<1> USE DEF PageTypes, Goes
<1>1. req'[s] = "proxy" /\ place'[s] = p
  OBVIOUS
<1>2. \A t \in Sessions \ {s} : req'[t] = req[t] /\ place'[t] = place[t]
  OBVIOUS
<1>3. \A t \in Sessions : Reqs(t)'
  BY <1>1, <1>2 DEF BodyInv, Reqs, Inside
<1>4. ASSUME wrong = "none", NEW t \in Sessions PROVE BodyOf(t)' /\ LoadsAlone(t)'
  BY <1>1, <1>2, <1>4 DEF BodyInv, BodyOf, LoadsAlone, Own, Unfilled, Inside
<1> QED BY <1>3, <1>4 DEF BodyInv, OwnBody

\* Every step of the pages keeps the owners of bodies.
LEMMA BodyPages ==
    ASSUME PageTypes, BodyInv, NEW s \in Sessions, PageStep(s)
    PROVE  BodyInv'
<1> USE Contents DEF PageTypes, BodyInv, Reqs, BodyOf, LoadsAlone, Own, OwnBody, Unfilled,
       Inside
<1>1. CASE Respond(s)
  BY <1>1 DEF Respond, At, Goes, Sends, Touches, Mine
<1>2. CASE Release(s)
  <2>1. \A t \in Sessions \ {s} : req'[t] = req[t] /\ body'[t] = body[t]
    BY <1>2 DEF Release, Done, Holds, PageTypes
  <2> QED BY <1>2, <2>1, DeletesKeeps DEF Release, At, Done
<1>3. CASE Leave(s)
  BY <1>3 DEF Leave, At, Gone, Goes, Holds
<1>4. CASE Unrouted(s)
  <2>1. PICK p \in {"respond", "breakOff"} : Goes(s, p)
    BY <1>4 DEF Unrouted, Goes
  <2>2. p = "respond" \/ p = "breakOff"
    OBVIOUS
  <2>3. /\ req' = [req EXCEPT ![s] = "unrouted"] /\ NewBody(s,
         "unrouted") /\ "unrouted" \in Kinds
        /\ UNCHANGED favicon
    BY <1>4 DEF Unrouted, Asks, Kinds
  <2> QED BY <2>1, <2>2, <2>3, NewBodyKeeps
<1>5. CASE BreakOff(s)
  BY <1>5 DEF BreakOff, At, Gone, Goes, Holds, Sends, Touches, Mine
<1>6. CASE FileFound(s)
  BY <1>6 DEF FileFound, At, Asks, Goes, Holds
<1>7. CASE FileMissing(s)
  <2>1. PICK k \in {"file", "directory"} :
           Asks(s, k) /\ NewBody(s, k) /\ Goes(s, "missSend") /\ UNCHANGED favicon
    BY <1>7 DEF FileMissing
  <2>2. k \in Kinds
    BY DEF Kinds
  <2> QED BY <2>1, <2>2, NewBodyKeeps DEF Asks
<1>8. CASE MissSend(s)
  BY <1>8 DEF MissSend, At, Goes, Sends, Touches, Mine
<1>9. CASE MissDelete(s)
  <2>1. \A t \in Sessions \ {s} : req'[t] = req[t] /\ body'[t] = body[t]
    BY <1>9 DEF MissDelete, Done, PageTypes
  <2>2. CASE req[s] = "directory"
    BY <1>9, <2>1, <2>2, DeletesKeeps DEF MissDelete, At, Unfilled
  <2>3. CASE req[s] # "directory"
    BY <1>9, <2>1, <2>3, DeletesKeeps DEF MissDelete, At, Done
  <2> QED BY <2>2, <2>3
<1>10. CASE Directory(s)
  BY <1>10, NewBodyKeeps DEF Directory, Asks, Kinds
<1>11. CASE PostForm(s)
  BY <1>11, NewBodyKeeps DEF PostForm, Asks, Kinds
<1>12. CASE Admin(s)
  <2>1. CASE NewBody(s, "admin")
    BY <1>12, <2>1, NewBodyKeeps DEF Admin, Asks, Kinds
  <2>2. CASE Holds(s, None, TRUE) /\ UNCHANGED memory
    <3>1. /\ body' = [body EXCEPT ![s] = None] /\ UNCHANGED <<memory, favicon>>
          /\ place' = [place EXCEPT ![s] = "respond"]
          /\ req' = [req EXCEPT ![s] = "admin"]
      BY <1>12, <2>2 DEF Admin, Asks, Goes, Holds
    <3> QED BY <3>1 DEF PageTypes, BodyInv, Reqs, BodyOf, LoadsAlone, Own, OwnBody, Inside
  <2> QED BY <1>12, <2>1, <2>2 DEF Admin
<1>13. CASE Touch(s)
  BY <1>13 DEF Touch, Asks, At, Holds, Goes
<1>14. CASE Cgi(s)
  <2>1. CASE NewBody(s, "cgi")
    <3>1. PICK p \in {"respond", "pclose"} : Goes(s, p)
      BY <1>14 DEF Cgi, Goes
    <3>2. /\ req' = [req EXCEPT ![s] = "cgi"] /\ "cgi" \in Kinds /\ UNCHANGED favicon
      BY <1>14 DEF Cgi, Asks, Kinds
    <3> QED BY <2>1, <3>1, <3>2, NewBodyKeeps
  <2>2. CASE UNCHANGED <<response, memory>> /\ Goes(s, "respond")
    BY <1>14, <2>2 DEF Cgi, Asks, At, Goes, PageTypes, BodyInv, Reqs, BodyOf, LoadsAlone,
                   Own, OwnBody, Inside, Unfilled
  <2> QED BY <1>14, <2>1, <2>2 DEF Cgi
<1>15. CASE Pclose(s)
  <2>1. req[s] = "cgi"
    BY <1>15 DEF Pclose, At, BodyInv, Reqs
  <2>2. CASE NewBody(s, "cgi")
    <3>1. req' = [req EXCEPT ![s] = "cgi"]
      BY <1>15, <2>1 DEF Pclose, PageTypes
    <3> QED BY <1>15, <2>2, <3>1, NewBodyKeeps DEF Pclose, Kinds
  <2>3. CASE UNCHANGED <<response, memory>>
    BY <1>15, <2>1, <2>3 DEF Pclose, At, Goes, PageTypes, BodyInv, Reqs, BodyOf, LoadsAlone,
                   Own, OwnBody, Inside, Unfilled
  <2> QED BY <1>15, <2>2, <2>3 DEF Pclose
<1>16. CASE Favicon(s)
  BY <1>16 DEF Favicon, Asks, At, Goes
<1>17. CASE IconLoad(s)
  <2> USE DEF PageTypes, Goes
  <2>1. place[s] = "iconLoad" /\ wrong' = wrong /\ req' = req /\ body' = body
    BY <1>17 DEF IconLoad, At
  <2>2. req[s] = "favicon"
    BY <2>1 DEF BodyInv, Reqs
  <2>3. CASE /\ favicon_buff' = None /\ favicon_size' = -1 /\ Goes(s, "iconServe")
             /\ UNCHANGED <<loading, heap>>
    BY <2>1, <2>2, <2>3, NoneIsNothing
       DEF BodyInv, Reqs, BodyOf, LoadsAlone, Own, OwnBody, Inside
  <2>4. ASSUME NEW b \in Blocks, heap[b] = Free, heap' = [heap EXCEPT ![b] = Icon],
               loading' = [loading EXCEPT ![s] = b], Goes(s, "iconRead"),
               UNCHANGED favicon_buff
        PROVE  BodyInv'
    <3>1. (\A t \in Sessions : Reqs(t)') /\ OwnBody'
      BY <2>1, <2>2, <2>4 DEF BodyInv, Reqs, OwnBody, Inside
    <3>2. \A c \in Blocks : heap[c] # Free => heap'[c] = heap[c] /\ c # b
      BY <2>4
    <3>3. SUFFICES ASSUME wrong = "none"
          PROVE  /\ \A t \in Sessions : BodyOf(t)' /\ LoadsAlone(t)'
                 /\ favicon_buff' # None => heap'[favicon_buff'] = Icon
      BY <2>1, <3>1 DEF BodyInv
    <3>4. favicon_buff' # None => heap'[favicon_buff'] = Icon /\ favicon_buff' # b
      BY <2>4, <3>2, <3>3, Contents DEF BodyInv
    <3>5. \A t \in Sessions \ {s} :
              /\ place'[t] = place[t] /\ loading'[t] = loading[t]
              /\ BodyOf(t) /\ LoadsAlone(t)
      BY <2>4, <3>3 DEF BodyInv
    <3>6. place'[s] = "iconRead" /\ loading'[s] = b /\ heap'[b] = Icon
      BY <2>4
    <3>7. ASSUME NEW t \in Sessions PROVE BodyOf(t)'
      <4>1. CASE t = s
        BY <3>6, <4>1 DEF BodyOf
      <4>2. CASE t # s
        <5>1. BodyOf(t) /\ place'[t] = place[t] /\ loading'[t] = loading[t]
          BY <3>5, <4>2
        <5>2. <<t, req[t]>> # Free
          BY Contents
        <5>3. ASSUME Own(t) PROVE Own(t)'
          BY <2>1, <3>2, <5>2, <5>3 DEF Own
        <5> QED BY <2>1, <3>2, <5>1, <5>3, Contents DEF BodyOf
      <4> QED BY <4>1, <4>2
    <3>8. \A t \in Sessions \ {s} :
              /\ place[t] = "iconRead" => loading[t] # b
              /\ place[t] = "iconSend" => body[t] # b
      BY <3>2, <3>5, Contents DEF BodyOf
    <3>9. ASSUME NEW t \in Sessions PROVE LoadsAlone(t)'
      <4>1. CASE t = s
        <5>1. favicon_buff' # b
          BY <3>4, NoneIsNothing
        <5> QED BY <2>1, <3>5, <3>6, <3>8, <4>1, <5>1 DEF LoadsAlone
      <4>2. CASE t # s
        BY <2>1, <2>4, <3>5, <3>6, <3>8, <4>2 DEF LoadsAlone
      <4> QED BY <4>1, <4>2
    <3> QED BY <3>4, <3>7, <3>9
  <2> QED BY <1>17, <2>3, <2>4 DEF IconLoad
<1>18. CASE IconRead(s)
  <2> USE DEF PageTypes, Goes
  <2>1. /\ place[s] = "iconRead" /\ wrong' = wrong /\ req' = req /\ body' = body
        /\ loading' = [loading EXCEPT ![s] = None]
        /\ place' = [place EXCEPT ![s] = "iconServe"]
    BY <1>18 DEF IconRead, At
  <2>2. req[s] = "favicon"
    BY <2>1 DEF BodyInv, Reqs
  <2>3. (\A t \in Sessions : Reqs(t)') /\ OwnBody'
    BY <2>1, <2>2 DEF BodyInv, Reqs, OwnBody, Inside
  <2>4. SUFFICES ASSUME wrong = "none"
        PROVE  /\ \A t \in Sessions : BodyOf(t)' /\ LoadsAlone(t)'
               /\ favicon_buff' # None => heap'[favicon_buff'] = Icon
    BY <2>1, <2>3 DEF BodyInv
  <2>5. \A t \in Sessions : BodyOf(t) /\ LoadsAlone(t)
    BY <2>4 DEF BodyInv
  <2>6. BodyOf(s)' /\ LoadsAlone(s)'
    BY <2>1 DEF BodyOf, LoadsAlone
  <2>7. \A t \in Sessions \ {s} : place'[t] = place[t] /\ loading'[t] = loading[t]
    BY <2>1
  <2>8. CASE favicon_buff' = loading[s] /\ UNCHANGED heap
    <3>1. heap[loading[s]] = Icon
      BY <2>1, <2>5 DEF BodyOf
    <3>2. ASSUME NEW t \in Sessions \ {s} PROVE BodyOf(t)' /\ LoadsAlone(t)'
      BY <2>1, <2>5, <2>7, <2>8 DEF BodyOf, LoadsAlone, Own
    <3> QED BY <2>6, <2>8, <3>1, <3>2
  <2>9. CASE favicon_buff' = None /\ heap' = [heap EXCEPT ![loading[s]] = Free]
    <3>1. \A c \in Blocks : c # loading[s] => heap'[c] = heap[c]
      BY <2>9
    <3>2. heap[loading[s]] = Icon
      BY <2>1, <2>5 DEF BodyOf
    <3>3. ASSUME NEW t \in Sessions \ {s} PROVE BodyOf(t)'
      <4>1. /\ place[t] = "iconRead" => loading[t] # loading[s]
            /\ place[t] = "iconSend" => body[t] # loading[s]
        BY <2>1, <2>5 DEF LoadsAlone
      <4>2. Own(t) => body[t] # loading[s]
        <5>1. <<t, req[t]>> # Icon
          BY Contents
        <5> QED BY <3>2, <5>1 DEF Own
      <4>3. ASSUME Own(t) PROVE Own(t)'
        BY <2>1, <3>1, <4>2, <4>3 DEF Own
      <4>4. BodyOf(t)
        BY <2>5
      <4> QED BY <2>1, <2>7, <3>1, <4>1, <4>3, <4>4 DEF BodyOf
    <3>4. ASSUME NEW t \in Sessions \ {s} PROVE LoadsAlone(t)'
      BY <2>1, <2>5, <2>7, <2>9, NoneIsNothing DEF LoadsAlone, BodyOf
    <3> QED BY <2>6, <2>9, <3>3, <3>4
  <2> QED BY <1>18, <2>8, <2>9 DEF IconRead
<1>19. CASE IconServe(s)
  <2>1. req[s] = "favicon"
    BY <1>19 DEF IconServe, At, BodyInv, Reqs
  <2>2. CASE favicon_buff # None
    BY <1>19, <2>1, <2>2 DEF IconServe, At, Goes, Holds, PageTypes, BodyInv, Reqs, BodyOf,
           LoadsAlone,
                   Own, OwnBody, Inside, Unfilled
  <2>3. CASE favicon_buff = None
    <3>1. req' = [req EXCEPT ![s] = "favicon"]
      BY <1>19, <2>1 DEF IconServe, PageTypes
    <3> QED BY <1>19, <2>3, <3>1, NewBodyKeeps DEF IconServe, Kinds
  <2> QED BY <2>2, <2>3
<1>20. CASE IconSend(s)
  BY <1>20 DEF IconSend, At, Sends, Touches, Done, Goes, Mine
<1> QED BY <1>1, <1>2, <1>3, <1>4, <1>5, <1>6, <1>7, <1>8, <1>9, <1>10, <1>11, <1>12,
       <1>13, <1>14, <1>15, <1>16, <1>17, <1>18, <1>19, <1>20 DEF PageStep

\* Every step of the proxy does.
LEMMA BodyProxy ==
    ASSUME PageTypes, BodyInv, NEW s \in Sessions, ProxyStep(s)
    PROVE  BodyInv'
<1> USE Contents DEF PageTypes, BodyInv, Reqs, BodyOf, LoadsAlone, Own, OwnBody, Unfilled,
       Inside
<1>1. CASE ProxyBusy(s)
  BY <1>1, ZenonT(40) DEF ProxyBusy, Asks, At, EndsWith
<1>2. CASE ProxyGet(s)
  BY <1>2, NewBodyKeeps DEF ProxyGet, Asks, Kinds
<1>3. CASE ProxyForm(s)
  <2>1. UNCHANGED <<body, heap, favicon_buff, loading, wrong>>
        /\ req' = [req EXCEPT ![s] = "proxy"]
    BY <1>3 DEF ProxyForm, Asks
  <2>2. CASE UNCHANGED place
    <3>1. Goes(s, "request")
      BY <1>3, <2>2 DEF ProxyForm, Asks, At, Goes, PageTypes
    <3> QED BY <2>1, <3>1, MovesKeeps
  <2>3. ASSUME NEW p \in {"loadForm", "named"}, Goes(s, p) PROVE BodyInv'
    BY <2>1, <2>3, MovesKeeps DEF Inside
  <2> QED BY <1>3, <2>2, <2>3 DEF ProxyForm, Goes
<1>4. CASE LoadForm(s)
  BY <1>4 DEF LoadForm, At, Goes
<1>5. CASE Named(s)
  BY <1>5 DEF Named, Moves, At, Goes
<1>6. CASE Go(s)
  <2>1. req[s] = "proxy"
    BY <1>6 DEF Go, Moves, At, BodyInv, Reqs, Inside
  <2>2. req' = [req EXCEPT ![s] = "proxy"]
    BY <1>6, <2>1 DEF Go, Moves, PageTypes
  <2>3. CASE destination = None
    BY <1>6, <2>2, <2>3, NewBodyKeeps DEF Go, Moves, Kinds
  <2>4. CASE destination # None /\ proxy_transport # None
    <3>1. UNCHANGED <<request, favicon, memory>>
      BY <1>6, <2>4 DEF Go
    <3> QED BY <3>1 DEF BodyInv, Reqs, BodyOf, LoadsAlone, Own, OwnBody
  <2>5. CASE destination # None /\ proxy_transport = None
    BY <1>6, <2>2, <2>5, MovesKeeps DEF Go, Moves, Inside
  <2> QED BY <2>3, <2>4, <2>5
<1>7. CASE Create(s)
  BY <1>7 DEF Create, Moves, At, Goes
<1>8. CASE Dial(s)
  <2>1. req[s] = "proxy"
    BY <1>8 DEF Dial, Moves, At, BodyInv, Reqs, Inside
  <2>2. req' = [req EXCEPT ![s] = "proxy"]
    BY <1>8, <2>1 DEF Dial, Moves, PageTypes
  <2>3. PICK p \in {"drop", "transfer"} : Goes(s, p)
    BY <1>8 DEF Dial, Moves
  <2> QED BY <1>8, <2>2, <2>3, MovesKeeps DEF Dial, Moves, Inside
<1>9. CASE Transfer(s)
  <2>1. req[s] = "proxy"
    BY <1>9 DEF Transfer, Moves, At, BodyInv, Reqs, Inside
  <2>2. req' = [req EXCEPT ![s] = "proxy"]
    BY <1>9, <2>1 DEF Transfer, Moves, PageTypes
  <2>3. body' = body
    BY <1>9 DEF Transfer, Holds, PageTypes
  <2> QED BY <1>9, <2>2, <2>3, MovesKeeps DEF Transfer, Moves, Inside
<1>10. CASE Close(s)
  <2>1. req[s] = "proxy"
    BY <1>10 DEF Close, Moves, At, BodyInv, Reqs, Inside
  <2>2. req' = [req EXCEPT ![s] = "proxy"]
    BY <1>10, <2>1 DEF Close, Moves, PageTypes
  <2> QED BY <1>10, <2>2, MovesKeeps DEF Close, Moves, Inside
<1>11. CASE ProxyDrop(s)
  BY <1>11 DEF ProxyDrop, Moves, At, Goes
<1>12. CASE ProxyClear(s)
  BY <1>12 DEF ProxyClear, Moves, At, Goes, Holds, Forgets
<1> QED BY <1>1, <1>2, <1>3, <1>4, <1>5, <1>6, <1>7, <1>8, <1>9, <1>10, <1>11,
       <1>12 DEF ProxyStep

\* The steps of the proxy keep the types of what it uses itself.
LEMMA ProxyTypesKept ==
    ASSUME PageTypes, ProxyTypes, \A t \in Sessions : Ready(t), NEW s \in Sessions,
           ProxyStep(s)
    PROVE  ProxyTypes'
<1> USE DEF PageTypes, ProxyTypes, Ready, Formed, Inside
<1>1. CASE ProxyBusy(s)
  BY <1>1 DEF ProxyBusy, Asks, At, EndsWith
<1>2. CASE ProxyGet(s)
  BY <1>2 DEF ProxyGet, Asks, At, Goes
<1>3. CASE ProxyForm(s)
  BY <1>3 DEF ProxyForm, Asks, At, Goes, Joins, EndsWith
<1>4. CASE LoadForm(s)
  BY <1>4 DEF LoadForm, At, Goes
<1>5. CASE Named(s)
  BY <1>5 DEF Named, Moves, At, Goes, Forgets
<1>6. CASE Go(s)
  <2>1. CASE destination = None
    <3>1. Forgets(s) /\ UNCHANGED members
      BY <1>6, <2>1 DEF Go, Moves
    <3> QED BY <3>1 DEF Forgets
  <2>2. CASE destination # None /\ proxy_transport # None
    BY <1>6, <2>2 DEF Go
  <2>3. CASE destination # None /\ proxy_transport = None
    BY <1>6, <2>3 DEF Go, Moves, Goes
  <2> QED BY <2>1, <2>2, <2>3
<1>7. CASE Create(s)
  BY <1>7 DEF Create, Moves, At, Goes, Forgets
<1>8. CASE Dial(s)
  <2>1. UNCHANGED <<members, host, disturbed>>
    BY <1>8 DEF Dial, Moves
  <2>2. via' \in {via, [via EXCEPT ![s] = proxy_transport]}
    BY <1>8 DEF Dial
  <2> QED BY <2>1, <2>2
<1>9. CASE Transfer(s)
  BY <1>9 DEF Transfer, Moves, At, Goes, Calls, Holds, Forgets
<1>10. CASE Close(s)
  BY <1>10 DEF Close, Moves, At, Goes, Calls, Forgets
<1>11. CASE ProxyDrop(s)
  BY <1>11 DEF ProxyDrop, Moves, At, Goes, Forgets
<1>12. CASE ProxyClear(s)
  BY <1>12 DEF ProxyClear, Moves, At, Goes, Holds, Forgets
<1> QED BY <1>1, <1>2, <1>3, <1>4, <1>5, <1>6, <1>7, <1>8, <1>9, <1>10, <1>11,
       <1>12 DEF ProxyStep

\* Whoever sends the icon has one: under the steps of the pages,
LEMMA PagesLoad ==
    ASSUME PageTypes, \A t \in Sessions : Ready(t), NEW s \in Sessions, PageStep(s)
    PROVE  \A t \in Sessions : Ready(t)'
<1> USE DEF PageTypes, Ready, Loads, Formed, Bodied, Inside
<1>1. CASE Respond(s)
  BY <1>1 DEF Respond, At, Goes, Sends, Touches
<1>2. CASE Release(s)
  BY <1>2 DEF Release, At, Done, Goes, Holds, Deletes, Touches, EndsWith
<1>3. CASE Leave(s)
  BY <1>3 DEF Leave, At, Gone, Goes, Holds
<1>4. CASE Unrouted(s)
  BY <1>4, NewBodyTypes DEF Unrouted, Asks, At, Holds, Kinds
<1>5. CASE BreakOff(s)
  BY <1>5 DEF BreakOff, At, Gone, Goes, Holds, Sends, Touches
<1>6. CASE FileFound(s)
  BY <1>6 DEF FileFound, At, Asks, Goes, Holds
<1>7. CASE FileMissing(s)
  BY <1>7, NewBodyTypes DEF FileMissing, Asks, At, Holds, Goes, Kinds
<1>8. CASE MissSend(s)
  BY <1>8 DEF MissSend, At, Goes, Sends, Touches
<1>9. CASE MissDelete(s)
  <2>1. UNCHANGED <<body, loading, form_data>>
    BY <1>9 DEF MissDelete
  <2>2. PICK p \in {"respond", "request"} : place' = [place EXCEPT ![s] = p]
    BY <1>9 DEF MissDelete, Done, Goes
  <2> QED BY <2>1, <2>2
<1>10. CASE Directory(s)
  BY <1>10, NewBodyTypes DEF Directory, Asks, At, Holds, Goes, Kinds
<1>11. CASE PostForm(s)
  BY <1>11, NewBodyTypes DEF PostForm, Asks, At, Holds, Goes, Kinds
<1>12. CASE Admin(s)
  BY <1>12, NewBodyTypes DEF Admin, Asks, At, Holds, Goes, Kinds
<1>13. CASE Touch(s)
  BY <1>13 DEF Touch, Asks, At, Holds, Goes
<1>14. CASE Cgi(s)
  BY <1>14, NewBodyTypes DEF Cgi, Asks, At, Holds, Goes, Kinds
<1>15. CASE Pclose(s)
  BY <1>15, NewBodyTypes DEF Pclose, At, Holds, Goes, Kinds
<1>16. CASE Favicon(s)
  BY <1>16 DEF Favicon, Asks, At, Goes
<1>17. CASE IconLoad(s)
  BY <1>17 DEF IconLoad, At, Goes
<1>18. CASE IconRead(s)
  BY <1>18 DEF IconRead, At, Goes
<1>19. CASE IconServe(s)
  BY <1>19, NewBodyTypes DEF IconServe, At, Holds, Goes, Kinds
<1>20. CASE IconSend(s)
  BY <1>20 DEF IconSend, At, Sends, Touches, Done, Goes
<1> QED BY <1>1, <1>2, <1>3, <1>4, <1>5, <1>6, <1>7, <1>8, <1>9, <1>10, <1>11, <1>12,
       <1>13, <1>14, <1>15, <1>16, <1>17, <1>18, <1>19, <1>20 DEF PageStep

\* and under those of the proxy.
LEMMA ProxyLoads ==
    ASSUME PageTypes, \A t \in Sessions : Ready(t), NEW s \in Sessions, ProxyStep(s)
    PROVE  \A t \in Sessions : Ready(t)'
<1> USE DEF PageTypes, Ready, Loads, Formed, Bodied, Inside
<1>1. CASE ProxyBusy(s)
  BY <1>1 DEF ProxyBusy, Asks, At, EndsWith
<1>2. CASE ProxyGet(s)
  BY <1>2, NewBodyTypes DEF ProxyGet, Asks, At, Holds, Goes, Kinds
<1>3. CASE ProxyForm(s)
  <2>1. UNCHANGED <<body, loading>>
    BY <1>3 DEF ProxyForm
  <2>2. CASE UNCHANGED <<place, form_data>>
    BY <2>1, <2>2
  <2>3. CASE form_data' = [form_data EXCEPT ![s] = None]
             /\ \E p \in {"loadForm", "named"} : place' = [place EXCEPT ![s] = p]
    BY <2>1, <2>3
  <2>4. CASE form_data[s] # NoForm /\ Goes(s, "named") /\ UNCHANGED form_data
    BY <2>1, <2>4 DEF Goes
  <2> QED BY <1>3, <2>2, <2>3, <2>4 DEF ProxyForm
<1>4. CASE LoadForm(s)
  BY <1>4 DEF LoadForm, At, Goes
<1>5. CASE Named(s)
  BY <1>5 DEF Named, Moves, At, Goes
<1>6. CASE Go(s)
  <2>1. UNCHANGED <<loading, form_data>>
    BY <1>6 DEF Go, Moves
  <2>2. CASE destination = None
    <3>1. /\ place' = [place EXCEPT ![s] = "respond"]
          /\ \A t \in Sessions \ {s} : body'[t] = body[t]
      BY <1>6, <2>2, NewBodyTypes DEF Go, Moves, Goes, Kinds
    <3> QED BY <2>1, <3>1
  <2>3. CASE destination # None
    <3>1. body' = body
      BY <1>6, <2>3 DEF Go
    <3>2. place' \in {place, [place EXCEPT ![s] = "create"]}
      BY <1>6, <2>3 DEF Go, Moves, Goes
    <3> QED BY <2>1, <3>1, <3>2
  <2> QED BY <2>2, <2>3
<1>7. CASE Create(s)
  BY <1>7 DEF Create, Moves, At, Goes
<1>8. CASE Dial(s)
  BY <1>8 DEF Dial, Moves, At, Goes, Calls
<1>9. CASE Transfer(s)
  BY <1>9 DEF Transfer, Moves, At, Goes, Calls, Holds
<1>10. CASE Close(s)
  BY <1>10 DEF Close, Moves, At, Goes, Calls
<1>11. CASE ProxyDrop(s)
  BY <1>11 DEF ProxyDrop, Moves, At, Goes
<1>12. CASE ProxyClear(s)
  BY <1>12 DEF ProxyClear, Moves, At, Goes, Holds, Forgets
<1> QED BY <1>1, <1>2, <1>3, <1>4, <1>5, <1>6, <1>7, <1>8, <1>9, <1>10, <1>11,
       <1>12 DEF ProxyStep
-----------------------------------------------------------------------------
(* Theorems *)

\* A step of a page leaves the proxy, a step of the proxy may be of any kind.
LEMMA NextKeeps == TypeOK /\ BodyInv /\ [Next]_vars => TypeOK' /\ BodyInv'
<1> SUFFICES ASSUME TypeOK, BodyInv, [Next]_vars PROVE TypeOK' /\ BodyInv'
  OBVIOUS
<1>1. PageTypes /\ ProxyTypes /\ \A t \in Sessions : Ready(t)
  BY TypeParts
<1>2. SUFFICES (PageTypes /\ ProxyTypes /\ \A t \in Sessions : Ready(t))' /\ BodyInv'
  <2>1. TypeOK' <=> (PageTypes /\ ProxyTypes /\ \A t \in Sessions : Ready(t))'
    BY DEF TypeOK, PageTypes, ProxyTypes, Loads, Formed, Bodied, Ready, Places, BlockTypes
  <2> QED BY <2>1
<1>3. ASSUME NEW s \in Sessions, PageStep(s), UNCHANGED proxy
      PROVE  (PageTypes /\ ProxyTypes /\ \A t \in Sessions : Ready(t))' /\ BodyInv'
  <2>1. PageTypes' /\ BodyInv' /\ \A t \in Sessions : Ready(t)'
    BY <1>1, <1>3, PageTypesKept, BodyPages, PagesLoad
  <2>2. ProxyTypes'
    BY <1>1, <1>3 DEF ProxyTypes
  <2> QED BY <2>1, <2>2
<1>4. ASSUME NEW s \in Sessions, ProxyStep(s)
      PROVE  (PageTypes /\ ProxyTypes /\ \A t \in Sessions : Ready(t))' /\ BodyInv'
  BY <1>1, <1>4, ProxyPagesKept, ProxyTypesKept, BodyProxy, ProxyLoads
<1>5. CASE UNCHANGED vars
  BY <1>1, <1>5 DEF PageTypes, ProxyTypes, Ready, Loads, Formed, Bodied, BodyInv, Reqs,
         BodyOf, LoadsAlone, Own,
                    OwnBody
<1> QED BY <1>3, <1>4, <1>5 DEF Next

\* Types, for any sessions, blocks and hosts.
THEOREM TypeCorrect == Spec => []TypeOK
BY TypeInit, BodyInit, NextKeeps, PTL DEF Spec

\* Every body that is sent or deleted is the one made for the request, or the icon;
\* only the four actions that return a response they may not have filled break this.
THEOREM BodiesOwned == Spec => []OwnBody
<1>1. BodyInv => OwnBody
  BY DEF BodyInv
<1> QED BY <1>1, TypeInit, BodyInit, NextKeeps, PTL DEF Spec

-----------------------------------------------------------------------------
(* The members of the proxy *)

\* While the members are set there is a thread inside that will reset them: it goes
\* through "drop" and "clear", and a transport is dropped by who created it.
Later == Inside \ {"loadForm", "named"}
MembersHeld ==
    /\ destination # None => \E s \in Sessions : place[s] \in Later
    /\ proxy_transport # None =>
           place[proxy_transport] \in {"dial", "transfer", "close", "drop"}

\* A session answering a page is not inside, and moves nobody else.
LEMMA PagesStayOut ==
    ASSUME PageTypes, NEW s \in Sessions, PageStep(s)
    PROVE  place[s] \notin Inside /\ \A t \in Sessions \ {s} : place'[t] = place[t]
<1> USE DEF PageTypes, At, Asks, Goes, Inside
<1>1. CASE Respond(s)
  BY <1>1 DEF Respond
<1>2. CASE Release(s)
  BY <1>2 DEF Release, Done
<1>3. CASE Leave(s)
  BY <1>3 DEF Leave, Gone
<1>4. CASE Unrouted(s)
  BY <1>4 DEF Unrouted
<1>5. CASE BreakOff(s)
  BY <1>5 DEF BreakOff, Gone
<1>6. CASE FileFound(s)
  BY <1>6 DEF FileFound
<1>7. CASE FileMissing(s)
  BY <1>7 DEF FileMissing
<1>8. CASE MissSend(s)
  BY <1>8 DEF MissSend
<1>9. CASE MissDelete(s)
  BY <1>9 DEF MissDelete, Done
<1>10. CASE Directory(s)
  BY <1>10 DEF Directory
<1>11. CASE PostForm(s)
  BY <1>11 DEF PostForm
<1>12. CASE Admin(s)
  BY <1>12 DEF Admin
<1>13. CASE Touch(s)
  BY <1>13 DEF Touch
<1>14. CASE Cgi(s)
  BY <1>14 DEF Cgi
<1>15. CASE Pclose(s)
  BY <1>15 DEF Pclose
<1>16. CASE Favicon(s)
  BY <1>16 DEF Favicon
<1>17. CASE IconLoad(s)
  BY <1>17 DEF IconLoad
<1>18. CASE IconRead(s)
  BY <1>18 DEF IconRead
<1>19. CASE IconServe(s)
  BY <1>19 DEF IconServe
<1>20. CASE IconSend(s)
  BY <1>20 DEF IconSend, Done
<1> QED BY <1>1, <1>2, <1>3, <1>4, <1>5, <1>6, <1>7, <1>8, <1>9, <1>10, <1>11, <1>12,
       <1>13, <1>14, <1>15, <1>16, <1>17, <1>18, <1>19, <1>20 DEF PageStep

\* Members that are set have a thread inside that will reset them: a step of the
\* proxy keeps that.
LEMMA MembersStay ==
    ASSUME PageTypes, ProxyTypes, MembersHeld, NEW s \in Sessions, ProxyStep(s)
    PROVE  MembersHeld'
<1> USE DEF PageTypes, ProxyTypes, MembersHeld, Later, Inside
<1>1. CASE ProxyBusy(s)
  BY <1>1, NoneIsNothing DEF ProxyBusy, Asks, At, EndsWith
<1>2. CASE ProxyGet(s)
  BY <1>2, NoneIsNothing DEF ProxyGet, Asks, At, Goes
<1>3. CASE ProxyForm(s)
  <2>1. place[s] = "request" /\ UNCHANGED members
    BY <1>3 DEF ProxyForm, Asks, At
  <2>2. place' = place \/ \E p \in {"loadForm", "named"} : place' = [place EXCEPT ![s] = p]
    BY <1>3 DEF ProxyForm, Goes
  <2> QED BY <2>1, <2>2
<1>4. CASE LoadForm(s)
  BY <1>4, NoneIsNothing DEF LoadForm, At, Goes
<1>5. CASE Named(s)
  BY <1>5, NoneIsNothing DEF Named, Moves, At, Goes
<1>6. CASE Go(s)
  <2>1. CASE destination = None
    BY <1>6, <2>1 DEF Go, Moves, At, Goes
  <2>2. CASE destination # None /\ proxy_transport # None
    BY <1>6, <2>2 DEF Go
  <2>3. CASE destination # None /\ proxy_transport = None
    BY <1>6, <2>3 DEF Go, Moves, At, Goes
  <2> QED BY <2>1, <2>2, <2>3
<1>7. CASE Create(s)
  BY <1>7, NoneIsNothing DEF Create, Moves, At, Goes
<1>8. CASE Dial(s)
  BY <1>8, NoneIsNothing DEF Dial, Moves, At, Goes
<1>9. CASE Transfer(s)
  BY <1>9, NoneIsNothing DEF Transfer, Moves, At, Goes
<1>10. CASE Close(s)
  BY <1>10, NoneIsNothing DEF Close, Moves, At, Goes
<1>11. CASE ProxyDrop(s)
  BY <1>11, NoneIsNothing DEF ProxyDrop, Moves, At, Goes
<1>12. CASE ProxyClear(s)
  BY <1>12, NoneIsNothing DEF ProxyClear, Moves, At, Goes
<1> QED BY <1>1, <1>2, <1>3, <1>4, <1>5, <1>6, <1>7, <1>8, <1>9, <1>10, <1>11,
       <1>12 DEF ProxyStep

\* So it holds for ever, since no page touches the members.
LEMMA MembersAreHeld == Spec => []MembersHeld
<1>1. Init => MembersHeld
  BY DEF Init, PageInit, MembersHeld
<1>2. TypeOK /\ MembersHeld /\ [Next]_vars => MembersHeld'
  <2> SUFFICES ASSUME TypeOK, MembersHeld, [Next]_vars PROVE MembersHeld'
    OBVIOUS
  <2>1. PageTypes /\ ProxyTypes
    BY TypeParts
  <2>2. ASSUME NEW s \in Sessions, PageStep(s), UNCHANGED proxy PROVE MembersHeld'
    <3>1. place[s] \notin Inside /\ \A t \in Sessions \ {s} : place'[t] = place[t]
      BY <2>1, <2>2, PagesStayOut
    <3> QED BY <2>1, <2>2, <3>1, NoneIsNothing DEF MembersHeld, Later, Inside, ProxyTypes
  <2>3. ASSUME NEW s \in Sessions, ProxyStep(s) PROVE MembersHeld'
    BY <2>1, <2>3, MembersStay
  <2>4. CASE UNCHANGED vars
    BY <2>4 DEF MembersHeld
  <2> QED BY <2>2, <2>3, <2>4 DEF Next
<1> QED BY <1>1, <1>2, TypeCorrect, PTL DEF Spec

\* When nobody is inside, destination and transport are as at the start.
THEOREM ProxyIsLeftClean == Spec => []ProxyLeftClean
<1>1. TypeOK /\ MembersHeld => ProxyLeftClean
  BY DEF TypeOK, MembersHeld, ProxyLeftClean, InProxy, Later, Inside
<1> QED BY <1>1, TypeCorrect, MembersAreHeld, PTL
-----------------------------------------------------------------------------
(* AloneIsServed *)

Served(s) ==
    /\ destination = IF place[s] \in {"loadForm", "named"} \/ form_data[s] = None
                         THEN None ELSE form_data[s]
    /\ proxy_transport = IF place[s] \in {"dial", "transfer", "close", "drop"}
                             THEN s ELSE None
    /\ place[s] \in Inside \ {"loadForm", "named", "go"} => host[s] = form_data[s]
    /\ place[s] = "transfer" => via[s] = s
    /\ ended \notin {"Proxy transport already defined", "no transport"}

\* Whoever is not disturbed is the only one inside.
Alone(s) == \A t \in Sessions : place[t] \in Inside => t = s
AloneInv ==
    \A s \in Sessions : place[s] \in Inside /\ ~disturbed[s] => Alone(s) /\ Served(s)

\* A session answering a page has no part in it.
LEMMA PagesApart ==
    ASSUME PageTypes, NEW s \in Sessions, PageStep(s)
    PROVE  /\ place'[s] \notin Inside
           /\ \A t \in Sessions \ {s} : form_data'[t] = form_data[t]
           /\ ended' \in {ended, "double free", "null body"}
<1> USE DEF PageTypes, At, Asks, Goes, Inside
<1>1. CASE Respond(s)
  BY <1>1 DEF Respond, Sends
<1>2. CASE Release(s)
  BY <1>2 DEF Release, Done, Deletes, EndsWith
<1>3. CASE Leave(s)
  BY <1>3 DEF Leave, Gone
<1>4. CASE Unrouted(s)
  BY <1>4 DEF Unrouted
<1>5. CASE BreakOff(s)
  BY <1>5 DEF BreakOff, Gone, Sends
<1>6. CASE FileFound(s)
  BY <1>6 DEF FileFound
<1>7. CASE FileMissing(s)
  BY <1>7 DEF FileMissing
<1>8. CASE MissSend(s)
  BY <1>8 DEF MissSend, Sends
<1>9. CASE MissDelete(s)
  BY <1>9 DEF MissDelete, Deletes, EndsWith, Done
<1>10. CASE Directory(s)
  BY <1>10 DEF Directory
<1>11. CASE PostForm(s)
  BY <1>11 DEF PostForm
<1>12. CASE Admin(s)
  BY <1>12 DEF Admin
<1>13. CASE Touch(s)
  BY <1>13 DEF Touch
<1>14. CASE Cgi(s)
  BY <1>14 DEF Cgi
<1>15. CASE Pclose(s)
  BY <1>15 DEF Pclose
<1>16. CASE Favicon(s)
  BY <1>16 DEF Favicon
<1>17. CASE IconLoad(s)
  BY <1>17 DEF IconLoad
<1>18. CASE IconRead(s)
  BY <1>18 DEF IconRead
<1>19. CASE IconServe(s)
  BY <1>19 DEF IconServe
<1>20. CASE IconSend(s)
  BY <1>20 DEF IconSend, Sends, Done
<1> QED BY <1>1, <1>2, <1>3, <1>4, <1>5, <1>6, <1>7, <1>8, <1>9, <1>10, <1>11, <1>12,
       <1>13, <1>14, <1>15, <1>16, <1>17, <1>18, <1>19, <1>20 DEF PageStep

\* Whoever enters meets the members as at the start, or somebody, and then both know.
LEMMA AloneEnters ==
    ASSUME PageTypes, ProxyTypes, MembersHeld, AloneInv, NEW s \in Sessions, ProxyForm(s),
           NEW r \in Sessions, place'[r] \in Inside, ~disturbed'[r]
    PROVE  Alone(r)' /\ Served(r)'
<1> USE DEF PageTypes, ProxyTypes
<1>1. /\ place[s] = "request" /\ ended = "no" /\ destination = None
      /\ UNCHANGED <<destination, proxy_transport, via, host>>
  BY DEF ProxyForm, Asks, At, Up
<1>2. CASE UNCHANGED <<place, form_data, disturbed>> /\ ended' = "no form"
  BY <1>1, <1>2 DEF AloneInv, Alone, Served, Inside
<1>3. ASSUME NEW p \in {"loadForm", "named"}, Goes(s, p), Joins(s), UNCHANGED ended,
             \A t \in Sessions \ {s} : form_data'[t] = form_data[t]
      PROVE  Alone(r)' /\ Served(r)'
  <2>1. /\ place'[s] = p /\ p \in Inside
        /\ \A t \in Sessions \ {s} : place'[t] = place[t]
    BY <1>3 DEF Goes, Inside
  <2>2. CASE r = s
    <3>1. \A t \in Sessions \ {s} : place[t] \notin Inside
      BY <1>3, <2>2 DEF Joins, InProxy
    <3>2. Alone(s)'
      BY <2>1, <3>1 DEF Alone
    <3>3. proxy_transport = None
      BY <1>1, <3>1 DEF MembersHeld, Inside
    <3> QED BY <1>1, <1>3, <2>1, <2>2, <3>2, <3>3 DEF Served
  <2>3. CASE r # s
    <3>1. r \in InProxy \ {s}
      BY <2>1, <2>3 DEF InProxy
    <3> QED BY <1>3, <3>1 DEF Joins
  <2> QED BY <2>2, <2>3
<1>4. \A t \in Sessions \ {s} : form_data'[t] = form_data[t]
  BY DEF ProxyForm
<1> QED BY <1>2, <1>3, <1>4 DEF ProxyForm, Goes, EndsWith

\* Whoever is inside and not disturbed finds what it left there.
LEMMA AloneGoesOn ==
    ASSUME PageTypes, ProxyTypes, \A t \in Sessions : Ready(t), AloneInv,
           NEW s \in Sessions, place[s] \in Inside, ProxyStep(s),
           NEW r \in Sessions, place'[r] \in Inside, ~disturbed'[r]
    PROVE  Alone(r)' /\ Served(r)'
<1> USE DEF PageTypes, ProxyTypes
<1>1. /\ \A t \in Sessions \ {s} : place'[t] = place[t] /\ (disturbed[t] => disturbed'[t])
      /\ disturbed[s] => disturbed'[s] \/ place'[s] \notin Inside
<2> USE DEF Inside
  <2>1. CASE LoadForm(s)
    BY <2>1 DEF LoadForm, At, Goes
  <2>2. CASE Named(s)
    BY <2>2 DEF Named, At, Goes, Moves, Forgets
  <2>3. CASE Go(s)
    BY <2>3 DEF Go, At, Goes, Moves, Forgets
  <2>4. CASE Create(s)
    BY <2>4 DEF Create, At, Goes, Moves, Forgets
  <2>5. CASE Dial(s)
    BY <2>5 DEF Dial, At, Goes, Moves, Forgets
  <2>6. CASE Transfer(s)
    BY <2>6 DEF Transfer, At, Goes, Moves, Forgets
  <2>7. CASE Close(s)
    BY <2>7 DEF Close, At, Goes, Moves, Forgets
  <2>8. CASE ProxyDrop(s)
    BY <2>8 DEF ProxyDrop, At, Goes, Moves, Forgets
  <2>9. CASE ProxyClear(s)
    BY <2>9 DEF ProxyClear, At, Goes, Moves, Forgets
  <2> QED BY <2>1, <2>2, <2>3, <2>4, <2>5, <2>6, <2>7, <2>8, <2>9 DEF ProxyStep,
         ProxyBusy, ProxyGet,
           ProxyForm, Asks, At
<1>2. r = s
  BY <1>1 DEF AloneInv, Alone
<1>3. Alone(s) /\ Served(s)
  BY <1>1, <1>2 DEF AloneInv
<1>4. Alone(s)'
  BY <1>1, <1>3 DEF Alone
<1>5. Served(s)'
  <2> USE <1>2, <1>3, NoneIsNothing, DeletedIsNobody DEF Served, Inside
  <2>1. CASE LoadForm(s)
    BY <2>1 DEF LoadForm, At, Goes
  <2>2. CASE Named(s)
    BY <2>2 DEF Named, At, Goes, Moves, Forgets
  <2>3. CASE Go(s)
    BY <2>3 DEF Go, At, Goes, Moves, Forgets
  <2>4. CASE Create(s)
    BY <2>4 DEF Create, At, Goes, Moves, Forgets
  <2>5. CASE Dial(s)
    <3>1. /\ place[s] = "dial" /\ UNCHANGED <<form_data, members, host>>
          /\ ended' \in {ended}
      BY <2>5 DEF Dial, Moves, At, Calls
    <3>2. \/ place' = [place EXCEPT ![s] = "drop"] /\ UNCHANGED via
          \/ /\ place' = [place EXCEPT ![s] = "transfer"]
             /\ via' = [via EXCEPT ![s] = proxy_transport]
      BY <2>5 DEF Dial, Moves, Goes
    <3> QED BY <3>1, <3>2
  <2>6. CASE Transfer(s)
    BY <2>6 DEF Transfer, At, Goes, Moves, Forgets, Calls
  <2>7. CASE Close(s)
    BY <2>7 DEF Close, At, Goes, Moves, Forgets, Calls
  <2>8. CASE ProxyDrop(s)
    BY <2>8 DEF ProxyDrop, At, Goes, Moves, Forgets
  <2>9. CASE ProxyClear(s)
    BY <2>9 DEF ProxyClear, At, Goes, Moves, Forgets
  <2> QED BY <2>1, <2>2, <2>3, <2>4, <2>5, <2>6, <2>7, <2>8, <2>9 DEF ProxyStep,
         ProxyBusy, ProxyGet,
           ProxyForm, Asks, At
<1> QED BY <1>2, <1>4, <1>5

\* A request that no other one overlaps in the proxy goes to its own host through its
\* own transport, and meets none that is there already and none that is gone.
THEOREM AloneServed == Spec => []AloneIsServed
<1>1. Init => AloneInv
  BY DEF Init, PageInit, AloneInv, Inside
<1>2. TypeOK /\ MembersHeld /\ AloneInv /\ [Next]_vars => AloneInv'
  <2> SUFFICES ASSUME TypeOK, MembersHeld, AloneInv, [Next]_vars,
                      NEW r \in Sessions, place'[r] \in Inside, ~disturbed'[r]
               PROVE  Alone(r)' /\ Served(r)'
    BY DEF AloneInv
  <2>1. PageTypes /\ ProxyTypes /\ \A t \in Sessions : Ready(t)
    BY TypeParts
  <2>2. ASSUME NEW s \in Sessions, PageStep(s), UNCHANGED proxy
        PROVE  Alone(r)' /\ Served(r)'
    <3>1. /\ place[s] \notin Inside /\ place'[s] \notin Inside
          /\ \A t \in Sessions \ {s} : place'[t] = place[t] /\ form_data'[t] = form_data[t]
          /\ ended' \in {ended, "double free", "null body"}
      BY <2>1, <2>2, PagesStayOut, PagesApart
    <3>2. r # s /\ place[r] \in Inside /\ ~disturbed[r]
      BY <2>2, <3>1
    <3>3. Alone(r) /\ Served(r)
      BY <3>2 DEF AloneInv
    <3>4. Alone(r)'
      BY <3>1, <3>3 DEF Alone
    <3> QED BY <2>2, <3>1, <3>2, <3>3, <3>4 DEF Served
  <2>3. ASSUME NEW s \in Sessions, ProxyStep(s) PROVE Alone(r)' /\ Served(r)'
    <3>1. CASE ProxyForm(s)
      BY <2>1, <3>1, AloneEnters
    <3>2. CASE place[s] \in Inside
      BY <2>1, <2>3, <3>2, AloneGoesOn
    <3>3. CASE ProxyBusy(s)
      <4>1. /\ UNCHANGED <<place, form_data, destination, proxy_transport, via, host,
             disturbed>>
            /\ ended' = "WE DID IT!"
        BY <3>3 DEF ProxyBusy, EndsWith
      <4> QED BY <4>1 DEF AloneInv, Alone, Served
    <3>4. CASE ProxyGet(s)
      <4>1. /\ UNCHANGED <<form_data, destination, proxy_transport, via, host, disturbed,
             ended>>
            /\ place' = [place EXCEPT ![s] = "respond"] /\ place[s] \notin Inside
        BY <3>4 DEF ProxyGet, Asks, At, Goes, Inside
      <4>2. r # s /\ \A t \in Sessions \ {s} : place'[t] = place[t]
        BY <2>1, <4>1 DEF PageTypes, Inside
      <4> QED BY <2>1, <4>1, <4>2 DEF AloneInv, Alone, Served, PageTypes, Inside
    <3> QED BY <2>3, <3>1, <3>2, <3>3, <3>4
           DEF ProxyStep, LoadForm, Named, Go, Create, Dial, Transfer, Close, ProxyDrop,
               ProxyClear, Moves, At, Inside
  <2>4. CASE UNCHANGED vars
    BY <2>4 DEF AloneInv, Alone, Served
  <2> QED BY <2>2, <2>3, <2>4 DEF Next
<1>3. AloneInv => AloneIsServed
  BY DEF AloneInv, Served, AloneIsServed, InProxy
<1> QED BY <1>1, <1>2, <1>3, TypeCorrect, MembersAreHeld, PTL DEF Spec
-----------------------------------------------------------------------------
(* What is lost. *)

\* The actions whose blocks may be forgotten, and the places where a session has
\* the block its request filled.
Forgettable == {"unrouted", "cgi", "favicon"}
Keeping == {"respond", "release", "missSend", "missDelete"}
Kept(b) == \E t \in Sessions :
    heap[b] = <<t, req[t]>> /\ body[t] = b /\ place[t] \in Keeping
Accounted == \A b \in Blocks : heap[b] = Free \/ heap[b][2] \in Forgettable \/ Kept(b)

\* The request of s alone moves.
Others(s) == \A t \in Sessions \ {s} :
    place'[t] = place[t] /\ req'[t] = req[t] /\ body'[t] = body[t]

\* A step loses nothing if what it fills stays with s, and s does not turn away
\* from a block that is not deleted.
LEMMA AccountedKept ==
    ASSUME Accounted, NEW s \in Sessions, Others(s),
           \A b \in Blocks :
               \/ heap'[b] \in {heap[b], Free}
               \/ heap'[b][2] \in Forgettable
               \/ heap'[b] = <<s, req'[s]>> /\ body'[s] = b /\ place'[s] \in Keeping,
           \/ place[s] \notin Keeping
           \/ place'[s] \in Keeping /\ req'[s] = req[s] /\ body'[s] = body[s]
           \/ body[s] \notin Blocks
           \/ heap'[body[s]] = Free
    PROVE  Accounted'
BY DEF Accounted, Kept, Others

\* A body is made where the session had none to lose.
LEMMA NewBodyAccounted ==
    ASSUME PageTypes, Accounted, NEW s \in Sessions, NEW k \in Kinds, NewBody(s, k),
           req' = [req EXCEPT ![s] = k], place[s] \notin Keeping,
           NEW p, Goes(s, p), p \in Keeping \/ k \in Forgettable
    PROVE  Accounted'
<1>1. PICK b \in Blocks :
         heap' = [heap EXCEPT ![b] = <<s, k>>] /\ body' = [body EXCEPT ![s] = b]
  BY DEF NewBody, Holds
<1>2. heap'[b] = <<s, k>> /\ req'[s] = k /\ body'[s] = b /\ place'[s] = p
  BY <1>1 DEF PageTypes, Goes
<1>3. Others(s)
  BY <1>1 DEF PageTypes, Goes, Others
<1>4. \A c \in Blocks \ {b} : heap'[c] = heap[c]
  BY <1>1 DEF PageTypes
<1>5. heap'[b][2] = k
  BY <1>2
<1> QED BY <1>2, <1>3, <1>4, <1>5, AccountedKept

\* One session moves on with what it has, or with nothing to lose.
LEMMA MovesAccounted ==
    ASSUME Accounted, NEW s \in Sessions, heap' = heap, Others(s),
           \/ place[s] \notin Keeping
           \/ place'[s] \in Keeping /\ req'[s] = req[s] /\ body'[s] = body[s]
    PROVE  Accounted'
BY AccountedKept

\* A body is deleted, whosever it was.
LEMMA DeletesAccounted ==
    ASSUME PageTypes, Accounted, NEW s \in Sessions, Deletes(s), Others(s)
    PROVE  Accounted'
<1>1. CASE body[s] = None
  <2>1. heap' = heap /\ body[s] \notin Blocks
    BY <1>1, NoneIsNothing DEF Deletes
  <2> QED BY <2>1, AccountedKept
<1>2. CASE body[s] # None
  <2>1. body[s] \in Blocks /\ heap' = [heap EXCEPT ![body[s]] = Free]
    BY <1>2 DEF Deletes, PageTypes
  <2>2. heap'[body[s]] = Free /\ \A c \in Blocks : heap'[c] \in {heap[c], Free}
    BY <2>1 DEF PageTypes
  <2> QED BY <2>2, AccountedKept
<1> QED BY <1>1, <1>2

\* No page action loses a block of another kind.
LEMMA PagesAccounted ==
    ASSUME PageTypes, BodyInv, Accounted, NEW s \in Sessions, PageStep(s)
    PROVE  Accounted'
<1> USE NamedKinds DEF PageTypes, Goes, Others
<1>1. CASE Respond(s)
  BY <1>1, MovesAccounted DEF Respond, At, Keeping
<1>2. CASE Release(s)
  <2>1. Deletes(s) /\ Others(s)
    BY <1>2 DEF Release, Done, Holds
  <2> QED BY <2>1, DeletesAccounted
<1>3. CASE Leave(s)
  BY <1>3, MovesAccounted DEF Leave, At, Gone, Holds, Keeping
<1>4. CASE Unrouted(s)
  <2>1. PICK p \in {"respond", "breakOff"} : Goes(s, p)
    BY <1>4 DEF Unrouted
  <2> QED BY <1>4, <2>1, NewBodyAccounted DEF Unrouted, Asks, At, Keeping, Forgettable
<1>5. CASE BreakOff(s)
  BY <1>5, MovesAccounted DEF BreakOff, At, Gone, Holds, Keeping
<1>6. CASE FileFound(s)
  BY <1>6, MovesAccounted DEF FileFound, At, Asks, Holds, Keeping
<1>7. CASE FileMissing(s)
  <2>1. PICK k \in {"file", "directory"} : Asks(s, k) /\ NewBody(s, k) /\ Goes(s, "missSend")
    BY <1>7 DEF FileMissing
  <2> QED BY <2>1, NewBodyAccounted DEF Asks, At, Keeping
<1>8. CASE MissSend(s)
  BY <1>8, MovesAccounted DEF MissSend, At, Keeping
<1>9. CASE MissDelete(s)
  <2>1. Deletes(s) /\ Others(s)
    BY <1>9 DEF MissDelete, Done
  <2> QED BY <2>1, DeletesAccounted
<1>10. CASE Directory(s)
  BY <1>10, NewBodyAccounted DEF Directory, Asks, At, Keeping
<1>11. CASE PostForm(s)
  BY <1>11, NewBodyAccounted DEF PostForm, Asks, At, Keeping
<1>12. CASE Admin(s)
  <2>1. CASE NewBody(s, "admin")
    BY <1>12, <2>1, NewBodyAccounted DEF Admin, Asks, At, Keeping
  <2>2. CASE Holds(s, None, TRUE) /\ UNCHANGED memory
    BY <1>12, <2>2, MovesAccounted DEF Admin, Asks, At, Holds, Keeping
  <2> QED BY <1>12, <2>1, <2>2 DEF Admin
<1>13. CASE Touch(s)
  BY <1>13, MovesAccounted DEF Touch, Asks, At, Holds, Keeping
<1>14. CASE Cgi(s)
  <2>1. CASE NewBody(s, "cgi")
    <3>1. PICK p \in {"respond", "pclose"} : Goes(s, p)
      BY <1>14 DEF Cgi
    <3> QED BY <1>14, <2>1, <3>1, NewBodyAccounted DEF Cgi, Asks, At, Keeping, Forgettable
  <2>2. CASE UNCHANGED <<response, memory>>
    BY <1>14, <2>2, MovesAccounted DEF Cgi, Asks, At, Keeping
  <2> QED BY <1>14, <2>1, <2>2 DEF Cgi
<1>15. CASE Pclose(s)
  <2>1. CASE NewBody(s, "cgi")
    <3>1. req' = [req EXCEPT ![s] = "cgi"]
      BY <1>15 DEF Pclose, At, BodyInv, Reqs
    <3> QED BY <1>15, <2>1, <3>1, NewBodyAccounted DEF Pclose, At, Keeping, Forgettable
  <2>2. CASE UNCHANGED <<response, memory>>
    BY <1>15, <2>2, MovesAccounted DEF Pclose, At, Keeping
  <2> QED BY <1>15, <2>1, <2>2 DEF Pclose
<1>16. CASE Favicon(s)
  BY <1>16, MovesAccounted DEF Favicon, Asks, At, Keeping
<1>17. CASE IconLoad(s) \/ IconRead(s)
  <2>1. Others(s) /\ place[s] \notin Keeping
    BY <1>17 DEF IconLoad, IconRead, At, Keeping
  <2>2. Icon[2] \in Forgettable
    BY DEF Icon, Forgettable
  <2>3. \A c \in Blocks : heap'[c] \in {heap[c], Free} \/ heap'[c] = Icon
    BY <1>17 DEF IconLoad, IconRead
  <2> QED BY <2>1, <2>2, <2>3, AccountedKept
<1>18. CASE IconServe(s)
  <2>1. CASE favicon_buff # None
    BY <1>18, <2>1, MovesAccounted DEF IconServe, At, Holds, Keeping
  <2>2. CASE favicon_buff = None
    <3>1. req' = [req EXCEPT ![s] = "favicon"]
      BY <1>18 DEF IconServe, At, BodyInv, Reqs
    <3> QED BY <1>18, <2>2, <3>1, NewBodyAccounted DEF IconServe, At, Keeping
  <2> QED BY <2>1, <2>2
<1>19. CASE IconSend(s)
  BY <1>19, MovesAccounted DEF IconSend, At, Done, Keeping
<1> QED BY <1>1, <1>2, <1>3, <1>4, <1>5, <1>6, <1>7, <1>8, <1>9, <1>10, <1>11, <1>12,
       <1>13, <1>14, <1>15, <1>16, <1>17, <1>18, <1>19 DEF PageStep

\* Nor does the proxy.
LEMMA ProxyAccounted ==
    ASSUME PageTypes, BodyInv, Accounted, NEW s \in Sessions, ProxyStep(s)
    PROVE  Accounted'
<1> USE NamedKinds DEF PageTypes, Goes, Others
<1>1. CASE ProxyGet(s)
  BY <1>1, NewBodyAccounted DEF ProxyGet, Asks, At, Keeping
<1>2. CASE Go(s) /\ destination = None
  <2>1. req' = [req EXCEPT ![s] = "proxy"]
    BY <1>2 DEF Go, Moves, At, BodyInv, Reqs, Inside
  <2> QED BY <1>2, <2>1, NewBodyAccounted DEF Go, Moves, At, Keeping
<1>3. CASE ProxyBusy(s) \/ ProxyForm(s) \/ LoadForm(s)
  BY <1>3, MovesAccounted, ZenonT(40) DEF ProxyBusy, ProxyForm, LoadForm, Asks, At, Keeping
<1>4. CASE \/ Go(s) /\ destination # None
           \/ Named(s) \/ Create(s) \/ Dial(s) \/ Close(s) \/ ProxyDrop(s)
  BY <1>4, MovesAccounted
  DEF Go, Named, Create, Dial, Close, ProxyDrop, Moves, At, Keeping
<1>5. CASE Transfer(s) \/ ProxyClear(s)
  BY <1>5, MovesAccounted DEF Transfer, ProxyClear, Holds, Moves, At, Keeping
<1> QED BY <1>1, <1>2, <1>3, <1>4, <1>5 DEF ProxyStep

\* LostAreKnown: whatever session frees whose body, the blocks nobody has any more
\* are pages of connections broken off, output of a CGI, or an icon loaded twice.
THEOREM LossesKnown == Spec => []LostAreKnown
<1>1. Init => Accounted
  BY DEF Init, PageInit, Accounted
<1>2. TypeOK /\ BodyInv /\ Accounted /\ [Next]_vars => Accounted'
  <2> SUFFICES ASSUME TypeOK, BodyInv, Accounted, [Next]_vars PROVE Accounted'
    OBVIOUS
  <2>1. PageTypes
    BY TypeParts
  <2>2. CASE UNCHANGED vars
    BY <2>2 DEF Accounted, Kept
  <2>3. CASE Next
    BY <2>1, <2>3, PagesAccounted, ProxyAccounted DEF Next
  <2> QED BY <2>2, <2>3
<1>3. Accounted => LostAreKnown
  BY DEF Accounted, Kept, Keeping, Forgettable, LostAreKnown, Held
<1> QED BY <1>1, <1>2, <1>3, TypeInit, BodyInit, NextKeeps, PTL DEF Spec
=============================================================================
