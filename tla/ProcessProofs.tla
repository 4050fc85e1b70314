---------------------------- MODULE ProcessProofs ---------------------------
(***************************************************************************)
(* Proofs about the process as a whole, ServerLifecycle, Descriptors and   *)
(* CgiPipes, and about state that is used more than once: what all threads *)
(* share (SharedData) and what a request leaves to the next one on its     *)
(* connection (ResponseFields).                                            *)
(***************************************************************************)
EXTENDS ServerLifecycle, Descriptors, CgiPipes, SharedData, ResponseFields, FiniteSetTheorems, TLAPS

-----------------------------------------------------------------------------
(***************************************************************************)
(* Descriptors, for any number of connections and of numbers: who uses     *)
(* which one. As long as nobody has gone astray, what is open under a      *)
(* number belongs to who uses it.                                          *)
(***************************************************************************)
Early == {"new", "gone"}
WithFile == {"file", "piece", "sent"}

\* The listening socket is open until SIGINT, and main() leaves its loop only then.
ListenerOpen == running = TRUE => table[listening] = Listener
Stopping == main \in {"close", "return", "ended"} => running = FALSE
\* A session has its socket, a thread that sends a file its file.
SocketsOpen ==
    \A s \in Clients : s \notin refused /\ place[s] \notin Early =>
        socket[s] \in Fds /\ table[socket[s]] = Socket(s)
FilesOpen ==
    \A s \in Clients : place[s] \in WithFile => file[s] \in Fds /\ table[file[s]] = File(s)
\* What is open under a number is known by that number, by who still needs it.
Owned ==
    \A n \in Fds : \A s \in Clients :
        /\ table[n] = Socket(s) => n = socket[s] /\ place[s] \notin Early
        /\ table[n] = File(s) => n = file[s] /\ place[s] \in WithFile
Ordered == ListenerOpen /\ SocketsOpen /\ FilesOpen /\ Owned
Astray == stray # Nobody
DInv == FdTypeOK /\ Stopping /\ StrayIsKnown /\ (Astray \/ Ordered)

USE DEF fdvars
-----------------------------------------------------------------------------
\* What may be open under a number: all different.
LEMMA ObjectsDiffer ==
  /\ \A s, t \in Clients : /\ Socket(s) # File(t)
                           /\ Socket(s) = Socket(t) => s = t
                           /\ File(s) = File(t) => s = t
  /\ \A s \in Clients : /\ Socket(s) # Listener /\ Socket(s) # NoObject
                        /\ File(s) # Listener /\ File(s) # NoObject
                        /\ Socket(s) \in Objects /\ File(s) \in Objects
  /\ Listener # NoObject /\ Listener \in Objects
BY DEF Socket, File, Listener, NoObject, Objects

\* -1 and the numbers are different.
LEMMA NoNumber == -1 \notin Fds
BY DescriptorsAssumption

\* A number that is closed is free, and the others are as they were.
LEMMA ClosedOne ==
  ASSUME FdTypeOK, NEW n \in Fds \cup {-1}
  PROVE  /\ Closed(n) \in [Fds -> Objects \cup {NoObject}]
         /\ n \in Fds => Closed(n)[n] = NoObject
         /\ \A k \in Fds : k # n => Closed(n)[k] = table[k]
BY DEF FdTypeOK, Closed

\* A number that is given has been free, and the others are as they were.
LEMMA OpenedOne ==
  ASSUME FdTypeOK, NEW object \in Objects, NEW n \in Fds, Opened(object, n)
  PROVE  /\ table' \in [Fds -> Objects \cup {NoObject}]
         /\ table[n] = NoObject /\ table'[n] = object
         /\ \A k \in Fds : k # n => table'[k] = table[k]
BY DEF FdTypeOK, Opened

\* A thread that goes from here to there is there, and the others stay.
LEMMA GoesOne ==
  ASSUME FdTypeOK, NEW s \in Clients, NEW here, NEW there, Goes(s, here, there)
  PROVE  /\ place[s] = here /\ place'[s] = there
         /\ \A t \in Clients : t # s => place'[t] = place[t]
BY DEF FdTypeOK, Goes

\* Who is the first to go astray uses a number that is open for another.
LEMMA UsesOwn ==
  ASSUME NEW actor \in Actors, NEW n, NEW object, Uses(actor, n, object)
  PROVE  /\ stray' \in {stray, actor}
         /\ Astray => stray' = stray
         /\ ~Astray' => ~Astray /\ ~Foreign(n, object)
         /\ Foreign(n, object) \/ stray' = stray
BY DescriptorsAssumption DEF Uses, Astray, Actors

\* A step keeps to the domains.
LEMMA FdTyped == FdTypeOK /\ [FdNext]_fdvars => FdTypeOK'
<1> SUFFICES ASSUME FdTypeOK, [FdNext]_fdvars PROVE FdTypeOK'
  OBVIOUS
<1> USE DEF FdTypeOK
<1>a. {"main", "handler"} \cup Clients \subseteq Actors
  BY DEF Actors
<1>1. CASE AcceptLoop \/ AcceptFails \/ Ends
  BY <1>1 DEF AcceptLoop, AcceptFails, Ends
<1>2. CASE TakesListener
  BY <1>2, <1>a, UsesOwn DEF TakesListener
<1>3. CASE CloseAgain
  BY <1>3, <1>a, UsesOwn, ClosedOne DEF CloseAgain
<1>4. CASE Interrupted
  <2>1. signals' \in Nat
    BY <1>4 DEF Interrupted
  <2> QED BY <2>1, <1>4, <1>a, UsesOwn, ClosedOne DEF Interrupted
<1>5. ASSUME NEW s \in Clients, Accepted(s) PROVE FdTypeOK'
  BY <1>5, OpenedOne, ObjectsDiffer DEF Accepted, Goes
<1>6. ASSUME NEW s \in Clients, NEW ok \in BOOLEAN, Spawned(s, ok) PROVE FdTypeOK'
  BY <1>6 DEF Spawned, Goes
<1>7. ASSUME NEW s \in Clients, HandshakeFails(s) \/ CloseSocket(s) PROVE FdTypeOK'
  <2>1. stray' \in {stray, s}
    BY <1>7, <1>a, UsesOwn DEF HandshakeFails, CloseSocket
  <2>2. table' \in [Fds -> Objects \cup {NoObject}]
    BY <1>7, ClosedOne DEF HandshakeFails, CloseSocket
  <2>3. CASE HandshakeFails(s)
    BY <2>1, <2>2, <2>3, <1>a DEF HandshakeFails, Goes
  <2>4. CASE CloseSocket(s)
    BY <2>1, <2>2, <2>4, <1>a DEF CloseSocket, Goes
  <2> QED BY <1>7, <2>3, <2>4
<1>8. ASSUME NEW s \in Clients, CloseFile(s) PROVE FdTypeOK'
  BY <1>8, <1>a, UsesOwn, ClosedOne DEF CloseFile, Goes
<1>9. ASSUME NEW s \in Clients,
             \/ HandshakeOk(s) \/ ReadRequest(s) \/ LastRead(s) \/ SendPage(s)
             \/ ReadFile(s) \/ SendPiece(s)
      PROVE  FdTypeOK'
  BY <1>9, <1>a, UsesOwn
  DEF HandshakeOk, ReadRequest, LastRead, SendPage, ReadFile, SendPiece, Goes
<1>10. ASSUME NEW s \in Clients, OpenFile(s) PROVE FdTypeOK'
  BY <1>10, OpenedOne, ObjectsDiffer DEF OpenFile, Goes
<1>11. CASE UNCHANGED fdvars
  BY <1>11
<1> QED
  BY <1>1, <1>2, <1>3, <1>4, <1>5, <1>6, <1>7, <1>8, <1>9, <1>10, <1>11
  DEF FdNext, SessionStep

-----------------------------------------------------------------------------
\* main() closes and returns only once the handler has run.
LEMMA StepStopping == DInv /\ [FdNext]_fdvars => Stopping'
<1> SUFFICES ASSUME DInv, [FdNext]_fdvars PROVE Stopping'
  OBVIOUS
<1> USE DEF Stopping
<1>0. Stopping /\ running \in BOOLEAN
  BY DEF DInv, FdTypeOK
<1>1. CASE AcceptLoop
  <2>1. CASE running = TRUE
    BY <1>1, <2>1 DEF AcceptLoop
  <2>2. CASE running = FALSE
    BY <1>1, <2>2, Zenon DEF AcceptLoop
  <2> QED BY <2>1, <2>2, <1>0, Zenon
<1>2. CASE TakesListener \/ AcceptFails \/ (\E s \in Clients : Accepted(s))
      \/ (\E s \in Clients, ok \in BOOLEAN : Spawned(s, ok))
  BY <1>2 DEF TakesListener, AcceptFails, Accepted, Spawned
<1>3. CASE CloseAgain \/ Ends
  <2>1. main \in {"close", "return"}
    BY <1>3 DEF CloseAgain, Ends
  <2>2. running = FALSE
    BY <2>1, <1>0
  <2>3. running' = running
    BY <1>3, Zenon DEF CloseAgain, Ends
  <2> QED BY <2>2, <2>3, Zenon
<1>4. CASE Interrupted
  BY <1>4, Zenon DEF Interrupted
<1>5. ASSUME NEW s \in Clients, SessionStep(s) PROVE Stopping'
  <2>1. main' = main /\ running' = running
    BY <1>5, Zenon DEF SessionStep, HandshakeOk, HandshakeFails, ReadRequest, LastRead, OpenFile, SendPage,
                ReadFile, SendPiece, CloseFile, CloseSocket
  <2> QED BY <2>1, <1>0, Zenon
<1>6. CASE UNCHANGED fdvars
  BY <1>6, <1>0, Zenon
<1> QED BY <1>1, <1>2, <1>3, <1>4, <1>5, <1>6 DEF FdNext

\* Who uses its number while all is in order does not go astray: main() and the handler
\* before SIGINT, a session whose handshake did not fail, and any with its file.
LEMMA StepStray == DInv /\ [FdNext]_fdvars => StrayIsKnown'
<1> SUFFICES ASSUME DInv, [FdNext]_fdvars PROVE StrayIsKnown'
  OBVIOUS
<1> DEFINE Known == stray = Nobody \/ stray \in refused
                    \/ (stray \in {"main", "handler"} /\ running = FALSE)
<1>0. running \in BOOLEAN /\ FdTypeOK /\ Stopping /\ Known /\ (Astray \/ Ordered)
  BY DEF DInv, FdTypeOK, StrayIsKnown
<1>k. refused \subseteq refused' /\ (running = FALSE => running' = FALSE)
  <2>1. refused \subseteq refused'
    BY DEF FdNext, AcceptLoop, TakesListener, AcceptFails, Accepted, Spawned, CloseAgain, Ends,
       Interrupted, SessionStep, HandshakeOk, HandshakeFails, ReadRequest, LastRead, OpenFile,
       SendPage, ReadFile, SendPiece, CloseFile, CloseSocket
  <2>2. running' = running \/ running' = FALSE
    BY Zenon DEF FdNext, AcceptLoop, TakesListener, AcceptFails, Accepted, Spawned, CloseAgain, Ends,
       Interrupted, SessionStep, HandshakeOk, HandshakeFails, ReadRequest, LastRead, OpenFile,
       SendPage, ReadFile, SendPiece, CloseFile, CloseSocket
  <2> QED BY <2>1, <2>2, Zenon
<1>s. stray' = stray => StrayIsKnown'
  BY <1>0, <1>k, Zenon DEF StrayIsKnown
<1>1. CASE AcceptLoop \/ AcceptFails \/ Ends
  BY <1>1, <1>s DEF AcceptLoop, AcceptFails, Ends
<1>2. CASE TakesListener \/ CloseAgain
  <2>1. Uses("main", listening, Listener) /\ running' = running
    BY <1>2, Zenon DEF TakesListener, CloseAgain
  <2>2. CASE running = TRUE /\ ~Astray
    <3>1. ~Foreign(listening, Listener)
      BY <2>2, <1>0 DEF Ordered, ListenerOpen, Foreign
    <3> QED BY <2>1, <3>1, <1>s DEF Uses
  <2>3. CASE running = FALSE
    <3>1. stray' = stray \/ stray' = "main"
      BY <2>1 DEF Uses
    <3> QED BY <3>1, <2>1, <2>3, <1>s, Zenon DEF StrayIsKnown
  <2>4. CASE Astray
    BY <2>1, <2>4, <1>s DEF Uses, Astray
  <2> QED BY <2>2, <2>3, <2>4, <1>0, Zenon
<1>3. CASE Interrupted
  <2>1. stray' = stray \/ stray' = "handler"
    BY <1>3 DEF Interrupted, Uses
  <2>2. running' = FALSE
    BY <1>3, Zenon DEF Interrupted
  <2> QED BY <2>1, <2>2, <1>s, Zenon DEF StrayIsKnown
<1>4. ASSUME NEW s \in Clients, Accepted(s) \/ OpenFile(s)
             \/ \E ok \in BOOLEAN : Spawned(s, ok)
      PROVE  StrayIsKnown'
  BY <1>4, <1>s DEF Accepted, OpenFile, Spawned
<1>5. ASSUME NEW s \in Clients,
             \/ HandshakeOk(s) \/ HandshakeFails(s) \/ ReadRequest(s) \/ LastRead(s)
             \/ SendPage(s) \/ SendPiece(s) \/ CloseSocket(s)
      PROVE  StrayIsKnown'
  <2>1. Uses(s, socket[s], Socket(s)) /\ place[s] \notin Early
    BY <1>5 DEF HandshakeOk, HandshakeFails, ReadRequest, LastRead, SendPage, SendPiece,
                CloseSocket, Goes, Early
  <2>2. CASE s \in refused
    <3>1. stray' = stray \/ stray' = s
      BY <2>1 DEF Uses
    <3> QED BY <3>1, <2>2, <1>k, <1>s DEF StrayIsKnown
  <2>3. CASE s \notin refused /\ ~Astray
    <3>1. ~Foreign(socket[s], Socket(s))
      BY <2>1, <2>3, <1>0 DEF Ordered, SocketsOpen, Foreign
    <3> QED BY <2>1, <3>1, <1>s DEF Uses
  <2>4. CASE Astray
    BY <2>1, <2>4, <1>s DEF Uses, Astray
  <2> QED BY <2>2, <2>3, <2>4
<1>6. ASSUME NEW s \in Clients, ReadFile(s) \/ CloseFile(s) PROVE StrayIsKnown'
  <2>1. Uses(s, file[s], File(s)) /\ place[s] \in WithFile
    BY <1>6 DEF ReadFile, CloseFile, Goes, WithFile
  <2>2. CASE ~Astray
    <3>1. ~Foreign(file[s], File(s))
      BY <2>1, <2>2, <1>0 DEF Ordered, FilesOpen, Foreign
    <3> QED BY <2>1, <3>1, <1>s DEF Uses
  <2>3. CASE Astray
    BY <2>1, <2>3, <1>s DEF Uses, Astray
  <2> QED BY <2>2, <2>3
<1>7. CASE UNCHANGED fdvars
  BY <1>7, <1>s
<1> QED BY <1>1, <1>2, <1>3, <1>4, <1>5, <1>6, <1>7 DEF FdNext, SessionStep

\* Nothing is opened or closed, and nobody comes or goes.
LEMMA SameOrder ==
  ASSUME Ordered, UNCHANGED <<table, listening, socket, file, place, refused>>,
         running' = running
  PROVE  Ordered'
BY DEF Ordered, ListenerOpen, SocketsOpen, FilesOpen, Owned

\* Nothing is opened or closed: a thread goes on with what it has.
LEMMA GoesInOrder ==
  ASSUME FdTypeOK, Ordered, NEW s \in Clients, NEW here, NEW there, Goes(s, here, there),
         UNCHANGED <<table, listening, socket, file, refused>>, running' = running,
         here \notin Early, there \notin Early, here \in WithFile <=> there \in WithFile
  PROVE  Ordered'
<1>1. /\ place[s] = here /\ place'[s] = there
      /\ \A t \in Clients : t # s => place'[t] = place[t]
  BY GoesOne
<1>2. ListenerOpen'
  BY DEF Ordered, ListenerOpen
<1>3. SocketsOpen'
  BY <1>1 DEF Ordered, SocketsOpen
<1>4. FilesOpen'
  BY <1>1 DEF Ordered, FilesOpen
<1>5. Owned'
  BY <1>1 DEF Ordered, Owned
<1> QED BY <1>2, <1>3, <1>4, <1>5 DEF Ordered

\* The listener is closed by its number, which is still its own or free.
LEMMA ListenerClosed ==
  ASSUME FdTypeOK, Ordered, ~Foreign(listening, Listener), table' = Closed(listening),
         UNCHANGED <<listening, socket, file, place, refused>>, running' = FALSE
  PROVE  Ordered'
<1>1. /\ listening \in Fds /\ table'[listening] = NoObject
      /\ \A k \in Fds : k # listening => table'[k] = table[k]
      /\ table[listening] \in {Listener, NoObject}
  BY ClosedOne DEF FdTypeOK, Foreign
<1>2. ListenerOpen'
  BY DEF ListenerOpen
<1>3. SocketsOpen'
  BY <1>1, ObjectsDiffer DEF Ordered, SocketsOpen
<1>4. FilesOpen'
  BY <1>1, ObjectsDiffer DEF Ordered, FilesOpen
<1>5. Owned'
  BY <1>1, ObjectsDiffer DEF Ordered, Owned
<1> QED BY <1>2, <1>3, <1>4, <1>5 DEF Ordered

\* A session closes its socket, by a number that is still its own or free.
LEMMA SocketClosed ==
  ASSUME FdTypeOK, Ordered, NEW s \in Clients, ~Foreign(socket[s], Socket(s)),
         table' = Closed(socket[s]), NEW here, NEW there, Goes(s, here, there),
         UNCHANGED <<listening, socket, file>>, running' = running,
         refused \subseteq refused', there = "gone" \/ s \in refused',
         here \notin WithFile, there \notin WithFile,
         here \notin Early
  PROVE  Ordered'
<1>1. /\ place[s] = here /\ place'[s] = there
      /\ \A t \in Clients : t # s => place'[t] = place[t]
  BY GoesOne
<1>2. /\ socket[s] \in Fds \cup {-1}
      /\ socket[s] \in Fds => /\ table'[socket[s]] = NoObject
                              /\ table[socket[s]] \in {Socket(s), NoObject}
      /\ \A k \in Fds : k # socket[s] => table'[k] = table[k]
  BY ClosedOne DEF FdTypeOK, Foreign
<1>3. ListenerOpen'
  BY <1>2, ObjectsDiffer DEF Ordered, ListenerOpen, FdTypeOK
<1>4. SocketsOpen'
  <2> SUFFICES ASSUME NEW t \in Clients, t \notin refused', place'[t] \notin Early
               PROVE  socket[t] \in Fds /\ table'[socket[t]] = Socket(t)
    BY DEF SocketsOpen
  <2>1. t # s
    BY <1>1 DEF Early
  <2>2. socket[t] \in Fds /\ table[socket[t]] = Socket(t)
    BY <2>1, <1>1 DEF Ordered, SocketsOpen
  <2>3. socket[t] # socket[s]
    BY <2>1, <2>2, <1>2, ObjectsDiffer
  <2> QED BY <2>2, <2>3, <1>2
<1>5. FilesOpen'
  <2> SUFFICES ASSUME NEW t \in Clients, place'[t] \in WithFile
               PROVE  file[t] \in Fds /\ table'[file[t]] = File(t)
    BY DEF FilesOpen
  <2>1. t # s
    BY <1>1
  <2>2. file[t] \in Fds /\ table[file[t]] = File(t)
    BY <2>1, <1>1 DEF Ordered, FilesOpen
  <2>3. file[t] # socket[s]
    BY <2>2, <1>2, ObjectsDiffer
  <2> QED BY <2>2, <2>3, <1>2
<1>6. Owned'
  <2> SUFFICES ASSUME NEW n \in Fds, NEW t \in Clients
               PROVE  /\ table'[n] = Socket(t) => n = socket[t] /\ place'[t] \notin Early
                      /\ table'[n] = File(t) => n = file[t] /\ place'[t] \in WithFile
    BY DEF Owned
  <2>1. CASE n = socket[s]
    BY <2>1, <1>2, ObjectsDiffer
  <2>2. CASE n # socket[s]
    <3>1. /\ table[n] = Socket(t) => n = socket[t] /\ place[t] \notin Early
          /\ table[n] = File(t) => n = file[t] /\ place[t] \in WithFile
      BY DEF Ordered, Owned
    <3> QED BY <2>2, <3>1, <1>1, <1>2
  <2> QED BY <2>1, <2>2
<1> QED BY <1>3, <1>4, <1>5, <1>6 DEF Ordered

\* A connection gets a number that has been free.
LEMMA SocketOpened ==
  ASSUME FdTypeOK, Ordered, NEW s \in Clients, NEW n \in Fds, Opened(Socket(s), n),
         socket' = [socket EXCEPT ![s] = n], Goes(s, "new", "accepted"),
         UNCHANGED <<listening, file, refused>>, running' = running
  PROVE  Ordered'
<1>1. /\ place[s] = "new" /\ place'[s] = "accepted"
      /\ \A t \in Clients : t # s => place'[t] = place[t]
  BY GoesOne
<1>2. /\ table[n] = NoObject /\ table'[n] = Socket(s)
      /\ \A k \in Fds : k # n => table'[k] = table[k]
  BY OpenedOne, ObjectsDiffer
<1>3. socket'[s] = n /\ \A t \in Clients : t # s => socket'[t] = socket[t]
  BY DEF FdTypeOK
<1>4. ListenerOpen'
  BY <1>2, ObjectsDiffer DEF Ordered, ListenerOpen, FdTypeOK
<1>5. SocketsOpen'
  BY <1>1, <1>2, <1>3, ObjectsDiffer DEF Ordered, SocketsOpen
<1>6. FilesOpen'
  BY <1>1, <1>2, ObjectsDiffer DEF Ordered, FilesOpen, WithFile
<1>7. Owned'
  <2> SUFFICES ASSUME NEW k \in Fds, NEW t \in Clients
               PROVE  /\ table'[k] = Socket(t) => k = socket'[t] /\ place'[t] \notin Early
                      /\ table'[k] = File(t) => k = file[t] /\ place'[t] \in WithFile
    BY DEF Owned
  <2>1. CASE k = n
    BY <2>1, <1>1, <1>2, <1>3, ObjectsDiffer DEF Early
  <2>2. CASE k # n
    <3>1. /\ table[k] = Socket(t) => k = socket[t] /\ place[t] \notin Early
          /\ table[k] = File(t) => k = file[t] /\ place[t] \in WithFile
      BY DEF Ordered, Owned
    <3>2. t = s => table[k] # Socket(t) /\ table[k] # File(t)
      BY <3>1, <1>1 DEF Early, WithFile
    <3> QED BY <2>2, <3>1, <3>2, <1>1, <1>2, <1>3
  <2> QED BY <2>1, <2>2
<1> QED BY <1>4, <1>5, <1>6, <1>7 DEF Ordered

\* A file gets a number that has been free.
LEMMA FileOpened ==
  ASSUME FdTypeOK, Ordered, NEW s \in Clients, NEW n \in Fds, Opened(File(s), n),
         file' = [file EXCEPT ![s] = n], Goes(s, "request", "file"),
         UNCHANGED <<listening, socket, refused>>, running' = running
  PROVE  Ordered'
<1>1. /\ place[s] = "request" /\ place'[s] = "file"
      /\ \A t \in Clients : t # s => place'[t] = place[t]
  BY GoesOne
<1>2. /\ table[n] = NoObject /\ table'[n] = File(s)
      /\ \A k \in Fds : k # n => table'[k] = table[k]
  BY OpenedOne, ObjectsDiffer
<1>3. file'[s] = n /\ \A t \in Clients : t # s => file'[t] = file[t]
  BY DEF FdTypeOK
<1>4. ListenerOpen'
  BY <1>2, ObjectsDiffer DEF Ordered, ListenerOpen, FdTypeOK
<1>5. SocketsOpen'
  BY <1>1, <1>2, ObjectsDiffer DEF Ordered, SocketsOpen, Early
<1>6. FilesOpen'
  BY <1>1, <1>2, <1>3, ObjectsDiffer DEF Ordered, FilesOpen
<1>7. Owned'
  <2> SUFFICES ASSUME NEW k \in Fds, NEW t \in Clients
               PROVE  /\ table'[k] = Socket(t) => k = socket[t] /\ place'[t] \notin Early
                      /\ table'[k] = File(t) => k = file'[t] /\ place'[t] \in WithFile
    BY DEF Owned
  <2>1. CASE k = n
    BY <2>1, <1>1, <1>2, <1>3, ObjectsDiffer DEF WithFile
  <2>2. CASE k # n
    <3>1. /\ table[k] = Socket(t) => k = socket[t] /\ place[t] \notin Early
          /\ table[k] = File(t) => k = file[t] /\ place[t] \in WithFile
      BY DEF Ordered, Owned
    <3>2. t = s => table[k] # File(t)
      BY <3>1, <1>1 DEF WithFile
    <3> QED BY <2>2, <3>1, <3>2, <1>1, <1>2, <1>3 DEF Early
  <2> QED BY <2>1, <2>2
<1> QED BY <1>4, <1>5, <1>6, <1>7 DEF Ordered

\* A session closes its file.
LEMMA FileClosed ==
  ASSUME FdTypeOK, Ordered, NEW s \in Clients, table' = Closed(file[s]),
         Goes(s, "sent", "serving"),
         UNCHANGED <<listening, socket, file, refused>>, running' = running
  PROVE  Ordered'
<1>1. /\ place[s] = "sent" /\ place'[s] = "serving"
      /\ \A t \in Clients : t # s => place'[t] = place[t]
  BY GoesOne
<1>2. /\ file[s] \in Fds /\ table[file[s]] = File(s)
      /\ table'[file[s]] = NoObject
      /\ \A k \in Fds : k # file[s] => table'[k] = table[k]
  <2>1. file[s] \in Fds /\ table[file[s]] = File(s)
    BY <1>1 DEF Ordered, FilesOpen, WithFile
  <2> QED BY <2>1, ClosedOne
<1>3. ListenerOpen'
  BY <1>2, ObjectsDiffer DEF Ordered, ListenerOpen, FdTypeOK
<1>4. SocketsOpen'
  BY <1>1, <1>2, ObjectsDiffer DEF Ordered, SocketsOpen, Early
<1>5. FilesOpen'
  BY <1>1, <1>2, ObjectsDiffer DEF Ordered, FilesOpen, WithFile
<1>6. Owned'
  BY <1>1, <1>2, ObjectsDiffer DEF Ordered, Owned, Early
<1> QED BY <1>3, <1>4, <1>5, <1>6 DEF Ordered

\* Each step leaves all in order, unless it goes astray.
LEMMA StepOrdered == DInv /\ [FdNext]_fdvars => Astray' \/ Ordered'
<1> SUFFICES ASSUME DInv, [FdNext]_fdvars, ~Astray' PROVE Ordered'
  OBVIOUS
<1>0. FdTypeOK /\ Stopping /\ (Astray \/ Ordered)
  BY DEF DInv
<1>e. /\ {"new", "gone"} = Early /\ {"file", "piece", "sent"} = WithFile
      /\ Early \cap WithFile = {}
  BY DEF Early, WithFile
<1>1. CASE AcceptLoop \/ AcceptFails \/ Ends \/ TakesListener
  <2>1. ~Astray
    BY <1>1, UsesOwn DEF AcceptLoop, AcceptFails, Ends, TakesListener, Astray, Actors
  <2>2. /\ UNCHANGED <<table, listening, socket, file, place, refused>>
        /\ running' = running
    BY <1>1, Zenon DEF AcceptLoop, AcceptFails, Ends, TakesListener
  <2> QED BY <2>1, <2>2, <1>0, SameOrder
<1>2. CASE CloseAgain \/ Interrupted
  <2>1. ~Astray /\ ~Foreign(listening, Listener)
    BY <1>2, UsesOwn DEF CloseAgain, Interrupted, Actors
  <2>2. /\ UNCHANGED <<listening, socket, file, place, refused>>
        /\ table' = Closed(listening)
    BY <1>2 DEF CloseAgain, Interrupted
  <2>3. running' = FALSE
    <3>1. CASE CloseAgain
      <4>1. main = "close" /\ running' = running
        BY <3>1, Zenon DEF CloseAgain
      <4> QED BY <4>1, <1>0, Zenon DEF Stopping
    <3>2. CASE Interrupted
      BY <3>2, Zenon DEF Interrupted
    <3> QED BY <1>2, <3>1, <3>2
  <2> QED BY <2>1, <2>2, <2>3, <1>0, ListenerClosed
<1>3. ASSUME NEW s \in Clients, Accepted(s) PROVE Ordered'
  <2>1. PICK n \in Fds : Opened(Socket(s), n) /\ socket' = [socket EXCEPT ![s] = n]
    BY <1>3 DEF Accepted
  <2>2. Goes(s, "new", "accepted") /\ UNCHANGED <<listening, file, refused>> /\ ~Astray
    BY <1>3 DEF Accepted, Astray
  <2>3. running' = running
    BY <1>3, Zenon DEF Accepted
  <2> QED BY <2>1, <2>2, <2>3, <1>0, SocketOpened
<1>4. ASSUME NEW s \in Clients, NEW ok \in BOOLEAN, Spawned(s, ok) PROVE Ordered'
  <2>1. \/ Goes(s, "accepted", "handshake") \/ Goes(s, "accepted", "lost")
    BY <1>4 DEF Spawned
  <2>2. UNCHANGED <<table, listening, socket, file, refused>> /\ ~Astray
    BY <1>4 DEF Spawned, Astray
  <2>3. running' = running
    BY <1>4, Zenon DEF Spawned
  <2>4. "accepted" \notin WithFile /\ "handshake" \notin WithFile /\ "lost" \notin WithFile
        /\ "accepted" \notin Early /\ "handshake" \notin Early /\ "lost" \notin Early
    BY DEF WithFile, Early
  <2> QED BY <2>1, <2>2, <2>3, <2>4, <1>0, GoesInOrder
<1>5. ASSUME NEW s \in Clients, HandshakeFails(s) \/ CloseSocket(s) PROVE Ordered'
  <2>1. ~Astray /\ ~Foreign(socket[s], Socket(s))
    BY <1>5, UsesOwn DEF HandshakeFails, CloseSocket, Actors
  <2>2. table' = Closed(socket[s]) /\ UNCHANGED <<listening, socket, file>>
    BY <1>5 DEF HandshakeFails, CloseSocket
  <2>3. running' = running
    BY <1>5, Zenon DEF HandshakeFails, CloseSocket
  <2>4. CASE HandshakeFails(s)
    <3>1. /\ Goes(s, "handshake", "serving") /\ refused \subseteq refused' /\ s \in refused'
          /\ "handshake" \notin WithFile /\ "serving" \notin WithFile /\ "handshake" \notin Early
      BY <2>4 DEF HandshakeFails, WithFile, Early
    <3> QED BY <2>1, <2>2, <2>3, <3>1, <1>0, SocketClosed
  <2>5. CASE CloseSocket(s)
    <3>1. /\ Goes(s, "closing", "gone") /\ refused \subseteq refused'
          /\ "closing" \notin WithFile /\ "gone" \notin WithFile /\ "closing" \notin Early
      BY <2>5 DEF CloseSocket, WithFile, Early
    <3> QED BY <2>1, <2>2, <2>3, <3>1, <1>0, SocketClosed
  <2> QED BY <1>5, <2>4, <2>5
<1>6. ASSUME NEW s \in Clients, OpenFile(s) PROVE Ordered'
  <2>1. PICK n \in Fds : Opened(File(s), n) /\ file' = [file EXCEPT ![s] = n]
    BY <1>6 DEF OpenFile
  <2>2. Goes(s, "request", "file") /\ UNCHANGED <<listening, socket, refused>> /\ ~Astray
    BY <1>6 DEF OpenFile, Astray
  <2>3. running' = running
    BY <1>6, Zenon DEF OpenFile
  <2> QED BY <2>1, <2>2, <2>3, <1>0, FileOpened
<1>7. ASSUME NEW s \in Clients, CloseFile(s) PROVE Ordered'
  <2>1. ~Astray /\ table' = Closed(file[s]) /\ Goes(s, "sent", "serving")
    BY <1>7, UsesOwn DEF CloseFile, Actors
  <2>2. UNCHANGED <<listening, socket, file, refused>>
    BY <1>7 DEF CloseFile
  <2>3. running' = running
    BY <1>7, Zenon DEF CloseFile
  <2> QED BY <2>1, <2>2, <2>3, <1>0, FileClosed
<1>8. ASSUME NEW s \in Clients, HandshakeOk(s) \/ ReadRequest(s) \/ LastRead(s) \/ SendPage(s)
      PROVE  Ordered'
  <2>1. \/ Goes(s, "handshake", "serving") \/ Goes(s, "serving", "request")
        \/ Goes(s, "serving", "closing") \/ Goes(s, "request", "serving")
    BY <1>8 DEF HandshakeOk, ReadRequest, LastRead, SendPage
  <2>2. ~Astray /\ UNCHANGED <<table, listening, socket, file, refused>>
    BY <1>8, UsesOwn DEF HandshakeOk, ReadRequest, LastRead, SendPage, Actors
  <2>3. running' = running
    BY <1>8, Zenon DEF HandshakeOk, ReadRequest, LastRead, SendPage
  <2>4. /\ "handshake" \notin WithFile /\ "serving" \notin WithFile /\ "request" \notin WithFile
        /\ "closing" \notin WithFile
        /\ "handshake" \notin Early /\ "serving" \notin Early /\ "request" \notin Early
        /\ "closing" \notin Early
    BY DEF WithFile, Early
  <2> QED BY <2>1, <2>2, <2>3, <2>4, <1>0, GoesInOrder
<1>9. ASSUME NEW s \in Clients, ReadFile(s) \/ SendPiece(s) PROVE Ordered'
  <2>1. Goes(s, "file", "piece") \/ Goes(s, "piece", "sent")
    BY <1>9 DEF ReadFile, SendPiece
  <2>2. ~Astray /\ UNCHANGED <<table, listening, socket, file, refused>>
    BY <1>9, UsesOwn DEF ReadFile, SendPiece, Actors
  <2>3. running' = running
    BY <1>9, Zenon DEF ReadFile, SendPiece
  <2>4. /\ "file" \in WithFile /\ "piece" \in WithFile /\ "sent" \in WithFile
        /\ "file" \notin Early /\ "piece" \notin Early /\ "sent" \notin Early
    BY DEF WithFile, Early
  <2> QED BY <2>1, <2>2, <2>3, <2>4, <1>0, GoesInOrder
<1>10. CASE UNCHANGED fdvars
  <2>1. running' = running
    BY <1>10, Zenon
  <2> QED BY <2>1, <1>10, <1>0, SameOrder DEF Astray
<1> QED
  BY <1>1, <1>2, <1>3, <1>4, <1>5, <1>6, <1>7, <1>8, <1>9, <1>10 DEF FdNext, SessionStep
-----------------------------------------------------------------------------
\* The invariant of this module: what is open belongs to who knows its number.
THEOREM FdInv == FdSpec => []DInv
<1>1. FdInit => DInv
  <2> SUFFICES ASSUME FdInit PROVE DInv
    OBVIOUS
  <2>1. stray = Nobody /\ running = TRUE /\ main = "loop" /\ listening \in Fds
    BY DEF FdInit
  <2>2. FdTypeOK
    <3>1. table \in [Fds -> Objects \cup {NoObject}]
      BY ObjectsDiffer DEF FdInit
    <3>2. running \in BOOLEAN
      BY <2>1, Zenon
    <3>3. signals \in Nat /\ stray \in Actors \cup {Nobody}
      BY DescriptorsAssumption DEF FdInit
    <3>4. socket \in [Clients -> Fds \cup {-1}] /\ file \in [Clients -> Fds \cup {-1}]
      BY DEF FdInit
    <3>5. /\ refused \subseteq Clients
          /\ place \in [Clients -> {"new", "accepted", "lost", "handshake", "serving",
                                    "request", "file", "piece", "sent", "closing", "gone"}]
      BY DEF FdInit
    <3> QED BY <2>1, <3>1, <3>2, <3>3, <3>4, <3>5 DEF FdTypeOK
  <2>3. Stopping /\ StrayIsKnown
    BY <2>1 DEF Stopping, StrayIsKnown
  <2>4. ListenerOpen
    BY DEF FdInit, ListenerOpen
  <2>5. SocketsOpen /\ FilesOpen
    BY DEF FdInit, SocketsOpen, FilesOpen, Early, WithFile
  <2>6. Owned
    BY ObjectsDiffer DEF FdInit, Owned
  <2> QED BY <2>2, <2>3, <2>4, <2>5, <2>6 DEF DInv, Ordered
<1>2. DInv /\ [FdNext]_fdvars => DInv'
  BY FdTyped, StepStopping, StepStray, StepOrdered DEF DInv
<1> QED BY <1>1, <1>2, PTL DEF FdSpec

\* The variables keep to their domains; a file that is read has a number.
THEOREM FdTypes == FdSpec => []FdTypeOK
<1>1. DInv => FdTypeOK
  BY DEF DInv
<1> QED BY <1>1, FdInv, PTL

\* The first to use the number of another is a session whose handshake failed, or main()
\* or the handler after SIGINT.
THEOREM OnlyKnownStrays == FdSpec => []StrayIsKnown
<1>1. DInv => StrayIsKnown
  BY DEF DInv
<1> QED BY <1>1, FdInv, PTL

\* As long as nobody has gone astray, a session that is over has left nothing open.
THEOREM AllClosed == FdSpec => []NothingLeftOpen
<1>1. DInv => NothingLeftOpen
  BY DEF DInv, Astray, Ordered, Owned, NothingLeftOpen, Early, WithFile
<1> QED BY <1>1, FdInv, PTL

HIDE DEF fdvars
-----------------------------------------------------------------------------
(***************************************************************************)
(* CGI requests and their children, for any number of requests, any size   *)
(* of pipe and of output: what the responses hold, who is left unreaped,   *)
(* and what ends the server.                                               *)
(***************************************************************************)
\* What holds of a call whatever the others do.
Begun(c) ==
    /\ thread[c] \in {"start", "pipes"} => child[c] = "none"
    /\ child[c] = "none" =>
          thread[c] \in {"start", "pipes", "done"} /\ c \notin given /\ c \notin crashed
    /\ thread[c] # "done" => c \notin given
ServerHolds(c) ==
    /\ thread[c] = "pipes" => Server \in readers[c] /\ Server \in sources[c]
    /\ thread[c] \in {"pipes", "forked", "body", "wait", "read"} => Server \in sinks[c]
    /\ thread[c] \in {"pipes", "forked", "body"} => Server \in writers[c]
    /\ thread[c] \in {"start", "pipes", "forked", "body"} => stdin[c] = 0
ChildHolds(c) ==
    child[c] \in {"started", "reads", "writes"} => c \in sources[c] /\ c \in readers[c]
Amounts(c) ==
    /\ c \notin crashed => wrote[c] = got[c] + pipe[c]
    /\ child[c] \in {"none", "started", "reads"} => wrote[c] = 0 /\ pipe[c] = 0 /\ got[c] = 0
    /\ child[c] \in {"writes", "exited", "reaped"} /\ c \notin crashed => wrote[c] <= output[c]
    /\ c \in crashed => child[c] \in {"exited", "reaped"}
    /\ child[c] \in {"exited", "reaped"} /\ c \notin crashed /\ thread[c] # "done" =>
          wrote[c] = output[c]
Whole(c) ==
    thread[c] = "done" /\ child[c] # "none" /\ c \notin given /\ c \notin crashed =>
        /\ child[c] \in {"writes", "exited", "reaped"}
        /\ got[c] = IF output[c] <= Capacity THEN output[c] ELSE Capacity
HasNotRead(c) ==
    /\ body[c] > 0 /\ thread[c] \in {"forked", "body"}
    /\ child[c] \in {"writes", "exited", "reaped"}
    => script[c] = "ignores" \/ c \in crashed
OfCall(c) ==
    Begun(c) /\ ServerHolds(c) /\ ChildHolds(c) /\ Amounts(c) /\ Whole(c) /\ HasNotRead(c)

\* The server ended by SIGPIPE over a child that has ended.
Ended ==
    alive = FALSE =>
        \E c \in Calls : /\ body[c] > 0 /\ (script[c] = "ignores" \/ c \in crashed)
                         /\ child[c] \in {"exited", "reaped"}

\* Who still owes a wait(): no more children than those and the given up.
Owing == {c \in Calls : thread[c] \in {"forked", "body", "wait"}}
Reaping == alive = TRUE => Cardinality(Unreaped) <= Cardinality(given) + Cardinality(Owing)

CInv == CgiTypeOK /\ (\A c \in Calls : OfCall(c)) /\ Ended /\ Reaping

USE DEF cvars, programs, ends, data
-----------------------------------------------------------------------------
\* What of a call is left alone by a step of another.
Untouched(d) ==
    /\ thread'[d] = thread[d] /\ child'[d] = child[d] /\ body'[d] = body[d]
    /\ script'[d] = script[d] /\ output'[d] = output[d]
    /\ stdin'[d] = stdin[d] /\ pipe'[d] = pipe[d] /\ wrote'[d] = wrote[d] /\ got'[d] = got[d]
    /\ (d \in given' <=> d \in given) /\ (d \in crashed' <=> d \in crashed)
    /\ \A p \in {d, Server} : /\ p \in writers[d] => p \in writers'[d]
                              /\ p \in readers[d] => p \in readers'[d]
                              /\ p \in sources[d] => p \in sources'[d]
                              /\ p \in sinks[d] => p \in sinks'[d]

\* Then what holds of it holds of it still.
LEMMA Frame == ASSUME NEW d \in Calls, OfCall(d), Untouched(d) PROVE OfCall(d)'
<1>1. Begun(d)'
  BY DEF OfCall, Untouched, Begun
<1>2. ServerHolds(d)'
  BY DEF OfCall, Untouched, ServerHolds
<1>3. ChildHolds(d)'
  BY DEF OfCall, Untouched, ChildHolds
<1>4. Amounts(d)'
  BY DEF OfCall, Untouched, Amounts
<1>5. Whole(d)'
  BY DEF OfCall, Untouched, Whole
<1>6. HasNotRead(d)'
  BY DEF OfCall, Untouched, HasNotRead
<1> QED BY <1>1, <1>2, <1>3, <1>4, <1>5, <1>6 DEF OfCall

\* Forking gives the child what the server holds.
LEMMA InheritsOne ==
  ASSUME NEW c \in Calls, NEW hold \in [Calls -> SUBSET Holders]
  PROVE  /\ Inherits(c, hold) \in [Calls -> SUBSET Holders]
         /\ \A d \in Calls : /\ hold[d] \subseteq Inherits(c, hold)[d]
                             /\ Server \in hold[d] => c \in Inherits(c, hold)[d]
BY DEF Inherits, Holders

\* What exits leaves the ends to the others.
LEMMA LeavesOne ==
  ASSUME NEW c \in Calls, NEW hold \in [Calls -> SUBSET Holders]
  PROVE  /\ Leaves(c, hold) \in [Calls -> SUBSET Holders]
         /\ \A d \in Calls : \A p \in hold[d] : p # c => p \in Leaves(c, hold)[d]
BY DEF Leaves, Holders

\* A step keeps to the domains.
LEMMA CgiTyped == CInv /\ [CgiNext]_cvars => CgiTypeOK'
<1> SUFFICES ASSUME CInv, [CgiNext]_cvars PROVE CgiTypeOK'
  OBVIOUS
<1> USE DEF CgiTypeOK, Go, Child, At, Holders
<1>0. CgiTypeOK
  BY DEF CInv
<1>c. Capacity \in Nat \ {0} /\ Outputs \subseteq Nat /\ Server \notin Calls
  BY CapacityAssumption, ServerIsNoChild
<1>1. ASSUME NEW c \in Calls, NotStarted(c) \/ ForkFails(c) PROVE CgiTypeOK'
  BY <1>0, <1>1 DEF NotStarted, ForkFails
<1>2. ASSUME NEW c \in Calls, Pipes(c) PROVE CgiTypeOK'
  BY <1>0, <1>2 DEF Pipes
<1>3. ASSUME NEW c \in Calls, Fork(c) PROVE CgiTypeOK'
  BY <1>0, <1>3, InheritsOne DEF Fork
<1>4. ASSUME NEW c \in Calls, CloseChildEnds(c) PROVE CgiTypeOK'
  BY <1>0, <1>4 DEF CloseChildEnds
<1>5. ASSUME NEW c \in Calls, StreamFails(c) PROVE CgiTypeOK'
  BY <1>0, <1>5 DEF StreamFails
<1>6. ASSUME NEW c \in Calls, SendBody(c) PROVE CgiTypeOK'
  <2>1. CASE body[c] > 0 /\ readers[c] = {}
    BY <1>0, <1>6, <2>1 DEF SendBody
  <2>2. CASE ~(body[c] > 0 /\ readers[c] = {})
    <3>1. alive' = alive
      BY <1>6, <2>2, Zenon DEF SendBody
    <3>2. alive' \in BOOLEAN
      BY <3>1, <1>0, Zenon
    <3>3. /\ stdin' = [stdin EXCEPT ![c] = body[c]]
          /\ writers' = [writers EXCEPT ![c] = @ \ {Server}]
          /\ thread' = [thread EXCEPT ![c] = "wait"]
          /\ UNCHANGED <<programs, body, child, crashed, given, readers, sources, sinks, pipe,
                         wrote, got>>
      BY <1>6, <2>2, Zenon DEF SendBody
    <3>4. stdin' \in [Calls -> {0, 1}]
      BY <1>0, <3>3
    <3>5. writers' \in [Calls -> SUBSET Holders]
      BY <1>0, <3>3
    <3> QED BY <1>0, <3>2, <3>3, <3>4, <3>5
  <2> QED BY <2>1, <2>2
<1>7. ASSUME NEW c \in Calls, Wait(c) PROVE CgiTypeOK'
  BY <1>0, <1>7 DEF Wait
<1>8. ASSUME NEW c \in Calls, Read(c) PROVE CgiTypeOK'
  BY <1>0, <1>8, <1>c DEF Read
<1>9. ASSUME NEW c \in Calls, ReadEnds(c) PROVE CgiTypeOK'
  BY <1>0, <1>9 DEF ReadEnds
<1>10. ASSUME NEW c \in Calls, Exec(c) PROVE CgiTypeOK'
  BY <1>0, <1>10, <1>c DEF Exec
<1>11. ASSUME NEW c \in Calls, ExecFails(c) PROVE CgiTypeOK'
  BY <1>0, <1>11, <1>c, LeavesOne DEF ExecFails, Exits
<1>12. ASSUME NEW c \in Calls, ScriptReads(c) PROVE CgiTypeOK'
  BY <1>0, <1>12 DEF ScriptReads
<1>13. ASSUME NEW c \in Calls, ScriptWrites(c) PROVE CgiTypeOK'
  BY <1>0, <1>13, <1>c DEF ScriptWrites
<1>14. ASSUME NEW c \in Calls, ScriptExits(c) PROVE CgiTypeOK'
  BY <1>0, <1>14, LeavesOne DEF ScriptExits, Exits
<1>15. CASE UNCHANGED cvars
  BY <1>0, <1>15
<1> QED
  BY <1>1, <1>2, <1>3, <1>4, <1>5, <1>6, <1>7, <1>8, <1>9, <1>10, <1>11, <1>12, <1>13,
     <1>14, <1>15 DEF CgiNext, ThreadStep, ChildStep

-----------------------------------------------------------------------------
\* The steps of a session thread keep what holds of each call.
LEMMA ThreadKeeps ==
  ASSUME CInv, NEW c \in Calls, ThreadStep(c) /\ ~Wait(c), NEW d \in Calls
  PROVE  OfCall(d)'
<1> USE DEF CgiTypeOK, Go, Child, At, Holders
<1>0. CgiTypeOK /\ OfCall(d) /\ OfCall(c)
  BY DEF CInv
<1>c. Capacity \in Nat \ {0} /\ Server \notin Calls
  BY CapacityAssumption, ServerIsNoChild
<1>1. CASE NotStarted(c) \/ ForkFails(c)
  <2>1. CASE d # c
    <3>1. Untouched(d)
      BY <1>0, <1>1, <2>1 DEF NotStarted, ForkFails, Untouched
    <3> QED BY <1>0, <3>1, Frame
  <2>2. CASE d = c
    BY <1>0, <1>1, <2>2 DEF NotStarted, ForkFails, OfCall, Begun, ServerHolds, ChildHolds,
       Amounts, Whole, HasNotRead
  <2> QED BY <2>1, <2>2
<1>2. CASE Pipes(c)
  <2>1. CASE d # c
    <3>1. Untouched(d)
      BY <1>0, <1>2, <2>1 DEF Pipes, Untouched
    <3> QED BY <1>0, <3>1, Frame
  <2>2. CASE d = c
    BY <1>0, <1>2, <2>2 DEF Pipes, OfCall, Begun, ServerHolds, ChildHolds,
       Amounts, Whole, HasNotRead
  <2> QED BY <2>1, <2>2
<1>3. CASE Fork(c)
  <2>1. CASE d # c
    <3>1. Untouched(d)
      BY <1>0, <1>3, <2>1, InheritsOne DEF Fork, Untouched
    <3> QED BY <1>0, <3>1, Frame
  <2>2. CASE d = c
    <3>1. /\ Server \in writers'[c] /\ Server \in sinks'[c]
          /\ c \in sources'[c] /\ c \in readers'[c]
      BY <1>0, <1>3, InheritsOne DEF Fork, OfCall, ServerHolds
    <3>2. /\ thread'[c] = "forked" /\ child'[c] = "started" /\ child[c] = "none"
          /\ thread[c] = "pipes"
      BY <1>0, <1>3 DEF Fork, OfCall, Begun
    <3> QED BY <1>0, <1>3, <2>2, <3>1, <3>2 DEF Fork, OfCall, Begun, ServerHolds, ChildHolds,
            Amounts, Whole, HasNotRead
  <2> QED BY <2>1, <2>2
<1>4. CASE CloseChildEnds(c)
  <2>1. CASE d # c
    <3>1. Untouched(d)
      BY <1>0, <1>4, <2>1 DEF CloseChildEnds, Untouched
    <3> QED BY <1>0, <3>1, Frame
  <2>2. CASE d = c
    BY <1>0, <1>4, <2>2, <1>c DEF CloseChildEnds, OfCall, Begun, ServerHolds, ChildHolds,
       Amounts, Whole, HasNotRead
  <2> QED BY <2>1, <2>2
<1>5. CASE StreamFails(c)
  <2>1. CASE d # c
    <3>1. Untouched(d)
      BY <1>0, <1>5, <2>1 DEF StreamFails, Untouched
    <3> QED BY <1>0, <3>1, Frame
  <2>2. CASE d = c
    BY <1>0, <1>5, <2>2, <1>c DEF StreamFails, OfCall, Begun, ServerHolds, ChildHolds,
       Amounts, Whole, HasNotRead
  <2> QED BY <2>1, <2>2
<1>6. CASE SendBody(c)
  <2>1. CASE d # c
    <3>1. Untouched(d)
      BY <1>0, <1>6, <2>1 DEF SendBody, Untouched
    <3> QED BY <1>0, <3>1, Frame
  <2>2. CASE d = c
    BY <1>0, <1>6, <2>2, <1>c, ZenonT(40) DEF SendBody, OfCall, Begun, ServerHolds, ChildHolds,
       Amounts, Whole, HasNotRead
  <2> QED BY <2>1, <2>2
<1>7. CASE Read(c)
  <2>1. CASE d # c
    <3>1. Untouched(d)
      BY <1>0, <1>7, <2>1 DEF Read, Untouched
    <3> QED BY <1>0, <3>1, Frame
  <2>2. CASE d = c
    BY <1>0, <1>7, <2>2, <1>c DEF Read, OfCall, Begun, ServerHolds, ChildHolds,
       Amounts, Whole, HasNotRead
  <2> QED BY <2>1, <2>2
<1>8. CASE ReadEnds(c)
  <2>1. CASE d # c
    <3>1. Untouched(d)
      BY <1>0, <1>8, <2>1 DEF ReadEnds, Untouched
    <3> QED BY <1>0, <3>1, Frame
  <2>2. CASE d = c
    <3>1. thread[c] = "read" /\ thread'[c] = "done" /\ child[c] # "none" /\ child' = child
      BY <1>0, <1>8 DEF ReadEnds, OfCall, Begun
    <3>2. CASE EndOfOutput(c)
      <4>1. pipe[c] = 0 /\ child[c] \in {"exited", "reaped"}
        BY <1>0, <3>1, <3>2 DEF EndOfOutput, OfCall, ChildHolds
      <4>2. c \notin crashed => got[c] = output[c]
        BY <1>0, <3>1, <4>1 DEF OfCall, Amounts
      <4>3. Whole(c)'
        BY <1>0, <1>8, <3>1, <4>1, <4>2 DEF Whole, ReadEnds
      <4> QED BY <1>0, <1>8, <2>2, <1>c, <3>1, <4>3 DEF ReadEnds, OfCall, Begun, ServerHolds, ChildHolds,
         Amounts, HasNotRead
    <3>3. CASE pipe[c] > 0 /\ got[c] = Capacity
      <4>1. child[c] \in {"writes", "exited", "reaped"}
        BY <1>0, <3>1, <3>3 DEF OfCall, Amounts
      <4>2. c \notin crashed => output[c] > Capacity
        BY <1>0, <3>3, <4>1, <1>c DEF OfCall, Amounts
      <4>3. Whole(c)'
        BY <1>0, <1>8, <3>1, <3>3, <4>1, <4>2, <1>c DEF Whole, ReadEnds
      <4> QED BY <1>0, <1>8, <2>2, <1>c, <3>1, <4>3 DEF ReadEnds, OfCall, Begun, ServerHolds, ChildHolds,
         Amounts, HasNotRead
    <3> QED BY <1>8, <3>2, <3>3 DEF ReadEnds
  <2> QED BY <2>1, <2>2
<1> QED BY <1>1, <1>2, <1>3, <1>4, <1>5, <1>6, <1>7, <1>8 DEF ThreadStep

\* So does wait(), which may take the child of another call.
LEMMA WaitKeeps ==
  ASSUME CInv, NEW c \in Calls, Wait(c), NEW d \in Calls
  PROVE  OfCall(d)'
<1> USE DEF CgiTypeOK, Go, Child, At
<1>0. CgiTypeOK /\ OfCall(d) /\ OfCall(c)
  BY DEF CInv
<1>1. thread[c] = "wait" /\ thread' = [thread EXCEPT ![c] = "read"]
      /\ UNCHANGED <<programs, body, crashed, given, ends, data>>
  BY <1>0, Zenon DEF Wait
<1>2. child'[d] = child[d] \/ (child[d] = "exited" /\ child'[d] = "reaped")
  BY <1>0 DEF Wait
<1>3. Begun(d)'
  BY <1>0, <1>1, <1>2 DEF OfCall, Begun
<1>4. ServerHolds(d)'
  BY <1>0, <1>1 DEF OfCall, ServerHolds
<1>5. ChildHolds(d)'
  BY <1>0, <1>1, <1>2 DEF OfCall, ChildHolds
<1>6. Amounts(d)'
  BY <1>0, <1>1, <1>2 DEF OfCall, Amounts
<1>7. Whole(d)'
  BY <1>0, <1>1, <1>2 DEF OfCall, Whole, Begun
<1>8. HasNotRead(d)'
  BY <1>0, <1>1, <1>2 DEF OfCall, HasNotRead
<1> QED BY <1>3, <1>4, <1>5, <1>6, <1>7, <1>8 DEF OfCall

\* And so do the steps of a child.
LEMMA ChildKeeps ==
  ASSUME CInv, NEW c \in Calls, ChildStep(c), NEW d \in Calls
  PROVE  OfCall(d)'
<1> USE DEF CgiTypeOK, Child, Holders
<1>0. CgiTypeOK /\ OfCall(d) /\ OfCall(c)
  BY DEF CInv
<1>c. Capacity \in Nat \ {0} /\ Server \notin Calls /\ Outputs \subseteq Nat
  BY CapacityAssumption, ServerIsNoChild
<1>1. CASE Exec(c)
  <2>1. CASE d # c
    <3>1. Untouched(d)
      BY <1>0, <1>1, <2>1 DEF Exec, Untouched
    <3> QED BY <1>0, <3>1, Frame
  <2>2. CASE d = c
    BY <1>0, <1>1, <2>2, <1>c DEF Exec, OfCall, Begun, ServerHolds, ChildHolds,
       Amounts, Whole, HasNotRead
  <2> QED BY <2>1, <2>2
<1>2. CASE ExecFails(c)
  <2>1. CASE d # c
    <3>1. Untouched(d)
      BY <1>0, <1>2, <2>1, <1>c, LeavesOne DEF ExecFails, Exits, Untouched
    <3> QED BY <1>0, <3>1, Frame
  <2>2. CASE d = c
    <3>1. /\ Server \in sinks[c] => Server \in sinks'[c]
          /\ Server \in writers[c] => Server \in writers'[c]
      BY <1>0, <1>2, <1>c, LeavesOne DEF ExecFails, Exits
    <3>2. /\ child[c] = "started" /\ child'[c] = "exited" /\ c \in crashed'
          /\ UNCHANGED <<programs, body, thread, given, stdin, wrote, got>>
      BY <1>0, <1>2 DEF ExecFails, Exits
    <3>3. thread[c] \notin {"start", "pipes"}
      BY <1>0, <3>2 DEF OfCall, Begun
    <3>4. Begun(c)' /\ ChildHolds(c)' /\ Amounts(c)' /\ Whole(c)' /\ HasNotRead(c)'
      BY <1>0, <3>2, <3>3 DEF OfCall, Begun, ChildHolds, Amounts, Whole, HasNotRead
    <3>5. ServerHolds(c)'
      BY <1>0, <3>1, <3>2, <3>3 DEF OfCall, ServerHolds
    <3> QED BY <2>2, <3>4, <3>5 DEF OfCall
  <2> QED BY <2>1, <2>2
<1>3. CASE ScriptReads(c)
  <2>1. CASE d # c
    <3>1. Untouched(d)
      BY <1>0, <1>3, <2>1 DEF ScriptReads, Untouched
    <3> QED BY <1>0, <3>1, Frame
  <2>2. CASE d = c
    <3>1. /\ child[c] = "reads" /\ child'[c] = "writes" /\ stdin'[c] = 0
          /\ writers[c] = {} \/ stdin[c] = body[c]
          /\ UNCHANGED <<programs, body, thread, crashed, given, ends, pipe, wrote, got>>
      BY <1>0, <1>3 DEF ScriptReads
    <3>2. thread[c] \in {"forked", "body"} => ~(body[c] > 0)
      BY <1>0, <3>1 DEF OfCall, ServerHolds
    <3>3. HasNotRead(c)'
      BY <3>1, <3>2 DEF HasNotRead
    <3>4. Begun(c)' /\ ServerHolds(c)' /\ ChildHolds(c)'
      BY <1>0, <3>1 DEF OfCall, Begun, ServerHolds, ChildHolds
    <3>5. Amounts(c)' /\ Whole(c)'
      BY <1>0, <3>1 DEF OfCall, Amounts, Whole
    <3> QED BY <2>2, <3>3, <3>4, <3>5 DEF OfCall
  <2> QED BY <2>1, <2>2
<1>4. CASE ScriptWrites(c)
  <2>1. CASE d # c
    <3>1. Untouched(d)
      BY <1>0, <1>4, <2>1 DEF ScriptWrites, Untouched
    <3> QED BY <1>0, <3>1, Frame
  <2>2. CASE d = c
    <3>1. /\ child[c] = "writes" /\ wrote[c] < output[c]
          /\ pipe'[c] = pipe[c] + 1 /\ wrote'[c] = wrote[c] + 1
          /\ UNCHANGED <<programs, body, thread, child, crashed, given, ends, stdin, got, alive>>
      BY <1>0, <1>4, Zenon DEF ScriptWrites
    <3>2. Amounts(c)'
      BY <1>0, <3>1 DEF OfCall, Amounts
    <3>3. Begun(c)' /\ ServerHolds(c)' /\ ChildHolds(c)' /\ Whole(c)' /\ HasNotRead(c)'
      BY <1>0, <3>1 DEF OfCall, Begun, ServerHolds, ChildHolds, Whole, HasNotRead
    <3> QED BY <2>2, <3>2, <3>3 DEF OfCall
  <2> QED BY <2>1, <2>2
<1>5. CASE ScriptExits(c)
  <2>1. CASE d # c
    <3>1. Untouched(d)
      BY <1>0, <1>5, <2>1, <1>c, LeavesOne DEF ScriptExits, Exits, Untouched
    <3> QED BY <1>0, <3>1, Frame
  <2>2. CASE d = c
    <3>1. /\ Server \in sinks[c] => Server \in sinks'[c]
          /\ Server \in writers[c] => Server \in writers'[c]
      BY <1>0, <1>5, <1>c, LeavesOne DEF ScriptExits, Exits
    <3>2. /\ child[c] = "writes" /\ child'[c] = "exited"
          /\ wrote[c] = output[c] \/ sinks[c] = {}
          /\ UNCHANGED <<programs, body, thread, crashed, given, data>>
      BY <1>0, <1>5 DEF ScriptExits, Exits
    <3>3. thread[c] \notin {"start", "pipes"}
      BY <1>0, <3>2 DEF OfCall, Begun
    <3>4. thread[c] # "done" => wrote[c] = output[c]
      BY <1>0, <3>2, <3>3 DEF OfCall, ServerHolds
    <3>5. Begun(c)' /\ ChildHolds(c)' /\ Amounts(c)' /\ Whole(c)' /\ HasNotRead(c)'
      BY <1>0, <3>2, <3>3, <3>4 DEF OfCall, Begun, ChildHolds, Amounts, Whole, HasNotRead
    <3>6. ServerHolds(c)'
      BY <1>0, <3>1, <3>2, <3>3 DEF OfCall, ServerHolds
    <3> QED BY <2>2, <3>5, <3>6 DEF OfCall
  <2> QED BY <2>1, <2>2
<1> QED BY <1>1, <1>2, <1>3, <1>4, <1>5 DEF ChildStep

\* What ends the server is a child that went without reading its body.
LEMMA StepEnded == CInv /\ [CgiNext]_cvars => Ended'
<1> SUFFICES ASSUME CInv, [CgiNext]_cvars, alive' = FALSE
             PROVE  \E c \in Calls : /\ body'[c] > 0
                                     /\ script'[c] = "ignores" \/ c \in crashed'
                                     /\ child'[c] \in {"exited", "reaped"}
  BY DEF Ended
<1>0. CgiTypeOK /\ Ended /\ \A c \in Calls : OfCall(c)
  BY DEF CInv
<1>1. ASSUME NEW c \in Calls, ThreadStep(c)
      PROVE  \E e \in Calls : /\ body'[e] > 0
                              /\ script'[e] = "ignores" \/ e \in crashed'
                              /\ child'[e] \in {"exited", "reaped"}
  <2>1. SendBody(c) /\ alive'  # alive
    <3>1. alive = TRUE
      BY <1>0, <1>1 DEF ThreadStep, NotStarted, Pipes, ForkFails, Fork, CloseChildEnds,
         StreamFails, SendBody, Wait, Read, ReadEnds, At, CgiTypeOK
    <3>2. alive' # alive
      BY <3>1
    <3>3. SendBody(c) \/ alive' = alive
      BY <1>1, Zenon DEF ThreadStep, NotStarted, Pipes, ForkFails, Fork, CloseChildEnds,
         StreamFails, Wait, Read, ReadEnds
    <3> QED BY <3>2, <3>3, Zenon
  <2>2. body[c] > 0 /\ readers[c] = {}
    BY <2>1, Zenon DEF SendBody
  <2>3. thread[c] = "body" /\ UNCHANGED <<programs, body, child, crashed>>
    BY <2>1, Zenon DEF SendBody, At
  <2>4. child[c] \in {"exited", "reaped"}
    BY <1>0, <2>2, <2>3 DEF OfCall, Begun, ChildHolds, CgiTypeOK
  <2>5. script[c] = "ignores" \/ c \in crashed
    BY <1>0, <2>2, <2>3, <2>4 DEF OfCall, HasNotRead
  <2> QED BY <2>2, <2>3, <2>4, <2>5
<1>2. ASSUME NEW c \in Calls, ChildStep(c)
      PROVE  \E e \in Calls : /\ body'[e] > 0
                              /\ script'[e] = "ignores" \/ e \in crashed'
                              /\ child'[e] \in {"exited", "reaped"}
  <2>1. alive = FALSE
    BY <1>2, Zenon DEF ChildStep, Exec, ExecFails, ScriptReads, ScriptWrites, ScriptExits
  <2>2. PICK e \in Calls : /\ body[e] > 0 /\ (script[e] = "ignores" \/ e \in crashed)
                           /\ child[e] \in {"exited", "reaped"}
    BY <1>0, <2>1, Zenon DEF Ended
  <2>3. e # c /\ body' = body /\ crashed \subseteq crashed'
    BY <1>2, <2>2 DEF ChildStep, Exec, ExecFails, ScriptReads, ScriptWrites, ScriptExits
  <2>4. script'[e] = script[e] /\ child'[e] = child[e]
    BY <1>0, <1>2, <2>3 DEF ChildStep, Exec, ExecFails, ScriptReads, ScriptWrites, ScriptExits,
       Exits, Child, CgiTypeOK
  <2> QED BY <2>2, <2>3, <2>4
<1>3. CASE UNCHANGED cvars
  <2>1. alive = FALSE
    BY <1>3, Zenon
  <2> QED BY <1>0, <1>3, <2>1, Zenon DEF Ended
<1> QED BY <1>1, <1>2, <1>3 DEF CgiNext
-----------------------------------------------------------------------------
\* The sets that are counted are finite.
LEMMA Countable ==
  CgiTypeOK => /\ IsFiniteSet(Unreaped) /\ IsFiniteSet(given) /\ IsFiniteSet(Owing)
               /\ Cardinality(Unreaped) \in Nat /\ Cardinality(given) \in Nat
               /\ Cardinality(Owing) \in Nat
<1> SUFFICES ASSUME CgiTypeOK
             PROVE  /\ IsFiniteSet(Unreaped) /\ IsFiniteSet(given) /\ IsFiniteSet(Owing)
                    /\ Cardinality(Unreaped) \in Nat /\ Cardinality(given) \in Nat
                    /\ Cardinality(Owing) \in Nat
  OBVIOUS
<1>1. Unreaped \subseteq Calls /\ given \subseteq Calls /\ Owing \subseteq Calls
  BY DEF Unreaped, Owing, CgiTypeOK
<1>2. IsFiniteSet(Unreaped) /\ IsFiniteSet(given) /\ IsFiniteSet(Owing)
  BY <1>1, FS_Subset, ServerIsNoChild
<1> QED BY <1>2, FS_CardinalityType

\* Who is counted stays the same.
LEMMA SameCount ==
  ASSUME CInv, Unreaped' = Unreaped, given' = given, Owing' = Owing, alive = TRUE
  PROVE  Reaping'
BY DEF CInv, Reaping

\* Every wait() takes one of the children that are owed one, and every child comes from
\* a thread that owes one.
LEMMA StepReaping == CInv /\ [CgiNext]_cvars => Reaping'
<1> SUFFICES ASSUME CInv, [CgiNext]_cvars, alive' = TRUE PROVE Reaping'
  BY DEF Reaping
<1>0. CgiTypeOK /\ \A c \in Calls : OfCall(c)
  BY DEF CInv
<1>a. alive = TRUE
  <2>1. alive' = alive \/ alive' = FALSE
    BY Zenon DEF CgiNext, ThreadStep, ChildStep, NotStarted, Pipes, ForkFails, Fork,
       CloseChildEnds, StreamFails, SendBody, Wait, Read, ReadEnds, Exec, ExecFails,
       ScriptReads, ScriptWrites, ScriptExits
  <2> QED BY <2>1, Zenon
<1>b. Cardinality(Unreaped) <= Cardinality(given) + Cardinality(Owing)
  BY <1>a DEF CInv, Reaping
<1>f. /\ IsFiniteSet(Unreaped) /\ IsFiniteSet(given) /\ IsFiniteSet(Owing)
      /\ Cardinality(Unreaped) \in Nat /\ Cardinality(given) \in Nat
      /\ Cardinality(Owing) \in Nat
  BY <1>0, Countable
<1> USE DEF Go, Child, At
<1>1. ASSUME NEW c \in Calls,
             \/ NotStarted(c) \/ Pipes(c) \/ ForkFails(c) \/ CloseChildEnds(c)
             \/ Read(c) \/ ReadEnds(c)
      PROVE  Reaping'
  <2>1. child' = child /\ given' = given
    BY <1>1 DEF NotStarted, Pipes, ForkFails, CloseChildEnds, Read, ReadEnds
  <2>2. Owing' = Owing
    BY <1>0, <1>1 DEF NotStarted, Pipes, ForkFails, CloseChildEnds, Read, ReadEnds, Owing, CgiTypeOK
  <2> QED BY <2>1, <2>2, <1>a, SameCount DEF Unreaped
<1>2. ASSUME NEW c \in Calls, Fork(c) PROVE Reaping'
  <2>1. child[c] = "none" /\ thread[c] = "pipes" /\ given' = given
    BY <1>0, <1>2 DEF Fork, OfCall, Begun
  <2>2. Unreaped' = Unreaped \cup {c} /\ c \notin Unreaped
    BY <1>0, <1>2, <2>1 DEF Fork, Unreaped, CgiTypeOK
  <2>3. Owing' = Owing \cup {c} /\ c \notin Owing
    BY <1>0, <1>2, <2>1 DEF Fork, Owing, CgiTypeOK
  <2>4. Cardinality(Unreaped') = Cardinality(Unreaped) + 1
    BY <1>f, <2>2, FS_AddElement
  <2>5. Cardinality(Owing') = Cardinality(Owing) + 1
    BY <1>f, <2>3, FS_AddElement
  <2> QED BY <2>1, <2>4, <2>5, <1>b, <1>f DEF Reaping
<1>3. ASSUME NEW c \in Calls, StreamFails(c) PROVE Reaping'
  <2>1. thread[c] = "body" /\ c \notin given /\ given' = given \cup {c} /\ child' = child
    BY <1>0, <1>3 DEF StreamFails, OfCall, Begun
  <2>2. Unreaped' = Unreaped
    BY <2>1 DEF Unreaped
  <2>3. Owing' = Owing \ {c} /\ c \in Owing
    BY <1>0, <1>3, <2>1 DEF StreamFails, Owing, CgiTypeOK
  <2>4. Cardinality(given') = Cardinality(given) + 1
    BY <1>f, <2>1, FS_AddElement
  <2>5. Cardinality(Owing') = Cardinality(Owing) - 1
    BY <1>f, <2>3, FS_RemoveElement
  <2> QED BY <2>2, <2>4, <2>5, <1>b, <1>f DEF Reaping
<1>4. ASSUME NEW c \in Calls, SendBody(c) PROVE Reaping'
  <2>1. thread[c] = "body" /\ child' = child /\ given' = given
    BY <1>4 DEF SendBody
  <2>2. thread' = thread \/ thread' = [thread EXCEPT ![c] = "wait"]
    BY <1>4 DEF SendBody
  <2>3. Owing' = Owing
    BY <1>0, <2>1, <2>2 DEF Owing, CgiTypeOK
  <2> QED BY <2>1, <2>3, <1>a, SameCount DEF Unreaped
<1>5. ASSUME NEW c \in Calls, Wait(c) PROVE Reaping'
  <2>1. Owing' = Owing \ {c} /\ c \in Owing /\ given' = given
    BY <1>0, <1>5 DEF Wait, Owing, CgiTypeOK
  <2>2. Cardinality(Owing') = Cardinality(Owing) - 1
    BY <1>f, <2>1, FS_RemoveElement
  <2>3. Cardinality(Owing') \in Nat
    BY <1>f, <2>1, <2>2, FS_RemoveElement, FS_CardinalityType
  <2>4. CASE Unreaped = {}
    <3>1. Unreaped' = {}
      BY <1>5, <2>4 DEF Wait, Unreaped
    <3>2. Cardinality(Unreaped') = 0
      BY <3>1, FS_EmptySet
    <3> QED BY <3>2, <2>1, <2>3, <1>f DEF Reaping
  <2>5. CASE Unreaped # {}
    <3>1. PICK d \in Calls : child[d] = "exited" /\ child' = [child EXCEPT ![d] = "reaped"]
      BY <1>5, <2>5 DEF Wait
    <3>2. Unreaped' = Unreaped \ {d} /\ d \in Unreaped
      BY <1>0, <3>1 DEF Unreaped, CgiTypeOK
    <3>3. Cardinality(Unreaped') = Cardinality(Unreaped) - 1
      BY <1>f, <3>2, FS_RemoveElement
    <3> QED BY <3>3, <2>1, <2>2, <1>b, <1>f DEF Reaping
  <2> QED BY <2>4, <2>5
<1>6. ASSUME NEW c \in Calls, ChildStep(c) PROVE Reaping'
  <2>1. thread' = thread /\ given' = given
    BY <1>6 DEF ChildStep, Exec, ExecFails, ScriptReads, ScriptWrites, ScriptExits
  <2>2. Unreaped' = Unreaped
    BY <1>0, <1>6 DEF ChildStep, Exec, ExecFails, ScriptReads, ScriptWrites, ScriptExits, Exits,
       Unreaped, CgiTypeOK
  <2> QED BY <2>1, <2>2, <1>a, SameCount DEF Owing
<1>7. CASE UNCHANGED cvars
  BY <1>7, <1>a, SameCount DEF Owing, Unreaped
<1> QED BY <1>1, <1>2, <1>3, <1>4, <1>5, <1>6, <1>7 DEF CgiNext, ThreadStep
-----------------------------------------------------------------------------
\* The invariant of this module: each call for itself, and the children that are owed.
THEOREM CgiInv == CgiSpec => []CInv
<1>1. CgiInit => CInv
  <2> SUFFICES ASSUME CgiInit PROVE CInv
    OBVIOUS
  <2>1. CgiTypeOK
    BY CapacityAssumption DEF CgiInit, NothingYet, CgiTypeOK, Holders
  <2>2. \A c \in Calls : OfCall(c)
    BY DEF CgiInit, NothingYet, OfCall, Begun, ServerHolds, ChildHolds, Amounts, Whole,
       HasNotRead
  <2>3. Ended
    BY DEF CgiInit, NothingYet, Ended
  <2>4. Unreaped = {}
    BY DEF CgiInit, NothingYet, Unreaped
  <2>5. Reaping
    BY <2>1, <2>4, Countable, FS_EmptySet DEF Reaping
  <2> QED BY <2>1, <2>2, <2>3, <2>5 DEF CInv
<1>2. CInv /\ [CgiNext]_cvars => CInv'
  <2> SUFFICES ASSUME CInv, [CgiNext]_cvars PROVE CInv'
    OBVIOUS
  <2>1. ASSUME NEW d \in Calls PROVE OfCall(d)'
    <3>1. CASE UNCHANGED cvars
      <4>1. OfCall(d) /\ Untouched(d)
        BY <3>1 DEF CInv, Untouched
      <4> QED BY <4>1, Frame
    <3>2. CASE CgiNext
      BY <3>2, ThreadKeeps, WaitKeeps, ChildKeeps DEF CgiNext
    <3> QED BY <3>1, <3>2
  <2> QED BY <2>1, CgiTyped, StepEnded, StepReaping DEF CInv
<1> QED BY <1>1, <1>2, PTL DEF CgiSpec

\* The variables keep to their domains; a pipe and a response hold no more than they do.
THEOREM CgiTypes == CgiSpec => []CgiTypeOK
<1>1. CInv => CgiTypeOK
  BY DEF CInv
<1> QED BY <1>1, CgiInv, PTL

\* A call that went its whole way has all its script wrote, up to MAXRESPONSE, whosever
\* child its wait() took.
THEOREM OutputIsWhole == CgiSpec => []WholeOutput
<1>1. CInv => WholeOutput
  BY DEF CInv, OfCall, Whole, WholeOutput
<1> QED BY <1>1, CgiInv, PTL

\* When no call is under way, no more children are left to nobody than calls were given
\* up.
THEOREM NobodyLeft == CgiSpec => []NoZombies
<1>1. CInv => NoZombies
  <2> SUFFICES ASSUME CInv, alive = TRUE, \A c \in Calls : thread[c] \in {"start", "done"}
               PROVE  Cardinality(Unreaped) <= Cardinality(given)
    BY DEF NoZombies, CInv, CgiTypeOK
  <2>1. Owing = {}
    BY DEF Owing
  <2>2. Cardinality(Owing) = 0
    BY <2>1, FS_EmptySet
  <2>3. Cardinality(Unreaped) <= Cardinality(given) + Cardinality(Owing)
    BY DEF CInv, Reaping
  <2> QED BY <2>2, <2>3, Countable DEF CInv
<1> QED BY <1>1, CgiInv, PTL

\* SIGPIPE ends the server only over a script, or a crashed child, that has not read a
\* body.
THEOREM OnlyUnreadBodiesKill == CgiSpec => []KilledForAReason
<1>1. CInv => KilledForAReason
  BY DEF CInv, Ended, KilledForAReason, CgiTypeOK
<1> QED BY <1>1, CgiInv, PTL

HIDE DEF cvars, programs, ends, data
-----------------------------------------------------------------------------
(***************************************************************************)
(* Who is at the data that all threads share, for any number of threads,   *)
(* any route tree and any table.                                           *)
(***************************************************************************)
\* A thread past a lock holds it.
AtLocked == UnderLock \cup {"added", "removed"}
Holds == \A t \in Threads : where[t] \in AtLocked => lock = t

\* main is in its loop, or at the end of it.
MainPlace == where[MainThread] \in {"loop", "teardown"}

\* The table exists for who fills it or decodes with it.  The last thread to publish it
\* fills it still, or it is full.
Published == \A t \in Threads : where[t] \in {"fill", "decode"} => published = TRUE
LastFills ==
    published = TRUE /\ decoding # Letters =>
        \E u \in Threads : where[u] = "fill" /\ filled[u] \subseteq decoding

\* Who inserts a child has left the tree at a node.
LeftAtNode == \A t \in Threads : where[t] = "insert" => looksFor[t] \in Nodes

SInv == SharedTypeOK /\ LeftAtNode /\ Holds /\ MainPlace /\ Published /\ LastFills

USE DEF svars
-----------------------------------------------------------------------------
\* The places of the code are places.
LEMMA PlaceNames ==
  /\ UnderLock \cup {"new", "adding", "added", "loop", "built", "removing", "removed", "gone",
      "walk", "list", "descend", "insert", "test", "publish", "fill", "decode", "look", "load",
      "serve", "date", "teardown"} \subseteq Places
BY DEF UnderLock, Places, Sites

\* A thread that moves from here to there is there, and the others stay where they are.
LEMMA MovesOne ==
  ASSUME SharedTypeOK, NEW t \in Everyone, NEW here, NEW there \in Places,
         Moves(t, here, there)
  PROVE  /\ where[t] = here /\ where'[t] = there
         /\ where' \in [Everyone -> Places]
         /\ \A u \in Everyone : u # t => where'[u] = where[u]
BY DEF SharedTypeOK, Moves

\* A step keeps to the domains.
LEMMA SharedTyped == SharedTypeOK /\ LeftAtNode /\ [SharedNext]_svars => SharedTypeOK'
<1> SUFFICES ASSUME SharedTypeOK, LeftAtNode, [SharedNext]_svars PROVE SharedTypeOK'
  OBVIOUS
<1> USE DEF SharedTypeOK, Everyone
<1>m. ASSUME NEW t \in Everyone, NEW here, NEW there \in Places, Moves(t, here, there)
      PROVE  where' \in [Everyone -> Places]
  BY <1>m, MovesOne
<1>1. CASE MainReturns
  <2>1. where' \in [Everyone -> Places]
    BY <1>1, <1>m, PlaceNames DEF MainReturns
  <2> QED BY <2>1, <1>1 DEF MainReturns
<1>2. ASSUME NEW t \in Threads, LockToAdd(t) \/ LockToRemove(t) PROVE SharedTypeOK'
  <2>1. where' \in [Everyone -> Places]
    BY <1>2, <1>m, PlaceNames DEF LockToAdd, LockToRemove, UnderLock
  <2> QED BY <2>1, <1>2 DEF LockToAdd, LockToRemove
<1>3. ASSUME NEW t \in Threads, UnlockAdded(t) \/ UnlockRemoved(t) PROVE SharedTypeOK'
  <2>1. where' \in [Everyone -> Places]
    BY <1>3, <1>m, PlaceNames DEF UnlockAdded, UnlockRemoved
  <2> QED BY <2>1, <1>3 DEF UnlockAdded, UnlockRemoved
<1>4. ASSUME NEW t \in Threads, Passes(t) PROVE SharedTypeOK'
  <2>1. where' \in [Everyone -> Places]
    BY <1>4, <1>m, PlaceNames DEF Passes, UnderLock
  <2> QED BY <2>1, <1>4 DEF Passes
<1>5. ASSUME NEW t \in Threads, Requests(t) PROVE SharedTypeOK'
  <2>1. where' \in [Everyone -> Places]
    BY <1>5, <1>m, PlaceNames DEF Requests
  <2> QED BY <2>1, <1>5 DEF Requests
<1>6. ASSUME NEW t \in Threads, Misses(t) \/ Acts(t) PROVE SharedTypeOK'
  <2>1. where' \in [Everyone -> Places]
    BY <1>6, <1>m, PlaceNames DEF Misses, Acts
  <2> QED BY <2>1, <1>6 DEF Misses, Acts
<1>7. ASSUME NEW t \in Threads, Inserts(t) PROVE SharedTypeOK'
  <2>1. where' \in [Everyone -> Places] /\ where[t] = "insert"
    BY <1>7, <1>m, PlaceNames DEF Inserts, Moves
  <2>2. looksFor[t] \in Nodes
    BY <2>1 DEF LeftAtNode
  <2> QED BY <2>1, <2>2, <1>7 DEF Inserts
<1>8. ASSUME NEW t \in Threads, Tests(t) \/ Decoded(t) \/ Looks(t) PROVE SharedTypeOK'
  <2>1. \/ Moves(t, "test", "decode") \/ Moves(t, "test", "publish")
        \/ Moves(t, "decode", "built") \/ Moves(t, "look", "serve") \/ Moves(t, "look", "load")
    BY <1>8 DEF Tests, Decoded, Looks
  <2>2. where' \in [Everyone -> Places]
    BY <2>1, <1>m, PlaceNames
  <2> QED BY <2>2, <1>8 DEF Tests, Decoded, Looks
<1>9. ASSUME NEW t \in Threads, Publishes(t) PROVE SharedTypeOK'
  <2>1. where' \in [Everyone -> Places]
    BY <1>9, <1>m, PlaceNames DEF Publishes
  <2> QED BY <2>1, <1>9 DEF Publishes
<1>10. ASSUME NEW t \in Threads, Fills(t) PROVE SharedTypeOK'
  <2>1. CASE IsFilled(t)
    <3>1. where' \in [Everyone -> Places]
      BY <2>1, <1>10, <1>m, PlaceNames DEF Fills
    <3> QED BY <3>1, <2>1, <1>10 DEF Fills
  <2>2. CASE ~IsFilled(t)
    BY <2>2, <1>10 DEF Fills
  <2> QED BY <2>1, <2>2
<1>11. ASSUME NEW t \in Threads, Loads(t) PROVE SharedTypeOK'
  <2>1. where' \in [Everyone -> Places]
    BY <1>11, <1>m, PlaceNames DEF Loads
  <2> QED BY <2>1, <1>11 DEF Loads
<1>12. CASE UNCHANGED svars
  BY <1>12
<1> QED
  BY <1>1, <1>2, <1>3, <1>4, <1>5, <1>6, <1>7, <1>8, <1>9, <1>10, <1>11, <1>12
  DEF SharedNext

\* Who is past a lock holds it after each step: the lock is taken when it is free, and
\* let go by who holds it.
LEMMA StepHolds == SInv /\ [SharedNext]_svars => Holds'
<1> SUFFICES ASSUME SInv, [SharedNext]_svars, NEW u \in Threads, where'[u] \in AtLocked
             PROVE  lock' = u
  BY DEF Holds
<1> USE DEF SInv, SharedTypeOK, Everyone
<1>0. u # Unlocked /\ u # MainThread /\ (where[u] \in AtLocked => lock = u)
  BY SharedDataAssumption DEF Holds
<1>1. CASE MainReturns
  BY <1>0, <1>1 DEF MainReturns, Moves
<1>2. ASSUME NEW t \in Threads, LockToAdd(t) \/ LockToRemove(t) PROVE lock' = u
  <2>1. lock = Unlocked /\ lock' = t
    BY <1>2 DEF LockToAdd, LockToRemove
  <2>2. u # t => where'[u] = where[u]
    BY <1>2 DEF LockToAdd, LockToRemove, Moves
  <2> QED BY <2>1, <2>2, <1>0
<1>3. ASSUME NEW t \in Threads, UnlockAdded(t) \/ UnlockRemoved(t) PROVE lock' = u
  <2>1. where[t] \in AtLocked /\ where'[t] \notin AtLocked
    BY <1>3 DEF UnlockAdded, UnlockRemoved, Moves, AtLocked, UnderLock
  <2>2. lock = t /\ u # t
    BY <2>1 DEF Holds
  <2>3. where'[u] = where[u]
    BY <2>2, <1>3 DEF UnlockAdded, UnlockRemoved, Moves
  <2> QED BY <2>2, <2>3, <1>0
<1>4. ASSUME NEW t \in Threads, Passes(t) PROVE lock' = u
  <2>1. lock' = lock /\ (u # t => where'[u] = where[u])
    BY <1>4 DEF Passes, Moves
  <2>2. where'[t] \in AtLocked => where[t] \in AtLocked
    BY <1>4 DEF Passes, Moves, AtLocked, UnderLock
  <2> QED BY <2>1, <2>2, <1>0
<1>5. ASSUME NEW t \in Threads, 
             \/ Requests(t) \/ Misses(t) \/ Inserts(t) \/ Acts(t) \/ Tests(t)
             \/ Publishes(t) \/ Decoded(t) \/ Looks(t) \/ Loads(t)
      PROVE  lock' = u
  <2>1. lock' = lock /\ (u # t => where'[u] = where[u])
    BY <1>5 DEF Requests, Misses, Inserts, Acts, Tests, Publishes, Decoded, Looks, Loads, Moves
  <2>2. where'[t] \notin AtLocked
    BY <1>5 DEF Requests, Misses, Inserts, Acts, Tests, Publishes, Decoded, Looks, Loads,
                Moves, AtLocked, UnderLock
  <2> QED BY <2>1, <2>2, <1>0
<1>6. ASSUME NEW t \in Threads, Fills(t) PROVE lock' = u
  <2>1. lock' = lock /\ (u # t => where'[u] = where[u])
    BY <1>6 DEF Fills, Moves
  <2>2. where'[t] \notin AtLocked
    BY <1>6 DEF Fills, Moves, AtLocked, UnderLock
  <2> QED BY <2>1, <2>2, <1>0
<1>7. CASE UNCHANGED svars
  BY <1>0, <1>7
<1> QED BY <1>1, <1>2, <1>3, <1>4, <1>5, <1>6, <1>7 DEF SharedNext

\* Where a url leaves the tree is known before a child is inserted there.
LEMMA StepLeaves == SInv /\ [SharedNext]_svars => LeftAtNode'
<1> SUFFICES ASSUME SInv, [SharedNext]_svars, NEW u \in Threads, where'[u] = "insert"
             PROVE  looksFor'[u] \in Nodes
  BY DEF LeftAtNode
<1> USE DEF SInv, SharedTypeOK, Everyone
<1>0. u # MainThread /\ (where[u] = "insert" => looksFor[u] \in Nodes)
  BY SharedDataAssumption DEF LeftAtNode
<1>1. CASE MainReturns
  BY <1>0, <1>1 DEF MainReturns, Moves
<1>2. ASSUME NEW t \in Threads, Misses(t) PROVE looksFor'[u] \in Nodes
  BY <1>0, <1>2 DEF Misses, Moves
<1>3. ASSUME NEW t \in Threads, Requests(t) PROVE looksFor'[u] \in Nodes
  BY <1>0, <1>3 DEF Requests, Moves
<1>4. ASSUME NEW t \in Threads,
             \/ LockToAdd(t) \/ UnlockAdded(t) \/ LockToRemove(t) \/ UnlockRemoved(t)
             \/ Inserts(t) \/ Acts(t) \/ Tests(t)
             \/ Publishes(t) \/ Decoded(t) \/ Looks(t) \/ Loads(t)
      PROVE  looksFor'[u] \in Nodes
  <2>1. looksFor' = looksFor /\ (u # t => where'[u] = where[u]) /\ where'[t] # "insert"
    BY <1>4 DEF LockToAdd, UnlockAdded, LockToRemove, UnlockRemoved, Inserts, Acts, Tests,
                Publishes, Decoded, Looks, Loads, Moves
  <2> QED BY <2>1, <1>0
<1>5. ASSUME NEW t \in Threads, Passes(t) PROVE looksFor'[u] \in Nodes
  <2>1. looksFor' = looksFor /\ (u # t => where'[u] = where[u]) /\ where'[t] # "insert"
    BY <1>5 DEF Passes, Moves
  <2> QED BY <2>1, <1>0
<1>6. ASSUME NEW t \in Threads, Fills(t) PROVE looksFor'[u] \in Nodes
  <2>1. looksFor' = looksFor /\ (u # t => where'[u] = where[u]) /\ where'[t] # "insert"
    BY <1>6 DEF Fills, Moves
  <2> QED BY <2>1, <1>0
<1>7. CASE UNCHANGED svars
  BY <1>0, <1>7
<1> QED BY <1>1, <1>2, <1>3, <1>4, <1>5, <1>6, <1>7 DEF SharedNext

\* The table is published before it is filled or decoded with, and never taken back.
LEMMA StepPublished == SInv /\ [SharedNext]_svars => Published'
<1> SUFFICES ASSUME SInv, [SharedNext]_svars, NEW u \in Threads,
                    where'[u] \in {"fill", "decode"}
             PROVE  published' = TRUE
  BY DEF Published
<1> USE DEF SInv, SharedTypeOK, Everyone
<1>0. u # MainThread /\ (where[u] \in {"fill", "decode"} => published = TRUE)
  BY SharedDataAssumption DEF Published
<1>1. CASE MainReturns
  <2>1. where'[u] = where[u] /\ published' = published
    BY <1>0, <1>1 DEF MainReturns, Moves
  <2> QED BY <2>1, <1>0, Zenon
<1>2. ASSUME NEW t \in Threads, Publishes(t) PROVE published' = TRUE
  BY <1>2 DEF Publishes
<1>3. ASSUME NEW t \in Threads, Tests(t) PROVE published' = TRUE
  <2>1. CASE u = t
    <3>1. where'[t] = IF published THEN "decode" ELSE "publish"
      BY <1>3 DEF Tests, Moves
    <3>2. published
      BY <2>1, <3>1
    <3> QED BY <3>2, <1>3, Zenon DEF Tests
  <2>2. CASE u # t
    <3>1. where'[u] = where[u] /\ published' = published
      BY <2>2, <1>3 DEF Tests, Moves
    <3> QED BY <3>1, <1>0, Zenon
  <2> QED BY <2>1, <2>2
<1>4. ASSUME NEW t \in Threads,
             \/ LockToAdd(t) \/ UnlockAdded(t) \/ LockToRemove(t) \/ UnlockRemoved(t)
             \/ Requests(t) \/ Misses(t) \/ Inserts(t) \/ Acts(t)
             \/ Decoded(t) \/ Looks(t) \/ Loads(t)
      PROVE  published' = TRUE
  <2>1. u # t /\ where'[u] = where[u]
    BY <1>4 DEF LockToAdd, UnlockAdded, LockToRemove, UnlockRemoved, Requests, Misses, Inserts,
                Acts, Decoded, Looks, Loads, Moves
  <2>2. published' = published
    BY <1>4, Zenon DEF LockToAdd, UnlockAdded, LockToRemove, UnlockRemoved, Requests, Misses, Inserts,
                Acts, Decoded, Looks, Loads
  <2> QED BY <2>1, <2>2, <1>0, Zenon
<1>5. ASSUME NEW t \in Threads, Passes(t) PROVE published' = TRUE
  <2>1. u # t /\ where'[u] = where[u]
    BY <1>5 DEF Passes, Moves
  <2>2. published' = published
    BY <1>5, Zenon DEF Passes
  <2> QED BY <2>1, <2>2, <1>0, Zenon
<1>6. ASSUME NEW t \in Threads, Fills(t) PROVE published' = TRUE
  <2>1. where[t] = "fill" /\ (u # t => where'[u] = where[u])
    BY <1>6 DEF Fills, Moves
  <2>2. published = TRUE /\ published' = published
    BY <2>1, <1>6, Zenon DEF Fills, Published
  <2> QED BY <2>2, Zenon
<1>7. CASE UNCHANGED svars
  BY <1>0, <1>7, Zenon
<1> QED BY <1>1, <1>2, <1>3, <1>4, <1>5, <1>6, <1>7 DEF SharedNext

\* Who fills keeps filling what it has not filled.
LEMMA StaysFilling ==
  ASSUME SInv, LastFills, published' = published, decoding' = decoding, filled' = filled,
         \A u \in Threads : where[u] = "fill" => where'[u] = "fill"
  PROVE  LastFills'
BY DEF LastFills

\* The last to publish the table fills it, or has filled it.
LEMMA StepLastFills == SInv /\ [SharedNext]_svars => LastFills'
<1> SUFFICES ASSUME SInv, [SharedNext]_svars PROVE LastFills'
  OBVIOUS
<1> USE DEF SInv, SharedTypeOK, Everyone
<1>1. CASE MainReturns
  <2>1. \A u \in Threads : where[u] = "fill" => where'[u] = "fill"
    BY <1>1 DEF MainReturns, Moves
  <2>2. published' = published /\ decoding' = decoding /\ filled' = filled
    BY <1>1, Zenon DEF MainReturns
  <2> QED BY <2>1, <2>2, StaysFilling
<1>2. ASSUME NEW t \in Threads,
             \/ LockToAdd(t) \/ UnlockAdded(t) \/ LockToRemove(t) \/ UnlockRemoved(t)
             \/ Requests(t) \/ Misses(t) \/ Inserts(t) \/ Acts(t) \/ Tests(t)
             \/ Decoded(t) \/ Looks(t) \/ Loads(t)
      PROVE  LastFills'
  <2>1. \A u \in Threads : where[u] = "fill" => where'[u] = "fill"
    BY <1>2 DEF LockToAdd, UnlockAdded, LockToRemove, UnlockRemoved, Requests, Misses, Inserts,
                Acts, Tests, Decoded, Looks, Loads, Moves
  <2>2. published' = published /\ decoding' = decoding /\ filled' = filled
    BY <1>2, Zenon DEF LockToAdd, UnlockAdded, LockToRemove, UnlockRemoved, Requests, Misses,
                Inserts, Acts, Tests, Decoded, Looks, Loads
  <2> QED BY <2>1, <2>2, StaysFilling
<1>3. ASSUME NEW t \in Threads, Passes(t) PROVE LastFills'
  <2>1. \A u \in Threads : where[u] = "fill" => where'[u] = "fill"
    BY <1>3 DEF Passes, Moves
  <2>2. published' = published /\ decoding' = decoding /\ filled' = filled
    BY <1>3, Zenon DEF Passes
  <2> QED BY <2>1, <2>2, StaysFilling
<1>4. ASSUME NEW t \in Threads, Publishes(t) PROVE LastFills'
  <2>1. where'[t] = "fill" /\ filled'[t] = {}
    BY <1>4 DEF Publishes, Moves
  <2> QED BY <2>1 DEF LastFills
<1>5. ASSUME NEW t \in Threads, Fills(t), IsFilled(t) PROVE LastFills'
  <2>1. /\ filled[t] = Letters /\ decoding' = decoding /\ filled' = filled
        /\ \A u \in Threads : u # t => where'[u] = where[u]
    BY <1>5 DEF Fills, IsFilled, Moves
  <2>2. published' = published
    BY <1>5, Zenon DEF Fills
  <2>3. \A u \in Threads : filled[u] \subseteq decoding /\ decoding # Letters => u # t
    BY <2>1
  <2> QED BY <2>1, <2>2, <2>3 DEF LastFills
<1>6. ASSUME NEW t \in Threads, Fills(t), ~IsFilled(t) PROVE LastFills'
  <2>1. PICK e \in Letters \ filled[t] :
           /\ decoding' = decoding \cup {e}
           /\ filled' = [filled EXCEPT ![t] = @ \cup {e}]
           /\ where' = where
    BY <1>6 DEF Fills
  <2>2. published' = published
    BY <1>6, Zenon DEF Fills
  <2>3. decoding' # Letters => decoding # Letters
    BY <2>1
  <2>4. \A u \in Threads : filled[u] \subseteq decoding => filled'[u] \subseteq decoding'
    BY <2>1
  <2> QED BY <2>1, <2>2, <2>3, <2>4 DEF LastFills
<1>7. CASE UNCHANGED svars
  BY <1>7, StaysFilling
<1> QED BY <1>1, <1>2, <1>3, <1>4, <1>5, <1>6, <1>7 DEF SharedNext

\* main leaves its loop once, for its end.
LEMMA StepMain == SInv /\ [SharedNext]_svars => MainPlace'
<1> SUFFICES ASSUME SInv, [SharedNext]_svars PROVE MainPlace'
  OBVIOUS
<1> USE DEF SInv, SharedTypeOK, Everyone, MainPlace
<1>1. CASE MainReturns
  BY <1>1 DEF MainReturns, Moves
<1>2. ASSUME NEW t \in Threads,
             \/ LockToAdd(t) \/ UnlockAdded(t) \/ LockToRemove(t) \/ UnlockRemoved(t)
             \/ Requests(t) \/ Misses(t) \/ Inserts(t) \/ Acts(t) \/ Tests(t) \/ Publishes(t)
             \/ Decoded(t) \/ Looks(t) \/ Loads(t) \/ Passes(t) \/ Fills(t)
      PROVE  MainPlace'
  <2>1. t # MainThread
    BY SharedDataAssumption
  <2>2. where'[MainThread] = where[MainThread]
    BY <1>2, <2>1 DEF LockToAdd, UnlockAdded, LockToRemove, UnlockRemoved, Requests, Misses,
       Inserts, Acts, Tests, Publishes, Decoded, Looks, Loads, Passes, Fills, Moves
  <2> QED BY <2>2
<1>3. CASE UNCHANGED svars
  BY <1>3
<1> QED BY <1>1, <1>2, <1>3 DEF SharedNext
-----------------------------------------------------------------------------
\* The invariant of this module: who holds the lock, and who fills the table.
THEOREM SharedInv == SharedSpec => []SInv
<1>1. SharedInit => SInv
  BY SharedDataAssumption
  DEF SharedInit, SInv, SharedTypeOK, LeftAtNode, Holds, MainPlace, Published, LastFills,
      Everyone, Places, Sites, AtLocked, UnderLock
<1>2. SInv /\ [SharedNext]_svars => SInv'
  BY SharedTyped, StepLeaves, StepHolds, StepMain, StepPublished, StepLastFills DEF SInv
<1> QED BY <1>1, <1>2, PTL DEF SharedSpec

\* The variables keep to their domains.
THEOREM SharedTypes == SharedSpec => []SharedTypeOK
<1>1. SInv => SharedTypeOK
  BY DEF SInv
<1> QED BY <1>1, SharedInv, PTL

\* Two threads of which one writes an object that both are at: one of the two is at a
\* site that takes no lock.  What add_session and remove_session do excludes itself.
THEOREM OnlyKnownRaces == SharedSpec => []RacesAreKnown
<1>1. SInv => RacesAreKnown
  <2> SUFFICES ASSUME SInv, NEW t \in Everyone, NEW u \in Everyone, t # u,
                      Conflict(where[t], where[u]),
                      where[t] \notin Bare, where[u] \notin Bare
               PROVE  FALSE
    BY DEF RacesAreKnown
  <2>1. where[t] \in UnderLock /\ where[u] \in UnderLock
    BY DEF Conflict, SharedObjects, Sessions, Addresses, RouteTree, Base64, Icon, Calendar,
           Writes, Bare, UnderLock
  <2>2. t # MainThread /\ u # MainThread
    BY <2>1 DEF SInv, MainPlace, UnderLock
  <2>3. lock = t /\ lock = u
    BY <2>1, <2>2 DEF SInv, Holds, AtLocked, Everyone
  <2> QED BY <2>3
<1> QED BY <1>1, SharedInv, PTL

\* Who decodes with a table that lacks entries does so beside a thread that fills it.
THEOREM TableIsFull == SharedSpec => []DecodesWithFullTable
<1>1. SInv => DecodesWithFullTable
  <2> SUFFICES ASSUME SInv, NEW t \in Threads, where[t] = "decode", decoding # Letters
               PROVE  \E u \in Threads \ {t} : where[u] = "fill"
    BY DEF DecodesWithFullTable
  <2>1. published = TRUE
    BY DEF SInv, Published
  <2>2. PICK u \in Threads : where[u] = "fill"
    BY <2>1, Zenon DEF SInv, LastFills
  <2>3. u # t
    BY <2>2
  <2> QED BY <2>2, <2>3
<1> QED BY <1>1, SharedInv, PTL

\* Once all that is made lazily is made, and nobody saw it otherwise, nobody makes it
\* again.
THEOREM WarmForGood == SharedSpec => WarmStaysWarm
<1>1. SInv /\ [SharedNext]_svars => [Warm => Warm']_svars
  <2> SUFFICES ASSUME SInv, SharedNext, Warm PROVE Warm'
    OBVIOUS
  <2> USE DEF SInv, SharedTypeOK, Everyone, Warm
  <2>1. CASE MainReturns
    <3>1. UNCHANGED <<published, decoding, icon, children>>
      BY <2>1, Zenon DEF MainReturns
    <3>2. \A u \in Threads : where'[u] = where[u]
      BY <2>1, SharedDataAssumption DEF MainReturns, Moves
    <3> QED BY <3>1, <3>2
  <2>2. ASSUME NEW t \in Threads,
               \/ LockToAdd(t) \/ UnlockAdded(t) \/ LockToRemove(t) \/ UnlockRemoved(t)
               \/ Requests(t) \/ Acts(t) \/ Decoded(t)
        PROVE  Warm'
    <3>1. UNCHANGED <<published, decoding, icon, children>>
      BY <2>2, Zenon DEF LockToAdd, UnlockAdded, LockToRemove, UnlockRemoved, Requests, Acts,
                         Decoded
    <3>2. \A u \in Threads : where'[u] \notin {"insert", "publish", "fill", "load"}
      BY <2>2 DEF LockToAdd, UnlockAdded, LockToRemove, UnlockRemoved, Requests, Acts,
                  Decoded, Moves
    <3> QED BY <3>1, <3>2
  <2>3. ASSUME NEW t \in Threads, Passes(t) PROVE Warm'
    <3>1. UNCHANGED <<published, decoding, icon, children>>
      BY <2>3, Zenon DEF Passes
    <3>2. \A u \in Threads : where'[u] \notin {"insert", "publish", "fill", "load"}
      BY <2>3 DEF Passes, Moves
    <3> QED BY <3>1, <3>2
  <2>4. ASSUME NEW t \in Threads, Tests(t) \/ Looks(t) PROVE Warm'
    <3>1. UNCHANGED <<published, decoding, icon, children>>
      BY <2>4, Zenon DEF Tests, Looks
    <3>2. \A u \in Threads : where'[u] \notin {"insert", "publish", "fill", "load"}
      BY <2>4 DEF Tests, Looks, Moves
    <3> QED BY <3>1, <3>2
  <2>5. ASSUME NEW t \in Threads, Misses(t) PROVE FALSE
    BY <2>5 DEF Misses
  <2>6. ASSUME NEW t \in Threads, Inserts(t) \/ Publishes(t) \/ Fills(t) \/ Loads(t) PROVE FALSE
    <3>1. where[t] \in {"insert", "publish", "fill", "load"}
      BY <2>6 DEF Inserts, Publishes, Fills, Loads, Moves
    <3> QED BY <3>1
  <2> QED BY <2>1, <2>2, <2>3, <2>4, <2>5, <2>6 DEF SharedNext
<1> QED BY <1>1, SharedInv, PTL DEF SharedSpec, WarmStaysWarm

HIDE DEF svars
-----------------------------------------------------------------------------
(***************************************************************************)
(* What is left in the response between two requests of a connection, and  *)
(* what the headers therefore say, for any sequence of requests.           *)
(***************************************************************************)
Codes == {Unset, 200, 201, 308, 404}
Before == FileMissing \cup {"none"}

\* A cookie is never kept; a code other than 200 is kept from the start or from a file
\* that was missing, and the validator from the icon.  A response that was not filled
\* never has a header of its own.
HeaderOfAPage == header.page # "no pipe"
Left ==
    /\ cookie = FALSE
    /\ open = TRUE /\ code # 200 => \E p \in Before : p \in kept
    /\ validator = TRUE => "icon" \in kept
    /\ HeaderOfAPage
FInv == FieldsTypeOK /\ Left

USE DEF fields, rvars
-----------------------------------------------------------------------------
\* A header has a page, a code, a validator and a cookie.
LEMMA PreparedIsHeader ==
  \A p \in Pages, c \in Codes, v \in BOOLEAN, k \in BOOLEAN :
     Prepared(p, c, v, k) \in Headers /\ Prepared(p, c, v, k).page = p
BY DEF Prepared, Headers, Codes

\* All names are pages.
LEMMA PageNames ==
  /\ FileSent \cup FileMissing \cup NotFound \subseteq Pages
  /\ {"no listing", "listing", "form", "admin", "proxy page", "no listing, file", "touch",
      "icon", "script", "no pipe", "proxied", "not proxied"} \subseteq Pages
  /\ "no route, body" \in NotFound
BY DEF Pages, FileSent, FileMissing, NotFound

\* The status of what is a file.
LEMMA StatusOfFile == \A p \in FileSent : Status(p) = 200 /\ p # "touch" /\ p # "no pipe"
BY DEF Status, FileSent, FileMissing, NotFound

\* The status of what is not found.
LEMMA StatusOfMiss ==
  \A p \in FileMissing \cup NotFound : Status(p) = 404 /\ p # "touch" /\ p # "no pipe"
<1>1. \A p \in FileMissing \cup NotFound : p # "touch" /\ p # "no pipe"
  BY DEF FileMissing, NotFound
<1>2. \A p \in FileMissing \cup NotFound : Status(p) = 404
  BY DEF Status
<1> QED BY <1>1, <1>2, Zenon

\* The status of the others.
LEMMA StatusOfPage ==
  /\ Status("listing") = 200 /\ Status("admin") = 200 /\ Status("proxy page") = 200
  /\ Status("form") = 201 /\ Status("touch") = 308
  /\ Status("proxied") = 200 /\ Status("no listing, file") = 200
BY DEF Status, FileMissing, NotFound

\* The status of a page that was built.
LEMMA StatusOfBuilt ==
  \A p \in {"listing", "form", "admin", "proxy page"} : Status(p) \in Codes /\ p # "no pipe"
<1>1. 200 \in Codes /\ 201 \in Codes
  BY DEF Codes
<1>a. Status("listing") \in Codes
  BY <1>1 DEF Status, FileMissing, NotFound
<1>b. Status("form") \in Codes
  BY <1>1 DEF Status, FileMissing, NotFound
<1>2. Status("listing") \in Codes /\ Status("form") \in Codes
  BY <1>a, <1>b
<1>3. Status("admin") \in Codes /\ Status("proxy page") \in Codes
  BY <1>1, StatusOfPage
<1>4. \A p \in {"listing", "form", "admin", "proxy page"} : p # "no pipe"
  OBVIOUS
<1> QED BY <1>2, <1>3, <1>4, Zenon

\* A header of its own: its code is the page's, or that of the response before the
\* icon or a script's output; its validator is the icon's or was there; a cookie is
\* there only for who asked for it.
OwnAnswer ==
    /\ Len(answers') = 1
    /\ answers'[1].page = page'
    /\ answers'[1].cookie <=> page' = "touch"
    /\ \/ answers'[1].code = Status(page')
       \/ page' \in {"icon", "script"} /\ answers'[1].code = code /\ open
    /\ answers'[1].validator => validator \/ page' = "icon"
NoAnswer ==
    \/ page' = "not proxied" /\ answers' = <<>>
    \/ page' = "no pipe" /\ answers' \in {<<>>, <<header>>}
    \/ /\ page' = "no listing"
       /\ answers' = Append(<<MissHeader("no listing")>>, MissHeader("no listing"))

\* Whatever a request comes to, its client gets a header of its own, or it is one of the
\* three that do not care.
LEMMA EveryAnswer == FInv /\ FieldsNext => OwnAnswer \/ NoAnswer
<1> SUFFICES ASSUME FInv, FieldsNext PROVE OwnAnswer \/ NoAnswer
  OBVIOUS
<1>0. cookie = FALSE /\ validator \in BOOLEAN /\ code \in {Unset, 200, 404}
  BY DEF FInv, Left, FieldsTypeOK
<1>a. code \in Codes /\ 200 \in Codes /\ 404 \in Codes /\ 201 \in Codes /\ 308 \in Codes
  BY <1>0 DEF Codes
<1>b. \A h : Append(<<>>, h) = <<h>>
  OBVIOUS
<1>1. ASSUME NEW p \in Pages, SendFile(p) PROVE OwnAnswer
  <2>1. p \in FileSent /\ page' = p /\ answers' = <<Prepared(page', 200, validator, FALSE)>>
    BY <1>0, <1>1 DEF SendFile, Keeps, FileHeader
  <2>2. 200 = Status(page') /\ page' # "touch"
    BY <2>1, StatusOfFile
  <2> QED BY <2>1, <2>2 DEF OwnAnswer, Prepared
<1>2. ASSUME NEW p \in Pages, SendMiss(p) PROVE OwnAnswer
  <2>1. p \in FileMissing /\ page' = p /\ answers' = <<Prepared(page', 404, validator, FALSE)>>
    BY <1>0, <1>2 DEF SendMiss, Keeps, MissHeader, MissStatus
  <2>2. 404 = Status(page') /\ page' # "touch"
    BY <2>1, StatusOfMiss
  <2> QED BY <2>1, <2>2 DEF OwnAnswer, Prepared
<1>3. ASSUME NEW p \in Pages, ReturnMiss(p) PROVE OwnAnswer
  <2>1. p \in NotFound /\ page' = p /\ answers' = <<Prepared(page', 404, validator, FALSE)>>
    BY <1>0, <1>b, <1>3, ZenonT(40) DEF ReturnMiss, Returns, MissHeader, MissStatus
  <2>2. 404 = Status(page') /\ page' # "touch"
    BY <2>1, StatusOfMiss
  <2> QED BY <2>1, <2>2 DEF OwnAnswer, Prepared
<1>4. ASSUME NEW p \in Pages, ReturnPage(p) PROVE OwnAnswer
  <2>1. /\ p \in {"listing", "form", "admin", "proxy page"} /\ page' = p
        /\ answers' = <<Prepared(page', Status(page'), validator, FALSE)>>
    BY <1>0, <1>b, <1>4 DEF ReturnPage, Returns
  <2>2. p # "touch"
    BY <2>1, <1>a, StatusOfPage
  <2> QED BY <2>1, <2>2 DEF OwnAnswer, Prepared
<1>5. ASSUME NEW p \in Pages, ReturnAfterSend(p) PROVE OwnAnswer \/ NoAnswer
  <2>1. page' = p /\ p \in {"no listing", "no listing, file"}
    BY <1>5 DEF ReturnAfterSend
  <2>2. CASE p = "no listing"
    <3>1. answers' = Append(<<MissHeader(p)>>, MissHeader(p))
      BY <1>5, <2>2, Zenon DEF ReturnAfterSend, Returns
    <3> QED BY <2>1, <2>2, <3>1 DEF NoAnswer
  <2>3. CASE p = "no listing, file"
    <3>1. answers' = <<Prepared(page', 200, validator, FALSE)>>
      BY <1>0, <1>5, <2>3 DEF ReturnAfterSend, Returns, AfterFile, FileHeader
    <3>2. 200 = Status(page') /\ page' # "touch"
      BY <2>1, <2>3, StatusOfPage
    <3> QED BY <2>1, <2>3, <3>1, <3>2 DEF OwnAnswer, Prepared
  <2> QED BY <2>1, <2>2, <2>3
<1>6. CASE BreaksOff
  <2>1. /\ page' = "no route, body" /\ page' \in NotFound
        /\ answers' = <<Prepared(page', 404, validator, FALSE)>>
    BY <1>0, <1>6 DEF BreaksOff, MissHeader, MissStatus, NotFound
  <2>2. 404 = Status(page') /\ page' # "touch"
    BY <2>1, StatusOfMiss
  <2> QED BY <2>1, <2>2 DEF OwnAnswer, Prepared
<1>7. CASE Redirect
  <2>1. page' = "touch" /\ answers' = <<Prepared("touch", 308, FALSE, TRUE)>>
    BY <1>7, <1>b DEF Redirect, Returns
  <2>2. 308 = Status(page')
    BY <2>1, StatusOfPage
  <2> QED BY <2>1, <2>2 DEF OwnAnswer, Prepared
<1>8. CASE ReturnOutput
  <2>1. open /\ page' = "script" /\ answers' = <<Prepared(page', code, validator, FALSE)>>
    BY <1>0, <1>b, <1>8 DEF ReturnOutput, Returns
  <2> QED BY <2>1 DEF OwnAnswer, Prepared
<1>9. CASE ReturnUnfilled
  <2>1. page' = "no pipe" /\ answers' \in {<<>>, <<header>>}
    BY <1>b, <1>9 DEF ReturnUnfilled, Returns
  <2> QED BY <2>1 DEF NoAnswer
<1>10. CASE SendIcon
  <2>1. open /\ page' = "icon" /\ answers' = <<Prepared(page', code, TRUE, FALSE)>>
    BY <1>0, <1>10 DEF SendIcon, Keeps
  <2> QED BY <2>1 DEF OwnAnswer, Prepared
<1>11. CASE Proxied
  <2>1. page' = "proxied" /\ answers' = <<Prepared(page', 200, validator, FALSE)>>
    BY <1>0, <1>11 DEF Proxied, Returns, FileHeader
  <2>2. 200 = Status(page') /\ page' # "touch"
    BY <2>1, StatusOfPage
  <2> QED BY <2>1, <2>2 DEF OwnAnswer, Prepared
<1>12. CASE NotProxied
  BY <1>12 DEF NotProxied, Returns, NoAnswer
<1> QED
  BY <1>1, <1>2, <1>3, <1>4, <1>5, <1>6, <1>7, <1>8, <1>9, <1>10, <1>11, <1>12 DEF FieldsNext

\* A header built for a page, with the members as they are.
LEMMA HeaderOf ==
  ASSUME FInv
  PROVE  \A p \in Pages : \A c \in Codes :
            /\ Prepared(p, c, validator, FALSE) \in Headers
            /\ Prepared(p, c, validator, FALSE).page = p
<1>1. validator \in BOOLEAN /\ FALSE \in BOOLEAN
  BY DEF FInv, FieldsTypeOK
<1> QED BY <1>1, PreparedIsHeader, Zenon

\* A response that was returned: nothing of it is left but its header.
LEMMA ReturnedLeavesNothing ==
  ASSUME FInv, page' \in Pages, header' \in Headers, HeaderOfAPage',
         answers' \in Seq(Headers), code' = 200, validator' = FALSE, cookie' = FALSE,
         size' = FALSE, kept' = {}, open' = open
  PROVE  FInv'
BY DEF FInv, Left, FieldsTypeOK

\* What an action has sent itself leaves its traces.
LEMMA KeptLeavesTraces ==
  ASSUME FInv, page' \in Pages, header' \in Headers, HeaderOfAPage',
         answers' \in Seq(Headers), code' \in {200, 404, code}, size' \in BOOLEAN,
         cookie' = cookie, open' = open, kept' = kept \cup {page'},
         code' = 404 => page' \in Before \/ code' = code,
         validator' \in BOOLEAN, validator' = TRUE => validator = TRUE \/ page' = "icon"
  PROVE  FInv'
<1>1. code \in {Unset, 200, 404} /\ kept \subseteq Pages \cup {"none"}
  BY DEF FInv, FieldsTypeOK
<1>2. cookie = FALSE /\ open \in BOOLEAN
  BY DEF FInv, FieldsTypeOK, Left
<1>3. code' \in {Unset, 200, 404}
  BY <1>1
<1>4. kept' \subseteq Pages \cup {"none"}
  BY <1>1
<1>5. cookie' = FALSE /\ cookie' \in BOOLEAN /\ open' \in BOOLEAN
  BY <1>2, Zenon
<1>6. FieldsTypeOK'
  BY <1>3, <1>4, <1>5, Zenon DEF FieldsTypeOK
<1>7. open' = TRUE /\ code' # 200 => \E p \in Before : p \in kept'
  <2> SUFFICES ASSUME open' = TRUE, code' # 200 PROVE \E p \in Before : p \in kept'
    OBVIOUS
  <2>1. CASE code' = code
    <3>1. open = TRUE /\ code # 200 => \E p \in Before : p \in kept
      BY DEF FInv, Left
    <3>2. \E p \in Before : p \in kept
      BY <2>1, <3>1, Zenon
    <3> QED BY <3>2, Zenon
  <2>2. CASE page' \in Before
    BY <2>2, Zenon
  <2>3. code' = 404 \/ code' = code
    OBVIOUS
  <2> QED BY <2>1, <2>2, <2>3, Zenon
<1>8. validator' = TRUE => "icon" \in kept'
  <2>1. validator = TRUE => "icon" \in kept
    BY DEF FInv, Left
  <2> QED BY <2>1, Zenon
<1>9. Left'
  BY <1>5, <1>7, <1>8, Zenon DEF Left
<1> QED BY <1>6, <1>9, Zenon DEF FInv

\* One header, or none, or two: sequences of headers.
LEMMA Few ==
  \A h \in Headers : /\ <<h>> \in Seq(Headers) /\ Append(<<>>, h) \in Seq(Headers)
                     /\ Append(<<h>>, h) \in Seq(Headers) /\ <<>> \in Seq(Headers)
OBVIOUS

\* A fresh response has nothing of another request, and an unset code.
LEMMA InitLeft == FieldsInit => FInv
<1> SUFFICES ASSUME FieldsInit PROVE FInv
  OBVIOUS
<1>1. header \in Headers
  BY DEF FieldsInit, Prepared, Headers
<1>2. FieldsTypeOK
  <2>1. /\ page = "none" /\ answers = <<>> /\ open = TRUE /\ code = Unset
        /\ validator = FALSE /\ cookie = FALSE /\ size = FALSE /\ kept = {"none"}
    BY DEF FieldsInit
  <2>2. answers \in Seq(Headers)
    BY <2>1
  <2> QED BY <2>1, <2>2, <1>1 DEF FieldsTypeOK
<1>3. HeaderOfAPage
  BY DEF FieldsInit, Prepared, HeaderOfAPage
<1>4. \E p \in Before : p \in kept
  BY DEF FieldsInit, Before
<1>5. cookie = FALSE /\ validator = FALSE
  BY DEF FieldsInit
<1> QED BY <1>2, <1>3, <1>4, <1>5, Zenon DEF FInv, Left

\* Each action leaves in the response what Left says.
LEMMA NextLeft == FInv /\ [FieldsNext]_rvars => FInv'
<1> SUFFICES ASSUME FInv, [FieldsNext]_rvars PROVE FInv'
  OBVIOUS
<1>0. cookie = FALSE /\ validator \in BOOLEAN /\ code \in Codes /\ size \in BOOLEAN
  BY DEF FInv, Left, FieldsTypeOK, Codes
<1>c. 200 \in Codes /\ 404 \in Codes /\ 201 \in Codes /\ 308 \in Codes
  BY DEF Codes
<1>h. header \in Headers /\ HeaderOfAPage
  BY DEF FInv, Left, FieldsTypeOK
\* What prepare_header makes is a header, and of its page.
<1>p. ASSUME NEW p \in Pages, NEW c \in Codes, p # "no pipe",
             header' = Prepared(p, c, validator, FALSE)
      PROVE  header' \in Headers /\ HeaderOfAPage'
  <2>1. header' \in Headers /\ header'.page = p
    BY <1>p, HeaderOf
  <2> QED BY <2>1, <1>p DEF HeaderOfAPage
<1>s. ASSUME NEW p \in Pages, NEW c \in Codes,
             answers' = <<Prepared(p, c, validator, FALSE)>>
      PROVE  answers' \in Seq(Headers)
  <2>1. Prepared(p, c, validator, FALSE) \in Headers
    BY HeaderOf
  <2> QED BY <2>1, <1>s, Few
<1>1. ASSUME NEW p \in Pages, SendFile(p) PROVE FInv'
  <2>1. /\ page' = p /\ code' = 200 /\ size' = FALSE /\ UNCHANGED <<validator, header>>
        /\ cookie' = cookie /\ open' = open /\ kept' = kept \cup {page'}
        /\ answers' = <<Prepared(p, 200, validator, FALSE)>>
    BY <1>0, <1>1 DEF SendFile, Keeps, FileHeader, AfterFile
  <2>2. answers' \in Seq(Headers)
    BY <2>1, <1>c, <1>s
  <2>3. HeaderOfAPage'
    BY <2>1, <1>h DEF HeaderOfAPage
  <2>4. code' \in {200, 404, code} /\ code' # 404
    BY <2>1
  <2>a. size' \in BOOLEAN /\ validator' \in BOOLEAN
    BY <2>1, <1>0, Zenon
  <2>b. header' \in Headers /\ page' \in Pages
    BY <2>1, <1>h
  <2>5. validator' = TRUE => validator = TRUE
    BY <2>1
  <2> QED BY <2>1, <2>2, <2>3, <2>4, <2>a, <2>b, <2>5, KeptLeavesTraces
<1>2. ASSUME NEW p \in Pages, SendMiss(p) PROVE FInv'
  <2>1. /\ page' = p /\ code' = 404 /\ size' = TRUE /\ UNCHANGED validator
        /\ cookie' = cookie /\ open' = open /\ kept' = kept \cup {page'}
        /\ answers' = <<Prepared(p, 404, validator, FALSE)>>
        /\ header' = Prepared(p, 404, validator, FALSE)
        /\ p \in FileMissing
    BY <1>0, <1>2 DEF SendMiss, Keeps, MissHeader, MissStatus
  <2>2. answers' \in Seq(Headers)
    BY <2>1, <1>c, <1>s, ZenonT(40)
  <2>3. p # "no pipe"
    BY <2>1, StatusOfMiss
  <2>4. header' \in Headers /\ HeaderOfAPage'
    BY <2>1, <2>3, <1>c, <1>p, ZenonT(40)
  <2>5. page' \in Before
    BY <2>1 DEF Before
  <2> QED BY <2>1, <2>2, <2>4, <2>5, <1>0, KeptLeavesTraces
<1>3. ASSUME NEW p \in Pages, ReturnMiss(p) PROVE FInv'
  <2>1. /\ page' = p /\ p \in NotFound
        /\ answers' = Append(<<>>, header') /\ header' = Prepared(p, 404, validator, FALSE)
        /\ code' = 200 /\ validator' = FALSE /\ cookie' = FALSE /\ size' = FALSE
        /\ kept' = {} /\ open' = open
    BY <1>0, <1>3 DEF ReturnMiss, Returns, Released, MissHeader, MissStatus
  <2>2. p # "no pipe"
    BY <2>1, StatusOfMiss
  <2>3. header' = Prepared(p, 404, validator, FALSE)
    BY <2>1
  <2>4. header' \in Headers /\ HeaderOfAPage'
    BY <2>2, <2>3, <1>c, <1>p
  <2> QED BY <2>1, <2>4, Few, ReturnedLeavesNothing
<1>4. ASSUME NEW p \in Pages, ReturnPage(p) PROVE FInv'
  <2>1. /\ page' = p /\ p \in {"listing", "form", "admin", "proxy page"}
        /\ answers' = Append(<<>>, header')
        /\ header' = Prepared(p, Status(p), validator, FALSE)
        /\ code' = 200 /\ validator' = FALSE /\ cookie' = FALSE /\ size' = FALSE
        /\ kept' = {} /\ open' = open
    BY <1>0, <1>4 DEF ReturnPage, Returns, Released
  <2>a. p \in {"listing", "form", "admin", "proxy page"}
    BY <2>1, Zenon
  <2>2. p # "no pipe" /\ Status(p) \in Codes
    BY <2>a, StatusOfBuilt, Zenon
  <2>3. header' \in Headers /\ HeaderOfAPage'
    BY <2>1, <2>2, <1>p
  <2> QED BY <2>1, <2>3, Few, ReturnedLeavesNothing
<1>5. ASSUME NEW p \in Pages, ReturnAfterSend(p) PROVE FInv'
  <2>1. /\ page' = p /\ p \in {"no listing", "no listing, file"}
        /\ code' = 200 /\ validator' = FALSE /\ cookie' = FALSE /\ size' = FALSE
        /\ kept' = {} /\ open' = open
    BY <1>0, <1>5 DEF ReturnAfterSend, Returns, Released
  <2>2. CASE p = "no listing"
    <3>1. header' = Prepared(p, 404, validator, FALSE) /\ answers' = Append(<<header'>>, header')
      BY <1>0, <1>5, <2>2, ZenonT(40) DEF ReturnAfterSend, Returns, MissHeader, MissStatus
    <3>2. header' \in Headers /\ HeaderOfAPage'
      BY <3>1, <2>2, <1>c, <1>p, ZenonT(40)
    <3> QED BY <2>1, <3>1, <3>2, Few, ReturnedLeavesNothing, ZenonT(40)
  <2>3. CASE p = "no listing, file"
    <3>1. header' = header /\ answers' = <<Prepared(p, 200, validator, FALSE)>>
      BY <1>0, <1>5, <2>3 DEF ReturnAfterSend, Returns, AfterFile, FileHeader
    <3>2. answers' \in Seq(Headers)
      BY <3>1, <1>c, HeaderOf, Few, ZenonT(40)
    <3>3. HeaderOfAPage'
      BY <3>1, <1>h DEF HeaderOfAPage
    <3> QED BY <2>1, <3>1, <3>2, <3>3, <1>h, ReturnedLeavesNothing
  <2> QED BY <2>1, <2>2, <2>3
<1>6. CASE BreaksOff
  <2>1. /\ page' = "no route, body" /\ header' = Prepared(page', 404, validator, FALSE)
        /\ answers' = <<header'>> /\ code' = 404 /\ size' = TRUE /\ open' = FALSE
        /\ validator' = validator /\ cookie' = cookie /\ kept' = kept
    BY <1>0, <1>6 DEF BreaksOff, MissHeader, MissStatus
  <2>2. page' \in Pages /\ page' # "no pipe"
    BY <2>1, PageNames, StatusOfMiss
  <2>3. header' \in Headers /\ HeaderOfAPage'
    BY <2>1, <2>2, <1>c, <1>p
  <2>4. answers' \in Seq(Headers)
    BY <2>1, <2>3, Few
  <2>5. kept' \subseteq Pages \cup {"none"} /\ code' \in {Unset, 200, 404}
    BY <2>1 DEF FInv, FieldsTypeOK
  <2>6. cookie' = FALSE /\ validator' \in BOOLEAN /\ size' \in BOOLEAN /\ open' = FALSE
    BY <2>1, <1>0, Zenon
  <2>7. validator' = TRUE => "icon" \in kept'
    BY <2>1, Zenon DEF FInv, Left
  <2>8. FieldsTypeOK'
    BY <2>2, <2>3, <2>4, <2>5, <2>6, Zenon DEF FieldsTypeOK
  <2> QED BY <2>3, <2>6, <2>7, <2>8, Zenon DEF FInv, Left
<1>7. CASE Redirect
  <2>1. /\ page' = "touch" /\ header' = Prepared(page', 308, FALSE, TRUE)
        /\ answers' = Append(<<>>, header')
        /\ code' = 200 /\ validator' = FALSE /\ cookie' = FALSE /\ size' = FALSE
        /\ kept' = {} /\ open' = open
    BY <1>7 DEF Redirect, Returns, Released
  <2>2. page' \in Pages
    BY <2>1, PageNames
  <2>3. header' \in Headers /\ header'.page = page'
    BY <2>1, <2>2, <1>c, PreparedIsHeader, ZenonT(40)
  <2>4. HeaderOfAPage'
    BY <2>1, <2>3 DEF HeaderOfAPage
  <2> QED BY <2>1, <2>2, <2>3, <2>4, Few, ReturnedLeavesNothing
<1>8. CASE ReturnOutput
  <2>1. /\ page' = "script" /\ header' = Prepared(page', code, validator, FALSE)
        /\ answers' = Append(<<>>, header')
        /\ code' = 200 /\ validator' = FALSE /\ cookie' = FALSE /\ size' = FALSE
        /\ kept' = {} /\ open' = open
    BY <1>0, <1>8 DEF ReturnOutput, Returns, Released
  <2>2. page' \in Pages
    BY <2>1, PageNames
  <2>3. header' \in Headers /\ header'.page = page'
    BY <2>1, <2>2, <1>0, HeaderOf
  <2>4. HeaderOfAPage'
    BY <2>1, <2>3 DEF HeaderOfAPage
  <2> QED BY <2>1, <2>2, <2>3, <2>4, Few, ReturnedLeavesNothing
<1>9. CASE ReturnUnfilled \/ NotProxied
  <2>1. /\ page' \in {"no pipe", "not proxied"} /\ header' = header
        /\ answers' = Append(<<>>, header) \/ answers' = <<>>
        /\ code' = 200 /\ validator' = FALSE /\ cookie' = FALSE /\ size' = FALSE
        /\ kept' = {} /\ open' = open
    BY <1>9 DEF ReturnUnfilled, NotProxied, Returns, Released
  <2>2. page' \in Pages
    BY <2>1, PageNames
  <2>3. HeaderOfAPage'
    BY <2>1, <1>h DEF HeaderOfAPage
  <2> QED BY <2>1, <2>2, <2>3, <1>h, Few, ReturnedLeavesNothing
<1>10. CASE SendIcon
  <2>1. /\ page' = "icon" /\ header' = Prepared(page', code, TRUE, FALSE)
        /\ answers' = <<header'>>
        /\ code' = code /\ validator' = TRUE /\ size' = TRUE
        /\ cookie' = cookie /\ open' = open /\ kept' = kept \cup {page'}
    BY <1>0, <1>10 DEF SendIcon, Keeps
  <2>2. page' \in Pages
    BY <2>1, PageNames
  <2>3. header' \in Headers /\ header'.page = page'
    BY <2>1, <2>2, <1>0, PreparedIsHeader
  <2>4. HeaderOfAPage'
    BY <2>1, <2>3 DEF HeaderOfAPage
  <2> QED BY <2>1, <2>2, <2>3, <2>4, Few, KeptLeavesTraces
<1>11. CASE Proxied
  <2>1. /\ page' = "proxied" /\ header' = header
        /\ answers' = <<Prepared("proxied", 200, validator, FALSE)>>
        /\ code' = 200 /\ validator' = FALSE /\ cookie' = FALSE /\ size' = FALSE
        /\ kept' = {} /\ open' = open
    BY <1>0, <1>11 DEF Proxied, Returns, Released, FileHeader
  <2>2. page' \in Pages
    BY <2>1, PageNames
  <2>3. HeaderOfAPage'
    BY <2>1, <1>h DEF HeaderOfAPage
  <2>4. answers' \in Seq(Headers)
    BY <2>1, <1>c, <1>s, PageNames
  <2> QED BY <2>1, <2>2, <2>3, <2>4, <1>h, ReturnedLeavesNothing
<1>12. CASE UNCHANGED rvars
  <2>1. FieldsTypeOK'
    BY <1>12, Zenon DEF FInv, FieldsTypeOK
  <2>2. HeaderOfAPage'
    BY <1>12, <1>h DEF HeaderOfAPage
  <2>3. Left'
    BY <1>12, <2>2, Zenon DEF FInv, Left
  <2> QED BY <2>1, <2>3 DEF FInv
<1> QED
  BY <1>1, <1>2, <1>3, <1>4, <1>5, <1>6, <1>7, <1>8, <1>9, <1>10, <1>11, <1>12 DEF FieldsNext

\* What is left in the response is bounded in every state: the invariant of this module.
THEOREM FieldsInv == FieldsSpec => []FInv
BY InitLeft, NextLeft, PTL DEF FieldsSpec

\* The members of the response and the headers keep to their domains.
THEOREM FieldsTypes == FieldsSpec => []FieldsTypeOK
<1>1. FInv => FieldsTypeOK
  BY DEF FInv
<1> QED BY <1>1, FieldsInv, PTL
-----------------------------------------------------------------------------
\* An answer of its own is the only one.
LEMMA OneSent == OwnAnswer => \A h \in Sent' : h = answers'[1]
<1> SUFFICES ASSUME OwnAnswer, NEW h \in Sent' PROVE h = answers'[1]
  OBVIOUS
<1>1. PICK i \in 1 .. Len(answers') : h = answers'[i]
  BY DEF Sent
<1>2. i = 1
  BY DEF OwnAnswer
<1> QED BY <1>1, <1>2

\* The headers in an answer of none, of one, and of two that are the same.
LEMMA InFew ==
  \A h : /\ \A i \in 1 .. Len(<<>>) : FALSE
         /\ \A i \in 1 .. Len(<<h>>) : <<h>>[i] = h
         /\ \A i \in 1 .. Len(Append(<<h>>, h)) : Append(<<h>>, h)[i] = h
<1> SUFFICES ASSUME NEW h
             PROVE  /\ \A i \in 1 .. Len(<<>>) : FALSE
                    /\ \A i \in 1 .. Len(<<h>>) : <<h>>[i] = h
                    /\ \A i \in 1 .. Len(Append(<<h>>, h)) : Append(<<h>>, h)[i] = h
  OBVIOUS
<1>1. \A i \in 1 .. Len(<<>>) : FALSE
  OBVIOUS
<1>2. \A i \in 1 .. Len(<<h>>) : <<h>>[i] = h
  OBVIOUS
<1>3. \A i \in 1 .. Len(Append(<<h>>, h)) : Append(<<h>>, h)[i] = h
  <2>1. <<h>> \in Seq({h}) /\ Len(<<h>>) = 1 /\ <<h>>[1] = h
    OBVIOUS
  <2>2. Len(Append(<<h>>, h)) = 2
    BY <2>1
  <2>3. Append(<<h>>, h)[1] = h /\ Append(<<h>>, h)[2] = h
    BY <2>1
  <2> QED BY <2>2, <2>3
<1> QED BY <1>1, <1>2, <1>3, Zenon

\* Of the three that have none of their own, only the page of a missing directory is sent.
LEMMA OtherSent ==
  FInv /\ NoAnswer =>
    \A h \in Sent' : h.page = page' => page' = "no listing" /\ h = MissHeader("no listing")
<1> SUFFICES ASSUME FInv, NoAnswer, NEW h \in Sent'
             PROVE  h.page = page' => page' = "no listing" /\ h = MissHeader("no listing")
  OBVIOUS
<1>1. PICK i \in 1 .. Len(answers') : h = answers'[i]
  BY DEF Sent
<1>2. CASE page' = "not proxied" /\ answers' = <<>>
  BY <1>1, <1>2, InFew, Zenon
<1>3. CASE page' = "no pipe" /\ answers' \in {<<>>, <<header>>}
  <2>1. answers' = <<>> \/ answers' = <<header>>
    BY <1>3, Zenon
  <2>2. h = header
    BY <1>1, <2>1, InFew, Zenon
  <2>3. header.page # "no pipe"
    BY DEF FInv, Left, HeaderOfAPage
  <2> QED BY <2>2, <2>3, <1>3, Zenon
<1>4. CASE /\ page' = "no listing"
           /\ answers' = Append(<<MissHeader("no listing")>>, MissHeader("no listing"))
  BY <1>1, <1>4, InFew, Zenon
<1> QED BY <1>2, <1>3, <1>4, Zenon DEF NoAnswer

\* The page of a missing directory says so, with no cookie.
LEMMA NoListing ==
  FInv => /\ MissHeader("no listing").code = 404
          /\ MissHeader("no listing").cookie = FALSE
          /\ MissHeader("no listing").validator = validator
          /\ Status("no listing") = 404
BY DEF MissHeader, Prepared, MissStatus, Status, FInv, Left

\* A cookie is set by the answer to the request that asks for it, and by no other of the
\* connection.
THEOREM CookieOfItsOwn == FieldsSpec => []CookieIsItsOwn
<1>1. FieldsInit => CookieIsItsOwn
  BY DEF FieldsInit, CookieIsItsOwn, Sent
<1>2. FInv /\ CookieIsItsOwn /\ [FieldsNext]_rvars => CookieIsItsOwn'
  <2> SUFFICES ASSUME FInv, CookieIsItsOwn, [FieldsNext]_rvars PROVE CookieIsItsOwn'
    OBVIOUS
  <2>1. CASE FieldsNext
    <3>1. CASE OwnAnswer
      BY <3>1, OneSent DEF OwnAnswer, CookieIsItsOwn
    <3>2. CASE NoAnswer
      BY <3>2, OtherSent, NoListing, ZenonT(40) DEF CookieIsItsOwn
    <3> QED BY <2>1, <3>1, <3>2, EveryAnswer
  <2>2. CASE UNCHANGED rvars
    BY <2>2 DEF CookieIsItsOwn, Sent
  <2> QED BY <2>1, <2>2
<1> QED BY <1>1, <1>2, FieldsInv, PTL DEF FieldsSpec

\* Each request has one answer, and it is its own; but a path that is no directory has
\* two, a host that does not answer none, and a script without pipes whatever is there.
THEOREM OneAnswer == FieldsSpec => []AnsweredOnce
<1>1. FieldsInit => AnsweredOnce
  BY DEF FieldsInit, AnsweredOnce
<1>2. FInv /\ AnsweredOnce /\ [FieldsNext]_rvars => AnsweredOnce'
  <2> SUFFICES ASSUME FInv, AnsweredOnce, [FieldsNext]_rvars PROVE AnsweredOnce'
    OBVIOUS
  <2>1. CASE FieldsNext
    <3>1. CASE OwnAnswer
      BY <3>1 DEF OwnAnswer, AnsweredOnce
    <3>2. CASE NoAnswer
      BY <3>2 DEF NoAnswer, AnsweredOnce
    <3> QED BY <2>1, <3>1, <3>2, EveryAnswer
  <2>2. CASE UNCHANGED rvars
    BY <2>2 DEF AnsweredOnce
  <2> QED BY <2>1, <2>2
<1> QED BY <1>1, <1>2, FieldsInv, PTL DEF FieldsSpec

\* The status of an answer is that of its page.  The icon and the output of a script are
\* the exceptions: they go out under the code of a page not found before, or under none.
THEOREM StatusOfItsOwn == FieldsSpec => StatusIsItsOwn
<1> DEFINE Own(h) == h.page = page' /\ h.code # Status(page') =>
                        /\ page' \in {"icon", "script"}
                        /\ kept \cap (FileMissing \cup {"none"}) # {}
           Step == \A h \in Sent' : Own(h)
<1>1. FInv /\ [FieldsNext]_rvars => [Step]_rvars
  <2> SUFFICES ASSUME FInv, FieldsNext, NEW h \in Sent',
                      h.page = page', h.code # Status(page')
               PROVE  page' \in {"icon", "script"} /\ \E p \in Before : p \in kept
    BY Zenon DEF Before
  <2>1. CASE OwnAnswer
    <3>1. h = answers'[1]
      BY <2>1, OneSent
    <3>2. page' \in {"icon", "script"} /\ h.code = code /\ open
      BY <2>1, <3>1 DEF OwnAnswer
    <3>3. Status(page') = 200
      BY <3>2 DEF Status, FileMissing, NotFound
    <3>4. open = TRUE /\ code # 200
      BY <3>2, <3>3 DEF FInv, FieldsTypeOK
    <3>5. \E p \in Before : p \in kept
      BY <3>4 DEF FInv, Left
    <3> QED BY <3>2, <3>5
  <2>2. CASE NoAnswer
    BY <2>2, OtherSent, NoListing, ZenonT(40)
  <2> QED BY <2>1, <2>2, EveryAnswer
<1> QED BY <1>1, FieldsInv, PTL DEF FieldsSpec, StatusIsItsOwn

\* Only the icon is to be cached for days: its validator is on another page when nothing
\* was released between the two.
THEOREM ValidatorOfItsOwn == FieldsSpec => ValidatorIsItsOwn
<1> DEFINE Own(h) == h.page = page' /\ h.validator => page' = "icon" \/ "icon" \in kept
           Step == \A h \in Sent' : Own(h)
<1>1. FInv /\ [FieldsNext]_rvars => [Step]_rvars
  <2> SUFFICES ASSUME FInv, FieldsNext, NEW h \in Sent', h.page = page', h.validator
               PROVE  page' = "icon" \/ "icon" \in kept
    BY Zenon
  <2>1. validator => "icon" \in kept
    BY DEF FInv, Left, FieldsTypeOK
  <2>2. CASE OwnAnswer
    <3>1. h = answers'[1]
      BY <2>2, OneSent
    <3> QED BY <2>1, <2>2, <3>1 DEF OwnAnswer
  <2>3. CASE NoAnswer
    <3>1. h.validator = validator
      BY <2>3, OtherSent, NoListing
    <3> QED BY <2>1, <3>1
  <2> QED BY <2>2, <2>3, EveryAnswer
<1> QED BY <1>1, FieldsInv, PTL DEF FieldsSpec, ValidatorIsItsOwn

\* Status and validator of an answer are its own, with the exceptions named.
THEOREM HeaderOfItsOwn == FieldsSpec => HeaderIsItsOwn
BY StatusOfItsOwn, ValidatorOfItsOwn DEF HeaderIsItsOwn

\* Requests and answers, with their cookies, stay in step.
THEOREM AnswerOfItsOwn == FieldsSpec => []AnswerIsItsOwn
BY CookieOfItsOwn, OneAnswer, PTL DEF AnswerIsItsOwn

HIDE DEF fields, rvars

-----------------------------------------------------------------------------
(***************************************************************************)
(* The life of the server, for any set of values of HTTPS_PORT: how the    *)
(* user, the group and the port are tied to the place main() has reached,  *)
(* with the redirector and SIGINT at any moment.                           *)
(***************************************************************************)
BeforeBind == {"handlers", "env", "configure", "create", "bind"}
Lowering == {"drop", "setgid", "setuid"}

\* drop_privileges gives up the group first, then the user, and only root does.
Privileges ==
    /\ mpc \in BeforeBind \cup Lowering => user = started
    /\ mpc \in {"setgid", "setuid", "regain"} => started = "root"
    /\ mpc \in {"setuid", "regain"} => group = "nobody"
    /\ mpc = "regain" => user = "nobody"
    /\ mpc \notin BeforeBind \cup Lowering /\ started = "root" =>
          user = "nobody" /\ group = "nobody"

Bound ==
    mpc \notin BeforeBind => /\ https = server_port
                             /\ https < FirstFreePort => started = "root"

LInv == TypeOK /\ Privileges /\ Bound
-----------------------------------------------------------------------------
\* The ports main() chooses among are ports.
LEMMA PortNumbers ==
    /\ USHRT_MAX \in Nat /\ FirstFreePort \in Nat
    /\ {SERVER_PORT, 443} \subseteq 1 .. USHRT_MAX
BY SMT DEF USHRT_MAX, FirstFreePort, SERVER_PORT

USE EnvPortsAssumption, PortNumbers DEF EnvPortsAssumption

\* The type of every variable, and what user, group and port are at each place
\* of main(), in every reachable state.
THEOREM LifecycleInv == Spec => []LInv
<1>1. Init => LInv
  <2> SUFFICES ASSUME Init PROVE LInv
    OBVIOUS
  <2>1. started \in {"root", "user"} /\ env \in EnvPorts /\ user = started /\ group = started
    BY DEF Init
  <2>2. server_port = SERVER_PORT /\ https = 0
    BY DEF Init
  <2>3. http \in BOOLEAN /\ keepRunning \in BOOLEAN /\ clients \in BOOLEAN
    BY DEF Init
  <2>4. mpc = "handlers" /\ rpc = "none" /\ ended = "no" /\ listener = "none"
    BY DEF Init
  <2>5. TypeOK
    BY <2>1, <2>2, <2>3, <2>4 DEF TypeOK
  <2> QED BY <2>1, <2>4, <2>5 DEF LInv, Privileges, Bound, BeforeBind, Lowering
<1>2. LInv /\ [Next]_vars => LInv'
  <2> SUFFICES ASSUME LInv, [Next]_vars PROVE LInv'
    OBVIOUS
  <2> USE DEF LInv, TypeOK, Privileges, Bound, BeforeBind, Lowering, ids, sockets, Running,
              MainAt, RedirectorAt, Exit, MainGoto, MainExits, MayBind
  <2>1. CASE UNCHANGED vars
    BY <2>1 DEF vars
  <2>2. CASE SetHandlers
    BY <2>2 DEF SetHandlers
  <2>3. CASE ReadEnvironment
    BY <2>3 DEF ReadEnvironment
  <2>4. ASSUME NEW ok \in BOOLEAN,
               Configure(ok) \/ CreateTransport(ok) \/ Bind(ok) \/ FindNobody(ok)
               \/ SetGid(ok) \/ SetUid(ok)
        PROVE  LInv'
    <3>1. CASE Configure(ok)
      BY <3>1 DEF Configure
    <3>2. CASE CreateTransport(ok)
      BY <3>2 DEF CreateTransport
    <3>3. CASE Bind(ok)
      BY <3>3 DEF Bind
    <3>4. CASE FindNobody(ok)
      BY <3>4 DEF FindNobody
    <3>5. CASE SetGid(ok)
      BY <3>5 DEF SetGid
    <3>6. CASE SetUid(ok)
      BY <3>6 DEF SetUid
    <3> QED BY <2>4, <3>1, <3>2, <3>3, <3>4, <3>5, <3>6
  <2>5. CASE TryRegain
    BY <2>5 DEF TryRegain
  <2>6. CASE Loop \/ EnterAccept
    BY <2>6 DEF Loop, EnterAccept
  <2>7. CASE Shutdown \/ Return
    BY <2>7 DEF Shutdown, Return
  <2>8. CASE RedirectorStep
    <3>1. CASE RedirectorStarts \/ RedirectorLoops
      BY <3>1 DEF RedirectorStarts, RedirectorLoops
    <3>2. ASSUME NEW b \in BOOLEAN,
                 RedirectorBinds(b) \/ RedirectorAccepts(b) \/ RedirectorServes(b)
          PROVE  LInv'
      <4>1. CASE RedirectorBinds(b)
        <5>1. /\ UNCHANGED <<ids, server_port, https, listener, keepRunning, clients, mpc>>
              /\ http' \in {http, TRUE} /\ rpc' \in {rpc, "loop"}
              /\ ended' \in {ended, "emergency"}
          BY <4>1 DEF RedirectorBinds
        <5>2. http' \in BOOLEAN
          BY <5>1, Zenon
        <5> QED BY <5>1, <5>2
      <4>2. CASE RedirectorAccepts(b)
        BY <4>2 DEF RedirectorAccepts
      <4>3. CASE RedirectorServes(b)
        BY <4>3 DEF RedirectorServes
      <4> QED BY <3>2, <4>1, <4>2, <4>3
    <3> QED BY <2>8, <3>1, <3>2 DEF RedirectorStep
  <2>9. ASSUME NEW c \in BOOLEAN, NEW t \in BOOLEAN, LeaveAccept(c, t) PROVE LInv'
    BY <2>9 DEF LeaveAccept
  <2>10. CASE KilledEarly \/ StopCrashes
    BY <2>10 DEF KilledEarly, StopCrashes
  <2>11. ASSUME NEW onMain \in BOOLEAN, StopHandler(onMain) PROVE LInv'
    <3>1. UNCHANGED <<ids, server_port, https, http, clients, rpc>> /\ keepRunning' = FALSE
      BY <2>11 DEF StopHandler
    <3>2. \/ mpc' = mpc
          \/ mpc = "blocked" /\ mpc' = "loop"
      BY <2>11 DEF StopHandler
    <3>3. listener' \in {listener, "closed"} /\ ended' \in {ended, "emergency"}
      BY <2>11 DEF StopHandler
    <3>4. keepRunning' \in BOOLEAN
      BY <3>1, Zenon
    <3> QED BY <3>1, <3>2, <3>3, <3>4
  <2> QED BY <2>1, <2>2, <2>3, <2>4, <2>5, <2>6, <2>7, <2>8, <2>9, <2>10, <2>11
             DEF Next, MainStep
<1> QED BY <1>1, <1>2, PTL DEF Spec

\* TypeOK: the variables of main, of the redirector and of the process keep to their
\* domains, whatever HTTPS_PORT says.
THEOREM TypeCorrect == Spec => []TypeOK
<1>1. LInv => TypeOK
  BY DEF LInv
<1> QED BY <1>1, LifecycleInv, PTL

\* RootNeverServes: a server that root started accepts connections only as user
\* and group nobody.
THEOREM ServesAsNobody == Spec => []RootNeverServes
<1>1. LInv => RootNeverServes
  BY DEF LInv, Privileges, BeforeBind, Lowering, RootNeverServes, Serving
<1> QED BY <1>1, LifecycleInv, PTL

\* ServesOnItsPort: the port that is served is the configured one.
THEOREM ServesConfiguredPort == Spec => []ServesOnItsPort
<1>1. LInv => ServesOnItsPort
  BY DEF LInv, Bound, BeforeBind, ServesOnItsPort, Serving
<1> QED BY <1>1, LifecycleInv, PTL
=============================================================================
