------------------------------ MODULE Descriptors ------------------------------
(***************************************************************************)
(* The numbers of the descriptors: who has opened what is open under a     *)
(* number, and who uses or closes the number. The accept loop and the      *)
(* handler of SIGINT (ssl_serv.cc), the sockets of the sessions            *)
(* (lib/https_transport.cc) and the files they send (lib/lib.cc).          *)
(*                                                                         *)
(* The kernel gives the lowest number that is free, so that a number       *)
(* closed twice is, the second time, likely another thread's.              *)
(***************************************************************************)
EXTENDS Integers, FiniteSets

CONSTANTS
    Clients,        \* connections, each served by a thread of its own
    Fds,            \* numbers the process may have
    Nobody,         \* no session
    Signals         \* bound on how often SIGINT comes

ASSUME DescriptorsAssumption ==
    /\ Fds \subseteq Nat /\ Fds # {}
    /\ Nobody \notin Clients \cup {"main", "handler"} /\ Signals \in Nat

Listener == <<"listener", Nobody>>
Socket(s) == <<"socket", s>>
File(s) == <<"file", s>>
NoObject == <<"none", Nobody>>
Objects == {Listener} \cup {Socket(s) : s \in Clients} \cup {File(s) : s \in Clients}
Actors == Clients \cup {"main", "handler"}

VARIABLES
    table,          \* what is open under each number
    listening,      \* transport->socket
    socket,         \* the socket of each session's transport
    file,           \* the local fd of each session's thread
    running,        \* keepRunning
    signals,        \* how often SIGINT may still come
    main,           \* where main() is
    place,          \* where the session's thread is
    refused,        \* sessions whose handshake failed
    stray           \* who first used a number that was open for somebody else

fdvars == <<table, listening, socket, file, running, signals, main, place, refused, stray>>

FdInit ==
    /\ listening \in Fds
    /\ \A n \in Fds : n >= listening
    /\ table = [n \in Fds |-> IF n = listening THEN Listener ELSE NoObject]
    /\ socket = [s \in Clients |-> -1]
    /\ file = [s \in Clients |-> -1]
    /\ running = TRUE /\ signals = Signals
    /\ main = "loop"
    /\ place = [s \in Clients |-> "new"]
    /\ refused = {}
    /\ stray = Nobody

\* A number that is nobody's gives an error (EBADF), and no more.
Foreign(n, object) == n \in Fds /\ table[n] \notin {object, NoObject}
Uses(actor, n, object) ==
    stray' = IF stray = Nobody /\ Foreign(n, object) THEN actor ELSE stray

Opened(object, n) ==
    /\ table[n] = NoObject
    /\ \A k \in Fds : k < n => table[k] # NoObject
    /\ table' = [table EXCEPT ![n] = object]
NoneFree == \A n \in Fds : table[n] # NoObject
Closed(n) == IF n \in Fds THEN [table EXCEPT ![n] = NoObject] ELSE table

Goes(s, here, there) == place[s] = here /\ place' = [place EXCEPT ![s] = there]
Alive == main # "ended"
-----------------------------------------------------------------------------
(* Faulty variants of definitions below, to see the properties fail. *)

\* of LastRead: a connection that has ended is closed at once, and after the loop again.
ClosesAtOnce(s) ==
    /\ Goes(s, "serving", "closing")
    /\ Uses(s, socket[s], Socket(s))
    /\ table' = Closed(socket[s])
    /\ UNCHANGED <<listening, socket, file, running, signals, main, refused>>

\* of CloseFile: the file stays open.
LeavesOpen(s) ==
    /\ Goes(s, "sent", "serving")
    /\ UNCHANGED <<table, listening, socket, file, running, signals, main, refused, stray>>
-----------------------------------------------------------------------------
(* main: the accept loop, and the end *)

AcceptLoop ==
    /\ main = "loop"
    /\ main' = IF running THEN "call" ELSE "close"
    /\ UNCHANGED <<table, listening, socket, file, running, signals, place, refused, stray>>

\* accept() takes the number; what is no listening socket gives an error.
TakesListener ==
    /\ main = "call"
    /\ Uses("main", listening, Listener)
    /\ main' = IF table[listening] = Listener THEN "accept" ELSE "loop"
    /\ UNCHANGED <<table, listening, socket, file, running, signals, place, refused>>

\* A close() in another thread does not end an accept() that is waiting.
Accepted(s) ==
    /\ main = "accept"
    /\ Goes(s, "new", "accepted")
    /\ \E n \in Fds : Opened(Socket(s), n) /\ socket' = [socket EXCEPT ![s] = n]
    /\ main' = "spawn"
    /\ UNCHANGED <<listening, file, running, signals, refused, stray>>

\* No number is free, or the signal has come to this thread.
AcceptFails ==
    /\ main = "accept"
    /\ NoneFree \/ ~running
    /\ main' = "loop"
    /\ UNCHANGED <<table, listening, socket, file, running, signals, place, refused, stray>>

\* Without a thread the session is forgotten, its socket open.
Spawned(s, ok) ==
    /\ main = "spawn"
    /\ Goes(s, "accepted", IF ok THEN "handshake" ELSE "lost")
    /\ main' = "loop"
    /\ UNCHANGED <<table, listening, socket, file, running, signals, refused, stray>>

\* transport->close(), after the handler's.
CloseAgain ==
    /\ main = "close"
    /\ Uses("main", listening, Listener)
    /\ table' = Closed(listening)
    /\ main' = "return"
    /\ UNCHANGED <<listening, socket, file, running, signals, place, refused>>

Ends ==
    /\ main = "return"
    /\ main' = "ended"
    /\ UNCHANGED <<table, listening, socket, file, running, signals, place, refused, stray>>

\* interrupt_sigaction runs in any thread, between any two steps.
Interrupted ==
    /\ main \notin {"return", "ended"}
    /\ signals > 0
    /\ signals' = signals - 1
    /\ running' = FALSE
    /\ Uses("handler", listening, Listener)
    /\ table' = Closed(listening)
    /\ UNCHANGED <<listening, socket, file, main, place, refused>>
-----------------------------------------------------------------------------
(* The thread of a session *)

HandshakeOk(s) ==
    /\ Goes(s, "handshake", "serving")
    /\ Uses(s, socket[s], Socket(s))
    /\ UNCHANGED <<table, listening, socket, file, running, signals, main, refused>>

\* The socket is closed; the transport keeps its number, and https_session goes on.
HandshakeFails(s) ==
    /\ Goes(s, "handshake", "serving")
    /\ Uses(s, socket[s], Socket(s))
    /\ table' = Closed(socket[s])
    /\ refused' = refused \cup {s}
    /\ UNCHANGED <<listening, socket, file, running, signals, main>>

\* select() and SSL_read(); without a handshake they give no request.
ReadRequest(s) ==
    /\ s \notin refused
    /\ Goes(s, "serving", "request")
    /\ Uses(s, socket[s], Socket(s))
    /\ UNCHANGED <<table, listening, socket, file, running, signals, main, refused>>

LastRead(s) ==
    /\ Goes(s, "serving", "closing")
    /\ Uses(s, socket[s], Socket(s))
    /\ UNCHANGED <<table, listening, socket, file, running, signals, main, refused>>

OpenFile(s) ==
    /\ Goes(s, "request", "file")
    /\ \E n \in Fds : Opened(File(s), n) /\ file' = [file EXCEPT ![s] = n]
    /\ UNCHANGED <<listening, socket, running, signals, main, refused, stray>>

\* No such file, or no number for it: the answer is a page.
SendPage(s) ==
    /\ Goes(s, "request", "serving")
    /\ Uses(s, socket[s], Socket(s))
    /\ UNCHANGED <<table, listening, socket, file, running, signals, main, refused>>

ReadFile(s) ==
    /\ Goes(s, "file", "piece")
    /\ Uses(s, file[s], File(s))
    /\ UNCHANGED <<table, listening, socket, file, running, signals, main, refused>>

SendPiece(s) ==
    /\ Goes(s, "piece", "sent")
    /\ Uses(s, socket[s], Socket(s))
    /\ UNCHANGED <<table, listening, socket, file, running, signals, main, refused>>

CloseFile(s) ==
    /\ Goes(s, "sent", "serving")
    /\ Uses(s, file[s], File(s))
    /\ table' = Closed(file[s])
    /\ UNCHANGED <<listening, socket, file, running, signals, main, refused>>

CloseSocket(s) ==
    /\ Goes(s, "closing", "gone")
    /\ Uses(s, socket[s], Socket(s))
    /\ table' = Closed(socket[s])
    /\ UNCHANGED <<listening, socket, file, running, signals, main, refused>>
-----------------------------------------------------------------------------
SessionStep(s) ==
    \/ HandshakeOk(s) \/ HandshakeFails(s)
    \/ ReadRequest(s) \/ LastRead(s)
    \/ OpenFile(s) \/ SendPage(s) \/ ReadFile(s) \/ SendPiece(s) \/ CloseFile(s)
    \/ CloseSocket(s)

FdNext ==
    /\ Alive
    /\ \/ AcceptLoop \/ TakesListener \/ AcceptFails \/ CloseAgain \/ Ends \/ Interrupted
       \/ \E s \in Clients :
             \/ Accepted(s) \/ SessionStep(s)
             \/ \E ok \in BOOLEAN : Spawned(s, ok)

FdSpec == FdInit /\ [][FdNext]_fdvars
-----------------------------------------------------------------------------
(* Properties *)

\* The variables keep to their domains; a file that is read has a number.
FdTypeOK ==
    /\ table \in [Fds -> Objects \cup {NoObject}]
    /\ listening \in Fds
    /\ socket \in [Clients -> Fds \cup {-1}]
    /\ file \in [Clients -> Fds \cup {-1}]
    /\ running \in BOOLEAN /\ signals \in Nat
    /\ main \in {"loop", "call", "accept", "spawn", "close", "return", "ended"}
    /\ place \in [Clients -> {"new", "accepted", "lost", "handshake", "serving", "request",
                              "file", "piece", "sent", "closing", "gone"}]
    /\ refused \subseteq Clients
    /\ stray \in Actors \cup {Nobody}

\* The first to read, send to or close what another thread has opened is a session
\* whose handshake failed, or main() or the handler after SIGINT: whatever else runs
\* at the same time, every number is used by the one it was given to.
StrayIsKnown ==
    \/ stray = Nobody
    \/ stray \in refused
    \/ stray \in {"main", "handler"} /\ ~running

\* Until somebody has gone astray, a session that is over has left nothing open,
\* except the socket of a session that was given no thread.
NothingLeftOpen ==
    stray = Nobody =>
        \A n \in Fds : \A s \in Clients :
            /\ table[n] = Socket(s) => place[s] \notin {"new", "gone"}
            /\ table[n] = File(s) => place[s] \in {"file", "piece", "sent"}
=============================================================================
