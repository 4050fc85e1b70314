------------------------------- MODULE CgiPipes -------------------------------
(***************************************************************************)
(* The processes and pipes of CGI requests (actions/classic_cgi.cc         *)
(* 95-205).  A session thread makes two pipes, forks, writes the body of   *)
(* the request to its script, waits, reads the script's output.  Threads   *)
(* do so at the same time: fork() copies every descriptor the server has   *)
(* open, and wait() takes any child of the server.                         *)
(*                                                                         *)
(* A pipe's end exists as long as a process holds it: a script that reads  *)
(* until the end of its input waits for all who hold the other end.        *)
(***************************************************************************)
EXTENDS Integers, FiniteSets

CONSTANTS
    Calls,      \* CGI requests; also the names of their child processes
    Server,     \* the server process
    Capacity,   \* of a pipe, and MAXRESPONSE: both are 64 KiB
    Outputs     \* sizes of the output of a script

ASSUME ServerIsNoChild == Server \notin Calls /\ IsFiniteSet(Calls)
ASSUME CapacityAssumption == Capacity \in Nat \ {0} /\ Outputs \subseteq Nat

Scripts == {"to the end", "by length", "ignores"}   \* how it reads its input

VARIABLES
    body,       \* per call: the size of the request's body
    script, output,     \* the kind of script and the size of its output
    thread,         \* where the session thread is
    child,      \* the state of the child process
    crashed,    \* execve failed, and the child crashed
    given,      \* the stream could not be opened: the call was given up
    writers,    \* who holds the write end of the pipe to the script
    readers,    \* who holds the read end of that pipe
    sources,    \* who holds the write end of the pipe from the script
    sinks,      \* who holds the read end of that pipe
    stdin,      \* what is in the pipe to the script
    pipe,       \* what is in the pipe from the script
    wrote,      \* what the script wrote
    got,        \* response->_body_size
    alive       \* the server process was not ended by SIGPIPE

programs == <<script, output>>
ends == <<writers, readers, sources, sinks>>
data == <<stdin, pipe, wrote, got>>
cvars == <<programs, body, thread, child, crashed, given, ends, data, alive>>

NothingYet ==
    /\ script = [c \in Calls |-> "none"]
    /\ output = [c \in Calls |-> 0] /\ body = [c \in Calls |-> 0]
    /\ child = [c \in Calls |-> "none"]
    /\ crashed = {} /\ given = {}
    /\ writers = [c \in Calls |-> {}] /\ readers = [c \in Calls |-> {}]
    /\ sources = [c \in Calls |-> {}] /\ sinks = [c \in Calls |-> {}]
    /\ stdin = [c \in Calls |-> 0] /\ pipe = [c \in Calls |-> 0]
    /\ wrote = [c \in Calls |-> 0] /\ got = [c \in Calls |-> 0]
    /\ alive = TRUE
CgiInit == NothingYet /\ thread = [c \in Calls |-> "start"]

At(c, here) == alive /\ thread[c] = here
Go(c, there) == thread' = [thread EXCEPT ![c] = there]
Child(c, there) == child' = [child EXCEPT ![c] = there]
Leaves(p, hold) == [d \in Calls |-> hold[d] \ {p}]
Unreaped == {d \in Calls : child[d] \in {"started", "reads", "writes", "exited"}}
-----------------------------------------------------------------------------
(* Faulty variants of definitions below, to see the properties fail. *)

\* of EndOfOutput: what is in the pipe now is taken for all.
EmptyIsEnd(c) == pipe[c] = 0

\* of CloseChildEnds: the server keeps the output of the child open.
KeepsOutputEnd(c) ==
    /\ At(c, "forked")
    /\ Go(c, "body")
    /\ readers' = [readers EXCEPT ![c] = @ \ {Server}]
    /\ UNCHANGED <<programs, body, child, crashed, given, writers, sources, sinks, data, alive>>

\* of Exec: the child closes the wrong end of its input.
ClosesReadEnd(c) ==
    /\ child[c] = "started"
    /\ \E kind \in Scripts, size \in Outputs :
          /\ script' = [script EXCEPT ![c] = kind]
          /\ output' = [output EXCEPT ![c] = size]
          /\ Child(c, IF kind = "ignores" THEN "writes" ELSE "reads")
    /\ writers' = [writers EXCEPT ![c] = @ \ {c}]
    /\ readers' = [readers EXCEPT ![c] = @ \ {c}]
    /\ sinks' = [sinks EXCEPT ![c] = @ \ {c}]
    /\ UNCHANGED <<body, thread, crashed, given, sources, data, alive>>

\* of Wait: it does not wait when no child has ended.
WaitsForNobody(c) ==
    /\ At(c, "wait")
    /\ IF \E d \in Calls : child[d] = "exited"
          THEN \E d \in Calls : child[d] = "exited" /\ Child(d, "reaped")
          ELSE UNCHANGED child
    /\ Go(c, "read")
    /\ UNCHANGED <<programs, body, crashed, given, ends, data, alive>>

-----------------------------------------------------------------------------
(* The session thread *)

\* No such file, no pipe: what was opened stays open, and is nobody's.
NotStarted(c) ==
    /\ At(c, "start")
    /\ Go(c, "done")
    /\ UNCHANGED <<programs, body, child, crashed, given, ends, data, alive>>

Pipes(c) ==
    /\ At(c, "start")
    /\ Go(c, "pipes")
    /\ \E size \in {0, 1} : body' = [body EXCEPT ![c] = size]
    /\ writers' = [writers EXCEPT ![c] = {Server}]
    /\ readers' = [readers EXCEPT ![c] = {Server}]
    /\ sources' = [sources EXCEPT ![c] = {Server}]
    /\ sinks' = [sinks EXCEPT ![c] = {Server}]
    /\ UNCHANGED <<programs, child, crashed, given, data, alive>>

\* Cannot fork: all four ends stay open.
ForkFails(c) ==
    /\ At(c, "pipes")
    /\ Go(c, "done")
    /\ UNCHANGED <<programs, body, child, crashed, given, ends, data, alive>>

\* The child has every end the server has, those of other calls too.
Inherits(c, hold) == [d \in Calls |-> IF Server \in hold[d] THEN hold[d] \cup {c} ELSE hold[d]]
Fork(c) ==
    /\ At(c, "pipes")
    /\ Go(c, "forked")
    /\ Child(c, "started")
    /\ writers' = Inherits(c, writers) /\ readers' = Inherits(c, readers)
    /\ sources' = Inherits(c, sources) /\ sinks' = Inherits(c, sinks)
    /\ UNCHANGED <<programs, body, crashed, given, data, alive>>

\* close(CHILD_READ), close(CHILD_WRITE).
CloseChildEnds(c) ==
    /\ At(c, "forked")
    /\ Go(c, "body")
    /\ readers' = [readers EXCEPT ![c] = @ \ {Server}]
    /\ sources' = [sources EXCEPT ![c] = @ \ {Server}]
    /\ UNCHANGED <<programs, body, child, crashed, given, writers, sinks, data, alive>>

\* fdopen fails: the child is left alone with its pipes.
StreamFails(c) ==
    /\ At(c, "body")
    /\ Go(c, "done")
    /\ given' = given \cup {c}
    /\ UNCHANGED <<programs, body, child, crashed, ends, data, alive>>

\* The body is written by the time the stream is closed.  SIGPIPE is not handled.
SendBody(c) ==
    /\ At(c, "body")
    /\ IF body[c] > 0 /\ readers[c] = {}
          THEN /\ alive' = FALSE
               /\ UNCHANGED <<thread, writers, stdin>>
          ELSE /\ stdin' = [stdin EXCEPT ![c] = body[c]]
               /\ writers' = [writers EXCEPT ![c] = @ \ {Server}]
               /\ Go(c, "wait")
               /\ UNCHANGED alive
    /\ UNCHANGED <<programs, body, child, crashed, given, readers, sources, sinks, pipe, wrote, got>>

\* wait() takes a child that has ended, whosever, or returns if there is none.
Wait(c) ==
    /\ At(c, "wait")
    /\ IF Unreaped = {} THEN UNCHANGED child
       ELSE \E d \in Calls : child[d] = "exited" /\ Child(d, "reaped")
    /\ Go(c, "read")
    /\ UNCHANGED <<programs, body, crashed, given, ends, data, alive>>

Read(c) ==
    /\ At(c, "read") /\ pipe[c] > 0 /\ got[c] < Capacity
    /\ pipe' = [pipe EXCEPT ![c] = @ - 1]
    /\ got' = [got EXCEPT ![c] = @ + 1]
    /\ UNCHANGED <<programs, body, thread, child, crashed, given, ends, stdin, wrote, alive>>

EndOfOutput(c) == pipe[c] = 0 /\ sources[c] = {}

\* The end of the output, or more of it than the response holds; pclose.
ReadEnds(c) ==
    /\ At(c, "read")
    /\ EndOfOutput(c) \/ (pipe[c] > 0 /\ got[c] = Capacity)
    /\ Go(c, "done")
    /\ sinks' = [sinks EXCEPT ![c] = @ \ {Server}]
    /\ UNCHANGED <<programs, body, child, crashed, given, writers, readers, sources, data, alive>>
-----------------------------------------------------------------------------
(* The child process *)

\* The child closes the ends of its parent and becomes the script, which keeps all
\* the others.
Exec(c) ==
    /\ child[c] = "started"
    /\ \E kind \in Scripts, size \in Outputs :
          /\ script' = [script EXCEPT ![c] = kind]
          /\ output' = [output EXCEPT ![c] = size]
          /\ Child(c, IF kind = "ignores" THEN "writes" ELSE "reads")
    /\ writers' = [writers EXCEPT ![c] = @ \ {c}]
    /\ sinks' = [sinks EXCEPT ![c] = @ \ {c}]
    /\ UNCHANGED <<body, thread, crashed, given, readers, sources, data, alive>>

Exits(c) ==
    /\ Child(c, "exited")
    /\ writers' = Leaves(c, writers) /\ readers' = Leaves(c, readers)
    /\ sources' = Leaves(c, sources) /\ sinks' = Leaves(c, sinks)

\* The child of a failed execve goes on in the code of the server, with a null
\* stream: it crashes, and its exit may write the log it inherited to the pipe.
ExecFails(c) ==
    /\ child[c] = "started"
    /\ Exits(c)
    /\ crashed' = crashed \cup {c}
    /\ \E log \in {0, 1} : pipe' = [pipe EXCEPT ![c] = log]
    /\ UNCHANGED <<programs, body, thread, given, stdin, wrote, got, alive>>

\* A script that goes by CONTENT_LENGTH does not look for the end.
ScriptReads(c) ==
    /\ child[c] = "reads"
    /\ \/ writers[c] = {}
       \/ script[c] = "by length" /\ stdin[c] = body[c]
    /\ stdin' = [stdin EXCEPT ![c] = 0]
    /\ Child(c, "writes")
    /\ UNCHANGED <<programs, body, thread, crashed, given, ends, pipe, wrote, got, alive>>

ScriptWrites(c) ==
    /\ child[c] = "writes" /\ wrote[c] < output[c]
    /\ sinks[c] # {} /\ pipe[c] < Capacity
    /\ pipe' = [pipe EXCEPT ![c] = @ + 1]
    /\ wrote' = [wrote EXCEPT ![c] = @ + 1]
    /\ UNCHANGED <<programs, body, thread, child, crashed, given, ends, stdin, got, alive>>

\* It is through, or SIGPIPE ends it.
ScriptExits(c) ==
    /\ child[c] = "writes"
    /\ wrote[c] = output[c] \/ sinks[c] = {}
    /\ Exits(c)
    /\ UNCHANGED <<programs, body, thread, crashed, given, data, alive>>
-----------------------------------------------------------------------------
ThreadStep(c) ==
    \/ NotStarted(c) \/ Pipes(c) \/ ForkFails(c) \/ Fork(c)
    \/ CloseChildEnds(c) \/ StreamFails(c) \/ SendBody(c) \/ Wait(c)
    \/ Read(c) \/ ReadEnds(c)
ChildStep(c) ==
    \/ Exec(c) \/ ExecFails(c)
    \/ ScriptReads(c) \/ ScriptWrites(c) \/ ScriptExits(c)

CgiNext == \E c \in Calls : ThreadStep(c) \/ ChildStep(c)
CgiSpec == CgiInit /\ [][CgiNext]_cvars
CgiFairness == \A c \in Calls : WF_cvars(ThreadStep(c)) /\ WF_cvars(ChildStep(c))
CgiFairSpec == CgiSpec /\ CgiFairness
-----------------------------------------------------------------------------
(* Properties *)

Holders == Calls \cup {Server}

\* The variables keep to their domains; a pipe and a response hold no more than they do.
CgiTypeOK ==
    /\ body \in [Calls -> {0, 1}] /\ script \in [Calls -> Scripts \cup {"none"}]
    /\ output \in [Calls -> Nat] /\ wrote \in [Calls -> Nat]
    /\ given \subseteq Calls /\ crashed \subseteq Calls /\ alive \in BOOLEAN
    /\ thread \in [Calls -> {"start", "pipes", "forked", "body", "wait", "read", "done"}]
    /\ child \in [Calls -> {"none", "started", "reads", "writes", "exited", "reaped"}]
    /\ writers \in [Calls -> SUBSET Holders] /\ readers \in [Calls -> SUBSET Holders]
    /\ sources \in [Calls -> SUBSET Holders] /\ sinks \in [Calls -> SUBSET Holders]
    /\ stdin \in [Calls -> {0, 1}] /\ pipe \in [Calls -> 0 .. Capacity]
    /\ got \in [Calls -> 0 .. Capacity]

\* The response of a call that went its whole way has all that its script wrote, up
\* to MAXRESPONSE, although wait() may have returned for the child of another
\* session while the script was still writing.
WholeOutput ==
    \A c \in Calls :
        thread[c] = "done" /\ child[c] # "none" /\ c \notin given \cup crashed =>
            got[c] = IF output[c] <= Capacity THEN output[c] ELSE Capacity

\* wait() takes any child, but a child is left to nobody only when a call was given
\* up with its child running: when no call is under way, not more are left.
NoZombies ==
    alive /\ (\A c \in Calls : thread[c] \in {"start", "done"}) =>
        Cardinality(Unreaped) <= Cardinality(given)

\* SIGPIPE ends the server only when a script, or the child of a failed execve,
\* ends without having read a body.
KilledForAReason ==
    ~alive => \E c \in Calls : body[c] > 0 /\ (script[c] = "ignores" \/ c \in crashed)

\* A script is stopped by a full pipe, which its thread reads after wait() only.
Full(d) == child[d] = "writes" /\ pipe[d] = Capacity /\ wrote[d] < output[d]
\* A script is stopped because somebody else still holds the other end of its input:
\* the script of another call, or the server after the call was given up.
HeldOpen(d) ==
    /\ child[d] = "reads"
    /\ d \in given \/ (script[d] = "to the end" /\ writers[d] \ {Server} # {})

\* Every call that got its child ends, unless a script is stopped for ever by one of
\* two things: it wrote more than a pipe holds, or its input is held open.
CgiEnds ==
    \A c \in Calls :
        thread[c] = "forked" ~> \/ thread[c] = "done"
                            \/ ~alive
                            \/ [](\E d \in Calls : Full(d) \/ HeldOpen(d))
=============================================================================
