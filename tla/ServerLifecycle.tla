--------------------------- MODULE ServerLifecycle ---------------------------
(***************************************************************************)
(* The process from main() to its end (ssl_serv.cc): configuration, the    *)
(* redirector thread, opening of the ports, lowering of the privileges,    *)
(* the accept loop, and SIGINT, whose handler may run between any two      *)
(* steps.  What happens on an accepted connection is SessionRegistry's.    *)
(***************************************************************************)
EXTENDS Integers

CONSTANTS
    EnvPorts      \* values of HTTPS_PORT considered; 0 stands for unset

SERVER_PORT == 4433
USHRT_MAX == 65535
FirstFreePort == 1024     \* binding to a port below takes root

ASSUME EnvPortsAssumption == EnvPorts \subseteq Int

VARIABLES
    started,      \* the user that started the server: "root" or "user"
    env,          \* HTTPS_PORT
    user, group,  \* what the process runs as: "root", "user" or "nobody"
    server_port,
    https,        \* port the https socket is bound to, 0 before bind
    http,         \* the redirector's socket is bound to port 80
    listener,     \* descriptor of the https socket: "none", "open", "closed"
    keepRunning,
    clients,      \* a session thread was started
    mpc, rpc,     \* where main and the redirector thread are
    ended         \* "no", or how the process ended

ids == <<started, env, user, group>>
sockets == <<https, http, listener>>
vars == <<started, env, user, group, server_port, https, http, listener,
          keepRunning, clients, mpc, rpc, ended>>

Running == ended = "no"
MainAt(here) == Running /\ mpc = here
RedirectorAt(here) == Running /\ rpc = here
MayBind(port) == user = "root" \/ port >= FirstFreePort

Init ==
    /\ started \in {"root", "user"}
    /\ env \in EnvPorts
    /\ user = started /\ group = started
    /\ server_port = SERVER_PORT
    /\ https = 0 /\ http = FALSE /\ listener = "none"
    /\ keepRunning = TRUE
    /\ clients = FALSE
    /\ mpc = "handlers" /\ rpc = "none"
    /\ ended = "no"
-----------------------------------------------------------------------------
(* Faulty variants of definitions below, to see the properties fail. *)

\* of SetGid: a failure is only logged.
IgnoresSetGid(ok) ==
    /\ MainAt("setgid")
    /\ group' = IF ok THEN "nobody" ELSE group
    /\ mpc' = "setuid"
    /\ UNCHANGED <<started, env, user, server_port, sockets, keepRunning, clients, rpc, ended>>

\* of StopHandler: the listening socket stays open.
OnlyClearsFlag(onMain) ==
    /\ Running
    /\ mpc # "handlers"
    /\ keepRunning' = FALSE
    /\ mpc' = IF onMain /\ mpc = "blocked" THEN "loop" ELSE mpc
    /\ UNCHANGED <<ids, server_port, sockets, clients, rpc, ended>>

\* of Bind: the default port is opened whatever was configured.
BindsDefault(ok) ==
    /\ MainAt("bind")
    /\ IF ok THEN https' = SERVER_PORT /\ listener' = "open" /\ mpc' = "drop"
             ELSE UNCHANGED <<https, listener, mpc>>
    /\ UNCHANGED <<ids, server_port, http, keepRunning, clients, rpc, ended>>
-----------------------------------------------------------------------------
(* main(), up to the accept loop *)

Exit(how) == ended' = how
MainGoto(there) == mpc' = there /\ UNCHANGED ended
MainExits == Exit("emergency") /\ UNCHANGED mpc

\* Before this step SIGINT kills the process by default.
SetHandlers ==
    /\ MainAt("handlers")
    /\ MainGoto("env")
    /\ UNCHANGED <<ids, server_port, sockets, keepRunning, clients, rpc>>

ReadEnvironment ==
    /\ MainAt("env")
    /\ server_port' = IF env > 0 /\ env < USHRT_MAX THEN env ELSE SERVER_PORT
    /\ MainGoto("configure")
    /\ UNCHANGED <<ids, sockets, keepRunning, clients, rpc>>

\* Root starts the redirector and takes 443; when pthread_create fails main
\* goes on, with neither.
Configure(created) ==
    /\ MainAt("configure")
    /\ IF user = "root" /\ created
          THEN /\ rpc' = "start"
               /\ server_port' = IF server_port = SERVER_PORT THEN 443 ELSE server_port
          ELSE UNCHANGED <<rpc, server_port>>
    /\ MainGoto("create")
    /\ UNCHANGED <<ids, sockets, keepRunning, clients>>

\* create_context exits when the certificate cannot be used.
CreateTransport(ok) ==
    /\ MainAt("create")
    /\ IF ok THEN MainGoto("bind") ELSE MainExits
    /\ UNCHANGED <<ids, server_port, sockets, keepRunning, clients, rpc>>

\* bind_and_listen, then the routes and show_registered_interfaces: each exits
\* on failure.
Bind(ok) ==
    /\ MainAt("bind")
    /\ IF ok /\ MayBind(server_port)
          THEN https' = server_port /\ listener' = "open" /\ MainGoto("drop")
          ELSE UNCHANGED <<https, listener>> /\ MainExits
    /\ UNCHANGED <<ids, server_port, http, keepRunning, clients, rpc>>

\* drop_privileges: look "nobody" up.
FindNobody(found) ==
    /\ MainAt("drop")
    /\ IF user # "root" THEN MainGoto("loop")
       ELSE IF found THEN MainGoto("setgid") ELSE MainExits
    /\ UNCHANGED <<ids, server_port, sockets, keepRunning, clients, rpc>>

SetGid(ok) ==
    /\ MainAt("setgid")
    /\ IF ok THEN group' = "nobody" /\ MainGoto("setuid")
             ELSE UNCHANGED group /\ MainExits
    /\ UNCHANGED <<started, env, user, server_port, sockets, keepRunning, clients, rpc>>

\* setuid acts on all threads of the process.
SetUid(ok) ==
    /\ MainAt("setuid")
    /\ IF ok THEN user' = "nobody" /\ MainGoto("regain")
             ELSE UNCHANGED user /\ MainExits
    /\ UNCHANGED <<started, env, group, server_port, sockets, keepRunning, clients, rpc>>

\* setuid(0) must not work any more.
TryRegain ==
    /\ MainAt("regain")
    /\ IF user = "root" THEN MainExits ELSE MainGoto("loop")
    /\ UNCHANGED <<ids, server_port, sockets, keepRunning, clients, rpc>>
-----------------------------------------------------------------------------
(* The accept loop and the end of main() *)

Loop ==
    /\ MainAt("loop")
    /\ MainGoto(IF keepRunning THEN "accept" ELSE "shutdown")
    /\ UNCHANGED <<ids, server_port, sockets, keepRunning, clients, rpc>>

\* accept() on a descriptor the handler has closed fails at once.
EnterAccept ==
    /\ MainAt("accept")
    /\ MainGoto(IF listener = "open" THEN "blocked" ELSE "loop")
    /\ UNCHANGED <<ids, server_port, sockets, keepRunning, clients, rpc>>

\* accept() returns: a connection, for which a thread is started, or an error.
\* The kernel keeps a socket alive that is closed while accept() waits on it.
LeaveAccept(connection, threadStarted) ==
    /\ MainAt("blocked")
    /\ clients' = (clients \/ (connection /\ threadStarted))
    /\ MainGoto("loop")
    /\ UNCHANGED <<ids, server_port, sockets, keepRunning, rpc>>

\* Close once more, delete the transport, free the context, return.
Shutdown ==
    /\ MainAt("shutdown")
    /\ listener' = "closed"
    /\ MainGoto("return")
    /\ UNCHANGED <<ids, server_port, https, http, keepRunning, clients, rpc>>

Return ==
    /\ MainAt("return")
    /\ Exit("finished")
    /\ UNCHANGED <<ids, server_port, sockets, keepRunning, clients, mpc, rpc>>
-----------------------------------------------------------------------------
(* redirector_thread *)

RedirectorStarts ==
    /\ RedirectorAt("start")
    /\ rpc' = "bind"
    /\ UNCHANGED <<ids, server_port, sockets, keepRunning, clients, mpc, ended>>

\* Port 80 needs root at this moment; a failure exits the whole process.
RedirectorBinds(ok) ==
    /\ RedirectorAt("bind")
    /\ IF ok /\ MayBind(80)
          THEN http' = TRUE /\ rpc' = "loop" /\ UNCHANGED ended
          ELSE Exit("emergency") /\ UNCHANGED <<http, rpc>>
    /\ UNCHANGED <<ids, server_port, https, listener, keepRunning, clients, mpc>>

RedirectorLoops ==
    /\ RedirectorAt("loop")
    /\ rpc' = IF keepRunning THEN "accept" ELSE "exit"
    /\ UNCHANGED <<ids, server_port, sockets, keepRunning, clients, mpc, ended>>

RedirectorAccepts(connection) ==
    /\ RedirectorAt("accept")
    /\ rpc' = IF connection THEN "serve" ELSE "loop"
    /\ UNCHANGED <<ids, server_port, sockets, keepRunning, clients, mpc, ended>>

\* The transport is deleted by ~https_session_t and once more by the thread:
\* the allocator may notice and abort the process, or not.
RedirectorServes(aborts) ==
    /\ RedirectorAt("serve")
    /\ IF aborts THEN Exit("aborted") /\ UNCHANGED rpc
                 ELSE rpc' = "loop" /\ UNCHANGED ended
    /\ UNCHANGED <<ids, server_port, sockets, keepRunning, clients, mpc>>
-----------------------------------------------------------------------------
(* SIGINT *)

TransportCreated == mpc \notin {"handlers", "env", "configure", "create"}

KilledEarly ==
    /\ MainAt("handlers")
    /\ Exit("killed")
    /\ UNCHANGED <<ids, server_port, sockets, keepRunning, clients, mpc, rpc>>

\* interrupt_sigaction, on main or on another thread: without a transport the
\* close() call faults and the SIGSEGV handler exits.  accept() is not
\* restarted in the thread that handled the signal.
StopHandler(onMain) ==
    /\ Running
    /\ mpc # "handlers"
    /\ onMain \/ clients \/ rpc \notin {"none", "exit"}
    /\ keepRunning' = FALSE
    /\ IF TransportCreated
          THEN /\ listener' = IF listener = "open" THEN "closed" ELSE listener
               /\ mpc' = IF onMain /\ mpc = "blocked" THEN "loop" ELSE mpc
               /\ UNCHANGED ended
          ELSE Exit("emergency") /\ UNCHANGED <<listener, mpc>>
    /\ UNCHANGED <<ids, server_port, https, http, clients, rpc>>

\* After main has deleted the transport the handler may also crash on it.
StopCrashes ==
    /\ MainAt("return")
    /\ Exit("aborted")
    /\ UNCHANGED <<ids, server_port, sockets, keepRunning, clients, mpc, rpc>>
-----------------------------------------------------------------------------
MainStep ==
    \/ SetHandlers
    \/ ReadEnvironment
    \/ \E ok \in BOOLEAN :
          Configure(ok) \/ CreateTransport(ok) \/ Bind(ok) \/ FindNobody(ok)
          \/ SetGid(ok) \/ SetUid(ok)
    \/ TryRegain
    \/ Loop
    \/ EnterAccept
    \/ Shutdown
    \/ Return

RedirectorStep ==
    \/ RedirectorStarts
    \/ RedirectorLoops
    \/ \E b \in BOOLEAN : RedirectorBinds(b) \/ RedirectorAccepts(b) \/ RedirectorServes(b)

Next ==
    \/ MainStep
    \/ RedirectorStep
    \/ \E c, t \in BOOLEAN : LeaveAccept(c, t)
    \/ KilledEarly
    \/ \E onMain \in BOOLEAN : StopHandler(onMain)
    \/ StopCrashes

Spec == Init /\ [][Next]_vars

\* main runs when it can; nobody has to connect and no signal has to come.
FairSpec == Spec /\ WF_vars(MainStep)
-----------------------------------------------------------------------------
(* Properties *)

Serving == Running /\ mpc \in {"loop", "accept", "blocked"}

TypeOK ==
    /\ started \in {"root", "user"}
    /\ env \in EnvPorts
    /\ user \in {started, "nobody"} /\ group \in {started, "nobody"}
    /\ server_port \in 1 .. USHRT_MAX
    /\ https \in 0 .. USHRT_MAX
    /\ http \in BOOLEAN
    /\ listener \in {"none", "open", "closed"}
    /\ keepRunning \in BOOLEAN /\ clients \in BOOLEAN
    /\ mpc \in {"handlers", "env", "configure", "create", "bind", "drop", "setgid",
                "setuid", "regain", "loop", "accept", "blocked", "shutdown", "return"}
    /\ rpc \in {"none", "start", "bind", "loop", "accept", "serve", "exit"}
    /\ ended \in {"no", "finished", "emergency", "killed", "aborted"}

\* Started as root, the server accepts connections only as user and group
\* nobody: each failure of drop_privileges ends the process before.
RootNeverServes ==
    Serving /\ started = "root" => user = "nobody" /\ group = "nobody"

\* The https socket is bound before the privileges go: whoever serves does so
\* on the configured port, and on a privileged one only when root started it.
ServesOnItsPort ==
    Serving => /\ https = server_port
               /\ https < FirstFreePort => started = "root"

\* SIGINT stops the server: unless main is inside accept() while another
\* thread takes the signal, the process comes to an end.
StopCompletes == (~keepRunning /\ mpc # "blocked") ~> ~Running

\* README.md: started with administrator's rights the server opens the ports
\* http:80 and https:443, then lowers its privileges.  (The redirector thread
\* that opens port 80 does run.)
PortsOpenBeforeDrop ==
    Running /\ rpc # "none" /\ user = "nobody" => http /\ https # 0
=============================================================================
