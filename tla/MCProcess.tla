------------------------------- MODULE MCProcess -------------------------------
(***************************************************************************)
(* Small instances of the modules about the process as a whole: its life,  *)
(* its descriptors, its children, what its threads share, what a           *)
(* connection leaves behind in its response.  They share no variable, and  *)
(* a behaviour of the instance is one of one of them; the others have      *)
(* nothing to do in it.                                                    *)
(***************************************************************************)
EXTENDS ServerLifecycle, Descriptors, CgiPipes, SharedData, ResponseFields

VARIABLE part

mcvars == <<part, vars, fdvars, cvars, svars, rvars>>

LifeIdle ==
    /\ started = "user" /\ env = 0 /\ user = "user" /\ group = "user"
    /\ server_port = SERVER_PORT /\ https = 0 /\ http = FALSE /\ listener = "none"
    /\ keepRunning = TRUE /\ clients = FALSE
    /\ mpc = "handlers" /\ rpc = "none" /\ ended = "killed"
CgiIdle == NothingYet /\ thread = [c \in Calls |-> "done"]

MCInit ==
    /\ part \in {"life", "descriptors", "cgi", "shared", "fields"}
    /\ IF part = "life" THEN Init ELSE LifeIdle
    /\ IF part = "cgi" THEN CgiInit ELSE CgiIdle
    /\ FdInit /\ SharedInit /\ FieldsInit

MCNext ==
    \/ part = "life" /\ Next /\ UNCHANGED <<part, fdvars, cvars, svars, rvars>>
    \/ part = "descriptors" /\ FdNext /\ UNCHANGED <<part, vars, cvars, svars, rvars>>
    \/ part = "cgi" /\ CgiNext /\ UNCHANGED <<part, vars, fdvars, svars, rvars>>
    \/ part = "shared" /\ SharedNext /\ UNCHANGED <<part, vars, fdvars, cvars, rvars>>
    \/ part = "fields" /\ FieldsNext /\ UNCHANGED <<part, vars, fdvars, cvars, svars>>

MCSpec == MCInit /\ [][MCNext]_mcvars /\ WF_vars(MainStep) /\ CgiFairness
=============================================================================
