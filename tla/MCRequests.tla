------------------------------ MODULE MCRequests ------------------------------
(***************************************************************************)
(* Small instances of the modules a request passes through before its      *)
(* action: its line, its header, the table of routes.  They share no       *)
(* variable, and a behaviour of the instance is one of one of them.        *)
(***************************************************************************)
EXTENDS Routes, RequestTarget, RequestHeader

Symmetry == Permutations(Actions)

VARIABLE part

mcvars == <<part, vars, tvars, hvars>>

RoutesIdle == Init

TargetIdle ==
    /\ method = "GET" /\ target = <<>> /\ version = "HTTP/"
    /\ at = 1 /\ buf = <<>> /\ query = <<>> /\ pathLen = Null /\ keyFound = FALSE
    /\ place = "method"

HeaderIdle ==
    /\ requests = <<>> /\ stream = <<>> /\ pos = 0
    /\ state = "name" /\ wrote = FALSE /\ name = <<>> /\ val = <<>> /\ inVal = FALSE
    /\ host = "" /\ port = "0" /\ length = "0" /\ cookie = FALSE /\ type = ""
    /\ bounded = FALSE /\ answered = <<>> /\ path = "" /\ phase = "line"

MCInit ==
    \/ part = "routes" /\ Init /\ TargetIdle /\ HeaderIdle
    \/ part = "target" /\ TargetInit /\ RoutesIdle /\ HeaderIdle
    \/ part = "header" /\ HeaderInit /\ RoutesIdle /\ TargetIdle

MCNext ==
    \/ part = "routes" /\ Next /\ UNCHANGED <<part, tvars, hvars>>
    \/ part = "target" /\ TargetNext /\ UNCHANGED <<part, vars, hvars>>
    \/ part = "header" /\ HeaderNext /\ UNCHANGED <<part, vars, tvars>>

MCSpec == MCInit /\ [][MCNext]_mcvars
=============================================================================
