-------------------------------- MODULE Routes --------------------------------
(***************************************************************************)
(* The table of routes (lib/action_routes.cc).  A path is a sequence of    *)
(* tokens, slashes and segment names; an endpoint_t of the tree is named   *)
(* by the sequence of segments that leads to it from the root.             *)
(*                                                                         *)
(* main() adds all routes before the first connection; after that every    *)
(* session thread looks its requests up, and a lookup that finds no child  *)
(* "/" to fall back to leaves a null one in the tree for all others.       *)
(***************************************************************************)
EXTENDS Integers, FiniteSets, SequencesExt

CONSTANTS
    Names,       \* segment names
    Actions,     \* http_action_t objects
    Methods,     \* http_method_t
    None,        \* nullptr
    MaxPath,     \* bound on the tokens of a path
    MaxRoutes    \* bound on the calls of add_action_route

Slash == "/"
Empty == ""      \* the empty std::string
Tokens == Names \cup {Slash, Empty}

ASSUME RoutesAssumption ==
    /\ {Slash, Empty} \cap Names = {}
    /\ None \notin Actions \cup Nat
    /\ None \notin Seq(Tokens)
    /\ MaxPath \in Nat

\* Two names in a row would be one name.
WellFormed(p) == \A i \in 1 .. Len(p) - 1 : p[i] = Slash \/ p[i + 1] = Slash
Paths == {p \in {<<Slash>> \o q : q \in SeqOf(Names \cup {Slash}, MaxPath - 1)} :
             WellFormed(p)}

VARIABLES
    nodes,     \* endpoints of the tree
    nulls,     \* endpoints whose _child_points map "/" to a null pointer
    slots,     \* the actions set: <<endpoint, method>> -> action
    calls,     \* calls of add_action_route: path, method, action, result
    serving    \* main() is through with adding routes

vars == <<nodes, nulls, slots, calls, serving>>

Root == <<>>
Init ==
    /\ nodes = {Root}
    /\ nulls = {}
    /\ slots = <<>>
    /\ calls = {}
    /\ serving = FALSE

Action(n, m) == IF <<n, m>> \in DOMAIN slots THEN slots[<<n, m>>] ELSE None

\* The names on a path, in order.
NamesOf(p) ==
    LET upTo[i \in 0 .. Len(p)] ==
            IF i = 0 THEN <<>>
            ELSE IF p[i] = Slash THEN upTo[i - 1] ELSE Append(upTo[i - 1], p[i])
    IN  upTo[Len(p)]
-----------------------------------------------------------------------------
(* Faulty variants of definitions below, to see the properties fail. *)

\* of Segments: the slash at the end of a path is skipped like the others.
NoTrailingSlash(p) == IF p = <<Slash>> THEN p ELSE NamesOf(p)

\* of Position: the slash in front of the name is remembered.
PositionBefore(p, k) ==
    LET before == {i \in 1 .. Len(p) - 1 :
                      p[i] = Slash /\ p[i + 1] # Slash
                      /\ Len(NamesOf(SubSeq(p, 1, i))) = k - 1}
    IN  IF before = {} THEN None ELSE CHOOSE i \in before : TRUE

\* of Child: a child that is null counts as an endpoint.
NullIsEndpoint(n, c) == IF n \o <<c>> \in nodes THEN n \o <<c>> ELSE n
-----------------------------------------------------------------------------
(* add_action_route *)

\* A slash after a name ends a segment, and is one of its own at the end of the
\* path; all other slashes are skipped.
Segments(p) ==
    IF p = <<Slash>> \/ (Last(p) = Slash /\ p[Len(p) - 1] # Slash)
        THEN Append(NamesOf(p), Slash)
        ELSE NamesOf(p)

\* The endpoints are created before the slot is looked at; -3 when it is taken.
AddRoute(p, m, a) ==
    LET n == Segments(p)
        taken == Action(n, m) # None
    IN  /\ ~serving
        /\ Cardinality(calls) < MaxRoutes
        /\ nodes' = nodes \cup Prefixes(n)
        /\ slots' = IF taken THEN slots
                    ELSE [x \in DOMAIN slots \cup {<<n, m>>} |->
                             IF x = <<n, m>> THEN a ELSE slots[x]]
        /\ calls' = calls \cup {[path |-> p, method |-> m, action |-> a,
                                 result |-> IF taken THEN -3 ELSE 0]}
        /\ UNCHANGED <<nulls, serving>>

StartServing ==
    /\ ~serving
    /\ serving' = TRUE
    /\ UNCHANGED <<nodes, nulls, slots, calls>>
-----------------------------------------------------------------------------
(* find_http_action *)

\* The path cut at its slashes; the slash at its end is a chunk of its own, and
\* what is in front of it is one even when it is empty.
Chunks(p) ==
    IF Len(p) = 1 THEN <<Empty>>
    ELSE IF Last(p) # Slash THEN NamesOf(p)
    ELSE IF p[Len(p) - 1] = Slash THEN NamesOf(p) \o <<Empty, Slash>>
    ELSE Append(NamesOf(p), Slash)

\* positions[k]: the slash after the k-th name.  It is not stored for the slash
\* at the end of the path: the array is read uninitialized then.
Position(p, k) ==
    LET after == {i \in 2 .. Len(p) - 1 :
                     p[i] = Slash /\ p[i - 1] # Slash
                     /\ Len(NamesOf(SubSeq(p, 1, i))) = k}
    IN  IF after = {} THEN None ELSE CHOOSE i \in after : TRUE

Has(n, c) == n \o <<c>> \in nodes \/ (c = Slash /\ n \in nulls)
Child(n, c) == IF n \o <<c>> \in nodes THEN n \o <<c>> ELSE None

\* One round of the loop over the chunks; prev is the token in front of the rest.
Descend(w, p, k) ==
    LET c == Chunks(p)[k] IN
    IF w.stopped THEN w
    ELSE IF Has(w.node, c)
        THEN [w EXCEPT !.node = Child(w.node, c), !.prev = Position(p, k)]
    ELSE [node    |-> Child(w.node, Slash),
          prev    |-> w.prev,
          rest    |-> IF Child(w.node, Slash) = None THEN 2
                      ELSE IF w.prev = None THEN None ELSE w.prev + 1,
          missed  |-> IF Child(w.node, Slash) = None THEN {w.node} ELSE {},
          stopped |-> TRUE]

Walk(p) ==
    LET after[k \in 0 .. Len(Chunks(p))] ==
            IF k = 0 THEN [node |-> Root, prev |-> 1, rest |-> Len(p) + 1, missed |-> {},
                           stopped |-> FALSE]
            ELSE Descend(after[k - 1], p, k)
    IN  after[Len(Chunks(p))]

Found(p, m) == IF Walk(p).node = None THEN None ELSE Action(Walk(p).node, m)

\* A session thread looks a request up; operator[] inserts the missing child.
Lookup(p) ==
    /\ serving
    /\ nulls' = nulls \cup Walk(p).missed
    /\ UNCHANGED <<nodes, slots, calls, serving>>
-----------------------------------------------------------------------------
Next ==
    \/ \E p \in Paths, m \in Methods, a \in Actions : AddRoute(p, m, a)
    \/ StartServing
    \/ \E p \in Paths : Lookup(p)

Spec == Init /\ [][Next]_vars
-----------------------------------------------------------------------------
(* Properties *)

Registered == {c \in calls : c.result = 0}
Endpoints == {Root} \cup UNION {Prefixes(Segments(c.path)) : c \in calls}

\* Reference: what the routes say a request means, whatever was looked up before.
\* The endpoint the path names exactly answers for it; if there is none, the
\* folder "/" of the longest endpoint on the way does.
ActionAt(n, m) ==
    LET at == {c \in Registered : Segments(c.path) = n /\ c.method = m}
    IN  IF at = {} THEN None ELSE (CHOOSE c \in at : TRUE).action

Answer(p, m) ==
    LET ways == Prefixes(Chunks(p)) \cap Endpoints
        longest == CHOOSE q \in ways : \A r \in ways : Len(r) <= Len(q)
    IN  ActionAt(IF longest = Chunks(p) THEN longest ELSE Append(longest, Slash), m)

\* Every request is answered by the action its routes give it, by all threads
\* alike: lookups before it, which leave null children behind, change nothing.
AnsweredByItsRoute ==
    serving => \A p \in Paths, m \in Methods : Found(p, m) = Answer(p, m)

\* A route that add_action_route accepted answers for its own path, unless that
\* path ends with two slashes.
RouteAnswersItself ==
    serving => \A c \in Registered :
        \/ Found(c.path, c.method) = c.action
        \/ Len(c.path) > 1 /\ Last(c.path) = Slash /\ c.path[Len(c.path) - 1] = Slash

\* When a folder answers for a path below it, url.rest is what follows the
\* folder's name in the path, and comes from a position that was stored: cgi,
\* upload and static pages take it for the name of a file.
RestFollowsFolder ==
    serving => \A p \in Paths :
        LET w == Walk(p) IN
        w.stopped /\ w.node # None =>
            /\ w.rest \in 2 .. Len(p) + 1
            /\ Front(w.node) = NamesOf(SubSeq(p, 1, w.rest - 1))
=============================================================================
