------------------------------- MODULE SharedData -------------------------------
(***************************************************************************)
(* The data all session threads share, and who is at it: the map of the    *)
(* sessions, the table of addresses, the tree of routes, the base64 table, *)
(* the icon, the static struct tm of the C library.  There is one lock,    *)
(* that of the session manager.                                            *)
(*                                                                         *)
(* A thread is at a site while it runs the code there: two threads at      *)
(* sites of one object, one of which writes, are a data race.  main()      *)
(* destroys what is static when it returns, whatever the threads do.       *)
(***************************************************************************)
EXTENDS Naturals, FiniteSets

CONSTANTS
    Threads,        \* session threads
    MainThread,
    Unlocked,       \* nobody: the lock is free
    Nodes,          \* nodes of the route tree that a url may reach and then leave the tree
    Letters         \* entries of the base64 table

ASSUME SharedDataAssumption ==
    /\ MainThread \notin Threads /\ Unlocked \notin Threads
    /\ Letters # {} /\ "hit" \notin Nodes

Sites == {"add", "find", "book", "erase", "walk", "list", "descend", "insert",
          "test", "publish", "fill", "decode", "look", "load", "serve", "date", "teardown"}
Places == Sites \cup {"new", "adding", "added", "loop", "built", "removing", "removed", "gone"}

Writes == {"add", "book", "erase", "insert", "publish", "fill", "load", "date", "teardown"}

\* The sites of an object.  main's destructors are at all that is static.
Sessions == {"add", "find", "erase", "walk", "teardown"}
Addresses == {"book", "list", "teardown"}
RouteTree == {"descend", "insert", "teardown"}
Base64 == {"test", "publish", "fill", "decode"}
Icon == {"look", "load", "serve", "teardown"}
Calendar == {"date"}
SharedObjects == {Sessions, Addresses, RouteTree, Base64, Icon, Calendar}

UnderLock == {"add", "find", "book", "erase"}

VARIABLES
    where,          \* the place of each thread, main's too
    lock,           \* who holds lock_session_list
    looksFor,       \* where each thread's url leaves the tree; "hit" if it does not
    children,       \* nodes that have a child "/", be it null
    decoding,       \* entries of decoding_table that are filled
    published,      \* decoding_table is not null
    filled,         \* entries each thread has filled since its own publication
    icon            \* favicon_buff or favicon_size is set

svars == <<where, lock, looksFor, children, decoding, published, filled, icon>>

Everyone == Threads \cup {MainThread}

SharedInit ==
    /\ where = [t \in Everyone |-> IF t = MainThread THEN "loop" ELSE "new"]
    /\ lock = Unlocked
    /\ looksFor = [t \in Threads |-> "hit"]
    /\ children = {} /\ decoding = {} /\ published = FALSE
    /\ filled = [t \in Threads |-> {}]
    /\ icon = FALSE

Moves(t, here, there) == where[t] = here /\ where' = [where EXCEPT ![t] = there]
-----------------------------------------------------------------------------
(* Faulty variants of definitions below, to see the properties fail. *)

\* of LockToRemove: the entry is looked up and booked without the lock.
TakesNoLock(t) ==
    /\ Moves(t, "removing", "find")
    /\ UNCHANGED <<lock, looksFor, children, decoding, published, filled, icon>>

\* of IsFilled: the last entry is forgotten.
OneLess(t) == Cardinality(filled[t]) + 1 >= Cardinality(Letters)

\* of Decoded: the destructor deletes the table.
DeletesTable(t) ==
    /\ Moves(t, "decode", "built")
    /\ published' = FALSE /\ decoding' = {}
    /\ UNCHANGED <<lock, looksFor, children, filled, icon>>

-----------------------------------------------------------------------------
(* The session manager: add_session, remove_session *)

LockToAdd(t) ==
    /\ lock = Unlocked
    /\ Moves(t, "adding", "add")
    /\ lock' = t
    /\ UNCHANGED <<looksFor, children, decoding, published, filled, icon>>

UnlockAdded(t) ==
    /\ Moves(t, "added", "loop")
    /\ lock' = Unlocked
    /\ UNCHANGED <<looksFor, children, decoding, published, filled, icon>>

LockToRemove(t) ==
    /\ lock = Unlocked
    /\ Moves(t, "removing", "find")
    /\ lock' = t
    /\ UNCHANGED <<looksFor, children, decoding, published, filled, icon>>

UnlockRemoved(t) ==
    /\ Moves(t, "removed", "gone")
    /\ lock' = Unlocked
    /\ UNCHANGED <<looksFor, children, decoding, published, filled, icon>>

\* Steps from site to site that change nothing else.
Passes(t) ==
    /\ \/ Moves(t, "new", "adding") \/ Moves(t, "add", "added")
       \/ Moves(t, "find", "removed") \/ Moves(t, "find", "book")
       \/ Moves(t, "book", "erase") \/ Moves(t, "erase", "removed")
       \/ Moves(t, "walk", "built") \/ Moves(t, "list", "built")
       \/ Moves(t, "serve", "built")
       \/ Moves(t, "built", "date") \/ Moves(t, "date", "loop")
       \/ Moves(t, "loop", "removing")
    /\ UNCHANGED <<lock, looksFor, children, decoding, published, filled, icon>>
-----------------------------------------------------------------------------
(* A request *)

\* find_http_action: where the url leaves the tree operator[] asks for a child "/",
\* and inserts a null one if there is none; the page is then not found.
Requests(t) ==
    /\ Moves(t, "loop", "descend")
    /\ \E node \in Nodes \cup {"hit"} : looksFor' = [looksFor EXCEPT ![t] = node]
    /\ UNCHANGED <<lock, children, decoding, published, filled, icon>>

Misses(t) ==
    /\ looksFor[t] \notin children \cup {"hit"}
    /\ Moves(t, "descend", "insert")
    /\ UNCHANGED <<lock, looksFor, children, decoding, published, filled, icon>>

Inserts(t) ==
    /\ Moves(t, "insert", "built")
    /\ children' = children \cup {looksFor[t]}
    /\ UNCHANGED <<lock, looksFor, decoding, published, filled, icon>>

\* The action: a page without shared data, the two of the administrator, a form
\* with base64, the icon.
Acts(t) ==
    /\ looksFor[t] \in children \cup {"hit"}
    /\ \E site \in {"built", "walk", "list", "test", "look"} : Moves(t, "descend", site)
    /\ UNCHANGED <<lock, looksFor, children, decoding, published, filled, icon>>
-----------------------------------------------------------------------------
(* base64_decoder: the constructor publishes the table and fills it then *)

Tests(t) ==
    /\ Moves(t, "test", IF published THEN "decode" ELSE "publish")
    /\ UNCHANGED <<lock, looksFor, children, decoding, published, filled, icon>>

Publishes(t) ==
    /\ Moves(t, "publish", "fill")
    /\ published' = TRUE /\ decoding' = {}
    /\ filled' = [filled EXCEPT ![t] = {}]
    /\ UNCHANGED <<lock, looksFor, children, icon>>

IsFilled(t) == filled[t] = Letters

\* decoding_table is read anew for each entry: another's table may be filled.
Fills(t) ==
    /\ where[t] = "fill"
    /\ IF IsFilled(t)
          THEN Moves(t, "fill", "decode") /\ UNCHANGED <<decoding, filled>>
          ELSE \E e \in Letters \ filled[t] :
                  /\ decoding' = decoding \cup {e}
                  /\ filled' = [filled EXCEPT ![t] = @ \cup {e}]
                  /\ UNCHANGED where
    /\ UNCHANGED <<lock, looksFor, children, published, icon>>

Decoded(t) ==
    /\ Moves(t, "decode", "built")
    /\ UNCHANGED <<lock, looksFor, children, decoding, published, filled, icon>>
-----------------------------------------------------------------------------
(* The icon, loaded once *)

Looks(t) ==
    /\ Moves(t, "look", IF icon THEN "serve" ELSE "load")
    /\ UNCHANGED <<lock, looksFor, children, decoding, published, filled, icon>>

Loads(t) ==
    /\ Moves(t, "load", "serve")
    /\ icon' = TRUE
    /\ UNCHANGED <<lock, looksFor, children, decoding, published, filled>>
-----------------------------------------------------------------------------
\* main returns after SIGINT: the destructors of static objects, then the end.
MainReturns == Moves(MainThread, "loop", "teardown")
         /\ UNCHANGED <<lock, looksFor, children, decoding, published, filled, icon>>

SharedNext ==
    \/ MainReturns
    \/ \E t \in Threads :
          \/ LockToAdd(t) \/ UnlockAdded(t) \/ LockToRemove(t) \/ UnlockRemoved(t)
          \/ Passes(t)
          \/ Requests(t) \/ Misses(t) \/ Inserts(t) \/ Acts(t)
          \/ Tests(t) \/ Publishes(t) \/ Fills(t) \/ Decoded(t)
          \/ Looks(t) \/ Loads(t)

SharedSpec == SharedInit /\ [][SharedNext]_svars
-----------------------------------------------------------------------------
(* Properties *)

\* The variables keep to their domains.
SharedTypeOK ==
    /\ where \in [Everyone -> Places]
    /\ lock \in Threads \cup {Unlocked}
    /\ looksFor \in [Threads -> Nodes \cup {"hit"}] /\ children \subseteq Nodes
    /\ decoding \subseteq Letters /\ published \in BOOLEAN
    /\ filled \in [Threads -> SUBSET Letters]
    /\ icon \in BOOLEAN

Conflict(a, b) == (\E object \in SharedObjects : {a, b} \subseteq object) /\ {a, b} \cap Writes # {}

\* Sites whose code takes no lock although it writes, or reads what others write.
Bare == {"walk", "list", "insert", "publish", "fill", "load", "date", "teardown"}

\* Every data race has one of the sites of Bare at one end: what add_session and
\* remove_session do to the map and to the table of addresses they do one at a time.
RacesAreKnown ==
    \A t, u \in Everyone :
        t # u /\ Conflict(where[t], where[u]) => {where[t], where[u]} \cap Bare # {}

\* A form is decoded with entries missing only while another thread is between the
\* publication of the table and its last entry.
DecodesWithFullTable ==
    \A t \in Threads :
        where[t] = "decode" /\ decoding # Letters =>
            \E u \in Threads \ {t} : where[u] = "fill"

\* Once the icon is loaded, the table filled and every node asked once, with no thread
\* left that saw it otherwise, it stays so: from then on only the administrator's
\* pages, the dates and the end of main race.
Warm ==
    /\ published /\ decoding = Letters /\ icon /\ children = Nodes
    /\ \A t \in Threads : where[t] \notin {"insert", "publish", "fill", "load"}
WarmStaysWarm == [][Warm => Warm']_svars
=============================================================================
