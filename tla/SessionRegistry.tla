--------------------------- MODULE SessionRegistry ---------------------------
(***************************************************************************)
(* The life of an https session: the accept loop of main() hands every     *)
(* connection to a thread of its own (thread_func of ssl_serv.cc), the     *)
(* thread lists its session in the session manager (session_mgr.cc), runs  *)
(* the request loop (session.cc), takes the session out of the manager     *)
(* and books its request counter in the table of client addresses          *)
(* (db/ipv4_log.cc), and deletes it.                                       *)
(*                                                                         *)
(* A session is listed under its remote address (IP, port).  The entry a   *)
(* remover finds there is the one it books and erases, and it need not be  *)
(* its own: `victim` records whose it was.                                 *)
(***************************************************************************)
EXTENDS Integers, FiniteSets, FiniteSetsExt

CONSTANTS
    Sessions,     \* https_session_t objects
    IPs, Ports,   \* remote addresses are pairs of the two
    NoIp,         \* the address 0: "no X-Forwarded-For"
    None,         \* null pointer, DB_NOTFOUND
    MaxReq,       \* bound on the requests of one session
    PromptReuse   \* may a peer come back from an address whose previous
                  \* session has closed its socket but is still listed?

Addr == IPs \X Ports
Keys == IPs \cup {NoIp}          \* keys of the table of client addresses

ASSUME SessionRegistryAssumption ==
    /\ None \notin Sessions \cup Nat \cup Keys \cup Addr
    /\ NoIp \notin IPs
    /\ MaxReq \in Nat
    /\ PromptReuse \in BOOLEAN

VARIABLES
    up,        \* the process runs
    pc,        \* where the thread of each session is
    addr,      \* remote address of each accepted session
    fwd,       \* request.x_forward_for
    reqs,      \* counters.total_request
    registry,  \* active_sessions: address -> session or None
    lock,      \* holder of lock_session_list
    db,        \* table of client addresses: total_request of a record or None
    victim,    \* remove_session: the session found under the own address
    counter,   \* remove_session: copy of its counters
    loaded,    \* remove_session: what load_record returned
    key        \* remove_session: forwarded address being booked

thread == <<pc, addr, fwd, reqs>>
removal == <<victim, counter, loaded, key>>
vars == <<up, pc, addr, fwd, reqs, registry, lock, db, victim, counter, loaded, key>>

\* The server end of the connection is open.
Connected == {"accepted", "leaked", "entry", "adding", "handshake",
              "serving", "header", "closing"}
\* The session is out of the manager for good.
Finished == {"removed", "gone"}

Init ==
    /\ up = TRUE
    /\ pc = [s \in Sessions |-> "new"]
    /\ addr = [s \in Sessions |-> None]
    /\ fwd = [s \in Sessions |-> NoIp]
    /\ reqs = [s \in Sessions |-> 0]
    /\ registry = [a \in Addr |-> None]
    /\ lock = None
    /\ db = [k \in Keys |-> None]
    /\ victim = [s \in Sessions |-> None]
    /\ counter = [s \in Sessions |-> 0]
    /\ loaded = [s \in Sessions |-> None]
    /\ key = [s \in Sessions |-> None]
-----------------------------------------------------------------------------
(* Faulty variants of definitions below, to see the properties fail. *)

NoMutex(s) == lock' = s                           \* of Acquire
NeverReleased == UNCHANGED lock                   \* of Release
Overwritten(old, n) == n                          \* of Credited
\* of Credited: save_record merges what is stored once more, as the lines of
\* ipv4_log.cc that are commented out did.
MergedTwice(old, n) == IF old = None THEN n ELSE old + old + n

\* of RemoveMissing: it gives up although the entry is there.
GivesUp(s) ==
    /\ up
    /\ pc[s] = "removing"
    /\ lock' = None
    /\ pc' = [pc EXCEPT ![s] = "removed"]
    /\ UNCHANGED <<up, addr, fwd, reqs, registry, db, removal>>

\* of EraseEntry: the entry stays in the map of ports.
KeepsEntry(s) ==
    /\ up
    /\ pc[s] = "erase"
    /\ lock' = None
    /\ pc' = [pc EXCEPT ![s] = "removed"]
    /\ UNCHANGED <<up, addr, fwd, reqs, registry, db, removal>>
-----------------------------------------------------------------------------
(* Steps the actions share. *)

\* The peer's TCP may use address a for a new connection.
Free(a) == \A t \in Sessions : addr[t] = a =>
              IF PromptReuse THEN pc[t] \notin Connected ELSE pc[t] \in Finished

Goto(s, to) == pc' = [pc EXCEPT ![s] = to]
Ip(s) == addr[s][1]

\* lock_session_list
Acquire(s) == lock = None /\ lock' = s
Release == lock' = None

\* A record's counter after n more requests: a new record, or += on the old one.
Credited(old, n) == IF old = None THEN n ELSE old + n
-----------------------------------------------------------------------------
(* main(): accept a connection, create the session, start its thread. *)

\* The constructor leaves request.x_forward_for unset: any value may be there.
Accept(s, a, garbage) ==
    /\ up
    /\ pc[s] = "new"
    /\ \A t \in Sessions : pc[t] # "accepted"
    /\ Free(a)
    /\ addr' = [addr EXCEPT ![s] = a]
    /\ fwd' = [fwd EXCEPT ![s] = garbage]
    /\ Goto(s, "accepted")
    /\ UNCHANGED <<up, reqs, registry, lock, db, removal>>

Spawn(s) ==
    /\ up
    /\ pc[s] = "accepted"
    /\ Goto(s, "entry")
    /\ UNCHANGED <<up, addr, fwd, reqs, registry, lock, db, removal>>

\* pthread_create fails: nobody owns the session and its socket any more.
SpawnFails(s) ==
    /\ up
    /\ pc[s] = "accepted"
    /\ Goto(s, "leaked")
    /\ UNCHANGED <<up, addr, fwd, reqs, registry, lock, db, removal>>
-----------------------------------------------------------------------------
(* session_mgr_t::add_session *)

AddLock(s) ==
    /\ up
    /\ pc[s] = "entry"
    /\ Acquire(s)
    /\ Goto(s, "adding")
    /\ UNCHANGED <<up, addr, fwd, reqs, registry, db, removal>>

AddEntry(s) ==
    /\ up
    /\ pc[s] = "adding"
    /\ registry[addr[s]] = None
    /\ registry' = [registry EXCEPT ![addr[s]] = s]
    /\ Release
    /\ Goto(s, "handshake")
    /\ UNCHANGED <<up, addr, fwd, reqs, db, removal>>

\* "Session with same ID already present": it is served unlisted.
AddDuplicate(s) ==
    /\ up
    /\ pc[s] = "adding"
    /\ registry[addr[s]] # None
    /\ Release
    /\ Goto(s, "handshake")
    /\ UNCHANGED <<up, addr, fwd, reqs, registry, db, removal>>
-----------------------------------------------------------------------------
(* https_session_t::https_session *)

Handshake(s) ==
    /\ up
    /\ pc[s] = "handshake"
    /\ Goto(s, "serving")
    /\ UNCHANGED <<up, addr, fwd, reqs, registry, lock, db, removal>>

\* SSL_accept fails: the socket is closed at once, the request loop runs anyway.
HandshakeFails(s) ==
    /\ up
    /\ pc[s] = "handshake"
    /\ Goto(s, "cut")
    /\ UNCHANGED <<up, addr, fwd, reqs, registry, lock, db, removal>>

\* A request line was read: prepare() forgets what the last request said.
RequestLine(s) ==
    /\ up
    /\ pc[s] = "serving"
    /\ reqs[s] < MaxReq
    /\ fwd' = [fwd EXCEPT ![s] = NoIp]
    /\ Goto(s, "header")
    /\ UNCHANGED <<up, addr, reqs, registry, lock, db, removal>>

\* The header is read up to its end, naming a forwarded address or none; the
\* request is answered, and the loop goes on or breaks: a broken header, or
\* an upload to an address that is not routed.
Request(s, f, goesOn) ==
    /\ up
    /\ pc[s] = "header"
    /\ fwd' = [fwd EXCEPT ![s] = f]
    /\ reqs' = [reqs EXCEPT ![s] = @ + 1]
    /\ Goto(s, IF goesOn THEN "serving" ELSE "closing")
    /\ UNCHANGED <<up, addr, registry, lock, db, removal>>

\* No further request: end of stream, socket error, or a broken request line.
\* It counts as a request.
LastRead(s) ==
    /\ up
    /\ pc[s] \in {"serving", "cut"}
    /\ reqs' = [reqs EXCEPT ![s] = @ + 1]
    /\ Goto(s, "closing")
    /\ UNCHANGED <<up, addr, fwd, registry, lock, db, removal>>

\* The process ends: a parser throws a string that nobody catches, or the peer
\* has gone when the thread writes to it, and SIGPIPE is not handled.
Killed(s) ==
    /\ up
    /\ pc[s] \in {"handshake", "header", "closing"}
    /\ up' = FALSE
    /\ UNCHANGED <<thread, registry, lock, db, removal>>

Close(s) ==
    /\ up
    /\ pc[s] = "closing"
    /\ Goto(s, "closed")
    /\ UNCHANGED <<up, addr, fwd, reqs, registry, lock, db, removal>>
-----------------------------------------------------------------------------
(* session_mgr_t::remove_session *)

RemoveLock(s) ==
    /\ up
    /\ pc[s] = "closed"
    /\ Acquire(s)
    /\ Goto(s, "removing")
    /\ UNCHANGED <<up, addr, fwd, reqs, registry, db, removal>>

\* "Unable remove session: source port not found"
RemoveMissing(s) ==
    /\ up
    /\ pc[s] = "removing"
    /\ registry[addr[s]] = None
    /\ Release
    /\ Goto(s, "removed")
    /\ UNCHANGED <<up, addr, fwd, reqs, registry, db, removal>>

\* The entry under the own address, its counters, the record of its IP.
RemoveLookup(s) ==
    /\ up
    /\ pc[s] = "removing"
    /\ registry[addr[s]] # None
    /\ victim' = [victim EXCEPT ![s] = registry[addr[s]]]
    /\ counter' = [counter EXCEPT ![s] = reqs[registry[addr[s]]]]
    /\ loaded' = [loaded EXCEPT ![s] = db[Ip(s)]]
    /\ Goto(s, "save")
    /\ UNCHANGED <<up, addr, fwd, reqs, registry, lock, db, key>>

\* load_record prints first_seen of a record on the stack that is not filled
\* yet: localtime() returns NULL for a value out of range, and strftime() faults.
LoadFaults(s) ==
    /\ up
    /\ pc[s] = "removing"
    /\ registry[addr[s]] # None
    /\ db[Ip(s)] # None
    /\ up' = FALSE
    /\ UNCHANGED <<thread, registry, lock, db, removal>>

SaveRecord(s) ==
    /\ up
    /\ pc[s] = "save"
    /\ db' = [db EXCEPT ![Ip(s)] = Credited(loaded[s], counter[s])]
    /\ Goto(s, IF fwd[victim[s]] # NoIp THEN "forward" ELSE "erase")
    /\ UNCHANGED <<up, addr, fwd, reqs, registry, lock, removal>>

LoadForward(s) ==
    /\ up
    /\ pc[s] = "forward"
    /\ key' = [key EXCEPT ![s] = fwd[victim[s]]]
    /\ loaded' = [loaded EXCEPT ![s] = db[key'[s]]]
    /\ Goto(s, "fwdSave")
    /\ UNCHANGED <<up, addr, fwd, reqs, registry, lock, db, victim, counter>>

\* A new record takes its key from the session again; a known one keeps its own.
SaveForward(s) ==
    /\ up
    /\ pc[s] = "fwdSave"
    /\ key' = [key EXCEPT ![s] = IF loaded[s] = None THEN fwd[victim[s]] ELSE @]
    /\ db' = [db EXCEPT ![key'[s]] = Credited(loaded[s], counter[s])]
    /\ Goto(s, "erase")
    /\ UNCHANGED <<up, addr, fwd, reqs, registry, lock, victim, counter, loaded>>

EraseEntry(s) ==
    /\ up
    /\ pc[s] = "erase"
    /\ registry' = [registry EXCEPT ![addr[s]] = None]
    /\ Release
    /\ Goto(s, "removed")
    /\ UNCHANGED <<up, addr, fwd, reqs, db, removal>>

\* thread_func: delete client
Delete(s) ==
    /\ up
    /\ pc[s] = "removed"
    /\ Goto(s, "gone")
    /\ UNCHANGED <<up, addr, fwd, reqs, registry, lock, db, removal>>
-----------------------------------------------------------------------------
\* What a client decides, or the failure of a library.
Environment(s) ==
    \/ \E a \in Addr, g \in Keys : Accept(s, a, g)
    \/ SpawnFails(s)
    \/ Handshake(s)
    \/ HandshakeFails(s)
    \/ RequestLine(s)
    \/ \E f \in Keys, goesOn \in BOOLEAN : Request(s, f, goesOn)
    \/ pc[s] = "serving" /\ LastRead(s)
    \/ Killed(s)
    \/ LoadFaults(s)

\* What the server does on its own once it can.
ServerStep(s) ==
    \/ Spawn(s)
    \/ AddLock(s) \/ AddEntry(s) \/ AddDuplicate(s)
    \/ pc[s] = "cut" /\ LastRead(s)
    \/ Close(s)
    \/ RemoveLock(s) \/ RemoveMissing(s) \/ RemoveLookup(s) \/ SaveRecord(s)
    \/ LoadForward(s) \/ SaveForward(s) \/ EraseEntry(s)
    \/ Delete(s)

Next == \E s \in Sessions : Environment(s) \/ ServerStep(s)

Spec == Init /\ [][Next]_vars

\* The scheduler runs every thread that can run; nothing is assumed of clients.
FairSpec == Spec /\ \A s \in Sessions : WF_vars(ServerStep(s))
-----------------------------------------------------------------------------
(* Properties *)

Places == Connected \cup Finished \cup
    {"new", "cut", "closed", "removing", "save", "forward", "fwdSave", "erase"}
Removing == {"removing", "save", "forward", "fwdSave", "erase"}
HoldsVictim == {"save", "forward", "fwdSave", "erase"}

\* Every variable of ssl_serv.cc, session_mgr.cc and ipv4_log.cc modelled here
\* keeps to its domain.
TypeOK ==
    /\ up \in BOOLEAN
    /\ pc \in [Sessions -> Places]
    /\ addr \in [Sessions -> Addr \cup {None}]
    /\ fwd \in [Sessions -> Keys]
    /\ reqs \in [Sessions -> Nat]
    /\ registry \in [Addr -> Sessions \cup {None}]
    /\ lock \in Sessions \cup {None}
    /\ db \in [Keys -> Nat \cup {None}]
    /\ victim \in [Sessions -> Sessions \cup {None}]
    /\ counter \in [Sessions -> Nat]
    /\ loaded \in [Sessions -> Nat \cup {None}]
    /\ key \in [Sessions -> Keys \cup {None}]

\* Pointers to sessions outlive no session: what active_sessions holds under an
\* address is a live session with that very address, and the session that
\* remove_session reads (its counters, its x_forward_for) is still listed and
\* not deleted, even when it belongs to another thread.
NoUseAfterDelete ==
    /\ \A a \in Addr : registry[a] # None =>
          addr[registry[a]] = a /\ pc[registry[a]] \notin Finished
    /\ \A s \in Sessions : pc[s] \in HoldsVictim =>
          registry[addr[s]] = victim[s] /\ pc[victim[s]] \notin Finished

\* remove_session never books the counters of one session twice, although two
\* threads may remove under the same address.
BookedOnce ==
    \A s, t \in Sessions : s # t /\ victim[s] # None => victim[s] # victim[t]

\* A deleted session that shared its address with nobody was booked by its own
\* thread, with the final value of its request counter.
AloneIsBooked ==
    \A s \in Sessions :
        /\ pc[s] \in Finished
        /\ \A t \in Sessions \ {s} : addr[t] # addr[s]
        => victim[s] = s /\ counter[s] = reqs[s]

Balance(k) == IF db[k] = None THEN 0 ELSE db[k]

\* What the save_record calls of s that have returned credited to key k.
BookedBy(s, k) ==
    (IF victim[s] # None /\ pc[s] # "save" /\ Ip(s) = k
        THEN counter[s] ELSE 0)
    + (IF key[s] = k /\ pc[s] # "fwdSave" THEN counter[s] ELSE 0)

\* The table of client addresses never holds more requests than the removers
\* credited: no read-modify-write of a record adds the same counters twice.
LedgerNotInflated ==
    \A k \in Keys : Balance(k) <= MapThenSumSet(LAMBDA s : BookedBy(s, k), Sessions)

\* A thread that was started gets its session past add_session, whatever other
\* threads do with the lock.
StartedIsServed ==
    \A s \in Sessions : pc[s] = "entry" ~> (pc[s] \notin {"entry", "adding"} \/ ~up)

\* A session whose request loop has ended is taken out of the manager and
\* deleted: neither a foreign entry nor a missing one stops remove_session.
EndedIsDeleted ==
    \A s \in Sessions : pc[s] \in {"cut", "closing"} ~> (pc[s] = "gone" \/ ~up)

\* No thread waits for ever for the manager, neither to enter its session nor to
\* remove it.
ThreadsGoOn == StartedIsServed /\ EndedIsDeleted
-----------------------------------------------------------------------------
(* The ledger the manager promises (SessionLedger): a session is open while *)
(* it is listed, and settled at the moment its entry is erased; what its    *)
(* remover has saved before that moment is not in the ledger yet.           *)

Stage(s) ==
    IF addr[s] # None /\ registry[addr[s]] = s THEN "open"
    ELSE IF pc[s] \in Finished THEN "settled" ELSE "outside"

Unsettled(k) ==
    IF lock # None /\ pc[lock] \in {"forward", "fwdSave", "erase"}
        THEN BookedBy(lock, k) ELSE 0

Ledger == INSTANCE SessionLedger WITH
    NoKey <- NoIp,
    stage <- [s \in Sessions |-> Stage(s)],
    owner <- [s \in Sessions |-> IF Stage(s) = "outside" THEN None ELSE Ip(s)],
    tally <- reqs,
    claim <- [s \in Sessions |-> IF Stage(s) = "outside" THEN NoIp ELSE fwd[s]],
    ledger <- [k \in Keys |-> Balance(k) - Unsettled(k)]

\* As long as no address is reused before its session is out of the manager,
\* add_session, the request loop and the three database calls of
\* remove_session together implement SessionLedger: every session that was
\* served is settled once, for its whole count, as if in one step.
ImplementsLedger == Ledger!LedgerSpec
=============================================================================
