------------------------ MODULE SessionRegistryProofs ------------------------
(***************************************************************************)
(* Proofs about SessionRegistry, for any number of sessions and addresses, *)
(* any bound on the requests, and whether or not addresses are reused      *)
(* while still listed.                                                     *)
(*                                                                         *)
(* The inductive invariant IInv says who owns what: lock_session_list is   *)
(* held by exactly the threads inside add_session and remove_session; the  *)
(* map of active sessions lists a session under its own address and only   *)
(* between the two; and a session that somebody has booked is off the map. *)
(* From it follow, at the end, the sum of the address table and that the   *)
(* steps of a booking implement the one step of SessionLedger.             *)
(***************************************************************************)
EXTENDS SessionRegistry, FiniteSetTheorems, WellFoundedInduction, TLAPS

Early == {"new", "accepted", "leaked", "entry", "adding"}
Locked == {"adding"} \cup Removing

\* A session out of the accept loop has an address, a remover past its lookup
\* has somebody to book.
HasAddress == \A s \in Sessions : addr[s] = None <=> pc[s] = "new"
HasVictim == \A s \in Sessions : pc[s] \in HoldsVictim => victim[s] \in Sessions

TypeInv == TypeOK /\ HasAddress /\ HasVictim

Mutex == \A s \in Sessions : pc[s] \in Locked => lock = s

ListedLive == \A a \in Addr : registry[a] # None =>
    addr[registry[a]] = a /\ pc[registry[a]] \notin Finished \cup Early

VictimHeld == \A s \in Sessions : pc[s] \in HoldsVictim =>
    registry[addr[s]] = victim[s]

\* A booked session is past add_session, and off the map once its remover is done.
Booked == \A s \in Sessions : victim[s] # None =>
    /\ pc[victim[s]] \notin Early
    /\ pc[s] \in HoldsVictim \cup Finished
    /\ pc[s] \in Finished => \A a \in Addr : registry[a] # victim[s]

\* A session that shares its address with nobody finds itself in the map, and
\* so is the one its own thread books.
Alone(s) == \A t \in Sessions \ {s} : addr[t] # addr[s]
AloneListed == \A s \in Sessions : Alone(s) =>
    /\ pc[s] \notin Early \cup Finished => registry[addr[s]] = s
    /\ pc[s] \in HoldsVictim \cup Finished => victim[s] = s /\ counter[s] = reqs[s]

Owners == Mutex /\ ListedLive /\ VictimHeld
Bookings == Booked /\ BookedOnce
IInv == TypeInv /\ Owners /\ Bookings /\ AloneListed

-----------------------------------------------------------------------------
USE SessionRegistryAssumption

\* What load_record and the counters hold stays a natural number: += of two
\* request counters (counters.h) never leaves the domain of the table.
LEMMA CreditedType ==
    ASSUME NEW old \in Nat \cup {None}, NEW n \in Nat
    PROVE  Credited(old, n) \in Nat
BY DEF Credited

\* The variables of the threads, of the manager and of the table of addresses
\* keep to their domains, and no step of remove_session works on a null session.
THEOREM TypeInvCorrect == Spec => []TypeInv
<1>1. Init => TypeInv
  BY DEF Init, TypeInv, TypeOK, HasAddress, HasVictim, HoldsVictim, Places, Connected,
         Finished, Keys
<1>2. TypeInv /\ [Next]_vars => TypeInv'
  <2> SUFFICES ASSUME TypeInv, [Next]_vars PROVE TypeInv'
    OBVIOUS
  <2> USE DEF TypeInv, TypeOK, HasAddress, HasVictim, HoldsVictim, Goto, thread, removal
  <2>1. CASE UNCHANGED vars
    BY <2>1 DEF vars
  <2>2. ASSUME NEW s \in Sessions, Environment(s) PROVE TypeInv'
    <3>1. ASSUME NEW a \in Addr, NEW g \in Keys, Accept(s, a, g) PROVE TypeInv'
      BY <3>1 DEF Accept, Places, Connected
    <3>2. CASE SpawnFails(s)
      BY <3>2 DEF SpawnFails, Places, Connected
    <3>3. CASE Handshake(s)
      BY <3>3 DEF Handshake, Places, Connected
    <3>4. CASE HandshakeFails(s)
      BY <3>4 DEF HandshakeFails, Places
    <3>5. CASE RequestLine(s)
      BY <3>5 DEF RequestLine, Places, Connected, Keys
    <3>6. ASSUME NEW f \in Keys, NEW goesOn \in BOOLEAN, Request(s, f, goesOn) PROVE TypeInv'
      BY <3>6 DEF Request, Places, Connected
    <3>7. CASE LastRead(s)
      BY <3>7 DEF LastRead, Places, Connected
    <3>8. CASE Killed(s)
      BY <3>8 DEF Killed
    <3>9. CASE LoadFaults(s)
      BY <3>9 DEF LoadFaults
    <3> QED BY <2>2, <3>1, <3>2, <3>3, <3>4, <3>5, <3>6, <3>7, <3>8, <3>9 DEF Environment
  <2>3. ASSUME NEW s \in Sessions, ServerStep(s) PROVE TypeInv'
    <3>1. CASE Spawn(s)
      BY <3>1 DEF Spawn, Places, Connected
    <3>2. CASE AddLock(s)
      BY <3>2 DEF AddLock, Acquire, Places, Connected
    <3>3. CASE AddEntry(s)
      BY <3>3 DEF AddEntry, Release, Places, Connected
    <3>4. CASE AddDuplicate(s)
      BY <3>4 DEF AddDuplicate, Release, Places, Connected
    <3>5. CASE LastRead(s)
      BY <3>5 DEF LastRead, Places, Connected
    <3>6. CASE Close(s)
      BY <3>6 DEF Close, Places
    <3>7. CASE RemoveLock(s)
      BY <3>7 DEF RemoveLock, Acquire, Places
    <3>8. CASE RemoveMissing(s)
      BY <3>8 DEF RemoveMissing, Release, Places, Finished
    <3>9. CASE RemoveLookup(s)
      <4>1. addr[s] \in Addr /\ registry[addr[s]] \in Sessions
        BY <3>9 DEF RemoveLookup
      <4>2. Ip(s) \in Keys
        BY <4>1 DEF Ip, Addr, Keys
      <4> QED BY <3>9, <4>1, <4>2 DEF RemoveLookup, Places
    <3>10. CASE SaveRecord(s)
      BY <3>10, CreditedType DEF SaveRecord, Places
    <3>11. CASE LoadForward(s)
      BY <3>11 DEF LoadForward, Places
    <3>12. CASE SaveForward(s)
      BY <3>12, CreditedType DEF SaveForward, Places
    <3>13. CASE EraseEntry(s)
      BY <3>13 DEF EraseEntry, Release, Places, Finished
    <3>14. CASE Delete(s)
      BY <3>14 DEF Delete, Places, Finished
    <3> QED BY <2>3, <3>1, <3>2, <3>3, <3>4, <3>5, <3>6, <3>7, <3>8, <3>9, <3>10,
               <3>11, <3>12, <3>13, <3>14 DEF ServerStep
  <2> QED BY <2>1, <2>2, <2>3 DEF Next
<1> QED BY <1>1, <1>2, PTL DEF Spec

\* Type correctness: TypeOK in every reachable state, for every value of the constants.
THEOREM TypeCorrect == Spec => []TypeOK
BY TypeInvCorrect, PTL DEF TypeInv

\* The map of active sessions and the mutex: lock_session_list excludes the
\* threads in add_session and remove_session from each other, the map holds live
\* sessions under their own addresses, and a remover's victim stays listed.
THEOREM OwnersCorrect == Spec => []Owners
<1>1. Init => Owners
  BY DEF Init, Owners, Mutex, ListedLive, VictimHeld, Locked, Removing, HoldsVictim
<1>2. TypeInv /\ Owners /\ [Next]_vars => Owners'
  <2> SUFFICES ASSUME TypeInv, Owners, [Next]_vars PROVE Owners'
    OBVIOUS
  <2> USE DEF Owners, Mutex, ListedLive, VictimHeld, TypeInv, TypeOK, HasAddress,
              HasVictim, HoldsVictim, Removing, Locked, Early, Finished, Connected,
              Goto, thread, removal
  <2>1. CASE UNCHANGED vars
    BY <2>1 DEF vars
  <2>2. ASSUME NEW s \in Sessions, Environment(s) PROVE Owners'
    <3>1. ASSUME NEW a \in Addr, NEW g \in Keys, Accept(s, a, g) PROVE Owners'
      BY <3>1 DEF Accept
    <3>2. CASE SpawnFails(s)
      BY <3>2 DEF SpawnFails
    <3>3. CASE Handshake(s)
      BY <3>3 DEF Handshake
    <3>4. CASE HandshakeFails(s)
      BY <3>4 DEF HandshakeFails
    <3>5. CASE RequestLine(s)
      BY <3>5 DEF RequestLine
    <3>6. ASSUME NEW f \in Keys, NEW goesOn \in BOOLEAN, Request(s, f, goesOn) PROVE Owners'
      BY <3>6 DEF Request
    <3>7. CASE LastRead(s)
      BY <3>7 DEF LastRead
    <3>8. CASE Killed(s)
      BY <3>8 DEF Killed
    <3>9. CASE LoadFaults(s)
      BY <3>9 DEF LoadFaults
    <3> QED BY <2>2, <3>1, <3>2, <3>3, <3>4, <3>5, <3>6, <3>7, <3>8, <3>9 DEF Environment
  <2>3. ASSUME NEW s \in Sessions, ServerStep(s) PROVE Owners'
    <3>1. CASE Spawn(s)
      BY <3>1 DEF Spawn
    <3>2. CASE AddLock(s)
      BY <3>2 DEF AddLock, Acquire
    <3>3. CASE AddEntry(s)
      BY <3>3 DEF AddEntry, Release
    <3>4. CASE AddDuplicate(s)
      BY <3>4 DEF AddDuplicate, Release
    <3>5. CASE LastRead(s)
      BY <3>5 DEF LastRead
    <3>6. CASE Close(s)
      BY <3>6 DEF Close
    <3>7. CASE RemoveLock(s)
      BY <3>7 DEF RemoveLock, Acquire
    <3>8. CASE RemoveMissing(s)
      BY <3>8 DEF RemoveMissing, Release
    <3>9. CASE RemoveLookup(s)
      BY <3>9 DEF RemoveLookup
    <3>10. CASE SaveRecord(s)
      BY <3>10 DEF SaveRecord
    <3>11. CASE LoadForward(s)
      BY <3>11 DEF LoadForward
    <3>12. CASE SaveForward(s)
      BY <3>12 DEF SaveForward
    <3>13. CASE EraseEntry(s)
      BY <3>13 DEF EraseEntry, Release
    <3>14. CASE Delete(s)
      BY <3>14 DEF Delete
    <3> QED BY <2>3, <3>1, <3>2, <3>3, <3>4, <3>5, <3>6, <3>7,
               <3>8, <3>9, <3>10, <3>11, <3>12, <3>13, <3>14 DEF ServerStep
  <2> QED BY <2>1, <2>2, <2>3 DEF Next
<1> QED BY <1>1, <1>2, TypeInvCorrect, PTL DEF Spec

\* NoUseAfterDelete: neither active_sessions nor a remover ever points to a
\* session whose thread may have deleted it.
THEOREM PointersValid == Spec => []NoUseAfterDelete
<1>1. TypeInv /\ Owners => NoUseAfterDelete
  BY DEF TypeInv, TypeOK, HasAddress, HasVictim, Owners, Mutex, ListedLive, VictimHeld,
         NoUseAfterDelete, HoldsVictim, Finished
<1> QED BY <1>1, TypeInvCorrect, OwnersCorrect, PTL

\* Whom a remover books has passed add_session, leaves the map with its remover,
\* and is never booked again, by whichever thread.
THEOREM BookingsCorrect == Spec => []Bookings
<1>1. Init => Bookings
  BY DEF Init, Bookings, Booked, BookedOnce
<1>2. TypeInv /\ Owners /\ Bookings /\ [Next]_vars => Bookings'
  <2> SUFFICES ASSUME TypeInv /\ Owners, Bookings, [Next]_vars PROVE Bookings'
    OBVIOUS
  <2> USE DEF Bookings, Booked, BookedOnce, Owners, Mutex, ListedLive, VictimHeld,
              TypeInv, TypeOK, HasAddress, HasVictim, HoldsVictim, Removing, Locked,
              Early, Finished, Connected, Goto, thread, removal
  <2>1. CASE UNCHANGED vars
    BY <2>1 DEF vars
  <2>2. ASSUME NEW s \in Sessions, Environment(s) PROVE Bookings'
    <3>1. ASSUME NEW a \in Addr, NEW g \in Keys, Accept(s, a, g) PROVE Bookings'
      BY <3>1 DEF Accept
    <3>2. CASE SpawnFails(s) \/ Handshake(s) \/ HandshakeFails(s)
      BY <3>2 DEF SpawnFails, Handshake, HandshakeFails
    <3>3. CASE RequestLine(s) \/ LastRead(s)
      BY <3>3 DEF RequestLine, LastRead
    <3>4. ASSUME NEW f \in Keys, NEW goesOn \in BOOLEAN, Request(s, f, goesOn) PROVE Bookings'
      BY <3>4 DEF Request
    <3>5. CASE Killed(s) \/ LoadFaults(s)
      BY <3>5 DEF Killed, LoadFaults
    <3> QED BY <2>2, <3>1, <3>2, <3>3, <3>4, <3>5 DEF Environment
  <2>3. ASSUME NEW s \in Sessions, ServerStep(s) PROVE Bookings'
    <3>1. CASE Spawn(s) \/ LastRead(s) \/ Close(s)
      BY <3>1 DEF Spawn, LastRead, Close
    <3>2. CASE AddLock(s) \/ RemoveLock(s)
      BY <3>2 DEF AddLock, RemoveLock, Acquire
    <3>3. CASE AddEntry(s)
      BY <3>3 DEF AddEntry, Release
    <3>4. CASE AddDuplicate(s)
      BY <3>4 DEF AddDuplicate, Release
    <3>5. CASE RemoveMissing(s)
      BY <3>5 DEF RemoveMissing, Release
    <3>6. CASE RemoveLookup(s)
      BY <3>6 DEF RemoveLookup
    <3>7. CASE SaveRecord(s) \/ LoadForward(s) \/ SaveForward(s)
      BY <3>7 DEF SaveRecord, LoadForward, SaveForward
    <3>8. CASE EraseEntry(s)
      BY <3>8 DEF EraseEntry, Release
    <3>9. CASE Delete(s)
      BY <3>9 DEF Delete
    <3> QED BY <2>3, <3>1, <3>2, <3>3, <3>4, <3>5, <3>6, <3>7, <3>8, <3>9 DEF ServerStep
  <2> QED BY <2>1, <2>2, <2>3 DEF Next
<1> QED BY <1>1, <1>2, TypeInvCorrect, OwnersCorrect, PTL DEF Spec

\* BookedOnce: two calls of remove_session never book the same session.
THEOREM NeverBookedTwice == Spec => []BookedOnce
BY BookingsCorrect, PTL DEF Bookings

\* A session that shares its address with nobody stays in the map from
\* add_session to the end of its own remove_session, which books it.
THEOREM AloneListedCorrect == Spec => []AloneListed
<1>1. Init => AloneListed
  BY DEF Init, AloneListed, Alone, Early, Finished, HoldsVictim
<1>2. TypeInv /\ Owners /\ AloneListed /\ [Next]_vars => AloneListed'
  <2> SUFFICES ASSUME TypeInv /\ Owners, AloneListed, [Next]_vars PROVE AloneListed'
    OBVIOUS
  <2> USE DEF AloneListed, Alone, Owners, Mutex, ListedLive, VictimHeld,
              TypeInv, TypeOK, HasAddress, HasVictim, HoldsVictim, Removing, Locked,
              Early, Finished, Connected, Goto, thread, removal
  <2>1. CASE UNCHANGED vars
    BY <2>1 DEF vars
  <2>2. ASSUME NEW s \in Sessions, Environment(s) PROVE AloneListed'
    <3>1. ASSUME NEW a \in Addr, NEW g \in Keys, Accept(s, a, g) PROVE AloneListed'
      BY <3>1 DEF Accept
    <3>2. CASE SpawnFails(s) \/ Handshake(s) \/ HandshakeFails(s)
      BY <3>2 DEF SpawnFails, Handshake, HandshakeFails
    <3>3. CASE RequestLine(s) \/ LastRead(s)
      BY <3>3 DEF RequestLine, LastRead
    <3>4. ASSUME NEW f \in Keys, NEW goesOn \in BOOLEAN, Request(s, f, goesOn) PROVE AloneListed'
      BY <3>4 DEF Request
    <3>5. CASE Killed(s) \/ LoadFaults(s)
      BY <3>5 DEF Killed, LoadFaults
    <3> QED BY <2>2, <3>1, <3>2, <3>3, <3>4, <3>5 DEF Environment
  <2>3. ASSUME NEW s \in Sessions, ServerStep(s) PROVE AloneListed'
    <3>1. CASE Spawn(s) \/ LastRead(s) \/ Close(s)
      BY <3>1 DEF Spawn, LastRead, Close
    <3>2. CASE AddLock(s) \/ RemoveLock(s)
      BY <3>2 DEF AddLock, RemoveLock, Acquire
    <3>3. CASE AddEntry(s)
      BY <3>3 DEF AddEntry, Release
    <3>4. CASE AddDuplicate(s)
      BY <3>4 DEF AddDuplicate, Release
    <3>5. CASE RemoveMissing(s)
      BY <3>5 DEF RemoveMissing, Release
    <3>6. CASE RemoveLookup(s)
      BY <3>6 DEF RemoveLookup
    <3>7. CASE SaveRecord(s) \/ LoadForward(s) \/ SaveForward(s)
      BY <3>7 DEF SaveRecord, LoadForward, SaveForward
    <3>8. CASE EraseEntry(s)
      BY <3>8 DEF EraseEntry, Release
    <3>9. CASE Delete(s)
      BY <3>9 DEF Delete
    <3> QED BY <2>3, <3>1, <3>2, <3>3, <3>4, <3>5, <3>6, <3>7, <3>8, <3>9 DEF ServerStep
  <2> QED BY <2>1, <2>2, <2>3 DEF Next
<1> QED BY <1>1, <1>2, TypeInvCorrect, OwnersCorrect, PTL DEF Spec

\* AloneIsBooked: a session alone at its address is booked by its own thread with
\* the final value of its request counter.
THEOREM AloneBooked == Spec => []AloneIsBooked
<1>1. AloneListed => AloneIsBooked
  BY DEF AloneListed, Alone, AloneIsBooked
<1> QED BY <1>1, AloneListedCorrect, PTL
-----------------------------------------------------------------------------
(* LedgerNotInflated *)

\* MapThenSumSet is a recursive function over the subsets of a set, which takes
\* out one element after the other.
Some(T) == CHOOSE x \in T : TRUE
IsSum(g, f, S) == g = [T \in SUBSET S |-> IF T = {} THEN 0 ELSE f[Some(T)] + g[T \ {Some(T)}]]

\* A set of subsets of a finite set has a minimal one: with it, a statement about
\* all of them is proved by looking at the smallest that would violate it.
LEMMA FiniteMin ==
    ASSUME NEW S, IsFiniteSet(S), NEW T, T \subseteq SUBSET S, T # {}
    PROVE  \E x \in T : \A y \in T : ~(y \subseteq x /\ y # x)
<1>1. IsWellFoundedOn(StrictSubsetOrdering(S), FiniteSubsetsOf(S))
  BY FS_StrictSubsetOrderingWellFounded
<1>2. T \subseteq FiniteSubsetsOf(S)
  BY FS_Subset DEF FiniteSubsetsOf
<1>3. PICK x \in T : \A y \in T : ~ (<<y, x>> \in StrictSubsetOrdering(S))
  BY <1>1, <1>2, WFMin
<1> QED BY <1>3 DEF StrictSubsetOrdering

\* A sum of natural numbers counts pairs: each element stands f[x] times.
Units(f, T) == {p \in T \X Nat : p[2] < f[p[1]]}

\* One element is counted f[x] times.
LEMMA UnitsOfOne ==
    ASSUME NEW S, NEW f \in [S -> Nat], NEW x \in S
    PROVE  IsFiniteSet(Units(f, {x})) /\ Cardinality(Units(f, {x})) = f[x]
<1>1. Units(f, {x}) = {x} \X (0 .. f[x] - 1)
  BY DEF Units
<1>2. IsFiniteSet(0 .. f[x] - 1) /\ Cardinality(0 .. f[x] - 1) = f[x]
  BY FS_Interval
<1>3. IsFiniteSet({x}) /\ Cardinality({x}) = 1
  BY FS_Singleton
<1>4. IsFiniteSet({x} \X (0 .. f[x] - 1))
      /\ Cardinality({x} \X (0 .. f[x] - 1)) = Cardinality({x}) * Cardinality(0 .. f[x] - 1)
  BY <1>2, <1>3, FS_Product
<1>5. f[x] \in Nat /\ 1 * f[x] = f[x]
  OBVIOUS
<1> QED BY <1>1, <1>2, <1>3, <1>4, <1>5

\* A finite set has finitely many units.
LEMMA UnitsFinite ==
    ASSUME NEW S, IsFiniteSet(S), NEW f \in [S -> Nat], NEW T, T \subseteq S
    PROVE  IsFiniteSet(Units(f, T))
<1> SUFFICES ASSUME ~IsFiniteSet(Units(f, T)) PROVE FALSE
  OBVIOUS
<1> DEFINE Bad == {U \in SUBSET S : ~IsFiniteSet(Units(f, U))}
<1>1. PICK U \in Bad : \A V \in Bad : ~(V \subseteq U /\ V # U)
  <2>1. Bad # {} /\ Bad \subseteq SUBSET S
    OBVIOUS
  <2> HIDE DEF Bad
  <2> QED BY <2>1, FiniteMin
<1>2. U # {}
  BY <1>1, FS_EmptySet DEF Units
<1>3. PICK x \in U : TRUE
  BY <1>2
<1>4. IsFiniteSet(Units(f, U \ {x}))
  BY <1>1
<1>5. Units(f, U) = Units(f, U \ {x}) \cup Units(f, {x})
  BY DEF Units
<1>6. x \in S /\ IsFiniteSet(Units(f, {x}))
  BY UnitsOfOne
<1>7. IsFiniteSet(Units(f, U))
  BY ONLY <1>4, <1>5, <1>6, FS_Union
<1> QED BY <1>1, <1>7

\* The units of a set are those of one element and those of the others.
LEMMA UnitsAdd ==
    ASSUME NEW S, IsFiniteSet(S), NEW f \in [S -> Nat], NEW T, T \subseteq S, NEW x \in T
    PROVE  Cardinality(Units(f, T)) = f[x] + Cardinality(Units(f, T \ {x}))
<1>1. /\ Units(f, T) = Units(f, T \ {x}) \cup Units(f, {x})
      /\ Units(f, T \ {x}) \cap Units(f, {x}) = {}
  BY DEF Units
<1>2. /\ IsFiniteSet(Units(f, T \ {x})) /\ IsFiniteSet(Units(f, {x}))
      /\ Cardinality(Units(f, {x})) = f[x]
  BY UnitsOfOne, UnitsFinite
<1>3. Cardinality(Units(f, T \ {x})) \in Nat
  BY <1>2, FS_CardinalityType
<1>4. Cardinality(Units(f, T \ {x}) \cup Units(f, {x}))
      = Cardinality(Units(f, T \ {x})) + Cardinality(Units(f, {x}))
        - Cardinality(Units(f, T \ {x}) \cap Units(f, {x}))
  BY <1>2, FS_Union
<1>5. Cardinality(Units(f, T \ {x}) \cap Units(f, {x})) = 0
  BY <1>1, FS_EmptySet
<1>6. f[x] \in Nat
  OBVIOUS
<1> QED BY ONLY <1>1, <1>2, <1>3, <1>4, <1>5, <1>6

\* The recursive sum exists, and is the number of units: another function that
\* satisfied the recursion would differ on a smallest subset, where it cannot.
LEMMA SumCounts ==
    ASSUME NEW S, IsFiniteSet(S), NEW f \in [S -> Nat]
    PROVE  (CHOOSE g : IsSum(g, f, S))[S] = Cardinality(Units(f, S))
<1> DEFINE c == [T \in SUBSET S |-> Cardinality(Units(f, T))]
<1>1. IsSum(c, f, S)
  <2>1. ASSUME NEW T \in SUBSET S
        PROVE c[T] = IF T = {} THEN 0 ELSE f[Some(T)] + c[T \ {Some(T)}]
    <3>1. CASE T = {}
      BY <3>1, FS_EmptySet DEF Units
    <3>2. CASE T # {}
      <4>1. Some(T) \in T
        BY <3>2 DEF Some
      <4> QED BY <4>1, <3>2, UnitsAdd
    <3> QED BY <3>1, <3>2
  <2> QED BY <2>1 DEF IsSum
<1> DEFINE g == CHOOSE h : IsSum(h, f, S)
<1>2. IsSum(g, f, S)
  BY <1>1
<1> HIDE DEF g, c
<1>3. ASSUME g[S] # c[S] PROVE FALSE
  <2> DEFINE Bad == {T \in SUBSET S : g[T] # c[T]}
  <2>1. PICK T \in Bad : \A V \in Bad : ~(V \subseteq T /\ V # T)
    <3>1. Bad # {} /\ Bad \subseteq SUBSET S
      BY <1>3
    <3> HIDE DEF Bad
    <3> QED BY <3>1, FiniteMin
  <2>2. CASE T = {}
    BY <2>2, <2>1, <1>1, <1>2 DEF IsSum
  <2>3. CASE T # {}
    <3>1. Some(T) \in T
      BY <2>3 DEF Some
    <3>2. g[T \ {Some(T)}] = c[T \ {Some(T)}]
      BY <2>1, <3>1
    <3>3. g[T] = f[Some(T)] + g[T \ {Some(T)}]
      BY <1>2, <2>3, <2>1 DEF IsSum
    <3>4. c[T] = f[Some(T)] + c[T \ {Some(T)}]
      BY <1>1, <2>3, <2>1 DEF IsSum
    <3> QED BY <2>1, <3>2, <3>3, <3>4
  <2> QED BY <2>2, <2>3
<1> QED BY <1>3 DEF g, c

\* Changing one value changes the sum by as much.
LEMMA SumChanges ==
    ASSUME NEW S, IsFiniteSet(S), NEW f \in [S -> Nat], NEW g \in [S -> Nat], NEW x \in S,
           \A y \in S \ {x} : g[y] = f[y]
    PROVE  Cardinality(Units(g, S)) - g[x] = Cardinality(Units(f, S)) - f[x]
<1>1. Units(g, S \ {x}) = Units(f, S \ {x})
  BY DEF Units
<1>2. /\ Cardinality(Units(f, S)) = f[x] + Cardinality(Units(f, S \ {x}))
      /\ Cardinality(Units(g, S)) = g[x] + Cardinality(Units(g, S \ {x}))
  BY UnitsAdd
<1>3. Cardinality(Units(f, S \ {x})) \in Nat
  BY UnitsFinite, FS_CardinalityType
<1> QED BY <1>1, <1>2, <1>3

\* What the removers have credited to an address, and its total.
SavedFor(k) == [s \in Sessions |-> BookedBy(s, k)]
Total(k) == Cardinality(Units(SavedFor(k), Sessions))

\* What a remover has read of the table is what the table holds until it has written it.
LoadedFresh == \A s \in Sessions :
    /\ pc[s] = "save" => loaded[s] = db[Ip(s)]
    /\ pc[s] = "fwdSave" => key[s] \in Keys /\ loaded[s] = db[key[s]]
    /\ pc[s] \notin {"fwdSave", "erase"} \cup Finished => key[s] = None
    /\ pc[s] \notin HoldsVictim \cup Finished => victim[s] = None

\* LedgerNotInflated, with the sum as a number of units.
Credits == \A k \in Keys : Balance(k) <= Total(k)


\* The sum of LedgerNotInflated is that recursive function.
LEMMA SumUnfolds ==
    ASSUME NEW k, NEW f, f = [s \in Sessions |-> BookedBy(s, k)]
    PROVE  MapThenSumSet(LAMBDA s : BookedBy(s, k), Sessions)
           = (CHOOSE g : IsSum(g, f, Sessions))[Sessions]
<1> DEFINE h(g) == [T \in SUBSET Sessions |->
                      IF T = {} THEN 0 ELSE BookedBy(Some(T), k) + g[T \ {Some(T)}]]
<1>1. MapThenSumSet(LAMBDA s : BookedBy(s, k), Sessions) = (CHOOSE g : g = h(g))[Sessions]
  BY DEF MapThenSumSet, MapThenFoldSet, Some
<1>2. \A g : h(g) = [T \in SUBSET Sessions |-> IF T = {} THEN 0 ELSE f[Some(T)] + g[T \ {Some(T)}]]
  BY DEF Some
<1>3. \A g : g = h(g) <=> IsSum(g, f, Sessions)
  BY <1>2 DEF IsSum
<1> HIDE DEF h
<1>4. (CHOOSE g : g = h(g)) = (CHOOSE g : IsSum(g, f, Sessions))
  BY <1>3
<1> QED BY <1>1, <1>4

\* What the removers credited in total is the number of units.
LEMMA TotalIsSum ==
    ASSUME IsFiniteSet(Sessions), TypeInv, NEW k
    PROVE  MapThenSumSet(LAMBDA s : BookedBy(s, k), Sessions) = Total(k)
<1>1. SavedFor(k) \in [Sessions -> Nat]
  BY DEF SavedFor, TypeInv, TypeOK, BookedBy
<1> QED BY <1>1, SumUnfolds, SumCounts DEF Total, SavedFor


\* A step that books for s at most what it saves for s keeps the table below the sum.
LEMMA CreditsKept ==
    ASSUME IsFiniteSet(Sessions), TypeInv, TypeInv', Credits, NEW s \in Sessions,
           \A t \in Sessions \ {s}, k \in Keys : BookedBy(t, k)' = BookedBy(t, k),
           \A k \in Keys : Balance(k)' - BookedBy(s, k)' <= Balance(k) - BookedBy(s, k)
    PROVE  Credits'
<1> SUFFICES ASSUME NEW k \in Keys PROVE Balance(k)' <= Total(k)'
  BY DEF Credits
<1>1. SavedFor(k) \in [Sessions -> Nat] /\ SavedFor(k)' \in [Sessions -> Nat]
  BY DEF SavedFor, TypeInv, TypeOK, BookedBy
<1>2. \A t \in Sessions \ {s} : SavedFor(k)'[t] = SavedFor(k)[t]
  BY DEF SavedFor
<1>3. Total(k)' - SavedFor(k)'[s] = Total(k) - SavedFor(k)[s]
  <2>1. ASSUME NEW f \in [Sessions -> Nat], NEW g \in [Sessions -> Nat],
               \A t \in Sessions \ {s} : g[t] = f[t]
        PROVE  Cardinality(Units(g, Sessions)) - g[s] = Cardinality(Units(f, Sessions)) - f[s]
    BY <2>1, SumChanges
  <2>2. Total(k)' = Cardinality(Units(SavedFor(k)', Sessions))
    BY DEF Total, Units
  <2> QED BY <2>1, <2>2, <1>1, <1>2 DEF Total
<1>4. Total(k) \in Int /\ Total(k)' \in Int
  <2>1. ASSUME NEW f \in [Sessions -> Nat]
        PROVE  Cardinality(Units(f, Sessions)) \in Int
    BY UnitsFinite, FS_CardinalityType
  <2> QED BY <2>1, <1>1 DEF Total, Units
<1>5. SavedFor(k)[s] = BookedBy(s, k) /\ SavedFor(k)'[s] = BookedBy(s, k)'
  BY DEF SavedFor
<1>6. Balance(k) \in Int /\ Balance(k)' \in Int /\ BookedBy(s, k) \in Int /\ BookedBy(s, k)' \in Int
  BY DEF Balance, BookedBy, TypeInv, TypeOK
<1> QED BY <1>3, <1>4, <1>5, <1>6 DEF Credits

\* Every step but those of remove_session that read or write the table.
OtherStep(s) ==
    \/ Environment(s) \/ Spawn(s) \/ AddLock(s) \/ AddEntry(s) \/ AddDuplicate(s)
    \/ LastRead(s) \/ Close(s) \/ RemoveLock(s) \/ RemoveMissing(s) \/ EraseEntry(s) \/ Delete(s)

\* What such a step leaves alone.
Kept(s) ==
    /\ db' = db /\ UNCHANGED removal
    /\ \A t \in Sessions \ {s} : pc'[t] = pc[t] /\ addr'[t] = addr[t]
    /\ \/ pc'[s] = pc[s] /\ addr'[s] = addr[s] /\ pc[s] \notin HoldsVictim
       \/ pc[s] \notin {"save", "fwdSave"} /\ pc'[s] \in Finished /\ addr'[s] = addr[s]
       \/ pc[s] \notin HoldsVictim \cup Finished /\ pc'[s] \notin HoldsVictim \cup Finished

\* Such a step changes neither the table nor what a remover holds of it.
LEMMA OtherStepKeeps ==
    ASSUME TypeInv, NEW s \in Sessions, OtherStep(s)
    PROVE  Kept(s)
BY DEF OtherStep, Kept, TypeInv, TypeOK, HoldsVictim, Finished, Goto, thread, removal,
       Environment, Accept, SpawnFails, Handshake, HandshakeFails, RequestLine, Request, Killed,
       LoadFaults, Spawn, AddLock, AddEntry, AddDuplicate, LastRead, Close, RemoveLock, RemoveMissing, EraseEntry, Delete

\* lock_session_list keeps what load_record returned current until save_record:
\* no second remover writes the table in between.
LEMMA LoadedFreshStep ==
    TypeInv /\ Owners /\ LoadedFresh /\ [Next]_vars => LoadedFresh'
<1> SUFFICES ASSUME TypeInv, Owners, LoadedFresh, [Next]_vars PROVE LoadedFresh'
  OBVIOUS
<1> USE DEF LoadedFresh, TypeInv, TypeOK, HoldsVictim, Finished, Goto, thread, removal
<1>0. CASE UNCHANGED vars
  BY <1>0 DEF vars, Ip
<1>1. ASSUME NEW s \in Sessions, OtherStep(s) PROVE LoadedFresh'
  BY <1>1, OtherStepKeeps DEF Ip, Kept
<1>2. ASSUME NEW s \in Sessions, RemoveLookup(s) PROVE LoadedFresh'
  BY <1>2 DEF RemoveLookup, Ip
<1>3. ASSUME NEW s \in Sessions, SaveRecord(s) PROVE LoadedFresh'
  BY <1>3 DEF SaveRecord, Owners, Mutex, Locked, Removing, Ip
<1>4. ASSUME NEW s \in Sessions, LoadForward(s) PROVE LoadedFresh'
  BY <1>4 DEF LoadForward, HasVictim, Ip
<1>5. ASSUME NEW s \in Sessions, SaveForward(s) PROVE LoadedFresh'
  BY <1>5 DEF SaveForward, Owners, Mutex, Locked, Removing, Ip
<1> QED BY <1>0, <1>1, <1>2, <1>3, <1>4, <1>5 DEF Next, ServerStep, OtherStep

\* No step credits more than it notes: save_record adds the counter of one
\* session to a record just read, or writes a new record over another one, and
\* that only lowers the balance.
LEMMA CreditsStep ==
    ASSUME IsFiniteSet(Sessions), TypeInv, TypeInv', Owners, LoadedFresh, Credits, [Next]_vars
    PROVE  Credits'
<1> USE DEF Goto, removal, TypeInv, TypeOK
<1>0. CASE UNCHANGED vars
  <2>1. \A k \in Keys : Balance(k)' = Balance(k) /\ SavedFor(k)' = SavedFor(k)
    BY <1>0 DEF vars, Balance, SavedFor, BookedBy, Ip
  <2> QED BY <2>1 DEF Credits, Total, Units
<1>1. ASSUME NEW s \in Sessions, OtherStep(s) PROVE Credits'
  <2>1. Kept(s)
    BY <1>1, OtherStepKeeps
  <2>2. \A t \in Sessions, k \in Keys : BookedBy(t, k)' = BookedBy(t, k) /\ Balance(k)' = Balance(k)
    BY <2>1 DEF Kept, LoadedFresh, BookedBy, Balance, Ip, HoldsVictim, Finished
  <2>3. \A k \in Keys : Balance(k) \in Int /\ BookedBy(s, k) \in Int
    BY DEF Balance, BookedBy
  <2> QED BY <2>2, <2>3, CreditsKept
<1>2. ASSUME NEW s \in Sessions, RemoveLookup(s) PROVE Credits'
  <2>1. victim[s] = None /\ key[s] = None /\ key' = key /\ addr' = addr /\ db' = db
    BY <1>2 DEF RemoveLookup, LoadedFresh, HoldsVictim, Finished
  <2>2. \A t \in Sessions, k \in Keys : BookedBy(t, k)' = BookedBy(t, k)
    BY <1>2, <2>1 DEF RemoveLookup, BookedBy, Ip
  <2>3. \A k \in Keys : Balance(k) \in Int /\ Balance(k)' = Balance(k) /\ BookedBy(s, k) \in Int
    BY <2>1 DEF Balance, BookedBy
  <2>4. \A k \in Keys : Balance(k)' - BookedBy(s, k)' <= Balance(k) - BookedBy(s, k)
    BY ONLY <2>2, <2>3, s \in Sessions
  <2> QED BY <2>2, <2>4, CreditsKept
<1>3. ASSUME NEW s \in Sessions, SaveRecord(s) PROVE Credits'
  <2>1. /\ key[s] = None /\ loaded[s] = db[Ip(s)] /\ counter[s] \in Nat /\ victim[s] # None
        /\ pc'[s] \in {"forward", "erase"} /\ pc[s] = "save" /\ Ip(s) \in Keys
        /\ db' = [db EXCEPT ![Ip(s)] = Credited(loaded[s], counter[s])]
        /\ UNCHANGED <<addr, victim, counter, key>>
    BY <1>3
    DEF SaveRecord, LoadedFresh, Finished, HasVictim, HoldsVictim, HasAddress, Addr, Keys, Ip
  <2>2. \A t \in Sessions \ {s}, k \in Keys : BookedBy(t, k)' = BookedBy(t, k)
    BY <1>3, <2>1 DEF SaveRecord, BookedBy, Ip
  <2>3. ASSUME NEW k \in Keys PROVE Balance(k)' - BookedBy(s, k)' <= Balance(k) - BookedBy(s, k)
    <3>1. Balance(k)' = Balance(k) + (IF k = Ip(s) THEN counter[s] ELSE 0) /\ Balance(k) \in Int
      BY <2>1 DEF Balance, Credited
    <3>2. BookedBy(s, k)' = (IF k = Ip(s) THEN counter[s] ELSE 0) /\ BookedBy(s, k) = 0
      BY <2>1 DEF BookedBy, Ip
    <3> QED BY <3>1, <3>2, <2>1
  <2> QED BY <2>2, <2>3, CreditsKept
<1>4. ASSUME NEW s \in Sessions, LoadForward(s) PROVE Credits'
  <2>1. key[s] = None /\ UNCHANGED <<addr, victim, counter, db>>
        /\ pc[s] = "forward" /\ pc'[s] = "fwdSave" /\ \A t \in Sessions \ {s} : key'[t] = key[t]
    BY <1>4 DEF LoadForward, LoadedFresh, Finished
  <2>2. \A t \in Sessions, k \in Keys : BookedBy(t, k)' = BookedBy(t, k)
    BY <1>4, <2>1 DEF LoadForward, BookedBy, Ip
  <2>3. \A k \in Keys : Balance(k) \in Int /\ Balance(k)' = Balance(k) /\ BookedBy(s, k) \in Int
    BY <2>1 DEF Balance, BookedBy
  <2>4. \A k \in Keys : Balance(k)' - BookedBy(s, k)' <= Balance(k) - BookedBy(s, k)
    BY ONLY <2>2, <2>3, s \in Sessions
  <2> QED BY <2>2, <2>4, CreditsKept
<1>5. ASSUME NEW s \in Sessions, SaveForward(s) PROVE Credits'
  <2>1. /\ key[s] \in Keys /\ loaded[s] = db[key[s]] /\ counter[s] \in Nat /\ key'[s] \in Keys
        /\ pc'[s] = "erase" /\ pc[s] = "fwdSave" /\ (loaded[s] # None => key'[s] = key[s])
        /\ db' = [db EXCEPT ![key'[s]] = Credited(loaded[s], counter[s])]
        /\ UNCHANGED <<addr, victim, counter>> /\ \A t \in Sessions \ {s} : key'[t] = key[t]
    BY <1>5 DEF SaveForward, LoadedFresh, HasVictim, HoldsVictim
  <2>2. \A t \in Sessions \ {s}, k \in Keys : BookedBy(t, k)' = BookedBy(t, k)
    BY <1>5, <2>1 DEF SaveForward, BookedBy, Ip
  <2>3. ASSUME NEW k \in Keys PROVE Balance(k)' - BookedBy(s, k)' <= Balance(k) - BookedBy(s, k)
    <3>1. /\ Balance(k)' <= Balance(k) + (IF k = key'[s] THEN counter[s] ELSE 0)
          /\ Balance(k) \in Int /\ Balance(k)' \in Int
      BY <2>1 DEF Balance, Credited
    <3>2. /\ BookedBy(s, k)' = BookedBy(s, k) + (IF k = key'[s] THEN counter[s] ELSE 0)
          /\ BookedBy(s, k) \in Int
      BY <2>1 DEF BookedBy, Ip
    <3> QED BY <3>1, <3>2, <2>1
  <2> QED BY <2>2, <2>3, CreditsKept
<1> QED BY <1>0, <1>1, <1>2, <1>3, <1>4, <1>5 DEF Next, ServerStep, OtherStep

\* LedgerNotInflated: however the removers interleave, and whether or not addresses
\* are reused early, no record holds more requests than remove_session credited.
THEOREM NotInflated ==
    ASSUME IsFiniteSet(Sessions)
    PROVE  Spec => []LedgerNotInflated
<1>1. Init /\ TypeInv => LoadedFresh /\ Credits
  <2> SUFFICES ASSUME Init, TypeInv PROVE LoadedFresh /\ Credits
    OBVIOUS
  <2>1. LoadedFresh
    BY DEF Init, LoadedFresh
  <2>2. ASSUME NEW k \in Keys PROVE Balance(k) <= Total(k)
    <3>1. SavedFor(k) \in [Sessions -> Nat]
      BY DEF SavedFor, TypeInv, TypeOK, BookedBy
    <3>2. Total(k) \in Nat
      BY <3>1, UnitsFinite, FS_CardinalityType DEF Total
    <3>3. Balance(k) = 0
      BY DEF Init, Balance
    <3> QED BY <3>2, <3>3
  <2> QED BY <2>1, <2>2 DEF Credits
<1>2. TypeInv /\ TypeInv' /\ Owners /\ LoadedFresh /\ Credits /\ [Next]_vars => Credits'
  BY CreditsStep
<1>3. TypeInv /\ Credits => LedgerNotInflated
  BY TotalIsSum DEF Credits, LedgerNotInflated
<1> QED BY <1>1, <1>2, <1>3, LoadedFreshStep, TypeInvCorrect, OwnersCorrect, PTL DEF Spec
-----------------------------------------------------------------------------
(* The refinement of SessionLedger *)

\* With addresses reused only once their session has left the manager: no two
\* sessions at work share an address, so each is listed, under its address, from
\* add_session to remove_session, and books itself.
Distinct == \A s, t \in Sessions :
    s # t /\ addr[s] # None /\ addr[s] = addr[t] => pc[s] \in Finished \/ pc[t] \in Finished
Listed == \A s \in Sessions :
    /\ pc[s] \notin Early \cup Finished => registry[addr[s]] = s
    /\ pc[s] \in HoldsVictim => victim[s] = s /\ counter[s] = reqs[s]

\* What a remover has read of the table is what the table holds, until it has
\* written it; the address it books second is the one its session names.
KeyOf(s) == IF fwd[s] = NoIp THEN None ELSE fwd[s]
ReadIsFresh == \A s \in Sessions :
    /\ pc[s] = "save" => loaded[s] = db[Ip(s)]
    /\ pc[s] = "fwdSave" => key[s] = KeyOf(s) /\ key[s] # None /\ loaded[s] = db[key[s]]
    /\ pc[s] = "forward" => fwd[s] # NoIp
    /\ pc[s] = "erase" => key[s] = KeyOf(s)
    /\ pc[s] \notin Finished \cup {"fwdSave", "erase"} => key[s] = None

\* What the refinement rests on when addresses are not reused early.
SInv == Distinct /\ Listed /\ ReadIsFresh

\* It is inductive: an address is free for a new session only when the last one
\* that had it has left the manager.
LEMMA StepSInv ==
    ASSUME PromptReuse = FALSE, TypeInv, Owners, SInv, [Next]_vars
    PROVE  SInv'
  <2> USE DEF SInv, Distinct, Listed, ReadIsFresh, KeyOf, Owners, Mutex, ListedLive, VictimHeld,
              TypeInv, TypeOK, HasAddress, HasVictim, HoldsVictim, Removing, Locked,
              Early, Finished, Connected, Goto, thread, removal
  <2>1. CASE UNCHANGED vars
    BY <2>1 DEF vars, Ip
  <2>2. ASSUME NEW s \in Sessions, Environment(s) PROVE SInv'
    <3>1. ASSUME NEW a \in Addr, NEW g \in Keys, Accept(s, a, g) PROVE SInv'
      BY <3>1 DEF Accept, Free, Ip
    <3>2. CASE SpawnFails(s) \/ Handshake(s) \/ HandshakeFails(s)
      BY <3>2 DEF SpawnFails, Handshake, HandshakeFails, Ip
    <3>3. CASE RequestLine(s)
      BY <3>3 DEF RequestLine, Ip
    <3>4. CASE LastRead(s)
      BY <3>4 DEF LastRead, Ip
    <3>5. ASSUME NEW f \in Keys, NEW goesOn \in BOOLEAN, Request(s, f, goesOn) PROVE SInv'
      BY <3>5 DEF Request, Ip
    <3>6. CASE Killed(s) \/ LoadFaults(s)
      BY <3>6 DEF Killed, LoadFaults, Ip
    <3> QED BY <2>2, <3>1, <3>2, <3>3, <3>4, <3>5, <3>6 DEF Environment
  <2>3. ASSUME NEW s \in Sessions, ServerStep(s) PROVE SInv'
    <3>1. CASE Spawn(s) \/ LastRead(s) \/ Close(s)
      BY <3>1 DEF Spawn, LastRead, Close, Ip
    <3>2. CASE AddLock(s) \/ RemoveLock(s)
      BY <3>2 DEF AddLock, RemoveLock, Acquire, Ip
    <3>3. CASE AddEntry(s)
      BY <3>3 DEF AddEntry, Release, Ip
    <3>4. CASE AddDuplicate(s)
      BY <3>4 DEF AddDuplicate, Release, Ip
    <3>5. CASE RemoveMissing(s)
      BY <3>5 DEF RemoveMissing, Release, Ip
    <3>6. CASE RemoveLookup(s)
      BY <3>6 DEF RemoveLookup, Ip
    <3>7. CASE SaveRecord(s)
      BY <3>7 DEF SaveRecord, Ip
    <3>8. CASE LoadForward(s)
      <4>1. victim[s] = s /\ fwd[s] \in Keys \ {NoIp} /\ fwd[s] # None
        BY <3>8 DEF LoadForward
      <4> QED BY <3>8, <4>1 DEF LoadForward, Ip
    <3>9. CASE SaveForward(s)
      BY <3>9 DEF SaveForward, Ip
    <3>10. CASE EraseEntry(s)
      BY <3>10 DEF EraseEntry, Release, Ip
    <3>11. CASE Delete(s)
      BY <3>11 DEF Delete, Ip
    <3> QED BY <2>3, <3>1, <3>2, <3>3, <3>4, <3>5, <3>6, <3>7, <3>8, <3>9, <3>10, <3>11 DEF ServerStep
  <2> QED BY <2>1, <2>2, <2>3 DEF Next

\* Where the thread of a session is says what the ledger takes it for.
StageAt(p) == IF p \in Early THEN "outside" ELSE IF p \in Finished THEN "settled" ELSE "open"
StagesMatch == \A s \in Sessions : Stage(s) = StageAt(pc[s])

\* The map of active sessions agrees: a session is listed from add_session to the
\* end of remove_session, and then it is settled.
LEMMA StageByPlace == TypeInv /\ Owners /\ SInv => StagesMatch
BY DEF TypeInv, TypeOK, HasAddress, Owners, ListedLive, SInv, Listed, StagesMatch, Stage,
       StageAt, Early, Finished

\* The variables of SessionLedger.
Stages == [s \in Sessions |-> Stage(s)]
Owned == [s \in Sessions |-> IF Stage(s) = "outside" THEN None ELSE Ip(s)]
Claims == [s \in Sessions |-> IF Stage(s) = "outside" THEN NoIp ELSE fwd[s]]
Net == [k \in Keys |-> Balance(k) - Unsettled(k)]

\* At no other place has a remover saved what is not settled yet.
Saved == {"forward", "fwdSave", "erase"}
\* The holder of the lock is the only one with something saved and not settled.
LEMMA NetBySaver ==
    ASSUME TypeInv, Owners, NEW s \in Sessions, pc[s] \in Locked, NEW k \in Keys
    PROVE  Unsettled(k) = IF pc[s] \in Saved THEN BookedBy(s, k) ELSE 0
BY DEF TypeInv, TypeOK, Owners, Mutex, Unsettled, Locked, Saved

\* Steps of others than the holder of the lock leave Net alone.
LEMMA NetKept ==
    ASSUME TypeInv, Owners, NEW s \in Sessions, pc[s] \notin Locked, pc'[s] \notin Saved,
           UNCHANGED <<registry, db, removal>>, lock' = lock \/ (lock = None /\ lock' = s),
           \A t \in Sessions \ {s} : pc'[t] = pc[t] /\ addr'[t] = addr[t]
    PROVE  Net' = Net
<1>1. ASSUME NEW k \in Keys PROVE Balance(k)' = Balance(k) /\ Unsettled(k)' = Unsettled(k)
  BY DEF TypeInv, TypeOK, Owners, Mutex, Unsettled, Balance, BookedBy, Locked, Saved, removal,
         Ip, Removing
<1> QED BY <1>1 DEF Net

\* A step that moves one thread within its stage changes nothing in the ledger.
LEMMA SameView ==
    ASSUME StagesMatch, StagesMatch', NEW s \in Sessions,
           \A t \in Sessions \ {s} : pc'[t] = pc[t] /\ addr'[t] = addr[t] /\ fwd'[t] = fwd[t],
           StageAt(pc'[s]) = StageAt(pc[s]),
           pc[s] \in Early \/ (addr'[s] = addr[s] /\ fwd'[s] = fwd[s])
    PROVE  UNCHANGED <<Stages, Owned, Claims>>
<1>1. \A t \in Sessions : Stage(t)' = Stage(t)
  BY DEF StagesMatch
<1>2. pc[s] \in Early => Stage(s) = "outside"
  BY DEF StagesMatch, StageAt
<1> QED BY <1>1, <1>2 DEF Stages, Owned, Claims, Ip

\* Nor does a step of the holder that saves nothing.
LEMMA NetIdle ==
    ASSUME TypeInv, Owners, TypeInv', Owners', NEW s \in Sessions, pc[s] \in Locked \ Saved,
           pc'[s] \notin Saved, db' = db,
           lock' = None \/ (lock' = s /\ pc'[s] \in Locked)
    PROVE  Net' = Net
<1>1. ASSUME NEW k \in Keys PROVE Balance(k)' = Balance(k) /\ Unsettled(k)' = Unsettled(k)
  <2>1. Balance(k)' = Balance(k)
    BY DEF Balance
  <2>2. Unsettled(k) = 0
    BY NetBySaver
  <2>3. Unsettled(k)' = 0
    BY DEF TypeInv, TypeOK, Owners, Mutex, Unsettled, Locked, Saved
  <2> QED BY <2>1, <2>2, <2>3
<1> QED BY <1>1 DEF Net


\* What the holder of the lock has saved and not settled yet.
Booking(s, k) == IF pc[s] \in Saved THEN BookedBy(s, k) ELSE 0

\* A step of remove_session that saves as much as it notes leaves Net alone.
LEMMA NetSaving ==
    ASSUME TypeInv, Owners, TypeInv', Owners', NEW s \in Sessions,
           pc[s] \in Locked, pc'[s] \in Locked,
           \A k \in Keys : Balance(k)' - Booking(s, k)' = Balance(k) - Booking(s, k)
    PROVE  Net' = Net
<1>1. ASSUME NEW k \in Keys PROVE (Balance(k) - Unsettled(k))' = Balance(k) - Unsettled(k)
  <2>1. Unsettled(k) = Booking(s, k)
    BY NetBySaver DEF Booking
  <2>2. lock' = s
    BY DEF Owners, Mutex
  <2>3. Unsettled(k)' = Booking(s, k)'
    BY <2>2 DEF TypeInv, TypeOK, Unsettled, Booking, BookedBy, Saved, Ip
  <2> QED BY <2>1, <2>3
<1> QED BY <1>1 DEF Net

\* save_record, load_record and the second save_record of remove_session do.
LEMMA BookSteps ==
    ASSUME TypeInv, Owners, SInv, TypeInv', Owners', NEW s \in Sessions,
           SaveRecord(s) \/ LoadForward(s) \/ SaveForward(s)
    PROVE  Net' = Net
<1> USE DEF TypeInv, TypeOK, HasAddress, HoldsVictim, Removing, Goto, removal
<1>0. /\ pc[s] \in {"save", "forward", "fwdSave"} /\ pc'[s] \in {"forward", "fwdSave", "erase"}
      /\ victim[s] = s /\ s # None /\ addr[s] \in Addr /\ Ip(s) \in Keys /\ Ip(s) # None
      /\ counter[s] \in Nat /\ counter' = counter /\ victim' = victim /\ addr' = addr /\ fwd' = fwd
  BY DEF SaveRecord, LoadForward, SaveForward, Addr, Ip, SInv, Listed, Keys
<1>1. pc[s] \in Locked /\ pc'[s] \in Locked /\ pc'[s] \in Saved
  BY <1>0 DEF Locked, Saved
<1>2. CASE SaveRecord(s)
  <2>1. /\ loaded[s] = db[Ip(s)] /\ key'[s] = None /\ pc[s] = "save" /\ pc'[s] # "fwdSave"
        /\ db' = [db EXCEPT ![Ip(s)] = Credited(loaded[s], counter[s])]
    BY <1>2, <1>0 DEF SaveRecord, SInv, ReadIsFresh, Finished
  <2>2. ASSUME NEW k \in Keys PROVE Balance(k)' - Booking(s, k)' = Balance(k) - Booking(s, k)
    <3>1. Balance(k)' = Balance(k) + (IF k = Ip(s) THEN counter[s] ELSE 0)
      BY <2>1, <1>0 DEF Balance, Credited
    <3>2. Booking(s, k)' = IF k = Ip(s) THEN counter[s] ELSE 0
      BY <2>1, <1>0, <1>1 DEF Booking, BookedBy, Ip, Saved
    <3>3. Booking(s, k) = 0
      BY <2>1 DEF Booking, Saved
    <3>4. Balance(k) \in Int
      BY DEF Balance
    <3> QED BY <3>1, <3>2, <3>3, <3>4, <1>0
  <2> QED BY <2>2, <1>1, NetSaving
<1>3. CASE LoadForward(s)
  <2>1. pc[s] = "forward" /\ pc'[s] = "fwdSave" /\ key[s] = None /\ db' = db
    BY <1>3, <1>0 DEF LoadForward, SInv, ReadIsFresh, Finished
  <2>2. ASSUME NEW k \in Keys PROVE Balance(k)' - Booking(s, k)' = Balance(k) - Booking(s, k)
    BY <2>1, <1>0 DEF Balance, Booking, BookedBy, Ip, Saved
  <2> QED BY <2>2, <1>1, NetSaving
<1>4. CASE SaveForward(s)
  <2>1. /\ pc[s] = "fwdSave" /\ pc'[s] = "erase" /\ key[s] \in Keys /\ key[s] = fwd[s]
        /\ loaded[s] = db[key[s]]
    BY <1>4, <1>0 DEF SaveForward, SInv, ReadIsFresh, KeyOf
  <2>2. key'[s] = key[s]
    BY <1>4, <2>1, <1>0 DEF SaveForward
  <2>3. db' = [db EXCEPT ![key[s]] = Credited(loaded[s], counter[s])]
    BY <1>4, <2>2 DEF SaveForward
  <2>4. ASSUME NEW k \in Keys PROVE Balance(k)' - Booking(s, k)' = Balance(k) - Booking(s, k)
    <3>1. Balance(k)' = Balance(k) + (IF k = key[s] THEN counter[s] ELSE 0)
      BY <2>1, <2>3, <1>0 DEF Balance, Credited
    <3>2. Booking(s, k)' = (IF k = Ip(s) THEN counter[s] ELSE 0) + (IF k = key[s] THEN counter[s] ELSE 0)
      BY <2>1, <2>2, <1>0, <1>1 DEF Booking, BookedBy, Ip, Saved
    <3>3. Booking(s, k) = IF k = Ip(s) THEN counter[s] ELSE 0
      BY <2>1, <1>0 DEF Booking, BookedBy, Ip, Saved
    <3>4. Balance(k) \in Int
      BY DEF Balance
    <3> QED BY <3>1, <3>2, <3>3, <3>4, <1>0
  <2> QED BY <2>4, <1>1, NetSaving
<1> QED BY <1>2, <1>3, <1>4

\* Steps the ledger does not see.
LEMMA HiddenStep ==
    ASSUME TypeInv, Owners, SInv, StagesMatch, TypeInv', Owners', StagesMatch',
           PromptReuse = FALSE, NEW s \in Sessions,
           \/ \E a \in Addr, g \in Keys : Accept(s, a, g)
           \/ Spawn(s) \/ SpawnFails(s) \/ AddLock(s) \/ AddDuplicate(s)
           \/ Handshake(s) \/ HandshakeFails(s) \/ Close(s) \/ Killed(s) \/ LoadFaults(s)
           \/ RemoveLock(s) \/ RemoveMissing(s) \/ RemoveLookup(s)
           \/ SaveRecord(s) \/ LoadForward(s) \/ SaveForward(s) \/ Delete(s)
    PROVE  UNCHANGED <<Stages, Owned, reqs, Claims, Net>>
<1> USE DEF Goto, thread, removal, TypeInv, TypeOK
<1>1. ASSUME NEW a \in Addr, NEW g \in Keys, Accept(s, a, g)
      PROVE  UNCHANGED <<Stages, Owned, reqs, Claims, Net>>
  BY <1>1, SameView, NetKept DEF Accept, StageAt, Early, Locked, Removing, Saved
<1>2. CASE Spawn(s) \/ SpawnFails(s) \/ AddLock(s)
  BY <1>2, SameView, NetKept
  DEF Spawn, SpawnFails, AddLock, Acquire, StageAt, Early, Locked, Removing, Saved
<1>3. CASE AddDuplicate(s)
  BY <1>3 DEF AddDuplicate, Owners, ListedLive, SInv, Distinct, Early, Finished, HasAddress
<1>4. CASE Handshake(s) \/ HandshakeFails(s) \/ Close(s) \/ RemoveLock(s) \/ Delete(s)
  BY <1>4, SameView, NetKept
  DEF Handshake, HandshakeFails, Close, RemoveLock, Delete, Acquire, StageAt, Early, Finished,
      Locked, Removing, Saved
<1>5. CASE Killed(s) \/ LoadFaults(s)
  <2>1. UNCHANGED <<pc, addr, fwd, reqs, registry, lock, db, victim, counter, loaded, key>>
    BY <1>5 DEF Killed, LoadFaults
  <2>2. \A k \in Keys : Balance(k)' = Balance(k) /\ Unsettled(k)' = Unsettled(k)
    BY <2>1 DEF Balance, Unsettled, BookedBy, Ip
  <2>3. Net' = Net
    BY <2>2 DEF Net
  <2> QED BY <2>1, <2>3, SameView
<1>6. CASE RemoveMissing(s)
  BY <1>6 DEF RemoveMissing, SInv, Listed, Early, Finished
<1>7. CASE RemoveLookup(s)
  <2>1. lock = s
    BY <1>7 DEF RemoveLookup, Owners, Mutex, Locked, Removing
  <2> QED BY <1>7, <2>1, SameView, NetIdle
          DEF RemoveLookup, StageAt, Early, Finished, Locked, Removing, Saved
<1>8. CASE SaveRecord(s) \/ LoadForward(s) \/ SaveForward(s)
  <2>1. Net' = Net
    BY <1>8, BookSteps
  <2> QED BY <1>8, <2>1, SameView
          DEF SaveRecord, LoadForward, SaveForward, StageAt, Early, Finished
<1> QED BY <1>1, <1>2, <1>3, <1>4, <1>5, <1>6, <1>7, <1>8

\* add_session opens the session.
LEMMA OpenStep ==
    ASSUME TypeInv, Owners, StagesMatch, TypeInv', Owners', StagesMatch',
           NEW s \in Sessions, AddEntry(s)
    PROVE  \E k, c \in Keys : Ledger!Open(s, k, c)
<1> USE DEF Goto, removal, TypeInv, TypeOK, HasAddress, AddEntry, Release
<1>1. addr[s] \in Addr /\ Ip(s) \in Keys /\ fwd[s] \in Keys
  BY DEF Ip, Addr, Keys
<1>2. Net' = Net
  BY NetIdle DEF Locked, Removing, Saved
<1>3. Stage(s) = "outside" /\ Stage(s)' = "open" /\ \A t \in Sessions \ {s} : Stage(t)' = Stage(t)
  BY DEF StagesMatch, StageAt, Early, Finished
<1>4. Stages' = [Stages EXCEPT ![s] = "open"]
  BY <1>3 DEF Stages
<1>5. PICK k \in Keys, c \in Keys : k = Ip(s) /\ c = fwd[s]
  BY <1>1
<1>6. Owned' = [Owned EXCEPT ![s] = k]
  <2>1. \A t \in Sessions : Ip(t)' = Ip(t)
    BY DEF Ip
  <2>2. Owned'[s] = k /\ \A t \in Sessions \ {s} : Owned'[t] = Owned[t]
    BY ONLY <1>3, <1>5, <2>1, s \in Sessions DEF Owned
  <2> QED BY ONLY <2>2, s \in Sessions DEF Owned
<1>7. Claims' = [Claims EXCEPT ![s] = c]
  <2>1. fwd' = fwd
    OBVIOUS
  <2>2. Claims'[s] = c /\ \A t \in Sessions \ {s} : Claims'[t] = Claims[t]
    BY ONLY <1>3, <1>5, <2>1, s \in Sessions DEF Claims
  <2> QED BY ONLY <2>2, s \in Sessions DEF Claims
<1>8. Ledger!Open(s, k, c)
  BY <1>2, <1>3, <1>4, <1>6, <1>7 DEF Ledger!Open, Stages, Owned, Claims, Net
<1> QED BY <1>8

\* A new x_forward_for of an open session is a new claim.
LEMMA ClaimMade ==
    ASSUME fwd \in [Sessions -> Keys], NEW s \in Sessions, NEW f, Stage(s) = "open",
           fwd' = [fwd EXCEPT ![s] = f], \A t \in Sessions : Stage(t)' = Stage(t)
    PROVE  Claims' = [Claims EXCEPT ![s] = f]
BY DEF Claims

\* The request loop counts and claims.
LEMMA RequestStep ==
    ASSUME TypeInv, Owners, StagesMatch, TypeInv', Owners', StagesMatch', NEW s \in Sessions,
           \/ RequestLine(s)
           \/ \E f \in Keys, goesOn \in BOOLEAN : Request(s, f, goesOn)
           \/ LastRead(s)
    PROVE  \/ Ledger!Claim(s, NoIp)
           \/ \E f \in Keys : Ledger!CountAndClaim(s, f)
           \/ Ledger!Count(s)
<1> USE DEF Goto, removal, TypeInv, TypeOK
<1>1. Stage(s) = "open" /\ \A t \in Sessions : Stage(t)' = Stage(t)
  BY DEF StagesMatch, StageAt, Early, Finished, RequestLine, Request, LastRead
<1>2. Stages' = Stages /\ Owned' = Owned
  BY <1>1 DEF Stages, Owned, Ip, RequestLine, Request, LastRead
<1>3. Net' = Net
  BY NetKept DEF RequestLine, Request, LastRead, Locked, Removing, Saved
<1>4. CASE RequestLine(s)
  <2>1. Claims' = [Claims EXCEPT ![s] = NoIp] /\ reqs' = reqs
    <3>1. fwd' = [fwd EXCEPT ![s] = NoIp] /\ reqs' = reqs
      BY <1>4 DEF RequestLine
    <3> QED BY <3>1, <1>1, ClaimMade
  <2> QED BY <2>1, <1>1, <1>2, <1>3 DEF Ledger!Claim, Stages, Owned, Claims, Net
<1>5. ASSUME NEW f \in Keys, NEW goesOn \in BOOLEAN, Request(s, f, goesOn)
      PROVE  Ledger!CountAndClaim(s, f)
  <2>1. Claims' = [Claims EXCEPT ![s] = f] /\ reqs' = [reqs EXCEPT ![s] = @ + 1]
    <3>1. fwd' = [fwd EXCEPT ![s] = f] /\ reqs' = [reqs EXCEPT ![s] = @ + 1]
      BY <1>5 DEF Request
    <3> QED BY <3>1, <1>1, ClaimMade
  <2> QED BY <2>1, <1>1, <1>2, <1>3 DEF Ledger!CountAndClaim, Stages, Owned, Claims, Net
<1>6. CASE LastRead(s)
  <2>1. Claims' = Claims /\ reqs' = [reqs EXCEPT ![s] = @ + 1]
    BY <1>6, <1>1 DEF Claims, LastRead
  <2> QED BY <2>1, <1>1, <1>2, <1>3 DEF Ledger!Count, Stages, Owned, Claims, Net
<1> QED BY <1>4, <1>5, <1>6

\* Erasing the entry settles the session: what was saved for it is its whole
\* count, once for its address and once for the one it claims.
LEMMA SettleStep ==
    ASSUME TypeInv, Owners, SInv, StagesMatch, TypeInv', Owners', StagesMatch',
           NEW s \in Sessions, EraseEntry(s)
    PROVE  Ledger!Settle(s)
<1> USE DEF Goto, removal, TypeInv, TypeOK, HasAddress, EraseEntry, Release
<1>1. Stage(s) = "open" /\ Stage(s)' = "settled" /\ \A t \in Sessions \ {s} : Stage(t)' = Stage(t)
  BY DEF StagesMatch, StageAt, Early, Finished
<1>2. Stages' = [Stages EXCEPT ![s] = "settled"]
  BY <1>1 DEF Stages
<1>3. Owned' = Owned /\ Claims' = Claims
  BY <1>1 DEF Owned, Claims, Ip
<1>4. Owned[s] = Ip(s) /\ Claims[s] = fwd[s]
  BY <1>1 DEF Owned, Claims
<1>5. /\ addr[s] \in Addr /\ Ip(s) \in IPs /\ victim[s] = s /\ counter[s] = reqs[s]
      /\ reqs[s] \in Nat /\ key[s] = KeyOf(s)
  BY DEF SInv, Listed, ReadIsFresh, HoldsVictim, Addr, Ip
<1>6. ASSUME NEW k \in Keys PROVE Net'[k] = Net[k] + Ledger!Share(s, k)
  <2>1. Unsettled(k) = BookedBy(s, k)
    <3>1. pc[s] \in Locked /\ pc[s] \in Saved
      BY DEF Locked, Removing, Saved
    <3> HIDE DEF EraseEntry, TypeInv
    <3> QED BY <3>1, NetBySaver
  <2>2. BookedBy(s, k) = (IF k = Ip(s) THEN reqs[s] ELSE 0) + (IF k = fwd[s] /\ k # NoIp THEN reqs[s] ELSE 0)
    BY <1>5 DEF BookedBy, KeyOf, Keys
  <2>3. Ledger!Share(s, k) = BookedBy(s, k)
    BY <2>2, <1>1 DEF Ledger!Share
  <2>4. Unsettled(k)' = 0
    <3>1. lock' = None
      OBVIOUS
    <3> QED BY <3>1 DEF Unsettled
  <2>5. Balance(k)' = Balance(k) /\ Balance(k) \in Int /\ BookedBy(s, k) \in Int
    BY <2>2, <1>5 DEF Balance
  <2> QED BY <2>1, <2>3, <2>4, <2>5 DEF Net
<1>7. Net' = [k \in Keys |-> Net[k] + Ledger!Share(s, k)]
  BY <1>6 DEF Net
<1> QED BY <1>1, <1>2, <1>3, <1>7 DEF Ledger!Settle, Stages, Owned, Claims, Net

\* Every step of the manager is a step of the ledger, or none.
LEMMA StepRefines ==
    ASSUME PromptReuse = FALSE, TypeInv, Owners, SInv, StagesMatch,
           TypeInv', Owners', StagesMatch', [Next]_vars
    PROVE  [Ledger!LedgerNext]_(Ledger!lvars)
<1>0. ASSUME UNCHANGED <<Stages, Owned, reqs, Claims, Net>> PROVE UNCHANGED Ledger!lvars
  BY <1>0 DEF Ledger!lvars, Stages, Owned, Claims, Net
<1>1. CASE UNCHANGED vars
  BY <1>1, <1>0 DEF vars, Stages, Owned, Claims, Net, Stage, Ip, Balance, Unsettled, BookedBy
<1>2. ASSUME NEW s \in Sessions, AddEntry(s) PROVE Ledger!LedgerNext
  <2>1. \E k, c \in Keys : Ledger!Open(s, k, c)
    BY <1>2, OpenStep
  <2> QED BY <2>1 DEF Ledger!LedgerNext
<1>3. ASSUME NEW s \in Sessions,
             \/ RequestLine(s)
             \/ \E f \in Keys, goesOn \in BOOLEAN : Request(s, f, goesOn)
             \/ LastRead(s)
      PROVE  Ledger!LedgerNext
  <2>1. NoIp \in Keys
    BY DEF Keys
  <2>2. \/ Ledger!Claim(s, NoIp)
        \/ \E f \in Keys : Ledger!CountAndClaim(s, f)
        \/ Ledger!Count(s)
    BY <1>3, RequestStep
  <2> QED BY <2>1, <2>2 DEF Ledger!LedgerNext
<1>4. ASSUME NEW s \in Sessions, EraseEntry(s) PROVE Ledger!LedgerNext
  BY <1>4, SettleStep DEF Ledger!LedgerNext
<1>5. ASSUME NEW s \in Sessions,
             \/ \E a \in Addr, g \in Keys : Accept(s, a, g)
             \/ Spawn(s) \/ SpawnFails(s) \/ AddLock(s) \/ AddDuplicate(s)
             \/ Handshake(s) \/ HandshakeFails(s) \/ Close(s) \/ Killed(s) \/ LoadFaults(s)
             \/ RemoveLock(s) \/ RemoveMissing(s) \/ RemoveLookup(s)
             \/ SaveRecord(s) \/ LoadForward(s) \/ SaveForward(s) \/ Delete(s)
      PROVE  UNCHANGED Ledger!lvars
  BY <1>5, <1>0, HiddenStep
<1>6. CASE Next
  <2>1. PICK s \in Sessions : Environment(s) \/ ServerStep(s)
    BY <1>6 DEF Next
  <2>2. CASE Environment(s)
    BY <2>2, <1>3, <1>5 DEF Environment
  <2>3. CASE ServerStep(s)
    BY <2>3, <1>2, <1>3, <1>4, <1>5 DEF ServerStep
  <2> QED BY <2>1, <2>2, <2>3
<1> QED BY <1>1, <1>6

\* ImplementsLedger: as long as no address is reused before its session has left
\* the manager, add_session, the request loop and remove_session settle every
\* session once, for its whole count, as if in one step.
THEOREM LedgerImplemented ==
    ASSUME PromptReuse = FALSE
    PROVE  Spec => ImplementsLedger
<1>1. Init => SInv /\ Ledger!LedgerInit
  BY DEF Init, SInv, Distinct, Listed, ReadIsFresh, Early, HoldsVictim, Ledger!LedgerInit,
         Stage, Finished, Balance, Unsettled
<1>2. TypeInv /\ Owners /\ SInv /\ [Next]_vars => SInv'
  BY StepSInv
<1>3. TypeInv /\ Owners /\ SInv => StagesMatch
  BY StageByPlace
<1>4. TypeInv /\ Owners /\ SInv /\ StagesMatch /\ TypeInv' /\ Owners' /\ StagesMatch' /\ [Next]_vars
      => [Ledger!LedgerNext]_(Ledger!lvars)
  BY StepRefines
<1> QED BY <1>1, <1>2, <1>3, <1>4, TypeInvCorrect, OwnersCorrect, PTL
        DEF Spec, ImplementsLedger, Ledger!LedgerSpec
=============================================================================
