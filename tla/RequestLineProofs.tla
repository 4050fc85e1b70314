-------------------------- MODULE RequestLineProofs -------------------------
(***************************************************************************)
(* Proofs about the request line: RequestTarget, for targets of any length *)
(* and any sizes of url_t::path and url_t::query, and Routes, for any      *)
(* names, actions and methods, paths of any length and any number of       *)
(* routes.                                                                 *)
(***************************************************************************)
EXTENDS RequestTarget, Routes, SequenceLemmas, FiniteSetTheorems

-----------------------------------------------------------------------------
(***************************************************************************)
(* The target. TargetInv says that the parser keeps to its buffer,         *)
(* Accepting that it does not turn away a line nothing is wrong with, and  *)
(* Reading that what it has written is what the characters it has read     *)
(* say: the path, the arguments read to their ends, and the one in work.   *)
(***************************************************************************)
Chars == Classes \cup {Nul, "x", "junk"}
Entries == [key : Nat, val : Nat]
Copying == {"method", "path", "query"}

TargetTypes ==
    /\ target \in Seq(Classes)
    /\ at \in Nat \ {0}
    /\ buf \in Seq(Chars)
    /\ query \in Seq(Entries)
    /\ pathLen \in Nat
    /\ keyFound \in BOOLEAN
    /\ place \in Copying \cup {"version", "parsed", "refused", "ran on"}

\* No more is written than was read, and none of it in vain.
InBuffer ==
    /\ place \in Copying => Len(buf) < at /\ Len(buf) <= MaxPathLen
    /\ Len(buf) <= MaxPathLen + 1
    /\ Len(target) <= MaxPathLen => Len(buf) <= MaxPathLen

\* The separators that were read.
Separators == {i \in Occurs(target, "&") : i < at}
InQuery ==
    /\ place \in {"method", "path"} => query = <<>>
    /\ place = "query" => query # <<>>
    /\ Len(query) <= Cardinality(Separators) + 1

TargetInv == TargetTypes /\ InBuffer /\ InQuery
-----------------------------------------------------------------------------
\* A set of positions of the target is finite.
LEMMA FinitelyMany ==
    ASSUME target \in Seq(Classes), NEW T, T \subseteq Occurs(target, "&")
    PROVE  IsFiniteSet(T) /\ Cardinality(T) \in Nat
<1>1. Len(target) \in Nat
  OBVIOUS
<1>2. T \subseteq Nat /\ \A i \in T : i <= Len(target)
  BY DEF Occurs
<1>3. IsFiniteSet(T)
  BY <1>1, <1>2, FS_BoundedSetOfNaturals
<1> QED BY <1>3, FS_CardinalityType

\* Reading on never makes the separators fewer, and one that is read counts.
LEMMA SeparatorsGrow ==
    ASSUME target \in Seq(Classes), at \in Nat, at' \in Nat, at <= at', target' = target
    PROVE  /\ Cardinality(Separators) \in Nat /\ Cardinality(Separators') \in Nat
           /\ Cardinality(Separators) <= Cardinality(Separators')
           /\ at \in Occurs(target, "&") /\ at < at' =>
                  Cardinality(Separators) < Cardinality(Separators')
<1>1. Separators \subseteq Separators' /\ Separators' \subseteq Occurs(target, "&")
  BY DEF Separators, Occurs
<1>2. /\ IsFiniteSet(Separators) /\ Cardinality(Separators) \in Nat
      /\ IsFiniteSet(Separators') /\ Cardinality(Separators') \in Nat
  BY <1>1, FinitelyMany
<1>3. Cardinality(Separators) <= Cardinality(Separators')
  BY <1>1, <1>2, FS_Subset
<1>4. ASSUME at \in Occurs(target, "&"), at < at'
      PROVE  Cardinality(Separators) # Cardinality(Separators')
  <2>1. at \in Separators' /\ at \notin Separators
    BY <1>4 DEF Separators, Occurs
  <2> QED BY <1>1, <1>2, <2>1, FS_Subset
<1> QED BY <1>1, <1>2, <1>3, <1>4

\* One character is copied, or an escape of three read for one.
LEMMA OneCopied ==
    ASSUME TargetTypes, CopyOne, at <= Len(target)
    PROVE  /\ buf' \in Seq(Chars) /\ Len(buf') = Len(buf) + 1
           /\ at' \in Nat \ {0} /\ at < at'
<1>1. Ahead \in Chars /\ Unescaped \in Chars
  <2>1. at \in 1 .. Len(target) /\ target \in Seq(Classes)
    <3>1. at \in Nat \ {0} /\ target \in Seq(Classes)
      BY DEF TargetTypes
    <3>2. Len(target) \in Nat
      BY <3>1, LenProperties
    <3> QED BY <3>1, <3>2
  <2> QED BY <2>1, ElementOfSeq DEF Ahead, Unescaped, Chars
<1>2. /\ buf' = Append(buf, Unescaped) \/ buf' = Append(buf, Ahead)
      /\ at' \in {at + 1, at + 3}
  BY DEF CopyOne, Put
<1>3. buf \in Seq(Chars) /\ at \in Nat \ {0}
  BY DEF TargetTypes
<1>4. at' \in Nat \ {0} /\ at < at'
  BY <1>2, <1>3
<1> QED BY <1>1, <1>2, <1>3, <1>4, AppendProperties

\* A pointer into the buffer is written.
LEMMA Pointers ==
    /\ \A q \in Seq(Entries), e \in Entries :
           Append(q, e) \in Seq(Entries) /\ Len(Append(q, e)) = Len(q) + 1
    /\ \A q \in Seq(Entries), n \in Nat :
           q # <<>> => /\ [q EXCEPT ![Len(q)].val = n] \in Seq(Entries)
                       /\ Len([q EXCEPT ![Len(q)].val = n]) = Len(q)
<1>1. ASSUME NEW q \in Seq(Entries), NEW e \in Entries
      PROVE  Append(q, e) \in Seq(Entries) /\ Len(Append(q, e)) = Len(q) + 1
  BY AppendProperties
<1>2. ASSUME NEW q \in Seq(Entries), NEW n \in Nat, q # <<>>
      PROVE  /\ [q EXCEPT ![Len(q)].val = n] \in Seq(Entries)
             /\ Len([q EXCEPT ![Len(q)].val = n]) = Len(q)
  <2>1. Len(q) \in 1 .. Len(q)
    BY <1>2, EmptySeq
  <2>2. q[Len(q)] \in Entries
    BY <2>1, ElementOfSeq
  <2> DEFINE e == [q[Len(q)] EXCEPT !.val = n]
  <2>3. e \in Entries
    BY <2>2 DEF Entries
  <2>4. [q EXCEPT ![Len(q)].val = n] = [q EXCEPT ![Len(q)] = e]
    OBVIOUS
  <2> HIDE DEF e
  <2>5. [q EXCEPT ![Len(q)] = e] \in Seq(Entries) /\ Len([q EXCEPT ![Len(q)] = e]) = Len(q)
    BY <2>1, <2>3, ExceptSeq
  <2> QED BY <2>4, <2>5
<1> QED BY <1>1, <1>2

\* The types of the parser, whatever it reads.
LEMMA TypesKept == TargetTypes /\ InQuery /\ [TargetNext]_tvars => TargetTypes'
<1> SUFFICES ASSUME TargetTypes, InQuery, [TargetNext]_tvars PROVE TargetTypes'
  OBVIOUS
<1> USE DEF line, In
<1>1. target' = target
  BY DEF TargetNext, ReadMethod, ReadVersion, PathChar, PathEnds, PathRefused, QueryBegins,
         KeyEnd, ArgEnd, QueryChar, QueryEnds, QueryTooLong, QueryTooLongAtEnd, RunsOn, tvars
<1>2. Nul \in Chars /\ Len(buf) \in Nat /\ Len(target) \in Nat
  <2>1. buf \in Seq(Chars) /\ target \in Seq(Classes)
    BY DEF TargetTypes
  <2> QED BY <2>1, LenProperties DEF Chars
<1>3. Append(buf, Nul) \in Seq(Chars) /\ Len(Append(buf, Nul)) = Len(buf) + 1
  BY <1>2, AppendProperties DEF TargetTypes
<1>4. CASE UNCHANGED tvars
  BY <1>4 DEF tvars, TargetTypes
<1>5. CASE ReadMethod \/ ReadVersion \/ PathRefused \/ QueryTooLongAtEnd \/ RunsOn
  BY <1>1, <1>5
     DEF ReadMethod, ReadVersion, PathRefused, QueryTooLongAtEnd, RunsOn, TargetTypes, Copying
<1>6. CASE PathChar \/ QueryChar \/ QueryTooLong
  <2>1. (CopyOne /\ at <= Len(target)) \/ UNCHANGED <<buf, at>>
    <3>1. at \in Nat
      BY DEF TargetTypes
    <3> QED BY <1>2, <1>6, <3>1 DEF PathChar, QueryChar, QueryTooLong, AtEnd
  <2>2. /\ UNCHANGED <<query, pathLen, keyFound>>
        /\ place' \in {place, "refused"}
    BY <1>6 DEF PathChar, QueryChar, QueryTooLong
  <2>3. buf' \in Seq(Chars) /\ at' \in Nat \ {0}
    BY <2>1, OneCopied DEF TargetTypes
  <2> QED BY <1>1, <2>2, <2>3 DEF TargetTypes
<1>7. CASE PathEnds \/ QueryEnds
  BY <1>1, <1>2, <1>3, <1>7 DEF PathEnds, QueryEnds, Put, Written, TargetTypes
<1>8. CASE QueryBegins
  <2>1. Len(buf') \in Nat /\ [key |-> Len(buf'), val |-> Null] \in Entries
    BY <1>3, <1>2, <1>8 DEF QueryBegins, Put, Entries, Null
  <2>2. query' \in Seq(Entries)
    BY <1>8, <2>1 DEF QueryBegins
  <2> QED BY <1>1, <1>2, <1>3, <1>8, <2>2 DEF QueryBegins, Put, Written, TargetTypes, Copying
<1>9. CASE KeyEnd
  <2>1. Len(buf') \in Nat
    BY <1>2, <1>3, <1>9 DEF KeyEnd, Put
  <2>2. query' \in Seq(Entries)
    <3>1. query \in Seq(Entries) /\ query # <<>>
      BY <1>9 DEF KeyEnd, InQuery, TargetTypes
    <3>2. \A n \in Nat : [query EXCEPT ![Len(query)].val = n] \in Seq(Entries)
      BY <3>1, Pointers
    <3> QED BY <1>9, <2>1, <3>2 DEF KeyEnd
  <2>3. /\ buf' = Append(buf, Nul) /\ at' = at + 1 /\ keyFound' \in BOOLEAN
        /\ UNCHANGED <<pathLen, place>>
    BY <1>9 DEF KeyEnd, Put
  <2>4. at' \in Nat \ {0}
    <3>1. at \in Nat
      BY DEF TargetTypes
    <3> QED BY <2>3, <3>1
  <2>5. buf' \in Seq(Chars)
    BY <1>3, <2>3
  <2> QED BY <1>1, <2>2, <2>3, <2>4, <2>5 DEF TargetTypes
<1>10. CASE ArgEnd
  <2>1. Len(buf') \in Nat /\ [key |-> Len(buf'), val |-> Null] \in Entries
    BY <1>3, <1>2, <1>10 DEF ArgEnd, Put, Entries, Null
  <2>2. query' \in Seq(Entries)
    BY <1>10, <2>1, Pointers DEF ArgEnd, TargetTypes
  <2> QED BY <1>1, <1>3, <1>10, <2>2 DEF ArgEnd, Put, TargetTypes
<1> QED BY <1>4, <1>5, <1>6, <1>7, <1>8, <1>9, <1>10 DEF TargetNext

\* What is written keeps behind what is read, and inside the buffer.
LEMMA InBufferKept == TargetTypes /\ InBuffer /\ [TargetNext]_tvars => InBuffer'
<1> SUFFICES ASSUME TargetTypes, InBuffer, [TargetNext]_tvars PROVE InBuffer'
  OBVIOUS
<1> USE TargetAssumption DEF line, In
<1>1. target' = target
  BY DEF TargetNext, ReadMethod, ReadVersion, PathChar, PathEnds, PathRefused, QueryBegins,
         KeyEnd, ArgEnd, QueryChar, QueryEnds, QueryTooLong, QueryTooLongAtEnd, RunsOn, tvars
<1>2. /\ Len(buf) \in Nat /\ Len(target) \in Nat /\ at \in Nat
      /\ Len(Append(buf, Nul)) = Len(buf) + 1
  <2>1. buf \in Seq(Chars) /\ target \in Seq(Classes) /\ at \in Nat /\ Nul \in Chars
    BY DEF TargetTypes, Chars
  <2> QED BY <2>1, LenProperties, AppendProperties
<1>3. CASE UNCHANGED tvars
  BY <1>3 DEF tvars, InBuffer
<1>4. CASE ReadMethod \/ ReadVersion \/ PathRefused \/ QueryTooLongAtEnd \/ RunsOn
  BY <1>1, <1>4
     DEF ReadMethod, ReadVersion, PathRefused, QueryTooLongAtEnd, RunsOn, InBuffer, Copying
<1>5. CASE PathChar \/ QueryChar \/ (QueryTooLong /\ CopyOne)
  <2>1. CopyOne /\ at <= Len(target) /\ place \in Copying
    BY <1>2, <1>5 DEF PathChar, QueryChar, QueryTooLong, AtEnd, Copying
  <2>2. Len(buf') = Len(buf) + 1 /\ at' \in Nat /\ at < at'
    BY <2>1, OneCopied
  <2>3. Len(buf) < at /\ Len(buf) <= MaxPathLen
    BY <2>1 DEF InBuffer
  <2>4. (place' = place /\ Len(buf) < MaxPathLen) \/ place' = "refused"
    BY <1>2, <1>5 DEF PathChar, QueryChar, QueryTooLong, RoomInPath, RoomInQuery, Written
  <2> QED BY <1>1, <1>2, <2>1, <2>2, <2>3, <2>4 DEF InBuffer, Copying
<1>6. CASE QueryTooLong /\ ~CopyOne
  BY <1>1, <1>6 DEF QueryTooLong, InBuffer, Copying
<1>7. CASE PathEnds \/ QueryEnds
  <2>1. /\ buf' = Append(buf, Nul) /\ at = Len(target) + 1 /\ place' = "version"
        /\ place \in Copying /\ Len(buf) < MaxPathLen
    BY <1>2, <1>7 DEF PathEnds, QueryEnds, Put, RoomInPath, RoomInQuery, Written, Copying
  <2> QED BY <1>1, <1>2, <2>1 DEF InBuffer, Copying
<1>8. CASE QueryBegins \/ KeyEnd \/ ArgEnd
  <2>1. /\ buf' = Append(buf, Nul) /\ at' = at + 1
        /\ place \in Copying /\ Len(buf) < MaxPathLen
    BY <1>2, <1>8 DEF QueryBegins, KeyEnd, ArgEnd, Put, RoomInPath, RoomInQuery, Written, Copying
  <2> QED BY <1>1, <1>2, <2>1 DEF InBuffer, Copying
<1> QED BY <1>3, <1>4, <1>5, <1>6, <1>7, <1>8 DEF TargetNext

\* Every entry of the query stands for the question mark or for one separator.
LEMMA InQueryKept ==
    ASSUME TargetTypes, InQuery, [TargetNext]_tvars
    PROVE  InQuery'
<1> USE DEF line, In
<1>1. target' = target
  BY DEF TargetNext, ReadMethod, ReadVersion, PathChar, PathEnds, PathRefused, QueryBegins,
         KeyEnd, ArgEnd, QueryChar, QueryEnds, QueryTooLong, QueryTooLongAtEnd, RunsOn, tvars
<1>2. /\ target \in Seq(Classes) /\ at \in Nat /\ at' \in Nat
      /\ query \in Seq(Entries) /\ Len(query) \in Nat
  BY TypesKept, LenProperties DEF TargetTypes
<1>3. at <= at'
  <2>1. CopyOne => at <= at'
    BY <1>2 DEF CopyOne
  <2>2. CopyOne \/ at' \in {at, at + 1}
    BY DEF TargetNext, ReadMethod, ReadVersion, PathChar, PathEnds, PathRefused, QueryBegins,
           KeyEnd, ArgEnd, QueryChar, QueryEnds, QueryTooLong, QueryTooLongAtEnd, RunsOn, tvars
  <2> QED BY <1>2, <2>1, <2>2
<1>4. /\ Cardinality(Separators) \in Nat /\ Cardinality(Separators') \in Nat
      /\ Cardinality(Separators) <= Cardinality(Separators')
      /\ at \in Occurs(target, "&") /\ at < at' =>
             Cardinality(Separators) < Cardinality(Separators')
  BY <1>1, <1>2, <1>3, SeparatorsGrow
<1>5. CASE /\ query' = query
           /\ place' \notin {"method", "query"} \/ place' = place
           /\ place' = "path" => place \in {"method", "path"}
  <2>1. Len(query') <= Cardinality(Separators') + 1
    BY <1>2, <1>4, <1>5 DEF InQuery
  <2>2. place' \in {"method", "path"} => query' = <<>>
    BY <1>5 DEF InQuery
  <2>3. place' = "query" => query' # <<>>
    BY <1>5 DEF InQuery
  <2> QED BY <2>1, <2>2, <2>3 DEF InQuery
<1>6. CASE QueryBegins
  <2>1. Len(query') = 1 /\ query' # <<>> /\ place' = "query"
    BY <1>6 DEF QueryBegins
  <2> QED BY <1>4, <2>1 DEF InQuery
<1>7. CASE KeyEnd
  <2>1. place = "query" /\ place' = "query" /\ query # <<>>
    BY <1>7 DEF KeyEnd, InQuery
  <2>2. \A n \in Nat : Len([query EXCEPT ![Len(query)].val = n]) = Len(query)
    BY <1>2, <2>1, Pointers
  <2>3. Len(buf') \in Nat
    BY TypesKept, LenProperties DEF TargetTypes
  <2>4. Len(query') = Len(query) /\ query' \in Seq(Entries)
    BY <1>7, <2>2, <2>3, TypesKept DEF KeyEnd, TargetTypes
  <2>5. query' # <<>>
    BY <1>2, <2>1, <2>4, EmptySeq
  <2> QED BY <1>2, <1>4, <2>1, <2>4, <2>5 DEF InQuery
<1>8. CASE ArgEnd
  <2>1. place = "query" /\ place' = "query" /\ at' = at + 1
    BY <1>8 DEF ArgEnd
  <2>2. [key |-> Len(buf'), val |-> Null] \in Entries
    BY TypesKept, LenProperties DEF TargetTypes, Entries, Null
  <2>3. Len(query') = Len(query) + 1 /\ query' # <<>>
    BY <1>2, <1>8, <2>2, AppendProperties DEF ArgEnd
  <2>4. at \in Occurs(target, "&")
    <3>1. at \in 1 .. Len(target) /\ target[at] = "&"
      BY <1>2, <1>8, LenProperties DEF ArgEnd, AtEnd, Ahead, TargetTypes
    <3> QED BY <1>2, <3>1, LenProperties DEF Occurs
  <2> QED BY <1>2, <1>4, <2>1, <2>3, <2>4 DEF InQuery
<1> QED
  BY <1>5, <1>6, <1>7, <1>8
     DEF TargetNext, ReadMethod, ReadVersion, PathChar, PathEnds, PathRefused, QueryChar,
         QueryEnds, QueryTooLong, QueryTooLongAtEnd, RunsOn, tvars

\* The parser keeps to its buffer, for every request line.
THEOREM TargetInvariant == TargetSpec => []TargetInv
<1>1. TargetInit => TargetInv
  <2> SUFFICES ASSUME TargetInit PROVE TargetInv
    OBVIOUS
  <2>1. target \in Seq(Classes)
    BY TargetAssumption DEF TargetInit, Targets, BoundedSeq, SeqOf
  <2>2. /\ <<>> \in Seq(Chars) /\ <<>> \in Seq(Entries) /\ Len(<<>>) = 0
        /\ place = "method" /\ at = 1 /\ buf = <<>> /\ query = <<>>
    BY EmptySeq DEF TargetInit
  <2>3. TargetTypes
    <3>1. pathLen = 0 /\ keyFound \in BOOLEAN
      BY DEF TargetInit, Null
    <3> QED BY <2>1, <2>2, <3>1 DEF TargetTypes, Copying
  <2>4. Separators \subseteq Occurs(target, "&")
    BY DEF Separators
  <2>5. Cardinality(Separators) \in Nat
    BY <2>1, <2>4, FinitelyMany
  <2>6. InBuffer
    BY <2>2, TargetAssumption DEF InBuffer
  <2>7. InQuery
    BY <2>2, <2>5 DEF InQuery
  <2> QED BY <2>3, <2>6, <2>7 DEF TargetInv
<1>2. TargetInv /\ [TargetNext]_tvars => TargetInv'
  BY TypesKept, InBufferKept, InQueryKept DEF TargetInv
<1> QED BY <1>1, <1>2, PTL DEF TargetSpec

\* InsideUrl: get_http_path never writes more than one character behind its buffer, and
\* none for a target that fits, and no entry too many.
THEOREM NeverOutsideUrl == TargetSpec => []InsideUrl
<1>1. TargetInv => InsideUrl
  <2> SUFFICES ASSUME TargetInv, Cardinality(Occurs(target, "&")) < MaxArgs
               PROVE  Len(query) <= MaxArgs
    BY DEF TargetInv, InBuffer, InsideUrl
  <2>1. target \in Seq(Classes) /\ Len(query) \in Nat
    BY LenProperties DEF TargetInv, TargetTypes
  <2>2. Separators \subseteq Occurs(target, "&")
    BY DEF Separators
  <2>3. /\ IsFiniteSet(Occurs(target, "&")) /\ Cardinality(Occurs(target, "&")) \in Nat
        /\ Cardinality(Separators) \in Nat
    BY <2>1, <2>2, FinitelyMany
  <2>4. Cardinality(Separators) <= Cardinality(Occurs(target, "&"))
    BY <2>2, <2>3, FS_Subset
  <2> QED BY <2>1, <2>3, <2>4, TargetAssumption DEF TargetInv, InQuery
<1> QED BY <1>1, TargetInvariant, PTL
-----------------------------------------------------------------------------
(* What is refused *)

\* A request line nothing is wrong with, and short enough.
Fine == Acceptable /\ Len(target) < MaxPathLen - 1

\* Such a line is read to its end and no further, in whole escapes, and the path ends
\* at the first question mark.
Accepting ==
    Fine => /\ place \in Copying \cup {"version", "parsed"}
            /\ at <= Len(target) + 1
            /\ place \in {"method", "path"} => \A i \in 1 .. at - 1 : target[i] # "?"


\* The first occurrence is one, and no other comes before it.
LEMMA FirstOccurrence ==
    ASSUME NEW S, NEW s \in Seq(S), NEW c
    PROVE  /\ FirstOf(s, c) \in 1 .. Len(s) + 1
           /\ FirstOf(s, c) <= Len(s) => s[FirstOf(s, c)] = c
           /\ \A i \in 1 .. Len(s) : s[i] = c => FirstOf(s, c) <= i
<1>1. Len(s) \in Nat /\ DOMAIN s = 1 .. Len(s)
  BY LenProperties
<1>2. CASE Occurs(s, c) = {}
  BY <1>1, <1>2 DEF FirstOf, Occurs
<1>3. CASE Occurs(s, c) # {}
  <2>1. Occurs(s, c) \subseteq Nat
    BY <1>1 DEF Occurs
  <2>2. \E i \in Occurs(s, c) : \A j \in Occurs(s, c) : i <= j
    BY <1>3, <2>1, Smallest
  <2>3. /\ FirstOf(s, c) \in Occurs(s, c)
        /\ \A j \in Occurs(s, c) : FirstOf(s, c) <= j
    BY <1>3, <2>2 DEF FirstOf
  <2> QED BY <1>1, <2>3 DEF Occurs
<1> QED BY <1>2, <1>3

\* A fine line keeps every reason to refuse it away.
LEMMA AcceptingKept ==
    ASSUME TargetInv, Accepting, [TargetNext]_tvars
    PROVE  Accepting'
<1> USE DEF line, In
<1>1. UNCHANGED line
  BY DEF TargetNext, ReadMethod, ReadVersion, PathChar, PathEnds, PathRefused, QueryBegins,
         KeyEnd, ArgEnd, QueryChar, QueryEnds, QueryTooLong, QueryTooLongAtEnd, RunsOn, tvars
<1>2. Fine' => Fine
  BY <1>1 DEF Fine, Acceptable, WellEscaped, PathPart
<1> SUFFICES ASSUME Fine
             PROVE  /\ place' \in Copying \cup {"version", "parsed"}
                    /\ at' <= Len(target) + 1
                    /\ place' \in {"method", "path"} => \A i \in 1 .. at' - 1 : target[i] # "?"
  BY <1>1, <1>2 DEF Accepting
<1>3. /\ target \in Seq(Classes) /\ at \in Nat \ {0} /\ Len(target) \in Nat
      /\ DOMAIN target = 1 .. Len(target)
      /\ Len(buf) \in Nat
  BY LenProperties DEF TargetInv, TargetTypes
<1>4. /\ place \in Copying \cup {"version", "parsed"}
      /\ at <= Len(target) + 1
      /\ place \in {"method", "path"} => \A i \in 1 .. at - 1 : target[i] # "?"
  BY DEF Accepting
<1>5. InLine /\ ~PastTheEnd /\ method \in KnownMethods /\ version = "HTTP/"
  BY <1>3, <1>4 DEF Fine, Acceptable, InLine, PastTheEnd
<1>6. place \in Copying => RoomInPath /\ RoomInQuery
  BY <1>3, <1>4, TargetAssumption DEF TargetInv, InBuffer, Fine, RoomInPath, RoomInQuery, Written
<1>7. CASE UNCHANGED tvars
  BY <1>4, <1>7 DEF tvars
<1>8. CASE ReadMethod \/ ReadVersion
  BY <1>4, <1>5, <1>8 DEF ReadMethod, ReadVersion, Copying
<1>9. CASE PathEnds \/ QueryEnds
  BY <1>4, <1>9 DEF PathEnds, QueryEnds
<1>10. CASE QueryBegins \/ KeyEnd \/ ArgEnd
  <2>1. at' = at + 1 /\ place' = "query" /\ at <= Len(target)
    BY <1>3, <1>10 DEF QueryBegins, KeyEnd, ArgEnd, AtEnd
  <2> QED BY <1>3, <2>1 DEF Copying
<1>11. CASE PathChar \/ QueryChar
  <2>1. CopyOne /\ place' = place /\ place \in Copying /\ at <= Len(target) /\ place # "method"
    BY <1>3, <1>11 DEF PathChar, QueryChar, AtEnd, Copying
  <2>2. CASE Ahead = "%"
    <3>1. at \in Occurs(target, "%")
      BY <1>3, <2>1, <2>2 DEF Ahead, Occurs
    <3>2. at + 2 <= Len(target) /\ target[at + 1] = "h" /\ target[at + 2] = "h"
      BY <3>1 DEF Fine, Acceptable, WellEscaped
    <3>3. at' = at + 3 /\ target[at] # "?"
      BY <2>1, <2>2 DEF CopyOne, Ahead
    <3>4. \A i \in 1 .. at' - 1 : i \in 1 .. at - 1 \/ i \in {at, at + 1, at + 2}
      BY <1>3, <3>3
    <3> QED BY <1>3, <1>4, <2>1, <3>2, <3>3, <3>4
  <2>3. CASE Ahead # "%"
    <3>1. at' = at + 1
      BY <2>1, <2>3 DEF CopyOne
    <3>2. \A i \in 1 .. at' - 1 : i \in 1 .. at - 1 \/ i = at
      BY <1>3, <3>1
    <3>3. place = "path" => target[at] # "?"
      BY <1>11 DEF PathChar, QueryChar, Ahead
    <3> QED BY <1>3, <1>4, <2>1, <3>1, <3>2, <3>3
  <2> QED BY <2>2, <2>3
<1>12. ~PathRefused
  <2> SUFFICES ASSUME PathRefused PROVE FALSE
    OBVIOUS
  <2>1. place = "path" /\ at \in 1 .. Len(target) /\ target[at] \in {"=", "&", "!"}
    BY <1>3, <1>5, <1>6 DEF PathRefused, AtEnd, Ahead, Copying
  <2> DEFINE f == FirstOf(target, "?")
  <2>2. f \in 1 .. Len(target) + 1 /\ (f <= Len(target) => target[f] = "?")
    BY <1>3, FirstOccurrence
  <2>3. at < f
    BY <1>3, <1>4, <2>1, <2>2
  <2> HIDE DEF f
  <2>4. /\ DOMAIN SubSeq(target, 1, f - 1) = 1 .. f - 1
        /\ SubSeq(target, 1, f - 1)[at] = target[at]
    BY <1>3, <2>1, <2>2, <2>3
  <2>5. at \in DOMAIN PathPart /\ PathPart[at] = target[at]
    BY <2>1, <2>3, <2>4, <2>2 DEF PathPart, f
  <2>6. at \notin Occurs(PathPart, "=") /\ at \notin Occurs(PathPart, "&")
        /\ at \notin Occurs(PathPart, "!")
    BY DEF Fine, Acceptable
  <2> QED BY <2>1, <2>5, <2>6 DEF Occurs
<1>13. ~QueryTooLong /\ ~QueryTooLongAtEnd /\ ~RunsOn
  BY <1>5, <1>6 DEF QueryTooLong, QueryTooLongAtEnd, RunsOn, Copying
<1> QED BY <1>7, <1>8, <1>9, <1>10, <1>11, <1>12, <1>13 DEF TargetNext

\* RefusedForAReason: a request line that is refused has something wrong, or is too long
\* for url_t::path.
THEOREM RefusalsHaveReasons == TargetSpec => []RefusedForAReason
<1>1. TargetInit => Accepting
  <2> SUFFICES ASSUME TargetInit PROVE Accepting
    OBVIOUS
  <2>1. at = 1 /\ place = "method" /\ target \in Seq(Classes)
    BY TargetAssumption DEF TargetInit, Targets, BoundedSeq, SeqOf
  <2>2. Len(target) \in Nat
    BY <2>1, LenProperties
  <2> QED BY <2>1, <2>2 DEF Accepting, Copying
<1>2. TargetInv /\ Accepting /\ [TargetNext]_tvars => Accepting'
  BY AcceptingKept
<1>3. Accepting => RefusedForAReason
  BY DEF Accepting, Fine, RefusedForAReason, In, Copying
<1> QED BY <1>1, <1>2, <1>3, TargetInvariant, PTL DEF TargetSpec
-----------------------------------------------------------------------------
(* Counting off a set of positions *)

\* The k-th element of K.
Nth(K, k) == CHOOSE j \in K : Cardinality({l \in K : l <= j}) = k

\* Sets of positions are finite.
LEMMA FinitePositions ==
    ASSUME NEW m \in Nat, NEW K, K \subseteq 1 .. m
    PROVE  IsFiniteSet(K) /\ Cardinality(K) \in Nat
<1>1. IsFiniteSet(1 .. m)
  BY FS_Interval
<1> QED BY <1>1, FS_Subset, FS_CardinalityType

\* There is one for every k up to their number.
LEMMA NthExists ==
    ASSUME NEW m \in Nat, NEW K, K \subseteq 1 .. m, NEW k \in 1 .. Cardinality(K)
    PROVE  Nth(K, k) \in K
<1> DEFINE Upto(j) == {l \in K : l <= j}
           N(j) == Cardinality(Upto(j))
           T == {j \in 0 .. m : N(j) >= k}
<1>0. \A l \in K : l \in Nat /\ 0 < l /\ l <= m
  OBVIOUS
<1>1. \A j \in Int : IsFiniteSet(Upto(j)) /\ N(j) \in Nat
  <2> SUFFICES ASSUME NEW j \in Int PROVE IsFiniteSet(Upto(j)) /\ N(j) \in Nat
    OBVIOUS
  <2>1. Upto(j) \subseteq 1 .. m
    OBVIOUS
  <2> HIDE DEF Upto
  <2> QED BY <2>1, FinitePositions
<1>2. Cardinality(K) \in Nat /\ k \in Nat /\ k # 0
  <2>1. Cardinality(K) \in Nat
    BY FinitePositions
  <2> QED BY <2>1
<1>3. N(0) = 0 /\ N(m) = Cardinality(K)
  <2>1. Upto(0) = {}
    <3>1. \A l \in K : ~(l <= 0)
      BY <1>0
    <3> QED BY <3>1
  <2>2. Upto(m) = K
    BY <1>0
  <2> QED BY <2>1, <2>2, FS_EmptySet
<1>4. ASSUME NEW j \in 1 .. m PROVE N(j) = IF j \in K THEN N(j - 1) + 1 ELSE N(j - 1)
  <2>1. Upto(j) = IF j \in K THEN Upto(j - 1) \cup {j} ELSE Upto(j - 1)
    <3>1. \A l \in K : l <= j <=> l <= j - 1 \/ l = j
      BY <1>0
    <3> QED BY <1>0, <3>1
  <2>2. j \notin Upto(j - 1) /\ j - 1 \in Int
    OBVIOUS
  <2> HIDE DEF Upto
  <2>3. Cardinality(Upto(j - 1) \cup {j}) = Cardinality(Upto(j - 1)) + 1
    BY <1>1, <2>2, FS_AddElement
  <2> QED BY <2>1, <2>3
<1> HIDE DEF N
<1>5. PICK j \in T : \A t \in T : j <= t
  <2>1. m \in T
    BY <1>2, <1>3
  <2>2. T \subseteq Nat
    OBVIOUS
  <2> HIDE DEF T
  <2> QED BY <2>1, <2>2, Smallest
<1>6. j # 0
  BY <1>2, <1>3, <1>5
<1>7. j \in 1 .. m /\ j - 1 \in 0 .. m /\ j - 1 \notin T /\ N(j) >= k
  BY <1>5, <1>6
<1>8. N(j - 1) < k /\ N(j - 1) \in Nat /\ N(j) \in Nat
  <2>0. j - 1 \in Int /\ j \in Int
    BY <1>7
  <2>1. N(j - 1) \in Nat /\ N(j) \in Nat
    <3> HIDE DEF Upto
    <3> QED BY <1>1, <2>0 DEF N
  <2> QED BY <1>2, <1>7, <2>1
<1>9. j \in K /\ N(j) = k
  BY <1>2, <1>4, <1>7, <1>8
<1> QED BY <1>9 DEF Nth, N

\* A new one behind the others.
LEMMA NthGrows ==
    ASSUME NEW m \in Nat, NEW K, K \subseteq 1 .. m
    PROVE  /\ Cardinality(K \cup {m + 1}) = Cardinality(K) + 1
           /\ \A k \in 1 .. Cardinality(K) : Nth(K \cup {m + 1}, k) = Nth(K, k)
           /\ Nth(K \cup {m + 1}, Cardinality(K) + 1) = m + 1
<1> DEFINE L == K \cup {m + 1}
           n == Cardinality(K)
<1>0. \A l \in K : l \in Nat /\ 0 < l /\ l <= m
  OBVIOUS
<1>1. IsFiniteSet(K) /\ n \in Nat /\ m + 1 \notin K
  <2>1. m + 1 \notin K
    BY <1>0
  <2> QED BY <2>1, FinitePositions
<1>2. Cardinality(L) = n + 1
  BY <1>1, FS_AddElement
<1>3. ASSUME NEW j \in K PROVE {l \in L : l <= j} = {l \in K : l <= j}
  BY <1>0
<1>4. ASSUME NEW j \in K
      PROVE  Cardinality({l \in K : l <= j}) <= n /\ Cardinality({l \in K : l <= j}) \in Nat
  BY <1>1, FS_Subset, FS_CardinalityType
<1>5. {l \in L : l <= m + 1} = L
  <2>1. \A l \in L : l <= m + 1
    BY <1>0
  <2> HIDE DEF L
  <2> QED BY <2>1
<1>6. ASSUME NEW k \in 1 .. n PROVE Nth(L, k) = Nth(K, k)
  <2>1. \A j : (j \in L /\ Cardinality({l \in L : l <= j}) = k)
               <=> (j \in K /\ Cardinality({l \in K : l <= j}) = k)
    <3> SUFFICES ASSUME NEW j \in L
                 PROVE  Cardinality({l \in L : l <= j}) = k
                        <=> j \in K /\ Cardinality({l \in K : l <= j}) = k
      OBVIOUS
    <3>1. CASE j \in K
      BY <1>3, <3>1
    <3>2. CASE j = m + 1
      <4>1. Cardinality({l \in L : l <= j}) = n + 1 /\ j \notin K
        BY <1>1, <1>2, <1>5, <3>2
      <4>2. n + 1 # k
        BY <1>1
      <4> HIDE DEF L, n
      <4> QED BY <4>1, <4>2
    <3> QED BY <3>1, <3>2
  <2> HIDE DEF L, n
  <2> QED BY <2>1 DEF Nth
<1>7. Nth(L, n + 1) = m + 1
  <2>1. \A j \in L : Cardinality({l \in L : l <= j}) = n + 1 <=> j = m + 1
    <3> SUFFICES ASSUME NEW j \in L
                 PROVE  Cardinality({l \in L : l <= j}) = n + 1 <=> j = m + 1
      OBVIOUS
    <3>1. CASE j \in K
      <4>1. Cardinality({l \in L : l <= j}) <= n /\ Cardinality({l \in L : l <= j}) \in Nat
        BY <1>3, <1>4, <3>1
      <4>2. j # m + 1
        BY <1>1, <3>1
      <4> HIDE DEF L, n
      <4> QED BY <1>1, <4>1, <4>2
    <3>2. CASE j = m + 1
      BY <1>2, <1>5, <3>2
    <3> QED BY <3>1, <3>2
  <2>2. m + 1 \in L
    OBVIOUS
  <2> HIDE DEF L, n
  <2> QED BY <2>1, <2>2 DEF Nth
<1> QED BY <1>2, <1>6, <1>7
-----------------------------------------------------------------------------
(* What the characters of a target say *)

Letters == Classes \cup {"x"}

\* The characters of s that count, an escape's digits do not, and what one stands for.
Kept(s) == {i \in DOMAIN s : {i - 1, i - 2} \cap Occurs(s, "%") = {}}
Image(c) == IF c = "%" THEN "x" ELSE c

\* The text with its escapes undone, position by position: what is kept, in order.
LEMMA DecodedIs ==
    ASSUME NEW s \in Seq(Classes)
    PROVE  /\ Decoded(s) = [k \in 1 .. Cardinality(Kept(s)) |-> Image(s[Nth(Kept(s), k)])]
           /\ Kept(s) \subseteq 1 .. Len(s) /\ Len(s) \in Nat
           /\ Cardinality(Kept(s)) \in Nat
           /\ Decoded(s) \in Seq(Letters) /\ Len(Decoded(s)) = Cardinality(Kept(s))
<1>1. Len(s) \in Nat /\ DOMAIN s = 1 .. Len(s)
  BY LenProperties
<1>2. Kept(s) \subseteq 1 .. Len(s)
  BY <1>1 DEF Kept
<1>3. Cardinality(Kept(s)) \in Nat
  BY <1>1, <1>2, FinitePositions
<1>4. Decoded(s) = [k \in 1 .. Cardinality(Kept(s)) |-> Image(s[Nth(Kept(s), k)])]
  BY DEF Decoded, Kept, Image, Nth
<1>5. \A k \in 1 .. Cardinality(Kept(s)) : Image(s[Nth(Kept(s), k)]) \in Letters
  <2> SUFFICES ASSUME NEW k \in 1 .. Cardinality(Kept(s))
               PROVE  Image(s[Nth(Kept(s), k)]) \in Letters
    OBVIOUS
  <2>1. Nth(Kept(s), k) \in 1 .. Len(s)
    BY <1>1, <1>2, NthExists
  <2>2. s[Nth(Kept(s), k)] \in Classes
    BY <2>1, ElementOfSeq
  <2> QED BY <2>2 DEF Image, Letters
<1>6. Decoded(s) \in [1 .. Cardinality(Kept(s)) -> Letters]
  <2> DEFINE d == [k \in 1 .. Cardinality(Kept(s)) |-> Image(s[Nth(Kept(s), k)])]
  <2>1. d \in [1 .. Cardinality(Kept(s)) -> Letters]
    BY <1>5
  <2> QED BY <1>4, <2>1
<1>7. Decoded(s) \in Seq(Letters) /\ Len(Decoded(s)) = Cardinality(Kept(s))
  <2> DEFINE d == Decoded(s)
  <2>1. d \in [1 .. Cardinality(Kept(s)) -> Letters]
    BY <1>6
  <2> HIDE DEF d
  <2>2. d \in Seq(Letters) /\ Len(d) = Cardinality(Kept(s))
    BY <1>3, <2>1, SeqDef
  <2> QED BY <2>2 DEF d
<1> QED BY <1>1, <1>2, <1>3, <1>4, <1>7

\* One more character: it is put behind the others, unless it is a digit of an escape.
LEMMA DecodedGrows ==
    ASSUME NEW s \in Seq(Classes), NEW t \in Seq(Classes), Len(t) = Len(s) + 1,
           \A i \in 1 .. Len(s) : t[i] = s[i]
    PROVE  Decoded(t) = IF {Len(s), Len(s) - 1} \cap Occurs(t, "%") = {}
                        THEN Append(Decoded(s), Image(t[Len(s) + 1])) ELSE Decoded(s)
<1> DEFINE m == Len(s)
           new == {m, m - 1} \cap Occurs(t, "%") = {}
           n == Cardinality(Kept(s))
<1>1. m \in Nat /\ DOMAIN s = 1 .. m /\ DOMAIN t = 1 .. m + 1
  BY LenProperties
<1>2. \A i \in 1 .. m : i \in Occurs(s, "%") <=> i \in Occurs(t, "%")
  BY <1>1 DEF Occurs
<1>3. Occurs(s, "%") \subseteq 1 .. m /\ Occurs(t, "%") \subseteq 1 .. m + 1
  BY <1>1 DEF Occurs
<1>4. ASSUME NEW i \in 1 .. m PROVE i \in Kept(s) <=> i \in Kept(t)
  <2>1. \A j \in {i - 1, i - 2} : j \in Occurs(s, "%") <=> j \in Occurs(t, "%")
    <3> SUFFICES ASSUME NEW j \in {i - 1, i - 2}
                 PROVE  j \in Occurs(s, "%") <=> j \in Occurs(t, "%")
      OBVIOUS
    <3>1. j \in 1 .. m \/ (j \notin 1 .. m /\ j \notin 1 .. m + 1)
      BY <1>1
    <3> QED BY <1>2, <1>3, <3>1
  <2>2. i \in DOMAIN s /\ i \in DOMAIN t
    BY <1>1
  <2> QED BY <2>1, <2>2 DEF Kept
<1>5. m + 1 \in Kept(t) <=> new
  <2>1. m + 1 \in DOMAIN t /\ (m + 1) - 1 = m /\ (m + 1) - 2 = m - 1
    BY <1>1
  <2> QED BY <2>1 DEF Kept
<1>6. Kept(s) \subseteq 1 .. m /\ Kept(t) \subseteq 1 .. m + 1
  BY <1>1 DEF Kept
<1>7. Kept(t) = IF new THEN Kept(s) \cup {m + 1} ELSE Kept(s)
  <2>1. \A i \in 1 .. m + 1 : i \in 1 .. m \/ i = m + 1
    BY <1>1
  <2>2. m + 1 \notin 1 .. m
    BY <1>1
  <2>3. \A i : i \in Kept(t) <=> i \in Kept(s) \/ (i = m + 1 /\ new)
    <3> HIDE DEF new, m
    <3> SUFFICES ASSUME NEW i PROVE i \in Kept(t) <=> i \in Kept(s) \/ (i = m + 1 /\ new)
      OBVIOUS
    <3>1. CASE i \in 1 .. m
      BY <1>4, <2>2, <3>1
    <3>2. CASE i = m + 1
      BY <1>5, <1>6, <2>2, <3>2
    <3>3. CASE i \notin 1 .. m + 1
      <4>1. i \notin 1 .. m
        BY <1>1, <3>3 DEF m
      <4>2. i # m + 1
        BY <1>1, <3>3 DEF m
      <4> QED BY <1>6, <3>3, <4>1, <4>2
    <3> QED BY <2>1, <3>1, <3>2, <3>3
  <2> HIDE DEF new, m
  <2>4. CASE new
    BY <2>3, <2>4
  <2>5. CASE ~new
    BY <2>3, <2>5
  <2> QED BY <2>4, <2>5
<1>8. /\ n \in Nat /\ Decoded(s) \in Seq(Letters) /\ Len(Decoded(s)) = n
      /\ \A k \in 1 .. n : Decoded(s)[k] = Image(s[Nth(Kept(s), k)])
  <2>1. /\ Decoded(s) = [k \in 1 .. n |-> Image(s[Nth(Kept(s), k)])]
        /\ n \in Nat /\ Decoded(s) \in Seq(Letters) /\ Len(Decoded(s)) = n
    BY DecodedIs
  <2> HIDE DEF n
  <2> QED BY <2>1
<1>9. \A k \in 1 .. n : Nth(Kept(s), k) \in 1 .. m
  BY <1>1, <1>6, NthExists
<1>10. /\ Decoded(t) \in Seq(Letters) /\ Len(Decoded(t)) = Cardinality(Kept(t))
       /\ \A k \in 1 .. Cardinality(Kept(t)) : Decoded(t)[k] = Image(t[Nth(Kept(t), k)])
  <2>1. /\ Decoded(t) = [k \in 1 .. Cardinality(Kept(t)) |-> Image(t[Nth(Kept(t), k)])]
        /\ Decoded(t) \in Seq(Letters) /\ Len(Decoded(t)) = Cardinality(Kept(t))
    BY DecodedIs
  <2> QED BY <2>1
<1>11. CASE ~new
  <2>1. Kept(t) = Kept(s)
    BY <1>7, <1>11
  <2>2. \A k \in 1 .. n : Decoded(t)[k] = Decoded(s)[k]
    BY <1>8, <1>9, <1>10, <2>1
  <2>3. Len(Decoded(t)) = n /\ Len(Decoded(s)) = n
    BY <1>8, <1>10, <2>1
  <2> HIDE DEF new, n
  <2>4. Decoded(t) = Decoded(s)
    BY <1>8, <1>10, <2>2, <2>3, SeqEqual
  <2> QED BY <1>11, <2>4 DEF new
<1>12. CASE new
  <2> DEFINE c == Image(t[m + 1])
             d == Append(Decoded(s), c)
  <2>1. c \in Letters
    <3>1. t[m + 1] \in Classes
      BY <1>1, ElementOfSeq
    <3> QED BY <3>1 DEF Image, Letters
  <2>2. d \in Seq(Letters) /\ Len(d) = n + 1 /\ d[n + 1] = c /\ \A k \in 1 .. n : d[k] = Decoded(s)[k]
    <3> DEFINE ds == Decoded(s)
    <3>1. ds \in Seq(Letters) /\ Len(ds) = n
      BY <1>8
    <3> HIDE DEF c, n, ds
    <3>2. /\ Append(ds, c) \in Seq(Letters) /\ Len(Append(ds, c)) = n + 1
          /\ Append(ds, c)[n + 1] = c /\ \A k \in 1 .. n : Append(ds, c)[k] = ds[k]
      BY <2>1, <3>1, AppendProperties
    <3> QED BY <3>2 DEF ds
  <2>3. Kept(t) = Kept(s) \cup {m + 1}
    BY <1>7, <1>12
  <2>4. /\ Cardinality(Kept(t)) = n + 1
        /\ \A k \in 1 .. n : Nth(Kept(t), k) = Nth(Kept(s), k)
        /\ Nth(Kept(t), n + 1) = m + 1
    <3> DEFINE K == Kept(s)
    <3>1. m \in Nat /\ K \subseteq 1 .. m
      BY <1>1, <1>6
    <3> HIDE DEF K, m
    <3>2. /\ Cardinality(K \cup {m + 1}) = Cardinality(K) + 1
          /\ \A k \in 1 .. Cardinality(K) : Nth(K \cup {m + 1}, k) = Nth(K, k)
          /\ Nth(K \cup {m + 1}, Cardinality(K) + 1) = m + 1
      BY <3>1, NthGrows
    <3> QED BY <2>3, <3>2 DEF K
  <2>5. Decoded(t)[n + 1] = c
    <3>1. n + 1 \in 1 .. Cardinality(Kept(t))
      <4> HIDE DEF n
      <4> QED BY <1>8, <2>4
    <3> HIDE DEF n
    <3> QED BY <1>10, <2>4, <3>1
  <2>6. \A k \in 1 .. n : Decoded(t)[k] = Decoded(s)[k]
    <3> SUFFICES ASSUME NEW k \in 1 .. n PROVE Decoded(t)[k] = Decoded(s)[k]
      OBVIOUS
    <3>1. k \in 1 .. Cardinality(Kept(t))
      <4> HIDE DEF n
      <4> QED BY <1>8, <2>4
    <3>2. Nth(Kept(t), k) = Nth(Kept(s), k) /\ Nth(Kept(s), k) \in 1 .. m
      BY <1>9, <2>4
    <3>3. t[Nth(Kept(s), k)] = s[Nth(Kept(s), k)]
      BY <3>2
    <3> HIDE DEF n, m
    <3> QED BY <1>8, <1>10, <3>1, <3>2, <3>3
  <2>7. Decoded(t) = d
    <3>1. Len(Decoded(t)) = Len(d) /\ Len(Decoded(t)) = n + 1
      <4> HIDE DEF d, n
      <4> QED BY <1>10, <2>2, <2>4
    <3>2. \A k \in 1 .. n + 1 : k \in 1 .. n \/ k = n + 1
      <4> HIDE DEF n
      <4> QED BY <1>8
    <3>3. \A k \in 1 .. n + 1 : Decoded(t)[k] = d[k]
      <4> HIDE DEF d, n, c
      <4> QED BY <2>2, <2>5, <2>6, <3>2
    <3> HIDE DEF d, n
    <3> QED BY <1>10, <2>2, <3>1, <3>3, SeqEqual
  <2> HIDE DEF new
  <2> QED BY <1>12, <2>7 DEF new
<1> QED BY <1>11, <1>12

\* What the characters of t say from lo up to, and without, hi.
Text(t, lo, hi) == Decoded(SubSeq(t, lo, hi - 1))

\* Position a lies in no escape.
Whole(t, a) == \A i \in Occurs(t, "%") : i # a - 1 /\ i # a - 2

\* A part of a target is text, its escapes undone are letters.
LEMMA TextType ==
    ASSUME NEW t \in Seq(Classes), NEW lo \in Nat \ {0}, NEW hi \in Nat, lo <= hi, hi <= Len(t) + 1
    PROVE  /\ SubSeq(t, lo, hi - 1) \in Seq(Classes) /\ Len(SubSeq(t, lo, hi - 1)) = hi - lo
           /\ \A i \in 1 .. hi - lo : SubSeq(t, lo, hi - 1)[i] = t[lo + i - 1]
           /\ Text(t, lo, hi) \in Seq(Letters) /\ Len(Text(t, lo, hi)) \in Nat
           /\ Text(t, lo, lo) = <<>>
<1>1. Len(t) \in Nat
  BY LenProperties
<1>2. \A i \in lo .. hi - 1 : t[i] \in Classes
  <2>1. \A i \in lo .. hi - 1 : i \in 1 .. Len(t)
    BY <1>1
  <2> QED BY <2>1, ElementOfSeq
<1>3. /\ SubSeq(t, lo, hi - 1) \in Seq(Classes) /\ Len(SubSeq(t, lo, hi - 1)) = hi - lo
      /\ \A i \in 1 .. hi - lo : SubSeq(t, lo, hi - 1)[i] = t[lo + i - 1]
  <2>1. /\ SubSeq(t, lo, hi - 1) \in Seq(Classes)
        /\ Len(SubSeq(t, lo, hi - 1)) = IF lo <= hi - 1 THEN hi - 1 - lo + 1 ELSE 0
        /\ \A i \in 1 .. hi - 1 - lo + 1 : SubSeq(t, lo, hi - 1)[i] = t[lo + i - 1]
    BY <1>2, SubSeqProperties
  <2> QED BY <2>1
<1>4. Text(t, lo, hi) \in Seq(Letters)
  BY <1>3, DecodedIs DEF Text
<1>5. Text(t, lo, lo) = <<>>
  <2>1. SubSeq(t, lo, lo - 1) = <<>>
    BY SubSeqEmpty
  <2>2. <<>> \in Seq(Classes) /\ Kept(<<>>) \subseteq 1 .. 0
    BY EmptySeq, DecodedIs
  <2>3. Kept(<<>>) = {}
    BY <2>2
  <2>4. Len(Decoded(<<>>)) = 0 /\ Decoded(<<>>) \in Seq(Letters)
    BY <2>2, <2>3, DecodedIs, FS_EmptySet
  <2> QED BY <2>1, <2>4, EmptySeq DEF Text
<1> QED BY <1>3, <1>4, <1>5, LenProperties

\* A part that grows by a plain character grows by that character when it is
\* undone.
LEMMA TextGrows ==
    ASSUME NEW t \in Seq(Classes), NEW lo \in Nat \ {0}, NEW hi \in Nat, lo <= hi, hi <= Len(t)
    PROVE  Text(t, lo, hi + 1) =
             IF (lo <= hi - 1 /\ t[hi - 1] = "%") \/ (lo <= hi - 2 /\ t[hi - 2] = "%")
             THEN Text(t, lo, hi) ELSE Append(Text(t, lo, hi), Image(t[hi]))
<1> DEFINE s == SubSeq(t, lo, hi - 1)
           u == SubSeq(t, lo, hi)
           m == hi - lo
<1>0. Len(t) \in Nat /\ hi + 1 \in Nat /\ lo <= hi + 1 /\ hi <= Len(t) + 1 /\ hi + 1 <= Len(t) + 1
  BY LenProperties
<1>1. s \in Seq(Classes) /\ Len(s) = m /\ \A i \in 1 .. m : s[i] = t[lo + i - 1]
  BY <1>0, TextType
<1>2. u \in Seq(Classes) /\ Len(u) = m + 1 /\ \A i \in 1 .. m + 1 : u[i] = t[lo + i - 1]
  <2>1. (hi + 1) - 1 = hi /\ (hi + 1) - lo = m + 1
    OBVIOUS
  <2>2. /\ SubSeq(t, lo, (hi + 1) - 1) \in Seq(Classes)
        /\ Len(SubSeq(t, lo, (hi + 1) - 1)) = (hi + 1) - lo
        /\ \A i \in 1 .. (hi + 1) - lo : SubSeq(t, lo, (hi + 1) - 1)[i] = t[lo + i - 1]
    BY <1>0, TextType
  <2> QED BY <2>1, <2>2
<1>3. m \in Nat /\ u[m + 1] = t[hi]
  <2>1. m \in Nat /\ m + 1 \in 1 .. m + 1 /\ lo + (m + 1) - 1 = hi
    OBVIOUS
  <2> QED BY <1>2, <2>1
<1>4. m \in Occurs(u, "%") <=> lo <= hi - 1 /\ t[hi - 1] = "%"
  <2>1. m \in DOMAIN u <=> lo <= hi - 1
    BY <1>2, <1>3, LenProperties
  <2>2. lo <= hi - 1 => u[m] = t[hi - 1]
    <3>1. lo <= hi - 1 => m \in 1 .. m + 1 /\ lo + m - 1 = hi - 1
      OBVIOUS
    <3> QED BY <1>2, <3>1
  <2> HIDE DEF m, u
  <2> QED BY <2>1, <2>2 DEF Occurs
<1>5. m - 1 \in Occurs(u, "%") <=> lo <= hi - 2 /\ t[hi - 2] = "%"
  <2>1. m - 1 \in DOMAIN u <=> lo <= hi - 2
    BY <1>2, <1>3, LenProperties
  <2>2. lo <= hi - 2 => u[m - 1] = t[hi - 2]
    <3>1. lo <= hi - 2 => m - 1 \in 1 .. m + 1 /\ lo + (m - 1) - 1 = hi - 2
      OBVIOUS
    <3> QED BY <1>2, <3>1
  <2> HIDE DEF m, u
  <2> QED BY <2>1, <2>2 DEF Occurs
<1>6. \A i \in 1 .. m : u[i] = s[i]
  <2>1. \A i \in 1 .. m : i \in 1 .. m + 1
    BY <1>3
  <2> HIDE DEF s, u, m
  <2> QED BY <1>1, <1>2, <2>1
<1>7. Decoded(u) = IF {m, m - 1} \cap Occurs(u, "%") = {}
                   THEN Append(Decoded(s), Image(u[m + 1])) ELSE Decoded(s)
  <2> HIDE DEF s, u, m
  <2>1. Len(u) = Len(s) + 1 /\ \A i \in 1 .. Len(s) : u[i] = s[i]
    BY <1>1, <1>2, <1>6
  <2>2. Decoded(u) = IF {Len(s), Len(s) - 1} \cap Occurs(u, "%") = {}
                     THEN Append(Decoded(s), Image(u[Len(s) + 1])) ELSE Decoded(s)
    BY <1>1, <1>2, <2>1, DecodedGrows
  <2> QED BY <1>1, <2>2
<1>8. {m, m - 1} \cap Occurs(u, "%") = {} <=>
         ~((lo <= hi - 1 /\ t[hi - 1] = "%") \/ (lo <= hi - 2 /\ t[hi - 2] = "%"))
  BY <1>4, <1>5
<1>9. Text(t, lo, hi) = Decoded(s) /\ Text(t, lo, hi + 1) = Decoded(u)
  <2>1. (hi + 1) - 1 = hi
    OBVIOUS
  <2> QED BY <2>1 DEF Text
<1> HIDE DEF s, u, m
<1> QED BY <1>3, <1>7, <1>8, <1>9

\* Outside of escapes every character is read as it stands, and an escape as one.
LEMMA TextChar ==
    ASSUME NEW t \in Seq(Classes), NEW lo \in Nat \ {0}, NEW hi \in Nat, lo <= hi, hi <= Len(t),
           Whole(t, hi), t[hi] # "%"
    PROVE  Text(t, lo, hi + 1) = Append(Text(t, lo, hi), t[hi])
<1>1. Len(t) \in Nat /\ DOMAIN t = 1 .. Len(t)
  BY LenProperties
<1>2. ~(lo <= hi - 1 /\ t[hi - 1] = "%") /\ ~(lo <= hi - 2 /\ t[hi - 2] = "%")
  <2>1. lo <= hi - 1 => hi - 1 \in DOMAIN t
    BY <1>1
  <2>2. lo <= hi - 2 => hi - 2 \in DOMAIN t
    BY <1>1
  <2> QED BY <2>1, <2>2 DEF Whole, Occurs
<1>3. Image(t[hi]) = t[hi]
  BY DEF Image
<1> QED BY <1>2, <1>3, TextGrows

\* A part that grows by an escape grows by one character.
LEMMA TextEscape ==
    ASSUME NEW t \in Seq(Classes), NEW lo \in Nat \ {0}, NEW hi \in Nat, lo <= hi, hi <= Len(t),
           Whole(t, hi), t[hi] = "%", WellEscaped(t)
    PROVE  /\ hi + 2 <= Len(t) /\ t[hi + 1] = "h" /\ t[hi + 2] = "h" /\ Whole(t, hi + 3)
           /\ Text(t, lo, hi + 3) = Append(Text(t, lo, hi), "x")
<1>1. Len(t) \in Nat /\ DOMAIN t = 1 .. Len(t)
  BY LenProperties
<1>2. hi + 2 <= Len(t) /\ t[hi + 1] = "h" /\ t[hi + 2] = "h"
  <2>1. hi \in Occurs(t, "%")
    BY <1>1 DEF Occurs
  <2> QED BY <2>1 DEF WellEscaped
<1>3. Whole(t, hi + 3)
  <2>1. (hi + 3) - 1 = hi + 2 /\ (hi + 3) - 2 = hi + 1
    OBVIOUS
  <2> QED BY <1>2, <2>1 DEF Whole, Occurs
<1>4. Text(t, lo, hi + 1) = Append(Text(t, lo, hi), "x")
  <2>1. ~(lo <= hi - 1 /\ t[hi - 1] = "%") /\ ~(lo <= hi - 2 /\ t[hi - 2] = "%")
    <3>1. lo <= hi - 1 => hi - 1 \in DOMAIN t
      BY <1>1
    <3>2. lo <= hi - 2 => hi - 2 \in DOMAIN t
      BY <1>1
    <3> QED BY <3>1, <3>2 DEF Whole, Occurs
  <2>2. Image(t[hi]) = "x"
    BY DEF Image
  <2> QED BY <2>1, <2>2, TextGrows
<1>5. Text(t, lo, hi + 2) = Text(t, lo, hi + 1)
  <2> DEFINE h == hi + 1
  <2>1. h \in Nat /\ lo <= h /\ h <= Len(t) /\ lo <= h - 1 /\ h - 1 = hi /\ h + 1 = hi + 2
    BY <1>1, <1>2
  <2> HIDE DEF h
  <2>2. Text(t, lo, h + 1) = Text(t, lo, h)
    BY <2>1, TextGrows
  <2> QED BY <2>1, <2>2 DEF h
<1>6. Text(t, lo, hi + 3) = Text(t, lo, hi + 2)
  <2> DEFINE h == hi + 2
  <2>1. h \in Nat /\ lo <= h /\ h <= Len(t) /\ lo <= h - 2 /\ h - 2 = hi /\ h + 1 = hi + 3
    BY <1>1, <1>2
  <2> HIDE DEF h
  <2>2. Text(t, lo, h + 1) = Text(t, lo, h)
    BY <2>1, TextGrows
  <2> QED BY <2>1, <2>2 DEF h
<1> QED BY <1>2, <1>3, <1>4, <1>5, <1>6
-----------------------------------------------------------------------------

\* Ends, for a target t, and the rank of an end among them.
EndsIn(t) == {FirstOf(t, "?"), Len(t) + 1} \cup {i \in Occurs(t, "&") : i > FirstOf(t, "?")}
Rank(t, e) == Cardinality({f \in EndsIn(t) : f <= e})

\* In the buffer b, d stands from pointer p on: with a null character behind it,
\* or as what was written last.
Holds(b, p, d) ==
    /\ d \in Seq(Letters) /\ p \in Nat
    /\ p + Len(d) < Len(b)
    /\ \A i \in 1 .. Len(d) : b[p + i] = d[i]
    /\ b[p + Len(d) + 1] = Nul
Opened(b, p, d) ==
    /\ d \in Seq(Letters) /\ p \in Nat
    /\ p + Len(d) = Len(b)
    /\ \A i \in 1 .. Len(d) : b[p + i] = d[i]

\* No c in t from lo up to, and without, hi.
Free(t, c, lo, hi) == \A i \in lo .. hi - 1 : t[i] # c

\* An entry of the query for the k-th argument of t, which was read to its end.
ClosedArg(t, b, arg, k) ==
    \E e \in EndsIn(t), f \in EndsIn(t), g \in 1 .. Len(t) + 1 :
        /\ Rank(t, e) = k /\ Rank(t, f) = k + 1
        /\ e < g /\ g <= f
        /\ Free(t, "=", e + 1, g)
        /\ Holds(b, arg.key, Text(t, e + 1, g))
        /\ g = f => arg.val = Null
        /\ g # f => t[g] = "=" /\ arg.val # Null /\ Holds(b, arg.val, Text(t, g + 1, f))

\* The same, for one that is read up to position a: in its key, or in its value.
InKey(t, a, b, arg, k) ==
    \E e \in EndsIn(t) :
        /\ Rank(t, e) = k /\ e < a /\ Free(t, "&", e + 1, a)
        /\ Free(t, "=", e + 1, a)
        /\ Opened(b, arg.key, Text(t, e + 1, a))
        /\ arg.val = Null
InVal(t, a, b, arg, k) ==
    \E e \in EndsIn(t), g \in 1 .. Len(t) :
        /\ Rank(t, e) = k /\ e < g /\ g < a /\ Free(t, "&", e + 1, a)
        /\ Free(t, "=", e + 1, g) /\ t[g] = "="
        /\ Holds(b, arg.key, Text(t, e + 1, g))
        /\ arg.val # Null
        /\ Opened(b, arg.val, Text(t, g + 1, a))

\* The path of t is in the buffer, and so are the arguments up to the n-th.
PathRead(t, b, len) ==
    /\ Holds(b, 0, Text(t, 1, FirstOf(t, "?")))
    /\ len = Len(Text(t, 1, FirstOf(t, "?")))
ArgsRead(t, b, q, n) == \A k \in 1 .. n : ClosedArg(t, b, q[k], k)

\* Where the parser stands in t.
Reads(t, a, b, q, len, inKey, here) ==
    /\ here \in {"method", "path", "query"} => a <= Len(t) + 1 /\ Whole(t, a)
    /\ here \in {"method", "path"} => Free(t, "?", 1, a) /\ Opened(b, 0, Text(t, 1, a))
    /\ here \in {"query", "version", "parsed"} => PathRead(t, b, len)
    /\ here = "query" =>
           /\ ArgsRead(t, b, q, Len(q) - 1)
           /\ inKey => InKey(t, a, b, q[Len(q)], Len(q))
           /\ ~inKey => InVal(t, a, b, q[Len(q)], Len(q))
    /\ here \in {"version", "parsed"} =>
           Len(q) = Cardinality(EndsIn(t)) - 1 /\ ArgsRead(t, b, q, Len(q))

Reading ==
    WellEscaped(target) /\ place \notin {"refused", "ran on"} =>
        Reads(target, at, buf, query, pathLen, keyFound, place)
-----------------------------------------------------------------------------
(* The buffer *)

\* A string grows with the buffer it is written to.
LEMMA OpenedGrows ==
    ASSUME NEW b \in Seq(Chars), NEW p, NEW d, Opened(b, p, d), NEW c \in Letters
    PROVE  Opened(Append(b, c), p, Append(d, c))
<1> DEFINE bc == Append(b, c)
           dc == Append(d, c)
<1>1. d \in Seq(Letters) /\ p \in Nat /\ p + Len(d) = Len(b) /\ Len(d) \in Nat /\ Len(b) \in Nat
      /\ \A i \in 1 .. Len(d) : b[p + i] = d[i]
  BY LenProperties DEF Opened
<1>2. c \in Chars
  BY DEF Letters, Chars
<1>3. /\ bc \in Seq(Chars) /\ Len(bc) = Len(b) + 1 /\ bc[Len(b) + 1] = c
      /\ \A i \in 1 .. Len(b) : bc[i] = b[i]
  BY <1>2, AppendProperties
<1>4. /\ dc \in Seq(Letters) /\ Len(dc) = Len(d) + 1 /\ dc[Len(d) + 1] = c
      /\ \A i \in 1 .. Len(d) : dc[i] = d[i]
  BY <1>1, AppendProperties
<1> HIDE DEF bc, dc
<1>5. ASSUME NEW i \in 1 .. Len(dc) PROVE bc[p + i] = dc[i]
  <2>1. CASE i \in 1 .. Len(d)
    <3>1. p + i \in 1 .. Len(b)
      BY <1>1, <2>1
    <3> QED BY <1>1, <1>3, <1>4, <2>1, <3>1
  <2>2. CASE i = Len(d) + 1
    <3>1. p + (Len(d) + 1) = Len(b) + 1
      BY <1>1, SMTT(40)
    <3> QED BY <1>3, <1>4, <2>2, <3>1
  <2> QED BY <1>1, <1>4, <2>1, <2>2
<1>6. p + Len(dc) = Len(bc)
  BY <1>1, <1>3, <1>4
<1>7. Opened(bc, p, dc)
  BY <1>1, <1>4, <1>5, <1>6 DEF Opened
<1> QED BY <1>7 DEF bc, dc

\* What is held stays where it is.
LEMMA HoldsKept ==
    ASSUME NEW b \in Seq(Chars), NEW p, NEW d, Holds(b, p, d), NEW c \in Chars
    PROVE  Holds(Append(b, c), p, d)
<1> DEFINE bc == Append(b, c)
<1>1. d \in Seq(Letters) /\ p \in Nat /\ p + Len(d) < Len(b) /\ Len(d) \in Nat /\ Len(b) \in Nat
      /\ (\A i \in 1 .. Len(d) : b[p + i] = d[i]) /\ b[p + Len(d) + 1] = Nul
  BY LenProperties DEF Holds
<1>2. Len(bc) = Len(b) + 1 /\ \A i \in 1 .. Len(b) : bc[i] = b[i]
  BY AppendProperties
<1> HIDE DEF bc
<1>3. \A i \in 1 .. Len(d) + 1 : p + i \in 1 .. Len(b)
  BY <1>1
<1>4. \A i \in 1 .. Len(d) : bc[p + i] = d[i]
  <2>1. \A i \in 1 .. Len(d) : i \in 1 .. Len(d) + 1
    BY <1>1
  <2> QED BY <1>1, <1>2, <1>3, <2>1
<1>5. bc[p + Len(d) + 1] = Nul
  <2>1. p + Len(d) + 1 \in 1 .. Len(b)
    BY <1>1
  <2> QED BY <1>1, <1>2, <2>1
<1>6. p + Len(d) < Len(bc)
  BY <1>1, <1>2
<1>7. Holds(bc, p, d)
  BY <1>1, <1>4, <1>5, <1>6 DEF Holds
<1> QED BY <1>7 DEF bc

\* A null character ends a string and begins the next one.
LEMMA OpenedEnds ==
    ASSUME NEW b \in Seq(Chars), NEW p, NEW d, Opened(b, p, d)
    PROVE  Holds(Append(b, Nul), p, d)
<1> DEFINE bc == Append(b, Nul)
<1>1. d \in Seq(Letters) /\ p \in Nat /\ p + Len(d) = Len(b) /\ Len(d) \in Nat /\ Len(b) \in Nat
      /\ \A i \in 1 .. Len(d) : b[p + i] = d[i]
  BY LenProperties DEF Opened
<1>2. /\ Len(bc) = Len(b) + 1 /\ bc[Len(b) + 1] = Nul
      /\ \A i \in 1 .. Len(b) : bc[i] = b[i]
  <2>1. Nul \in Chars
    BY DEF Chars
  <2> QED BY <2>1, AppendProperties
<1> HIDE DEF bc
<1>3. \A i \in 1 .. Len(d) : p + i \in 1 .. Len(b)
  BY <1>1
<1>4. \A i \in 1 .. Len(d) : bc[p + i] = d[i]
  BY <1>1, <1>2, <1>3
<1>5. bc[p + Len(d) + 1] = Nul /\ p + Len(d) < Len(bc)
  <2>1. p + Len(d) + 1 = Len(b) + 1
    BY <1>1
  <2> QED BY <1>1, <1>2, <2>1
<1>6. Holds(bc, p, d)
  BY <1>1, <1>4, <1>5 DEF Holds
<1> QED BY <1>6 DEF bc

\* Behind a null character an empty entry begins.
LEMMA OpenedStarts ==
    ASSUME NEW b \in Seq(Chars), NEW c \in Chars
    PROVE  /\ Opened(Append(b, c), Len(Append(b, c)), <<>>)
           /\ Len(Append(b, c)) = Len(b) + 1 /\ Len(Append(b, c)) # Null
           /\ Append(b, c) \in Seq(Chars)
<1>1. /\ Append(b, c) \in Seq(Chars) /\ Len(Append(b, c)) = Len(b) + 1 /\ Len(b) \in Nat
  BY AppendProperties, LenProperties
<1>2. <<>> \in Seq(Letters) /\ Len(<<>>) = 0
  BY EmptySeq
<1>3. Len(Append(b, c)) \in Nat /\ Len(Append(b, c)) # 0
  BY <1>1
<1>4. Opened(Append(b, c), Len(Append(b, c)), <<>>)
  <2> DEFINE bc == Append(b, c)
             d == <<>>
  <2>1. d \in Seq(Letters) /\ Len(d) = 0 /\ Len(bc) \in Nat
    BY <1>2, <1>3
  <2> HIDE DEF bc, d
  <2>2. Opened(bc, Len(bc), d)
    BY <2>1 DEF Opened
  <2> QED BY <2>2 DEF bc, d
<1> QED BY <1>1, <1>3, <1>4 DEF Null

\* What a pointer stands for is what it holds.
LEMMA StringHeld ==
    ASSUME buf \in Seq(Chars), NEW p, NEW d, Holds(buf, p, d)
    PROVE  StringAt(p) = d
<1> DEFINE rest == SubSeq(buf, p + 1, Len(buf))
           n == Len(d)
<1>1. d \in Seq(Letters) /\ p \in Nat /\ p + n < Len(buf) /\ n \in Nat /\ Len(buf) \in Nat
      /\ (\A i \in 1 .. n : buf[p + i] = d[i]) /\ buf[p + n + 1] = Nul
  BY LenProperties DEF Holds
<1>2. /\ rest \in Seq(Chars) /\ Len(rest) = Len(buf) - p
      /\ \A i \in 1 .. Len(buf) - p : rest[i] = buf[p + i]
  <2>1. p + 1 \in Int /\ Len(buf) \in Int /\ \A i \in p + 1 .. Len(buf) : buf[i] \in Chars
    <3>1. \A i \in p + 1 .. Len(buf) : i \in 1 .. Len(buf)
      BY <1>1
    <3> QED BY <1>1, <3>1, ElementOfSeq
  <2>2. /\ rest \in Seq(Chars)
        /\ Len(rest) = IF p + 1 <= Len(buf) THEN Len(buf) - (p + 1) + 1 ELSE 0
        /\ \A i \in 1 .. Len(buf) - (p + 1) + 1 : rest[i] = buf[(p + 1) + i - 1]
    BY <2>1, SubSeqProperties
  <2> HIDE DEF rest, n
  <2> QED BY <1>1, <2>2
<1> HIDE DEF rest, n
<1>3. \A i \in 1 .. n : rest[i] = d[i] /\ d[i] # Nul
  <2>1. \A i \in 1 .. n : i \in 1 .. Len(buf) - p
    BY <1>1
  <2>2. \A i \in 1 .. n : d[i] \in Letters
    BY <1>1, ElementOfSeq DEF n
  <2>3. Nul \notin Letters
    BY DEF Nul, Letters, Classes
  <2> QED BY <1>1, <1>2, <2>1, <2>2, <2>3
<1>4. n + 1 \in 1 .. Len(rest) /\ rest[n + 1] = Nul
  <2>1. n + 1 \in 1 .. Len(buf) - p /\ p + (n + 1) = p + n + 1
    BY <1>1
  <2>2. rest[n + 1] = buf[p + (n + 1)]
    BY <1>2, <2>1
  <2>3. n + 1 \in 1 .. Len(rest)
    BY <1>2, <2>1
  <2> QED BY <1>1, <2>1, <2>2, <2>3
<1>5. FirstOf(rest, Nul) = n + 1
  <2>1. /\ FirstOf(rest, Nul) \in 1 .. Len(rest) + 1
        /\ FirstOf(rest, Nul) <= Len(rest) => rest[FirstOf(rest, Nul)] = Nul
        /\ \A i \in 1 .. Len(rest) : rest[i] = Nul => FirstOf(rest, Nul) <= i
    BY <1>2, FirstOccurrence
  <2>2. FirstOf(rest, Nul) <= n + 1 /\ FirstOf(rest, Nul) <= Len(rest)
    <3>1. FirstOf(rest, Nul) <= n + 1
      BY <1>4, <2>1
    <3>2. Len(rest) \in Nat /\ n + 1 <= Len(rest)
      BY <1>1, <1>2, <1>4
    <3> QED BY <1>1, <2>1, <3>1, <3>2
  <2>3. FirstOf(rest, Nul) \notin 1 .. n
    BY <1>3, <2>1, <2>2
  <2> QED BY <1>1, <1>2, <2>1, <2>2, <2>3
<1>6. SubSeq(rest, 1, n) = d
  <2> DEFINE u == SubSeq(rest, 1, n)
  <2>1. \A i \in 1 .. n : rest[i] \in Letters
    BY <1>1, <1>3, ElementOfSeq DEF n
  <2>2. u \in Seq(Letters) /\ Len(u) = n /\ \A i \in 1 .. n : u[i] = rest[i]
    <3>1. /\ u \in Seq(Letters) /\ Len(u) = IF 1 <= n THEN n - 1 + 1 ELSE 0
          /\ \A i \in 1 .. n - 1 + 1 : u[i] = rest[1 + i - 1]
      BY <1>1, <2>1, SubSeqProperties
    <3> HIDE DEF u
    <3> QED BY <1>1, <3>1
  <2> HIDE DEF u
  <2>3. Len(u) = Len(d) /\ \A i \in 1 .. Len(u) : u[i] = d[i]
    BY <1>3, <2>2 DEF n
  <2>4. u = d
    BY <1>1, <2>2, <2>3, SeqEqual
  <2> QED BY <2>4 DEF u
<1>7. (n + 1) - 1 = n
  BY <1>1
<1> QED BY <1>5, <1>6, <1>7 DEF StringAt, rest
-----------------------------------------------------------------------------
(* The ends of the arguments *)

\* The question mark comes first, the end of the target last.
LEMMA EndsTyped ==
    ASSUME NEW t \in Seq(Classes)
    PROVE  /\ Len(t) \in Nat /\ EndsIn(t) \subseteq 1 .. Len(t) + 1
           /\ FirstOf(t, "?") \in EndsIn(t) /\ Len(t) + 1 \in EndsIn(t)
           /\ \A e \in EndsIn(t) : FirstOf(t, "?") <= e /\ e <= Len(t) + 1 /\ Rank(t, e) \in Nat
           /\ Rank(t, FirstOf(t, "?")) = 1
           /\ Rank(t, Len(t) + 1) = Cardinality(EndsIn(t))
<1>1. Len(t) \in Nat /\ DOMAIN t = 1 .. Len(t)
  BY LenProperties
<1>2. FirstOf(t, "?") \in 1 .. Len(t) + 1
  BY FirstOccurrence
<1>3. \A e \in EndsIn(t) : e \in 1 .. Len(t) + 1 /\ FirstOf(t, "?") <= e /\ e <= Len(t) + 1
  BY <1>1, <1>2 DEF EndsIn, Occurs
<1>4. FirstOf(t, "?") \in EndsIn(t) /\ Len(t) + 1 \in EndsIn(t)
  BY DEF EndsIn
<1>5. \A e \in EndsIn(t) : Rank(t, e) \in Nat
  <2> SUFFICES ASSUME NEW e \in EndsIn(t) PROVE Rank(t, e) \in Nat
    OBVIOUS
  <2> DEFINE K == {f \in EndsIn(t) : f <= e}
             m == Len(t) + 1
  <2>1. m \in Nat /\ K \subseteq 1 .. m
    BY <1>1, <1>3
  <2> HIDE DEF K, m
  <2>2. Cardinality(K) \in Nat
    BY <2>1, FinitePositions
  <2> QED BY <2>2 DEF Rank, K
<1>6. Rank(t, FirstOf(t, "?")) = 1
  <2>1. {f \in EndsIn(t) : f <= FirstOf(t, "?")} = {FirstOf(t, "?")}
    BY <1>2, <1>3, <1>4
  <2> QED BY <2>1, FS_Singleton DEF Rank
<1>7. Rank(t, Len(t) + 1) = Cardinality(EndsIn(t))
  <2>1. {f \in EndsIn(t) : f <= Len(t) + 1} = EndsIn(t)
    BY <1>3
  <2> QED BY <2>1 DEF Rank
<1> QED BY <1>1, <1>3, <1>4, <1>5, <1>6, <1>7

\* Ends are told apart by their ranks.
LEMMA RankUnique ==
    ASSUME NEW t \in Seq(Classes), NEW e \in EndsIn(t), NEW f \in EndsIn(t),
           Rank(t, e) = Rank(t, f)
    PROVE  e = f
<1>1. \A g \in EndsIn(t) : g \in Nat /\ g <= Len(t) + 1
  BY EndsTyped
<1>2. ASSUME NEW g \in EndsIn(t), NEW h \in EndsIn(t), g < h PROVE Rank(t, g) # Rank(t, h)
  <2> DEFINE K == {i \in EndsIn(t) : i <= g}
             H == {i \in EndsIn(t) : i <= h}
             m == Len(t) + 1
  <2>1. m \in Nat /\ H \subseteq 1 .. m
    BY EndsTyped
  <2>2. K \subseteq H /\ h \in H /\ h \notin K
    BY <1>1, <1>2
  <2> HIDE DEF K, H, m
  <2>3. IsFiniteSet(H)
    BY <2>1, FinitePositions
  <2>4. Cardinality(H) # Cardinality(K)
    BY <2>2, <2>3, FS_Subset
  <2> QED BY <2>4 DEF Rank, K, H
<1> QED BY <1>1, <1>2

\* The end that comes next.
LEMMA RankNext ==
    ASSUME NEW t \in Seq(Classes), NEW e \in EndsIn(t), NEW f \in EndsIn(t),
           e < f, Free(t, "&", e + 1, f)
    PROVE  Rank(t, f) = Rank(t, e) + 1
<1> DEFINE K == {i \in EndsIn(t) : i <= e}
           H == {i \in EndsIn(t) : i <= f}
           m == Len(t) + 1
<1>1. /\ \A g \in EndsIn(t) : g \in Nat /\ g <= Len(t) + 1 /\ FirstOf(t, "?") <= g
      /\ Len(t) \in Nat /\ FirstOf(t, "?") \in Nat
  BY EndsTyped
<1>2. ASSUME NEW g \in EndsIn(t), e < g, g < f PROVE FALSE
  <2>1. g # FirstOf(t, "?") /\ g # Len(t) + 1
    BY <1>1, <1>2
  <2>2. g \in Occurs(t, "&")
    BY <2>1 DEF EndsIn
  <2>3. t[g] = "&" /\ g \in e + 1 .. f - 1
    BY <1>1, <1>2, <2>2 DEF Occurs
  <2> QED BY <2>3 DEF Free
<1>3. m \in Nat /\ K \subseteq 1 .. m
  BY EndsTyped
<1>4. \A g : g \in H <=> g \in K \/ g = f
  BY <1>1, <1>2
<1>5. f \notin K
  BY <1>1
<1> HIDE DEF K, H, m
<1>6. H = K \cup {f} /\ IsFiniteSet(K)
  BY <1>3, <1>4, FinitePositions
<1>7. Cardinality(H) = Cardinality(K) + 1
  BY <1>5, <1>6, FS_AddElement
<1> QED BY <1>7 DEF Rank, K, H
-----------------------------------------------------------------------------
(* What is read *)

\* A character, or an escape, is read up to position aa, and the letter c written for it.
Copies(t, a, c, aa) ==
    \/ t[a] = "%" /\ c = "x" /\ aa = a + 3
    \/ t[a] # "%" /\ c = t[a] /\ aa = a + 1

\* One turn of the loops: the character copied is what a plain character or an
\* escape stands for, and the position goes behind it.
LEMMA CopyRead ==
    ASSUME NEW t \in Seq(Classes), NEW a \in 1 .. Len(t), Whole(t, a), WellEscaped(t),
           NEW c, NEW aa, Copies(t, a, c, aa)
    PROVE  /\ c \in Letters /\ aa \in Nat /\ a < aa /\ aa <= Len(t) + 1 /\ Whole(t, aa)
           /\ \A lo \in 1 .. a : Text(t, lo, aa) = Append(Text(t, lo, a), c)
           /\ \A i \in a .. aa - 1 : t[i] \in {t[a], "h"}
<1>1. Len(t) \in Nat /\ t[a] \in Classes
  BY LenProperties, ElementOfSeq
<1>2. CASE t[a] = "%"
  <2>0. c = "x" /\ aa = a + 3
    BY <1>2 DEF Copies
  <2>1. /\ a + 2 <= Len(t) /\ t[a + 1] = "h" /\ t[a + 2] = "h" /\ Whole(t, a + 3)
    <3>1. 1 \in Nat \ {0} /\ 1 <= a /\ a \in Nat /\ a <= Len(t)
      BY <1>1
    <3> QED BY <1>2, <3>1, TextEscape
  <2>2. \A lo \in 1 .. a : Text(t, lo, a + 3) = Append(Text(t, lo, a), "x")
    <3> SUFFICES ASSUME NEW lo \in 1 .. a PROVE Text(t, lo, a + 3) = Append(Text(t, lo, a), "x")
      OBVIOUS
    <3>1. lo \in Nat \ {0} /\ lo <= a /\ a \in Nat /\ a <= Len(t)
      BY <1>1
    <3> QED BY <1>2, <3>1, TextEscape
  <2>3. \A i \in a .. (a + 3) - 1 : i \in {a, a + 1, a + 2}
    BY <1>1
  <2>4. \A i \in a .. aa - 1 : t[i] \in {t[a], "h"}
    BY <2>0, <2>1, <2>3
  <2>5. \A lo \in 1 .. a : Text(t, lo, aa) = Append(Text(t, lo, a), c)
    BY <2>0, <2>2
  <2>6. Whole(t, aa)
    BY <2>0, <2>1
  <2>7. c \in Letters /\ aa \in Nat /\ a < aa /\ aa <= Len(t) + 1
    BY <1>1, <2>0, <2>1 DEF Letters
  <2> QED BY <2>4, <2>5, <2>6, <2>7
<1>3. CASE t[a] # "%"
  <2>0. c = t[a] /\ aa = a + 1
    BY <1>3 DEF Copies
  <2>1. \A lo \in 1 .. a : Text(t, lo, a + 1) = Append(Text(t, lo, a), t[a])
    <3> SUFFICES ASSUME NEW lo \in 1 .. a PROVE Text(t, lo, a + 1) = Append(Text(t, lo, a), t[a])
      OBVIOUS
    <3>1. lo \in Nat \ {0} /\ lo <= a /\ a \in Nat /\ a <= Len(t)
      BY <1>1
    <3> QED BY <1>3, <3>1, TextChar
  <2>2. Whole(t, a + 1)
    <3>1. (a + 1) - 1 = a /\ (a + 1) - 2 = a - 1
      BY <1>1
    <3> QED BY <1>3, <3>1 DEF Whole, Occurs
  <2>3. \A i \in a .. (a + 1) - 1 : i = a
    BY <1>1
  <2> QED BY <1>1, <2>0, <2>1, <2>2, <2>3 DEF Letters
<1> QED BY <1>2, <1>3

\* What was not met before, and is not met now.
LEMMA FreeGrows ==
    ASSUME NEW t, NEW c, NEW lo \in Nat, NEW a \in Nat, NEW aa \in Nat,
           Free(t, c, lo, a), \A i \in a .. aa - 1 : t[i] # c
    PROVE  Free(t, c, lo, aa)
<1>1. \A i \in lo .. aa - 1 : i \in lo .. a - 1 \/ i \in a .. aa - 1
  OBVIOUS
<1> QED BY <1>1 DEF Free
-----------------------------------------------------------------------------
(* The arguments *)

\* What was read stays read.
LEMMA ArgsKept ==
    ASSUME NEW t \in Seq(Classes), NEW b \in Seq(Chars), NEW q, NEW n \in Int, ArgsRead(t, b, q, n),
           NEW c \in Chars, NEW r, \A k \in 1 .. n : r[k] = q[k]
    PROVE  ArgsRead(t, Append(b, c), r, n)
<1> SUFFICES ASSUME NEW k \in 1 .. n PROVE ClosedArg(t, Append(b, c), r[k], k)
  BY DEF ArgsRead
<1>1. r[k] = q[k] /\ ClosedArg(t, b, q[k], k)
  BY DEF ArgsRead
<1> DEFINE arg == q[k]
<1>2. ClosedArg(t, b, arg, k)
  BY <1>1
<1> HIDE DEF arg
<1>3. PICK e \in EndsIn(t), f \in EndsIn(t), g \in 1 .. Len(t) + 1 :
        /\ Rank(t, e) = k /\ Rank(t, f) = k + 1
        /\ e < g /\ g <= f
        /\ Free(t, "=", e + 1, g)
        /\ Holds(b, arg.key, Text(t, e + 1, g))
        /\ g = f => arg.val = Null
        /\ g # f => t[g] = "=" /\ arg.val # Null /\ Holds(b, arg.val, Text(t, g + 1, f))
  BY <1>2 DEF ClosedArg
<1>4. Holds(Append(b, c), arg.key, Text(t, e + 1, g))
  BY <1>3, HoldsKept
<1>5. g # f => Holds(Append(b, c), arg.val, Text(t, g + 1, f))
  BY <1>3, HoldsKept
<1>6. ClosedArg(t, Append(b, c), arg, k)
  BY <1>3, <1>4, <1>5 DEF ClosedArg
<1> QED BY <1>1, <1>6 DEF arg

\* What is written behind the path leaves it as it is.
LEMMA PathKept ==
    ASSUME NEW t, NEW b \in Seq(Chars), NEW len, PathRead(t, b, len), NEW c \in Chars
    PROVE  PathRead(t, Append(b, c), len)
BY HoldsKept DEF PathRead

\* One more letter of a key.
LEMMA KeyGrows ==
    ASSUME NEW t \in Seq(Classes), NEW a \in 1 .. Len(t), Whole(t, a), WellEscaped(t),
           NEW c, NEW aa, Copies(t, a, c, aa),
           NEW b \in Seq(Chars), NEW arg, NEW k, InKey(t, a, b, arg, k),
           t[a] # "&", t[a] # "="
    PROVE  InKey(t, aa, Append(b, c), arg, k)
<1>1. PICK e \in EndsIn(t) :
        /\ Rank(t, e) = k /\ e < a /\ Free(t, "&", e + 1, a)
        /\ Free(t, "=", e + 1, a)
        /\ Opened(b, arg.key, Text(t, e + 1, a))
        /\ arg.val = Null
  BY DEF InKey
<1>2. /\ c \in Letters /\ aa \in Nat /\ a < aa /\ aa <= Len(t) + 1
      /\ \A lo \in 1 .. a : Text(t, lo, aa) = Append(Text(t, lo, a), c)
      /\ \A i \in a .. aa - 1 : t[i] \in {t[a], "h"}
  BY CopyRead
<1>3. e \in Nat /\ 1 <= e /\ e + 1 \in 1 .. a /\ e < aa /\ a \in Nat /\ e + 1 \in Nat
  <2>1. e \in 1 .. Len(t) + 1 /\ Len(t) \in Nat /\ e < a /\ a < aa /\ aa \in Nat
    BY <1>1, <1>2, EndsTyped
  <2> QED BY <2>1
<1>4. Free(t, "&", e + 1, aa) /\ Free(t, "=", e + 1, aa)
  BY <1>1, <1>2, <1>3, FreeGrows
<1>5. Opened(Append(b, c), arg.key, Text(t, e + 1, aa))
  BY <1>1, <1>2, <1>3, OpenedGrows
<1> QED BY <1>1, <1>3, <1>4, <1>5 DEF InKey

\* One more letter of a value.
LEMMA ValGrows ==
    ASSUME NEW t \in Seq(Classes), NEW a \in 1 .. Len(t), Whole(t, a), WellEscaped(t),
           NEW c, NEW aa, Copies(t, a, c, aa),
           NEW b \in Seq(Chars), NEW arg, NEW k, InVal(t, a, b, arg, k),
           t[a] # "&"
    PROVE  InVal(t, aa, Append(b, c), arg, k)
<1>1. PICK e \in EndsIn(t), g \in 1 .. Len(t) :
        /\ Rank(t, e) = k /\ e < g /\ g < a /\ Free(t, "&", e + 1, a)
        /\ Free(t, "=", e + 1, g) /\ t[g] = "="
        /\ Holds(b, arg.key, Text(t, e + 1, g))
        /\ arg.val # Null
        /\ Opened(b, arg.val, Text(t, g + 1, a))
  BY DEF InVal
<1>2. /\ c \in Letters /\ aa \in Nat /\ a < aa /\ aa <= Len(t) + 1
      /\ \A lo \in 1 .. a : Text(t, lo, aa) = Append(Text(t, lo, a), c)
      /\ \A i \in a .. aa - 1 : t[i] \in {t[a], "h"}
  BY CopyRead
<1>3. e \in Nat /\ e + 1 \in Nat /\ g + 1 \in 1 .. a /\ g < aa /\ a \in Nat /\ c \in Chars
  <2>1. c \in Chars
    BY <1>2 DEF Letters, Chars
  <2>2. e \in 1 .. Len(t) + 1 /\ Len(t) \in Nat /\ g < a /\ a < aa /\ aa \in Nat
    BY <1>1, <1>2, EndsTyped
  <2> QED BY <2>1, <2>2
<1>4. Free(t, "&", e + 1, aa)
  BY <1>1, <1>2, <1>3, FreeGrows
<1>5. Opened(Append(b, c), arg.val, Text(t, g + 1, aa))
  BY <1>1, <1>2, <1>3, OpenedGrows
<1>6. Holds(Append(b, c), arg.key, Text(t, e + 1, g))
  BY <1>1, <1>3, HoldsKept
<1> QED BY <1>1, <1>3, <1>4, <1>5, <1>6 DEF InVal

\* An equals sign ends a key, and the value begins.
LEMMA KeyEnds ==
    ASSUME NEW t \in Seq(Classes), NEW a \in 1 .. Len(t), t[a] = "=",
           NEW b \in Seq(Chars), NEW arg, NEW k, InKey(t, a, b, arg, k),
           NEW new, new.key = arg.key, new.val = Len(Append(b, Nul))
    PROVE  InVal(t, a + 1, Append(b, Nul), new, k)
<1>1. PICK e \in EndsIn(t) :
        /\ Rank(t, e) = k /\ e < a /\ Free(t, "&", e + 1, a)
        /\ Free(t, "=", e + 1, a)
        /\ Opened(b, arg.key, Text(t, e + 1, a))
        /\ arg.val = Null
  BY DEF InKey
<1>2. e \in Nat /\ e + 1 \in Nat /\ a \in Nat \ {0} /\ a + 1 \in Nat \ {0}
      /\ a + 1 <= Len(t) + 1 /\ a < a + 1 /\ Nul \in Chars
  <2>1. Nul \in Chars
    BY DEF Chars
  <2> QED BY <2>1, EndsTyped
<1>3. \A i \in a .. (a + 1) - 1 : t[i] # "&"
  <2>1. \A i \in a .. (a + 1) - 1 : i = a
    BY <1>2
  <2> QED BY <2>1
<1>4. Free(t, "&", e + 1, a + 1)
  BY <1>1, <1>2, <1>3, FreeGrows
<1>5. Holds(Append(b, Nul), new.key, Text(t, e + 1, a))
  BY <1>1, OpenedEnds
<1>6. Text(t, a + 1, a + 1) = <<>>
  BY <1>2, TextType
<1>7. Opened(Append(b, Nul), new.val, Text(t, a + 1, a + 1)) /\ new.val # Null
  BY <1>2, <1>6, OpenedStarts
<1> QED BY <1>1, <1>2, <1>4, <1>5, <1>7 DEF InVal

\* At the next end an argument is read.
LEMMA ArgEnds ==
    ASSUME NEW t \in Seq(Classes), NEW a \in EndsIn(t),
           NEW b \in Seq(Chars), NEW arg, NEW k,
           InKey(t, a, b, arg, k) \/ InVal(t, a, b, arg, k)
    PROVE  ClosedArg(t, Append(b, Nul), arg, k) /\ Rank(t, a) = k + 1
<1>1. a \in 1 .. Len(t) + 1 /\ a \in Nat /\ Nul \in Chars
  <2>1. Nul \in Chars
    BY DEF Chars
  <2> QED BY <2>1, EndsTyped
<1>2. CASE InKey(t, a, b, arg, k)
  <2>1. PICK e \in EndsIn(t) :
          /\ Rank(t, e) = k /\ e < a /\ Free(t, "&", e + 1, a)
          /\ Free(t, "=", e + 1, a)
          /\ Opened(b, arg.key, Text(t, e + 1, a))
          /\ arg.val = Null
    BY <1>2 DEF InKey
  <2>2. Rank(t, a) = k + 1
    BY <2>1, RankNext
  <2>3. Holds(Append(b, Nul), arg.key, Text(t, e + 1, a))
    BY <2>1, OpenedEnds
  <2>4. a <= a
    BY <1>1
  <2>5. ClosedArg(t, Append(b, Nul), arg, k)
    BY <1>1, <2>1, <2>2, <2>3, <2>4 DEF ClosedArg
  <2> QED BY <2>2, <2>5
<1>3. CASE InVal(t, a, b, arg, k)
  <2>1. PICK e \in EndsIn(t), g \in 1 .. Len(t) :
          /\ Rank(t, e) = k /\ e < g /\ g < a /\ Free(t, "&", e + 1, a)
          /\ Free(t, "=", e + 1, g) /\ t[g] = "="
          /\ Holds(b, arg.key, Text(t, e + 1, g))
          /\ arg.val # Null
          /\ Opened(b, arg.val, Text(t, g + 1, a))
    BY <1>3 DEF InVal
  <2>2. e < a /\ g <= a /\ g # a /\ g \in 1 .. Len(t) + 1
    BY <1>1, <2>1, EndsTyped
  <2>3. Rank(t, a) = k + 1
    BY <2>1, <2>2, RankNext
  <2>4. Holds(Append(b, Nul), arg.key, Text(t, e + 1, g))
    BY <1>1, <2>1, HoldsKept
  <2>5. Holds(Append(b, Nul), arg.val, Text(t, g + 1, a))
    BY <2>1, OpenedEnds
  <2>6. ClosedArg(t, Append(b, Nul), arg, k)
    BY <2>1, <2>2, <2>3, <2>4, <2>5 DEF ClosedArg
  <2> QED BY <2>3, <2>6
<1> QED BY <1>2, <1>3

\* Behind an end the key of the next argument begins.
LEMMA ArgStarts ==
    ASSUME NEW t \in Seq(Classes), NEW a \in EndsIn(t), a <= Len(t),
           NEW b \in Seq(Chars), NEW arg, arg.key = Len(Append(b, Nul)), arg.val = Null
    PROVE  InKey(t, a + 1, Append(b, Nul), arg, Rank(t, a))
<1>1. a + 1 \in Nat \ {0} /\ a + 1 <= Len(t) + 1 /\ a < a + 1 /\ Nul \in Chars
      /\ a + 1 <= a + 1
  <2>1. Nul \in Chars
    BY DEF Chars
  <2> QED BY <2>1, EndsTyped
<1>2. Text(t, a + 1, a + 1) = <<>>
  BY <1>1, TextType
<1>3. Opened(Append(b, Nul), arg.key, Text(t, a + 1, a + 1))
  BY <1>1, <1>2, OpenedStarts
<1>4. Free(t, "&", a + 1, a + 1) /\ Free(t, "=", a + 1, a + 1)
  <2>1. \A i \in a + 1 .. (a + 1) - 1 : FALSE
    BY <1>1
  <2> QED BY <2>1 DEF Free
<1> QED BY <1>1, <1>3, <1>4 DEF InKey
-----------------------------------------------------------------------------
(* What each step of the parser reads *)

\* Each turn of get_http_path keeps the reading. A character of the path:
LEMMA PathCharReads ==
    ASSUME NEW t \in Seq(Classes), WellEscaped(t), NEW a \in 1 .. Len(t), NEW b \in Seq(Chars),
           NEW q, NEW len, NEW inKey, Reads(t, a, b, q, len, inKey, "path"),
           t[a] \in {"h", "%"}, NEW c, NEW aa, Copies(t, a, c, aa)
    PROVE  Reads(t, aa, Append(b, c), q, len, inKey, "path")
<1>1. Whole(t, a) /\ Free(t, "?", 1, a) /\ Opened(b, 0, Text(t, 1, a))
  BY DEF Reads
<1>2. /\ c \in Letters /\ aa \in Nat /\ a < aa /\ aa <= Len(t) + 1 /\ Whole(t, aa)
      /\ \A lo \in 1 .. a : Text(t, lo, aa) = Append(Text(t, lo, a), c)
      /\ \A i \in a .. aa - 1 : t[i] \in {t[a], "h"}
  BY <1>1, CopyRead
<1>3. Free(t, "?", 1, aa)
  <2>1. \A i \in a .. aa - 1 : t[i] # "?"
    BY <1>2
  <2>2. a \in Nat /\ 1 \in Nat
    OBVIOUS
  <2> QED BY <1>1, <1>2, <2>1, <2>2, FreeGrows
<1>4. Opened(Append(b, c), 0, Text(t, 1, aa))
  <2>1. Text(t, 1, aa) = Append(Text(t, 1, a), c)
    <3>1. 1 \in 1 .. a
      BY LenProperties
    <3> QED BY <1>2, <3>1
  <2> QED BY <1>1, <1>2, <2>1, OpenedGrows
<1> QED BY <1>2, <1>3, <1>4 DEF Reads

\* The path is read to its end.
LEMMA PathReads ==
    ASSUME NEW t \in Seq(Classes), NEW a \in 1 .. Len(t) + 1, NEW b \in Seq(Chars),
           Free(t, "?", 1, a), Opened(b, 0, Text(t, 1, a)), a <= Len(t) => t[a] = "?"
    PROVE  a = FirstOf(t, "?") /\ PathRead(t, Append(b, Nul), Len(b))
<1>1. a = FirstOf(t, "?")
  <2> DEFINE F == FirstOf(t, "?")
  <2>1. /\ F \in 1 .. Len(t) + 1 /\ Len(t) \in Nat
        /\ F <= Len(t) => t[F] = "?"
        /\ \A i \in 1 .. Len(t) : t[i] = "?" => F <= i
    BY FirstOccurrence, LenProperties
  <2> HIDE DEF F
  <2>2. F <= a
    BY <2>1
  <2>3. F \notin 1 .. a - 1
    BY <2>1, <2>2 DEF Free
  <2>4. a = F
    BY <2>1, <2>2, <2>3
  <2> QED BY <2>4 DEF F
<1>2. Holds(Append(b, Nul), 0, Text(t, 1, a))
  BY OpenedEnds
<1>3. Len(b) = Len(Text(t, 1, a))
  <2> DEFINE d == Text(t, 1, a)
  <2>1. d \in Seq(Letters) /\ 0 + Len(d) = Len(b)
    BY DEF Opened
  <2>2. Len(d) \in Nat
    BY <2>1, LenProperties
  <2> HIDE DEF d
  <2>3. Len(b) = Len(d)
    BY <2>1, <2>2
  <2> QED BY <2>3 DEF d
<1> QED BY <1>1, <1>2, <1>3 DEF PathRead

\* None of no arguments.
LEMMA NoneRead == ASSUME NEW t, NEW b, NEW q PROVE ArgsRead(t, b, q, 0)
<1>1. \A k \in 1 .. 0 : FALSE
  OBVIOUS
<1> QED BY <1>1 DEF ArgsRead

\* The target ends with its path:
LEMMA PathEndsReads ==
    ASSUME NEW t \in Seq(Classes), NEW b \in Seq(Chars), NEW len, NEW inKey,
           Reads(t, Len(t) + 1, b, <<>>, len, inKey, "path")
    PROVE  Reads(t, Len(t) + 1, Append(b, Nul), <<>>, Len(b), inKey, "version")
<1> DEFINE a == Len(t) + 1
           q == <<>>
<1>1. Free(t, "?", 1, a) /\ Opened(b, 0, Text(t, 1, a))
  BY DEF Reads
<1>2. a \in 1 .. Len(t) + 1 /\ ~(a <= Len(t))
  BY LenProperties
<1>3. a = FirstOf(t, "?") /\ PathRead(t, Append(b, Nul), Len(b))
  <2> HIDE DEF a
  <2> QED BY <1>1, <1>2, PathReads
<1>4. Cardinality(EndsIn(t)) = 1
  BY <1>3, EndsTyped
<1>5. Len(q) = 0 /\ 1 - 1 = 0
  OBVIOUS
<1>6. ArgsRead(t, Append(b, Nul), q, 0)
  BY NoneRead
<1> HIDE DEF a, q
<1>7. Reads(t, a, Append(b, Nul), q, Len(b), inKey, "version")
  BY <1>3, <1>4, <1>5, <1>6 DEF Reads
<1> QED BY <1>7 DEF a, q

\* The question mark:
LEMMA QueryBeginsReads ==
    ASSUME NEW t \in Seq(Classes), NEW a \in 1 .. Len(t), NEW b \in Seq(Chars), NEW q, NEW len,
           NEW inKey, Reads(t, a, b, q, len, inKey, "path"), t[a] = "?"
    PROVE  Reads(t, a + 1, Append(b, Nul), <<[key |-> Len(Append(b, Nul)), val |-> Null]>>,
                 Len(b), TRUE, "query")
<1> DEFINE bn == Append(b, Nul)
           arg == [key |-> Len(bn), val |-> Null]
           r == <<arg>>
<1>1. Free(t, "?", 1, a) /\ Opened(b, 0, Text(t, 1, a)) /\ Whole(t, a)
  BY DEF Reads
<1>2. a \in 1 .. Len(t) + 1 /\ a + 1 <= Len(t) + 1 /\ a <= Len(t)
  BY LenProperties
<1>3. a = FirstOf(t, "?") /\ PathRead(t, bn, Len(b))
  BY <1>1, <1>2, PathReads
<1>4. a \in EndsIn(t) /\ Rank(t, a) = 1
  BY <1>3, EndsTyped
<1>5. Len(r) = 1 /\ r[1] = arg /\ 1 - 1 = 0 /\ arg.key = Len(bn) /\ arg.val = Null
  OBVIOUS
<1> HIDE DEF arg, r
<1>6. InKey(t, a + 1, bn, arg, 1)
  BY <1>2, <1>4, <1>5, ArgStarts
<1>7. ArgsRead(t, bn, r, 0)
  BY NoneRead
<1>8. Whole(t, a + 1)
  <2>1. (a + 1) - 1 = a /\ (a + 1) - 2 = a - 1
    OBVIOUS
  <2> QED BY <1>1, <2>1 DEF Whole, Occurs
<1> HIDE DEF bn
<1>9. Reads(t, a + 1, bn, r, Len(b), TRUE, "query")
  BY <1>2, <1>3, <1>5, <1>6, <1>7, <1>8 DEF Reads
<1> QED BY <1>9 DEF bn, arg, r

\* A character of a key or a value:
LEMMA QueryCharReads ==
    ASSUME NEW t \in Seq(Classes), WellEscaped(t), NEW a \in 1 .. Len(t), NEW b \in Seq(Chars),
           NEW q \in Seq(Entries), NEW len, NEW inKey \in BOOLEAN,
           Reads(t, a, b, q, len, inKey, "query"),
           t[a] # "&", t[a] = "=" => ~inKey, NEW c, NEW aa, Copies(t, a, c, aa)
    PROVE  Reads(t, aa, Append(b, c), q, len, inKey, "query")
<1>1. /\ Whole(t, a) /\ PathRead(t, b, len) /\ ArgsRead(t, b, q, Len(q) - 1)
      /\ inKey => InKey(t, a, b, q[Len(q)], Len(q))
      /\ ~inKey => InVal(t, a, b, q[Len(q)], Len(q))
  BY DEF Reads
<1>2. c \in Letters /\ aa <= Len(t) + 1 /\ Whole(t, aa)
  BY <1>1, CopyRead
<1>3. c \in Chars /\ Len(q) - 1 \in Int
  BY <1>2, LenProperties DEF Letters, Chars
<1>4. PathRead(t, Append(b, c), len) /\ ArgsRead(t, Append(b, c), q, Len(q) - 1)
  BY <1>1, <1>3, PathKept, ArgsKept
<1> DEFINE arg == q[Len(q)]
           n == Len(q)
<1>5. /\ inKey => InKey(t, a, b, arg, n)
      /\ ~inKey => InVal(t, a, b, arg, n)
  BY <1>1
<1> HIDE DEF arg, n
<1>6. inKey => InKey(t, aa, Append(b, c), arg, n)
  BY <1>1, <1>5, KeyGrows
<1>7. ~inKey => InVal(t, aa, Append(b, c), arg, n)
  BY <1>1, <1>5, ValGrows
<1> QED BY <1>2, <1>4, <1>6, <1>7 DEF Reads, arg, n

\* The first equals sign of an argument:
LEMMA KeyEndReads ==
    ASSUME NEW t \in Seq(Classes), NEW a \in 1 .. Len(t), NEW b \in Seq(Chars),
           NEW q \in Seq(Entries), q # <<>>, NEW len,
           Reads(t, a, b, q, len, TRUE, "query"), t[a] = "="
    PROVE  Reads(t, a + 1, Append(b, Nul), [q EXCEPT ![Len(q)].val = Len(Append(b, Nul))],
                 len, FALSE, "query")
<1> DEFINE bn == Append(b, Nul)
           r == [q EXCEPT ![Len(q)].val = Len(bn)]
           n == Len(q)
<1>1. /\ Whole(t, a) /\ PathRead(t, b, len) /\ ArgsRead(t, b, q, n - 1)
      /\ InKey(t, a, b, q[n], n)
  BY DEF Reads
<1>2. Nul \in Chars /\ Len(bn) \in Nat
  <2>1. Nul \in Chars
    BY DEF Chars
  <2> QED BY <2>1, AppendProperties, LenProperties
<1>3. n \in 1 .. Len(q) /\ n - 1 \in Int /\ n \in Nat
  BY EmptySeq
<1>4. q[n] \in Entries
  BY <1>3, ElementOfSeq
<1>5. Len(r) = n
  BY <1>2, Pointers
<1>6. r[n].key = q[n].key /\ r[n].val = Len(bn) /\ \A k \in 1 .. n - 1 : r[k] = q[k]
  <2>1. DOMAIN q = 1 .. n
    BY LenProperties
  <2>2. \A k \in 1 .. n - 1 : k \in 1 .. n /\ k # n
    BY <1>3
  <2> HIDE DEF bn, n
  <2> QED BY <1>3, <1>4, <2>1, <2>2 DEF n, Entries
<1>7. PathRead(t, bn, len) /\ ArgsRead(t, bn, r, n - 1)
  <2> HIDE DEF r, n
  <2> QED BY <1>1, <1>2, <1>3, <1>6, PathKept, ArgsKept
<1>8. InVal(t, a + 1, bn, r[n], n)
  <2> DEFINE old == q[n]
             new == r[n]
  <2>1. new.key = old.key /\ new.val = Len(bn) /\ InKey(t, a, b, old, n)
    BY <1>1, <1>6
  <2> HIDE DEF old, new, n
  <2>2. InVal(t, a + 1, bn, new, n)
    BY <2>1, KeyEnds
  <2> QED BY <2>2 DEF new
<1>9. Whole(t, a + 1) /\ a + 1 <= Len(t) + 1
  <2>1. (a + 1) - 1 = a /\ (a + 1) - 2 = a - 1 /\ a + 1 <= Len(t) + 1
    BY LenProperties
  <2> QED BY <1>1, <2>1 DEF Whole, Occurs
<1> HIDE DEF bn, r, n
<1>10. Reads(t, a + 1, bn, r, len, FALSE, "query")
  BY <1>5, <1>7, <1>8, <1>9 DEF Reads
<1> QED BY <1>10 DEF bn, r, n

\* At the next end the last argument is among those that were read.
LEMMA LastRead ==
    ASSUME NEW t \in Seq(Classes), NEW a \in EndsIn(t), NEW b \in Seq(Chars),
           NEW q \in Seq(Entries), q # <<>>, NEW len, NEW inKey \in BOOLEAN,
           Reads(t, a, b, q, len, inKey, "query")
    PROVE  /\ PathRead(t, Append(b, Nul), len) /\ ArgsRead(t, Append(b, Nul), q, Len(q))
           /\ Rank(t, a) = Len(q) + 1
<1> DEFINE bn == Append(b, Nul)
           n == Len(q)
           arg == q[n]
<1>1. /\ PathRead(t, b, len) /\ ArgsRead(t, b, q, n - 1)
      /\ InKey(t, a, b, arg, n) \/ InVal(t, a, b, arg, n)
  BY DEF Reads
<1>2. Nul \in Chars /\ n \in Nat /\ n - 1 \in Int /\ n # 0
  BY EmptySeq DEF Chars
<1> HIDE DEF n, arg
<1>3. PathRead(t, bn, len) /\ ArgsRead(t, bn, q, n - 1)
  BY <1>1, <1>2, PathKept, ArgsKept
<1>4. ClosedArg(t, bn, arg, n) /\ Rank(t, a) = n + 1
  BY <1>1, ArgEnds
<1>5. ArgsRead(t, bn, q, n)
  <2> HIDE DEF bn
  <2> SUFFICES ASSUME NEW k \in 1 .. n PROVE ClosedArg(t, bn, q[k], k)
    BY DEF ArgsRead
  <2>1. k = n \/ k \in 1 .. n - 1
    BY <1>2
  <2> QED BY <1>3, <1>4, <2>1 DEF ArgsRead, arg
<1> QED BY <1>3, <1>4, <1>5 DEF n

\* The ampersand behind an argument:
LEMMA ArgEndReads ==
    ASSUME NEW t \in Seq(Classes), NEW a \in 1 .. Len(t), NEW b \in Seq(Chars),
           NEW q \in Seq(Entries), q # <<>>, NEW len, NEW inKey \in BOOLEAN,
           Reads(t, a, b, q, len, inKey, "query"), t[a] = "&"
    PROVE  Reads(t, a + 1, Append(b, Nul), Append(q, [key |-> Len(Append(b, Nul)), val |-> Null]),
                 len, TRUE, "query")
<1> DEFINE bn == Append(b, Nul)
           arg == [key |-> Len(bn), val |-> Null]
           r == Append(q, arg)
           n == Len(q)
<1>1. a \in EndsIn(t)
  <2>1. InKey(t, a, b, q[n], n) \/ InVal(t, a, b, q[n], n)
    BY DEF Reads
  <2>2. PICK e \in EndsIn(t) : e < a
    <3>1. CASE InKey(t, a, b, q[n], n)
      BY <3>1 DEF InKey
    <3>2. CASE InVal(t, a, b, q[n], n)
      <4>1. PICK e \in EndsIn(t), g \in 1 .. Len(t) : e < g /\ g < a
        BY <3>2 DEF InVal
      <4>2. e \in Nat
        BY EndsTyped
      <4> QED BY <4>1, <4>2
    <3> QED BY <2>1, <3>1, <3>2
  <2>3. FirstOf(t, "?") <= e /\ e \in Nat /\ FirstOf(t, "?") \in Nat
    BY EndsTyped
  <2>4. a > FirstOf(t, "?") /\ a \in DOMAIN t
    BY <2>2, <2>3, LenProperties
  <2> QED BY <2>4 DEF EndsIn, Occurs
<1>2. /\ PathRead(t, bn, len) /\ ArgsRead(t, bn, q, n) /\ Rank(t, a) = n + 1
  BY <1>1, LastRead
<1>3. Nul \in Chars /\ n \in Nat /\ Len(bn) \in Nat /\ bn \in Seq(Chars)
  <2>1. Nul \in Chars
    BY DEF Chars
  <2> QED BY <2>1, AppendProperties, LenProperties
<1>4. arg \in Entries /\ arg.key = Len(bn) /\ arg.val = Null
  BY <1>3 DEF Entries, Null
<1>5. Len(r) = n + 1 /\ r[n + 1] = arg /\ \A k \in 1 .. n : r[k] = q[k]
  <2> HIDE DEF arg
  <2> QED BY <1>4, AppendProperties
<1>6. InKey(t, a + 1, bn, arg, n + 1)
  <2>1. a <= Len(t)
    BY LenProperties
  <2> HIDE DEF arg, n
  <2> QED BY <1>1, <1>2, <1>4, <2>1, ArgStarts
<1>7. ArgsRead(t, bn, r, n)
  <2> HIDE DEF bn, r, n
  <2> QED BY <1>2, <1>5 DEF ArgsRead
<1>8. Whole(t, a + 1) /\ a + 1 <= Len(t) + 1
  <2>1. (a + 1) - 1 = a /\ (a + 1) - 2 = a - 1 /\ a + 1 <= Len(t) + 1
    BY LenProperties
  <2>2. Whole(t, a)
    BY DEF Reads
  <2> QED BY <2>1, <2>2 DEF Whole, Occurs
<1>9. (n + 1) - 1 = n
  BY <1>3
<1> HIDE DEF bn, r, n, arg
<1>10. Reads(t, a + 1, bn, r, len, TRUE, "query")
  BY <1>2, <1>5, <1>6, <1>7, <1>8, <1>9 DEF Reads
<1> QED BY <1>10 DEF bn, r, arg

\* The target ends with its query:
LEMMA QueryEndsReads ==
    ASSUME NEW t \in Seq(Classes), NEW b \in Seq(Chars),
           NEW q \in Seq(Entries), q # <<>>, NEW len, NEW inKey \in BOOLEAN,
           Reads(t, Len(t) + 1, b, q, len, inKey, "query")
    PROVE  Reads(t, Len(t) + 1, Append(b, Nul), q, len, inKey, "version")
<1> DEFINE a == Len(t) + 1
           n == Len(q)
           bn == Append(b, Nul)
<1>1. a \in EndsIn(t) /\ Rank(t, a) = Cardinality(EndsIn(t))
  BY EndsTyped
<1> HIDE DEF a
<1>2. PathRead(t, bn, len) /\ ArgsRead(t, bn, q, n) /\ Rank(t, a) = n + 1
  BY <1>1, LastRead DEF a
<1>3. n = Cardinality(EndsIn(t)) - 1
  <2>1. n \in Nat
    BY LenProperties
  <2> QED BY <1>1, <1>2, <2>1
<1> HIDE DEF bn
<1>4. Reads(t, a, bn, q, len, inKey, "version")
  BY <1>2, <1>3 DEF Reads
<1> QED BY <1>4 DEF a, bn
-----------------------------------------------------------------------------
(* The parser *)

\* Every step reads on as the target says.
LEMMA ReadingKept ==
    ASSUME TargetInv, Reading, [TargetNext]_tvars
    PROVE  Reading'
<1> USE DEF line, In
<1>1. target' = target
  BY DEF TargetNext, ReadMethod, ReadVersion, PathChar, PathEnds, PathRefused, QueryBegins,
         KeyEnd, ArgEnd, QueryChar, QueryEnds, QueryTooLong, QueryTooLongAtEnd, RunsOn, tvars
<1>2. place' \notin {"refused", "ran on"} => place \notin {"refused", "ran on"}
  BY DEF TargetNext, ReadMethod, ReadVersion, PathChar, PathEnds, PathRefused, QueryBegins,
         KeyEnd, ArgEnd, QueryChar, QueryEnds, QueryTooLong, QueryTooLongAtEnd, RunsOn, tvars
<1> SUFFICES ASSUME WellEscaped(target), place' \notin {"refused", "ran on"},
                    Reads(target, at, buf, query, pathLen, keyFound, place)
             PROVE  Reads(target, at', buf', query', pathLen', keyFound', place')
  BY <1>1, <1>2 DEF Reading, WellEscaped, Occurs
<1>3. at \in Nat \ {0} /\ Len(target) \in Nat
  BY LenProperties DEF TargetInv, TargetTypes
<1>4. /\ target \in Seq(Classes) /\ buf \in Seq(Chars) /\ query \in Seq(Entries)
      /\ keyFound \in BOOLEAN
      /\ place \in {"method", "path"} => query = <<>>
      /\ place = "query" => query # <<>>
  BY DEF TargetInv, TargetTypes, InQuery
<1>5. ASSUME CopyOne, at \in 1 .. Len(target)
      PROVE  \E c : Copies(target, at, c, at') /\ buf' = Append(buf, c)
  <2>1. at \in DOMAIN target
    BY <1>4, <1>5, LenProperties
  <2>2. CASE target[at] = "%"
    <3>1. at \in Occurs(target, "%")
      BY <2>1, <2>2 DEF Occurs
    <3>2. Unescaped = "x"
      BY <3>1 DEF WellEscaped, Unescaped
    <3> QED BY <1>5, <2>2, <3>2 DEF CopyOne, Put, Ahead, Copies
  <2>3. CASE target[at] # "%"
    BY <1>5, <2>3 DEF CopyOne, Put, Ahead, Copies
  <2> QED BY <2>2, <2>3
<1>6. CASE UNCHANGED tvars
  BY <1>6 DEF tvars
<1>7. CASE ReadMethod \/ ReadVersion
  BY <1>7 DEF ReadMethod, ReadVersion, Reads
<1>8. CASE PathRefused \/ QueryTooLong \/ QueryTooLongAtEnd \/ RunsOn
  BY <1>8 DEF PathRefused, QueryTooLong, QueryTooLongAtEnd, RunsOn
<1>9. CASE PathChar
  <2>1. /\ place = "path" /\ at \in 1 .. Len(target) /\ CopyOne
        /\ target[at] \in {"h", "%"} /\ UNCHANGED <<query, pathLen, keyFound, place>>
    BY <1>3, <1>9 DEF PathChar, AtEnd, Ahead
  <2>2. PICK c : Copies(target, at, c, at') /\ buf' = Append(buf, c)
    BY <1>3, <1>5, <2>1
  <2> QED BY <1>4, <2>1, <2>2, PathCharReads
<1>10. CASE PathEnds
  <2>1. /\ place = "path" /\ place' = "version" /\ at = Len(target) + 1
        /\ buf' = Append(buf, Nul) /\ pathLen' = Len(buf) /\ UNCHANGED <<at, query, keyFound>>
        /\ query = <<>>
    BY <1>4, <1>10 DEF PathEnds, Put, Written
  <2> QED BY <1>4, <2>1, PathEndsReads
<1>11. CASE QueryBegins
  <2>1. /\ place = "path" /\ place' = "query" /\ at \in 1 .. Len(target) /\ target[at] = "?"
        /\ buf' = Append(buf, Nul) /\ pathLen' = Len(buf) /\ at' = at + 1 /\ keyFound' = TRUE
        /\ query' = <<[key |-> Len(buf'), val |-> Null]>>
    BY <1>3, <1>11 DEF QueryBegins, AtEnd, Ahead, Put, Written
  <2> QED BY <1>4, <2>1, QueryBeginsReads
<1>12. CASE KeyEnd
  <2>1. /\ place = "query" /\ place' = "query" /\ at \in 1 .. Len(target) /\ target[at] = "="
        /\ buf' = Append(buf, Nul) /\ pathLen' = pathLen /\ at' = at + 1
        /\ keyFound = TRUE /\ keyFound' = FALSE
        /\ query' = [query EXCEPT ![Len(query)].val = Len(buf')]
    BY <1>3, <1>4, <1>12 DEF KeyEnd, AtEnd, Ahead, Put
  <2> QED BY <1>4, <2>1, KeyEndReads
<1>13. CASE ArgEnd
  <2>1. /\ place = "query" /\ place' = "query" /\ at \in 1 .. Len(target) /\ target[at] = "&"
        /\ buf' = Append(buf, Nul) /\ pathLen' = pathLen /\ at' = at + 1 /\ keyFound' = TRUE
        /\ query' = Append(query, [key |-> Len(buf'), val |-> Null])
    BY <1>3, <1>13 DEF ArgEnd, AtEnd, Ahead, Put
  <2> QED BY <1>4, <2>1, ArgEndReads
<1>14. CASE QueryChar
  <2>1. /\ place = "query" /\ at \in 1 .. Len(target) /\ CopyOne
        /\ target[at] # "&" /\ (target[at] = "=" => ~keyFound)
        /\ UNCHANGED <<query, pathLen, keyFound, place>>
    BY <1>3, <1>14 DEF QueryChar, AtEnd, Ahead
  <2>2. PICK c : Copies(target, at, c, at') /\ buf' = Append(buf, c)
    BY <1>3, <1>5, <2>1
  <2> QED BY <1>4, <2>1, <2>2, QueryCharReads
<1>15. CASE QueryEnds
  <2>1. /\ place = "query" /\ place' = "version" /\ at = Len(target) + 1
        /\ buf' = Append(buf, Nul) /\ UNCHANGED <<at, query, pathLen, keyFound>>
    BY <1>15 DEF QueryEnds, Put
  <2> QED BY <1>4, <2>1, QueryEndsReads
<1> QED
  BY <1>6, <1>7, <1>8, <1>9, <1>10, <1>11, <1>12, <1>13, <1>14, <1>15 DEF TargetNext

\* Before the first character is read there is nothing to say.
LEMMA ReadingStarts == TargetInit => Reading
<1> SUFFICES ASSUME TargetInit PROVE Reads(target, at, buf, query, pathLen, keyFound, place)
  BY DEF Reading
<1>1. target \in Seq(Classes)
  BY TargetAssumption DEF TargetInit, Targets, BoundedSeq, SeqOf
<1>2. at = 1 /\ place = "method" /\ buf = <<>> /\ query = <<>>
  BY DEF TargetInit
<1>3. 1 \in Nat \ {0} /\ 1 \in Nat /\ 1 <= 1 /\ 1 <= Len(target) + 1
  BY <1>1, LenProperties
<1>4. Text(target, 1, 1) = <<>>
  BY <1>1, <1>3, TextType
<1>5. Opened(<<>>, 0, <<>>)
  <2> DEFINE d == <<>>
  <2>1. d \in Seq(Letters) /\ Len(d) = 0
    BY EmptySeq
  <2>2. \A i \in 1 .. 0 : FALSE
    OBVIOUS
  <2> HIDE DEF d
  <2>3. Opened(d, 0, d)
    BY <2>1, <2>2 DEF Opened
  <2> QED BY <2>3 DEF d
<1>6. Free(target, "?", 1, 1)
  BY DEF Free
<1>7. Whole(target, 1)
  BY <1>1, LenProperties DEF Whole, Occurs
<1>8. Reads(target, 1, <<>>, <<>>, pathLen, keyFound, "method")
  BY <1>3, <1>4, <1>5, <1>6, <1>7 DEF Reads
<1> QED BY <1>2, <1>8

\* A part of a part of a target.
LEMMA PartOfPart ==
    ASSUME NEW t \in Seq(Classes), NEW lo \in Nat \ {0}, NEW hi \in Nat,
           lo <= hi, hi <= Len(t) + 1, NEW i \in Nat \ {0}, NEW j \in Nat, i <= j + 1, j <= hi - lo
    PROVE  SubSeq(SubSeq(t, lo, hi - 1), i, j) = SubSeq(t, lo + i - 1, lo + j - 1)
<1> DEFINE s == SubSeq(t, lo, hi - 1)
           u == SubSeq(s, i, j)
           v == SubSeq(t, lo + i - 1, lo + j - 1)
           n == j + 1 - i
<1>1. s \in Seq(Classes) /\ Len(s) = hi - lo /\ \A k \in 1 .. hi - lo : s[k] = t[lo + k - 1]
  BY TextType
<1>2. Len(t) \in Nat
  BY LenProperties
<1>3. u \in Seq(Classes) /\ Len(u) = n /\ \A k \in 1 .. n : u[k] = s[i + k - 1]
  <2>1. \A k \in i .. j : s[k] \in Classes
    <3>1. \A k \in i .. j : k \in 1 .. Len(s)
      BY <1>1
    <3> QED BY <1>1, <3>1, ElementOfSeq
  <2>2. /\ u \in Seq(Classes) /\ Len(u) = IF i <= j THEN j - i + 1 ELSE 0
        /\ \A k \in 1 .. j - i + 1 : u[k] = s[i + k - 1]
    <3> HIDE DEF s
    <3> QED BY <2>1, SubSeqProperties
  <2> HIDE DEF u, s
  <2> QED BY <2>2
<1>4. v \in Seq(Classes) /\ Len(v) = n /\ \A k \in 1 .. n : v[k] = t[(lo + i - 1) + k - 1]
  <2> DEFINE p == lo + i - 1
             q == lo + j - 1
  <2>1. p \in Int /\ q \in Int /\ q - p + 1 = n /\ p >= 1 /\ q <= Len(t)
    BY <1>2
  <2>2. \A k \in p .. q : t[k] \in Classes
    <3>1. \A k \in p .. q : k \in 1 .. Len(t)
      BY <1>2, <2>1
    <3> QED BY <3>1, ElementOfSeq
  <2> HIDE DEF p, q
  <2>3. /\ SubSeq(t, p, q) \in Seq(Classes) /\ Len(SubSeq(t, p, q)) = IF p <= q THEN q - p + 1 ELSE 0
        /\ \A k \in 1 .. q - p + 1 : SubSeq(t, p, q)[k] = t[p + k - 1]
    <3>1. p \in Int /\ q \in Int
      BY <2>1
    <3> QED BY <2>2, <3>1, SubSeqProperties, SMTT(40)
  <2>4. Len(SubSeq(t, p, q)) = n
    BY <2>1, <2>3
  <2> QED BY <2>1, <2>3, <2>4 DEF p, q
<1>5. \A k \in 1 .. n : u[k] = v[k]
  <2> SUFFICES ASSUME NEW k \in 1 .. n PROVE u[k] = v[k]
    OBVIOUS
  <2>1. i + k - 1 \in 1 .. hi - lo /\ lo + (i + k - 1) - 1 = (lo + i - 1) + k - 1
    OBVIOUS
  <2> HIDE DEF s, u, v, n
  <2> QED BY <1>1, <1>3, <1>4, <2>1
<1> HIDE DEF s, u, v, n
<1>6. u = v
  BY <1>3, <1>4, <1>5, SeqEqual
<1> QED BY <1>6 DEF u, v, s

\* The k-th argument of the target lies between the ends of ranks k and k + 1.
LEMMA NthArgIs ==
    ASSUME target \in Seq(Classes), NEW k \in Nat,
           NEW e \in EndsIn(target), NEW f \in EndsIn(target),
           Rank(target, e) = k, Rank(target, f) = k + 1
    PROVE  NthArg(k) = SubSeq(target, e + 1, f - 1)
<1>1. Ends = EndsIn(target)
  BY DEF Ends, EndsIn
<1> DEFINE End(n) == CHOOSE x \in EndsIn(target) : Cardinality({y \in EndsIn(target) : y <= x}) = n
<1>2. NthArg(k) = SubSeq(target, End(k) + 1, End(k + 1) - 1)
  BY <1>1 DEF NthArg
<1>3. End(k) = e
  <2>1. \A x \in EndsIn(target) : Cardinality({y \in EndsIn(target) : y <= x}) = Rank(target, x)
    BY DEF Rank
  <2>2. \A x \in EndsIn(target) : Rank(target, x) = k => x = e
    BY RankUnique
  <2> QED BY <2>1, <2>2
<1>4. End(k + 1) = f
  <2>1. \A x \in EndsIn(target) : Cardinality({y \in EndsIn(target) : y <= x}) = Rank(target, x)
    BY DEF Rank
  <2>2. \A x \in EndsIn(target) : Rank(target, x) = k + 1 => x = f
    BY RankUnique
  <2> QED BY <2>1, <2>2
<1> QED BY <1>2, <1>3, <1>4

\* The first equals sign of an argument.
LEMMA FirstSign ==
    ASSUME NEW a \in Seq(Classes), NEW m \in 1 .. Len(a) + 1,
           \A i \in 1 .. m - 1 : a[i] # "=", m <= Len(a) => a[m] = "="
    PROVE  FirstOf(a, "=") = m
<1> DEFINE F == FirstOf(a, "=")
<1>1. /\ F \in 1 .. Len(a) + 1 /\ Len(a) \in Nat
      /\ F <= Len(a) => a[F] = "="
      /\ \A i \in 1 .. Len(a) : a[i] = "=" => F <= i
  BY FirstOccurrence, LenProperties
<1> HIDE DEF F
<1>2. F <= m
  BY <1>1
<1>3. F \notin 1 .. m - 1
  BY <1>1, <1>2
<1>4. F = m
  BY <1>1, <1>2, <1>3
<1> QED BY <1>4 DEF F

\* An entry that was read is the argument.
LEMMA ArgUnderstood ==
    ASSUME TargetTypes, NEW arg \in Entries, NEW k \in Nat, ClosedArg(target, buf, arg, k)
    PROVE  [key |-> StringAt(arg.key), val |-> IF arg.val = Null THEN Null ELSE StringAt(arg.val)]
             = LET a == NthArg(k) IN
               [key |-> Decoded(SubSeq(a, 1, FirstOf(a, "=") - 1)),
                val |-> IF FirstOf(a, "=") > Len(a) THEN Null
                        ELSE Decoded(SubSeq(a, FirstOf(a, "=") + 1, Len(a)))]
<1>1. PICK e \in EndsIn(target), f \in EndsIn(target), g \in 1 .. Len(target) + 1 :
        /\ Rank(target, e) = k /\ Rank(target, f) = k + 1
        /\ e < g /\ g <= f
        /\ Free(target, "=", e + 1, g)
        /\ Holds(buf, arg.key, Text(target, e + 1, g))
        /\ g = f => arg.val = Null
        /\ g # f => target[g] = "=" /\ arg.val # Null /\ Holds(buf, arg.val, Text(target, g + 1, f))
  BY DEF ClosedArg
<1> DEFINE a == SubSeq(target, e + 1, f - 1)
           m == g - e
<1>2. target \in Seq(Classes) /\ buf \in Seq(Chars)
  BY DEF TargetTypes
<1>3. e \in Nat \ {0} /\ f \in Nat /\ g \in Nat /\ Len(target) \in Nat /\ f <= Len(target) + 1
      /\ e < g /\ g <= f
  BY <1>1, <1>2, EndsTyped
<1>4. e + 1 \in Nat \ {0} /\ e + 1 <= f /\ m \in Nat /\ m \in 1 .. f - e /\ f - (e + 1) = f - e - 1
  BY <1>3
<1>5. NthArg(k) = a
  BY <1>1, <1>2, NthArgIs
<1>6. /\ a \in Seq(Classes) /\ Len(a) = f - e - 1
      /\ \A i \in 1 .. f - e - 1 : a[i] = target[(e + 1) + i - 1]
  BY <1>2, <1>3, <1>4, TextType
<1> HIDE DEF a, m
<1>7. FirstOf(a, "=") = m
  <2>1. m \in 1 .. Len(a) + 1
    BY <1>3, <1>4, <1>6
  <2>2. \A i \in 1 .. m - 1 : a[i] # "="
    <3> SUFFICES ASSUME NEW i \in 1 .. m - 1 PROVE a[i] # "="
      OBVIOUS
    <3>1. i \in 1 .. f - e - 1 /\ (e + 1) + i - 1 \in e + 1 .. g - 1
      BY <1>3, <1>4 DEF m
    <3>2. target[(e + 1) + i - 1] # "="
      BY <1>1, <3>1 DEF Free
    <3> QED BY <1>6, <3>1, <3>2
  <2>3. m <= Len(a) => a[m] = "="
    <3> SUFFICES ASSUME m <= Len(a) PROVE a[m] = "="
      OBVIOUS
    <3>1. m \in 1 .. f - e - 1 /\ (e + 1) + m - 1 = g /\ g # f
      BY <1>3, <1>4, <1>6 DEF m
    <3> QED BY <1>1, <1>6, <3>1
  <2> QED BY <1>6, <2>1, <2>2, <2>3, FirstSign
<1>8. Decoded(SubSeq(a, 1, m - 1)) = Text(target, e + 1, g)
  <2> DEFINE lo == e + 1
             j == m - 1
  <2>1. /\ lo \in Nat \ {0} /\ lo <= f /\ f <= Len(target) + 1 /\ f \in Nat /\ j \in Nat
        /\ 1 \in Nat \ {0} /\ 1 <= j + 1 /\ j <= f - lo /\ lo + 1 - 1 = lo /\ lo + j - 1 = g - 1
    BY <1>3, <1>4 DEF m
  <2>2. a = SubSeq(target, lo, f - 1)
    BY DEF a
  <2> HIDE DEF lo, j
  <2>3. SubSeq(SubSeq(target, lo, f - 1), 1, j) = SubSeq(target, lo + 1 - 1, lo + j - 1)
    BY <1>2, <2>1, PartOfPart
  <2>4. SubSeq(a, 1, j) = SubSeq(target, lo, g - 1)
    BY <2>1, <2>2, <2>3
  <2> QED BY <2>4 DEF Text, lo, j
<1>9. g # f => Decoded(SubSeq(a, m + 1, Len(a))) = Text(target, g + 1, f)
  <2> SUFFICES ASSUME g # f PROVE Decoded(SubSeq(a, m + 1, Len(a))) = Text(target, g + 1, f)
    OBVIOUS
  <2> DEFINE lo == e + 1
             i == m + 1
             j == f - e - 1
  <2>1. /\ lo \in Nat \ {0} /\ lo <= f /\ f <= Len(target) + 1 /\ f \in Nat /\ j \in Nat
        /\ i \in Nat \ {0} /\ i <= j + 1 /\ j <= f - lo /\ lo + i - 1 = g + 1 /\ lo + j - 1 = f - 1
    BY <1>3, <1>4 DEF m
  <2>2. a = SubSeq(target, lo, f - 1) /\ Len(a) = j
    BY <1>6 DEF a
  <2> HIDE DEF lo, i, j
  <2>3. SubSeq(SubSeq(target, lo, f - 1), i, j) = SubSeq(target, lo + i - 1, lo + j - 1)
    BY <1>2, <2>1, PartOfPart
  <2>4. SubSeq(a, i, Len(a)) = SubSeq(target, g + 1, f - 1)
    BY <2>1, <2>2, <2>3
  <2> QED BY <2>4 DEF Text, i
<1>10. StringAt(arg.key) = Decoded(SubSeq(a, 1, m - 1))
  BY <1>1, <1>2, <1>8, StringHeld
<1>11. (IF arg.val = Null THEN Null ELSE StringAt(arg.val))
         = IF m > Len(a) THEN Null ELSE Decoded(SubSeq(a, m + 1, Len(a)))
  <2>1. m > Len(a) <=> g = f
    BY <1>3, <1>4, <1>6 DEF m
  <2>2. CASE g = f
    BY <1>1, <2>1, <2>2
  <2>3. CASE g # f
    <3>1. StringAt(arg.val) = Text(target, g + 1, f)
      BY <1>1, <1>2, <2>3, StringHeld
    <3> QED BY <1>1, <1>9, <2>1, <2>3, <3>1
  <2> QED BY <2>2, <2>3
<1> QED BY <1>5, <1>7, <1>10, <1>11

\* What is read when the line is parsed is understood.
LEMMA ReadUnderstood == TargetInv /\ Reading => TargetUnderstood
<1> SUFFICES ASSUME TargetInv, Reading, place = "parsed", WellEscaped(target)
             PROVE  /\ StringAt(0) = Decoded(PathPart)
                    /\ pathLen = Len(Decoded(PathPart))
                    /\ Parsed(query) = Args
  BY DEF TargetUnderstood, In
<1>1. TargetTypes /\ target \in Seq(Classes) /\ buf \in Seq(Chars) /\ query \in Seq(Entries)
  BY DEF TargetInv, TargetTypes
<1>2. /\ PathRead(target, buf, pathLen)
      /\ Len(query) = Cardinality(EndsIn(target)) - 1 /\ ArgsRead(target, buf, query, Len(query))
  BY DEF Reading, Reads
<1>3. Text(target, 1, FirstOf(target, "?")) = Decoded(PathPart)
  BY DEF Text, PathPart
<1>4. StringAt(0) = Decoded(PathPart) /\ pathLen = Len(Decoded(PathPart))
  BY <1>1, <1>2, <1>3, StringHeld DEF PathRead
<1>5. DOMAIN query = 1 .. Cardinality(Ends) - 1
  <2>1. Ends = EndsIn(target)
    BY DEF Ends, EndsIn
  <2> QED BY <1>1, <1>2, <2>1, LenProperties
<1>6. \A k \in DOMAIN query :
        [key |-> StringAt(query[k].key),
         val |-> IF query[k].val = Null THEN Null ELSE StringAt(query[k].val)]
          = LET a == NthArg(k) IN
            [key |-> Decoded(SubSeq(a, 1, FirstOf(a, "=") - 1)),
             val |-> IF FirstOf(a, "=") > Len(a) THEN Null
                     ELSE Decoded(SubSeq(a, FirstOf(a, "=") + 1, Len(a)))]
  <2> TAKE k \in DOMAIN query
  <2>1. k \in 1 .. Len(query) /\ Len(query) \in Nat
    BY <1>1, LenProperties
  <2>2. query[k] \in Entries /\ k \in Nat /\ ClosedArg(target, buf, query[k], k)
    BY <1>1, <1>2, <2>1, ElementOfSeq DEF ArgsRead
  <2> QED BY <1>1, <2>2, ArgUnderstood
<1>7. Parsed(query) = Args
  BY <1>5, <1>6 DEF Parsed, Args
<1> QED BY <1>4, <1>7

\* UnderstoodOrRefused: get_http_path takes the path, and every key and value, out of a target
\* as RFC 3986 has it, and a request line is refused for a reason only, whatever its length.
THEOREM TargetsUnderstood == TargetSpec => []UnderstoodOrRefused
<1>1. TargetInv /\ Reading /\ [TargetNext]_tvars => Reading'
  BY ReadingKept
<1> QED
  BY <1>1, ReadingStarts, ReadUnderstood, TargetInvariant, RefusalsHaveReasons, PTL
     DEF TargetSpec, UnderstoodOrRefused

-----------------------------------------------------------------------------
(***************************************************************************)
(* The routes. TableInv says what is in the tree, and how a path is looked *)
(* up in it is followed name by name.                                      *)
(***************************************************************************)
USE RoutesAssumption
-----------------------------------------------------------------------------
(* The names on a path *)


\* What the recursion in NamesOf computes for the first n tokens of p.
Collects(f, p, n) ==
    f = [i \in 0 .. n |-> IF i = 0 THEN <<>>
                          ELSE IF p[i] = Slash THEN f[i - 1] ELSE Append(f[i - 1], p[i])]

\* One more token.
LEMMA CollectsOneMore ==
    ASSUME NEW p, NEW n \in Nat, NEW f, Collects(f, p, n)
    PROVE  \E g : Collects(g, p, n + 1)
<1> DEFINE g == [i \in 0 .. n + 1 |->
                   IF i = n + 1
                   THEN IF p[n + 1] = Slash THEN f[n] ELSE Append(f[n], p[n + 1])
                   ELSE f[i]]
<1>1. \A i \in 0 .. n : f[i] = IF i = 0 THEN <<>>
                              ELSE IF p[i] = Slash THEN f[i - 1] ELSE Append(f[i - 1], p[i])
  BY DEF Collects
<1>2. g[0] = <<>>
  <2>1. 0 \in 0 .. n /\ 0 \in 0 .. n + 1 /\ 0 # n + 1
    OBVIOUS
  <2> QED BY <1>1, <2>1
<1>3. ASSUME NEW i \in 1 .. n + 1
      PROVE  g[i] = IF p[i] = Slash THEN g[i - 1] ELSE Append(g[i - 1], p[i])
  <2>1. CASE i = n + 1
    <3>1. i - 1 = n /\ n # n + 1 /\ n \in 0 .. n + 1 /\ i \in 0 .. n + 1
      BY <2>1
    <3> QED BY <2>1, <3>1
  <2>2. CASE i # n + 1
    <3>1. /\ i \in 0 .. n /\ i - 1 \in 0 .. n /\ i # 0 /\ i - 1 # n + 1
          /\ i \in 0 .. n + 1 /\ i - 1 \in 0 .. n + 1
      BY <2>2
    <3>2. g[i] = f[i] /\ g[i - 1] = f[i - 1]
      BY <2>2, <3>1
    <3> HIDE DEF g
    <3> QED BY <1>1, <3>1, <3>2
  <2> QED BY <2>1, <2>2
<1>4. DOMAIN g = 0 .. n + 1 /\ g = [i \in 0 .. n + 1 |-> g[i]]
  OBVIOUS
<1> HIDE DEF g
<1>5. \A i \in 0 .. n + 1 : i = 0 \/ i \in 1 .. n + 1
  OBVIOUS
<1>6. \A i \in 0 .. n + 1 :
         g[i] = IF i = 0 THEN <<>>
                ELSE IF p[i] = Slash THEN g[i - 1] ELSE Append(g[i - 1], p[i])
  BY <1>2, <1>3, <1>5
<1> QED BY <1>4, <1>6 DEF Collects

\* The recursion computes something, and only one thing.
LEMMA CollectsExists ==
    ASSUME NEW p, NEW n \in Nat
    PROVE  \E f : Collects(f, p, n)
<1> DEFINE T == {m \in Nat : ~ \E f : Collects(f, p, m)}
<1> SUFFICES ASSUME n \in T PROVE FALSE
  OBVIOUS
<1>1. PICK m \in T : \A t \in T : m <= t
  BY Smallest
<1>2. m # 0
  <2> DEFINE f == [i \in 0 .. 0 |-> <<>>]
  <2>1. Collects(f, p, 0)
    BY DEF Collects
  <2> QED BY <2>1, <1>1
<1>3. m - 1 \in Nat /\ m - 1 \notin T
  BY <1>1, <1>2
<1>4. \E g : Collects(g, p, (m - 1) + 1)
  BY <1>3, CollectsOneMore
<1>5. (m - 1) + 1 = m
  BY <1>1
<1> QED BY <1>1, <1>4, <1>5

\* Two functions that collect the names of a path agree where both are defined.
LEMMA CollectsUnique ==
    ASSUME NEW p, NEW n \in Nat, NEW k \in Nat, k <= n,
           NEW f, Collects(f, p, n), NEW g, Collects(g, p, k)
    PROVE  f[k] = g[k]
<1> DEFINE T == {m \in 0 .. k : f[m] # g[m]}
<1> SUFFICES ASSUME T # {} PROVE FALSE
  BY DEF T
<1>0. T \subseteq Nat
  OBVIOUS
<1>1. PICK m \in T : \A t \in T : m <= t
  <2> HIDE DEF T
  <2> QED BY <1>0, Smallest
<1>2. /\ \A i \in 0 .. n : f[i] = IF i = 0 THEN <<>>
                ELSE IF p[i] = Slash THEN f[i - 1] ELSE Append(f[i - 1], p[i])
      /\ \A i \in 0 .. k : g[i] = IF i = 0 THEN <<>>
                ELSE IF p[i] = Slash THEN g[i - 1] ELSE Append(g[i - 1], p[i])
  BY DEF Collects
<1>3. /\ m \in 0 .. n /\ m \in 0 .. k
      /\ f[m] = IF m = 0 THEN <<>>
                ELSE IF p[m] = Slash THEN f[m - 1] ELSE Append(f[m - 1], p[m])
      /\ g[m] = IF m = 0 THEN <<>>
                ELSE IF p[m] = Slash THEN g[m - 1] ELSE Append(g[m - 1], p[m])
  BY <1>1, <1>2
<1>4. m # 0 => f[m - 1] = g[m - 1]
  BY <1>1, <1>3
<1> QED BY <1>1, <1>3, <1>4

\* The names on the first n tokens, one token at a time.
NamesUpTo(p, n) == NamesOf(SubSeq(p, 1, n))

\* The names up to a position, from those up to the one before it.
LEMMA NamesStep ==
    ASSUME NEW p \in Seq(Tokens)
    PROVE  /\ NamesUpTo(p, 0) = <<>>
           /\ \A n \in 1 .. Len(p) :
                 NamesUpTo(p, n) = IF p[n] = Slash THEN NamesUpTo(p, n - 1)
                                   ELSE Append(NamesUpTo(p, n - 1), p[n])
           /\ NamesUpTo(p, Len(p)) = NamesOf(p)
<1>0. Len(p) \in Nat
  BY LenProperties
<1>1. PICK f : Collects(f, p, Len(p))
  BY <1>0, CollectsExists
<1>2. ASSUME NEW n \in 0 .. Len(p) PROVE NamesUpTo(p, n) = f[n]
  <2> DEFINE s == SubSeq(p, 1, n)
  <2>1. n \in Nat /\ Len(s) = n /\ \A i \in 1 .. n : s[i] = p[i]
    <3>1. n \in Nat /\ n <= Len(p)
      BY <1>0
    <3>2. /\ Len(s) = IF 1 <= n THEN n - 1 + 1 ELSE 0
          /\ \A i \in 1 .. n - 1 + 1 : s[i] = p[1 + i - 1]
      BY <3>1, <1>0, SubSeqProperties
    <3> HIDE DEF s
    <3> QED BY <3>1, <3>2
  <2> HIDE DEF s
  <2>2. \A g : Collects(g, s, n) <=> Collects(g, p, n)
    <3>1. ASSUME NEW g
          PROVE  [i \in 0 .. n |-> IF i = 0 THEN <<>>
                          ELSE IF s[i] = Slash THEN g[i - 1] ELSE Append(g[i - 1], s[i])]
               = [i \in 0 .. n |-> IF i = 0 THEN <<>>
                          ELSE IF p[i] = Slash THEN g[i - 1] ELSE Append(g[i - 1], p[i])]
      BY <2>1
    <3> QED BY <3>1 DEF Collects
  <2>3. NamesOf(s) = (CHOOSE g : Collects(g, s, n))[n]
    BY <2>1 DEF NamesOf, Collects
  <2>4. PICK g : g = CHOOSE h : Collects(h, s, n)
    OBVIOUS
  <2>5. Collects(g, p, n)
    <3>1. \E h : Collects(h, s, n)
      BY <2>1, CollectsExists
    <3> QED BY <3>1, <2>2, <2>4
  <2>6. f[n] = g[n]
    BY <1>0, <1>1, <2>1, <2>5, CollectsUnique
  <2> QED BY <2>3, <2>4, <2>6 DEF NamesUpTo, s
<1>3. \A n \in 0 .. Len(p) : f[n] = IF n = 0 THEN <<>>
                 ELSE IF p[n] = Slash THEN f[n - 1] ELSE Append(f[n - 1], p[n])
  BY <1>1 DEF Collects
<1>4. NamesUpTo(p, 0) = <<>>
  BY <1>0, <1>2, <1>3
<1>5. ASSUME NEW n \in 1 .. Len(p)
      PROVE  NamesUpTo(p, n) = IF p[n] = Slash THEN NamesUpTo(p, n - 1)
                               ELSE Append(NamesUpTo(p, n - 1), p[n])
  <2>1. n \in 0 .. Len(p) /\ n - 1 \in 0 .. Len(p) /\ n # 0
    BY <1>0
  <2> QED BY <1>2, <1>3, <2>1
<1>6. SubSeq(p, 1, Len(p)) = p
  BY SubSeqFull
<1> QED BY <1>4, <1>5, <1>6 DEF NamesUpTo

\* They are names, and never fewer when more tokens are read.
LEMMA NamesTyped ==
    ASSUME NEW p \in Seq(Names \cup {Slash}), NEW n \in 0 .. Len(p)
    PROVE  NamesUpTo(p, n) \in Seq(Names)
<1>1. p \in Seq(Tokens) /\ Len(p) \in Nat
  BY SeqMonotonic DEF Tokens
<1> DEFINE T == {m \in 0 .. Len(p) : NamesUpTo(p, m) \notin Seq(Names)}
<1>2. T \subseteq Nat
  BY <1>1
<1> SUFFICES ASSUME T # {} PROVE FALSE
  BY DEF T
<1>3. PICK m \in T : \A t \in T : m <= t
  <2> HIDE DEF T
  <2> QED BY <1>2, Smallest
<1>4. m # 0
  <2>1. NamesUpTo(p, 0) = <<>>
    BY <1>1, NamesStep
  <2>2. <<>> \in Seq(Names)
    BY EmptySeq
  <2> QED BY <1>3, <2>1, <2>2
<1>5. m \in 1 .. Len(p) /\ m - 1 \in 0 .. Len(p) /\ m - 1 \notin T
  BY <1>1, <1>3, <1>4
<1>6. NamesUpTo(p, m - 1) \in Seq(Names)
  BY <1>5
<1>7. p[m] \in Names \cup {Slash}
  BY <1>5, ElementOfSeq
<1>8. NamesUpTo(p, m) \in Seq(Names)
  <2>1. NamesUpTo(p, m) = IF p[m] = Slash THEN NamesUpTo(p, m - 1)
                          ELSE Append(NamesUpTo(p, m - 1), p[m])
    BY <1>1, <1>5, NamesStep
  <2> HIDE DEF T
  <2> QED BY <1>6, <1>7, <2>1, AppendProperties
<1> QED BY <1>3, <1>8

\* The names of a part of a path begin those of a longer part.
LEMMA NamesGrow ==
    ASSUME NEW p \in Seq(Names \cup {Slash}), NEW m \in Nat, NEW n \in Nat, m <= n, n <= Len(p)
    PROVE  /\ Len(NamesUpTo(p, m)) <= Len(NamesUpTo(p, n))
           /\ \A i \in 1 .. Len(NamesUpTo(p, m)) : NamesUpTo(p, m)[i] = NamesUpTo(p, n)[i]
<1> DEFINE N(k) == NamesUpTo(p, k)
           Grown(k) == /\ Len(N(m)) <= Len(N(k))
                       /\ \A i \in 1 .. Len(N(m)) : N(m)[i] = N(k)[i]
           T == {k \in m .. n : ~Grown(k)}
<1>1. p \in Seq(Tokens) /\ Len(p) \in Nat
  BY SeqMonotonic DEF Tokens
<1>2. \A k \in m .. n : N(k) \in Seq(Names) /\ Len(N(k)) \in Nat
  <2> SUFFICES ASSUME NEW k \in m .. n PROVE N(k) \in Seq(Names) /\ Len(N(k)) \in Nat
    OBVIOUS
  <2>1. k \in 0 .. Len(p)
    BY <1>1
  <2>2. N(k) \in Seq(Names)
    BY <2>1, NamesTyped
  <2> HIDE DEF N
  <2> QED BY <2>2, LenProperties
<1>3. \A k \in m + 1 .. n : N(k) = IF p[k] = Slash THEN N(k - 1) ELSE Append(N(k - 1), p[k])
  <2>1. \A k \in m + 1 .. n : k \in 1 .. Len(p)
    BY <1>1
  <2> QED BY <1>1, <2>1, NamesStep
<1>4. \A k \in m + 1 .. n : p[k] \in Names \cup {Slash}
  <2>1. \A k \in m + 1 .. n : k \in 1 .. Len(p)
    BY <1>1
  <2> QED BY <2>1, ElementOfSeq
<1> HIDE DEF N
<1>5. T \subseteq Nat
  OBVIOUS
<1>6. ASSUME T # {} PROVE FALSE
  <2>1. PICK k \in T : \A t \in T : k <= t
    <3> HIDE DEF T
    <3> QED BY <1>5, <1>6, Smallest
  <2>2. k # m
    BY <1>2, <2>1
  <2>3. k \in m + 1 .. n /\ k - 1 \in m .. n /\ k - 1 \notin T
    BY <2>1, <2>2
  <2>4. Grown(k - 1)
    BY <2>3
  <2>5. /\ Len(N(k - 1)) <= Len(N(k))
        /\ \A i \in 1 .. Len(N(k - 1)) : N(k - 1)[i] = N(k)[i]
    <3>1. N(k - 1) \in Seq(Names) /\ Len(N(k - 1)) \in Nat
      BY <1>2, <2>3
    <3>2. CASE p[k] = Slash
      BY <1>3, <2>3, <3>1, <3>2
    <3>3. CASE p[k] # Slash
      <4>1. p[k] \in Names /\ N(k) = Append(N(k - 1), p[k])
        BY <1>3, <1>4, <2>3, <3>3
      <4> QED BY <3>1, <4>1, AppendProperties
    <3> QED BY <3>2, <3>3
  <2>6. Len(N(m)) \in Nat /\ Len(N(k - 1)) \in Nat /\ Len(N(k)) \in Nat
    BY <1>2, <2>1, <2>3
  <2>7. Grown(k)
    <3>1. Len(N(m)) <= Len(N(k))
      BY <2>4, <2>5, <2>6
    <3>2. \A i \in 1 .. Len(N(m)) : i \in 1 .. Len(N(k - 1))
      BY <2>4, <2>6
    <3> QED BY <2>4, <2>5, <3>1, <3>2
  <2> QED BY <2>1, <2>7
<1>7. n \in m .. n
  OBVIOUS
<1> QED BY <1>6, <1>7 DEF N
-----------------------------------------------------------------------------
(* Segments and chunks *)

\* A path is a sequence of names and slashes that begins with a slash.
LEMMA PathsTyped ==
    ASSUME NEW p \in Paths
    PROVE  /\ p \in Seq(Names \cup {Slash}) /\ p \in Seq(Tokens)
           /\ Len(p) \in Nat \ {0} /\ p[1] = Slash /\ WellFormed(p)
<1>1. PICK q \in SeqOf(Names \cup {Slash}, MaxPath - 1) : p = <<Slash>> \o q
  BY DEF Paths
<1>2. q \in Seq(Names \cup {Slash})
  <2>1. PICK m \in 0 .. MaxPath - 1 : q \in [1 .. m -> Names \cup {Slash}]
    BY <1>1 DEF SeqOf
  <2> QED BY <2>1, SeqDef
<1>3. <<Slash>> \in Seq(Names \cup {Slash}) /\ Len(<<Slash>>) = 1 /\ <<Slash>>[1] = Slash
  OBVIOUS
<1>4. p \in Seq(Names \cup {Slash}) /\ Len(p) = 1 + Len(q) /\ p[1] = Slash
  BY <1>1, <1>2, <1>3, ConcatProperties
<1>5. Len(q) \in Nat
  BY <1>2, LenProperties
<1>6. p \in Seq(Tokens)
  BY <1>4, SeqMonotonic DEF Tokens
<1>7. WellFormed(p)
  BY DEF Paths
<1> QED BY <1>4, <1>5, <1>6, <1>7

\* A slash is a segment or a chunk at the end only.
OnlyAtEnd(s) == \A k \in 1 .. Len(s) - 1 : s[k] # Slash

\* Its segments are names; what a lookup walks over may end in one slash.
LEMMA SegmentsTyped ==
    ASSUME NEW p \in Paths
    PROVE  /\ NamesOf(p) \in Seq(Names) /\ Len(NamesOf(p)) \in Nat
           /\ Segments(p) \in Seq(Tokens) /\ Segments(p) \in Seq(Names \cup {Slash})
           /\ Chunks(p) \in Seq(Tokens) /\ OnlyAtEnd(Chunks(p))
<1>1. p \in Seq(Names \cup {Slash}) /\ p \in Seq(Tokens) /\ Len(p) \in Nat
  BY PathsTyped
<1> DEFINE names == NamesOf(p)
<1>2. names \in Seq(Names)
  <2>1. Len(p) \in 0 .. Len(p)
    BY <1>1
  <2> QED BY <1>1, <2>1, NamesTyped, NamesStep
<1>3. names \in Seq(Tokens) /\ Len(names) \in Nat
  BY <1>2, SeqMonotonic, LenProperties DEF Tokens
<1>4. \A k \in 1 .. Len(names) : names[k] # Slash
  BY <1>2, ElementOfSeq
<1> HIDE DEF names
<1>5. Slash \in Tokens /\ Empty \in Tokens /\ Empty # Slash
  BY DEF Tokens, Slash, Empty
<1>6. Append(names, Slash) \in Seq(Tokens) /\ OnlyAtEnd(Append(names, Slash))
  BY <1>3, <1>4, <1>5, AppendProperties DEF OnlyAtEnd
<1>7. names \o <<Empty, Slash>> \in Seq(Tokens) /\ OnlyAtEnd(names \o <<Empty, Slash>>)
  <2>1. <<Empty, Slash>> \in Seq(Tokens) /\ Len(<<Empty, Slash>>) = 2
        /\ <<Empty, Slash>>[1] = Empty
    BY <1>5
  <2> DEFINE two == <<Empty, Slash>>
  <2> HIDE DEF two
  <2>2. two \in Seq(Tokens) /\ Len(two) = 2 /\ two[1] = Empty
    BY <2>1 DEF two
  <2>3. names \o two \in Seq(Tokens) /\ Len(names \o two) = Len(names) + 2
    <3>1. names \in Seq(Tokens) /\ two \in Seq(Tokens) /\ Len(two) = 2
      BY <1>3, <2>2
    <3>2. names \o two \in Seq(Tokens) /\ Len(names \o two) = Len(names) + Len(two)
      BY <3>1, ConcatProperties
    <3> QED BY <3>1, <3>2
  <2>4. \A k \in 1 .. Len(names) + 1 :
           (names \o two)[k] = IF k <= Len(names) THEN names[k] ELSE two[k - Len(names)]
    BY <1>3, <2>2, ConcatProperties
  <2>5. \A k \in 1 .. Len(names) + 1 : (names \o two)[k] # Slash
    <3> SUFFICES ASSUME NEW k \in 1 .. Len(names) + 1 PROVE (names \o two)[k] # Slash
      OBVIOUS
    <3>1. CASE k <= Len(names)
      BY <1>3, <1>4, <2>4, <3>1
    <3>2. CASE k = Len(names) + 1
      <4>1. k - Len(names) = 1 /\ ~(k <= Len(names))
        BY <1>3, <3>2
      <4> QED BY <1>5, <2>2, <2>4, <4>1
    <3>3. k <= Len(names) \/ k = Len(names) + 1
      BY <1>3
    <3> QED BY <3>1, <3>2, <3>3
  <2>6. Len(names) + 2 - 1 = Len(names) + 1
    BY <1>3
  <2> QED BY <2>3, <2>5, <2>6 DEF OnlyAtEnd, two
<1>8. names \in Seq(Tokens) /\ OnlyAtEnd(names)
  BY <1>3, <1>4 DEF OnlyAtEnd
<1>9. <<Empty>> \in Seq(Tokens) /\ OnlyAtEnd(<<Empty>>)
  BY <1>5 DEF OnlyAtEnd
<1>10. /\ Segments(p) \in {names, Append(names, Slash)}
       /\ names \in Seq(Names \cup {Slash}) /\ Append(names, Slash) \in Seq(Names \cup {Slash})
  <2>1. names \in Seq(Names \cup {Slash})
    BY <1>2, SeqMonotonic DEF names
  <2> QED BY <2>1, AppendProperties DEF Segments, names
<1>11. Chunks(p) \in {<<Empty>>, names, names \o <<Empty, Slash>>, Append(names, Slash)}
  BY DEF Chunks, names
<1> QED BY <1>2, <1>3, <1>6, <1>7, <1>8, <1>9, <1>10, <1>11 DEF names
-----------------------------------------------------------------------------
(* The table *)

\* The tree and the slots hold what the calls of add_action_route put there; the
\* null children that lookups leave behind are not among it.
TableInv ==
    /\ calls \subseteq [path : Paths, method : Methods, action : Actions, result : {0, -3}]
    /\ nodes = Endpoints
    /\ DOMAIN slots = {<<Segments(c.path), c.method>> : c \in Registered}
    /\ \A c \in Registered : slots[<<Segments(c.path), c.method>>] = c.action

\* main() starts with the root and no action.
LEMMA TableStart == Init => TableInv
BY DEF Init, TableInv, Endpoints, Registered

\* A route adds the nodes of its prefixes and one slot.
LEMMA RouteAdded ==
    ASSUME TableInv, NEW p \in Paths, NEW m \in Methods, NEW a \in Actions, AddRoute(p, m, a)
    PROVE  TableInv'
<1> DEFINE n == Segments(p)
           taken == Action(n, m) # None
           new == [path |-> p, method |-> m, action |-> a, result |-> IF taken THEN -3 ELSE 0]
<1>1. /\ nodes' = nodes \cup Prefixes(n)
      /\ slots' = IF taken THEN slots
                  ELSE [x \in DOMAIN slots \cup {<<n, m>>} |->
                           IF x = <<n, m>> THEN a ELSE slots[x]]
      /\ calls' = calls \cup {new}
  BY DEF AddRoute
<1>2. new \in [path : Paths, method : Methods, action : Actions, result : {0, -3}]
  OBVIOUS
<1>3. nodes' = Endpoints'
  <2>1. new.path = p
    OBVIOUS
  <2> HIDE DEF new, n
  <2>2. Endpoints' = Endpoints \cup Prefixes(Segments(new.path))
    BY <1>1 DEF Endpoints
  <2>3. Prefixes(Segments(new.path)) = Prefixes(n)
    BY <2>1 DEF n
  <2> QED BY <1>1, <2>2, <2>3 DEF TableInv
<1>4. /\ DOMAIN slots' = {<<Segments(c.path), c.method>> : c \in Registered'}
      /\ \A c \in Registered' : slots'[<<Segments(c.path), c.method>>] = c.action
  <2>0. /\ DOMAIN slots = {<<Segments(c.path), c.method>> : c \in Registered}
        /\ \A c \in Registered : slots[<<Segments(c.path), c.method>>] = c.action
    BY DEF TableInv
  <2>1. CASE taken
    <3>1. new.result # 0
      BY <2>1
    <3>2. Registered' = Registered
      <4> HIDE DEF new
      <4> QED BY <1>1, <3>1 DEF Registered
    <3> QED BY <1>1, <2>0, <2>1, <3>2
  <2>2. CASE ~taken
    <3>1. new.path = p /\ new.method = m /\ new.action = a /\ new.result = 0
      BY <2>2
    <3>2. <<n, m>> \notin DOMAIN slots
      <4> SUFFICES ASSUME <<n, m>> \in DOMAIN slots PROVE FALSE
        OBVIOUS
      <4>1. PICK c \in Registered : <<n, m>> = <<Segments(c.path), c.method>>
        BY <2>0
      <4>2. slots[<<n, m>>] = c.action /\ c.action \in Actions
        BY <2>0, <4>1 DEF TableInv, Registered
      <4> QED BY <2>2, <4>2 DEF Action
    <3> HIDE DEF new, taken, n
    <3>3. Registered' = Registered \cup {new}
      BY <1>1, <3>1 DEF Registered
    <3>4. slots' = [x \in DOMAIN slots \cup {<<n, m>>} |->
                       IF x = <<n, m>> THEN a ELSE slots[x]]
      BY <1>1, <2>2
    <3>5. Segments(new.path) = n
      BY <3>1 DEF n
    <3>6. DOMAIN slots' = {<<Segments(c.path), c.method>> : c \in Registered'}
      BY <2>0, <3>1, <3>3, <3>4, <3>5
    <3>7. ASSUME NEW c \in Registered' PROVE slots'[<<Segments(c.path), c.method>>] = c.action
      <4>1. CASE c = new
        BY <3>1, <3>4, <3>5, <4>1
      <4>2. CASE c \in Registered
        <5>1. <<Segments(c.path), c.method>> \in DOMAIN slots
          BY <2>0, <4>2
        <5> QED BY <2>0, <3>2, <3>4, <4>2, <5>1
      <4> QED BY <3>3, <4>1, <4>2
    <3> QED BY <3>6, <3>7
  <2> QED BY <2>1, <2>2
<1>5. calls' \subseteq [path : Paths, method : Methods, action : Actions, result : {0, -3}]
  <2> HIDE DEF new
  <2> QED BY <1>1, <1>2 DEF TableInv
<1> QED BY <1>3, <1>4, <1>5 DEF TableInv

\* A lookup changes none of it, a route as above.
LEMMA TableStep == TableInv /\ [Next]_vars => TableInv'
<1> SUFFICES ASSUME TableInv, [Next]_vars PROVE TableInv'
  OBVIOUS
<1>1. CASE UNCHANGED <<calls, nodes, slots>>
  BY <1>1 DEF TableInv, Endpoints, Registered
<1>2. ASSUME NEW p \in Paths, NEW m \in Methods, NEW a \in Actions, AddRoute(p, m, a)
      PROVE  TableInv'
  BY <1>2, RouteAdded
<1> QED BY <1>1, <1>2 DEF Next, vars, StartServing, Lookup

\* The table agrees with the calls, before and while it is used.
THEOREM TableCorrect == Spec => []TableInv
BY TableStart, TableStep, PTL DEF Spec

\* A prefix of a prefix.
LEMMA PrefixOfPrefix ==
    ASSUME NEW S, NEW s \in Seq(S), NEW j \in 0 .. Len(s), NEW l \in 0 .. j
    PROVE  SubSeq(SubSeq(s, 1, j), 1, l) = SubSeq(s, 1, l)
<1>1. Len(s) \in Nat /\ l \in 0 .. Len(s) /\ \A i \in 1 .. Len(s) : s[i] \in S
  BY LenProperties, ElementOfSeq
<1>2. /\ SubSeq(s, 1, j) \in Seq(S) /\ Len(SubSeq(s, 1, j)) = j
      /\ \A i \in 1 .. j : SubSeq(s, 1, j)[i] = s[i]
  BY <1>1, SubSeqProperties
<1>3. /\ SubSeq(s, 1, l) \in Seq(S) /\ Len(SubSeq(s, 1, l)) = l
      /\ \A i \in 1 .. l : SubSeq(s, 1, l)[i] = s[i]
  BY <1>1, SubSeqProperties
<1> DEFINE t == SubSeq(s, 1, j)
<1> HIDE DEF t
<1>4. /\ SubSeq(t, 1, l) \in Seq(S) /\ Len(SubSeq(t, 1, l)) = l
      /\ \A i \in 1 .. l : SubSeq(t, 1, l)[i] = t[i]
  <2>1. t \in Seq(S) /\ Len(t) = j /\ j \in Nat
    BY <1>1, <1>2 DEF t
  <2>2. \A i \in 1 .. l : t[i] \in S
    BY <2>1
  <2> QED BY <1>1, <2>2, SubSeqProperties
<1>5. \A i \in 1 .. l : t[i] = s[i]
  BY <1>1, <1>2 DEF t
<1>6. SubSeq(t, 1, l) = SubSeq(s, 1, l)
  BY <1>3, <1>4, <1>5, SeqEqual
<1> QED BY <1>6 DEF t

\* Endpoints are sequences of tokens, and with one of them come all on the way to it.
LEMMA OnTheWay ==
    ASSUME TableInv, NEW n \in nodes
    PROVE  /\ n \in Seq(Tokens) /\ n \in Seq(Names \cup {Slash})
           /\ \A l \in 0 .. Len(n) : SubSeq(n, 1, l) \in nodes
<1>1. CASE n = Root
  <2>1. Root \in Seq(Tokens) /\ Root \in Seq(Names \cup {Slash}) /\ Len(Root) = 0
    BY EmptySeq DEF Root
  <2>2. SubSeq(Root, 1, 0) = Root
    BY <2>1, SubSeqEmpty DEF Root
  <2>3. \A l \in 0 .. 0 : l = 0
    OBVIOUS
  <2> QED BY <1>1, <2>1, <2>2, <2>3 DEF TableInv, Endpoints
<1>2. ASSUME NEW c \in calls, n \in Prefixes(Segments(c.path))
      PROVE  /\ n \in Seq(Tokens) /\ n \in Seq(Names \cup {Slash})
             /\ \A l \in 0 .. Len(n) : SubSeq(n, 1, l) \in nodes
  <2> DEFINE s == Segments(c.path)
  <2>1. c.path \in Paths
    BY DEF TableInv
  <2>2. s \in Seq(Tokens) /\ s \in Seq(Names \cup {Slash}) /\ Len(s) \in Nat
    BY <2>1, SegmentsTyped, LenProperties
  <2>3. PICK j \in 0 .. Len(s) : n = SubSeq(s, 1, j)
    BY <1>2 DEF Prefixes
  <2> HIDE DEF s
  <2>4. n \in Seq(Tokens) /\ n \in Seq(Names \cup {Slash}) /\ Len(n) = j
    BY <2>2, <2>3, SubSeqProperties
  <2>5. \A l \in 0 .. Len(n) : SubSeq(n, 1, l) = SubSeq(s, 1, l)
    BY <2>2, <2>3, <2>4, PrefixOfPrefix
  <2>6. \A l \in 0 .. Len(n) : SubSeq(s, 1, l) \in Prefixes(s)
    BY <2>2, <2>3, <2>4 DEF Prefixes
  <2>7. Prefixes(s) \subseteq nodes
    BY DEF TableInv, Endpoints, s
  <2> QED BY <2>4, <2>5, <2>6, <2>7
<1> QED BY <1>1, <1>2 DEF TableInv, Endpoints
-----------------------------------------------------------------------------
(* The loop over the chunks *)

Begin(p) == [node |-> Root, prev |-> 1, rest |-> Len(p) + 1, missed |-> {}, stopped |-> FALSE]

\* What the recursion in Walk computes for the first n chunks of p.
Descends(f, p, n) ==
    f = [k \in 0 .. n |-> IF k = 0 THEN Begin(p) ELSE Descend(f[k - 1], p, k)]

\* A descent over n tokens goes on over one more.
LEMMA DescendsOneMore ==
    ASSUME NEW p, NEW n \in Nat, NEW f, Descends(f, p, n)
    PROVE  \E g : Descends(g, p, n + 1)
<1> DEFINE g == [k \in 0 .. n + 1 |-> IF k = n + 1 THEN Descend(f[n], p, n + 1) ELSE f[k]]
<1>1. \A k \in 0 .. n : f[k] = IF k = 0 THEN Begin(p) ELSE Descend(f[k - 1], p, k)
  BY DEF Descends
<1>2. g[0] = Begin(p)
  <2>1. 0 \in 0 .. n /\ 0 \in 0 .. n + 1 /\ 0 # n + 1
    OBVIOUS
  <2> QED BY <1>1, <2>1
<1>3. ASSUME NEW k \in 1 .. n + 1 PROVE g[k] = Descend(g[k - 1], p, k)
  <2>1. CASE k = n + 1
    <3>1. k - 1 = n /\ n # n + 1 /\ n \in 0 .. n + 1 /\ k \in 0 .. n + 1
      BY <2>1
    <3>2. g[k] = Descend(f[n], p, n + 1) /\ g[k - 1] = f[n]
      BY <2>1, <3>1
    <3> QED BY <2>1, <3>2
  <2>2. CASE k # n + 1
    <3>1. /\ k \in 0 .. n /\ k - 1 \in 0 .. n /\ k # 0 /\ k - 1 # n + 1
          /\ k \in 0 .. n + 1 /\ k - 1 \in 0 .. n + 1
      BY <2>2
    <3>2. g[k] = f[k] /\ g[k - 1] = f[k - 1]
      BY <2>2, <3>1
    <3> HIDE DEF g
    <3> QED BY <1>1, <3>1, <3>2
  <2> QED BY <2>1, <2>2
<1>4. DOMAIN g = 0 .. n + 1 /\ g = [k \in 0 .. n + 1 |-> g[k]]
  OBVIOUS
<1> HIDE DEF g
<1>5. \A k \in 0 .. n + 1 : k = 0 \/ k \in 1 .. n + 1
  OBVIOUS
<1>6. \A k \in 0 .. n + 1 : g[k] = IF k = 0 THEN Begin(p) ELSE Descend(g[k - 1], p, k)
  BY <1>2, <1>3, <1>5
<1> QED BY <1>4, <1>6, ZenonT(40) DEF Descends

\* So there is one of any length: the least length without one has a predecessor.
LEMMA DescendsExists ==
    ASSUME NEW p, NEW n \in Nat
    PROVE  \E f : Descends(f, p, n)
<1> DEFINE T == {m \in Nat : ~ \E f : Descends(f, p, m)}
<1> SUFFICES ASSUME n \in T PROVE FALSE
  OBVIOUS
<1>1. PICK m \in T : \A t \in T : m <= t
  BY Smallest
<1>2. m # 0
  <2> DEFINE f == [k \in 0 .. 0 |-> Begin(p)]
  <2>1. Descends(f, p, 0)
    BY DEF Descends
  <2> QED BY <2>1, <1>1
<1>3. m - 1 \in Nat /\ m - 1 \notin T
  BY <1>1, <1>2
<1>4. \E g : Descends(g, p, (m - 1) + 1)
  BY <1>3, DescendsOneMore
<1>5. (m - 1) + 1 = m
  BY <1>1
<1> QED BY <1>1, <1>4, <1>5

\* The endpoint that the first k chunks of p name, and the position behind it.
At(p, k) == SubSeq(Chunks(p), 1, k)
PrevAt(p, k) == IF k = 0 THEN 1 ELSE Position(p, k)

\* Where the loop is after k chunks: on an endpoint, at the null child of the last
\* one, or out of it, since the endpoint after l of them has no child for the next.
OnWay(w, p, k) ==
    ~w.stopped /\ w.node = At(p, k) /\ w.node \in nodes /\ w.prev = PrevAt(p, k)
AtNull(w, p, k) ==
    /\ ~w.stopped /\ w.node = None
    /\ k = Len(Chunks(p)) /\ k # 0 /\ Chunks(p)[k] = Slash
    /\ At(p, k - 1) \in nodes /\ At(p, k) \notin nodes
LeftAt(w, p, l) ==
    /\ w.stopped
    /\ At(p, l) \in nodes /\ At(p, l + 1) \notin nodes
    /\ w.node = Child(At(p, l), Slash)
    /\ w.rest = IF w.node = None THEN 2
                ELSE IF PrevAt(p, l) = None THEN None ELSE PrevAt(p, l) + 1
IsWalk(w) == w = [node |-> w.node, prev |-> w.prev, rest |-> w.rest, missed |-> w.missed,
                  stopped |-> w.stopped]
Walking(w, p, k) ==
    /\ IsWalk(w) /\ w.stopped \in BOOLEAN
    /\ OnWay(w, p, k) \/ AtNull(w, p, k) \/ \E l \in 0 .. k - 1 : LeftAt(w, p, l)

\* Where a lookup stands after the next token.
LEMMA AtStep ==
    ASSUME NEW p \in Paths
    PROVE  /\ Chunks(p) \in Seq(Tokens) /\ Len(Chunks(p)) \in Nat /\ At(p, 0) = Root
           /\ \A k \in 1 .. Len(Chunks(p)) :
                 At(p, k) = At(p, k - 1) \o <<Chunks(p)[k]>> /\ Chunks(p)[k] \in Tokens
           /\ \A k \in 0 .. Len(Chunks(p)) : At(p, k) \in Seq(Tokens) /\ Len(At(p, k)) = k
           /\ At(p, Len(Chunks(p))) = Chunks(p)
<1> DEFINE c == Chunks(p)
<1>1. c \in Seq(Tokens) /\ Len(c) \in Nat
  BY SegmentsTyped, LenProperties
<1> HIDE DEF c
<1>2. SubSeq(c, 1, 0) = <<>>
  BY SubSeqEmpty
<1>3. ASSUME NEW k \in 1 .. Len(c)
      PROVE  SubSeq(c, 1, k) = SubSeq(c, 1, k - 1) \o <<c[k]>> /\ c[k] \in Tokens
  <2>1. 1 \in 1 .. Len(c) /\ k \in 1 .. Len(c)
    BY <1>1
  <2> QED BY <1>1, <2>1, SubSeqRecursiveSecond, ElementOfSeq
<1>4. ASSUME NEW k \in 0 .. Len(c) PROVE SubSeq(c, 1, k) \in Seq(Tokens) /\ Len(SubSeq(c, 1, k)) = k
  BY <1>1, SubSeqProperties
<1>5. SubSeq(c, 1, Len(c)) = c
  BY <1>1, SubSeqFull
<1> QED BY <1>1, <1>2, <1>3, <1>4, <1>5 DEF At, Root, c

\* One round of the loop.
LEMMA DescendStep ==
    ASSUME TableInv, NEW p \in Paths, NEW k \in 1 .. Len(Chunks(p)), NEW w, Walking(w, p, k - 1)
    PROVE  Walking(Descend(w, p, k), p, k)
<1> DEFINE c == Chunks(p)[k]
           d == Descend(w, p, k)
<1>1. /\ Len(Chunks(p)) \in Nat /\ k - 1 \in 0 .. Len(Chunks(p)) /\ k # 0
      /\ At(p, k) = At(p, k - 1) \o <<c>>
      /\ At(p, k - 1) \in Seq(Tokens) /\ At(p, k) \in Seq(Tokens)
  <2>1. Len(Chunks(p)) \in Nat
    BY AtStep
  <2>2. k \in 0 .. Len(Chunks(p)) /\ k - 1 \in 0 .. Len(Chunks(p)) /\ k # 0
    BY <2>1
  <2> QED BY <2>1, <2>2, AtStep
<1>2. IsWalk(w) /\ w.stopped \in BOOLEAN
  BY DEF Walking
<1>3. CASE w.stopped
  <2>1. d = w
    BY <1>3 DEF Descend
  <2>2. \E l \in 0 .. k - 1 : LeftAt(w, p, l)
    <3>1. PICK l \in 0 .. k - 1 - 1 : LeftAt(w, p, l)
      BY <1>3 DEF Walking, OnWay, AtNull
    <3>2. l \in 0 .. k - 1
      BY <1>1
    <3> QED BY <3>1, <3>2
  <2> QED BY <1>2, <2>1, <2>2 DEF Walking
<1>4. CASE ~w.stopped
  <2>1. OnWay(w, p, k - 1)
    <3>1. k - 1 # Len(Chunks(p))
      BY <1>1
    <3> QED BY <1>4, <3>1 DEF Walking, AtNull, LeftAt
  <2>2. /\ w.node = At(p, k - 1) /\ w.node \in nodes /\ w.prev = PrevAt(p, k - 1)
        /\ w.node \o <<c>> = At(p, k)
    BY <1>1, <2>1 DEF OnWay
  <2>3. CASE Has(w.node, c)
    <3>1. d = [w EXCEPT !.node = Child(w.node, c), !.prev = Position(p, k)]
      BY <1>4, <2>3 DEF Descend
    <3>2. /\ IsWalk(d) /\ d.stopped = w.stopped
          /\ d.node = Child(w.node, c) /\ d.prev = PrevAt(p, k)
      <4> HIDE DEF d
      <4> QED BY <1>1, <1>2, <1>4, <3>1 DEF IsWalk, PrevAt
    <3>3. CASE At(p, k) \in nodes
      <4>1. d.node = At(p, k)
        BY <2>2, <3>2, <3>3 DEF Child
      <4> HIDE DEF d
      <4>2. Walking(d, p, k)
        BY <1>2, <1>4, <3>2, <3>3, <4>1 DEF Walking, OnWay
      <4> QED BY <4>2 DEF d
    <3>4. CASE At(p, k) \notin nodes
      <4>1. d.node = None /\ c = Slash
        BY <2>2, <2>3, <3>2, <3>4 DEF Child, Has
      <4>2. k = Len(Chunks(p))
        <5>1. k \notin 1 .. Len(Chunks(p)) - 1
          BY <4>1, SegmentsTyped DEF OnlyAtEnd
        <5> QED BY <1>1, <5>1
      <4> HIDE DEF d
      <4>3. AtNull(d, p, k)
        BY <1>1, <1>4, <2>2, <3>2, <3>4, <4>1, <4>2 DEF AtNull
      <4>4. Walking(d, p, k)
        BY <1>2, <3>2, <4>3 DEF Walking
      <4> QED BY <4>4 DEF d
    <3> QED BY <3>3, <3>4
  <2>4. CASE ~Has(w.node, c)
    <3>1. d = [node    |-> Child(w.node, Slash),
               prev    |-> w.prev,
               rest    |-> IF Child(w.node, Slash) = None THEN 2
                           ELSE IF w.prev = None THEN None ELSE w.prev + 1,
               missed  |-> IF Child(w.node, Slash) = None THEN {w.node} ELSE {},
               stopped |-> TRUE]
      BY <1>4, <2>4 DEF Descend
    <3>2. /\ IsWalk(d) /\ d.stopped = TRUE /\ d.node = Child(w.node, Slash)
          /\ d.rest = IF d.node = None THEN 2
                      ELSE IF w.prev = None THEN None ELSE w.prev + 1
      <4> HIDE DEF d
      <4> QED BY <3>1 DEF IsWalk
    <3>3. At(p, k) \notin nodes
      BY <2>2, <2>4 DEF Has
    <3>4. (k - 1) + 1 = k /\ k - 1 \in 0 .. k - 1
      BY <1>1
    <3> HIDE DEF d
    <3>5. LeftAt(d, p, k - 1)
      BY <2>2, <3>2, <3>3, <3>4 DEF LeftAt
    <3>6. Walking(d, p, k)
      BY <3>2, <3>4, <3>5 DEF Walking
    <3> QED BY <3>6 DEF d
  <2> QED BY <2>3, <2>4
<1> QED BY <1>2, <1>3, <1>4

\* The whole loop.
LEMMA WalkEnds ==
    ASSUME TableInv, NEW p \in Paths
    PROVE  Walking(Walk(p), p, Len(Chunks(p)))
<1> DEFINE n == Len(Chunks(p))
<1>1. n \in Nat
  BY AtStep
<1>2. PICK f : f = CHOOSE g : Descends(g, p, n)
  OBVIOUS
<1>3. Walk(p) = f[n]
  BY <1>2 DEF Walk, Descends, Begin
<1>4. \A k \in 0 .. n : f[k] = IF k = 0 THEN Begin(p) ELSE Descend(f[k - 1], p, k)
  <2> HIDE DEF n
  <2>1. Descends(f, p, n)
    BY <1>1, <1>2, DescendsExists
  <2> QED BY <2>1 DEF Descends
<1> DEFINE T == {k \in 0 .. n : ~Walking(f[k], p, k)}
<1>5. ASSUME T # {} PROVE FALSE
  <2>1. PICK k \in T : \A t \in T : k <= t
    <3>1. T \subseteq Nat
      BY <1>1
    <3> HIDE DEF T
    <3> QED BY <1>5, <3>1, Smallest
  <2>2. k # 0
    <3>1. f[0] = Begin(p)
      BY <1>1, <1>4
    <3>2. At(p, 0) = Root /\ Root \in nodes
      BY AtStep DEF TableInv, Endpoints
    <3>3. Walking(Begin(p), p, 0)
      BY <3>2 DEF Walking, IsWalk, OnWay, Begin, PrevAt
    <3> QED BY <2>1, <3>1, <3>3
  <2>3. k \in 1 .. n /\ k \in 0 .. n /\ k - 1 \in 0 .. n /\ k - 1 \notin T
    BY <1>1, <2>1, <2>2
  <2>4. Walking(f[k - 1], p, k - 1) /\ f[k] = Descend(f[k - 1], p, k)
    BY <1>4, <2>2, <2>3
  <2>5. Walking(f[k], p, k)
    BY <2>3, <2>4, DescendStep
  <2> QED BY <2>1, <2>5
<1>6. n \in 0 .. n
  BY <1>1
<1> QED BY <1>3, <1>5, <1>6
-----------------------------------------------------------------------------
(* What a request gets *)

\* The slots say of an endpoint what the calls do, and nothing of other sequences.
LEMMA SlotsAnswer ==
    ASSUME TableInv, NEW n, NEW m
    PROVE  /\ ActionAt(n, m) = Action(n, m)
           /\ n \in Seq(Tokens) /\ n \notin nodes => Action(n, m) = None
<1> DEFINE those == {c \in Registered : Segments(c.path) = n /\ c.method = m}
<1>1. CASE those = {}
  <2>1. <<n, m>> \notin DOMAIN slots
    BY <1>1 DEF TableInv
  <2> QED BY <1>1, <2>1 DEF ActionAt, Action
<1>2. CASE those # {}
  <2>1. PICK c : c = CHOOSE d \in those : TRUE
    OBVIOUS
  <2>2. c \in those
    BY <1>2, <2>1
  <2>3. <<n, m>> \in DOMAIN slots /\ slots[<<n, m>>] = c.action
    BY <2>2 DEF TableInv
  <2>4. ActionAt(n, m) = c.action
    BY <1>2, <2>1 DEF ActionAt
  <2>5. n \in Seq(Tokens) => n \in nodes
    <3>1. c \in calls /\ c.path \in Paths /\ n = Segments(c.path)
      BY <2>2 DEF Registered, TableInv
    <3>2. Len(n) \in Nat /\ n = SubSeq(n, 1, Len(n))
      BY <3>1, SegmentsTyped, LenProperties, SubSeqFull
    <3>3. n \in Prefixes(Segments(c.path))
      BY <3>1, <3>2 DEF Prefixes
    <3> QED BY <3>1, <3>3 DEF TableInv, Endpoints
  <2> QED BY <2>3, <2>4, <2>5 DEF Action
<1> QED BY <1>1, <1>2

\* The longest endpoint on the way is the last one before the way leaves the tree.
LEMMA LongestEndpoint ==
    ASSUME TableInv, NEW p \in Paths, NEW l \in 0 .. Len(Chunks(p)), At(p, l) \in nodes,
           l # Len(Chunks(p)) => At(p, l + 1) \notin nodes,
           NEW ways, ways = Prefixes(Chunks(p)) \cap Endpoints
    PROVE  (CHOOSE q \in ways : \A r \in ways : Len(r) <= Len(q)) = At(p, l)
<1>1. /\ Chunks(p) \in Seq(Tokens) /\ Len(Chunks(p)) \in Nat
      /\ \A j \in 0 .. Len(Chunks(p)) : Len(At(p, j)) = j
  BY AtStep
<1>2. Prefixes(Chunks(p)) = {At(p, j) : j \in 0 .. Len(Chunks(p))}
  BY DEF Prefixes, At
<1>3. At(p, l) \in ways
  BY <1>2 DEF TableInv
<1>4. ASSUME NEW r \in ways PROVE Len(r) <= l /\ r = At(p, Len(r))
  <2>1. PICK j \in 0 .. Len(Chunks(p)) : r = At(p, j)
    BY <1>2
  <2>2. j <= l
    <3> SUFFICES ASSUME j > l PROVE FALSE
      BY <1>1
    <3>1. l + 1 \in 0 .. j /\ l # Len(Chunks(p))
      BY <1>1
    <3>2. SubSeq(At(p, j), 1, l + 1) = At(p, l + 1)
      BY <1>1, <3>1, PrefixOfPrefix DEF At
    <3>3. At(p, j) \in nodes /\ Len(At(p, j)) = j
      BY <1>1, <2>1 DEF TableInv
    <3>4. SubSeq(At(p, j), 1, l + 1) \in nodes
      BY <3>1, <3>3, OnTheWay
    <3> QED BY <3>1, <3>2, <3>4
  <2> QED BY <1>1, <2>1, <2>2
<1>5. Len(At(p, l)) = l /\ l \in Nat
  BY <1>1
<1>6. ASSUME NEW q \in ways, \A r \in ways : Len(r) <= Len(q) PROVE q = At(p, l)
  <2>1. l <= Len(q) /\ Len(q) <= l /\ q = At(p, Len(q))
    BY <1>3, <1>4, <1>5, <1>6
  <2>2. Len(q) \in Nat
    <3>1. PICK j \in 0 .. Len(Chunks(p)) : q = At(p, j)
      BY <1>2
    <3> QED BY <1>1, <3>1
  <2>3. Len(q) = l
    BY <1>5, <2>1, <2>2
  <2> QED BY <2>1, <2>3
<1>7. \A r \in ways : Len(r) <= Len(At(p, l))
  BY <1>4, <1>5
<1> QED BY <1>3, <1>6, <1>7

\* The answer of the routes, by the place where the way leaves the tree.
LEMMA AnswerIs ==
    ASSUME TableInv, NEW p \in Paths, NEW m, NEW l \in 0 .. Len(Chunks(p)), At(p, l) \in nodes,
           l # Len(Chunks(p)) => At(p, l + 1) \notin nodes
    PROVE  Answer(p, m) = Action(IF l = Len(Chunks(p)) THEN At(p, l)
                                 ELSE At(p, l) \o <<Slash>>, m)
<1> DEFINE ways == Prefixes(Chunks(p)) \cap Endpoints
           longest == CHOOSE q \in ways : \A r \in ways : Len(r) <= Len(q)
<1>1. longest = At(p, l)
  <2> HIDE DEF ways
  <2> QED BY LongestEndpoint DEF ways
<1>2. Answer(p, m) = ActionAt(IF longest = Chunks(p) THEN longest ELSE Append(longest, Slash), m)
  BY DEF Answer
<1> HIDE DEF longest
<1>3. longest = Chunks(p) <=> l = Len(Chunks(p))
  BY <1>1, AtStep
<1>4. Append(At(p, l), Slash) = At(p, l) \o <<Slash>>
  <2>1. At(p, l) \in Seq(Tokens) /\ Slash \in Tokens
    BY AtStep DEF Tokens
  <2> QED BY <2>1, AppendIsConcat
<1>5. Answer(p, m) = ActionAt(IF l = Len(Chunks(p)) THEN At(p, l) ELSE At(p, l) \o <<Slash>>, m)
  BY <1>1, <1>2, <1>3, <1>4
<1> QED BY <1>5, SlotsAnswer

\* What the loop finds is what the routes say.
LEMMA FoundIsAnswer ==
    ASSUME TableInv, NEW p \in Paths, NEW m
    PROVE  Found(p, m) = Answer(p, m)
<1> DEFINE n == Len(Chunks(p))
           w == Walk(p)
<1>1. Walking(w, p, n) /\ n \in Nat
  BY WalkEnds, AtStep
<1>2. Found(p, m) = IF w.node = None THEN None ELSE Action(w.node, m)
  BY DEF Found
<1>3. \A k \in 0 .. n : At(p, k) # None
  BY AtStep
<1> HIDE DEF w
<1>4. CASE OnWay(w, p, n)
  <2>1. n \in 0 .. n /\ At(p, n) \in nodes /\ w.node = At(p, n)
    BY <1>1, <1>4 DEF OnWay
  <2>2. Answer(p, m) = Action(At(p, n), m)
    BY <2>1, AnswerIs
  <2> QED BY <1>2, <1>3, <2>1, <2>2
<1>5. CASE AtNull(w, p, n)
  <2>1. /\ n - 1 \in 0 .. n /\ n - 1 # n /\ (n - 1) + 1 = n /\ n \in 1 .. n /\ n \in 0 .. n
        /\ At(p, n - 1) \in nodes /\ At(p, n) \notin nodes
        /\ Chunks(p)[n] = Slash /\ w.node = None
    BY <1>1, <1>5 DEF AtNull
  <2>2. Answer(p, m) = Action(At(p, n - 1) \o <<Slash>>, m)
    BY <2>1, AnswerIs
  <2>3. At(p, n - 1) \o <<Slash>> = At(p, n) /\ At(p, n) \in Seq(Tokens)
    BY <2>1, AtStep
  <2>4. Action(At(p, n), m) = None
    BY <2>1, <2>3, SlotsAnswer
  <2> QED BY <1>2, <2>1, <2>2, <2>3, <2>4
<1>6. ASSUME NEW l \in 0 .. n - 1, LeftAt(w, p, l) PROVE Found(p, m) = Answer(p, m)
  <2>1. l \in 0 .. n /\ l # n /\ At(p, l) \in nodes /\ At(p, l + 1) \notin nodes
    BY <1>1, <1>6 DEF LeftAt
  <2> DEFINE folder == At(p, l) \o <<Slash>>
  <2>2. Answer(p, m) = Action(folder, m)
    BY <2>1, AnswerIs
  <2>3. folder \in Seq(Tokens)
    <3>1. At(p, l) \in Seq(Tokens) /\ <<Slash>> \in Seq(Tokens)
      BY <2>1, AtStep DEF Tokens
    <3> QED BY <3>1, ConcatProperties
  <2>4. w.node = IF folder \in nodes THEN folder ELSE None
    BY <1>6 DEF LeftAt, Child
  <2> HIDE DEF folder
  <2>5. folder # None
    BY <2>3
  <2> QED BY <1>2, <2>2, <2>3, <2>4, <2>5, SlotsAnswer
<1> QED BY <1>1, <1>4, <1>5, <1>6 DEF Walking

\* Whatever routes were added, every request is answered by the action they give
\* it, and lookups before it change nothing.
THEOREM RoutesAnswer == Spec => []AnsweredByItsRoute
<1>1. TableInv => AnsweredByItsRoute
  BY FoundIsAnswer DEF AnsweredByItsRoute
<1> QED BY <1>1, TableCorrect, PTL

\* An accepted route is in the tree, and its slot holds its action.
LEMMA RouteInTree ==
    ASSUME TableInv, NEW c \in Registered
    PROVE  /\ c.path \in Paths /\ Segments(c.path) \in nodes
           /\ Action(Segments(c.path), c.method) = c.action
<1>1. c \in calls /\ c.path \in Paths
  BY DEF TableInv, Registered
<1> DEFINE s == Segments(c.path)
<1>2. s \in Seq(Tokens) /\ Len(s) \in Nat
  BY <1>1, SegmentsTyped, LenProperties
<1>3. s \in Prefixes(s)
  <2> HIDE DEF s
  <2>1. s = SubSeq(s, 1, Len(s))
    BY <1>2, SubSeqFull
  <2>2. Len(s) \in 0 .. Len(s)
    BY <1>2
  <2>3. SubSeq(s, 1, Len(s)) \in Prefixes(s)
    BY <2>2 DEF Prefixes
  <2> QED BY <2>1, <2>3
<1>4. s \in nodes
  BY <1>1, <1>3 DEF TableInv, Endpoints
<1>5. Action(s, c.method) = c.action
  BY DEF TableInv, Action
<1> QED BY <1>1, <1>4, <1>5

\* Adding and looking up cut a path in the same way, but for two slashes at its end.
LEMMA RouteFindsItself ==
    ASSUME TableInv, NEW c \in Registered,
           ~(Len(c.path) > 1 /\ Last(c.path) = Slash /\ c.path[Len(c.path) - 1] = Slash)
    PROVE  Found(c.path, c.method) = c.action
<1> DEFINE p == c.path
           n == Len(Chunks(p))
<1>1. /\ p \in Paths /\ Segments(p) \in nodes /\ Action(Segments(p), c.method) = c.action
      /\ ~(Len(p) > 1 /\ Last(p) = Slash /\ p[Len(p) - 1] = Slash)
  BY RouteInTree
<1> HIDE DEF p
<1>2. p \in Seq(Tokens) /\ Len(p) \in Nat \ {0} /\ p[1] = Slash
  BY <1>1, PathsTyped
<1>3. n \in Nat
  BY <1>1, AtStep
<1>4. CASE Len(p) = 1
  <2>1. p = <<Slash>>
    BY <1>2, <1>4
  <2>2. NamesOf(p) = <<>>
    BY <1>2, <1>4, NamesStep
  <2>3. Segments(p) = <<Slash>> /\ Chunks(p) = <<Empty>>
    BY <1>4, <2>1, <2>2 DEF Segments, Chunks
  <2>4. At(p, 1) \notin nodes
    <3>1. At(p, 1) = <<Empty>>
      BY <1>1, <2>3, AtStep
    <3>2. <<Empty>> \notin Seq(Names \cup {Slash})
      <4> SUFFICES ASSUME <<Empty>> \in Seq(Names \cup {Slash}) PROVE FALSE
        OBVIOUS
      <4>1. <<Empty>>[1] \in Names \cup {Slash}
        BY ElementOfSeq
      <4> QED BY <4>1 DEF Empty, Slash
    <3> QED BY <3>1, <3>2, OnTheWay
  <2>5. At(p, 0) = <<>> /\ At(p, 0) \in nodes
    BY <1>1, AtStep DEF TableInv, Endpoints, Root
  <2>6. Answer(p, c.method) = Action(At(p, 0) \o <<Slash>>, c.method)
    <3>1. n = 1
      BY <2>3
    <3>2. 0 \in 0 .. n /\ 0 # n /\ 0 + 1 = 1
      BY <3>1
    <3> HIDE DEF n
    <3> QED BY <1>1, <2>4, <2>5, <3>2, AnswerIs DEF n
  <2>7. At(p, 0) \o <<Slash>> = Segments(p)
    <3>1. <<Slash>> \in Seq(Tokens)
      BY DEF Tokens
    <3>2. <<>> \o <<Slash>> = <<Slash>>
      BY <3>1, ConcatEmptySeq
    <3> QED BY <2>3, <2>5, <3>2
  <2> QED BY <1>1, <2>6, <2>7, FoundIsAnswer DEF p
<1>5. CASE Len(p) # 1
  <2>1. p # <<Slash>> /\ Len(p) > 1
    <3>1. ASSUME p = <<Slash>> PROVE FALSE
      <4>1. Len(p) = 1
        BY <3>1
      <4> QED BY <1>5, <4>1
    <3>2. Len(p) > 1
      <4> DEFINE k == Len(p)
      <4>1. k \in Nat /\ k # 0 /\ k # 1
        BY <1>2, <1>5
      <4> HIDE DEF k
      <4>2. k > 1
        BY <4>1
      <4> QED BY <4>2 DEF k
    <3> QED BY <3>1, <3>2
  <2>2. Chunks(p) = Segments(p)
    BY <1>1, <1>5, <2>1 DEF Segments, Chunks
  <2>3. At(p, n) = Segments(p) /\ n \in 0 .. n
    BY <1>1, <1>3, <2>2, AtStep
  <2>4. Answer(p, c.method) = Action(At(p, n), c.method)
    BY <1>1, <2>3, AnswerIs
  <2> QED BY <1>1, <2>3, <2>4, FoundIsAnswer DEF p
<1> QED BY <1>4, <1>5

\* An accepted route answers for its own path.
THEOREM RoutesAnswerThemselves == Spec => []RouteAnswersItself
<1>1. TableInv => RouteAnswersItself
  BY RouteFindsItself DEF RouteAnswersItself
<1> QED BY <1>1, TableCorrect, PTL

\* The k-th name of a path is followed by a slash that is not the last token, unless
\* it is the last name and no empty segment follows it.
LEMMA NameEnds ==
    ASSUME NEW p \in Paths, NEW k \in 1 .. Len(NamesOf(p)),
           \/ k < Len(NamesOf(p))
           \/ p[Len(p)] = Slash /\ p[Len(p) - 1] = Slash
    PROVE  \E i \in 2 .. Len(p) - 1 :
              p[i] = Slash /\ p[i - 1] # Slash /\ Len(NamesUpTo(p, i)) = k
<1>1. /\ p \in Seq(Names \cup {Slash}) /\ p \in Seq(Tokens)
      /\ Len(p) \in Nat \ {0} /\ p[1] = Slash /\ WellFormed(p)
  BY PathsTyped
<1>2. Len(NamesOf(p)) \in Nat /\ k \in Nat
  BY SegmentsTyped
<1> DEFINE L(j) == Len(NamesUpTo(p, j))
<1>3. \A j \in 0 .. Len(p) : NamesUpTo(p, j) \in Seq(Names) /\ L(j) \in Nat
  BY <1>1, NamesTyped, LenProperties
<1>4. L(0) = 0 /\ L(Len(p)) = Len(NamesOf(p))
  BY <1>1, NamesStep
<1>5. \A j \in 1 .. Len(p) : L(j) = IF p[j] = Slash THEN L(j - 1) ELSE L(j - 1) + 1
  <2> SUFFICES ASSUME NEW j \in 1 .. Len(p)
               PROVE  L(j) = IF p[j] = Slash THEN L(j - 1) ELSE L(j - 1) + 1
    OBVIOUS
  <2>1. /\ NamesUpTo(p, j - 1) \in Seq(Names)
        /\ p[j] \in Names \cup {Slash}
    BY <1>1, <1>3, ElementOfSeq
  <2>2. NamesUpTo(p, j) = IF p[j] = Slash THEN NamesUpTo(p, j - 1)
                          ELSE Append(NamesUpTo(p, j - 1), p[j])
    BY <1>1, NamesStep
  <2> QED BY <2>1, <2>2, AppendProperties
<1> HIDE DEF L
<1> DEFINE T == {j \in 0 .. Len(p) : L(j) >= k}
<1>6. PICK j \in T : \A t \in T : j <= t
  <2>1. T \subseteq Nat
    BY <1>1
  <2>2. T # {}
    <3>1. Len(p) \in T
      BY <1>1, <1>2, <1>4
    <3> QED BY <3>1
  <2> HIDE DEF T
  <2> QED BY <2>1, <2>2, Smallest
<1>7. j # 0
  BY <1>4, <1>6
<1>8. j \in 1 .. Len(p) /\ j - 1 \in 0 .. Len(p) /\ j - 1 \notin T /\ L(j) >= k
  BY <1>1, <1>6, <1>7
<1>9. p[j] # Slash /\ L(j) = k
  <2>1. L(j - 1) < k /\ L(j - 1) \in Nat /\ L(j) \in Nat
    BY <1>2, <1>3, <1>6, <1>8
  <2>2. L(j) = IF p[j] = Slash THEN L(j - 1) ELSE L(j - 1) + 1
    BY <1>5, <1>8
  <2> QED BY <1>2, <1>8, <2>1, <2>2
<1>10. j < Len(p)
  <2> SUFFICES ASSUME j = Len(p) PROVE FALSE
    BY <1>1, <1>8
  <2>1. ~(k < Len(NamesOf(p)))
    BY <1>2, <1>4, <1>9
  <2> QED BY <1>9, <2>1
<1>11. p[j + 1] = Slash
  <2>1. j \in 1 .. Len(p) - 1
    BY <1>1, <1>8, <1>10
  <2> QED BY <1>1, <1>9, <2>1 DEF WellFormed
<1>12. L(j + 1) = k
  <2>1. j + 1 \in 1 .. Len(p) /\ (j + 1) - 1 = j
    BY <1>1, <1>8, <1>10
  <2> QED BY <1>5, <1>9, <1>11, <2>1
<1>13. j + 1 # Len(p)
  <2> SUFFICES ASSUME j + 1 = Len(p) PROVE FALSE
    OBVIOUS
  <2>1. ~(k < Len(NamesOf(p)))
    BY <1>2, <1>4, <1>12
  <2>2. Len(p) - 1 = j
    BY <1>1, <1>8
  <2> QED BY <1>9, <2>1, <2>2
<1>14. j + 1 \in 2 .. Len(p) - 1 /\ (j + 1) - 1 = j
  BY <1>1, <1>8, <1>10, <1>13
<1> QED BY <1>9, <1>11, <1>12, <1>14 DEF L

\* Where the way leaves the tree at a folder, the chunks before it are names of the
\* path, and another chunk follows, whose position was stored with the last of them.
LEMMA FolderOnPath ==
    ASSUME NEW p \in Paths, NEW l \in 0 .. Len(Chunks(p)) - 1, Chunks(p)[l + 1] # Slash
    PROVE  /\ PrevAt(p, l) \in 1 .. Len(p)
           /\ At(p, l) = NamesUpTo(p, PrevAt(p, l))
<1>1. /\ p \in Seq(Names \cup {Slash}) /\ p \in Seq(Tokens)
      /\ Len(p) \in Nat \ {0} /\ p[1] = Slash
  BY PathsTyped
<1> DEFINE names == NamesOf(p)
<1>2. names \in Seq(Names) /\ Len(names) \in Nat /\ names \in Seq(Tokens)
  BY SegmentsTyped, SeqMonotonic DEF Tokens
<1>3. Len(Chunks(p)) \in Nat /\ l \in Nat /\ l + 1 \in 1 .. Len(Chunks(p))
  BY AtStep
<1>4. CASE l = 0
  <2>1. 1 \in 1 .. Len(p) /\ 1 - 1 = 0
    BY <1>1
  <2>2. NamesUpTo(p, 1) = NamesUpTo(p, 0) /\ NamesUpTo(p, 0) = <<>>
    BY <1>1, <2>1, NamesStep
  <2>3. At(p, 0) = <<>>
    BY AtStep DEF Root
  <2> QED BY <1>4, <2>1, <2>2, <2>3 DEF PrevAt
<1>5. CASE l # 0
  <2>1. /\ l \in 1 .. Len(names)
        /\ l < Len(names) \/ (p[Len(p)] = Slash /\ p[Len(p) - 1] = Slash)
        /\ \A k \in 1 .. l : Chunks(p)[k] = names[k]
    <3> HIDE DEF names
    <3>1. CASE Chunks(p) = <<Empty>>
      <4>1. Len(Chunks(p)) = 1
        BY <3>1
      <4> QED BY <1>3, <1>5, <4>1
    <3>2. CASE Chunks(p) = names
      BY <1>2, <1>3, <1>5, <3>2
    <3>3. CASE Chunks(p) = names \o <<Empty, Slash>> /\ p[Len(p)] = Slash /\ p[Len(p) - 1] = Slash
      <4> DEFINE two == <<Empty, Slash>>
      <4>1. two \in Seq(Tokens) /\ Len(two) = 2 /\ two[2] = Slash
        BY DEF Tokens
      <4> HIDE DEF two
      <4>2. /\ Len(Chunks(p)) = Len(names) + Len(two)
            /\ \A k \in 1 .. Len(names) + Len(two) :
                  Chunks(p)[k] = IF k <= Len(names) THEN names[k] ELSE two[k - Len(names)]
        <5>1. Chunks(p) = names \o two
          BY <3>3 DEF two
        <5>2. /\ Len(names \o two) = Len(names) + Len(two)
              /\ \A k \in 1 .. Len(names) + Len(two) :
                    (names \o two)[k] = IF k <= Len(names) THEN names[k] ELSE two[k - Len(names)]
          <6>1. names \in Seq(Tokens) /\ two \in Seq(Tokens)
            BY <1>2, <4>1
          <6> QED BY <6>1, ConcatProperties
        <5> QED BY <5>1, <5>2
      <4>3. l # Len(names) + 1
        <5> SUFFICES ASSUME l = Len(names) + 1 PROVE FALSE
          OBVIOUS
        <5>1. /\ l + 1 \in 1 .. Len(names) + Len(two) /\ ~(l + 1 <= Len(names))
              /\ (l + 1) - Len(names) = 2
          BY <1>2, <4>1
        <5> QED BY <4>1, <4>2, <5>1
      <4>4. l \in 1 .. Len(names)
        BY <1>2, <1>3, <1>5, <4>1, <4>2, <4>3
      <4>5. \A k \in 1 .. l : k \in 1 .. Len(names) + Len(two) /\ k <= Len(names)
        BY <1>2, <4>1, <4>4
      <4>6. \A k \in 1 .. l : Chunks(p)[k] = names[k]
        BY <4>2, <4>5
      <4> QED BY <3>3, <4>4, <4>6
    <3>4. CASE Chunks(p) = Append(names, Slash)
      <4>1. /\ Len(Chunks(p)) = Len(names) + 1 /\ Chunks(p)[Len(names) + 1] = Slash
            /\ \A k \in 1 .. Len(names) : Chunks(p)[k] = names[k]
        <5>1. Slash \in Tokens
          BY DEF Tokens
        <5> QED BY <1>2, <3>4, <5>1, AppendProperties
      <4>2. l # Len(names)
        BY <4>1
      <4> QED BY <1>2, <1>3, <1>5, <4>1, <4>2
    <3>5. \/ Chunks(p) = <<Empty>> \/ Chunks(p) = names \/ Chunks(p) = Append(names, Slash)
          \/ Chunks(p) = names \o <<Empty, Slash>> /\ p[Len(p)] = Slash /\ p[Len(p) - 1] = Slash
      BY DEF Chunks, names, Last
    <3> QED BY <3>1, <3>2, <3>3, <3>4, <3>5
  <2> DEFINE after == {i \in 2 .. Len(p) - 1 :
                          p[i] = Slash /\ p[i - 1] # Slash /\ Len(NamesUpTo(p, i)) = l}
  <2>2. after # {}
    BY <2>1, NameEnds, ZenonT(40)
  <2>3. PrevAt(p, l) = CHOOSE i \in after : TRUE
    BY <1>5, <2>2 DEF PrevAt, Position, NamesUpTo
  <2>4. PICK i \in after : i = PrevAt(p, l)
    BY <2>2, <2>3
  <2>5. i \in 0 .. Len(p) /\ i \in Nat /\ i \in 1 .. Len(p) /\ i <= Len(p) /\ Len(NamesUpTo(p, i)) = l
    BY <1>1, <2>4
  <2>6. \A k \in 1 .. l : NamesUpTo(p, i)[k] = names[k]
    <3>1. NamesUpTo(p, Len(p)) = names
      BY <1>1, NamesStep
    <3>2. Len(p) \in Nat /\ Len(p) <= Len(p)
      BY <1>1
    <3>3. \A k \in 1 .. Len(NamesUpTo(p, i)) : NamesUpTo(p, i)[k] = NamesUpTo(p, Len(p))[k]
      <4> HIDE DEF after
      <4> QED BY <1>1, <2>5, <3>2, NamesGrow
    <3> QED BY <2>5, <3>1, <3>3
  <2>7. NamesUpTo(p, i) \in Seq(Tokens)
    BY <1>1, <2>5, NamesTyped, SeqMonotonic DEF Tokens
  <2>8. /\ At(p, l) \in Seq(Tokens) /\ Len(At(p, l)) = l
        /\ \A k \in 1 .. l : At(p, l)[k] = Chunks(p)[k]
    <3>1. Chunks(p) \in Seq(Tokens) /\ l \in 0 .. Len(Chunks(p))
      BY <1>3, AtStep
    <3> QED BY <1>3, <3>1, SubSeqProperties DEF At
  <2>9. At(p, l) = NamesUpTo(p, i)
    <3>1. \A k \in 1 .. l : At(p, l)[k] = NamesUpTo(p, i)[k]
      BY <2>1, <2>6, <2>8
    <3> HIDE DEF after
    <3> QED BY <2>5, <2>7, <2>8, <3>1, SeqEqual
  <2> QED BY <2>4, <2>5, <2>9
<1> QED BY <1>4, <1>5

\* When a folder answers for a path below it, the rest is what follows its name.
LEMMA RestIsKnown ==
    ASSUME TableInv, NEW p \in Paths, NEW w, w = Walk(p), w.stopped, w.node # None
    PROVE  /\ w.rest \in 2 .. Len(p) + 1
           /\ Front(w.node) = NamesOf(SubSeq(p, 1, w.rest - 1))
<1>1. Len(Chunks(p)) \in Nat /\ Len(p) \in Nat
  BY AtStep, PathsTyped
<1>2. PICK l \in 0 .. Len(Chunks(p)) - 1 : LeftAt(w, p, l)
  BY WalkEnds DEF Walking, OnWay, AtNull
<1>3. l \in 0 .. Len(Chunks(p)) /\ l + 1 \in 1 .. Len(Chunks(p)) /\ (l + 1) - 1 = l
  BY <1>1
<1> DEFINE folder == At(p, l) \o <<Slash>>
<1>4. w.node = folder /\ folder \in nodes
  BY <1>2 DEF LeftAt, Child
<1>5. At(p, l) \in Seq(Tokens) /\ Len(At(p, l)) = l /\ <<Slash>> \in Seq(Tokens) /\ Len(<<Slash>>) = 1
  BY <1>3, AtStep DEF Tokens
<1>6. Chunks(p)[l + 1] # Slash
  <2> SUFFICES ASSUME Chunks(p)[l + 1] = Slash PROVE FALSE
    OBVIOUS
  <2>1. At(p, l + 1) = folder
    BY <1>3, AtStep
  <2> HIDE DEF folder
  <2> QED BY <1>2, <1>4, <2>1 DEF LeftAt
<1>7. PrevAt(p, l) \in 1 .. Len(p) /\ At(p, l) = NamesUpTo(p, PrevAt(p, l))
  BY <1>6, FolderOnPath
<1>8. w.rest = PrevAt(p, l) + 1
  <2>1. PrevAt(p, l) # None
    BY <1>1, <1>7
  <2> QED BY <1>2, <2>1 DEF LeftAt
<1>9. Front(folder) = At(p, l)
  <2>1. /\ folder \in Seq(Tokens) /\ Len(folder) = l + 1
        /\ \A i \in 1 .. l : folder[i] = At(p, l)[i]
    <3>1. /\ folder \in Seq(Tokens) /\ Len(folder) = Len(At(p, l)) + Len(<<Slash>>)
          /\ \A i \in 1 .. Len(At(p, l)) + Len(<<Slash>>) :
                folder[i] = IF i <= Len(At(p, l)) THEN At(p, l)[i]
                            ELSE <<Slash>>[i - Len(At(p, l))]
      BY <1>5, ConcatProperties
    <3>2. \A i \in 1 .. l : i \in 1 .. l + 1 /\ i <= l
      BY <1>1
    <3> HIDE DEF folder
    <3> QED BY <1>5, <3>1, <3>2
  <2> HIDE DEF folder
  <2>2. /\ SubSeq(folder, 1, l) \in Seq(Tokens) /\ Len(SubSeq(folder, 1, l)) = l
        /\ \A i \in 1 .. l : SubSeq(folder, 1, l)[i] = folder[i]
    <3>1. l \in Nat /\ l \in 0 .. Len(folder)
      BY <1>1, <2>1
    <3> QED BY <2>1, <3>1, SubSeqProperties
  <2>3. Len(folder) - 1 = l
    BY <1>1, <2>1
  <2>4. SubSeq(folder, 1, l) = At(p, l)
    BY <1>5, <2>1, <2>2, SeqEqual
  <2> QED BY <2>3, <2>4 DEF Front
<1>10. w.rest - 1 = PrevAt(p, l) /\ w.rest \in 2 .. Len(p) + 1
  BY <1>1, <1>7, <1>8
<1> QED BY <1>4, <1>7, <1>9, <1>10 DEF NamesUpTo

\* cgi, upload and static pages get what follows the folder's name, from a position
\* that was stored.
THEOREM RestIsStored == Spec => []RestFollowsFolder
<1>1. TableInv => RestFollowsFolder
  BY RestIsKnown DEF RestFollowsFolder
<1> QED BY <1>1, TableCorrect, PTL
=============================================================================
