---------------------------- MODULE RequestTarget ----------------------------
(***************************************************************************)
(* The request line (lib/http_request.cc 21-150): method, target, version. *)
(* get_http_path copies the target into url_t::path one character at a     *)
(* time, undoes the escapes as it goes, and cuts the copy at "?", "=" and  *)
(* "&" with null characters: path, keys and values are pointers into it.   *)
(*                                                                         *)
(* A character of the target stands for its class: "h" a hexadecimal       *)
(* digit, "!" one that no path may hold.  An escape gives "x", whatever    *)
(* the character was that it stood for, or "junk" when it is malformed.    *)
(***************************************************************************)
EXTENDS Integers, FiniteSets, SequencesExt

CONSTANTS
    MaxTarget,      \* bound on the length of the targets considered
    MaxPathLen,     \* max_path_len
    MaxArgs         \* entries of url_t::query

ASSUME TargetAssumption == MaxTarget \in Nat /\ MaxPathLen \in Nat /\ MaxArgs \in Nat

Classes == {"h", "?", "=", "&", "%", "!"}
Targets == BoundedSeq(Classes, MaxTarget)
KnownMethods == {"GET", "PUT", "POST", "PATCH", "DELETE"}
Nul == "nul"
Null == 0           \* the null pointer; other pointers are positions of buf

VARIABLES
    method,     \* first word of the line
    target,     \* second word
    version,    \* "HTTP/", another word, or "none" when the line ends before it
    at,         \* ptr: next character of the target
    buf,        \* what was written to url_t::path
    query,      \* url_t::query, the entries in use
    pathLen,    \* url_t::path_len
    keyFound,   \* key_found
    place       \* where parse_http_request is, or what it returned

line == <<method, target, version>>
tvars == <<method, target, version, at, buf, query, pathLen, keyFound, place>>

TargetInit ==
    /\ method \in {"GET", "HEAD"}
    /\ target \in Targets
    /\ version \in {"HTTP/", "FTP/", "none"}
    /\ method = "HEAD" \/ version # "HTTP/" => Len(target) <= 1
    /\ at = 1
    /\ buf = <<>>
    /\ query = <<>>
    /\ pathLen = Null
    /\ keyFound = FALSE
    /\ place = "method"

\* i, the position the next character goes to, counts from 0.
Written == Len(buf)
AtEnd == at > Len(target)
Ahead == target[at]
In(here) == place = here

\* Reading goes on behind the end of a line without a version.
InLine == AtEnd => version # "none"
-----------------------------------------------------------------------------
(* Faulty variants of definitions below, to see the properties fail. *)

NoLimit == TRUE                                         \* of RoomInQuery
\* of KeyEnd: an equals sign in the value starts the value again.
EveryEqualsSign ==
    /\ In("query") /\ ~AtEnd /\ Ahead = "="
    /\ Written < MaxPathLen
    /\ buf' = Append(buf, Nul)
    /\ query' = [query EXCEPT ![Len(query)].val = Len(buf')]
    /\ at' = at + 1
    /\ UNCHANGED <<line, pathLen, keyFound, place>>
-----------------------------------------------------------------------------
(* get_http_method, get_http_version *)

ReadMethod ==
    /\ In("method")
    /\ place' = IF method \in KnownMethods THEN "path" ELSE "refused"
    /\ UNCHANGED <<line, at, buf, query, pathLen, keyFound>>

ReadVersion ==
    /\ In("version")
    /\ place' = IF version = "HTTP/" THEN "parsed" ELSE "refused"
    /\ UNCHANGED <<line, at, buf, query, pathLen, keyFound>>
-----------------------------------------------------------------------------
(* get_http_path *)

RoomInPath == Written < MaxPathLen - 1
RoomInQuery == Written < MaxPathLen

Put(c) == buf' = Append(buf, c)

\* The two characters behind "%" are taken for digits, whatever they are; the
\* space behind the target may be among them, and what follows it.
Unescaped == IF at + 2 <= Len(target) /\ target[at + 1] = "h" /\ target[at + 2] = "h"
                THEN "x" ELSE "junk"
CopyOne ==
    IF Ahead = "%" THEN Put(Unescaped) /\ at' = at + 3
                   ELSE Put(Ahead) /\ at' = at + 1

\* The end of the target is eaten by an escape: the loop runs on into the version.
PastTheEnd == at > Len(target) + 1

PathChar ==
    /\ In("path") /\ ~AtEnd /\ RoomInPath
    /\ Ahead \in {"h", "%"}
    /\ CopyOne
    /\ UNCHANGED <<line, query, pathLen, keyFound, place>>

PathEnds ==
    /\ In("path") /\ at = Len(target) + 1 /\ InLine /\ RoomInPath
    /\ Put(Nul)
    /\ pathLen' = Written
    /\ place' = "version"
    /\ UNCHANGED <<line, at, query, keyFound>>

\* A character that is not allowed, the end of the line, or no room.
PathRefused ==
    /\ In("path")
    /\ \/ ~RoomInPath
       \/ ~AtEnd /\ Ahead \in {"=", "&", "!"}
       \/ AtEnd /\ ~InLine
    /\ place' = "refused"
    /\ UNCHANGED <<line, at, buf, query, pathLen, keyFound>>

QueryBegins ==
    /\ In("path") /\ ~AtEnd /\ Ahead = "?" /\ RoomInPath
    /\ Put(Nul)
    /\ query' = <<[key |-> Len(buf'), val |-> Null]>>
    /\ pathLen' = Written
    /\ keyFound' = TRUE
    /\ at' = at + 1
    /\ place' = "query"
    /\ UNCHANGED line

KeyEnd ==
    /\ In("query") /\ ~AtEnd /\ Ahead = "=" /\ keyFound /\ RoomInQuery
    /\ Put(Nul)
    /\ query' = [query EXCEPT ![Len(query)].val = Len(buf')]
    /\ keyFound' = FALSE
    /\ at' = at + 1
    /\ UNCHANGED <<line, pathLen, place>>

ArgEnd ==
    /\ In("query") /\ ~AtEnd /\ Ahead = "&" /\ RoomInQuery
    /\ Put(Nul)
    /\ query' = Append(query, [key |-> Len(buf'), val |-> Null])
    /\ keyFound' = TRUE
    /\ at' = at + 1
    /\ UNCHANGED <<line, pathLen, place>>

QueryChar ==
    /\ In("query") /\ ~AtEnd /\ RoomInQuery
    /\ Ahead \in {"h", "?", "%", "!"} \/ (Ahead = "=" /\ ~keyFound)
    /\ CopyOne
    /\ UNCHANGED <<line, query, pathLen, keyFound, place>>

QueryEnds ==
    /\ In("query") /\ at = Len(target) + 1 /\ InLine /\ RoomInQuery
    /\ Put(Nul)
    /\ place' = "version"
    /\ UNCHANGED <<line, at, query, pathLen, keyFound>>

\* The loop over the query ends with the buffer full, and the body of the outer
\* loop goes on: one more character, one behind the buffer, then no path.
QueryTooLong ==
    /\ In("query") /\ ~RoomInQuery /\ ~AtEnd
    /\ IF Ahead \in {"h", "%"} THEN CopyOne ELSE UNCHANGED <<buf, at>>
    /\ place' = "refused"
    /\ UNCHANGED <<line, query, pathLen, keyFound>>

\* With the target at its end a space is no character of a path either.
QueryTooLongAtEnd ==
    /\ In("query") /\ ~RoomInQuery /\ AtEnd
    /\ place' = "refused"
    /\ UNCHANGED <<line, at, buf, query, pathLen, keyFound>>

\* Line ends and what the stack holds behind them are characters of a query; an
\* escape may eat the end of the target.  What comes then depends on what is
\* there: refused for good, or a path that ends somewhere.
RunsOn ==
    /\ \/ In("path") /\ PastTheEnd /\ RoomInPath
       \/ In("query") /\ RoomInQuery /\ AtEnd /\ (PastTheEnd \/ ~InLine)
    /\ place' \in {"refused", "ran on"}
    /\ UNCHANGED <<line, at, buf, query, pathLen, keyFound>>

TargetNext ==
    \/ ReadMethod \/ ReadVersion
    \/ PathChar \/ PathEnds \/ PathRefused
    \/ QueryBegins \/ KeyEnd \/ ArgEnd \/ QueryChar \/ QueryEnds
    \/ QueryTooLong \/ QueryTooLongAtEnd
    \/ RunsOn

TargetSpec == TargetInit /\ [][TargetNext]_tvars
-----------------------------------------------------------------------------
(* Reference: what the characters of a target say, by RFC 3986. *)

Occurs(s, c) == {i \in DOMAIN s : s[i] = c}
FirstOf(s, c) == IF Occurs(s, c) = {} THEN Len(s) + 1
                 ELSE CHOOSE i \in Occurs(s, c) : \A j \in Occurs(s, c) : i <= j

WellEscaped(s) ==
    \A i \in Occurs(s, "%") : i + 2 <= Len(s) /\ s[i + 1] = "h" /\ s[i + 2] = "h"

\* Escapes count as one character, "x".
Decoded(s) ==
    LET kept == {i \in DOMAIN s : {i - 1, i - 2} \cap Occurs(s, "%") = {}}
    IN  [k \in 1 .. Cardinality(kept) |->
            LET i == CHOOSE j \in kept : Cardinality({l \in kept : l <= j}) = k
            IN  IF s[i] = "%" THEN "x" ELSE s[i]]

PathPart == SubSeq(target, 1, FirstOf(target, "?") - 1)

\* What the arguments lie between: the question mark, each "&", the end.
Ends == {FirstOf(target, "?"), Len(target) + 1}
        \cup {i \in Occurs(target, "&") : i > FirstOf(target, "?")}
NthArg(k) ==
    LET End(n) == CHOOSE e \in Ends : Cardinality({f \in Ends : f <= e}) = n
    IN  SubSeq(target, End(k) + 1, End(k + 1) - 1)

Args == [k \in 1 .. Cardinality(Ends) - 1 |->
            LET a == NthArg(k) IN
            [key |-> Decoded(SubSeq(a, 1, FirstOf(a, "=") - 1)),
             val |-> IF FirstOf(a, "=") > Len(a) THEN Null
                     ELSE Decoded(SubSeq(a, FirstOf(a, "=") + 1, Len(a)))]]

\* The string a pointer into the buffer stands for.
StringAt(p) == LET rest == SubSeq(buf, p + 1, Len(buf))
               IN  SubSeq(rest, 1, FirstOf(rest, Nul) - 1)
Parsed(q) == [k \in DOMAIN q |->
               [key |-> StringAt(q[k].key),
                val |-> IF q[k].val = Null THEN Null ELSE StringAt(q[k].val)]]

Acceptable ==
    /\ method \in KnownMethods /\ version = "HTTP/"
    /\ Occurs(PathPart, "=") \cup Occurs(PathPart, "&") \cup Occurs(PathPart, "!") = {}
    /\ WellEscaped(target)
-----------------------------------------------------------------------------
(* Properties *)

\* get_http_path understands a target as RFC 3986 has it: the path and each
\* key and value, escapes undone once, no escaped character taken for a
\* delimiter, although they are cut out of one buffer while it is being filled.
TargetUnderstood ==
    In("parsed") /\ WellEscaped(target) =>
        /\ StringAt(0) = Decoded(PathPart)
        /\ pathLen = Len(Decoded(PathPart))
        /\ Parsed(query) = Args

\* A request line is refused only for its method, its version, a character that
\* a path may not hold, an escape without digits, or its length.
RefusedForAReason ==
    In("refused") /\ Len(target) < MaxPathLen - 1 => ~Acceptable

\* The two ends of get_http_path: it understands a request line or refuses it.
UnderstoodOrRefused == TargetUnderstood /\ RefusedForAReason

\* No write beyond url_t::path, and no entry beyond url_t::query, for a target
\* that fits, and none beyond the first for any target.
InsideUrl ==
    /\ Len(target) <= MaxPathLen => Len(buf) <= MaxPathLen
    /\ Len(buf) <= MaxPathLen + 1
    /\ Cardinality(Occurs(target, "&")) < MaxArgs => Len(query) <= MaxArgs
=============================================================================
