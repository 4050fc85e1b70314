-------------------------- MODULE RequestHeaderProofs --------------------------
(***************************************************************************)
(* Proofs about RequestHeader.                                             *)
(***************************************************************************)
EXTENDS RequestHeader, SequenceLemmas

-----------------------------------------------------------------------------
(* The lines a client may send *)

Symbols == PathsSent \cup
    {CR, LF, Colon, Blank, Bound, Closing, "part", "host", "a", "b", "8080",
     "content-length", "2", "cookie", "lid", "content-type", "form-data", "referer",
     "c", "x", "y", "d", "g", "e", "f", "-", "*", "...", "junk"}

\* Where the ends of a line stand: one line feed, behind a return unless the line is
\* one of those with a bare line feed, and a return elsewhere only in "barecr".
EndsOfLine(kind, t) ==
    /\ Len(t) \in 3 .. 7 /\ t[1] # CR
    /\ \A i \in 1 .. Len(t) : t[i] = LF <=> i = Len(t)
    /\ t[Len(t) - 1] \in {Colon, Blank} => kind = "emptylf"
    /\ t[Len(t) - 1] # CR => kind \in {"lf", "emptylf"}
    /\ \A i \in 1 .. Len(t) :
          t[i] = CR => i = Len(t) - 1 \/ (kind = "barecr" /\ i = 4)
    /\ kind = "barecr" => Len(t) = 7 /\ t[6] = CR

\* Where its name ends.
PartsOfLine(kind, t) ==
    /\ kind \notin {"nocolon", "fold"} => \E i \in 1 .. Len(t) - 1 : t[i] = Colon
    /\ \E i \in 1 .. Len(t) - 1 : t[i] \in {Colon, Blank, CR}
    /\ \A i \in 1 .. Len(t) - 1 : t[i] \in {Colon, Blank} /\ t[i + 1] = CR => kind = "empty"
    /\ \A i \in 1 .. Len(t) :
          t[i] = CR /\ (\A h \in 1 .. i - 1 : t[h] \notin {Colon, Blank}) => kind = "nocolon" /\ i = 2

\* The words in it.
WordsOfLine(kind, t) ==
    /\ t \in Seq(Symbols)
    /\ \A i \in 1 .. Len(t) :
          /\ t[i] # Bound /\ t[i] # Closing
          /\ t[i] = "content-length" => kind = "length"
          /\ t[i] = "content-type" => kind = "type"

\* Each of the lines is made so.
LEMMA LineFacts ==
    ASSUME NEW kind \in LineKinds, NEW t, t = LineOf(kind)
    PROVE  EndsOfLine(kind, t) /\ PartsOfLine(kind, t) /\ WordsOfLine(kind, t)
<1> USE DEF CR, LF, Colon, Blank, Bound, Closing
<1>1. CASE kind = "host"
  <2>1. t = <<"host", ":", "blank", "a", "\r", "\n">>
    BY <1>1 DEF LineOf
  <2>2. /\ t \in Seq(Symbols) /\ Len(t) = 6
        /\ t[1] = "host" /\ t[2] = ":" /\ t[3] = "blank" /\ t[4] = "a" /\ t[5] = "\r" /\ t[6] = "\n"
        /\ Len(t) - 1 = 5 /\ t[Len(t) - 1] = "\r"
    BY <2>1 DEF Symbols
  <2>3. \A i \in 1 .. 6 : i = 1 \/ i = 2 \/ i = 3 \/ i = 4 \/ i = 5 \/ i = 6
    OBVIOUS
  <2>4. EndsOfLine(kind, t)
    BY <1>1, <2>2, <2>3 DEF EndsOfLine
  <2>5. PartsOfLine(kind, t)
    BY <1>1, <2>2, <2>3 DEF PartsOfLine
  <2>6. WordsOfLine(kind, t)
    BY <1>1, <2>2, <2>3 DEF WordsOfLine
  <2> QED BY <2>4, <2>5, <2>6
<1>2. CASE kind = "port"
  <2>1. t = <<"host", ":", "b", ":", "8080", "\r", "\n">>
    BY <1>2 DEF LineOf
  <2>2. /\ t \in Seq(Symbols) /\ Len(t) = 7
        /\ t[1] = "host" /\ t[2] = ":" /\ t[3] = "b" /\ t[4] = ":" /\ t[5] = "8080" /\ t[6] = "\r" /\ t[7] = "\n"
        /\ Len(t) - 1 = 6 /\ t[Len(t) - 1] = "\r"
    BY <2>1 DEF Symbols
  <2>3. \A i \in 1 .. 7 : i = 1 \/ i = 2 \/ i = 3 \/ i = 4 \/ i = 5 \/ i = 6 \/ i = 7
    OBVIOUS
  <2>a. \A i \in 1 .. 7 : /\ t[i] = CR <=> i = 6
                          /\ t[i] = LF <=> i = 7
    BY <2>2, <2>3
  <2>4. EndsOfLine(kind, t)
    BY <1>2, <2>2, <2>3, <2>a DEF EndsOfLine
  <2>5. PartsOfLine(kind, t)
    BY <1>2, <2>2, <2>3, <2>a, SMTT(40) DEF PartsOfLine
  <2>6. WordsOfLine(kind, t)
    BY <1>2, <2>2, <2>3 DEF WordsOfLine
  <2> QED BY <2>4, <2>5, <2>6
<1>3. CASE kind = "length"
  <2>1. t = <<"content-length", ":", "blank", "2", "\r", "\n">>
    BY <1>3 DEF LineOf
  <2>2. /\ t \in Seq(Symbols) /\ Len(t) = 6
        /\ t[1] = "content-length" /\ t[2] = ":" /\ t[3] = "blank" /\ t[4] = "2" /\ t[5] = "\r" /\ t[6] = "\n"
        /\ Len(t) - 1 = 5 /\ t[Len(t) - 1] = "\r"
    BY <2>1 DEF Symbols
  <2>3. \A i \in 1 .. 6 : i = 1 \/ i = 2 \/ i = 3 \/ i = 4 \/ i = 5 \/ i = 6
    OBVIOUS
  <2>4. EndsOfLine(kind, t)
    BY <1>3, <2>2, <2>3 DEF EndsOfLine
  <2>5. PartsOfLine(kind, t)
    BY <1>3, <2>2, <2>3 DEF PartsOfLine
  <2>6. WordsOfLine(kind, t)
    BY <1>3, <2>2, <2>3 DEF WordsOfLine
  <2> QED BY <2>4, <2>5, <2>6
<1>4. CASE kind = "cookie"
  <2>1. t = <<"cookie", ":", "blank", "lid", "\r", "\n">>
    BY <1>4 DEF LineOf
  <2>2. /\ t \in Seq(Symbols) /\ Len(t) = 6
        /\ t[1] = "cookie" /\ t[2] = ":" /\ t[3] = "blank" /\ t[4] = "lid" /\ t[5] = "\r" /\ t[6] = "\n"
        /\ Len(t) - 1 = 5 /\ t[Len(t) - 1] = "\r"
    BY <2>1 DEF Symbols
  <2>3. \A i \in 1 .. 6 : i = 1 \/ i = 2 \/ i = 3 \/ i = 4 \/ i = 5 \/ i = 6
    OBVIOUS
  <2>4. EndsOfLine(kind, t)
    BY <1>4, <2>2, <2>3 DEF EndsOfLine
  <2>5. PartsOfLine(kind, t)
    BY <1>4, <2>2, <2>3, SMTT(40) DEF PartsOfLine
  <2>6. WordsOfLine(kind, t)
    BY <1>4, <2>2, <2>3 DEF WordsOfLine
  <2> QED BY <2>4, <2>5, <2>6
<1>5. CASE kind = "type"
  <2>1. t = <<"content-type", ":", "blank", "form-data", "\r", "\n">>
    BY <1>5 DEF LineOf
  <2>2. /\ t \in Seq(Symbols) /\ Len(t) = 6
        /\ t[1] = "content-type" /\ t[2] = ":" /\ t[3] = "blank" /\ t[4] = "form-data" /\ t[5] = "\r" /\ t[6] = "\n"
        /\ Len(t) - 1 = 5 /\ t[Len(t) - 1] = "\r"
    BY <2>1 DEF Symbols
  <2>3. \A i \in 1 .. 6 : i = 1 \/ i = 2 \/ i = 3 \/ i = 4 \/ i = 5 \/ i = 6
    OBVIOUS
  <2>4. EndsOfLine(kind, t)
    BY <1>5, <2>2, <2>3 DEF EndsOfLine
  <2>5. PartsOfLine(kind, t)
    BY <1>5, <2>2, <2>3, SMTT(40) DEF PartsOfLine
  <2>6. WordsOfLine(kind, t)
    BY <1>5, <2>2, <2>3 DEF WordsOfLine
  <2> QED BY <2>4, <2>5, <2>6
<1>6. CASE kind = "empty"
  <2>1. t = <<"referer", ":", "\r", "\n">>
    BY <1>6 DEF LineOf
  <2>2. /\ t \in Seq(Symbols) /\ Len(t) = 4
        /\ t[1] = "referer" /\ t[2] = ":" /\ t[3] = "\r" /\ t[4] = "\n"
        /\ Len(t) - 1 = 3 /\ t[Len(t) - 1] = "\r"
    BY <2>1 DEF Symbols
  <2>3. \A i \in 1 .. 4 : i = 1 \/ i = 2 \/ i = 3 \/ i = 4
    OBVIOUS
  <2>4. EndsOfLine(kind, t)
    BY <1>6, <2>2, <2>3 DEF EndsOfLine
  <2>5. PartsOfLine(kind, t)
    BY <1>6, <2>2, <2>3 DEF PartsOfLine
  <2>6. WordsOfLine(kind, t)
    BY <1>6, <2>2, <2>3 DEF WordsOfLine
  <2> QED BY <2>4, <2>5, <2>6
<1>7. CASE kind = "nocolon"
  <2>1. t = <<"host", "\r", "\n">>
    BY <1>7 DEF LineOf
  <2>2. /\ t \in Seq(Symbols) /\ Len(t) = 3
        /\ t[1] = "host" /\ t[2] = "\r" /\ t[3] = "\n"
        /\ Len(t) - 1 = 2 /\ t[Len(t) - 1] = "\r"
    BY <2>1 DEF Symbols
  <2>3. \A i \in 1 .. 3 : i = 1 \/ i = 2 \/ i = 3
    OBVIOUS
  <2>4. EndsOfLine(kind, t)
    BY <1>7, <2>2, <2>3, SMTT(40) DEF EndsOfLine
  <2>5. PartsOfLine(kind, t)
    BY <1>7, <2>2, <2>3 DEF PartsOfLine
  <2>6. WordsOfLine(kind, t)
    BY <1>7, <2>2, <2>3 DEF WordsOfLine
  <2> QED BY <2>4, <2>5, <2>6
<1>8. CASE kind = "fold"
  <2>1. t = <<"blank", "c", "\r", "\n">>
    BY <1>8 DEF LineOf
  <2>2. /\ t \in Seq(Symbols) /\ Len(t) = 4
        /\ t[1] = "blank" /\ t[2] = "c" /\ t[3] = "\r" /\ t[4] = "\n"
        /\ Len(t) - 1 = 3 /\ t[Len(t) - 1] = "\r"
    BY <2>1 DEF Symbols
  <2>3. \A i \in 1 .. 4 : i = 1 \/ i = 2 \/ i = 3 \/ i = 4
    OBVIOUS
  <2>4. EndsOfLine(kind, t)
    BY <1>8, <2>2, <2>3 DEF EndsOfLine
  <2>5. PartsOfLine(kind, t)
    BY <1>8, <2>2, <2>3 DEF PartsOfLine
  <2>6. WordsOfLine(kind, t)
    BY <1>8, <2>2, <2>3 DEF WordsOfLine
  <2> QED BY <2>4, <2>5, <2>6
<1>9. CASE kind = "spaced"
  <2>1. t = <<"x", "blank", "y", ":", "d", "\r", "\n">>
    BY <1>9 DEF LineOf
  <2>2. /\ t \in Seq(Symbols) /\ Len(t) = 7
        /\ t[1] = "x" /\ t[2] = "blank" /\ t[3] = "y" /\ t[4] = ":" /\ t[5] = "d" /\ t[6] = "\r" /\ t[7] = "\n"
        /\ Len(t) - 1 = 6 /\ t[Len(t) - 1] = "\r"
    BY <2>1 DEF Symbols
  <2>3. \A i \in 1 .. 7 : i = 1 \/ i = 2 \/ i = 3 \/ i = 4 \/ i = 5 \/ i = 6 \/ i = 7
    OBVIOUS
  <2>4. EndsOfLine(kind, t)
    BY <1>9, <2>2, <2>3, SMTT(60) DEF EndsOfLine
  <2>5. PartsOfLine(kind, t)
    BY <1>9, <2>2, <2>3, SMTT(60) DEF PartsOfLine
  <2>6. WordsOfLine(kind, t)
    BY <1>9, <2>2, <2>3, SMTT(60) DEF WordsOfLine
  <2> QED BY <2>4, <2>5, <2>6
<1>10. CASE kind = "lf"
  <2>1. t = <<"host", ":", "g", "\n">>
    BY <1>10 DEF LineOf
  <2>2. /\ t \in Seq(Symbols) /\ Len(t) = 4
        /\ t[1] = "host" /\ t[2] = ":" /\ t[3] = "g" /\ t[4] = "\n"
        /\ Len(t) - 1 = 3 /\ t[Len(t) - 1] = "g"
    BY <2>1 DEF Symbols
  <2>3. \A i \in 1 .. 4 : i = 1 \/ i = 2 \/ i = 3 \/ i = 4
    OBVIOUS
  <2>4. EndsOfLine(kind, t)
    BY <1>10, <2>2, <2>3 DEF EndsOfLine
  <2>5. PartsOfLine(kind, t)
    BY <1>10, <2>2, <2>3 DEF PartsOfLine
  <2>6. WordsOfLine(kind, t)
    BY <1>10, <2>2, <2>3 DEF WordsOfLine
  <2> QED BY <2>4, <2>5, <2>6
<1>11. CASE kind = "emptylf"
  <2>1. t = <<"referer", ":", "\n">>
    BY <1>11 DEF LineOf
  <2>2. /\ t \in Seq(Symbols) /\ Len(t) = 3
        /\ t[1] = "referer" /\ t[2] = ":" /\ t[3] = "\n"
        /\ Len(t) - 1 = 2 /\ t[Len(t) - 1] = ":"
    BY <2>1 DEF Symbols
  <2>3. \A i \in 1 .. 3 : i = 1 \/ i = 2 \/ i = 3
    OBVIOUS
  <2>4. EndsOfLine(kind, t)
    BY <1>11, <2>2, <2>3 DEF EndsOfLine
  <2>5. PartsOfLine(kind, t)
    BY <1>11, <2>2, <2>3 DEF PartsOfLine
  <2>6. WordsOfLine(kind, t)
    BY <1>11, <2>2, <2>3 DEF WordsOfLine
  <2> QED BY <2>4, <2>5, <2>6
<1>12. CASE kind = "barecr"
  <2>1. t = <<"host", ":", "e", "\r", "f", "\r", "\n">>
    BY <1>12 DEF LineOf
  <2>2. /\ t \in Seq(Symbols) /\ Len(t) = 7
        /\ t[1] = "host" /\ t[2] = ":" /\ t[3] = "e" /\ t[4] = "\r" /\ t[5] = "f" /\ t[6] = "\r" /\ t[7] = "\n"
        /\ Len(t) - 1 = 6 /\ t[Len(t) - 1] = "\r"
    BY <2>1 DEF Symbols
  <2>3. \A i \in 1 .. 7 : i = 1 \/ i = 2 \/ i = 3 \/ i = 4 \/ i = 5 \/ i = 6 \/ i = 7
    OBVIOUS
  <2>a. \A i \in 1 .. 7 : /\ t[i] = CR <=> i = 4 \/ i = 6
                          /\ t[i] = LF <=> i = 7
    BY <2>2, <2>3
  <2>4. EndsOfLine(kind, t)
    <3>1. \A i \in 1 .. Len(t) : t[i] = LF <=> i = Len(t)
      BY <2>2, <2>a
    <3>2. \A i \in 1 .. Len(t) : t[i] = CR => i = Len(t) - 1 \/ i = 4
      BY <2>2, <2>a
    <3> QED BY <1>12, <2>2, <3>1, <3>2 DEF EndsOfLine
  <2>5. PartsOfLine(kind, t)
    BY <1>12, <2>2, <2>3, <2>a, SMTT(40) DEF PartsOfLine
  <2>6. WordsOfLine(kind, t)
    BY <1>12, <2>2, <2>3 DEF WordsOfLine
  <2> QED BY <2>4, <2>5, <2>6
<1> QED BY <1>1, <1>2, <1>3, <1>4, <1>5, <1>6, <1>7, <1>8, <1>9, <1>10, <1>11, <1>12 DEF LineKinds
-----------------------------------------------------------------------------
(* Where things stand in a request *)

Request == [path : PathsSent, lines : Seq(LineKinds), body : {"none", "data", "form"}]
Lines(r) == [j \in DOMAIN r.lines |-> LineOf(r.lines[j])]

\* The j-th line of the header; the one behind the last is empty.
TextOf(r, j) == IF j \in DOMAIN r.lines THEN LineOf(r.lines[j]) ELSE <<CR, LF>>

\* What comes before it, and before the body.
LineAt(r, j) == 3 + Len(Flat(Lines(r), j - 1))
BodyAt(r) == LineAt(r, Len(r.lines) + 1) + 2

\* The lines of a header, as sequences.
LEMMA LinesType ==
    ASSUME NEW r \in Request
    PROVE  /\ Len(r.lines) \in Nat /\ DOMAIN r.lines = 1 .. Len(r.lines)
           /\ \A j \in 1 .. Len(r.lines) : r.lines[j] \in LineKinds
           /\ Lines(r) \in Seq(Seq(Symbols)) /\ Len(Lines(r)) = Len(r.lines)
           /\ \A j \in 1 .. Len(r.lines) : Lines(r)[j] = TextOf(r, j)
           /\ \A j \in 1 .. Len(r.lines) + 1 :
                 TextOf(r, j) \in Seq(Symbols) /\ Len(TextOf(r, j)) \in 2 .. 7
           /\ TextOf(r, Len(r.lines) + 1) = <<CR, LF>>
<1>1. r.lines \in Seq(LineKinds)
  BY DEF Request
<1>2. /\ Len(r.lines) \in Nat /\ DOMAIN r.lines = 1 .. Len(r.lines)
      /\ \A j \in 1 .. Len(r.lines) : r.lines[j] \in LineKinds
  BY <1>1, LenProperties, ElementOfSeq
<1>3. \A j \in 1 .. Len(r.lines) : LineOf(r.lines[j]) \in Seq(Symbols) /\ Len(LineOf(r.lines[j])) \in 3 .. 7
  BY <1>2, LineFacts DEF EndsOfLine, WordsOfLine
<1>4. Lines(r) \in [1 .. Len(r.lines) -> Seq(Symbols)]
  BY <1>2, <1>3 DEF Lines
<1>5. Lines(r) \in Seq(Seq(Symbols)) /\ Len(Lines(r)) = Len(r.lines)
  BY <1>2, <1>4
<1>6. \A j \in 1 .. Len(r.lines) : Lines(r)[j] = TextOf(r, j)
  BY <1>2 DEF Lines, TextOf
<1>7. ASSUME NEW j \in 1 .. Len(r.lines) + 1
      PROVE  TextOf(r, j) \in Seq(Symbols) /\ Len(TextOf(r, j)) \in 2 .. 7
  <2>1. CASE j \in 1 .. Len(r.lines)
    BY <1>2, <1>3, <2>1 DEF TextOf
  <2>2. CASE j \notin 1 .. Len(r.lines)
    <3>1. TextOf(r, j) = <<CR, LF>>
      BY <1>2, <2>2 DEF TextOf
    <3>2. CR \in Symbols /\ LF \in Symbols
      BY DEF Symbols
    <3> QED BY <3>1, <3>2
  <2> QED BY <2>1, <2>2
<1>8. TextOf(r, Len(r.lines) + 1) = <<CR, LF>>
  BY <1>2 DEF TextOf
<1> QED BY <1>2, <1>5, <1>6, <1>7, <1>8

\* The body.
LEMMA BodyType ==
    ASSUME NEW r \in Request
    PROVE  /\ BodyOf(r) \in Seq(Symbols)
           /\ r.body = "none" => Len(BodyOf(r)) = 0
           /\ r.body = "data" => Len(BodyOf(r)) = 2 /\ BodyOf(r)[1] = "page" /\ BodyOf(r)[2] = LF
           /\ r.body = "form" => Len(BodyOf(r)) = 10 /\ BodyOf(r)[1] = Bound
           /\ \A i \in 1 .. Len(BodyOf(r)) : BodyOf(r)[i] = CR => i < Len(BodyOf(r)) /\ BodyOf(r)[i + 1] = LF
<1>0. r.body \in {"none", "data", "form"}
  BY DEF Request
<1>1. CASE r.body = "none"
  BY <1>1 DEF BodyOf, Symbols
<1>2. CASE r.body = "data"
  <2>1. BodyOf(r) = <<"page", LF>>
    BY <1>2 DEF BodyOf
  <2> QED BY <1>2, <2>1 DEF Symbols, PathsSent, CR, LF
<1>3. CASE r.body = "form"
  <2> DEFINE b == BodyOf(r)
  <2>1. b = <<Bound, CR, LF, "part", CR, LF, Bound, Closing, CR, LF>>
    BY <1>3 DEF BodyOf, FormBody
  <2>2. Bound \in Symbols /\ CR \in Symbols /\ LF \in Symbols /\ "part" \in Symbols /\ Closing \in Symbols
    BY DEF Symbols
  <2>3. b \in Seq(Symbols) /\ Len(b) = 10 /\ b[1] = Bound
    BY <2>1, <2>2
  <2>4. \A i \in 1 .. 10 : b[i] = CR => i = 2 \/ i = 5 \/ i = 9
    <3>1. b[1] # CR /\ b[3] # CR /\ b[4] # CR /\ b[6] # CR /\ b[7] # CR /\ b[8] # CR /\ b[10] # CR
      BY <2>1 DEF Bound, LF, CR, Closing
    <3>2. \A i \in 1 .. 10 : i = 1 \/ i = 2 \/ i = 3 \/ i = 4 \/ i = 5 \/ i = 6 \/ i = 7 \/ i = 8 \/ i = 9 \/ i = 10
      OBVIOUS
    <3> HIDE DEF b
    <3> QED BY <3>1, <3>2
  <2>5. b[2 + 1] = LF /\ b[5 + 1] = LF /\ b[9 + 1] = LF
    BY <2>1
  <2> HIDE DEF b
  <2>6. \A i \in 1 .. Len(b) : b[i] = CR => i < Len(b) /\ b[i + 1] = LF
    BY <2>3, <2>4, <2>5
  <2> QED BY <1>3, <2>3, <2>6 DEF b
<1> QED BY <1>0, <1>1, <1>2, <1>3

\* The lines of a header stand one behind the other, behind the request line.
LEMMA LineAfterLine ==
    ASSUME NEW r \in Request
    PROVE  /\ LineAt(r, 1) = 3
           /\ \A j \in 1 .. Len(r.lines) + 1 : LineAt(r, j) \in Nat /\ LineAt(r, j) >= 3
           /\ \A j \in 1 .. Len(r.lines) : LineAt(r, j + 1) = LineAt(r, j) + Len(TextOf(r, j))
           /\ BodyAt(r) \in Nat
<1>0. /\ Lines(r) \in Seq(Seq(Symbols)) /\ Len(Lines(r)) = Len(r.lines) /\ Len(r.lines) \in Nat
      /\ \A j \in 1 .. Len(r.lines) : Lines(r)[j] = TextOf(r, j)
  BY LinesType
<1>1. LineAt(r, 1) = 3
  BY FlatStep DEF LineAt
<1>2. ASSUME NEW j \in 1 .. Len(r.lines) + 1 PROVE LineAt(r, j) \in Nat /\ LineAt(r, j) >= 3
  <2>1. j - 1 \in 0 .. Len(Lines(r))
    BY <1>0
  <2>2. Len(Flat(Lines(r), j - 1)) \in Nat
    BY <1>0, <2>1, FlatLength
  <2> QED BY <2>2 DEF LineAt
<1>3. ASSUME NEW j \in 1 .. Len(r.lines)
      PROVE  LineAt(r, j + 1) = LineAt(r, j) + Len(TextOf(r, j))
  <2>1. j - 1 \in 0 .. Len(Lines(r)) - 1 /\ (j - 1) + 1 = j /\ (j + 1) - 1 = j
    BY <1>0
  <2>2. Len(Flat(Lines(r), (j - 1) + 1)) = Len(Flat(Lines(r), j - 1)) + Len(Lines(r)[(j - 1) + 1])
    BY <1>0, <2>1, FlatLength
  <2>3. Len(Flat(Lines(r), j)) = Len(Flat(Lines(r), j - 1)) + Len(TextOf(r, j))
    BY <1>0, <2>1, <2>2
  <2>4. Len(Flat(Lines(r), j - 1)) \in Nat /\ Len(TextOf(r, j)) \in Nat
    <3>1. j - 1 \in 0 .. Len(Lines(r)) /\ j \in 1 .. Len(r.lines) + 1
      BY <1>0
    <3>2. Len(TextOf(r, j)) \in 2 .. 7
      BY <3>1, LinesType
    <3> QED BY <1>0, <3>1, <3>2, FlatLength
  <2> QED BY <2>1, <2>3, <2>4 DEF LineAt
<1>4. BodyAt(r) \in Nat
  BY <1>0, <1>2 DEF BodyAt
<1> QED BY <1>1, <1>2, <1>3, <1>4

\* A request is its line, the lines of its header, the empty line and the body.
LEMMA SentShape ==
    ASSUME NEW r \in Request
    PROVE  LET s == Sent(r)  n == Len(r.lines) IN
           /\ s \in Seq(Symbols) /\ Len(s) = BodyAt(r) + Len(BodyOf(r))
           /\ s[1] = r.path /\ s[2] = CR /\ s[3] = LF
           /\ \A j \in 1 .. n + 1 : \A i \in 1 .. Len(TextOf(r, j)) :
                 LineAt(r, j) + i \in 1 .. BodyAt(r) /\ s[LineAt(r, j) + i] = TextOf(r, j)[i]
           /\ \A i \in 1 .. Len(BodyOf(r)) : s[BodyAt(r) + i] = BodyOf(r)[i]
           /\ \A p \in 1 .. Len(s) :
                 \/ p \in 1 .. 3
                 \/ \E j \in 1 .. n + 1 : \E i \in 1 .. Len(TextOf(r, j)) : p = LineAt(r, j) + i
                 \/ \E i \in 1 .. Len(BodyOf(r)) : p = BodyAt(r) + i
<1> DEFINE n == Len(r.lines)
           A == <<r.path, CR, LF>>
           F == FlattenSeq(Lines(r))
           E == <<CR, LF>>
           B == BodyOf(r)
           s == Sent(r)
<1>0. n \in Nat /\ 1 \in Nat /\ Len(Lines(r)) = n /\ Lines(r) \in Seq(Seq(Symbols))
  BY LinesType
<1>1. s = ((A \o F) \o E) \o B
  <2>1. [k \in DOMAIN r.lines |-> LineOf(r.lines[k])] = Lines(r)
    BY DEF Lines
  <2> QED BY <2>1, Zenon DEF Sent
<1>2. /\ A \in Seq(Symbols) /\ Len(A) = 3 /\ A[1] = r.path /\ A[2] = CR /\ A[3] = LF
      /\ E \in Seq(Symbols) /\ Len(E) = 2 /\ E[1] = CR /\ E[2] = LF
  <2>1. r.path \in Symbols /\ CR \in Symbols /\ LF \in Symbols
    BY DEF Symbols, Request
  <2> QED BY <2>1
<1>3. F = Flat(Lines(r), n) /\ F \in Seq(Symbols) /\ Len(F) \in Nat
  BY <1>0, FlatLength
<1>4. B \in Seq(Symbols) /\ Len(B) \in Nat
  BY BodyType, LenProperties
<1>5. LineAt(r, n + 1) = 3 + Len(F) /\ BodyAt(r) = 5 + Len(F)
  <2>1. (n + 1) - 1 = n
    BY <1>0
  <2>2. LineAt(r, n + 1) = 3 + Len(F)
    BY <1>3, <2>1 DEF LineAt
  <2> HIDE DEF F
  <2> QED BY <1>3, <2>2 DEF BodyAt
<1>6. TextOf(r, n + 1) = E
  BY LinesType
<1> HIDE DEF A, F, E, B, s
<1>6a. /\ s \in Seq(Symbols) /\ Len(s) = Len(A) + Len(F) + Len(E) + Len(B)
       /\ \A i \in 1 .. Len(A) : s[i] = A[i]
       /\ \A i \in 1 .. Len(F) : s[Len(A) + i] = F[i]
       /\ \A i \in 1 .. Len(E) : s[Len(A) + Len(F) + i] = E[i]
       /\ \A i \in 1 .. Len(B) : s[Len(A) + Len(F) + Len(E) + i] = B[i]
  <2>1. A \in Seq(Symbols) /\ F \in Seq(Symbols) /\ E \in Seq(Symbols) /\ B \in Seq(Symbols)
    BY <1>2, <1>3, <1>4
  <2> QED BY <1>1, <2>1, FourBehind, SMTT(40)
<1>7. /\ s \in Seq(Symbols) /\ Len(s) = (5 + Len(F)) + Len(B)
      /\ \A i \in 1 .. 3 : s[i] = A[i]
      /\ \A i \in 1 .. Len(F) : s[3 + i] = F[i]
      /\ \A i \in 1 .. 2 : s[3 + Len(F) + i] = E[i]
      /\ \A i \in 1 .. Len(B) : s[(5 + Len(F)) + i] = B[i]
  <2>1. Len(A) + Len(F) + Len(E) = 5 + Len(F) /\ Len(A) = 3 /\ Len(E) = 2
    BY <1>2, <1>3
  <2> QED BY <1>6a, <2>1
<1>8. Len(s) = BodyAt(r) + Len(B) /\ \A i \in 1 .. Len(B) : s[BodyAt(r) + i] = B[i]
  BY <1>5, <1>7
<1>11. ASSUME NEW i \in 1 .. Len(F) PROVE 3 + i \in 1 .. BodyAt(r) /\ s[3 + i] = F[i]
  BY <1>3, <1>5, <1>7
<1>12. ASSUME NEW i \in 1 .. 2 PROVE 3 + Len(F) + i \in 1 .. BodyAt(r) /\ s[3 + Len(F) + i] = E[i]
  BY <1>3, <1>5, <1>7
<1>13. s[1] = r.path /\ s[2] = CR /\ s[3] = LF
  BY <1>2, <1>7
<1>14. /\ \A k \in 1 .. n : \A i \in 1 .. Len(TextOf(r, k)) :
             /\ Len(Flat(Lines(r), k - 1)) + i \in 1 .. Len(F)
             /\ F[Len(Flat(Lines(r), k - 1)) + i] = TextOf(r, k)[i]
       /\ \A p \in 1 .. Len(F) :
             \E k \in 1 .. n : \E i \in 1 .. Len(TextOf(r, k)) : p = Len(Flat(Lines(r), k - 1)) + i
  <2>1. n \in 0 .. Len(Lines(r)) /\ \A k \in 1 .. n : Lines(r)[k] = TextOf(r, k)
    BY <1>0, LinesType
  <2>2. /\ \A k \in 1 .. n : \A i \in 1 .. Len(Lines(r)[k]) :
              /\ Len(Flat(Lines(r), k - 1)) + i \in 1 .. Len(F)
              /\ F[Len(Flat(Lines(r), k - 1)) + i] = Lines(r)[k][i]
        /\ \A p \in 1 .. Len(F) :
              \E k \in 1 .. n : \E i \in 1 .. Len(Lines(r)[k]) : p = Len(Flat(Lines(r), k - 1)) + i
    BY <1>0, <1>3, <2>1, FlatPositions, ZenonT(40)
  <2> HIDE DEF n
  <2> QED BY <2>1, <2>2, ZenonT(40)
<1>15. \A j \in 1 .. n + 1 : Len(Flat(Lines(r), j - 1)) \in Nat
  <2>1. \A j \in 1 .. n + 1 : j - 1 \in 0 .. Len(Lines(r))
    BY <1>0
  <2> QED BY <1>0, <2>1, FlatLength
<1>16. ASSUME NEW j \in 1 .. n + 1, NEW i \in 1 .. Len(TextOf(r, j))
       PROVE  LineAt(r, j) + i \in 1 .. BodyAt(r) /\ s[LineAt(r, j) + i] = TextOf(r, j)[i]
  <2>1. CASE j \in 1 .. n
    <3> DEFINE p == Len(Flat(Lines(r), j - 1)) + i
    <3>1. p \in 1 .. Len(F) /\ F[p] = TextOf(r, j)[i]
      BY <1>14, <2>1
    <3>2. LineAt(r, j) + i = 3 + p
      <4>1. Len(Flat(Lines(r), j - 1)) \in Nat /\ i \in Nat
        BY <1>15
      <4> QED BY <4>1 DEF LineAt
    <3> HIDE DEF p
    <3> QED BY <1>11, <3>1, <3>2
  <2>2. CASE j = n + 1
    <3>1. LineAt(r, j) + i = 3 + Len(F) + i /\ i \in 1 .. 2 /\ TextOf(r, j) = E
      BY <1>2, <1>5, <1>6, <2>2
    <3> QED BY <1>12, <3>1
  <2> QED BY <1>0, <2>1, <2>2
<1>17. ASSUME NEW p \in 1 .. Len(s)
       PROVE  \/ p \in 1 .. 3
              \/ \E j \in 1 .. n + 1 : \E i \in 1 .. Len(TextOf(r, j)) : p = LineAt(r, j) + i
              \/ \E i \in 1 .. Len(B) : p = BodyAt(r) + i
  <2>1. CASE p \in 4 .. 3 + Len(F)
    <3>1. p - 3 \in 1 .. Len(F)
      BY <1>3, <2>1
    <3>2. PICK k \in 1 .. n : \E i \in 1 .. Len(TextOf(r, k)) : p - 3 = Len(Flat(Lines(r), k - 1)) + i
      BY <1>14, <3>1
    <3>3. PICK i \in 1 .. Len(TextOf(r, k)) : p - 3 = Len(Flat(Lines(r), k - 1)) + i
      BY <3>2
    <3>4. k \in 1 .. n + 1 /\ Len(Flat(Lines(r), k - 1)) \in Nat /\ i \in Nat
      BY <1>0, <1>15
    <3>5. p = LineAt(r, k) + i
      BY <3>3, <3>4 DEF LineAt
    <3> QED BY <3>4, <3>5
  <2>2. CASE p \in 4 + Len(F) .. 5 + Len(F)
    <3>1. p - (3 + Len(F)) \in 1 .. 2 /\ Len(TextOf(r, n + 1)) = 2 /\ n + 1 \in 1 .. n + 1
      <4>1. p - (3 + Len(F)) \in 1 .. 2
        BY <1>3, <2>2
      <4>2. Len(TextOf(r, n + 1)) = 2
        BY <1>2, <1>6
      <4>3. n + 1 \in 1 .. n + 1
        BY <1>0
      <4> QED BY <4>1, <4>2, <4>3
    <3>2. p = LineAt(r, n + 1) + (p - (3 + Len(F)))
      BY <1>3, <1>5, <2>2
    <3> QED BY <3>1, <3>2
  <2>3. CASE p > 5 + Len(F)
    <3>1. p - BodyAt(r) \in 1 .. Len(B) /\ p = BodyAt(r) + (p - BodyAt(r))
      BY <1>3, <1>4, <1>5, <1>7, <2>3
    <3> QED BY <3>1
  <2>4. p \in 1 .. 3 \/ p \in 4 .. 3 + Len(F) \/ p \in 4 + Len(F) .. 5 + Len(F) \/ p > 5 + Len(F)
    BY <1>3, <1>4, <1>5, <1>7
  <2> QED BY <2>1, <2>2, <2>3, <2>4
<1> QED BY <1>7, <1>8, <1>13, <1>16, <1>17 DEF s, B
-----------------------------------------------------------------------------
(* Where things stand in the stream *)

Num == Len(requests)
AllSent == [k \in DOMAIN requests |-> Sent(requests[k])]
LineStart(k, j) == Starts(k) + LineAt(requests[k], j)
HeadEnd(k) == Starts(k) + BodyAt(requests[k])

\* What the client sends, which nothing changes.
InputInv ==
    /\ requests \in Seq({r \in Request : Meant(r)})
    /\ stream = FlattenSeq(AllSent)

\* The requests stand one behind the other, and there is nothing else in the stream.
LEMMA Layout ==
    ASSUME InputInv
    PROVE  /\ Num \in Nat /\ DOMAIN requests = 1 .. Num
           /\ \A k \in 1 .. Num : requests[k] \in Request /\ Meant(requests[k])
           /\ stream \in Seq(Symbols) /\ Len(stream) \in Nat
           /\ Starts(1) = 0 /\ Starts(Num + 1) = Len(stream)
           /\ \A k \in 1 .. Num + 1 : Starts(k) \in Nat
           /\ \A k \in 1 .. Num : Starts(k + 1) = Starts(k) + Len(Sent(requests[k]))
           /\ \A k \in 1 .. Num : \A i \in 1 .. Len(Sent(requests[k])) :
                 /\ Starts(k) + i \in 1 .. Len(stream)
                 /\ stream[Starts(k) + i] = Sent(requests[k])[i]
           /\ \A p \in 1 .. Len(stream) : \E k \in 1 .. Num :
                 \E i \in 1 .. Len(Sent(requests[k])) : p = Starts(k) + i
<1>1. Num \in Nat /\ DOMAIN requests = 1 .. Num
  BY LenProperties DEF InputInv, Num
<1>2. \A k \in 1 .. Num : requests[k] \in Request /\ Meant(requests[k])
  <2>1. \A k \in 1 .. Num : requests[k] \in {r \in Request : Meant(r)}
    BY ElementOfSeq DEF InputInv, Num
  <2> QED BY <2>1
<1>3. AllSent \in Seq(Seq(Symbols)) /\ Len(AllSent) = Num
  <2>1. \A k \in 1 .. Num : Sent(requests[k]) \in Seq(Symbols)
    BY <1>2, SentShape
  <2>2. AllSent \in [1 .. Num -> Seq(Symbols)]
    BY <1>1, <2>1 DEF AllSent
  <2> QED BY <1>1, <2>2
<1>4. \A k \in 1 .. Num : AllSent[k] = Sent(requests[k])
  BY <1>1 DEF AllSent
<1>5. ASSUME NEW k \in 1 .. Num + 1
      PROVE  Starts(k) = Len(Flat(AllSent, k - 1)) /\ k - 1 \in 0 .. Len(AllSent)
  <2>1. [j \in 1 .. k - 1 |-> Sent(requests[j])] = [j \in 1 .. k - 1 |-> AllSent[j]]
    <3>1. \A j \in 1 .. k - 1 : AllSent[j] = Sent(requests[j])
      BY <1>1, <1>4
    <3> QED BY <3>1
  <2>2. Starts(k) = Len(Flat(AllSent, k - 1))
    BY <2>1 DEF Starts, Flat
  <2>3. k - 1 \in 0 .. Len(AllSent)
    BY <1>1, <1>3
  <2> QED BY <2>2, <2>3
<1>6. stream = Flat(AllSent, Num)
  BY <1>3, FlatLength DEF InputInv
<1>7. stream \in Seq(Symbols) /\ Len(stream) \in Nat
  <2>1. Num \in 0 .. Len(AllSent)
    BY <1>1, <1>3
  <2> QED BY <1>3, <1>6, <2>1, FlatLength
<1>8. Starts(1) = 0
  <2>1. 1 \in 1 .. Num + 1 /\ 1 - 1 = 0
    BY <1>1
  <2>2. Starts(1) = Len(Flat(AllSent, 0))
    BY <1>5, <2>1
  <2> QED BY <1>3, <2>2, FlatLength
<1>9. Starts(Num + 1) = Len(stream)
  <2>1. Num + 1 \in 1 .. Num + 1 /\ (Num + 1) - 1 = Num
    BY <1>1
  <2> QED BY <1>5, <1>6, <2>1
<1>10. \A k \in 1 .. Num + 1 : Starts(k) \in Nat
  BY <1>3, <1>5, FlatLength
<1>11. ASSUME NEW k \in 1 .. Num PROVE Starts(k + 1) = Starts(k) + Len(Sent(requests[k]))
  <2>1. k \in 1 .. Num + 1 /\ k + 1 \in 1 .. Num + 1 /\ (k + 1) - 1 = k /\ (k - 1) + 1 = k
        /\ k - 1 \in 0 .. Len(AllSent) - 1
    BY <1>1, <1>3
  <2>2. Len(Flat(AllSent, (k - 1) + 1)) = Len(Flat(AllSent, k - 1)) + Len(AllSent[(k - 1) + 1])
    BY <1>3, <2>1, FlatLength
  <2> QED BY <1>4, <1>5, <2>1, <2>2
<1>12. /\ \A k \in 1 .. Num : \A i \in 1 .. Len(AllSent[k]) :
             /\ Len(Flat(AllSent, k - 1)) + i \in 1 .. Len(stream)
             /\ stream[Len(Flat(AllSent, k - 1)) + i] = AllSent[k][i]
       /\ \A p \in 1 .. Len(stream) :
             \E k \in 1 .. Num : \E i \in 1 .. Len(AllSent[k]) : p = Len(Flat(AllSent, k - 1)) + i
  <2>1. Num \in 0 .. Len(AllSent)
    BY <1>1, <1>3
  <2>2. /\ \A k \in 1 .. Num : \A i \in 1 .. Len(AllSent[k]) :
              /\ Len(Flat(AllSent, k - 1)) + i \in 1 .. Len(Flat(AllSent, Num))
              /\ Flat(AllSent, Num)[Len(Flat(AllSent, k - 1)) + i] = AllSent[k][i]
        /\ \A p \in 1 .. Len(Flat(AllSent, Num)) :
              \E k \in 1 .. Num : \E i \in 1 .. Len(AllSent[k]) : p = Len(Flat(AllSent, k - 1)) + i
    BY <1>3, <2>1, FlatPositions
  <2> QED BY <1>6, <2>2
<1>13. \A k \in 1 .. Num : Starts(k) = Len(Flat(AllSent, k - 1))
  BY <1>1, <1>5
<1>14. ASSUME NEW k \in 1 .. Num, NEW i \in 1 .. Len(Sent(requests[k]))
       PROVE  Starts(k) + i \in 1 .. Len(stream) /\ stream[Starts(k) + i] = Sent(requests[k])[i]
  <2>1. AllSent[k] = Sent(requests[k]) /\ Starts(k) = Len(Flat(AllSent, k - 1))
    BY <1>4, <1>13
  <2>2. i \in 1 .. Len(AllSent[k])
    BY <2>1
  <2> QED BY <1>12, <2>1, <2>2
<1>15. ASSUME NEW p \in 1 .. Len(stream)
       PROVE  \E k \in 1 .. Num : \E i \in 1 .. Len(Sent(requests[k])) : p = Starts(k) + i
  <2>1. PICK k \in 1 .. Num : \E i \in 1 .. Len(AllSent[k]) : p = Len(Flat(AllSent, k - 1)) + i
    BY <1>12
  <2>2. AllSent[k] = Sent(requests[k]) /\ Starts(k) = Len(Flat(AllSent, k - 1))
    BY <1>4, <1>13
  <2> QED BY <2>1, <2>2
<1> QED BY <1>1, <1>2, <1>7, <1>8, <1>9, <1>10, <1>11, <1>14, <1>15

\* The k-th request in the stream: its line, the lines of its header, its body, and
\* behind it the next one.
LEMMA InStream ==
    ASSUME InputInv, NEW k \in 1 .. Num, NEW r, r = requests[k]
    PROVE  /\ r \in Request /\ Meant(r)
           /\ Starts(k) \in Nat /\ Len(r.lines) \in Nat /\ HeadEnd(k) \in Nat /\ Len(stream) \in Nat
           /\ stream[Starts(k) + 1] = r.path
           /\ stream[Starts(k) + 2] = CR /\ stream[Starts(k) + 3] = LF
           /\ LineStart(k, 1) = Starts(k) + 3
           /\ HeadEnd(k) = LineStart(k, Len(r.lines) + 1) + 2 /\ HeadEnd(k) <= Len(stream)
           /\ \A j \in 1 .. Len(r.lines) + 1 :
                 LineStart(k, j) \in Nat /\ Starts(k) + 3 <= LineStart(k, j)
           /\ \A j \in 1 .. Len(r.lines) : LineStart(k, j + 1) = LineStart(k, j) + Len(TextOf(r, j))
           /\ \A j \in 1 .. Len(r.lines) + 1 : \A i \in 1 .. Len(TextOf(r, j)) :
                 /\ LineStart(k, j) + i <= HeadEnd(k)
                 /\ stream[LineStart(k, j) + i] = TextOf(r, j)[i]
           /\ \A i \in 1 .. Len(BodyOf(r)) : stream[HeadEnd(k) + i] = BodyOf(r)[i]
           /\ Starts(k + 1) = HeadEnd(k) + Len(BodyOf(r)) /\ Len(BodyOf(r)) \in Nat
           /\ Starts(k + 1) <= Len(stream)
           /\ Starts(k) + 3 < Len(stream)
<1> DEFINE s == Sent(r)  n == Len(r.lines)
<1>1. /\ r \in Request /\ Meant(r) /\ Starts(k) \in Nat /\ Len(stream) \in Nat
      /\ Starts(k + 1) = Starts(k) + Len(s)
      /\ \A i \in 1 .. Len(s) :
            Starts(k) + i \in 1 .. Len(stream) /\ stream[Starts(k) + i] = s[i]
  <2>1. k \in 1 .. Num + 1
    BY Layout
  <2> QED BY <2>1, Layout
<1>2. /\ Len(s) = BodyAt(r) + Len(BodyOf(r))
      /\ s[1] = r.path /\ s[2] = CR /\ s[3] = LF
      /\ \A j \in 1 .. n + 1 : \A i \in 1 .. Len(TextOf(r, j)) :
            LineAt(r, j) + i \in 1 .. BodyAt(r) /\ s[LineAt(r, j) + i] = TextOf(r, j)[i]
      /\ \A i \in 1 .. Len(BodyOf(r)) : s[BodyAt(r) + i] = BodyOf(r)[i]
  BY <1>1, SentShape
<1>3. /\ LineAt(r, 1) = 3 /\ BodyAt(r) \in Nat /\ n \in Nat /\ Len(BodyOf(r)) \in Nat
      /\ \A j \in 1 .. n + 1 : LineAt(r, j) \in Nat /\ LineAt(r, j) >= 3
      /\ \A j \in 1 .. n : LineAt(r, j + 1) = LineAt(r, j) + Len(TextOf(r, j))
      /\ \A j \in 1 .. n + 1 : Len(TextOf(r, j)) \in 2 .. 7
  <2>1. Len(BodyOf(r)) \in Nat
    BY <1>1, BodyType, LenProperties
  <2> QED BY <1>1, <2>1, LinesType, LineAfterLine
<1>4. BodyAt(r) = LineAt(r, n + 1) + 2
  BY DEF BodyAt
<1> HIDE DEF s
<1>5. BodyAt(r) >= 5 /\ Len(s) >= BodyAt(r)
  <2>1. LineAt(r, n + 1) \in Nat /\ LineAt(r, n + 1) >= 3
    BY <1>3
  <2> QED BY <1>2, <1>3, <1>4, <2>1
<1>6. Starts(k) + Len(s) <= Len(stream)
  <2>1. Len(s) \in 1 .. Len(s)
    BY <1>2, <1>3, <1>5
  <2> QED BY <1>1, <2>1
<1>7. stream[Starts(k) + 1] = r.path /\ stream[Starts(k) + 2] = CR /\ stream[Starts(k) + 3] = LF
  <2>1. 1 \in 1 .. Len(s) /\ 2 \in 1 .. Len(s) /\ 3 \in 1 .. Len(s)
    BY <1>2, <1>3, <1>5
  <2> QED BY <1>1, <1>2, <2>1
<1>8. ASSUME NEW j \in 1 .. n + 1, NEW i \in 1 .. Len(TextOf(r, j))
      PROVE  LineStart(k, j) + i <= HeadEnd(k) /\ stream[LineStart(k, j) + i] = TextOf(r, j)[i]
  <2>1. LineAt(r, j) + i \in 1 .. BodyAt(r) /\ s[LineAt(r, j) + i] = TextOf(r, j)[i]
    BY <1>2
  <2>2. LineAt(r, j) + i \in 1 .. Len(s)
    BY <1>2, <1>3, <1>5, <2>1
  <2>3. LineAt(r, j) \in Nat /\ i \in Nat
    BY <1>3
  <2>4. LineStart(k, j) + i = Starts(k) + (LineAt(r, j) + i)
    BY <1>1, <2>3 DEF LineStart
  <2>5. HeadEnd(k) = Starts(k) + BodyAt(r)
    BY DEF HeadEnd
  <2>6. LineAt(r, j) + i <= BodyAt(r) /\ LineAt(r, j) + i \in Nat
    BY <1>3, <2>1
  <2>7. stream[Starts(k) + (LineAt(r, j) + i)] = s[LineAt(r, j) + i]
    BY <1>1, <2>2
  <2>8. LineStart(k, j) + i <= HeadEnd(k)
    BY <1>1, <1>3, <2>4, <2>5, <2>6
  <2> QED BY <2>1, <2>4, <2>7, <2>8
<1>9. ASSUME NEW i \in 1 .. Len(BodyOf(r)) PROVE stream[HeadEnd(k) + i] = BodyOf(r)[i]
  <2>1. BodyAt(r) + i \in 1 .. Len(s)
    BY <1>2, <1>3
  <2>2. HeadEnd(k) + i = Starts(k) + (BodyAt(r) + i)
    <3>1. HeadEnd(k) = Starts(k) + BodyAt(r)
      BY DEF HeadEnd
    <3> QED BY <1>1, <1>3, <3>1
  <2>3. stream[Starts(k) + (BodyAt(r) + i)] = s[BodyAt(r) + i] /\ s[BodyAt(r) + i] = BodyOf(r)[i]
    BY <1>1, <1>2, <2>1
  <2> QED BY <2>2, <2>3
<1>10. /\ LineStart(k, 1) = Starts(k) + 3 /\ HeadEnd(k) = LineStart(k, n + 1) + 2
       /\ HeadEnd(k) \in Nat /\ HeadEnd(k) <= Len(stream)
       /\ Starts(k + 1) = HeadEnd(k) + Len(BodyOf(r))
       /\ Starts(k + 1) <= Len(stream) /\ Starts(k) + 3 < Len(stream)
  <2>1. HeadEnd(k) = Starts(k) + BodyAt(r) /\ LineStart(k, n + 1) = Starts(k) + LineAt(r, n + 1)
        /\ LineStart(k, 1) = Starts(k) + 3 /\ LineAt(r, n + 1) \in Nat
    BY <1>3 DEF HeadEnd, LineStart
  <2>2. Len(s) = BodyAt(r) + Len(BodyOf(r)) /\ Starts(k + 1) = Starts(k) + Len(s)
    BY <1>1, <1>2
  <2>3. Starts(k) \in Nat /\ Len(stream) \in Nat /\ BodyAt(r) \in Nat /\ Len(BodyOf(r)) \in Nat
    BY <1>1, <1>3
  <2>4. HeadEnd(k) = LineStart(k, n + 1) + 2 /\ HeadEnd(k) \in Nat
    BY <1>4, <2>1, <2>3
  <2>5. Starts(k + 1) = HeadEnd(k) + Len(BodyOf(r))
    BY <2>1, <2>2, <2>3
  <2>6. HeadEnd(k) <= Len(stream) /\ Starts(k + 1) <= Len(stream) /\ Starts(k) + 3 < Len(stream)
    BY <1>5, <1>6, <2>1, <2>2, <2>3, SMTT(40)
  <2> QED BY <2>1, <2>4, <2>5, <2>6
<1>11. \A j \in 1 .. n + 1 : LineStart(k, j) \in Nat /\ Starts(k) + 3 <= LineStart(k, j)
  BY <1>1, <1>3 DEF LineStart
<1>12. ASSUME NEW j \in 1 .. n PROVE LineStart(k, j + 1) = LineStart(k, j) + Len(TextOf(r, j))
  <2>1. LineAt(r, j) \in Nat /\ Len(TextOf(r, j)) \in Nat /\ LineAt(r, j + 1) = LineAt(r, j) + Len(TextOf(r, j))
    <3>1. j \in 1 .. n + 1
      BY <1>3
    <3>2. Len(TextOf(r, j)) \in 2 .. 7
      BY <1>3, <3>1
    <3> QED BY <1>3, <3>1, <3>2
  <2> QED BY <1>1, <2>1 DEF LineStart
<1> QED BY <1>1, <1>3, <1>7, <1>8, <1>9, <1>10, <1>11, <1>12
-----------------------------------------------------------------------------
(* Type correctness *)

Answer == [path : PathsSent \cup {""}, host : Symbols \cup {""}, port : {"0", "2", "8080"},
           length : {"0", "2", "8080"}, cookie : BOOLEAN, type : Symbols \cup {""}, ends : Nat]

\* val has a first character as soon as a line has ended.
ScanOK ==
    /\ state \in {"name", "enter", "delimiter", "value", "finish", "body"}
    /\ wrote \in BOOLEAN /\ inVal \in BOOLEAN
    /\ name \in Seq(Symbols) /\ val \in Seq(Symbols)
    /\ state \in {"value", "finish", "enter", "body"} => val # <<>>

FieldsOK ==
    /\ host \in Symbols \cup {""} /\ type \in Symbols \cup {""}
    /\ port \in {"0", "2", "8080"} /\ length \in {"0", "2", "8080"}
    /\ cookie \in BOOLEAN /\ bounded \in BOOLEAN

LoopOK ==
    /\ path \in PathsSent \cup {""}
    /\ phase \in {"line", "header", "action", "ended", "refused", "thrown", "closed"}
    /\ phase = "action" => path \in PathsSent
    /\ phase = "header" => path \in PathsSent
    /\ answered \in Seq(Answer)

HeaderTypeOK ==
    /\ InputInv
    /\ pos \in Nat /\ pos <= Len(stream)
    /\ ScanOK /\ FieldsOK /\ LoopOK

\* The same scan, fields or loop are of the same types.
LEMMA SameTypes ==
    /\ ScanOK /\ UNCHANGED scan => ScanOK'
    /\ FieldsOK /\ UNCHANGED fields => FieldsOK'
    /\ LoopOK /\ UNCHANGED <<answered, path, phase>> => LoopOK'
<1>1. ScanOK /\ UNCHANGED scan => ScanOK'
  BY Zenon DEF ScanOK, scan
<1>2. FieldsOK /\ UNCHANGED fields => FieldsOK'
  BY Zenon DEF FieldsOK, fields
<1>3. LoopOK /\ UNCHANGED <<answered, path, phase>> => LoopOK'
  BY Zenon DEF LoopOK
<1> QED BY <1>1, <1>2, <1>3

\* The initial input is of the type.
LEMMA InitInput ==
    ASSUME HeaderInit PROVE InputInv
<1> DEFINE R == {r \in Request : Meant(r)}
<1>1. ASSUME NEW kinds, kinds \subseteq LineKinds, NEW n \in Nat
      PROVE  Requests(kinds, n) \subseteq R
  <2>1. SeqOf(kinds, n) \subseteq Seq(LineKinds)
    <3> SUFFICES ASSUME NEW s \in SeqOf(kinds, n) PROVE s \in Seq(LineKinds)
      OBVIOUS
    <3>1. PICK m \in 0 .. n : s \in [1 .. m -> kinds]
      BY DEF SeqOf
    <3>2. s \in [1 .. m -> LineKinds] /\ m \in Nat
      BY <1>1, <3>1
    <3> QED BY <3>2
  <2> QED BY <2>1 DEF Requests, Request
<1>2. FirstLines \subseteq LineKinds /\ NextLines \subseteq LineKinds
      /\ MaxLines \in Nat /\ MaxNextLines \in Nat /\ MaxNext \in Nat
  BY HeaderAssumption DEF HeaderAssumption
<1>3. PICK first \in Requests(FirstLines, MaxLines) :
         \E next \in SeqOf(Requests(NextLines, MaxNextLines), MaxNext) : requests = <<first>> \o next
  BY DEF HeaderInit
<1>4. PICK next \in SeqOf(Requests(NextLines, MaxNextLines), MaxNext) : requests = <<first>> \o next
  BY <1>3
<1>5. first \in R /\ next \in Seq(R)
  <2>1. first \in R /\ Requests(NextLines, MaxNextLines) \subseteq R
    BY <1>1, <1>2
  <2>2. PICK m \in 0 .. MaxNext : next \in [1 .. m -> Requests(NextLines, MaxNextLines)]
    BY DEF SeqOf
  <2>3. next \in [1 .. m -> R] /\ m \in Nat
    BY <1>2, <2>1, <2>2
  <2> HIDE DEF R
  <2> QED BY <2>1, <2>3
<1>6. requests \in Seq(R)
  <2> HIDE DEF R
  <2>1. <<first>> \in Seq(R)
    BY <1>5
  <2> QED BY <1>4, <1>5, <2>1, ConcatProperties
<1>7. stream = FlattenSeq(AllSent)
  BY DEF HeaderInit, AllSent
<1> QED BY <1>6, <1>7 DEF InputInv

\* The symbol that is read next.
LEMMA NextSymbol ==
    ASSUME InputInv, pos \in Nat, More PROVE ch \in Symbols /\ pos + 1 \in 1 .. Len(stream)
<1>1. stream \in Seq(Symbols) /\ Len(stream) \in Nat
  BY Layout
<1>2. pos + 1 \in 1 .. Len(stream)
  BY <1>1 DEF More
<1> QED BY <1>1, <1>2, ElementOfSeq DEF ch

\* What a step of the scan does to the strings.
LEMMA StringsTyped ==
    ASSUME HeaderTypeOK, NEW c \in Symbols
    PROVE  /\ Append(name, c) \in Seq(Symbols) /\ Append(val, c) \in Seq(Symbols)
           /\ Append(name, c) # <<>> /\ Append(val, c) # <<>>
           /\ <<c>> \in Seq(Symbols) /\ <<c>> # <<>> /\ <<>> \in Seq(Symbols)
           /\ Small(c) \in Symbols
           /\ "..." \in Symbols /\ LF \in Symbols /\ "junk" \in Symbols
<1>1. name \in Seq(Symbols) /\ val \in Seq(Symbols)
  BY DEF HeaderTypeOK, ScanOK
<1>2. Small(c) \in Symbols /\ "..." \in Symbols /\ LF \in Symbols /\ "junk" \in Symbols
  BY DEF Small, Symbols
<1> QED BY <1>1, <1>2

\* The fields after a line, whatever its name and value.
LEMMA FieldTyped ==
    ASSUME HeaderTypeOK, NEW n, NEW v \in Seq(Symbols), v # <<>>, Field(n, v)
    PROVE  FieldsOK'
<1>1. v[1] \in Symbols
  BY EmptySeq, ElementOfSeq
<1>2. \A x : Number(x) \in {"0", "2", "8080"}
  BY DEF Number
<1>3. /\ host \in Symbols \cup {""} /\ type \in Symbols \cup {""}
      /\ port \in {"0", "2", "8080"} /\ length \in {"0", "2", "8080"}
      /\ cookie \in BOOLEAN /\ bounded \in BOOLEAN
  BY DEF HeaderTypeOK, FieldsOK
<1>4. /\ host' = v[1] \/ host' = host
      /\ port' = port \/ \E x : port' = Number(x)
      /\ length' = Number(v[1]) \/ length' = length
      /\ cookie' = (cookie \/ (n = <<"cookie">> /\ v[1] = "lid"))
      /\ type' = v[1] \/ type' = type
      /\ bounded' = (bounded \/ (n = <<"content-type">> /\ v[1] = "form-data"))
  BY DEF Field
<1> QED BY <1>1, <1>2, <1>3, <1>4 DEF FieldsOK

\* A set of numbers has a minimum, a bounded one a maximum.
LEMMA MinIs ==
    ASSUME NEW T, T \subseteq Nat, T # {}
    PROVE  Min(T) \in T /\ \A t \in T : Min(T) <= t
BY Smallest DEF Min

\* What the maximum of a set of numbers is.
LEMMA MaxIs ==
    ASSUME NEW n \in Nat, NEW T, T \subseteq 0 .. n, T # {}
    PROVE  Max(T) \in T /\ \A t \in T : t <= Max(T)
<1>1. \E x \in T : \A t \in T : x >= t
  <2>1. PICK x \in T : \A t \in T : t <= x
    BY Largest
  <2> QED BY <2>1
<1>2. Max(T) \in T /\ \A t \in T : Max(T) >= t
  BY <1>1 DEF Max
<1> QED BY <1>2

\* The end of the line that is read.
LEMMA LineEnd ==
    ASSUME HeaderTypeOK, LineIsThere
    PROVE  /\ LineEndsAt \in pos + 1 .. Len(stream) /\ stream[LineEndsAt] = LF
           /\ \A j \in pos + 1 .. LineEndsAt - 1 : stream[j] # LF
<1> DEFINE T == {i \in pos + 1 .. Len(stream) : stream[i] = LF}
<1>1. pos \in Nat /\ Len(stream) \in Nat
  BY Layout DEF HeaderTypeOK
<1>2. T \subseteq Nat /\ T # {}
  BY <1>1 DEF LineIsThere
<1>3. PICK i \in T : \A t \in T : i <= t
  <2> HIDE DEF T
  <2> QED BY <1>2, Smallest
<1>4. \A j \in pos + 1 .. i - 1 : stream[j] # LF
  BY <1>1, <1>3
<1>5. \E x \in pos + 1 .. Len(stream) :
         stream[x] = LF /\ \A j \in pos + 1 .. x - 1 : stream[j] # LF
  BY <1>3, <1>4
<1> QED BY <1>5 DEF LineEndsAt

\* What the action takes is in the stream.
LEMMA TakenIsThere ==
    ASSUME HeaderTypeOK
    PROVE  /\ Min({IF length = "2" THEN 2 ELSE 0, Len(stream) - pos}) \in 0 .. Len(stream) - pos
           /\ UpToClosing \in 0 .. Len(stream) - pos
<1>1. pos \in Nat /\ Len(stream) \in Nat /\ Len(stream) - pos \in Nat
  <2>1. InputInv /\ pos \in Nat /\ pos <= Len(stream)
    BY DEF HeaderTypeOK
  <2>2. Len(stream) \in Nat
    BY <2>1, Layout
  <2> QED BY <2>1, <2>2
<1>2. Min({IF length = "2" THEN 2 ELSE 0, Len(stream) - pos}) \in 0 .. Len(stream) - pos
  <2> DEFINE T == {IF length = "2" THEN 2 ELSE 0, Len(stream) - pos}
  <2>1. T \subseteq Nat /\ T # {} /\ Len(stream) - pos \in T
    BY <1>1
  <2> HIDE DEF T
  <2>2. Min(T) \in Nat /\ Min(T) <= Len(stream) - pos
    BY <2>1, MinIs
  <2>3. Min(T) \in 0 .. Len(stream) - pos
    BY <1>1, <2>2
  <2> QED BY <2>3 DEF T
<1>3. UpToClosing \in 0 .. Len(stream) - pos
  <2> DEFINE T == {i \in pos + 1 .. Len(stream) : stream[i] = Closing}
  <2>1. T \subseteq Nat
    BY <1>1
  <2>2. T # {} => Min(T) \in T
    <3> HIDE DEF T
    <3> QED BY <2>1, MinIs
  <2>3. UpToClosing = IF T = {} THEN Len(stream) - pos ELSE Min(T) - pos
    BY DEF UpToClosing
  <2>4. T # {} => Min(T) \in pos + 1 .. Len(stream)
    BY <2>2
  <2> HIDE DEF T
  <2> QED BY <1>1, <2>3, <2>4
<1> QED BY <1>2, <1>3

\* The end of a line leaves the strings and fields of their types.
LEMMA LineDoneTyped ==
    ASSUME HeaderTypeOK,
           NEW n \in Seq(Symbols), NEW v \in Seq(Symbols), v # <<>>,
           NEW s \in {"name", "enter", "delimiter", "value", "finish", "body"},
           LineDone(n, v, s)
    PROVE  ScanOK' /\ FieldsOK' /\ LoopOK'
<1>1. FieldsOK'
  BY FieldTyped DEF LineDone
<1>2. ScanOK'
  BY DEF LineDone, ScanOK
<1>3. LoopOK'
  BY SameTypes DEF LineDone, HeaderTypeOK
<1> QED BY <1>1, <1>2, <1>3

\* A value that a line without one is given.
LEMMA ValuesTyped ==
    ASSUME HeaderTypeOK, state \in {"value", "finish", "enter", "body"}, NEW v \in Values(val)
    PROVE  v \in Seq(Symbols) /\ v # <<>>
<1>1. val \in Seq(Symbols) /\ val # <<>>
  BY DEF HeaderTypeOK, ScanOK
<1>2. <<"junk">> \in Seq(Symbols) /\ <<"junk">> # <<>>
  BY DEF Symbols
<1> QED BY <1>1, <1>2 DEF Values

\* What is answered.
LEMMA AnswerTyped ==
    ASSUME HeaderTypeOK, NEW taken \in 0 .. Len(stream) - pos, NEW p \in {"line", "closed"},
           AnswerWith(taken, p)
    PROVE  pos' \in Nat /\ pos' <= Len(stream) /\ ScanOK' /\ FieldsOK' /\ LoopOK' /\ UNCHANGED input
<1>0. pos \in Nat /\ Len(stream) \in Nat
  BY Layout DEF HeaderTypeOK
<1>1. pos' \in Nat /\ pos' <= Len(stream)
  BY <1>0 DEF AnswerWith
<1>2. ScanOK' /\ FieldsOK'
  BY SameTypes DEF AnswerWith, HeaderTypeOK
<1>3. Got \in Answer
  BY <1>0 DEF Got, Answer, HeaderTypeOK, FieldsOK, LoopOK
<1>4. LoopOK'
  <2>1. answered \in Seq(Answer) /\ path \in PathsSent \cup {""}
    BY DEF HeaderTypeOK, LoopOK
  <2>2. answered' = Append(answered, Got) /\ path' = path /\ phase' = p
    BY DEF AnswerWith
  <2>3. answered' \in Seq(Answer)
    <3>1. \A s \in Seq(Answer), a \in Answer : Append(s, a) \in Seq(Answer)
      OBVIOUS
    <3> HIDE DEF Got
    <3> QED BY <1>3, <2>1, <2>2, <3>1
  <2> QED BY <2>1, <2>2, <2>3 DEF LoopOK
<1> QED BY <1>1, <1>2, <1>4 DEF AnswerWith

\* Every step keeps the types.
LEMMA HeaderTyped ==
    ASSUME HeaderTypeOK, [HeaderNext]_hvars PROVE HeaderTypeOK'
<1>0. /\ pos \in Nat /\ Len(stream) \in Nat /\ pos <= Len(stream) /\ InputInv
      /\ ScanOK /\ FieldsOK /\ LoopOK
  BY Layout DEF HeaderTypeOK
<1>1. ASSUME UNCHANGED input PROVE InputInv' /\ stream' = stream
  BY <1>0, <1>1 DEF InputInv, AllSent, input
<1>2. ASSUME More PROVE ch \in Symbols /\ pos + 1 \in Nat /\ pos + 1 <= Len(stream)
  <2>1. ch \in Symbols /\ pos + 1 \in 1 .. Len(stream)
    BY <1>0, <1>2, NextSymbol
  <2> QED BY <1>0, <2>1
<1>3. CASE UNCHANGED hvars
  BY <1>0, <1>1, <1>3, SameTypes DEF HeaderTypeOK, hvars
<1> DEFINE Kept == pos' \in Nat /\ pos' <= Len(stream) /\ ScanOK' /\ FieldsOK' /\ LoopOK'
                   /\ UNCHANGED input
<1>4. ASSUME RequestLine PROVE Kept
  <2>1. pos' \in Nat /\ pos' <= Len(stream)
    BY <1>0, <1>4, LineEnd DEF RequestLine
  <2>2. CASE ch \in PathsSent
    <3>1. /\ state' = "name" /\ wrote' = FALSE /\ inVal' = FALSE /\ name' = <<>> /\ val' = <<>>
          /\ phase' = "header" /\ path' = ch /\ answered' = answered
          /\ host' = host /\ type' = type /\ bounded' = bounded
          /\ length' = "0" /\ cookie' = FALSE /\ port' = "0"
      BY <1>4, <2>2 DEF RequestLine, Prepare
    <3>2. ScanOK'
      <4>1. <<>> \in Seq(Symbols)
        BY EmptySeq
      <4> QED BY <3>1, <4>1 DEF ScanOK
    <3>3. FieldsOK'
      BY <1>0, <3>1, Zenon DEF FieldsOK
    <3>4. LoopOK'
      BY <1>0, <2>2, <3>1 DEF LoopOK
    <3> QED BY <1>4, <2>1, <3>2, <3>3, <3>4 DEF RequestLine
  <2>3. CASE ch \notin PathsSent
    <3>1. phase' = "refused" /\ UNCHANGED <<path, fields, scan, answered>>
      BY <1>4, <2>3 DEF RequestLine
    <3>2. ScanOK' /\ FieldsOK'
      BY <1>0, <3>1, SameTypes
    <3>3. LoopOK'
      BY <1>0, <3>1 DEF LoopOK
    <3> QED BY <1>4, <2>1, <3>2, <3>3 DEF RequestLine
  <2> QED BY <2>2, <2>3
<1>5. ASSUME StreamEnds PROVE Kept
  <2>1. LoopOK'
    BY <1>0, <1>5 DEF StreamEnds, LoopOK
  <2> QED BY <1>0, <1>5, <2>1, SameTypes DEF StreamEnds
<1>6. ASSUME Read, More PROVE pos' \in Nat /\ pos' <= Len(stream)
  BY <1>2, <1>6 DEF Read
<1>7. ASSUME More
      PROVE  /\ \A c \in {ch, Small(ch), "...", LF} :
                   /\ Append(name, c) \in Seq(Symbols) /\ <<c>> \in Seq(Symbols) /\ <<c>> # <<>>
                   /\ Append(val, c) \in Seq(Symbols) /\ Append(val, c) # <<>>
             /\ <<>> \in Seq(Symbols) /\ name \in Seq(Symbols)
  <2>1. \A c \in {ch, Small(ch), "...", LF} : c \in Symbols
    BY <1>2, <1>7, StringsTyped
  <2>2. ch \in Symbols
    BY <1>2, <1>7
  <2> QED BY <2>1, <2>2, StringsTyped DEF HeaderTypeOK, ScanOK
<1>8. ASSUME ColonEndsName PROVE Kept
  <2>1. More /\ UNCHANGED <<inVal, val>> /\ wrote' = TRUE /\ state' = "delimiter"
        /\ name' \in {name, <<>>}
    BY <1>8 DEF ColonEndsName, InHeader, StoreNul
  <2>2. ScanOK'
    BY <1>0, <1>7, <2>1 DEF ScanOK
  <2> QED BY <1>0, <1>6, <1>8, <2>1, <2>2, SameTypes DEF ColonEndsName
<1>9. ASSUME NameChar PROVE Kept
  <2>1. More /\ UNCHANGED <<state, inVal>> /\ wrote' = TRUE
        /\ name' \in {name, <<Small(ch)>>, Append(name, Small(ch))}
        /\ val' \in {val, Append(val, Small(ch))}
    BY <1>9 DEF NameChar, InHeader, Store
  <2>2. ScanOK'
    BY <1>0, <1>7, <2>1 DEF ScanOK
  <2> QED BY <1>0, <1>6, <1>9, <2>1, <2>2, SameTypes DEF NameChar
<1>10. ASSUME BlankContinues PROVE Kept
  <2>1. More /\ UNCHANGED <<inVal, val>> /\ wrote' = TRUE /\ state' = "delimiter"
        /\ name' \in {name, Append(name, "...")}
    BY <1>10 DEF BlankContinues, InHeader
  <2>2. ScanOK'
    BY <1>0, <1>7, <2>1 DEF ScanOK
  <2> QED BY <1>0, <1>6, <1>10, <2>1, <2>2, SameTypes DEF BlankContinues
<1>11. ASSUME ReturnBeforeColon PROVE Kept
  <2>1. More /\ UNCHANGED <<wrote, inVal, val, name>> /\ state' = "body" /\ state = "enter"
    BY <1>11 DEF ReturnBeforeColon, InHeader
  <2>2. ScanOK'
    BY <1>0, <2>1 DEF ScanOK
  <2> QED BY <1>0, <1>6, <1>11, <2>1, <2>2, SameTypes DEF ReturnBeforeColon
<1>12. ASSUME SkipBlank PROVE Kept
  BY <1>0, <1>6, <1>12, SameTypes DEF SkipBlank, InHeader
<1>13. ASSUME ValueBegins PROVE Kept
  <2>1. More /\ val' = <<ch>> /\ inVal' = TRUE /\ wrote' = TRUE /\ name' = name /\ state' = "value"
    BY <1>13 DEF ValueBegins, InHeader
  <2>2. ScanOK'
    BY <1>0, <1>7, <2>1 DEF ScanOK
  <2> QED BY <1>0, <1>6, <1>13, <2>1, <2>2, SameTypes DEF ValueBegins
<1>14. ASSUME ValueChar PROVE Kept
  <2>1. More /\ UNCHANGED <<state, inVal>> /\ wrote' = TRUE
        /\ name' \in {name, <<ch>>, Append(name, ch)}
        /\ val' \in {val, Append(val, ch)}
    BY <1>14 DEF ValueChar, InHeader, Store
  <2>2. ScanOK'
    BY <1>0, <1>7, <2>1 DEF ScanOK
  <2> QED BY <1>0, <1>6, <1>14, <2>1, <2>2, SameTypes DEF ValueChar
<1>15. ASSUME ValueEnds PROVE Kept
  <2>1. More /\ UNCHANGED <<inVal, val>> /\ wrote' = TRUE /\ state' = "finish" /\ state = "value"
        /\ name' \in {name, <<>>}
    BY <1>15 DEF ValueEnds, InHeader, StoreNul
  <2>2. ScanOK'
    BY <1>0, <1>7, <2>1 DEF ScanOK
  <2> QED BY <1>0, <1>6, <1>15, <2>1, <2>2, SameTypes DEF ValueEnds
<1>16. ASSUME Throws PROVE Kept
  <2>1. LoopOK'
    BY <1>0, <1>16 DEF Throws, LoopOK
  <2> QED BY <1>0, <1>6, <1>16, <2>1, SameTypes DEF Throws, InHeader
<1>17. ASSUME BodyChar PROVE Kept
  BY <1>0, <1>6, <1>17, SameTypes DEF BodyChar, InHeader
<1>18. ASSUME EndOfLine PROVE Kept
  <2>1. More /\ state = "finish"
    BY <1>18 DEF EndOfLine, InHeader
  <2>2. PICK v \in Values(val) : LineDone(name, v, "enter")
    BY <1>18 DEF EndOfLine
  <2>3. v \in Seq(Symbols) /\ v # <<>> /\ name \in Seq(Symbols)
    BY <1>7, <2>1, ValuesTyped
  <2>4. ScanOK' /\ FieldsOK' /\ LoopOK'
    BY <2>2, <2>3, LineDoneTyped
  <2> QED BY <1>6, <2>1, <2>2, <2>4 DEF LineDone
<1>19. ASSUME BareLineEnd PROVE Kept
  <2>1. More
    BY <1>19 DEF BareLineEnd, InHeader
  <2>2. /\ <<LF>> \in Seq(Symbols) /\ <<LF>> # <<>>
        /\ Append(val, LF) \in Seq(Symbols) /\ Append(val, LF) # <<>>
        /\ Append(name, LF) \in Seq(Symbols) /\ name \in Seq(Symbols)
    BY <1>7, <2>1
  <2>3. PICK n, v : LineDone(n, v, "value") /\ n \in Seq(Symbols) /\ v \in Seq(Symbols) /\ v # <<>>
    <3>1. CASE state = "delimiter" /\ LineDone(name, <<LF>>, "value")
      BY <2>2, <3>1
    <3>2. CASE state = "value" /\ inVal /\ LineDone(name, Append(val, LF), "value")
      BY <2>2, <3>2
    <3>3. ASSUME state = "value", NEW v \in Values(val),
                 LineDone(IF wrote THEN Append(name, LF) ELSE <<LF>>, v, "value")
          PROVE  \E n, w : LineDone(n, w, "value") /\ n \in Seq(Symbols) /\ w \in Seq(Symbols) /\ w # <<>>
      <4>1. v \in Seq(Symbols) /\ v # <<>>
        BY <3>3, ValuesTyped
      <4>2. (IF wrote THEN Append(name, LF) ELSE <<LF>>) \in Seq(Symbols)
        BY <2>2
      <4> QED BY <3>3, <4>1, <4>2
    <3> QED BY <1>19, <3>1, <3>2, <3>3 DEF BareLineEnd
  <2>4. ScanOK' /\ FieldsOK' /\ LoopOK'
    BY <2>3, LineDoneTyped
  <2> QED BY <1>6, <2>1, <2>3, <2>4 DEF LineDone
<1>20. ASSUME EndOfName PROVE Kept
  <2>1. More /\ state = "body"
    BY <1>20 DEF EndOfName, InHeader
  <2>2. PICK v \in Values(val) : LineDone(name, v, "body")
    BY <1>20 DEF EndOfName
  <2>3. v \in Seq(Symbols) /\ v # <<>> /\ name \in Seq(Symbols)
    BY <1>7, <2>1, ValuesTyped
  <2>4. ScanOK' /\ FieldsOK' /\ LoopOK'
    BY <2>2, <2>3, LineDoneTyped
  <2> QED BY <1>6, <2>1, <2>2, <2>4 DEF LineDone
<1>21. ASSUME HeaderEnds PROVE Kept
  <2>1. LoopOK'
    BY <1>0, <1>21 DEF HeaderEnds, LoopOK, InHeader
  <2> QED BY <1>0, <1>6, <1>21, <2>1, SameTypes DEF HeaderEnds, InHeader
<1>22. ASSUME HeaderEndsAtBound PROVE Kept
  <2>1. LoopOK'
    BY <1>0, <1>22 DEF HeaderEndsAtBound, LoopOK
  <2>2. pos' \in Nat /\ pos' <= Len(stream)
    BY <1>0, <1>22 DEF HeaderEndsAtBound, AtBound
  <2> QED BY <1>0, <1>22, <2>1, <2>2, SameTypes DEF HeaderEndsAtBound
<1>23. 0 \in 0 .. Len(stream) - pos
  BY <1>0
<1>24. ASSUME Page PROVE Kept
  BY <1>23, <1>24, AnswerTyped DEF Page
<1>25. ASSUME NotFound PROVE Kept
  BY <1>23, <1>25, AnswerTyped DEF NotFound
<1>26. ASSUME Cgi PROVE Kept
  BY <1>26, TakenIsThere, AnswerTyped DEF Cgi
<1>27. ASSUME Tracked PROVE Kept
  BY <1>23, <1>27, AnswerTyped DEF Tracked
<1>28. ASSUME Form PROVE Kept
  <2>1. (IF type = "form-data" THEN UpToClosing ELSE 0) \in 0 .. Len(stream) - pos
    BY <1>23, TakenIsThere
  <2> QED BY <1>28, <2>1, AnswerTyped DEF Form
<1>29. ASSUME Kept PROVE HeaderTypeOK'
  BY <1>1, <1>29 DEF HeaderTypeOK
<1> QED BY <1>3, <1>4, <1>5, <1>8, <1>9, <1>10, <1>11, <1>12, <1>13, <1>14, <1>15, <1>16, <1>17,
           <1>18, <1>19, <1>20, <1>21, <1>22, <1>24, <1>25, <1>26, <1>27, <1>28, <1>29 DEF HeaderNext
-----------------------------------------------------------------------------
(* How far odd lines reach: the scan keeps to the lines of the header *)

\* Where the ends and the colons of a line are, for a header that is not misread.
LineEnds(r, j, t) ==
    LET n == Len(r.lines)  m == Len(t) IN
    /\ m \in 2 .. 7 /\ n >= 1 /\ t \in Seq(Symbols)
    /\ \A i \in 1 .. m : t[i] = LF <=> i = m
    /\ t[m - 1] \in {Colon, Blank} => j < n
    /\ j <= n /\ t[m - 1] # CR => j < n
    /\ j <= n /\ r.lines[j] = "empty" => j < n
    /\ j <= n /\ r.lines[j] = "nocolon" => j = n /\ j # 1 /\ m = 3
    /\ \A i \in 1 .. m : t[i] = CR => i = m - 1 \/ (i = 4 /\ m = 7 /\ t[6] = CR)
LineNames(r, j, t) ==
    LET n == Len(r.lines)  m == Len(t) IN
    /\ \E i \in 1 .. m - 1 : t[i] \in {Colon, Blank, CR}
    /\ j = 1 => \E i \in 1 .. m - 1 : t[i] = Colon
    /\ \A i \in 1 .. m : t[i] \in {Colon, Blank} => j <= n
    /\ t[1] = CR => j = n + 1
    /\ \A i \in 1 .. m - 1 : t[i] \in {Colon, Blank} /\ t[i + 1] = CR => j <= n /\ r.lines[j] = "empty"
    /\ \A i \in 1 .. m : t[i] = CR /\ i # 1 /\ (\A h \in 1 .. i - 1 : t[h] \notin {Colon, Blank}) =>
          j <= n /\ r.lines[j] = "nocolon" /\ i = 2
    /\ \A i \in 1 .. m :
          /\ t[i] # Bound /\ t[i] # Closing
          /\ t[i] = "content-length" => HasLine(r, "length")
          /\ t[i] = "content-type" => HasLine(r, "type")

\* Every line of a request that is not misread ends so, and names so.
LEMMA TextFacts ==
    ASSUME NEW r \in Request, Meant(r), ~Misread(r),
           NEW j \in 1 .. Len(r.lines) + 1, NEW t, t = TextOf(r, j)
    PROVE  LineEnds(r, j, t) /\ LineNames(r, j, t)
<1> DEFINE n == Len(r.lines)
<1>0. /\ n \in Nat /\ DOMAIN r.lines = 1 .. n
      /\ Len(t) \in 2 .. 7 /\ t \in Seq(Symbols)
  BY LinesType
<1>1. /\ n # 0 /\ r.lines[n] \notin {"empty", "lf", "emptylf"}
      /\ \A k \in 1 .. n : r.lines[k] = "nocolon" => k # 1 /\ ~(k < n)
  BY DEF Misread
<1>2. n >= 1
  BY <1>0, <1>1
<1>3. CASE j \in 1 .. n
  <2> DEFINE kind == r.lines[j]
  <2>1. t = LineOf(kind) /\ kind \in LineKinds
    BY <1>0, <1>3, LinesType DEF TextOf
  <2>2. EndsOfLine(kind, t) /\ PartsOfLine(kind, t) /\ WordsOfLine(kind, t)
    BY <2>1, LineFacts
  <2>3. kind \in {"empty", "lf", "emptylf"} => j < n
    BY <1>0, <1>1, <1>3
  <2>4. kind = "nocolon" => j = n /\ j # 1
    BY <1>0, <1>1, <1>3
  <2>5. kind = "nocolon" => Len(t) = 3
    BY <2>1 DEF LineOf
  <2>6. j = 1 => kind # "fold"
    BY <1>0, <1>1, <1>3 DEF Meant
  <2>7. (kind = "length" => HasLine(r, "length")) /\ (kind = "type" => HasLine(r, "type"))
    BY <1>0, <1>3 DEF HasLine
  <2>8. j <= n /\ j # n + 1
    BY <1>0, <1>3
  <2>9. LineEnds(r, j, t)
    <3>1. \A i \in 1 .. Len(t) : t[i] = CR => i = Len(t) - 1 \/ (i = 4 /\ Len(t) = 7 /\ t[6] = CR)
      BY <2>2 DEF EndsOfLine
    <3>2. \A i \in 1 .. Len(t) : t[i] = LF <=> i = Len(t)
      BY <2>2 DEF EndsOfLine
    <3>3. t[Len(t) - 1] \in {Colon, Blank} => j < n
      BY <2>2, <2>3 DEF EndsOfLine
    <3>4. t[Len(t) - 1] # CR => j < n
      BY <2>2, <2>3 DEF EndsOfLine
    <3> HIDE DEF kind
    <3>5. /\ r.lines[j] = "empty" => j < n
          /\ r.lines[j] = "nocolon" => j = n /\ j # 1 /\ Len(t) = 3
      BY <2>3, <2>4, <2>5 DEF kind
    <3> QED BY <1>0, <1>2, <3>1, <3>2, <3>3, <3>4, <3>5 DEF LineEnds
  <2>10. LineNames(r, j, t)
    <3>1. \E i \in 1 .. Len(t) - 1 : t[i] \in {Colon, Blank, CR}
      BY <2>2 DEF PartsOfLine
    <3>2. j = 1 => \E i \in 1 .. Len(t) - 1 : t[i] = Colon
      BY <2>2, <2>4, <2>6 DEF PartsOfLine
    <3>3. t[1] # CR
      BY <2>2 DEF EndsOfLine
    <3>4. \A i \in 1 .. Len(t) - 1 : t[i] \in {Colon, Blank} /\ t[i + 1] = CR => r.lines[j] = "empty"
      BY <2>2 DEF PartsOfLine
    <3>5. \A i \in 1 .. Len(t) : t[i] = CR /\ (\A h \in 1 .. i - 1 : t[h] \notin {Colon, Blank}) =>
             r.lines[j] = "nocolon" /\ i = 2
      BY <2>2 DEF PartsOfLine
    <3>6. \A i \in 1 .. Len(t) :
             /\ t[i] # Bound /\ t[i] # Closing
             /\ t[i] = "content-length" => HasLine(r, "length")
             /\ t[i] = "content-type" => HasLine(r, "type")
      BY <2>2, <2>7 DEF WordsOfLine
    <3> QED BY <2>8, <3>1, <3>2, <3>3, <3>4, <3>5, <3>6 DEF LineNames
  <2> QED BY <2>9, <2>10
<1>4. CASE j = n + 1
  <2>1. t = <<CR, LF>>
    BY <1>4, LinesType
  <2>2. Len(t) = 2 /\ t[1] = CR /\ t[2] = LF /\ Len(t) - 1 = 1 /\ t[Len(t) - 1] = CR
    BY <2>1
  <2>3. \A i \in 1 .. 2 : i = 1 \/ i = 2
    OBVIOUS
  <2>4. ~(j <= n) /\ j # 1
    BY <1>0, <1>2, <1>4
  <2>5. LineEnds(r, j, t)
    BY <1>0, <1>2, <2>2, <2>3, <2>4 DEF LineEnds, CR, LF, Colon, Blank
  <2>6. LineNames(r, j, t)
    BY <1>4, <2>2, <2>3, <2>4 DEF LineNames, CR, LF, Colon, Blank, Bound, Closing
  <2> QED BY <2>5, <2>6
<1> QED BY <1>0, <1>3, <1>4

\* What the state of the scan says of the first o symbols of the j-th line of r: which
\* of its ends have been met.
Reading(r, j, o, st, w) ==
    LET t == TextOf(r, j)  n == Len(r.lines) IN
    \/ st = "name" /\ j = 1 /\ \A i \in 1 .. o : t[i] # Colon
    \/ st = "enter" /\ j >= 2 /\ (\A i \in 1 .. o : t[i] \notin {Colon, Blank, CR}) /\ (w <=> o # 0)
    \/ st = "delimiter" /\ j <= n /\ o >= 1 /\ t[o] \in {Colon, Blank}
    \/ st = "value" /\ j <= n /\ (o >= 1 /\ t[o] = CR => r.lines[j] = "empty")
    \/ st = "finish" /\ j <= n /\ o >= 1 /\ t[o] = CR
    \/ st = "body" /\ j >= 2 /\ w /\ j = n /\ r.lines[j] = "nocolon" /\ o = 2
    \/ st = "body" /\ j >= 2 /\ ~w /\ j = n + 1

\* The actions that read on in a header.
Scans == \/ ColonEndsName \/ NameChar \/ BlankContinues \/ ReturnBeforeColon
         \/ SkipBlank \/ ValueBegins \/ ValueChar \/ ValueEnds \/ BodyChar
         \/ EndOfLine \/ BareLineEnd \/ EndOfName

\* They keep to the line until its line feed and are then at the start of the next one.
LEMMA ScanStep ==
    ASSUME NEW r \in Request, Meant(r), ~Misread(r),
           NEW j \in 1 .. Len(r.lines) + 1, NEW t, t = TextOf(r, j), NEW o \in 0 .. Len(t) - 1,
           ch = t[o + 1], Reading(r, j, o, state, wrote), wrote \in BOOLEAN, Scans
    PROVE  \/ o + 1 < Len(t) /\ Reading(r, j, o + 1, state', wrote')
           \/ o + 1 = Len(t) /\ j <= Len(r.lines) /\ Reading(r, j + 1, 0, state', wrote')
<1> DEFINE n == Len(r.lines)  m == Len(t)
<1>0. n \in Nat /\ j \in Nat /\ m \in 2 .. 7 /\ o \in Nat /\ o + 1 \in 1 .. m /\ (o + 1) - 1 = o
  BY LinesType
<1>1. LineEnds(r, j, t) /\ LineNames(r, j, t)
  BY TextFacts
<1>2. /\ ch = LF <=> o + 1 = m
      /\ t[m - 1] \in {Colon, Blank} => j < n
      /\ j <= n /\ t[m - 1] # CR => j < n
      /\ j <= n /\ r.lines[j] = "empty" => j < n
      /\ j <= n /\ r.lines[j] = "nocolon" => j = n /\ j # 1 /\ m = 3
  BY <1>0, <1>1 DEF LineEnds
<1>3. /\ \E i \in 1 .. m - 1 : t[i] \in {Colon, Blank, CR}
      /\ j = 1 => \E i \in 1 .. m - 1 : t[i] = Colon
      /\ ch \in {Colon, Blank} => j <= n
      /\ t[1] = CR => j = n + 1
  BY <1>0, <1>1 DEF LineNames
<1>4. o >= 1 /\ t[o] \in {Colon, Blank} /\ ch = CR => j <= n /\ r.lines[j] = "empty"
  <2> SUFFICES ASSUME o >= 1, t[o] \in {Colon, Blank}, ch = CR PROVE j <= n /\ r.lines[j] = "empty"
    OBVIOUS
  <2>1. o \in 1 .. m - 1
    BY <1>0
  <2> QED BY <1>1, <2>1 DEF LineNames
<1>5. o >= 1 /\ ch = CR /\ (\A i \in 1 .. o : t[i] \notin {Colon, Blank, CR}) =>
         j <= n /\ r.lines[j] = "nocolon" /\ o + 1 = 2
  <2> SUFFICES ASSUME o >= 1, ch = CR, \A i \in 1 .. o : t[i] \notin {Colon, Blank, CR}
               PROVE  j <= n /\ r.lines[j] = "nocolon" /\ o + 1 = 2
    OBVIOUS
  <2>1. o + 1 # 1 /\ \A h \in 1 .. (o + 1) - 1 : t[h] \notin {Colon, Blank}
    BY <1>0
  <2> QED BY <1>0, <1>1, <2>1 DEF LineNames
<1>6. CR # LF /\ Colon # LF /\ Blank # LF /\ Colon # CR /\ Blank # CR
  BY DEF CR, LF, Colon, Blank
<1> DEFINE Stays == o + 1 < m /\ Reading(r, j, o + 1, state', wrote')
           Goes == o + 1 = m /\ j <= n /\ Reading(r, j + 1, 0, state', wrote')
<1>7. ch # LF => o + 1 < m
  BY <1>0, <1>2
<1>8. ASSUME NEW w, (\A i \in 1 .. o : t[i] \notin w), ch \notin w
      PROVE  \A i \in 1 .. o + 1 : t[i] \notin w
  <2> SUFFICES ASSUME NEW i \in 1 .. o + 1 PROVE t[i] \notin w
    OBVIOUS
  <2>1. i \in 1 .. o \/ i = o + 1
    BY <1>0
  <2> QED BY <1>8, <2>1
<1>9. CASE ColonEndsName
  <2>1. ch = Colon /\ state' = "delimiter"
    BY <1>9 DEF ColonEndsName, InHeader
  <2>2. Reading(r, j, o + 1, state', wrote')
    BY <1>0, <1>3, <2>1 DEF Reading
  <2> QED BY <1>6, <1>7, <2>1, <2>2
<1>10. CASE NameChar
  <2>1. CASE state = "name"
    <3>1. ch # Colon /\ state' = "name" /\ wrote' = TRUE
      BY <1>10, <2>1 DEF NameChar, Store
    <3>2. j = 1 /\ \A i \in 1 .. o : t[i] # Colon
      BY <2>1 DEF Reading
    <3>3. \A i \in 1 .. o + 1 : t[i] # Colon
      <4>1. \A i \in 1 .. o + 1 : t[i] \notin {Colon}
        BY <1>8, <3>1, <3>2
      <4> QED BY <4>1
    <3>4. o + 1 # m
      BY <1>0, <1>3, <3>2
    <3>5. Reading(r, j, o + 1, state', wrote')
      BY <3>1, <3>2, <3>3 DEF Reading
    <3> QED BY <1>0, <3>4, <3>5
  <2>2. CASE state = "enter"
    <3>1. ch \notin {Colon, Blank, CR} /\ state' = "enter" /\ wrote' = TRUE
      BY <1>10, <2>2 DEF NameChar, Store
    <3>2. j >= 2 /\ \A i \in 1 .. o : t[i] \notin {Colon, Blank, CR}
      BY <2>2 DEF Reading
    <3>3. \A i \in 1 .. o + 1 : t[i] \notin {Colon, Blank, CR}
      BY <1>8, <3>1, <3>2
    <3>4. o + 1 # m
      BY <1>0, <1>3, <3>2
    <3>5. Reading(r, j, o + 1, state', wrote')
      <4>1. o + 1 # 0
        BY <1>0
      <4> QED BY <3>1, <3>2, <3>3, <4>1 DEF Reading
    <3> QED BY <1>0, <3>4, <3>5
  <2>3. state \in {"enter", "name"}
    BY <1>10 DEF NameChar, InHeader
  <2> QED BY <2>1, <2>2, <2>3
<1>11. CASE BlankContinues
  <2>1. ch = Blank /\ state' = "delimiter"
    BY <1>11 DEF BlankContinues, InHeader
  <2>2. Reading(r, j, o + 1, state', wrote')
    BY <1>0, <1>3, <2>1 DEF Reading
  <2> QED BY <1>6, <1>7, <2>1, <2>2
<1>12. CASE ReturnBeforeColon
  <2>1. ch = CR /\ state = "enter" /\ state' = "body" /\ wrote' = wrote
    BY <1>12 DEF ReturnBeforeColon, InHeader
  <2>2. j >= 2 /\ (\A i \in 1 .. o : t[i] \notin {Colon, Blank, CR}) /\ (wrote <=> o # 0)
    BY <2>1 DEF Reading
  <2>3. CASE o = 0
    <3>1. t[1] = CR
      <4>1. o + 1 = 1
        BY <2>3
      <4>2. ch = t[1]
        BY <4>1
      <4> HIDE DEF m
      <4> QED BY <2>1, <4>2
    <3>2. j = n + 1
      BY <1>3, <3>1
    <3>3. ~wrote'
      BY <2>1, <2>2, <2>3
    <3>4. Reading(r, j, o + 1, state', wrote')
      BY <2>1, <2>2, <3>2, <3>3 DEF Reading
    <3> QED BY <1>6, <1>7, <2>1, <3>4
  <2>4. CASE o # 0
    <3>1. o >= 1
      BY <1>0, <2>4
    <3>2. j <= n /\ r.lines[j] = "nocolon" /\ o + 1 = 2
      BY <1>5, <2>1, <2>2, <3>1
    <3>3. j = n
      BY <1>2, <3>2
    <3>4. wrote'
      BY <2>1, <2>2, <2>4
    <3>5. Reading(r, j, o + 1, state', wrote')
      BY <2>1, <2>2, <3>2, <3>3, <3>4 DEF Reading
    <3> QED BY <1>6, <1>7, <2>1, <3>5
  <2> QED BY <2>3, <2>4
<1>13. CASE SkipBlank
  <2>1. ch = Blank /\ state' = "delimiter"
    BY <1>13 DEF SkipBlank, InHeader, scan
  <2>2. Reading(r, j, o + 1, state', wrote')
    BY <1>0, <1>3, <2>1 DEF Reading
  <2> QED BY <1>6, <1>7, <2>1, <2>2
<1>14. CASE ValueBegins
  <2>1. ch # LF /\ state = "delimiter" /\ state' = "value"
    BY <1>14 DEF ValueBegins, InHeader
  <2>2. j <= n /\ o >= 1 /\ t[o] \in {Colon, Blank}
    BY <2>1 DEF Reading
  <2>3. Reading(r, j, o + 1, state', wrote')
    BY <1>4, <2>1, <2>2 DEF Reading
  <2> QED BY <1>7, <2>1, <2>3
<1>15. CASE ValueChar
  <2>1. ch # LF /\ ch # CR /\ state = "value" /\ state' = "value"
    BY <1>15 DEF ValueChar, InHeader
  <2>2. j <= n
    BY <2>1 DEF Reading
  <2>3. Reading(r, j, o + 1, state', wrote')
    BY <2>1, <2>2 DEF Reading
  <2> QED BY <1>7, <2>1, <2>3
<1>16. CASE ValueEnds
  <2>1. ch = CR /\ state = "value" /\ state' = "finish"
    BY <1>16 DEF ValueEnds, InHeader
  <2>2. j <= n
    BY <2>1 DEF Reading
  <2>3. Reading(r, j, o + 1, state', wrote')
    BY <1>0, <2>1, <2>2 DEF Reading
  <2> QED BY <1>6, <1>7, <2>1, <2>3
<1>17. CASE BodyChar
  <2>1. ch # LF /\ state = "body" /\ state' = "body" /\ wrote' = wrote
    BY <1>17 DEF BodyChar, InHeader, scan
  <2>2. CASE wrote
    <3>1. j = n /\ r.lines[j] = "nocolon" /\ o = 2
      BY <2>1, <2>2 DEF Reading
    <3>2. o + 1 = m
      BY <1>0, <1>2, <3>1
    <3> QED BY <1>2, <2>1, <3>2
  <2>3. CASE ~wrote
    <3>1. j >= 2 /\ j = n + 1
      BY <2>1, <2>3 DEF Reading
    <3>2. Reading(r, j, o + 1, state', wrote')
      BY <2>1, <2>3, <3>1 DEF Reading
    <3> QED BY <1>7, <2>1, <3>2
  <2> QED BY <2>2, <2>3
<1>18. CASE EndOfLine
  <2>1. ch = LF /\ state = "finish" /\ state' = "enter" /\ wrote' = FALSE
    BY <1>18 DEF EndOfLine, InHeader, LineDone
  <2>2. j <= n
    BY <2>1 DEF Reading
  <2>3. Reading(r, j + 1, 0, state', wrote')
    BY <1>0, <2>1 DEF Reading
  <2> QED BY <1>2, <2>1, <2>2, <2>3
<1>19. CASE BareLineEnd
  <2>1. ch = LF /\ state \in {"delimiter", "value"} /\ state' = "value"
    BY <1>19 DEF BareLineEnd, InHeader, LineDone
  <2>2. o = m - 1 /\ o >= 1
    BY <1>0, <1>2, <2>1
  <2>3. j < n
    BY <1>2, <2>1, <2>2 DEF Reading
  <2>4. Reading(r, j + 1, 0, state', wrote')
    BY <1>0, <2>1, <2>3 DEF Reading
  <2> QED BY <1>0, <1>2, <2>1, <2>3, <2>4
<1>20. CASE EndOfName
  <2>1. ch = LF /\ state = "body" /\ wrote /\ state' = "body" /\ wrote' = FALSE
    BY <1>20 DEF EndOfName, InHeader, LineDone
  <2>2. j >= 2 /\ j = n
    BY <2>1 DEF Reading
  <2>3. Reading(r, j + 1, 0, state', wrote')
    BY <1>0, <2>1, <2>2 DEF Reading
  <2> QED BY <1>2, <2>1, <2>2, <2>3
<1> QED BY <1>9, <1>10, <1>11, <1>12, <1>13, <1>14, <1>15, <1>16, <1>17, <1>18, <1>19, <1>20 DEF Scans

\* The place of the scan in the k-th request: the o-th symbol of the j-th line is the
\* last one read.
Place(k, j, o) ==
    /\ j \in 1 .. Len(requests[k].lines) + 1
    /\ o \in 0 .. Len(TextOf(requests[k], j)) - 1
    /\ pos = LineStart(k, j) + o

\* The symbol there, and where the scan is behind it.
LEMMA AtPlace ==
    ASSUME InputInv, NEW k \in 1 .. Num, NEW r, r = requests[k], NEW j, NEW o, Place(k, j, o)
    PROVE  LET n == Len(r.lines)  m == Len(TextOf(r, j)) IN
           /\ n \in Nat /\ j \in 1 .. n + 1 /\ m \in 2 .. 7 /\ o \in 0 .. m - 1 /\ pos \in Nat
           /\ More /\ ch = TextOf(r, j)[o + 1] /\ pos + 1 <= HeadEnd(k)
           /\ o + 1 < m => pos + 1 = LineStart(k, j) + (o + 1) /\ o + 1 \in 0 .. m - 1
           /\ o + 1 = m /\ j <= n => pos + 1 = LineStart(k, j + 1) /\ j + 1 \in 1 .. n + 1
           /\ o + 1 = m /\ j = n + 1 => pos + 1 = HeadEnd(k)
<1> DEFINE n == Len(r.lines)  m == Len(TextOf(r, j))
<1>1. r \in Request /\ Len(stream) \in Nat /\ HeadEnd(k) <= Len(stream) /\ HeadEnd(k) \in Nat
  BY InStream
<1>2. n \in Nat /\ j \in 1 .. n + 1 /\ pos = LineStart(k, j) + o /\ o \in 0 .. m - 1
  BY <1>1, LinesType DEF Place
<1>3. m \in 2 .. 7 /\ LineStart(k, j) \in Nat
  BY <1>1, <1>2, LinesType, InStream
<1>4. o + 1 \in 1 .. m
  BY <1>2, <1>3
<1>5. LineStart(k, j) + (o + 1) <= HeadEnd(k) /\ stream[LineStart(k, j) + (o + 1)] = TextOf(r, j)[o + 1]
  BY <1>2, <1>4, InStream, ZenonT(40)
<1>6. pos + 1 = LineStart(k, j) + (o + 1) /\ pos \in Nat
  BY <1>2, <1>3
<1>7. j <= n => LineStart(k, j + 1) = LineStart(k, j) + m /\ j + 1 \in 1 .. n + 1
  <2> SUFFICES ASSUME j <= n PROVE LineStart(k, j + 1) = LineStart(k, j) + m /\ j + 1 \in 1 .. n + 1
    OBVIOUS
  <2>1. j \in 1 .. n /\ j + 1 \in 1 .. n + 1
    BY <1>2
  <2> QED BY <2>1, InStream
<1>8. j = n + 1 => m = 2 /\ HeadEnd(k) = LineStart(k, j) + m
  <2> SUFFICES ASSUME j = n + 1 PROVE m = 2 /\ HeadEnd(k) = LineStart(k, j) + m
    OBVIOUS
  <2>1. TextOf(r, j) = <<CR, LF>>
    BY <1>1, LinesType
  <2>2. m = 2
    BY <2>1
  <2>3. HeadEnd(k) = LineStart(k, n + 1) + 2
    BY InStream
  <2> HIDE DEF m
  <2> QED BY <2>2, <2>3
<1>9. More /\ ch = TextOf(r, j)[o + 1] /\ pos + 1 <= HeadEnd(k)
  <2>1. pos < Len(stream)
    BY <1>1, <1>5, <1>6
  <2> QED BY <1>5, <1>6, <2>1 DEF More, ch
<1> HIDE DEF n, m
<1>10. o + 1 < m => o + 1 \in 0 .. m - 1
  BY <1>2, <1>3
<1> QED BY <1>2, <1>3, <1>6, <1>7, <1>8, <1>9, <1>10 DEF n, m

\* One symbol of a line of the k-th request.
LEMMA OnLine ==
    ASSUME InputInv, NEW k \in 1 .. Num, NEW r, r = requests[k],
           NEW j \in 1 .. Len(r.lines) + 1, NEW i \in 1 .. Len(TextOf(r, j))
    PROVE  stream[LineStart(k, j) + i] = TextOf(r, j)[i]
<1> DEFINE t == TextOf(r, j)
<1>1. t = TextOf(r, j) /\ i \in 1 .. Len(t)
  OBVIOUS
<1> HIDE DEF t
<1>2. stream[LineStart(k, j) + i] = t[i]
  BY <1>1, InStream, ZenonT(40)
<1> QED BY <1>1, <1>2

\* Within a header there is no boundary: get_pchar reports one only behind a header
\* that a form follows.
LEMMA BoundIsBody ==
    ASSUME InputInv, NEW k \in 1 .. Num, NEW r, r = requests[k], ~Misread(r),
           \/ pos \in Starts(k) .. Starts(k) + 2
           \/ \E j, o : Place(k, j, o),
           AtBound
    PROVE  /\ r.body = "form" /\ Place(k, Len(r.lines) + 1, 0)
           /\ \A j, o : Place(k, j, o) => j = Len(r.lines) + 1 /\ o = 0
<1> DEFINE n == Len(r.lines)
<1>0. /\ ch = CR /\ stream[pos + 3] = Bound /\ pos + 3 <= Len(stream)
      /\ r \in Request /\ Meant(r) /\ n \in Nat /\ Starts(k) \in Nat
  BY InStream DEF AtBound
<1>1. ASSUME NEW j \in 1 .. n + 1 PROVE stream[LineStart(k, j) + 1] # Bound /\ n >= 1
  <2>1. LineNames(r, j, TextOf(r, j)) /\ LineEnds(r, j, TextOf(r, j))
    BY <1>0, TextFacts
  <2>2. 1 \in 1 .. Len(TextOf(r, j))
    <3>1. \A i \in 1 .. n + 1 : TextOf(r, i) \in Seq(Symbols) /\ Len(TextOf(r, i)) \in 2 .. 7
      BY <1>0, LinesType
    <3>2. PICK m : m = Len(TextOf(r, j))
      OBVIOUS
    <3>3. m \in 2 .. 7
      BY <3>1, <3>2
    <3>4. 1 \in 1 .. m
      BY <3>3
    <3> QED BY <3>2, <3>4
  <2>3. TextOf(r, j)[1] # Bound
    BY <2>1, <2>2 DEF LineNames
  <2>4. stream[LineStart(k, j) + 1] = TextOf(r, j)[1]
    BY <2>2, OnLine
  <2> QED BY <2>1, <2>3, <2>4 DEF LineEnds
<1>2. ASSUME pos \in Starts(k) .. Starts(k) + 2 PROVE FALSE
  <2>1. pos = Starts(k) \/ pos = Starts(k) + 1 \/ pos = Starts(k) + 2
    BY <1>0, <1>2
  <2>2. /\ stream[Starts(k) + 1] = r.path /\ stream[Starts(k) + 2] = CR
        /\ stream[Starts(k) + 3] = LF /\ LineStart(k, 1) = Starts(k) + 3
    BY InStream
  <2>3. r.path # CR /\ LF # CR
    BY <1>0 DEF Request, PathsSent, CR, LF
  <2>4. pos = Starts(k) + 1
    <3>1. pos = Starts(k) => ch = r.path
      BY <2>2 DEF ch
    <3>2. pos = Starts(k) + 2 => ch = LF
      <4>1. pos = Starts(k) + 2 => pos + 1 = Starts(k) + 3
        BY <1>0
      <4> QED BY <2>2, <4>1 DEF ch
    <3> QED BY <1>0, <2>1, <2>3, <3>1, <3>2
  <2>5. pos + 3 = LineStart(k, 1) + 1 /\ 1 \in 1 .. n + 1
    BY <1>0, <2>2, <2>4, SMTT(40)
  <2> QED BY <1>0, <1>1, <2>5
<1>3. ASSUME NEW j, NEW o, Place(k, j, o) PROVE r.body = "form" /\ j = n + 1 /\ o = 0
  <2> DEFINE t == TextOf(r, j)  m == Len(t)
  <2>1. /\ j \in 1 .. n + 1 /\ m \in 2 .. 7 /\ o \in 0 .. m - 1
        /\ ch = t[o + 1] /\ pos = LineStart(k, j) + o /\ LineStart(k, j) \in Nat
    <3>1. j \in 1 .. n + 1 /\ m \in 2 .. 7 /\ o \in 0 .. m - 1 /\ ch = t[o + 1]
      BY <1>3, AtPlace
    <3>2. LineStart(k, j) \in Nat
      BY <3>1, InStream
    <3> QED BY <1>3, <3>1, <3>2 DEF Place
  <2>2. LineEnds(r, j, t) /\ LineNames(r, j, t)
    BY <1>0, <2>1, TextFacts
  <2>3. o + 1 = m - 1 \/ (o + 1 = 4 /\ m = 7 /\ t[6] = CR)
    <3>1. o + 1 \in 1 .. m
      BY <2>1
    <3> QED BY <1>0, <2>1, <2>2, <3>1 DEF LineEnds
  <2>4. o + 1 = m - 1
    <3> SUFFICES ASSUME o + 1 = 4, m = 7, t[6] = CR PROVE FALSE
      BY <2>3
    <3>1. pos + 3 = LineStart(k, j) + 6 /\ 6 \in 1 .. m
      BY <2>1
    <3>2. stream[LineStart(k, j) + 6] = TextOf(r, j)[6]
      <4>1. j \in 1 .. Len(r.lines) + 1 /\ 6 \in 1 .. Len(TextOf(r, j))
        BY <2>1, <3>1
      <4> QED BY <4>1, OnLine
    <3>3. CR # Bound
      BY DEF CR, Bound
    <3> QED BY <1>0, <3>1, <3>2, <3>3
  <2>5. pos + 3 = (LineStart(k, j) + m) + 1
    <3> HIDE DEF m, t
    <3>1. o = m - 2
      BY <2>1, <2>4
    <3> QED BY <2>1, <3>1
  <2>6. j = n + 1
    <3> SUFFICES ASSUME j # n + 1 PROVE FALSE
      OBVIOUS
    <3>1. j \in 1 .. n /\ j + 1 \in 1 .. n + 1
      <4> HIDE DEF n, m, t
      <4> QED BY <1>0, <2>1
    <3>2. LineStart(k, j + 1) = LineStart(k, j) + m
      BY <3>1, InStream
    <3> QED BY <1>0, <1>1, <2>5, <3>1, <3>2
  <2>7. m = 2
    <3>1. t = <<CR, LF>>
      BY <1>0, <2>6, LinesType
    <3> QED BY <3>1
  <2>8. HeadEnd(k) = LineStart(k, n + 1) + 2 /\ HeadEnd(k) \in Nat /\ Len(stream) \in Nat
    BY InStream
  <2> HIDE DEF m, t, n
  <2>9. o = 0 /\ pos + 3 = HeadEnd(k) + 1
    BY <2>1, <2>4, <2>5, <2>6, <2>7, <2>8
  <2>10. r.body # "none"
    <3> SUFFICES ASSUME r.body = "none" PROVE FALSE
      OBVIOUS
    <3>1. Starts(k + 1) = HeadEnd(k)
      <4>1. Len(BodyOf(r)) = 0 /\ Starts(k + 1) = HeadEnd(k) + Len(BodyOf(r))
        BY <1>0, BodyType, InStream
      <4> QED BY <2>8, <4>1
    <3>2. CASE k = Num
      <4>1. Starts(k + 1) = Len(stream)
        BY <3>2, Layout
      <4> QED BY <1>0, <2>8, <2>9, <3>1, <4>1
    <3>3. CASE k # Num
      <4>1. k + 1 \in 1 .. Num
        BY <3>3, Layout
      <4>2. requests[k + 1].path # Bound /\ stream[Starts(k + 1) + 1] = requests[k + 1].path
        <5>1. requests[k + 1] \in Request /\ stream[Starts(k + 1) + 1] = requests[k + 1].path
          BY <4>1, InStream
        <5> QED BY <5>1 DEF Request, PathsSent, Bound
      <4> QED BY <1>0, <2>9, <3>1, <4>2
    <3> QED BY <3>2, <3>3
  <2>11. r.body # "data"
    <3> SUFFICES ASSUME r.body = "data" PROVE FALSE
      OBVIOUS
    <3>1. Len(BodyOf(r)) = 2 /\ BodyOf(r)[1] = "page"
      BY <1>0, BodyType
    <3>2. stream[HeadEnd(k) + 1] = BodyOf(r)[1]
      <4>1. 1 \in 1 .. Len(BodyOf(r))
        BY <3>1
      <4> QED BY <4>1, InStream
    <3>3. "page" # Bound
      BY DEF Bound
    <3> QED BY <1>0, <2>9, <3>1, <3>2, <3>3
  <2>12. r.body \in {"none", "data", "form"}
    BY <1>0 DEF Request
  <2> QED BY <1>3, <2>6, <2>9, <2>10, <2>11, <2>12
<1> QED BY <1>2, <1>3

\* What the client sends stays where it is.
LEMMA SameInput ==
    ASSUME UNCHANGED input
    PROVE  /\ Num' = Num /\ requests' = requests /\ stream' = stream
           /\ \A k : Starts(k)' = Starts(k) /\ HeadEnd(k)' = HeadEnd(k)
           /\ \A k, j : LineStart(k, j)' = LineStart(k, j)
<1>1. requests' = requests /\ stream' = stream
  BY DEF input
<1>2. ASSUME NEW k PROVE Starts(k)' = Starts(k)
  BY <1>1 DEF Starts
<1>3. ASSUME NEW k PROVE HeadEnd(k)' = HeadEnd(k)
  BY <1>1, <1>2 DEF HeadEnd
<1>4. ASSUME NEW k, NEW j PROVE LineStart(k, j)' = LineStart(k, j)
  BY <1>1, <1>2 DEF LineStart
<1> QED BY <1>1, <1>2, <1>3, <1>4 DEF Num

\* The scan is in the header of the k-th request: in its line, which is taken for the
\* beginning of a name, or in a line of the header.
Within(k) ==
    \/ pos \in Starts(k) .. Starts(k) + 2 /\ state = "name"
    \/ \E j, o : Place(k, j, o) /\ Reading(requests[k], j, o, state, wrote)

\* The same after a step that leaves the input.
LEMMA PlaceNext ==
    ASSUME UNCHANGED input, NEW k, NEW j, NEW o
    PROVE  Place(k, j, o)' <=> /\ j \in 1 .. Len(requests[k].lines) + 1
                               /\ o \in 0 .. Len(TextOf(requests[k], j)) - 1
                               /\ pos' = LineStart(k, j) + o
<1>1. requests' = requests /\ LineStart(k, j)' = LineStart(k, j)
  BY SameInput
<1>2. Place(k, j, o)' <=> /\ j \in 1 .. Len(requests'[k].lines) + 1
                          /\ o \in 0 .. Len(TextOf(requests'[k], j)) - 1
                          /\ pos' = LineStart(k, j)' + o
  BY DEF Place
<1> QED BY <1>1, <1>2

\* What has to be shown for it after such a step.
LEMMA WithinNext ==
    ASSUME UNCHANGED input, NEW k
    PROVE  /\ \A j, o : Place(k, j, o)' /\ Reading(requests[k], j, o, state', wrote') => Within(k)'
           /\ pos' \in Starts(k) .. Starts(k) + 2 /\ state' = "name" => Within(k)'
<1>1. requests' = requests /\ Starts(k)' = Starts(k)
  BY SameInput
<1>2. Within(k)' <=>
         \/ pos' \in Starts(k)' .. Starts(k)' + 2 /\ state' = "name"
         \/ \E j, o : Place(k, j, o)' /\ Reading(requests'[k], j, o, state', wrote')
  BY DEF Within
<1> QED BY <1>1, <1>2

\* Every scanning action reads one symbol.
LEMMA ScansRead ==
    ASSUME Scans
    PROVE  /\ phase = "header" /\ More /\ pos' = pos + 1
           /\ UNCHANGED <<input, answered, path, phase>>
<1> USE DEF InHeader, Read, LineDone
<1>1. CASE ColonEndsName
  BY <1>1 DEF ColonEndsName
<1>2. CASE NameChar
  BY <1>2 DEF NameChar
<1>3. CASE BlankContinues
  BY <1>3 DEF BlankContinues
<1>4. CASE ReturnBeforeColon
  BY <1>4 DEF ReturnBeforeColon
<1>5. CASE SkipBlank
  BY <1>5 DEF SkipBlank
<1>6. CASE ValueBegins
  BY <1>6 DEF ValueBegins
<1>7. CASE ValueChar
  BY <1>7 DEF ValueChar
<1>8. CASE ValueEnds
  BY <1>8 DEF ValueEnds
<1>9. CASE BodyChar
  BY <1>9 DEF BodyChar
<1>10. CASE EndOfLine
  BY <1>10 DEF EndOfLine
<1>11. CASE BareLineEnd
  BY <1>11 DEF BareLineEnd
<1>12. CASE EndOfName
  BY <1>12 DEF EndOfName
<1> QED BY <1>1, <1>2, <1>3, <1>4, <1>5, <1>6, <1>7, <1>8, <1>9, <1>10, <1>11, <1>12 DEF Scans

\* Which scanning actions there are in a name before the first line end.
LEMMA ScansName ==
    ASSUME Scans, state = "name", ch # Colon
    PROVE  NameChar /\ state' = "name"
<1>1. ~ColonEndsName
  BY DEF ColonEndsName
<1>2. ~BlankContinues /\ ~ReturnBeforeColon /\ ~SkipBlank /\ ~ValueBegins /\ ~ValueChar /\ ~ValueEnds
  BY DEF BlankContinues, ReturnBeforeColon, SkipBlank, ValueBegins, ValueChar, ValueEnds, InHeader
<1>3. ~BodyChar /\ ~EndOfLine /\ ~BareLineEnd /\ ~EndOfName
  BY DEF BodyChar, EndOfLine, BareLineEnd, EndOfName, InHeader
<1>4. NameChar
  BY <1>1, <1>2, <1>3 DEF Scans
<1> QED BY <1>4 DEF NameChar

\* The symbols of the request line.
LEMMA InRequestLine ==
    ASSUME InputInv, NEW k \in 1 .. Num, pos \in Starts(k) .. Starts(k) + 2
    PROVE  /\ More /\ ch \in PathsSent \cup {CR, LF}
           /\ pos = Starts(k) => ch = requests[k].path
           /\ pos + 1 \in Starts(k) .. Starts(k) + 2 \/ pos + 1 = LineStart(k, 1)
<1> DEFINE r == requests[k]
<1>1. /\ stream[Starts(k) + 1] = r.path /\ stream[Starts(k) + 2] = CR
      /\ stream[Starts(k) + 3] = LF /\ LineStart(k, 1) = Starts(k) + 3 /\ Starts(k) \in Nat
      /\ Starts(k) + 3 < Len(stream) /\ Len(stream) \in Nat /\ r \in Request
  BY InStream
<1>2. r.path \in PathsSent
  BY <1>1 DEF Request
<1> HIDE DEF r
<1>3. pos = Starts(k) \/ pos = Starts(k) + 1 \/ pos = Starts(k) + 2
  BY <1>1
<1>4. More
  BY <1>1 DEF More
<1>5. CASE pos = Starts(k)
  <2>1. ch = r.path
    BY <1>1, <1>5 DEF ch
  <2>2. pos + 1 \in Starts(k) .. Starts(k) + 2
    BY <1>1, <1>5
  <2> QED BY <1>2, <1>4, <2>1, <2>2 DEF r
<1>6. CASE pos = Starts(k) + 1
  <2>1. pos + 1 = Starts(k) + 2 /\ pos # Starts(k)
    BY <1>1, <1>6
  <2>2. ch = CR
    BY <1>1, <2>1 DEF ch
  <2>3. pos + 1 \in Starts(k) .. Starts(k) + 2
    BY <1>1, <2>1
  <2> QED BY <1>4, <2>1, <2>2, <2>3
<1>7. CASE pos = Starts(k) + 2
  <2>1. pos + 1 = Starts(k) + 3 /\ pos # Starts(k)
    BY <1>1, <1>7
  <2>2. ch = LF
    BY <1>1, <2>1 DEF ch
  <2> QED BY <1>1, <1>4, <2>1, <2>2
<1> QED BY <1>3, <1>5, <1>6, <1>7

\* The place in front of a line.
LEMMA LineBegins ==
    ASSUME NEW m \in 2 .. 7, NEW s \in Nat PROVE 0 \in 0 .. m - 1 /\ s + 0 = s
OBVIOUS

\* The scan stays within the header.
LEMMA ScansWithin ==
    ASSUME HeaderTypeOK, NEW k \in 1 .. Num, ~Misread(requests[k]), Within(k), Scans
    PROVE  Within(k)'
<1> DEFINE r == requests[k]  n == Len(r.lines)
<1>0. /\ InputInv /\ wrote \in BOOLEAN /\ pos' = pos + 1 /\ UNCHANGED input
      /\ r \in Request /\ Meant(r) /\ n \in Nat
  BY ScansRead, InStream DEF HeaderTypeOK, ScanOK
<1>1. CASE pos \in Starts(k) .. Starts(k) + 2 /\ state = "name"
  <2>1. ch \in PathsSent \cup {CR, LF}
        /\ (pos + 1 \in Starts(k) .. Starts(k) + 2 \/ pos + 1 = LineStart(k, 1))
    BY <1>0, <1>1, InRequestLine
  <2>2. ch # Colon
    BY <2>1 DEF PathsSent, CR, LF, Colon
  <2>3. state' = "name"
    BY <1>1, <2>2, ScansName
  <2>4. CASE pos + 1 \in Starts(k) .. Starts(k) + 2
    BY <1>0, <2>3, <2>4, WithinNext
  <2>5. CASE pos + 1 = LineStart(k, 1)
    <3>1. 1 \in 1 .. n + 1
      BY <1>0
    <3>2. Len(TextOf(r, 1)) \in 2 .. 7 /\ LineStart(k, 1) \in Nat
      BY <1>0, <3>1, LinesType, InStream
    <3>3. 0 \in 0 .. Len(TextOf(r, 1)) - 1 /\ pos' = LineStart(k, 1) + 0
      <4>1. 0 \in 0 .. Len(TextOf(r, 1)) - 1 /\ LineStart(k, 1) + 0 = LineStart(k, 1)
        BY <3>2, LineBegins
      <4> QED BY <1>0, <2>5, <4>1
    <3>4. Place(k, 1, 0)'
      BY <1>0, <3>1, <3>3, PlaceNext
    <3>5. Reading(r, 1, 0, state', wrote')
      BY <2>3 DEF Reading
    <3> QED BY <1>0, <3>4, <3>5, WithinNext
  <2> QED BY <2>1, <2>4, <2>5
<1>2. ASSUME NEW j, NEW o, Place(k, j, o), Reading(r, j, o, state, wrote) PROVE Within(k)'
  <2> DEFINE t == TextOf(r, j)  m == Len(t)
  <2>1. /\ j \in 1 .. n + 1 /\ m \in 2 .. 7 /\ o \in 0 .. m - 1 /\ ch = t[o + 1]
        /\ o + 1 < m => pos + 1 = LineStart(k, j) + (o + 1) /\ o + 1 \in 0 .. m - 1
        /\ o + 1 = m /\ j <= n => pos + 1 = LineStart(k, j + 1) /\ j + 1 \in 1 .. n + 1
    BY <1>0, <1>2, AtPlace
  <2>2. \/ o + 1 < m /\ Reading(r, j, o + 1, state', wrote')
        \/ o + 1 = m /\ j <= n /\ Reading(r, j + 1, 0, state', wrote')
    BY <1>0, <1>2, <2>1, ScanStep
  <2>3. CASE o + 1 < m /\ Reading(r, j, o + 1, state', wrote')
    <3>1. Place(k, j, o + 1)'
      BY <1>0, <2>1, <2>3, PlaceNext
    <3> QED BY <1>0, <2>3, <3>1, WithinNext
  <2>4. CASE o + 1 = m /\ j <= n /\ Reading(r, j + 1, 0, state', wrote')
    <3>1. Len(TextOf(r, j + 1)) \in 2 .. 7 /\ LineStart(k, j + 1) \in Nat
      BY <1>0, <2>1, <2>4, LinesType, InStream
    <3>2. 0 \in 0 .. Len(TextOf(r, j + 1)) - 1 /\ pos' = LineStart(k, j + 1) + 0
      <4>1. 0 \in 0 .. Len(TextOf(r, j + 1)) - 1 /\ LineStart(k, j + 1) + 0 = LineStart(k, j + 1)
        BY <3>1, LineBegins
      <4> QED BY <1>0, <2>1, <2>4, <4>1
    <3>3. Place(k, j + 1, 0)'
      BY <1>0, <2>1, <2>4, <3>2, PlaceNext
    <3> QED BY <1>0, <2>4, <3>3, WithinNext
  <2> QED BY <2>2, <2>3, <2>4
<1> QED BY <1>1, <1>2 DEF Within

\* A name, and what counts as one of these fields, is that of a line of r.
NamedBy(r, nm) ==
    \A i \in DOMAIN nm : /\ nm[i] = "content-length" => HasLine(r, "length")
                         /\ nm[i] = "content-type" => HasLine(r, "type")

\* One character more in the name leaves it named by the request.
LEMMA NamedOneMore ==
    ASSUME NEW r, NEW nm \in Seq(Symbols), NamedBy(r, nm), NEW c \in Symbols,
           c = "content-length" => HasLine(r, "length"), c = "content-type" => HasLine(r, "type")
    PROVE  NamedBy(r, Append(nm, c)) /\ NamedBy(r, <<c>>) /\ NamedBy(r, <<>>)
<1>1. NamedBy(r, <<>>)
  BY DEF NamedBy
<1>2. NamedBy(r, <<c>>)
  <2>1. \A i \in DOMAIN <<c>> : <<c>>[i] = c
    OBVIOUS
  <2> QED BY <2>1 DEF NamedBy
<1>3. NamedBy(r, Append(nm, c))
  <2>1. \A i \in DOMAIN Append(nm, c) : Append(nm, c)[i] = c \/ (i \in DOMAIN nm /\ Append(nm, c)[i] = nm[i])
    OBVIOUS
  <2> QED BY <2>1 DEF NamedBy
<1> QED BY <1>1, <1>2, <1>3

\* What scanning does to the name and the fields.
LEMMA ScansNames ==
    ASSUME Scans
    PROVE  /\ \E c \in {ch, Small(ch), "...", LF} : name' \in {name, <<>>, <<c>>, Append(name, c)}
           /\ UNCHANGED fields \/ \E v : Field(name', v)
<1> USE DEF InHeader, Read
<1>1. CASE ColonEndsName
  BY <1>1 DEF ColonEndsName, StoreNul
<1>2. CASE NameChar
  BY <1>2 DEF NameChar, Store
<1>3. CASE BlankContinues
  BY <1>3 DEF BlankContinues
<1>4. CASE ReturnBeforeColon
  BY <1>4 DEF ReturnBeforeColon
<1>5. CASE SkipBlank
  BY <1>5 DEF SkipBlank, scan
<1>6. CASE ValueBegins
  BY <1>6 DEF ValueBegins
<1>7. CASE ValueChar
  BY <1>7 DEF ValueChar, Store
<1>8. CASE ValueEnds
  BY <1>8 DEF ValueEnds, StoreNul
<1>9. CASE BodyChar
  BY <1>9 DEF BodyChar, scan
<1>10. CASE EndOfLine
  BY <1>10 DEF EndOfLine, LineDone
<1>11. CASE BareLineEnd
  BY <1>11 DEF BareLineEnd, LineDone
<1>12. CASE EndOfName
  BY <1>12 DEF EndOfName, LineDone
<1> QED BY <1>1, <1>2, <1>3, <1>4, <1>5, <1>6, <1>7, <1>8, <1>9, <1>10, <1>11, <1>12 DEF Scans

\* A symbol of the header names a field only in a line that does.
LEMMA WithinSymbol ==
    ASSUME HeaderTypeOK, NEW k \in 1 .. Num, NEW r, r = requests[k], ~Misread(r), Within(k)
    PROVE  /\ More
           /\ ch = "content-length" => HasLine(r, "length")
           /\ ch = "content-type" => HasLine(r, "type")
<1>0. InputInv /\ r \in Request /\ Meant(r)
  BY InStream DEF HeaderTypeOK
<1>1. CASE pos \in Starts(k) .. Starts(k) + 2
  <2>1. More /\ ch \in PathsSent \cup {CR, LF}
    BY <1>0, <1>1, InRequestLine
  <2> QED BY <2>1 DEF PathsSent, CR, LF
<1>2. ASSUME NEW j, NEW o, Place(k, j, o)
      PROVE  More /\ (ch = "content-length" => HasLine(r, "length"))
                  /\ (ch = "content-type" => HasLine(r, "type"))
  <2> DEFINE t == TextOf(r, j)  m == Len(t)
  <2>1. /\ j \in 1 .. Len(r.lines) + 1 /\ m \in 2 .. 7 /\ o \in 0 .. m - 1 /\ ch = t[o + 1] /\ More
    BY <1>0, <1>2, AtPlace
  <2>2. LineNames(r, j, t)
    BY <1>0, <2>1, TextFacts
  <2>3. o + 1 \in 1 .. m
    BY <2>1
  <2> QED BY <2>1, <2>2, <2>3 DEF LineNames
<1> QED BY <1>1, <1>2 DEF Within

\* The name stays one of the request's, and a field that it has no line for stays.
LEMMA ScansFields ==
    ASSUME HeaderTypeOK, NEW k \in 1 .. Num, NEW r, r = requests[k], ~Misread(r), Within(k),
           NamedBy(r, name), Scans
    PROVE  /\ NamedBy(r, name')
           /\ ~HasLine(r, "length") => length' = length
           /\ ~HasLine(r, "type") => type' = type
<1>0. name \in Seq(Symbols) /\ InputInv /\ pos \in Nat
  BY DEF HeaderTypeOK, ScanOK
<1>1. /\ More
      /\ ch = "content-length" => HasLine(r, "length")
      /\ ch = "content-type" => HasLine(r, "type")
  BY WithinSymbol
<1>2. PICK c \in {ch, Small(ch), "...", LF} : name' \in {name, <<>>, <<c>>, Append(name, c)}
  BY ScansNames
<1>3. /\ c \in Symbols
      /\ c = "content-length" => HasLine(r, "length")
      /\ c = "content-type" => HasLine(r, "type")
  <2>1. ch \in Symbols
    BY <1>0, <1>1, NextSymbol
  <2>2. Small(ch) \in {"-", "*", ch}
    BY DEF Small
  <2> QED BY <1>1, <1>2, <2>1, <2>2 DEF Symbols, LF
<1>4. NamedBy(r, name')
  BY <1>0, <1>2, <1>3, NamedOneMore
<1>5. ASSUME NEW v, Field(name', v)
      PROVE  /\ ~HasLine(r, "length") => length' = length
             /\ ~HasLine(r, "type") => type' = type
  <2>1. \A w \in {"content-length", "content-type"} : name' = <<w>> => 1 \in DOMAIN name' /\ name'[1] = w
    OBVIOUS
  <2>2. ~HasLine(r, "length") => name' # <<"content-length">>
    BY <1>4, <2>1 DEF NamedBy
  <2>3. ~HasLine(r, "type") => name' # <<"content-type">>
    BY <1>4, <2>1 DEF NamedBy
  <2> QED BY <1>5, <2>2, <2>3 DEF Field
<1> QED BY <1>4, <1>5, ScansNames DEF fields

-----------------------------------------------------------------------------
(* The session follows the requests as they were sent *)

Here == Len(answered) + 1

\* No header was misread up to the k-th, and no body left before it.
Sound(k) ==
    /\ \A j \in 1 .. k : ~Misread(requests[j])
    /\ \A j \in 1 .. k - 1 : ~LeavesBytes(requests[j])

\* The session is in the k-th request.  When the length of the body before was lost to
\* an odd line, its two symbols are still there, and are read as a request line, of a
\* page; what is behind it is then read as a header, the request line too.
Follows(k) ==
    LET r == requests[k] IN
    /\ phase \in {"line", "header", "action", "thrown"}
    /\ phase = "line" => \/ pos = Starts(k)
                         \/ k > 1 /\ requests[k - 1].body = "data" /\ pos = Starts(k) - 2
    /\ phase = "header" => Within(k) /\ NamedBy(r, name)
    /\ phase = "action" => pos = HeadEnd(k) \/ r.body = "form"
    /\ phase \in {"header", "action"} =>
          path \in {r.path, "page"} /\ (~HasLine(r, "length") => length = "0")
    /\ (\A j \in 1 .. k : ~HasLine(requests[j], "type")) => type = ""

OnTrack == \A k \in 1 .. Num : k = Here /\ Sound(k) => Follows(k)

\* From its start the request line of the k-th request is read.
LEMMA LineFromStart ==
    ASSUME HeaderTypeOK, NEW k \in 1 .. Num, pos = Starts(k)
    PROVE  /\ More /\ LineIsThere /\ LineEndsAt = LineStart(k, 1)
           /\ ch = requests[k].path /\ requests[k].path \in PathsSent
<1> DEFINE r == requests[k]
<1>0. /\ InputInv /\ pos \in Nat /\ Len(stream) \in Nat
      /\ stream[Starts(k) + 1] = r.path /\ stream[Starts(k) + 2] = CR /\ stream[Starts(k) + 3] = LF
      /\ LineStart(k, 1) = Starts(k) + 3 /\ Starts(k) \in Nat /\ Starts(k) + 3 < Len(stream)
      /\ r \in Request
  BY InStream DEF HeaderTypeOK
<1>1. r.path \in PathsSent /\ r.path # LF /\ CR # LF
  BY <1>0 DEF Request, PathsSent, CR, LF
<1> HIDE DEF r
<1>2. LineIsThere => /\ LineEndsAt \in pos + 1 .. Len(stream) /\ stream[LineEndsAt] = LF
                     /\ \A j \in pos + 1 .. LineEndsAt - 1 : stream[j] # LF
  BY LineEnd
<1>3. More /\ ch = r.path
  BY <1>0 DEF More, ch
<1>4. LineIsThere
  <2>1. Starts(k) + 3 \in pos + 1 .. Len(stream)
    BY <1>0
  <2> QED BY <1>0, <2>1 DEF LineIsThere
<1>5. PICK e : e = LineEndsAt
  OBVIOUS
<1>6. /\ e \in Starts(k) + 1 .. Len(stream) /\ stream[e] = LF
      /\ \A j \in Starts(k) + 1 .. e - 1 : stream[j] # LF
  BY <1>2, <1>4, <1>5
<1>7. e # Starts(k) + 1 /\ e # Starts(k) + 2
  BY <1>0, <1>1, <1>6
<1>8. ~(e > Starts(k) + 3)
  <2> SUFFICES ASSUME e > Starts(k) + 3 PROVE FALSE
    OBVIOUS
  <2>1. Starts(k) + 3 \in Starts(k) + 1 .. e - 1
    BY <1>0, <1>6
  <2> QED BY <1>0, <1>6, <2>1
<1>9. e = Starts(k) + 3
  BY <1>0, <1>6, <1>7, <1>8
<1> QED BY <1>0, <1>1, <1>3, <1>4, <1>5, <1>9 DEF r

\* A request line is the one of the k-th request, or the body before it.
LEMMA FollowsLine ==
    ASSUME HeaderTypeOK, NEW k \in 1 .. Num, Follows(k), phase = "line"
    PROVE  /\ More /\ LineIsThere /\ ch \in {requests[k].path, "page"} /\ requests[k].path \in PathsSent
           /\ LineEndsAt = Starts(k) \/ LineEndsAt = LineStart(k, 1)
<1> DEFINE r == requests[k]
<1>0. /\ InputInv /\ pos \in Nat /\ Len(stream) \in Nat
      /\ Starts(k) \in Nat /\ Starts(k) + 3 < Len(stream) /\ r \in Request
  BY InStream DEF HeaderTypeOK
<1>1. r.path \in PathsSent
  BY <1>0 DEF Request
<1> HIDE DEF r
<1>2. LineIsThere => /\ LineEndsAt \in pos + 1 .. Len(stream) /\ stream[LineEndsAt] = LF
                     /\ \A j \in pos + 1 .. LineEndsAt - 1 : stream[j] # LF
  BY LineEnd
<1>3. CASE pos = Starts(k)
  BY <1>3, LineFromStart
<1>4. CASE k > 1 /\ requests[k - 1].body = "data" /\ pos = Starts(k) - 2
  <2> DEFINE q == requests[k - 1]
  <2>1. k - 1 \in 1 .. Num /\ (k - 1) + 1 = k
    BY <1>4, Layout, <1>0
  <2>2. /\ q \in Request /\ Starts((k - 1) + 1) = HeadEnd(k - 1) + Len(BodyOf(q))
        /\ HeadEnd(k - 1) \in Nat
        /\ \A i \in 1 .. Len(BodyOf(q)) : stream[HeadEnd(k - 1) + i] = BodyOf(q)[i]
    BY <1>0, <2>1, InStream
  <2>3. Len(BodyOf(q)) = 2 /\ BodyOf(q)[1] = "page" /\ BodyOf(q)[2] = LF
    BY <1>4, <2>2, BodyType
  <2> HIDE DEF q
  <2>4. HeadEnd(k - 1) = pos /\ Starts(k) = pos + 2
    BY <1>0, <1>4, <2>1, <2>2, <2>3
  <2>5. stream[pos + 1] = "page" /\ stream[pos + 2] = LF
    <3>1. 1 \in 1 .. Len(BodyOf(q)) /\ 2 \in 1 .. Len(BodyOf(q))
      BY <2>3
    <3> QED BY <2>2, <2>3, <2>4, <3>1
  <2>6. More /\ ch = "page"
    BY <1>0, <2>4, <2>5 DEF More, ch
  <2>7. LineIsThere
    <3>1. pos + 2 \in pos + 1 .. Len(stream)
      BY <1>0, <2>4
    <3> QED BY <2>5, <3>1 DEF LineIsThere
  <2>8. PICK e : e = LineEndsAt
    OBVIOUS
  <2>9. /\ e \in pos + 1 .. Len(stream) /\ stream[e] = LF
        /\ \A j \in pos + 1 .. e - 1 : stream[j] # LF
    BY <1>2, <2>7, <2>8
  <2>10. e # pos + 1
    BY <2>5, <2>9 DEF LF
  <2>11. ~(e > pos + 2)
    <3> SUFFICES ASSUME e > pos + 2 PROVE FALSE
      OBVIOUS
    <3>1. pos + 2 \in pos + 1 .. e - 1
      BY <1>0, <2>9
    <3> QED BY <2>5, <2>9, <3>1
  <2>12. e = Starts(k)
    BY <1>0, <2>4, <2>9, <2>10, <2>11
  <2> QED BY <1>1, <2>6, <2>7, <2>8, <2>12 DEF r
<1> QED BY <1>3, <1>4 DEF Follows

\* What has to be shown after a step that leaves the input.
LEMMA FollowsNext ==
    ASSUME UNCHANGED input, NEW k \in 1 .. Num, NEW r, r = requests[k],
           phase' \in {"line", "header", "action", "thrown"},
           phase' = "line" => \/ pos' = Starts(k)
                              \/ k > 1 /\ requests[k - 1].body = "data" /\ pos' = Starts(k) - 2,
           phase' = "header" => Within(k)' /\ NamedBy(r, name'),
           phase' = "action" => pos' = HeadEnd(k) \/ r.body = "form",
           phase' \in {"header", "action"} =>
              path' \in {r.path, "page"} /\ (~HasLine(r, "length") => length' = "0"),
           (\A j \in 1 .. k : ~HasLine(requests[j], "type")) => type' = ""
    PROVE  Follows(k)'
<1>1. requests' = requests /\ Starts(k)' = Starts(k) /\ HeadEnd(k)' = HeadEnd(k)
  BY SameInput
<1>2. NamedBy(r, name') => NamedBy(requests'[k], name')
  BY <1>1
<1> QED BY <1>1, <1>2 DEF Follows, NamedBy

\* A step that answers nothing.
LEMMA FollowsStep ==
    ASSUME HeaderTypeOK, NEW k \in 1 .. Num, Sound(k), Follows(k),
           RequestLine \/ StreamEnds \/ Scans \/ Throws \/ HeaderEnds \/ HeaderEndsAtBound
    PROVE  Follows(k)'
<1> DEFINE r == requests[k]
<1>0. /\ InputInv /\ wrote \in BOOLEAN /\ k \in Nat /\ r = requests[k]
      /\ r \in Request /\ Meant(r) /\ Len(r.lines) \in Nat
  BY InStream DEF HeaderTypeOK, ScanOK
<1>1. ~Misread(r)
  BY <1>0 DEF Sound
<1> HIDE DEF r
<1>2. /\ phase = "header" => Within(k) /\ NamedBy(r, name)
      /\ phase \in {"header", "action"} => path \in {r.path, "page"} /\ (~HasLine(r, "length") => length = "0")
      /\ (\A j \in 1 .. k : ~HasLine(requests[j], "type")) => type = ""
  BY <1>0 DEF Follows
<1>3. CASE RequestLine
  <2>1. phase = "line" /\ LineIsThere /\ pos' = LineEndsAt /\ UNCHANGED input
    BY <1>3 DEF RequestLine
  <2>2. /\ ch \in {r.path, "page"} /\ r.path \in PathsSent
        /\ LineEndsAt = Starts(k) \/ LineEndsAt = LineStart(k, 1)
    BY <1>0, <2>1, FollowsLine
  <2>3. ch \in PathsSent
    BY <2>2 DEF PathsSent
  <2>4. phase' = "header" /\ path' = ch /\ length' = "0" /\ type' = type /\ state' = "name" /\ name' = <<>>
    BY <1>3, <2>3 DEF RequestLine, Prepare
  <2>5. Within(k)'
    <3>1. CASE LineEndsAt = Starts(k)
      <4>1. pos' \in Starts(k) .. Starts(k) + 2
        <5>1. Starts(k) \in Nat
          BY <1>0, InStream
        <5> QED BY <2>1, <3>1, <5>1
      <4> QED BY <2>1, <2>4, <4>1, WithinNext
    <3>2. CASE LineEndsAt = LineStart(k, 1)
      <4>1. 1 \in 1 .. Len(r.lines) + 1
        BY <1>0
      <4>2. Len(TextOf(r, 1)) \in 2 .. 7 /\ LineStart(k, 1) \in Nat
        BY <1>0, <4>1, LinesType, InStream
      <4>3. 0 \in 0 .. Len(TextOf(r, 1)) - 1 /\ pos' = LineStart(k, 1) + 0
        BY <2>1, <3>2, <4>2, LineBegins
      <4>4. Place(k, 1, 0)'
        BY <1>0, <2>1, <4>1, <4>3, PlaceNext
      <4>5. Reading(r, 1, 0, state', wrote')
        BY <2>4 DEF Reading
      <4> QED BY <1>0, <2>1, <4>4, <4>5, WithinNext
    <3> QED BY <2>2, <3>1, <3>2
  <2>6. NamedBy(r, name')
    BY <2>4 DEF NamedBy
  <2> QED BY <1>0, <1>2, <2>1, <2>2, <2>4, <2>5, <2>6, FollowsNext
<1>4. CASE StreamEnds
  <2>1. CASE phase = "line"
    BY <1>4, <2>1, FollowsLine DEF StreamEnds
  <2>2. CASE phase = "header"
    <3>1. More
      BY <1>0, <1>1, <1>2, <2>2, WithinSymbol
    <3> QED BY <1>4, <2>2, <3>1 DEF StreamEnds
  <2> QED BY <1>4, <2>1, <2>2 DEF StreamEnds
<1>5. CASE Scans
  <2>1. phase = "header" /\ UNCHANGED <<input, answered, path, phase>>
    BY <1>5, ScansRead
  <2>2. Within(k)'
    BY <1>0, <1>1, <1>2, <1>5, <2>1, ScansWithin
  <2>3. /\ NamedBy(r, name')
        /\ ~HasLine(r, "length") => length' = length
        /\ ~HasLine(r, "type") => type' = type
    BY <1>0, <1>1, <1>2, <1>5, <2>1, ScansFields
  <2>4. (\A j \in 1 .. k : ~HasLine(requests[j], "type")) => ~HasLine(r, "type")
    <3>1. k \in 1 .. k
      BY <1>0
    <3> QED BY <1>0, <3>1
  <2>5. path' \in {r.path, "page"} /\ (~HasLine(r, "length") => length' = "0")
    BY <1>2, <2>1, <2>3
  <2>6. (\A j \in 1 .. k : ~HasLine(requests[j], "type")) => type' = ""
    BY <1>2, <2>3, <2>4
  <2>7. phase' = "header" /\ UNCHANGED input
    BY <2>1
  <2> QED BY <1>0, <2>2, <2>3, <2>5, <2>6, <2>7, FollowsNext
<1>6. CASE Throws
  <2>1. phase' = "thrown" /\ UNCHANGED <<input, fields>>
    BY <1>6 DEF Throws
  <2> QED BY <1>0, <1>2, <2>1, FollowsNext DEF fields
<1>7. CASE HeaderEnds
  <2>1. /\ phase = "header" /\ state = "body" /\ ch = LF /\ ~wrote
        /\ phase' = "action" /\ pos' = pos + 1 /\ UNCHANGED <<input, fields, path>>
    BY <1>7 DEF HeaderEnds, InHeader, Read
  <2>2. PICK j, o : Place(k, j, o) /\ Reading(r, j, o, state, wrote)
    BY <1>0, <1>2, <2>1 DEF Within
  <2>3. j = Len(r.lines) + 1
    BY <2>1, <2>2 DEF Reading
  <2>4. /\ j \in 1 .. Len(r.lines) + 1 /\ o \in 0 .. Len(TextOf(r, j)) - 1 /\ ch = TextOf(r, j)[o + 1]
        /\ o + 1 = Len(TextOf(r, j)) /\ j = Len(r.lines) + 1 => pos + 1 = HeadEnd(k)
        /\ Len(TextOf(r, j)) \in 2 .. 7
    BY <1>0, <2>2, AtPlace
  <2>5. LineEnds(r, j, TextOf(r, j))
    BY <1>0, <1>1, <2>4, TextFacts
  <2>6. o + 1 = Len(TextOf(r, j))
    <3>1. o + 1 \in 1 .. Len(TextOf(r, j))
      BY <2>4
    <3> QED BY <2>1, <2>4, <2>5, <3>1 DEF LineEnds
  <2>7. pos' = HeadEnd(k)
    BY <2>1, <2>3, <2>4, <2>6
  <2> QED BY <1>0, <1>2, <2>1, <2>7, FollowsNext DEF fields
<1>8. CASE HeaderEndsAtBound
  <2>1. /\ phase = "header" /\ AtBound
        /\ phase' = "action" /\ UNCHANGED <<input, fields, path>>
    BY <1>8 DEF HeaderEndsAtBound
  <2>2. pos \in Starts(k) .. Starts(k) + 2 \/ \E j, o : Place(k, j, o)
    BY <1>2, <2>1 DEF Within
  <2>3. r.body = "form"
    BY <1>0, <1>1, <2>1, <2>2, BoundIsBody
  <2> QED BY <1>0, <1>2, <2>1, <2>3, FollowsNext DEF fields
<1> QED BY <1>3, <1>4, <1>5, <1>6, <1>7, <1>8

\* What the minimum of two numbers is.
LEMMA MinOfTwo ==
    ASSUME NEW a \in Nat, NEW b \in Nat, a <= b PROVE Min({a, b}) = a
<1>1. Min({a, b}) \in {a, b} /\ \A t \in {a, b} : Min({a, b}) <= t
  <2>1. {a, b} \subseteq Nat /\ {a, b} # {}
    OBVIOUS
  <2> QED BY <2>1, MinIs
<1>2. PICK m : m = Min({a, b})
  OBVIOUS
<1>3. m <= a /\ m \in {a, b}
  BY <1>1, <1>2
<1> QED BY <1>2, <1>3

\* A request whose body is not left over has none, or one that a program reads.
LEMMA NothingLeft ==
    ASSUME NEW r \in Request, Meant(r), ~LeavesBytes(r)
    PROVE  /\ r.body = "none" \/ (r.body = "data" /\ r.path = "cgi")
           /\ ~HasLine(r, "type")
           /\ r.body = "none" <=> ~HasLine(r, "length")
BY DEF Request, Meant, LeavesBytes

\* What the actions take of the body: all of it, or nothing.
LEMMA FollowsTaken ==
    ASSUME HeaderTypeOK, NEW k \in 1 .. Num, NEW r, r = requests[k], Sound(k), ~LeavesBytes(r),
           Follows(k), Page \/ NotFound \/ Cgi \/ Tracked \/ Form
    PROVE  \E taken \in {0, 2} : AnswerWith(taken, "line") /\ (taken = 2 => r.body = "data")
<1>0. /\ InputInv /\ pos \in Nat /\ Len(stream) \in Nat /\ r \in Request /\ Meant(r)
      /\ Starts(k + 1) = HeadEnd(k) + Len(BodyOf(r)) /\ HeadEnd(k) \in Nat
      /\ Starts(k + 1) <= Len(stream) /\ pos <= Len(stream)
  BY InStream DEF HeaderTypeOK
<1>1. /\ r.body = "none" \/ (r.body = "data" /\ r.path = "cgi")
      /\ r.body = "none" <=> ~HasLine(r, "length")
  BY <1>0, NothingLeft
<1>2. phase = "action"
  BY DEF Page, NotFound, Cgi, Tracked, Form, AnswerWith
<1>3. path \in {r.path, "page"} /\ (r.body = "none" => length = "0") /\ pos = HeadEnd(k)
  BY <1>1, <1>2 DEF Follows
<1>4. CASE Page
  BY <1>4 DEF Page
<1>5. CASE NotFound
  <2>1. length = "0"
    BY <1>1, <1>3, <1>5 DEF NotFound
  <2> QED BY <1>5, <2>1 DEF NotFound
<1>6. CASE Cgi
  <2> DEFINE taken == Min({IF length = "2" THEN 2 ELSE 0, Len(stream) - pos})
  <2>1. AnswerWith(taken, "line")
    BY <1>6 DEF Cgi
  <2>2. CASE length = "2"
    <3>1. r.body = "data"
      BY <1>1, <1>3, <2>2
    <3>2. Len(BodyOf(r)) = 2
      BY <1>0, <3>1, BodyType
    <3>3. Len(stream) - pos \in Nat /\ 2 <= Len(stream) - pos
      BY <1>0, <1>3, <3>2
    <3>4. taken = 2
      BY <2>2, <3>3, MinOfTwo
    <3> HIDE DEF taken
    <3> QED BY <2>1, <3>1, <3>4
  <2>3. CASE length # "2"
    <3>1. Len(stream) - pos \in Nat /\ 0 <= Len(stream) - pos
      BY <1>0
    <3>2. taken = 0
      BY <2>3, <3>1, MinOfTwo
    <3> HIDE DEF taken
    <3> QED BY <2>1, <3>2
  <2> QED BY <2>2, <2>3
<1>7. CASE Tracked
  BY <1>7 DEF Tracked
<1>8. CASE Form
  <2>1. ASSUME NEW j \in 1 .. k PROVE ~HasLine(requests[j], "type")
    <3>1. j \in 1 .. Num /\ (j = k \/ j \in 1 .. k - 1)
      BY <1>0, Layout
    <3>2. requests[j] \in Request /\ Meant(requests[j])
      BY <1>0, <3>1, Layout
    <3>3. ~LeavesBytes(requests[j])
      BY <3>1 DEF Sound
    <3> QED BY <3>2, <3>3, NothingLeft
  <2>2. type = ""
    BY <2>1 DEF Follows
  <2> DEFINE taken == IF type = "form-data" THEN UpToClosing ELSE 0
  <2>3. AnswerWith(taken, "line")
    BY <1>8 DEF Form
  <2>4. taken = 0
    BY <2>2
  <2> HIDE DEF taken
  <2> QED BY <2>3, <2>4
<1> QED BY <1>4, <1>5, <1>6, <1>7, <1>8

\* The step that answers a request whose body is taken leads to the next one.
LEMMA FollowsAnswer ==
    ASSUME HeaderTypeOK, NEW k \in 1 .. Num, k + 1 \in 1 .. Num, Sound(k + 1), Follows(k),
           Page \/ NotFound \/ Cgi \/ Tracked \/ Form
    PROVE  Follows(k + 1)'
<1> DEFINE r == requests[k]
<1>0. /\ InputInv /\ pos \in Nat /\ k \in Nat /\ r \in Request /\ Meant(r)
      /\ Starts(k + 1) = HeadEnd(k) + Len(BodyOf(r)) /\ HeadEnd(k) \in Nat
  BY InStream DEF HeaderTypeOK
<1>1. Sound(k) /\ ~LeavesBytes(r)
  <2>1. k \in 1 .. (k + 1) - 1 /\ \A j \in 1 .. k : j \in 1 .. k + 1
    BY <1>0
  <2>2. \A j \in 1 .. k - 1 : j \in 1 .. (k + 1) - 1
    BY <1>0
  <2> QED BY <2>1, <2>2 DEF Sound
<1>2. r.body = "none" \/ r.body = "data"
  BY <1>0, <1>1, NothingLeft
<1>3. PICK taken \in {0, 2} : AnswerWith(taken, "line") /\ (taken = 2 => r.body = "data")
  BY <1>1, FollowsTaken
<1>4. phase = "action" /\ pos' = pos + taken /\ phase' = "line" /\ UNCHANGED <<input, fields>>
  BY <1>3 DEF AnswerWith
<1>5. pos = HeadEnd(k)
  BY <1>2, <1>4 DEF Follows
<1>6. (r.body = "none" => Len(BodyOf(r)) = 0) /\ (r.body = "data" => Len(BodyOf(r)) = 2)
  BY <1>0, BodyType
<1> HIDE DEF r
<1>7. pos' = Starts(k + 1) \/ (r.body = "data" /\ pos' = Starts(k + 1) - 2)
  <2>1. CASE r.body = "none"
    BY <1>0, <1>3, <1>4, <1>5, <1>6, <2>1
  <2>2. CASE r.body = "data"
    <3>1. PICK s, e : s = Starts(k + 1) /\ e = HeadEnd(k)
      OBVIOUS
    <3>2. s = e + 2 /\ e \in Nat /\ pos' = e + taken
      BY <1>0, <1>4, <1>5, <1>6, <2>2, <3>1
    <3>3. taken = 0 \/ taken = 2
      BY <1>3
    <3>4. pos' = s \/ pos' = s - 2
      BY <3>2, <3>3
    <3> QED BY <2>2, <3>1, <3>4
  <2> QED BY <1>2, <2>1, <2>2
<1>8. pos' = Starts(k + 1) \/ (k + 1 > 1 /\ requests[(k + 1) - 1].body = "data" /\ pos' = Starts(k + 1) - 2)
  <2>1. k + 1 > 1 /\ (k + 1) - 1 = k
    BY <1>0
  <2> QED BY <1>7, <2>1 DEF r
<1>9. (\A j \in 1 .. k + 1 : ~HasLine(requests[j], "type")) => type' = ""
  <2>1. \A j \in 1 .. k : j \in 1 .. k + 1
    BY <1>0
  <2>2. type' = type
    BY <1>4 DEF fields
  <2> QED BY <2>1, <2>2 DEF Follows
<1>10. requests[k + 1] = requests[k + 1]
  OBVIOUS
<1> QED BY <1>4, <1>8, <1>9, FollowsNext

\* The session keeps to the requests.
LEMMA OnTrackStep ==
    ASSUME HeaderTypeOK, OnTrack, [HeaderNext]_hvars
    PROVE  OnTrack'
<1>0. InputInv /\ answered \in Seq(Answer) /\ Len(answered) \in Nat /\ Num \in Nat
  BY Layout, LenProperties DEF HeaderTypeOK, LoopOK
<1>1. UNCHANGED input
  BY ScansRead DEF hvars, HeaderNext, Scans, RequestLine, StreamEnds, Throws, HeaderEnds,
     HeaderEndsAtBound, Page, NotFound, Cgi, Tracked, Form, AnswerWith
<1>2. Num' = Num /\ \A k : Sound(k)' <=> Sound(k)
  BY <1>1, SameInput DEF Sound
<1> SUFFICES ASSUME NEW k \in 1 .. Num, k = Here', Sound(k) PROVE Follows(k)'
  BY <1>2 DEF OnTrack
<1>3. CASE UNCHANGED hvars
  <2>1. k = Here
    BY <1>3 DEF hvars, Here
  <2>2. Follows(k)
    BY <2>1 DEF OnTrack
  <2>3. /\ pos' = pos /\ UNCHANGED <<state, wrote, name, length, type, path, phase>>
        /\ requests' = requests /\ Starts(k)' = Starts(k) /\ HeadEnd(k)' = HeadEnd(k)
    BY <1>1, <1>3, SameInput DEF hvars, scan, fields
  <2>4. Within(k) => Within(k)'
    <3>1. \A j, o : Place(k, j, o) => Place(k, j, o)'
      BY <1>1, <2>3, PlaceNext DEF Place
    <3> QED BY <2>3, <3>1 DEF Within
  <2> QED BY <1>1, <2>2, <2>3, <2>4, FollowsNext DEF Follows
<1>4. CASE RequestLine \/ StreamEnds \/ Scans \/ Throws \/ HeaderEnds \/ HeaderEndsAtBound
  <2>1. UNCHANGED answered
    BY <1>4, ScansRead DEF RequestLine, StreamEnds, Throws, HeaderEnds, HeaderEndsAtBound
  <2>2. k = Here
    BY <2>1 DEF Here
  <2> QED BY <1>4, <2>2, FollowsStep DEF OnTrack
<1>5. CASE Page \/ NotFound \/ Cgi \/ Tracked \/ Form
  <2>1. answered' = Append(answered, Got)
    BY <1>5 DEF Page, NotFound, Cgi, Tracked, Form, AnswerWith
  <2>2. \A s \in Seq(Answer) : \A e : Len(Append(s, e)) = Len(s) + 1
    OBVIOUS
  <2>3. k = Here + 1 /\ Here \in Nat /\ Here >= 1
    BY <1>0, <2>1, <2>2 DEF Here
  <2>4. PICK h : h = Here
    OBVIOUS
  <2>5. h \in 1 .. Num /\ h + 1 = k /\ h \in Nat
    BY <1>0, <2>3, <2>4
  <2>6. Sound(h)
    <3>1. \A j \in 1 .. h : j \in 1 .. k
      BY <2>5
    <3>2. \A j \in 1 .. h - 1 : j \in 1 .. k - 1
      <4>0. h \in Nat
        BY <2>5
      <4>1. (h + 1) - 1 = h
        BY <4>0
      <4>3. k = h + 1
        BY <2>5
      <4>2. \A j \in 1 .. h - 1 : j \in 1 .. h
        BY <2>5
      <4> QED BY <4>1, <4>2, <4>3
    <3>3. Sound(k)
      OBVIOUS
    <3> QED BY <3>1, <3>2, <3>3, Zenon DEF Sound
  <2>7. Follows(h)
    BY <2>4, <2>5, <2>6 DEF OnTrack
  <2>8. Follows(h + 1)'
    BY <1>5, <2>5, <2>7, FollowsAnswer
  <2> QED BY <2>5, <2>8
<1> QED BY <1>3, <1>4, <1>5 DEF HeaderNext, Scans

-----------------------------------------------------------------------------
(* Only a return inside a value is thrown on *)

\* A return that no line feed follows is in a line that has one inside its value.
LEMMA BareReturn ==
    ASSUME InputInv, NEW p \in 1 .. Len(stream), p < Len(stream), stream[p] = CR, stream[p + 1] # LF
    PROVE  \E j \in DOMAIN requests : HasLine(requests[j], "barecr")
<1>1. PICK k \in 1 .. Num : \E i \in 1 .. Len(Sent(requests[k])) : p = Starts(k) + i
  BY Layout
<1>2. PICK i \in 1 .. Len(Sent(requests[k])) : p = Starts(k) + i
  BY <1>1
<1> DEFINE r == requests[k]  s == Sent(r)  n == Len(r.lines)
<1>3. /\ r \in Request /\ Starts(k) \in Nat /\ k \in DOMAIN requests
      /\ \A h \in 1 .. Len(s) : stream[Starts(k) + h] = s[h]
  BY InStream, Layout
<1>4. /\ Len(s) = BodyAt(r) + Len(BodyOf(r))
      /\ s[1] = r.path /\ s[2] = CR /\ s[3] = LF
      /\ \A j \in 1 .. n + 1 : \A h \in 1 .. Len(TextOf(r, j)) :
            LineAt(r, j) + h \in 1 .. BodyAt(r) /\ s[LineAt(r, j) + h] = TextOf(r, j)[h]
      /\ \A h \in 1 .. Len(BodyOf(r)) : s[BodyAt(r) + h] = BodyOf(r)[h]
      /\ \/ i \in 1 .. 3
         \/ \E j \in 1 .. n + 1 : \E h \in 1 .. Len(TextOf(r, j)) : i = LineAt(r, j) + h
         \/ \E h \in 1 .. Len(BodyOf(r)) : i = BodyAt(r) + h
  BY <1>3, SentShape
<1>5. BodyAt(r) \in Nat /\ n \in Nat /\ \A j \in 1 .. n + 1 : LineAt(r, j) \in Nat /\ LineAt(r, j) >= 3
  BY <1>3, LineAfterLine, LinesType
<1>6. Len(BodyOf(r)) \in Nat
  BY <1>3, BodyType, LenProperties
<1> HIDE DEF s, r
<1>7. s[i] = CR /\ (i + 1 <= Len(s) => s[i + 1] # LF)
  <2>1. s[i] = CR
    BY <1>2, <1>3 DEF r, s
  <2>2. i + 1 <= Len(s) => s[i + 1] # LF
    <3> SUFFICES ASSUME i + 1 <= Len(s) PROVE s[i + 1] # LF
      OBVIOUS
    <3>1. i + 1 \in 1 .. Len(s) /\ p + 1 = Starts(k) + (i + 1)
      BY <1>2, <1>3, <1>4, <1>5, <1>6 DEF r, s
    <3> QED BY <1>3, <3>1
  <2> QED BY <2>1, <2>2
<1>8. ASSUME i \in 1 .. 3 PROVE FALSE
  <2>1. r.path # CR /\ LF # CR
    BY <1>3 DEF Request, PathsSent, CR, LF
  <2>2. i = 2
    BY <1>4, <1>7, <1>8, <2>1
  <2>3. 3 <= Len(s)
    <3>1. BodyAt(r) >= 3
      <4>1. n + 1 \in 1 .. n + 1
        BY <1>5
      <4>2. LineAt(r, n + 1) \in Nat /\ LineAt(r, n + 1) >= 3 /\ BodyAt(r) = LineAt(r, n + 1) + 2
        BY <1>5, <4>1 DEF BodyAt
      <4> QED BY <4>2
    <3> QED BY <1>4, <1>5, <1>6, <3>1
  <2>4. i + 1 <= Len(s) /\ i + 1 = 3
    BY <2>2, <2>3
  <2> QED BY <1>4, <1>7, <2>4
<1>9. ASSUME NEW j \in 1 .. n + 1, NEW h \in 1 .. Len(TextOf(r, j)), i = LineAt(r, j) + h
      PROVE  HasLine(r, "barecr")
  <2> DEFINE t == TextOf(r, j)  m == Len(t)
  <2>0. m \in 2 .. 7 /\ LineAt(r, j) \in Nat /\ h \in 1 .. m /\ h \in Nat
    BY <1>3, <1>5, LinesType
  <2>1. t[h] = CR
    BY <1>4, <1>7, <1>9
  <2>2. h + 1 <= m => t[h + 1] # LF
    <3> SUFFICES ASSUME h + 1 <= m PROVE t[h + 1] # LF
      OBVIOUS
    <3>1. h + 1 \in 1 .. m /\ i + 1 = LineAt(r, j) + (h + 1)
      BY <1>9, <2>0
    <3>2. LineAt(r, j) + (h + 1) \in 1 .. BodyAt(r) /\ s[LineAt(r, j) + (h + 1)] = t[h + 1]
      BY <1>4, <3>1
    <3>3. i + 1 <= Len(s)
      BY <1>4, <1>5, <1>6, <3>1, <3>2
    <3> QED BY <1>7, <3>1, <3>2, <3>3
  <2>3. CASE j \in 1 .. n
    <3> DEFINE kind == r.lines[j]
    <3>1. kind \in LineKinds /\ t = LineOf(kind) /\ j \in DOMAIN r.lines
      BY <1>3, <2>3, LinesType DEF TextOf
    <3>2. EndsOfLine(kind, t)
      BY <3>1, LineFacts
    <3> HIDE DEF t, kind
    <3>3. h = m - 1 => t[h + 1] = LF
      <4> SUFFICES ASSUME h = m - 1 PROVE t[h + 1] = LF
        OBVIOUS
      <4>1. h + 1 = m /\ m \in 1 .. m
        BY <2>0
      <4> QED BY <3>2, <4>1 DEF EndsOfLine
    <3>4. h = m - 1 => h + 1 <= m
      BY <2>0
    <3>5. kind = "barecr"
      BY <2>0, <2>1, <2>2, <3>2, <3>3, <3>4 DEF EndsOfLine
    <3> QED BY <3>1, <3>5 DEF HasLine, kind
  <2>4. CASE j = n + 1
    <3>1. t = <<CR, LF>>
      BY <1>3, <2>4, LinesType
    <3>2. m = 2 /\ t[1] = CR /\ t[2] = LF /\ CR # LF
      BY <3>1 DEF CR, LF
    <3> HIDE DEF t, m
    <3>3. h = 1 \/ h = 2
      BY <2>0, <3>2
    <3>4. h = 1 => h + 1 = 2
      OBVIOUS
    <3>5. h # 2
      BY <2>1, <3>2
    <3> QED BY <2>2, <3>2, <3>3, <3>4, <3>5
  <2>5. j \in 1 .. n \/ j = n + 1
    <3> HIDE DEF n, t, m
    <3> QED BY <1>5
  <2> QED BY <2>3, <2>4, <2>5
<1>10. ASSUME NEW h \in 1 .. Len(BodyOf(r)), i = BodyAt(r) + h
       PROVE  FALSE
  <2> DEFINE b == BodyOf(r)
  <2>1. b[h] = CR
    BY <1>4, <1>7, <1>10
  <2>2. h < Len(b) /\ b[h + 1] = LF
    BY <1>3, <2>1, BodyType
  <2>3. h + 1 \in 1 .. Len(b) /\ i + 1 = BodyAt(r) + (h + 1)
    BY <1>5, <1>6, <1>10, <2>2, SMTT(40)
  <2>4. s[BodyAt(r) + (h + 1)] = b[h + 1]
    BY <1>4, <2>3
  <2>5. i + 1 <= Len(s)
    BY <1>4, <1>5, <1>6, <1>10, <2>2
  <2> QED BY <1>7, <2>2, <2>3, <2>4, <2>5
<1>11. HasLine(r, "barecr")
  <2>1. CASE \E j \in 1 .. n + 1 : \E h \in 1 .. Len(TextOf(r, j)) : i = LineAt(r, j) + h
    BY <1>9, <2>1
  <2>2. CASE \E h \in 1 .. Len(BodyOf(r)) : i = BodyAt(r) + h
    BY <1>10, <2>2
  <2>3. \/ i \in 1 .. 3
        \/ \E j \in 1 .. n + 1 : \E h \in 1 .. Len(TextOf(r, j)) : i = LineAt(r, j) + h
        \/ \E h \in 1 .. Len(BodyOf(r)) : i = BodyAt(r) + h
    BY <1>4
  <2> QED BY <1>8, <2>1, <2>2, <2>3
<1> QED BY <1>3, <1>11 DEF r

\* A value has ended with the return that was read last, and the parser throws on
\* nothing else than one that no line feed follows.
ReturnRead == phase = "header" /\ state = "finish" => pos \in 1 .. Len(stream) /\ stream[pos] = CR
ThrownOK == phase = "thrown" => \E j \in DOMAIN requests : HasLine(requests[j], "barecr")

\* Every step keeps to that.
LEMMA ThrownStep ==
    ASSUME HeaderTypeOK, ReturnRead /\ ThrownOK, [HeaderNext]_hvars
    PROVE  (ReturnRead /\ ThrownOK)'
<1>0. InputInv /\ pos \in Nat /\ Len(stream) \in Nat
  BY Layout DEF HeaderTypeOK
<1>1. CASE UNCHANGED hvars
  <2>1. UNCHANGED <<phase, state, pos, stream, requests>>
    BY <1>1 DEF hvars, input, scan
  <2>2. ReturnRead'
    BY <2>1 DEF ReturnRead
  <2>3. ThrownOK'
    BY <2>1 DEF ThrownOK
  <2> QED BY <2>2, <2>3
<1>2. CASE RequestLine
  <2>1. phase' \in {"header", "refused"} /\ (phase' = "header" => state' = "name")
    BY <1>2 DEF RequestLine
  <2> QED BY <2>1 DEF ReturnRead, ThrownOK
<1>3. CASE StreamEnds \/ HeaderEnds \/ HeaderEndsAtBound \/ Page \/ NotFound \/ Cgi \/ Tracked \/ Form
  <2>1. phase' \in {"ended", "action", "line", "closed"}
    BY <1>3 DEF StreamEnds, HeaderEnds, HeaderEndsAtBound, Page, NotFound, Cgi, Tracked, Form, AnswerWith
  <2> QED BY <2>1 DEF ReturnRead, ThrownOK
<1>4. CASE Throws
  <2>1. /\ phase = "header" /\ state = "finish" /\ More /\ ch # LF
        /\ phase' = "thrown" /\ requests' = requests
    BY <1>4 DEF Throws, InHeader, input
  <2>2. pos \in 1 .. Len(stream) /\ stream[pos] = CR /\ pos < Len(stream) /\ stream[pos + 1] # LF
    BY <2>1 DEF ReturnRead, More, ch
  <2>3. \E j \in DOMAIN requests : HasLine(requests[j], "barecr")
    BY <1>0, <2>2, BareReturn
  <2> QED BY <2>1, <2>3 DEF ReturnRead, ThrownOK
<1>5. CASE Scans
  <2>1. phase' = "header" /\ pos' = pos + 1 /\ More /\ stream' = stream
    BY <1>5, ScansRead DEF input
  <2>2. state' = "finish" => ch = CR
    <3> USE DEF InHeader, LineDone
    <3>1. ColonEndsName => state' = "delimiter"
      BY DEF ColonEndsName
    <3>2. NameChar => state' \in {"enter", "name"}
      BY DEF NameChar
    <3>3. BlankContinues \/ ReturnBeforeColon => state' \in {"delimiter", "body"}
      BY DEF BlankContinues, ReturnBeforeColon
    <3>4. SkipBlank \/ BodyChar => state' \in {"delimiter", "body"}
      BY DEF SkipBlank, BodyChar, scan
    <3>5. ValueBegins \/ ValueChar => state' = "value"
      BY DEF ValueBegins, ValueChar
    <3>6. ValueEnds => ch = CR
      BY DEF ValueEnds
    <3>7. EndOfLine \/ BareLineEnd \/ EndOfName => state' \in {"enter", "value", "body"}
      BY DEF EndOfLine, BareLineEnd, EndOfName
    <3> QED BY <1>5, <3>1, <3>2, <3>3, <3>4, <3>5, <3>6, <3>7 DEF Scans
  <2>3. pos + 1 \in 1 .. Len(stream)
    BY <1>0, <2>1 DEF More
  <2> QED BY <2>1, <2>2, <2>3 DEF ReturnRead, ThrownOK, ch
<1> QED BY <1>1, <1>2, <1>3, <1>4, <1>5 DEF HeaderNext, Scans
-----------------------------------------------------------------------------
(* The theorems *)

\* The initial states are of the types.
LEMMA HeaderTypedFirst ==
    ASSUME HeaderInit PROVE HeaderTypeOK
<1>1. InputInv
  BY InitInput
<1>2. Len(stream) \in Nat
  BY <1>1, Layout
<1>3. <<>> \in Seq(Symbols) /\ <<>> \in Seq(Answer)
  BY EmptySeq
<1>4. ScanOK
  BY <1>3 DEF HeaderInit, ScanOK
<1>5. FieldsOK
  BY DEF HeaderInit, FieldsOK
<1>6. LoopOK
  <2>1. phase = "line" /\ path = "" /\ answered = <<>>
    BY DEF HeaderInit
  <2>2. answered \in Seq(Answer)
    BY <1>3, <2>1
  <2>3. path \in PathsSent \cup {""}
    BY <2>1
  <2> QED BY <2>1, <2>2, <2>3 DEF LoopOK
<1>7. pos \in Nat /\ pos <= Len(stream)
  <2>1. pos = 0
    BY DEF HeaderInit
  <2> QED BY <1>2, <2>1
<1> QED BY <1>1, <1>4, <1>5, <1>6, <1>7 DEF HeaderTypeOK

\* The scan, the fields and the answers are of their types, and what the client
\* sends stays as it is.
THEOREM HeaderTypes == HeaderSpec => []HeaderTypeOK
<1>1. HeaderInit => HeaderTypeOK
  BY HeaderTypedFirst
<1>2. HeaderTypeOK /\ [HeaderNext]_hvars => HeaderTypeOK'
  BY HeaderTyped
<1> QED BY <1>1, <1>2, PTL DEF HeaderSpec

\* The session begins on track.
LEMMA OnTrackFirst ==
    ASSUME HeaderInit PROVE OnTrack /\ ReturnRead /\ ThrownOK
<1>1. InputInv
  BY InitInput
<1>2. Here = 1
  <2>1. answered = <<>> /\ Len(<<>>) = 0
    BY DEF HeaderInit
  <2>2. Len(answered) = 0
    BY <2>1
  <2> QED BY <2>2 DEF Here
<1>3. ASSUME NEW k \in 1 .. Num, k = Here PROVE Follows(k)
  <2>1. k = 1 /\ Starts(1) = 0
    BY <1>1, <1>2, <1>3, Layout
  <2>2. phase = "line" /\ pos = Starts(k) /\ type = ""
    BY <2>1 DEF HeaderInit
  <2> QED BY <2>2 DEF Follows
<1> QED BY <1>3 DEF OnTrack, ReturnRead, ThrownOK, HeaderInit

\* The property of the state, from the invariants.
LEMMA ReasonFollows ==
    ASSUME HeaderTypeOK, OnTrack, ThrownOK PROVE EndsForAReason
<1>0. Len(answered) \in Nat /\ Num \in Nat /\ Num = Len(requests)
  BY Layout, LenProperties DEF HeaderTypeOK, LoopOK, Num
<1>1. ASSUME phase \in {"ended", "refused", "closed"}, Len(answered) < Len(requests),
             \A j \in 1 .. Len(answered) + 1 :
                ~(Misread(requests[j]) \/ (j <= Len(answered) /\ LeavesBytes(requests[j])))
      PROVE  FALSE
  <2>1. PICK k : k = Here
    OBVIOUS
  <2>2. k \in 1 .. Num /\ k = Len(answered) + 1 /\ k - 1 = Len(answered)
    BY <1>0, <1>1, <2>1 DEF Here
  <2>3. \A j \in 1 .. k - 1 : j \in 1 .. Len(answered) + 1 /\ j <= Len(answered)
    BY <1>0, <2>2
  <2>4. Sound(k)
    BY <1>1, <2>2, <2>3 DEF Sound
  <2>5. Follows(k)
    BY <2>1, <2>2, <2>4 DEF OnTrack
  <2> QED BY <1>1, <2>5 DEF Follows
<1> QED BY <1>1 DEF EndsForAReason, ThrownOK

\* A request is lost, refused or waited for in vain only when a header was misread or
\* a body left, whatever lines the client sends, and however many requests; and the
\* parser throws only on a return inside a value.
THEOREM ReasonHolds == HeaderSpec => []EndsForAReason
<1>1. HeaderInit => HeaderTypeOK /\ OnTrack /\ ReturnRead /\ ThrownOK
  BY HeaderTypedFirst, OnTrackFirst
<1>2. HeaderTypeOK /\ OnTrack /\ ReturnRead /\ ThrownOK /\ [HeaderNext]_hvars
      => (HeaderTypeOK /\ OnTrack /\ ReturnRead /\ ThrownOK)'
  BY HeaderTyped, OnTrackStep, ThrownStep
<1>3. HeaderTypeOK /\ OnTrack /\ ReturnRead /\ ThrownOK => EndsForAReason
  BY ReasonFollows
<1> QED BY <1>1, <1>2, <1>3, PTL DEF HeaderSpec

-----------------------------------------------------------------------------
\* Tuples, element by element.
LEMMA AppendToOne ==
    ASSUME NEW S, NEW x \in S, NEW y \in S PROVE Append(<<x>>, y) = <<x, y>>
<1>1. PICK s : s = Append(<<x>>, y)
  OBVIOUS
<1>2. PICK t : t = <<x, y>>
  OBVIOUS
<1>3. s \in Seq(S) /\ Len(s) = 2 /\ s[1] = x /\ s[2] = y
  BY <1>1
<1>4. t \in Seq(S) /\ Len(t) = 2 /\ t[1] = x /\ t[2] = y
  BY <1>2
<1>5. s = t
  BY <1>3, <1>4, SeqEqual
<1> QED BY <1>1, <1>2, <1>5

\* A pair with one element more.
LEMMA AppendToTwo ==
    ASSUME NEW S, NEW x \in S, NEW y \in S, NEW z \in S PROVE Append(<<x, y>>, z) = <<x, y, z>>
<1>1. PICK s : s = Append(<<x, y>>, z)
  OBVIOUS
<1>2. PICK t : t = <<x, y, z>>
  OBVIOUS
<1>3. s \in Seq(S) /\ Len(s) = 3 /\ s[1] = x /\ s[2] = y /\ s[3] = z
  BY <1>1
<1>4. t \in Seq(S) /\ Len(t) = 3 /\ t[1] = x /\ t[2] = y /\ t[3] = z
  BY <1>2
<1>5. s = t
  BY <1>3, <1>4, SeqEqual
<1> QED BY <1>1, <1>2, <1>5

-----------------------------------------------------------------------------
(* Plain requests are understood as they were sent *)

PlainKinds == {"host", "port", "length", "cookie", "type"}
NameIn(kind) == <<LineOf(kind)[1]>>
ValueIn(kind) == IF kind = "port" THEN <<"b", Colon, "8080">> ELSE <<LineOf(kind)[4]>>

\* What a plain line is made of.
PlainText(kind, t) ==
    /\ t[1] \notin {Colon, Blank, CR, LF} /\ t[2] = Colon
    /\ kind = "port" => /\ Len(t) = 7 /\ t[3] = "b" /\ t[4] = Colon /\ t[5] = "8080"
                        /\ t[6] = CR /\ t[7] = LF
    /\ kind # "port" => /\ Len(t) = 6 /\ t[3] = Blank /\ t[4] \notin {Blank, CR, LF}
                        /\ t[5] = CR /\ t[6] = LF

\* Each plain line is made so.
LEMMA PlainFacts ==
    ASSUME NEW kind \in PlainKinds, NEW t, t = LineOf(kind)
    PROVE  PlainText(kind, t)
<1> USE DEF CR, LF, Colon, Blank, PlainText
<1>1. CASE kind = "host"
  <2>1. t = <<"host", ":", "blank", "a", "\r", "\n">>
    BY <1>1 DEF LineOf
  <2> QED BY <1>1, <2>1
<1>2. CASE kind = "port"
  <2>1. t = <<"host", ":", "b", ":", "8080", "\r", "\n">>
    BY <1>2 DEF LineOf
  <2> QED BY <1>2, <2>1
<1>3. CASE kind = "length"
  <2>1. t = <<"content-length", ":", "blank", "2", "\r", "\n">>
    BY <1>3 DEF LineOf
  <2> QED BY <1>3, <2>1
<1>4. CASE kind = "cookie"
  <2>1. t = <<"cookie", ":", "blank", "lid", "\r", "\n">>
    BY <1>4 DEF LineOf
  <2> QED BY <1>4, <2>1
<1>5. CASE kind = "type"
  <2>1. t = <<"content-type", ":", "blank", "form-data", "\r", "\n">>
    BY <1>5 DEF LineOf
  <2> QED BY <1>5, <2>1
<1> QED BY <1>1, <1>2, <1>3, <1>4, <1>5 DEF PlainKinds

\* The scan behind the first o symbols of a plain line; first is the state that the
\* line begins in.
InLine(kind, first, o, st, w, iv, nm, v) ==
    \/ o = 0 /\ st = first /\ ~w /\ ~iv
    \/ /\ w /\ nm = NameIn(kind)
       /\ \/ o = 1 /\ st = first /\ ~iv
          \/ o = 2 /\ st = "delimiter" /\ ~iv
          \/ kind # "port" /\ o = 3 /\ st = "delimiter" /\ ~iv
          \/ kind # "port" /\ o = 4 /\ st = "value" /\ iv /\ v = ValueIn(kind)
          \/ kind # "port" /\ o = 5 /\ st = "finish" /\ iv /\ v = ValueIn(kind)
          \/ kind = "port" /\ o = 3 /\ st = "value" /\ iv /\ v = <<"b">>
          \/ kind = "port" /\ o = 4 /\ st = "value" /\ iv /\ v = <<"b", Colon>>
          \/ kind = "port" /\ o = 5 /\ st = "value" /\ iv /\ v = ValueIn(kind)
          \/ kind = "port" /\ o = 6 /\ st = "finish" /\ iv /\ v = ValueIn(kind)

\* The actions of parse_http_header that read one symbol.
Reads == Scans \/ Throws \/ HeaderEnds

\* Which state and symbol each is for.
LEMMA ReadsWhen ==
    ASSUME Reads
    PROVE  \/ ColonEndsName /\ state \in {"enter", "name"} /\ ch = Colon
           \/ NameChar /\ state \in {"enter", "name"} /\ ch # Colon /\ (state = "enter" => ch # CR)
           \/ BlankContinues /\ state = "enter" /\ ch = Blank
           \/ ReturnBeforeColon /\ state = "enter" /\ ch = CR
           \/ SkipBlank /\ state = "delimiter" /\ ch = Blank
           \/ ValueBegins /\ state = "delimiter" /\ ch \notin {Blank, LF}
           \/ ValueChar /\ state = "value" /\ ch \notin {CR, LF}
           \/ ValueEnds /\ state = "value" /\ ch = CR
           \/ Throws /\ state = "finish" /\ ch # LF
           \/ BodyChar /\ state = "body" /\ ch # LF
           \/ EndOfLine /\ state = "finish" /\ ch = LF
           \/ BareLineEnd /\ state \in {"delimiter", "value"} /\ ch = LF
           \/ EndOfName /\ state = "body" /\ ch = LF /\ wrote
           \/ HeaderEnds /\ state = "body" /\ ch = LF /\ ~wrote
<1> USE DEF InHeader
<1>1. ColonEndsName => state \in {"enter", "name"} /\ ch = Colon
  BY DEF ColonEndsName
<1>2. NameChar => state \in {"enter", "name"} /\ ch # Colon /\ (state = "enter" => ch # CR)
  BY DEF NameChar
<1>3. BlankContinues => state = "enter" /\ ch = Blank
  BY DEF BlankContinues
<1>4. ReturnBeforeColon => state = "enter" /\ ch = CR
  BY DEF ReturnBeforeColon
<1>5. SkipBlank => state = "delimiter" /\ ch = Blank
  BY DEF SkipBlank
<1>6. ValueBegins => state = "delimiter" /\ ch \notin {Blank, LF}
  BY DEF ValueBegins
<1>7. ValueChar => state = "value" /\ ch \notin {CR, LF}
  BY DEF ValueChar
<1>8. ValueEnds => state = "value" /\ ch = CR
  BY DEF ValueEnds
<1>9. Throws => state = "finish" /\ ch # LF
  BY DEF Throws
<1>10. BodyChar => state = "body" /\ ch # LF
  BY DEF BodyChar
<1>11. EndOfLine => state = "finish" /\ ch = LF
  BY DEF EndOfLine
<1>12. BareLineEnd => state \in {"delimiter", "value"} /\ ch = LF
  BY DEF BareLineEnd
<1>13. EndOfName => state = "body" /\ ch = LF /\ wrote
  BY DEF EndOfName
<1>14. HeaderEnds => state = "body" /\ ch = LF /\ ~wrote
  BY DEF HeaderEnds
<1> QED BY <1>1, <1>2, <1>3, <1>4, <1>5, <1>6, <1>7, <1>8, <1>9, <1>10, <1>11, <1>12, <1>13, <1>14 DEF Reads, Scans

\* A plain line is read symbol by symbol, and ends with its name and its value.
LEMMA InLineStep ==
    ASSUME NEW kind \in PlainKinds, NEW t, t = LineOf(kind), NEW first \in {"name", "enter"},
           NEW o \in 0 .. Len(t) - 1, ch = t[o + 1],
           InLine(kind, first, o, state, wrote, inVal, name, val), Reads
    PROVE  \/ /\ o + 1 < Len(t) /\ Scans
              /\ InLine(kind, first, o + 1, state', wrote', inVal', name', val')
              /\ UNCHANGED fields
           \/ o + 1 = Len(t) /\ Scans /\ LineDone(NameIn(kind), ValueIn(kind), "enter")
<1> USE DEF PlainText
<1>0. PlainText(kind, t) /\ NameIn(kind) = <<t[1]>> /\ (kind # "port" => ValueIn(kind) = <<t[4]>>)
      /\ (kind = "port" => ValueIn(kind) = <<"b", Colon, "8080">>)
  BY PlainFacts DEF NameIn, ValueIn
<1>a. /\ CR # LF /\ Colon # LF /\ Blank # LF /\ Colon # CR /\ Blank # CR /\ Colon # Blank
      /\ "b" \notin {CR, LF, Colon, Blank} /\ "8080" \notin {CR, LF, Colon, Blank}
  BY DEF CR, LF, Colon, Blank
<1>1. CASE o = 0 /\ state = first /\ ~wrote /\ ~inVal
  <2>1. o + 1 = 1 /\ 1 < Len(t)
    BY <1>0, <1>1
  <2>2. ch = t[1] /\ ch \notin {Colon, Blank, CR, LF}
    BY <1>0, <2>1
  <2>3. NameChar
    BY <1>1, <2>2, ReadsWhen
  <2>4. /\ wrote' = TRUE /\ name' = <<Small(ch)>> /\ state' = state /\ inVal' = inVal /\ UNCHANGED fields
    BY <1>1, <2>3 DEF NameChar, Store
  <2>5. Small(ch) = t[1]
    BY <2>2 DEF Small
  <2>6. InLine(kind, first, 1, state', wrote', inVal', name', val')
    BY <1>0, <1>1, <2>4, <2>5 DEF InLine
  <2> QED BY <2>1, <2>3, <2>4, <2>6 DEF Scans
<1>2. CASE wrote /\ name = NameIn(kind) /\ o = 1 /\ state = first /\ ~inVal
  <2>1. o + 1 = 2 /\ 2 < Len(t)
    BY <1>0, <1>2
  <2>2. ch = Colon
    BY <1>0, <2>1
  <2>3. ColonEndsName
    BY <1>2, <1>a, <2>2, ReadsWhen
  <2>4. /\ wrote' = TRUE /\ name' = name /\ state' = "delimiter" /\ inVal' = inVal /\ UNCHANGED fields
    BY <1>2, <2>3 DEF ColonEndsName, StoreNul
  <2>6. InLine(kind, first, 2, state', wrote', inVal', name', val')
    BY <1>0, <1>2, <2>4 DEF InLine
  <2> QED BY <2>1, <2>3, <2>4, <2>6 DEF Scans
<1>3. CASE wrote /\ name = NameIn(kind) /\ o = 2 /\ state = "delimiter" /\ ~inVal /\ kind # "port"
  <2>1. o + 1 = 3 /\ 3 < Len(t)
    BY <1>0, <1>3
  <2>2. ch = Blank
    BY <1>0, <1>3, <2>1
  <2>3. SkipBlank
    BY <1>3, <1>a, <2>2, ReadsWhen
  <2>4. UNCHANGED <<scan, fields>>
    BY <2>3 DEF SkipBlank
  <2>6. InLine(kind, first, 3, state', wrote', inVal', name', val')
    BY <1>3, <2>4 DEF InLine, scan
  <2> QED BY <2>1, <2>3, <2>4, <2>6 DEF Scans
<1>4. CASE wrote /\ name = NameIn(kind) /\ o = 3 /\ state = "delimiter" /\ ~inVal /\ kind # "port"
  <2>1. o + 1 = 4 /\ 4 < Len(t)
    BY <1>0, <1>4
  <2>2. ch = t[4] /\ ch \notin {Blank, CR, LF}
    BY <1>0, <1>4, <2>1
  <2>3. ValueBegins
    BY <1>4, <2>2, ReadsWhen
  <2>4. /\ wrote' = TRUE /\ name' = name /\ state' = "value" /\ inVal' = TRUE /\ val' = <<ch>> /\ UNCHANGED fields
    BY <2>3 DEF ValueBegins
  <2>6. InLine(kind, first, 4, state', wrote', inVal', name', val')
    BY <1>0, <1>4, <2>2, <2>4 DEF InLine
  <2> QED BY <2>1, <2>3, <2>4, <2>6 DEF Scans
<1>5. CASE wrote /\ name = NameIn(kind) /\ o = 4 /\ state = "value" /\ inVal /\ val = ValueIn(kind) /\ kind # "port"
  <2>0. Len(t) = 6
    BY <1>0, <1>5
  <2>1. o + 1 = 5 /\ 5 < Len(t)
    BY <1>5, <2>0
  <2>2. ch = CR
    BY <1>0, <1>5, <2>1
  <2>3. ValueEnds
    BY <1>5, <1>a, <2>2, ReadsWhen
  <2>4. /\ wrote' = TRUE /\ name' = name /\ state' = "finish" /\ inVal' = inVal /\ val' = val /\ UNCHANGED fields
    BY <1>5, <2>3 DEF ValueEnds, StoreNul
  <2>6. InLine(kind, first, 5, state', wrote', inVal', name', val')
    BY <1>5, <2>4 DEF InLine
  <2> QED BY <2>1, <2>3, <2>4, <2>6 DEF Scans
<1>6. CASE wrote /\ name = NameIn(kind) /\ state = "finish" /\ inVal /\ val = ValueIn(kind)
           /\ o = IF kind = "port" THEN 6 ELSE 5
  <2>1. o + 1 = Len(t)
    BY <1>0, <1>6
  <2>2. ch = LF
    BY <1>0, <1>6, <2>1
  <2>3. EndOfLine
    BY <1>6, <1>a, <2>2, ReadsWhen
  <2>4. PICK v \in Values(val) : LineDone(name, v, "enter")
    BY <2>3 DEF EndOfLine
  <2>5. v = val
    BY <1>6, <2>4 DEF Values
  <2>6. LineDone(NameIn(kind), ValueIn(kind), "enter")
    BY <1>6, <2>4, <2>5
  <2> QED BY <2>1, <2>3, <2>6 DEF Scans
<1>7. CASE wrote /\ name = NameIn(kind) /\ o = 2 /\ state = "delimiter" /\ ~inVal /\ kind = "port"
  <2>1. o + 1 = 3 /\ 3 < Len(t)
    BY <1>0, <1>7
  <2>2. ch = "b"
    BY <1>0, <1>7, <2>1
  <2>3. ValueBegins
    BY <1>7, <1>a, <2>2, ReadsWhen
  <2>4. /\ wrote' = TRUE /\ name' = name /\ state' = "value" /\ inVal' = TRUE /\ val' = <<ch>> /\ UNCHANGED fields
    BY <2>3 DEF ValueBegins
  <2>6. InLine(kind, first, 3, state', wrote', inVal', name', val')
    BY <1>0, <1>7, <2>2, <2>4 DEF InLine
  <2> QED BY <2>1, <2>3, <2>4, <2>6 DEF Scans
<1>8. CASE wrote /\ name = NameIn(kind) /\ o = 3 /\ state = "value" /\ inVal /\ val = <<"b">> /\ kind = "port"
  <2>1. o + 1 = 4 /\ 4 < Len(t)
    BY <1>0, <1>8
  <2>2. ch = Colon
    BY <1>0, <1>8, <2>1
  <2>3. ValueChar
    BY <1>8, <1>a, <2>2, ReadsWhen
  <2>4. /\ wrote' = TRUE /\ name' = name /\ state' = state /\ inVal' = inVal /\ val' = Append(val, ch)
        /\ UNCHANGED fields
    BY <1>8, <2>3 DEF ValueChar, Store
  <2>5. Append(<<"b">>, Colon) = <<"b", Colon>>
    <3>1. "b" \in {"b", Colon} /\ Colon \in {"b", Colon}
      OBVIOUS
    <3> QED BY <3>1, AppendToOne
  <2>6. InLine(kind, first, 4, state', wrote', inVal', name', val')
    BY <1>8, <2>2, <2>4, <2>5 DEF InLine
  <2> QED BY <2>1, <2>3, <2>4, <2>6 DEF Scans
<1>9. CASE wrote /\ name = NameIn(kind) /\ o = 4 /\ state = "value" /\ inVal /\ val = <<"b", Colon>> /\ kind = "port"
  <2>1. o + 1 = 5 /\ 5 < Len(t)
    BY <1>0, <1>9
  <2>2. ch = "8080"
    BY <1>0, <1>9, <2>1
  <2>3. ValueChar
    BY <1>9, <1>a, <2>2, ReadsWhen
  <2>4. /\ wrote' = TRUE /\ name' = name /\ state' = state /\ inVal' = inVal /\ val' = Append(val, ch)
        /\ UNCHANGED fields
    BY <1>9, <2>3 DEF ValueChar, Store
  <2>5. Append(<<"b", Colon>>, "8080") = <<"b", Colon, "8080">>
    <3>1. "b" \in {"b", Colon, "8080"} /\ Colon \in {"b", Colon, "8080"} /\ "8080" \in {"b", Colon, "8080"}
      OBVIOUS
    <3> QED BY <3>1, AppendToTwo
  <2>6. InLine(kind, first, 5, state', wrote', inVal', name', val')
    BY <1>0, <1>9, <2>2, <2>4, <2>5 DEF InLine
  <2> QED BY <2>1, <2>3, <2>4, <2>6 DEF Scans
<1>10. CASE wrote /\ name = NameIn(kind) /\ o = 5 /\ state = "value" /\ inVal /\ val = ValueIn(kind) /\ kind = "port"
  <2>1. o + 1 = 6 /\ 6 < Len(t)
    BY <1>0, <1>10
  <2>2. ch = CR
    BY <1>0, <1>10, <2>1
  <2>3. ValueEnds
    BY <1>10, <1>a, <2>2, ReadsWhen
  <2>4. /\ wrote' = TRUE /\ name' = name /\ state' = "finish" /\ inVal' = inVal /\ val' = val /\ UNCHANGED fields
    BY <1>10, <2>3 DEF ValueEnds, StoreNul
  <2>6. InLine(kind, first, 6, state', wrote', inVal', name', val')
    BY <1>10, <2>4 DEF InLine
  <2> QED BY <2>1, <2>3, <2>4, <2>6 DEF Scans
<1> QED BY <1>1, <1>2, <1>3, <1>4, <1>5, <1>6, <1>7, <1>8, <1>9, <1>10 DEF InLine

\* What the end of a plain line does to the fields.
LEMMA FieldOf ==
    ASSUME NEW kind \in PlainKinds, Field(NameIn(kind), ValueIn(kind))
    PROVE  /\ host' = IF kind = "host" THEN "a" ELSE IF kind = "port" THEN "b" ELSE host
           /\ port' = IF kind = "port" THEN "8080" ELSE port
           /\ length' = IF kind = "length" THEN "2" ELSE length
           /\ cookie' <=> cookie \/ kind = "cookie"
           /\ type' = IF kind = "type" THEN "form-data" ELSE type
           /\ bounded' <=> bounded \/ kind = "type"
<1> DEFINE n == NameIn(kind)  v == ValueIn(kind)
           colons == {i \in DOMAIN v : v[i] = Colon /\ i < Len(v)}
<1>0. \A w \in {"host", "content-length", "cookie", "content-type"} : <<w>>[1] = w
  OBVIOUS
<1>1. /\ host' = IF n = <<"host">> THEN v[1] ELSE host
      /\ port' = IF n = <<"host">> /\ colons # {} THEN Number(v[Min(colons) + 1]) ELSE port
      /\ length' = IF n = <<"content-length">> THEN Number(v[1]) ELSE length
      /\ cookie' = (cookie \/ (n = <<"cookie">> /\ v[1] = "lid"))
      /\ type' = IF n = <<"content-type">> THEN v[1] ELSE type
      /\ bounded' = (bounded \/ (n = <<"content-type">> /\ v[1] = "form-data"))
  BY DEF Field
<1>2. ASSUME kind # "port" PROVE v = <<LineOf(kind)[4]>> /\ colons = {}
  <2>1. v = <<LineOf(kind)[4]>>
    BY <1>2 DEF ValueIn
  <2>2. Len(v) = 1 /\ DOMAIN v = 1 .. 1
    BY <2>1
  <2>3. \A i \in 1 .. 1 : ~(i < 1)
    OBVIOUS
  <2>4. colons = {}
    BY <2>2, <2>3
  <2> QED BY <2>1, <2>4
<1>3. CASE kind = "host"
  <2>1. n = <<"host">> /\ v = <<"a">>
    BY <1>2, <1>3 DEF LineOf, NameIn
  <2>2. n # <<"content-length">> /\ n # <<"cookie">> /\ n # <<"content-type">> /\ v[1] = "a"
    BY <1>0, <2>1
  <2> HIDE DEF n, v, colons
  <2> QED BY <1>1, <1>2, <1>3, <2>1, <2>2
<1>4. CASE kind = "port"
  <2>1. n = <<"host">> /\ v = <<"b", Colon, "8080">>
    BY <1>4 DEF LineOf, NameIn, ValueIn
  <2>2. n # <<"content-length">> /\ n # <<"cookie">> /\ n # <<"content-type">> /\ v[1] = "b"
    BY <1>0, <2>1
  <2>3. colons = {2}
    <3>1. DOMAIN v = 1 .. 3 /\ Len(v) = 3 /\ v[1] # Colon /\ v[2] = Colon
      BY <2>1 DEF Colon
    <3>2. \A i \in 1 .. 3 : i = 1 \/ i = 2 \/ i = 3
      OBVIOUS
    <3> HIDE DEF v
    <3>3. ASSUME NEW i PROVE i \in colons <=> i = 2
      BY <3>1, <3>2
    <3> HIDE DEF colons
    <3> QED BY <3>3
  <2>4. Min(colons) = 2
    <3>1. {2} \subseteq Nat /\ {2} # {}
      OBVIOUS
    <3>2. Min({2}) \in {2}
      BY <3>1, MinIs
    <3> QED BY <2>3, <3>2
  <2>5. Number(v[Min(colons) + 1]) = "8080"
    <3>1. Min(colons) + 1 = 3
      BY <2>4
    <3>2. v[3] = "8080"
      BY <2>1
    <3> HIDE DEF v, colons
    <3> QED BY <3>1, <3>2 DEF Number
  <2>6. colons # {}
    BY <2>3
  <2> HIDE DEF n, v, colons
  <2> QED BY <1>1, <1>4, <2>1, <2>2, <2>5, <2>6
<1>5. CASE kind = "length"
  <2>1. n = <<"content-length">> /\ v = <<"2">>
    BY <1>2, <1>5 DEF LineOf, NameIn
  <2>2. n # <<"host">> /\ n # <<"cookie">> /\ n # <<"content-type">> /\ v[1] = "2"
    BY <1>0, <2>1
  <2> HIDE DEF n, v, colons
  <2> QED BY <1>1, <1>2, <1>5, <2>1, <2>2 DEF Number
<1>6. CASE kind = "cookie"
  <2>1. n = <<"cookie">> /\ v = <<"lid">>
    BY <1>2, <1>6 DEF LineOf, NameIn
  <2>2. n # <<"host">> /\ n # <<"content-length">> /\ n # <<"content-type">> /\ v[1] = "lid"
    BY <1>0, <2>1
  <2> HIDE DEF n, v, colons
  <2> QED BY <1>1, <1>2, <1>6, <2>1, <2>2
<1>7. CASE kind = "type"
  <2>1. n = <<"content-type">> /\ v = <<"form-data">>
    BY <1>2, <1>7 DEF LineOf, NameIn
  <2>2. n # <<"host">> /\ n # <<"content-length">> /\ n # <<"cookie">> /\ v[1] = "form-data"
    BY <1>0, <2>1
  <2> HIDE DEF n, v, colons
  <2> QED BY <1>1, <1>2, <1>7, <2>1, <2>2
<1> QED BY <1>3, <1>4, <1>5, <1>6, <1>7 DEF PlainKinds

\* The host that the first j - 1 lines of the k-th request leave.
HostLines(k, j) == {i \in 1 .. j - 1 : requests[k].lines[i] \in {"host", "port"}}
HostAt(k, j) ==
    IF HostLines(k, j) = {} THEN HostSaid(k - 1)
    ELSE IF requests[k].lines[Max(HostLines(k, j))] = "host" THEN "a" ELSE "b"

\* One line more changes the host only if it names one.
LEMMA HostLineAfterLine ==
    ASSUME NEW k, NEW j \in Nat \ {0}, NEW kind, kind = requests[k].lines[j]
    PROVE  HostAt(k, j + 1) = IF kind = "host" THEN "a" ELSE IF kind = "port" THEN "b" ELSE HostAt(k, j)
<1>1. (j + 1) - 1 = j /\ \A i : i \in 1 .. j <=> i \in 1 .. j - 1 \/ i = j
  OBVIOUS
<1>2. CASE kind \in {"host", "port"}
  <2> DEFINE T == HostLines(k, j + 1)
  <2>1. j \in T /\ T \subseteq 0 .. j /\ \A t \in T : t <= j
    BY <1>1, <1>2 DEF HostLines
  <2> HIDE DEF T
  <2>2. Max(T) \in T /\ \A t \in T : t <= Max(T)
    BY <2>1, MaxIs
  <2>3. Max(T) = j
    <3>1. PICK m : m = Max(T)
      OBVIOUS
    <3>2. m <= j /\ j <= m /\ m \in 0 .. j
      BY <2>1, <2>2, <3>1
    <3> QED BY <3>1, <3>2
  <2>4. T # {}
    BY <2>1
  <2> QED BY <1>2, <2>3, <2>4 DEF HostAt, T
<1>3. CASE kind \notin {"host", "port"}
  <2>1. HostLines(k, j + 1) = HostLines(k, j)
    BY <1>1, <1>3 DEF HostLines
  <2> QED BY <1>3, <2>1 DEF HostAt
<1> QED BY <1>2, <1>3

\* What all its lines leave is what the request says.
LEMMA HostOfRequest ==
    ASSUME InputInv, NEW k \in 1 .. Num
    PROVE  HostAt(k, Len(requests[k].lines) + 1) = HostSaid(k)
<1> DEFINE r == requests[k]  n == Len(r.lines)  T == HostLines(k, n + 1)
           Kinds == {"host", "port"}
           S(i) == {j \in 1 .. i : LastLine(j, Kinds) # "none"}
<1>0. r \in Request /\ n \in Nat /\ DOMAIN r.lines = 1 .. n /\ k \in Nat /\ (n + 1) - 1 = n
  <2>1. r \in Request
    BY InStream
  <2> QED BY <2>1, LinesType
<1>1. T = {j \in DOMAIN requests[k].lines : requests[k].lines[j] \in Kinds}
  BY <1>0 DEF HostLines
<1>2. LastLine(k, Kinds) = IF T = {} THEN "none" ELSE requests[k].lines[Max(T)]
  BY <1>1 DEF LastLine
<1>3. T # {} => requests[k].lines[Max(T)] \in Kinds
  <2> SUFFICES ASSUME T # {} PROVE requests[k].lines[Max(T)] \in Kinds
    OBVIOUS
  <2>1. T \subseteq 0 .. n
    BY <1>0, <1>1
  <2> HIDE DEF T, r
  <2>2. n \in Nat
    BY <1>0
  <2> HIDE DEF n
  <2>3. Max(T) \in T
    BY <2>1, <2>2, MaxIs
  <2> QED BY <1>1, <2>3
<1>4. \A i : HostSaid(i) = IF S(i) = {} THEN "" ELSE IF LastLine(Max(S(i)), Kinds) = "host" THEN "a" ELSE "b"
  BY DEF HostSaid
<1>5. \A i : i \in 1 .. k <=> i \in 1 .. k - 1 \/ i = k
  BY <1>0
<1>6. CASE T = {}
  <2>1. LastLine(k, Kinds) = "none"
    BY <1>2, <1>6
  <2>2. S(k) = S(k - 1)
    BY <1>5, <2>1
  <2>3. HostSaid(k) = HostSaid(k - 1)
    <3> HIDE DEF S, Kinds
    <3> QED BY <1>4, <2>2
  <2> QED BY <1>6, <2>3 DEF HostAt
<1>7. CASE T # {}
  <2>1. LastLine(k, Kinds) = requests[k].lines[Max(T)] /\ LastLine(k, Kinds) \in Kinds
    BY <1>2, <1>3, <1>7
  <2>2. k \in S(k) /\ S(k) \subseteq 0 .. k /\ \A t \in S(k) : t <= k
    BY <1>0, <2>1
  <2> HIDE DEF S, T, Kinds
  <2>3. Max(S(k)) \in S(k) /\ \A t \in S(k) : t <= Max(S(k))
    BY <1>0, <2>2, MaxIs
  <2>4. Max(S(k)) = k
    <3>1. PICK m : m = Max(S(k))
      OBVIOUS
    <3>2. m <= k /\ k <= m /\ m \in 0 .. k
      BY <2>2, <2>3, <3>1
    <3> QED BY <1>0, <3>1, <3>2
  <2>5. HostSaid(k) = IF LastLine(k, Kinds) = "host" THEN "a" ELSE "b"
    BY <1>4, <2>2, <2>4
  <2> QED BY <1>7, <2>1, <2>5 DEF HostAt, T
<1> QED BY <1>6, <1>7

\* A plain request is not misread.
LEMMA PlainRequest ==
    ASSUME NEW r \in Request, Plain(r)
    PROVE  /\ ~Misread(r) /\ Len(r.lines) \in Nat /\ Len(r.lines) >= 1
           /\ \A j \in 1 .. Len(r.lines) : r.lines[j] \in PlainKinds
<1> DEFINE n == Len(r.lines)
<1>1. n \in Nat /\ DOMAIN r.lines = 1 .. n /\ r.lines \in Seq(LineKinds)
  BY LinesType DEF Request
<1>2. n # 0
  BY <1>1, EmptySeq DEF Plain
<1>3. \A j \in 1 .. n : r.lines[j] \in PlainKinds
  BY <1>1 DEF Plain, ToSet, PlainKinds
<1>4. n \in 1 .. n /\ n >= 1
  BY <1>1, <1>2
<1>5. ~Misread(r)
  <2>1. r.lines[n] \in PlainKinds
    BY <1>3, <1>4
  <2>2. r.lines[n] \notin {"empty", "lf", "emptylf"} /\ \A j \in 1 .. n : r.lines[j] # "nocolon"
    BY <1>3, <2>1 DEF PlainKinds
  <2> QED BY <1>2, <2>2 DEF Misread
<1> QED BY <1>1, <1>3, <1>4, <1>5

\* The fields that the first j - 1 lines of the k-th request leave.
Before(r, j, kind) == \E i \in 1 .. j - 1 : r.lines[i] = kind
Carried(k, j, h, p, l, c, t, b) ==
    LET r == requests[k] IN
    /\ h = HostAt(k, j)
    /\ p = IF Before(r, j, "port") THEN "8080" ELSE "0"
    /\ l = IF Before(r, j, "length") THEN "2" ELSE "0"
    /\ c <=> Before(r, j, "cookie")
    /\ t = IF Before(r, j, "type") THEN "form-data" ELSE ""
    /\ b <=> Before(r, j, "type")

\* One line more.
LEMMA CarriedLine ==
    ASSUME NEW k, NEW j \in Nat \ {0}, NEW kind \in PlainKinds, kind = requests[k].lines[j],
           Carried(k, j, host, port, length, cookie, type, bounded),
           Field(NameIn(kind), ValueIn(kind))
    PROVE  Carried(k, j + 1, host', port', length', cookie', type', bounded')
<1> DEFINE r == requests[k]
<1>1. \A x : Before(r, j + 1, x) <=> Before(r, j, x) \/ kind = x
  <2>1. (j + 1) - 1 = j /\ \A i : i \in 1 .. j <=> i \in 1 .. j - 1 \/ i = j
    OBVIOUS
  <2> QED BY <2>1 DEF Before
<1>2. HostAt(k, j + 1) = IF kind = "host" THEN "a" ELSE IF kind = "port" THEN "b" ELSE HostAt(k, j)
  BY HostLineAfterLine
<1>3. /\ host = HostAt(k, j)
      /\ port = IF Before(r, j, "port") THEN "8080" ELSE "0"
      /\ length = IF Before(r, j, "length") THEN "2" ELSE "0"
      /\ cookie <=> Before(r, j, "cookie")
      /\ type = IF Before(r, j, "type") THEN "form-data" ELSE ""
      /\ bounded <=> Before(r, j, "type")
  BY DEF Carried
<1>4. /\ host' = IF kind = "host" THEN "a" ELSE IF kind = "port" THEN "b" ELSE host
      /\ port' = IF kind = "port" THEN "8080" ELSE port
      /\ length' = IF kind = "length" THEN "2" ELSE length
      /\ cookie' <=> cookie \/ kind = "cookie"
      /\ type' = IF kind = "type" THEN "form-data" ELSE type
      /\ bounded' <=> bounded \/ kind = "type"
  BY FieldOf
<1> HIDE DEF r
<1>5. host' = HostAt(k, j + 1)
  BY <1>2, <1>3, <1>4
<1>6. /\ port' = IF Before(r, j + 1, "port") THEN "8080" ELSE "0"
      /\ length' = IF Before(r, j + 1, "length") THEN "2" ELSE "0"
      /\ type' = IF Before(r, j + 1, "type") THEN "form-data" ELSE ""
  BY <1>1, <1>3, <1>4
<1>7. (cookie' <=> Before(r, j + 1, "cookie")) /\ (bounded' <=> Before(r, j + 1, "type"))
  BY <1>1, <1>3, <1>4, Zenon
<1> QED BY <1>5, <1>6, <1>7 DEF Carried, r

\* The scan behind the first o symbols of the j-th line of a plain request; behind its
\* lines a boundary is reported at once if there is one.
InPlain(r, j, o, st, w, iv, nm, v) ==
    LET n == Len(r.lines) IN
    \/ j <= n /\ InLine(r.lines[j], IF j = 1 THEN "name" ELSE "enter", o, st, w, iv, nm, v)
    \/ j = n + 1 /\ ~w /\ \/ o = 0 /\ st = "enter"
                          \/ o = 1 /\ st = "body" /\ r.body # "form"

\* What every action of parse_http_header leaves, and where it does not read on.
LEMMA ReadsRead ==
    ASSUME Reads
    PROVE  /\ phase = "header" /\ More /\ ~AtBound /\ pos' = pos + 1
           /\ UNCHANGED <<input, answered, path>>
<1>1. CASE Scans
  <2>1. ~AtBound
    BY <1>1 DEF Scans, ColonEndsName, NameChar, BlankContinues, ReturnBeforeColon, SkipBlank,
       ValueBegins, ValueChar, ValueEnds, BodyChar, EndOfLine, BareLineEnd, EndOfName, InHeader
  <2> QED BY <1>1, <2>1, ScansRead
<1>2. CASE Throws \/ HeaderEnds
  BY <1>2 DEF Throws, HeaderEnds, InHeader, Read
<1> QED BY <1>1, <1>2 DEF Reads

\* The scan reads the lines of a plain request one after the other, up to their end.
LEMMA PlainStep ==
    ASSUME HeaderTypeOK, NEW k \in 1 .. Num, NEW r, r = requests[k], Plain(r),
           NEW j, NEW o, Place(k, j, o), InPlain(r, j, o, state, wrote, inVal, name, val),
           Carried(k, j, host, port, length, cookie, type, bounded), Reads
    PROVE  \/ /\ Scans
              /\ \E jj, oo : /\ Place(k, jj, oo)'
                            /\ InPlain(r, jj, oo, state', wrote', inVal', name', val')
                            /\ Carried(k, jj, host', port', length', cookie', type', bounded')
           \/ /\ HeaderEnds /\ pos' = HeadEnd(k) /\ r.body # "form"
              /\ j = Len(r.lines) + 1
<1> DEFINE n == Len(r.lines)  t == TextOf(r, j)  m == Len(t)
<1>0. /\ InputInv /\ r \in Request /\ Meant(r) /\ pos' = pos + 1 /\ UNCHANGED input /\ ~AtBound
      /\ pos \in Nat /\ Len(stream) \in Nat
  BY InStream, ReadsRead DEF HeaderTypeOK
<1>1. n \in Nat /\ n >= 1 /\ \A i \in 1 .. n : r.lines[i] \in PlainKinds
  BY <1>0, PlainRequest
<1>2. /\ j \in 1 .. n + 1 /\ m \in 2 .. 7 /\ o \in 0 .. m - 1
      /\ ch = t[o + 1]
      /\ o + 1 < m => pos + 1 = LineStart(k, j) + (o + 1) /\ o + 1 \in 0 .. m - 1
      /\ o + 1 = m /\ j <= n => pos + 1 = LineStart(k, j + 1) /\ j + 1 \in 1 .. n + 1
      /\ o + 1 = m /\ j = n + 1 => pos + 1 = HeadEnd(k)
  BY <1>0, AtPlace, SMTT(40)
<1>3. CASE j <= n
  <2> DEFINE kind == r.lines[j]  first == IF j = 1 THEN "name" ELSE "enter"
  <2>1. j \in 1 .. n /\ j \in Nat \ {0}
    <3> HIDE DEF n
    <3> QED BY <1>1, <1>2, <1>3
  <2>2. kind \in PlainKinds /\ t = LineOf(kind) /\ first \in {"name", "enter"}
    <3>1. kind \in PlainKinds
      BY <1>1, <2>1
    <3>2. t = LineOf(kind)
      BY <1>0, <2>1, LinesType DEF TextOf
    <3> QED BY <3>1, <3>2
  <2>3. InLine(kind, first, o, state, wrote, inVal, name, val)
    <3>1. j # n + 1
      BY <1>1, <1>3, <2>1
    <3> QED BY <3>1 DEF InPlain
  <2> HIDE DEF kind, first
  <2>4. \/ /\ o + 1 < m /\ Scans
           /\ InLine(kind, first, o + 1, state', wrote', inVal', name', val')
           /\ UNCHANGED fields
        \/ o + 1 = m /\ Scans /\ LineDone(NameIn(kind), ValueIn(kind), "enter")
    BY <1>2, <2>2, <2>3, InLineStep
  <2>5. CASE /\ o + 1 < m /\ Scans
             /\ InLine(kind, first, o + 1, state', wrote', inVal', name', val')
             /\ UNCHANGED fields
    <3>1. Place(k, j, o + 1)'
      BY <1>0, <1>2, <2>5, PlaceNext
    <3>2. InPlain(r, j, o + 1, state', wrote', inVal', name', val')
      BY <1>3, <2>5 DEF InPlain, kind, first
    <3>3. Carried(k, j, host', port', length', cookie', type', bounded')
      <4>1. UNCHANGED <<host, port, length, cookie, type, bounded>>
        BY <2>5 DEF fields
      <4> QED BY <4>1, Zenon DEF Carried
    <3> QED BY <2>5, <3>1, <3>2, <3>3
  <2>6. CASE o + 1 = m /\ Scans /\ LineDone(NameIn(kind), ValueIn(kind), "enter")
    <3>1. pos' = LineStart(k, j + 1) /\ j + 1 \in 1 .. n + 1
      BY <1>0, <1>2, <1>3, <2>6
    <3>2. Place(k, j + 1, 0)'
      <4>1. Len(TextOf(r, j + 1)) \in 2 .. 7 /\ LineStart(k, j + 1) \in Nat
        BY <1>0, <3>1, LinesType, InStream
      <4>2. 0 \in 0 .. Len(TextOf(r, j + 1)) - 1 /\ LineStart(k, j + 1) + 0 = LineStart(k, j + 1)
        BY <4>1, LineBegins
      <4> QED BY <1>0, <3>1, <4>2, PlaceNext
    <3>3. state' = "enter" /\ wrote' = FALSE /\ inVal' = FALSE
      BY <2>6 DEF LineDone
    <3>4. InPlain(r, j + 1, 0, state', wrote', inVal', name', val')
      <4>1. j + 1 # 1 /\ (j + 1 <= n \/ j + 1 = n + 1)
        BY <1>1, <2>1, <3>1
      <4> QED BY <3>3, <4>1 DEF InPlain, InLine
    <3>5. Carried(k, j + 1, host', port', length', cookie', type', bounded')
      <4>1. Field(NameIn(kind), ValueIn(kind))
        BY <2>6 DEF LineDone
      <4> QED BY <2>1, <2>2, <4>1, CarriedLine DEF kind
    <3> QED BY <2>6, <3>2, <3>4, <3>5
  <2> QED BY <2>4, <2>5, <2>6
<1>4. CASE j = n + 1
  <2>1. t = <<CR, LF>>
    BY <1>0, <1>4, LinesType
  <2>2. m = 2 /\ t[1] = CR /\ t[2] = LF /\ CR # LF /\ CR # Colon /\ CR # Blank /\ LF # CR
    BY <2>1 DEF CR, LF, Colon, Blank
  <2>3. ~wrote /\ ((o = 0 /\ state = "enter") \/ (o = 1 /\ state = "body" /\ r.body # "form"))
    <3>1. ~(j <= Len(r.lines))
      BY <1>1, <1>4
    <3>2. InPlain(r, j, o, state, wrote, inVal, name, val)
      OBVIOUS
    <3> QED BY <3>1, <3>2, Zenon DEF InPlain
  <2>4. CASE o = 0 /\ state = "enter"
    <3>1. ch = CR
      <4>1. o + 1 = 1
        BY <2>4
      <4> HIDE DEF t
      <4> QED BY <1>2, <2>2, <4>1
    <3>2. ReturnBeforeColon
      BY <2>2, <2>4, <3>1, ReadsWhen
    <3>3. state' = "body" /\ wrote' = wrote /\ UNCHANGED fields
      BY <3>2 DEF ReturnBeforeColon
    <3>4. r.body # "form"
      <4> SUFFICES ASSUME r.body = "form" PROVE FALSE
        OBVIOUS
      <4>1. HasLine(r, "type")
        BY <1>0 DEF Meant
      <4>2. Before(r, j, "type")
        <5>1. j - 1 = n
          BY <1>1, <1>4
        <5>2. DOMAIN r.lines = 1 .. n
          BY <1>0, LinesType
        <5> QED BY <4>1, <5>1, <5>2 DEF HasLine, Before
      <4>3. bounded
        BY <4>2 DEF Carried
      <4>4. Len(BodyOf(r)) = 10 /\ BodyOf(r)[1] = Bound
        BY <1>0, BodyType
      <4>5. /\ HeadEnd(k) = LineStart(k, n + 1) + 2 /\ LineStart(k, n + 1) \in Nat /\ HeadEnd(k) \in Nat
            /\ Starts(k + 1) = HeadEnd(k) + Len(BodyOf(r)) /\ Starts(k + 1) <= Len(stream)
        <5>1. n + 1 \in 1 .. n + 1
          BY <1>1
        <5> QED BY <1>0, <5>1, InStream, ZenonT(40)
      <4>6. stream[HeadEnd(k) + 1] = Bound
        <5>1. 1 \in 1 .. Len(BodyOf(r))
          BY <4>4
        <5>2. stream[HeadEnd(k) + 1] = BodyOf(r)[1]
          BY <1>0, <5>1, InStream
        <5> QED BY <4>4, <5>2
      <4>7. pos = LineStart(k, n + 1)
        <5>1. pos = LineStart(k, j) + o
          BY DEF Place
        <5> HIDE DEF n
        <5> QED BY <1>4, <2>4, <4>5, <5>1
      <4>8. pos + 3 = HeadEnd(k) + 1 /\ pos + 3 <= Len(stream)
        <5> HIDE DEF n
        <5> QED BY <1>0, <4>4, <4>5, <4>7
      <4> QED BY <1>0, <3>1, <4>3, <4>6, <4>8 DEF AtBound
    <3>5. Place(k, j, 1)'
      <4>1. o + 1 < m /\ o + 1 = 1
        BY <2>2, <2>4
      <4> QED BY <1>0, <1>2, <4>1, PlaceNext
    <3>6. InPlain(r, j, 1, state', wrote', inVal', name', val')
      BY <1>4, <2>3, <3>3, <3>4 DEF InPlain
    <3>7. Carried(k, j, host', port', length', cookie', type', bounded')
      <4>1. UNCHANGED <<host, port, length, cookie, type, bounded>>
        BY <3>3 DEF fields
      <4> QED BY <4>1, Zenon DEF Carried
    <3> QED BY <3>2, <3>5, <3>6, <3>7 DEF Scans
  <2>5. CASE o = 1 /\ state = "body" /\ r.body # "form"
    <3>1. ch = LF /\ o + 1 = m
      <4>1. o + 1 = 2
        BY <2>5
      <4> HIDE DEF t
      <4> QED BY <1>2, <2>2, <4>1
    <3>2. HeaderEnds
      BY <2>3, <2>5, <3>1, ReadsWhen
    <3>3. pos' = HeadEnd(k)
      BY <1>0, <1>2, <1>4, <3>1
    <3> QED BY <1>4, <2>5, <3>2, <3>3
  <2> QED BY <2>3, <2>4, <2>5
<1>5. j <= n \/ j = n + 1
  <2> HIDE DEF n
  <2> QED BY <1>1, <1>2
<1> QED BY <1>3, <1>4, <1>5

-----------------------------------------------------------------------------
(* The session in the k-th request, as it was sent *)

\* The requests up to the k-th are plain, and the bodies of those before it are taken.
Clean(k) ==
    /\ \A j \in 1 .. k : j \in DOMAIN requests => Plain(requests[j])
    /\ \A j \in 1 .. k - 1 : ~LeavesBytes(requests[j])

\* The session stands exactly where the k-th request does, and the fields are those that
\* the lines read so far leave.
Exactly(k) ==
    LET r == requests[k] IN
    /\ k <= Num + 1
    /\ phase = "line" => pos = Starts(k) /\ host = HostAt(k, 1) /\ type = "" /\ ~bounded
    /\ phase \in {"header", "action"} => k <= Num /\ path = r.path
    /\ phase = "header" => \E j, o :
          /\ Place(k, j, o)
          /\ InPlain(r, j, o, state, wrote, inVal, name, val)
          /\ Carried(k, j, host, port, length, cookie, type, bounded)
    /\ phase = "action" =>
          /\ pos = HeadEnd(k) + (IF r.body = "form" THEN 1 ELSE 0)
          /\ Carried(k, Len(r.lines) + 1, host, port, length, cookie, type, bounded)

Exact == \A k \in Nat : k = Here /\ Clean(k) => Exactly(k)

\* What the requests say stays as it is when they do.
LEMMA SameSaid ==
    ASSUME UNCHANGED input, NEW k
    PROVE  /\ HostSaid(k)' = HostSaid(k) /\ Said(k)' = Said(k)
           /\ Clean(k)' <=> Clean(k)
           /\ \A j : HostAt(k, j)' = HostAt(k, j)
<1>1. requests' = requests
  BY DEF input
<1>2. \A i : HostSaid(i)' = HostSaid(i)
  <2>1. ASSUME NEW i PROVE HostSaid(i)' = HostSaid(i)
    BY <1>1 DEF HostSaid, LastLine
  <2> QED BY <2>1
<1>3. Said(k)' = Said(k)
  <2>1. HostSaid(k)' = HostSaid(k) /\ Starts(k)' = Starts(k)
    BY <1>2, SameInput
  <2> QED BY <1>1, <2>1 DEF Said
<1>4. Clean(k)' <=> Clean(k)
  BY <1>1 DEF Clean
<1>5. ASSUME NEW j PROVE HostAt(k, j)' = HostAt(k, j)
  BY <1>1, <1>2 DEF HostAt, HostLines
<1> QED BY <1>2, <1>3, <1>4, <1>5

\* What has to be shown after a step that leaves the input.
LEMMA ExactlyNext ==
    ASSUME UNCHANGED input, NEW k, k <= Num + 1, NEW r, r = requests[k],
           phase' = "line" => pos' = Starts(k) /\ host' = HostAt(k, 1) /\ type' = "" /\ ~bounded',
           phase' \in {"header", "action"} => k <= Num /\ path' = r.path,
           phase' = "header" => \E j, o :
              /\ Place(k, j, o)'
              /\ InPlain(r, j, o, state', wrote', inVal', name', val')
              /\ Carried(k, j, host', port', length', cookie', type', bounded'),
           phase' = "action" =>
              /\ pos' = HeadEnd(k) + (IF r.body = "form" THEN 1 ELSE 0)
              /\ Carried(k, Len(r.lines) + 1, host', port', length', cookie', type', bounded')
    PROVE  Exactly(k)'
<1>1. /\ requests' = requests /\ Starts(k)' = Starts(k) /\ HeadEnd(k)' = HeadEnd(k) /\ Num' = Num
      /\ \A j : HostAt(k, j)' = HostAt(k, j)
  BY SameInput, SameSaid
<1>3. ASSUME NEW j
      PROVE  Carried(k, j, host', port', length', cookie', type', bounded')
             => Carried(k, j, host, port, length, cookie, type, bounded)'
  <2>1. HostAt(k, j)' = HostAt(k, j) /\ requests' = requests
    BY <1>1
  <2> QED BY <2>1, Zenon DEF Carried
<1>4. requests'[k] = r
  BY <1>1
<1>5. phase' = "line" =>
         pos' = Starts(k)' /\ host' = HostAt(k, 1)' /\ type' = "" /\ ~bounded'
  BY <1>1
<1>6. phase' = "header" => \E j, o :
          /\ Place(k, j, o)'
          /\ InPlain(r, j, o, state', wrote', inVal', name', val')
          /\ Carried(k, j, host, port, length, cookie, type, bounded)'
  BY <1>3
<1>7. phase' = "action" =>
         /\ pos' = HeadEnd(k)' + (IF r.body = "form" THEN 1 ELSE 0)
         /\ Carried(k, Len(r.lines) + 1, host, port, length, cookie, type, bounded)'
  <2>1. PICK j : j = Len(r.lines) + 1
    OBVIOUS
  <2>2. Carried(k, j, host', port', length', cookie', type', bounded')
        => Carried(k, j, host, port, length, cookie, type, bounded)'
    BY <1>3
  <2> QED BY <1>1, <2>1, <2>2
<1>8. k <= Num' + 1 /\ (phase' \in {"header", "action"} => k <= Num' /\ path' = r.path)
  BY <1>1
<1> QED BY <1>4, <1>5, <1>6, <1>7, <1>8 DEF Exactly

\* No line of a request has been read before its first one.
LEMMA NothingCarried ==
    ASSUME NEW k, NEW r, r = requests[k], NEW c, NEW b, ~c, ~b
    PROVE  Carried(k, 1, HostAt(k, 1), "0", "0", c, "", b)
<1>1. ASSUME NEW x PROVE ~Before(r, 1, x)
  <2>1. \A i : i \notin 1 .. 1 - 1
    OBVIOUS
  <2> QED BY <2>1 DEF Before
<1>2. ~Before(r, 1, "port") /\ ~Before(r, 1, "length") /\ ~Before(r, 1, "cookie") /\ ~Before(r, 1, "type")
  BY <1>1
<1> HIDE DEF Before
<1> QED BY <1>2, Zenon DEF Carried

\* The request line of the k-th request is its own.
LEMMA FirstLine ==
    ASSUME HeaderTypeOK, NEW k \in 1 .. Num, Plain(requests[k]), Exactly(k), RequestLine
    PROVE  Exactly(k)'
<1> DEFINE r == requests[k]
<1>0. InputInv /\ r \in Request /\ r = requests[k] /\ k <= Num + 1 /\ k <= Num
  BY InStream, Layout DEF HeaderTypeOK
<1>1. Len(r.lines) \in Nat /\ Len(r.lines) >= 1
  BY <1>0, PlainRequest
<1> HIDE DEF r
<1>2. phase = "line" /\ pos' = LineEndsAt /\ UNCHANGED input
  BY DEF RequestLine
<1>3. pos = Starts(k) /\ host = HostAt(k, 1) /\ type = "" /\ ~bounded
  BY <1>2 DEF Exactly
<1>4. LineEndsAt = LineStart(k, 1) /\ ch = r.path /\ r.path \in PathsSent
  BY <1>0, <1>3, LineFromStart
<1>5. /\ phase' = "header" /\ path' = r.path /\ state' = "name" /\ wrote' = FALSE /\ inVal' = FALSE
      /\ host' = host /\ port' = "0" /\ length' = "0" /\ cookie' = FALSE /\ type' = type /\ bounded' = bounded
  BY <1>4 DEF RequestLine, Prepare
<1>6. Place(k, 1, 0)'
  <2>1. 1 \in 1 .. Len(r.lines) + 1
    BY <1>1
  <2>2. Len(TextOf(r, 1)) \in 2 .. 7 /\ LineStart(k, 1) \in Nat
    BY <1>0, <2>1, LinesType, InStream
  <2>3. 0 \in 0 .. Len(TextOf(r, 1)) - 1 /\ pos' = LineStart(k, 1) + 0
    BY <1>2, <1>4, <2>2, LineBegins
  <2> QED BY <1>0, <1>2, <2>1, <2>3, PlaceNext
<1>7. InPlain(r, 1, 0, state', wrote', inVal', name', val')
  BY <1>1, <1>5 DEF InPlain, InLine
<1>8. Carried(k, 1, host', port', length', cookie', type', bounded')
  <2>1. ~cookie' /\ ~bounded' /\ host' = HostAt(k, 1) /\ type' = ""
    BY <1>3, <1>5
  <2> QED BY <1>0, <1>5, <2>1, NothingCarried
<1> QED BY <1>0, <1>2, <1>5, <1>6, <1>7, <1>8, ExactlyNext

\* A step that answers nothing.
LEMMA ExactlyStep ==
    ASSUME HeaderTypeOK, NEW k \in Nat \ {0}, Clean(k), Exactly(k),
           RequestLine \/ StreamEnds \/ Reads \/ HeaderEndsAtBound
    PROVE  Exactly(k)'
<1> DEFINE r == requests[k]
<1>0. InputInv /\ Num \in Nat /\ DOMAIN requests = 1 .. Num /\ k <= Num + 1 /\ r = requests[k]
  BY Layout DEF HeaderTypeOK, Exactly
<1>1. ASSUME k <= Num PROVE k \in 1 .. Num /\ r \in Request /\ Plain(r) /\ ~Misread(r)
  <2>1. k \in 1 .. Num /\ k \in 1 .. k
    BY <1>0, <1>1
  <2>2. r \in Request /\ Plain(r)
    BY <1>0, <2>1, InStream DEF Clean
  <2> QED BY <2>1, <2>2, PlainRequest
<1>2. ASSUME phase = "header"
      PROVE  /\ k \in 1 .. Num /\ path = r.path
             /\ \E j, o : /\ Place(k, j, o) /\ InPlain(r, j, o, state, wrote, inVal, name, val)
                          /\ Carried(k, j, host, port, length, cookie, type, bounded)
  BY <1>1, <1>2 DEF Exactly
<1> HIDE DEF r
<1>3. CASE RequestLine
  <2>1. k \in 1 .. Num
    <3>1. k <= Num
      <4> SUFFICES ASSUME ~(k <= Num) PROVE FALSE
        OBVIOUS
      <4>1. k = Num + 1
        BY <1>0
      <4>2. phase = "line" /\ LineIsThere
        BY <1>3 DEF RequestLine
      <4>3. pos = Starts(k)
        BY <4>2 DEF Exactly
      <4>4. pos = Len(stream)
        BY <1>0, <4>1, <4>3, Layout
      <4>5. LineEndsAt \in pos + 1 .. Len(stream)
        BY <4>2, LineEnd
      <4>6. Len(stream) \in Nat
        BY <1>0, Layout
      <4> QED BY <4>4, <4>5, <4>6
    <3> QED BY <1>1, <3>1
  <2> QED BY <1>0, <1>1, <1>3, <2>1, FirstLine
<1>4. CASE StreamEnds
  <2>1. phase' = "ended" /\ UNCHANGED input
    BY <1>4 DEF StreamEnds
  <2> QED BY <1>0, <2>1, ExactlyNext
<1>5. CASE Reads
  <2>1. phase = "header" /\ path' = path /\ UNCHANGED input
    BY <1>5, ReadsRead
  <2>2. k \in 1 .. Num /\ path' = r.path /\ Plain(r) /\ r \in Request
    BY <1>0, <1>1, <1>2, <2>1
  <2>3. PICK j, o : /\ Place(k, j, o) /\ InPlain(r, j, o, state, wrote, inVal, name, val)
                    /\ Carried(k, j, host, port, length, cookie, type, bounded)
    BY <1>2, <2>1
  <2>4. k <= Num
    BY <2>2
  <2>5. CASE /\ Scans
             /\ \E jj, oo : /\ Place(k, jj, oo)'
                            /\ InPlain(r, jj, oo, state', wrote', inVal', name', val')
                            /\ Carried(k, jj, host', port', length', cookie', type', bounded')
    <3>1. phase' = "header"
      BY <2>5, ScansRead
    <3> QED BY <1>0, <2>1, <2>2, <2>4, <2>5, <3>1, ExactlyNext
  <2>6. CASE HeaderEnds /\ pos' = HeadEnd(k) /\ r.body # "form" /\ j = Len(r.lines) + 1
    <3>1. phase' = "action" /\ UNCHANGED fields
      BY <2>6 DEF HeaderEnds
    <3>2. Carried(k, Len(r.lines) + 1, host', port', length', cookie', type', bounded')
      <4>1. UNCHANGED <<host, port, length, cookie, type, bounded>>
        BY <3>1 DEF fields
      <4>2. Carried(k, j, host', port', length', cookie', type', bounded')
        BY <2>3, <4>1, Zenon DEF Carried
      <4> QED BY <2>6, <4>2
    <3>3. pos' = HeadEnd(k) + (IF r.body = "form" THEN 1 ELSE 0)
      <4>1. HeadEnd(k) \in Nat
        BY <1>0, <2>2, InStream
      <4> QED BY <2>6, <4>1
    <3> QED BY <1>0, <2>1, <2>2, <2>4, <3>1, <3>2, <3>3, ExactlyNext
  <2> QED BY <1>0, <1>5, <2>2, <2>3, <2>5, <2>6, PlainStep
<1>6. CASE HeaderEndsAtBound
  <2>1. phase = "header" /\ AtBound /\ phase' = "action" /\ pos' = pos + 3 /\ UNCHANGED <<input, fields, path>>
    BY <1>6 DEF HeaderEndsAtBound
  <2>2. k \in 1 .. Num /\ path' = r.path /\ Plain(r) /\ r \in Request /\ ~Misread(r)
    BY <1>0, <1>1, <1>2, <2>1
  <2>3. PICK j, o : /\ Place(k, j, o) /\ InPlain(r, j, o, state, wrote, inVal, name, val)
                    /\ Carried(k, j, host, port, length, cookie, type, bounded)
    BY <1>2, <2>1
  <2>4. r.body = "form" /\ j = Len(r.lines) + 1 /\ o = 0
    BY <1>0, <2>1, <2>2, <2>3, BoundIsBody
  <2>5. pos' = HeadEnd(k) + (IF r.body = "form" THEN 1 ELSE 0)
    <3>1. pos = LineStart(k, Len(r.lines) + 1) + 0
      BY <2>3, <2>4 DEF Place
    <3>2. Len(r.lines) \in Nat /\ HeadEnd(k) = LineStart(k, Len(r.lines) + 1) + 2
      BY <1>0, <2>2, InStream, SMTT(40)
    <3>3. LineStart(k, Len(r.lines) + 1) \in Nat
      <4>1. Len(r.lines) + 1 \in 1 .. Len(r.lines) + 1
        BY <3>2
      <4> QED BY <1>0, <2>2, <4>1, InStream
    <3>4. PICK s, h : s = LineStart(k, Len(r.lines) + 1) /\ h = HeadEnd(k)
      OBVIOUS
    <3>5. h = s + 2 /\ pos = s + 0 /\ s \in Nat /\ pos' = pos + 3
      BY <2>1, <3>1, <3>2, <3>3, <3>4
    <3>6. pos' = h + 1
      BY <3>5
    <3> QED BY <2>4, <3>4, <3>6
  <2>6. Carried(k, Len(r.lines) + 1, host', port', length', cookie', type', bounded')
    <3>1. UNCHANGED <<host, port, length, cookie, type, bounded>>
      BY <2>1 DEF fields
    <3>2. Carried(k, j, host', port', length', cookie', type', bounded')
      BY <2>3, <3>1, Zenon DEF Carried
    <3> QED BY <2>4, <3>2
  <2>7. k <= Num
    BY <2>2
  <2> QED BY <1>0, <2>1, <2>2, <2>5, <2>6, <2>7, ExactlyNext
<1> QED BY <1>3, <1>4, <1>5, <1>6

\* What all the lines leave is what the request has.
LEMMA AllLines ==
    ASSUME NEW r \in Request, NEW kind
    PROVE  Before(r, Len(r.lines) + 1, kind) <=> HasLine(r, kind)
<1>1. DOMAIN r.lines = 1 .. Len(r.lines) /\ Len(r.lines) \in Nat
  BY LinesType
<1>2. (Len(r.lines) + 1) - 1 = Len(r.lines)
  BY <1>1
<1> QED BY <1>1, <1>2 DEF Before, HasLine

\* The fields behind the header.
LEMMA FieldsSaid ==
    ASSUME HeaderTypeOK, NEW k \in 1 .. Num, NEW r, r = requests[k], Exactly(k), phase = "action"
    PROVE  /\ path = r.path /\ host = HostSaid(k)
           /\ port = IF HasLine(r, "port") THEN "8080" ELSE "0"
           /\ length = IF HasLine(r, "length") THEN "2" ELSE "0"
           /\ cookie <=> HasLine(r, "cookie")
           /\ type = IF HasLine(r, "type") THEN "form-data" ELSE ""
           /\ bounded <=> HasLine(r, "type")
           /\ pos = HeadEnd(k) + (IF r.body = "form" THEN 1 ELSE 0)
<1>0. InputInv /\ r \in Request
  BY InStream DEF HeaderTypeOK
<1>1. /\ path = r.path /\ pos = HeadEnd(k) + (IF r.body = "form" THEN 1 ELSE 0)
      /\ Carried(k, Len(r.lines) + 1, host, port, length, cookie, type, bounded)
  BY DEF Exactly
<1>2. HostAt(k, Len(r.lines) + 1) = HostSaid(k)
  BY <1>0, HostOfRequest
<1>3. \A x : Before(r, Len(r.lines) + 1, x) <=> HasLine(r, x)
  BY <1>0, AllLines
<1>4. /\ host = HostAt(k, Len(r.lines) + 1)
      /\ port = IF Before(r, Len(r.lines) + 1, "port") THEN "8080" ELSE "0"
      /\ length = IF Before(r, Len(r.lines) + 1, "length") THEN "2" ELSE "0"
      /\ cookie <=> Before(r, Len(r.lines) + 1, "cookie")
      /\ type = IF Before(r, Len(r.lines) + 1, "type") THEN "form-data" ELSE ""
      /\ bounded <=> Before(r, Len(r.lines) + 1, "type")
  BY <1>1, Zenon DEF Carried
<1>5. (cookie <=> HasLine(r, "cookie")) /\ (bounded <=> HasLine(r, "type"))
  BY <1>3, <1>4, Zenon
<1>6. /\ port = IF HasLine(r, "port") THEN "8080" ELSE "0"
      /\ length = IF HasLine(r, "length") THEN "2" ELSE "0"
      /\ type = IF HasLine(r, "type") THEN "form-data" ELSE ""
  BY <1>3, <1>4
<1> QED BY <1>1, <1>2, <1>4, <1>5, <1>6

\* The actions take the body whole: what is left begins with the next request.
LEMMA WholeBody ==
    ASSUME HeaderTypeOK, NEW k \in 1 .. Num, NEW r, r = requests[k], Exactly(k), ~LeavesBytes(r),
           Page \/ NotFound \/ Cgi \/ Tracked \/ Form
    PROVE  \E taken, next : /\ AnswerWith(taken, next) /\ pos + taken = Starts(k + 1)
                            /\ next \in {"line", "closed"}
<1>0. /\ InputInv /\ pos \in Nat /\ pos <= Len(stream) /\ Len(stream) \in Nat
      /\ r \in Request /\ Meant(r) /\ HeadEnd(k) \in Nat
      /\ Starts(k + 1) = HeadEnd(k) + Len(BodyOf(r)) /\ Starts(k + 1) <= Len(stream)
  BY InStream DEF HeaderTypeOK
<1>1. phase = "action"
  BY DEF Page, NotFound, Cgi, Tracked, Form, AnswerWith
<1>2. /\ path = r.path /\ length = IF HasLine(r, "length") THEN "2" ELSE "0"
      /\ type = IF HasLine(r, "type") THEN "form-data" ELSE ""
      /\ pos = HeadEnd(k) + (IF r.body = "form" THEN 1 ELSE 0)
  BY <1>1, FieldsSaid
<1>3. /\ r.body = "none" \/ (r.body = "data" /\ r.path = "cgi")
      /\ ~HasLine(r, "type")
      /\ r.body = "none" <=> ~HasLine(r, "length")
  BY <1>0, NothingLeft
<1>4. pos = HeadEnd(k) /\ type = ""
  <2>1. r.body # "form" /\ HeadEnd(k) + 0 = HeadEnd(k)
    BY <1>0, <1>3
  <2> QED BY <1>2, <1>3, <2>1
<1>5. (r.body = "none" => Len(BodyOf(r)) = 0) /\ (r.body = "data" => Len(BodyOf(r)) = 2)
  BY <1>0, BodyType
<1>6. PICK e : e = HeadEnd(k)
  OBVIOUS
<1>7. CASE r.body = "none"
  <2>1. Starts(k + 1) = pos + 0 /\ length = "0"
    BY <1>0, <1>2, <1>3, <1>4, <1>5, <1>7
  <2>2. CASE Page
    BY <2>1, <2>2 DEF Page
  <2>3. CASE NotFound
    BY <2>1, <2>3 DEF NotFound
  <2>4. CASE Cgi
    <3> DEFINE taken == Min({IF length = "2" THEN 2 ELSE 0, Len(stream) - pos})
    <3>1. Len(stream) - pos \in Nat /\ 0 <= Len(stream) - pos
      BY <1>0
    <3>2. taken = 0
      BY <2>1, <3>1, MinOfTwo
    <3>3. AnswerWith(taken, "line")
      BY <2>4 DEF Cgi
    <3> HIDE DEF taken
    <3> QED BY <2>1, <3>2, <3>3
  <2>5. CASE Tracked
    BY <2>1, <2>5 DEF Tracked
  <2>6. CASE Form
    <3> DEFINE taken == IF type = "form-data" THEN UpToClosing ELSE 0
    <3>1. AnswerWith(taken, "line")
      BY <2>6 DEF Form
    <3>2. taken = 0
      BY <1>4
    <3> HIDE DEF taken
    <3> QED BY <2>1, <3>1, <3>2
  <2> QED BY <2>2, <2>3, <2>4, <2>5, <2>6
<1>8. CASE r.body = "data" /\ r.path = "cgi"
  <2>1. path = "cgi" /\ length = "2" /\ Starts(k + 1) = pos + 2
    BY <1>0, <1>2, <1>3, <1>4, <1>5, <1>8
  <2>2. Cgi
    BY <2>1 DEF Page, NotFound, Cgi, Tracked, Form
  <2> DEFINE taken == Min({IF length = "2" THEN 2 ELSE 0, Len(stream) - pos})
  <2>3. Len(stream) - pos \in Nat /\ 2 <= Len(stream) - pos
    <3>1. PICK e2 : e2 = Starts(k + 1)
      OBVIOUS
    <3>2. e2 = pos + 2 /\ e2 <= Len(stream)
      BY <1>0, <2>1, <3>1
    <3> QED BY <1>0, <3>2
  <2>4. taken = 2
    BY <2>1, <2>3, MinOfTwo
  <2>5. AnswerWith(taken, "line")
    BY <2>2 DEF Cgi
  <2> HIDE DEF taken
  <2> QED BY <2>1, <2>4, <2>5
<1> QED BY <1>3, <1>7, <1>8

\* The session then stands at the next request, with nothing of the one before but the host.
LEMMA ExactlyAnswer ==
    ASSUME HeaderTypeOK, NEW k \in Nat \ {0}, Clean(k + 1), Exactly(k),
           Page \/ NotFound \/ Cgi \/ Tracked \/ Form
    PROVE  Exactly(k + 1)'
<1> DEFINE r == requests[k]
<1>0. InputInv /\ Num \in Nat /\ r = requests[k]
  BY Layout DEF HeaderTypeOK
<1>1. phase = "action"
  BY DEF Page, NotFound, Cgi, Tracked, Form, AnswerWith
<1>2. k \in 1 .. Num
  BY <1>1 DEF Exactly
<1>3. ~LeavesBytes(r)
  <2>1. k \in 1 .. (k + 1) - 1
    BY <1>2
  <2> QED BY <2>1 DEF Clean
<1>4. r \in Request /\ Meant(r)
  BY <1>0, <1>2, InStream
<1> HIDE DEF r
<1>5. PICK taken, next : /\ AnswerWith(taken, next) /\ pos + taken = Starts(k + 1)
                         /\ next \in {"line", "closed"}
  BY <1>0, <1>2, <1>3, WholeBody
<1>6. /\ pos' = Starts(k + 1) /\ phase' \in {"line", "closed"}
      /\ UNCHANGED <<input, fields>>
  BY <1>5 DEF AnswerWith
<1>7. host = HostSaid(k) /\ type = "" /\ ~bounded
  <2>1. ~HasLine(r, "type")
    BY <1>3, <1>4, NothingLeft
  <2> QED BY <1>0, <1>1, <1>2, <2>1, FieldsSaid
<1>8. HostAt(k + 1, 1) = HostSaid(k)
  <2>1. (k + 1) - 1 = k /\ \A i : i \notin 1 .. 1 - 1
    OBVIOUS
  <2>2. HostLines(k + 1, 1) = {}
    BY <2>1 DEF HostLines
  <2> QED BY <2>1, <2>2 DEF HostAt
<1>9. host' = HostAt(k + 1, 1) /\ type' = "" /\ ~bounded'
  <2>1. UNCHANGED <<host, type, bounded>>
    BY <1>6 DEF fields
  <2> QED BY <1>7, <1>8, <2>1
<1>10. k + 1 <= Num + 1
  BY <1>0, <1>2
<1>11. PICK q : q = requests[k + 1]
  OBVIOUS
<1>12. phase' \notin {"header", "action"}
  BY <1>6
<1> QED BY <1>6, <1>9, <1>10, <1>11, <1>12, ExactlyNext

\* What is noted of a plain request is what it says.
LEMMA GotAsSaid ==
    ASSUME HeaderTypeOK, NEW k \in 1 .. Num, Clean(k), Exactly(k), phase = "action"
    PROVE  Got = Said(k)
<1> DEFINE r == requests[k]
<1>0. /\ InputInv /\ r = requests[k] /\ r \in Request /\ Meant(r) /\ k \in Nat
      /\ HeadEnd(k) \in Nat /\ Num \in Nat
  <2>1. InputInv
    BY DEF HeaderTypeOK
  <2>2. Num \in Nat /\ k \in Nat
    BY <2>1, Layout
  <2> QED BY <2>1, <2>2, InStream
<1>1. /\ path = r.path /\ host = HostSaid(k)
      /\ port = IF HasLine(r, "port") THEN "8080" ELSE "0"
      /\ length = IF HasLine(r, "length") THEN "2" ELSE "0"
      /\ cookie <=> HasLine(r, "cookie")
      /\ type = IF HasLine(r, "type") THEN "form-data" ELSE ""
      /\ pos = HeadEnd(k) + (IF r.body = "form" THEN 1 ELSE 0)
  BY <1>0, FieldsSaid
<1>2. cookie = HasLine(r, "cookie")
  <2>1. cookie \in BOOLEAN
    BY Zenon DEF HeaderTypeOK, FieldsOK
  <2> QED BY <1>1, <2>1, Zenon DEF HasLine
<1>3. (\E j \in 1 .. k : HasLine(requests[j], "type")) <=> HasLine(r, "type")
  <2>1. ASSUME NEW j \in 1 .. k - 1 PROVE ~HasLine(requests[j], "type")
    <3>1. j \in 1 .. Num
      BY <1>0
    <3>2. requests[j] \in Request /\ Meant(requests[j]) /\ ~LeavesBytes(requests[j])
      BY <1>0, <3>1, Layout DEF Clean
    <3> QED BY <3>2, NothingLeft
  <2>2. k \in 1 .. k /\ \A j \in 1 .. k : j = k \/ j \in 1 .. k - 1
    BY <1>0
  <2> QED BY <2>1, <2>2
<1>4. Starts(k) + Len(Sent(r)) - Len(BodyOf(r)) = HeadEnd(k)
  <2>1. /\ Starts(k + 1) = Starts(k) + Len(Sent(r)) /\ Starts(k + 1) = HeadEnd(k) + Len(BodyOf(r))
        /\ Len(BodyOf(r)) \in Nat
    BY <1>0, Layout, InStream
  <2>2. Starts(k) \in Nat /\ Len(Sent(r)) \in Nat
    BY <1>0, InStream, SentShape, LenProperties
  <2> QED BY <1>0, <2>1, <2>2
<1> HIDE DEF r
<1>5. type = IF \E j \in 1 .. k : HasLine(requests[j], "type") THEN "form-data" ELSE ""
  BY <1>1, <1>3
<1>6. pos = Starts(k) + Len(Sent(r)) - Len(BodyOf(r)) + (IF r.body = "form" THEN 1 ELSE 0)
  BY <1>1, <1>4
<1> QED BY <1>0, <1>1, <1>2, <1>5, <1>6 DEF Got, Said

\* Nothing but an answer is noted, and it is the one of the request where the session is.
LEMMA AnswersGrow ==
    ASSUME HeaderTypeOK, HeaderNext
    PROVE  /\ UNCHANGED input
           /\ \/ /\ RequestLine \/ StreamEnds \/ Reads \/ HeaderEndsAtBound
                 /\ answered' = answered
              \/ /\ Page \/ NotFound \/ Cgi \/ Tracked \/ Form
                 /\ phase = "action" /\ answered' = Append(answered, Got)
<1>1. CASE RequestLine \/ StreamEnds \/ HeaderEndsAtBound
  BY <1>1 DEF RequestLine, StreamEnds, HeaderEndsAtBound
<1>2. CASE Reads
  BY <1>2, ReadsRead
<1>3. CASE Page \/ NotFound \/ Cgi \/ Tracked \/ Form
  BY <1>3 DEF Page, NotFound, Cgi, Tracked, Form, AnswerWith
<1> QED BY <1>1, <1>2, <1>3 DEF HeaderNext, Reads, Scans

\* The session keeps exactly to plain requests.
LEMMA ExactStep ==
    ASSUME HeaderTypeOK, Exact, [HeaderNext]_hvars
    PROVE  Exact'
<1>0. answered \in Seq(Answer) /\ Len(answered) \in Nat
  BY LenProperties DEF HeaderTypeOK, LoopOK
<1>1. UNCHANGED input
  BY AnswersGrow DEF hvars
<1>4. ASSUME NEW k PROVE Clean(k)' <=> Clean(k)
  BY <1>1, SameSaid
<1>5. (\A k \in Nat : k = Here' /\ Clean(k) => Exactly(k)') => Exact'
  BY <1>4 DEF Exact
<1> SUFFICES ASSUME NEW k \in Nat, k = Here', Clean(k) PROVE Exactly(k)'
  BY <1>5
<1>2. CASE UNCHANGED hvars
  <2>1. k = Here
    BY <1>2 DEF hvars, Here
  <2>2. Exactly(k)
    BY <2>1 DEF Exact
  <2>3. UNCHANGED <<pos, state, wrote, name, val, inVal, host, port, length, cookie, type, bounded, path, phase>>
    BY <1>2 DEF hvars, scan, fields
  <2>4. PICK r : r = requests[k]
    OBVIOUS
  <2>5. phase' = "header" => \E j, o :
          /\ Place(k, j, o)'
          /\ InPlain(r, j, o, state', wrote', inVal', name', val')
          /\ Carried(k, j, host', port', length', cookie', type', bounded')
    <3> SUFFICES ASSUME phase' = "header"
                 PROVE  \E j, o :
                           /\ Place(k, j, o)'
                           /\ InPlain(r, j, o, state', wrote', inVal', name', val')
                           /\ Carried(k, j, host', port', length', cookie', type', bounded')
      OBVIOUS
    <3>1. PICK j, o : /\ Place(k, j, o) /\ InPlain(r, j, o, state, wrote, inVal, name, val)
                      /\ Carried(k, j, host, port, length, cookie, type, bounded)
      BY <2>2, <2>3, <2>4 DEF Exactly
    <3>2. Place(k, j, o)'
      BY <1>1, <2>3, <3>1, PlaceNext DEF Place
    <3>3. InPlain(r, j, o, state', wrote', inVal', name', val')
      BY <2>3, <3>1
    <3>4. Carried(k, j, host', port', length', cookie', type', bounded')
      BY <2>3, <3>1, Zenon DEF Carried
    <3> QED BY <3>2, <3>3, <3>4
  <2>6. phase' = "action" =>
          /\ pos' = HeadEnd(k) + (IF r.body = "form" THEN 1 ELSE 0)
          /\ Carried(k, Len(r.lines) + 1, host', port', length', cookie', type', bounded')
    <3> SUFFICES ASSUME phase' = "action"
                 PROVE  /\ pos' = HeadEnd(k) + (IF r.body = "form" THEN 1 ELSE 0)
                        /\ Carried(k, Len(r.lines) + 1, host', port', length', cookie', type', bounded')
      OBVIOUS
    <3>1. /\ pos = HeadEnd(k) + (IF r.body = "form" THEN 1 ELSE 0)
          /\ Carried(k, Len(r.lines) + 1, host, port, length, cookie, type, bounded)
      BY <2>2, <2>3, <2>4 DEF Exactly
    <3>2. PICK j : j = Len(r.lines) + 1
      OBVIOUS
    <3>3. Carried(k, j, host, port, length, cookie, type, bounded)
      BY <3>1, <3>2
    <3>4. Carried(k, j, host', port', length', cookie', type', bounded')
      BY <2>3, <3>3, Zenon DEF Carried
    <3> QED BY <2>3, <3>1, <3>2, <3>4
  <2>7. /\ k <= Num + 1
        /\ phase' = "line" => pos' = Starts(k) /\ host' = HostAt(k, 1) /\ type' = "" /\ ~bounded'
        /\ phase' \in {"header", "action"} => k <= Num /\ path' = r.path
    BY <2>2, <2>3, <2>4 DEF Exactly
  <2> QED BY <1>1, <2>4, <2>5, <2>6, <2>7, ExactlyNext
<1>3. CASE HeaderNext
  <2>1. CASE /\ RequestLine \/ StreamEnds \/ Reads \/ HeaderEndsAtBound
             /\ answered' = answered
    <3>1. k = Here /\ k \in Nat \ {0}
      BY <1>0, <2>1 DEF Here
    <3> QED BY <2>1, <3>1, ExactlyStep DEF Exact
  <2>2. CASE /\ Page \/ NotFound \/ Cgi \/ Tracked \/ Form
             /\ phase = "action" /\ answered' = Append(answered, Got)
    <3>1. \A s \in Seq(Answer) : \A e : Len(Append(s, e)) = Len(s) + 1
      OBVIOUS
    <3>2. PICK h : h = Here
      OBVIOUS
    <3>3. h \in Nat \ {0} /\ k = h + 1
      BY <1>0, <2>2, <3>1, <3>2 DEF Here
    <3>4. Clean(h)
      <4>1. \A j \in 1 .. h : j \in 1 .. k
        BY <3>3
      <4>2. (h + 1) - 1 = h /\ \A j \in 1 .. h - 1 : j \in 1 .. h
        BY <3>3
      <4>3. \A j \in 1 .. h - 1 : j \in 1 .. k - 1
        BY <3>3, <4>2
      <4> QED BY <4>1, <4>3, Zenon DEF Clean
    <3>5. Exactly(h)
      BY <3>2, <3>3, <3>4 DEF Exact
    <3>6. Exactly(h + 1)'
      BY <2>2, <3>3, <3>5, ExactlyAnswer
    <3> QED BY <3>3, <3>6
  <2> QED BY <1>3, <2>1, <2>2, AnswersGrow
<1> QED BY <1>2, <1>3

\* What is noted stays noted as it was sent.
LEMMA AnsweredStep ==
    ASSUME HeaderTypeOK, Exact, AnsweredAsSent, [HeaderNext]_hvars
    PROVE  AnsweredAsSent'
<1>0. InputInv /\ answered \in Seq(Answer) /\ Len(answered) \in Nat /\ DOMAIN requests = 1 .. Num
  BY LenProperties, Layout DEF HeaderTypeOK, LoopOK
<1>1. UNCHANGED input /\ requests' = requests
  BY AnswersGrow DEF hvars, input
<1>4. ASSUME NEW k PROVE Said(k)' = Said(k) /\ (Clean(k)' <=> Clean(k))
  BY <1>1, SameSaid
<1>5. AnsweredAsSent <=> \A k \in DOMAIN answered : Clean(k) => k \in DOMAIN requests /\ answered[k] = Said(k)
  BY DEF AnsweredAsSent, Clean
<1>6. AnsweredAsSent' <=>
         \A k \in DOMAIN answered' : Clean(k)' => k \in DOMAIN requests' /\ answered'[k] = Said(k)'
  BY DEF AnsweredAsSent, Clean
<1>7. AnsweredAsSent' <=>
         \A k \in DOMAIN answered' : Clean(k) => k \in DOMAIN requests /\ answered'[k] = Said(k)
  BY <1>1, <1>4, <1>6
<1>2. ASSUME answered' = answered PROVE AnsweredAsSent'
  BY <1>2, <1>5, <1>7
<1>3. CASE /\ Page \/ NotFound \/ Cgi \/ Tracked \/ Form
           /\ phase = "action" /\ answered' = Append(answered, Got)
  <2>1. PICK h : h = Here
    OBVIOUS
  <2>2. h \in Nat /\ h = Len(answered) + 1
    BY <1>0, <2>1 DEF Here
  <2>3. /\ \A k : k \in DOMAIN answered' <=> k \in DOMAIN answered \/ k = h
        /\ \A k \in DOMAIN answered : answered'[k] = answered[k]
        /\ answered'[h] = Got
    BY <1>0, <1>3, <2>2
  <2>4. ASSUME NEW k \in DOMAIN answered', Clean(k)
        PROVE  k \in DOMAIN requests /\ answered'[k] = Said(k)
    <3>1. CASE k \in DOMAIN answered
      BY <1>5, <2>3, <2>4, <3>1
    <3>2. CASE k = h
      <4>1. Exactly(h)
        BY <2>1, <2>2, <2>4, <3>2 DEF Exact
      <4>2. h \in 1 .. Num
        BY <1>0, <1>3, <2>2, <4>1 DEF Exactly
      <4>3. Got = Said(h)
        BY <1>3, <2>4, <3>2, <4>1, <4>2, GotAsSaid
      <4> QED BY <1>0, <2>3, <3>2, <4>2, <4>3
    <3> QED BY <2>3, <3>1, <3>2
  <2> QED BY <1>7, <2>4
<1> QED BY <1>2, <1>3, AnswersGrow DEF hvars

\* The session begins at the first request.
LEMMA ExactFirst ==
    ASSUME HeaderInit PROVE Exact /\ AnsweredAsSent
<1>1. InputInv
  BY InitInput
<1>2. answered = <<>> /\ Here = 1
  <2>1. answered = <<>> /\ Len(<<>>) = 0
    BY DEF HeaderInit
  <2>2. Len(answered) = 0
    BY <2>1
  <2> QED BY <2>1, <2>2 DEF Here
<1>3. HostAt(1, 1) = ""
  <2>1. \A i : i \notin 1 .. 1 - 1
    OBVIOUS
  <2>2. HostLines(1, 1) = {}
    BY <2>1 DEF HostLines
  <2>3. HostSaid(1 - 1) = ""
    <3>1. {j \in 1 .. 1 - 1 : LastLine(j, {"host", "port"}) # "none"} = {}
      BY <2>1
    <3> QED BY <3>1 DEF HostSaid
  <2> QED BY <2>2, <2>3 DEF HostAt
<1>4. Exactly(1)
  <2>1. Starts(1) = 0 /\ 1 <= Num + 1
    BY <1>1, Layout
  <2>2. phase = "line" /\ pos = 0 /\ host = "" /\ type = "" /\ ~bounded
    BY DEF HeaderInit
  <2> QED BY <1>3, <2>1, <2>2 DEF Exactly
<1>5. Exact
  BY <1>2, <1>4 DEF Exact
<1>6. AnsweredAsSent
  BY <1>2 DEF AnsweredAsSent
<1> QED BY <1>5, <1>6

\* As long as the requests are plain and their bodies taken whole, each is understood as
\* it was sent, however many come one behind the other and whatever lines each has: path,
\* host, port, length, cookie and type, and where it ends.
THEOREM RequestsAsSent == HeaderSpec => []AnsweredAsSent
<1>1. HeaderInit => HeaderTypeOK /\ Exact /\ AnsweredAsSent
  BY HeaderTypedFirst, ExactFirst
<1>2. HeaderTypeOK /\ Exact /\ AnsweredAsSent /\ [HeaderNext]_hvars
      => (HeaderTypeOK /\ Exact /\ AnsweredAsSent)'
  BY HeaderTyped, ExactStep, AnsweredStep
<1> QED BY <1>1, <1>2, PTL DEF HeaderSpec
=============================================================================
