-------------------------- MODULE MultipartFormProofs --------------------------
(***************************************************************************)
(* Proofs about MultipartForm, for all forms a browser may send and every  *)
(* point at which its connection may end.  No temporary file is without a  *)
(* section to delete it.  And parse_form_data keeps what was sent: the     *)
(* decoders give back, symbol by symbol, what was encoded, and between two *)
(* symbols the section in work is the one of the part it is in.            *)
(***************************************************************************)
EXTENDS MultipartForm, FiniteSetTheorems, SequenceTheorems, SequenceLemmas, TLAPS

\* What the steps need to know of a section: it tells where its bytes go and
\* whether it has a file, and only create_object gives it one.
IsRegion(s) ==
    /\ s = [f \in DOMAIN s |-> s[f]]
    /\ {"type", "open", "state", "decoding", "decoder"} \subseteq DOMAIN s
    /\ s.open \in BOOLEAN
    /\ s.open => s.type = "file" /\ s.state = "file"

FormTypes ==
    /\ objects \in Seq(Range(objects))
    /\ \A i \in DOMAIN objects : IsRegion(objects[i])
    /\ IsRegion(section)
    /\ disk \in Int

\* The files are counted until the caller deletes the form.
FormInv == FormTypes /\ FilesHaveOwner
-----------------------------------------------------------------------------
\* The sections with a file are finitely many.
LEMMA OpenedIsNat ==
    ASSUME FormTypes
    PROVE  /\ IsFiniteSet({i \in DOMAIN objects : objects[i].open})
           /\ Opened(objects) \in Nat
<1>1. objects \in Seq(Range(objects))
  BY DEF FormTypes
<1>2. DOMAIN objects = 1 .. Len(objects) /\ Len(objects) \in Nat
  BY <1>1, LenProperties
<1>3. IsFiniteSet(DOMAIN objects)
  BY <1>2, FS_Interval
<1> QED BY <1>3, FS_Subset, FS_CardinalityType DEF Opened

\* One more section in the form: its file is one more, if it has one.
LEMMA OneMore ==
    ASSUME FormTypes, NEW s, IsRegion(s), objects' = Append(objects, s)
    PROVE  /\ objects' \in Seq(Range(objects'))
           /\ \A i \in DOMAIN objects' : IsRegion(objects'[i])
           /\ Opened(objects) \in Nat
           /\ Opened(objects') = Opened(objects) + (IF s.open THEN 1 ELSE 0)
<1> DEFINE n == Len(objects)
           All == Range(objects) \cup {s}
           Had == {i \in DOMAIN objects : objects[i].open}
           Has == {i \in DOMAIN objects' : objects'[i].open}
<1>1. objects \in Seq(All) /\ n \in Nat
  <2>1. objects \in Seq(Range(objects))
    BY DEF FormTypes
  <2> QED BY <2>1, SeqMonotonic, LenProperties
<1>2. /\ objects' \in Seq(All) /\ DOMAIN objects = 1 .. n /\ DOMAIN objects' = 1 .. n + 1
      /\ \A i \in 1 .. n : objects'[i] = objects[i]
      /\ objects'[n + 1] = s
  BY <1>1, AppendProperties, LenProperties
<1>3. objects' \in Seq(Range(objects'))
  BY <1>2, SeqOfRange
<1>4. \A i \in DOMAIN objects' : IsRegion(objects'[i])
  BY <1>2, <1>1 DEF FormTypes
<1>5. IsFiniteSet(Had) /\ Cardinality(Had) \in Nat
  BY OpenedIsNat DEF Opened
<1>6. Has = IF s.open THEN Had \cup {n + 1} ELSE Had
  BY <1>1, <1>2
<1>7. n + 1 \notin Had
  BY <1>1, <1>2
<1>8. Cardinality(Has) = Cardinality(Had) + (IF s.open THEN 1 ELSE 0)
  <2> HIDE DEF n, Had, Has
  <2>1. CASE s.open
    <3>1. Has = Had \cup {n + 1}
      BY <2>1, <1>6
    <3>2. Cardinality(Had \cup {n + 1}) = Cardinality(Had) + 1
      BY <1>5, <1>7, FS_AddElement
    <3> QED BY <2>1, <3>1, <3>2
  <2>2. CASE ~s.open
    BY <2>2, <1>5, <1>6
  <2> QED BY <2>1, <2>2
<1>9. Opened(objects) = Cardinality(Had) /\ Opened(objects') = Cardinality(Has)
  BY DEF Opened
<1> HIDE DEF Had, Has
<1> QED BY <1>3, <1>4, <1>5, <1>8, <1>9

\* A section is born without a file, and none of its fields tells otherwise.
LEMMA NewRegion == \A t : IsRegion(NewSection(t)) /\ ~NewSection(t).open
BY DEF IsRegion, NewSection

\* What else is set in a section leaves it a section, and its file as it was.
LEMMA RegionChanged ==
    ASSUME NEW s, IsRegion(s), NEW f, f \notin {"open", "type", "state"}, NEW v
    PROVE  IsRegion([s EXCEPT ![f] = v]) /\ [s EXCEPT ![f] = v].open = s.open
BY DEF IsRegion

\* create_object opens a file for sections of type file only.
LEMMA RegionCreated ==
    ASSUME NEW s, IsRegion(s), ~s.open, NEW opens \in BOOLEAN
    PROVE  IsRegion(Created(s, opens))
<1> DEFINE typed == CASE s.ctype \in TextTypes \cup {""} -> [s EXCEPT !.type = "text"]
                      [] s.ctype \in FileTypes -> [s EXCEPT !.type = "file", !.open = opens]
                      [] s.ctype \in IgnoredTypes -> [s EXCEPT !.type = "file"]
                      [] OTHER -> s
<1>1. /\ typed = [f \in DOMAIN typed |-> typed[f]]
      /\ {"type", "open", "state", "decoding", "decoder"} \subseteq DOMAIN typed
      /\ typed.open \in BOOLEAN
      /\ typed.open => typed.type = "file"
  <2>1. CASE s.ctype \in TextTypes \cup {""}
    <3>1. typed = [s EXCEPT !.type = "text"]
      BY <2>1 DEF TextTypes, FileTypes, IgnoredTypes
    <3> HIDE DEF typed
    <3> QED BY <3>1 DEF IsRegion
  <2>2. CASE s.ctype \notin TextTypes \cup {""} /\ s.ctype \in FileTypes
    <3>1. typed = [s EXCEPT !.type = "file", !.open = opens]
      BY <2>2 DEF TextTypes, FileTypes, IgnoredTypes
    <3> HIDE DEF typed
    <3> QED BY <3>1 DEF IsRegion
  <2>3. CASE s.ctype \notin TextTypes \cup {""} \cup FileTypes /\ s.ctype \in IgnoredTypes
    <3>1. typed = [s EXCEPT !.type = "file"]
      BY <2>3 DEF TextTypes, FileTypes, IgnoredTypes
    <3> HIDE DEF typed
    <3> QED BY <3>1 DEF IsRegion
  <2>4. CASE s.ctype \notin TextTypes \cup {""} \cup FileTypes \cup IgnoredTypes
    <3>1. typed = s
      BY <2>4 DEF TextTypes, FileTypes, IgnoredTypes
    <3> HIDE DEF typed
    <3> QED BY <3>1 DEF IsRegion
  <2> QED BY <2>1, <2>2, <2>3, <2>4
<1>2. Created(s, opens) = [typed EXCEPT !.state = "file",
                                        !.decoding = s.ctype # "" /\ s.encoding # "",
                                        !.decoder = NewDecoder(s.encoding)]
  BY DEF Created
<1> HIDE DEF typed
<1> QED BY <1>1, <1>2 DEF IsRegion

\* A form without sections has no files.
LEMMA NoSections ==
    /\ <<>> \in Seq(Range(<<>>))
    /\ DOMAIN <<>> = {}
    /\ Opened(<<>>) = 0
<1>1. <<>> \in Seq({})
  BY EmptySeq
<1>2. <<>> \in Seq(Range(<<>>)) /\ DOMAIN <<>> = {}
  BY <1>1, SeqOfRange
<1> QED BY <1>2, FS_EmptySet DEF Opened

\* The initial states.
LEMMA FormInit == Init => FormInv
<1> SUFFICES ASSUME Init PROVE FormInv
  OBVIOUS
<1>1. objects = <<>> /\ disk = 0 /\ outcome = "reading"
  BY DEF Init
<1>2. IsRegion(section) /\ ~section.open
  <2>1. \E t : section = NewSection(t)
    BY DEF Init
  <2> QED BY <2>1, NewRegion
<1> QED BY <1>1, <1>2, NoSections DEF FormInv, FormTypes, FilesHaveOwner

\* A step that takes a character changes the section only; its file stays, but
\* where a header ends, and no form is complete while a section has one.
LEMMA SectionStep ==
    ASSUME FormInv, outcome = "reading", UNCHANGED <<objects, disk>>, IsRegion(section'),
           section'.open = section.open,
           outcome' = "complete" => ~section.open, outcome' \notin {"ended", "failed"}
    PROVE  FormInv'
BY DEF FormInv, FormTypes, FilesHaveOwner, Opened

\* A step that puts the section in work into the form.
LEMMA SectionKept ==
    ASSUME FormInv, outcome = "reading", objects' = Append(objects, section), UNCHANGED disk,
           NEW t, section' = NewSection(t)
    PROVE  FormInv'
<1>1. IsRegion(section') /\ ~section'.open
  BY NewRegion
<1>2. FormTypes /\ IsRegion(section) /\ section.open \in BOOLEAN
  BY DEF FormInv, FormTypes, IsRegion
<1>3. /\ objects' \in Seq(Range(objects')) /\ \A i \in DOMAIN objects' : IsRegion(objects'[i])
      /\ Opened(objects) \in Nat
      /\ Opened(objects') = Opened(objects) + (IF section.open THEN 1 ELSE 0)
  BY <1>2, OneMore
<1>4. disk' = Opened(objects')
  BY <1>3 DEF FormInv, FilesHaveOwner
<1>5. disk' \in Int
  BY DEF FormInv, FormTypes
<1>6. FormTypes'
  BY <1>1, <1>3, <1>5 DEF FormTypes
<1>7. FilesHaveOwner'
  BY <1>1, <1>3, <1>4 DEF FilesHaveOwner
<1> QED BY <1>6, <1>7 DEF FormInv

\* Every step keeps the files with their sections.
LEMMA FormStep == FormInv /\ [Next]_vars => FormInv'
<1> SUFFICES ASSUME FormInv, [Next]_vars PROVE FormInv'
  OBVIOUS
<1>0. IsRegion(section) /\ section.open \in BOOLEAN /\ (section.open => section.type = "file" /\ section.state = "file")
  BY DEF FormInv, FormTypes, IsRegion
<1>1. CASE StartsForm
  <2>1. IsRegion(section') /\ ~section'.open
    BY <1>0, <1>1 DEF StartsForm, IsRegion
  <2> QED BY <1>0, <1>1, <2>1, SectionStep DEF StartsForm, Taken, IsRegion
<1>2. CASE BoundInHeader
  BY <1>0, <1>2, SectionStep DEF BoundInHeader, Taken
<1>3. CASE EndsSection
  BY <1>3, SectionKept DEF EndsSection, Taken
<1>4. ASSUME NEW p, Skip(p) PROVE FormInv'
  BY <1>0, <1>4, SectionStep DEF Skip, Taken
<1>5. ASSUME NEW p, EnterSync(p) PROVE FormInv'
  BY <1>0, <1>5, SectionStep DEF EnterSync, InHeader, Taken, Throws
<1>6. ASSUME NEW p, SecondSync(p) PROVE FormInv'
  <2>1. outcome = "reading" /\ UNCHANGED <<objects, section, disk>> /\ ~section.open
    BY <1>0, <1>6 DEF SecondSync, InHeader, Taken
  <2>2. outcome' \notin {"ended", "failed"}
    BY <1>6 DEF SecondSync, InHeader, Taken, Throws
  <2> QED BY <1>0, <2>1, <2>2, SectionStep
<1>7. ASSUME NEW p, NameChar(p) PROVE FormInv'
  BY <1>0, <1>7, SectionStep DEF NameChar, InHeader, Taken
<1>8. ASSUME NEW p, ValueChar(p) PROVE FormInv'
  BY <1>0, <1>8, SectionStep DEF ValueChar, InHeader, Taken
<1>9. ASSUME NEW p, TextChar(p) PROVE FormInv'
  <2>1. IsRegion(section') /\ section'.open = section.open
    BY <1>0, <1>9 DEF TextChar, IsRegion
  <2> QED BY <1>9, <2>1, SectionStep DEF TextChar, Taken
<1>10. ASSUME NEW p, FileChar(p) PROVE FormInv'
  <2>1. IsRegion(section') /\ section'.open = section.open
    BY <1>0, <1>10 DEF FileChar, IsRegion
  <2> QED BY <1>10, <2>1, SectionStep DEF FileChar, Taken
<1>11. ASSUME NEW opens \in BOOLEAN, HeaderEnds(opens) PROVE FormInv'
  <2>1. /\ ~section.open /\ section' = Created(section, opens) /\ outcome = "reading"
        /\ UNCHANGED <<objects, outcome>>
        /\ disk' = disk + (IF section'.open /\ ~section.open THEN 1 ELSE 0)
    BY <1>0, <1>11 DEF HeaderEnds, InHeader, Taken
  <2>2. IsRegion(section')
    BY <1>0, <2>1, RegionCreated
  <2>3. section'.open \in BOOLEAN /\ disk = Opened(objects) /\ disk \in Int
    <3>1. section'.open \in BOOLEAN
      BY <2>2 DEF IsRegion
    <3>2. disk = Opened(objects) /\ disk \in Int
      <4>1. ~section.open
        BY <2>1
      <4>2. disk = Opened(objects) + 0 /\ disk \in Int
        BY <4>1 DEF FormInv, FormTypes, FilesHaveOwner
      <4>3. FormTypes
        BY DEF FormInv
      <4>4. Opened(objects) \in Nat
        BY <4>3, OpenedIsNat
      <4> HIDE DEF Opened
      <4> QED BY <4>2, <4>4
    <3> QED BY <3>1, <3>2
  <2>4. disk' = Opened(objects) + (IF section'.open THEN 1 ELSE 0) /\ disk' \in Int
    BY <2>1, <2>3
  <2>5. Opened(objects') = Opened(objects)
    BY <2>1
  <2>6. FormTypes'
    BY <2>1, <2>2, <2>4 DEF FormInv, FormTypes
  <2>7. FilesHaveOwner'
    BY <2>1, <2>4, <2>5 DEF FilesHaveOwner
  <2> QED BY <2>6, <2>7 DEF FormInv
<1>12. CASE HeaderLineEnds
  <2>0. ~section.open
    BY <1>0, <1>12 DEF HeaderLineEnds, InHeader
  <2>1. \/ section' = section
        \/ \E w, g, h : section' = [section EXCEPT !.name = w, !.filename = g, !.state = h]
        \/ \E w : section' = [section EXCEPT !.ctype = w]
        \/ \E w : section' = [section EXCEPT !.encoding = w]
    <3> DEFINE value == headerValue[1]
               Named(n) == headerName = <<Word(n)>> /\ Len(headerValue) = 1
               name == Named("content-disposition") /\ value.code = -2
               type == Named("content-type")
               coding == Named("content-transfer-encoding")
    <3>1. section' =
            CASE name ->
                   [section EXCEPT !.name = value.word,
                                   !.filename = IF value.file = "" THEN @ ELSE value.file,
                                   !.state = IF value.file = "" THEN "text" ELSE "file"]
              [] type -> [section EXCEPT !.ctype = value.word]
              [] coding -> [section EXCEPT !.encoding = value.word]
              [] OTHER -> section
      BY <1>12 DEF HeaderLineEnds
    <3>2. ~(name /\ type) /\ ~(name /\ coding) /\ ~(type /\ coding)
      <4>1. ASSUME NEW m, NEW n, Named(m), Named(n) PROVE m = n
        <5>1. Word(m) = headerName[1] /\ Word(n) = headerName[1]
          BY <4>1
        <5>2. Word(m).word = m /\ Word(n).word = n
          BY DEF Word
        <5> QED BY <5>1, <5>2
      <4> HIDE DEF Named
      <4> QED BY <4>1
    <3> HIDE DEF value, name, type, coding
    <3> QED BY <3>1, <3>2
  <2>2. IsRegion(section') /\ section'.open = section.open
    BY <1>0, <2>0, <2>1 DEF IsRegion
  <2> QED BY <1>12, <2>2, SectionStep DEF HeaderLineEnds, InHeader, Taken
<1>13. CASE ConnectionEnds
  <2>1. CASE section.state # "sync"
    BY <1>13, <2>1, SectionKept DEF ConnectionEnds
  <2>2. CASE section.state = "sync"
    <3>1. ~section.open /\ IsRegion(section') /\ ~section'.open
      BY <1>0, <1>13, <2>2, NewRegion DEF ConnectionEnds
    <3>2. UNCHANGED <<objects, disk>>
      BY <1>13, <2>2 DEF ConnectionEnds
    <3> QED BY <3>1, <3>2 DEF FormInv, FormTypes, FilesHaveOwner, Opened
  <2> QED BY <2>1, <2>2
<1>14. CASE SocketFails
  BY <1>0, <1>14, SectionStep DEF SocketFails
<1>15. CASE DeleteForm
  <2>1. /\ disk' = disk - Opened(objects) /\ objects' = <<>> /\ section' = section
        /\ outcome' = "deleted"
    BY <1>15 DEF DeleteForm
  <2>2. /\ disk = Opened(objects) + (IF section.open THEN 1 ELSE 0) /\ disk \in Int
        /\ Opened(objects) \in Nat
    <3>1. FormTypes /\ IsRegion(section)
      BY DEF FormInv, FormTypes
    <3>2. Opened(objects) \in Nat
      BY <3>1, OpenedIsNat
    <3> QED BY <3>2 DEF FormInv, FormTypes, FilesHaveOwner
  <2>3. disk' = (IF section.open THEN 1 ELSE 0) /\ disk' \in Int
    BY <2>1, <2>2
  <2>4. Opened(objects') = 0 /\ objects' \in Seq(Range(objects')) /\ DOMAIN objects' = {}
    BY <2>1, NoSections
  <2>5. FormTypes'
    BY <1>0, <2>1, <2>3, <2>4 DEF FormTypes
  <2>6. FilesHaveOwner'
    BY <2>1, <2>3, <2>4 DEF FilesHaveOwner
  <2> QED BY <2>5, <2>6 DEF FormInv
<1>16. CASE UNCHANGED vars
  BY <1>16 DEF vars, sent, header, FormInv, FormTypes, FilesHaveOwner, Opened
<1> QED BY <1>1, <1>2, <1>3, <1>4, <1>5, <1>6, <1>7, <1>8, <1>9, <1>10, <1>11, <1>12,
          <1>13, <1>14, <1>15, <1>16 DEF Next, Turn

\* A temporary file belongs to a section of the form or to the one in work, for
\* every form, and whenever and however the connection ends.
THEOREM FilesOwned == Spec => []FilesHaveOwner
<1>1. FormInv => FilesHaveOwner
  BY DEF FormInv
<1> QED BY <1>1, FormInit, FormStep, PTL DEF Spec
-----------------------------------------------------------------------------
(* Decoders.  A base64 letter, and the groups an encoder makes of three     *)
(* bytes; what base64_decoder has when a group is begun.                    *)

Byte == 0 .. 255

\* Every number of six bits has a letter, and the table finds it again.
LEMMA Letters ==
    ASSUME NEW n \in 0 .. 63
    PROVE  Letter(n) \in Alphabet /\ Sextet[Letter(n)] = n
<1>1. \E c \in Alphabet : Sextet[c] = n
  <2>1. CASE n < 26
    <3>1. n + 65 \in Alphabet /\ Sextet[n + 65] = n
      BY <2>1 DEF Alphabet, Sextet
    <3> QED BY <3>1
  <2>2. CASE n \in 26 .. 51
    <3>1. n + 71 \in Alphabet /\ Sextet[n + 71] = n
      BY <2>2 DEF Alphabet, Sextet
    <3> QED BY <3>1
  <2>3. CASE n \in 52 .. 61
    <3>1. n - 4 \in Alphabet /\ Sextet[n - 4] = n
      BY <2>3 DEF Alphabet, Sextet
    <3> QED BY <3>1
  <2>4. CASE n = 62
    <3>1. 43 \in Alphabet /\ Sextet[43] = n
      BY <2>4 DEF Alphabet, Sextet
    <3> QED BY <3>1
  <2>5. CASE n = 63
    <3>1. 47 \in Alphabet /\ Sextet[47] = n
      BY <2>5 DEF Alphabet, Sextet
    <3> QED BY <3>1
  <2> QED BY <2>1, <2>2, <2>3, <2>4, <2>5
<1>2. Letter(n) = CHOOSE c \in Alphabet : Sextet[c] = n
  BY DEF Letter
<1> HIDE DEF Sextet, Alphabet
<1> QED BY <1>1, <1>2

\* No letter is padding or a line end.
LEMMA LetterIsPlain ==
    ASSUME NEW c \in Alphabet
    PROVE  c \in Byte /\ c # CR /\ c # LF /\ c # Equals
BY DEF Alphabet, Byte, CR, LF, Equals

\* The i-th byte of a group, and the i-th six bits.
At(b, i) == IF i <= Len(b) THEN b[i] ELSE 0
Six(b, i) == IF i = 1 THEN At(b, 1) \div 4
             ELSE IF i = 2 THEN (At(b, 1) % 4) * 16 + At(b, 2) \div 16
             ELSE IF i = 3 THEN (At(b, 2) % 16) * 4 + At(b, 3) \div 64
             ELSE At(b, 3) % 64

\* Three bytes are twenty-four bits.
LEMMA ThreeBytes ==
    ASSUME NEW x \in Byte, NEW y \in Byte, NEW z \in Byte, NEW q,
           q = <<x \div 4, (x % 4) * 16 + y \div 16, (y % 16) * 4 + z \div 64, z % 64>>
    PROVE  /\ Bits(q) = x * 65536 + y * 256 + z
           /\ Octet(Bits(q), 2) = x /\ Octet(Bits(q), 1) = y /\ Octet(Bits(q), 0) = z
<1>1. Bits(q) = x * 65536 + y * 256 + z
  BY DEF Bits, Byte
<1>2. /\ Octet(Bits(q), 2) = (Bits(q) \div 65536) % 256
      /\ Octet(Bits(q), 1) = (Bits(q) \div 256) % 256
      /\ Octet(Bits(q), 0) = (Bits(q) \div 1) % 256
  BY DEF Octet
<1>3. ((x * 65536 + y * 256 + z) \div 65536) % 256 = x
  BY DEF Byte
<1>4. ((x * 65536 + y * 256 + z) \div 256) % 256 = y
  <2>1. \A m \in Nat : (m * 256 + z) \div 256 = m
    BY DEF Byte
  <2>2. x * 256 + y \in Nat /\ x * 65536 + y * 256 + z = (x * 256 + y) * 256 + z
    BY DEF Byte
  <2>3. (x * 65536 + y * 256 + z) \div 256 = x * 256 + y
    BY <2>1, <2>2
  <2>4. (x * 256 + y) % 256 = y
    BY DEF Byte
  <2> QED BY <2>3, <2>4
<1>5. ((x * 65536 + y * 256 + z) \div 1) % 256 = z
  BY DEF Byte
<1> QED BY <1>1, <1>2, <1>3, <1>4, <1>5

\* A group of one to three bytes: so many letters and one more, then padding.
LEMMA GroupIs ==
    ASSUME NEW b \in Seq(Byte), Len(b) \in 1 .. 3
    PROVE  /\ Group(b) \in Seq(Byte) /\ Len(Group(b)) = 4
           /\ \A i \in 1 .. 4 :
                /\ Six(b, i) \in 0 .. 63
                /\ i <= Len(b) + 1 => Group(b)[i] \in Alphabet /\ Sextet[Group(b)[i]] = Six(b, i)
                /\ i > Len(b) + 1 => Group(b)[i] = Equals /\ Six(b, i) = 0
<1>1. At(b, 1) \in Byte /\ At(b, 2) \in Byte /\ At(b, 3) \in Byte
  <2>1. \A i \in 1 .. Len(b) : b[i] \in Byte
    BY ElementOfSeq
  <2> QED BY <2>1 DEF At, Byte
<1>2. Six(b, 1) \in 0 .. 63 /\ Six(b, 2) \in 0 .. 63 /\ Six(b, 3) \in 0 .. 63 /\ Six(b, 4) \in 0 .. 63
  <2> DEFINE x == At(b, 1)  y == At(b, 2)  z == At(b, 3)
  <2>1. x \in Byte /\ y \in Byte /\ z \in Byte
    BY <1>1
  <2>2. /\ Six(b, 1) = x \div 4 /\ Six(b, 2) = (x % 4) * 16 + y \div 16
        /\ Six(b, 3) = (y % 16) * 4 + z \div 64 /\ Six(b, 4) = z % 64
    BY DEF Six
  <2> HIDE DEF x, y, z
  <2>3. x \div 4 \in 0 .. 63 /\ z % 64 \in 0 .. 63
    BY <2>1 DEF Byte
  <2>4. (x % 4) * 16 + y \div 16 \in 0 .. 63
    BY <2>1 DEF Byte
  <2>5. (y % 16) * 4 + z \div 64 \in 0 .. 63
    BY <2>1 DEF Byte
  <2> QED BY <2>2, <2>3, <2>4, <2>5
<1>3. Group(b) = <<Letter(Six(b, 1)), Letter(Six(b, 2)),
                   IF Len(b) < 2 THEN Equals ELSE Letter(Six(b, 3)),
                   IF Len(b) < 3 THEN Equals ELSE Letter(Six(b, 4))>>
  BY DEF Group, Six, At
<1>4. (Len(b) < 2 => Six(b, 3) = 0) /\ (Len(b) < 3 => Six(b, 4) = 0)
  <2>1. (Len(b) < 2 => At(b, 2) = 0 /\ At(b, 3) = 0) /\ (Len(b) < 3 => At(b, 3) = 0)
    BY DEF At
  <2> QED BY <2>1 DEF Six
<1> DEFINE w == <<Letter(Six(b, 1)), Letter(Six(b, 2)),
                   IF Len(b) < 2 THEN Equals ELSE Letter(Six(b, 3)),
                   IF Len(b) < 3 THEN Equals ELSE Letter(Six(b, 4))>>
<1>5. /\ Letter(Six(b, 1)) \in Alphabet /\ Sextet[Letter(Six(b, 1))] = Six(b, 1)
      /\ Letter(Six(b, 2)) \in Alphabet /\ Sextet[Letter(Six(b, 2))] = Six(b, 2)
      /\ Letter(Six(b, 3)) \in Alphabet /\ Sextet[Letter(Six(b, 3))] = Six(b, 3)
      /\ Letter(Six(b, 4)) \in Alphabet /\ Sextet[Letter(Six(b, 4))] = Six(b, 4)
  BY <1>2, Letters
<1>6. /\ w[1] = Letter(Six(b, 1)) /\ w[2] = Letter(Six(b, 2))
      /\ w[3] = (IF Len(b) < 2 THEN Equals ELSE Letter(Six(b, 3)))
      /\ w[4] = (IF Len(b) < 3 THEN Equals ELSE Letter(Six(b, 4)))
      /\ Len(w) = 4
  OBVIOUS
<1>7. Alphabet \subseteq Byte /\ Equals \in Byte
  BY LetterIsPlain DEF Equals, Byte
<1>8. w[1] \in Byte /\ w[2] \in Byte /\ w[3] \in Byte /\ w[4] \in Byte
  BY <1>5, <1>6, <1>7
<1>9. w \in Seq(Byte)
  BY <1>5, <1>7
<1>10. ASSUME NEW i \in 1 .. 4
       PROVE  /\ Six(b, i) \in 0 .. 63
              /\ i <= Len(b) + 1 => w[i] \in Alphabet /\ Sextet[w[i]] = Six(b, i)
              /\ i > Len(b) + 1 => w[i] = Equals /\ Six(b, i) = 0
  <2> HIDE DEF w
  <2>1. CASE i = 1
    BY <2>1, <1>2, <1>5, <1>6
  <2>2. CASE i = 2
    <3>1. ~(i > Len(b) + 1)
      BY <2>2
    <3>2. w[i] = Letter(Six(b, 2)) /\ Six(b, i) = Six(b, 2)
      BY <2>2, <1>6
    <3> QED BY <3>1, <3>2, <1>2, <1>5
  <2>3. CASE i = 3
    BY <2>3, <1>2, <1>4, <1>5, <1>6
  <2>4. CASE i = 4
    BY <2>4, <1>2, <1>4, <1>5, <1>6
  <2> QED BY <2>1, <2>2, <2>3, <2>4
<1> QED BY <1>3, <1>6, <1>9, <1>10

-----------------------------------------------------------------------------
(* base64_decoder *)

NumGroups(c) == (Len(c) + 2) \div 3
GroupBytes(c, g) == SubSeq(c, 3 * g - 2, IF 3 * g < Len(c) THEN 3 * g ELSE Len(c))

\* A group has three bytes, the last one what is left.
LEMMA GroupBytesIs ==
    ASSUME NEW c \in Seq(Byte), NEW g \in 1 .. NumGroups(c)
    PROVE  LET b == GroupBytes(c, g) IN
           /\ b \in Seq(Byte) /\ Len(b) \in 1 .. 3
           /\ Len(b) = IF 3 * g < Len(c) THEN 3 ELSE Len(c) - 3 * g + 3
           /\ \A i \in 1 .. Len(b) : b[i] = c[3 * g - 3 + i] /\ b[i] \in Byte
           /\ 3 * g - 3 < Len(c)
           /\ g < NumGroups(c) => 3 * g < Len(c)
<1> DEFINE n == Len(c)
           e == IF 3 * g < n THEN 3 * g ELSE n
           b == GroupBytes(c, g)
<1>0. n \in Nat
  BY LenProperties
<1>1. 3 * g - 3 < n /\ (g < NumGroups(c) => 3 * g < n) /\ g \in Nat \ {0}
  <2>1. g <= (n + 2) \div 3 /\ g \in Nat \ {0}
    BY <1>0 DEF NumGroups
  <2>2. g < NumGroups(c) => g + 1 <= (n + 2) \div 3
    BY <1>0, <2>1 DEF NumGroups
  <2> HIDE DEF n
  <2> QED BY <1>0, <2>1, <2>2
<1>2. b = SubSeq(c, 3 * g - 2, e)
  BY DEF GroupBytes
<1>3. /\ 3 * g - 2 \in 1 .. n /\ e \in 3 * g - 2 .. n
      /\ e - (3 * g - 2) + 1 = IF 3 * g < n THEN 3 ELSE n - 3 * g + 3
      /\ e - (3 * g - 2) + 1 \in 1 .. 3
  <2> HIDE DEF n
  <2> QED BY <1>0, <1>1
<1>4. /\ SubSeq(c, 3 * g - 2, e) \in Seq(Byte)
      /\ Len(SubSeq(c, 3 * g - 2, e)) = e - (3 * g - 2) + 1
      /\ \A i \in 1 .. e - (3 * g - 2) + 1 : SubSeq(c, 3 * g - 2, e)[i] = c[3 * g - 2 + i - 1]
  <2> HIDE DEF e
  <2> QED BY <1>3, SubSeqProperties
<1>5. \A i \in 1 .. Len(b) : b[i] = c[3 * g - 3 + i] /\ b[i] \in Byte
  <2> HIDE DEF e
  <2>1. ASSUME NEW i \in 1 .. Len(b) PROVE b[i] = c[3 * g - 3 + i]
    <3>1. 3 * g - 2 + i - 1 = 3 * g - 3 + i
      BY <1>1
    <3> QED BY <1>2, <1>3, <1>4, <3>1
  <2>2. b \in Seq(Byte)
    BY <1>2, <1>4
  <2> QED BY <2>1, <2>2, ElementOfSeq
<1>6. b \in Seq(Byte) /\ Len(b) \in 1 .. 3 /\ Len(b) = IF 3 * g < n THEN 3 ELSE n - 3 * g + 3
  <2> HIDE DEF e, n
  <2> QED BY <1>2, <1>3, <1>4
<1> QED BY <1>1, <1>5, <1>6

\* The bytes of the first g groups.
Before(c, g) == SubSeq(c, 1, IF 3 * g < Len(c) THEN 3 * g ELSE Len(c))

\* The decoder waits for a character.
Waiting(k, q, t) == [stage |-> "in", skiper |-> k, sextets |-> q, triple |-> t]

\* The sextets and the padding of a group b of which i characters were taken.
Progress(b, i, q, k) ==
    /\ q \in Seq(Nat) /\ Len(q) = i
    /\ \A j \in 1 .. i : q[j] = Six(b, j)
    /\ k = IF i > Len(b) + 1 THEN i - Len(b) - 1 ELSE 0

\* i of the four characters of group g were taken, and then all of them.
InGroup(c, g, i, d, bytes) ==
    /\ \E k, q, t : d = Waiting(k, q, t) /\ Progress(GroupBytes(c, g), i, q, k)
    /\ bytes = Before(c, g - 1)
AfterGroup(c, g, d, bytes) ==
    /\ \E k, t : d = Waiting(k, <<>>, t) /\ (g < NumGroups(c) => k = 0)
    /\ bytes = Before(c, g)

\* The next group begins.
LEMMA GroupBegins ==
    ASSUME NEW c \in Seq(Byte), NEW g \in 0 .. NumGroups(c) - 1, NEW d, NEW bytes,
           AfterGroup(c, g, d, bytes)
    PROVE  InGroup(c, g + 1, 0, d, bytes)
<1>0. NumGroups(c) \in Nat
  BY LenProperties DEF NumGroups
<1>1. g < NumGroups(c) /\ g + 1 \in 1 .. NumGroups(c) /\ (g + 1) - 1 = g
  BY <1>0
<1>2. Len(GroupBytes(c, g + 1)) \in 1 .. 3
  BY <1>1, GroupBytesIs
<1>3. PICK k, t : d = Waiting(k, <<>>, t) /\ (g < NumGroups(c) => k = 0)
  BY DEF AfterGroup
<1>4. Progress(GroupBytes(c, g + 1), 0, <<>>, k)
  BY <1>1, <1>2, <1>3 DEF Progress
<1>5. bytes = Before(c, (g + 1) - 1)
  BY <1>1 DEF AfterGroup
<1> HIDE DEF Before
<1> QED BY <1>3, <1>4, <1>5 DEF InGroup

\* One more character of the group.
LEMMA OneMoreSix ==
    ASSUME NEW b \in Seq(Byte), Len(b) \in 1 .. 3, NEW i \in 0 .. 3, NEW q, NEW k,
           Progress(b, i, q, k),
           NEW ch, ch = Group(b)[i + 1],
           NEW x, x = (IF ch = Equals THEN 0 ELSE Sextet[ch]),
           NEW m, m = (IF ch = Equals THEN k + 1 ELSE k)
    PROVE  ch \notin {CR, LF} /\ Progress(b, i + 1, Append(q, x), m)
<1>1. /\ Six(b, i + 1) \in 0 .. 63
      /\ i + 1 <= Len(b) + 1 => ch \in Alphabet /\ Sextet[ch] = Six(b, i + 1)
      /\ i + 1 > Len(b) + 1 => ch = Equals /\ Six(b, i + 1) = 0
  <2>1. i + 1 \in 1 .. 4
    OBVIOUS
  <2> QED BY <2>1, GroupIs
<1>2. Equals # CR /\ Equals # LF
  BY DEF Equals, CR, LF
<1>3. ch \notin {CR, LF} /\ x = Six(b, i + 1) /\ (ch = Equals <=> i + 1 > Len(b) + 1)
  <2>1. CASE i + 1 <= Len(b) + 1
    BY <2>1, <1>1, <1>2, LetterIsPlain
  <2>2. CASE i + 1 > Len(b) + 1
    BY <2>2, <1>1, <1>2
  <2> QED BY <2>1, <2>2
<1>4. /\ q \in Seq(Nat) /\ Len(q) = i /\ (\A j \in 1 .. i : q[j] = Six(b, j))
      /\ k = IF i > Len(b) + 1 THEN i - Len(b) - 1 ELSE 0
  BY DEF Progress
<1>5. x \in Nat
  <2>1. \A j \in 1 .. 4 : Six(b, j) \in 0 .. 63
    BY GroupIs
  <2>2. i + 1 \in 1 .. 4
    OBVIOUS
  <2>3. PICK y : y = Six(b, i + 1)
    OBVIOUS
  <2>4. y \in 0 .. 63
    BY <2>1, <2>2, <2>3
  <2>5. y \in Nat
    BY <2>4
  <2> QED BY <2>3, <2>5, <1>3, Zenon
<1>6. /\ Append(q, x) \in Seq(Nat) /\ Len(Append(q, x)) = i + 1
      /\ \A j \in 1 .. i : Append(q, x)[j] = q[j]
      /\ Append(q, x)[i + 1] = x
  BY <1>4, <1>5, AppendProperties
<1>7. ASSUME NEW j \in 1 .. i + 1 PROVE Append(q, x)[j] = Six(b, j)
  <2>1. CASE j = i + 1
    BY <2>1, <1>3, <1>6
  <2>2. CASE j # i + 1
    <3>1. j \in 1 .. i
      BY <2>2
    <3> QED BY <3>1, <1>4, <1>6
  <2> QED BY <2>1, <2>2
<1>8. m = IF i + 1 > Len(b) + 1 THEN i + 1 - Len(b) - 1 ELSE 0
  <2>1. CASE i + 1 > Len(b) + 1
    BY <2>1, <1>3, <1>4
  <2>2. CASE ~(i + 1 > Len(b) + 1)
    BY <2>2, <1>3, <1>4
  <2> QED BY <2>1, <2>2
<1> QED BY <1>3, <1>6, <1>7, <1>8 DEF Progress

\* What the decoder makes of a character that is no line end.
LEMMA DecoderTakes ==
    ASSUME NEW k, NEW q, NEW t, NEW ch, ch \notin {CR, LF},
           NEW x, x = (IF ch = Equals THEN 0 ELSE Sextet[ch]),
           NEW m, m = (IF ch = Equals THEN k + 1 ELSE k)
    PROVE  Base64In(Waiting(k, q, t), ch) =
              IF Len(Append(q, x)) < 4 THEN Answer(Waiting(m, Append(q, x), t), "need_more", 0)
              ELSE Fourth(Waiting(m, Append(q, x), t))
<1> DEFINE d == Waiting(k, q, t)
           taken == [d EXCEPT !.sextets = Append(@, IF ch = Equals THEN 0 ELSE Sextet[ch]),
                              !.skiper = IF ch = Equals THEN @ + 1 ELSE @]
<1>1. taken = Waiting(m, Append(q, x), t)
  <2>1. d.stage = "in" /\ d.skiper = k /\ d.sextets = q /\ d.triple = t
    BY DEF Waiting
  <2>2. DOMAIN d = {"stage", "skiper", "sextets", "triple"} /\ d = [f \in DOMAIN d |-> d[f]]
    BY DEF Waiting
  <2>3. taken = [d EXCEPT !.sextets = Append(q, x), !.skiper = m]
    BY <2>1, Zenon
  <2> HIDE DEF taken, d
  <2>4. taken = [stage |-> d.stage, skiper |-> m, sextets |-> Append(q, x), triple |-> d.triple]
    BY <2>2, <2>3
  <2> QED BY <2>1, <2>4 DEF Waiting
<1>2. d.stage = "in" /\ taken.sextets = Append(q, x)
  BY <1>1 DEF Waiting
<1>3. Base64In(d, ch) = IF ch \in {CR, LF} THEN Answer(d, "need_more", 0)
       ELSE IF d.stage # "in" THEN Answer(d, "throw", 0)
       ELSE IF Len(taken.sextets) < 4 THEN Answer(taken, "need_more", 0)
       ELSE Fourth(taken)
  BY DEF Base64In
<1> HIDE DEF taken
<1> QED BY <1>1, <1>2, <1>3

\* What the caller gets of the answers: nothing, one byte, two or three.
LEMMA GivesNone ==
    ASSUME NEW e, NEW d, NEW ch, NEW f, NEW y,
           In(e, d, ch) = Answer(f, "need_more", y)
    PROVE  Decoded(e, d, ch) = [decoder |-> f, bytes |-> <<>>]
<1> DEFINE a == In(e, d, ch)
           b == More(e, a.decoder)
           g == More(e, b.decoder)
<1>1. a.status = "need_more" /\ a.decoder = f
  BY DEF Answer
<1>2. Decoded(e, d, ch) =
        CASE a.status = "need_more" -> [decoder |-> a.decoder, bytes |-> <<>>]
          [] a.status = "data" -> [decoder |-> a.decoder, bytes |-> <<a.ch>>]
          [] a.status = "have_more" /\ b.status = "data" ->
               [decoder |-> b.decoder, bytes |-> <<a.ch, b.ch>>]
          [] a.status = "have_more" /\ b.status = "have_more" ->
               [decoder |-> g.decoder, bytes |-> <<a.ch, b.ch, g.ch>>]
  BY DEF Decoded
<1> HIDE DEF a, b, g
<1> QED BY <1>1, <1>2

\* The caller gets one byte where the decoder has no more to give.
LEMMA GivesOne ==
    ASSUME NEW e, NEW d, NEW ch, NEW f, NEW y,
           In(e, d, ch) = Answer(f, "data", y)
    PROVE  Decoded(e, d, ch) = [decoder |-> f, bytes |-> <<y>>]
<1> DEFINE a == In(e, d, ch)
           b == More(e, a.decoder)
           g == More(e, b.decoder)
<1>1. a.status = "data" /\ a.decoder = f /\ a.ch = y
  BY DEF Answer
<1>2. Decoded(e, d, ch) =
        CASE a.status = "need_more" -> [decoder |-> a.decoder, bytes |-> <<>>]
          [] a.status = "data" -> [decoder |-> a.decoder, bytes |-> <<a.ch>>]
          [] a.status = "have_more" /\ b.status = "data" ->
               [decoder |-> b.decoder, bytes |-> <<a.ch, b.ch>>]
          [] a.status = "have_more" /\ b.status = "have_more" ->
               [decoder |-> g.decoder, bytes |-> <<a.ch, b.ch, g.ch>>]
  BY DEF Decoded
<1> HIDE DEF a, b, g
<1> QED BY <1>1, <1>2

\* It gets two where the decoder says once that it has more.
LEMMA GivesTwo ==
    ASSUME NEW e, NEW d, NEW ch, NEW f, NEW y, NEW h, NEW z,
           In(e, d, ch) = Answer(f, "have_more", y), More(e, f) = Answer(h, "data", z)
    PROVE  Decoded(e, d, ch) = [decoder |-> h, bytes |-> <<y, z>>]
<1> DEFINE a == In(e, d, ch)
           b == More(e, a.decoder)
           g == More(e, b.decoder)
<1>0. a.status = "have_more" /\ a.decoder = f /\ a.ch = y
  BY DEF Answer
<1>3. b = Answer(h, "data", z)
  BY <1>0
<1>1. a.status = "have_more" /\ a.ch = y /\ b.status = "data" /\ b.decoder = h /\ b.ch = z
  <2> HIDE DEF a, b
  <2> QED BY <1>0, <1>3 DEF Answer
<1>2. Decoded(e, d, ch) =
        CASE a.status = "need_more" -> [decoder |-> a.decoder, bytes |-> <<>>]
          [] a.status = "data" -> [decoder |-> a.decoder, bytes |-> <<a.ch>>]
          [] a.status = "have_more" /\ b.status = "data" ->
               [decoder |-> b.decoder, bytes |-> <<a.ch, b.ch>>]
          [] a.status = "have_more" /\ b.status = "have_more" ->
               [decoder |-> g.decoder, bytes |-> <<a.ch, b.ch, g.ch>>]
  BY DEF Decoded
<1> HIDE DEF a, b, g
<1> QED BY <1>1, <1>2

\* It gets three where the decoder says so twice.
LEMMA GivesThree ==
    ASSUME NEW e, NEW d, NEW ch, NEW f, NEW y, NEW h, NEW z, NEW k, NEW x,
           In(e, d, ch) = Answer(f, "have_more", y), More(e, f) = Answer(h, "have_more", z),
           More(e, h) = Answer(k, "data", x)
    PROVE  Decoded(e, d, ch) = [decoder |-> k, bytes |-> <<y, z, x>>]
<1> DEFINE a == In(e, d, ch)
           b == More(e, a.decoder)
           g == More(e, b.decoder)
<1>0. a.status = "have_more" /\ a.decoder = f /\ a.ch = y
  BY DEF Answer
<1>3. b = Answer(h, "have_more", z)
  BY <1>0
<1>4. b.status = "have_more" /\ b.decoder = h /\ b.ch = z
  <2> HIDE DEF b
  <2> QED BY <1>3 DEF Answer
<1>5. g = Answer(k, "data", x)
  <2> HIDE DEF b
  <2> QED BY <1>4
<1>1. /\ a.status = "have_more" /\ a.ch = y /\ b.status = "have_more" /\ b.decoder = h /\ b.ch = z
      /\ g.decoder = k /\ g.ch = x
  <2> HIDE DEF a, b, g
  <2> QED BY <1>0, <1>4, <1>5 DEF Answer
<1>2. Decoded(e, d, ch) =
        CASE a.status = "need_more" -> [decoder |-> a.decoder, bytes |-> <<>>]
          [] a.status = "data" -> [decoder |-> a.decoder, bytes |-> <<a.ch>>]
          [] a.status = "have_more" /\ b.status = "data" ->
               [decoder |-> b.decoder, bytes |-> <<a.ch, b.ch>>]
          [] a.status = "have_more" /\ b.status = "have_more" ->
               [decoder |-> g.decoder, bytes |-> <<a.ch, b.ch, g.ch>>]
  BY DEF Decoded
<1> HIDE DEF a, b, g
<1> QED BY <1>1, <1>2

\* One of the first three characters of a group gives no byte.
LEMMA LetterTaken ==
    ASSUME NEW c \in Seq(Byte), NEW g \in 1 .. NumGroups(c), NEW i \in 0 .. 2, NEW d, NEW bytes,
           InGroup(c, g, i, d, bytes),
           NEW ch, ch = Group(GroupBytes(c, g))[i + 1]
    PROVE  \E f : /\ Decoded("base64", d, ch) = [decoder |-> f, bytes |-> <<>>]
                  /\ InGroup(c, g, i + 1, f, bytes)
<1> DEFINE b == GroupBytes(c, g)
<1>0. b \in Seq(Byte) /\ Len(b) \in 1 .. 3
  BY GroupBytesIs
<1>1. PICK k, q, t : d = Waiting(k, q, t) /\ Progress(b, i, q, k)
  BY DEF InGroup
<1>2. PICK x : x = IF ch = Equals THEN 0 ELSE Sextet[ch]
  OBVIOUS
<1>3. PICK m : m = IF ch = Equals THEN k + 1 ELSE k
  OBVIOUS
<1> HIDE DEF b
<1>4. ch \notin {CR, LF} /\ Progress(b, i + 1, Append(q, x), m)
  <2>1. i \in 0 .. 3 /\ ch = Group(b)[i + 1]
    BY DEF b
  <2> QED BY <1>0, <1>1, <1>2, <1>3, <2>1, OneMoreSix
<1> DEFINE f == Waiting(m, Append(q, x), t)
<1>5. Base64In(d, ch) = Answer(f, "need_more", 0)
  <2>1. Len(Append(q, x)) = i + 1 /\ i + 1 < 4
    BY <1>4 DEF Progress
  <2>2. Base64In(Waiting(k, q, t), ch) =
              IF Len(Append(q, x)) < 4 THEN Answer(Waiting(m, Append(q, x), t), "need_more", 0)
              ELSE Fourth(Waiting(m, Append(q, x), t))
    BY <1>2, <1>3, <1>4, DecoderTakes
  <2> QED BY <1>1, <2>1, <2>2
<1> HIDE DEF f
<1>6. Decoded("base64", d, ch) = [decoder |-> f, bytes |-> <<>>]
  <2>1. In("base64", d, ch) = Answer(f, "need_more", 0)
    BY <1>5 DEF In
  <2> QED BY <2>1, GivesNone
<1>7. InGroup(c, g, i + 1, f, bytes)
  <2>1. bytes = Before(c, g - 1)
    BY DEF InGroup
  <2> QED BY <1>4, <2>1 DEF InGroup, f, b
<1> QED BY <1>6, <1>7

\* The decoder while it has more bytes to give.
Holding(stage, k, t) == [stage |-> stage, skiper |-> k, sextets |-> <<>>, triple |-> t]

\* What the fourth character makes of it, and what it gives when it is asked again.
LEMMA FourthGives ==
    ASSUME NEW k \in 0 .. 2, NEW q, NEW t, NEW u, u = Bits(q)
    PROVE  Fourth(Waiting(k, q, t)) =
             IF k = 0 THEN Answer(Holding("five", k, u), "have_more", Octet(u, 2))
             ELSE IF k = 1 THEN Answer(Holding("last", k, u), "have_more", Octet(u, 2))
             ELSE Answer(Holding("in", k, u), "data", Octet(u, 2))
<1> DEFINE d == Waiting(k, q, t)
           full == [d EXCEPT !.triple = u, !.sextets = <<>>]
<1>0. d.stage = "in" /\ d.skiper = k /\ d.sextets = q /\ d.triple = t
  BY DEF Waiting
<1>1. DOMAIN d = {"stage", "skiper", "sextets", "triple"} /\ d = [f \in DOMAIN d |-> d[f]]
  BY DEF Waiting
<1>2. full = [d EXCEPT !.triple = u, !.sextets = <<>>]
  OBVIOUS
<1>3. full = Holding("in", k, u)
  <2> HIDE DEF full, d
  <2>1. full = [stage |-> d.stage, skiper |-> d.skiper, sextets |-> <<>>, triple |-> u]
    BY <1>1, <1>2
  <2> QED BY <1>0, <2>1 DEF Holding
<1>4. [full EXCEPT !.stage = "five"] = Holding("five", k, u) /\ [full EXCEPT !.stage = "last"] = Holding("last", k, u)
  <2> HIDE DEF full
  <2> QED BY <1>3 DEF Holding
<1>5. Fourth(d) = CASE d.skiper = 0 -> Answer([full EXCEPT !.stage = "five"], "have_more", Octet(u, 2))
        [] d.skiper = 1 -> Answer([full EXCEPT !.stage = "last"], "have_more", Octet(u, 2))
        [] d.skiper = 2 -> Answer(full, "data", Octet(u, 2))
        [] OTHER -> Answer(d, "unset", Octet(u, 2))
  <2>1. u = Bits(d.sextets)
    BY <1>0
  <2> HIDE DEF d
  <2> QED BY <2>1, Zenon DEF Fourth
<1> HIDE DEF full, d
<1>6. Fourth(d) = CASE k = 0 -> Answer(Holding("five", k, u), "have_more", Octet(u, 2))
        [] k = 1 -> Answer(Holding("last", k, u), "have_more", Octet(u, 2))
        [] k = 2 -> Answer(Holding("in", k, u), "data", Octet(u, 2))
        [] OTHER -> Answer(d, "unset", Octet(u, 2))
  BY <1>0, <1>3, <1>4, <1>5, Zenon
<1>7. k = 0 \/ k = 1 \/ k = 2
  OBVIOUS
<1> QED BY <1>6, <1>7 DEF d

\* What the decoder of base64 gives while it is asked for more.
LEMMA HoldingGives ==
    ASSUME NEW k, NEW u
    PROVE  /\ Base64More(Holding("five", k, u)) = Answer(Holding("six", k, u), "have_more", Octet(u, 1))
           /\ Base64More(Holding("six", k, u)) = Answer(Holding("in", k, u), "data", Octet(u, 0))
           /\ Base64More(Holding("last", k, u)) = Answer(Holding("in", k, u), "data", Octet(u, 1))
<1>1. \A x : Holding(x, k, u).stage = x /\ Holding(x, k, u).triple = u
  BY DEF Holding
<1>2. \A x, y : [Holding(x, k, u) EXCEPT !.stage = y] = Holding(y, k, u)
  BY DEF Holding
<1>3. Base64More(Holding("five", k, u)) = Answer(Holding("six", k, u), "have_more", Octet(u, 1))
  BY <1>1, <1>2, Zenon DEF Base64More
<1>4. Base64More(Holding("six", k, u)) = Answer(Holding("in", k, u), "data", Octet(u, 0))
  BY <1>1, <1>2, Zenon DEF Base64More
<1>5. Base64More(Holding("last", k, u)) = Answer(Holding("in", k, u), "data", Octet(u, 1))
  BY <1>1, <1>2, Zenon DEF Base64More
<1> QED BY <1>3, <1>4, <1>5

\* The bytes of one more group.
LEMMA BeforeGrows ==
    ASSUME NEW c \in Seq(Byte), NEW g \in 1 .. NumGroups(c)
    PROVE  Before(c, g - 1) \o GroupBytes(c, g) = Before(c, g)
<1> DEFINE n == Len(c)
           e == IF 3 * g < n THEN 3 * g ELSE n
<1>0. n \in Nat /\ g \in Nat \ {0} /\ 3 * g - 3 < n
  BY GroupBytesIs, LenProperties DEF NumGroups
<1>1. Before(c, g - 1) = SubSeq(c, 1, 3 * g - 3)
  <2>1. 3 * (g - 1) = 3 * g - 3
    BY <1>0
  <2> QED BY <1>0, <2>1 DEF Before
<1>2. GroupBytes(c, g) = SubSeq(c, (3 * g - 3) + 1, e)
  <2>1. (3 * g - 3) + 1 = 3 * g - 2
    BY <1>0
  <2> QED BY <2>1 DEF GroupBytes
<1>3. Before(c, g) = SubSeq(c, 1, e)
  BY DEF Before
<1>4. 1 \in 1 .. Len(c) + 1 /\ 3 * g - 3 \in 0 .. Len(c) /\ e \in 3 * g - 3 .. Len(c) /\ 1 - 1 = 0
  BY <1>0
<1> HIDE DEF e
<1>5. SubSeq(c, 1, 3 * g - 3) \o SubSeq(c, (3 * g - 3) + 1, e) = SubSeq(c, 1, e)
  BY <1>4, ConcatAdjacentSubSeq
<1> QED BY <1>1, <1>2, <1>3, <1>5

\* The last character of a group gives all its bytes.
LEMMA FourthTaken ==
    ASSUME NEW c \in Seq(Byte), NEW g \in 1 .. NumGroups(c), NEW d, NEW bytes,
           InGroup(c, g, 3, d, bytes),
           NEW ch, ch = Group(GroupBytes(c, g))[4]
    PROVE  \E f : /\ Decoded("base64", d, ch) = [decoder |-> f, bytes |-> GroupBytes(c, g)]
                  /\ AfterGroup(c, g, f, bytes \o GroupBytes(c, g))
<1> DEFINE b == GroupBytes(c, g)
<1>0. /\ b \in Seq(Byte) /\ Len(b) \in 1 .. 3 /\ (g < NumGroups(c) => Len(b) = 3)
      /\ \A i \in 1 .. Len(b) : b[i] \in Byte
  BY GroupBytesIs
<1>1. PICK k, q, t : d = Waiting(k, q, t) /\ Progress(b, 3, q, k)
  BY DEF InGroup
<1>2. PICK x : x = IF ch = Equals THEN 0 ELSE Sextet[ch]
  OBVIOUS
<1>3. PICK m : m = IF ch = Equals THEN k + 1 ELSE k
  OBVIOUS
<1>4. PICK p : p = Append(q, x)
  OBVIOUS
<1>5. ch \notin {CR, LF} /\ Progress(b, 4, p, m)
  <2> HIDE DEF b
  <2>1. 3 \in 0 .. 3 /\ ch = Group(b)[3 + 1] /\ 3 + 1 = 4
    BY DEF b
  <2>2. ch \notin {CR, LF} /\ Progress(b, 3 + 1, Append(q, x), m)
    BY <1>0, <1>1, <1>2, <1>3, <2>1, OneMoreSix
  <2> QED BY <1>4, <2>1, <2>2
<1> HIDE DEF b
<1>6. /\ Len(p) = 4 /\ p[1] = Six(b, 1) /\ p[2] = Six(b, 2) /\ p[3] = Six(b, 3) /\ p[4] = Six(b, 4)
      /\ m = 3 - Len(b) /\ m \in 0 .. 2
  <2>1. \A j \in 1 .. 4 : p[j] = Six(b, j)
    BY <1>5 DEF Progress
  <2>2. p[1] = Six(b, 1) /\ p[2] = Six(b, 2) /\ p[3] = Six(b, 3) /\ p[4] = Six(b, 4)
    BY <2>1
  <2>3. Len(p) = 4 /\ m = IF 4 > Len(b) + 1 THEN 4 - Len(b) - 1 ELSE 0
    BY <1>5 DEF Progress
  <2>4. PICK z : z = Len(b)
    OBVIOUS
  <2>5. z \in 1 .. 3 /\ m = IF 4 > z + 1 THEN 4 - z - 1 ELSE 0
    BY <1>0, <2>3, <2>4
  <2>6. m = 3 - z /\ m \in 0 .. 2
    BY <2>5
  <2> QED BY <2>2, <2>3, <2>4, <2>6
<1> DEFINE u == Bits(p)
<1>7. Octet(u, 2) = At(b, 1) /\ Octet(u, 1) = At(b, 2) /\ Octet(u, 0) = At(b, 3)
  <2>1. At(b, 1) \in Byte /\ At(b, 2) \in Byte /\ At(b, 3) \in Byte
    BY <1>0 DEF At, Byte
  <2>2. PICK y1, y2, y3 : y1 = At(b, 1) /\ y2 = At(b, 2) /\ y3 = At(b, 3)
    OBVIOUS
  <2>3. /\ Six(b, 1) = y1 \div 4 /\ Six(b, 2) = (y1 % 4) * 16 + y2 \div 16
        /\ Six(b, 3) = (y2 % 16) * 4 + y3 \div 64 /\ Six(b, 4) = y3 % 64
    BY <2>2 DEF Six
  <2>4. PICK w : w = <<y1 \div 4, (y1 % 4) * 16 + y2 \div 16, (y2 % 16) * 4 + y3 \div 64, y3 % 64>>
    OBVIOUS
  <2>5. Bits(w) = Bits(p)
    <3>1. w[1] = p[1] /\ w[2] = p[2] /\ w[3] = p[3] /\ w[4] = p[4]
      BY <1>6, <2>3, <2>4
    <3> QED BY <3>1 DEF Bits
  <2>6. Octet(Bits(w), 2) = y1 /\ Octet(Bits(w), 1) = y2 /\ Octet(Bits(w), 0) = y3
    BY <2>1, <2>2, <2>4, ThreeBytes
  <2> QED BY <2>2, <2>5, <2>6
<1>8. In("base64", d, ch) = Fourth(Waiting(m, p, t))
  <2>1. Base64In(Waiting(k, q, t), ch) =
              IF Len(Append(q, x)) < 4 THEN Answer(Waiting(m, Append(q, x), t), "need_more", 0)
              ELSE Fourth(Waiting(m, Append(q, x), t))
    BY <1>2, <1>3, <1>5, DecoderTakes
  <2>2. ~(Len(Append(q, x)) < 4)
    BY <1>4, <1>6
  <2> QED BY <1>1, <1>4, <2>1, <2>2 DEF In
<1> HIDE DEF u
<1>9. Fourth(Waiting(m, p, t)) =
             IF m = 0 THEN Answer(Holding("five", m, u), "have_more", At(b, 1))
             ELSE IF m = 1 THEN Answer(Holding("last", m, u), "have_more", At(b, 1))
             ELSE Answer(Holding("in", m, u), "data", At(b, 1))
  <2>1. u = Bits(p)
    BY DEF u
  <2>2. Fourth(Waiting(m, p, t)) =
             IF m = 0 THEN Answer(Holding("five", m, u), "have_more", Octet(u, 2))
             ELSE IF m = 1 THEN Answer(Holding("last", m, u), "have_more", Octet(u, 2))
             ELSE Answer(Holding("in", m, u), "data", Octet(u, 2))
    <3>1. m \in 0 .. 2
      BY <1>6
    <3> QED BY <2>1, <3>1, FourthGives
  <2> QED BY <2>2, <1>7
<1>10. /\ More("base64", Holding("five", m, u)) = Answer(Holding("six", m, u), "have_more", At(b, 2))
       /\ More("base64", Holding("six", m, u)) = Answer(Holding("in", m, u), "data", At(b, 3))
       /\ More("base64", Holding("last", m, u)) = Answer(Holding("in", m, u), "data", At(b, 2))
  BY <1>7, HoldingGives DEF More
<1> DEFINE f == Holding("in", m, u)
<1>11. Decoded("base64", d, ch) = [decoder |-> f, bytes |-> b]
  <2>1. CASE Len(b) = 3
    <3>1. b = <<At(b, 1), At(b, 2), At(b, 3)>>
      BY <1>0, <2>1 DEF At
    <3>2. In("base64", d, ch) = Answer(Holding("five", m, u), "have_more", At(b, 1))
      BY <1>6, <1>8, <1>9, <2>1
    <3>3. Decoded("base64", d, ch) = [decoder |-> f, bytes |-> <<At(b, 1), At(b, 2), At(b, 3)>>]
      BY <1>10, <3>2, GivesThree
    <3> QED BY <3>1, <3>3
  <2>2. CASE Len(b) = 2
    <3>1. b = <<At(b, 1), At(b, 2)>>
      BY <1>0, <2>2 DEF At
    <3>2. In("base64", d, ch) = Answer(Holding("last", m, u), "have_more", At(b, 1))
      BY <1>6, <1>8, <1>9, <2>2
    <3>3. Decoded("base64", d, ch) = [decoder |-> f, bytes |-> <<At(b, 1), At(b, 2)>>]
      BY <1>10, <3>2, GivesTwo
    <3> QED BY <3>1, <3>3
  <2>3. CASE Len(b) = 1
    <3>1. b = <<At(b, 1)>>
      BY <1>0, <2>3 DEF At
    <3>2. In("base64", d, ch) = Answer(f, "data", At(b, 1))
      BY <1>6, <1>8, <1>9, <2>3
    <3>3. Decoded("base64", d, ch) = [decoder |-> f, bytes |-> <<At(b, 1)>>]
      BY <3>2, GivesOne
    <3> QED BY <3>1, <3>3
  <2> QED BY <2>1, <2>2, <2>3, <1>0
<1>12. AfterGroup(c, g, f, bytes \o b)
  <2>1. f = Waiting(m, <<>>, u)
    BY DEF Holding, Waiting
  <2>2. g < NumGroups(c) => m = 0
    BY <1>0, <1>6
  <2>3. bytes \o b = Before(c, g)
    BY BeforeGrows DEF InGroup, b
  <2> HIDE DEF f, Before
  <2> QED BY <2>1, <2>2, <2>3 DEF AfterGroup
<1> HIDE DEF f
<1> QED BY <1>11, <1>12 DEF b

\* A line break behind a group gives nothing.
LEMMA BreakTaken ==
    ASSUME NEW c, NEW g, NEW d, NEW bytes, AfterGroup(c, g, d, bytes), NEW ch \in {CR, LF}
    PROVE  Decoded("base64", d, ch) = [decoder |-> d, bytes |-> <<>>]
<1>1. In("base64", d, ch) = Answer(d, "need_more", 0)
  BY Zenon DEF In, Base64In
<1> QED BY <1>1, GivesNone
-----------------------------------------------------------------------------
(* Quoted-printable: an escaped byte, and a soft line break.                *)

\* A byte in hexadecimal digits.
LEMMA DigitsOf ==
    ASSUME NEW n \in 0 .. 15
    PROVE  /\ HexDigit(n) \in HexDigits /\ HexDigit(n) \in Byte /\ HexDigit(n) # CR
           /\ toXDigit(HexDigit(n)) = n
<1>1. HexDigit(n) = IF n < 10 THEN n + 48 ELSE n + 55
  BY DEF HexDigit
<1>2. CASE n < 10
  <2>1. HexDigit(n) = n + 48
    BY <1>1, <1>2
  <2> QED BY <1>2, <2>1 DEF HexDigits, Byte, CR, toXDigit
<1>3. CASE n >= 10
  <2>1. HexDigit(n) = n + 55
    BY <1>1, <1>3
  <2> QED BY <1>3, <2>1 DEF HexDigits, Byte, CR, toXDigit
<1> QED BY <1>2, <1>3

\* How long a byte is on its way, and what stands for it.
LEMMA EscapedIs ==
    ASSUME NEW b \in Byte
    PROVE  /\ Escaped(b) \in Seq(Byte) /\ Len(Escaped(b)) \in {1, 3}
           /\ Len(Escaped(b)) = 1 => Escaped(b)[1] = b /\ b # Equals
           /\ Len(Escaped(b)) = 3 => /\ Escaped(b)[1] = Equals
                                     /\ Escaped(b)[2] = HexDigit(b \div 16)
                                     /\ Escaped(b)[3] = HexDigit(b % 16)
                                     /\ b \div 16 \in 0 .. 15 /\ b % 16 \in 0 .. 15
                                     /\ (b \div 16) * 16 + (b % 16) = b
<1>1. b \div 16 \in 0 .. 15 /\ b % 16 \in 0 .. 15 /\ (b \div 16) * 16 + (b % 16) = b
  BY DEF Byte
<1>2. HexDigit(b \div 16) \in Byte /\ HexDigit(b % 16) \in Byte
  <2> DEFINE x == b \div 16
             y == b % 16
  <2>1. x \in 0 .. 15 /\ y \in 0 .. 15
    BY <1>1
  <2> HIDE DEF x, y
  <2>2. HexDigit(x) \in Byte /\ HexDigit(y) \in Byte
    BY <2>1, DigitsOf
  <2> QED BY <2>2 DEF x, y
<1>3. CASE b \in 33..126 \ {Equals}
  <2>1. Escaped(b) = <<b>>
    BY <1>3 DEF Escaped
  <2> QED BY <1>3, <2>1
<1>4. CASE b \notin 33..126 \ {Equals}
  <2>1. Escaped(b) = <<Equals, HexDigit(b \div 16), HexDigit(b % 16)>>
    BY <1>4 DEF Escaped
  <2>2. Equals \in Byte
    BY DEF Equals, Byte
  <2> DEFINE x == HexDigit(b \div 16)
             y == HexDigit(b % 16)
  <2> HIDE DEF x, y
  <2>3. /\ <<Equals, x, y>>[1] = Equals /\ <<Equals, x, y>>[2] = x /\ <<Equals, x, y>>[3] = y
        /\ Len(<<Equals, x, y>>) = 3
    OBVIOUS
  <2>4. <<Equals, x, y>> \in Seq(Byte)
    BY <1>2, <2>2 DEF x, y
  <2> QED BY <1>1, <2>1, <2>3, <2>4 DEF x, y
<1> QED BY <1>3, <1>4

\* The decoder in a state.
Quoting(stage, x) == [stage |-> stage, ch |-> x]

\* The decoder is in a state, and has given the first m bytes.
Quoted(stage, x, m, c, d, bytes) ==
    /\ d = Quoting(stage, x)
    /\ bytes = SubSeq(c, 1, m)

\* What the decoder does with a character.
LEMMA QuotedTakes ==
    ASSUME NEW x, NEW ch
    PROVE  /\ ch # Equals =>
                Decoded("quoted_printable", Quoting("passthrough", x), ch)
                  = [decoder |-> Quoting("passthrough", ch), bytes |-> <<ch>>]
           /\ ch = Equals =>
                Decoded("quoted_printable", Quoting("passthrough", x), ch)
                  = [decoder |-> Quoting("first", x), bytes |-> <<>>]
           /\ ch = CR =>
                Decoded("quoted_printable", Quoting("first", x), ch)
                  = [decoder |-> Quoting("crlf", ch), bytes |-> <<>>]
           /\ ch \in HexDigits /\ ch # CR =>
                Decoded("quoted_printable", Quoting("first", x), ch)
                  = [decoder |-> Quoting("second", toXDigit(ch) * 16), bytes |-> <<>>]
           /\ ch \in HexDigits =>
                Decoded("quoted_printable", Quoting("second", x), ch)
                  = [decoder |-> Quoting("passthrough", x + toXDigit(ch)),
                     bytes |-> <<x + toXDigit(ch)>>]
           /\ ch = LF =>
                Decoded("quoted_printable", Quoting("crlf", x), ch)
                  = [decoder |-> Quoting("passthrough", 0), bytes |-> <<>>]
<1> DEFINE e == "quoted_printable"
           D(s) == [stage |-> s, ch |-> x]
<1>0. \A d : In(e, d, ch) = QuotedIn(d, ch)
  BY DEF In
<1>1. ASSUME ch # Equals
      PROVE  QuotedIn(D("passthrough"), ch) = Answer([stage |-> "passthrough", ch |-> ch], "data", ch)
  <2>1. [D("passthrough") EXCEPT !.ch = ch] = [stage |-> "passthrough", ch |-> ch]
    OBVIOUS
  <2>2. D("passthrough").stage = "passthrough"
    OBVIOUS
  <2> HIDE DEF D
  <2>3. QuotedIn(D("passthrough"), ch) = Answer([D("passthrough") EXCEPT !.ch = ch], "data", ch)
    BY <1>1, <2>2, Zenon DEF QuotedIn
  <2> QED BY <2>1, <2>3
<1>2. ASSUME ch = Equals
      PROVE  QuotedIn(D("passthrough"), ch) = Answer(D("first"), "need_more", x)
  <2>1. [D("passthrough") EXCEPT !.stage = "first"] = D("first") /\ D("passthrough").ch = x
    OBVIOUS
  <2>2. D("passthrough").stage = "passthrough"
    OBVIOUS
  <2> HIDE DEF D
  <2>3. QuotedIn(D("passthrough"), ch)
          = Answer([D("passthrough") EXCEPT !.stage = "first"], "need_more", D("passthrough").ch)
    BY <1>2, <2>2, Zenon DEF QuotedIn
  <2> QED BY <2>1, <2>3
<1>3. ASSUME ch = CR
      PROVE  QuotedIn(D("first"), ch) = Answer([stage |-> "crlf", ch |-> ch], "need_more", ch)
  <2>1. D("first").stage = "first" /\ "first" # "passthrough"
    OBVIOUS
  <2>2. CR \notin HexDigits
    BY DEF CR, HexDigits
  <2> HIDE DEF D
  <2> QED BY <1>3, <2>1, <2>2 DEF QuotedIn
<1>4. ASSUME ch \in HexDigits, ch # CR
      PROVE  QuotedIn(D("first"), ch)
               = Answer([stage |-> "second", ch |-> toXDigit(ch) * 16], "need_more", toXDigit(ch) * 16)
  <2>1. D("first").stage = "first" /\ "first" # "passthrough"
    OBVIOUS
  <2> HIDE DEF D
  <2> QED BY <1>4, <2>1 DEF QuotedIn
<1>5. ASSUME ch \in HexDigits
      PROVE  QuotedIn(D("second"), ch)
               = Answer([stage |-> "passthrough", ch |-> x + toXDigit(ch)], "data", x + toXDigit(ch))
  <2>1. D("second").stage = "second" /\ "second" # "passthrough" /\ "second" # "first" /\ D("second").ch = x
    OBVIOUS
  <2> HIDE DEF D
  <2> QED BY <1>5, <2>1 DEF QuotedIn
<1>6. ASSUME ch = LF
      PROVE  QuotedIn(D("crlf"), ch) = Answer([stage |-> "passthrough", ch |-> 0], "need_more", 0)
  <2>1. /\ D("crlf").stage = "crlf" /\ "crlf" # "passthrough" /\ "crlf" # "first"
        /\ "crlf" # "second"
    OBVIOUS
  <2> HIDE DEF D
  <2> QED BY <1>6, <2>1 DEF QuotedIn
<1>7. ASSUME ch # Equals
      PROVE  Decoded(e, D("passthrough"), ch)
               = [decoder |-> [stage |-> "passthrough", ch |-> ch], bytes |-> <<ch>>]
  <2>1. In(e, D("passthrough"), ch) = Answer([stage |-> "passthrough", ch |-> ch], "data", ch)
    BY <1>0, <1>1, <1>7
  <2> HIDE DEF D, e
  <2> QED BY <2>1, GivesOne
<1>8. ASSUME ch = Equals
      PROVE  Decoded(e, D("passthrough"), ch) = [decoder |-> D("first"), bytes |-> <<>>]
  <2>1. In(e, D("passthrough"), ch) = Answer(D("first"), "need_more", x)
    BY <1>0, <1>2, <1>8
  <2> HIDE DEF D, e
  <2> QED BY <2>1, GivesNone
<1>9. ASSUME ch = CR
      PROVE  Decoded(e, D("first"), ch) = [decoder |-> [stage |-> "crlf", ch |-> ch], bytes |-> <<>>]
  <2>1. In(e, D("first"), ch) = Answer([stage |-> "crlf", ch |-> ch], "need_more", ch)
    BY <1>0, <1>3, <1>9
  <2> HIDE DEF D, e
  <2> QED BY <2>1, GivesNone
<1>10. ASSUME ch \in HexDigits, ch # CR
      PROVE  Decoded(e, D("first"), ch)
               = [decoder |-> [stage |-> "second", ch |-> toXDigit(ch) * 16], bytes |-> <<>>]
  <2>1. In(e, D("first"), ch)
          = Answer([stage |-> "second", ch |-> toXDigit(ch) * 16], "need_more", toXDigit(ch) * 16)
    BY <1>0, <1>4, <1>10
  <2> HIDE DEF D, e
  <2> QED BY <2>1, GivesNone
<1>11. ASSUME ch \in HexDigits
      PROVE  Decoded(e, D("second"), ch)
               = [decoder |-> [stage |-> "passthrough", ch |-> x + toXDigit(ch)],
                  bytes |-> <<x + toXDigit(ch)>>]
  <2>1. In(e, D("second"), ch)
          = Answer([stage |-> "passthrough", ch |-> x + toXDigit(ch)], "data", x + toXDigit(ch))
    BY <1>0, <1>5, <1>11
  <2> HIDE DEF D, e
  <2> QED BY <2>1, GivesOne
<1>12. ASSUME ch = LF
      PROVE  Decoded(e, D("crlf"), ch) = [decoder |-> [stage |-> "passthrough", ch |-> 0], bytes |-> <<>>]
  <2>1. In(e, D("crlf"), ch) = Answer([stage |-> "passthrough", ch |-> 0], "need_more", 0)
    BY <1>0, <1>6, <1>12
  <2> HIDE DEF D, e
  <2> QED BY <2>1, GivesNone
<1> QED BY <1>7, <1>8, <1>9, <1>10, <1>11, <1>12 DEF Quoting

\* The line feed of a soft line break gives nothing.
LEMMA BreakTakes ==
    ASSUME NEW x, NEW ch
    PROVE  ch = LF => Decoded("quoted_printable", Quoting("crlf", x), ch)
                        = [decoder |-> Quoting("passthrough", 0), bytes |-> <<>>]
BY QuotedTakes
-----------------------------------------------------------------------------
(* The pieces an encoder puts one behind the other.                         *)

\* One byte more of a sequence.
LEMMA OneByteMore ==
    ASSUME NEW c \in Seq(Byte), NEW g \in 1 .. Len(c)
    PROVE  SubSeq(c, 1, g - 1) \o <<c[g]>> = SubSeq(c, 1, g)
<1>1. 1 \in 1 .. Len(c) /\ g \in 1 .. Len(c)
  BY LenProperties
<1> QED BY <1>1, SubSeqRecursiveSecond

Codings == {"base64", "quoted_printable"}

\* What stands for the content: pieces, and behind some of them a line break.
NumPieces(e, c) == IF e = "base64" THEN NumGroups(c) ELSE Len(c)
Piece(e, c, g) == IF e = "base64" THEN Group(GroupBytes(c, g)) ELSE Escaped(c[g])
Break(e) == IF e = "base64" THEN <<CR, LF>> ELSE <<Equals, CR, LF>>
Pieces(e, c, brk) ==
    [g \in 1 .. NumPieces(e, c) |-> IF g \in brk THEN Piece(e, c, g) \o Break(e) ELSE Piece(e, c, g)]

\* Encoded is made of them.
LEMMA EncodedIs ==
    ASSUME NEW e \in Codings, NEW c \in Seq(Byte), NEW brk
    PROVE  Encoded(e, c, brk) = FlattenSeq(Pieces(e, c, brk))
<1>1. CASE e = "base64"
  <2> DEFINE P == Groups(c)
  <2>1. Encoded(e, c, brk) = Joined(P, brk, <<CR, LF>>)
    BY <1>1 DEF Encoded
  <2>2. DOMAIN P = 1 .. NumPieces(e, c) /\ \A g \in DOMAIN P : P[g] = Piece(e, c, g)
    BY <1>1 DEF Groups, NumPieces, NumGroups, Piece, GroupBytes
  <2>3. Break(e) = <<CR, LF>>
    BY <1>1 DEF Break
  <2> HIDE DEF P
  <2>4. [i \in DOMAIN P |-> IF i \in brk THEN P[i] \o <<CR, LF>> ELSE P[i]] = Pieces(e, c, brk)
    BY <2>2, <2>3 DEF Pieces
  <2> QED BY <2>1, <2>4 DEF Joined
<1>2. CASE e = "quoted_printable"
  <2> DEFINE P == [i \in DOMAIN c |-> Escaped(c[i])]
  <2>1. Encoded(e, c, brk) = Joined(P, brk, <<Equals, CR, LF>>)
    BY <1>2 DEF Encoded
  <2>2. DOMAIN P = 1 .. NumPieces(e, c) /\ \A g \in DOMAIN P : P[g] = Piece(e, c, g)
    BY <1>2, LenProperties DEF NumPieces, Piece
  <2>3. Break(e) = <<Equals, CR, LF>>
    BY <1>2 DEF Break
  <2> HIDE DEF P
  <2>4. [i \in DOMAIN P |-> IF i \in brk THEN P[i] \o <<Equals, CR, LF>> ELSE P[i]]
          = Pieces(e, c, brk)
    BY <2>2, <2>3 DEF Pieces
  <2> QED BY <2>1, <2>4 DEF Joined
<1> QED BY <1>1, <1>2 DEF Codings

\* A piece is not empty, and its line break is behind it.
LEMMA PieceIs ==
    ASSUME NEW e \in Codings, NEW c \in Seq(Byte), NEW g \in 1 .. NumPieces(e, c)
    PROVE  /\ Piece(e, c, g) \in Seq(Byte) /\ Len(Piece(e, c, g)) \in 1 .. 4
           /\ e = "base64" => Len(Piece(e, c, g)) = 4
<1>1. CASE e = "base64"
  <2>0. g \in 1 .. NumGroups(c) /\ Piece(e, c, g) = Group(GroupBytes(c, g))
    BY <1>1 DEF NumPieces, Piece
  <2>1. GroupBytes(c, g) \in Seq(Byte) /\ Len(GroupBytes(c, g)) \in 1 .. 3
    BY <2>0, GroupBytesIs
  <2> QED BY <1>1, <2>0, <2>1, GroupIs
<1>2. CASE e = "quoted_printable"
  <2>0. g \in 1 .. Len(c) /\ Piece(e, c, g) = Escaped(c[g])
    BY <1>2 DEF NumPieces, Piece
  <2>1. c[g] \in Byte
    BY <2>0, ElementOfSeq
  <2>2. Escaped(c[g]) \in Seq(Byte) /\ Len(Escaped(c[g])) \in {1, 3}
    BY <2>1, EscapedIs
  <2> QED BY <1>2, <2>0, <2>2
<1> QED BY <1>1, <1>2 DEF Codings

\* A line break is two or three symbols.
LEMMA BreakIs ==
    ASSUME NEW e
    PROVE  Break(e) \in Seq(Byte) /\ Len(Break(e)) \in 2 .. 3
<1>1. CR \in Byte /\ LF \in Byte /\ Equals \in Byte
  BY DEF CR, LF, Equals, Byte
<1>2. Break(e) = <<CR, LF>> \/ Break(e) = <<Equals, CR, LF>>
  BY DEF Break
<1> HIDE DEF Byte
<1>3. CASE Break(e) = <<CR, LF>>
  <2>1. <<CR, LF>> \in Seq(Byte) /\ Len(<<CR, LF>>) = 2
    BY <1>1
  <2> QED BY <1>3, <2>1
<1>4. CASE Break(e) = <<Equals, CR, LF>>
  <2>1. <<Equals, CR, LF>> \in Seq(Byte) /\ Len(<<Equals, CR, LF>>) = 3
    BY <1>1
  <2> QED BY <1>4, <2>1
<1> QED BY <1>2, <1>3, <1>4

\* The symbols of a piece with its line break.
LEMMA PieceHas ==
    ASSUME NEW e \in Codings, NEW c \in Seq(Byte), NEW brk, NEW P, P = Pieces(e, c, brk),
           NEW g \in 1 .. NumPieces(e, c), NEW a, a = Piece(e, c, g), NEW b, b = Break(e)
    PROVE  /\ P[g] \in Seq(Byte) /\ Len(P[g]) \in {Len(a), Len(a) + Len(b)}
           /\ \A k \in 1 .. Len(P[g]) : k <= Len(a) => P[g][k] = a[k]
           /\ \A k \in 1 .. Len(P[g]) : k > Len(a) => P[g][k] = b[k - Len(a)]
<1>1. P[g] = IF g \in brk THEN a \o b ELSE a
  BY DEF Pieces
<1>2. a \in Seq(Byte) /\ Len(a) \in 1 .. 4
  BY PieceIs
<1>3. b \in Seq(Byte) /\ Len(b) \in 2 .. 3
  BY BreakIs
<1>4. CASE g \in brk
  <2>1. P[g] = a \o b
    BY <1>1, <1>4
  <2>2. /\ a \o b \in Seq(Byte) /\ Len(a \o b) = Len(a) + Len(b)
        /\ \A i \in 1 .. Len(a) : (a \o b)[i] = a[i]
        /\ \A i \in 1 .. Len(b) : (a \o b)[Len(a) + i] = b[i]
    BY <1>2, <1>3, PutBehind
  <2>3. ASSUME NEW k \in 1 .. Len(P[g]), k <= Len(a) PROVE P[g][k] = a[k]
    BY <1>2, <2>1, <2>2, <2>3
  <2>4. ASSUME NEW k \in 1 .. Len(P[g]), k > Len(a) PROVE P[g][k] = b[k - Len(a)]
    <3>1. k - Len(a) \in 1 .. Len(b) /\ Len(a) + (k - Len(a)) = k
      BY <1>2, <1>3, <2>1, <2>2, <2>4
    <3>2. (a \o b)[Len(a) + (k - Len(a))] = b[k - Len(a)]
      BY <2>2, <3>1
    <3> QED BY <2>1, <3>1, <3>2
  <2> QED BY <2>1, <2>2, <2>3, <2>4
<1>5. CASE g \notin brk
  BY <1>1, <1>2, <1>5
<1> QED BY <1>4, <1>5

\* Where a symbol of a piece comes from: the group, or its line break.
LEMMA PieceSymbol ==
    ASSUME NEW e \in Codings, NEW c \in Seq(Byte), NEW brk, NEW P, P = Pieces(e, c, brk),
           NEW g \in 1 .. NumPieces(e, c), NEW a, a = Piece(e, c, g), NEW b, b = Break(e),
           NEW k \in 1 .. Len(P[g])
    PROVE  P[g][k] = IF k <= Len(a) THEN a[k] ELSE b[k - Len(a)]
<1>1. k \in Nat /\ Len(a) \in Nat
  BY PieceIs, PieceHas
<1> QED BY <1>1, PieceHas

\* The pieces.
LEMMA PiecesAre ==
    ASSUME NEW e \in Codings, NEW c \in Seq(Byte), NEW brk, NEW P, P = Pieces(e, c, brk)
    PROVE  P \in Seq(Seq(Byte)) /\ Len(P) = NumPieces(e, c) /\ NumPieces(e, c) \in Nat
<1>1. NumPieces(e, c) \in Nat
  BY LenProperties DEF NumPieces, NumGroups
<1>2. \A g \in 1 .. NumPieces(e, c) : P[g] \in Seq(Byte)
  BY PieceHas
<1> DEFINE n == NumPieces(e, c)
<1>3. P = [g \in 1 .. n |-> P[g]] /\ n \in Nat /\ \A g \in 1 .. n : P[g] \in Seq(Byte)
  BY <1>1, <1>2 DEF Pieces
<1> HIDE DEF n
<1>4. P \in Seq(Seq(Byte)) /\ Len(P) = n
  BY <1>3
<1> QED BY <1>1, <1>4 DEF n
-----------------------------------------------------------------------------
(* A decoder in a piece, and from one piece to the next.                    *)

\* i symbols of the escape of byte g, and of the line break behind it, were taken.
QuotedAt(c, g, i, d, bytes) ==
    LET n == Len(Escaped(c[g])) IN
    IF i = 0 THEN \E x : Quoted("passthrough", x, g - 1, c, d, bytes)
    ELSE IF i < n THEN IF i = 1 THEN \E x : Quoted("first", x, g - 1, c, d, bytes)
                       ELSE Quoted("second", (c[g] \div 16) * 16, g - 1, c, d, bytes)
    ELSE IF i = n + 1 THEN \E x : Quoted("first", x, g, c, d, bytes)
    ELSE IF i = n + 2 THEN \E x : Quoted("crlf", x, g, c, d, bytes)
    ELSE \E x : Quoted("passthrough", x, g, c, d, bytes)

\* i symbols of piece g were taken.
Inside(e, c, g, i, d, bytes) ==
    IF e = "base64"
    THEN IF i = 0 THEN AfterGroup(c, g - 1, d, bytes)
         ELSE IF i <= 3 THEN InGroup(c, g, i, d, bytes)
         ELSE AfterGroup(c, g, d, bytes)
    ELSE QuotedAt(c, g, i, d, bytes)

\* The next symbol of a piece of base64.
LEMMA GroupTaken ==
    ASSUME NEW c \in Seq(Byte), NEW brk, NEW g \in 1 .. NumGroups(c),
           NEW P, P = Pieces("base64", c, brk),
           NEW i \in 0 .. Len(P[g]) - 1, NEW d, NEW bytes, bytes \in Seq(Byte),
           Inside("base64", c, g, i, d, bytes)
    PROVE  \E f, y : /\ Decoded("base64", d, P[g][i + 1]) = [decoder |-> f, bytes |-> y]
                     /\ Inside("base64", c, g, i + 1, f, bytes \o y)
<1> DEFINE e == "base64"
           a == Piece(e, c, g)
           b == Break(e)
           ch == P[g][i + 1]
<1>0. e \in Codings /\ g \in 1 .. NumPieces(e, c)
  BY DEF Codings, NumPieces
<1>1. a \in Seq(Byte) /\ Len(a) = 4 /\ a = Group(GroupBytes(c, g))
  BY <1>0, PieceIs DEF Piece
<1>2. b = <<CR, LF>> /\ Len(b) = 2
  BY DEF Break
<1> HIDE DEF a, b
<1>3. Len(P[g]) \in {4, 6} /\ (i + 1 \in 1 .. Len(P[g]))
      /\ ch = IF i + 1 <= 4 THEN a[i + 1] ELSE b[(i + 1) - 4]
  <2>1. Len(P[g]) \in {Len(a), Len(a) + Len(b)}
    BY <1>0, PieceHas DEF a, b
  <2>2. Len(P[g]) \in {4, 6} /\ i + 1 \in 1 .. Len(P[g])
    BY <1>1, <1>2, <2>1
  <2>3. ch = IF i + 1 <= Len(a) THEN a[i + 1] ELSE b[(i + 1) - Len(a)]
    BY <1>0, <2>2, PieceSymbol DEF a, b
  <2> QED BY <1>1, <2>2, <2>3
<1> HIDE DEF ch
<1>4. ASSUME i \in 0 .. 2
      PROVE  \E f, y : /\ Decoded("base64", d, ch) = [decoder |-> f, bytes |-> y]
                       /\ Inside("base64", c, g, i + 1, f, bytes \o y)
  <2>1. InGroup(c, g, i, d, bytes)
    <3>1. CASE i = 0
      <4>1. AfterGroup(c, g - 1, d, bytes)
        BY <3>1 DEF Inside
      <4>2. g - 1 \in 0 .. NumGroups(c) - 1 /\ (g - 1) + 1 = g
        BY LenProperties DEF NumGroups
      <4>3. InGroup(c, (g - 1) + 1, 0, d, bytes)
        BY <4>1, <4>2, GroupBegins
      <4> QED BY <3>1, <4>2, <4>3
    <3>2. CASE i # 0
      BY <1>4, <3>2 DEF Inside
    <3> QED BY <3>1, <3>2
  <2>2. ch = Group(GroupBytes(c, g))[i + 1]
    BY <1>1, <1>3, <1>4
  <2>3. PICK f : /\ Decoded("base64", d, ch) = [decoder |-> f, bytes |-> <<>>]
                 /\ InGroup(c, g, i + 1, f, bytes)
    BY <1>4, <2>1, <2>2, LetterTaken
  <2>4. bytes \o <<>> = bytes
    BY ConcatEmptySeq
  <2>5. Inside("base64", c, g, i + 1, f, bytes \o <<>>)
    BY <1>4, <2>3, <2>4 DEF Inside
  <2> QED BY <2>3, <2>5
<1>5. ASSUME i = 3
      PROVE  \E f, y : /\ Decoded("base64", d, ch) = [decoder |-> f, bytes |-> y]
                       /\ Inside("base64", c, g, i + 1, f, bytes \o y)
  <2>1. InGroup(c, g, 3, d, bytes)
    BY <1>5 DEF Inside
  <2>2. ch = Group(GroupBytes(c, g))[4]
    BY <1>1, <1>3, <1>5
  <2>3. PICK f : /\ Decoded("base64", d, ch) = [decoder |-> f, bytes |-> GroupBytes(c, g)]
                 /\ AfterGroup(c, g, f, bytes \o GroupBytes(c, g))
    BY <2>1, <2>2, FourthTaken
  <2>4. Inside("base64", c, g, i + 1, f, bytes \o GroupBytes(c, g))
    BY <1>5, <2>3 DEF Inside
  <2> QED BY <2>3, <2>4
<1>6. ASSUME i \in {4, 5}
      PROVE  \E f, y : /\ Decoded("base64", d, ch) = [decoder |-> f, bytes |-> y]
                       /\ Inside("base64", c, g, i + 1, f, bytes \o y)
  <2>1. AfterGroup(c, g, d, bytes)
    BY <1>6 DEF Inside
  <2>2. ch \in {CR, LF}
    <3>1. (i + 1) - 4 \in {1, 2} /\ ~(i + 1 <= 4)
      BY <1>6
    <3>2. ch = b[(i + 1) - 4]
      BY <1>3, <3>1
    <3>3. b[1] = CR /\ b[2] = LF
      BY <1>2
    <3> QED BY <3>1, <3>2, <3>3
  <2>3. Decoded("base64", d, ch) = [decoder |-> d, bytes |-> <<>>]
    BY <2>1, <2>2, BreakTaken
  <2>4. bytes \o <<>> = bytes
    BY ConcatEmptySeq
  <2>5. Inside("base64", c, g, i + 1, d, bytes \o <<>>)
    BY <1>6, <2>1, <2>4 DEF Inside
  <2> QED BY <2>3, <2>5
<1>7. i \in 0 .. 2 \/ i = 3 \/ i \in {4, 5}
  <2>1. PICK l : l = Len(P[g])
    OBVIOUS
  <2>2. i \in 0 .. l - 1 /\ l \in {4, 6}
    BY <1>3, <2>1
  <2> QED BY <2>2
<1> QED BY <1>4, <1>5, <1>6, <1>7 DEF ch

\* The next symbol of a byte in quoted-printable.
LEMMA EscapeTaken ==
    ASSUME NEW c \in Seq(Byte), NEW brk, NEW g \in 1 .. Len(c),
           NEW P, P = Pieces("quoted_printable", c, brk),
           NEW i \in 0 .. Len(P[g]) - 1, NEW d, NEW bytes, bytes \in Seq(Byte),
           Inside("quoted_printable", c, g, i, d, bytes)
    PROVE  \E f, y : /\ Decoded("quoted_printable", d, P[g][i + 1]) = [decoder |-> f, bytes |-> y]
                     /\ Inside("quoted_printable", c, g, i + 1, f, bytes \o y)
<1> DEFINE e == "quoted_printable"
           a == Escaped(c[g])
           n == Len(a)
           b == Break(e)
           ch == P[g][i + 1]
           x == c[g]
<1>0. e \in Codings /\ g \in 1 .. NumPieces(e, c) /\ x \in Byte
  BY ElementOfSeq DEF Codings, NumPieces
<1>1. a = Piece(e, c, g)
  BY DEF Piece
<1>2. b = <<Equals, CR, LF>> /\ Len(b) = 3
  BY DEF Break
<1>3. /\ n \in {1, 3}
      /\ n = 1 => a[1] = x /\ x # Equals
      /\ n = 3 => /\ a[1] = Equals /\ a[2] = HexDigit(x \div 16) /\ a[3] = HexDigit(x % 16)
                  /\ x \div 16 \in 0 .. 15 /\ x % 16 \in 0 .. 15
                  /\ (x \div 16) * 16 + (x % 16) = x
  BY <1>0, EscapedIs
<1> HIDE DEF a, b
<1>4. Len(P[g]) \in {n, n + 3} /\ (i + 1 \in 1 .. Len(P[g]))
      /\ ch = IF i + 1 <= n THEN a[i + 1] ELSE b[(i + 1) - n]
  <2>1. Len(P[g]) \in {Len(a), Len(a) + Len(b)}
    BY <1>0, <1>1, PieceHas DEF b
  <2>2. Len(P[g]) \in {n, n + 3} /\ i + 1 \in 1 .. Len(P[g])
    BY <1>2, <1>3, <2>1
  <2>3. ch = IF i + 1 <= Len(a) THEN a[i + 1] ELSE b[(i + 1) - Len(a)]
    <3>1. b = Break(e) /\ e \in Codings /\ g \in 1 .. NumPieces(e, c)
      BY <1>0 DEF b
    <3> QED BY <1>1, <2>2, <3>1, PieceSymbol
  <2> QED BY <2>2, <2>3
<1>a. QuotedAt(c, g, i, d, bytes)
  BY DEF Inside
<1> DEFINE Goal == \E f, y : /\ Decoded(e, d, ch) = [decoder |-> f, bytes |-> y]
                             /\ QuotedAt(c, g, i + 1, f, bytes \o y)
<1> SUFFICES Goal
  BY DEF Inside
<1> HIDE DEF ch, n, x
<1> HIDE DEF Goal
<1>c. SubSeq(c, 1, g - 1) \o <<x>> = SubSeq(c, 1, g)
  BY OneByteMore DEF x
<1>d. bytes \o <<>> = bytes
  BY ConcatEmptySeq
<1>e. /\ i = 0 => \E z : Quoted("passthrough", z, g - 1, c, d, bytes)
      /\ i = 1 /\ i < n => \E z : Quoted("first", z, g - 1, c, d, bytes)
      /\ i = 2 /\ i < n => Quoted("second", (x \div 16) * 16, g - 1, c, d, bytes)
      /\ i = n => \E z : Quoted("passthrough", z, g, c, d, bytes)
      /\ i = n + 1 => \E z : Quoted("first", z, g, c, d, bytes)
      /\ i = n + 2 => \E z : Quoted("crlf", z, g, c, d, bytes)
  <2>1. n = Len(Escaped(c[g])) /\ x = c[g]
    BY DEF n, a, x
  <2>2. QuotedAt(c, g, i, d, bytes) =
          IF i = 0 THEN \E z : Quoted("passthrough", z, g - 1, c, d, bytes)
          ELSE IF i < n THEN IF i = 1 THEN \E z : Quoted("first", z, g - 1, c, d, bytes)
                             ELSE Quoted("second", (x \div 16) * 16, g - 1, c, d, bytes)
          ELSE IF i = n + 1 THEN \E z : Quoted("first", z, g, c, d, bytes)
          ELSE IF i = n + 2 THEN \E z : Quoted("crlf", z, g, c, d, bytes)
          ELSE \E z : Quoted("passthrough", z, g, c, d, bytes)
    BY <2>1 DEF QuotedAt
  <2> HIDE DEF n, x
  <2>3. i = 0 => \E z : Quoted("passthrough", z, g - 1, c, d, bytes)
    BY <1>a, <2>2
  <2>4. i = 1 /\ i < n => \E z : Quoted("first", z, g - 1, c, d, bytes)
    <3>1. i = 1 => i # 0
      OBVIOUS
    <3> QED BY <1>a, <2>2, <3>1, Zenon
  <2>5. i = 2 /\ i < n => Quoted("second", (x \div 16) * 16, g - 1, c, d, bytes)
    BY <1>a, <2>2
  <2>6. i = n => \E z : Quoted("passthrough", z, g, c, d, bytes)
    <3>1. i = n => i # 0 /\ ~(i < n) /\ i # n + 1 /\ i # n + 2
      BY <1>3
    <3> QED BY <1>a, <2>2, <3>1
  <2>7. i = n + 1 => \E z : Quoted("first", z, g, c, d, bytes)
    <3>1. i = n + 1 => i # 0 /\ ~(i < n)
      BY <1>3
    <3> QED BY <1>a, <2>2, <3>1
  <2>8. i = n + 2 => \E z : Quoted("crlf", z, g, c, d, bytes)
    <3>1. i = n + 2 => i # 0 /\ ~(i < n) /\ i # n + 1
      BY <1>3
    <3> QED BY <1>a, <2>2, <3>1
  <2> QED BY <2>3, <2>4, <2>5, <2>6, <2>7, <2>8
<1>f. ASSUME NEW f, NEW w, NEW z
      PROVE  /\ i = 0 /\ i + 1 < n /\ Quoted("first", z, g - 1, c, f, w)
                  => QuotedAt(c, g, i + 1, f, w)
             /\ i = 1 /\ i + 1 < n /\ Quoted("second", (x \div 16) * 16, g - 1, c, f, w)
                  => QuotedAt(c, g, i + 1, f, w)
             /\ i + 1 = n /\ Quoted("passthrough", z, g, c, f, w) => QuotedAt(c, g, i + 1, f, w)
             /\ i = n /\ Quoted("first", z, g, c, f, w) => QuotedAt(c, g, i + 1, f, w)
             /\ i = n + 1 /\ Quoted("crlf", z, g, c, f, w) => QuotedAt(c, g, i + 1, f, w)
             /\ i = n + 2 /\ Quoted("passthrough", z, g, c, f, w) => QuotedAt(c, g, i + 1, f, w)
  <2>1. n = Len(Escaped(c[g])) /\ x = c[g]
    BY DEF n, a, x
  <2>2. i + 1 # 0
    BY <1>4
  <2> QED BY <1>3, <2>1, <2>2 DEF QuotedAt
<1>g. ASSUME NEW f, NEW y, Decoded(e, d, ch) = [decoder |-> f, bytes |-> y],
             QuotedAt(c, g, i + 1, f, bytes \o y)
      PROVE  Goal
  BY <1>g DEF Goal
<1> HIDE DEF e
<1>h. e = "quoted_printable"
  BY DEF e
<1>5. CASE i = 0 /\ n = 1
  <2>1. PICK z : d = Quoting("passthrough", z) /\ bytes = SubSeq(c, 1, g - 1)
    BY <1>a, <1>e, <1>5 DEF Quoted
  <2>2. ch = x /\ x # Equals
    BY <1>3, <1>4, <1>5
  <2> DEFINE f == Quoting("passthrough", x)
  <2>3. Decoded(e, d, ch) = [decoder |-> f, bytes |-> <<x>>]
    BY <1>h, <2>1, <2>2, QuotedTakes
  <2>4. bytes \o <<x>> = SubSeq(c, 1, g)
    BY <1>c, <2>1
  <2>5. Quoted("passthrough", x, g, c, f, bytes \o <<x>>)
    BY <2>4 DEF Quoted
  <2> HIDE DEF f
  <2>6. QuotedAt(c, g, i + 1, f, bytes \o <<x>>)
    BY <1>f, <1>5, <2>5
  <2> QED BY <1>g, <2>3, <2>6
<1>6. CASE i = 0 /\ n = 3
  <2>1. PICK z : d = Quoting("passthrough", z) /\ bytes = SubSeq(c, 1, g - 1)
    BY <1>a, <1>e, <1>6 DEF Quoted
  <2>2. ch = Equals
    BY <1>3, <1>4, <1>6
  <2> DEFINE f == Quoting("first", z)
  <2>3. Decoded(e, d, ch) = [decoder |-> f, bytes |-> <<>>]
    BY <1>h, <2>1, <2>2, QuotedTakes
  <2>5. Quoted("first", z, g - 1, c, f, bytes \o <<>>)
    BY <1>d, <2>1 DEF Quoted
  <2> HIDE DEF f
  <2>6. QuotedAt(c, g, i + 1, f, bytes \o <<>>)
    BY <1>f, <1>6, <2>5
  <2> QED BY <1>g, <2>3, <2>6
<1>7. CASE i = 1 /\ n = 3
  <2>1. PICK z : d = Quoting("first", z) /\ bytes = SubSeq(c, 1, g - 1)
    BY <1>a, <1>e, <1>7 DEF Quoted
  <2>2. ch = HexDigit(x \div 16) /\ x \div 16 \in 0 .. 15
    BY <1>3, <1>4, <1>7
  <2> DEFINE h == x \div 16
  <2>7. h \in 0 .. 15 /\ ch = HexDigit(h)
    BY <2>2
  <2> HIDE DEF h
  <2>8. ch \in HexDigits /\ ch # CR /\ toXDigit(ch) = h
    BY <2>7, DigitsOf
  <2> DEFINE f == Quoting("second", h * 16)
  <2>3. Decoded(e, d, ch) = [decoder |-> f, bytes |-> <<>>]
    BY <1>h, <2>1, <2>8, QuotedTakes
  <2>5. Quoted("second", h * 16, g - 1, c, f, bytes \o <<>>)
    BY <1>d, <2>1 DEF Quoted
  <2> HIDE DEF f
  <2>9. Quoted("second", (x \div 16) * 16, g - 1, c, f, bytes \o <<>>)
    BY <2>5 DEF h
  <2>6. QuotedAt(c, g, i + 1, f, bytes \o <<>>)
    BY <1>f, <1>7, <2>9
  <2> QED BY <1>g, <2>3, <2>6
<1>8. CASE i = 2 /\ n = 3
  <2> DEFINE h == x \div 16
             k == x % 16
  <2>1. d = Quoting("second", h * 16) /\ bytes = SubSeq(c, 1, g - 1)
    BY <1>a, <1>e, <1>8 DEF Quoted
  <2>2. ch = HexDigit(k) /\ k \in 0 .. 15 /\ h * 16 + k = x
    BY <1>3, <1>4, <1>8
  <2> HIDE DEF h, k
  <2>8. ch \in HexDigits /\ toXDigit(ch) = k
    BY <2>2, DigitsOf
  <2> DEFINE f == Quoting("passthrough", x)
  <2>9. h * 16 + toXDigit(ch) = x
    BY <2>2, <2>8
  <2>10. Decoded(e, Quoting("second", h * 16), ch)
          = [decoder |-> Quoting("passthrough", h * 16 + toXDigit(ch)),
             bytes |-> <<h * 16 + toXDigit(ch)>>]
    BY <1>h, <2>8, QuotedTakes
  <2>3. Decoded(e, d, ch) = [decoder |-> f, bytes |-> <<x>>]
    BY <2>1, <2>9, <2>10
  <2>4. bytes \o <<x>> = SubSeq(c, 1, g)
    BY <1>c, <2>1
  <2>5. Quoted("passthrough", x, g, c, f, bytes \o <<x>>)
    BY <2>4 DEF Quoted
  <2> HIDE DEF f
  <2>6. QuotedAt(c, g, i + 1, f, bytes \o <<x>>)
    BY <1>f, <1>8, <2>5
  <2> QED BY <1>g, <2>3, <2>6
<1>9. CASE i = n
  <2>1. PICK z : d = Quoting("passthrough", z) /\ bytes = SubSeq(c, 1, g)
    BY <1>3, <1>a, <1>e, <1>9 DEF Quoted
  <2>2. ch = Equals
    <3>1. ~(i + 1 <= n) /\ (i + 1) - n = 1
      BY <1>3, <1>9
    <3>2. b[1] = Equals
      BY <1>2
    <3> QED BY <1>4, <3>1, <3>2
  <2> DEFINE f == Quoting("first", z)
  <2>3. Decoded(e, d, ch) = [decoder |-> f, bytes |-> <<>>]
    BY <1>h, <2>1, <2>2, QuotedTakes
  <2>5. Quoted("first", z, g, c, f, bytes \o <<>>)
    BY <1>d, <2>1 DEF Quoted
  <2> HIDE DEF f
  <2>6. QuotedAt(c, g, i + 1, f, bytes \o <<>>)
    BY <1>3, <1>f, <1>9, <2>5
  <2> QED BY <1>g, <2>3, <2>6
<1>10. CASE i = n + 1
  <2>1. PICK z : d = Quoting("first", z) /\ bytes = SubSeq(c, 1, g)
    BY <1>3, <1>a, <1>e, <1>10 DEF Quoted
  <2>2. ch = CR
    <3>1. ~(i + 1 <= n) /\ (i + 1) - n = 2
      BY <1>3, <1>10
    <3>2. b[2] = CR
      BY <1>2
    <3> QED BY <1>4, <3>1, <3>2
  <2> DEFINE f == Quoting("crlf", ch)
  <2>3. Decoded(e, d, ch) = [decoder |-> f, bytes |-> <<>>]
    BY <1>h, <2>1, <2>2, QuotedTakes
  <2>5. Quoted("crlf", ch, g, c, f, bytes \o <<>>)
    BY <1>d, <2>1 DEF Quoted
  <2> HIDE DEF f
  <2>6. QuotedAt(c, g, i + 1, f, bytes \o <<>>)
    BY <1>3, <1>f, <1>10, <2>5
  <2> QED BY <1>g, <2>3, <2>6
<1>11. CASE i = n + 2
  <2>1. PICK z : d = Quoting("crlf", z) /\ bytes = SubSeq(c, 1, g)
    BY <1>e, <1>11 DEF Quoted
  <2>2. ch = LF
    <3>1. ~(i + 1 <= n) /\ (i + 1) - n = 3
      BY <1>3, <1>11
    <3>2. b[3] = LF
      BY <1>2
    <3> QED BY <1>4, <3>1, <3>2
  <2> DEFINE f == Quoting("passthrough", 0)
  <2>3. Decoded(e, d, ch) = [decoder |-> f, bytes |-> <<>>]
    <3>1. Decoded("quoted_printable", Quoting("crlf", z), ch)
            = [decoder |-> Quoting("passthrough", 0), bytes |-> <<>>]
      <4>1. ch = LF => Decoded("quoted_printable", Quoting("crlf", z), ch)
                         = [decoder |-> Quoting("passthrough", 0), bytes |-> <<>>]
        BY BreakTakes
      <4> QED BY <2>2, <4>1
    <3> QED BY <1>h, <2>1, <3>1
  <2>5. Quoted("passthrough", 0, g, c, f, bytes \o <<>>)
    BY <1>d, <2>1 DEF Quoted
  <2> HIDE DEF f
  <2>6. QuotedAt(c, g, i + 1, f, bytes \o <<>>)
    BY <1>3, <1>f, <1>11, <2>5
  <2> QED BY <1>g, <2>3, <2>6
<1>12. \/ i = 0 /\ n = 1
       \/ i = 0 /\ n = 3
       \/ i = 1 /\ n = 3
       \/ i = 2 /\ n = 3
       \/ i \in {n, n + 1, n + 2}
  BY <1>3, <1>4
<1> QED BY <1>5, <1>6, <1>7, <1>8, <1>9, <1>10, <1>11, <1>12
-----------------------------------------------------------------------------
(* A decoder in a body: of what was encoded it gives the bytes in their      *)
(* order, and all of them at the end.                                       *)

\* The next symbol of a piece.
LEMMA PieceTaken ==
    ASSUME NEW e \in Codings, NEW c \in Seq(Byte), NEW brk, NEW g \in 1 .. NumPieces(e, c),
           NEW P, P = Pieces(e, c, brk),
           NEW i \in 0 .. Len(P[g]) - 1, NEW d, NEW bytes, bytes \in Seq(Byte),
           Inside(e, c, g, i, d, bytes)
    PROVE  \E f, y : /\ Decoded(e, d, P[g][i + 1]) = [decoder |-> f, bytes |-> y]
                     /\ Inside(e, c, g, i + 1, f, bytes \o y)
<1>1. CASE e = "base64"
  <2>1. g \in 1 .. NumGroups(c)
    BY <1>1 DEF NumPieces
  <2> QED BY <1>1, <2>1, GroupTaken
<1>2. CASE e = "quoted_printable"
  <2>1. g \in 1 .. Len(c)
    BY <1>2 DEF NumPieces
  <2> QED BY <1>2, <2>1, EscapeTaken
<1> QED BY <1>1, <1>2 DEF Codings

\* The lengths of a piece.
LEMMA PieceLength ==
    ASSUME NEW e \in Codings, NEW c \in Seq(Byte), NEW brk, NEW g \in 1 .. NumPieces(e, c),
           NEW P, P = Pieces(e, c, brk)
    PROVE  /\ Len(P[g]) \in Nat /\ Len(P[g]) >= 1
           /\ e = "base64" => Len(P[g]) \in {4, 6}
           /\ e = "quoted_printable" =>
                /\ Len(Escaped(c[g])) \in Nat
                /\ Len(P[g]) \in {Len(Escaped(c[g])), Len(Escaped(c[g])) + 3}
                /\ Len(Escaped(c[g])) >= 1
<1> DEFINE a == Piece(e, c, g)
           b == Break(e)
<1>1. Len(a) \in 1 .. 4 /\ (e = "base64" => Len(a) = 4)
  BY PieceIs
<1>2. Len(P[g]) \in {Len(a), Len(a) + Len(b)}
  BY PieceHas
<1>3. CASE e = "base64"
  <2>1. Len(b) = 2
    BY <1>3 DEF Break
  <2> HIDE DEF a, b
  <2>2. Len(a) = 4
    BY <1>1, <1>3
  <2>3. Len(P[g]) \in {4, 6}
    BY <1>2, <2>1, <2>2
  <2>4. Len(P[g]) \in Nat /\ Len(P[g]) >= 1
    <3>1. \A l \in {4, 6} : l \in Nat /\ l >= 1
      OBVIOUS
    <3> QED BY <2>3, <3>1
  <2> QED BY <1>3, <2>3, <2>4
<1>4. CASE e = "quoted_printable"
  <2>1. Len(b) = 3
    BY <1>4 DEF Break
  <2>2. a = Escaped(c[g])
    BY <1>4 DEF Piece
  <2> HIDE DEF a, b
  <2>3. Len(a) \in Nat /\ Len(a) >= 1
    BY <1>1, SMTT(40)
  <2>4. Len(P[g]) \in {Len(a), Len(a) + 3}
    BY <1>2, <2>1
  <2>5. Len(P[g]) \in Nat /\ Len(P[g]) >= 1
    BY <2>3, <2>4
  <2> QED BY <1>4, <2>2, <2>3, <2>4, <2>5
<1> QED BY <1>3, <1>4 DEF Codings

\* From one piece to the next.
LEMMA PieceBegins ==
    ASSUME NEW e \in Codings, NEW c \in Seq(Byte), NEW brk, NEW g \in 1 .. NumPieces(e, c),
           NEW P, P = Pieces(e, c, brk), NEW d, NEW bytes,
           Inside(e, c, g, Len(P[g]), d, bytes), g < NumPieces(e, c)
    PROVE  Inside(e, c, g + 1, 0, d, bytes)
<1>0. (g + 1) - 1 = g
  BY PiecesAre
<1> DEFINE i == Len(P[g])
<1>1. CASE e = "base64"
  <2>1. i \in {4, 6}
    BY <1>1, PieceLength
  <2> HIDE DEF i
  <2>2. i # 0 /\ ~(i <= 3)
    BY <2>1
  <2>3. AfterGroup(c, g, d, bytes)
    <3>1. Inside(e, c, g, i, d, bytes)
      BY DEF i
    <3> QED BY <1>1, <2>2, <3>1 DEF Inside
  <2>4. AfterGroup(c, (g + 1) - 1, d, bytes)
    BY <1>0, <2>3
  <2> QED BY <1>1, <2>4 DEF Inside
<1>2. CASE e = "quoted_printable"
  <2> DEFINE n == Len(Escaped(c[g]))
  <2>1. n \in Nat /\ i \in {n, n + 3} /\ n >= 1
    BY <1>2, PieceLength
  <2>2. Inside(e, c, g, i, d, bytes)
    OBVIOUS
  <2>3. QuotedAt(c, g, i, d, bytes)
    BY <1>2, <2>2 DEF Inside
  <2> HIDE DEF n, i
  <2>4. i # 0 /\ ~(i < n) /\ i # n + 1 /\ i # n + 2
    BY <2>1
  <2>5. \E x : Quoted("passthrough", x, g, c, d, bytes)
    BY <2>3, <2>4 DEF QuotedAt, n
  <2>6. \E x : Quoted("passthrough", x, (g + 1) - 1, c, d, bytes)
    BY <1>0, <2>5
  <2>7. QuotedAt(c, g + 1, 0, d, bytes)
    BY <2>6 DEF QuotedAt
  <2> QED BY <1>2, <2>7 DEF Inside
<1> QED BY <1>1, <1>2 DEF Codings

\* A decoder is ready for the first piece.
LEMMA FirstPiece ==
    ASSUME NEW e \in Codings, NEW c \in Seq(Byte), 1 <= NumPieces(e, c)
    PROVE  Inside(e, c, 1, 0, NewDecoder(e), <<>>)
<1>0. SubSeq(c, 1, 0) = <<>> /\ 1 - 1 = 0 /\ Len(c) \in Nat
  BY SubSeqEmpty, LenProperties
<1>1. CASE e = "base64"
  <2>1. Len(c) > 0
    <3>1. (Len(c) + 2) \div 3 >= 1
      BY <1>1 DEF NumPieces, NumGroups
    <3> QED BY <1>0, <3>1
  <2>2. Before(c, 0) = <<>>
    <3>1. 3 * 0 < Len(c) /\ 3 * 0 = 0
      BY <1>0, <2>1
    <3> QED BY <1>0, <3>1 DEF Before
  <2>3. NewDecoder(e) = Waiting(0, <<>>, 0)
    BY <1>1 DEF NewDecoder, NewBase64, Waiting
  <2>4. AfterGroup(c, 1 - 1, NewDecoder(e), <<>>)
    BY <1>0, <2>2, <2>3 DEF AfterGroup
  <2> QED BY <1>1, <2>4 DEF Inside
<1>2. CASE e = "quoted_printable"
  <2>1. NewDecoder(e) = Quoting("passthrough", 0)
    BY <1>2 DEF NewDecoder, NewQuoted, Quoting
  <2>2. Quoted("passthrough", 0, 1 - 1, c, NewDecoder(e), <<>>)
    BY <1>0, <2>1 DEF Quoted
  <2>3. QuotedAt(c, 1, 0, NewDecoder(e), <<>>)
    BY <2>2 DEF QuotedAt
  <2> QED BY <1>2, <2>3 DEF Inside
<1> QED BY <1>1, <1>2 DEF Codings

\* What was given is the beginning of the content, and at the end all of it.
LEMMA InsideHas ==
    ASSUME NEW e \in Codings, NEW c \in Seq(Byte), NEW brk, NEW g \in 1 .. NumPieces(e, c),
           NEW P, P = Pieces(e, c, brk), NEW i \in 0 .. Len(P[g]), NEW d, NEW bytes,
           Inside(e, c, g, i, d, bytes)
    PROVE  /\ \E m \in 0 .. Len(c) : bytes = SubSeq(c, 1, m)
           /\ g = NumPieces(e, c) /\ i = Len(P[g]) => bytes = c
<1>0. Len(c) \in Nat /\ SubSeq(c, 1, Len(c)) = c
  BY LenProperties, SubSeqFull
<1>1. CASE e = "base64"
  <2>0. g \in Nat /\ g >= 1
    BY LenProperties DEF NumPieces, NumGroups
  <2>1. ASSUME NEW k \in Nat PROVE \E m \in 0 .. Len(c) : Before(c, k) = SubSeq(c, 1, m)
    <3> DEFINE m == IF 3 * k < Len(c) THEN 3 * k ELSE Len(c)
    <3>1. m \in 0 .. Len(c)
      BY <1>0
    <3>2. Before(c, k) = SubSeq(c, 1, m)
      BY DEF Before
    <3> HIDE DEF m
    <3> QED BY <3>1, <3>2
  <2>2. bytes = Before(c, g - 1) \/ bytes = Before(c, g)
    BY <1>1 DEF Inside, AfterGroup, InGroup
  <2>3. ASSUME g = NumPieces(e, c), i = Len(P[g]) PROVE bytes = c
    <3>1. i \in {4, 6}
      BY <1>1, <2>3, PieceLength
    <3>2. bytes = Before(c, g)
      <4>1. i # 0 /\ ~(i <= 3)
        BY <3>1
      <4> QED BY <1>1, <4>1 DEF Inside, AfterGroup
    <3>3. ~(3 * g < Len(c))
      <4>1. g = (Len(c) + 2) \div 3
        BY <1>1, <2>3 DEF NumPieces, NumGroups
      <4> QED BY <1>0, <4>1
    <3>4. Before(c, g) = SubSeq(c, 1, Len(c))
      BY <3>3 DEF Before
    <3> QED BY <1>0, <3>2, <3>4
  <2>4. g - 1 \in Nat
    BY <2>0
  <2> QED BY <2>0, <2>1, <2>2, <2>3, <2>4
<1>2. CASE e = "quoted_printable"
  <2> DEFINE n == Len(Escaped(c[g]))
  <2>1. n \in Nat /\ Len(P[g]) \in {n, n + 3} /\ n >= 1
    BY <1>2, PieceLength
  <2>2. QuotedAt(c, g, i, d, bytes)
    BY <1>2 DEF Inside
  <2>3. g \in 1 .. Len(c)
    BY <1>2 DEF NumPieces
  <2>4. bytes = SubSeq(c, 1, g - 1) \/ bytes = SubSeq(c, 1, g)
    BY <2>2 DEF QuotedAt, Quoted
  <2>5. g - 1 \in 0 .. Len(c) /\ g \in 0 .. Len(c)
    BY <1>0, <2>3
  <2>6. ASSUME g = NumPieces(e, c), i = Len(P[g]) PROVE bytes = c
    <3>1. i # 0 /\ ~(i < n)
      BY <2>1, <2>6
    <3>2. bytes = SubSeq(c, 1, g)
      BY <2>2, <3>1 DEF QuotedAt, Quoted
    <3>3. g = Len(c)
      BY <1>2, <2>6 DEF NumPieces
    <3> QED BY <1>0, <3>2, <3>3
  <2> QED BY <2>4, <2>5, <2>6
<1> QED BY <1>1, <1>2 DEF Codings

\* b symbols of the encoded content were taken.
Reached(e, c, brk, b, d, bytes) ==
    \/ b = 0 /\ d = NewDecoder(e) /\ bytes = <<>>
    \/ \E g \in 1 .. NumPieces(e, c) : \E i \in 1 .. Len(Pieces(e, c, brk)[g]) :
          /\ b = Len(Flat(Pieces(e, c, brk), g - 1)) + i
          /\ Inside(e, c, g, i, d, bytes)

\* Encoded is a sequence of bytes.
LEMMA EncodedIsBytes ==
    ASSUME NEW e \in Codings, NEW c \in Seq(Byte), NEW brk, NEW P, P = Pieces(e, c, brk)
    PROVE  /\ Encoded(e, c, brk) = Flat(P, NumPieces(e, c))
           /\ Encoded(e, c, brk) \in Seq(Byte)
<1>1. P \in Seq(Seq(Byte)) /\ Len(P) = NumPieces(e, c) /\ NumPieces(e, c) \in Nat
  BY PiecesAre
<1>2. FlattenSeq(P) = Flat(P, Len(P)) /\ Flat(P, Len(P)) \in Seq(Byte)
  BY <1>1, FlatLength
<1> QED BY <1>1, <1>2, EncodedIs

\* Decoding takes symbol by symbol.
LEMMA ReachedStep ==
    ASSUME NEW e \in Codings, NEW c \in Seq(Byte), NEW brk, NEW d, NEW bytes,
           bytes \in Seq(Byte),
           NEW b \in Nat, b < Len(Encoded(e, c, brk)), Reached(e, c, brk, b, d, bytes)
    PROVE  \E f, y : /\ Decoded(e, d, Encoded(e, c, brk)[b + 1]) = [decoder |-> f, bytes |-> y]
                     /\ Reached(e, c, brk, b + 1, f, bytes \o y)
<1> DEFINE P == Pieces(e, c, brk)
           n == NumPieces(e, c)
           s == Encoded(e, c, brk)
<1>1. P \in Seq(Seq(Byte)) /\ Len(P) = n /\ n \in Nat /\ s = Flat(P, n)
  BY PiecesAre, EncodedIsBytes
<1>2. \A g \in 1 .. n : Len(P[g]) \in Nat /\ Len(P[g]) >= 1
  BY PieceLength
<1>3. \A g \in 1 .. n : \A i \in 1 .. Len(P[g]) :
         s[Len(Flat(P, g - 1)) + i] = P[g][i] /\ Len(Flat(P, g - 1)) + i \in 1 .. Len(s)
  <2> HIDE DEF P, n, s
  <2>1. n \in 0 .. Len(P)
    BY <1>1
  <2>2. \A g \in 1 .. n : \A i \in 1 .. Len(P[g]) :
           /\ Len(Flat(P, g - 1)) + i \in 1 .. Len(Flat(P, n))
           /\ Flat(P, n)[Len(Flat(P, g - 1)) + i] = P[g][i]
    BY <1>1, <2>1, FlatPositions, ZenonT(40)
  <2> QED BY <1>1, <2>2
<1>4. /\ \A k \in 0 .. n : Len(Flat(P, k)) \in Nat
      /\ \A k \in 0 .. n - 1 : Len(Flat(P, k + 1)) = Len(Flat(P, k)) + Len(P[k + 1])
      /\ Len(Flat(P, 0)) = 0
  BY <1>1, FlatLength
<1>5. \E g \in 1 .. n : \E i \in 0 .. Len(P[g]) - 1 :
         b = Len(Flat(P, g - 1)) + i /\ Inside(e, c, g, i, d, bytes)
  <2>1. CASE b = 0 /\ d = NewDecoder(e) /\ bytes = <<>>
    <3>1. n >= 1
      <4>1. Len(s) > 0
        BY <2>1
      <4>2. n # 0
        BY <1>1, <1>4, <4>1
      <4> QED BY <1>1, <4>2
    <3>2. Inside(e, c, 1, 0, d, bytes)
      BY <2>1, <3>1, FirstPiece
    <3>3. 1 \in 1 .. n /\ 0 \in 0 .. Len(P[1]) - 1 /\ 1 - 1 = 0
      BY <1>1, <1>2, <3>1
    <3>4. b = Len(Flat(P, 1 - 1)) + 0
      BY <1>4, <2>1, <3>3
    <3> HIDE DEF P, n, s
    <3> QED BY <3>2, <3>3, <3>4
  <2>2. ASSUME NEW g \in 1 .. n, NEW i \in 1 .. Len(P[g]),
               b = Len(Flat(P, g - 1)) + i, Inside(e, c, g, i, d, bytes)
        PROVE  \E h \in 1 .. n : \E j \in 0 .. Len(P[h]) - 1 :
                  b = Len(Flat(P, h - 1)) + j /\ Inside(e, c, h, j, d, bytes)
    <3>0. g - 1 \in 0 .. n - 1 /\ (g - 1) + 1 = g /\ g \in Nat /\ Len(P[g]) \in Nat
      BY <1>1, <1>2
    <3>1. CASE i < Len(P[g])
      <4>1. i \in 0 .. Len(P[g]) - 1
        BY <3>0, <3>1
      <4> HIDE DEF P, n, s
      <4> QED BY <2>2, <4>1
    <3>2. CASE i = Len(P[g])
      <4>1. Len(Flat(P, g)) = Len(Flat(P, g - 1)) + Len(P[g])
        BY <1>4, <3>0
      <4>2. g # n
        BY <1>1, <2>2, <3>2, <4>1
      <4>3. g + 1 \in 1 .. n /\ g < n /\ (g + 1) - 1 = g
        BY <1>1, <3>0, <4>2
      <4>4. Inside(e, c, g + 1, 0, d, bytes)
        BY <2>2, <3>2, <4>3, PieceBegins
      <4>5. 0 \in 0 .. Len(P[g + 1]) - 1
        BY <1>2, <4>3
      <4> HIDE DEF P, n, s
      <4>6. b = Len(Flat(P, (g + 1) - 1)) + 0
        <5>1. Len(Flat(P, g)) = b
          BY <2>2, <3>2, <4>1
        <5> QED BY <4>3, <5>1
      <4> QED BY <4>3, <4>4, <4>5, <4>6
    <3> QED BY <3>0, <3>1, <3>2
  <2> QED BY <2>1, <2>2 DEF Reached
<1>a. PICK g \in 1 .. n : \E i \in 0 .. Len(P[g]) - 1 :
         b = Len(Flat(P, g - 1)) + i /\ Inside(e, c, g, i, d, bytes)
  BY <1>5
<1>6. PICK i \in 0 .. Len(P[g]) - 1 :
         b = Len(Flat(P, g - 1)) + i /\ Inside(e, c, g, i, d, bytes)
  BY <1>a
<1>7. PICK f, y : /\ Decoded(e, d, P[g][i + 1]) = [decoder |-> f, bytes |-> y]
                  /\ Inside(e, c, g, i + 1, f, bytes \o y)
  BY <1>6, PieceTaken
<1>8. i + 1 \in 1 .. Len(P[g]) /\ Len(Flat(P, g - 1)) \in Nat
  BY <1>1, <1>2, <1>4
<1>9. b + 1 = Len(Flat(P, g - 1)) + (i + 1)
  BY <1>6, <1>8
<1>10. s[b + 1] = P[g][i + 1]
  BY <1>3, <1>8, <1>9
<1>11. Reached(e, c, brk, b + 1, f, bytes \o y)
  BY <1>7, <1>8, <1>9 DEF Reached
<1> QED BY <1>7, <1>10, <1>11

\* What was given is the beginning of the content, and all of it at the end.
LEMMA ReachedHas ==
    ASSUME NEW e \in Codings, NEW c \in Seq(Byte), NEW brk, NEW d, NEW bytes,
           NEW b \in Nat, Reached(e, c, brk, b, d, bytes)
    PROVE  /\ \E m \in 0 .. Len(c) : bytes = SubSeq(c, 1, m)
           /\ b = Len(Encoded(e, c, brk)) => bytes = c
<1> DEFINE P == Pieces(e, c, brk)
           n == NumPieces(e, c)
           s == Encoded(e, c, brk)
<1>0. Len(c) \in Nat /\ SubSeq(c, 1, 0) = <<>> /\ 0 \in 0 .. Len(c)
  BY LenProperties, SubSeqEmpty
<1>1. P \in Seq(Seq(Byte)) /\ Len(P) = n /\ n \in Nat /\ s = Flat(P, n)
  BY PiecesAre, EncodedIsBytes
<1>2. \A g \in 1 .. n : Len(P[g]) \in Nat /\ Len(P[g]) >= 1
  BY PieceLength
<1>3. \A g \in 1 .. n : \A i \in 1 .. Len(P[g]) : Len(Flat(P, g - 1)) + i \in 1 .. Len(s)
  <2> HIDE DEF P, n, s
  <2>1. n \in 0 .. Len(P)
    BY <1>1
  <2>2. \A g \in 1 .. n : \A i \in 1 .. Len(P[g]) :
           /\ Len(Flat(P, g - 1)) + i \in 1 .. Len(Flat(P, n))
           /\ Flat(P, n)[Len(Flat(P, g - 1)) + i] = P[g][i]
    BY <1>1, <2>1, FlatPositions, ZenonT(40)
  <2> QED BY <1>1, <2>2
<1>4. /\ \A k \in 0 .. n : Len(Flat(P, k)) \in Nat
      /\ \A k \in 0 .. n - 1 : Len(Flat(P, k + 1)) = Len(Flat(P, k)) + Len(P[k + 1])
      /\ Len(Flat(P, 0)) = 0
  BY <1>1, FlatLength
<1>5. CASE b = 0 /\ d = NewDecoder(e) /\ bytes = <<>>
  <2>1. ASSUME b = Len(s) PROVE bytes = c
    <3>1. n = 0
      <4>1. ASSUME n # 0 PROVE FALSE
        <5>1. 1 \in 1 .. n /\ 1 \in 1 .. Len(P[1]) /\ 1 - 1 = 0
          BY <1>1, <1>2, <4>1
        <5>2. Len(Flat(P, 1 - 1)) + 1 \in 1 .. Len(s)
          BY <1>3, <5>1
        <5> QED BY <1>5, <2>1, <5>2
      <4> QED BY <4>1
    <3>2. Len(c) = 0
      <4>1. CASE e = "base64"
        <5>1. (Len(c) + 2) \div 3 = 0
          BY <3>1, <4>1 DEF NumPieces, NumGroups
        <5> QED BY <1>0, <5>1
      <4>2. CASE e = "quoted_printable"
        BY <3>1, <4>2 DEF NumPieces
      <4> QED BY <4>1, <4>2 DEF Codings
    <3>3. c = <<>>
      BY <3>2, EmptySeq, SeqEqual
    <3> QED BY <1>5, <3>3
  <2> QED BY <1>0, <1>5, <2>1
<1>6. ASSUME NEW g \in 1 .. n, NEW i \in 1 .. Len(P[g]),
             b = Len(Flat(P, g - 1)) + i, Inside(e, c, g, i, d, bytes)
      PROVE  /\ \E m \in 0 .. Len(c) : bytes = SubSeq(c, 1, m)
             /\ b = Len(s) => bytes = c
  <2>0. g - 1 \in 0 .. n - 1 /\ (g - 1) + 1 = g /\ g \in Nat /\ Len(P[g]) \in Nat
        /\ i \in 0 .. Len(P[g])
    BY <1>1, <1>2
  <2>1. /\ \E m \in 0 .. Len(c) : bytes = SubSeq(c, 1, m)
        /\ g = n /\ i = Len(P[g]) => bytes = c
    BY <1>6, <2>0, InsideHas
  <2>2. ASSUME b = Len(s) PROVE g = n /\ i = Len(P[g])
    <3>1. i = Len(P[g])
      <4>1. ASSUME i # Len(P[g]) PROVE FALSE
        <5>1. i + 1 \in 1 .. Len(P[g])
          BY <2>0, <4>1
        <5>2. Len(Flat(P, g - 1)) + (i + 1) \in 1 .. Len(s)
          BY <1>3, <5>1
        <5> QED BY <1>4, <1>6, <2>0, <2>2, <5>2
      <4> QED BY <4>1
    <3>2. g = n
      <4>1. ASSUME g # n PROVE FALSE
        <5>1. g + 1 \in 1 .. n /\ 1 \in 1 .. Len(P[g + 1]) /\ (g + 1) - 1 = g
          BY <1>1, <1>2, <2>0, <4>1
        <5>2. Len(Flat(P, (g + 1) - 1)) + 1 \in 1 .. Len(s)
          BY <1>3, <5>1
        <5>3. Len(Flat(P, g)) = Len(Flat(P, g - 1)) + Len(P[g])
          BY <1>4, <2>0
        <5>4. Len(Flat(P, g)) = b
          BY <1>6, <3>1, <5>3
        <5>5. b + 1 \in 1 .. Len(s)
          BY <5>1, <5>2, <5>4
        <5> HIDE DEF P, n, s
        <5> QED BY <2>2, <5>5
      <4> QED BY <4>1
    <3> QED BY <3>1, <3>2
  <2> QED BY <2>1, <2>2
<1> QED BY <1>5, <1>6 DEF Reached

\* A decoder that takes s from the left: after b symbols it is in the state r[b].decoder
\* and has given r[b].bytes.
TakesAll(e, s, r) ==
    /\ r[0] = [decoder |-> NewDecoder(e), bytes |-> <<>>]
    /\ \A b \in 0 .. Len(s) - 1 :
          LET y == Decoded(e, r[b].decoder, s[b + 1])
          IN  r[b + 1] = [decoder |-> y.decoder, bytes |-> r[b].bytes \o y.bytes]

\* base64_decoder and quouted_printable_decoder invert the encodings of RFC 2045, wherever
\* the sender breaks its lines: at every moment the bytes given are the beginning of the
\* content, and when all was taken they are the content.
THEOREM DecodersInvert ==
    ASSUME NEW e \in Codings, NEW c \in Seq(Byte), NEW brk, NEW s, s = Encoded(e, c, brk),
           NEW r, TakesAll(e, s, r)
    PROVE  /\ \A b \in 0 .. Len(s) : \E m \in 0 .. Len(c) : r[b].bytes = SubSeq(c, 1, m)
           /\ r[Len(s)].bytes = c
<1> DEFINE On(b) == Reached(e, c, brk, b, r[b].decoder, r[b].bytes)
           T == {b \in Nat : b <= Len(s) => On(b)}
<1>0. s \in Seq(Byte) /\ Len(s) \in Nat
  BY EncodedIsBytes, LenProperties
<1>1. 0 \in T
  <2>1. r[0] = [decoder |-> NewDecoder(e), bytes |-> <<>>]
    BY DEF TakesAll
  <2>2. On(0)
    BY <2>1 DEF Reached
  <2> QED BY <2>2
<1>2. ASSUME NEW b \in Nat, b \in T PROVE b + 1 \in T
  <2>1. SUFFICES ASSUME b + 1 <= Len(s) PROVE On(b + 1)
    OBVIOUS
  <2>2. b \in 0 .. Len(s) - 1 /\ b < Len(s) /\ On(b)
    BY <1>0, <1>2, <2>1
  <2> DEFINE y == Decoded(e, r[b].decoder, s[b + 1])
  <2>3. r[b + 1] = [decoder |-> y.decoder, bytes |-> r[b].bytes \o y.bytes]
    BY <2>2 DEF TakesAll
  <2>4. PICK m \in 0 .. Len(c) : r[b].bytes = SubSeq(c, 1, m)
    BY <2>2, ReachedHas
  <2>5. r[b].bytes \in Seq(Byte)
    <3>1. Len(c) \in Nat
      BY LenProperties
    <3>2. SubSeq(c, 1, m) \in Seq(Byte)
      BY <3>1
    <3> QED BY <2>4, <3>2
  <2>6. PICK f, z : /\ y = [decoder |-> f, bytes |-> z]
                    /\ Reached(e, c, brk, b + 1, f, r[b].bytes \o z)
    BY <2>2, <2>5, ReachedStep
  <2>7. y.decoder = f /\ y.bytes = z
    BY <2>6
  <2>8. r[b + 1].decoder = f /\ r[b + 1].bytes = r[b].bytes \o z
    BY <2>3, <2>7
  <2> QED BY <2>6, <2>8
<1>3. Nat \subseteq T
  <2> HIDE DEF T
  <2> QED BY <1>1, <1>2, Reaches
<1>4. \A b \in 0 .. Len(s) : On(b)
  BY <1>0, <1>3
<1>5. ASSUME NEW b \in 0 .. Len(s)
      PROVE  /\ \E m \in 0 .. Len(c) : r[b].bytes = SubSeq(c, 1, m)
             /\ b = Len(s) => r[b].bytes = c
  <2>1. On(b) /\ b \in Nat
    BY <1>0, <1>4
  <2> QED BY <2>1, ReachedHas
<1>6. Len(s) \in 0 .. Len(s)
  BY <1>0
<1> QED BY <1>5, <1>6
-----------------------------------------------------------------------------
(* What is sent for a part.                                                 *)

\* The header lines of a part, and how long its header is.
NumLines(p) == IF p.ctype = "" THEN 1 ELSE IF p.encoding = "" THEN 2 ELSE 3
LineName(j) == IF j = 0 THEN "content-disposition"
               ELSE IF j = 1 THEN "content-type" ELSE "content-transfer-encoding"
LineValue(p, j) == IF j = 0 THEN Disposition(p.name, p.filename)
                   ELSE IF j = 1 THEN Word(p.ctype) ELSE Word(p.encoding)
HeadLen(p) == 5 + 5 * NumLines(p)
Codes(p) == Encoded(p.encoding, p.content, p.breaks)

\* What symbols are made of.
HeaderNames == {"content-disposition", "content-type", "content-transfer-encoding"}
WordsOf(p) == {p.name, p.filename, p.ctype, p.encoding}
Symbols(W) == {Bound} \cup {Ch(c) : c \in Int} \cup {Word(w) : w \in W}
              \cup {Disposition(v, w) : v \in W, w \in W}

\* What a part is.
LEMMA PartIs ==
    ASSUME NEW p, IsPart(p)
    PROVE  /\ p.content \in Seq(Byte) /\ p.encoding \in Codings \cup {""}
           /\ NumLines(p) \in 1 .. 3
           /\ p.ctype = "" => p.encoding = ""
           /\ p.ctype = "" => NumLines(p) = 1
           /\ p.ctype # "" /\ p.encoding = "" => NumLines(p) = 2
           /\ p.encoding # "" => NumLines(p) = 3
           /\ Codes(p) \in Seq(Byte)
<1>1. p.content \in Seq(Byte) /\ p.encoding \in Codings \cup {""}
  BY DEF IsPart, Byte, Codings
<1>2. Codes(p) \in Seq(Byte)
  <2>1. CASE p.encoding = ""
    BY <1>1, <2>1 DEF Codes, Encoded
  <2>2. CASE p.encoding \in Codings
    BY <1>1, <2>2, EncodedIsBytes DEF Codes
  <2> QED BY <1>1, <2>1, <2>2
<1>3. p.ctype = "" => p.encoding = ""
  BY DEF IsPart
<1>4. /\ p.ctype = "" => NumLines(p) = 1
      /\ p.ctype # "" /\ p.encoding = "" => NumLines(p) = 2
      /\ p.encoding # "" => NumLines(p) = 3
  <2>1. CASE p.ctype = ""
    BY <1>3, <2>1 DEF NumLines
  <2>2. CASE p.ctype # ""
    BY <2>2 DEF NumLines
  <2> QED BY <2>1, <2>2
<1>5. NumLines(p) \in 1 .. 3
  <2>1. NumLines(p) = 1 \/ NumLines(p) = 2 \/ NumLines(p) = 3
    BY <1>4
  <2> QED BY <2>1
<1> QED BY <1>1, <1>2, <1>3, <1>4, <1>5

\* Symbols are told apart by their codes and words.
LEMMA SymbolsDiffer ==
    /\ Bound # Return /\ Bound # NewLine /\ Bound # Dash /\ Bound # Colon
    /\ Return # NewLine /\ Return # Dash /\ Return # Colon /\ NewLine # Dash /\ NewLine # Colon
    /\ \A w : /\ Word(w) # Bound /\ Word(w) # Return /\ Word(w) # NewLine /\ Word(w) # Dash
              /\ Word(w) # Colon /\ Word(w).word = w
              /\ Word(w).code = -1
    /\ \A v, w : /\ Disposition(v, w) # Bound /\ Disposition(v, w) # Return
                 /\ Disposition(v, w) # NewLine
                 /\ Disposition(v, w).code = -2
                 /\ Disposition(v, w).word = v /\ Disposition(v, w).file = w
    /\ \A c \in Byte : Ch(c) # Bound /\ Ch(c).code = c
<1>1. /\ Bound.code = -3 /\ Return.code = 13 /\ NewLine.code = 10 /\ Dash.code = 45
      /\ Colon.code = 58
  BY DEF Bound, Return, NewLine, Dash, Colon, Ch, CR, LF
<1>2. /\ \A w : Word(w).code = -1 /\ Word(w).word = w
      /\ \A v, w : Disposition(v, w).code = -2 /\ Disposition(v, w).word = v
                   /\ Disposition(v, w).file = w
      /\ \A c : Ch(c).code = c
  BY DEF Word, Disposition, Ch
<1>3. \A c \in Byte : c # -3
  BY DEF Byte
<1> QED BY <1>1, <1>2, <1>3

\* The symbols there are.
LEMMA SymbolsHave ==
    ASSUME NEW W
    PROVE  /\ \A c \in Int : Ch(c) \in Symbols(W)
           /\ \A w \in W : Word(w) \in Symbols(W)
           /\ \A v \in W, w \in W : Disposition(v, w) \in Symbols(W)
           /\ Bound \in Symbols(W) /\ Dash \in Symbols(W) /\ Colon \in Symbols(W)
           /\ Return \in Symbols(W) /\ NewLine \in Symbols(W)
<1>1. ASSUME NEW c \in Int PROVE Ch(c) \in Symbols(W)
  BY DEF Symbols
<1>2. ASSUME NEW w \in W PROVE Word(w) \in Symbols(W)
  BY DEF Symbols
<1>3. ASSUME NEW v \in W, NEW w \in W PROVE Disposition(v, w) \in Symbols(W)
  BY DEF Symbols
<1>4. Bound \in Symbols(W)
  BY DEF Symbols
<1>5. Dash \in Symbols(W) /\ Colon \in Symbols(W) /\ Return \in Symbols(W) /\ NewLine \in Symbols(W)
  <2>1. 45 \in Int /\ 58 \in Int /\ 13 \in Int /\ 10 \in Int
    OBVIOUS
  <2> QED BY <1>1, <2>1 DEF Dash, Colon, Return, NewLine, CR, LF
<1> QED BY <1>1, <1>2, <1>3, <1>4, <1>5

\* Sequences of two, three and five.
LEMMA TwoAre ==
    ASSUME NEW S, NEW a \in S, NEW b \in S
    PROVE  /\ <<a, b>> \in Seq(S) /\ Len(<<a, b>>) = 2
           /\ <<a, b>>[1] = a /\ <<a, b>>[2] = b
OBVIOUS

\* A sequence of three.
LEMMA ThreeAre ==
    ASSUME NEW S, NEW a \in S, NEW b \in S, NEW c \in S
    PROVE  /\ <<a, b, c>> \in Seq(S) /\ Len(<<a, b, c>>) = 3
           /\ <<a, b, c>>[1] = a /\ <<a, b, c>>[2] = b /\ <<a, b, c>>[3] = c
OBVIOUS

\* A sequence of five.
LEMMA FiveAre ==
    ASSUME NEW S, NEW a \in S, NEW b \in S, NEW c \in S, NEW d \in S, NEW e \in S,
           NEW l, l = <<a, b, c, d, e>>
    PROVE  /\ l \in Seq(S) /\ Len(l) = 5
           /\ l[1] = a /\ l[2] = b /\ l[3] = c /\ l[4] = d /\ l[5] = e
OBVIOUS

\* In s the symbols behind o are a header line.
IsLine(s, o, name, value) ==
    /\ s[o + 1] = Word(name) /\ s[o + 2] = Colon /\ s[o + 3] = value
    /\ s[o + 4] = Return /\ s[o + 5] = NewLine

\* A header line is five symbols.
LEMMA LineIs ==
    ASSUME NEW W, NEW name \in W, NEW value \in Symbols(W)
    PROVE  /\ HeaderLine(name, value) \in Seq(Symbols(W)) /\ Len(HeaderLine(name, value)) = 5
           /\ IsLine(HeaderLine(name, value), 0, name, value)
<1>1. /\ Word(name) \in Symbols(W) /\ Colon \in Symbols(W) /\ Return \in Symbols(W)
      /\ NewLine \in Symbols(W)
  BY SymbolsHave
<1>4. HeaderLine(name, value) = <<Word(name), Colon, value, Return, NewLine>>
  BY DEF HeaderLine
<1>2. /\ HeaderLine(name, value) \in Seq(Symbols(W)) /\ Len(HeaderLine(name, value)) = 5
      /\ HeaderLine(name, value)[1] = Word(name) /\ HeaderLine(name, value)[2] = Colon
      /\ HeaderLine(name, value)[3] = value /\ HeaderLine(name, value)[4] = Return
      /\ HeaderLine(name, value)[5] = NewLine
  BY <1>1, <1>4, FiveAre
<1>3. 0 + 1 = 1 /\ 0 + 2 = 2 /\ 0 + 3 = 3 /\ 0 + 4 = 4 /\ 0 + 5 = 5
  OBVIOUS
<1> QED BY <1>2, <1>3 DEF IsLine

\* What is sent for p.
IsPartSent(s, p) ==
    /\ Len(s) = HeadLen(p) + Len(Codes(p))
    /\ s[1] = Bound /\ s[2] = Return /\ s[3] = NewLine
    /\ \A j \in 0 .. NumLines(p) - 1 : IsLine(s, 3 + 5 * j, LineName(j), LineValue(p, j))
    /\ s[HeadLen(p) - 1] = Return /\ s[HeadLen(p)] = NewLine
    /\ \A b \in 1 .. Len(Codes(p)) : s[HeadLen(p) + b] = Ch(Codes(p)[b])

\* A line that lies in s.
LEMMA LineWithin ==
    ASSUME NEW s, NEW l, NEW o \in Nat, NEW n, NEW v, IsLine(l, 0, n, v),
           \A i \in 1 .. 5 : s[o + i] = l[i]
    PROVE  IsLine(s, o, n, v)
<1>1. \A i \in 1 .. 5 : s[o + i] = l[0 + i]
  OBVIOUS
<1>2. 1 \in 1 .. 5 /\ 2 \in 1 .. 5 /\ 3 \in 1 .. 5 /\ 4 \in 1 .. 5 /\ 5 \in 1 .. 5
  OBVIOUS
<1> QED BY <1>1, <1>2, Zenon DEF IsLine

\* Everything in W.
LEMMA NamesIn ==
    ASSUME NEW W, HeaderNames \subseteq W
    PROVE  LineName(0) \in W /\ LineName(1) \in W /\ LineName(2) \in W
BY DEF HeaderNames, LineName

\* In s the elements behind o are those of f.
Stands(s, o, f) == \A i \in 1 .. Len(f) : s[o + i] = f[i]

\* Two sequences, one behind the other, stand in the whole.
LEMMA Behind ==
    ASSUME NEW S, NEW a \in Seq(S), NEW b \in Seq(S), NEW s, s = a \o b
    PROVE  /\ s \in Seq(S) /\ Len(a) \in Nat /\ Len(b) \in Nat
           /\ Len(s) = Len(a) + Len(b)
           /\ Stands(s, 0, a) /\ Stands(s, Len(a), b)
<1>1. \A i \in 1 .. Len(a) : 0 + i = i
  BY LenProperties
<1> QED BY <1>1, PutBehind DEF Stands

\* What stands in a sequence that stands in s stands in s.
LEMMA StandsWithin ==
    ASSUME NEW s, NEW f, NEW g, NEW o \in Nat, NEW q \in Nat, Len(f) \in Nat, Len(g) \in Nat,
           Stands(s, o, f), Stands(f, q, g), q + Len(g) <= Len(f)
    PROVE  Stands(s, o + q, g)
<1> SUFFICES ASSUME NEW i \in 1 .. Len(g) PROVE s[(o + q) + i] = g[i]
  BY DEF Stands
<1>1. q + i \in 1 .. Len(f) /\ o + (q + i) = (o + q) + i
  OBVIOUS
<1> QED BY <1>1 DEF Stands

\* One more sequence behind f.
LEMMA StillStands ==
    ASSUME NEW S, NEW a \in Seq(S), NEW b \in Seq(S), NEW s, s = a \o b, NEW q \in Nat,
           NEW g, Len(g) \in Nat, Stands(a, q, g), q + Len(g) <= Len(a)
    PROVE  Stands(s, q, g)
<1>1. Stands(s, 0, a) /\ Len(a) \in Nat
  BY Behind
<1>2. Stands(s, 0 + q, g)
  <2> 0 \in Nat
    OBVIOUS
  <2> QED BY <1>1, StandsWithin
<1>3. 0 + q = q
  OBVIOUS
<1> QED BY <1>2, <1>3

\* Six sequences, one behind the other.
AreSix(S, a, l, x, y, e, B, s, o1, o2, o3, o4, o5) ==
    /\ a \in Seq(S) /\ l \in Seq(S) /\ x \in Seq(S) /\ y \in Seq(S) /\ e \in Seq(S) /\ B \in Seq(S)
    /\ s = ((((a \o l) \o x) \o y) \o e) \o B
    /\ o1 = Len(a) /\ o2 = o1 + Len(l) /\ o3 = o2 + Len(x) /\ o4 = o3 + Len(y)
    /\ o5 = o4 + Len(e)

SixStand(S, a, l, x, y, e, B, s, o1, o2, o3, o4, o5) ==
    /\ s \in Seq(S) /\ Len(s) = o5 + Len(B)
    /\ Stands(s, 0, a) /\ Stands(s, o1, l) /\ Stands(s, o2, x) /\ Stands(s, o3, y)
    /\ Stands(s, o4, e) /\ Stands(s, o5, B)

\* Six sequences, one behind the other, each stand in the whole.
LEMMA SixBehind ==
    ASSUME NEW S, NEW a, NEW l, NEW x, NEW y, NEW e, NEW B, NEW s,
           NEW o1, NEW o2, NEW o3, NEW o4, NEW o5,
           AreSix(S, a, l, x, y, e, B, s, o1, o2, o3, o4, o5)
    PROVE  SixStand(S, a, l, x, y, e, B, s, o1, o2, o3, o4, o5)
<1>s. s = ((((a \o l) \o x) \o y) \o e) \o B
  BY DEF AreSix
<1>m. /\ a \in Seq(S) /\ l \in Seq(S) /\ x \in Seq(S) /\ y \in Seq(S) /\ e \in Seq(S)
      /\ B \in Seq(S)
  BY DEF AreSix
<1>o. /\ o1 = Len(a) /\ o2 = o1 + Len(l) /\ o3 = o2 + Len(x) /\ o4 = o3 + Len(y)
      /\ o5 = o4 + Len(e)
  BY DEF AreSix
<1>0. /\ Len(a) \in Nat /\ Len(l) \in Nat /\ Len(x) \in Nat /\ Len(y) \in Nat /\ Len(e) \in Nat
      /\ Len(B) \in Nat
  BY <1>m, LenProperties
<1>n0. Stands(a, 0, a)
  BY DEF Stands
<1>d1. PICK s1 : s1 = a \o l
  OBVIOUS
<1>b1. s1 \in Seq(S) /\ Len(s1) = Len(a) + Len(l)
      /\ Stands(s1, Len(a), l)
  <2>1. a \in Seq(S) /\ l \in Seq(S)
    BY <1>m, <1>0
  <2>2. s1 \in Seq(S)
    BY <1>d1, <2>1, Behind
  <2>3. Len(s1) = Len(a) + Len(l)
    BY <1>d1, <2>1, Behind
  <2>4. Stands(s1, Len(a), l)
    BY <1>d1, <2>1, Behind
  <2> QED BY <1>m, <1>0, <2>1, <2>2, <2>3, <2>4
<1>c10. Stands(s1, 0, a)
  <2>1. a \in Seq(S) /\ 0 \in Nat /\ (0) + Len(a) <= Len(a)
    BY <1>m, <1>0
  <2> QED BY <1>m, <1>0, <1>d1, <1>n0, <2>1, StillStands
<1>d2. PICK s2 : s2 = s1 \o x
  OBVIOUS
<1>b2. s2 \in Seq(S) /\ Len(s2) = Len(a) + Len(l) + Len(x)
      /\ Stands(s2, Len(a) + Len(l), x)
  <2>1. s1 \in Seq(S) /\ x \in Seq(S)
    BY <1>m, <1>0, <1>b1
  <2>0. Len(s1) = Len(a) + Len(l)
    BY <1>m, <1>0, <1>b1
  <2>2. s2 \in Seq(S)
    BY <1>d2, <2>1, Behind
  <2>3. Len(s2) = Len(s1) + Len(x)
    BY <1>d2, <2>1, Behind
  <2>4. Stands(s2, Len(s1), x)
    BY <1>d2, <2>1, Behind
  <2> QED BY <1>m, <1>0, <2>0, <2>1, <2>2, <2>3, <2>4
<1>c20. Stands(s2, 0, a)
  <2>1. s1 \in Seq(S) /\ 0 \in Nat /\ (0) + Len(a) <= Len(s1)
    BY <1>m, <1>0, <1>b1
  <2> QED BY <1>m, <1>0, <1>d2, <1>c10, <2>1, StillStands
<1>c21. Stands(s2, Len(a), l)
  <2>1. s1 \in Seq(S) /\ Len(a) \in Nat /\ (Len(a)) + Len(l) <= Len(s1)
    BY <1>m, <1>0, <1>b1
  <2> QED BY <1>m, <1>0, <1>d2, <1>b1, <2>1, StillStands
<1>d3. PICK s3 : s3 = s2 \o y
  OBVIOUS
<1>b3. s3 \in Seq(S) /\ Len(s3) = Len(a) + Len(l) + Len(x) + Len(y)
      /\ Stands(s3, Len(a) + Len(l) + Len(x), y)
  <2>1. s2 \in Seq(S) /\ y \in Seq(S)
    BY <1>m, <1>0, <1>b2
  <2>0. Len(s2) = Len(a) + Len(l) + Len(x)
    BY <1>m, <1>0, <1>b2
  <2>2. s3 \in Seq(S)
    BY <1>d3, <2>1, Behind
  <2>3. Len(s3) = Len(s2) + Len(y)
    BY <1>d3, <2>1, Behind
  <2>4. Stands(s3, Len(s2), y)
    BY <1>d3, <2>1, Behind
  <2> QED BY <1>m, <1>0, <2>0, <2>1, <2>2, <2>3, <2>4
<1>c30. Stands(s3, 0, a)
  <2>1. s2 \in Seq(S) /\ 0 \in Nat /\ (0) + Len(a) <= Len(s2)
    BY <1>m, <1>0, <1>b2
  <2> QED BY <1>m, <1>0, <1>d3, <1>c20, <2>1, StillStands
<1>c31. Stands(s3, Len(a), l)
  <2>1. s2 \in Seq(S) /\ Len(a) \in Nat /\ (Len(a)) + Len(l) <= Len(s2)
    BY <1>m, <1>0, <1>b2
  <2> QED BY <1>m, <1>0, <1>d3, <1>c21, <2>1, StillStands
<1>c32. Stands(s3, Len(a) + Len(l), x)
  <2>1. s2 \in Seq(S) /\ Len(a) + Len(l) \in Nat /\ (Len(a) + Len(l)) + Len(x) <= Len(s2)
    BY <1>m, <1>0, <1>b2
  <2> QED BY <1>m, <1>0, <1>d3, <1>b2, <2>1, StillStands
<1>d4. PICK s4 : s4 = s3 \o e
  OBVIOUS
<1>b4. s4 \in Seq(S) /\ Len(s4) = Len(a) + Len(l) + Len(x) + Len(y) + Len(e)
      /\ Stands(s4, Len(a) + Len(l) + Len(x) + Len(y), e)
  <2>1. s3 \in Seq(S) /\ e \in Seq(S)
    BY <1>m, <1>0, <1>b3
  <2>0. Len(s3) = Len(a) + Len(l) + Len(x) + Len(y)
    BY <1>m, <1>0, <1>b3
  <2>2. s4 \in Seq(S)
    BY <1>d4, <2>1, Behind
  <2>3. Len(s4) = Len(s3) + Len(e)
    BY <1>d4, <2>1, Behind
  <2>4. Stands(s4, Len(s3), e)
    BY <1>d4, <2>1, Behind
  <2> QED BY <1>m, <1>0, <2>0, <2>1, <2>2, <2>3, <2>4
<1>c40. Stands(s4, 0, a)
  <2>1. s3 \in Seq(S) /\ 0 \in Nat /\ (0) + Len(a) <= Len(s3)
    BY <1>m, <1>0, <1>b3
  <2> QED BY <1>m, <1>0, <1>d4, <1>c30, <2>1, StillStands
<1>c41. Stands(s4, Len(a), l)
  <2>1. s3 \in Seq(S) /\ Len(a) \in Nat /\ (Len(a)) + Len(l) <= Len(s3)
    BY <1>m, <1>0, <1>b3
  <2> QED BY <1>m, <1>0, <1>d4, <1>c31, <2>1, StillStands
<1>c42. Stands(s4, Len(a) + Len(l), x)
  <2>1. s3 \in Seq(S) /\ Len(a) + Len(l) \in Nat /\ (Len(a) + Len(l)) + Len(x) <= Len(s3)
    BY <1>m, <1>0, <1>b3
  <2> QED BY <1>m, <1>0, <1>d4, <1>c32, <2>1, StillStands
<1>c43. Stands(s4, Len(a) + Len(l) + Len(x), y)
  <2>1. s3 \in Seq(S) /\ Len(a) + Len(l) + Len(x) \in Nat /\ (Len(a) + Len(l) + Len(x)) + Len(y) <= Len(s3)
    BY <1>m, <1>0, <1>b3
  <2> QED BY <1>m, <1>0, <1>d4, <1>b3, <2>1, StillStands
<1>d5. s = s4 \o B
  BY <1>s, <1>d1, <1>d2, <1>d3, <1>d4
<1>b5. s \in Seq(S) /\ Len(s) = Len(a) + Len(l) + Len(x) + Len(y) + Len(e) + Len(B)
      /\ Stands(s, Len(a) + Len(l) + Len(x) + Len(y) + Len(e), B)
  <2>1. s4 \in Seq(S) /\ B \in Seq(S)
    BY <1>m, <1>0, <1>b4
  <2>0. Len(s4) = Len(a) + Len(l) + Len(x) + Len(y) + Len(e)
    BY <1>m, <1>0, <1>b4
  <2>2. s \in Seq(S)
    BY <1>d5, <2>1, Behind
  <2>3. Len(s) = Len(s4) + Len(B)
    BY <1>d5, <2>1, Behind
  <2>4. Stands(s, Len(s4), B)
    BY <1>d5, <2>1, Behind
  <2> QED BY <1>m, <1>0, <2>0, <2>1, <2>2, <2>3, <2>4
<1>c50. Stands(s, 0, a)
  <2>1. s4 \in Seq(S) /\ 0 \in Nat /\ (0) + Len(a) <= Len(s4)
    BY <1>m, <1>0, <1>b4
  <2> QED BY <1>m, <1>0, <1>d5, <1>c40, <2>1, StillStands
<1>c51. Stands(s, Len(a), l)
  <2>1. s4 \in Seq(S) /\ Len(a) \in Nat /\ (Len(a)) + Len(l) <= Len(s4)
    BY <1>m, <1>0, <1>b4
  <2> QED BY <1>m, <1>0, <1>d5, <1>c41, <2>1, StillStands
<1>c52. Stands(s, Len(a) + Len(l), x)
  <2>1. s4 \in Seq(S) /\ Len(a) + Len(l) \in Nat /\ (Len(a) + Len(l)) + Len(x) <= Len(s4)
    BY <1>m, <1>0, <1>b4
  <2> QED BY <1>m, <1>0, <1>d5, <1>c42, <2>1, StillStands
<1>c53. Stands(s, Len(a) + Len(l) + Len(x), y)
  <2>1. s4 \in Seq(S) /\ Len(a) + Len(l) + Len(x) \in Nat /\ (Len(a) + Len(l) + Len(x)) + Len(y) <= Len(s4)
    BY <1>m, <1>0, <1>b4
  <2> QED BY <1>m, <1>0, <1>d5, <1>c43, <2>1, StillStands
<1>c54. Stands(s, Len(a) + Len(l) + Len(x) + Len(y), e)
  <2>1. s4 \in Seq(S) /\ Len(a) + Len(l) + Len(x) + Len(y) \in Nat /\ (Len(a) + Len(l) + Len(x) + Len(y)) + Len(e) <= Len(s4)
    BY <1>m, <1>0, <1>b4
  <2> QED BY <1>m, <1>0, <1>d5, <1>b4, <2>1, StillStands
<1>q. /\ o5 = Len(a) + Len(l) + Len(x) + Len(y) + Len(e)
      /\ o4 = Len(a) + Len(l) + Len(x) + Len(y) /\ o3 = Len(a) + Len(l) + Len(x)
      /\ o2 = Len(a) + Len(l)
  BY <1>0, <1>o
<1>r. Len(s) = o5 + Len(B)
  BY <1>0, <1>b5, <1>q
<1> QED BY <1>o, <1>q, <1>r, <1>b5, <1>c50, <1>c51, <1>c52, <1>c53, <1>c54 DEF SixStand

\* A line that stands in s.
LEMMA LineStands ==
    ASSUME NEW s, NEW l, NEW o \in Nat, NEW n, NEW v, IsLine(l, 0, n, v),
           Stands(s, o, l), NEW k, k = Len(l), k = 5
    PROVE  IsLine(s, o, n, v)
<1>1. \A i \in 1 .. k : s[o + i] = l[i]
  BY DEF Stands
<1>2. \A i \in 1 .. 5 : s[o + i] = l[i]
  BY <1>1
<1> QED BY <1>2, LineWithin

\* The bytes of a part.
LEMMA BodyIs ==
    ASSUME NEW W, NEW p, Codes(p) \in Seq(Byte)
    PROVE  /\ Body(p) \in Seq(Symbols(W))
           /\ Len(Body(p)) = Len(Codes(p))
           /\ \A b \in 1 .. Len(Codes(p)) : Body(p)[b] = Ch(Codes(p)[b])
<1>0. Len(Codes(p)) \in Nat /\ DOMAIN Codes(p) = 1 .. Len(Codes(p))
  BY LenProperties
<1>1. \A b \in 1 .. Len(Codes(p)) : Codes(p)[b] \in Byte
  BY ElementOfSeq
<1>2. \A b \in 1 .. Len(Codes(p)) : Ch(Codes(p)[b]) \in Symbols(W)
  <2>1. \A b \in 1 .. Len(Codes(p)) : Codes(p)[b] \in Int
    <3>1. \A c \in Byte : c \in Int
      BY DEF Byte
    <3> QED BY <1>1, <3>1
  <2>2. \A c \in Int : Ch(c) \in Symbols(W)
    BY SymbolsHave
  <2> QED BY <2>1, <2>2
<1>3. Body(p) = [b \in 1 .. Len(Codes(p)) |-> Ch(Codes(p)[b])]
  BY <1>0 DEF Body, Chars, Codes
<1>4. PICK n \in Nat : n = Len(Codes(p))
  BY <1>0
<1>5. PICK B : B = [b \in 1 .. n |-> Ch(Codes(p)[b])]
  OBVIOUS
<1>6. B \in [1 .. n -> Symbols(W)] /\ \A b \in 1 .. n : B[b] = Ch(Codes(p)[b])
  BY <1>2, <1>4, <1>5
<1>7. B \in Seq(Symbols(W)) /\ Len(B) = n
  BY <1>6
<1> QED BY <1>3, <1>4, <1>5, <1>6, <1>7

\* The sequences that PartSent puts behind one another.
Begin == <<Bound, Return, NewLine>>
Empty == <<Return, NewLine>>
NameLine(p) == HeaderLine("content-disposition", Disposition(p.name, p.filename))

\* What the browser sends for a part is made of six pieces.
LEMMA PartSentIs ==
    ASSUME NEW p
    PROVE  PartSent(p) = ((((Begin \o NameLine(p)) \o Optional("content-type", p.ctype))
                           \o Optional("content-transfer-encoding", p.encoding)) \o Empty) \o Body(p)
BY DEF PartSent, Begin, Empty, NameLine

\* The pieces every part has: the start, the name line and the empty line.
LEMMA FixedPieces ==
    ASSUME NEW W, NEW p, HeaderNames \cup WordsOf(p) \subseteq W
    PROVE  /\ Begin \in Seq(Symbols(W)) /\ Empty \in Seq(Symbols(W))
           /\ NameLine(p) \in Seq(Symbols(W))
           /\ Len(Begin) = 3 /\ Len(Empty) = 2 /\ Len(NameLine(p)) = 5
           /\ Begin[1] = Bound /\ Begin[2] = Return /\ Begin[3] = NewLine
           /\ Empty[1] = Return /\ Empty[2] = NewLine
           /\ IsLine(NameLine(p), 0, LineName(0), LineValue(p, 0))
<1>1. Begin \in Seq(Symbols(W)) /\ Len(Begin) = 3 /\ Begin[1] = Bound /\ Begin[2] = Return
      /\ Begin[3] = NewLine
  BY SymbolsHave, ThreeAre DEF Begin
<1>2. Empty \in Seq(Symbols(W)) /\ Len(Empty) = 2 /\ Empty[1] = Return /\ Empty[2] = NewLine
  BY SymbolsHave, TwoAre DEF Empty
<1>3. LineName(0) = "content-disposition" /\ LineValue(p, 0) = Disposition(p.name, p.filename)
  BY DEF LineName, LineValue
<1>4. NameLine(p) = HeaderLine(LineName(0), LineValue(p, 0))
  BY <1>3 DEF NameLine
<1>5. LineName(0) \in W /\ LineValue(p, 0) \in Symbols(W)
  <2>1. p.name \in W /\ p.filename \in W
    BY DEF WordsOf
  <2>2. LineName(0) \in W
    BY NamesIn
  <2>3. Disposition(p.name, p.filename) \in Symbols(W)
    BY <2>1, SymbolsHave
  <2> QED BY <1>3, <2>2, <2>3
<1>6. NameLine(p) \in Seq(Symbols(W)) /\ Len(NameLine(p)) = 5
      /\ IsLine(NameLine(p), 0, LineName(0), LineValue(p, 0))
  BY <1>4, <1>5, LineIs
<1> QED BY <1>1, <1>2, <1>6

\* A line that a part need not have.
LEMMA OptionalIs ==
    ASSUME NEW W, NEW n, n \in W, NEW v, v \in W
    PROVE  /\ Optional(n, v) \in Seq(Symbols(W))
           /\ v = "" => Len(Optional(n, v)) = 0
           /\ v # "" => Len(Optional(n, v)) = 5 /\ IsLine(Optional(n, v), 0, n, Word(v))
<1>1. CASE v = ""
  <2>1. Optional(n, v) = <<>>
    BY <1>1 DEF Optional
  <2> QED BY <1>1, <2>1, EmptySeq
<1>2. CASE v # ""
  <2>1. Optional(n, v) = HeaderLine(n, Word(v))
    BY <1>2 DEF Optional
  <2>2. Word(v) \in Symbols(W)
    BY SymbolsHave
  <2>3. /\ HeaderLine(n, Word(v)) \in Seq(Symbols(W)) /\ Len(HeaderLine(n, Word(v))) = 5
        /\ IsLine(HeaderLine(n, Word(v)), 0, n, Word(v))
    BY <2>2, LineIs
  <2> QED BY <1>2, <2>1, <2>3
<1> QED BY <1>1, <1>2

\* PartSent sends the header lines of the part, an empty line and its bytes.
LEMMA PartShape ==
    ASSUME NEW p, IsPart(p), NEW W, HeaderNames \cup WordsOf(p) \subseteq W
    PROVE  PartSent(p) \in Seq(Symbols(W)) /\ IsPartSent(PartSent(p), p)
<1>1. PICK x : x = Optional("content-type", p.ctype)
  OBVIOUS
<1>2. PICK y : y = Optional("content-transfer-encoding", p.encoding)
  OBVIOUS
<1>3. PICK s : s = PartSent(p)
  OBVIOUS
<1>4. PICK B : B = Body(p)
  OBVIOUS
<1>5. s = ((((Begin \o NameLine(p)) \o x) \o y) \o Empty) \o B
  BY <1>1, <1>2, <1>3, <1>4, PartSentIs
<1>6. /\ Begin \in Seq(Symbols(W)) /\ Empty \in Seq(Symbols(W)) /\ NameLine(p) \in Seq(Symbols(W))
  BY FixedPieces
<1>7. /\ Len(Begin) = 3 /\ Len(Empty) = 2 /\ Len(NameLine(p)) = 5
      /\ Begin[1] = Bound /\ Begin[2] = Return /\ Begin[3] = NewLine
      /\ Empty[1] = Return /\ Empty[2] = NewLine
      /\ IsLine(NameLine(p), 0, LineName(0), LineValue(p, 0))
  BY FixedPieces
<1>8. /\ LineName(1) = "content-type" /\ LineName(2) = "content-transfer-encoding"
      /\ LineValue(p, 1) = Word(p.ctype) /\ LineValue(p, 2) = Word(p.encoding)
  BY DEF LineName, LineValue
<1>9. LineName(1) \in W /\ LineName(2) \in W /\ p.ctype \in W /\ p.encoding \in W
  <2>1. LineName(1) \in W /\ LineName(2) \in W
    BY NamesIn
  <2>2. p.ctype \in W /\ p.encoding \in W
    BY DEF WordsOf
  <2> QED BY <2>1, <2>2
<1>10. /\ x \in Seq(Symbols(W))
       /\ p.ctype = "" => Len(x) = 0
       /\ p.ctype # "" => Len(x) = 5 /\ IsLine(x, 0, LineName(1), LineValue(p, 1))
  <2>1. x = Optional(LineName(1), p.ctype)
    BY <1>1, <1>8
  <2> QED BY <1>8, <1>9, <2>1, OptionalIs, ZenonT(40)
<1>11. /\ y \in Seq(Symbols(W))
       /\ p.encoding = "" => Len(y) = 0
       /\ p.encoding # "" => Len(y) = 5 /\ IsLine(y, 0, LineName(2), LineValue(p, 2))
  <2>1. y = Optional(LineName(2), p.encoding)
    BY <1>2, <1>8
  <2> QED BY <1>8, <1>9, <2>1, OptionalIs
<1>12. /\ p.ctype = "" => p.encoding = "" /\ NumLines(p) = 1
       /\ p.ctype # "" /\ p.encoding = "" => NumLines(p) = 2
       /\ p.encoding # "" => NumLines(p) = 3
       /\ Codes(p) \in Seq(Byte)
       /\ NumLines(p) \in 1 .. 3
  BY PartIs
<1>13. /\ B \in Seq(Symbols(W)) /\ Len(B) = Len(Codes(p)) /\ Len(Codes(p)) \in Nat
       /\ \A b \in 1 .. Len(Codes(p)) : B[b] = Ch(Codes(p)[b])
  <2>1. Codes(p) \in Seq(Byte)
    BY <1>12
  <2> QED BY <1>4, <2>1, BodyIs, LenProperties
<1>14. x \in Seq(Symbols(W)) /\ y \in Seq(Symbols(W)) /\ B \in Seq(Symbols(W))
  BY <1>10, <1>11, <1>13
<1>15. PICK o1, o2, o3, o4, o5 :
          /\ o1 = Len(Begin) /\ o2 = o1 + Len(NameLine(p)) /\ o3 = o2 + Len(x)
          /\ o4 = o3 + Len(y) /\ o5 = o4 + Len(Empty)
  OBVIOUS
<1>16. /\ s \in Seq(Symbols(W)) /\ Len(s) = o5 + Len(B)
       /\ Stands(s, 0, Begin) /\ Stands(s, o1, NameLine(p)) /\ Stands(s, o2, x)
       /\ Stands(s, o3, y) /\ Stands(s, o4, Empty) /\ Stands(s, o5, B)
  <2>1. AreSix(Symbols(W), Begin, NameLine(p), x, y, Empty, B, s, o1, o2, o3, o4, o5)
    BY <1>5, <1>6, <1>14, <1>15 DEF AreSix
  <2>2. SixStand(Symbols(W), Begin, NameLine(p), x, y, Empty, B, s, o1, o2, o3, o4, o5)
    BY <2>1, SixBehind
  <2> QED BY <2>2 DEF SixStand
<1>17. o1 = 3 /\ o2 = 8 /\ o3 = 8 + Len(x) /\ o4 = 8 + Len(x) + Len(y)
       /\ o5 = 8 + Len(x) + Len(y) + 2
  BY <1>7, <1>14, <1>15, LenProperties
<1>23. PICK m : m = 8 + Len(x) + Len(y)
  OBVIOUS
<1>24. Len(x) \in Nat /\ Len(y) \in Nat /\ HeadLen(p) = m + 2 /\ HeadLen(p) - 1 = m + 1 /\ m \in Nat
  <2>1. CASE p.ctype = ""
    <3>1. Len(x) = 0 /\ Len(y) = 0 /\ NumLines(p) = 1
      BY <1>10, <1>11, <1>12, <2>1
    <3> QED BY <1>23, <3>1 DEF HeadLen
  <2>2. CASE p.ctype # "" /\ p.encoding = ""
    <3>1. Len(x) = 5 /\ Len(y) = 0 /\ NumLines(p) = 2
      BY <1>10, <1>11, <1>12, <2>2
    <3> QED BY <1>23, <3>1 DEF HeadLen
  <2>3. CASE p.encoding # ""
    <3>1. Len(x) = 5 /\ Len(y) = 5 /\ NumLines(p) = 3
      BY <1>10, <1>11, <1>12, <2>3
    <3> QED BY <1>23, <3>1 DEF HeadLen
  <2> QED BY <2>1, <2>2, <2>3
<1>25. Len(s) = HeadLen(p) + Len(Codes(p))
  BY <1>13, <1>16, <1>17, <1>23, <1>24
<1>26. s[1] = Bound /\ s[2] = Return /\ s[3] = NewLine
  <2>1. \A i \in 1 .. 3 : s[0 + i] = Begin[i]
    BY <1>7, <1>16 DEF Stands
  <2>2. 0 + 1 = 1 /\ 0 + 2 = 2 /\ 0 + 3 = 3 /\ 1 \in 1 .. 3 /\ 2 \in 1 .. 3 /\ 3 \in 1 .. 3
    OBVIOUS
  <2>3. s[0 + 1] = Begin[1] /\ s[0 + 2] = Begin[2] /\ s[0 + 3] = Begin[3]
    BY <2>1, <2>2
  <2> QED BY <1>7, <2>2, <2>3
<1>27. s[m + 1] = Return /\ s[m + 2] = NewLine
  <2>1. Stands(s, m, Empty)
    BY <1>16, <1>17, <1>23
  <2>2. \A i \in 1 .. 2 : s[m + i] = Empty[i]
    BY <1>7, <2>1 DEF Stands
  <2>3. 1 \in 1 .. 2 /\ 2 \in 1 .. 2
    OBVIOUS
  <2>4. s[m + 1] = Empty[1] /\ s[m + 2] = Empty[2]
    BY <2>2, <2>3
  <2> QED BY <1>7, <2>4
<1>28. \A b \in 1 .. Len(Codes(p)) : s[HeadLen(p) + b] = Ch(Codes(p)[b])
  <2>1. Stands(s, m + 2, B)
    <3>1. o5 = m + 2
      BY <1>17, <1>23, <1>24
    <3> QED BY <1>16, <3>1
  <2>2. \A b \in 1 .. Len(Codes(p)) : s[(m + 2) + b] = B[b]
    BY <1>13, <2>1 DEF Stands
  <2> QED BY <1>13, <1>24, <2>2
<1>29. IsLine(s, 3 + 5 * 0, LineName(0), LineValue(p, 0))
  <2>1. Stands(s, 3, NameLine(p)) /\ 3 + 5 * 0 = 3 /\ 3 \in Nat
    BY <1>16, <1>17
  <2>2. IsLine(s, 3, LineName(0), LineValue(p, 0))
    BY <1>7, <2>1, LineStands
  <2> QED BY <2>1, <2>2
<1>30. ASSUME p.ctype # "" PROVE IsLine(s, 3 + 5 * 1, LineName(1), LineValue(p, 1))
  <2>1. Stands(s, 8, x) /\ 3 + 5 * 1 = 8 /\ 8 \in Nat
    BY <1>16, <1>17
  <2>2. Len(x) = 5 /\ IsLine(x, 0, LineName(1), LineValue(p, 1))
    BY <1>10, <1>30
  <2>3. IsLine(s, 8, LineName(1), LineValue(p, 1))
    BY <2>1, <2>2, LineStands
  <2> QED BY <2>1, <2>3
<1>31. ASSUME p.encoding # "" PROVE IsLine(s, 3 + 5 * 2, LineName(2), LineValue(p, 2))
  <2>0. p.ctype # ""
    BY <1>12, <1>31
  <2>1. Stands(s, 13, y) /\ 3 + 5 * 2 = 13 /\ 13 \in Nat
    <3>1. Len(x) = 5
      BY <1>10, <2>0
    <3>2. o3 = 13
      BY <1>17, <3>1
    <3> QED BY <1>16, <3>2
  <2>2. Len(y) = 5 /\ IsLine(y, 0, LineName(2), LineValue(p, 2))
    BY <1>11, <1>31
  <2>3. IsLine(s, 13, LineName(2), LineValue(p, 2))
    BY <2>1, <2>2, LineStands
  <2> QED BY <2>1, <2>3
<1>32. \A j \in 0 .. NumLines(p) - 1 : IsLine(s, 3 + 5 * j, LineName(j), LineValue(p, j))
  <2> SUFFICES ASSUME NEW j \in 0 .. NumLines(p) - 1
               PROVE  IsLine(s, 3 + 5 * j, LineName(j), LineValue(p, j))
    OBVIOUS
  <2>1. j = 0 \/ (j = 1 /\ NumLines(p) # 1) \/ (j = 2 /\ NumLines(p) # 1 /\ NumLines(p) # 2)
    <3>1. NumLines(p) \in 1 .. 3
      BY <1>12
    <3> QED BY <3>1
  <2>2. CASE j = 0
    BY <1>29, <2>2
  <2>3. CASE j = 1 /\ NumLines(p) # 1
    <3>1. p.ctype # ""
      BY <1>12, <2>3
    <3> QED BY <1>30, <2>3, <3>1
  <2>4. CASE j = 2 /\ NumLines(p) # 1 /\ NumLines(p) # 2
    <3>1. p.encoding # ""
      BY <1>12, <2>4
    <3> QED BY <1>31, <2>4, <3>1
  <2> QED BY <2>1, <2>2, <2>3, <2>4
<1>33. s[HeadLen(p) - 1] = Return /\ s[HeadLen(p)] = NewLine
  BY <1>24, <1>27
<1> QED BY <1>3, <1>16, <1>25, <1>26, <1>28, <1>32, <1>33 DEF IsPartSent
-----------------------------------------------------------------------------
(* What is sent for a form, piece by piece.                                 *)

\* The end of a form.
Closing == <<Bound, Dash, Dash, Return, NewLine>>

\* What is sent of a form, piece by piece, and where the first k pieces end.
PiecesOf(f) == [k \in 1 .. Len(f) + 1 |-> IF k <= Len(f) THEN PartSent(f[k]) ELSE Closing]
Until(f, k) == Len(Flat(PiecesOf(f), k))

\* A form is a sequence of parts.
IsForm(f) == f \in Seq(ToSet(f)) /\ \A i \in DOMAIN f : IsPart(f[i])

\* The words in a form.
WordsIn(f) == HeaderNames \cup UNION {WordsOf(f[i]) : i \in DOMAIN f}

\* A form is a sequence of parts.
LEMMA FormHas ==
    ASSUME NEW f, IsForm(f)
    PROVE  Len(f) \in Nat /\ DOMAIN f = 1 .. Len(f) /\ \A i \in 1 .. Len(f) : IsPart(f[i])
BY LenProperties DEF IsForm

\* Only the first symbol of a piece is a boundary; two symbols follow.
IsPiece(x) ==
    /\ Len(x) \in Nat /\ Len(x) >= 5
    /\ x[1] = Bound /\ \A i \in 2 .. Len(x) : x[i] # Bound
    /\ x[2] \in {Return, Dash} /\ x[3] \in {NewLine, Dash}

\* The closing boundary is a piece like those of the parts: it begins with a boundary.
LEMMA LastIsPiece ==
    ASSUME NEW W
    PROVE  /\ Closing \in Seq(Symbols(W)) /\ IsPiece(Closing) /\ Len(Closing) = 5
           /\ Closing[2] = Dash /\ Closing[3] = Dash /\ Closing[4] = Return /\ Closing[5] = NewLine
<1>1. /\ Bound \in Symbols(W) /\ Dash \in Symbols(W) /\ Return \in Symbols(W)
      /\ NewLine \in Symbols(W)
  BY SymbolsHave
<1>2. /\ Closing \in Seq(Symbols(W)) /\ Len(Closing) = 5 /\ Closing[1] = Bound
      /\ Closing[2] = Dash /\ Closing[3] = Dash /\ Closing[4] = Return /\ Closing[5] = NewLine
  BY <1>1, FiveAre DEF Closing
<1>3. \A i \in 2 .. 5 : Closing[i] # Bound
  <2> SUFFICES ASSUME NEW i \in 2 .. 5 PROVE Closing[i] # Bound
    OBVIOUS
  <2>1. i = 2 \/ i = 3 \/ i = 4 \/ i = 5
    OBVIOUS
  <2>2. Closing[i] = Dash \/ Closing[i] = Return \/ Closing[i] = NewLine
    BY <1>2, <2>1
  <2> QED BY <2>2, SymbolsDiffer
<1>4. Len(Closing) \in Nat /\ Len(Closing) >= 5
  BY <1>2
<1> QED BY <1>2, <1>3, <1>4 DEF IsPiece

\* So it is with what is sent for a part.
LEMMA PartIsPiece ==
    ASSUME NEW p, IsPart(p), NEW s, IsPartSent(s, p)
    PROVE  IsPiece(s) /\ s[2] = Return /\ s[3] = NewLine
<1>1. NumLines(p) \in 1 .. 3
  BY PartIs
<1>2. Codes(p) \in Seq(Byte)
  BY PartIs
<1>3. Len(Codes(p)) \in Nat /\ \A b \in 1 .. Len(Codes(p)) : Codes(p)[b] \in Byte
  BY <1>2, LenProperties, ElementOfSeq
<1>4. PICK h : h = HeadLen(p)
  OBVIOUS
<1>5. h = 5 + 5 * NumLines(p) /\ h \in Nat /\ h >= 10
  BY <1>1, <1>4 DEF HeadLen
<1>6. /\ Len(s) = h + Len(Codes(p))
      /\ s[1] = Bound /\ s[2] = Return /\ s[3] = NewLine
      /\ \A j \in 0 .. NumLines(p) - 1 : IsLine(s, 3 + 5 * j, LineName(j), LineValue(p, j))
      /\ s[h - 1] = Return /\ s[h] = NewLine
      /\ \A b \in 1 .. Len(Codes(p)) : s[h + b] = Ch(Codes(p)[b])
  BY <1>4 DEF IsPartSent
<1>7. Len(s) \in Nat /\ Len(s) >= 5
  <2>1. Len(s) = h + Len(Codes(p))
    BY <1>6
  <2> QED BY <1>3, <1>5, <2>1
<1>8. \A i \in 2 .. Len(s) : s[i] # Bound
  <2> SUFFICES ASSUME NEW i \in 2 .. Len(s) PROVE s[i] # Bound
    OBVIOUS
  <2>0. Len(s) = h + Len(Codes(p))
    BY <1>6
  <2>1. CASE i > h
    <3>1. i - h \in 1 .. Len(Codes(p)) /\ h + (i - h) = i
      BY <1>3, <1>5, <2>0, <2>1
    <3>2. s[i] = Ch(Codes(p)[i - h]) /\ Codes(p)[i - h] \in Byte
      <4>1. s[h + (i - h)] = Ch(Codes(p)[i - h])
        BY <1>6, <3>1
      <4> QED BY <1>3, <3>1, <4>1
    <3> QED BY <3>2, SymbolsDiffer
  <2>2. CASE i \in {2, 3, h - 1, h}
    <3>1. s[i] = Return \/ s[i] = NewLine
      BY <1>6, <2>2
    <3> QED BY <3>1, SymbolsDiffer
  <2>3. CASE i \in 4 .. h - 2
    <3>1. PICK j \in 0 .. NumLines(p) - 1 : \E q \in 1 .. 5 : i = (3 + 5 * j) + q
      <4>1. CASE i <= 8
        <5>1. 0 \in 0 .. NumLines(p) - 1 /\ i - 3 \in 1 .. 5 /\ i = (3 + 5 * 0) + (i - 3)
          BY <1>1, <2>3, <4>1
        <5> QED BY <5>1
      <4>2. CASE i > 8 /\ i <= 13
        <5>1. 1 \in 0 .. NumLines(p) - 1 /\ i - 8 \in 1 .. 5 /\ i = (3 + 5 * 1) + (i - 8)
          BY <1>1, <1>5, <2>3, <4>2
        <5> QED BY <5>1
      <4>3. CASE i > 13
        <5>1. 2 \in 0 .. NumLines(p) - 1 /\ i - 13 \in 1 .. 5 /\ i = (3 + 5 * 2) + (i - 13)
          BY <1>1, <1>5, <2>3, <4>3
        <5> QED BY <5>1
      <4> QED BY <2>3, <4>1, <4>2, <4>3
    <3>2. PICK q \in 1 .. 5 : i = (3 + 5 * j) + q
      BY <3>1
    <3>3. IsLine(s, 3 + 5 * j, LineName(j), LineValue(p, j))
      BY <1>6
    <3>4. \/ s[i] = Word(LineName(j)) \/ s[i] = Colon \/ s[i] = LineValue(p, j)
          \/ s[i] = Return \/ s[i] = NewLine
      <4>1. PICK o : o = 3 + 5 * j
        OBVIOUS
      <4>2. IsLine(s, o, LineName(j), LineValue(p, j)) /\ i = o + q
        BY <3>2, <3>3, <4>1
      <4>3. q = 1 \/ q = 2 \/ q = 3 \/ q = 4 \/ q = 5
        OBVIOUS
      <4> QED BY <4>2, <4>3 DEF IsLine
    <3>5. LineValue(p, j) # Bound
      BY SymbolsDiffer DEF LineValue
    <3> QED BY <3>4, <3>5, SymbolsDiffer
  <2> QED BY <1>5, <2>1, <2>2, <2>3
<1>9. s[1] = Bound /\ s[2] = Return /\ s[3] = NewLine
  BY <1>6
<1> QED BY <1>7, <1>8, <1>9 DEF IsPiece

\* The pieces of a form.
LEMMA PiecesOfForm ==
    ASSUME NEW f, IsForm(f), NEW X, X = PiecesOf(f)
    PROVE  /\ X \in Seq(Seq(Symbols(WordsIn(f)))) /\ Len(X) = Len(f) + 1 /\ Len(f) \in Nat
           /\ \A k \in 1 .. Len(f) + 1 : IsPiece(X[k])
           /\ \A k \in 1 .. Len(f) : X[k] = PartSent(f[k]) /\ IsPartSent(X[k], f[k])
           /\ X[Len(f) + 1] = Closing
<1>1. Len(f) \in Nat /\ DOMAIN f = 1 .. Len(f) /\ \A i \in 1 .. Len(f) : IsPart(f[i])
  BY FormHas
<1>2. PICK n \in Nat : n = Len(f)
  BY <1>1
<1>3. \A k \in 1 .. n : X[k] = PartSent(f[k])
  BY <1>2 DEF PiecesOf
<1>4. X[n + 1] = Closing
  BY <1>2 DEF PiecesOf
<1>5. PICK S : S = Symbols(WordsIn(f))
  OBVIOUS
<1>6. ASSUME NEW k \in 1 .. n
      PROVE  PartSent(f[k]) \in Seq(S) /\ IsPartSent(PartSent(f[k]), f[k]) /\ IsPart(f[k])
  <2>1. HeaderNames \cup WordsOf(f[k]) \subseteq WordsIn(f)
    <3>1. k \in DOMAIN f
      BY <1>1, <1>2
    <3> QED BY <3>1 DEF WordsIn
  <2>2. IsPart(f[k])
    BY <1>1, <1>2
  <2> QED BY <1>5, <2>1, <2>2, PartShape
<1>7. Closing \in Seq(S) /\ IsPiece(Closing)
  BY <1>5, LastIsPiece
<1>8. \A k \in 1 .. n + 1 : X[k] \in Seq(S) /\ IsPiece(X[k])
  <2> SUFFICES ASSUME NEW k \in 1 .. n + 1 PROVE X[k] \in Seq(S) /\ IsPiece(X[k])
    OBVIOUS
  <2>1. CASE k \in 1 .. n
    <3>1. X[k] = PartSent(f[k])
      BY <1>3, <2>1
    <3>2. PartSent(f[k]) \in Seq(S) /\ IsPartSent(PartSent(f[k]), f[k]) /\ IsPart(f[k])
      BY <1>6, <2>1
    <3> QED BY <3>1, <3>2, PartIsPiece
  <2>2. CASE k = n + 1
    BY <1>4, <1>7, <2>2
  <2> QED BY <2>1, <2>2
<1>9. X \in Seq(Seq(S)) /\ Len(X) = n + 1
  <2>1. X = [k \in 1 .. n + 1 |-> X[k]]
    BY <1>2 DEF PiecesOf
  <2>2. X \in [1 .. n + 1 -> Seq(S)]
    BY <1>8, <2>1
  <2> QED BY <2>1, <2>2
<1> QED BY <1>2, <1>3, <1>4, <1>5, <1>6, <1>8, <1>9

\* The ends of the pieces X of f, and what stands between them.
LaidOut(f, X, n) ==
    /\ FormSent(f) \in Seq(Symbols(WordsIn(f)))
    /\ n \in Nat /\ Len(FormSent(f)) = Until(f, n + 1)
    /\ \A k \in 0 .. n + 1 : Until(f, k) \in Nat
    /\ \A k \in 1 .. n + 1 : Until(f, k) = Until(f, k - 1) + Len(X[k])
    /\ Until(f, 0) = 0
    /\ \A k \in 1 .. n + 1 : Stands(FormSent(f), Until(f, k - 1), X[k])
    /\ \A q \in 1 .. Len(FormSent(f)) :
          \E k \in 1 .. n + 1 : \E i \in 1 .. Len(X[k]) : q = Until(f, k - 1) + i

\* FlatPositions, for sequences with names.
AreFlat(S, ss, n, t) == ss \in Seq(Seq(S)) /\ n \in 0 .. Len(ss) /\ t = Flat(ss, n)
Lies(ss, n, t) ==
    /\ \A k \in 1 .. n : Stands(t, Len(Flat(ss, k - 1)), ss[k])
    /\ \A q \in 1 .. Len(t) : \E k \in 1 .. n : \E i \in 1 .. Len(ss[k]) :
          q = Len(Flat(ss, k - 1)) + i

\* The pieces of a flattened sequence lie one behind the other.
LEMMA FlatLies ==
    ASSUME NEW S, NEW ss, NEW n, NEW t, AreFlat(S, ss, n, t)
    PROVE  Lies(ss, n, t)
<1>1. ss \in Seq(Seq(S)) /\ n \in 0 .. Len(ss) /\ t = Flat(ss, n)
  BY DEF AreFlat
<1>2. \A k \in 1 .. n : \A i \in 1 .. Len(ss[k]) :
         Flat(ss, n)[Len(Flat(ss, k - 1)) + i] = ss[k][i]
  BY <1>1, FlatPositions
<1>3. \A q \in 1 .. Len(Flat(ss, n)) : \E k \in 1 .. n : \E i \in 1 .. Len(ss[k]) :
         q = Len(Flat(ss, k - 1)) + i
  BY <1>1, FlatPositions
<1> QED BY <1>1, <1>2, <1>3 DEF Lies, Stands

\* What the browser sends for a form: its pieces, one behind the other.
LEMMA FormLaidOut ==
    ASSUME NEW f, IsForm(f), NEW X, X = PiecesOf(f), NEW n, n = Len(f)
    PROVE  LaidOut(f, X, n)
<1> DEFINE S == Symbols(WordsIn(f))
<1>1. X \in Seq(Seq(S)) /\ Len(X) = n + 1 /\ n \in Nat /\ X[n + 1] = Closing
      /\ \A k \in 1 .. n : X[k] = PartSent(f[k])
  BY PiecesOfForm
<1> HIDE DEF S
<1>2. PICK m : m = Len(X)
  OBVIOUS
<1>3. /\ \A k \in 0 .. m : Flat(X, k) \in Seq(S) /\ Len(Flat(X, k)) \in Nat
      /\ \A k \in 0 .. m - 1 :
            /\ Flat(X, k + 1) = Flat(X, k) \o X[k + 1]
            /\ Len(Flat(X, k + 1)) = Len(Flat(X, k)) + Len(X[k + 1])
      /\ Len(Flat(X, 0)) = 0
  BY <1>1, <1>2, FlatLength
<1>4. m = n + 1
  BY <1>1, <1>2
<1>5. FormSent(f) = Flat(X, n + 1)
  <2>1. Flat(X, n + 1) = Flat(X, n) \o Closing
    <3>1. n \in 0 .. m - 1
      BY <1>1, <1>4
    <3> QED BY <1>1, <1>3, <3>1
  <2>2. [i \in DOMAIN f |-> PartSent(f[i])] = [j \in 1 .. n |-> X[j]]
    <3>1. DOMAIN f = 1 .. n
      BY FormHas
    <3> QED BY <1>1, <3>1
  <2> QED BY <2>1, <2>2 DEF FormSent, Closing, Flat
<1>6. m \in 0 .. Len(X)
  BY <1>1, <1>2
<1>7. Lies(X, m, FormSent(f))
  <2>1. AreFlat(S, X, m, FormSent(f))
    BY <1>1, <1>4, <1>5, <1>6 DEF AreFlat
  <2> QED BY <2>1, FlatLies
<1>8. \A k : Until(f, k) = Len(Flat(X, k))
  BY DEF Until
<1>9. FormSent(f) \in Seq(S) /\ Len(FormSent(f)) = Until(f, n + 1)
  <2>1. n + 1 \in 0 .. m
    BY <1>1, <1>4
  <2> QED BY <1>3, <1>5, <1>8, <2>1
<1>10. \A k \in 0 .. n + 1 : Until(f, k) \in Nat
  BY <1>3, <1>4, <1>8
<1>11. ASSUME NEW k \in 1 .. n + 1 PROVE Until(f, k) = Until(f, k - 1) + Len(X[k])
  <2>1. k - 1 \in 0 .. m - 1 /\ (k - 1) + 1 = k
    BY <1>1, <1>4
  <2>2. Len(Flat(X, (k - 1) + 1)) = Len(Flat(X, k - 1)) + Len(X[(k - 1) + 1])
    BY <1>3, <2>1
  <2> QED BY <1>8, <2>1, <2>2
<1>12. Until(f, 0) = 0
  BY <1>3, <1>8
<1>13. \A k \in 1 .. n + 1 : Stands(FormSent(f), Until(f, k - 1), X[k])
  BY <1>4, <1>7, <1>8 DEF Lies
<1>14. \A q \in 1 .. Len(FormSent(f)) :
          \E k \in 1 .. n + 1 : \E i \in 1 .. Len(X[k]) : q = Until(f, k - 1) + i
  <2>1. Lies(PiecesOf(f), n + 1, FormSent(f))
    BY <1>4, <1>7
  <2>2. \A q \in 1 .. Len(FormSent(f)) : \E k \in 1 .. n + 1 :
           \E i \in 1 .. Len(PiecesOf(f)[k]) : q = Until(f, k - 1) + i
    BY <2>1 DEF Lies, Until
  <2> QED BY <2>2
<1> QED BY <1>1, <1>5, <1>9, <1>10, <1>11, <1>12, <1>13, <1>14 DEF S, LaidOut

\* Pieces end one behind the other.
LEMMA UntilGrows ==
    ASSUME NEW f, IsForm(f), NEW b \in 0 .. Len(f) + 1, NEW a \in 0 .. b
    PROVE  Until(f, a) <= Until(f, b)
<1>1. PICK n : n = Len(f)
  OBVIOUS
<1>2. PICK X : X = PiecesOf(f)
  OBVIOUS
<1>a. n \in Nat
  BY <1>1, FormHas
<1>b. LaidOut(f, X, n)
  BY <1>1, <1>2, FormLaidOut
<1>3. /\ \A k \in 0 .. n + 1 : Until(f, k) \in Nat
      /\ \A k \in 1 .. n + 1 : Until(f, k) = Until(f, k - 1) + Len(X[k])
  BY <1>b DEF LaidOut
<1>4. \A k \in 1 .. n + 1 : Len(X[k]) \in Nat
  BY <1>a, <1>1, <1>2, PiecesOfForm DEF IsPiece
<1> DEFINE T == {d \in Nat : a + d <= n + 1 => Until(f, a) <= Until(f, a + d)}
<1>5. n \in Nat /\ a \in Nat /\ b \in Nat /\ b <= n + 1 /\ a <= b
  BY <1>a, <1>1
<1>6. 0 \in T
  <2>1. a + 0 = a /\ (a <= n + 1 => a \in 0 .. n + 1)
    BY <1>5
  <2> QED BY <1>3, <2>1
<1>7. ASSUME NEW d \in Nat, d \in T PROVE d + 1 \in T
  <2> SUFFICES ASSUME a + (d + 1) <= n + 1 PROVE Until(f, a) <= Until(f, a + (d + 1))
    OBVIOUS
  <2>1. /\ a + (d + 1) \in 1 .. n + 1 /\ (a + (d + 1)) - 1 = a + d /\ a + d <= n + 1
        /\ a + d \in 0 .. n + 1 /\ a \in 0 .. n + 1
    BY <1>5
  <2>2. Until(f, a) <= Until(f, a + d)
    BY <1>7, <2>1
  <2>3. Until(f, a + (d + 1)) = Until(f, a + d) + Len(X[a + (d + 1)])
    BY <1>3, <2>1
  <2>4. Until(f, a) \in Nat /\ Until(f, a + d) \in Nat /\ Len(X[a + (d + 1)]) \in Nat
    BY <1>3, <1>4, <2>1
  <2> QED BY <2>2, <2>3, <2>4
<1>8. Nat \subseteq T
  <2> HIDE DEF T
  <2> QED BY <1>6, <1>7, Reaches
<1>9. b - a \in T /\ a + (b - a) = b
  <2>1. b - a \in Nat /\ a + (b - a) = b
    BY <1>5
  <2> HIDE DEF T
  <2> QED BY <1>8, <2>1
<1> QED BY <1>5, <1>9

\* s is what is left of t behind its first m symbols.
Left(s, t, m) ==
    /\ m \in 0 .. Len(t) /\ Len(s) = Len(t) - m
    /\ \A i \in 1 .. Len(s) : s[i] = t[m + i]

\* What is left after one more symbol.
LEMMA LeftTail ==
    ASSUME NEW S, NEW t \in Seq(S), NEW m, NEW s \in Seq(S), Left(s, t, m)
    PROVE  /\ s # <<>> <=> m < Len(t)
           /\ s # <<>> => Head(s) = t[m + 1] /\ Tail(s) \in Seq(S) /\ Left(Tail(s), t, m + 1)
<1>1. /\ m \in Nat /\ Len(s) = Len(t) - m /\ Len(t) \in Nat /\ m <= Len(t)
      /\ \A i \in 1 .. Len(s) : s[i] = t[m + i]
  BY LenProperties DEF Left
<1>2. s # <<>> <=> Len(s) # 0
  BY EmptySeq
<1>3. s # <<>> <=> m < Len(t)
  BY <1>1, <1>2
<1>4. ASSUME s # <<>> PROVE Head(s) = t[m + 1] /\ Tail(s) \in Seq(S) /\ Left(Tail(s), t, m + 1)
  <2>1. /\ Head(s) = s[1] /\ Tail(s) \in Seq(S) /\ Len(Tail(s)) = Len(s) - 1
        /\ \A i \in 1 .. Len(Tail(s)) : Tail(s)[i] = s[i + 1]
    BY <1>4, HeadTailProperties
  <2>2. Head(s) = t[m + 1]
    <3>1. 1 \in 1 .. Len(s)
      BY <1>1, <1>3, <1>4
    <3> QED BY <1>1, <2>1, <3>1
  <2>3. m + 1 \in 0 .. Len(t) /\ Len(Tail(s)) = Len(t) - (m + 1)
    BY <1>1, <1>3, <1>4, <2>1
  <2>4. \A i \in 1 .. Len(Tail(s)) : Tail(s)[i] = t[(m + 1) + i]
    <3> SUFFICES ASSUME NEW i \in 1 .. Len(Tail(s)) PROVE Tail(s)[i] = t[(m + 1) + i]
      OBVIOUS
    <3>1. i + 1 \in 1 .. Len(s) /\ m + (i + 1) = (m + 1) + i
      BY <1>1, <2>1
    <3> QED BY <1>1, <2>1, <3>1
  <2> QED BY <2>1, <2>2, <2>3, <2>4 DEF Left
<1> QED BY <1>3, <1>4

\* Sets have the same number of elements if a function matches them.
LEMMA SameCount ==
    ASSUME NEW S, IsFiniteSet(S), NEW T, NEW F \in [S -> T],
           \A a \in S : \A b \in S : F[a] = F[b] => a = b,
           \A t \in T : \E a \in S : F[a] = t
    PROVE  IsFiniteSet(T) /\ Cardinality(T) = Cardinality(S)
<1>1. F \in Bijection(S, T)
  BY DEF Bijection, Injection, Surjection, IsInjective
<1>2. ExistsBijection(S, T)
  BY <1>1 DEF ExistsBijection
<1> QED BY <1>2, FS_Bijection

\* m symbols of the form were taken, the last of them from its piece k.
Level(f, k, m) ==
    /\ k \in 0 .. Len(f) + 1 /\ m \in Nat /\ m <= Until(f, k)
    /\ k >= 1 => Until(f, k - 1) < m

\* Boundaries to come.
LEMMA BoundsLeft ==
    ASSUME NEW f, IsForm(f), NEW k, NEW m, Level(f, k, m), NEW s, Left(s, FormSent(f), m),
           s \in Seq(Symbols(WordsIn(f)))
    PROVE  Bounds(s) = Len(f) + 1 - k
<1> DEFINE n == Len(f)
           T == FormSent(f)
           X == PiecesOf(f)
           A == k + 1 .. n + 1
           B == {i \in DOMAIN s : s[i] = Bound}
<1>0. LaidOut(f, X, n)
  BY FormLaidOut
<1>1. n \in Nat /\ k \in Nat /\ k <= n + 1 /\ m \in Nat /\ m <= Until(f, k)
      /\ (k >= 1 => Until(f, k - 1) < m)
  BY <1>0 DEF Level, LaidOut
<1>2. /\ \A j \in 0 .. n + 1 : Until(f, j) \in Nat
      /\ \A j \in 1 .. n + 1 : Until(f, j) = Until(f, j - 1) + Len(X[j])
      /\ Len(T) = Until(f, n + 1)
      /\ \A j \in 1 .. n + 1 : Stands(T, Until(f, j - 1), X[j])
      /\ \A q \in 1 .. Len(T) :
            \E j \in 1 .. n + 1 : \E i \in 1 .. Len(X[j]) : q = Until(f, j - 1) + i
  BY <1>0 DEF LaidOut
<1>3. ASSUME NEW j \in 1 .. n + 1
      PROVE  /\ Len(X[j]) \in Nat /\ Len(X[j]) >= 5 /\ X[j][1] = Bound
             /\ \A i \in 2 .. Len(X[j]) : X[j][i] # Bound
             /\ \A i \in 1 .. Len(X[j]) : T[Until(f, j - 1) + i] = X[j][i]
  <2>1. IsPiece(X[j])
    BY PiecesOfForm
  <2>2. Stands(T, Until(f, j - 1), X[j])
    BY <1>2
  <2> QED BY <2>1, <2>2 DEF IsPiece, Stands
<1>4. /\ DOMAIN s = 1 .. Len(s) /\ Len(s) \in Nat /\ Len(s) = Len(T) - m
      /\ \A i \in 1 .. Len(s) : s[i] = T[m + i]
  BY LenProperties DEF Left
<1>5. ASSUME NEW a \in 0 .. n + 1, NEW b \in 0 .. n + 1, a <= b
      PROVE  Until(f, a) <= Until(f, b)
  <2>1. a \in 0 .. b
    BY <1>5
  <2> QED BY <2>1, UntilGrows
<1> DEFINE F == [j \in A |-> (Until(f, j - 1) + 1) - m]
<1>6. ASSUME NEW j \in A PROVE F[j] \in B
  <2>1. j \in 1 .. n + 1 /\ j - 1 \in 0 .. n + 1 /\ k \in 0 .. n + 1 /\ k <= j - 1 /\ n + 1 \in 0 .. n + 1
        /\ j \in 0 .. n + 1 /\ j <= n + 1
    BY <1>1
  <2>2. Until(f, k) <= Until(f, j - 1) /\ Until(f, j) <= Until(f, n + 1)
    BY <1>5, <2>1
  <2>3. Until(f, j) = Until(f, j - 1) + Len(X[j]) /\ Until(f, j - 1) \in Nat
        /\ Until(f, j) \in Nat
    BY <1>2, <2>1
  <2>4. Len(X[j]) \in Nat /\ Len(X[j]) >= 5 /\ X[j][1] = Bound
        /\ \A i \in 1 .. Len(X[j]) : T[Until(f, j - 1) + i] = X[j][i]
    BY <1>3, <2>1
  <2>5. PICK u \in Nat : u = Until(f, j - 1)
    BY <2>3
  <2>6. PICK q : q = (u + 1) - m
    OBVIOUS
  <2>7. /\ u + 1 <= Len(T) /\ m <= u /\ Len(T) \in Nat
    <3>1. Until(f, k) \in Nat /\ Until(f, n + 1) \in Nat /\ Len(T) = Until(f, n + 1)
      BY <1>2, <2>1
    <3>2. m <= Until(f, k) /\ m \in Nat
      BY <1>1
    <3> QED BY <2>2, <2>3, <2>4, <2>5, <3>1, <3>2, SMTT(40)
  <2>8. q \in 1 .. Len(s) /\ m + q = u + 1
    BY <1>1, <1>4, <2>6, <2>7
  <2>9. T[u + 1] = Bound
    <3>1. 1 \in 1 .. Len(X[j])
      BY <2>4
    <3> QED BY <2>4, <2>5, <3>1
  <2>10. s[q] = Bound
    BY <1>4, <2>8, <2>9
  <2>11. F[j] = q
    BY <2>5, <2>6
  <2> QED BY <1>4, <2>8, <2>10, <2>11
<1>7. ASSUME NEW a \in A, NEW b \in A, F[a] = F[b] PROVE a = b
  <2>1. a - 1 \in 0 .. n + 1 /\ b - 1 \in 0 .. n + 1 /\ a \in 1 .. n + 1 /\ b \in 1 .. n + 1
        /\ a \in 0 .. n + 1 /\ b \in 0 .. n + 1
    BY <1>1
  <2>2. Until(f, a - 1) = Until(f, b - 1)
    <3>1. Until(f, a - 1) \in Nat /\ Until(f, b - 1) \in Nat
      BY <1>2, <2>1
    <3>2. (Until(f, a - 1) + 1) - m = (Until(f, b - 1) + 1) - m
      BY <1>7
    <3> QED BY <1>1, <3>1, <3>2
  <2>3. Until(f, a) = Until(f, a - 1) + Len(X[a]) /\ Until(f, b) = Until(f, b - 1) + Len(X[b])
        /\ Until(f, a - 1) \in Nat /\ Until(f, b - 1) \in Nat
    BY <1>2, <2>1
  <2>4. Len(X[a]) \in Nat /\ Len(X[a]) >= 5 /\ Len(X[b]) \in Nat /\ Len(X[b]) >= 5
    BY <1>3, <2>1
  <2>5. ASSUME a < b PROVE FALSE
    <3>1. Until(f, a) <= Until(f, b - 1)
      <4>1. a <= b - 1
        BY <2>1, <2>5
      <4> QED BY <1>5, <2>1, <4>1
    <3> QED BY <2>2, <2>3, <2>4, <3>1
  <2>6. ASSUME b < a PROVE FALSE
    <3>1. Until(f, b) <= Until(f, a - 1)
      <4>1. b <= a - 1
        BY <2>1, <2>6
      <4> QED BY <1>5, <2>1, <4>1
    <3> QED BY <2>2, <2>3, <2>4, <3>1
  <2> QED BY <2>1, <2>5, <2>6
<1>8. ASSUME NEW t \in B PROVE \E a \in A : F[a] = t
  <2>1. t \in 1 .. Len(s) /\ s[t] = Bound /\ T[m + t] = Bound /\ m + t \in 1 .. Len(T)
        /\ t \in Nat /\ t >= 1
    BY <1>1, <1>4
  <2>2. PICK j \in 1 .. n + 1 : \E i \in 1 .. Len(X[j]) : m + t = Until(f, j - 1) + i
    BY <1>2, <2>1
  <2>3. PICK i \in 1 .. Len(X[j]) : m + t = Until(f, j - 1) + i
    BY <2>2
  <2>4. i = 1
    <3>1. X[j][i] = Bound
      BY <1>3, <2>1, <2>3
    <3>2. ~(i \in 2 .. Len(X[j]))
      BY <1>3, <3>1
    <3> QED BY <3>2
  <2>5. j - 1 \in 0 .. n + 1 /\ j \in 0 .. n + 1 /\ Until(f, j - 1) \in Nat
    BY <1>1, <1>2
  <2>6. ASSUME j <= k PROVE FALSE
    <3>1. k >= 1 /\ k - 1 \in 0 .. n + 1 /\ j - 1 <= k - 1
      BY <1>1, <2>6
    <3>2. Until(f, j - 1) <= Until(f, k - 1) /\ Until(f, k - 1) \in Nat
      BY <1>2, <1>5, <2>5, <3>1
    <3>3. Until(f, k - 1) < m
      BY <1>1, <3>1
    <3> QED BY <1>1, <2>1, <2>3, <2>4, <2>5, <3>2, <3>3, SMTT(40)
  <2>7. j \in A
    BY <1>1, <2>6
  <2>8. F[j] = t
    BY <1>1, <2>1, <2>3, <2>4, <2>5, <2>7
  <2> QED BY <2>7, <2>8
<1>9. F \in [A -> B]
  BY <1>6
<1>10. IsFiniteSet(A) /\ Cardinality(A) = n + 1 - k
  <2>1. k + 1 \in Int /\ n + 1 \in Int
    BY <1>1
  <2>2. IsFiniteSet(A) /\ Cardinality(A) = IF k + 1 > n + 1 THEN 0 ELSE (n + 1) - (k + 1) + 1
    BY <2>1, FS_Interval
  <2>3. (IF k + 1 > n + 1 THEN 0 ELSE (n + 1) - (k + 1) + 1) = n + 1 - k
    BY <1>1
  <2> QED BY <2>2, <2>3
<1> HIDE DEF F, A, B
<1>11. Cardinality(B) = Cardinality(A)
  BY <1>7, <1>8, <1>9, <1>10, SameCount
<1> QED BY <1>10, <1>11 DEF Bounds, B
-----------------------------------------------------------------------------
(* A place in a form: pieces that were taken, and symbols of the next.       *)

\* Of the form f the first k - 1 pieces and o symbols of the next were taken, and
\* s is left.
IsAt(f, s, k, o) ==
    /\ k \in 1 .. Len(f) + 1 /\ o \in 1 .. Len(PiecesOf(f)[k])
    /\ s \in Seq(Symbols(WordsIn(f)))
    /\ Left(s, FormSent(f), Until(f, k - 1) + o)

\* What the positions of a form look like.
LEMMA AtHas ==
    ASSUME NEW f, IsForm(f), NEW k \in 1 .. Len(f) + 1, NEW X, X = PiecesOf(f)[k],
           NEW u, u = Until(f, k - 1), NEW T, T = FormSent(f)
    PROVE  /\ IsPiece(X) /\ u \in Nat /\ Stands(T, u, X)
           /\ Until(f, k) = u + Len(X)
           /\ Until(f, k) <= Len(T) /\ Len(T) \in Nat
           /\ Until(f, Len(f) + 1) = Len(T)
           /\ Len(f) \in Nat /\ k \in Nat
           /\ T \in Seq(Symbols(WordsIn(f)))
<1>0. LaidOut(f, PiecesOf(f), Len(f))
  BY FormLaidOut
<1>1. Len(f) \in Nat /\ k \in Nat /\ k - 1 \in 0 .. Len(f) + 1 /\ k \in 0 .. Len(f) + 1
      /\ Len(f) + 1 \in 0 .. Len(f) + 1 /\ k \in 0 .. Len(f) + 1
  BY <1>0 DEF LaidOut
<1>2. IsPiece(X)
  BY PiecesOfForm
<1>3. u \in Nat /\ Stands(T, u, X) /\ Until(f, k) = u + Len(X)
  BY <1>0, <1>1 DEF LaidOut
<1>4. Until(f, Len(f) + 1) = Len(T) /\ Until(f, Len(f) + 1) \in Nat
      /\ T \in Seq(Symbols(WordsIn(f)))
  BY <1>0, <1>1 DEF LaidOut
<1>5. Until(f, k) <= Until(f, Len(f) + 1)
  <2>1. k \in 0 .. Len(f) + 1 /\ Len(f) + 1 \in 0 .. Len(f) + 1
    BY <1>1
  <2> QED BY <2>1, UntilGrows
<1> QED BY <1>1, <1>2, <1>3, <1>4, <1>5

\* The next symbol is the next of this piece, or the boundary behind it.
LEMMA AtNext ==
    ASSUME NEW f, IsForm(f), NEW s, NEW k, NEW o, IsAt(f, s, k, o), s # <<>>,
           NEW X, X = PiecesOf(f)[k]
    PROVE  \/ o < Len(X) /\ Head(s) = X[o + 1] /\ IsAt(f, Tail(s), k, o + 1)
           \/ o = Len(X) /\ k <= Len(f) /\ Head(s) = Bound /\ IsAt(f, Tail(s), k + 1, 1)
<1>1. PICK u : u = Until(f, k - 1)
  OBVIOUS
<1>2. PICK T : T = FormSent(f)
  OBVIOUS
<1>3. k \in 1 .. Len(f) + 1 /\ o \in 1 .. Len(X) /\ s \in Seq(Symbols(WordsIn(f)))
      /\ Left(s, T, u + o)
  BY <1>1, <1>2 DEF IsAt
<1>4. /\ IsPiece(X) /\ u \in Nat /\ Stands(T, u, X)
      /\ Until(f, k) = u + Len(X)
      /\ Until(f, k) <= Len(T) /\ Len(T) \in Nat
      /\ Until(f, Len(f) + 1) = Len(T)
      /\ Len(f) \in Nat /\ k \in Nat
      /\ T \in Seq(Symbols(WordsIn(f)))
  BY <1>1, <1>2, <1>3, AtHas
<1>5. Len(X) \in Nat /\ Len(X) >= 5 /\ X[1] = Bound
  BY <1>4 DEF IsPiece
<1>6. /\ Head(s) = T[(u + o) + 1] /\ Tail(s) \in Seq(Symbols(WordsIn(f)))
      /\ Left(Tail(s), T, (u + o) + 1) /\ u + o < Len(T)
  <2>1. PICK m : m = u + o
    OBVIOUS
  <2>2. PICK W : W = Symbols(WordsIn(f))
    OBVIOUS
  <2>3. T \in Seq(W) /\ s \in Seq(W) /\ Left(s, T, m)
    BY <1>3, <1>4, <2>1, <2>2
  <2>4. m < Len(T) /\ Head(s) = T[m + 1] /\ Tail(s) \in Seq(W) /\ Left(Tail(s), T, m + 1)
    BY <2>3, LeftTail
  <2> QED BY <2>1, <2>2, <2>4
<1>7. CASE o < Len(X)
  <2>1. o + 1 \in 1 .. Len(X) /\ (u + o) + 1 = u + (o + 1)
    BY <1>3, <1>4, <1>5, <1>7, SMTT(40)
  <2>2. T[u + (o + 1)] = X[o + 1]
    BY <1>4, <2>1 DEF Stands
  <2>3. IsAt(f, Tail(s), k, o + 1)
    BY <1>1, <1>2, <1>3, <1>6, <2>1 DEF IsAt
  <2> QED BY <1>6, <1>7, <2>1, <2>2, <2>3
<1>8. CASE o = Len(X)
  <2>1. k # Len(f) + 1
    BY <1>4, <1>5, <1>6, <1>8
  <2>2. k <= Len(f) /\ k + 1 \in 1 .. Len(f) + 1 /\ (k + 1) - 1 = k
    BY <1>3, <1>4, <2>1
  <2>3. PICK Y : Y = PiecesOf(f)[k + 1]
    OBVIOUS
  <2>4. PICK v : v = Until(f, (k + 1) - 1)
    OBVIOUS
  <2>5. IsPiece(Y) /\ Stands(T, v, Y)
    BY <1>2, <2>2, <2>3, <2>4, AtHas
  <2>6. Len(Y) \in Nat /\ Len(Y) >= 5 /\ Y[1] = Bound
    BY <2>5 DEF IsPiece
  <2>7. v = u + o /\ 1 \in 1 .. Len(Y)
    BY <1>4, <1>8, <2>2, <2>4, <2>6
  <2>8. T[v + 1] = Bound
    BY <2>5, <2>6, <2>7 DEF Stands
  <2>9. IsAt(f, Tail(s), k + 1, 1)
    BY <1>2, <1>6, <2>2, <2>3, <2>4, <2>7 DEF IsAt
  <2> QED BY <1>6, <1>8, <2>2, <2>7, <2>8, <2>9
<1> QED BY <1>3, <1>5, <1>7, <1>8

\* The first symbol of a form.
LEMMA AtFirst ==
    ASSUME NEW f, IsForm(f)
    PROVE  /\ FormSent(f) # <<>> /\ Head(FormSent(f)) = Bound
           /\ FormSent(f) \in Seq(Symbols(WordsIn(f)))
           /\ IsAt(f, Tail(FormSent(f)), 1, 1)
           /\ Bounds(FormSent(f)) = Len(f) + 1
<1>0. LaidOut(f, PiecesOf(f), Len(f))
  BY FormLaidOut
<1>1. PICK T : T = FormSent(f)
  OBVIOUS
<1>2. PICK X : X = PiecesOf(f)[1]
  OBVIOUS
<1>3. Len(f) \in Nat /\ 1 \in 1 .. Len(f) + 1 /\ 1 - 1 = 0
  BY <1>0 DEF LaidOut
<1>4. PICK u : u = Until(f, 1 - 1)
  OBVIOUS
<1>5. /\ IsPiece(X) /\ Stands(T, u, X) /\ Until(f, 1) = u + Len(X)
      /\ Until(f, 1) <= Len(T) /\ Len(T) \in Nat /\ T \in Seq(Symbols(WordsIn(f)))
  BY <1>1, <1>2, <1>3, <1>4, AtHas
<1>6. u = 0
  BY <1>0, <1>3, <1>4 DEF LaidOut
<1>7. Len(X) \in Nat /\ Len(X) >= 5 /\ X[1] = Bound
  BY <1>5 DEF IsPiece
<1>8. Len(T) > 0
  BY <1>5, <1>6, <1>7
<1>9. Left(T, T, 0)
  <2>1. \A i \in 1 .. Len(T) : 0 + i = i
    BY <1>5
  <2> QED BY <1>5, <2>1 DEF Left
<1>10. T # <<>> /\ Head(T) = T[0 + 1] /\ Tail(T) \in Seq(Symbols(WordsIn(f)))
       /\ Left(Tail(T), T, 0 + 1)
  BY <1>5, <1>8, <1>9, LeftTail
<1>11. T[0 + 1] = Bound
  <2>1. 1 \in 1 .. Len(X)
    BY <1>7
  <2>2. T[u + 1] = X[1]
    BY <1>5, <2>1 DEF Stands
  <2> QED BY <1>6, <1>7, <2>2
<1>12. IsAt(f, Tail(T), 1, 1)
  <2>1. 1 \in 1 .. Len(X)
    BY <1>7
  <2> QED BY <1>1, <1>2, <1>3, <1>4, <1>6, <1>10, <2>1 DEF IsAt
<1>13. Level(f, 0, 0)
  BY <1>0, <1>3 DEF Level, LaidOut
<1>14. Bounds(T) = Len(f) + 1 - 0
  BY <1>1, <1>5, <1>9, <1>13, BoundsLeft
<1> QED BY <1>1, <1>3, <1>5, <1>10, <1>11, <1>12, <1>14

\* Boundaries to come, and what is left at the end.
LEMMA AtBounds ==
    ASSUME NEW f, IsForm(f), NEW s, NEW k, NEW o, IsAt(f, s, k, o)
    PROVE  Bounds(s) = Len(f) + 1 - k
<1>1. PICK u : u = Until(f, k - 1)
  OBVIOUS
<1>2. PICK X : X = PiecesOf(f)[k]
  OBVIOUS
<1>3. k \in 1 .. Len(f) + 1 /\ o \in 1 .. Len(X) /\ s \in Seq(Symbols(WordsIn(f)))
      /\ Left(s, FormSent(f), u + o)
  BY <1>1, <1>2 DEF IsAt
<1>4. /\ IsPiece(X) /\ u \in Nat /\ Until(f, k) = u + Len(X) /\ Len(f) \in Nat /\ k \in Nat
  BY <1>1, <1>2, <1>3, AtHas
<1>5. Len(X) \in Nat
  BY <1>4 DEF IsPiece
<1>6. Level(f, k, u + o)
  <2>1. k \in 0 .. Len(f) + 1 /\ u + o \in Nat /\ u + o <= Until(f, k) /\ u < u + o
    BY <1>3, <1>4, <1>5
  <2> QED BY <1>1, <2>1 DEF Level
<1> QED BY <1>3, <1>6, BoundsLeft

\* Behind the second dash of the closing boundary a line end is left.
LEMMA AtEnd ==
    ASSUME NEW f, IsForm(f), NEW s, IsAt(f, s, Len(f) + 1, 3)
    PROVE  s = <<Return, NewLine>>
<1>1. PICK k : k = Len(f) + 1
  OBVIOUS
<1>2. PICK u : u = Until(f, k - 1)
  OBVIOUS
<1>3. PICK X : X = PiecesOf(f)[k]
  OBVIOUS
<1>4. k \in 1 .. Len(f) + 1 /\ s \in Seq(Symbols(WordsIn(f))) /\ Left(s, FormSent(f), u + 3)
  BY <1>1, <1>2 DEF IsAt
<1>5. /\ u \in Nat /\ Stands(FormSent(f), u, X)
      /\ Until(f, k) = u + Len(X) /\ Until(f, Len(f) + 1) = Len(FormSent(f))
  BY <1>2, <1>3, <1>4, AtHas
<1>6. X = Closing
  BY <1>1, <1>3, PiecesOfForm
<1>7. Len(X) = 5 /\ X[4] = Return /\ X[5] = NewLine
  BY <1>6, LastIsPiece
<1>8. Len(FormSent(f)) = u + 5
  BY <1>1, <1>5, <1>7
<1>9. Len(s) = 2 /\ \A i \in 1 .. Len(s) : s[i] = FormSent(f)[(u + 3) + i]
  BY <1>4, <1>5, <1>8 DEF Left
<1>10. s[1] = Return /\ s[2] = NewLine
  <2>1. 4 \in 1 .. Len(X) /\ 5 \in 1 .. Len(X) /\ 1 \in 1 .. Len(s) /\ 2 \in 1 .. Len(s)
        /\ (u + 3) + 1 = u + 4 /\ (u + 3) + 2 = u + 5
    BY <1>5, <1>7, <1>9
  <2>2. FormSent(f)[u + 4] = X[4] /\ FormSent(f)[u + 5] = X[5]
    BY <1>5, <2>1 DEF Stands
  <2> QED BY <1>7, <1>9, <2>1, <2>2
<1>11. PICK W : W = Symbols(WordsIn(f))
  OBVIOUS
<1>12. Return \in W /\ NewLine \in W
  BY <1>11, SymbolsHave
<1>13. /\ <<Return, NewLine>> \in Seq(W) /\ Len(<<Return, NewLine>>) = 2
       /\ <<Return, NewLine>>[1] = Return /\ <<Return, NewLine>>[2] = NewLine
  BY <1>12, TwoAre
<1>14. \A i \in 1 .. Len(s) : s[i] = <<Return, NewLine>>[i]
  <2>1. \A i \in 1 .. Len(s) : i = 1 \/ i = 2
    BY <1>9
  <2> QED BY <1>10, <1>13, <2>1
<1> QED BY <1>4, <1>9, <1>11, <1>13, <1>14, SeqEqual

\* The character in front of the form.
LEMMA Preamble ==
    ASSUME NEW f, IsForm(f), NEW s, s = <<Ch(80)>> \o FormSent(f)
    PROVE  /\ s # <<>> /\ Head(s) = Ch(80) /\ Tail(s) = FormSent(f) /\ Ch(80) # Bound
           /\ Bounds(s) = Len(f) + 1
<1>1. PICK W : W = Symbols(WordsIn(f))
  OBVIOUS
<1>2. PICK T \in Seq(W) : T = FormSent(f)
  BY <1>1, AtFirst
<1>3. PICK a : a = Ch(80)
  OBVIOUS
<1>4. a \in W /\ a # Bound
  <2>1. 80 \in Int /\ 80 \in Byte
    BY DEF Byte
  <2> QED BY <1>1, <1>3, <2>1, SymbolsHave, SymbolsDiffer
<1>5. <<a>> \in Seq(W) /\ Len(<<a>>) = 1 /\ <<a>>[1] = a
  BY <1>4
<1>6. /\ s \in Seq(W) /\ Len(s) = 1 + Len(T) /\ Stands(s, 0, <<a>>) /\ Stands(s, 1, T)
      /\ Len(T) \in Nat
  <2>1. s = <<a>> \o T
    BY <1>2, <1>3
  <2>2. s \in Seq(W) /\ Len(s) = Len(<<a>>) + Len(T) /\ Len(T) \in Nat
    BY <1>5, <2>1, Behind, ZenonT(40)
  <2>3. Stands(s, 0, <<a>>)
    BY <1>5, <2>1, Behind
  <2>4. Stands(s, Len(<<a>>), T)
    BY <1>5, <2>1, Behind
  <2> QED BY <1>5, <2>2, <2>3, <2>4
<1>7. s[1] = a /\ \A i \in 1 .. Len(T) : s[1 + i] = T[i]
  <2>1. 1 \in 1 .. Len(<<a>>) /\ 0 + 1 = 1
    BY <1>5
  <2>2. s[0 + 1] = <<a>>[1]
    BY <1>6, <2>1 DEF Stands
  <2> QED BY <1>5, <1>6, <2>1, <2>2 DEF Stands
<1>8. s # <<>> /\ Head(s) = s[1] /\ Tail(s) \in Seq(W) /\ Len(Tail(s)) = Len(T)
      /\ \A i \in 1 .. Len(Tail(s)) : Tail(s)[i] = s[i + 1]
  <2>1. s # <<>>
    BY <1>6
  <2> QED BY <1>6, <2>1, HeadTailProperties
<1>9. Tail(s) = T
  <2>1. \A i \in 1 .. Len(T) : Tail(s)[i] = T[i]
    <3>1. \A i \in 1 .. Len(T) : 1 + i = i + 1
      BY <1>6
    <3> QED BY <1>7, <1>8, <3>1
  <2> QED BY <1>8, <2>1, SeqEqual
<1>10. Bounds(s) = Bounds(T)
  <2> DEFINE A == {i \in DOMAIN T : T[i] = Bound}
             B == {i \in DOMAIN s : s[i] = Bound}
             F == [i \in A |-> i + 1]
  <2>1. DOMAIN T = 1 .. Len(T) /\ DOMAIN s = 1 .. 1 + Len(T)
    BY <1>6, LenProperties
  <2>2. IsFiniteSet(A)
    <3>1. IsFiniteSet(1 .. Len(T))
      BY <1>6, FS_Interval
    <3>2. A \subseteq 1 .. Len(T)
      BY <2>1
    <3> QED BY <3>1, <3>2, FS_Subset
  <2>3. F \in [A -> B]
    <3> SUFFICES ASSUME NEW i \in A PROVE i + 1 \in B
      OBVIOUS
    <3>1. i \in 1 .. Len(T) /\ T[i] = Bound /\ i + 1 \in 1 .. 1 + Len(T) /\ 1 + i = i + 1
      BY <1>6, <2>1
    <3> QED BY <1>7, <2>1, <3>1
  <2>4. \A x \in A : \A y \in A : F[x] = F[y] => x = y
    BY <1>6, <2>1
  <2>5. \A t \in B : \E x \in A : F[x] = t
    <3> SUFFICES ASSUME NEW t \in B PROVE \E x \in A : F[x] = t
      OBVIOUS
    <3>1. t \in 1 .. 1 + Len(T) /\ s[t] = Bound
      BY <2>1
    <3>2. t # 1
      BY <1>4, <1>7, <3>1
    <3>3. t - 1 \in 1 .. Len(T) /\ 1 + (t - 1) = t /\ (t - 1) + 1 = t
      BY <1>6, <3>1, <3>2
    <3>4. t - 1 \in A
      BY <1>7, <2>1, <3>1, <3>3
    <3> QED BY <3>3, <3>4
  <2> HIDE DEF F, A, B
  <2>6. Cardinality(B) = Cardinality(A)
    BY <2>2, <2>3, <2>4, <2>5, SameCount
  <2> QED BY <2>6 DEF Bounds, A, B
<1>11. Bounds(T) = Len(f) + 1
  BY <1>2, AtFirst
<1> QED BY <1>2, <1>3, <1>4, <1>7, <1>8, <1>9, <1>10, <1>11
-----------------------------------------------------------------------------
(* The bytes of a part in its section.                                      *)

\* The body of p is sent as it is.
Plain(p) == p.encoding = ""

\* The first b symbols of the body of p gave the bytes, and left the decoder d.
Arrived(p, b, d, bytes) ==
    /\ Plain(p) => bytes = SubSeq(p.content, 1, b)
    /\ ~Plain(p) => Reached(p.encoding, p.content, p.breaks, b, d, bytes)

\* The body of a part that is not encoded is its content.
LEMMA PlainCodes ==
    ASSUME NEW p, Plain(p)
    PROVE  Codes(p) = p.content
<1>1. p.encoding # "base64" /\ p.encoding # "quoted_printable"
  BY DEF Plain
<1> QED BY <1>1 DEF Codes, Encoded

\* A part that is encoded has one of the two encodings.
LEMMA Coding ==
    ASSUME NEW p, IsPart(p), ~Plain(p)
    PROVE  p.encoding \in Codings
BY PartIs DEF Plain

\* Nothing has arrived where the body begins.
LEMMA ArrivedFirst ==
    ASSUME NEW p, IsPart(p)
    PROVE  Arrived(p, 0, NewDecoder(p.encoding), <<>>)
<1>1. ASSUME Plain(p) PROVE <<>> = SubSeq(p.content, 1, 0)
  BY SubSeqEmpty
<1>2. ASSUME ~Plain(p)
      PROVE  Reached(p.encoding, p.content, p.breaks, 0, NewDecoder(p.encoding), <<>>)
  BY DEF Reached
<1> QED BY <1>1, <1>2 DEF Arrived

\* What arrived is the beginning of the content, and all of it at the end.
LEMMA ArrivedHas ==
    ASSUME NEW p, IsPart(p), NEW b \in 0 .. Len(Codes(p)), NEW d, NEW bytes,
           Arrived(p, b, d, bytes)
    PROVE  /\ bytes \in Seq(Byte)
           /\ IsPrefix(bytes, p.content)
           /\ b = Len(Codes(p)) => bytes = p.content
<1>1. p.content \in Seq(Byte) /\ Codes(p) \in Seq(Byte)
  BY PartIs
<1>2. PICK c \in Seq(Byte) : c = p.content
  BY <1>1
<1>3. Len(c) \in Nat /\ Len(Codes(p)) \in Nat /\ b \in Nat
  BY <1>1, LenProperties
<1>4. /\ \E m \in 0 .. Len(c) : bytes = SubSeq(c, 1, m)
      /\ b = Len(Codes(p)) => bytes = c
  <2>1. CASE Plain(p)
    <3>1. Codes(p) = c
      BY <1>2, <2>1, PlainCodes
    <3>2. bytes = SubSeq(c, 1, b) /\ b \in 0 .. Len(c)
      BY <1>2, <2>1, <3>1 DEF Arrived
    <3>3. SubSeq(c, 1, Len(c)) = c
      BY SubSeqFull
    <3> QED BY <3>1, <3>2, <3>3
  <2>2. CASE ~Plain(p)
    <3>1. p.encoding \in Codings
      BY <2>2, Coding
    <3>2. Reached(p.encoding, c, p.breaks, b, d, bytes)
      BY <1>2, <2>2 DEF Arrived
    <3>3. /\ \E m \in 0 .. Len(c) : bytes = SubSeq(c, 1, m)
          /\ b = Len(Encoded(p.encoding, c, p.breaks)) => bytes = c
      BY <1>3, <3>1, <3>2, ReachedHas
    <3> QED BY <1>2, <3>3 DEF Codes
  <2> QED BY <2>1, <2>2
<1>5. PICK m \in 0 .. Len(c) : bytes = SubSeq(c, 1, m)
  BY <1>4
<1>6. /\ bytes \in Seq(Byte) /\ Len(bytes) = m
      /\ \A i \in 1 .. m : bytes[i] = c[i]
  <2>1. \A i \in 1 .. m : c[i] \in Byte
    BY <1>3, ElementOfSeq
  <2>2. 1 \in Int /\ m \in Int /\ (IF 1 <= m THEN m - 1 + 1 ELSE 0) = m /\ (m - 1) + 1 = m
    BY <1>3
  <2>3. /\ SubSeq(c, 1, m) \in Seq(Byte)
        /\ Len(SubSeq(c, 1, m)) = IF 1 <= m THEN m - 1 + 1 ELSE 0
        /\ \A i \in 1 .. (m - 1) + 1 : SubSeq(c, 1, m)[i] = c[(1 + i) - 1]
    BY <2>1, <2>2, SubSeqProperties
  <2>4. \A i \in 1 .. m : (1 + i) - 1 = i
    BY <1>3
  <2> QED BY <1>5, <2>2, <2>3, <2>4
<1>7. IsPrefix(bytes, c)
  <2>1. Len(bytes) <= Len(c) /\ \A i \in 1 .. Len(bytes) : bytes[i] = c[i]
    BY <1>3, <1>6
  <2>2. SubSeq(bytes, 1, Len(bytes)) = SubSeq(c, 1, Len(bytes))
    <3>1. SubSeq(bytes, 1, Len(bytes)) = bytes
      BY <1>6, SubSeqFull
    <3> QED BY <1>5, <1>6, <3>1
  <2> QED BY <2>1, <2>2 DEF IsPrefix
<1> QED BY <1>2, <1>4, <1>6, <1>7

\* One more symbol of a body that is not encoded.
LEMMA PlainStep ==
    ASSUME NEW p, IsPart(p), Plain(p), NEW b \in 0 .. Len(Codes(p)) - 1, NEW d,
           NEW bytes, Arrived(p, b, d, bytes), NEW e
    PROVE  Arrived(p, b + 1, e, Append(bytes, Codes(p)[b + 1]))
<1>1. p.content \in Seq(Byte) /\ Codes(p) \in Seq(Byte) /\ Codes(p) = p.content
  BY PartIs, PlainCodes
<1>2. PICK c \in Seq(Byte) : c = p.content
  BY <1>1
<1>3. Len(c) \in Nat /\ b \in 0 .. Len(c) - 1 /\ bytes = SubSeq(c, 1, b)
  BY <1>1, <1>2, LenProperties DEF Arrived
<1>4. SubSeq(c, 1, b + 1) = Append(SubSeq(c, 1, b), c[b + 1])
  <2>1. b + 1 \in 1 .. Len(c) /\ (b + 1) - 1 = b
    BY <1>3
  <2>2. SubSeq(c, 1, b) \o <<c[b + 1]>> = SubSeq(c, 1, b + 1)
    BY <2>1, OneByteMore
  <2>3. c[b + 1] \in Byte /\ SubSeq(c, 1, b) \in Seq(Byte)
    <3>1. b \in 0 .. Len(Codes(p))
      BY <1>1, <1>2, <1>3
    <3>2. bytes \in Seq(Byte)
      BY <3>1, ArrivedHas
    <3> QED BY <1>3, <2>1, <3>2, ElementOfSeq
  <2> QED BY <2>2, <2>3, AppendIsConcat
<1> QED BY <1>1, <1>2, <1>3, <1>4 DEF Arrived

\* One more symbol of a body that is.
LEMMA CodedStep ==
    ASSUME NEW p, IsPart(p), ~Plain(p), NEW b \in 0 .. Len(Codes(p)) - 1, NEW d,
           NEW bytes, Arrived(p, b, d, bytes),
           NEW r, r = Decoded(p.encoding, d, Codes(p)[b + 1])
    PROVE  Arrived(p, b + 1, r.decoder, bytes \o r.bytes)
<1>1. p.content \in Seq(Byte) /\ p.encoding \in Codings /\ Codes(p) \in Seq(Byte)
  BY PartIs, Coding
<1>2. Len(Codes(p)) \in Nat /\ b \in Nat /\ b < Len(Codes(p)) /\ b \in 0 .. Len(Codes(p))
  <2>1. Len(Codes(p)) \in Nat
    BY <1>1, LenProperties
  <2> QED BY <2>1
<1>3. bytes \in Seq(Byte)
  BY <1>2, ArrivedHas
<1>4. Reached(p.encoding, p.content, p.breaks, b, d, bytes)
  BY DEF Arrived
<1>5. PICK c : c = p.content
  OBVIOUS
<1>6. PICK e : e = p.encoding
  OBVIOUS
<1>7. PICK k : k = p.breaks
  OBVIOUS
<1>8. c \in Seq(Byte) /\ e \in Codings /\ Reached(e, c, k, b, d, bytes)
      /\ b < Len(Encoded(e, c, k)) /\ Codes(p) = Encoded(e, c, k)
  BY <1>1, <1>2, <1>4, <1>5, <1>6, <1>7 DEF Codes
<1>9. PICK f, y : /\ Decoded(e, d, Encoded(e, c, k)[b + 1]) = [decoder |-> f, bytes |-> y]
                  /\ Reached(e, c, k, b + 1, f, bytes \o y)
  BY <1>2, <1>3, <1>8, ReachedStep
<1>10. r.decoder = f /\ r.bytes = y
  BY <1>6, <1>8, <1>9
<1>11. Reached(p.encoding, p.content, p.breaks, b + 1, r.decoder, bytes \o r.bytes)
  BY <1>5, <1>6, <1>7, <1>9, <1>10
<1> QED BY <1>11 DEF Arrived
-----------------------------------------------------------------------------
(* What the header of a part makes of its section.                          *)

\* A section, whatever it holds.
Fields == {"type", "state", "name", "filename", "ctype", "encoding", "decoding", "decoder",
           "open", "body", "data"}
IsSection(s) == DOMAIN s = Fields /\ s = [x \in DOMAIN s |-> s[x]]

\* A section in its header, and what the lines of the header brought.
Blank(s) == IsSection(s) /\ s.type = "header" /\ ~s.open /\ s.body = <<>> /\ s.data = <<>>
Unnamed(s) == s.state = "sync" /\ s.name = "" /\ s.filename = ""
Untyped(s) == s.ctype = ""
Uncoded(s) == s.encoding = ""
Named(s, p) == s.name = p.name /\ s.filename = p.filename
Typed(s, p) == s.ctype = p.ctype
Coded(s, p) == s.encoding = p.encoding

\* A section whose header brought j lines of p.
Heading(s, p, j) ==
    /\ Blank(s)
    /\ j = 0 => Unnamed(s)
    /\ j # 0 => Named(s, p)
    /\ j = 0 \/ j = 1 => Untyped(s)
    /\ ~(j = 0 \/ j = 1) => Typed(s, p)
    /\ j # 3 => Uncoded(s)
    /\ j = 3 => Coded(s, p)

Fresh(s) == Blank(s) /\ Unnamed(s) /\ Untyped(s) /\ Uncoded(s)

\* A new section is one.
LEMMA NewIsSection ==
    ASSUME NEW t
    PROVE  /\ IsSection(NewSection(t)) /\ NewSection(t).type = t /\ ~NewSection(t).open
           /\ NewSection(t).state = "sync"
BY DEF IsSection, Fields, NewSection

\* A new header section has nothing set.
LEMMA NewIsFresh == Fresh(NewSection("header"))
<1>1. IsSection(NewSection("header"))
  BY NewIsSection
<1> QED BY <1>1 DEF Fresh, Blank, Unnamed, Untyped, Uncoded, NewSection

\* In front of the first boundary.
LEMMA HeaderBegins ==
    ASSUME NEW s, s = NewSection("sync")
    PROVE  Fresh([s EXCEPT !.type = "header"])
<1>1. IsSection([s EXCEPT !.type = "header"])
  BY DEF NewSection, IsSection, Fields
<1> QED BY <1>1 DEF NewSection, Fresh, Blank, Unnamed, Untyped, Uncoded

\* A section in which nothing is set has no line of its part yet.
LEMMA FreshHeading ==
    ASSUME NEW s, Fresh(s), NEW p
    PROVE  Heading(s, p, 0)
BY DEF Fresh, Heading

\* The end of a header line.
Disposed(s, value) ==
    [s EXCEPT !.name = value.word,
              !.filename = IF value.file = "" THEN @ ELSE value.file,
              !.state = IF value.file = "" THEN "text" ELSE "file"]
WithType(s, t) == [s EXCEPT !.ctype = t]
WithEncoding(s, e) == [s EXCEPT !.encoding = e]
IsLineOf(hn, hv, n) == hn = <<Word(n)>> /\ Len(hv) = 1

AfterLine(s, hn, hv) ==
    CASE IsLineOf(hn, hv, "content-disposition") /\ hv[1].code = -2 -> Disposed(s, hv[1])
      [] IsLineOf(hn, hv, "content-type") -> WithType(s, hv[1].word)
      [] IsLineOf(hn, hv, "content-transfer-encoding") -> WithEncoding(s, hv[1].word)
      [] OTHER -> s

\* The three header names are three.
LEMMA NamesDiffer ==
    /\ <<Word("content-disposition")>> # <<Word("content-type")>>
    /\ <<Word("content-disposition")>> # <<Word("content-transfer-encoding")>>
    /\ <<Word("content-type")>> # <<Word("content-transfer-encoding")>>
<1>1. \A a : <<a>>[1] = a
  OBVIOUS
<1>2. /\ Word("content-disposition") # Word("content-type")
      /\ Word("content-disposition") # Word("content-transfer-encoding")
      /\ Word("content-type") # Word("content-transfer-encoding")
  <2>1. \A w : Word(w).word = w
    BY SymbolsDiffer
  <2>2. /\ "content-disposition" # "content-type"
        /\ "content-disposition" # "content-transfer-encoding"
        /\ "content-type" # "content-transfer-encoding"
    OBVIOUS
  <2> QED BY <2>1, <2>2
<1> QED BY <1>1, <1>2, Zenon

\* What the lines leave of a section.
Alike(s, r) == IsSection(r) /\ r.type = s.type /\ r.open = s.open /\ r.body = s.body
               /\ r.data = s.data
Takes(s, r, v) == /\ r.name = v.word /\ r.ctype = s.ctype /\ r.encoding = s.encoding
                  /\ v.file = "" => r.filename = s.filename
                  /\ v.file # "" => r.filename = v.file

\* content-disposition sets the name and the file name and nothing else.
LEMMA DisposedSection ==
    ASSUME NEW s, IsSection(s), NEW v
    PROVE  Alike(s, Disposed(s, v)) /\ Takes(s, Disposed(s, v), v)
<1> DEFINE r == Disposed(s, v)
<1>1. DOMAIN s = Fields /\ s = [x \in DOMAIN s |-> s[x]]
  BY DEF IsSection
<1>2. PICK g : g = IF v.file = "" THEN s.filename ELSE v.file
  OBVIOUS
<1>3. PICK z : z = IF v.file = "" THEN "text" ELSE "file"
  OBVIOUS
<1>4. PICK w : w = v.word
  OBVIOUS
<1>5. r = [s EXCEPT !.name = w, !.filename = g, !.state = z]
  BY <1>2, <1>3, <1>4 DEF Disposed
<1> HIDE DEF r
<1>6. /\ IsSection(r) /\ r.type = s.type /\ r.open = s.open /\ r.body = s.body
      /\ r.data = s.data /\ r.ctype = s.ctype /\ r.encoding = s.encoding
      /\ r.name = w /\ r.filename = g
  BY <1>1, <1>5 DEF IsSection, Fields
<1>7. Alike(s, r)
  BY <1>6 DEF Alike
<1>8. Takes(s, r, v)
  BY <1>2, <1>4, <1>6 DEF Takes
<1> QED BY <1>7, <1>8 DEF r

\* content-type sets the type and nothing else.
LEMMA TypedSection ==
    ASSUME NEW s, IsSection(s), NEW t, NEW r, r = WithType(s, t)
    PROVE  /\ Alike(s, r) /\ r.encoding = s.encoding
           /\ r.name = s.name /\ r.filename = s.filename /\ r.state = s.state
           /\ r.ctype = t
BY DEF WithType, IsSection, Fields, Alike

\* content-transfer-encoding sets the encoding and nothing else.
LEMMA CodedSection ==
    ASSUME NEW s, IsSection(s), NEW t, NEW r, r = WithEncoding(s, t)
    PROVE  /\ Alike(s, r) /\ r.ctype = s.ctype
           /\ r.name = s.name /\ r.filename = s.filename /\ r.state = s.state
           /\ r.encoding = t
BY DEF WithEncoding, IsSection, Fields, Alike

\* A line never makes less of a section.
LEMMA LineKeepsSection ==
    ASSUME NEW s, IsSection(s), NEW hn, NEW hv
    PROVE  IsSection(AfterLine(s, hn, hv)) /\ AfterLine(s, hn, hv).type = s.type
<1>1. \/ AfterLine(s, hn, hv) = s \/ AfterLine(s, hn, hv) = Disposed(s, hv[1])
      \/ AfterLine(s, hn, hv) = WithType(s, hv[1].word)
      \/ AfterLine(s, hn, hv) = WithEncoding(s, hv[1].word)
  <2> DEFINE a == IsLineOf(hn, hv, "content-disposition") /\ hv[1].code = -2
             b == IsLineOf(hn, hv, "content-type")
             c == IsLineOf(hn, hv, "content-transfer-encoding")
             x == Disposed(s, hv[1])
             y == WithType(s, hv[1].word)
             z == WithEncoding(s, hv[1].word)
  <2>1. AfterLine(s, hn, hv) = CASE a -> x [] b -> y [] c -> z [] OTHER -> s
    BY DEF AfterLine
  <2> HIDE DEF a, b, c, x, y, z
  <2>2. \/ AfterLine(s, hn, hv) = s \/ AfterLine(s, hn, hv) = x
        \/ AfterLine(s, hn, hv) = y \/ AfterLine(s, hn, hv) = z
    BY <2>1
  <2> QED BY <2>2 DEF x, y, z
<1>2. Alike(s, s)
  BY DEF Alike
<1>3. Alike(s, Disposed(s, hv[1]))
  BY DisposedSection
<1>4. Alike(s, WithType(s, hv[1].word))
  BY TypedSection
<1>5. Alike(s, WithEncoding(s, hv[1].word))
  BY CodedSection
<1>6. Alike(s, AfterLine(s, hn, hv))
  BY <1>1, <1>2, <1>3, <1>4, <1>5
<1> QED BY <1>6 DEF Alike

\* The lines of a part.
LEMMA LineOfPart ==
    ASSUME NEW p, NEW s, NEW j \in 0 .. 2, NEW hn, hn = <<Word(LineName(j))>>,
           NEW hv, hv = <<LineValue(p, j)>>, NEW r, r = AfterLine(s, hn, hv)
    PROVE  /\ j = 0 => r = Disposed(s, Disposition(p.name, p.filename))
           /\ j = 1 => r = WithType(s, p.ctype)
           /\ j = 2 => r = WithEncoding(s, p.encoding)
<1>1. Len(hv) = 1 /\ hv[1] = LineValue(p, j)
  OBVIOUS
<1>2. CASE j = 0
  <2>1. LineName(j) = "content-disposition" /\ LineValue(p, j) = Disposition(p.name, p.filename)
    BY <1>2 DEF LineName, LineValue
  <2>2. hv[1].code = -2
    BY <1>1, <2>1, SymbolsDiffer
  <2>3. IsLineOf(hn, hv, "content-disposition")
    BY <1>1, <2>1 DEF IsLineOf
  <2>4. ~IsLineOf(hn, hv, "content-type") /\ ~IsLineOf(hn, hv, "content-transfer-encoding")
    BY <2>1, NamesDiffer DEF IsLineOf
  <2>5. r = Disposed(s, hv[1])
    BY <2>2, <2>3, <2>4 DEF AfterLine
  <2> QED BY <1>1, <1>2, <2>1, <2>5
<1>3. CASE j = 1
  <2>1. LineName(j) = "content-type" /\ LineValue(p, j) = Word(p.ctype)
    BY <1>3 DEF LineName, LineValue
  <2>2. hv[1].word = p.ctype
    BY <1>1, <2>1, SymbolsDiffer
  <2>3. IsLineOf(hn, hv, "content-type")
    BY <1>1, <2>1 DEF IsLineOf
  <2>4. ~IsLineOf(hn, hv, "content-disposition") /\ ~IsLineOf(hn, hv, "content-transfer-encoding")
    BY <2>1, NamesDiffer DEF IsLineOf
  <2>5. r = WithType(s, hv[1].word)
    BY <2>3, <2>4 DEF AfterLine
  <2> QED BY <1>3, <2>2, <2>5
<1>4. CASE j = 2
  <2>1. LineName(j) = "content-transfer-encoding" /\ LineValue(p, j) = Word(p.encoding)
    BY <1>4 DEF LineName, LineValue
  <2>2. hv[1].word = p.encoding
    BY <1>1, <2>1, SymbolsDiffer
  <2>3. IsLineOf(hn, hv, "content-transfer-encoding")
    BY <1>1, <2>1 DEF IsLineOf
  <2>4. ~IsLineOf(hn, hv, "content-disposition") /\ ~IsLineOf(hn, hv, "content-type")
    BY <2>1, NamesDiffer DEF IsLineOf
  <2>5. r = WithEncoding(s, hv[1].word)
    BY <2>3, <2>4 DEF AfterLine
  <2> QED BY <1>4, <2>2, <2>5
<1> QED BY <1>2, <1>3, <1>4

\* A line brings the section one line further.
LEMMA LineBrings ==
    ASSUME NEW p, NEW s, NEW j \in 0 .. 2, Heading(s, p, j), NEW hn, hn = <<Word(LineName(j))>>,
           NEW hv, hv = <<LineValue(p, j)>>, NEW r, r = AfterLine(s, hn, hv)
    PROVE  Heading(r, p, j + 1)
<1>1. Blank(s)
  BY DEF Heading
<1>2. IsSection(s)
  BY <1>1 DEF Blank
<1>3. CASE j = 0
  <2>1. r = Disposed(s, Disposition(p.name, p.filename))
    BY <1>3, LineOfPart
  <2>2. PICK v : v = Disposition(p.name, p.filename)
    OBVIOUS
  <2>3. v.word = p.name /\ v.file = p.filename
    BY <2>2, SymbolsDiffer
  <2>4. Alike(s, r) /\ Takes(s, r, v)
    <3>1. r = Disposed(s, v)
      BY <2>1, <2>2
    <3> QED BY <1>2, <3>1, DisposedSection
  <2>5. Unnamed(s) /\ Untyped(s) /\ Uncoded(s)
    BY <1>3 DEF Heading
  <2>6. Blank(r)
    BY <1>1, <2>4 DEF Blank, Alike
  <2>7. Named(r, p)
    BY <2>3, <2>4, <2>5 DEF Named, Unnamed, Takes
  <2>8. Untyped(r) /\ Uncoded(r)
    BY <2>4, <2>5 DEF Untyped, Uncoded, Takes
  <2>9. Heading(r, p, 1)
    BY <2>6, <2>7, <2>8 DEF Heading
  <2> QED BY <1>3, <2>9
<1>4. CASE j = 1
  <2>1. r = WithType(s, p.ctype)
    BY <1>4, LineOfPart
  <2>2. PICK t : t = p.ctype
    OBVIOUS
  <2>4. /\ Alike(s, r) /\ r.encoding = s.encoding
        /\ r.name = s.name /\ r.filename = s.filename
        /\ r.ctype = t
    BY <1>2, <2>1, <2>2, TypedSection
  <2>5. Named(s, p) /\ Uncoded(s)
    BY <1>4 DEF Heading
  <2>6. Blank(r)
    BY <1>1, <2>4 DEF Blank, Alike
  <2>7. Named(r, p)
    BY <2>4, <2>5 DEF Named
  <2>8. Typed(r, p) /\ Uncoded(r)
    BY <2>2, <2>4, <2>5 DEF Typed, Uncoded
  <2>9. Heading(r, p, 2)
    BY <2>6, <2>7, <2>8 DEF Heading
  <2> QED BY <1>4, <2>9
<1>5. CASE j = 2
  <2>1. r = WithEncoding(s, p.encoding)
    BY <1>5, LineOfPart
  <2>2. PICK t : t = p.encoding
    OBVIOUS
  <2>4. /\ Alike(s, r) /\ r.ctype = s.ctype
        /\ r.name = s.name /\ r.filename = s.filename
        /\ r.encoding = t
    BY <1>2, <2>1, <2>2, CodedSection
  <2>5. Named(s, p) /\ Typed(s, p)
    BY <1>5 DEF Heading
  <2>6. Blank(r)
    BY <1>1, <2>4 DEF Blank, Alike
  <2>7. Named(r, p)
    BY <2>4, <2>5 DEF Named
  <2>8. Typed(r, p) /\ Coded(r, p)
    BY <2>2, <2>4, <2>5 DEF Typed, Coded
  <2>9. Heading(r, p, 3)
    BY <2>6, <2>7, <2>8 DEF Heading
  <2> QED BY <1>5, <2>9
<1> QED BY <1>3, <1>4, <1>5

\* The content types that parse_form_data knows.
KnownTypes == {""} \cup TextTypes \cup FileTypes \cup IgnoredTypes
IsText(p) == p.ctype \in TextTypes \cup {""}
IsKnown(p) == p.ctype \in KnownTypes

\* A section whose header is read, and b symbols of its body.
Complete(s, p) ==
    IsSection(s) /\ s.state = "file" /\ Named(s, p) /\ Typed(s, p) /\ Coded(s, p)
Decodes(s, p) == s.decoding <=> ~Plain(p)
TextBody(s, p, b) ==
    /\ IsText(p) /\ s.type = "text" /\ ~s.open
    /\ Arrived(p, b, s.decoder, s.body)
FileBody(s, p, b) ==
    /\ ~IsText(p) /\ s.type = "file"
    /\ s.open => Arrived(p, b, s.decoder, s.data)
    /\ ~s.open => s.data = <<>>
InBody(s, p, b) == Complete(s, p) /\ Decodes(s, p) /\ (TextBody(s, p, b) \/ FileBody(s, p, b))

\* What create_object makes of the type of a section, and then of the rest.
OfType(s, opens) ==
    CASE s.ctype \in TextTypes \cup {""} -> [s EXCEPT !.type = "text"]
      [] s.ctype \in FileTypes -> [s EXCEPT !.type = "file", !.open = opens]
      [] s.ctype \in IgnoredTypes -> [s EXCEPT !.type = "file"]
      [] OTHER -> s

\* s with another type, and perhaps a file.
Retyped(s, t) ==
    /\ IsSection(t) /\ t.name = s.name /\ t.filename = s.filename /\ t.ctype = s.ctype
    /\ t.encoding = s.encoding /\ t.body = s.body /\ t.data = s.data

\* create_object makes a section of text or of file from its type.
LEMMA OfTypeIs ==
    ASSUME NEW s, IsSection(s), NEW opens
    PROVE  /\ Retyped(s, OfType(s, opens))
           /\ s.ctype \in TextTypes \cup {""} =>
                OfType(s, opens).type = "text" /\ OfType(s, opens).open = s.open
           /\ s.ctype \in FileTypes =>
                OfType(s, opens).type = "file" /\ OfType(s, opens).open = opens
           /\ s.ctype \in IgnoredTypes =>
                OfType(s, opens).type = "file" /\ OfType(s, opens).open = s.open
           /\ s.ctype \notin KnownTypes => OfType(s, opens) = s
<1> DEFINE t == OfType(s, opens)
<1>1. CASE s.ctype \in TextTypes \cup {""}
  <2>1. t = [s EXCEPT !.type = "text"]
    BY <1>1 DEF OfType, TextTypes, FileTypes, IgnoredTypes
  <2> HIDE DEF t
  <2>2. Retyped(s, t) /\ t.type = "text" /\ t.open = s.open
    BY <2>1 DEF Retyped, IsSection, Fields
  <2>3. s.ctype \notin FileTypes /\ s.ctype \notin IgnoredTypes /\ s.ctype \in KnownTypes
    BY <1>1 DEF TextTypes, FileTypes, IgnoredTypes, KnownTypes
  <2> QED BY <1>1, <2>2, <2>3 DEF t
<1>2. CASE s.ctype \in FileTypes
  <2>1. t = [s EXCEPT !.type = "file", !.open = opens]
    BY <1>2 DEF OfType, TextTypes, FileTypes, IgnoredTypes
  <2> HIDE DEF t
  <2>2. Retyped(s, t) /\ t.type = "file" /\ t.open = opens
    BY <2>1 DEF Retyped, IsSection, Fields
  <2>3. s.ctype \notin TextTypes \cup {""} /\ s.ctype \notin IgnoredTypes /\ s.ctype \in KnownTypes
    BY <1>2 DEF TextTypes, FileTypes, IgnoredTypes, KnownTypes
  <2> QED BY <1>2, <2>2, <2>3 DEF t
<1>3. CASE s.ctype \in IgnoredTypes
  <2>1. t = [s EXCEPT !.type = "file"]
    BY <1>3 DEF OfType, TextTypes, FileTypes, IgnoredTypes
  <2> HIDE DEF t
  <2>2. Retyped(s, t) /\ t.type = "file" /\ t.open = s.open
    BY <2>1 DEF Retyped, IsSection, Fields
  <2>3. s.ctype \notin TextTypes \cup {""} /\ s.ctype \notin FileTypes /\ s.ctype \in KnownTypes
    BY <1>3 DEF TextTypes, FileTypes, IgnoredTypes, KnownTypes
  <2> QED BY <1>3, <2>2, <2>3 DEF t
<1>4. CASE s.ctype \notin KnownTypes
  <2>1. s.ctype \notin TextTypes \cup {""} /\ s.ctype \notin FileTypes /\ s.ctype \notin IgnoredTypes
    BY <1>4 DEF KnownTypes
  <2>2. t = s
    BY <2>1 DEF OfType
  <2> HIDE DEF t
  <2>3. Retyped(s, t)
    BY <2>2 DEF Retyped
  <2> QED BY <1>4, <2>1, <2>2, <2>3 DEF t
<1>5. \/ s.ctype \in TextTypes \cup {""} \/ s.ctype \in FileTypes \/ s.ctype \in IgnoredTypes
      \/ s.ctype \notin KnownTypes
  BY DEF KnownTypes
<1> QED BY <1>1, <1>2, <1>3, <1>4, <1>5

Follows(t, r) == r.type = t.type /\ r.open = t.open /\ r.state = "file"
Decoding(s, r) ==
    /\ r.decoder = NewDecoder(s.encoding)
    /\ r.decoding <=> s.ctype # "" /\ s.encoding # ""

LastOf(t, v, e, d, r) ==
    /\ IsSection(r) /\ r.name = t.name /\ r.filename = t.filename /\ r.ctype = t.ctype
    /\ r.encoding = t.encoding /\ r.body = t.body /\ r.data = t.data
    /\ r.type = t.type /\ r.open = t.open /\ r.state = v /\ r.decoding = e /\ r.decoder = d

\* Where the header ends the state and the decoder are set, and nothing else.
LEMMA LastFields ==
    ASSUME NEW t, IsSection(t), NEW v, NEW e, NEW d,
           NEW r, r = [t EXCEPT !.state = v, !.decoding = e, !.decoder = d]
    PROVE  LastOf(t, v, e, d, r)
BY DEF IsSection, Fields, LastOf

\* The section behind its header has the kind of its type and the decoder of its
\* encoding.
LEMMA CreatedIs ==
    ASSUME NEW s, IsSection(s), NEW opens
    PROVE  /\ Retyped(s, Created(s, opens)) /\ Follows(OfType(s, opens), Created(s, opens))
           /\ Decoding(s, Created(s, opens))
<1> DEFINE t == OfType(s, opens)
           r == Created(s, opens)
<1>1. PICK d : d = NewDecoder(s.encoding)
  OBVIOUS
<1>2. PICK e : e = (s.ctype # "" /\ s.encoding # "")
  OBVIOUS
<1>3. r = [t EXCEPT !.state = "file", !.decoding = e, !.decoder = d]
  BY <1>1, <1>2 DEF Created, OfType
<1>4. Retyped(s, t)
  BY OfTypeIs
<1> HIDE DEF t, r
<1>5. IsSection(t)
  BY <1>4 DEF Retyped
<1>6. /\ IsSection(r) /\ r.name = t.name /\ r.filename = t.filename /\ r.ctype = t.ctype
      /\ r.encoding = t.encoding /\ r.body = t.body /\ r.data = t.data
      /\ r.type = t.type /\ r.open = t.open /\ r.state = "file" /\ r.decoding = e /\ r.decoder = d
  <2>1. LastOf(t, "file", e, d, r)
    BY <1>3, <1>5, LastFields
  <2> QED BY <2>1 DEF LastOf
<1>7. Retyped(s, r)
  BY <1>4, <1>6 DEF Retyped
<1>8. Follows(t, r)
  BY <1>6 DEF Follows
<1>9. Decoding(s, r)
  <2>1. r.decoding = (s.ctype # "" /\ s.encoding # "")
    BY <1>2, <1>6
  <2>2. r.decoder = NewDecoder(s.encoding)
    BY <1>1, <1>6
  <2> QED BY <2>1, <2>2 DEF Decoding
<1> QED BY <1>7, <1>8, <1>9 DEF t, r

\* A section whose header has ended is one, and still none in front of the form.
LEMMA CreatedKeepsSection ==
    ASSUME NEW s, IsSection(s), s.type # "sync", NEW opens
    PROVE  IsSection(Created(s, opens)) /\ Created(s, opens).type # "sync"
<1>1. PICK t : t = OfType(s, opens)
  OBVIOUS
<1>2. t.type # "sync"
  <2>1. s.ctype \in KnownTypes => s.ctype \in TextTypes \cup {""} \/ s.ctype \in FileTypes \/ s.ctype \in IgnoredTypes
    BY DEF KnownTypes
  <2>2. t.type = "text" \/ t.type = "file" \/ t = s
    BY <1>1, <2>1, OfTypeIs
  <2> QED BY <2>2
<1>3. Retyped(s, Created(s, opens)) /\ Follows(t, Created(s, opens))
  BY <1>1, CreatedIs
<1> QED BY <1>2, <1>3 DEF Retyped, Follows

\* Behind its empty line a part of a known type has its section.
LEMMA HeadingEnds ==
    ASSUME NEW p, IsPart(p), IsKnown(p), NEW s, Heading(s, p, NumLines(p)),
           NEW opens, NEW r, r = Created(s, opens)
    PROVE  InBody(r, p, 0)
<1>1. Blank(s) /\ Named(s, p) /\ Typed(s, p) /\ Coded(s, p)
  <2>1. NumLines(p) \in 1 .. 3
    BY PartIs
  <2>2. Blank(s) /\ Named(s, p)
    BY <2>1 DEF Heading
  <2>3. CASE p.ctype = ""
    <3>1. NumLines(p) = 1
      BY <2>3, PartIs
    <3>2. p.encoding = ""
      BY <2>3, PartIs
    <3>3. Untyped(s) /\ Uncoded(s)
      BY <3>1 DEF Heading
    <3>4. Typed(s, p) /\ Coded(s, p)
      BY <2>3, <3>2, <3>3 DEF Typed, Coded, Untyped, Uncoded
    <3> QED BY <2>2, <3>4
  <2>4. CASE p.ctype # "" /\ p.encoding = ""
    <3>1. NumLines(p) = 2
      BY <2>4, PartIs
    <3>3. Typed(s, p) /\ Uncoded(s)
      BY <3>1 DEF Heading
    <3>4. Coded(s, p)
      BY <2>4, <3>3 DEF Coded, Uncoded
    <3> QED BY <2>2, <3>3, <3>4
  <2>5. CASE p.encoding # ""
    <3>1. NumLines(p) = 3
      BY <2>5, PartIs
    <3>3. Typed(s, p) /\ Coded(s, p)
      BY <3>1 DEF Heading
    <3> QED BY <2>2, <3>3
  <2> QED BY <2>3, <2>4, <2>5
<1>2. PICK t : t = OfType(s, opens)
  OBVIOUS
<1>3. IsSection(s) /\ ~s.open /\ s.body = <<>> /\ s.data = <<>>
  BY <1>1 DEF Blank
<1>4. s.ctype = p.ctype /\ s.encoding = p.encoding
  BY <1>1 DEF Typed, Coded
<1>0. Retyped(s, r) /\ Follows(t, r) /\ Decoding(s, r)
  BY <1>2, <1>3, CreatedIs
<1>5. /\ Retyped(s, r) /\ r.type = t.type /\ r.open = t.open /\ r.state = "file"
      /\ r.decoder = NewDecoder(s.encoding)
  BY <1>0 DEF Follows, Decoding
<1>6. r.decoding <=> s.ctype # "" /\ s.encoding # ""
  BY <1>0 DEF Decoding
<1>7. Complete(r, p)
  <2>1. /\ IsSection(r) /\ r.name = s.name /\ r.filename = s.filename /\ r.ctype = s.ctype
        /\ r.encoding = s.encoding
    BY <1>5 DEF Retyped
  <2>2. Named(r, p) /\ Typed(r, p) /\ Coded(r, p)
    BY <1>1, <2>1 DEF Named, Typed, Coded
  <2> QED BY <1>5, <2>1, <2>2 DEF Complete
<1>8. Decodes(r, p)
  <2>1. p.ctype = "" => p.encoding = ""
    BY PartIs
  <2> QED BY <1>4, <1>6, <2>1 DEF Decodes, Plain
<1>9. Arrived(p, 0, r.decoder, <<>>)
  BY <1>4, <1>5, ArrivedFirst
<1>10. r.body = <<>> /\ r.data = <<>>
  BY <1>3, <1>5 DEF Retyped
<1>11. CASE IsText(p)
  <2>1. s.ctype \in TextTypes \cup {""}
    BY <1>4, <1>11 DEF IsText
  <2>2. r.type = "text" /\ ~r.open
    BY <1>2, <1>3, <1>5, <2>1, OfTypeIs
  <2>3. TextBody(r, p, 0)
    BY <1>9, <1>10, <1>11, <2>2 DEF TextBody
  <2> QED BY <1>7, <1>8, <2>3 DEF InBody
<1>12. CASE ~IsText(p)
  <2>1. s.ctype \in FileTypes \/ s.ctype \in IgnoredTypes
    BY <1>4, <1>12 DEF IsText, IsKnown, KnownTypes
  <2>2. r.type = "file"
    BY <1>2, <1>3, <1>5, <2>1, OfTypeIs
  <2>3. FileBody(r, p, 0)
    BY <1>9, <1>10, <1>12, <2>2 DEF FileBody
  <2> QED BY <1>7, <1>8, <2>3 DEF InBody
<1> QED BY <1>11, <1>12
-----------------------------------------------------------------------------
(* What a character of the body makes of the section.                       *)

\* A character of the body, by its code.
TextAfter(s, c) ==
    LET d == Decoded(s.encoding, s.decoder, c) IN
    IF s.decoding THEN [s EXCEPT !.decoder = d.decoder, !.body = @ \o d.bytes]
    ELSE [s EXCEPT !.body = Append(@, c)]

FileAfter(s, c) ==
    LET d == Decoded(s.encoding, s.decoder, c) IN
    CASE ~s.open -> s
      [] s.open /\ s.decoding ->
           [s EXCEPT !.decoder = d.decoder, !.body = @ \o d.bytes, !.data = @ \o d.bytes]
      [] OTHER -> [s EXCEPT !.data = Append(@, c)]

\* Everything of a section but its bytes and its decoder.
Same(s, r) ==
    /\ IsSection(r) /\ r.type = s.type /\ r.state = s.state /\ r.name = s.name
    /\ r.filename = s.filename /\ r.ctype = s.ctype /\ r.encoding = s.encoding
    /\ r.decoding = s.decoding /\ r.open = s.open

\* What else is set in a section leaves its header as it was.
LEMMA SameComplete ==
    ASSUME NEW s, NEW r, Same(s, r), NEW p, Complete(s, p), Decodes(s, p)
    PROVE  Complete(r, p) /\ Decodes(r, p)
<1>1. IsSection(r) /\ r.state = "file"
  BY DEF Same, Complete
<1>2. Named(r, p) /\ Typed(r, p) /\ Coded(r, p)
  BY DEF Same, Complete, Named, Typed, Coded
<1>3. Complete(r, p)
  BY <1>1, <1>2 DEF Complete
<1>4. r.decoding = s.decoding
  BY DEF Same
<1>5. Decodes(r, p)
  BY <1>4, Zenon DEF Decodes
<1> QED BY <1>3, <1>5

IsTwoSet(s, r, d, b) == Same(s, r) /\ r.decoder = d /\ r.body = b
TwoSetTo(s, d, b) == [s EXCEPT !.decoder = d, !.body = b]

\* Only the decoder and the body are set.
LEMMA TwoSet ==
    ASSUME NEW s, IsSection(s), NEW d, NEW b
    PROVE  IsTwoSet(s, TwoSetTo(s, d, b), d, b)
<1>1. ASSUME NEW r, r = [s EXCEPT !.decoder = d, !.body = b] PROVE IsTwoSet(s, r, d, b)
  BY <1>1 DEF Same, IsSection, Fields, IsTwoSet
<1> QED BY <1>1 DEF TwoSetTo

\* Only the body is set.
LEMMA BodySet ==
    ASSUME NEW s, IsSection(s), NEW b, NEW r, r = [s EXCEPT !.body = b]
    PROVE  Same(s, r) /\ r.body = b
BY DEF Same, IsSection, Fields

\* Only the data of the file are set.
LEMMA DataSet ==
    ASSUME NEW s, IsSection(s), NEW a, NEW r, r = [s EXCEPT !.data = a]
    PROVE  Same(s, r) /\ r.data = a
BY DEF Same, IsSection, Fields

IsThreeSet(s, r, d, a) == Same(s, r) /\ r.decoder = d /\ r.data = a
ThreeSetTo(s, d, b, a) == [s EXCEPT !.decoder = d, !.body = b, !.data = a]

\* The decoder, the body and the data are set, and nothing else.
LEMMA ThreeSet ==
    ASSUME NEW s, IsSection(s), NEW d, NEW b, NEW a
    PROVE  IsThreeSet(s, ThreeSetTo(s, d, b, a), d, a)
<1>1. ASSUME NEW r, r = [s EXCEPT !.decoder = d, !.body = b, !.data = a]
      PROVE  IsThreeSet(s, r, d, a)
  BY <1>1 DEF Same, IsSection, Fields, IsThreeSet
<1> QED BY <1>1 DEF ThreeSetTo

\* What the character leaves of the section.
TextGrows(s, r, c) ==
    /\ Same(s, r)
    /\ s.decoding => /\ r.decoder = Decoded(s.encoding, s.decoder, c).decoder
                     /\ r.body = s.body \o Decoded(s.encoding, s.decoder, c).bytes
    /\ ~s.decoding => r.body = Append(s.body, c)
FileGrows(s, r, c) ==
    /\ Same(s, r)
    /\ s.open /\ s.decoding => /\ r.decoder = Decoded(s.encoding, s.decoder, c).decoder
                               /\ r.data = s.data \o Decoded(s.encoding, s.decoder, c).bytes
    /\ s.open /\ ~s.decoding => r.data = Append(s.data, c)
    /\ ~s.open => r.data = s.data

\* A character of a text goes to the body, through the decoder if there is one.
LEMMA TextAfterIs ==
    ASSUME NEW s, IsSection(s), NEW c, NEW r, r = TextAfter(s, c)
    PROVE  TextGrows(s, r, c)
<1>1. PICK d : d = Decoded(s.encoding, s.decoder, c)
  OBVIOUS
<1>2. CASE s.decoding
  <2>1. PICK b : b = s.body \o d.bytes
    OBVIOUS
  <2>2. PICK e : e = d.decoder
    OBVIOUS
  <2>3. r = [s EXCEPT !.decoder = e, !.body = b]
    BY <1>1, <1>2, <2>1, <2>2 DEF TextAfter
  <2>4. Same(s, r) /\ r.decoder = e /\ r.body = b
    <3>1. r = TwoSetTo(s, e, b)
      BY <2>3 DEF TwoSetTo
    <3> QED BY <3>1, TwoSet DEF IsTwoSet
  <2> QED BY <1>1, <1>2, <2>1, <2>2, <2>4 DEF TextGrows
<1>3. CASE ~s.decoding
  <2>1. PICK b : b = Append(s.body, c)
    OBVIOUS
  <2>3. r = [s EXCEPT !.body = b]
    BY <1>3, <2>1 DEF TextAfter
  <2>4. Same(s, r) /\ r.body = b
    BY <2>3, BodySet
  <2> QED BY <1>3, <2>1, <2>4 DEF TextGrows
<1> QED BY <1>2, <1>3

\* A character of a file goes to its data, through the decoder if there is one.
LEMMA FileAfterIs ==
    ASSUME NEW s, IsSection(s), NEW c, NEW r, r = FileAfter(s, c)
    PROVE  FileGrows(s, r, c)
<1>1. PICK d : d = Decoded(s.encoding, s.decoder, c)
  OBVIOUS
<1>2. CASE s.open /\ s.decoding
  <2>1. PICK b : b = s.body \o d.bytes
    OBVIOUS
  <2>2. PICK e : e = d.decoder
    OBVIOUS
  <2>3. PICK a : a = s.data \o d.bytes
    OBVIOUS
  <2>4. r = [s EXCEPT !.decoder = e, !.body = b, !.data = a]
    BY <1>1, <1>2, <2>1, <2>2, <2>3 DEF FileAfter
  <2>5. Same(s, r) /\ r.decoder = e /\ r.data = a
    <3>1. r = ThreeSetTo(s, e, b, a)
      BY <2>4 DEF ThreeSetTo
    <3> QED BY <3>1, ThreeSet DEF IsThreeSet
  <2> QED BY <1>1, <1>2, <2>2, <2>3, <2>5 DEF FileGrows
<1>3. CASE s.open /\ ~s.decoding
  <2>1. PICK a : a = Append(s.data, c)
    OBVIOUS
  <2>3. r = [s EXCEPT !.data = a]
    BY <1>3, <2>1 DEF FileAfter
  <2>4. Same(s, r) /\ r.data = a
    BY <2>3, DataSet
  <2> QED BY <1>3, <2>1, <2>4 DEF FileGrows
<1>4. CASE ~s.open
  <2>1. r = s
    BY <1>4 DEF FileAfter
  <2>2. Same(s, r)
    BY <2>1 DEF Same
  <2> QED BY <1>4, <2>1, <2>2 DEF FileGrows
<1> QED BY <1>2, <1>3, <1>4

\* The next byte of the body brings the section one symbol further.
LEMMA TextTaken ==
    ASSUME NEW p, IsPart(p), NEW b \in 0 .. Len(Codes(p)) - 1,
           NEW s, InBody(s, p, b), s.type = "text",
           NEW r, r = TextAfter(s, Codes(p)[b + 1])
    PROVE  InBody(r, p, b + 1)
<1>1. Complete(s, p) /\ Decodes(s, p) /\ TextBody(s, p, b)
  BY DEF InBody, FileBody
<1>2. IsSection(s) /\ s.encoding = p.encoding
  BY <1>1 DEF Complete, Coded
<1>3. TextGrows(s, r, Codes(p)[b + 1])
  BY <1>2, TextAfterIs
<1>4. Same(s, r)
  BY <1>3 DEF TextGrows
<1>5. Complete(r, p) /\ Decodes(r, p)
  BY <1>1, <1>4, SameComplete
<1>6. IsText(p) /\ ~s.open /\ Arrived(p, b, s.decoder, s.body)
  BY <1>1 DEF TextBody
<1>7. r.type = "text" /\ ~r.open
  BY <1>4, <1>6 DEF Same
<1>8. Arrived(p, b + 1, r.decoder, r.body)
  <2>1. CASE Plain(p)
    <3>1. r.body = Append(s.body, Codes(p)[b + 1])
      BY <1>1, <1>3, <2>1 DEF TextGrows, Decodes
    <3>2. Arrived(p, b + 1, r.decoder, Append(s.body, Codes(p)[b + 1]))
      BY <1>6, <2>1, PlainStep
    <3> QED BY <3>1, <3>2
  <2>2. CASE ~Plain(p)
    <3>1. PICK y : y = Decoded(p.encoding, s.decoder, Codes(p)[b + 1])
      OBVIOUS
    <3>2. r.decoder = y.decoder /\ r.body = s.body \o y.bytes
      BY <1>1, <1>2, <1>3, <2>2, <3>1 DEF TextGrows, Decodes
    <3>3. Arrived(p, b + 1, y.decoder, s.body \o y.bytes)
      BY <1>6, <2>2, <3>1, CodedStep
    <3> QED BY <3>2, <3>3
  <2> QED BY <2>1, <2>2
<1>9. TextBody(r, p, b + 1)
  BY <1>6, <1>7, <1>8 DEF TextBody
<1> QED BY <1>5, <1>9 DEF InBody

\* So it is in a file.
LEMMA FileTaken ==
    ASSUME NEW p, IsPart(p), NEW b \in 0 .. Len(Codes(p)) - 1,
           NEW s, InBody(s, p, b), s.type = "file",
           NEW r, r = FileAfter(s, Codes(p)[b + 1])
    PROVE  InBody(r, p, b + 1)
<1>1. Complete(s, p) /\ Decodes(s, p) /\ FileBody(s, p, b)
  BY DEF InBody, TextBody
<1>2. IsSection(s) /\ s.encoding = p.encoding
  BY <1>1 DEF Complete, Coded
<1>3. FileGrows(s, r, Codes(p)[b + 1])
  BY <1>2, FileAfterIs
<1>4. Same(s, r)
  BY <1>3 DEF FileGrows
<1>5. Complete(r, p) /\ Decodes(r, p)
  BY <1>1, <1>4, SameComplete
<1>6. ~IsText(p) /\ (s.open => Arrived(p, b, s.decoder, s.data)) /\ (~s.open => s.data = <<>>)
  BY <1>1 DEF FileBody
<1>7. r.type = "file" /\ r.open = s.open
  BY <1>4 DEF Same
<1>8. ASSUME s.open PROVE Arrived(p, b + 1, r.decoder, r.data)
  <2>0. Arrived(p, b, s.decoder, s.data)
    BY <1>6, <1>8
  <2>1. CASE Plain(p)
    <3>1. r.data = Append(s.data, Codes(p)[b + 1])
      BY <1>1, <1>3, <1>8, <2>1 DEF FileGrows, Decodes
    <3>2. Arrived(p, b + 1, r.decoder, Append(s.data, Codes(p)[b + 1]))
      BY <2>0, <2>1, PlainStep
    <3> QED BY <3>1, <3>2
  <2>2. CASE ~Plain(p)
    <3>1. PICK y : y = Decoded(p.encoding, s.decoder, Codes(p)[b + 1])
      OBVIOUS
    <3>2. r.decoder = y.decoder /\ r.data = s.data \o y.bytes
      BY <1>1, <1>2, <1>3, <1>8, <2>2, <3>1 DEF FileGrows, Decodes
    <3>3. Arrived(p, b + 1, y.decoder, s.data \o y.bytes)
      BY <2>0, <2>2, <3>1, CodedStep
    <3> QED BY <3>2, <3>3
  <2> QED BY <2>1, <2>2
<1>9. ASSUME ~s.open PROVE r.data = <<>>
  BY <1>3, <1>6, <1>9 DEF FileGrows
<1>10. (s.open <=> r.open)
  BY <1>7, Zenon
<1>11. FileBody(r, p, b + 1)
  <2>1. r.open => Arrived(p, b + 1, r.decoder, r.data)
    BY <1>8, <1>10
  <2>2. ~r.open => r.data = <<>>
    BY <1>9, <1>10
  <2> QED BY <1>6, <1>7, <2>1, <2>2 DEF FileBody
<1> QED BY <1>5, <1>11 DEF InBody

\* A section in a part that is received as far as this.
LEMMA InBodyHas ==
    ASSUME NEW p, IsPart(p), NEW b \in 0 .. Len(Codes(p)), NEW s, InBody(s, p, b)
    PROVE  /\ s.type \in {"text", "file"} /\ s.state = "file"
           /\ s.type = "text" => IsPrefix(s.body, p.content)
           /\ s.type = "file" => IsPrefix(s.data, p.content)
           /\ b = Len(Codes(p)) => Holds(s, p)
<1>1. Complete(s, p)
  BY DEF InBody
<1>2. s.state = "file" /\ Named(s, p) /\ Typed(s, p)
  BY <1>1 DEF Complete
<1>3. s.name = p.name /\ s.filename = p.filename /\ s.ctype = p.ctype
  BY <1>2 DEF Named, Typed
<1>4. CASE TextBody(s, p, b)
  <2>1. s.type = "text" /\ IsText(p) /\ ~s.open /\ Arrived(p, b, s.decoder, s.body)
    BY <1>4 DEF TextBody
  <2>2. IsPrefix(s.body, p.content) /\ (b = Len(Codes(p)) => s.body = p.content)
    BY <2>1, ArrivedHas
  <2>3. ASSUME b = Len(Codes(p)) PROVE Holds(s, p)
    <3>1. s.body = p.content
      BY <2>2, <2>3
    <3> QED BY <1>3, <2>1, <3>1 DEF Holds, IsText
  <2> QED BY <1>2, <2>1, <2>2, <2>3
<1>5. CASE FileBody(s, p, b)
  <2>1. s.type = "file" /\ ~IsText(p) /\ (s.open => Arrived(p, b, s.decoder, s.data))
        /\ (~s.open => s.data = <<>>)
    BY <1>5 DEF FileBody
  <2>2. s.open => IsPrefix(s.data, p.content) /\ (b = Len(Codes(p)) => s.data = p.content)
    BY <2>1, ArrivedHas
  <2>3. ASSUME b = Len(Codes(p)) PROVE Holds(s, p)
    <3>1. s.open => s.data = p.content
      BY <2>2, <2>3
    <3> QED BY <1>3, <2>1, <3>1 DEF Holds, IsText
  <2>4. IsPrefix(<<>>, p.content)
    <3>1. p.content \in Seq(Byte)
      BY PartIs
    <3>2. SubSeq(p.content, 1, 0) = <<>> /\ SubSeq(<<>>, 1, 0) = <<>>
      BY SubSeqEmpty
    <3>3. Len(p.content) \in Nat /\ Len(<<>>) = 0
      BY <3>1, LenProperties
    <3> QED BY <3>2, <3>3 DEF IsPrefix
  <2>5. IsPrefix(s.data, p.content)
    BY <2>1, <2>2, <2>4
  <2> QED BY <1>2, <2>1, <2>3, <2>5
<1> QED BY <1>4, <1>5 DEF InBody
-----------------------------------------------------------------------------
(* parse_form_data in a part: from its boundary to its last byte.            *)

\* parse_form_data between two symbols of a part p: behind the boundary,
\* in a header line, in front of the empty line, in the body.
Sync1(s, ns, hn) == Fresh(s) /\ ns = "enter_sync" /\ hn = <<>>
Sync2(s, ns, hn) == Fresh(s) /\ ns = "second_sync" /\ hn = <<>>
InName(s, p, j, ns, hn) == Heading(s, p, j) /\ ns = "name_sync" /\ hn = <<>>
HasName(s, p, j, ns, hn) ==
    Heading(s, p, j) /\ ns = "name_sync" /\ hn = <<Word(LineName(j))>>
InValue(s, p, j, ns, hn, hv) ==
    Heading(s, p, j) /\ ns = "value_sync" /\ hn = <<Word(LineName(j))>> /\ hv = <<>>
HasValue(s, p, j, ns, hn, hv) ==
    Heading(s, p, j) /\ ns = "value_sync" /\ hn = <<Word(LineName(j))>> /\ hv = <<LineValue(p, j)>>
BodyRead(s, p, b, hn) == InBody(s, p, b) /\ hn = <<>>

\* And how many symbols of the part that is.
Where(p, o, s, ns, hn, hv) ==
    \/ o = 1 /\ Sync1(s, ns, hn)
    \/ o = 2 /\ Sync2(s, ns, hn)
    \/ \E j \in 0 .. NumLines(p) : o = 3 + 5 * j /\ InName(s, p, j, ns, hn)
    \/ \E j \in 0 .. NumLines(p) - 1 : o = 4 + 5 * j /\ HasName(s, p, j, ns, hn)
    \/ \E j \in 0 .. NumLines(p) - 1 : o = 5 + 5 * j /\ InValue(s, p, j, ns, hn, hv)
    \/ \E j \in 0 .. NumLines(p) - 1 : o = 6 + 5 * j /\ HasValue(s, p, j, ns, hn, hv)
    \/ \E j \in 0 .. NumLines(p) - 1 : o = 7 + 5 * j /\ HasValue(s, p, j, ns, hn, hv)
    \/ o = 4 + 5 * NumLines(p) /\ InName(s, p, NumLines(p), ns, hn)
    \/ \E b \in 0 .. Len(Codes(p)) : o = 5 + 5 * NumLines(p) + b /\ BodyRead(s, p, b, hn)

\* Which of them it is shows in the type of the section and the state of the header.
InHead(s, ns, state) == s.type = "header" /\ ns = state
OutOfHead(s) == s.type = "text" \/ s.type = "file"

\* The state in which parse_form_data is at each of the places in a part.
LEMMA WhoIs ==
    ASSUME NEW s, NEW p, NEW ns, NEW hn, NEW hv, NEW j
    PROVE  /\ Sync1(s, ns, hn) => InHead(s, ns, "enter_sync")
           /\ Sync2(s, ns, hn) => InHead(s, ns, "second_sync")
           /\ InName(s, p, j, ns, hn) => InHead(s, ns, "name_sync")
           /\ HasName(s, p, j, ns, hn) => InHead(s, ns, "name_sync")
           /\ InValue(s, p, j, ns, hn, hv) => InHead(s, ns, "value_sync")
           /\ HasValue(s, p, j, ns, hn, hv) => InHead(s, ns, "value_sync")
           /\ BodyRead(s, p, j, hn) => OutOfHead(s)
<1>1. Fresh(s) => s.type = "header"
  BY DEF Fresh, Blank
<1>2. Heading(s, p, j) => s.type = "header"
  BY DEF Heading, Blank
<1>3. InBody(s, p, j) => OutOfHead(s)
  BY DEF InBody, TextBody, FileBody, OutOfHead
<1> QED BY <1>1, <1>2, <1>3 DEF InHead, OutOfHead, Sync1, Sync2, InName, HasName, InValue, HasValue, BodyRead

\* It is in one state at a time.
LEMMA OneState ==
    ASSUME NEW s, NEW ns
    PROVE  /\ InHead(s, ns, "enter_sync") => ~InHead(s, ns, "second_sync")
           /\ InHead(s, ns, "enter_sync") => ~InHead(s, ns, "name_sync")
           /\ InHead(s, ns, "enter_sync") => ~InHead(s, ns, "value_sync")
           /\ InHead(s, ns, "second_sync") => ~InHead(s, ns, "name_sync")
           /\ InHead(s, ns, "second_sync") => ~InHead(s, ns, "value_sync")
           /\ InHead(s, ns, "name_sync") => ~InHead(s, ns, "value_sync")
           /\ OutOfHead(s) => ~InHead(s, ns, "enter_sync")
           /\ OutOfHead(s) => ~InHead(s, ns, "second_sync")
           /\ OutOfHead(s) => ~InHead(s, ns, "name_sync")
           /\ OutOfHead(s) => ~InHead(s, ns, "value_sync")
BY DEF InHead, OutOfHead

\* In enter_sync it is behind the boundary.
LEMMA WhereEnter ==
    ASSUME NEW p, NEW o, NEW s, NEW ns, NEW hn, NEW hv, Where(p, o, s, ns, hn, hv),
           InHead(s, ns, "enter_sync")
    PROVE  o = 1 /\ Sync1(s, ns, hn)
BY WhoIs, OneState DEF Where

\* In second_sync it is one character further.
LEMMA WhereSecond ==
    ASSUME NEW p, NEW o, NEW s, NEW ns, NEW hn, NEW hv, Where(p, o, s, ns, hn, hv),
           InHead(s, ns, "second_sync")
    PROVE  o = 2 /\ Sync2(s, ns, hn)
BY WhoIs, OneState DEF Where

NameWhere(p, o, s, ns, hn) ==
    \/ \E j \in 0 .. NumLines(p) : o = 3 + 5 * j /\ InName(s, p, j, ns, hn)
    \/ \E j \in 0 .. NumLines(p) - 1 : o = 4 + 5 * j /\ HasName(s, p, j, ns, hn)
    \/ o = 4 + 5 * NumLines(p) /\ InName(s, p, NumLines(p), ns, hn)

\* In name_sync it is in the name of a line, or in the empty line.
LEMMA WhereName ==
    ASSUME NEW p, NEW o, NEW s, NEW ns, NEW hn, NEW hv, Where(p, o, s, ns, hn, hv),
           InHead(s, ns, "name_sync")
    PROVE  NameWhere(p, o, s, ns, hn)
BY WhoIs, OneState DEF Where, NameWhere

ValueWhere(p, o, s, ns, hn, hv) ==
    \/ \E j \in 0 .. NumLines(p) - 1 : o = 5 + 5 * j /\ InValue(s, p, j, ns, hn, hv)
    \/ \E j \in 0 .. NumLines(p) - 1 : o = 6 + 5 * j /\ HasValue(s, p, j, ns, hn, hv)
    \/ \E j \in 0 .. NumLines(p) - 1 : o = 7 + 5 * j /\ HasValue(s, p, j, ns, hn, hv)

\* In value_sync it is in the value of a line.
LEMMA WhereValue ==
    ASSUME NEW p, NEW o, NEW s, NEW ns, NEW hn, NEW hv, Where(p, o, s, ns, hn, hv),
           InHead(s, ns, "value_sync")
    PROVE  ValueWhere(p, o, s, ns, hn, hv)
BY WhoIs, OneState DEF Where, ValueWhere

BodyWhere(p, o, s, hn) ==
    \E b \in 0 .. Len(Codes(p)) : o = 5 + 5 * NumLines(p) + b /\ BodyRead(s, p, b, hn)

\* With a section of text or file it is in the body.
LEMMA WhereBody ==
    ASSUME NEW p, NEW o, NEW s, NEW ns, NEW hn, NEW hv, Where(p, o, s, ns, hn, hv), OutOfHead(s)
    PROVE  BodyWhere(p, o, s, hn)
BY WhoIs, OneState DEF Where, BodyWhere

\* In a part the section is a header, text or file.
LEMMA WhereType ==
    ASSUME NEW p, NEW o, NEW s, NEW ns, NEW hn, NEW hv, Where(p, o, s, ns, hn, hv)
    PROVE  s.type = "header" \/ OutOfHead(s)
<1>1. OutOfHead(s) \/ \E t : InHead(s, ns, t)
  BY WhoIs DEF Where
<1> QED BY <1>1 DEF InHead

\* The symbols of a part, by their places.
SymbolsOf(X, p, n) ==
    /\ n \in 1 .. 3 /\ X[2] = Return /\ X[3] = NewLine
    /\ \A j \in 0 .. n - 1 :
          /\ X[4 + 5 * j] = Word(LineName(j)) /\ X[5 + 5 * j] = Colon
          /\ X[6 + 5 * j] = LineValue(p, j)
          /\ X[7 + 5 * j] = Return /\ X[8 + 5 * j] = NewLine
    /\ X[4 + 5 * n] = Return /\ X[5 + 5 * n] = NewLine
    /\ \A b \in 0 .. Len(Codes(p)) - 1 : X[6 + 5 * n + b] = Ch(Codes(p)[b + 1])
    /\ Len(Codes(p)) \in Nat /\ Len(X) = 5 + 5 * n + Len(Codes(p))

\* The symbols of a part, place by place.
LEMMA SymbolAt ==
    ASSUME NEW p, IsPart(p), NEW X, IsPartSent(X, p)
    PROVE  SymbolsOf(X, p, NumLines(p))
<1>1. PICK n : n = NumLines(p)
  OBVIOUS
<1>2. n \in 1 .. 3 /\ Codes(p) \in Seq(Byte)
  BY <1>1, PartIs
<1>3. Len(Codes(p)) \in Nat
  BY <1>2, LenProperties
<1>4. HeadLen(p) = 5 + 5 * n
  BY <1>1 DEF HeadLen
<1>5. /\ Len(X) = HeadLen(p) + Len(Codes(p)) /\ X[2] = Return /\ X[3] = NewLine
      /\ \A j \in 0 .. n - 1 : IsLine(X, 3 + 5 * j, LineName(j), LineValue(p, j))
      /\ X[HeadLen(p) - 1] = Return /\ X[HeadLen(p)] = NewLine
      /\ \A b \in 1 .. Len(Codes(p)) : X[HeadLen(p) + b] = Ch(Codes(p)[b])
  BY <1>1 DEF IsPartSent
<1>6. HeadLen(p) - 1 = 4 + 5 * n
  BY <1>2, <1>4
<1>7. ASSUME NEW j \in 0 .. n - 1
      PROVE  /\ X[4 + 5 * j] = Word(LineName(j)) /\ X[5 + 5 * j] = Colon
             /\ X[6 + 5 * j] = LineValue(p, j)
             /\ X[7 + 5 * j] = Return /\ X[8 + 5 * j] = NewLine
  <2>1. /\ (3 + 5 * j) + 1 = 4 + 5 * j /\ (3 + 5 * j) + 2 = 5 + 5 * j
        /\ (3 + 5 * j) + 3 = 6 + 5 * j /\ (3 + 5 * j) + 4 = 7 + 5 * j
        /\ (3 + 5 * j) + 5 = 8 + 5 * j
    BY <1>2
  <2>2. IsLine(X, 3 + 5 * j, LineName(j), LineValue(p, j))
    BY <1>5
  <2> QED BY <2>1, <2>2 DEF IsLine
<1>8. ASSUME NEW b \in 0 .. Len(Codes(p)) - 1
      PROVE  X[6 + 5 * n + b] = Ch(Codes(p)[b + 1])
  <2>1. b + 1 \in 1 .. Len(Codes(p)) /\ HeadLen(p) + (b + 1) = 6 + 5 * n + b
    BY <1>2, <1>3, <1>4
  <2>2. X[HeadLen(p) + (b + 1)] = Ch(Codes(p)[b + 1])
    BY <1>5, <2>1
  <2> QED BY <2>1, <2>2
<1>9. SymbolsOf(X, p, n)
  BY <1>2, <1>3, <1>4, <1>5, <1>6, <1>7, <1>8 DEF SymbolsOf
<1> QED BY <1>1, <1>9

\* The names and values of the lines are no characters.
LEMMA WordsAre ==
    ASSUME NEW p, NEW j
    PROVE  /\ Word(LineName(j)) # Bound /\ Word(LineName(j)) # Return
           /\ Word(LineName(j)) # NewLine /\ Word(LineName(j)) # Colon
           /\ LineValue(p, j) # Bound /\ LineValue(p, j) # Return /\ LineValue(p, j) # NewLine
<1>1. \/ LineValue(p, j) = Disposition(p.name, p.filename)
      \/ LineValue(p, j) = Word(p.ctype) \/ LineValue(p, j) = Word(p.encoding)
  BY DEF LineValue
<1> QED BY <1>1, SymbolsDiffer

\* A character of a header name, of a header value.
NameTaken(c, ns, hn, hv, ns2, hn2, hv2) ==
    /\ c # NewLine
    /\ CASE c = Return -> ns2 = ns /\ hn2 = hn /\ hv2 = hv
         [] c = Colon -> ns2 = "value_sync" /\ hv2 = <<>> /\ hn2 = hn
         [] OTHER -> hn2 = Append(hn, c) /\ ns2 = ns /\ hv2 = hv
ValueTaken(c, hv, hv2) ==
    /\ c # NewLine
    /\ hv2 = IF c = Return THEN hv ELSE Append(hv, c)

\* From one character of a name to the next, and to the value.
LEMMA NameSteps ==
    ASSUME NEW p, IsPart(p), NEW X, IsPartSent(X, p), NEW o, NEW s, NEW ns, NEW hn, NEW hv,
           NameWhere(p, o, s, ns, hn), NEW ns2, NEW hn2, NEW hv2,
           NameTaken(X[o + 1], ns, hn, hv, ns2, hn2, hv2)
    PROVE  Where(p, o + 1, s, ns2, hn2, hv2)
<1>1. PICK n : n = NumLines(p)
  OBVIOUS
<1>2. SymbolsOf(X, p, n)
  BY <1>1, SymbolAt
<1>3. n \in 1 .. 3
  BY <1>2 DEF SymbolsOf
<1>4. ASSUME NEW j \in 0 .. n - 1, o = 3 + 5 * j, InName(s, p, j, ns, hn)
      PROVE  Where(p, o + 1, s, ns2, hn2, hv2)
  <2>1. o + 1 = 4 + 5 * j
    BY <1>3, <1>4
  <2>2. X[o + 1] = Word(LineName(j))
    BY <1>2, <2>1 DEF SymbolsOf
  <2>3. hn2 = Append(hn, X[o + 1]) /\ ns2 = ns
    BY <2>2, WordsAre DEF NameTaken
  <2>4. Heading(s, p, j) /\ ns = "name_sync" /\ hn = <<>>
    BY <1>4 DEF InName
  <2>5. hn2 = <<Word(LineName(j))>>
    BY <2>2, <2>3, <2>4
  <2>6. HasName(s, p, j, ns2, hn2)
    BY <2>3, <2>4, <2>5 DEF HasName
  <2> QED BY <1>1, <2>1, <2>6 DEF Where
<1>5. ASSUME NEW j \in 0 .. n - 1, o = 4 + 5 * j, HasName(s, p, j, ns, hn)
      PROVE  Where(p, o + 1, s, ns2, hn2, hv2)
  <2>1. o + 1 = 5 + 5 * j
    BY <1>3, <1>5
  <2>2. X[o + 1] = Colon
    BY <1>2, <2>1 DEF SymbolsOf
  <2>3. hn2 = hn /\ ns2 = "value_sync" /\ hv2 = <<>>
    BY <2>2, SymbolsDiffer DEF NameTaken
  <2>6. InValue(s, p, j, ns2, hn2, hv2)
    BY <1>5, <2>3 DEF HasName, InValue
  <2> QED BY <1>1, <2>1, <2>6 DEF Where
<1>6. ASSUME o = 3 + 5 * n, InName(s, p, n, ns, hn)
      PROVE  Where(p, o + 1, s, ns2, hn2, hv2)
  <2>1. o + 1 = 4 + 5 * n
    BY <1>3, <1>6
  <2>2. X[o + 1] = Return
    BY <1>2, <2>1 DEF SymbolsOf
  <2>3. hn2 = hn /\ ns2 = ns
    BY <2>2, SymbolsDiffer DEF NameTaken
  <2>6. InName(s, p, n, ns2, hn2)
    BY <1>6, <2>3
  <2> QED BY <1>1, <2>1, <2>6 DEF Where
<1>7. ~(o = 4 + 5 * n)
  <2> SUFFICES ASSUME o = 4 + 5 * n PROVE FALSE
    OBVIOUS
  <2>1. o + 1 = 5 + 5 * n
    BY <1>3
  <2>2. X[o + 1] = NewLine
    BY <1>2, <2>1 DEF SymbolsOf
  <2> QED BY <2>2 DEF NameTaken
<1>8. \A j \in 0 .. n : j \in 0 .. n - 1 \/ j = n
  BY <1>3
<1>9. \/ \E j \in 0 .. n : o = 3 + 5 * j /\ InName(s, p, j, ns, hn)
      \/ \E j \in 0 .. n - 1 : o = 4 + 5 * j /\ HasName(s, p, j, ns, hn)
  BY <1>1, <1>7 DEF NameWhere
<1>10. CASE \E j \in 0 .. n : o = 3 + 5 * j /\ InName(s, p, j, ns, hn)
  <2>1. PICK j \in 0 .. n : o = 3 + 5 * j /\ InName(s, p, j, ns, hn)
    BY <1>10
  <2>2. CASE j \in 0 .. n - 1
    BY <1>4, <2>1, <2>2
  <2>3. CASE j = n
    BY <1>6, <2>1, <2>3
  <2> QED BY <1>8, <2>2, <2>3
<1>11. CASE \E j \in 0 .. n - 1 : o = 4 + 5 * j /\ HasName(s, p, j, ns, hn)
  BY <1>5, <1>11
<1> QED BY <1>9, <1>10, <1>11

\* From one character of a value to the next.
LEMMA ValueSteps ==
    ASSUME NEW p, IsPart(p), NEW X, IsPartSent(X, p), NEW o, NEW s, NEW ns, NEW hn, NEW hv,
           ValueWhere(p, o, s, ns, hn, hv), NEW hv2, ValueTaken(X[o + 1], hv, hv2)
    PROVE  Where(p, o + 1, s, ns, hn, hv2)
<1>1. PICK n : n = NumLines(p)
  OBVIOUS
<1>2. SymbolsOf(X, p, n)
  BY <1>1, SymbolAt
<1>3. n \in 1 .. 3
  BY <1>2 DEF SymbolsOf
<1>4. ASSUME NEW j \in 0 .. n - 1, o = 5 + 5 * j, InValue(s, p, j, ns, hn, hv)
      PROVE  Where(p, o + 1, s, ns, hn, hv2)
  <2>1. o + 1 = 6 + 5 * j
    BY <1>3, <1>4
  <2>2. X[o + 1] = LineValue(p, j)
    BY <1>2, <2>1 DEF SymbolsOf
  <2>3. hv2 = Append(hv, X[o + 1])
    BY <2>2, WordsAre DEF ValueTaken
  <2>4. hv2 = <<LineValue(p, j)>>
    BY <1>4, <2>2, <2>3 DEF InValue
  <2>6. HasValue(s, p, j, ns, hn, hv2)
    BY <1>4, <2>4 DEF InValue, HasValue
  <2> QED BY <1>1, <2>1, <2>6 DEF Where
<1>5. ASSUME NEW j \in 0 .. n - 1, o = 6 + 5 * j, HasValue(s, p, j, ns, hn, hv)
      PROVE  Where(p, o + 1, s, ns, hn, hv2)
  <2>1. o + 1 = 7 + 5 * j
    BY <1>3, <1>5
  <2>2. X[o + 1] = Return
    BY <1>2, <2>1 DEF SymbolsOf
  <2>3. hv2 = hv
    BY <2>2 DEF ValueTaken
  <2> QED BY <1>1, <1>5, <2>1, <2>3 DEF Where
<1>6. ASSUME NEW j \in 0 .. n - 1, o = 7 + 5 * j PROVE FALSE
  <2>1. o + 1 = 8 + 5 * j
    BY <1>3, <1>6
  <2>2. X[o + 1] = NewLine
    BY <1>2, <2>1 DEF SymbolsOf
  <2> QED BY <2>2 DEF ValueTaken
<1> QED BY <1>1, <1>4, <1>5, <1>6 DEF ValueWhere

\* From the end of a line to the next line.
LEMMA LineSteps ==
    ASSUME NEW p, IsPart(p), NEW X, IsPartSent(X, p), NEW o, NEW s, NEW ns, NEW hn, NEW hv,
           ValueWhere(p, o, s, ns, hn, hv), X[o + 1] = NewLine
    PROVE  Where(p, o + 1, AfterLine(s, hn, hv), "name_sync", <<>>, hv)
<1>1. PICK n : n = NumLines(p)
  OBVIOUS
<1>2. SymbolsOf(X, p, n)
  BY <1>1, SymbolAt
<1>3. n \in 1 .. 3
  BY <1>2 DEF SymbolsOf
<1>4. ASSUME NEW j \in 0 .. n - 1, o = 5 + 5 * j PROVE FALSE
  <2>1. o + 1 = 6 + 5 * j
    BY <1>3, <1>4
  <2>2. X[o + 1] = LineValue(p, j)
    BY <1>2, <2>1 DEF SymbolsOf
  <2> QED BY <2>2, WordsAre
<1>5. ASSUME NEW j \in 0 .. n - 1, o = 6 + 5 * j PROVE FALSE
  <2>1. o + 1 = 7 + 5 * j
    BY <1>3, <1>5
  <2>2. X[o + 1] = Return
    BY <1>2, <2>1 DEF SymbolsOf
  <2> QED BY <2>2, SymbolsDiffer
<1>6. ASSUME NEW j \in 0 .. n - 1, o = 7 + 5 * j, HasValue(s, p, j, ns, hn, hv)
      PROVE  Where(p, o + 1, AfterLine(s, hn, hv), "name_sync", <<>>, hv)
  <2>1. j + 1 \in 0 .. n /\ o + 1 = 3 + 5 * (j + 1) /\ j \in 0 .. 2
    BY <1>3, <1>6
  <2>2. PICK r : r = AfterLine(s, hn, hv)
    OBVIOUS
  <2>3. Heading(s, p, j) /\ hn = <<Word(LineName(j))>> /\ hv = <<LineValue(p, j)>>
    BY <1>6 DEF HasValue
  <2>4. Heading(r, p, j + 1)
    BY <2>1, <2>2, <2>3, LineBrings
  <2>5. InName(r, p, j + 1, "name_sync", <<>>)
    BY <2>4 DEF InName
  <2>6. \E i \in 0 .. NumLines(p) : o + 1 = 3 + 5 * i /\ InName(r, p, i, "name_sync", <<>>)
    BY <1>1, <2>1, <2>5
  <2> QED BY <2>2, <2>6 DEF Where
<1> QED BY <1>1, <1>4, <1>5, <1>6 DEF ValueWhere

\* From the empty line to the body.
LEMMA EmptyLineSteps ==
    ASSUME NEW p, IsPart(p), IsKnown(p), NEW X, IsPartSent(X, p), NEW o, NEW s, NEW ns, NEW hn,
           NameWhere(p, o, s, ns, hn), X[o + 1] = NewLine, NEW opens, NEW hv
    PROVE  Where(p, o + 1, Created(s, opens), ns, hn, hv)
<1>1. PICK n : n = NumLines(p)
  OBVIOUS
<1>2. SymbolsOf(X, p, n)
  BY <1>1, SymbolAt
<1>3. n \in 1 .. 3 /\ Len(Codes(p)) \in Nat
  BY <1>2 DEF SymbolsOf
<1>4. ASSUME NEW j \in 0 .. n - 1, o = 3 + 5 * j PROVE FALSE
  <2>1. o + 1 = 4 + 5 * j
    BY <1>3, <1>4
  <2>2. X[o + 1] = Word(LineName(j))
    BY <1>2, <2>1 DEF SymbolsOf
  <2> QED BY <2>2, WordsAre
<1>5. ASSUME NEW j \in 0 .. n - 1, o = 4 + 5 * j PROVE FALSE
  <2>1. o + 1 = 5 + 5 * j
    BY <1>3, <1>5
  <2>2. X[o + 1] = Colon
    BY <1>2, <2>1 DEF SymbolsOf
  <2> QED BY <2>2, SymbolsDiffer
<1>6. ASSUME o = 3 + 5 * n PROVE FALSE
  <2>1. o + 1 = 4 + 5 * n
    BY <1>3, <1>6
  <2>2. X[o + 1] = Return
    BY <1>2, <2>1 DEF SymbolsOf
  <2> QED BY <2>2, SymbolsDiffer
<1>7. \A j \in 0 .. n : j \in 0 .. n - 1 \/ j = n
  BY <1>3
<1>8. o = 4 + 5 * n /\ InName(s, p, n, ns, hn)
  BY <1>1, <1>4, <1>5, <1>6, <1>7 DEF NameWhere
<1>9. Heading(s, p, NumLines(p)) /\ hn = <<>>
  BY <1>1, <1>8 DEF InName
<1>10. InBody(Created(s, opens), p, 0)
  BY <1>9, HeadingEnds
<1>11. BodyRead(Created(s, opens), p, 0, hn)
  BY <1>9, <1>10 DEF BodyRead
<1>12. o + 1 = 5 + 5 * n + 0 /\ 0 \in 0 .. Len(Codes(p))
  BY <1>3, <1>8
<1> QED BY <1>1, <1>11, <1>12 DEF Where

\* From one character of the body to the next.
LEMMA BodySteps ==
    ASSUME NEW p, IsPart(p), NEW X, IsPartSent(X, p), NEW o, NEW s, NEW hn,
           BodyWhere(p, o, s, hn), o < Len(X), NEW ns, NEW hv
    PROVE  /\ s.type = "text" => Where(p, o + 1, TextAfter(s, X[o + 1].code), ns, hn, hv)
           /\ s.type = "file" => Where(p, o + 1, FileAfter(s, X[o + 1].code), ns, hn, hv)
<1>1. PICK n : n = NumLines(p)
  OBVIOUS
<1>2. SymbolsOf(X, p, n)
  BY <1>1, SymbolAt
<1>3. n \in 1 .. 3 /\ Len(Codes(p)) \in Nat /\ Len(X) = 5 + 5 * n + Len(Codes(p))
  BY <1>2 DEF SymbolsOf
<1>4. PICK b \in 0 .. Len(Codes(p)) : o = 5 + 5 * n + b /\ BodyRead(s, p, b, hn)
  BY <1>1 DEF BodyWhere
<1>5. b \in 0 .. Len(Codes(p)) - 1 /\ o + 1 = 6 + 5 * n + b /\ b + 1 \in 0 .. Len(Codes(p))
      /\ o + 1 = 5 + 5 * n + (b + 1) /\ b + 1 \in 1 .. Len(Codes(p))
  BY <1>3, <1>4
<1>6. X[o + 1] = Ch(Codes(p)[b + 1])
  BY <1>2, <1>5 DEF SymbolsOf
<1>7. Codes(p)[b + 1] \in Byte
  BY <1>5, PartIs, ElementOfSeq
<1>8. X[o + 1].code = Codes(p)[b + 1]
  BY <1>6, <1>7, SymbolsDiffer
<1>9. InBody(s, p, b) /\ hn = <<>>
  BY <1>4 DEF BodyRead
<1>10. ASSUME NEW r, InBody(r, p, b + 1) PROVE Where(p, o + 1, r, ns, hn, hv)
  <2>1. BodyRead(r, p, b + 1, hn)
    BY <1>9, <1>10 DEF BodyRead
  <2>2. \E a \in 0 .. Len(Codes(p)) : o + 1 = 5 + 5 * NumLines(p) + a /\ BodyRead(r, p, a, hn)
    BY <1>1, <1>5, <2>1
  <2> QED BY <2>2 DEF Where
<1>11. ASSUME s.type = "text" PROVE InBody(TextAfter(s, X[o + 1].code), p, b + 1)
  BY <1>5, <1>8, <1>9, <1>11, TextTaken
<1>12. ASSUME s.type = "file" PROVE InBody(FileAfter(s, X[o + 1].code), p, b + 1)
  BY <1>5, <1>8, <1>9, <1>12, FileTaken
<1> QED BY <1>10, <1>11, <1>12

\* At its end the part is in its section.
LEMMA PartEnds ==
    ASSUME NEW p, IsPart(p), NEW X, IsPartSent(X, p), NEW s, NEW ns, NEW hn, NEW hv,
           Where(p, Len(X), s, ns, hn, hv)
    PROVE  OutOfHead(s) /\ Holds(s, p) /\ hn = <<>> /\ s.state = "file"
<1>1. PICK n : n = NumLines(p)
  OBVIOUS
<1>2. SymbolsOf(X, p, n)
  BY <1>1, SymbolAt
<1>3. n \in 1 .. 3 /\ Len(Codes(p)) \in Nat /\ Len(X) = 5 + 5 * n + Len(Codes(p))
  BY <1>2 DEF SymbolsOf
<1>4. PICK o : o = Len(X)
  OBVIOUS
<1>5. /\ o # 1 /\ o # 2 /\ o # 4 + 5 * n
      /\ \A j \in 0 .. n : o # 3 + 5 * j
      /\ \A j \in 0 .. n - 1 : o # 4 + 5 * j /\ o # 5 + 5 * j /\ o # 6 + 5 * j /\ o # 7 + 5 * j
  BY <1>3, <1>4
<1>6. PICK b \in 0 .. Len(Codes(p)) : o = 5 + 5 * n + b /\ BodyRead(s, p, b, hn)
  BY <1>1, <1>4, <1>5 DEF Where
<1>7. b = Len(Codes(p))
  BY <1>3, <1>4, <1>6
<1>8. InBody(s, p, b) /\ hn = <<>>
  BY <1>6 DEF BodyRead
<1>9. Holds(s, p) /\ s.type \in {"text", "file"} /\ s.state = "file"
  BY <1>7, <1>8, InBodyHas
<1> QED BY <1>8, <1>9 DEF OutOfHead
-----------------------------------------------------------------------------
(* parse_form_data in a form.                                                *)

\* What the next symbol can be, and where it leads.
AtBound(f, s, k, o) ==
    /\ Head(s) = Bound /\ IsAt(f, Tail(s), k + 1, 1)
    /\ k \in 1 .. Len(f) /\ o = Len(PiecesOf(f)[k]) /\ o # 1 /\ o # 2
AtChar(f, s, k, o) ==
    /\ Head(s) # Bound /\ Head(s) = PiecesOf(f)[k][o + 1] /\ IsAt(f, Tail(s), k, o + 1)
    /\ o < Len(PiecesOf(f)[k])
    /\ o = 1 => Head(s) = Return \/ Head(s) = Dash
    /\ o = 2 => Head(s) = NewLine \/ Head(s) = Dash

\* In a form that is not at its end the next symbol is a boundary or a character of a
\* piece.
LEMMA Moves ==
    ASSUME NEW f, IsForm(f), NEW s, s # <<>>, NEW k, NEW o, IsAt(f, s, k, o)
    PROVE  AtBound(f, s, k, o) \/ AtChar(f, s, k, o)
<1>1. PICK X : X = PiecesOf(f)[k]
  OBVIOUS
<1>2. /\ k \in 1 .. Len(f) + 1 /\ o \in 1 .. Len(X)
  BY <1>1 DEF IsAt
<1>3. IsPiece(X) /\ Len(f) \in Nat
  BY <1>1, <1>2, PiecesOfForm
<1>4. /\ Len(X) \in Nat /\ Len(X) >= 5
      /\ \A i \in 2 .. Len(X) : X[i] # Bound
      /\ X[2] \in {Return, Dash} /\ X[3] \in {NewLine, Dash}
  BY <1>3 DEF IsPiece
<1>5. \/ o < Len(X) /\ Head(s) = X[o + 1] /\ IsAt(f, Tail(s), k, o + 1)
      \/ o = Len(X) /\ k <= Len(f) /\ Head(s) = Bound /\ IsAt(f, Tail(s), k + 1, 1)
  BY <1>1, AtNext
<1>6. CASE o < Len(X) /\ Head(s) = X[o + 1] /\ IsAt(f, Tail(s), k, o + 1)
  <2>1. o + 1 \in 2 .. Len(X) /\ (o = 1 => o + 1 = 2) /\ (o = 2 => o + 1 = 3)
    BY <1>2, <1>4, <1>6
  <2>2. Head(s) # Bound
    BY <1>4, <1>6, <2>1
  <2>3. o = 1 => Head(s) = Return \/ Head(s) = Dash
    BY <1>4, <1>6, <2>1
  <2>4. o = 2 => Head(s) = NewLine \/ Head(s) = Dash
    BY <1>4, <1>6, <2>1
  <2> QED BY <1>1, <1>6, <2>2, <2>3, <2>4 DEF AtChar
<1>7. CASE o = Len(X) /\ k <= Len(f) /\ Head(s) = Bound /\ IsAt(f, Tail(s), k + 1, 1)
  <2>1. k \in 1 .. Len(f) /\ o # 1 /\ o # 2
    BY <1>2, <1>3, <1>4, <1>7
  <2> QED BY <1>1, <1>7, <2>1 DEF AtBound
<1> QED BY <1>5, <1>6, <1>7

\* In front of the first boundary.
Ahead(f, s) == s = FormSent(f) \/ s = <<Ch(80)>> \o FormSent(f)

\* In front of the form it is a character of the preamble or the first boundary.
LEMMA FrontMoves ==
    ASSUME NEW f, IsForm(f), NEW s, Ahead(f, s)
    PROVE  /\ s # <<>> /\ Bounds(s) = Len(f) + 1 /\ Len(f) \in Nat
           /\ \/ Head(s) = Bound /\ IsAt(f, Tail(s), 1, 1)
              \/ Head(s) # Bound /\ Ahead(f, Tail(s))
<1>1. Len(f) \in Nat
  BY FormHas
<1>2. CASE s = FormSent(f)
  BY <1>1, <1>2, AtFirst
<1>3. CASE s = <<Ch(80)>> \o FormSent(f)
  <2>1. /\ s # <<>> /\ Head(s) = Ch(80) /\ Tail(s) = FormSent(f) /\ Ch(80) # Bound
        /\ Bounds(s) = Len(f) + 1
    BY <1>3, Preamble
  <2> QED BY <1>1, <2>1 DEF Ahead
<1> QED BY <1>2, <1>3 DEF Ahead

\* Whatever the parts are, parse_form_data waits for the rest of a boundary only
\* right behind it.
Awake(sec, ns, o) ==
    /\ IsSection(sec) /\ sec.type # "sync"
    /\ InHead(sec, ns, "enter_sync") => o = 1
    /\ InHead(sec, ns, "second_sync") => o = 2
Loose(f, s, sec, ns) ==
    \/ Ahead(f, s) /\ sec = NewSection("sync")
    \/ \E k, o : IsAt(f, s, k, o) /\ Awake(sec, ns, o)

\* What parse_form_data has of a form whose types it knows: the parts before, and
\* the part in work.
Stored(obj, f, m) ==
    obj \in Seq(Range(obj)) /\ Len(obj) = m /\ \A i \in 1 .. m : Holds(obj[i], f[i])
Kept(obj, f, k) == Stored(obj, f, k - 1)
Spot(f, k, o, sec, ns, hn, hv) ==
    \/ k \in 1 .. Len(f) /\ Where(f[k], o, sec, ns, hn, hv)
    \/ o = 1 /\ Sync1(sec, ns, hn)
    \/ o = 2 /\ Sync2(sec, ns, hn)
Ready(f, s, obj, sec, ns, hn, hv) ==
    \/ Ahead(f, s) /\ sec = NewSection("sync") /\ obj = <<>>
    \/ \E k, o : IsAt(f, s, k, o) /\ Kept(obj, f, k) /\ Spot(f, k, o, sec, ns, hn, hv)

\* At the first part nothing is kept yet.
LEMMA NothingStored ==
    ASSUME NEW f
    PROVE  Kept(<<>>, f, 1)
BY DEF Kept, Stored

\* A section that holds its part is one more that is kept.
LEMMA StoresOne ==
    ASSUME NEW obj, NEW f, NEW k \in Nat, k # 0, Kept(obj, f, k), NEW sec, Holds(sec, f[k])
    PROVE  Kept(Append(obj, sec), f, k + 1)
<1>0. Stored(obj, f, k - 1)
  BY DEF Kept
<1>1. obj \in Seq(Range(obj)) /\ Len(obj) = k - 1
  BY <1>0 DEF Stored
<1> DEFINE S == Range(obj) \cup {sec}
           r == Append(obj, sec)
<1>2. obj \in Seq(S) /\ sec \in S
  BY <1>1, SeqMonotonic
<1>3. /\ r \in Seq(S) /\ Len(r) = Len(obj) + 1
      /\ \A i \in 1 .. Len(obj) : r[i] = obj[i]
      /\ r[Len(obj) + 1] = sec
  BY <1>2, AppendProperties
<1>4. r \in Seq(Range(r))
  BY <1>3, SeqOfRange
<1>5. Len(r) = (k + 1) - 1 /\ r[k] = sec
  BY <1>1, <1>3
<1> HIDE DEF r
<1>6. \A i \in 1 .. (k + 1) - 1 : Holds(r[i], f[i])
  <2> SUFFICES ASSUME NEW i \in 1 .. (k + 1) - 1 PROVE Holds(r[i], f[i])
    OBVIOUS
  <2>1. CASE i = k
    BY <1>5, <2>1
  <2>2. CASE i # k
    <3>1. i \in 1 .. k - 1 /\ i \in 1 .. Len(obj)
      BY <1>1, <2>2
    <3>2. r[i] = obj[i] /\ Holds(obj[i], f[i])
      BY <1>0, <1>3, <3>1 DEF Stored
    <3> QED BY <3>2
  <2> QED BY <2>1, <2>2
<1>7. Stored(r, f, (k + 1) - 1)
  BY <1>4, <1>5, <1>6 DEF Stored
<1>8. Kept(r, f, k + 1)
  BY <1>7 DEF Kept
<1> QED BY <1>8 DEF r
-----------------------------------------------------------------------------
(* No form brings parse_form_data to a sync error.                           *)

\* The form comes from the browser.
LEMMA FormsAre ==
    ASSUME form \in Forms
    PROVE  IsForm(form)
BY MultipartFormAssumption DEF IsForm

\* Until the first boundary parse_form_data waits for it.
LEMMA LooseSync ==
    ASSUME NEW f, IsForm(f), NEW s, NEW sec, NEW ns, Loose(f, s, sec, ns), sec.type = "sync"
    PROVE  /\ sec = NewSection("sync") /\ Ahead(f, s)
           /\ \/ Head(s) = Bound /\ IsAt(f, Tail(s), 1, 1)
              \/ Head(s) # Bound /\ Ahead(f, Tail(s))
<1>1. Ahead(f, s) /\ sec = NewSection("sync")
  BY DEF Loose, Awake
<1> QED BY <1>1, FrontMoves

\* Behind it there is a place in the form at which it is awake.
LEMMA LooseAwake ==
    ASSUME NEW f, IsForm(f), NEW s, s # <<>>, NEW sec, NEW ns, Loose(f, s, sec, ns),
           sec.type # "sync"
    PROVE  \E k, o : Awake(sec, ns, o) /\ (AtBound(f, s, k, o) \/ AtChar(f, s, k, o))
<1>1. NewSection("sync").type = "sync"
  BY NewIsSection
<1>2. PICK k, o : IsAt(f, s, k, o) /\ Awake(sec, ns, o)
  BY <1>1 DEF Loose
<1>3. AtBound(f, s, k, o) \/ AtChar(f, s, k, o)
  BY <1>2, Moves
<1> QED BY <1>2, <1>3

\* Once it is awake, parse_form_data stays so.
StaysAwake(f, s, sec, ns) == \E k, o : IsAt(f, s, k, o) /\ Awake(sec, ns, o)

\* Awake is all the invariant asks for.
LEMMA StaysLoose ==
    ASSUME NEW f, NEW s, NEW sec, NEW ns, StaysAwake(f, s, sec, ns)
    PROVE  Loose(f, s, sec, ns)
BY DEF StaysAwake, Loose

\* It stays awake at a boundary, but in second_sync.
LEMMA AtBoundAwake ==
    ASSUME NEW f, NEW s, NEW k, NEW o, AtBound(f, s, k, o), NEW sec, NEW ns,
           IsSection(sec), sec.type # "sync", ~InHead(sec, ns, "second_sync")
    PROVE  StaysAwake(f, Tail(s), sec, ns)
<1>1. Awake(sec, ns, 1)
  BY DEF Awake
<1> QED BY <1>1 DEF AtBound, StaysAwake

\* It stays awake at a character that does not stand behind the boundary.
LEMMA AtCharAwake ==
    ASSUME NEW f, NEW s, NEW k, NEW o, AtChar(f, s, k, o), NEW sec, NEW ns,
           IsSection(sec), sec.type # "sync", ~InHead(sec, ns, "enter_sync"),
           InHead(sec, ns, "second_sync") => o + 1 = 2
    PROVE  StaysAwake(f, Tail(s), sec, ns)
<1>1. Awake(sec, ns, o + 1)
  BY DEF Awake
<1> QED BY <1>1 DEF AtChar, StaysAwake

\* The invariant of one turn, for every form.
Reads == form \in Forms /\ outcome = "reading" /\ Loose(form, input, section, nameState)
ReadsOn == outcome' # "thrown" /\ (outcome' = "reading" => Loose(form', input', section', nameState'))

\* No sync error: the first boundary begins a section.
LEMMA LooseStartsForm == ASSUME Reads, StartsForm PROVE ReadsOn
<1>1. IsForm(form) /\ Loose(form, input, section, nameState) /\ outcome = "reading"
  BY FormsAre DEF Reads
<1>2. /\ section.type = "sync" /\ Head(input) = Bound /\ input' = Tail(input) /\ form' = form
      /\ section' = [section EXCEPT !.type = "header"] /\ nameState' = "enter_sync"
      /\ outcome' = outcome
  BY DEF StartsForm, Taken, Goes
<1>3. section = NewSection("sync") /\ IsAt(form, Tail(input), 1, 1)
  BY <1>1, <1>2, LooseSync
<1>4. Fresh(section')
  BY <1>2, <1>3, HeaderBegins
<1>5. IsSection(section') /\ section'.type = "header"
  BY <1>4 DEF Fresh, Blank
<1>6. Awake(section', nameState', 1)
  BY <1>2, <1>5 DEF Awake, InHead
<1>7. StaysAwake(form', input', section', nameState')
  BY <1>2, <1>3, <1>6 DEF StaysAwake
<1> QED BY <1>1, <1>2, <1>7, StaysLoose DEF ReadsOn

\* No sync error: a character of the preamble is passed over.
LEMMA LooseSkip == ASSUME Reads, NEW c, Skip(c) PROVE ReadsOn
<1>1. IsForm(form) /\ Loose(form, input, section, nameState) /\ outcome = "reading"
  BY FormsAre DEF Reads
<1>2. /\ section.type = "sync" /\ Head(input) # Bound /\ input' = Tail(input) /\ form' = form
      /\ section' = section /\ outcome' = outcome
  BY DEF Skip, Taken
<1>3. section = NewSection("sync") /\ Ahead(form, Tail(input))
  BY <1>1, <1>2, LooseSync
<1> QED BY <1>1, <1>2, <1>3 DEF ReadsOn, Loose

\* A boundary.
LEMMA LooseBound ==
    ASSUME Reads, Taken(Bound), section.type # "sync", IsSection(section'),
           section'.type # "sync", outcome' = outcome,
           \/ section' = section /\ nameState' = nameState
           \/ nameState' = "enter_sync"
    PROVE  ReadsOn
<1>1. IsForm(form) /\ Loose(form, input, section, nameState) /\ outcome = "reading"
  BY FormsAre DEF Reads
<1>2. Head(input) = Bound /\ input # <<>> /\ input' = Tail(input) /\ form' = form
  BY DEF Taken
<1>3. PICK k, o : /\ Awake(section, nameState, o)
                  /\ AtBound(form, input, k, o) \/ AtChar(form, input, k, o)
  BY <1>1, <1>2, LooseAwake
<1>4. AtBound(form, input, k, o)
  BY <1>2, <1>3 DEF AtChar
<1>5. ~InHead(section, nameState, "second_sync")
  BY <1>3, <1>4 DEF Awake, AtBound
<1>6. ~InHead(section', nameState', "second_sync")
  BY <1>5 DEF InHead
<1>7. StaysAwake(form', input', section', nameState')
  BY <1>2, <1>4, <1>6, AtBoundAwake
<1> QED BY <1>1, <1>7, StaysLoose DEF ReadsOn

\* A character that leaves the section awake.
LEMMA LooseChar ==
    ASSUME Reads, NEW c, Taken(c), c # Bound, section.type # "sync", IsSection(section'),
           section'.type # "sync", ~InHead(section', nameState', "enter_sync"),
           InHead(section', nameState', "second_sync") => InHead(section, nameState, "enter_sync"),
           outcome' # "thrown"
    PROVE  ReadsOn
<1>1. IsForm(form) /\ Loose(form, input, section, nameState) /\ outcome = "reading"
  BY FormsAre DEF Reads
<1>2. Head(input) # Bound /\ input # <<>> /\ input' = Tail(input) /\ form' = form
  BY DEF Taken
<1>3. PICK k, o : /\ Awake(section, nameState, o)
                  /\ AtBound(form, input, k, o) \/ AtChar(form, input, k, o)
  BY <1>1, <1>2, LooseAwake
<1>4. AtChar(form, input, k, o)
  BY <1>2, <1>3 DEF AtBound
<1>5. InHead(section, nameState, "enter_sync") => o + 1 = 2
  BY <1>3 DEF Awake
<1>7. StaysAwake(form', input', section', nameState')
  BY <1>2, <1>4, <1>5, AtCharAwake
<1> QED BY <1>1, <1>7, StaysLoose DEF ReadsOn

\* The two characters behind a boundary.
LEMMA LooseFirst ==
    ASSUME Reads, NEW c, Taken(c), c # Bound, section.type # "sync"
    PROVE  /\ IsSection(section)
           /\ InHead(section, nameState, "enter_sync") => c = Return \/ c = Dash
           /\ InHead(section, nameState, "second_sync") => c = NewLine \/ c = Dash
<1>1. IsForm(form) /\ Loose(form, input, section, nameState) /\ outcome = "reading"
  BY FormsAre DEF Reads
<1>2. Head(input) # Bound /\ input # <<>> /\ c = Head(input)
  BY DEF Taken
<1>3. PICK k, o : /\ Awake(section, nameState, o)
                  /\ AtBound(form, input, k, o) \/ AtChar(form, input, k, o)
  BY <1>1, <1>2, LooseAwake
<1>4. AtChar(form, input, k, o)
  BY <1>2, <1>3 DEF AtBound
<1> QED BY <1>2, <1>3, <1>4 DEF Awake, AtChar

\* No sync error: a boundary in a header is no end of one.
LEMMA LooseBoundInHeader == ASSUME Reads, BoundInHeader PROVE ReadsOn
<1>1. /\ Taken(Bound) /\ section.type # "sync" /\ outcome' = outcome
      /\ section' = section /\ nameState' = nameState /\ input # <<>>
  BY DEF BoundInHeader, header, Taken
<1>2. IsForm(form) /\ Loose(form, input, section, nameState)
  BY FormsAre DEF Reads
<1>3. IsSection(section)
  BY <1>1, <1>2, LooseAwake DEF Awake
<1>4. IsSection(section') /\ section'.type # "sync"
  BY <1>1, <1>3
<1> QED BY <1>1, <1>4, LooseBound

\* No sync error: a boundary puts the section into the form.
LEMMA LooseEndsSection == ASSUME Reads, EndsSection PROVE ReadsOn
<1>1. /\ Taken(Bound) /\ section.type # "sync" /\ outcome' = outcome
      /\ section' = NewSection("header") /\ nameState' = "enter_sync"
  BY DEF EndsSection, Goes
<1>2. IsSection(section') /\ section'.type # "sync"
  BY <1>1, NewIsSection
<1> QED BY <1>1, <1>2, LooseBound

\* No sync error: the first character behind a boundary.
LEMMA LooseEnterSync == ASSUME Reads, NEW c, EnterSync(c) PROVE ReadsOn
<1>1. /\ section.type = "header" /\ nameState = "enter_sync" /\ c # Bound /\ Taken(c)
      /\ section' = section
  BY DEF EnterSync, InHeader
<1>2. InHead(section, nameState, "enter_sync") /\ section.type # "sync"
  BY <1>1 DEF InHead
<1>3. IsSection(section) /\ (c = Return \/ c = Dash)
  BY <1>1, <1>2, LooseFirst
<1>4. nameState' = "second_sync" /\ outcome' = outcome
  BY <1>3 DEF EnterSync, Goes
<1>5. outcome' # "thrown"
  BY <1>4 DEF Reads
<1>6. IsSection(section') /\ section'.type # "sync"
  BY <1>1, <1>3
<1>7. ~InHead(section', nameState', "enter_sync")
  BY <1>4 DEF InHead
<1> QED BY <1>1, <1>2, <1>5, <1>6, <1>7, LooseChar

\* No sync error: the second character behind a boundary.
LEMMA LooseSecondSync == ASSUME Reads, NEW c, SecondSync(c) PROVE ReadsOn
<1>1. /\ section.type = "header" /\ nameState = "second_sync" /\ c # Bound /\ Taken(c)
      /\ section' = section /\ outcome = "reading"
  BY DEF SecondSync, InHeader, Reads
<1>2. InHead(section, nameState, "second_sync") /\ section.type # "sync"
  BY <1>1 DEF InHead
<1>3. IsSection(section) /\ (c = NewLine \/ c = Dash)
  BY <1>1, <1>2, LooseFirst
<1>4. CASE c = Dash
  <2>1. outcome' = "complete"
    BY <1>4, SymbolsDiffer DEF SecondSync
  <2> QED BY <2>1 DEF ReadsOn
<1>5. CASE c = NewLine
  <2>1. nameState' = "name_sync" /\ outcome' = outcome
    BY <1>5, SymbolsDiffer DEF SecondSync, Goes
  <2>2. outcome' # "thrown"
    BY <1>1, <2>1
  <2>3. IsSection(section') /\ section'.type # "sync"
    BY <1>1, <1>3
  <2>4. ~InHead(section', nameState', "enter_sync") /\ ~InHead(section', nameState', "second_sync")
    BY <2>1 DEF InHead
  <2> QED BY <1>1, <1>2, <2>2, <2>3, <2>4, LooseChar
<1> QED BY <1>3, <1>4, <1>5

\* In a header line, or in the body.
LEMMA LooseOther ==
    ASSUME Reads, NEW c, Taken(c), c # Bound, section.type # "sync",
           IsSection(section) => IsSection(section') /\ section'.type # "sync",
           ~InHead(section', nameState', "enter_sync"), ~InHead(section', nameState', "second_sync"),
           outcome' = outcome
    PROVE  ReadsOn
<1>1. IsSection(section)
  BY LooseFirst
<1>2. outcome' # "thrown"
  BY DEF Reads
<1> QED BY <1>1, <1>2, LooseChar

\* No sync error: a character of a header name.
LEMMA LooseNameChar == ASSUME Reads, NEW c, NameChar(c) PROVE ReadsOn
<1>1. /\ section.type = "header" /\ nameState = "name_sync" /\ c # Bound /\ Taken(c)
      /\ section' = section /\ outcome' = outcome
  BY DEF NameChar, InHeader
<1>2. nameState' = "name_sync" \/ nameState' = "value_sync"
  BY <1>1 DEF NameChar, header, Goes
<1>3. ~InHead(section', nameState', "enter_sync") /\ ~InHead(section', nameState', "second_sync")
  BY <1>2 DEF InHead
<1>4. IsSection(section) => IsSection(section') /\ section'.type # "sync"
  BY <1>1
<1> QED BY <1>1, <1>3, <1>4, LooseOther

\* No sync error: a character of a header value.
LEMMA LooseValueChar == ASSUME Reads, NEW c, ValueChar(c) PROVE ReadsOn
<1>1. /\ section.type = "header" /\ nameState = "value_sync" /\ c # Bound /\ Taken(c)
      /\ section' = section /\ outcome' = outcome /\ nameState' = nameState
  BY DEF ValueChar, InHeader
<1>3. ~InHead(section', nameState', "enter_sync") /\ ~InHead(section', nameState', "second_sync")
  BY <1>1 DEF InHead
<1>4. IsSection(section) => IsSection(section') /\ section'.type # "sync"
  BY <1>1
<1> QED BY <1>1, <1>3, <1>4, LooseOther

\* No sync error: the empty line ends the header.
LEMMA LooseHeaderEnds == ASSUME Reads, NEW opens, HeaderEnds(opens) PROVE ReadsOn
<1>1. /\ section.type = "header" /\ nameState = "name_sync" /\ NewLine # Bound /\ Taken(NewLine)
      /\ section' = Created(section, opens) /\ outcome' = outcome /\ nameState' = nameState
  BY DEF HeaderEnds, InHeader, header
<1>3. ~InHead(section', nameState', "enter_sync") /\ ~InHead(section', nameState', "second_sync")
  BY <1>1 DEF InHead
<1>4. IsSection(section) => IsSection(section') /\ section'.type # "sync"
  BY <1>1, CreatedKeepsSection
<1> QED BY <1>1, <1>3, <1>4, LooseOther

\* A line that ends goes into the section.
LEMMA LineEnds ==
    ASSUME HeaderLineEnds
    PROVE  section' = AfterLine(section, headerName, headerValue)
BY DEF HeaderLineEnds, AfterLine, IsLineOf, Disposed, WithType, WithEncoding

\* No sync error: the end of a header line.
LEMMA LooseHeaderLineEnds == ASSUME Reads, HeaderLineEnds PROVE ReadsOn
<1>1. /\ section.type = "header" /\ nameState = "value_sync" /\ NewLine # Bound /\ Taken(NewLine)
      /\ outcome' = outcome /\ nameState' = "name_sync"
  BY DEF HeaderLineEnds, InHeader, Goes
<1>2. section' = AfterLine(section, headerName, headerValue)
  BY LineEnds
<1>3. ~InHead(section', nameState', "enter_sync") /\ ~InHead(section', nameState', "second_sync")
  BY <1>1 DEF InHead
<1>4. IsSection(section) => IsSection(section') /\ section'.type # "sync"
  BY <1>1, <1>2, LineKeepsSection
<1> QED BY <1>1, <1>3, <1>4, LooseOther

\* No sync error: a character of a text.
LEMMA LooseTextChar == ASSUME Reads, NEW c, TextChar(c) PROVE ReadsOn
<1>1. /\ section.type = "text" /\ c # Bound /\ Taken(c) /\ outcome' = outcome
      /\ section' = TextAfter(section, c.code)
  BY DEF TextChar, TextAfter
<1>3. IsSection(section)
  BY <1>1, LooseFirst
<1>5. TextGrows(section, section', c.code)
  BY <1>1, <1>3, TextAfterIs
<1>2. IsSection(section') /\ section'.type = "text"
  BY <1>1, <1>5 DEF TextGrows, Same
<1>4. ~InHead(section', nameState', "enter_sync") /\ ~InHead(section', nameState', "second_sync")
  BY <1>2, <1>3 DEF InHead
<1> QED BY <1>1, <1>2, <1>4, LooseOther

\* No sync error: a character of a file.
LEMMA LooseFileChar == ASSUME Reads, NEW c, FileChar(c) PROVE ReadsOn
<1>1. /\ section.type = "file" /\ c # Bound /\ Taken(c) /\ outcome' = outcome
      /\ section' = FileAfter(section, c.code)
  BY DEF FileChar, FileAfter
<1>3. IsSection(section)
  BY <1>1, LooseFirst
<1>5. FileGrows(section, section', c.code)
  BY <1>1, <1>3, FileAfterIs
<1>2. IsSection(section') /\ section'.type = "file"
  BY <1>1, <1>5 DEF FileGrows, Same
<1>4. ~InHead(section', nameState', "enter_sync") /\ ~InHead(section', nameState', "second_sync")
  BY <1>2, <1>3 DEF InHead
<1> QED BY <1>1, <1>2, <1>4, LooseOther

\* No turn runs into a sync error.
LEMMA LooseTurn == ASSUME Reads, Turn PROVE ReadsOn
BY LooseStartsForm, LooseSkip, LooseBoundInHeader, LooseEndsSection, LooseEnterSync,
   LooseSecondSync, LooseNameChar, LooseValueChar, LooseHeaderEnds, LooseHeaderLineEnds,
   LooseTextChar, LooseFileChar
   DEF Turn
-----------------------------------------------------------------------------
(* In a form of known types every symbol finds parse_form_data where it      *)
(* should be.                                                               *)

\* A form that has no part of an unknown type.
AllKnown(f) == \A i \in 1 .. Len(f) : IsKnown(f[i])

\* Where parse_form_data is, when it has left the boundary behind.
LEMMA SpotIn ==
    ASSUME NEW f, NEW k, NEW o, NEW sec, NEW ns, NEW hn, NEW hv, Spot(f, k, o, sec, ns, hn, hv),
           ~InHead(sec, ns, "enter_sync"), ~InHead(sec, ns, "second_sync")
    PROVE  k \in 1 .. Len(f) /\ Where(f[k], o, sec, ns, hn, hv)
BY WhoIs DEF Spot

\* In enter_sync the boundary is the symbol before.
LEMMA SpotEnter ==
    ASSUME NEW f, NEW k, NEW o, NEW sec, NEW ns, NEW hn, NEW hv, Spot(f, k, o, sec, ns, hn, hv),
           InHead(sec, ns, "enter_sync")
    PROVE  o = 1 /\ Sync1(sec, ns, hn)
BY WhoIs, OneState, WhereEnter DEF Spot

\* In second_sync it is the one before that.
LEMMA SpotSecond ==
    ASSUME NEW f, NEW k, NEW o, NEW sec, NEW ns, NEW hn, NEW hv, Spot(f, k, o, sec, ns, hn, hv),
           InHead(sec, ns, "second_sync")
    PROVE  o = 2 /\ Sync2(sec, ns, hn)
BY WhoIs, OneState, WhereSecond DEF Spot

\* In front of the first boundary nothing is kept.
LEMMA ReadySync ==
    ASSUME NEW f, IsForm(f), NEW s, NEW obj, NEW sec, NEW ns, NEW hn, NEW hv,
           Ready(f, s, obj, sec, ns, hn, hv), sec.type = "sync"
    PROVE  sec = NewSection("sync") /\ Ahead(f, s) /\ obj = <<>>
<1>1. ASSUME NEW k, NEW o, Spot(f, k, o, sec, ns, hn, hv) PROVE FALSE
  <2>1. \/ InHead(sec, ns, "enter_sync") \/ InHead(sec, ns, "second_sync")
        \/ Where(f[k], o, sec, ns, hn, hv)
    BY <1>1, WhoIs DEF Spot
  <2>2. sec.type = "header" \/ OutOfHead(sec)
    BY <2>1, WhereType DEF InHead
  <2> QED BY <2>2 DEF OutOfHead
<1> QED BY <1>1 DEF Ready

\* Behind it there is a place in the form, with everything before it kept.
LEMMA ReadyAwake ==
    ASSUME NEW f, IsForm(f), NEW s, s # <<>>, NEW obj, NEW sec, NEW ns, NEW hn, NEW hv,
           Ready(f, s, obj, sec, ns, hn, hv), sec.type # "sync"
    PROVE  \E k, o : /\ Kept(obj, f, k) /\ Spot(f, k, o, sec, ns, hn, hv) /\ IsAt(f, s, k, o)
                     /\ AtBound(f, s, k, o) \/ AtChar(f, s, k, o)
<1>1. NewSection("sync").type = "sync"
  BY NewIsSection
<1>2. PICK k, o : IsAt(f, s, k, o) /\ Kept(obj, f, k) /\ Spot(f, k, o, sec, ns, hn, hv)
  BY <1>1 DEF Ready
<1>3. AtBound(f, s, k, o) \/ AtChar(f, s, k, o)
  BY <1>2, Moves
<1> QED BY <1>2, <1>3

\* One character further in the same part.
LEMMA StaysReady ==
    ASSUME NEW f, NEW s, NEW obj, NEW k, NEW o, AtChar(f, s, k, o), Kept(obj, f, k),
           k \in 1 .. Len(f), NEW sec, NEW ns, NEW hn, NEW hv,
           Where(f[k], o + 1, sec, ns, hn, hv)
    PROVE  Ready(f, Tail(s), obj, sec, ns, hn, hv)
<1>1. Spot(f, k, o + 1, sec, ns, hn, hv)
  BY DEF Spot
<1>2. IsAt(f, Tail(s), k, o + 1)
  BY DEF AtChar
<1> QED BY <1>1, <1>2 DEF Ready

\* The parts of a form, and what is sent for them.
LEMMA PartOf ==
    ASSUME NEW f, IsForm(f), NEW k \in 1 .. Len(f)
    PROVE  IsPart(f[k]) /\ IsPartSent(PiecesOf(f)[k], f[k])
<1>1. IsPart(f[k])
  BY FormHas
<1>2. IsPartSent(PiecesOf(f)[k], f[k])
  BY PiecesOfForm
<1> QED BY <1>1, <1>2

\* The invariant of one turn, for forms whose types are known.
Works ==
    /\ form \in Forms /\ outcome = "reading" /\ AllKnown(form)
    /\ Ready(form, input, objects, section, nameState, headerName, headerValue)
WorksOn ==
    Ready(form', input', objects', section', nameState', headerName', headerValue')

\* What the invariant says of the form in work.
LEMMA WorksHas ==
    ASSUME Works
    PROVE  /\ IsForm(form)
           /\ Ready(form, input, objects, section, nameState, headerName, headerValue)
BY FormsAre DEF Works

\* On its way: the first boundary begins a section.
LEMMA ReadyStartsForm == ASSUME Works, StartsForm PROVE WorksOn
<1>1. IsForm(form) /\ Ready(form, input, objects, section, nameState, headerName, headerValue)
  BY WorksHas
<1>2. /\ section.type = "sync" /\ Head(input) = Bound /\ input' = Tail(input) /\ form' = form
      /\ section' = [section EXCEPT !.type = "header"] /\ nameState' = "enter_sync"
      /\ headerName' = <<>> /\ objects' = objects
  BY DEF StartsForm, Taken, Goes
<1>3. section = NewSection("sync") /\ Ahead(form, input) /\ objects = <<>>
  BY <1>1, <1>2, ReadySync
<1>4. IsAt(form, Tail(input), 1, 1)
  BY <1>1, <1>2, <1>3, FrontMoves
<1>5. Fresh(section')
  BY <1>2, <1>3, HeaderBegins
<1>6. Sync1(section', nameState', headerName')
  BY <1>2, <1>5 DEF Sync1
<1>7. Spot(form, 1, 1, section', nameState', headerName', headerValue')
  BY <1>6 DEF Spot
<1>8. Kept(objects', form, 1)
  BY <1>2, <1>3, NothingStored
<1> QED BY <1>2, <1>4, <1>7, <1>8 DEF Ready, WorksOn

\* On its way: a character of the preamble is passed over.
LEMMA ReadySkip == ASSUME Works, NEW c, Skip(c) PROVE WorksOn
<1>1. IsForm(form) /\ Ready(form, input, objects, section, nameState, headerName, headerValue)
  BY WorksHas
<1>2. /\ section.type = "sync" /\ Head(input) # Bound /\ input' = Tail(input) /\ form' = form
      /\ section' = section /\ objects' = objects
  BY DEF Skip, Taken
<1>3. section = NewSection("sync") /\ Ahead(form, input) /\ objects = <<>>
  BY <1>1, <1>2, ReadySync
<1>4. Ahead(form, Tail(input))
  BY <1>1, <1>2, <1>3, FrontMoves
<1> QED BY <1>2, <1>3, <1>4 DEF Ready, WorksOn

\* A boundary finds the part whole.
LEMMA ReadyBound ==
    ASSUME Works, Taken(Bound), section.type # "sync"
    PROVE  \E k \in Nat : /\ Kept(objects, form, k) /\ k # 0 /\ Holds(section, form[k])
                          /\ IsAt(form, Tail(input), k + 1, 1)
                          /\ OutOfHead(section) /\ headerName = <<>>
<1>1. IsForm(form) /\ Ready(form, input, objects, section, nameState, headerName, headerValue)
  BY WorksHas
<1>2. Head(input) = Bound /\ input # <<>>
  BY DEF Taken
<1>3. PICK k, o : /\ Kept(objects, form, k)
                  /\ Spot(form, k, o, section, nameState, headerName, headerValue)
                  /\ AtBound(form, input, k, o) \/ AtChar(form, input, k, o)
  BY <1>1, <1>2, ReadyAwake
<1>4. AtBound(form, input, k, o)
  BY <1>2, <1>3 DEF AtChar
<1>5. k \in 1 .. Len(form) /\ o = Len(PiecesOf(form)[k]) /\ IsAt(form, Tail(input), k + 1, 1)
      /\ Where(form[k], o, section, nameState, headerName, headerValue)
  BY <1>3, <1>4 DEF AtBound, Spot
<1>6. IsPart(form[k]) /\ IsPartSent(PiecesOf(form)[k], form[k])
  BY <1>1, <1>5, PartOf
<1>7. OutOfHead(section) /\ Holds(section, form[k]) /\ headerName = <<>>
  BY <1>5, <1>6, PartEnds
<1>8. k \in Nat /\ k # 0
  BY <1>1, <1>5, FormHas
<1> QED BY <1>3, <1>5, <1>7, <1>8

\* On its way: a boundary puts the section into the form.
LEMMA ReadyEndsSection == ASSUME Works, EndsSection PROVE WorksOn
<1>1. /\ Taken(Bound) /\ section.type # "sync" /\ objects' = Append(objects, section)
      /\ section' = NewSection("header") /\ nameState' = "enter_sync" /\ headerName' = headerName
      /\ input' = Tail(input) /\ form' = form
  BY DEF EndsSection, Goes, Taken
<1>2. PICK k \in Nat : /\ Kept(objects, form, k) /\ k # 0 /\ Holds(section, form[k])
                       /\ IsAt(form, Tail(input), k + 1, 1)
                       /\ OutOfHead(section) /\ headerName = <<>>
  BY <1>1, ReadyBound
<1>3. Kept(objects', form, k + 1)
  BY <1>1, <1>2, StoresOne
<1>4. Fresh(section')
  BY <1>1, NewIsFresh
<1>5. Sync1(section', nameState', headerName')
  BY <1>1, <1>2, <1>4 DEF Sync1
<1>6. Spot(form, k + 1, 1, section', nameState', headerName', headerValue')
  BY <1>5 DEF Spot
<1> QED BY <1>1, <1>2, <1>3, <1>6 DEF Ready, WorksOn

\* On its way: a boundary in a header is no end of one.
LEMMA ReadyBoundInHeader == ASSUME Works, BoundInHeader PROVE WorksOn
<1>1. Taken(Bound) /\ section.type = "header" /\ section.type # "sync"
  BY DEF BoundInHeader
<1>2. OutOfHead(section)
  BY <1>1, ReadyBound
<1> QED BY <1>1, <1>2 DEF OutOfHead

\* A character, and where it stands.
LEMMA ReadyChar ==
    ASSUME Works, NEW c, Taken(c), c # Bound, section.type # "sync"
    PROVE  \E k, o : /\ Kept(objects, form, k)
                     /\ Spot(form, k, o, section, nameState, headerName, headerValue)
                     /\ AtChar(form, input, k, o) /\ c = PiecesOf(form)[k][o + 1]
                     /\ k \in 1 .. Len(form) + 1
<1>1. IsForm(form) /\ Ready(form, input, objects, section, nameState, headerName, headerValue)
  BY WorksHas
<1>2. c = Head(input) /\ input # <<>>
  BY DEF Taken
<1>3. PICK k, o : /\ Kept(objects, form, k)
                  /\ Spot(form, k, o, section, nameState, headerName, headerValue)
                  /\ IsAt(form, input, k, o)
                  /\ AtBound(form, input, k, o) \/ AtChar(form, input, k, o)
  BY <1>1, <1>2, ReadyAwake
<1>4. AtChar(form, input, k, o)
  BY <1>2, <1>3 DEF AtBound
<1>5. c = PiecesOf(form)[k][o + 1]
  BY <1>2, <1>4 DEF AtChar
<1>6. k \in 1 .. Len(form) + 1
  BY <1>3 DEF IsAt
<1> QED BY <1>3, <1>4, <1>5, <1>6

\* One that is not behind a boundary.
LEMMA ReadyInPart ==
    ASSUME Works, NEW c, Taken(c), c # Bound, section.type # "sync",
           ~InHead(section, nameState, "enter_sync"), ~InHead(section, nameState, "second_sync")
    PROVE  \E k, o : /\ Kept(objects, form, k) /\ AtChar(form, input, k, o)
                     /\ Where(form[k], o, section, nameState, headerName, headerValue)
                     /\ c = PiecesOf(form)[k][o + 1] /\ k \in 1 .. Len(form)
                     /\ IsPart(form[k]) /\ IsPartSent(PiecesOf(form)[k], form[k])
                     /\ IsKnown(form[k]) /\ o < Len(PiecesOf(form)[k])
<1>1. IsForm(form) /\ AllKnown(form)
  BY WorksHas DEF Works
<1>2. PICK k, o : /\ Kept(objects, form, k)
                  /\ Spot(form, k, o, section, nameState, headerName, headerValue)
                  /\ AtChar(form, input, k, o) /\ c = PiecesOf(form)[k][o + 1]
  BY ReadyChar
<1>3. k \in 1 .. Len(form) /\ Where(form[k], o, section, nameState, headerName, headerValue)
  BY <1>2, SpotIn
<1>4. IsPart(form[k]) /\ IsPartSent(PiecesOf(form)[k], form[k])
  BY <1>1, <1>3, PartOf
<1>5. IsKnown(form[k])
  BY <1>1, <1>3 DEF AllKnown
<1>6. o < Len(PiecesOf(form)[k])
  BY <1>2 DEF AtChar
<1> QED BY <1>2, <1>3, <1>4, <1>5, <1>6

\* A turn that takes a character of the part goes on to the next.
LEMMA ReadyOn ==
    ASSUME NEW k, NEW o, Kept(objects, form, k), AtChar(form, input, k, o),
           k \in 1 .. Len(form), NEW c, Taken(c), objects' = objects,
           Where(form[k], o + 1, section', nameState', headerName', headerValue')
    PROVE  WorksOn
<1>1. form' = form /\ input' = Tail(input)
  BY DEF Taken
<1>2. Ready(form, Tail(input), objects, section', nameState', headerName', headerValue')
  BY StaysReady
<1> QED BY <1>1, <1>2 DEF WorksOn

\* On its way: a character of a header name.
LEMMA ReadyNameChar == ASSUME Works, NEW c, NameChar(c) PROVE WorksOn
<1>1. /\ section.type = "header" /\ nameState = "name_sync" /\ c # Bound /\ Taken(c)
      /\ section' = section /\ objects' = objects
  BY DEF NameChar, InHeader
<1>2. InHead(section, nameState, "name_sync") /\ section.type # "sync"
  BY <1>1 DEF InHead
<1>3. PICK k, o : /\ Kept(objects, form, k) /\ AtChar(form, input, k, o)
                  /\ Where(form[k], o, section, nameState, headerName, headerValue)
                  /\ c = PiecesOf(form)[k][o + 1] /\ k \in 1 .. Len(form)
                  /\ IsPart(form[k]) /\ IsPartSent(PiecesOf(form)[k], form[k])
  BY <1>1, <1>2, OneState, ReadyInPart
<1>4. NameWhere(form[k], o, section, nameState, headerName)
  BY <1>2, <1>3, WhereName
<1>5. NameTaken(c, nameState, headerName, headerValue, nameState', headerName', headerValue')
  BY DEF NameChar, NameTaken, header, Goes
<1>6. Where(form[k], o + 1, section', nameState', headerName', headerValue')
  BY <1>1, <1>3, <1>4, <1>5, NameSteps
<1> QED BY <1>1, <1>3, <1>6, ReadyOn

\* On its way: a character of a header value.
LEMMA ReadyValueChar == ASSUME Works, NEW c, ValueChar(c) PROVE WorksOn
<1>1. /\ section.type = "header" /\ nameState = "value_sync" /\ c # Bound /\ Taken(c)
      /\ section' = section /\ objects' = objects /\ nameState' = nameState
      /\ headerName' = headerName
  BY DEF ValueChar, InHeader
<1>2. InHead(section, nameState, "value_sync") /\ section.type # "sync"
  BY <1>1 DEF InHead
<1>3. PICK k, o : /\ Kept(objects, form, k) /\ AtChar(form, input, k, o)
                  /\ Where(form[k], o, section, nameState, headerName, headerValue)
                  /\ c = PiecesOf(form)[k][o + 1] /\ k \in 1 .. Len(form)
                  /\ IsPart(form[k]) /\ IsPartSent(PiecesOf(form)[k], form[k])
  BY <1>1, <1>2, OneState, ReadyInPart
<1>4. ValueWhere(form[k], o, section, nameState, headerName, headerValue)
  BY <1>2, <1>3, WhereValue
<1>5. ValueTaken(c, headerValue, headerValue')
  BY DEF ValueChar, ValueTaken
<1>6. Where(form[k], o + 1, section', nameState', headerName', headerValue')
  BY <1>1, <1>3, <1>4, <1>5, ValueSteps
<1> QED BY <1>1, <1>3, <1>6, ReadyOn

\* On its way: the end of a header line.
LEMMA ReadyHeaderLineEnds == ASSUME Works, HeaderLineEnds PROVE WorksOn
<1>1. /\ section.type = "header" /\ nameState = "value_sync" /\ NewLine # Bound /\ Taken(NewLine)
      /\ objects' = objects /\ nameState' = "name_sync"
      /\ headerName' = <<>> /\ headerValue' = headerValue
  BY DEF HeaderLineEnds, InHeader, Goes
<1>2. InHead(section, nameState, "value_sync") /\ section.type # "sync"
  BY <1>1 DEF InHead
<1>3. PICK k, o : /\ Kept(objects, form, k) /\ AtChar(form, input, k, o)
                  /\ Where(form[k], o, section, nameState, headerName, headerValue)
                  /\ NewLine = PiecesOf(form)[k][o + 1] /\ k \in 1 .. Len(form)
                  /\ IsPart(form[k]) /\ IsPartSent(PiecesOf(form)[k], form[k])
  BY <1>1, <1>2, OneState, ReadyInPart
<1>4. ValueWhere(form[k], o, section, nameState, headerName, headerValue)
  BY <1>2, <1>3, WhereValue
<1>5. section' = AfterLine(section, headerName, headerValue)
  BY LineEnds
<1>6. Where(form[k], o + 1, AfterLine(section, headerName, headerValue), "name_sync", <<>>,
            headerValue)
  BY <1>3, <1>4, LineSteps
<1>7. Where(form[k], o + 1, section', nameState', headerName', headerValue')
  BY <1>1, <1>5, <1>6
<1> QED BY <1>1, <1>3, <1>7, ReadyOn

\* On its way: the empty line ends the header.
LEMMA ReadyHeaderEnds == ASSUME Works, NEW opens, HeaderEnds(opens) PROVE WorksOn
<1>1. /\ section.type = "header" /\ nameState = "name_sync" /\ NewLine # Bound /\ Taken(NewLine)
      /\ section' = Created(section, opens) /\ objects' = objects /\ nameState' = nameState
      /\ headerName' = headerName /\ headerValue' = headerValue
  BY DEF HeaderEnds, InHeader, header
<1>2. InHead(section, nameState, "name_sync") /\ section.type # "sync"
  BY <1>1 DEF InHead
<1>3. PICK k, o : /\ Kept(objects, form, k) /\ AtChar(form, input, k, o)
                  /\ Where(form[k], o, section, nameState, headerName, headerValue)
                  /\ NewLine = PiecesOf(form)[k][o + 1] /\ k \in 1 .. Len(form)
                  /\ IsPart(form[k]) /\ IsPartSent(PiecesOf(form)[k], form[k])
                  /\ IsKnown(form[k])
  BY <1>1, <1>2, OneState, ReadyInPart
<1>4. NameWhere(form[k], o, section, nameState, headerName)
  BY <1>2, <1>3, WhereName
<1>6. Where(form[k], o + 1, Created(section, opens), nameState, headerName, headerValue)
  BY <1>3, <1>4, EmptyLineSteps
<1>7. Where(form[k], o + 1, section', nameState', headerName', headerValue')
  BY <1>1, <1>6
<1> QED BY <1>1, <1>3, <1>7, ReadyOn

\* On its way: a character of a text.
LEMMA ReadyTextChar == ASSUME Works, NEW c, TextChar(c) PROVE WorksOn
<1>1. /\ section.type = "text" /\ c # Bound /\ Taken(c) /\ section' = TextAfter(section, c.code)
      /\ objects' = objects /\ nameState' = nameState
      /\ headerName' = headerName /\ headerValue' = headerValue
  BY DEF TextChar, TextAfter, header
<1>2. OutOfHead(section) /\ section.type # "sync"
  BY <1>1 DEF OutOfHead
<1>3. PICK k, o : /\ Kept(objects, form, k) /\ AtChar(form, input, k, o)
                  /\ Where(form[k], o, section, nameState, headerName, headerValue)
                  /\ c = PiecesOf(form)[k][o + 1] /\ k \in 1 .. Len(form)
                  /\ IsPart(form[k]) /\ IsPartSent(PiecesOf(form)[k], form[k])
                  /\ o < Len(PiecesOf(form)[k])
  BY <1>1, <1>2, OneState, ReadyInPart
<1>4. BodyWhere(form[k], o, section, headerName)
  BY <1>2, <1>3, WhereBody
<1>6. Where(form[k], o + 1, TextAfter(section, c.code), nameState, headerName, headerValue)
  BY <1>1, <1>3, <1>4, BodySteps
<1>7. Where(form[k], o + 1, section', nameState', headerName', headerValue')
  BY <1>1, <1>6
<1> QED BY <1>1, <1>3, <1>7, ReadyOn

\* On its way: a character of a file.
LEMMA ReadyFileChar == ASSUME Works, NEW c, FileChar(c) PROVE WorksOn
<1>1. /\ section.type = "file" /\ c # Bound /\ Taken(c) /\ section' = FileAfter(section, c.code)
      /\ objects' = objects /\ nameState' = nameState
      /\ headerName' = headerName /\ headerValue' = headerValue
  BY DEF FileChar, FileAfter, header
<1>2. OutOfHead(section) /\ section.type # "sync"
  BY <1>1 DEF OutOfHead
<1>3. PICK k, o : /\ Kept(objects, form, k) /\ AtChar(form, input, k, o)
                  /\ Where(form[k], o, section, nameState, headerName, headerValue)
                  /\ c = PiecesOf(form)[k][o + 1] /\ k \in 1 .. Len(form)
                  /\ IsPart(form[k]) /\ IsPartSent(PiecesOf(form)[k], form[k])
                  /\ o < Len(PiecesOf(form)[k])
  BY <1>1, <1>2, OneState, ReadyInPart
<1>4. BodyWhere(form[k], o, section, headerName)
  BY <1>2, <1>3, WhereBody
<1>6. Where(form[k], o + 1, FileAfter(section, c.code), nameState, headerName, headerValue)
  BY <1>1, <1>3, <1>4, BodySteps
<1>7. Where(form[k], o + 1, section', nameState', headerName', headerValue')
  BY <1>1, <1>6
<1> QED BY <1>1, <1>3, <1>7, ReadyOn

\* On its way: the first character behind a boundary.
LEMMA ReadyEnterSync == ASSUME Works, NEW c, EnterSync(c), nameState' = "second_sync" PROVE WorksOn
<1>1. /\ section.type = "header" /\ nameState = "enter_sync" /\ c # Bound /\ Taken(c)
      /\ section' = section /\ objects' = objects
      /\ headerName' = headerName /\ headerValue' = headerValue
  BY DEF EnterSync, InHeader
<1>2. InHead(section, nameState, "enter_sync") /\ section.type # "sync"
  BY <1>1 DEF InHead
<1>3. PICK k, o : /\ Kept(objects, form, k)
                  /\ Spot(form, k, o, section, nameState, headerName, headerValue)
                  /\ AtChar(form, input, k, o)
  BY <1>1, <1>2, ReadyChar
<1>4. o = 1 /\ Sync1(section, nameState, headerName)
  BY <1>2, <1>3, SpotEnter
<1>5. Sync2(section', nameState', headerName')
  BY <1>1, <1>4 DEF Sync1, Sync2
<1>6. Spot(form, k, o + 1, section', nameState', headerName', headerValue')
  BY <1>4, <1>5 DEF Spot
<1>7. IsAt(form, Tail(input), k, o + 1)
  BY <1>3 DEF AtChar
<1>8. form' = form /\ input' = Tail(input)
  BY <1>1 DEF Taken
<1> QED BY <1>1, <1>3, <1>6, <1>7, <1>8 DEF WorksOn, Ready

\* The second character behind a boundary tells whether there is another part.
LEMMA SecondCharacter ==
    ASSUME Works, NEW c, SecondSync(c)
    PROVE  \E k : /\ Kept(objects, form, k) /\ AtChar(form, input, k, 2)
                  /\ Sync2(section, nameState, headerName)
                  /\ \/ c = NewLine /\ k \in 1 .. Len(form)
                     \/ c = Dash /\ k = Len(form) + 1
<1>0. IsForm(form)
  BY WorksHas
<1>1. /\ section.type = "header" /\ nameState = "second_sync" /\ c # Bound /\ Taken(c)
  BY DEF SecondSync, InHeader
<1>2. InHead(section, nameState, "second_sync") /\ section.type # "sync"
  BY <1>1 DEF InHead
<1>3. PICK k, o : /\ Kept(objects, form, k)
                  /\ Spot(form, k, o, section, nameState, headerName, headerValue)
                  /\ AtChar(form, input, k, o) /\ c = PiecesOf(form)[k][o + 1]
                  /\ k \in 1 .. Len(form) + 1
  BY <1>1, <1>2, ReadyChar
<1>4. o = 2 /\ Sync2(section, nameState, headerName)
  BY <1>2, <1>3, SpotSecond
<1>5. c = PiecesOf(form)[k][3]
  BY <1>3, <1>4
<1>6. CASE k \in 1 .. Len(form)
  <2>1. IsPart(form[k]) /\ IsPartSent(PiecesOf(form)[k], form[k])
    BY <1>0, <1>6, PartOf
  <2>2. c = NewLine
    BY <1>5, <2>1, PartIsPiece
  <2> QED BY <1>3, <1>4, <1>6, <2>2
<1>7. CASE k = Len(form) + 1
  <2>1. PiecesOf(form)[k] = Closing
    BY <1>0, <1>7, PiecesOfForm
  <2>2. c = Dash
    BY <1>5, <2>1, LastIsPiece
  <2> QED BY <1>3, <1>4, <1>7, <2>2
<1>8. Len(form) \in Nat
  BY <1>0, FormHas
<1> QED BY <1>3, <1>6, <1>7, <1>8

\* On its way: the second character behind a boundary.
LEMMA ReadySecondSync == ASSUME Works, NEW c, SecondSync(c), outcome' = "reading" PROVE WorksOn
<1>1. /\ Taken(c) /\ section' = section /\ objects' = objects
      /\ headerName' = headerName /\ headerValue' = headerValue
  BY DEF SecondSync, InHeader
<1>2. PICK k : /\ Kept(objects, form, k) /\ AtChar(form, input, k, 2)
               /\ Sync2(section, nameState, headerName)
               /\ \/ c = NewLine /\ k \in 1 .. Len(form)
                  \/ c = Dash /\ k = Len(form) + 1
  BY SecondCharacter
<1>3. c # Dash
  <2> SUFFICES ASSUME c = Dash PROVE FALSE
    OBVIOUS
  <2>1. outcome' = "complete"
    BY SymbolsDiffer DEF SecondSync
  <2> QED BY <2>1
<1>4. c = NewLine /\ k \in 1 .. Len(form)
  BY <1>2, <1>3
<1>5. nameState' = "name_sync"
  BY <1>3, <1>4 DEF SecondSync, Goes
<1>6. Fresh(section) /\ headerName = <<>>
  BY <1>2 DEF Sync2
<1>7. Heading(section, form[k], 0)
  BY <1>6, FreshHeading
<1>8. InName(section', form[k], 0, nameState', headerName')
  BY <1>1, <1>5, <1>6, <1>7 DEF InName
<1>9. Where(form[k], 2 + 1, section', nameState', headerName', headerValue')
  <2>1. NumLines(form[k]) \in 1 .. 3
    <3>1. IsPart(form[k])
      BY <1>4, WorksHas, PartOf
    <3> QED BY <3>1, PartIs
  <2>2. 0 \in 0 .. NumLines(form[k]) /\ 2 + 1 = 3 + 5 * 0
    BY <2>1
  <2> QED BY <1>8, <2>2 DEF Where
<1> QED BY <1>1, <1>2, <1>4, <1>9, ReadyOn

\* Every turn goes on where the last one ended.
LEMMA ReadyTurn == ASSUME Works, Reads, Turn, outcome' = "reading" PROVE WorksOn
<1>1. CASE StartsForm
  BY <1>1, ReadyStartsForm
<1>2. CASE BoundInHeader
  BY <1>2, ReadyBoundInHeader
<1>3. CASE EndsSection
  BY <1>3, ReadyEndsSection
<1>4. CASE HeaderLineEnds
  BY <1>4, ReadyHeaderLineEnds
<1>5. CASE \E opens \in BOOLEAN : HeaderEnds(opens)
  BY <1>5, ReadyHeaderEnds
<1>6. ASSUME NEW c, EnterSync(c) PROVE WorksOn
  <2>1. nameState' = "second_sync"
    <3>1. /\ section.type = "header" /\ nameState = "enter_sync" /\ c # Bound /\ Taken(c)
      BY <1>6 DEF EnterSync, InHeader
    <3>2. c = Return \/ c = Dash
      <4>1. InHead(section, nameState, "enter_sync") /\ section.type # "sync"
        BY <3>1 DEF InHead
      <4> QED BY <3>1, <4>1, LooseFirst
    <3> QED BY <1>6, <3>2 DEF EnterSync, Goes
  <2> QED BY <1>6, <2>1, ReadyEnterSync
<1>7. ASSUME NEW c, Skip(c) \/ SecondSync(c) \/ NameChar(c) \/ ValueChar(c)
                    \/ TextChar(c) \/ FileChar(c)
      PROVE  WorksOn
  BY <1>7, ReadySkip, ReadySecondSync, ReadyNameChar, ReadyValueChar, ReadyTextChar, ReadyFileChar
<1> QED BY <1>1, <1>2, <1>3, <1>4, <1>5, <1>6, <1>7 DEF Turn
-----------------------------------------------------------------------------
(* What that says of the form that is returned.                             *)

\* The properties, of any form and any symbols that are left.
Count(f, s) == IF Bounds(s) > Len(f) THEN 0 ELSE Len(f) - Bounds(s)
KeptOf(f, s, obj, out) ==
    /\ Len(obj) = Count(f, s) + (IF out = "ended" THEN 1 ELSE 0)
    /\ \A i \in 1 .. Count(f, s) : Holds(obj[i], f[i])
    /\ out = "complete" => Count(f, s) = Len(f) /\ s = <<Return, NewLine>>
Begins(sec, p) ==
    /\ sec.type = "text" => IsPrefix(sec.body, p.content)
    /\ sec.type = "file" => IsPrefix(sec.data, p.content)
StartOf(f, s, sec) == Count(f, s) < Len(f) => Begins(sec, f[Count(f, s) + 1])
KeepsForm(f, s, obj, sec, out) ==
    /\ out # "thrown"
    /\ AllKnown(f) =>
          /\ out # "deleted" => KeptOf(f, s, obj, out)
          /\ out \in {"reading", "broken"} => StartOf(f, s, sec)
          /\ out = "ended" => StartOf(f, s, obj[Len(obj)])

\* KeepsForm says of the state what FormIsKept says.
LEMMA KeepsIt ==
    ASSUME form \in Forms
    PROVE  KeepsForm(form, input, objects, section, outcome) <=> FormIsKept
<1>1. TypesIn({""} \cup TextTypes \cup FileTypes \cup IgnoredTypes) <=> AllKnown(form)
  <2>1. DOMAIN form = 1 .. Len(form)
    BY FormsAre, FormHas
  <2> QED BY <2>1 DEF TypesIn, AllKnown, IsKnown, KnownTypes
<1>2. KeptInOrder <=> KeptOf(form, input, objects, outcome)
  BY DEF KeptInOrder, KeptOf, Count, Received
<1>3. \A sec : StartOfPart(sec) <=> StartOf(form, input, sec)
  BY DEF StartOfPart, StartOf, Begins, Count, Received
<1> QED BY <1>1, <1>2, <1>3 DEF KeepsForm, FormIsKept, PartsInOrder, PartialIsPrefix, NoSyncError

\* How many parts were received.
LEMMA CountAt ==
    ASSUME NEW f, IsForm(f), NEW s, NEW k, NEW o, IsAt(f, s, k, o)
    PROVE  Count(f, s) = k - 1 /\ k \in 1 .. Len(f) + 1 /\ Len(f) \in Nat
<1>1. k \in 1 .. Len(f) + 1
  BY DEF IsAt
<1>2. Len(f) \in Nat
  BY FormHas
<1>3. Bounds(s) = Len(f) + 1 - k
  BY AtBounds
<1> QED BY <1>1, <1>2, <1>3 DEF Count

\* In front of the form no part was received.
LEMMA CountFront ==
    ASSUME NEW f, IsForm(f), NEW s, Ahead(f, s)
    PROVE  Count(f, s) = 0
<1>1. Bounds(s) = Len(f) + 1 /\ Len(f) \in Nat
  BY FrontMoves
<1> QED BY <1>1 DEF Count

\* The section in work holds the beginning of its part.
LEMMA SpotBegins ==
    ASSUME NEW f, IsForm(f), NEW k \in 1 .. Len(f), NEW o, NEW sec, NEW ns, NEW hn, NEW hv,
           Spot(f, k, o, sec, ns, hn, hv)
    PROVE  Begins(sec, f[k])
<1>1. CASE OutOfHead(sec)
  <2>1. Where(f[k], o, sec, ns, hn, hv)
    BY <1>1, OneState, SpotIn
  <2>2. BodyWhere(f[k], o, sec, hn)
    BY <1>1, <2>1, WhereBody
  <2>3. PICK b \in 0 .. Len(Codes(f[k])) : BodyRead(sec, f[k], b, hn)
    BY <2>2 DEF BodyWhere
  <2>4. InBody(sec, f[k], b) /\ IsPart(f[k])
    BY <2>3, PartOf DEF BodyRead
  <2>5. /\ sec.type = "text" => IsPrefix(sec.body, f[k].content)
        /\ sec.type = "file" => IsPrefix(sec.data, f[k].content)
    BY <2>4, InBodyHas
  <2> QED BY <2>5 DEF Begins
<1>2. CASE ~OutOfHead(sec)
  BY <1>2 DEF OutOfHead, Begins
<1> QED BY <1>1, <1>2

\* While it is read, and when it breaks off, a form is kept.
LEMMA ReadyKeeps ==
    ASSUME NEW f, IsForm(f), NEW s, NEW obj, NEW sec, NEW ns, NEW hn, NEW hv,
           Ready(f, s, obj, sec, ns, hn, hv)
    PROVE  /\ Len(obj) = Count(f, s) /\ obj \in Seq(Range(obj))
           /\ \A i \in 1 .. Count(f, s) : Holds(obj[i], f[i])
           /\ StartOf(f, s, sec)
<1>1. CASE Ahead(f, s) /\ sec = NewSection("sync") /\ obj = <<>>
  <2>1. Count(f, s) = 0 /\ sec.type = "sync"
    BY <1>1, CountFront, NewIsSection
  <2>2. StartOf(f, s, sec)
    BY <2>1 DEF StartOf, Begins
  <2>3. Len(obj) = 0 /\ obj \in Seq(Range(obj))
    BY <1>1
  <2> QED BY <2>1, <2>2, <2>3
<1>2. ASSUME NEW k, NEW o, IsAt(f, s, k, o), Kept(obj, f, k), Spot(f, k, o, sec, ns, hn, hv)
      PROVE  /\ Len(obj) = Count(f, s) /\ obj \in Seq(Range(obj))
             /\ \A i \in 1 .. Count(f, s) : Holds(obj[i], f[i])
             /\ StartOf(f, s, sec)
  <2>1. Count(f, s) = k - 1 /\ k \in 1 .. Len(f) + 1 /\ Len(f) \in Nat
    BY <1>2, CountAt
  <2>2. Stored(obj, f, k - 1)
    BY <1>2 DEF Kept
  <2>3. ASSUME Count(f, s) < Len(f) PROVE Begins(sec, f[Count(f, s) + 1])
    <3>1. k \in 1 .. Len(f) /\ Count(f, s) + 1 = k
      BY <2>1, <2>3
    <3>2. Begins(sec, f[k])
      BY <1>2, <3>1, SpotBegins
    <3> QED BY <3>1, <3>2
  <2> QED BY <2>1, <2>2, <2>3 DEF Stored, StartOf
<1> QED BY <1>1, <1>2 DEF Ready

\* A form that is read, or that breaks off, has its parts in order.
LEMMA ReadyKept ==
    ASSUME NEW f, IsForm(f), NEW s, NEW obj, NEW sec, NEW ns, NEW hn, NEW hv,
           Ready(f, s, obj, sec, ns, hn, hv),
           NEW out \in {"reading", "broken", "failed"}
    PROVE  /\ KeptOf(f, s, obj, out)
           /\ out \in {"reading", "broken"} => StartOf(f, s, sec)
<1>1. /\ Len(obj) = Count(f, s) /\ obj \in Seq(Range(obj))
      /\ \A i \in 1 .. Count(f, s) : Holds(obj[i], f[i])
      /\ StartOf(f, s, sec)
  BY ReadyKeeps
<1>2. Len(obj) \in Nat
  BY <1>1, LenProperties
<1>3. Count(f, s) + 0 = Count(f, s)
  BY <1>1, <1>2
<1> QED BY <1>1, <1>3 DEF KeptOf

\* So it is where the connection ends and the section in work is kept too.
LEMMA ReadyEnds ==
    ASSUME NEW f, IsForm(f), NEW s, NEW obj, NEW sec, NEW ns, NEW hn, NEW hv,
           Ready(f, s, obj, sec, ns, hn, hv), NEW r, r = Append(obj, sec)
    PROVE  KeptOf(f, s, r, "ended") /\ StartOf(f, s, r[Len(r)])
<1>1. /\ Len(obj) = Count(f, s) /\ obj \in Seq(Range(obj))
      /\ \A i \in 1 .. Count(f, s) : Holds(obj[i], f[i])
      /\ StartOf(f, s, sec)
  BY ReadyKeeps
<1>2. Len(obj) \in Nat
  BY <1>1, LenProperties
<1>3. obj \in Seq(Range(obj) \cup {sec}) /\ sec \in Range(obj) \cup {sec}
  BY <1>1, SeqMonotonic
<1>4. /\ Len(r) = Len(obj) + 1 /\ r[Len(obj) + 1] = sec
      /\ \A i \in 1 .. Len(obj) : r[i] = obj[i]
  BY <1>3, AppendProperties
<1> QED BY <1>1, <1>2, <1>4 DEF KeptOf

\* At its closing boundary a form has all its parts.
LEMMA ReadyCompletes ==
    ASSUME NEW f, IsForm(f), NEW s, NEW obj, Kept(obj, f, Len(f) + 1),
           IsAt(f, s, Len(f) + 1, 3)
    PROVE  KeptOf(f, s, obj, "complete")
<1>1. Count(f, s) = Len(f) /\ Len(f) \in Nat
  <2>1. Count(f, s) = (Len(f) + 1) - 1 /\ Len(f) \in Nat
    BY CountAt
  <2> QED BY <2>1
<1>2. Stored(obj, f, Len(f))
  <2>1. (Len(f) + 1) - 1 = Len(f)
    BY <1>1
  <2> QED BY <2>1 DEF Kept
<1>3. s = <<Return, NewLine>>
  BY AtEnd
<1> QED BY <1>1, <1>2, <1>3 DEF KeptOf, Stored

\* The inductive invariant: where parse_form_data is in the form, as far as that can
\* be said of any form, and exactly in a form of known types.
Reading ==
    /\ Loose(form, input, section, nameState)
    /\ AllKnown(form) =>
          Ready(form, input, objects, section, nameState, headerName, headerValue)
KeptInv ==
    /\ form \in Forms
    /\ outcome = "reading" => Reading
    /\ outcome # "reading" => KeepsForm(form, input, objects, section, outcome)

\* The invariant says that the form is kept.
LEMMA KeptNow == ASSUME KeptInv PROVE FormIsKept
<1>1. IsForm(form) /\ form \in Forms
  BY FormsAre DEF KeptInv
<1>2. CASE outcome = "reading"
  <2>1. ASSUME AllKnown(form)
        PROVE  KeptOf(form, input, objects, outcome) /\ StartOf(form, input, section)
    <3>1. Ready(form, input, objects, section, nameState, headerName, headerValue)
      BY <1>2, <2>1 DEF KeptInv, Reading
    <3> QED BY <1>1, <1>2, <3>1, ReadyKept
  <2>2. KeepsForm(form, input, objects, section, outcome)
    BY <1>2, <2>1 DEF KeepsForm
  <2> QED BY <1>1, <2>2, KeepsIt
<1>3. CASE outcome # "reading"
  BY <1>1, <1>3, KeepsIt DEF KeptInv
<1> QED BY <1>2, <1>3

\* It holds where the form begins to arrive.
LEMMA KeptInit == ASSUME Init PROVE KeptInv
<1>1. form \in Forms /\ outcome = "reading" /\ IsForm(form)
  BY FormsAre DEF Init
<1>2. PICK first \in {"header", "sync"}, preamble \in BOOLEAN :
          /\ section = NewSection(first)
          /\ input = IF first = "header" THEN Tail(FormSent(form))
                     ELSE (IF preamble THEN <<Ch(80)>> ELSE <<>>) \o FormSent(form)
  BY DEF Init
<1>3. nameState = "enter_sync" /\ headerName = <<>> /\ objects = <<>>
  BY DEF Init
<1>4. CASE first = "header"
  <2>1. IsAt(form, input, 1, 1)
    BY <1>1, <1>2, <1>4, AtFirst
  <2>2. Fresh(section) /\ IsSection(section) /\ section.type = "header"
    BY <1>2, <1>4, NewIsFresh, NewIsSection
  <2>3. Awake(section, nameState, 1)
    BY <1>3, <2>2 DEF Awake, InHead
  <2>4. Sync1(section, nameState, headerName)
    BY <1>3, <2>2 DEF Sync1
  <2>5. Spot(form, 1, 1, section, nameState, headerName, headerValue)
    BY <2>4 DEF Spot
  <2>6. Kept(objects, form, 1)
    BY <1>3, NothingStored
  <2>7. Loose(form, input, section, nameState)
    BY <2>1, <2>3 DEF Loose
  <2>8. Ready(form, input, objects, section, nameState, headerName, headerValue)
    BY <2>1, <2>5, <2>6 DEF Ready
  <2> QED BY <1>1, <2>7, <2>8 DEF KeptInv, Reading
<1>5. CASE first = "sync"
  <2>1. Ahead(form, input)
    <3>1. CASE preamble
      BY <1>2, <1>5, <3>1 DEF Ahead
    <3>2. CASE ~preamble
      <4>1. input = <<>> \o FormSent(form)
        BY <1>2, <1>5, <3>2
      <4>2. FormSent(form) \in Seq(Symbols(WordsIn(form)))
        BY <1>1, AtFirst
      <4>3. <<>> \o FormSent(form) = FormSent(form)
        BY <4>2
      <4> QED BY <4>1, <4>3 DEF Ahead
    <3> QED BY <3>1, <3>2
  <2>2. section = NewSection("sync")
    BY <1>2, <1>5
  <2> QED BY <1>1, <1>3, <2>1, <2>2 DEF KeptInv, Reading, Loose, Ready
<1> QED BY <1>2, <1>4, <1>5

\* Only a character behind a boundary ends a turn.
LEMMA TurnGoesOn ==
    ASSUME Turn
    PROVE  form' = form /\ (outcome' = outcome \/ (\E c : EnterSync(c)) \/ (\E c : SecondSync(c)))
BY DEF Turn, StartsForm, BoundInHeader, EndsSection, Skip, NameChar, ValueChar, HeaderEnds,
       HeaderLineEnds, TextChar, FileChar, EnterSync, SecondSync, InHeader, Taken

\* A turn of parse_form_data keeps it.
LEMMA KeptTurn == ASSUME KeptInv, outcome = "reading", Turn PROVE KeptInv'
<1>1. form \in Forms /\ Loose(form, input, section, nameState) /\ IsForm(form)
  BY FormsAre DEF KeptInv, Reading
<1>2. Reads
  BY <1>1 DEF Reads
<1>3. ReadsOn
  BY <1>2, LooseTurn
<1>4. form' = form
  BY TurnGoesOn
<1>5. CASE outcome' = "reading"
  <2>1. Loose(form', input', section', nameState')
    BY <1>3, <1>5 DEF ReadsOn
  <2>2. ASSUME AllKnown(form)
        PROVE  Ready(form', input', objects', section', nameState', headerName', headerValue')
    <3>1. Works
      BY <1>1, <2>2 DEF Works, KeptInv, Reading
    <3>2. WorksOn
      BY <1>2, <1>5, <3>1, ReadyTurn
    <3> QED BY <3>2 DEF WorksOn
  <2>3. Reading'
    BY <1>4, <2>1, <2>2 DEF Reading
  <2> QED BY <1>1, <1>4, <1>5, <2>3 DEF KeptInv
<1>6. CASE outcome' # "reading"
  <2>1. outcome' # "thrown"
    BY <1>3 DEF ReadsOn
  <2>2. PICK c : SecondSync(c)
    <3>1. ASSUME NEW c, EnterSync(c) PROVE FALSE
      <4>1. outcome' = "thrown" \/ outcome' = outcome
        BY <3>1 DEF EnterSync, Throws
      <4> QED BY <1>6, <2>1, <4>1
    <3> QED BY <1>6, <3>1, TurnGoesOn
  <2>3. c = Dash /\ outcome' = "complete"
    <3>1. c = NewLine => outcome' = outcome
      BY <2>2, SymbolsDiffer DEF SecondSync
    <3>2. c # Dash /\ c # NewLine => outcome' = "thrown"
      BY <2>2 DEF SecondSync, Throws
    <3>3. c = Dash => outcome' = "complete"
      BY <2>2, SymbolsDiffer DEF SecondSync
    <3> QED BY <1>6, <2>1, <3>1, <3>2, <3>3
  <2>4. objects' = objects /\ input' = Tail(input) /\ Dash # NewLine
    BY <2>2, SymbolsDiffer DEF SecondSync, InHeader, Taken
  <2>5. ASSUME AllKnown(form) PROVE KeptOf(form, input', objects', "complete")
    <3>1. Works
      BY <1>1, <2>5 DEF Works, KeptInv, Reading
    <3>2. PICK k : /\ Kept(objects, form, k) /\ AtChar(form, input, k, 2)
                   /\ \/ c = NewLine /\ k \in 1 .. Len(form)
                      \/ c = Dash /\ k = Len(form) + 1
      BY <2>2, <3>1, SecondCharacter
    <3>3. k = Len(form) + 1
      BY <2>3, <2>4, <3>2
    <3>4. IsAt(form, Tail(input), k, 3)
      BY <3>2 DEF AtChar
    <3> QED BY <1>1, <2>4, <3>2, <3>3, <3>4, ReadyCompletes
  <2>6. KeepsForm(form', input', objects', section', outcome')
    BY <1>4, <2>3, <2>5 DEF KeepsForm
  <2> QED BY <1>1, <1>4, <1>6, <2>6 DEF KeptInv
<1> QED BY <1>5, <1>6

\* The end of the connection keeps it.
LEMMA KeptEnds == ASSUME KeptInv, ConnectionEnds PROVE KeptInv'
<1>1. form \in Forms /\ IsForm(form) /\ outcome = "reading" /\ form' = form /\ input' = input
  BY FormsAre DEF KeptInv, ConnectionEnds, sent
<1>2. CASE section.state # "sync"
  <2>1. objects' = Append(objects, section) /\ outcome' = "ended"
    BY <1>2 DEF ConnectionEnds
  <2>2. ASSUME AllKnown(form)
        PROVE  KeptOf(form, input, objects', "ended")
               /\ StartOf(form, input, objects'[Len(objects')])
    <3>1. Ready(form, input, objects, section, nameState, headerName, headerValue)
      BY <1>1, <2>2 DEF KeptInv, Reading
    <3> QED BY <1>1, <2>1, <3>1, ReadyEnds
  <2>3. KeepsForm(form', input', objects', section', outcome')
    BY <1>1, <2>1, <2>2 DEF KeepsForm
  <2> QED BY <1>1, <2>1, <2>3 DEF KeptInv
<1>3. CASE section.state = "sync"
  <2>1. objects' = objects /\ outcome' = "failed"
    BY <1>3 DEF ConnectionEnds
  <2>2. ASSUME AllKnown(form) PROVE KeptOf(form, input, objects, "failed")
    <3>1. Ready(form, input, objects, section, nameState, headerName, headerValue)
      BY <1>1, <2>2 DEF KeptInv, Reading
    <3> QED BY <1>1, <3>1, ReadyKept
  <2>3. KeepsForm(form', input', objects', section', outcome')
    BY <1>1, <2>1, <2>2 DEF KeepsForm
  <2> QED BY <1>1, <2>1, <2>3 DEF KeptInv
<1> QED BY <1>2, <1>3

\* A failing socket keeps it.
LEMMA KeptFails == ASSUME KeptInv, SocketFails PROVE KeptInv'
<1>1. /\ form \in Forms /\ IsForm(form) /\ outcome = "reading" /\ form' = form /\ input' = input
      /\ objects' = objects /\ section' = section /\ outcome' = "broken"
  BY FormsAre DEF KeptInv, SocketFails, sent
<1>2. ASSUME AllKnown(form)
      PROVE  KeptOf(form, input, objects, "broken") /\ StartOf(form, input, section)
  <2>1. Ready(form, input, objects, section, nameState, headerName, headerValue)
    BY <1>1, <1>2 DEF KeptInv, Reading
  <2> QED BY <1>1, <2>1, ReadyKept
<1>3. KeepsForm(form', input', objects', section', outcome')
  BY <1>1, <1>2 DEF KeepsForm
<1> QED BY <1>1, <1>3 DEF KeptInv

\* For every form: as long as parse_form_data knows the types of the parts, what it has kept is
\* the parts in order, each with its name and its decoded bytes; the section in work holds the
\* beginning of the next part, also when the connection ends there; and no form of a browser,
\* whatever its types, makes it throw a sync error.
THEOREM FormKept == Spec => []FormIsKept
<1>1. Init => KeptInv
  BY KeptInit
<1>2. KeptInv /\ [Next]_vars => KeptInv'
  <2> SUFFICES ASSUME KeptInv, [Next]_vars PROVE KeptInv'
    OBVIOUS
  <2>1. CASE Turn
    <3>1. outcome = "reading"
      BY <2>1 DEF Turn, StartsForm, BoundInHeader, EndsSection, Skip, NameChar, ValueChar,
            HeaderEnds, HeaderLineEnds, TextChar, FileChar, EnterSync, SecondSync, InHeader, Taken
    <3> QED BY <2>1, <3>1, KeptTurn
  <2>2. CASE ConnectionEnds
    BY <2>2, KeptEnds
  <2>3. CASE SocketFails
    BY <2>3, KeptFails
  <2>4. CASE DeleteForm
    <3>1. form' = form /\ outcome' = "deleted" /\ form \in Forms
      BY <2>4 DEF DeleteForm, sent, KeptInv
    <3>2. KeepsForm(form', input', objects', section', outcome')
      BY <3>1 DEF KeepsForm
    <3> QED BY <3>1, <3>2 DEF KeptInv
  <2>5. CASE UNCHANGED vars
    BY <2>5 DEF vars, KeptInv, Reading
  <2> QED BY <2>1, <2>2, <2>3, <2>4, <2>5 DEF Next
<1>3. KeptInv => FormIsKept
  BY KeptNow
<1> QED BY <1>1, <1>2, <1>3, PTL DEF Spec
=============================================================================
