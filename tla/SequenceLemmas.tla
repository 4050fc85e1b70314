---------------------------- MODULE SequenceLemmas ----------------------------
(***************************************************************************)
(* Facts about numbers and sequences that several proofs need: a set of    *)
(* numbers has a smallest one, and what FlattenSeq puts where.             *)
(***************************************************************************)
EXTENDS Integers, SequencesExt, WellFoundedInduction, SequenceTheorems, TLAPS

\* A set of numbers has a smallest one.
LEMMA Smallest ==
    ASSUME NEW T, T \subseteq Nat, T # {}
    PROVE  \E x \in T : \A t \in T : x <= t
<1> DEFINE Below == {ss \in Nat \X Nat : ss[1] < ss[2]}
<1>1. IsWellFoundedOn(Below, Nat)
  BY NatLessThanWellFounded DEF OpToRel
<1>2. PICK x \in T : \A t \in T : ~ (<<t, x>> \in Below)
  BY <1>1, WFMin
<1>3. \A t \in T : x <= t
  <2> SUFFICES ASSUME NEW t \in T PROVE ~(t < x)
    OBVIOUS
  <2>1. t \in Nat /\ x \in Nat /\ ~(<<t, x>> \in Below)
    BY <1>2
  <2> QED BY <2>1
<1> QED BY <1>3

\* What is where when b is put behind a.
LEMMA PutBehind ==
    ASSUME NEW S, NEW a \in Seq(S), NEW b \in Seq(S)
    PROVE  /\ a \o b \in Seq(S) /\ Len(a) \in Nat /\ Len(b) \in Nat
           /\ Len(a \o b) = Len(a) + Len(b)
           /\ \A i \in 1 .. Len(a) : (a \o b)[i] = a[i]
           /\ \A i \in 1 .. Len(b) : (a \o b)[Len(a) + i] = b[i]
<1>1. Len(a) \in Nat /\ Len(b) \in Nat
  BY LenProperties
<1>2. /\ a \o b \in Seq(S) /\ Len(a \o b) = Len(a) + Len(b)
      /\ \A i \in 1 .. Len(a) + Len(b) :
            (a \o b)[i] = IF i <= Len(a) THEN a[i] ELSE b[i - Len(a)]
  BY ConcatProperties
<1>3. ASSUME NEW i \in 1 .. Len(b) PROVE (a \o b)[Len(a) + i] = b[i]
  <2>1. Len(a) + i \in 1 .. Len(a) + Len(b) /\ ~(Len(a) + i <= Len(a)) /\ (Len(a) + i) - Len(a) = i
    BY <1>1
  <2> QED BY <1>2, <2>1
<1>4. ASSUME NEW i \in 1 .. Len(a) PROVE (a \o b)[i] = a[i]
  <2>1. i \in 1 .. Len(a) + Len(b) /\ i <= Len(a)
    BY <1>1
  <2> QED BY <1>2, <2>1
<1> QED BY <1>1, <1>2, <1>3, <1>4

\* The same of four.
LEMMA FourBehind ==
    ASSUME NEW S, NEW a \in Seq(S), NEW f \in Seq(S), NEW e \in Seq(S), NEW b \in Seq(S),
           NEW s, s = ((a \o f) \o e) \o b
    PROVE  /\ s \in Seq(S) /\ Len(s) = Len(a) + Len(f) + Len(e) + Len(b)
           /\ \A i \in 1 .. Len(a) : s[i] = a[i]
           /\ \A i \in 1 .. Len(f) : s[Len(a) + i] = f[i]
           /\ \A i \in 1 .. Len(e) : s[Len(a) + Len(f) + i] = e[i]
           /\ \A i \in 1 .. Len(b) : s[Len(a) + Len(f) + Len(e) + i] = b[i]
<1>0. Len(a) \in Nat /\ Len(f) \in Nat /\ Len(e) \in Nat /\ Len(b) \in Nat
  BY LenProperties
<1>1. PICK x : x = a \o f
  OBVIOUS
<1>2. /\ x \in Seq(S) /\ Len(x) = Len(a) + Len(f)
      /\ \A i \in 1 .. Len(a) : x[i] = a[i]
      /\ \A i \in 1 .. Len(f) : x[Len(a) + i] = f[i]
  <2>1. /\ a \o f \in Seq(S) /\ Len(a \o f) = Len(a) + Len(f)
        /\ \A i \in 1 .. Len(a) : (a \o f)[i] = a[i]
        /\ \A i \in 1 .. Len(f) : (a \o f)[Len(a) + i] = f[i]
    BY PutBehind
  <2> QED BY <1>1, <2>1
<1>3. PICK y : y = x \o e
  OBVIOUS
<1>4. /\ y \in Seq(S) /\ Len(y) = Len(x) + Len(e)
      /\ \A i \in 1 .. Len(x) : y[i] = x[i]
      /\ \A i \in 1 .. Len(e) : y[Len(x) + i] = e[i]
  <2>1. /\ x \o e \in Seq(S) /\ Len(x \o e) = Len(x) + Len(e)
        /\ \A i \in 1 .. Len(x) : (x \o e)[i] = x[i]
        /\ \A i \in 1 .. Len(e) : (x \o e)[Len(x) + i] = e[i]
    <3>1. x \in Seq(S)
      BY <1>2
    <3> QED BY <3>1, PutBehind
  <2> QED BY <1>3, <2>1
<1>5. /\ s \in Seq(S) /\ Len(s) = Len(y) + Len(b)
      /\ \A i \in 1 .. Len(y) : s[i] = y[i]
      /\ \A i \in 1 .. Len(b) : s[Len(y) + i] = b[i]
  <2>1. /\ y \o b \in Seq(S) /\ Len(y \o b) = Len(y) + Len(b)
        /\ \A i \in 1 .. Len(y) : (y \o b)[i] = y[i]
        /\ \A i \in 1 .. Len(b) : (y \o b)[Len(y) + i] = b[i]
    <3>1. y \in Seq(S)
      BY <1>4
    <3> QED BY <3>1, PutBehind
  <2>2. s = y \o b
    BY <1>1, <1>3
  <2> QED BY <2>1, <2>2
<1>7. ASSUME NEW i \in 1 .. Len(a) + Len(f) PROVE s[i] = x[i]
  <2>1. i \in 1 .. Len(x) /\ i \in 1 .. Len(y)
    BY <1>0, <1>2, <1>4
  <2> QED BY <1>4, <1>5, <2>1
<1>8. ASSUME NEW i \in 1 .. Len(a) PROVE s[i] = a[i]
  <2>1. i \in 1 .. Len(a) + Len(f)
    BY <1>0
  <2> QED BY <1>2, <1>7, <2>1
<1>9. ASSUME NEW i \in 1 .. Len(f) PROVE s[Len(a) + i] = f[i]
  <2>1. Len(a) + i \in 1 .. Len(a) + Len(f)
    BY <1>0
  <2> QED BY <1>2, <1>7, <2>1
<1>10. ASSUME NEW i \in 1 .. Len(e) PROVE s[Len(a) + Len(f) + i] = e[i]
  <2>1. Len(x) + i \in 1 .. Len(y)
    BY <1>0, <1>2, <1>4
  <2> QED BY <1>2, <1>4, <1>5, <2>1
<1>11. Len(x) = Len(a) + Len(f) /\ Len(y) = Len(a) + Len(f) + Len(e)
  BY <1>2, <1>4
<1>12. \A i \in 1 .. Len(b) : s[Len(a) + Len(f) + Len(e) + i] = b[i]
  BY <1>5, <1>11
<1>13. s \in Seq(S) /\ Len(s) = Len(a) + Len(f) + Len(e) + Len(b)
  BY <1>5, <1>11
<1> QED BY <1>8, <1>9, <1>10, <1>12, <1>13

\* The first n sequences of ss, one after the other.
Flat(ss, n) == FlattenSeq([j \in 1 .. n |-> ss[j]])

\* What the recursion in FlattenSeq computes.
Flattens(f, ss, n) == f = [i \in 1 .. n |-> IF i = 1 THEN ss[i] ELSE f[i - 1] \o ss[i]]

\* One more sequence.
LEMMA FlattensOneMore ==
    ASSUME NEW ss, NEW n \in Nat, NEW f, Flattens(f, ss, n)
    PROVE  \E g : Flattens(g, ss, n + 1)
<1> DEFINE g == [i \in 1 .. n + 1 |-> IF i = n + 1
                   THEN IF i = 1 THEN ss[i] ELSE f[n] \o ss[i] ELSE f[i]]
<1>1. \A i \in 1 .. n : f[i] = IF i = 1 THEN ss[i] ELSE f[i - 1] \o ss[i]
  BY DEF Flattens
<1>2. ASSUME NEW i \in 1 .. n + 1
      PROVE  g[i] = IF i = 1 THEN ss[i] ELSE g[i - 1] \o ss[i]
  <2>1. CASE i = n + 1
    <3>1. i # 1 => i - 1 = n /\ n # n + 1 /\ n \in 1 .. n + 1
      BY <2>1
    <3> QED BY <2>1, <3>1
  <2>2. CASE i # n + 1
    <3>1. i \in 1 .. n /\ (i # 1 => i - 1 \in 1 .. n /\ i - 1 # n + 1 /\ i - 1 \in 1 .. n + 1)
      BY <2>2
    <3>2. g[i] = f[i] /\ (i # 1 => g[i - 1] = f[i - 1])
      BY <2>2, <3>1
    <3> HIDE DEF g
    <3> QED BY <1>1, <3>1, <3>2
  <2> QED BY <2>1, <2>2
<1>3. g = [i \in 1 .. n + 1 |-> g[i]]
  OBVIOUS
<1> HIDE DEF g
<1>4. [i \in 1 .. n + 1 |-> g[i]] =
      [i \in 1 .. n + 1 |-> IF i = 1 THEN ss[i] ELSE g[i - 1] \o ss[i]]
  BY <1>2
<1>5. Flattens(g, ss, n + 1)
  BY <1>3, <1>4, Zenon DEF Flattens
<1> QED BY <1>5

\* The recursion computes something, and only one thing.
LEMMA FlattensExists ==
    ASSUME NEW ss, NEW n \in Nat
    PROVE  \E f : Flattens(f, ss, n)
<1> DEFINE T == {m \in Nat : ~ \E f : Flattens(f, ss, m)}
<1> SUFFICES ASSUME n \in T PROVE FALSE
  OBVIOUS
<1>1. PICK m \in T : \A t \in T : m <= t
  BY Smallest
<1>2. m # 0
  <2> DEFINE f == [i \in 1 .. 0 |-> <<>>]
  <2>1. Flattens(f, ss, 0)
    BY DEF Flattens
  <2> QED BY <2>1, <1>1
<1>3. m - 1 \in Nat /\ m - 1 \notin T
  BY <1>1, <1>2
<1>4. \E g : Flattens(g, ss, (m - 1) + 1)
  BY <1>3, FlattensOneMore
<1>5. (m - 1) + 1 = m
  BY <1>1
<1> QED BY <1>1, <1>4, <1>5

\* Two functions that flatten agree where both are defined.
LEMMA FlattensUnique ==
    ASSUME NEW ss, NEW n \in Nat, NEW k \in 1 .. n,
           NEW f, Flattens(f, ss, n), NEW g, Flattens(g, ss, k)
    PROVE  f[k] = g[k]
<1> DEFINE T == {m \in 1 .. k : f[m] # g[m]}
<1> SUFFICES ASSUME T # {} PROVE FALSE
  BY DEF T
<1>0. T \subseteq Nat
  OBVIOUS
<1>1. PICK m \in T : \A t \in T : m <= t
  <2> HIDE DEF T
  <2> QED BY <1>0, Smallest
<1>2. /\ \A i \in 1 .. n : f[i] = IF i = 1 THEN ss[i] ELSE f[i - 1] \o ss[i]
      /\ \A i \in 1 .. k : g[i] = IF i = 1 THEN ss[i] ELSE g[i - 1] \o ss[i]
  BY DEF Flattens
<1>3. /\ f[m] = IF m = 1 THEN ss[m] ELSE f[m - 1] \o ss[m]
      /\ g[m] = IF m = 1 THEN ss[m] ELSE g[m - 1] \o ss[m]
  BY <1>1, <1>2
<1>4. m # 1 => f[m - 1] = g[m - 1]
  BY <1>1
<1> QED BY <1>1, <1>3, <1>4

\* FlattenSeq, one sequence at a time.
LEMMA FlatStep ==
    ASSUME NEW ss
    PROVE  /\ Flat(ss, 0) = <<>>
           /\ Flat(ss, 1) = ss[1]
           /\ \A n \in Nat \ {0} : Flat(ss, n + 1) = Flat(ss, n) \o ss[n + 1]
<1> DEFINE s(n) == [j \in 1 .. n |-> ss[j]]
<1>1. ASSUME NEW n \in Nat PROVE Len(s(n)) = n /\ (s(n) = <<>> <=> n = 0)
  OBVIOUS
<1>2. Flat(ss, 0) = <<>>
  BY <1>1 DEF Flat, FlattenSeq
<1>3. ASSUME NEW n \in Nat \ {0} PROVE Flat(ss, n) = (CHOOSE f : Flattens(f, ss, n))[n]
  <2>1. \A f : Flattens(f, s(n), n) <=> Flattens(f, ss, n)
    <3>1. ASSUME NEW f
          PROVE  [i \in 1 .. n |-> IF i = 1 THEN s(n)[i] ELSE f[i - 1] \o s(n)[i]]
               = [i \in 1 .. n |-> IF i = 1 THEN ss[i] ELSE f[i - 1] \o ss[i]]
      OBVIOUS
    <3> QED BY <3>1 DEF Flattens
  <2>2. Flat(ss, n) = FlattenSeq(s(n)) /\ Len(s(n)) = n
    BY <1>1 DEF Flat
  <2> HIDE DEF s
  <2>3. FlattenSeq(s(n)) = (CHOOSE f : Flattens(f, s(n), n))[n]
    BY <2>2 DEF FlattenSeq, Flattens
  <2>4. (CHOOSE f : Flattens(f, s(n), n)) = (CHOOSE f : Flattens(f, ss, n))
    BY <2>1
  <2> QED BY <2>2, <2>3, <2>4
<1>4. ASSUME NEW n \in Nat \ {0} PROVE \E f : Flattens(f, ss, n) /\ Flat(ss, n) = f[n]
  BY <1>3, FlattensExists
<1>0. ASSUME NEW n \in Nat, NEW f, Flattens(f, ss, n), NEW i \in 1 .. n
      PROVE  f[i] = IF i = 1 THEN ss[i] ELSE f[i - 1] \o ss[i]
  BY <1>0 DEF Flattens
<1>5. Flat(ss, 1) = ss[1]
  <2>1. PICK f : Flattens(f, ss, 1) /\ Flat(ss, 1) = f[1]
    BY <1>4
  <2>2. 1 \in Nat /\ 1 \in 1 .. 1
    OBVIOUS
  <2>3. f[1] = IF 1 = 1 THEN ss[1] ELSE f[1 - 1] \o ss[1]
    BY <1>0, <2>1, <2>2, Zenon
  <2> QED BY <2>1, <2>3
<1>6. ASSUME NEW n \in Nat \ {0} PROVE Flat(ss, n + 1) = Flat(ss, n) \o ss[n + 1]
  <2>1. PICK f : Flattens(f, ss, n) /\ Flat(ss, n) = f[n]
    BY <1>4
  <2>2. PICK g : Flattens(g, ss, n + 1) /\ Flat(ss, n + 1) = g[n + 1]
    BY <1>4
  <2>3. g[n] = f[n]
    <3>1. n \in 1 .. n + 1 /\ n + 1 \in Nat
      OBVIOUS
    <3> QED BY <3>1, <2>1, <2>2, FlattensUnique
  <2>4. g[n + 1] = g[n] \o ss[n + 1]
    <3>1. n + 1 \in Nat /\ n + 1 \in 1 .. n + 1 /\ n + 1 # 1 /\ (n + 1) - 1 = n
      OBVIOUS
    <3>2. g[n + 1] = IF n + 1 = 1 THEN ss[n + 1] ELSE g[(n + 1) - 1] \o ss[n + 1]
      BY <1>0, <2>2, <3>1, ZenonT(40)
    <3> QED BY <3>1, <3>2, Zenon
  <2> QED BY <2>1, <2>2, <2>3, <2>4
<1> QED BY <1>2, <1>5, <1>6

\* Induction, for a set of numbers.
LEMMA Reaches ==
    ASSUME NEW T, 0 \in T, \A n \in Nat : n \in T => n + 1 \in T
    PROVE  Nat \subseteq T
<1> DEFINE Out == {n \in Nat : n \notin T}
<1> SUFFICES ASSUME Out # {} PROVE FALSE
  OBVIOUS
<1>1. PICK m \in Out : \A t \in Out : m <= t
  BY Smallest
<1>2. m # 0 /\ m - 1 \in Nat /\ m - 1 \notin Out /\ (m - 1) + 1 = m
  BY <1>1
<1>3. m - 1 \in T
  BY <1>2
<1> QED BY <1>1, <1>2, <1>3

\* A bounded set of numbers has a largest one.
LEMMA Largest ==
    ASSUME NEW n \in Nat, NEW T, T \subseteq 0 .. n, T # {}
    PROVE  \E x \in T : \A t \in T : t <= x
<1> DEFINE Gaps == {n - t : t \in T}
<1>1. Gaps \subseteq Nat /\ Gaps # {}
  OBVIOUS
<1>2. PICK g \in Gaps : \A h \in Gaps : g <= h
  BY <1>1, Smallest
<1>3. PICK x \in T : g = n - x
  BY <1>2
<1>4. ASSUME NEW t \in T PROVE t <= x
  <2>1. n - t \in Gaps /\ t \in 0 .. n /\ x \in 0 .. n
    OBVIOUS
  <2>2. n - x <= n - t
    BY <1>2, <1>3, <2>1
  <2> QED BY <2>1, <2>2
<1> QED BY <1>3, <1>4

\* The sequences of ss lie behind one another: they are of the same elements, their
\* lengths add up, and what ss[k] holds is in Flat behind what the first k - 1 hold.
LEMMA FlatLength ==
    ASSUME NEW S, NEW ss \in Seq(Seq(S))
    PROVE  /\ FlattenSeq(ss) = Flat(ss, Len(ss))
           /\ \A n \in 0 .. Len(ss) : Flat(ss, n) \in Seq(S) /\ Len(Flat(ss, n)) \in Nat
           /\ \A n \in 0 .. Len(ss) - 1 :
                 /\ Flat(ss, n + 1) = Flat(ss, n) \o ss[n + 1]
                 /\ ss[n + 1] \in Seq(S)
                 /\ Len(Flat(ss, n + 1)) = Len(Flat(ss, n)) + Len(ss[n + 1])
           /\ Len(Flat(ss, 0)) = 0
<1>0. FlattenSeq(ss) = Flat(ss, Len(ss))
  <2>1. [j \in 1 .. Len(ss) |-> ss[j]] = ss
    BY LenProperties
  <2> QED BY <2>1 DEF Flat
<1>1. ASSUME NEW n \in 0 .. Len(ss) - 1, Flat(ss, n) \in Seq(S)
      PROVE  /\ Flat(ss, n + 1) = Flat(ss, n) \o ss[n + 1]
             /\ ss[n + 1] \in Seq(S) /\ Flat(ss, n + 1) \in Seq(S)
             /\ Len(Flat(ss, n + 1)) = Len(Flat(ss, n)) + Len(ss[n + 1])
  <2>1. ss[n + 1] \in Seq(S) /\ n \in Nat
    <3>1. n + 1 \in 1 .. Len(ss)
      BY LenProperties
    <3> QED BY <3>1, ElementOfSeq
  <2>2. Flat(ss, n + 1) = Flat(ss, n) \o ss[n + 1]
    <3>1. CASE n = 0
      <4>1. <<>> \o ss[1] = ss[1]
        BY <2>1, <3>1, ConcatEmptySeq
      <4>2. Flat(ss, n) = <<>> /\ Flat(ss, n + 1) = ss[1] /\ ss[n + 1] = ss[1]
        BY <3>1, FlatStep
      <4> QED BY <4>1, <4>2
    <3>2. CASE n # 0
      <4>1. n \in Nat \ {0}
        BY <2>1, <3>2
      <4> QED BY <4>1, FlatStep
    <3> QED BY <3>1, <3>2
  <2> QED BY <1>1, <2>1, <2>2, ConcatProperties, ZenonT(40)
<1> DEFINE T == {n \in Nat : n <= Len(ss) => Flat(ss, n) \in Seq(S)}
<1>2. 0 \in T
  BY FlatStep, EmptySeq
<1>3. ASSUME NEW n \in Nat, n \in T PROVE n + 1 \in T
  <2>1. Len(ss) \in Nat
    BY LenProperties
  <2>2. CASE n + 1 <= Len(ss)
    <3>1. n \in 0 .. Len(ss) - 1 /\ Flat(ss, n) \in Seq(S)
      BY <1>3, <2>1, <2>2
    <3> QED BY <1>1, <3>1
  <2> QED BY <2>1, <2>2
<1>4. Nat \subseteq T
  <2> HIDE DEF T
  <2> QED BY <1>2, <1>3, Reaches
<1>5. \A n \in 0 .. Len(ss) : Flat(ss, n) \in Seq(S)
  BY <1>4
<1>6. \A n \in 0 .. Len(ss) - 1 : n \in 0 .. Len(ss)
  BY LenProperties
<1>7. Len(Flat(ss, 0)) = 0
  BY FlatStep
<1> QED BY <1>0, <1>1, <1>5, <1>6, <1>7, LenProperties

\* Where the sequences stand, and that there is nothing else.
LEMMA FlatPositions ==
    ASSUME NEW S, NEW ss \in Seq(Seq(S)), NEW n \in 0 .. Len(ss)
    PROVE  /\ \A k \in 1 .. n : \A i \in 1 .. Len(ss[k]) :
                 /\ Len(Flat(ss, k - 1)) + i \in 1 .. Len(Flat(ss, n))
                 /\ Flat(ss, n)[Len(Flat(ss, k - 1)) + i] = ss[k][i]
           /\ \A p \in 1 .. Len(Flat(ss, n)) :
                 \E k \in 1 .. n : \E i \in 1 .. Len(ss[k]) :
                    p = Len(Flat(ss, k - 1)) + i
<1> DEFINE Stands(m) == \A k \in 1 .. m : \A i \in 1 .. Len(ss[k]) :
                 /\ Len(Flat(ss, k - 1)) + i \in 1 .. Len(Flat(ss, m))
                 /\ Flat(ss, m)[Len(Flat(ss, k - 1)) + i] = ss[k][i]
           Covers(m) == \A p \in 1 .. Len(Flat(ss, m)) :
                 \E k \in 1 .. m : \E i \in 1 .. Len(ss[k]) :
                    p = Len(Flat(ss, k - 1)) + i
           T == {m \in Nat : m <= Len(ss) => Stands(m) /\ Covers(m)}
<1>0. Len(ss) \in Nat
  BY LenProperties
<1>1. 0 \in T
  BY FlatLength
<1>2. ASSUME NEW m \in Nat, m \in T PROVE m + 1 \in T
  <2> SUFFICES ASSUME m + 1 <= Len(ss) PROVE Stands(m + 1) /\ Covers(m + 1)
    OBVIOUS
  <2>0. m \in 0 .. Len(ss) /\ m \in 0 .. Len(ss) - 1 /\ m <= Len(ss)
    BY <1>0
  <2>1. Stands(m) /\ Covers(m)
    BY <1>2, <2>0
  <2> DEFINE a == Flat(ss, m)  b == ss[m + 1]
  <2>2. /\ Flat(ss, m + 1) = a \o b
        /\ a \in Seq(S) /\ b \in Seq(S) /\ Len(a) \in Nat /\ Len(b) \in Nat
        /\ Len(Flat(ss, m + 1)) = Len(a) + Len(b)
    BY <2>0, FlatLength, LenProperties
  <2>3. \A i \in 1 .. Len(a) + Len(b) :
           Flat(ss, m + 1)[i] = IF i <= Len(a) THEN a[i] ELSE b[i - Len(a)]
    <3> HIDE DEF a, b
    <3> QED BY <2>2, ConcatProperties
  <2>4. ASSUME NEW k \in 1 .. m + 1, NEW i \in 1 .. Len(ss[k])
        PROVE  /\ Len(Flat(ss, k - 1)) + i \in 1 .. Len(Flat(ss, m + 1))
               /\ Flat(ss, m + 1)[Len(Flat(ss, k - 1)) + i] = ss[k][i]
    <3>1. CASE k \in 1 .. m
      <4>1. Len(Flat(ss, k - 1)) + i \in 1 .. Len(a) /\ a[Len(Flat(ss, k - 1)) + i] = ss[k][i]
        BY <2>1, <3>1
      <4> HIDE DEF a, b
      <4> QED BY <4>1, <2>2, <2>3
    <3>2. CASE k = m + 1
      <4>1. k - 1 = m /\ i \in 1 .. Len(b)
        BY <3>2
      <4>2. Flat(ss, k - 1) = a /\ ss[k] = b
        BY <4>1, <3>2
      <4> HIDE DEF a, b
      <4> QED BY <4>1, <4>2, <2>2, <2>3
    <3> QED BY <3>1, <3>2
  <2>5. ASSUME NEW p \in 1 .. Len(Flat(ss, m + 1))
        PROVE  \E k \in 1 .. m + 1 : \E i \in 1 .. Len(ss[k]) : p = Len(Flat(ss, k - 1)) + i
    <3>1. CASE p <= Len(a)
      <4>1. PICK k \in 1 .. m : \E i \in 1 .. Len(ss[k]) : p = Len(Flat(ss, k - 1)) + i
        <5>1. p \in 1 .. Len(a)
          BY <2>2, <3>1
        <5> QED BY <2>1, <5>1
      <4>2. k \in 1 .. m + 1
        OBVIOUS
      <4> QED BY <4>1, <4>2
    <3>2. CASE ~(p <= Len(a))
      <4>1. p - Len(a) \in 1 .. Len(b) /\ p = Len(a) + (p - Len(a))
        <5> HIDE DEF a, b
        <5> QED BY <2>2, <3>2
      <4>2. m + 1 \in 1 .. m + 1 /\ (m + 1) - 1 = m
        OBVIOUS
      <4> QED BY <4>1, <4>2
    <3> QED BY <3>1, <3>2
  <2> QED BY <2>4, <2>5
<1>3. Nat \subseteq T
  <2> HIDE DEF T
  <2> QED BY <1>1, <1>2, Reaches
<1>4. n \in T /\ n <= Len(ss)
  <2>1. n \in Nat /\ n <= Len(ss)
    BY <1>0
  <2> HIDE DEF T
  <2> QED BY <2>1, <1>3
<1> QED BY <1>4
=============================================================================
