------------------------- MODULE ProviderCall_proofs -------------------------
(***************************************************************************)
(* Proofs about ProviderCall, for every number of retries, answers of any  *)
(* length and every way to cut them into chunks.                           *)
(***************************************************************************)
EXTENDS ProviderCall, SequenceTheorems, WellFoundedInduction, TLAPS

-----------------------------------------------------------------------------
(* Induction.                                                              *)

\* A set of numbers has a least one.
LEMMA LeastNumber ==
    ASSUME NEW S, S \subseteq Nat, S # {}
    PROVE  \E x \in S : \A y \in S : x <= y
  <1> DEFINE Less == OpToRel(<, Nat)
  <1>1. PICK x \in S : \A y \in S : <<y, x>> \notin Less
    <2>1. IsWellFoundedOn(Less, Nat)
      BY NatLessThanWellFounded
    <2> HIDE DEF Less
    <2>2. QED
      BY <2>1, WFMin
  <1>2. \A y \in S : ~ (y < x)
    BY <1>1 DEF OpToRel
  <1>3. QED
    BY <1>2

\* A set of numbers with 0 and the successors of its members has them all.
LEMMA SetInduction ==
    ASSUME NEW T, 0 \in T, \A n \in Nat : n \in T => n + 1 \in T
    PROVE  \A n \in Nat : n \in T
  <1> SUFFICES ASSUME Nat \ T # {} PROVE FALSE
    OBVIOUS
  <1>1. PICK x \in Nat \ T : \A y \in Nat \ T : x <= y
    BY LeastNumber
  <1>2. x # 0 /\ x - 1 \in Nat
    OBVIOUS
  <1>3. x - 1 \in T
    BY <1>1, <1>2
  <1>4. (x - 1) + 1 = x
    BY <1>1
  <1>5. QED
    BY <1>1, <1>2, <1>3, <1>4

\* A set with the empty sequence and, with a sequence, every longer one by an element at its end.
LEMMA SequencesInduction ==
    ASSUME NEW S, NEW T, <<>> \in T,
           \A t \in Seq(S) : \A x \in S : t \in T => Append(t, x) \in T
    PROVE  \A t \in Seq(S) : t \in T
  <1> DEFINE U == {n \in Nat : \A t \in Seq(S) : Len(t) = n => t \in T}
  <1>1. 0 \in U
    <2>1. \A t \in Seq(S) : Len(t) = 0 => t = <<>>
      BY EmptySeq
    <2>2. QED
      BY <2>1
  <1>2. ASSUME NEW n \in Nat, n \in U
        PROVE  n + 1 \in U
    <2>1. SUFFICES ASSUME NEW t \in Seq(S), Len(t) = n + 1
                   PROVE  t \in T
      OBVIOUS
    <2> DEFINE front == SubSeq(t, 1, n)
    <2>2. front \in Seq(S) /\ Len(front) = n /\ \A i \in 1..n : front[i] = t[i]
      BY <2>1
    <2>3. t[n + 1] \in S
      BY <2>1
    <2>4. t = Append(front, t[n + 1])
      <3> HIDE DEF front
      <3>1. Append(front, t[n + 1]) \in Seq(S) /\ Len(Append(front, t[n + 1])) = n + 1
        BY <2>2, <2>3
      <3>2. \A i \in 1..(n + 1) : Append(front, t[n + 1])[i] = t[i]
        BY <2>2, <2>3
      <3>3. QED
        BY <2>1, <3>1, <3>2, SeqEqual
    <2>5. front \in T
      BY <1>2, <2>2
    <2> HIDE DEF front
    <2>6. QED
      BY <2>2, <2>3, <2>4, <2>5
  <1> HIDE DEF U
  <1>3. \A n \in Nat : n \in U
    BY <1>1, <1>2, SetInduction
  <1>4. QED
    BY <1>3, LenProperties DEF U

-----------------------------------------------------------------------------
(* Sequences.                                                              *)

LEMMA ConcatAppend ==
    ASSUME NEW S, NEW s \in Seq(S), NEW t \in Seq(S), NEW x \in S
    PROVE  s \o Append(t, x) = Append(s \o t, x)
  <1>1. Append(t, x) = t \o <<x>> /\ Append(s \o t, x) = (s \o t) \o <<x>> /\ <<x>> \in Seq(S)
    OBVIOUS
  <1>2. QED
    BY <1>1, ConcatAssociative

LEMMA TwoElements ==
    ASSUME NEW S, NEW x \in S, NEW y \in S
    PROVE  Append(<<x>>, y) = <<x, y>> /\ <<x>> \o <<y>> = <<x, y>>
  <1>1. <<x>> \in Seq(S) /\ Len(<<x>>) = 1 /\ <<x>>[1] = x
    OBVIOUS
  <1>2. <<x, y>> \in Seq(S) /\ Len(<<x, y>>) = 2 /\ <<x, y>>[1] = x /\ <<x, y>>[2] = y
    OBVIOUS
  <1> DEFINE longer == Append(<<x>>, y)
  <1>3. longer \in Seq(S) /\ Len(longer) = 2 /\ longer[1] = x /\ longer[2] = y
    BY <1>1, AppendProperties
  <1>4. longer = <<x>> \o <<y>>
    BY <1>1, AppendIsConcat
  <1> HIDE DEF longer
  <1>5. \A i \in 1..2 : longer[i] = <<x, y>>[i]
    BY <1>2, <1>3
  <1>6. longer = <<x, y>>
    BY <1>2, <1>3, <1>5, SeqEqual
  <1>7. QED
    BY <1>4, <1>6 DEF longer

LEMMA ConcatEqual ==
    ASSUME NEW S, NEW f \in Seq(S), NEW g \in Seq(S), NEW h \in Seq(S),
           Len(h) = Len(f) + Len(g),
           \A i \in 1..Len(f) : h[i] = f[i],
           \A i \in 1..Len(g) : h[Len(f) + i] = g[i]
    PROVE  h = f \o g
  <1>1. /\ f \o g \in Seq(S) /\ Len(f \o g) = Len(f) + Len(g)
        /\ \A i \in 1..(Len(f) + Len(g)) : (f \o g)[i] = IF i <= Len(f) THEN f[i] ELSE g[i - Len(f)]
        /\ Len(f) \in Nat /\ Len(g) \in Nat
    BY ConcatProperties
  <1>2. ASSUME NEW i \in 1..(Len(f) + Len(g))
        PROVE  h[i] = (f \o g)[i]
    <2>1. CASE i <= Len(f)
      BY <1>1, <2>1
    <2>2. CASE ~ (i <= Len(f))
      <3>1. i - Len(f) \in 1..Len(g) /\ Len(f) + (i - Len(f)) = i
        BY <1>1, <2>2
      <3>2. QED
        BY <1>1, <2>2, <3>1
    <2>3. QED
      BY <2>1, <2>2
  <1>3. QED
    BY <1>1, <1>2, SeqEqual

\* f has the concatenations of the first 1..n of seqs.
IsFlat(f, seqs, n) == f = [i \in 1..n |-> IF i = 1 THEN seqs[i] ELSE f[i - 1] \o seqs[i]]

LEMMA FlatExists ==
    ASSUME NEW seqs
    PROVE  \A n \in Nat : \E f : IsFlat(f, seqs, n)
  <1> DEFINE T == {n \in Nat : \E f : IsFlat(f, seqs, n)}
  <1>1. 0 \in T
    <2>1. IsFlat([i \in 1..0 |-> seqs], seqs, 0)
      BY DEF IsFlat
    <2>2. QED
      BY <2>1
  <1>2. ASSUME NEW n \in Nat, n \in T
        PROVE  n + 1 \in T
    <2>1. PICK f : IsFlat(f, seqs, n)
      BY <1>2
    <2> DEFINE last == IF n = 0 THEN seqs[1] ELSE f[n] \o seqs[n + 1]
    <2> DEFINE g == [i \in 1..(n + 1) |-> IF i = n + 1 THEN last ELSE f[i]]
    <2>2. \A i \in 1..n : f[i] = IF i = 1 THEN seqs[i] ELSE f[i - 1] \o seqs[i]
      BY <2>1 DEF IsFlat
    <2> HIDE DEF last
    <2>3. (\A i \in 1..n : g[i] = f[i]) /\ g[n + 1] = last
      OBVIOUS
    <2>4. g = [i \in 1..(n + 1) |-> g[i]]
      OBVIOUS
    <2> HIDE DEF g
    <2>5. ASSUME NEW i \in 1..(n + 1)
          PROVE  g[i] = IF i = 1 THEN seqs[i] ELSE g[i - 1] \o seqs[i]
      <3>1. CASE i \in 1..n
        BY <2>2, <2>3, <3>1
      <3>2. CASE i = n + 1
        BY <2>3, <3>2 DEF last
      <3>3. QED
        BY <3>1, <3>2
    <2>6. IsFlat(g, seqs, n + 1)
      BY <2>4, <2>5 DEF IsFlat
    <2>7. QED
      BY <2>6
  <1> HIDE DEF T
  <1>3. \A n \in Nat : n \in T
    BY <1>1, <1>2, SetInduction
  <1>4. QED
    BY <1>3 DEF T

\* The function that FlattenSeq is the last value of.
Flats(seqs) ==
    LET flatten[i \in 1..Len(seqs)] == IF i = 1 THEN seqs[i] ELSE flatten[i - 1] \o seqs[i]
    IN  flatten

LEMMA FlatSteps ==
    ASSUME NEW seqs, Len(seqs) \in Nat
    PROVE  \A i \in 1..Len(seqs) :
               Flats(seqs)[i] = IF i = 1 THEN seqs[i] ELSE Flats(seqs)[i - 1] \o seqs[i]
  <1>1. PICK f : IsFlat(f, seqs, Len(seqs))
    BY FlatExists
  <1>2. IsFlat(Flats(seqs), seqs, Len(seqs))
    BY <1>1 DEF IsFlat, Flats
  <1>3. QED
    BY <1>2 DEF IsFlat

LEMMA FlattenIsFlat ==
    ASSUME NEW seqs, Len(seqs) # 0
    PROVE  FlattenSeq(seqs) = Flats(seqs)[Len(seqs)]
  BY DEF FlattenSeq, Flats

LEMMA FlattenEmpty ==
    ASSUME NEW S
    PROVE  FlattenSeq(<<>>) = <<>>
  BY DEF FlattenSeq

LEMMA FlattenAppend ==
    ASSUME NEW S, NEW seqs \in Seq(Seq(S)), NEW e \in Seq(S)
    PROVE  FlattenSeq(Append(seqs, e)) = FlattenSeq(seqs) \o e
  <1> DEFINE n == Len(seqs)
  <1> DEFINE longer == Append(seqs, e)
  <1>1. n \in Nat /\ Len(longer) = n + 1 /\ longer[n + 1] = e /\ \A i \in 1..n : longer[i] = seqs[i]
    OBVIOUS
  <1> HIDE DEF longer
  <1>2. FlattenSeq(longer) = Flats(longer)[n + 1]
    BY <1>1, FlattenIsFlat
  <1>3. \A i \in 1..(n + 1) :
            Flats(longer)[i] = IF i = 1 THEN longer[i] ELSE Flats(longer)[i - 1] \o longer[i]
    BY <1>1, FlatSteps
  <1>4. CASE n = 0
    <2>1. FlattenSeq(seqs) = <<>>
      <3>1. seqs = <<>>
        BY <1>4, EmptySeq
      <3>2. QED
        BY <3>1, FlattenEmpty
    <2>2. FlattenSeq(longer) = e
      BY <1>1, <1>2, <1>3, <1>4
    <2>3. QED
      BY <2>1, <2>2 DEF longer
  <1>5. CASE n # 0
    <2>1. FlattenSeq(seqs) = Flats(seqs)[n]
      BY <1>5, FlattenIsFlat
    <2>2. \A i \in 1..n : Flats(seqs)[i] = IF i = 1 THEN seqs[i] ELSE Flats(seqs)[i - 1] \o seqs[i]
      BY <1>1, FlatSteps
    <2> DEFINE T == {m \in Nat : m \in 1..n => Flats(longer)[m] = Flats(seqs)[m]}
    <2>3. 0 \in T
      OBVIOUS
    <2>4. ASSUME NEW m \in Nat, m \in T
          PROVE  m + 1 \in T
      <3>1. SUFFICES ASSUME m + 1 \in 1..n
                     PROVE  Flats(longer)[m + 1] = Flats(seqs)[m + 1]
        OBVIOUS
      <3>2. CASE m = 0
        BY <1>1, <1>3, <2>2, <3>1, <3>2
      <3>3. CASE m # 0
        <4>1. m \in 1..n /\ (m + 1) - 1 = m /\ m + 1 # 1 /\ m + 1 \in 1..(n + 1)
          BY <1>1, <3>1, <3>3
        <4>2. Flats(longer)[m] = Flats(seqs)[m]
          BY <2>4, <4>1
        <4>3. Flats(longer)[m + 1] = Flats(longer)[m] \o longer[m + 1]
          BY <1>3, <4>1
        <4>4. Flats(seqs)[m + 1] = Flats(seqs)[m] \o seqs[m + 1]
          BY <2>2, <3>1, <4>1
        <4>5. QED
          BY <1>1, <3>1, <4>2, <4>3, <4>4
      <3>4. QED
        BY <3>2, <3>3
    <2> HIDE DEF T
    <2>5. \A m \in Nat : m \in T
      BY <2>3, <2>4, SetInduction
    <2>6. Flats(longer)[n] = Flats(seqs)[n]
      BY <1>1, <1>5, <2>5 DEF T
    <2>7. Flats(longer)[n + 1] = Flats(longer)[n] \o e
      <3>1. n + 1 \in 1..(n + 1) /\ n + 1 # 1 /\ (n + 1) - 1 = n
        BY <1>1, <1>5
      <3>2. QED
        BY <1>1, <1>3, <3>1
    <2>8. QED
      BY <1>2, <2>1, <2>6, <2>7 DEF longer
  <1>6. QED
    BY <1>4, <1>5

LEMMA FlattenType ==
    ASSUME NEW S, NEW seqs \in Seq(Seq(S))
    PROVE  FlattenSeq(seqs) \in Seq(S)
  <1> DEFINE T == {t \in Seq(Seq(S)) : FlattenSeq(t) \in Seq(S)}
  <1>1. <<>> \in T
    BY FlattenEmpty, EmptySeq
  <1>2. ASSUME NEW t \in Seq(Seq(S)), NEW x \in Seq(S), t \in T
        PROVE  Append(t, x) \in T
    <2>1. FlattenSeq(Append(t, x)) = FlattenSeq(t) \o x
      BY FlattenAppend
    <2>2. FlattenSeq(t) \in Seq(S)
      BY <1>2
    <2>3. FlattenSeq(t) \o x \in Seq(S) /\ Append(t, x) \in Seq(Seq(S))
      BY <2>2, ConcatProperties
    <2>4. QED
      BY <2>1, <2>3
  <1> HIDE DEF T
  <1>3. \A t \in Seq(Seq(S)) : t \in T
    BY <1>1, <1>2, SequencesInduction
  <1>4. QED
    BY <1>3 DEF T

LEMMA FlattenConcat ==
    ASSUME NEW S, NEW s \in Seq(Seq(S)), NEW u \in Seq(Seq(S))
    PROVE  FlattenSeq(s \o u) = FlattenSeq(s) \o FlattenSeq(u)
  <1> DEFINE T == {t \in Seq(Seq(S)) : FlattenSeq(s \o t) = FlattenSeq(s) \o FlattenSeq(t)}
  <1>1. <<>> \in T
    <2>1. s \o <<>> = s /\ FlattenSeq(s) \o <<>> = FlattenSeq(s)
      BY FlattenType, ConcatEmptySeq
    <2>2. QED
      BY <2>1, FlattenEmpty, EmptySeq
  <1>2. ASSUME NEW t \in Seq(Seq(S)), NEW x \in Seq(S), t \in T
        PROVE  Append(t, x) \in T
    <2>1. s \o Append(t, x) = Append(s \o t, x) /\ s \o t \in Seq(Seq(S)) /\ Append(t, x) \in Seq(Seq(S))
      <3>1. s \o Append(t, x) = Append(s \o t, x)
        BY ConcatAppend
      <3>2. s \o t \in Seq(Seq(S))
        BY ConcatProperties
      <3>3. Append(t, x) \in Seq(Seq(S))
        BY AppendProperties
      <3>4. QED
        BY <3>1, <3>2, <3>3
    <2>2. FlattenSeq(Append(s \o t, x)) = FlattenSeq(s \o t) \o x
      BY <2>1, FlattenAppend
    <2>3. FlattenSeq(Append(t, x)) = FlattenSeq(t) \o x
      BY FlattenAppend
    <2>4. (FlattenSeq(s) \o FlattenSeq(t)) \o x = FlattenSeq(s) \o (FlattenSeq(t) \o x)
      <3>1. FlattenSeq(s) \in Seq(S) /\ FlattenSeq(t) \in Seq(S)
        BY FlattenType
      <3>2. QED
        BY <3>1, ConcatAssociative, SMTT(30)
    <2>5. FlattenSeq(s \o t) = FlattenSeq(s) \o FlattenSeq(t)
      BY <1>2
    <2>6. FlattenSeq(s \o Append(t, x)) = FlattenSeq(s) \o FlattenSeq(Append(t, x))
      BY <2>1, <2>2, <2>3, <2>4, <2>5
    <2>7. QED
      BY <2>1, <2>6
  <1> HIDE DEF T
  <1>3. \A t \in Seq(Seq(S)) : t \in T
    BY <1>1, <1>2, SequencesInduction
  <1>4. QED
    BY <1>3 DEF T

-----------------------------------------------------------------------------
(* Cutting every character that can be cut.                                *)

Symbol == Stream!Symbol
Text == Seq(Symbol)

\* What is left when all that can be cut has been.
Rest == Symbol \ Wide

LEMMA MarksRemain == Stream!Marks \subseteq Rest /\ Stream!Marks \subseteq Symbol /\ Rest \subseteq Symbol
  BY CharactersAssumption DEF Rest, Symbol, Stream!Symbol, Stream!Character

Halves(symbol) == IF symbol \in Wide THEN <<"replacement", "replacement">> ELSE <<symbol>>

LEMMA HalvesType ==
    ASSUME NEW x \in Symbol
    PROVE  Halves(x) \in Seq(Rest) /\ Halves(x) \in Text /\ Halves(x) # <<>>
  <1>1. "replacement" \in Rest /\ "replacement" \in Symbol
    BY MarksRemain DEF Stream!Marks
  <1>2. x \notin Wide => x \in Rest
    BY DEF Rest
  <1>3. QED
    BY <1>1, <1>2 DEF Halves, Text

LEMMA CutEmpty == Cut(<<>>) = <<>>
  BY DEF Cut, FlattenSeq

LEMMA CutIsFlat ==
    ASSUME NEW s \in Text
    PROVE  /\ [i \in 1..Len(s) |-> Halves(s[i])] \in Seq(Seq(Rest))
           /\ Cut(s) = FlattenSeq([i \in 1..Len(s) |-> Halves(s[i])])
  <1>1. \A i \in 1..Len(s) : Halves(s[i]) \in Seq(Rest)
    BY HalvesType DEF Text
  <1>2. Len(s) \in Nat
    BY DEF Text
  <1>3. QED
    BY <1>1, <1>2 DEF Cut, Halves

LEMMA CutType ==
    ASSUME NEW s \in Text
    PROVE  Cut(s) \in Seq(Rest) /\ Cut(s) \in Text
  <1>1. Cut(s) \in Seq(Rest)
    BY CutIsFlat, FlattenType
  <1>2. QED
    BY <1>1, MarksRemain, SeqMonotonic DEF Text

LEMMA CutConcat ==
    ASSUME NEW s \in Text, NEW t \in Text
    PROVE  Cut(s \o t) = Cut(s) \o Cut(t)
  <1> DEFINE f == [i \in 1..Len(s) |-> Halves(s[i])]
  <1> DEFINE g == [i \in 1..Len(t) |-> Halves(t[i])]
  <1> DEFINE h == [i \in 1..Len(s \o t) |-> Halves((s \o t)[i])]
  <1>1. s \o t \in Text /\ Len(s) \in Nat /\ Len(t) \in Nat /\ Len(s \o t) = Len(s) + Len(t)
    BY DEF Text
  <1>2. f \in Seq(Seq(Rest)) /\ g \in Seq(Seq(Rest)) /\ h \in Seq(Seq(Rest))
    BY <1>1, CutIsFlat
  <1>3. Cut(s) = FlattenSeq(f) /\ Cut(t) = FlattenSeq(g) /\ Cut(s \o t) = FlattenSeq(h)
    BY <1>1, CutIsFlat
  <1>4. h = f \o g
    <2>1. Len(f) = Len(s) /\ Len(g) = Len(t) /\ Len(h) = Len(s) + Len(t)
      BY <1>1
    <2>2. f \o g \in Seq(Seq(Rest)) /\ Len(f \o g) = Len(s) + Len(t)
      BY <1>1, <1>2, <2>1, ConcatProperties
    <2>3. ASSUME NEW i \in 1..(Len(s) + Len(t))
          PROVE  h[i] = (f \o g)[i]
      <3>1. h[i] = Halves((s \o t)[i])
        BY <1>1
      <3>2. (s \o t)[i] = IF i <= Len(s) THEN s[i] ELSE t[i - Len(s)]
        BY <1>1 DEF Text
      <3>3. (f \o g)[i] = IF i <= Len(s) THEN f[i] ELSE g[i - Len(s)]
        <4> HIDE DEF f, g, h
        <4>1. QED
          BY <1>1, <1>2, <2>1, ConcatProperties
      <3>4. i <= Len(s) => f[i] = Halves(s[i])
        BY <1>1
      <3>5. i > Len(s) => g[i - Len(s)] = Halves(t[i - Len(s)])
        BY <1>1
      <3> HIDE DEF f, g, h
      <3>6. QED
        BY <1>1, <3>1, <3>2, <3>3, <3>4, <3>5
    <2> HIDE DEF f, g, h
    <2>4. QED
      BY <1>2, <2>1, <2>2, <2>3, SeqEqual
  <1> HIDE DEF f, g, h
  <1>5. FlattenSeq(f \o g) = FlattenSeq(f) \o FlattenSeq(g)
    BY <1>2, FlattenConcat
  <1>6. QED
    BY <1>3, <1>4, <1>5

LEMMA CutOne ==
    ASSUME NEW x \in Symbol
    PROVE  Cut(<<x>>) = Halves(x)
  <1> DEFINE f == [i \in 1..1 |-> Halves(<<x>>[i])]
  <1>1. <<x>> \in Text /\ Len(<<x>>) = 1 /\ <<x>>[1] = x
    BY DEF Text
  <1>2. f = Append(<<>>, Halves(x))
    OBVIOUS
  <1>3. Halves(x) \in Seq(Rest) /\ <<>> \in Seq(Seq(Rest))
    BY HalvesType
  <1>4. Cut(<<x>>) = FlattenSeq(f)
    BY <1>1, CutIsFlat
  <1> HIDE DEF f
  <1>5. FlattenSeq(f) = FlattenSeq(<<>>) \o Halves(x)
    BY <1>2, <1>3, FlattenAppend
  <1>6. FlattenSeq(<<>>) \o Halves(x) = Halves(x)
    BY <1>3, FlattenEmpty, ConcatEmptySeq
  <1>7. QED
    BY <1>4, <1>5, <1>6

LEMMA CutAppend ==
    ASSUME NEW s \in Text, NEW x \in Symbol
    PROVE  Cut(Append(s, x)) = Cut(s) \o Halves(x)
  <1>1. Append(s, x) = s \o <<x>> /\ <<x>> \in Text
    BY DEF Text
  <1>2. QED
    BY <1>1, CutConcat, CutOne

LEMMA CutRest ==
    ASSUME NEW s \in Seq(Rest)
    PROVE  s \in Text /\ Cut(s) = s
  <1>1. \A t \in Seq(Rest) : t \in Text
    BY MarksRemain, SeqMonotonic DEF Text
  <1> DEFINE T == {t \in Seq(Rest) : Cut(t) = t}
  <1>2. <<>> \in T
    BY CutEmpty, EmptySeq
  <1>3. ASSUME NEW t \in Seq(Rest), NEW x \in Rest, t \in T
        PROVE  Append(t, x) \in T
    <2>1. x \in Symbol /\ Halves(x) = <<x>>
      BY DEF Rest, Halves
    <2>2. Cut(Append(t, x)) = Cut(t) \o <<x>>
      BY <1>1, <2>1, CutAppend
    <2>3. Cut(t) = t /\ Append(t, x) = t \o <<x>> /\ Append(t, x) \in Seq(Rest)
      BY <1>3
    <2>4. QED
      BY <2>2, <2>3
  <1> HIDE DEF T
  <1>4. \A t \in Seq(Rest) : t \in T
    BY <1>2, <1>3, SequencesInduction
  <1>5. QED
    BY <1>1, <1>4 DEF T

-----------------------------------------------------------------------------
(* The decoder.                                                            *)

Decoder == [buffer : Text, frames : Seq(Text)]

Start(unfinished) == [buffer |-> unfinished, frames |-> <<>>]

IsFed(f, unfinished, text, n) ==
    f = [i \in 0..n |-> IF i = 0 THEN Start(unfinished) ELSE Stream!Feed(f[i - 1], text[i])]

LEMMA FedExists ==
    ASSUME NEW unfinished, NEW text
    PROVE  \A n \in Nat : \E f : IsFed(f, unfinished, text, n)
  <1> DEFINE T == {n \in Nat : \E f : IsFed(f, unfinished, text, n)}
  <1>1. 0 \in T
    <2>1. IsFed([i \in 0..0 |-> Start(unfinished)], unfinished, text, 0)
      BY DEF IsFed
    <2>2. QED
      BY <2>1
  <1>2. ASSUME NEW n \in Nat, n \in T
        PROVE  n + 1 \in T
    <2>1. PICK f : IsFed(f, unfinished, text, n)
      BY <1>2
    <2> DEFINE last == Stream!Feed(f[n], text[n + 1])
    <2> DEFINE g == [i \in 0..(n + 1) |-> IF i = n + 1 THEN last ELSE f[i]]
    <2>2. \A i \in 0..n : f[i] = IF i = 0 THEN Start(unfinished) ELSE Stream!Feed(f[i - 1], text[i])
      BY <2>1 DEF IsFed
    <2> HIDE DEF last
    <2>3. (\A i \in 0..n : g[i] = f[i]) /\ g[n + 1] = last
      OBVIOUS
    <2>4. g = [i \in 0..(n + 1) |-> g[i]]
      OBVIOUS
    <2> HIDE DEF g
    <2>5. ASSUME NEW i \in 0..(n + 1)
          PROVE  g[i] = IF i = 0 THEN Start(unfinished) ELSE Stream!Feed(g[i - 1], text[i])
      <3>1. CASE i \in 0..n
        BY <2>2, <2>3, <3>1
      <3>2. CASE i = n + 1
        BY <2>3, <3>2 DEF last
      <3>3. QED
        BY <3>1, <3>2
    <2>6. IsFed(g, unfinished, text, n + 1)
      BY <2>4, <2>5 DEF IsFed
    <2>7. QED
      BY <2>6
  <1> HIDE DEF T
  <1>3. \A n \in Nat : n \in T
    BY <1>1, <1>2, SetInduction
  <1>4. QED
    BY <1>3 DEF T

\* The function that Push is the last value of.
Feds(unfinished, text) ==
    LET fed[i \in 0..Len(text)] ==
          IF i = 0 THEN [buffer |-> unfinished, frames |-> <<>>] ELSE Stream!Feed(fed[i - 1], text[i])
    IN  fed

LEMMA FedSteps ==
    ASSUME NEW unfinished, NEW text, Len(text) \in Nat
    PROVE  /\ Stream!Push(unfinished, text) = Feds(unfinished, text)[Len(text)]
           /\ Feds(unfinished, text)[0] = Start(unfinished)
           /\ \A i \in 1..Len(text) :
                 Feds(unfinished, text)[i] = Stream!Feed(Feds(unfinished, text)[i - 1], text[i])
  <1>1. PICK f : IsFed(f, unfinished, text, Len(text))
    BY FedExists
  <1>2. IsFed(Feds(unfinished, text), unfinished, text, Len(text))
    BY <1>1 DEF IsFed, Feds, Start
  <1>3. Stream!Push(unfinished, text) = Feds(unfinished, text)[Len(text)]
    BY DEF Stream!Push, Feds
  <1>4. QED
    BY <1>2, <1>3 DEF IsFed

LEMMA PushEmpty ==
    ASSUME NEW unfinished
    PROVE  Stream!Push(unfinished, <<>>) = Start(unfinished)
  <1>1. Len(<<>>) = 0
    OBVIOUS
  <1>2. QED
    BY <1>1, FedSteps

LEMMA PushAppend ==
    ASSUME NEW unfinished, NEW text \in Text, NEW x \in Symbol
    PROVE  Stream!Push(unfinished, Append(text, x)) = Stream!Feed(Stream!Push(unfinished, text), x)
  <1> DEFINE n == Len(text)
  <1> DEFINE longer == Append(text, x)
  <1> DEFINE f == Feds(unfinished, text)
  <1> DEFINE g == Feds(unfinished, longer)
  <1>1. n \in Nat /\ Len(longer) = n + 1 /\ longer[n + 1] = x /\ \A i \in 1..n : longer[i] = text[i]
    BY DEF Text
  <1> HIDE DEF longer, n
  <1>2. /\ Stream!Push(unfinished, text) = f[n]
        /\ f[0] = Start(unfinished)
        /\ \A i \in 1..n : f[i] = Stream!Feed(f[i - 1], text[i])
    BY <1>1, FedSteps DEF n
  <1>3. /\ Stream!Push(unfinished, longer) = g[n + 1]
        /\ g[0] = Start(unfinished)
        /\ \A i \in 1..(n + 1) : g[i] = Stream!Feed(g[i - 1], longer[i])
    BY <1>1, FedSteps
  <1> HIDE DEF f, g
  <1> DEFINE T == {m \in Nat : m \in 0..n => g[m] = f[m]}
  <1>4. 0 \in T
    BY <1>2, <1>3
  <1>5. ASSUME NEW m \in Nat, m \in T
        PROVE  m + 1 \in T
    <2>1. SUFFICES ASSUME m + 1 \in 0..n
                   PROVE  g[m + 1] = f[m + 1]
      OBVIOUS
    <2>2. m \in 0..n /\ m + 1 \in 1..n /\ m + 1 \in 1..(n + 1) /\ (m + 1) - 1 = m
      BY <1>1, <2>1
    <2>3. g[m] = f[m] /\ longer[m + 1] = text[m + 1]
      BY <1>1, <1>5, <2>2
    <2>4. g[m + 1] = Stream!Feed(g[m], longer[m + 1]) /\ f[m + 1] = Stream!Feed(f[m], text[m + 1])
      BY <1>2, <1>3, <2>2
    <2>5. QED
      BY <2>3, <2>4
  <1> HIDE DEF T
  <1>6. \A m \in Nat : m \in T
    BY <1>4, <1>5, SetInduction
  <1>7. g[n] = f[n]
    BY <1>1, <1>6 DEF T
  <1>8. g[n + 1] = Stream!Feed(g[n], x)
    <2>1. n + 1 \in 1..(n + 1) /\ (n + 1) - 1 = n
      BY <1>1
    <2>2. QED
      BY <1>1, <1>3, <2>1
  <1>9. QED
    BY <1>2, <1>3, <1>7, <1>8 DEF longer

LEMMA DataType ==
    ASSUME NEW frame \in Text
    PROVE  Stream!DataOf(frame) \in Seq(Text)
  <1>1. Len(frame) > 1 => Tail(frame) \in Text
    BY DEF Text
  <1>2. QED
    BY <1>1 DEF Stream!DataOf

LEMMA FrontType ==
    ASSUME NEW S, NEW s \in Seq(S), s # <<>>
    PROVE  Front(s) \in Seq(S) /\ Last(s) \in S /\ s = Append(Front(s), Last(s))
  <1> DEFINE n == Len(s)
  <1>1. n \in Nat \ {0} /\ \A i \in 1..n : s[i] \in S
    BY EmptySeq
  <1>2. SubSeq(s, 1, n - 1) \in Seq(S) /\ Len(SubSeq(s, 1, n - 1)) = n - 1
        /\ \A i \in 1..(n - 1) : SubSeq(s, 1, n - 1)[i] = s[i]
    <2> HIDE DEF n
    <2>1. n - 1 \in Int /\ \A i \in 1..(n - 1) : s[i] \in S
      BY <1>1
    <2>2. /\ SubSeq(s, 1, n - 1) \in Seq(S)
          /\ Len(SubSeq(s, 1, n - 1)) = IF 1 <= n - 1 THEN n - 1 - 1 + 1 ELSE 0
          /\ \A i \in 1..(n - 1 - 1 + 1) : SubSeq(s, 1, n - 1)[i] = s[1 + i - 1]
      BY <2>1, SubSeqProperties
    <2>3. QED
      BY <1>1, <2>2
  <1>3. s[n] \in S
    <2> HIDE DEF n
    <2>1. n \in 1..n
      BY <1>1
    <2>2. QED
      BY <1>1, <2>1
  <1> DEFINE front == SubSeq(s, 1, n - 1)
  <1>4. s = Append(front, s[n])
    <2> HIDE DEF front
    <2>1. Append(front, s[n]) \in Seq(S) /\ Len(Append(front, s[n])) = n
      BY <1>1, <1>2, <1>3 DEF front
    <2>2. \A i \in 1..n : Append(front, s[n])[i] = s[i]
      BY <1>1, <1>2, <1>3 DEF front
    <2>3. QED
      BY <2>1, <2>2, SeqEqual
  <1>5. QED
    BY <1>2, <1>3, <1>4 DEF Front, Last

LEMMA StreamsOwn ==
    ASSUME NEW s
    PROVE  Stream!Front(s) = Front(s) /\ Stream!Last(s) = Last(s) /\ Stream!FlattenSeq(s) = FlattenSeq(s)
  BY DEF Stream!Front, Front, Stream!Last, Last, Stream!FlattenSeq, FlattenSeq

LEMMA FeedEnds ==
    ASSUME NEW decoder, NEW x, Stream!EndsFrame(decoder.buffer, x)
    PROVE  Stream!Feed(decoder, x) =
               [buffer |-> <<>>, frames |-> decoder.frames \o Stream!DataOf(Front(decoder.buffer))]
  BY StreamsOwn DEF Stream!Feed

LEMMA FeedGoesOn ==
    ASSUME NEW decoder \in Decoder, NEW x, ~ Stream!EndsFrame(decoder.buffer, x)
    PROVE  Stream!Feed(decoder, x) = [buffer |-> Append(decoder.buffer, x), frames |-> decoder.frames]
  BY DEF Stream!Feed, Decoder

\* A frame ends where a newline follows a newline.
LEMMA Ends ==
    ASSUME NEW b \in Text, NEW x
    PROVE  Stream!EndsFrame(b, x) <=> x = "newline" /\ b # <<>> /\ Last(b) = "newline"
  BY StreamsOwn DEF Stream!EndsFrame

LEMMA FeedType ==
    ASSUME NEW decoder \in Decoder, NEW x \in Symbol
    PROVE  Stream!Feed(decoder, x) \in Decoder
  <1>1. decoder.buffer \in Text /\ decoder.frames \in Seq(Text)
    BY DEF Decoder
  <1>2. CASE Stream!EndsFrame(decoder.buffer, x)
    <2>1. Front(decoder.buffer) \in Text
      BY <1>1, <1>2, FrontType, Ends DEF Text
    <2>2. decoder.frames \o Stream!DataOf(Front(decoder.buffer)) \in Seq(Text)
      BY <1>1, <2>1, DataType, ConcatProperties
    <2>3. <<>> \in Text
      BY DEF Text
    <2>4. Stream!Feed(decoder, x) =
              [buffer |-> <<>>, frames |-> decoder.frames \o Stream!DataOf(Front(decoder.buffer))]
      BY <1>2, FeedEnds
    <2>5. QED
      BY <2>2, <2>3, <2>4 DEF Decoder
  <1>3. CASE ~ Stream!EndsFrame(decoder.buffer, x)
    <2>1. Append(decoder.buffer, x) \in Text
      BY <1>1 DEF Text
    <2>2. Stream!Feed(decoder, x) = [buffer |-> Append(decoder.buffer, x), frames |-> decoder.frames]
      BY <1>3, FeedGoesOn
    <2>3. QED
      BY <1>1, <2>1, <2>2 DEF Decoder
  <1>4. QED
    BY <1>2, <1>3

LEMMA PushType ==
    ASSUME NEW b \in Text, NEW text \in Text
    PROVE  Stream!Push(b, text) \in Decoder
  <1> DEFINE T == {t \in Text : Stream!Push(b, t) \in Decoder}
  <1>1. <<>> \in T
    <2>1. <<>> \in Text /\ <<>> \in Seq(Text)
      BY DEF Text
    <2>2. Start(b) \in Decoder
      BY <2>1 DEF Start, Decoder
    <2>3. QED
      BY <2>1, <2>2, PushEmpty
  <1>2. ASSUME NEW t \in Text, NEW x \in Symbol, t \in T
        PROVE  Append(t, x) \in T
    <2>1. Append(t, x) \in Text
      BY DEF Text
    <2>2. Stream!Push(b, Append(t, x)) \in Decoder
      BY <1>2, PushAppend, FeedType
    <2>3. QED
      BY <2>1, <2>2
  <1> HIDE DEF T
  <1>3. \A t \in Text : t \in T
    BY <1>1, <1>2, SequencesInduction DEF Text
  <1>4. QED
    BY <1>3 DEF T

\* What the decoder makes of more text.
Then(decoder, text) ==
    LET more == Stream!Push(decoder.buffer, text)
    IN  [buffer |-> more.buffer, frames |-> decoder.frames \o more.frames]

LEMMA FeedAfter ==
    ASSUME NEW decoder \in Decoder, NEW x \in Symbol, NEW earlier \in Seq(Text)
    PROVE  Stream!Feed([buffer |-> decoder.buffer, frames |-> earlier \o decoder.frames], x) =
               [buffer |-> Stream!Feed(decoder, x).buffer, frames |-> earlier \o Stream!Feed(decoder, x).frames]
  <1> DEFINE b == decoder.buffer
  <1> DEFINE F == decoder.frames
  <1>1. b \in Text /\ F \in Seq(Text)
    BY DEF Decoder
  <1> DEFINE both == [buffer |-> b, frames |-> earlier \o F]
  <1>2. both.buffer = b /\ both.frames = earlier \o F
    OBVIOUS
  <1> HIDE DEF both
  <1>3. CASE Stream!EndsFrame(b, x)
    <2> DEFINE data == Stream!DataOf(Front(b))
    <2>1. data \in Seq(Text)
      BY <1>1, <1>3, FrontType, DataType, Ends DEF Text
    <2>2. Stream!Feed(both, x) = [buffer |-> <<>>, frames |-> (earlier \o F) \o data]
      BY <1>2, <1>3, FeedEnds
    <2>3. Stream!Feed(decoder, x) = [buffer |-> <<>>, frames |-> F \o data]
      BY <1>3, FeedEnds
    <2> HIDE DEF data, b, F
    <2>4. (earlier \o F) \o data = earlier \o (F \o data)
      BY <1>1, <2>1, ConcatAssociative
    <2>5. QED
      BY <2>2, <2>3, <2>4 DEF both, b, F
  <1>4. CASE ~ Stream!EndsFrame(b, x)
    <2>1. Stream!Feed(both, x) = [buffer |-> Append(b, x), frames |-> earlier \o F]
      <3>1. both \in Decoder
        BY <1>1, ConcatProperties DEF Decoder, both
      <3>2. QED
        BY <1>2, <1>4, <3>1, FeedGoesOn
    <2>2. Stream!Feed(decoder, x) = [buffer |-> Append(b, x), frames |-> F]
      BY <1>4, FeedGoesOn
    <2>3. QED
      BY <2>1, <2>2 DEF both
  <1>5. QED
    BY <1>3, <1>4

LEMMA ThenEmpty ==
    ASSUME NEW decoder \in Decoder
    PROVE  Then(decoder, <<>>) = decoder
  <1>1. decoder.buffer \in Text /\ decoder.frames \in Seq(Text)
        /\ decoder = [buffer |-> decoder.buffer, frames |-> decoder.frames]
    BY DEF Decoder
  <1>2. decoder.frames \o <<>> = decoder.frames
    BY <1>1, ConcatEmptySeq
  <1>3. Stream!Push(decoder.buffer, <<>>) = [buffer |-> decoder.buffer, frames |-> <<>>]
    BY PushEmpty DEF Start
  <1>4. QED
    BY <1>1, <1>2, <1>3 DEF Then

LEMMA ThenAppend ==
    ASSUME NEW decoder \in Decoder, NEW text \in Text, NEW x \in Symbol
    PROVE  Then(decoder, Append(text, x)) = Stream!Feed(Then(decoder, text), x)
  <1> DEFINE more == Stream!Push(decoder.buffer, text)
  <1>1. decoder.buffer \in Text /\ decoder.frames \in Seq(Text)
    BY DEF Decoder
  <1>2. more \in Decoder
    BY <1>1, PushType
  <1>3. Stream!Push(decoder.buffer, Append(text, x)) = Stream!Feed(more, x)
    BY PushAppend
  <1> HIDE DEF more
  <1>4. Then(decoder, text) = [buffer |-> more.buffer, frames |-> decoder.frames \o more.frames]
    BY DEF Then, more
  <1>5. Then(decoder, Append(text, x)) =
            [buffer |-> Stream!Feed(more, x).buffer, frames |-> decoder.frames \o Stream!Feed(more, x).frames]
    BY <1>3 DEF Then
  <1>6. QED
    BY <1>1, <1>2, <1>4, <1>5, FeedAfter

LEMMA ThenType ==
    ASSUME NEW decoder \in Decoder, NEW text \in Text
    PROVE  Then(decoder, text) \in Decoder
  <1> DEFINE more == Stream!Push(decoder.buffer, text)
  <1>1. decoder.buffer \in Text /\ decoder.frames \in Seq(Text)
    BY DEF Decoder
  <1>2. more.buffer \in Text /\ more.frames \in Seq(Text)
    BY <1>1, PushType DEF Decoder
  <1> HIDE DEF more
  <1>3. decoder.frames \o more.frames \in Seq(Text)
    BY <1>1, <1>2, ConcatProperties
  <1>4. QED
    BY <1>2, <1>3 DEF Then, more, Decoder

\* However a text is cut, the decoder makes the same of it.
LEMMA PushConcat ==
    ASSUME NEW b \in Text, NEW s \in Text, NEW u \in Text
    PROVE  Stream!Push(b, s \o u) = Then(Stream!Push(b, s), u)
  <1> DEFINE decoder == Stream!Push(b, s)
  <1> DEFINE T == {t \in Text : Stream!Push(b, s \o t) = Then(decoder, t)}
  <1>1. decoder \in Decoder
    BY PushType
  <1>2. <<>> \in T
    <2>1. s \o <<>> = s /\ <<>> \in Text
      BY ConcatEmptySeq DEF Text
    <2>2. QED
      BY <1>1, <2>1, ThenEmpty
  <1>3. ASSUME NEW t \in Text, NEW x \in Symbol, t \in T
        PROVE  Append(t, x) \in T
    <2>1. s \o Append(t, x) = Append(s \o t, x) /\ s \o t \in Text /\ Append(t, x) \in Text
      BY ConcatAppend, ConcatProperties DEF Text
    <2>2. Stream!Push(b, Append(s \o t, x)) = Stream!Feed(Stream!Push(b, s \o t), x)
      BY <2>1, PushAppend
    <2>3. Then(decoder, Append(t, x)) = Stream!Feed(Then(decoder, t), x)
      BY <1>1, ThenAppend
    <2>4. QED
      BY <1>3, <2>1, <2>2, <2>3
  <1> HIDE DEF T
  <1>4. \A t \in Text : t \in T
    BY <1>2, <1>3, SequencesInduction DEF Text
  <1>5. QED
    BY <1>4 DEF T

-----------------------------------------------------------------------------
(* The decoder and characters that are cut.                                *)

LEMMA CutAllType ==
    ASSUME NEW list \in Seq(Text)
    PROVE  /\ CutAll(list) \in Seq(Text)
           /\ Len(CutAll(list)) = Len(list)
           /\ \A i \in 1..Len(list) : CutAll(list)[i] = Cut(list[i])
  <1>1. Len(list) \in Nat /\ \A i \in 1..Len(list) : list[i] \in Text
    OBVIOUS
  <1>2. \A i \in 1..Len(list) : Cut(list[i]) \in Text
    BY <1>1, CutType
  <1>3. QED
    BY <1>1, <1>2 DEF CutAll

LEMMA CutAllEmpty == CutAll(<<>>) = <<>>
  BY DEF CutAll

LEMMA CutAllOne ==
    ASSUME NEW s \in Text
    PROVE  CutAll(<<s>>) = <<Cut(s)>>
  BY DEF CutAll

LEMMA CutAllConcat ==
    ASSUME NEW s \in Seq(Text), NEW t \in Seq(Text)
    PROVE  CutAll(s \o t) = CutAll(s) \o CutAll(t)
  <1>1. s \o t \in Seq(Text) /\ Len(s \o t) = Len(s) + Len(t) /\ Len(s) \in Nat /\ Len(t) \in Nat
        /\ \A i \in 1..(Len(s) + Len(t)) : (s \o t)[i] = IF i <= Len(s) THEN s[i] ELSE t[i - Len(s)]
    BY ConcatProperties, LenProperties
  <1> DEFINE f == CutAll(s)
  <1> DEFINE g == CutAll(t)
  <1> DEFINE h == CutAll(s \o t)
  <1>2. /\ f \in Seq(Text) /\ Len(f) = Len(s) /\ \A i \in 1..Len(s) : f[i] = Cut(s[i])
        /\ g \in Seq(Text) /\ Len(g) = Len(t) /\ \A i \in 1..Len(t) : g[i] = Cut(t[i])
    BY CutAllType
  <1>3. /\ h \in Seq(Text) /\ Len(h) = Len(s) + Len(t)
        /\ \A i \in 1..(Len(s) + Len(t)) : h[i] = Cut((s \o t)[i])
    BY <1>1, CutAllType
  <1> HIDE DEF f, g, h
  <1>4. /\ f \o g \in Seq(Text) /\ Len(f \o g) = Len(s) + Len(t)
        /\ \A i \in 1..(Len(s) + Len(t)) : (f \o g)[i] = IF i <= Len(s) THEN f[i] ELSE g[i - Len(s)]
    <2>1. /\ f \o g \in Seq(Text)
          /\ Len(f \o g) = Len(f) + Len(g)
          /\ \A i \in 1..(Len(f) + Len(g)) : (f \o g)[i] = IF i <= Len(f) THEN f[i] ELSE g[i - Len(f)]
      <3>1. f \in Seq(Text) /\ g \in Seq(Text)
        BY <1>2
      <3>2. QED
        BY <3>1, ConcatProperties
    <2>2. QED
      BY <1>2, <2>1
  <1>5. ASSUME NEW i \in 1..(Len(s) + Len(t))
        PROVE  h[i] = (f \o g)[i]
    <2>1. CASE i <= Len(s)
      <3>1. i \in 1..Len(s) /\ (s \o t)[i] = s[i] /\ (f \o g)[i] = f[i]
        BY <1>1, <1>4, <2>1
      <3>2. QED
        BY <1>2, <1>3, <3>1
    <2>2. CASE i > Len(s)
      <3>1. i - Len(s) \in 1..Len(t) /\ ~ (i <= Len(s))
        BY <1>1, <2>2
      <3>2. (s \o t)[i] = t[i - Len(s)] /\ (f \o g)[i] = g[i - Len(s)]
        BY <1>1, <1>4, <3>1
      <3>3. QED
        BY <1>2, <1>3, <3>1, <3>2
    <2>3. i <= Len(s) \/ i > Len(s)
      <3>1. Len(s) \in Nat /\ Len(t) \in Nat
        BY <1>1
      <3>2. QED
        BY <3>1
    <2>4. QED
      BY <2>1, <2>2, <2>3
  <1>6. h = f \o g
    BY <1>3, <1>4, <1>5, SeqEqual
  <1>7. QED
    BY <1>6 DEF f, g, h

LEMMA HeadFirst ==
    ASSUME NEW s \in Text, s # <<>>
    PROVE  Head(s) \in Symbol /\ Tail(s) \in Text /\ s = <<Head(s)>> \o Tail(s)
  BY DEF Text

LEMMA CutHead ==
    ASSUME NEW s \in Text, s # <<>>
    PROVE  Cut(s) = Halves(Head(s)) \o Cut(Tail(s))
  <1>1. Head(s) \in Symbol /\ Tail(s) \in Text /\ s = <<Head(s)>> \o Tail(s)
    BY HeadFirst
  <1>2. <<Head(s)>> \in Text
    BY <1>1 DEF Text
  <1>3. Cut(<<Head(s)>> \o Tail(s)) = Cut(<<Head(s)>>) \o Cut(Tail(s))
    BY <1>1, <1>2, CutConcat
  <1>4. QED
    BY <1>1, <1>3, CutOne

LEMMA CutNonempty ==
    ASSUME NEW s \in Text, s # <<>>
    PROVE  Len(Cut(s)) > 0
  <1>1. Head(s) \in Symbol /\ Tail(s) \in Text
    BY HeadFirst
  <1>2. Halves(Head(s)) \in Text /\ Cut(Tail(s)) \in Text /\ Halves(Head(s)) # <<>>
    BY <1>1, HalvesType, CutType
  <1>3. Len(Halves(Head(s)) \o Cut(Tail(s))) = Len(Halves(Head(s))) + Len(Cut(Tail(s)))
    BY <1>2, ConcatProperties DEF Text
  <1>4. Len(Halves(Head(s))) > 0 /\ Len(Cut(Tail(s))) >= 0
    BY <1>2, EmptySeq, LenProperties DEF Text
  <1>5. QED
    BY <1>2, <1>3, <1>4, CutHead

LEMMA DataCut ==
    ASSUME NEW f \in Text
    PROVE  Stream!DataOf(Cut(f)) = CutAll(Stream!DataOf(f))
  <1> DEFINE x == Head(f)
  <1> DEFINE tail == Tail(f)
  <1> DEFINE rest == Cut(Tail(f))
  <1>1. CASE f = <<>>
    BY <1>1, CutEmpty, CutAllEmpty DEF Stream!DataOf
  <1>2. CASE f # <<>>
    <2>1. x \in Symbol /\ tail \in Text /\ Len(f) = 1 + Len(tail) /\ Len(tail) \in Nat
      BY <1>2, HeadFirst DEF Text
    <2>2. Cut(f) = Halves(x) \o rest
      BY <1>2, CutHead
    <2>3. rest \in Text
      BY <2>1, CutType
    <2>4. tail = <<>> => rest = <<>>
      BY CutEmpty
    <2>5. tail # <<>> => Len(rest) > 0
      BY <2>1, CutNonempty
    <2>6. "data" \notin Wide
      BY CharactersAssumption DEF Stream!Marks
    <2>7. Stream!DataOf(f) = IF tail # <<>> /\ x = "data" THEN <<tail>> ELSE <<>>
      <3>1. tail # <<>> <=> Len(f) > 1
        <4> HIDE DEF tail
        <4>1. tail = <<>> <=> Len(tail) = 0
          BY <2>1, EmptySeq DEF Text
        <4>2. QED
          BY <2>1, <4>1
      <3>2. QED
        BY <3>1 DEF Stream!DataOf
    <2> HIDE DEF x, tail, rest
    <2>8. CASE x \in Wide
      <3>1. Head(Cut(f)) = "replacement"
        BY <2>2, <2>3, <2>8 DEF Halves, Text
      <3>2. Stream!DataOf(Cut(f)) = <<>>
        BY <3>1 DEF Stream!DataOf
      <3>3. QED
        BY <2>6, <2>7, <2>8, <3>2, CutAllEmpty
    <2>9. CASE x \notin Wide
      <3>1. Cut(f) = <<x>> \o rest
        BY <2>2, <2>9 DEF Halves
      <3>2. Head(Cut(f)) = x /\ Tail(Cut(f)) = rest /\ Len(Cut(f)) = 1 + Len(rest) /\ Len(rest) \in Nat
        BY <2>1, <2>3, <3>1 DEF Text
      <3>3. tail # <<>> <=> Len(Cut(f)) > 1
        <4>1. Len(<<>>) = 0
          OBVIOUS
        <4>2. QED
          BY <2>4, <2>5, <3>2, <4>1
      <3>4. CASE tail # <<>> /\ x = "data"
        <4>1. Stream!DataOf(Cut(f)) = <<rest>>
          BY <3>2, <3>3, <3>4 DEF Stream!DataOf
        <4>2. Stream!DataOf(f) = <<tail>> /\ CutAll(<<tail>>) = <<Cut(tail)>>
          BY <2>1, <2>7, <3>4, CutAllOne
        <4>3. QED
          BY <4>1, <4>2 DEF rest, tail
      <3>5. CASE ~ (tail # <<>> /\ x = "data")
        <4>1. Stream!DataOf(Cut(f)) = <<>>
          BY <3>2, <3>3, <3>5 DEF Stream!DataOf
        <4>2. QED
          BY <2>7, <3>5, <4>1, CutAllEmpty
      <3>6. QED
        BY <3>4, <3>5
    <2>10. QED
      BY <2>8, <2>9
  <1>3. QED
    BY <1>1, <1>2

LEMMA FrontAppend ==
    ASSUME NEW S, NEW s \in Seq(S), NEW x \in S
    PROVE  Front(Append(s, x)) = s /\ Last(Append(s, x)) = x /\ Append(s, x) # <<>>
  <1> DEFINE longer == Append(s, x)
  <1>1. /\ longer \in Seq(S)
        /\ longer # <<>>
        /\ Len(longer) = Len(s) + 1
        /\ \A i \in 1..Len(s) : longer[i] = s[i]
        /\ longer[Len(s) + 1] = x
        /\ Len(s) \in Nat
    BY AppendProperties
  <1> HIDE DEF longer
  <1>2. Last(longer) = x
    BY <1>1 DEF Last
  <1>3. Front(longer) \in Seq(S) /\ longer = Append(Front(longer), x)
    BY <1>1, <1>2, FrontType
  <1>4. Front(longer) = s
    <2> DEFINE front == Front(longer)
    <2>1. /\ Len(Append(front, x)) = Len(front) + 1
          /\ \A i \in 1..Len(front) : Append(front, x)[i] = front[i]
          /\ Len(front) \in Nat
      BY <1>3, AppendProperties
    <2> HIDE DEF front
    <2>2. Len(front) = Len(s) /\ \A i \in 1..Len(front) : front[i] = s[i]
      BY <1>1, <1>3, <2>1 DEF front
    <2>3. QED
      BY <1>3, <2>2, SeqEqual DEF front
  <1>5. QED
    BY <1>1, <1>2, <1>4 DEF longer

\* Where a text ends when all that can be cut has been.
LEMMA CutEnd ==
    ASSUME NEW b \in Text, b # <<>>
    PROVE  /\ Front(b) \in Text /\ Last(b) \in Symbol /\ Cut(b) # <<>>
           /\ Last(b) \in Wide => Last(Cut(b)) = "replacement"
           /\ Last(b) \notin Wide => Last(Cut(b)) = Last(b) /\ Front(Cut(b)) = Cut(Front(b))
  <1> DEFINE x == Last(b)
  <1> DEFINE front == Cut(Front(b))
  <1>1. Front(b) \in Text /\ x \in Symbol /\ b = Append(Front(b), x)
    BY FrontType DEF Text
  <1>2. Cut(b) = front \o Halves(x) /\ front \in Text
    BY <1>1, CutAppend, CutType
  <1>3. "replacement" \in Symbol
    BY MarksRemain DEF Stream!Marks
  <1> HIDE DEF x, front
  <1>4. CASE x \in Wide
    <2>1. front \o <<"replacement", "replacement">> = Append(Append(front, "replacement"), "replacement")
      BY <1>2, <1>3 DEF Text
    <2>2. Append(front, "replacement") \in Text
      BY <1>2, <1>3 DEF Text
    <2>3. Cut(b) = Append(Append(front, "replacement"), "replacement")
      BY <1>2, <1>4, <2>1 DEF Halves
    <2>4. QED
      BY <1>1, <1>3, <1>4, <2>2, <2>3, FrontAppend DEF Text, x
  <1>5. CASE x \notin Wide
    <2>1. Cut(b) = Append(front, x)
      BY <1>1, <1>2, <1>5 DEF Halves, Text
    <2>2. QED
      BY <1>1, <1>2, <1>5, <2>1, FrontAppend DEF Text, x, front
  <1>6. QED
    BY <1>4, <1>5

CutState(decoder) == [buffer |-> Cut(decoder.buffer), frames |-> CutAll(decoder.frames)]

LEMMA CutStateIs ==
    ASSUME NEW b, NEW F
    PROVE  CutState([buffer |-> b, frames |-> F]) = [buffer |-> Cut(b), frames |-> CutAll(F)]
  BY DEF CutState

LEMMA CutStateType ==
    ASSUME NEW decoder \in Decoder
    PROVE  CutState(decoder) \in Decoder
  BY CutType, CutAllType DEF CutState, Decoder

LEMMA ThenOne ==
    ASSUME NEW decoder \in Decoder, NEW x \in Symbol
    PROVE  Then(decoder, <<x>>) = Stream!Feed(decoder, x)
  <1>1. <<>> \in Text /\ Append(<<>>, x) = <<x>>
    BY DEF Text
  <1>2. QED
    BY <1>1, ThenAppend, ThenEmpty

LEMMA ThenTwo ==
    ASSUME NEW decoder \in Decoder, NEW x \in Symbol, NEW y \in Symbol
    PROVE  Then(decoder, <<x, y>>) = Stream!Feed(Stream!Feed(decoder, x), y)
  <1>1. <<x>> \in Text
    BY DEF Text
  <1>2. Append(<<x>>, y) = <<x, y>>
    BY TwoElements
  <1>3. Then(decoder, Append(<<x>>, y)) = Stream!Feed(Then(decoder, <<x>>), y)
    BY <1>1, ThenAppend
  <1>4. QED
    BY <1>2, <1>3, ThenOne

\* The decoder with a character that is cut is the decoder without, cut.
LEMMA FeedCut ==
    ASSUME NEW decoder \in Decoder, NEW x \in Symbol
    PROVE  CutState(Stream!Feed(decoder, x)) = Then(CutState(decoder), Halves(x))
  <1> DEFINE b == decoder.buffer
  <1> DEFINE F == decoder.frames
  <1> DEFINE cut == CutState(decoder)
  <1>1. b \in Text /\ F \in Seq(Text)
    BY DEF Decoder
  <1>2. cut \in Decoder /\ cut.buffer = Cut(b) /\ cut.frames = CutAll(F) /\ Cut(b) \in Text
    BY <1>1, CutStateType, CutType DEF CutState
  <1>3. "newline" \notin Wide
    BY CharactersAssumption DEF Stream!Marks
  <1>4. CASE x \notin Wide
    <2>1. Then(cut, Halves(x)) = Stream!Feed(cut, x)
      BY <1>2, <1>4, ThenOne DEF Halves
    <2>2. Stream!EndsFrame(b, x) <=> Stream!EndsFrame(Cut(b), x)
      <3>1. CASE b = <<>>
        BY <1>1, <1>2, <3>1, Ends, CutEmpty
      <3>2. CASE b # <<>>
        <4>1. Cut(b) # <<>> /\ (Last(b) = "newline" <=> Last(Cut(b)) = "newline")
          BY <1>1, <1>3, <3>2, CutEnd
        <4>2. QED
          BY <1>1, <1>2, <3>2, <4>1, Ends
      <3>3. QED
        BY <3>1, <3>2
    <2>3. CASE Stream!EndsFrame(b, x)
      <3>1. b # <<>> /\ Last(b) = "newline"
        BY <1>1, <2>3, Ends
      <3>2. Front(b) \in Text /\ Front(Cut(b)) = Cut(Front(b))
        BY <1>1, <1>3, <3>1, CutEnd
      <3>3. Stream!Feed(cut, x) = [buffer |-> <<>>, frames |-> CutAll(F) \o Stream!DataOf(Cut(Front(b)))]
        BY <1>2, <2>2, <2>3, <3>2, FeedEnds
      <3>4. Stream!Feed(decoder, x) = [buffer |-> <<>>, frames |-> F \o Stream!DataOf(Front(b))]
        BY <2>3, FeedEnds
      <3>5. CutAll(F \o Stream!DataOf(Front(b))) = CutAll(F) \o Stream!DataOf(Cut(Front(b)))
        BY <1>1, <3>2, DataType, DataCut, CutAllConcat
      <3>6. QED
        BY <2>1, <3>3, <3>4, <3>5, CutEmpty, CutStateIs
    <2>4. CASE ~ Stream!EndsFrame(b, x)
      <3>1. Stream!Feed(cut, x) = [buffer |-> Append(Cut(b), x), frames |-> CutAll(F)]
        BY <1>2, <2>2, <2>4, FeedGoesOn
      <3>2. Stream!Feed(decoder, x) = [buffer |-> Append(b, x), frames |-> F]
        BY <2>4, FeedGoesOn
      <3>3. Cut(Append(b, x)) = Append(Cut(b), x)
        <4>1. Cut(Append(b, x)) = Cut(b) \o <<x>>
          BY <1>1, <1>4, CutAppend DEF Halves
        <4>2. QED
          BY <1>2, <4>1, AppendIsConcat DEF Text
      <3>4. QED
        BY <2>1, <3>1, <3>2, <3>3, CutStateIs
    <2>5. QED
      BY <2>3, <2>4
  <1>5. CASE x \in Wide
    <2> DEFINE r == "replacement"
    <2>1. r \in Symbol /\ r # "newline" /\ x # "newline"
      BY <1>3, <1>5, MarksRemain DEF Stream!Marks
    <2>2. Stream!Feed(decoder, x) = [buffer |-> Append(b, x), frames |-> F]
      BY <1>1, <2>1, FeedGoesOn, Ends
    <2>3. Stream!Feed(cut, r) = [buffer |-> Append(Cut(b), r), frames |-> CutAll(F)]
      BY <1>2, <2>1, FeedGoesOn, Ends
    <2>4. Stream!Feed(cut, r) \in Decoder /\ Append(Cut(b), r) \in Text
      BY <1>2, <2>1, FeedType DEF Text
    <2>5. Stream!Feed(Stream!Feed(cut, r), r) =
              [buffer |-> Append(Append(Cut(b), r), r), frames |-> CutAll(F)]
      BY <2>1, <2>3, <2>4, FeedGoesOn, Ends
    <2>6. Then(cut, Halves(x)) = Stream!Feed(Stream!Feed(cut, r), r)
      BY <1>2, <1>5, <2>1, ThenTwo DEF Halves
    <2>7. Cut(Append(b, x)) = Append(Append(Cut(b), r), r)
      <3>1. Cut(Append(b, x)) = Cut(b) \o <<r, r>>
        BY <1>1, <1>5, CutAppend DEF Halves
      <3>2. QED
        BY <1>2, <2>1, <3>1 DEF Text
    <2>8. QED
      BY <2>2, <2>5, <2>6, <2>7, CutStateIs
  <1>6. QED
    BY <1>4, <1>5

LEMMA PushCut ==
    ASSUME NEW b \in Text, NEW text \in Text
    PROVE  CutState(Stream!Push(b, text)) = Stream!Push(Cut(b), Cut(text))
  <1> DEFINE T == {t \in Text : CutState(Stream!Push(b, t)) = Stream!Push(Cut(b), Cut(t))}
  <1>1. <<>> \in T
    <2>1. CutState(Start(b)) = Start(Cut(b)) /\ <<>> \in Text
      BY CutAllEmpty DEF CutState, Start, Text
    <2>2. QED
      BY <2>1, PushEmpty, CutEmpty
  <1>2. ASSUME NEW t \in Text, NEW x \in Symbol, t \in T
        PROVE  Append(t, x) \in T
    <2>1. Append(t, x) \in Text /\ Cut(t) \in Text /\ Cut(b) \in Text /\ Halves(x) \in Text
      BY CutType, HalvesType DEF Text
    <2>2. CutState(Stream!Push(b, Append(t, x))) = Then(CutState(Stream!Push(b, t)), Halves(x))
      BY PushAppend, PushType, FeedCut
    <2>3. Stream!Push(Cut(b), Cut(t) \o Halves(x)) = Then(Stream!Push(Cut(b), Cut(t)), Halves(x))
      BY <2>1, PushConcat
    <2>4. CutState(Stream!Push(b, t)) = Stream!Push(Cut(b), Cut(t))
      BY <1>2
    <2>5. QED
      BY <2>1, <2>2, <2>3, <2>4, CutAppend
  <1> HIDE DEF T
  <1>3. \A t \in Text : t \in T
    BY <1>1, <1>2, SequencesInduction DEF Text
  <1>4. QED
    BY <1>3 DEF T

-----------------------------------------------------------------------------
(* The bytes of the connection.                                            *)

\* The first n values of g.
Upto(g, n) == [i \in 1..n |-> g[i]]

LEMMA UptoType ==
    ASSUME NEW S, NEW n \in Nat, NEW g, \A i \in 1..n : g[i] \in S
    PROVE  Upto(g, n) \in Seq(S) /\ Len(Upto(g, n)) = n /\ \A i \in 1..n : Upto(g, n)[i] = g[i]
  BY DEF Upto

LEMMA UptoNext ==
    ASSUME NEW S, NEW n \in Nat, NEW g, \A i \in 1..(n + 1) : g[i] \in S
    PROVE  Upto(g, n + 1) = Append(Upto(g, n), g[n + 1])
  <1>1. n + 1 \in Nat /\ n + 1 \in 1..(n + 1) /\ \A i \in 1..n : i \in 1..(n + 1)
    OBVIOUS
  <1>2. Upto(g, n) \in Seq(S) /\ Len(Upto(g, n)) = n /\ \A i \in 1..n : Upto(g, n)[i] = g[i]
    BY <1>1, UptoType
  <1>3. /\ Upto(g, n + 1) \in Seq(S) /\ Len(Upto(g, n + 1)) = n + 1
        /\ \A i \in 1..(n + 1) : Upto(g, n + 1)[i] = g[i]
    <2>1. n + 1 \in Nat
      OBVIOUS
    <2> DEFINE m == n + 1
    <2> HIDE DEF m
    <2>2. m \in Nat /\ \A i \in 1..m : g[i] \in S
      BY <2>1 DEF m
    <2>3. Upto(g, m) \in Seq(S) /\ Len(Upto(g, m)) = m /\ \A i \in 1..m : Upto(g, m)[i] = g[i]
      BY <2>2, UptoType, SMTT(30)
    <2>4. QED
      BY <2>3 DEF m
  <1> DEFINE longer == Append(Upto(g, n), g[n + 1])
  <1>4. g[n + 1] \in S
    BY <1>1
  <1>5. /\ longer \in Seq(S) /\ Len(longer) = n + 1
        /\ \A i \in 1..n : longer[i] = g[i]
        /\ longer[n + 1] = g[n + 1]
    BY <1>2, <1>4, AppendProperties
  <1> HIDE DEF longer
  <1>6. \A i \in 1..(n + 1) : longer[i] = g[i]
    BY <1>5
  <1>7. QED
    BY <1>3, <1>5, <1>6, SeqEqual DEF longer

LEMMA UptoNone ==
    ASSUME NEW g
    PROVE  Upto(g, 0) = <<>>
  BY DEF Upto

LEMMA UptoFlat ==
    ASSUME NEW S, NEW n \in Nat, NEW g, \A i \in 1..(n + 1) : g[i] \in Seq(S)
    PROVE  FlattenSeq(Upto(g, n + 1)) = FlattenSeq(Upto(g, n)) \o g[n + 1]
  <1>1. Upto(g, n + 1) = Append(Upto(g, n), g[n + 1])
    BY UptoNext
  <1>2. Upto(g, n) \in Seq(Seq(S)) /\ g[n + 1] \in Seq(S)
    <2>1. \A i \in 1..n : g[i] \in Seq(S)
      OBVIOUS
    <2>2. QED
      BY <2>1, UptoType
  <1>3. QED
    BY <1>1, <1>2, FlattenAppend

ByteSent == {byte \in Stream!Byte : byte.symbol \notin Wide => byte.part = 1}
Bytes == Seq(ByteSent)

FirstHalf(byte) == byte.symbol \in Wide /\ byte.part = 1
SecondHalf(byte) == byte.symbol \in Wide /\ byte.part = 2

\* The two bytes of a character stand one behind the other.
Paired(bytes) ==
    \A i \in 1..Len(bytes) : i < Len(bytes) => (FirstHalf(bytes[i]) <=> SecondHalf(bytes[i + 1]))

\* Bytes of which only those of narrow characters can be told apart.
Anonymous(byte) == IF byte.symbol \in Wide THEN "replacement" ELSE byte.symbol
Anon(bytes) == [i \in 1..Len(bytes) |-> Anonymous(bytes[i])]

LEMMA AnonymousType ==
    ASSUME NEW byte \in ByteSent
    PROVE  Anonymous(byte) \in Symbol /\ byte.symbol \in Symbol /\ (FirstHalf(byte) => ~ SecondHalf(byte))
           /\ (byte.symbol \in Wide => FirstHalf(byte) \/ SecondHalf(byte))
  <1>1. byte.symbol \in Symbol /\ byte.part \in 1..2
    BY DEF ByteSent, Stream!Byte, Symbol
  <1>2. "replacement" \in Symbol
    BY MarksRemain DEF Stream!Marks
  <1>3. QED
    BY <1>1, <1>2 DEF Anonymous, FirstHalf, SecondHalf

LEMMA AnonType ==
    ASSUME NEW bytes \in Bytes
    PROVE  Anon(bytes) \in Text /\ Len(Anon(bytes)) = Len(bytes)
           /\ \A i \in 1..Len(bytes) : Anon(bytes)[i] = Anonymous(bytes[i])
  <1>1. Len(bytes) \in Nat /\ \A i \in 1..Len(bytes) : Anonymous(bytes[i]) \in Symbol
    BY AnonymousType DEF Bytes
  <1>2. QED
    BY <1>1 DEF Anon, Text

Decoded(chunk, i) ==
    CASE chunk[i].symbol \notin Wide -> <<chunk[i].symbol>>
      [] chunk[i].part = 2 -> IF i > 1 THEN <<chunk[i].symbol>> ELSE <<"replacement">>
      [] OTHER -> IF i = Len(chunk) THEN <<"replacement">> ELSE <<>>

LEMMA LossyIsFlat ==
    ASSUME NEW chunk
    PROVE  Stream!Lossy(chunk) = FlattenSeq([i \in 1..Len(chunk) |-> Decoded(chunk, i)])
  BY DEF Stream!Lossy, Decoded, Stream!FlattenSeq, FlattenSeq

LEMMA DecodedIs ==
    ASSUME NEW chunk \in Bytes, NEW i \in 1..Len(chunk)
    PROVE  /\ Decoded(chunk, i) \in Text
           /\ chunk[i].symbol \notin Wide => Cut(Decoded(chunk, i)) = <<chunk[i].symbol>>
           /\ FirstHalf(chunk[i]) =>
                 Cut(Decoded(chunk, i)) = IF i = Len(chunk) THEN <<"replacement">> ELSE <<>>
           /\ SecondHalf(chunk[i]) =>
                 Cut(Decoded(chunk, i)) = IF i = 1 THEN <<"replacement">> ELSE <<"replacement", "replacement">>
  <1> DEFINE byte == chunk[i]
  <1> DEFINE r == "replacement"
  <1>1. byte \in ByteSent /\ Len(chunk) \in Nat
    BY DEF Bytes
  <1>2. byte.symbol \in Symbol /\ byte.part \in 1..2 /\ (byte.symbol \notin Wide => byte.part = 1)
    BY <1>1 DEF ByteSent, Stream!Byte, Symbol
  <1>3. r \in Symbol /\ Cut(<<r>>) = <<r>>
    <2>1. r \in Symbol /\ r \in Rest
      BY MarksRemain DEF Stream!Marks
    <2>2. QED
      BY <2>1, CutOne DEF Halves, Rest
  <1>4. Cut(<<byte.symbol>>) = Halves(byte.symbol)
    BY <1>2, CutOne
  <1>5. <<byte.symbol>> \in Text /\ <<r>> \in Text /\ <<>> \in Text
    BY <1>2, <1>3 DEF Text
  <1>6. CASE byte.symbol \notin Wide
    <2>1. Decoded(chunk, i) = <<byte.symbol>>
      BY <1>2, <1>6 DEF Decoded
    <2>2. QED
      BY <1>4, <1>5, <1>6, <2>1 DEF FirstHalf, SecondHalf, Halves
  <1>7. CASE FirstHalf(byte)
    <2>1. Decoded(chunk, i) = IF i = Len(chunk) THEN <<r>> ELSE <<>>
      BY <1>7 DEF FirstHalf, Decoded
    <2>2. byte.symbol \in Wide /\ ~ SecondHalf(byte)
      BY <1>7 DEF FirstHalf, SecondHalf
    <2>3. QED
      BY <1>3, <1>5, <1>7, <2>1, <2>2, CutEmpty
  <1>8. CASE SecondHalf(byte)
    <2>1. Decoded(chunk, i) = IF i = 1 THEN <<r>> ELSE <<byte.symbol>>
      BY <1>8 DEF SecondHalf, Decoded
    <2>2. byte.symbol \in Wide /\ ~ FirstHalf(byte)
      BY <1>8 DEF FirstHalf, SecondHalf
    <2>3. QED
      BY <1>3, <1>4, <1>5, <1>8, <2>1, <2>2 DEF Halves
  <1>9. QED
    BY <1>1, <1>6, <1>7, <1>8, AnonymousType

\* A chunk made text by itself, when all that can be cut has been: one symbol for a byte.
LEMMA CutLossy ==
    ASSUME NEW chunk \in Bytes, Paired(chunk)
    PROVE  Stream!Lossy(chunk) \in Text /\ Cut(Stream!Lossy(chunk)) = Anon(chunk)
  <1> DEFINE n == Len(chunk)
  <1> DEFINE r == "replacement"
  <1> DEFINE D == [i \in 1..n |-> Decoded(chunk, i)]
  <1> DEFINE A == [i \in 1..n |-> Anonymous(chunk[i])]
  <1>1. n \in Nat /\ \A i \in 1..n : chunk[i] \in ByteSent
    BY DEF Bytes
  <1>2. \A i \in 1..n : D[i] = Decoded(chunk, i) /\ D[i] \in Text
    BY DecodedIs
  <1>3. \A i \in 1..n : A[i] = Anonymous(chunk[i]) /\ A[i] \in Symbol
    BY <1>1, AnonymousType
  <1>4. /\ Upto(D, n) = [i \in 1..n |-> Decoded(chunk, i)]
        /\ Upto(A, n) = Anon(chunk)
    BY DEF Upto, Anon
  <1> HIDE DEF D, A
  <1>5. r \in Symbol
    BY MarksRemain DEF Stream!Marks
  \* The bytes that have been looked at and whose text is there.
  <1> DEFINE Settled(k) == IF k \in 1..n /\ k < n /\ FirstHalf(chunk[k]) THEN k - 1 ELSE k
  <1> DEFINE T == {k \in Nat : k <= n => /\ FlattenSeq(Upto(D, k)) \in Text
                                         /\ Cut(FlattenSeq(Upto(D, k))) = Upto(A, Settled(k))}
  <1>6. 0 \in T
    <2>1. Settled(0) = 0 /\ Upto(D, 0) = <<>> /\ Upto(A, 0) = <<>> /\ <<>> \in Text
      BY UptoNone DEF Text
    <2>2. QED
      BY <2>1, FlattenEmpty, CutEmpty
  <1>7. ASSUME NEW k \in Nat, k \in T
        PROVE  k + 1 \in T
    <2>1. SUFFICES ASSUME k + 1 <= n
                   PROVE  /\ FlattenSeq(Upto(D, k + 1)) \in Text
                          /\ Cut(FlattenSeq(Upto(D, k + 1))) = Upto(A, Settled(k + 1))
      OBVIOUS
    <2> DEFINE byte == chunk[k + 1]
    <2> DEFINE before == FlattenSeq(Upto(D, k))
    <2>2. k <= n /\ k + 1 \in 1..n /\ (\A i \in 1..(k + 1) : i \in 1..n) /\ byte \in ByteSent
      BY <1>1, <2>1
    <2>3. before \in Text /\ Cut(before) = Upto(A, Settled(k))
      BY <1>7, <2>2
    <2>4. FlattenSeq(Upto(D, k + 1)) = before \o D[k + 1] /\ D[k + 1] \in Text
      BY <1>2, <2>2, UptoFlat DEF Text
    <2>5. FlattenSeq(Upto(D, k + 1)) \in Text
      BY <2>3, <2>4, ConcatProperties DEF Text
    <2>6. Cut(FlattenSeq(Upto(D, k + 1))) = Upto(A, Settled(k)) \o Cut(D[k + 1])
      BY <2>3, <2>4, CutConcat
    <2>7. Upto(A, k + 1) = Append(Upto(A, k), A[k + 1]) /\ Upto(A, k) \in Text /\ A[k + 1] \in Symbol
      <3>1. (\A i \in 1..(k + 1) : A[i] \in Symbol) /\ (\A i \in 1..k : A[i] \in Symbol) /\ A[k + 1] \in Symbol
        BY <1>3, <2>2
      <3>2. Upto(A, k + 1) = Append(Upto(A, k), A[k + 1])
        BY <3>1, UptoNext
      <3>3. Upto(A, k) \in Text
        BY <3>1, UptoType DEF Text
      <3>4. QED
        BY <3>1, <3>2, <3>3
    <2>8. Upto(A, k + 1) = Upto(A, k) \o <<A[k + 1]>>
      BY <2>7, SMTT(30) DEF Text
    <2>9. k \in 1..n => k < n /\ (FirstHalf(chunk[k]) <=> SecondHalf(byte))
      BY <1>1, <2>2 DEF Paired
    <2> HIDE DEF byte, before
    <2>10. CASE byte.symbol \notin Wide
      <3>1. Cut(D[k + 1]) = <<byte.symbol>> /\ A[k + 1] = byte.symbol
        BY <1>2, <1>3, <2>2, <2>10, DecodedIs DEF byte, Anonymous
      <3>2. Settled(k) = k /\ Settled(k + 1) = k + 1
        BY <2>2, <2>9, <2>10 DEF FirstHalf, SecondHalf, byte
      <3>3. QED
        BY <2>5, <2>6, <2>8, <3>1, <3>2
    <2>11. CASE FirstHalf(byte)
      <3>1. Settled(k) = k
        BY <2>2, <2>9, <2>11, AnonymousType
      <3>2. Cut(D[k + 1]) = IF k + 1 = n THEN <<r>> ELSE <<>>
        BY <1>2, <2>2, <2>11, DecodedIs DEF byte
      <3>3. A[k + 1] = r
        BY <1>3, <2>2, <2>11 DEF byte, Anonymous, FirstHalf
      <3>4. CASE k + 1 = n
        <4>1. Settled(k + 1) = k + 1
          BY <1>1, <3>4
        <4>2. QED
          BY <2>5, <2>6, <2>8, <3>1, <3>2, <3>3, <3>4, <4>1
      <3>5. CASE k + 1 # n
        <4>1. Settled(k + 1) = k
          BY <1>1, <2>2, <2>11, <3>5 DEF byte
        <4>2. Upto(A, k) \o <<>> = Upto(A, k)
          BY <2>7, ConcatEmptySeq DEF Text
        <4>3. QED
          BY <2>5, <2>6, <3>1, <3>2, <3>5, <4>1, <4>2
      <3>6. QED
        BY <3>4, <3>5
    <2>12. CASE SecondHalf(byte)
      <3>1. A[k + 1] = r /\ ~ FirstHalf(byte)
        BY <1>3, <2>2, <2>12 DEF byte, Anonymous, FirstHalf, SecondHalf
      <3>2. Cut(D[k + 1]) = IF k + 1 = 1 THEN <<r>> ELSE <<r, r>>
        BY <1>2, <2>2, <2>12, DecodedIs DEF byte
      <3>3. Settled(k + 1) = k + 1
        BY <2>2, <3>1 DEF byte
      <3>4. CASE k = 0
        <4>1. Settled(k) = k
          BY <3>4
        <4>2. QED
          BY <2>5, <2>6, <2>8, <3>1, <3>2, <3>3, <3>4, <4>1
      <3>5. CASE k # 0
        <4>1. k \in 1..n /\ FirstHalf(chunk[k]) /\ k < n /\ k - 1 \in Nat /\ (k - 1) + 1 = k
          BY <2>2, <2>9, <2>12, <3>5
        <4>2. Settled(k) = k - 1 /\ k + 1 # 1
          BY <4>1
        <4>3. A[k] = r
          BY <1>3, <4>1 DEF Anonymous, FirstHalf
        <4>4. Upto(A, k) = Append(Upto(A, k - 1), A[k]) /\ Upto(A, k - 1) \in Text
          <5> DEFINE m == k - 1
          <5>1. m \in Nat /\ m + 1 = k /\ (\A i \in 1..(m + 1) : A[i] \in Symbol) /\ \A i \in 1..m : A[i] \in Symbol
            BY <1>3, <2>2, <4>1
          <5> HIDE DEF m
          <5>2. Upto(A, m + 1) = Append(Upto(A, m), A[m + 1]) /\ Upto(A, m) \in Seq(Symbol)
            BY <5>1, UptoNext, UptoType
          <5>3. QED
            BY <5>1, <5>2 DEF m, Text
        <4> DEFINE u == Upto(A, k - 1)
        <4>5. Upto(A, k + 1) = Append(Append(u, r), r) /\ u \in Text
          BY <2>7, <3>1, <4>3, <4>4
        <4>6. Cut(FlattenSeq(Upto(D, k + 1))) = u \o <<r, r>>
          BY <2>6, <3>2, <4>2
        <4> HIDE DEF u
        <4>7. u \o <<r, r>> = Append(Append(u, r), r)
          BY <1>5, <4>5 DEF Text
        <4>8. QED
          BY <2>5, <3>3, <4>5, <4>6, <4>7
      <3>6. QED
        BY <3>4, <3>5
    <2>13. QED
      BY <2>2, <2>10, <2>11, <2>12, AnonymousType
  <1>8. n \in Nat /\ n <= n /\ Settled(n) = n
    BY <1>1
  <1> HIDE DEF T
  <1>9. \A k \in Nat : k \in T
    BY <1>6, <1>7, SetInduction
  <1>10. FlattenSeq(Upto(D, n)) \in Text /\ Cut(FlattenSeq(Upto(D, n))) = Upto(A, n)
    <2>1. FlattenSeq(Upto(D, n)) \in Text /\ Cut(FlattenSeq(Upto(D, n))) = Upto(A, Settled(n))
      <3> HIDE DEF n, Settled
      <3>1. QED
        BY <1>8, <1>9 DEF T
    <2>2. QED
      BY <1>8, <2>1
  <1>11. QED
    BY <1>4, <1>10, LossyIsFlat

LEMMA AnonConcat ==
    ASSUME NEW v \in Bytes, NEW w \in Bytes
    PROVE  Anon(v \o w) = Anon(v) \o Anon(w)
  <1>1. /\ v \o w \in Bytes /\ Len(v \o w) = Len(v) + Len(w)
        /\ \A i \in 1..(Len(v) + Len(w)) : (v \o w)[i] = IF i <= Len(v) THEN v[i] ELSE w[i - Len(v)]
        /\ Len(v) \in Nat /\ Len(w) \in Nat
    BY ConcatProperties, LenProperties DEF Bytes
  <1> DEFINE f == Anon(v)
  <1> DEFINE g == Anon(w)
  <1> DEFINE h == Anon(v \o w)
  <1>2. /\ f \in Text /\ Len(f) = Len(v) /\ \A i \in 1..Len(v) : f[i] = Anonymous(v[i])
        /\ g \in Text /\ Len(g) = Len(w) /\ \A i \in 1..Len(w) : g[i] = Anonymous(w[i])
    BY AnonType
  <1>3. /\ h \in Text /\ Len(h) = Len(v) + Len(w)
        /\ \A i \in 1..(Len(v) + Len(w)) : h[i] = Anonymous((v \o w)[i])
    BY <1>1, AnonType
  <1> HIDE DEF f, g, h
  <1>4. /\ f \o g \in Text /\ Len(f \o g) = Len(v) + Len(w)
        /\ \A i \in 1..(Len(v) + Len(w)) : (f \o g)[i] = IF i <= Len(v) THEN f[i] ELSE g[i - Len(v)]
    <2>1. /\ f \o g \in Text
          /\ Len(f \o g) = Len(f) + Len(g)
          /\ \A i \in 1..(Len(f) + Len(g)) : (f \o g)[i] = IF i <= Len(f) THEN f[i] ELSE g[i - Len(f)]
      <3>1. f \in Text /\ g \in Text
        BY <1>2
      <3>2. QED
        BY <3>1, ConcatProperties DEF Text
    <2>2. QED
      BY <1>2, <2>1
  <1>5. ASSUME NEW i \in 1..(Len(v) + Len(w))
        PROVE  h[i] = (f \o g)[i]
    <2>1. CASE i <= Len(v)
      <3>1. i \in 1..Len(v) /\ (v \o w)[i] = v[i] /\ (f \o g)[i] = f[i]
        BY <1>1, <1>4, <2>1
      <3>2. QED
        BY <1>2, <1>3, <3>1
    <2>2. CASE i > Len(v)
      <3>1. i - Len(v) \in 1..Len(w) /\ ~ (i <= Len(v))
        BY <1>1, <2>2
      <3>2. (v \o w)[i] = w[i - Len(v)] /\ (f \o g)[i] = g[i - Len(v)]
        BY <1>1, <1>4, <3>1
      <3>3. QED
        BY <1>2, <1>3, <3>1, <3>2
    <2>3. i <= Len(v) \/ i > Len(v)
      <3>1. Len(v) \in Nat /\ Len(w) \in Nat
        BY <1>1
      <3>2. QED
        BY <3>1
    <2>4. QED
      BY <2>1, <2>2, <2>3
  <1>6. h = f \o g
    BY <1>3, <1>4, <1>5, SeqEqual DEF Text
  <1>7. QED
    BY <1>6 DEF f, g, h

\* What is received, and what is left.
LEMMA Split ==
    ASSUME NEW w \in Bytes, Paired(w), NEW n \in 1..Len(w)
    PROVE  /\ SubSeq(w, 1, n) \in Bytes /\ Paired(SubSeq(w, 1, n))
           /\ SubSeq(w, n + 1, Len(w)) \in Bytes /\ Paired(SubSeq(w, n + 1, Len(w)))
           /\ Anon(w) = Anon(SubSeq(w, 1, n)) \o Anon(SubSeq(w, n + 1, Len(w)))
  <1> DEFINE l == Len(w)
  <1> DEFINE u == SubSeq(w, 1, n)
  <1> DEFINE v == SubSeq(w, n + 1, l)
  <1>1. l \in Nat /\ \A i \in 1..l : w[i] \in ByteSent
    BY DEF Bytes
  <1> HIDE DEF l
  <1>2. n \in Nat /\ 1 <= n /\ n <= l
    BY <1>1 DEF l
  <1>3. u \in Bytes /\ Len(u) = n /\ \A i \in 1..n : u[i] = w[i]
    <2>1. n \in Int /\ \A i \in 1..n : w[i] \in ByteSent
      BY <1>1, <1>2
    <2>2. /\ u \in Seq(ByteSent)
          /\ Len(u) = IF 1 <= n THEN n - 1 + 1 ELSE 0
          /\ \A i \in 1..(n - 1 + 1) : u[i] = w[1 + i - 1]
      BY <2>1, SubSeqProperties
    <2>3. QED
      BY <1>2, <2>2 DEF Bytes
  <1>4. v \in Bytes /\ Len(v) = l - n /\ \A i \in 1..(l - n) : v[i] = w[n + i]
    <2>1. n + 1 \in Int /\ l \in Int /\ \A i \in (n + 1)..l : w[i] \in ByteSent
      BY <1>1, <1>2
    <2>2. /\ v \in Seq(ByteSent)
          /\ Len(v) = IF n + 1 <= l THEN l - (n + 1) + 1 ELSE 0
          /\ \A i \in 1..(l - (n + 1) + 1) : v[i] = w[(n + 1) + i - 1]
      BY <2>1, SubSeqProperties
    <2>3. QED
      BY <1>1, <1>2, <2>2 DEF Bytes
  <1> HIDE DEF u, v
  <1>5. Paired(u)
    <2>1. ASSUME NEW i \in 1..n, i < n
          PROVE  FirstHalf(u[i]) <=> SecondHalf(u[i + 1])
      <3>1. i \in 1..l /\ i < l /\ i + 1 \in 1..n
        BY <1>1, <1>2, <2>1
      <3>2. u[i] = w[i] /\ u[i + 1] = w[i + 1]
        BY <1>3, <3>1
      <3>3. QED
        BY <3>1, <3>2 DEF Paired, l
    <2>2. QED
      BY <1>3, <2>1 DEF Paired
  <1>6. Paired(v)
    <2>1. ASSUME NEW i \in 1..(l - n), i < l - n
          PROVE  FirstHalf(v[i]) <=> SecondHalf(v[i + 1])
      <3>1. n + i \in 1..l /\ n + i < l /\ i + 1 \in 1..(l - n) /\ n + (i + 1) = (n + i) + 1
        BY <1>1, <1>2, <2>1
      <3>2. v[i] = w[n + i] /\ v[i + 1] = w[(n + i) + 1]
        BY <1>4, <3>1
      <3>3. QED
        BY <3>1, <3>2 DEF Paired, l
    <2>2. QED
      BY <1>4, <2>1 DEF Paired
  <1>7. w = u \o v
    <2>1. /\ u \o v \in Seq(ByteSent) /\ Len(u \o v) = Len(u) + Len(v)
          /\ \A i \in 1..(Len(u) + Len(v)) : (u \o v)[i] = IF i <= Len(u) THEN u[i] ELSE v[i - Len(u)]
      BY <1>3, <1>4, ConcatProperties DEF Bytes
    <2>2. Len(u \o v) = l
      BY <1>1, <1>2, <1>3, <1>4, <2>1
    <2>3. ASSUME NEW i \in 1..l
          PROVE  w[i] = (u \o v)[i]
      <3>1. (u \o v)[i] = IF i <= n THEN u[i] ELSE v[i - n]
        BY <1>1, <1>2, <1>3, <1>4, <2>1
      <3>2. CASE i <= n
        BY <1>3, <3>1, <3>2
      <3>3. CASE ~ (i <= n)
        <4>1. i - n \in 1..(l - n) /\ n + (i - n) = i
          BY <1>1, <1>2, <3>3
        <4>2. QED
          BY <1>4, <3>1, <3>3, <4>1
      <3>4. QED
        BY <3>2, <3>3
    <2>4. w \in Seq(ByteSent)
      BY DEF Bytes
    <2>5. QED
      BY <2>1, <2>2, <2>3, <2>4, SeqEqual DEF l
  <1>8. Anon(u \o v) = Anon(u) \o Anon(v)
    BY <1>3, <1>4, AnonConcat
  <1>9. QED
    BY <1>3, <1>4, <1>5, <1>6, <1>7, <1>8 DEF u, v, l

LEMMA BytesOfIs ==
    ASSUME NEW x \in Symbol
    PROVE  /\ Stream!BytesOf(x) \in Bytes
           /\ Anon(Stream!BytesOf(x)) = Halves(x)
           /\ Paired(Stream!BytesOf(x))
           /\ Len(Stream!BytesOf(x)) > 0
           /\ ~ SecondHalf(Stream!BytesOf(x)[1])
           /\ ~ FirstHalf(Stream!BytesOf(x)[Len(Stream!BytesOf(x))])
  <1> DEFINE bytes == Stream!BytesOf(x)
  <1> DEFINE byte(i) == [symbol |-> x, part |-> i]
  <1>1. CASE x \in Wide
    <2>1. bytes = [i \in 1..2 |-> byte(i)]
      BY <1>1 DEF Stream!BytesOf
    <2>2. byte(1) \in ByteSent /\ byte(2) \in ByteSent
      BY <1>1 DEF ByteSent, Stream!Byte, Symbol
    <2>3. FirstHalf(byte(1)) /\ SecondHalf(byte(2)) /\ ~ SecondHalf(byte(1)) /\ ~ FirstHalf(byte(2))
          /\ Anonymous(byte(1)) = "replacement" /\ Anonymous(byte(2)) = "replacement"
      BY <1>1 DEF FirstHalf, SecondHalf, Anonymous
    <2>4. Len(bytes) = 2 /\ bytes[1] = byte(1) /\ bytes[2] = byte(2) /\ bytes \in Bytes
      <3>1. \A i \in 1..2 : byte(i) \in ByteSent
        BY <2>2
      <3> HIDE DEF byte
      <3>2. QED
        BY <2>1, <3>1 DEF Bytes
    <2> HIDE DEF bytes, byte
    <2>5. Paired(bytes)
      <3>1. ASSUME NEW i \in 1..2, i < 2
            PROVE  FirstHalf(bytes[i]) <=> SecondHalf(bytes[i + 1])
        <4>1. i = 1
          BY <3>1
        <4>2. QED
          BY <2>3, <2>4, <4>1
      <3>2. QED
        BY <2>4, <3>1 DEF Paired
    <2>6. Anon(bytes) = Halves(x)
      <3>1. Anon(bytes) \in Seq(Symbol) /\ Len(Anon(bytes)) = 2
            /\ Anon(bytes)[1] = "replacement" /\ Anon(bytes)[2] = "replacement"
        BY <2>3, <2>4, AnonType DEF Text
      <3>2. Halves(x) = <<"replacement", "replacement">> /\ Halves(x) \in Seq(Symbol)
        BY <1>1, HalvesType DEF Halves, Text
      <3>3. Len(Halves(x)) = 2 /\ Halves(x)[1] = "replacement" /\ Halves(x)[2] = "replacement"
        BY <3>2
      <3>4. \A i \in 1..2 : Anon(bytes)[i] = Halves(x)[i]
        BY <3>1, <3>3
      <3>5. QED
        BY <3>1, <3>2, <3>3, <3>4, SeqEqual
    <2>7. QED
      BY <2>3, <2>4, <2>5, <2>6 DEF bytes
  <1>2. CASE x \notin Wide
    <2>1. bytes = [i \in 1..1 |-> byte(i)]
      BY <1>2 DEF Stream!BytesOf
    <2>2. byte(1) \in ByteSent
      BY <1>2 DEF ByteSent, Stream!Byte, Symbol
    <2>3. ~ SecondHalf(byte(1)) /\ ~ FirstHalf(byte(1)) /\ Anonymous(byte(1)) = x
      BY <1>2 DEF FirstHalf, SecondHalf, Anonymous
    <2>4. Len(bytes) = 1 /\ bytes[1] = byte(1) /\ bytes \in Bytes
      <3>1. \A i \in 1..1 : byte(i) \in ByteSent
        BY <2>2
      <3> HIDE DEF byte
      <3>2. QED
        BY <2>1, <3>1 DEF Bytes
    <2> HIDE DEF bytes, byte
    <2>5. Paired(bytes)
      BY <2>4 DEF Paired
    <2>6. Anon(bytes) = Halves(x)
      <3>1. Anon(bytes) \in Seq(Symbol) /\ Len(Anon(bytes)) = 1 /\ Anon(bytes)[1] = x
        BY <2>3, <2>4, AnonType DEF Text
      <3>2. Halves(x) = <<x>> /\ Halves(x) \in Seq(Symbol)
        BY <1>2, HalvesType DEF Halves, Text
      <3>3. Len(Halves(x)) = 1 /\ Halves(x)[1] = x
        BY <3>2
      <3>4. \A i \in 1..1 : Anon(bytes)[i] = Halves(x)[i]
        BY <3>1, <3>3
      <3>5. QED
        BY <3>1, <3>2, <3>3, <3>4, SeqEqual
    <2>7. QED
      BY <2>3, <2>4, <2>5, <2>6 DEF bytes
  <1>3. QED
    BY <1>1, <1>2

LEMMA PairedConcat ==
    ASSUME NEW v \in Bytes, NEW w \in Bytes, Paired(v), Paired(w),
           Len(w) > 0, ~ SecondHalf(w[1]), Len(v) > 0 => ~ FirstHalf(v[Len(v)])
    PROVE  Paired(v \o w)
  <1>1. /\ v \o w \in Bytes /\ Len(v \o w) = Len(v) + Len(w)
        /\ \A i \in 1..(Len(v) + Len(w)) : (v \o w)[i] = IF i <= Len(v) THEN v[i] ELSE w[i - Len(v)]
        /\ Len(v) \in Nat /\ Len(w) \in Nat
    BY ConcatProperties, LenProperties DEF Bytes
  <1> DEFINE m == Len(v)
  <1> DEFINE n == Len(w)
  <1> DEFINE both == v \o w
  <1> HIDE DEF m, n, both
  <1>2. /\ m \in Nat /\ n \in Nat /\ Len(both) = m + n
        /\ \A i \in 1..(m + n) : both[i] = IF i <= m THEN v[i] ELSE w[i - m]
    BY <1>1 DEF m, n, both
  <1>3. /\ \A i \in 1..m : i < m => (FirstHalf(v[i]) <=> SecondHalf(v[i + 1]))
        /\ \A i \in 1..n : i < n => (FirstHalf(w[i]) <=> SecondHalf(w[i + 1]))
    BY DEF Paired, m, n
  <1>4. n > 0 /\ ~ SecondHalf(w[1]) /\ (m > 0 => ~ FirstHalf(v[m]))
    BY DEF m, n
  <1>5. ASSUME NEW i \in 1..(m + n), i < m + n
        PROVE  FirstHalf(both[i]) <=> SecondHalf(both[i + 1])
    <2>1. CASE i < m
      <3>1. i \in 1..m /\ both[i] = v[i] /\ both[i + 1] = v[i + 1]
        BY <1>2, <1>5, <2>1
      <3>2. QED
        BY <1>3, <2>1, <3>1
    <2>2. CASE i = m
      <3>1. m > 0 /\ m + 1 \in 1..(m + n) /\ (m + 1) - m = 1 /\ ~ (m + 1 <= m)
        BY <1>2, <1>4, <1>5, <2>2
      <3>2. both[i] = v[m] /\ both[i + 1] = w[1]
        BY <1>2, <2>2, <3>1
      <3>3. QED
        BY <1>4, <3>1, <3>2
    <2>3. CASE i > m
      <3>1. i - m \in 1..n /\ i - m < n /\ i + 1 \in 1..(m + n) /\ ~ (i <= m) /\ ~ (i + 1 <= m)
            /\ (i + 1) - m = (i - m) + 1
        BY <1>2, <1>5, <2>3
      <3>2. both[i] = w[i - m] /\ both[i + 1] = w[(i - m) + 1]
        BY <1>2, <3>1, SMTT(30)
      <3>3. QED
        BY <1>3, <3>1, <3>2
    <2>4. QED
      BY <1>2, <2>1, <2>2, <2>3
  <1>6. QED
    BY <1>2, <1>5 DEF Paired, both

LEMMA EncodeAppend ==
    ASSUME NEW s \in Text, NEW x \in Symbol
    PROVE  Stream!Encode(Append(s, x)) = Stream!Encode(s) \o Stream!BytesOf(x)
  <1> DEFINE n == Len(s)
  <1> DEFINE longer == Append(s, x)
  <1> DEFINE g == [i \in 1..(n + 1) |-> Stream!BytesOf(longer[i])]
  <1>1. n \in Nat /\ Len(longer) = n + 1 /\ longer[n + 1] = x
        /\ (\A i \in 1..n : longer[i] = s[i] /\ s[i] \in Symbol)
    BY DEF Text
  <1> HIDE DEF n, longer
  <1>2. \A i \in 1..(n + 1) : g[i] \in Bytes
    <2>1. \A i \in 1..(n + 1) : longer[i] \in Symbol
      BY <1>1
    <2>2. QED
      BY <2>1, BytesOfIs
  <1>3. FlattenSeq(Upto(g, n + 1)) = FlattenSeq(Upto(g, n)) \o g[n + 1]
    <2> HIDE DEF g
    <2>1. QED
      BY <1>1, <1>2, UptoFlat DEF Bytes
  <1>4. g[n + 1] = Stream!BytesOf(x)
    <2>1. n + 1 \in 1..(n + 1)
      BY <1>1
    <2>2. QED
      BY <1>1, <2>1
  <1>5. Upto(g, n + 1) = [i \in 1..Len(longer) |-> Stream!BytesOf(longer[i])]
    BY <1>1 DEF Upto
  <1>6. Upto(g, n) = [i \in 1..Len(s) |-> Stream!BytesOf(s[i])]
    <2>1. \A i \in 1..n : g[i] = Stream!BytesOf(s[i])
      BY <1>1
    <2> HIDE DEF g
    <2>2. QED
      BY <2>1 DEF Upto, n
  <1>7. /\ Stream!Encode(longer) = FlattenSeq([i \in 1..Len(longer) |-> Stream!BytesOf(longer[i])])
        /\ Stream!Encode(s) = FlattenSeq([i \in 1..Len(s) |-> Stream!BytesOf(s[i])])
    BY DEF Stream!Encode, Stream!FlattenSeq, FlattenSeq
  <1>8. QED
    BY <1>3, <1>4, <1>5, <1>6, <1>7 DEF longer

LEMMA EncodeIs ==
    ASSUME NEW symbols \in Text
    PROVE  /\ Stream!Encode(symbols) \in Bytes
           /\ Paired(Stream!Encode(symbols))
           /\ Anon(Stream!Encode(symbols)) = Cut(symbols)
  <1> DEFINE Good(w) == Len(w) > 0 => ~ FirstHalf(w[Len(w)])
  <1> DEFINE T == {s \in Text : /\ Stream!Encode(s) \in Bytes
                                /\ Paired(Stream!Encode(s))
                                /\ Good(Stream!Encode(s))
                                /\ Anon(Stream!Encode(s)) = Cut(s)}
  <1>1. <<>> \in T
    <2>1. Stream!Encode(<<>>) = <<>>
      BY DEF Stream!Encode, Stream!FlattenSeq
    <2>2. <<>> \in Bytes /\ <<>> \in Text /\ Paired(<<>>) /\ Good(<<>>) /\ Anon(<<>>) = <<>>
      BY DEF Bytes, Text, Paired, Anon
    <2> HIDE DEF Good
    <2>3. QED
      BY <2>1, <2>2, CutEmpty
  <1>2. ASSUME NEW s \in Text, NEW x \in Symbol, s \in T
        PROVE  Append(s, x) \in T
    <2> DEFINE v == Stream!Encode(s)
    <2> DEFINE w == Stream!BytesOf(x)
    <2>1. v \in Bytes /\ Paired(v) /\ (Len(v) > 0 => ~ FirstHalf(v[Len(v)])) /\ Anon(v) = Cut(s)
      BY <1>2
    <2>2. /\ w \in Bytes /\ Paired(w) /\ Len(w) > 0 /\ ~ SecondHalf(w[1]) /\ ~ FirstHalf(w[Len(w)])
          /\ Anon(w) = Halves(x)
      BY BytesOfIs
    <2>3. Stream!Encode(Append(s, x)) = v \o w /\ Append(s, x) \in Text
      BY EncodeAppend DEF Text
    <2> HIDE DEF v, w
    <2>4. Paired(v \o w)
      BY <2>1, <2>2, PairedConcat
    <2>5. v \o w \in Bytes /\ Good(v \o w)
      <3>1. /\ v \o w \in Bytes /\ Len(v \o w) = Len(v) + Len(w)
            /\ \A i \in 1..(Len(v) + Len(w)) : (v \o w)[i] = IF i <= Len(v) THEN v[i] ELSE w[i - Len(v)]
            /\ Len(v) \in Nat /\ Len(w) \in Nat
        BY <2>1, <2>2, ConcatProperties, LenProperties DEF Bytes
      <3>2. Len(v) + Len(w) \in 1..(Len(v) + Len(w)) /\ ~ (Len(v) + Len(w) <= Len(v))
            /\ (Len(v) + Len(w)) - Len(v) = Len(w)
        BY <2>2, <3>1
      <3>3. (v \o w)[Len(v \o w)] = w[Len(w)]
        BY <3>1, <3>2
      <3>4. QED
        BY <2>2, <3>1, <3>3
    <2>6. Anon(v \o w) = Cut(Append(s, x))
      BY <2>1, <2>2, AnonConcat, CutAppend
    <2> HIDE DEF Good
    <2>7. QED
      BY <2>3, <2>4, <2>5, <2>6
  <1> HIDE DEF T
  <1>3. \A s \in Text : s \in T
    BY <1>1, <1>2, SequencesInduction DEF Text
  <1>4. QED
    BY <1>3 DEF T

-----------------------------------------------------------------------------
(* The frames of an answer.                                                *)

\* What a frame has before the blank line that ends it.
Body == Seq(Symbol \ {"newline"})

Frame == Text \ {<<>>}

LEMMA BodyType ==
    ASSUME NEW body \in Body
    PROVE  body \in Text
  BY SeqMonotonic DEF Body, Text

LEMMA PushBody ==
    ASSUME NEW body \in Body
    PROVE  Stream!Push(<<>>, body) = [buffer |-> body, frames |-> <<>>]
  <1> DEFINE T == {s \in Body : Stream!Push(<<>>, s) = [buffer |-> s, frames |-> <<>>]}
  <1>1. <<>> \in T
    BY PushEmpty DEF Start, Body
  <1>2. ASSUME NEW s \in Body, NEW x \in Symbol \ {"newline"}, s \in T
        PROVE  Append(s, x) \in T
    <2>1. s \in Text /\ Append(s, x) \in Body
      BY BodyType DEF Body
    <2>2. [buffer |-> s, frames |-> <<>>] \in Decoder
      BY <2>1 DEF Decoder
    <2>3. Stream!Push(<<>>, Append(s, x)) = Stream!Feed([buffer |-> s, frames |-> <<>>], x)
      BY <1>2, <2>1, PushAppend
    <2>4. ~ Stream!EndsFrame(s, x)
      BY <2>1, Ends
    <2>5. QED
      BY <2>1, <2>2, <2>3, <2>4, FeedGoesOn
  <1> HIDE DEF T
  <1>3. \A s \in Body : s \in T
    BY <1>1, <1>2, SequencesInduction DEF Body
  <1>4. QED
    BY <1>3 DEF T

LEMMA PushFrame ==
    ASSUME NEW body \in Body, body # <<>>
    PROVE  Stream!Push(<<>>, body \o Stream!BlankLine) =
               [buffer |-> <<>>, frames |-> Stream!DataOf(body)]
  <1> DEFINE nl == "newline"
  <1>1. body \in Text /\ nl \in Symbol /\ Append(body, nl) \in Text
    <2>1. body \in Text
      BY BodyType
    <2>2. nl \in Symbol
      BY MarksRemain DEF Stream!Marks
    <2>3. QED
      BY <2>1, <2>2 DEF Text
  <1>2. body \o Stream!BlankLine = Append(Append(body, nl), nl)
    BY <1>1 DEF Stream!BlankLine, Text
  <1>3. Stream!Push(<<>>, Append(body, nl)) = [buffer |-> Append(body, nl), frames |-> <<>>]
    <2>1. [buffer |-> body, frames |-> <<>>] \in Decoder
      BY <1>1 DEF Decoder
    <2>2. Stream!Push(<<>>, Append(body, nl)) = Stream!Feed([buffer |-> body, frames |-> <<>>], nl)
      BY <1>1, PushBody, PushAppend
    <2>3. Last(body) # nl
      BY FrontType DEF Body
    <2>4. ~ Stream!EndsFrame(body, nl)
      BY <1>1, <2>3, Ends
    <2>5. QED
      BY <2>1, <2>2, <2>4, FeedGoesOn
  <1>4. Front(Append(body, nl)) = body /\ Last(Append(body, nl)) = nl /\ Append(body, nl) # <<>>
    BY <1>1, FrontAppend DEF Text
  <1>5. Stream!EndsFrame(Append(body, nl), nl)
    BY <1>1, <1>4, Ends
  <1>6. Stream!Push(<<>>, Append(Append(body, nl), nl)) =
            [buffer |-> <<>>, frames |-> <<>> \o Stream!DataOf(body)]
    <2> DEFINE decoder == [buffer |-> Append(body, nl), frames |-> <<>>]
    <2>1. Stream!Push(<<>>, Append(Append(body, nl), nl)) = Stream!Feed(decoder, nl)
      BY <1>1, <1>3, PushAppend
    <2>2. decoder.buffer = Append(body, nl) /\ decoder.frames = <<>>
      OBVIOUS
    <2> HIDE DEF decoder
    <2>3. Stream!Feed(decoder, nl) =
              [buffer |-> <<>>, frames |-> <<>> \o Stream!DataOf(Front(Append(body, nl)))]
      BY <1>5, <2>2, FeedEnds
    <2>4. QED
      BY <1>4, <2>1, <2>3
  <1>7. <<>> \o Stream!DataOf(body) = Stream!DataOf(body)
    BY <1>1, DataType, ConcatEmptySeq
  <1>8. QED
    BY <1>2, <1>6, <1>7

\* The decoder makes these frames of a text, and is then where it began.
Parses(text, list) ==
    /\ text \in Text
    /\ list \in Seq(Frame)
    /\ Stream!Push(<<>>, text) = [buffer |-> <<>>, frames |-> list]

LEMMA FramesAreTexts ==
    ASSUME NEW list \in Seq(Frame)
    PROVE  list \in Seq(Text)
  BY SeqMonotonic DEF Frame

LEMMA ParsesConcat ==
    ASSUME NEW t, NEW u, NEW f, NEW g, Parses(t, f), Parses(u, g)
    PROVE  Parses(t \o u, f \o g)
  <1>1. /\ t \in Text /\ f \in Seq(Frame) /\ Stream!Push(<<>>, t) = [buffer |-> <<>>, frames |-> f]
        /\ u \in Text /\ g \in Seq(Frame) /\ Stream!Push(<<>>, u) = [buffer |-> <<>>, frames |-> g]
    BY DEF Parses
  <1>2. <<>> \in Text
    BY DEF Text
  <1>3. Stream!Push(<<>>, t \o u) = Then([buffer |-> <<>>, frames |-> f], u)
    BY <1>1, <1>2, PushConcat
  <1>4. Then([buffer |-> <<>>, frames |-> f], u) = [buffer |-> <<>>, frames |-> f \o g]
    <2> DEFINE decoder == [buffer |-> <<>>, frames |-> f]
    <2>1. decoder.buffer = <<>> /\ decoder.frames = f
      OBVIOUS
    <2> HIDE DEF decoder
    <2>2. Then(decoder, u) = [buffer |-> <<>>, frames |-> f \o g]
      <3> DEFINE more == Stream!Push(decoder.buffer, u)
      <3>1. more = [buffer |-> <<>>, frames |-> g]
        BY <1>1, <2>1
      <3>2. Then(decoder, u) = [buffer |-> more.buffer, frames |-> decoder.frames \o more.frames]
        BY DEF Then
      <3> HIDE DEF more
      <3>3. more.buffer = <<>> /\ more.frames = g
        BY <3>1
      <3>4. QED
        BY <2>1, <3>2, <3>3
    <2>3. QED
      BY <2>2 DEF decoder
  <1>5. t \o u \in Text /\ f \o g \in Seq(Frame)
    BY <1>1, ConcatProperties DEF Text
  <1>6. QED
    BY <1>3, <1>4, <1>5 DEF Parses

LEMMA ParsesNothing == Parses(<<>>, <<>>)
  BY PushEmpty DEF Parses, Start, Text

LEMMA BlankLineType == Stream!BlankLine \in Text /\ Stream!BlankLine \in Seq(Rest)
  <1>1. "newline" \in Rest /\ "newline" \in Symbol
    BY MarksRemain DEF Stream!Marks
  <1>2. QED
    BY <1>1 DEF Stream!BlankLine, Text

LEMMA ParsesData ==
    ASSUME NEW data \in Body, data # <<>>
    PROVE  Parses((<<"data">> \o data) \o Stream!BlankLine, <<data>>)
  <1> DEFINE d == "data"
  <1> DEFINE body == <<d>> \o data
  <1>1. d \in Symbol \ {"newline"}
    BY MarksRemain DEF Stream!Marks
  <1>2. <<d>> \in Body
    BY <1>1 DEF Body
  <1>3. body \in Body /\ data \in Text
    BY <1>2, BodyType, ConcatProperties DEF Body
  <1>4. Len(data) > 0
    BY EmptySeq DEF Body
  <1>5. body # <<>> /\ Head(body) = d /\ Tail(body) = data /\ Len(body) = 1 + Len(data) /\ Len(data) \in Nat
    BY <1>1, <1>2, ConcatProperties DEF Body
  <1> HIDE DEF body
  <1>6. Stream!DataOf(body) = <<data>>
    BY <1>4, <1>5 DEF Stream!DataOf
  <1>7. Stream!Push(<<>>, body \o Stream!BlankLine) = [buffer |-> <<>>, frames |-> <<data>>]
    BY <1>3, <1>5, <1>6, PushFrame
  <1>8. body \o Stream!BlankLine \in Text
    BY <1>3, BodyType, BlankLineType, ConcatProperties DEF Text
  <1>9. <<data>> \in Seq(Frame)
    BY <1>3 DEF Frame
  <1>10. QED
    BY <1>7, <1>8, <1>9 DEF Parses, body

LEMMA ParsesComment == Parses(Stream!CommentFrame, <<>>)
  <1> DEFINE body == <<"comment">>
  <1>1. "comment" \in Symbol \ {"newline"}
    BY MarksRemain DEF Stream!Marks
  <1>2. body \in Body /\ body # <<>> /\ Len(body) = 1
    BY <1>1 DEF Body
  <1>3. Stream!DataOf(body) = <<>>
    BY <1>2 DEF Stream!DataOf
  <1> HIDE DEF body
  <1>4. Stream!Push(<<>>, body \o Stream!BlankLine) = [buffer |-> <<>>, frames |-> <<>>]
    BY <1>2, <1>3, PushFrame
  <1>5. body \o Stream!BlankLine \in Text
    BY <1>2, BodyType, BlankLineType, ConcatProperties DEF Text
  <1>6. QED
    BY <1>4, <1>5 DEF Parses, body, Stream!CommentFrame

-----------------------------------------------------------------------------
(* The tokens of an answer.                                                *)

VisibleTo(who, tokens) == IF who = "llama_cpp" /\ tokens = <<Stream!Control>> THEN <<>> ELSE tokens

\* What the turn receives for a frame.
Due(who, frame) ==
    IF Stream!Malformed(frame) THEN <<>> ELSE VisibleTo(who, Stream!TokenOf(frame))

Dues(who, list) == FlattenSeq([i \in 1..Len(list) |-> Due(who, list[i])])

WrittenFor(who, tokens) == FlattenSeq([i \in 1..Len(tokens) |-> VisibleTo(who, <<tokens[i]>>)])

LEMMA TokenOfIs ==
    ASSUME NEW frame \in Frame
    PROVE  Stream!TokenOf(frame) = <<>> \/ \E t \in Frame : Stream!TokenOf(frame) = <<t>>
  <1> DEFINE token == IF Stream!Last(frame) \in {"DONE", "usage", "no usage"} THEN Stream!Front(frame) ELSE frame
  <1>1. frame \in Text /\ frame # <<>> /\ Stream!Front(frame) = Front(frame)
    BY StreamsOwn DEF Frame
  <1>2. Front(frame) \in Text
    BY <1>1, FrontType DEF Text
  <1>3. token \in Text
    BY <1>1, <1>2
  <1>4. Stream!TokenOf(frame) = IF token = <<>> THEN <<>> ELSE <<token>>
    BY DEF Stream!TokenOf
  <1> HIDE DEF token
  <1>5. QED
    BY <1>3, <1>4 DEF Frame

LEMMA DueType ==
    ASSUME NEW who, NEW frame \in Frame
    PROVE  Due(who, frame) = <<>> \/ \E t \in Frame : Due(who, frame) = <<t>>
  BY TokenOfIs DEF Due, VisibleTo

LEMMA DueIsSeq ==
    ASSUME NEW who, NEW frame \in Frame
    PROVE  Due(who, frame) \in Seq(Frame)
  <1>1. \A t \in Frame : <<t>> \in Seq(Frame)
    OBVIOUS
  <1>2. <<>> \in Seq(Frame)
    OBVIOUS
  <1>3. QED
    BY <1>1, <1>2, DueType

LEMMA DuesConcat ==
    ASSUME NEW who, NEW s \in Seq(Frame), NEW t \in Seq(Frame)
    PROVE  Dues(who, s \o t) = Dues(who, s) \o Dues(who, t) /\ Dues(who, s) \in Seq(Frame)
  <1> DEFINE f == [i \in 1..Len(s) |-> Due(who, s[i])]
  <1> DEFINE g == [i \in 1..Len(t) |-> Due(who, t[i])]
  <1> DEFINE h == [i \in 1..Len(s \o t) |-> Due(who, (s \o t)[i])]
  <1>1. /\ s \o t \in Seq(Frame) /\ Len(s \o t) = Len(s) + Len(t)
        /\ \A i \in 1..(Len(s) + Len(t)) : (s \o t)[i] = IF i <= Len(s) THEN s[i] ELSE t[i - Len(s)]
        /\ Len(s) \in Nat /\ Len(t) \in Nat
    BY ConcatProperties, LenProperties
  <1>2. f \in Seq(Seq(Frame)) /\ Len(f) = Len(s) /\ \A i \in 1..Len(s) : f[i] = Due(who, s[i])
    <2>1. \A i \in 1..Len(s) : Due(who, s[i]) \in Seq(Frame)
      BY DueIsSeq
    <2>2. QED
      BY <1>1, <2>1
  <1>3. g \in Seq(Seq(Frame)) /\ Len(g) = Len(t) /\ \A i \in 1..Len(t) : g[i] = Due(who, t[i])
    <2>1. \A i \in 1..Len(t) : Due(who, t[i]) \in Seq(Frame)
      BY DueIsSeq
    <2>2. QED
      BY <1>1, <2>1
  <1>4. /\ h \in Seq(Seq(Frame)) /\ Len(h) = Len(s) + Len(t)
        /\ \A i \in 1..(Len(s) + Len(t)) : h[i] = Due(who, (s \o t)[i])
    <2>1. \A i \in 1..Len(s \o t) : Due(who, (s \o t)[i]) \in Seq(Frame)
      BY <1>1, DueIsSeq
    <2>2. QED
      BY <1>1, <2>1
  <1>5. /\ Dues(who, s) = FlattenSeq(f) /\ Dues(who, t) = FlattenSeq(g)
        /\ Dues(who, s \o t) = FlattenSeq(h)
    BY DEF Dues
  <1> HIDE DEF f, g, h
  <1>6. h = f \o g
    <2>1. \A i \in 1..Len(f) : h[i] = f[i]
      <3>1. ASSUME NEW i \in 1..Len(s)
            PROVE  h[i] = f[i]
        <4>1. i \in 1..(Len(s) + Len(t)) /\ i <= Len(s)
          BY <1>1
        <4>2. QED
          BY <1>1, <1>2, <1>4, <4>1
      <3>2. QED
        BY <1>2, <3>1
    <2>2. \A i \in 1..Len(g) : h[Len(f) + i] = g[i]
      <3>1. ASSUME NEW i \in 1..Len(t)
            PROVE  h[Len(s) + i] = g[i]
        <4>1. Len(s) + i \in 1..(Len(s) + Len(t)) /\ ~ (Len(s) + i <= Len(s)) /\ (Len(s) + i) - Len(s) = i
          BY <1>1
        <4>2. QED
          BY <1>1, <1>3, <1>4, <4>1
      <3>2. QED
        BY <1>2, <1>3, <3>1
    <2>3. Len(h) = Len(f) + Len(g)
      BY <1>2, <1>3, <1>4
    <2>4. QED
      BY <1>2, <1>3, <1>4, <2>1, <2>2, <2>3, ConcatEqual
  <1>7. FlattenSeq(f \o g) = FlattenSeq(f) \o FlattenSeq(g) /\ FlattenSeq(f) \in Seq(Frame)
    BY <1>2, <1>3, FlattenConcat, FlattenType
  <1>8. QED
    BY <1>5, <1>6, <1>7

LEMMA DuesNone ==
    ASSUME NEW who
    PROVE  Dues(who, <<>>) = <<>>
  <1>1. [i \in 1..Len(<<>>) |-> Due(who, <<>>[i])] = <<>>
    OBVIOUS
  <1>2. QED
    BY <1>1, FlattenEmpty DEF Dues

LEMMA DuesOne ==
    ASSUME NEW who, NEW frame \in Frame
    PROVE  Dues(who, <<frame>>) = Due(who, frame)
  <1> DEFINE e == Due(who, frame)
  <1>1. [i \in 1..Len(<<frame>>) |-> Due(who, <<frame>>[i])] = Append(<<>>, e)
    OBVIOUS
  <1>2. e \in Seq(Frame) /\ <<>> \in Seq(Seq(Frame))
    BY DueIsSeq
  <1> HIDE DEF e
  <1>3. FlattenSeq(Append(<<>>, e)) = FlattenSeq(<<>>) \o e
    BY <1>2, FlattenAppend
  <1>4. FlattenSeq(<<>>) \o e = e
    BY <1>2, FlattenEmpty, ConcatEmptySeq
  <1>5. QED
    BY <1>1, <1>3, <1>4 DEF Dues, e

LEMMA DuesHead ==
    ASSUME NEW who, NEW list \in Seq(Frame), list # <<>>
    PROVE  Dues(who, list) = Due(who, Head(list)) \o Dues(who, Tail(list)) /\ Dues(who, Tail(list)) \in Seq(Frame)
  <1>1. Head(list) \in Frame /\ Tail(list) \in Seq(Frame) /\ list = <<Head(list)>> \o Tail(list)
    OBVIOUS
  <1>2. <<Head(list)>> \in Seq(Frame)
    BY <1>1
  <1>3. Dues(who, <<Head(list)>> \o Tail(list)) = Dues(who, <<Head(list)>>) \o Dues(who, Tail(list))
    BY <1>1, <1>2, DuesConcat
  <1>4. Dues(who, Tail(list)) \in Seq(Frame)
    BY <1>1, DuesConcat
  <1>5. QED
    BY <1>1, <1>3, <1>4, DuesOne

\* What is one symbol without cutting is the same one with it.
LEMMA CutSingle ==
    ASSUME NEW f \in Text, NEW x \in Rest
    PROVE  Cut(f) = <<x>> <=> f = <<x>>
  <1>1. ASSUME f = <<x>>
        PROVE  Cut(f) = <<x>>
    <2>1. <<x>> \in Seq(Rest)
      OBVIOUS
    <2>2. QED
      BY <1>1, <2>1, CutRest
  <1>2. ASSUME Cut(f) = <<x>>
        PROVE  f = <<x>>
    <2>1. f # <<>>
      BY <1>2, CutEmpty
    <2> DEFINE head == Head(f)
    <2> DEFINE rest == Cut(Tail(f))
    <2>2. head \in Symbol /\ Tail(f) \in Text /\ f = <<head>> \o Tail(f) /\ Cut(f) = Halves(head) \o rest
      BY <2>1, HeadFirst, CutHead
    <2>3. rest \in Text /\ Len(rest) \in Nat /\ Halves(head) \in Text
      BY <2>2, CutType, HalvesType, LenProperties DEF Text
    <2> HIDE DEF rest, head
    <2>4. Len(Cut(f)) = 1
      BY <1>2
    <2>5. Len(Halves(head)) + Len(rest) = 1
      BY <2>2, <2>3, <2>4, ConcatProperties DEF Text
    <2>6. head \notin Wide
      <3>1. head \in Wide => Len(Halves(head)) = 2
        BY DEF Halves
      <3>2. QED
        BY <2>3, <2>5, <3>1
    <2>7. Halves(head) = <<head>> /\ Len(Halves(head)) = 1
      BY <2>6 DEF Halves
    <2>8. Len(rest) = 0
      BY <2>3, <2>5, <2>7
    <2>9. Tail(f) = <<>> /\ rest = <<>>
      <3>1. rest = <<>>
        BY <2>3, <2>8, EmptySeq DEF Text
      <3>2. Tail(f) # <<>> => Len(rest) > 0
        BY <2>2, CutNonempty DEF rest
      <3>3. QED
        BY <2>8, <3>1, <3>2
    <2>10. <<head>> \o <<>> = <<head>>
      BY <2>2, <2>7, HalvesType, ConcatEmptySeq DEF Text
    <2>11. <<head>> = <<x>>
      BY <1>2, <2>2, <2>7, <2>9, <2>10
    <2>12. QED
      BY <2>2, <2>9, <2>10, <2>11
  <1>3. QED
    BY <1>1, <1>2

LEMMA MalformedCut ==
    ASSUME NEW f \in Text
    PROVE  Stream!Malformed(Cut(f)) <=> Stream!Malformed(f)
  <1>1. "garbage" \in Rest
    BY MarksRemain DEF Stream!Marks
  <1>2. QED
    BY <1>1, CutSingle DEF Stream!Malformed

LEMMA DoneCut ==
    ASSUME NEW f \in Text
    PROVE  Stream!Done(Cut(f)) <=> Stream!Done(f)
  <1>1. "DONE" \in Rest
    BY MarksRemain DEF Stream!Marks
  <1>2. QED
    BY <1>1, CutSingle DEF Stream!Done

LEMMA FrameCut ==
    ASSUME NEW f \in Frame
    PROVE  Cut(f) \in Frame
  <1>1. f \in Text /\ f # <<>>
    BY DEF Frame
  <1>2. QED
    BY <1>1, CutType, CutEnd DEF Frame

LEMMA UsageOfCut ==
    ASSUME NEW f \in Frame
    PROVE  Stream!UsageOf(Cut(f)) = Stream!UsageOf(f)
  <1>1. f \in Text /\ f # <<>>
    BY DEF Frame
  <1>2. "usage" \notin Wide /\ "no usage" \notin Wide
    BY CharactersAssumption DEF Stream!Marks
  <1>3. /\ Last(f) \in Wide => Last(Cut(f)) = "replacement"
        /\ Last(f) \notin Wide => Last(Cut(f)) = Last(f)
    BY <1>1, CutEnd
  <1>4. QED
    BY <1>2, <1>3, StreamsOwn DEF Stream!UsageOf

LEMMA TokenOfCut ==
    ASSUME NEW f \in Frame
    PROVE  Stream!TokenOf(Cut(f)) = CutAll(Stream!TokenOf(f))
  <1>1. f \in Text /\ f # <<>> /\ Cut(f) \in Text
    BY CutType DEF Frame
  <1> DEFINE Ending == {"DONE", "usage", "no usage"}
  <1>2. Ending \intersect Wide = {} /\ "replacement" \notin Ending
    BY CharactersAssumption DEF Stream!Marks
  <1> DEFINE token == IF Last(f) \in Ending THEN Front(f) ELSE f
  <1> DEFINE other == IF Last(Cut(f)) \in Ending THEN Front(Cut(f)) ELSE Cut(f)
  <1>3. /\ Stream!TokenOf(f) = IF token = <<>> THEN <<>> ELSE <<token>>
        /\ Stream!TokenOf(Cut(f)) = IF other = <<>> THEN <<>> ELSE <<other>>
    <2>1. Stream!Front(f) = Front(f) /\ Stream!Last(f) = Last(f)
          /\ Stream!Front(Cut(f)) = Front(Cut(f)) /\ Stream!Last(Cut(f)) = Last(Cut(f))
      BY StreamsOwn
    <2>2. Stream!TokenOf(f) = IF token = <<>> THEN <<>> ELSE <<token>>
      BY <2>1 DEF Stream!TokenOf
    <2>3. Stream!TokenOf(Cut(f)) = IF other = <<>> THEN <<>> ELSE <<other>>
      BY <2>1 DEF Stream!TokenOf
    <2>4. QED
      BY <2>2, <2>3
  <1>4. Front(f) \in Text
    BY <1>1, FrontType DEF Text
  <1>5. token \in Text
    BY <1>1, <1>4
  <1>6. other = Cut(token)
    <2> HIDE DEF Ending
    <2>1. CASE Last(f) \in Ending
      <3>1. Last(Cut(f)) = Last(f) /\ Front(Cut(f)) = Cut(Front(f))
        BY <1>1, <1>2, <2>1, CutEnd
      <3>2. QED
        BY <2>1, <3>1
    <2>2. CASE Last(f) \notin Ending
      <3>1. Last(Cut(f)) \notin Ending
        BY <1>1, <1>2, <2>2, CutEnd
      <3>2. QED
        BY <2>2, <3>1
    <2>3. QED
      BY <2>1, <2>2
  <1> HIDE DEF token, other
  <1>7. CASE token = <<>>
    BY <1>3, <1>6, <1>7, CutEmpty, CutAllEmpty
  <1>8. CASE token # <<>>
    <2>1. Cut(token) # <<>>
      <3>1. Len(Cut(token)) > 0
        BY <1>5, <1>8, CutNonempty
      <3>2. Len(<<>>) = 0
        OBVIOUS
      <3>3. QED
        BY <3>1, <3>2
    <2>2. QED
      BY <1>3, <1>5, <1>6, <1>8, <2>1, CutAllOne
  <1>9. QED
    BY <1>7, <1>8

LEMMA DueCut ==
    ASSUME NEW who, NEW f \in Frame
    PROVE  Due(who, Cut(f)) = CutAll(Due(who, f))
  <1>1. f \in Text
    BY DEF Frame
  <1>2. CASE Stream!Malformed(f)
    BY <1>1, <1>2, MalformedCut, CutAllEmpty DEF Due
  <1>3. CASE ~ Stream!Malformed(f)
    <2>1. /\ Due(who, f) = VisibleTo(who, Stream!TokenOf(f))
          /\ Due(who, Cut(f)) = VisibleTo(who, CutAll(Stream!TokenOf(f)))
      BY <1>1, <1>3, MalformedCut, TokenOfCut DEF Due
    <2>2. CASE Stream!TokenOf(f) = <<>>
      BY <2>1, <2>2, CutAllEmpty DEF VisibleTo
    <2>3. ASSUME NEW t \in Frame, Stream!TokenOf(f) = <<t>>
          PROVE  Due(who, Cut(f)) = CutAll(Due(who, f))
      <3>1. t \in Text /\ CutAll(<<t>>) = <<Cut(t)>>
        BY CutAllOne DEF Frame
      <3>2. "control" \in Rest
        BY MarksRemain DEF Stream!Marks
      <3>3. Cut(t) = Stream!Control <=> t = Stream!Control
        BY <3>1, <3>2, CutSingle DEF Stream!Control
      <3>4. <<Cut(t)>> = <<Stream!Control>> <=> <<t>> = <<Stream!Control>>
        BY <3>3
      <3>5. CASE <<t>> = <<Stream!Control>> /\ who = "llama_cpp"
        BY <2>1, <2>3, <3>1, <3>4, <3>5, CutAllEmpty DEF VisibleTo
      <3>6. CASE ~ (<<t>> = <<Stream!Control>> /\ who = "llama_cpp")
        BY <2>1, <2>3, <3>1, <3>4, <3>6 DEF VisibleTo
      <3>7. QED
        BY <3>5, <3>6
    <2>4. QED
      BY <2>2, <2>3, TokenOfIs
  <1>4. QED
    BY <1>2, <1>3

\* A text is made frames of which the turn receives due, none the last one and none telling the usage.
Carries(who, text, due) ==
    \E list : /\ Parses(text, list)
              /\ Dues(who, list) = due
              /\ \A i \in 1..Len(list) : list[i] # <<"DONE">> /\ Stream!UsageOf(list[i]) # "usage"

LEMMA CarriesConcat ==
    ASSUME NEW who, NEW t, NEW u, NEW d, NEW e, Carries(who, t, d), Carries(who, u, e)
    PROVE  Carries(who, t \o u, d \o e)
  <1>1. PICK f : /\ Parses(t, f) /\ Dues(who, f) = d
                 /\ \A i \in 1..Len(f) : f[i] # <<"DONE">> /\ Stream!UsageOf(f[i]) # "usage"
    BY DEF Carries
  <1>2. PICK g : /\ Parses(u, g) /\ Dues(who, g) = e
                 /\ \A i \in 1..Len(g) : g[i] # <<"DONE">> /\ Stream!UsageOf(g[i]) # "usage"
    BY DEF Carries
  <1>3. f \in Seq(Frame) /\ g \in Seq(Frame)
    BY <1>1, <1>2 DEF Parses
  <1>4. Parses(t \o u, f \o g)
    BY <1>1, <1>2, ParsesConcat
  <1>5. Dues(who, f \o g) = d \o e
    BY <1>1, <1>2, <1>3, DuesConcat
  <1>6. /\ Len(f \o g) = Len(f) + Len(g) /\ Len(f) \in Nat /\ Len(g) \in Nat
        /\ \A i \in 1..(Len(f) + Len(g)) : (f \o g)[i] = IF i <= Len(f) THEN f[i] ELSE g[i - Len(f)]
    BY <1>3, ConcatProperties, LenProperties
  <1>7. ASSUME NEW i \in 1..Len(f \o g)
        PROVE  (f \o g)[i] # <<"DONE">> /\ Stream!UsageOf((f \o g)[i]) # "usage"
    <2>1. CASE i <= Len(f)
      <3>1. i \in 1..Len(f) /\ (f \o g)[i] = f[i]
        BY <1>6, <2>1
      <3>2. QED
        BY <1>1, <3>1
    <2>2. CASE ~ (i <= Len(f))
      <3>1. i - Len(f) \in 1..Len(g) /\ (f \o g)[i] = g[i - Len(f)]
        BY <1>6, <2>2
      <3>2. QED
        BY <1>2, <3>1
    <2>3. QED
      BY <2>1, <2>2
  <1>8. QED
    BY <1>4, <1>5, <1>7 DEF Carries

LEMMA CarriesNothing ==
    ASSUME NEW who
    PROVE  Carries(who, <<>>, <<>>)
  <1>1. Len(<<>>) = 0
    OBVIOUS
  <1>2. QED
    BY <1>1, ParsesNothing, DuesNone DEF Carries

LEMMA CarriesOne ==
    ASSUME NEW who, NEW text, NEW frame \in Frame, Parses(text, <<frame>>),
           frame # <<"DONE">>, Stream!UsageOf(frame) # "usage"
    PROVE  Carries(who, text, Due(who, frame))
  <1>1. Dues(who, <<frame>>) = Due(who, frame)
    BY DuesOne
  <1>2. \A i \in 1..Len(<<frame>>) : <<frame>>[i] = frame
    OBVIOUS
  <1>3. QED
    BY <1>1, <1>2 DEF Carries

\* A mark as a frame of its own.
LEMMA MarkFrame ==
    ASSUME NEW mark \in Stream!Marks \ {"newline"}
    PROVE  /\ <<mark>> \in Frame
           /\ <<"data", mark>> \o Stream!BlankLine \in Seq(Rest)
           /\ Parses(<<"data", mark>> \o Stream!BlankLine, <<<<mark>>>>)
  <1>1. mark \in Symbol \ {"newline"} /\ mark \in Rest /\ "data" \in Rest /\ "data" \in Symbol
    BY MarksRemain DEF Stream!Marks
  <1>2. <<mark>> \in Body /\ <<mark>> # <<>> /\ <<mark>> \in Frame
    BY <1>1 DEF Body, Frame, Text
  <1>3. Parses((<<"data">> \o <<mark>>) \o Stream!BlankLine, <<<<mark>>>>)
    BY <1>2, ParsesData
  <1>4. <<"data">> \o <<mark>> = <<"data", mark>>
    BY <1>1, TwoElements
  <1>5. <<"data", mark>> \in Seq(Rest)
    BY <1>1
  <1>6. <<"data", mark>> \o Stream!BlankLine \in Seq(Rest)
    BY <1>5, BlankLineType, ConcatProperties
  <1>7. QED
    BY <1>2, <1>3, <1>4, <1>6

LEMMA GarbledCarried ==
    ASSUME NEW who
    PROVE  /\ Stream!GarbledFrame \in Text
           /\ Carries(who, Cut(Stream!GarbledFrame), <<>>)
  <1> DEFINE mark == "garbage"
  <1>1. /\ <<mark>> \in Frame
        /\ Stream!GarbledFrame \in Seq(Rest)
        /\ Parses(Stream!GarbledFrame, <<<<mark>>>>)
    <2>1. mark \in Stream!Marks \ {"newline"}
      BY DEF Stream!Marks
    <2>2. QED
      BY <2>1, MarkFrame DEF Stream!GarbledFrame
  <1>2. Stream!GarbledFrame \in Text /\ Cut(Stream!GarbledFrame) = Stream!GarbledFrame
    BY <1>1, CutRest
  <1>3. Due(who, <<mark>>) = <<>>
    BY DEF Due, Stream!Malformed
  <1>4. <<mark>> # <<"DONE">> /\ Stream!UsageOf(<<mark>>) # "usage"
    BY DEF Stream!UsageOf, Stream!Last
  <1>5. Carries(who, Stream!GarbledFrame, Due(who, <<mark>>))
    BY <1>1, <1>4, CarriesOne
  <1>6. QED
    BY <1>2, <1>3, <1>5

\* Tokens as the model writes them, and what they are made of when all that can be cut has been.
Token == Seq(Narrow \union Wide \union {"control"}) \ {<<>>}
Plain == Narrow \union {"control", "replacement"}

LEMMA PlainType ==
    /\ Plain \subseteq Rest
    /\ Plain \subseteq Symbol \ {"newline"}
    /\ Plain \intersect {"garbage", "DONE", "usage", "no usage"} = {}
    /\ "no usage" \in Symbol \ {"newline"}
  <1>1. Stream!Marks \intersect Narrow = {} /\ Stream!Marks \intersect Wide = {} /\ Narrow \intersect Wide = {}
    BY CharactersAssumption
  <1>2. Narrow \subseteq Symbol /\ Narrow \subseteq Rest
    BY <1>1 DEF Rest, Symbol, Stream!Symbol, Stream!Character
  <1>3. QED
    BY <1>1, <1>2, MarksRemain DEF Plain, Stream!Marks

LEMMA TokenCut ==
    ASSUME NEW t \in Token
    PROVE  t \in Frame /\ Cut(t) \in Seq(Plain) /\ Cut(t) \in Body /\ Cut(t) \in Frame
  <1> DEFINE R == Narrow \union Wide \union {"control"}
  <1>1. R \subseteq Symbol
    BY MarksRemain DEF Stream!Marks, Symbol, Stream!Symbol, Stream!Character
  <1>2. t \in Seq(R) /\ t # <<>>
    BY DEF Token
  <1>3. t \in Frame
    <2>1. t \in Text
      BY <1>1, <1>2, SeqMonotonic DEF Text
    <2>2. QED
      BY <1>2, <2>1 DEF Frame
  <1>4. \A x \in R : Halves(x) \in Seq(Plain)
    <2>1. \A x \in R : x \notin Wide => x \in Plain
      BY DEF Plain
    <2>2. "replacement" \in Plain
      BY DEF Plain
    <2>3. QED
      BY <2>1, <2>2 DEF Halves
  <1>5. Cut(t) \in Seq(Plain)
    <2>1. [i \in 1..Len(t) |-> Halves(t[i])] \in Seq(Seq(Plain))
      <3>1. Len(t) \in Nat /\ \A i \in 1..Len(t) : t[i] \in R
        BY <1>2
      <3>2. \A i \in 1..Len(t) : Halves(t[i]) \in Seq(Plain)
        BY <1>4, <3>1
      <3>3. QED
        BY <3>1, <3>2
    <2>2. Cut(t) = FlattenSeq([i \in 1..Len(t) |-> Halves(t[i])])
      BY <1>3, CutIsFlat DEF Frame
    <2>3. QED
      BY <2>1, <2>2, FlattenType
  <1>6. Cut(t) \in Body
    BY <1>5, PlainType, SeqMonotonic DEF Body
  <1>7. QED
    BY <1>3, <1>5, <1>6, FrameCut

LEMMA TokenCarried ==
    ASSUME NEW who, NEW t \in Token, NEW reports
    PROVE  /\ Stream!TokenFrame(t, reports) \in Text
           /\ Carries(who, Cut(Stream!TokenFrame(t, reports)), VisibleTo(who, <<Cut(t)>>))
  <1> DEFINE c == Cut(t)
  <1> DEFINE d == <<"data">>
  <1> DEFINE e == IF reports = "null before last" THEN <<"no usage">> ELSE <<>>
  <1> DEFINE l == Stream!BlankLine
  <1>1. t \in Text /\ c \in Text /\ c \in Seq(Plain) /\ c \in Body /\ c \in Frame /\ c # <<>>
    BY TokenCut DEF Frame
  <1>2. d \in Seq(Rest) /\ e \in Seq(Rest) /\ l \in Seq(Rest) /\ e \in Body
    <2>1. "data" \in Rest /\ "no usage" \in Rest /\ "no usage" \in Symbol \ {"newline"}
      BY MarksRemain DEF Stream!Marks
    <2>2. \A x \in Rest : <<x>> \in Seq(Rest)
      OBVIOUS
    <2>3. \A x \in Symbol \ {"newline"} : <<x>> \in Body
      BY DEF Body
    <2>4. <<>> \in Body /\ <<>> \in Seq(Rest)
      BY EmptySeq DEF Body
    <2>5. d \in Seq(Rest)
      BY <2>1, <2>2
    <2>6. e \in Seq(Rest) /\ e \in Body
      BY <2>1, <2>2, <2>3, <2>4
    <2>7. QED
      BY <2>5, <2>6, BlankLineType
  <1>3. d \in Text /\ Cut(d) = d /\ e \in Text /\ Cut(e) = e /\ l \in Text /\ Cut(l) = l
    BY <1>2, CutRest
  <1>4. Stream!TokenFrame(t, reports) = ((d \o t) \o e) \o l
    BY DEF Stream!TokenFrame
  <1> DEFINE frame == c \o e
  <1>5. d \o t \in Text /\ (d \o t) \o e \in Text /\ ((d \o t) \o e) \o l \in Text
    BY <1>1, <1>3, ConcatProperties DEF Text
  <1>6. Cut(((d \o t) \o e) \o l) = (d \o frame) \o l
    <2> HIDE DEF d, e, l, c
    <2>1. Cut(((d \o t) \o e) \o l) = ((d \o Cut(t)) \o e) \o l
      <3>1. Cut(((d \o t) \o e) \o l) = Cut((d \o t) \o e) \o Cut(l)
        BY <1>3, <1>5, CutConcat
      <3>2. Cut((d \o t) \o e) = Cut(d \o t) \o Cut(e)
        BY <1>3, <1>5, CutConcat
      <3>3. Cut(d \o t) = Cut(d) \o Cut(t)
        BY <1>1, <1>3, CutConcat
      <3>4. QED
        BY <1>3, <3>1, <3>2, <3>3
    <2>2. (d \o c) \o e = d \o (c \o e)
      BY <1>1, <1>3, ConcatAssociative, SMTT(30) DEF Text
    <2>3. QED
      BY <2>1, <2>2 DEF c
  <1>7. frame \in Body /\ frame \in Frame
    <2> HIDE DEF e, c
    <2>1. frame \in Body /\ Len(frame) = Len(c) + Len(e) /\ Len(c) \in Nat \ {0} /\ Len(e) \in Nat
      BY <1>1, <1>2, ConcatProperties, EmptySeq, LenProperties DEF Body
    <2>2. frame # <<>>
      BY <2>1
    <2>3. QED
      BY <2>1, <2>2, BodyType DEF Frame
  <1>8. Parses((d \o frame) \o l, <<frame>>)
    <2> HIDE DEF e, c
    <2>1. frame # <<>>
      BY <1>7 DEF Frame
    <2>2. QED
      BY <1>7, <2>1, ParsesData
  <1>9. Stream!TokenOf(frame) = <<c>> /\ ~ Stream!Malformed(frame) /\ ~ Stream!Done(frame)
        /\ Stream!UsageOf(frame) # "usage"
    <2>1. CASE reports = "null before last"
      <3> DEFINE n == "no usage"
      <3>1. n \in Symbol
        BY MarksRemain DEF Stream!Marks
      <3>2. frame = Append(c, n)
        BY <1>1, <2>1, <3>1, AppendIsConcat DEF Text
      <3>3. Stream!Front(frame) = c /\ Stream!Last(frame) = n
        <4>1. Front(Append(c, n)) = c /\ Last(Append(c, n)) = n
          <5> HIDE DEF c, n
          <5>1. QED
            BY <1>1, <3>1, FrontAppend DEF Text
        <4> HIDE DEF frame, c
        <4>2. QED
          BY <3>2, <4>1, StreamsOwn
      <3> HIDE DEF frame, c
      <3>4. Stream!TokenOf(frame) = <<c>> /\ Stream!UsageOf(frame) = n
        BY <1>1, <3>3 DEF Stream!TokenOf, Stream!UsageOf
      <3>5. Stream!Last(<<"garbage">>) = "garbage" /\ Stream!Last(<<"DONE">>) = "DONE"
        BY DEF Stream!Last
      <3>6. QED
        BY <3>3, <3>4, <3>5 DEF Stream!Malformed, Stream!Done
    <2>2. CASE reports # "null before last"
      <3>1. frame = c
        BY <1>1, <2>2, ConcatEmptySeq DEF Text
      <3>2. Stream!Last(c) \in Plain
        BY <1>1, FrontType, StreamsOwn
      <3> HIDE DEF frame, c
      <3>3. Stream!Last(c) \notin {"garbage", "DONE", "usage", "no usage"}
        BY <3>2, PlainType
      <3>4. Stream!TokenOf(c) = <<c>> /\ Stream!UsageOf(c) = "none"
        BY <1>1, <3>3 DEF Stream!TokenOf, Stream!UsageOf
      <3>5. Stream!Last(<<"garbage">>) = "garbage" /\ Stream!Last(<<"DONE">>) = "DONE"
        BY DEF Stream!Last
      <3>6. QED
        BY <3>1, <3>3, <3>4, <3>5 DEF Stream!Malformed, Stream!Done
    <2>3. QED
      BY <2>1, <2>2
  <1> HIDE DEF frame, c, d, l
  <1>10. Due(who, frame) = VisibleTo(who, <<c>>)
    BY <1>9 DEF Due
  <1>11. Carries(who, (d \o frame) \o l, VisibleTo(who, <<c>>))
    BY <1>7, <1>8, <1>9, <1>10, CarriesOne DEF Stream!Done
  <1>12. QED
    BY <1>4, <1>5, <1>6, <1>11 DEF c

\* What the server writes for the i-th token, and for all of them.
Framed(tokens, reports, garbled, i) ==
    (IF i = garbled THEN Stream!GarbledFrame ELSE <<>>) \o Stream!TokenFrame(tokens[i], reports)

AllFramed(tokens, reports, garbled) ==
    FlattenSeq([i \in 1..Len(tokens) |-> Framed(tokens, reports, garbled, i)])

UsagePart(reports) == IF reports = "never" THEN <<>> ELSE Stream!UsageFrame

LEMMA ResponseIs ==
    ASSUME NEW tokens, NEW reports, NEW garbled
    PROVE  Stream!Response(tokens, reports, garbled) =
               Stream!Encode(((Stream!CommentFrame \o AllFramed(tokens, reports, garbled))
                                  \o UsagePart(reports)) \o Stream!DoneFrame)
  BY DEF Stream!Response, AllFramed, Framed, UsagePart, Stream!FlattenSeq, FlattenSeq

LEMMA FramedCarried ==
    ASSUME NEW who, NEW tokens \in Seq(Token), NEW reports, NEW garbled, NEW i \in 1..Len(tokens)
    PROVE  /\ Framed(tokens, reports, garbled, i) \in Text
           /\ Carries(who, Cut(Framed(tokens, reports, garbled, i)), VisibleTo(who, <<Cut(tokens[i])>>))
  <1> DEFINE t == tokens[i]
  <1> DEFINE w == VisibleTo(who, <<Cut(t)>>)
  <1> DEFINE g == IF i = garbled THEN Stream!GarbledFrame ELSE <<>>
  <1> DEFINE f == Stream!TokenFrame(t, reports)
  <1>1. t \in Token
    OBVIOUS
  <1> HIDE DEF t
  <1>2. f \in Text /\ Carries(who, Cut(f), w)
    BY <1>1, TokenCarried
  <1>3. g \in Text /\ Carries(who, Cut(g), <<>>)
    <2>1. <<>> \in Text
      BY DEF Text
    <2>2. QED
      BY <2>1, GarbledCarried, CarriesNothing, CutEmpty
  <1>4. Framed(tokens, reports, garbled, i) = g \o f
    BY DEF Framed, t
  <1>5. <<>> \o w = w
    <2>1. <<Cut(t)>> \in Seq(Frame) /\ <<>> \in Seq(Frame)
      BY <1>1, TokenCut
    <2>2. w \in Seq(Frame)
      BY <2>1 DEF VisibleTo
    <2> HIDE DEF w
    <2>3. QED
      BY <2>2, ConcatEmptySeq
  <1> HIDE DEF g, f, w
  <1>6. g \o f \in Text /\ Cut(g \o f) = Cut(g) \o Cut(f)
    BY <1>2, <1>3, ConcatProperties, CutConcat DEF Text
  <1>7. Carries(who, Cut(g) \o Cut(f), <<>> \o w)
    BY <1>2, <1>3, CarriesConcat
  <1>8. QED
    BY <1>4, <1>5, <1>6, <1>7 DEF w, t

LEMMA AllCarried ==
    ASSUME NEW who, NEW tokens \in Seq(Token), NEW reports, NEW garbled
    PROVE  /\ AllFramed(tokens, reports, garbled) \in Text
           /\ Carries(who, Cut(AllFramed(tokens, reports, garbled)), WrittenFor(who, CutAll(tokens)))
  <1> DEFINE n == Len(tokens)
  <1> DEFINE g == [i \in 1..n |-> Framed(tokens, reports, garbled, i)]
  <1> DEFINE w == [i \in 1..n |-> VisibleTo(who, <<Cut(tokens[i])>>)]
  <1>1. n \in Nat
    OBVIOUS
  <1>2. \A i \in 1..n : g[i] \in Text /\ w[i] \in Seq(Frame) /\ Carries(who, Cut(g[i]), w[i])
    <2>1. ASSUME NEW i \in 1..n
          PROVE  g[i] \in Text /\ w[i] \in Seq(Frame) /\ Carries(who, Cut(g[i]), w[i])
      <3>1. g[i] = Framed(tokens, reports, garbled, i) /\ w[i] = VisibleTo(who, <<Cut(tokens[i])>>)
        OBVIOUS
      <3>2. tokens[i] \in Token
        OBVIOUS
      <3>3. <<Cut(tokens[i])>> \in Seq(Frame) /\ <<>> \in Seq(Frame)
        BY <3>2, TokenCut
      <3>4. w[i] \in Seq(Frame)
        BY <3>1, <3>3 DEF VisibleTo
      <3> HIDE DEF g, w
      <3>5. QED
        BY <3>1, <3>4, FramedCarried
    <2>2. QED
      BY <2>1
  <1>3. Upto(g, n) = [i \in 1..n |-> Framed(tokens, reports, garbled, i)]
    BY DEF Upto
  <1>4. Upto(w, n) = [i \in 1..Len(CutAll(tokens)) |-> VisibleTo(who, <<CutAll(tokens)[i]>>)]
    <2>1. Len(CutAll(tokens)) = n /\ \A i \in 1..n : CutAll(tokens)[i] = Cut(tokens[i])
      BY <1>1 DEF CutAll
    <2>2. QED
      BY <2>1 DEF Upto
  <1> HIDE DEF g, w, n
  <1> DEFINE T == {k \in Nat : k <= n => /\ FlattenSeq(Upto(g, k)) \in Text
                                         /\ Carries(who, Cut(FlattenSeq(Upto(g, k))), FlattenSeq(Upto(w, k)))}
  <1>5. 0 \in T
    <2>1. FlattenSeq(Upto(g, 0)) = <<>> /\ FlattenSeq(Upto(w, 0)) = <<>> /\ <<>> \in Text
      BY UptoNone, FlattenEmpty DEF Text
    <2>2. QED
      BY <2>1, CutEmpty, CarriesNothing
  <1>6. ASSUME NEW k \in Nat, k \in T
        PROVE  k + 1 \in T
    <2>1. SUFFICES ASSUME k + 1 <= n
                   PROVE  /\ FlattenSeq(Upto(g, k + 1)) \in Text
                          /\ Carries(who, Cut(FlattenSeq(Upto(g, k + 1))), FlattenSeq(Upto(w, k + 1)))
      OBVIOUS
    <2>2. k <= n /\ k + 1 \in 1..n /\ \A i \in 1..(k + 1) : i \in 1..n
      BY <1>1, <2>1
    <2> DEFINE before == FlattenSeq(Upto(g, k))
    <2>3. before \in Text /\ Carries(who, Cut(before), FlattenSeq(Upto(w, k)))
      BY <1>6, <2>2
    <2>4. FlattenSeq(Upto(g, k + 1)) = before \o g[k + 1]
      BY <1>2, <2>2, UptoFlat DEF Text
    <2>5. FlattenSeq(Upto(w, k + 1)) = FlattenSeq(Upto(w, k)) \o w[k + 1]
      BY <1>2, <2>2, UptoFlat
    <2> HIDE DEF before
    <2>6. g[k + 1] \in Text /\ Carries(who, Cut(g[k + 1]), w[k + 1])
      BY <1>2, <2>2
    <2>7. before \o g[k + 1] \in Text /\ Cut(before \o g[k + 1]) = Cut(before) \o Cut(g[k + 1])
      BY <2>3, <2>6, ConcatProperties, CutConcat DEF Text
    <2>8. Carries(who, Cut(before) \o Cut(g[k + 1]), FlattenSeq(Upto(w, k)) \o w[k + 1])
      BY <2>3, <2>6, CarriesConcat
    <2>9. QED
      BY <2>4, <2>5, <2>7, <2>8
  <1> HIDE DEF T
  <1>7. \A k \in Nat : k \in T
    BY <1>5, <1>6, SetInduction
  <1>8. FlattenSeq(Upto(g, n)) \in Text /\ Carries(who, Cut(FlattenSeq(Upto(g, n))), FlattenSeq(Upto(w, n)))
    BY <1>1, <1>7 DEF T
  <1>9. QED
    BY <1>3, <1>4, <1>8 DEF AllFramed, WrittenFor, n

\* What holds of the frames to come: [DONE] is the last, usage is told only where the
\* server tells it, and not taken back.
Orderly(list, reports) ==
    /\ list \in Seq(Frame)
    /\ \A i \in 1..Len(list) : list[i] = <<"DONE">> => i = Len(list)
    /\ \A i \in 1..Len(list) :
          Stream!UsageOf(list[i]) = "usage" => reports # "never" /\ list[i] = <<"usage">>
    /\ \A i \in 1..Len(list) : \A j \in 1..Len(list) :
          i < j /\ Stream!UsageOf(list[i]) = "usage" => Stream!UsageOf(list[j]) # "no usage"

TellsUsage(list) == \E i \in 1..Len(list) : Stream!UsageOf(list[i]) = "usage"

LEMMA HeadAndTail ==
    ASSUME NEW list \in Seq(Frame), list # <<>>
    PROVE  /\ Head(list) = list[1] /\ Head(list) \in Frame /\ Tail(list) \in Seq(Frame)
           /\ Len(list) \in Nat \ {0} /\ Len(Tail(list)) = Len(list) - 1
           /\ \A i \in 1..(Len(list) - 1) : Tail(list)[i] = list[i + 1]
  <1>1. Len(list) \in Nat \ {0}
    BY EmptySeq
  <1>2. Head(list) = list[1]
    OBVIOUS
  <1>3. QED
    BY <1>1, <1>2, HeadTailProperties

LEMMA OrderlyTail ==
    ASSUME NEW list, NEW reports, Orderly(list, reports), list # <<>>
    PROVE  Orderly(Tail(list), reports)
  <1> DEFINE t == Tail(list)
  <1> DEFINE n == Len(list)
  <1>1. list \in Seq(Frame)
    BY DEF Orderly
  <1>2. t \in Seq(Frame) /\ n \in Nat \ {0} /\ Len(t) = n - 1 /\ \A i \in 1..(n - 1) : t[i] = list[i + 1]
    BY <1>1, HeadAndTail
  <1> HIDE DEF t, n
  <1>3. \A i \in 1..(n - 1) : i + 1 \in 1..n
    BY <1>2
  <1>4. \A i \in 1..(n - 1) : t[i] = <<"DONE">> => i = n - 1
    <2>1. \A i \in 1..n : list[i] = <<"DONE">> => i = n
      BY DEF Orderly, n
    <2>2. QED
      BY <1>2, <1>3, <2>1
  <1>5. \A i \in 1..(n - 1) : Stream!UsageOf(t[i]) = "usage" => reports # "never" /\ t[i] = <<"usage">>
    <2>1. \A i \in 1..n : Stream!UsageOf(list[i]) = "usage" => reports # "never" /\ list[i] = <<"usage">>
      BY DEF Orderly, n
    <2>2. QED
      BY <1>2, <1>3, <2>1
  <1>6. ASSUME NEW i \in 1..(n - 1), NEW j \in 1..(n - 1), i < j, Stream!UsageOf(t[i]) = "usage"
        PROVE  Stream!UsageOf(t[j]) # "no usage"
    <2>1. i + 1 \in 1..n /\ j + 1 \in 1..n /\ i + 1 < j + 1 /\ t[i] = list[i + 1] /\ t[j] = list[j + 1]
      BY <1>2, <1>3, <1>6
    <2>2. QED
      BY <1>6, <2>1 DEF Orderly, n
  <1>7. QED
    BY <1>2, <1>4, <1>5, <1>6 DEF Orderly, t

\* Frames that are no token.
LEMMA MarkDue ==
    ASSUME NEW who, NEW mark \in {"DONE", "usage"}
    PROVE  Due(who, <<mark>>) = <<>>
  <1>1. mark \in Symbol
    BY MarksRemain DEF Stream!Marks
  <1>2. Append(<<>>, mark) = <<mark>> /\ <<>> \in Seq(Symbol)
    OBVIOUS
  <1>3. Front(Append(<<>>, mark)) = <<>> /\ Last(Append(<<>>, mark)) = mark
    BY <1>1, <1>2, FrontAppend
  <1>4. Front(<<mark>>) = <<>> /\ Last(<<mark>>) = mark
    BY <1>2, <1>3
  <1>5. Stream!Front(<<mark>>) = <<>> /\ Stream!Last(<<mark>>) = mark
    BY <1>4, StreamsOwn
  <1>6. Stream!TokenOf(<<mark>>) = <<>>
    BY <1>5 DEF Stream!TokenOf
  <1>7. QED
    BY <1>6 DEF Due, VisibleTo

\* The frames behind the tokens.
LEMMA LastFrames ==
    ASSUME NEW who, NEW reports
    PROVE  \E list :
              /\ UsagePart(reports) \o Stream!DoneFrame \in Text
              /\ Cut(UsagePart(reports) \o Stream!DoneFrame) = UsagePart(reports) \o Stream!DoneFrame
              /\ Parses(UsagePart(reports) \o Stream!DoneFrame, list)
              /\ Dues(who, list) = <<>>
              /\ list = IF reports = "never" THEN <<<<"DONE">>>> ELSE <<<<"usage">>, <<"DONE">>>>
  <1> DEFINE done == <<"DONE">>
  <1> DEFINE used == <<"usage">>
  <1> DEFINE D == Stream!DoneFrame
  <1> DEFINE U == Stream!UsageFrame
  <1>1. done \in Frame /\ D \in Seq(Rest) /\ Parses(D, <<done>>)
    <2>1. "DONE" \in Stream!Marks \ {"newline"}
      BY DEF Stream!Marks
    <2>2. QED
      BY <2>1, MarkFrame DEF Stream!DoneFrame
  <1>2. used \in Frame /\ U \in Seq(Rest) /\ Parses(U, <<used>>)
    <2>1. "usage" \in Stream!Marks \ {"newline"}
      BY DEF Stream!Marks
    <2>2. QED
      BY <2>1, MarkFrame DEF Stream!UsageFrame
  <1>3. \A mark \in {"DONE", "usage"} : Due(who, <<mark>>) = <<>>
    BY MarkDue
  <1>4. <<done>> \in Seq(Frame) /\ <<used>> \in Seq(Frame) /\ Dues(who, <<done>>) = <<>> /\ Dues(who, <<used>>) = <<>>
    BY <1>1, <1>2, <1>3, DuesOne
  <1>5. D \in Text /\ Cut(D) = D /\ U \in Text /\ Cut(U) = U
    BY <1>1, <1>2, CutRest
  <1>6. CASE reports = "never"
    <2>1. UsagePart(reports) \o D = D
      BY <1>5, <1>6, ConcatEmptySeq DEF UsagePart, Text
    <2>2. QED
      BY <1>1, <1>4, <1>5, <1>6, <2>1
  <1>7. CASE reports # "never"
    <2>1. UsagePart(reports) = U
      BY <1>7 DEF UsagePart
    <2>2. <<used>> \o <<done>> = <<used, done>>
      BY <1>1, <1>2, TwoElements
    <2> HIDE DEF D, U, done, used
    <2>3. Parses(U \o D, <<used, done>>)
      BY <1>1, <1>2, <2>2, ParsesConcat
    <2>4. Dues(who, <<used, done>>) = <<>> \o <<>>
      <3>1. Dues(who, <<used>> \o <<done>>) = Dues(who, <<used>>) \o Dues(who, <<done>>)
        BY <1>4, DuesConcat
      <3>2. QED
        BY <1>4, <2>2, <3>1
    <2>5. <<>> \o <<>> = <<>>
      BY EmptySeq, ConcatEmptySeq
    <2>6. U \o D \in Text /\ Cut(U \o D) = U \o D
      BY <1>5, CutConcat, ConcatProperties DEF Text
    <2>7. QED
      BY <1>7, <2>1, <2>3, <2>4, <2>5, <2>6 DEF D, done, used
  <1>8. QED
    BY <1>6, <1>7

\* What a text whose tokens are all there is followed by.
LEMMA ResponseCarried ==
    ASSUME NEW who, NEW tokens \in Seq(Token), NEW reports, NEW garbled
    PROVE  /\ Stream!Response(tokens, reports, garbled) \in Bytes
           /\ Paired(Stream!Response(tokens, reports, garbled))
           /\ \E list :
                 /\ Stream!Push(<<>>, Anon(Stream!Response(tokens, reports, garbled))) =
                        [buffer |-> <<>>, frames |-> list]
                 /\ Orderly(list, reports)
                 /\ Dues(who, list) = WrittenFor(who, CutAll(tokens))
                 /\ reports # "never" => TellsUsage(list)
  <1> DEFINE A == AllFramed(tokens, reports, garbled)
  <1> DEFINE C == Stream!CommentFrame
  <1> DEFINE E == UsagePart(reports) \o Stream!DoneFrame
  <1> DEFINE due == WrittenFor(who, CutAll(tokens))
  <1>1. A \in Text /\ Carries(who, Cut(A), due)
    BY AllCarried
  <1>2. C \in Text /\ Cut(C) = C /\ Parses(C, <<>>)
    <2>1. "comment" \in Rest
      BY MarksRemain DEF Stream!Marks
    <2>2. <<"comment">> \in Seq(Rest)
      BY <2>1
    <2>3. C \in Seq(Rest)
      BY <2>2, BlankLineType, ConcatProperties DEF Stream!CommentFrame
    <2>4. QED
      BY <2>3, CutRest, ParsesComment
  <1>3. PICK e :
           /\ E \in Text
           /\ Cut(E) = E
           /\ Parses(E, e)
           /\ Dues(who, e) = <<>>
           /\ e = IF reports = "never" THEN <<<<"DONE">>>> ELSE <<<<"usage">>, <<"DONE">>>>
    BY LastFrames
  <1>4. UsagePart(reports) \in Text /\ Stream!DoneFrame \in Text
    <2>1. "usage" \in Stream!Marks \ {"newline"} /\ "DONE" \in Stream!Marks \ {"newline"}
      BY DEF Stream!Marks
    <2>2. Stream!UsageFrame \in Seq(Rest) /\ Stream!DoneFrame \in Seq(Rest)
      BY <2>1, MarkFrame DEF Stream!UsageFrame, Stream!DoneFrame
    <2>3. <<>> \in Text
      BY DEF Text
    <2>4. QED
      BY <2>2, <2>3, CutRest DEF UsagePart
  <1>5. C \o A \in Text
    BY <1>1, <1>2, ConcatProperties DEF Text
  <1>6. ((C \o A) \o UsagePart(reports)) \o Stream!DoneFrame = (C \o A) \o E
    <2> DEFINE x == C \o A
    <2> DEFINE u == UsagePart(reports)
    <2> DEFINE d == Stream!DoneFrame
    <2>1. x \in Text /\ u \in Text /\ d \in Text
      BY <1>4, <1>5
    <2> HIDE DEF x, u, d
    <2>2. (x \o u) \o d = x \o (u \o d)
      BY <2>1, ConcatAssociative DEF Text
    <2>3. QED
      BY <2>2 DEF x, u, d
  <1> HIDE DEF A, C, E
  <1>7. Stream!Response(tokens, reports, garbled) = Stream!Encode((C \o A) \o E)
    BY <1>6, ResponseIs DEF A, C
  <1>8. (C \o A) \o E \in Text /\ Cut((C \o A) \o E) = (C \o Cut(A)) \o E
    <2>1. (C \o A) \o E \in Text
      BY <1>3, <1>5, ConcatProperties DEF Text
    <2>2. Cut((C \o A) \o E) = Cut(C \o A) \o Cut(E)
      BY <1>3, <1>5, CutConcat
    <2>3. Cut(C \o A) = Cut(C) \o Cut(A)
      BY <1>1, <1>2, CutConcat
    <2>4. QED
      BY <1>2, <1>3, <2>1, <2>2, <2>3
  <1>9. PICK f : /\ Parses(Cut(A), f) /\ Dues(who, f) = due
                 /\ \A i \in 1..Len(f) : f[i] # <<"DONE">> /\ Stream!UsageOf(f[i]) # "usage"
    BY <1>1 DEF Carries
  <1>10. f \in Seq(Frame) /\ e \in Seq(Frame)
    BY <1>3, <1>9 DEF Parses
  <1> DEFINE list == f \o e
  <1>11. Parses((C \o Cut(A)) \o E, list)
    <2>1. Parses(C \o Cut(A), <<>> \o f)
      BY <1>2, <1>9, ParsesConcat
    <2>2. <<>> \o f = f
      BY <1>10, ConcatEmptySeq
    <2>3. QED
      BY <1>3, <2>1, <2>2, ParsesConcat
  <1>12. Dues(who, list) = due
    <2>1. Dues(who, list) = Dues(who, f) \o Dues(who, e) /\ Dues(who, f) \in Seq(Frame)
      BY <1>10, DuesConcat
    <2>2. Dues(who, f) \o <<>> = Dues(who, f)
      BY <2>1, ConcatEmptySeq
    <2>3. QED
      BY <1>3, <1>9, <2>1, <2>2
  <1> DEFINE m == Len(f)
  <1> DEFINE l == Len(e)
  <1>13. /\ list \in Seq(Frame) /\ Len(list) = m + l /\ m \in Nat /\ l \in Nat
         /\ \A i \in 1..(m + l) : list[i] = IF i <= m THEN f[i] ELSE e[i - m]
    BY <1>10, ConcatProperties, LenProperties
  <1> HIDE DEF list, m
  <1>14. Stream!UsageOf(<<"usage">>) = "usage" /\ Stream!UsageOf(<<"DONE">>) = "none"
         /\ <<"usage">> # <<"DONE">>
    BY DEF Stream!UsageOf, Stream!Last
  <1>15. /\ l >= 1
         /\ \A i \in 1..l : e[i] = <<"DONE">> => i = l
         /\ \A i \in 1..l : Stream!UsageOf(e[i]) = "usage" => reports # "never" /\ e[i] = <<"usage">>
         /\ \A i \in 1..l : Stream!UsageOf(e[i]) # "no usage"
         /\ reports # "never" => 1 \in 1..l /\ Stream!UsageOf(e[1]) = "usage"
    <2>1. CASE reports = "never"
      <3>1. e = <<<<"DONE">>>>
        BY <1>3, <2>1
      <3>2. l = 1 /\ e[1] = <<"DONE">>
        BY <3>1
      <3> HIDE DEF l
      <3>3. \A i \in 1..l : i = l /\ e[i] = <<"DONE">> /\ Stream!UsageOf(e[i]) = "none"
        BY <1>14, <3>2
      <3>4. l >= 1
        BY <3>2
      <3>5. QED
        BY <2>1, <3>3, <3>4
    <2>2. CASE reports # "never"
      <3>1. e = <<<<"usage">>, <<"DONE">>>>
        BY <1>3, <2>2
      <3>2. l = 2 /\ e[1] = <<"usage">> /\ e[2] = <<"DONE">>
        BY <3>1
      <3> HIDE DEF l
      <3>3. \A i \in 1..l : i = 1 \/ i = 2
        BY <3>2
      <3>4. Stream!UsageOf(e[1]) = "usage" /\ Stream!UsageOf(e[2]) = "none" /\ e[1] # <<"DONE">>
        BY <1>14, <3>2
      <3>5. l >= 1 /\ 1 \in 1..l
        BY <3>2
      <3>6. \A i \in 1..l : e[i] = <<"DONE">> => i = l
        BY <3>2, <3>3, <3>4
      <3>7. \A i \in 1..l : /\ Stream!UsageOf(e[i]) = "usage" => reports # "never" /\ e[i] = <<"usage">>
                           /\ Stream!UsageOf(e[i]) # "no usage"
        BY <2>2, <3>2, <3>3, <3>4
      <3>8. QED
        BY <3>4, <3>5, <3>6, <3>7
    <2>3. QED
      BY <2>1, <2>2
  <1> HIDE DEF l
  <1>16. ASSUME NEW i \in 1..(m + l)
         PROVE  \/ i \in 1..m /\ list[i] = f[i] /\ list[i] # <<"DONE">> /\ Stream!UsageOf(list[i]) # "usage"
                \/ i - m \in 1..l /\ list[i] = e[i - m] /\ m < i
    <2>1. CASE i <= m
      <3>1. i \in 1..m
        BY <1>13, <2>1
      <3>2. QED
        BY <1>9, <1>13, <2>1, <3>1 DEF m
    <2>2. CASE ~ (i <= m)
      BY <1>13, <2>2
    <2>3. QED
      BY <2>1, <2>2
  <1>17. Orderly(list, reports)
    <2>1. \A i \in 1..(m + l) : list[i] = <<"DONE">> => i = m + l
      <3>1. ASSUME NEW i \in 1..(m + l), list[i] = <<"DONE">>
            PROVE  i = m + l
        <4>1. i - m \in 1..l /\ e[i - m] = <<"DONE">>
          BY <1>16, <3>1
        <4>2. i - m = l
          BY <1>15, <4>1
        <4>3. QED
          BY <1>13, <4>2
      <3>2. QED
        BY <3>1
    <2>2. \A i \in 1..(m + l) :
              Stream!UsageOf(list[i]) = "usage" => reports # "never" /\ list[i] = <<"usage">>
      BY <1>15, <1>16
    <2>3. ASSUME NEW i \in 1..(m + l), NEW j \in 1..(m + l), i < j, Stream!UsageOf(list[i]) = "usage"
          PROVE  Stream!UsageOf(list[j]) # "no usage"
      <3>1. m < i
        BY <1>16, <2>3
      <3>2. ~ (j \in 1..m)
        BY <1>13, <2>3, <3>1
      <3>3. j - m \in 1..l /\ list[j] = e[j - m]
        BY <1>16, <3>2
      <3>4. QED
        BY <1>15, <3>3
    <2>4. QED
      BY <1>13, <2>1, <2>2, <2>3 DEF Orderly
  <1>18. reports # "never" => TellsUsage(list)
    <2>1. SUFFICES ASSUME reports # "never"
                   PROVE  TellsUsage(list)
      OBVIOUS
    <2>2. m + 1 \in 1..(m + l) /\ ~ (m + 1 <= m) /\ (m + 1) - m = 1
      <3>1. m \in Nat /\ l \in Nat /\ l >= 1
        BY <1>13, <1>15
      <3>2. QED
        BY <3>1
    <2>3. list[m + 1] = e[1]
      BY <1>13, <2>2
    <2>4. QED
      BY <1>13, <1>15, <2>1, <2>2, <2>3 DEF TellsUsage
  <1>19. Stream!Push(<<>>, (C \o Cut(A)) \o E) = [buffer |-> <<>>, frames |-> list]
    BY <1>11 DEF Parses
  <1>20. /\ Stream!Encode((C \o A) \o E) \in Bytes
         /\ Paired(Stream!Encode((C \o A) \o E))
         /\ Anon(Stream!Encode((C \o A) \o E)) = (C \o Cut(A)) \o E
    BY <1>8, EncodeIs
  <1> HIDE DEF due
  <1>21. QED
    BY <1>7, <1>12, <1>17, <1>18, <1>19, <1>20 DEF due

-----------------------------------------------------------------------------
(* The stream: what has been delivered and what is to come make the answer. *)

\* The frames to come, when all that can be cut has been.
Coming == CutAll(frames) \o Stream!Push(Cut(buffer), Anon(wire)).frames

Whole == WrittenFor(provider, CutAll(answer))

Typed ==
    /\ provider \in Stream!Providers
    /\ answer \in Answers
    /\ usage \in Stream!Reports
    /\ wire \in Bytes
    /\ stalls \in BOOLEAN
    /\ buffer \in Text
    /\ frames \in Seq(Text)
    /\ delivered \in Seq(Text)
    /\ meta \in {"none", "usage", "no usage"}
    /\ outcome \in {"open", "ended", "failed"}

\* What is delivered is the beginning of the answer.
Arrived == \E due \in Seq(Frame) : Whole = CutAll(delivered) \o due

\* While the stream is open, all that is missing is still to come.
Expected ==
    /\ Orderly(Coming, usage)
    /\ Whole = CutAll(delivered) \o Dues(provider, Coming)
    /\ Used => meta = "usage" \/ TellsUsage(Coming)
    /\ meta = "usage" => \A i \in 1..Len(Coming) : Stream!UsageOf(Coming[i]) # "no usage"

StreamInv ==
    /\ Typed
    /\ Paired(wire)
    /\ meta = "usage" => Used
    /\ Arrived
    /\ outcome = "open" => Expected

LEMMA AnswerType ==
    ASSUME answer \in Answers
    PROVE  answer \in Seq(Token)
  BY AnswersAssumption DEF Token

LEMMA WrittenIs == Written(CutAll(answer)) = Whole /\ Written(answer) = WrittenFor(provider, answer)
  BY DEF Written, Whole, WrittenFor, VisibleTo, Stream!Visible

LEMMA ConsTail ==
    ASSUME NEW S, NEW x \in S, NEW s \in Seq(S)
    PROVE  /\ Head(<<x>> \o s) = x /\ Tail(<<x>> \o s) = s /\ <<x>> \o s # <<>>
           /\ Len(<<x>> \o s) = 1 + Len(s) /\ <<x>> \o s \in Seq(S)
  <1>1. <<x>> \in Seq(S)
    OBVIOUS
  <1>2. <<x>> \o s \in Seq(S) /\ Len(<<x>> \o s) = 1 + Len(s) /\ Len(s) \in Nat
    BY <1>1, ConcatProperties, LenProperties
  <1>3. Head(<<x>> \o s) = x /\ Tail(<<x>> \o s) = s
    BY <1>1
  <1>4. <<x>> \o s # <<>>
    <2>1. Len(<<>>) = 0
      OBVIOUS
    <2>2. QED
      BY <1>2, <2>1
  <1>5. QED
    BY <1>2, <1>3, <1>4

LEMMA StreamInit ==
    ASSUME Stream!Init
    PROVE  StreamInv
  <1>1. /\ provider \in Stream!Providers /\ answer \in Answers /\ usage \in Stream!Reports
        /\ stalls = FALSE /\ buffer = <<>> /\ frames = <<>> /\ delivered = <<>> /\ meta = "none"
        /\ outcome = "open"
    BY DEF Stream!Init
  <1>2. PICK garbled \in 0..Len(answer) : wire = Stream!Response(answer, usage, garbled)
    BY DEF Stream!Init
  <1>3. answer \in Seq(Token)
    BY <1>1, AnswerType
  <1>4. PICK list : /\ Stream!Push(<<>>, Anon(wire)) = [buffer |-> <<>>, frames |-> list]
                    /\ Orderly(list, usage)
                    /\ Dues(provider, list) = WrittenFor(provider, CutAll(answer))
                    /\ usage # "never" => TellsUsage(list)
    BY <1>2, <1>3, ResponseCarried
  <1>5. wire \in Bytes /\ Paired(wire)
    BY <1>2, <1>3, ResponseCarried
  <1>6. list \in Seq(Frame)
    BY <1>4 DEF Orderly
  <1>7. Coming = list
    <2>1. Coming = <<>> \o list
      <3>1. Cut(buffer) = <<>> /\ CutAll(frames) = <<>>
        BY <1>1, CutAllEmpty, CutEmpty
      <3>2. Stream!Push(Cut(buffer), Anon(wire)).frames = list
        BY <1>4, <3>1
      <3>3. QED
        BY <3>1, <3>2 DEF Coming
    <2>2. QED
      BY <1>6, <2>1, ConcatEmptySeq
  <1>8. Dues(provider, list) \in Seq(Frame)
    <2>1. <<>> \in Seq(Frame)
      OBVIOUS
    <2>2. QED
      BY <1>6, <2>1, DuesConcat
  <1>9. Whole = CutAll(delivered) \o Dues(provider, list)
    BY <1>1, <1>4, <1>8, CutAllEmpty, ConcatEmptySeq DEF Whole
  <1>10. Expected
    BY <1>1, <1>4, <1>7, <1>9 DEF Expected, Used
  <1>11. Arrived
    BY <1>8, <1>9 DEF Arrived
  <1>12. Typed
    <2>1. buffer \in Text /\ frames \in Seq(Text) /\ delivered \in Seq(Text)
      BY <1>1, EmptySeq DEF Text
    <2>2. QED
      BY <1>1, <1>5, <2>1 DEF Typed
  <1>13. QED
    BY <1>1, <1>5, <1>10, <1>11, <1>12 DEF StreamInv

\* Steps that deliver nothing.
LEMMA NothingDelivered ==
    ASSUME StreamInv, UNCHANGED <<provider, answer, usage, delivered, meta>>, Typed', Paired(wire'),
           outcome' = "open" => outcome = "open" /\ Coming' = Coming
    PROVE  StreamInv'
  <1>1. Whole' = Whole /\ Used' = Used /\ CutAll(delivered') = CutAll(delivered)
    BY DEF Whole, Used
  <1>2. Arrived'
    BY <1>1 DEF StreamInv, Arrived
  <1>3. ASSUME outcome' = "open"
        PROVE  Expected'
    BY <1>1, <1>3 DEF StreamInv, Expected
  <1>4. meta' = "usage" => Used'
    BY <1>1 DEF StreamInv
  <1>5. QED
    BY <1>2, <1>3, <1>4 DEF StreamInv

LEMMA ComingType ==
    ASSUME Typed
    PROVE  /\ CutAll(frames) \in Seq(Text) /\ Len(CutAll(frames)) = Len(frames)
           /\ Cut(buffer) \in Text /\ Anon(wire) \in Text
           /\ Stream!Push(Cut(buffer), Anon(wire)).frames \in Seq(Text)
  <1>1. buffer \in Text /\ wire \in Bytes /\ frames \in Seq(Text)
    BY DEF Typed
  <1>2. Cut(buffer) \in Text /\ Anon(wire) \in Text
    BY <1>1, CutType, AnonType
  <1>3. Stream!Push(Cut(buffer), Anon(wire)) \in Decoder
    BY <1>2, PushType
  <1>4. QED
    BY <1>1, <1>2, <1>3, CutAllType DEF Decoder

\* However much of it a chunk has, and wherever it is cut, what is to come stays the same.
LEMMA ReceiveKeeps ==
    ASSUME StreamInv, Stream!Receive
    PROVE  StreamInv' /\ Coming' = Coming
  <1>1. /\ outcome = "open" /\ frames = <<>>
        /\ UNCHANGED <<provider, answer, usage, stalls, delivered, meta, outcome>>
    BY DEF Stream!Receive, Stream!given
  <1>2. PICK n \in 1..MaxChunk :
           /\ n <= Len(wire)
           /\ wire' = SubSeq(wire, n + 1, Len(wire))
           /\ buffer' = Stream!Push(buffer, Stream!Lossy(SubSeq(wire, 1, n))).buffer
           /\ frames' = Stream!Push(buffer, Stream!Lossy(SubSeq(wire, 1, n))).frames
    BY DEF Stream!Receive
  <1> DEFINE chunk == SubSeq(wire, 1, n)
  <1> DEFINE text == Stream!Lossy(chunk)
  <1> DEFINE pushed == Stream!Push(buffer, text)
  <1>3. wire \in Bytes /\ Paired(wire) /\ buffer \in Text /\ n \in 1..Len(wire)
    <2>1. wire \in Bytes /\ Paired(wire) /\ buffer \in Text
      BY DEF StreamInv, Typed
    <2>2. Len(wire) \in Nat
      BY <2>1 DEF Bytes
    <2>3. QED
      BY <1>2, <2>1, <2>2, MaxChunkAssumption
  <1>4. /\ chunk \in Bytes /\ Paired(chunk) /\ wire' \in Bytes /\ Paired(wire')
        /\ Anon(wire) = Anon(chunk) \o Anon(wire')
    BY <1>2, <1>3, Split
  <1> HIDE DEF chunk
  <1>5. text \in Text /\ Cut(text) = Anon(chunk)
    BY <1>4, CutLossy
  <1> HIDE DEF text
  <1>6. pushed \in Decoder /\ CutState(pushed) = Stream!Push(Cut(buffer), Anon(chunk))
    BY <1>3, <1>5, PushType, PushCut
  <1>7. buffer' = pushed.buffer /\ frames' = pushed.frames
    BY <1>2 DEF text, chunk
  <1> HIDE DEF pushed
  <1>8. buffer' \in Text /\ frames' \in Seq(Text)
    BY <1>6, <1>7 DEF Decoder
  <1>9. CutState(pushed) = [buffer |-> Cut(buffer'), frames |-> CutAll(frames')]
    BY <1>7 DEF CutState
  <1> DEFINE decoder == [buffer |-> Cut(buffer'), frames |-> CutAll(frames')]
  <1> DEFINE more == Stream!Push(Cut(buffer'), Anon(wire'))
  <1>10. Cut(buffer) \in Text /\ Anon(chunk) \in Text /\ Anon(wire') \in Text
    BY <1>3, <1>4, CutType, AnonType
  <1>11. Stream!Push(Cut(buffer), Anon(wire)) = Then(decoder, Anon(wire'))
    <2>1. Stream!Push(Cut(buffer), Anon(chunk) \o Anon(wire')) =
              Then(Stream!Push(Cut(buffer), Anon(chunk)), Anon(wire'))
      BY <1>10, PushConcat
    <2>2. Stream!Push(Cut(buffer), Anon(chunk)) = decoder
      BY <1>6, <1>9
    <2> HIDE DEF decoder
    <2>3. QED
      BY <1>4, <2>1, <2>2
  <1>12. Then(decoder, Anon(wire')) = [buffer |-> more.buffer, frames |-> CutAll(frames') \o more.frames]
    <2>1. decoder.buffer = Cut(buffer') /\ decoder.frames = CutAll(frames')
      OBVIOUS
    <2> HIDE DEF decoder
    <2>2. Then(decoder, Anon(wire')) =
              [buffer |-> Stream!Push(decoder.buffer, Anon(wire')).buffer,
               frames |-> decoder.frames \o Stream!Push(decoder.buffer, Anon(wire')).frames]
      BY DEF Then
    <2>3. QED
      BY <2>1, <2>2
  <1>13. Coming' = CutAll(frames') \o more.frames
    BY DEF Coming
  <1>14. Coming = Stream!Push(Cut(buffer), Anon(wire)).frames
    <2>1. Coming = <<>> \o Stream!Push(Cut(buffer), Anon(wire)).frames
      BY <1>1, CutAllEmpty DEF Coming
    <2>2. Stream!Push(Cut(buffer), Anon(wire)).frames \in Seq(Text)
      BY ComingType DEF StreamInv
    <2>3. QED
      BY <2>1, <2>2, ConcatEmptySeq
  <1> HIDE DEF decoder, more
  <1>15. Coming' = Coming
    BY <1>11, <1>12, <1>13, <1>14
  <1>16. Typed'
    BY <1>1, <1>4, <1>8 DEF StreamInv, Typed
  <1>17. QED
    BY <1>1, <1>4, <1>15, <1>16, NothingDelivered

\* The next frame is the head of what is to come, and the turn receives what is due for it.
LEMMA YieldIs ==
    ASSUME StreamInv, Stream!Yield
    PROVE  /\ UNCHANGED <<provider, answer, usage, wire, stalls, buffer, outcome>> /\ outcome = "open"
           /\ Coming \in Seq(Frame) /\ Coming # <<>> /\ Coming' = Tail(Coming)
           /\ frames' \in Seq(Text) /\ delivered' \in Seq(Text)
           /\ CutAll(delivered') = CutAll(delivered) \o Due(provider, Head(Coming))
           /\ meta' = IF provider = "openrouter" /\ Stream!UsageOf(Head(Coming)) # "none"
                      THEN Stream!UsageOf(Head(Coming)) ELSE meta
  <1> DEFINE f == Head(frames)
  <1> DEFINE P == Stream!Push(Cut(buffer), Anon(wire)).frames
  <1>1. /\ outcome = "open" /\ frames # <<>> /\ ~ Stream!Malformed(f)
        /\ frames' = IF Stream!Done(f) /\ provider = "openrouter" THEN <<>> ELSE Tail(frames)
        /\ delivered' = delivered \o Stream!Visible(Stream!TokenOf(f))
        /\ meta' = Stream!Metadata(f)
        /\ UNCHANGED <<provider, answer, usage, wire, stalls, buffer, outcome>>
    BY DEF Stream!Yield, Stream!given
  <1>2. Typed /\ Expected /\ Orderly(Coming, usage)
    BY <1>1 DEF StreamInv, Expected
  <1>3. frames \in Seq(Text) /\ delivered \in Seq(Text)
    BY <1>2 DEF Typed
  <1>4. f \in Text /\ Tail(frames) \in Seq(Text) /\ frames = <<f>> \o Tail(frames) /\ <<f>> \in Seq(Text)
    BY <1>1, <1>3
  <1>5. P \in Seq(Text)
    BY <1>2, ComingType
  <1>6. Cut(f) \in Text /\ CutAll(Tail(frames)) \in Seq(Text)
    BY <1>4, CutType, CutAllType
  <1> HIDE DEF f, P
  <1>7. CutAll(frames) = <<Cut(f)>> \o CutAll(Tail(frames))
    <2>1. CutAll(<<f>> \o Tail(frames)) = CutAll(<<f>>) \o CutAll(Tail(frames))
      BY <1>4, CutAllConcat
    <2>2. QED
      BY <1>4, <2>1, CutAllOne
  <1> DEFINE rest == CutAll(Tail(frames)) \o P
  <1>8. rest \in Seq(Text) /\ Len(rest) = Len(Tail(frames)) + Len(P)
    <2>1. rest \in Seq(Text) /\ Len(rest) = Len(CutAll(Tail(frames))) + Len(P)
      BY <1>5, <1>6, ConcatProperties
    <2>2. QED
      BY <1>4, <2>1, CutAllType
  <1>9. Coming = <<Cut(f)>> \o rest
    <2>1. Coming = (<<Cut(f)>> \o CutAll(Tail(frames))) \o P
      BY <1>7 DEF Coming, P
    <2>2. <<Cut(f)>> \in Seq(Text)
      BY <1>6
    <2>3. QED
      BY <1>5, <1>6, <2>1, <2>2, ConcatAssociative
  <1> HIDE DEF rest
  <1>10. Head(Coming) = Cut(f) /\ Tail(Coming) = rest /\ Coming # <<>> /\ Len(Coming) = 1 + Len(rest)
    BY <1>6, <1>8, <1>9, ConsTail
  <1>11. Coming \in Seq(Frame)
    BY <1>2 DEF Orderly
  <1>12. f \in Frame /\ Head(Coming) = Coming[1] /\ Len(Coming) \in Nat \ {0}
    <2>1. Cut(f) \in Frame /\ Head(Coming) = Coming[1] /\ Len(Coming) \in Nat \ {0}
      BY <1>10, <1>11, HeadAndTail
    <2>2. f # <<>>
      BY <2>1, CutEmpty DEF Frame
    <2>3. QED
      BY <1>4, <2>1, <2>2 DEF Frame
  <1>13. frames' = Tail(frames)
    <2>1. CASE Stream!Done(f)
      <3>1. Coming[1] = <<"DONE">>
        BY <1>4, <1>10, <1>12, <2>1, DoneCut DEF Stream!Done
      <3>2. 1 \in 1..Len(Coming)
        BY <1>12
      <3>3. Len(Coming) = 1
        BY <1>2, <3>1, <3>2 DEF Orderly
      <3>4. Len(Tail(frames)) \in Nat /\ Len(P) \in Nat
        BY <1>4, <1>5, LenProperties
      <3>5. Len(Tail(frames)) = 0
        BY <1>8, <1>10, <3>3, <3>4
      <3>6. Tail(frames) = <<>>
        BY <1>4, <3>5, EmptySeq
      <3>7. QED
        BY <1>1, <3>6
    <2>2. CASE ~ Stream!Done(f)
      BY <1>1, <2>2
    <2>3. QED
      BY <2>1, <2>2
  <1>14. Coming' = Tail(Coming)
    <2>1. Coming' = CutAll(frames') \o Stream!Push(Cut(buffer'), Anon(wire')).frames
      BY DEF Coming
    <2>2. QED
      BY <1>1, <1>10, <1>13, <2>1 DEF rest, P
  <1> DEFINE due == Stream!Visible(Stream!TokenOf(f))
  <1>15. due = Due(provider, f)
    BY <1>1 DEF Due, VisibleTo, Stream!Visible
  <1>16. due \in Seq(Text)
    BY <1>12, <1>15, DueIsSeq, FramesAreTexts
  <1>17. CutAll(due) = Due(provider, Head(Coming))
    BY <1>10, <1>12, <1>15, DueCut
  <1> HIDE DEF due
  <1>18. delivered' \in Seq(Text) /\ CutAll(delivered') = CutAll(delivered) \o CutAll(due)
    <2>1. delivered' = delivered \o due
      BY <1>1 DEF due
    <2>2. QED
      BY <1>3, <1>16, <2>1, ConcatProperties, CutAllConcat
  <1>19. Stream!UsageOf(f) = Stream!UsageOf(Head(Coming))
    BY <1>10, <1>12, UsageOfCut
  <1>20. meta' = IF provider = "openrouter" /\ Stream!UsageOf(Head(Coming)) # "none"
                 THEN Stream!UsageOf(Head(Coming)) ELSE meta
    BY <1>1, <1>19 DEF Stream!Metadata
  <1>21. QED
    BY <1>1, <1>4, <1>10, <1>11, <1>13, <1>14, <1>17, <1>18, <1>20

LEMMA YieldKeeps ==
    ASSUME StreamInv, Stream!Yield
    PROVE  StreamInv'
  <1> DEFINE c == Head(Coming)
  <1> DEFINE u == Stream!UsageOf(c)
  <1> DEFINE n == Len(Coming)
  <1>1. /\ UNCHANGED <<provider, answer, usage, wire, stalls, buffer, outcome>> /\ outcome = "open"
        /\ Coming \in Seq(Frame) /\ Coming # <<>> /\ Coming' = Tail(Coming)
        /\ frames' \in Seq(Text) /\ delivered' \in Seq(Text)
        /\ CutAll(delivered') = CutAll(delivered) \o Due(provider, c)
        /\ meta' = IF provider = "openrouter" /\ u # "none" THEN u ELSE meta
    BY YieldIs
  <1>2. Typed /\ Expected /\ Paired(wire) /\ (meta = "usage" => Used)
    BY <1>1 DEF StreamInv
  <1>3. u \in {"none", "usage", "no usage"}
    BY DEF Stream!UsageOf
  <1>4. c = Coming[1] /\ c \in Frame /\ n \in Nat \ {0} /\ Len(Tail(Coming)) = n - 1
        /\ \A i \in 1..(n - 1) : Tail(Coming)[i] = Coming[i + 1]
    BY <1>1, HeadAndTail
  <1> HIDE DEF c, u, n
  <1>5. Typed'
    BY <1>1, <1>2, <1>3 DEF Typed
  <1>6. Whole' = Whole /\ Used' = Used
    BY <1>1 DEF Whole, Used
  <1>7. Orderly(Coming, usage)
    BY <1>2 DEF Expected
  <1>8. 1 \in 1..n /\ \A i \in 1..(n - 1) : i + 1 \in 1..n /\ 1 < i + 1
    BY <1>4
  <1>9. u = "usage" => usage # "never" /\ \A i \in 1..(n - 1) : Stream!UsageOf(Tail(Coming)[i]) # "no usage"
    <2>1. SUFFICES ASSUME u = "usage"
                   PROVE  usage # "never" /\ \A i \in 1..(n - 1) : Stream!UsageOf(Tail(Coming)[i]) # "no usage"
      OBVIOUS
    <2>2. Stream!UsageOf(Coming[1]) = "usage"
      BY <1>4, <2>1 DEF u
    <2>3. usage # "never"
      BY <1>7, <1>8, <2>2 DEF Orderly, n
    <2>4. ASSUME NEW i \in 1..(n - 1)
          PROVE  Stream!UsageOf(Tail(Coming)[i]) # "no usage"
      <3>1. Stream!UsageOf(Coming[i + 1]) # "no usage"
        BY <1>7, <1>8, <2>2 DEF Orderly, n
      <3>2. QED
        BY <1>4, <3>1
    <2>5. QED
      BY <2>3, <2>4
  <1>10. meta' = "usage" => Used'
    BY <1>1, <1>2, <1>6, <1>9 DEF Used
  <1>11. meta = "usage" => /\ u # "no usage"
                           /\ \A i \in 1..(n - 1) : Stream!UsageOf(Tail(Coming)[i]) # "no usage"
    <2>1. SUFFICES ASSUME meta = "usage"
                   PROVE  /\ u # "no usage"
                          /\ \A i \in 1..(n - 1) : Stream!UsageOf(Tail(Coming)[i]) # "no usage"
      OBVIOUS
    <2>2. \A i \in 1..n : Stream!UsageOf(Coming[i]) # "no usage"
      BY <1>2, <2>1 DEF Expected, n
    <2>3. QED
      BY <1>4, <1>8, <2>2 DEF u
  <1>12. meta' = "usage" => \A i \in 1..Len(Tail(Coming)) : Stream!UsageOf(Tail(Coming)[i]) # "no usage"
    BY <1>1, <1>4, <1>9, <1>11
  <1>13. Used' => meta' = "usage" \/ TellsUsage(Tail(Coming))
    <2>1. SUFFICES ASSUME Used
                   PROVE  meta' = "usage" \/ TellsUsage(Tail(Coming))
      BY <1>6
    <2>2. provider = "openrouter"
      BY <2>1 DEF Used
    <2>3. CASE u = "usage"
      BY <1>1, <2>2, <2>3
    <2>4. CASE meta = "usage"
      BY <1>1, <1>3, <1>11, <2>2, <2>4
    <2>5. CASE u # "usage" /\ meta # "usage"
      <3>1. PICK i \in 1..n : Stream!UsageOf(Coming[i]) = "usage"
        BY <1>2, <2>1, <2>5 DEF Expected, TellsUsage, n
      <3>2. i # 1
        BY <1>4, <2>5, <3>1 DEF u
      <3>3. i - 1 \in 1..(n - 1) /\ (i - 1) + 1 = i
        BY <1>4, <3>2
      <3>4. Tail(Coming)[i - 1] = Coming[i]
        BY <1>4, <3>3
      <3>5. QED
        BY <1>4, <3>1, <3>3, <3>4 DEF TellsUsage
    <2>6. QED
      BY <2>3, <2>4, <2>5
  <1> DEFINE due == Dues(provider, Tail(Coming))
  <1>14. Whole = CutAll(delivered') \o due /\ due \in Seq(Frame)
    <2>1. Dues(provider, Coming) = Due(provider, c) \o due /\ due \in Seq(Frame)
      BY <1>1, DuesHead DEF c
    <2>2. Whole = CutAll(delivered) \o Dues(provider, Coming)
      BY <1>2 DEF Expected
    <2>3. CutAll(delivered) \in Seq(Text) /\ Due(provider, c) \in Seq(Text) /\ due \in Seq(Text)
      BY <1>2, <1>4, <2>1, CutAllType, DueIsSeq, FramesAreTexts DEF Typed
    <2> HIDE DEF due
    <2>4. (CutAll(delivered) \o Due(provider, c)) \o due = CutAll(delivered) \o (Due(provider, c) \o due)
      BY <2>3, ConcatAssociative
    <2>5. QED
      BY <1>1, <2>1, <2>2, <2>4
  <1>15. Arrived'
    <2> HIDE DEF due
    <2>1. Whole' = CutAll(delivered') \o due
      BY <1>6, <1>14
    <2>2. QED
      BY <1>14, <2>1 DEF Arrived
  <1>16. Orderly(Tail(Coming), usage)
    BY <1>1, <1>7, OrderlyTail
  <1>17. Expected'
    BY <1>1, <1>6, <1>12, <1>13, <1>14, <1>16 DEF Expected
  <1>18. QED
    BY <1>1, <1>2, <1>5, <1>10, <1>15, <1>17 DEF StreamInv

\* The steps that end the stream.
LEMMA EndingKeeps ==
    ASSUME StreamInv, Stream!FailToParse \/ Stream!End \/ Stream!Break \/ Stream!TimeOut
    PROVE  StreamInv'
  <1>1. /\ UNCHANGED <<provider, answer, usage, wire, stalls, buffer, delivered, meta>>
        /\ frames' = frames \/ frames' = <<>>
        /\ outcome' \in {"ended", "failed"}
    BY DEF Stream!FailToParse, Stream!End, Stream!Break, Stream!TimeOut, Stream!given
  <1>2. <<>> \in Seq(Text)
    OBVIOUS
  <1>3. Typed' /\ Paired(wire')
    BY <1>1, <1>2 DEF StreamInv, Typed
  <1>4. QED
    BY <1>1, <1>3, NothingDelivered

LEMMA SilenceKeeps ==
    ASSUME StreamInv, Stream!Stall \/ UNCHANGED streamVars
    PROVE  StreamInv'
  <1>1. /\ UNCHANGED <<provider, answer, usage, wire, buffer, frames, delivered, meta, outcome>>
        /\ stalls' = stalls \/ stalls' = TRUE
    BY DEF Stream!Stall, Stream!given, streamVars
  <1>2. Typed' /\ Paired(wire') /\ Coming' = Coming
    BY <1>1 DEF StreamInv, Typed, Coming
  <1>3. QED
    BY <1>1, <1>2, NothingDelivered

-----------------------------------------------------------------------------
(* The refinement.                                                         *)

\* A sequence continued.
LEMMA NextElement ==
    ASSUME NEW S, NEW s \in Seq(S), NEW x \in S, NEW t \in Seq(S)
    PROVE  Len(s) < Len(s \o (<<x>> \o t)) /\ (s \o (<<x>> \o t))[Len(s) + 1] = x
  <1>1. <<x>> \in Seq(S) /\ Len(<<x>>) = 1 /\ <<x>>[1] = x
    OBVIOUS
  <1>2. /\ <<x>> \o t \in Seq(S) /\ Len(<<x>> \o t) = 1 + Len(t) /\ Len(t) \in Nat
        /\ \A i \in 1..(1 + Len(t)) : (<<x>> \o t)[i] = IF i <= 1 THEN <<x>>[i] ELSE t[i - 1]
    BY <1>1, ConcatProperties, LenProperties
  <1>3. (<<x>> \o t)[1] = x
    BY <1>1, <1>2
  <1> DEFINE u == <<x>> \o t
  <1> HIDE DEF u
  <1>4. u \in Seq(S) /\ Len(u) = 1 + Len(t) /\ u[1] = x
    BY <1>2, <1>3 DEF u
  <1>5. /\ Len(s \o u) = Len(s) + Len(u) /\ Len(s) \in Nat
        /\ \A i \in 1..(Len(s) + Len(u)) : (s \o u)[i] = IF i <= Len(s) THEN s[i] ELSE u[i - Len(s)]
    <2>1. u \in Seq(S)
      BY <1>4
    <2>2. QED
      BY <2>1, ConcatProperties, LenProperties
  <1>6. Len(s) + 1 \in 1..(Len(s) + Len(u)) /\ ~ (Len(s) + 1 <= Len(s)) /\ (Len(s) + 1) - Len(s) = 1
    BY <1>2, <1>4, <1>5
  <1>7. QED
    BY <1>2, <1>4, <1>5, <1>6 DEF u

LEMMA WrittenStays ==
    ASSUME UNCHANGED <<provider, answer>>
    PROVE  Written(CutAll(answer))' = Written(CutAll(answer))
  BY DEF Written, Stream!Visible

LEMMA NothingSeen ==
    ASSUME UNCHANGED <<provider, answer, usage, delivered, meta, outcome>>
    PROVE  UNCHANGED CutDelivery!vars
  BY WrittenStays DEF CutDelivery!vars, Used

LEMMA FailureSeen ==
    ASSUME UNCHANGED <<provider, answer, usage, delivered, meta>>, outcome = "open", outcome' = "failed"
    PROVE  CutDelivery!Fail
  BY WrittenStays DEF CutDelivery!Fail, Used

\* A stream that ends has nothing to come.
LEMMA EndSeen ==
    ASSUME StreamInv, Stream!End
    PROVE  CutDelivery!End
  <1>1. /\ outcome = "open" /\ frames = <<>> /\ wire = <<>> /\ outcome' = "ended"
        /\ UNCHANGED <<provider, answer, usage, delivered, meta>>
    BY DEF Stream!End, Stream!given
  <1>2. Typed /\ Expected /\ (meta = "usage" => Used)
    BY <1>1 DEF StreamInv
  <1>3. Coming = <<>>
    <2>1. Anon(<<>>) = <<>>
      BY DEF Anon
    <2>2. Stream!Push(Cut(buffer), Anon(wire)).frames = <<>>
      BY <1>1, <2>1, PushEmpty DEF Start
    <2>3. <<>> \o <<>> = <<>>
      BY EmptySeq, ConcatEmptySeq
    <2>4. QED
      BY <1>1, <2>2, <2>3, CutAllEmpty DEF Coming
  <1>4. Written(CutAll(answer)) = CutAll(delivered)
    <2>1. CutAll(delivered) \in Seq(Text)
      BY <1>2, CutAllType DEF Typed
    <2>2. Whole = CutAll(delivered) \o <<>>
      BY <1>2, <1>3, DuesNone DEF Expected
    <2>3. QED
      BY <2>1, <2>2, ConcatEmptySeq, WrittenIs
  <1>5. Used <=> meta = "usage"
    <2>1. ~ TellsUsage(<<>>)
      BY DEF TellsUsage
    <2>2. QED
      BY <1>2, <1>3, <2>1 DEF Expected
  <1>6. (meta = "usage") = Used
    BY <1>5 DEF Used
  <1>7. Used' = Used
    BY <1>1 DEF Used
  <1>8. QED
    BY <1>1, <1>4, <1>6, <1>7, WrittenStays DEF CutDelivery!End

\* A frame delivers a token, or reports the usage, or neither is seen.
LEMMA YieldSeen ==
    ASSUME StreamInv, Stream!Yield
    PROVE  [CutDelivery!Next]_CutDelivery!vars
  <1> DEFINE c == Head(Coming)
  <1> DEFINE u == Stream!UsageOf(c)
  <1>1. /\ UNCHANGED <<provider, answer, usage, wire, stalls, buffer, outcome>> /\ outcome = "open"
        /\ Coming \in Seq(Frame) /\ Coming # <<>> /\ Coming' = Tail(Coming)
        /\ frames' \in Seq(Text) /\ delivered' \in Seq(Text)
        /\ CutAll(delivered') = CutAll(delivered) \o Due(provider, c)
        /\ meta' = IF provider = "openrouter" /\ u # "none" THEN u ELSE meta
    BY YieldIs
  <1>2. Typed /\ Expected /\ (meta = "usage" => Used)
    BY <1>1 DEF StreamInv
  <1>3. c = Coming[1] /\ c \in Frame /\ 1 \in 1..Len(Coming)
    BY <1>1, HeadAndTail
  <1> HIDE DEF c
  <1>4. u = "usage" => usage # "never" /\ c = <<"usage">>
    BY <1>2, <1>3 DEF Expected, Orderly
  <1>5. meta = "usage" => u # "no usage"
    BY <1>2, <1>3 DEF Expected
  <1>6. u \in {"none", "usage", "no usage"}
    BY DEF Stream!UsageOf
  <1> HIDE DEF u
  <1>7. Used' = Used /\ Written(CutAll(answer))' = Written(CutAll(answer)) /\ CutAll(delivered)' = CutAll(delivered')
    BY <1>1, WrittenStays DEF Used
  <1>8. CutAll(delivered) \in Seq(Text)
    BY <1>2, CutAllType DEF Typed
  <1>9. CASE Due(provider, c) = <<>>
    <2>1. CutAll(delivered)' = CutAll(delivered)
      BY <1>1, <1>7, <1>8, <1>9, ConcatEmptySeq
    <2>2. CASE (meta' = "usage") = (meta = "usage")
      BY <1>1, <1>7, <2>1, <2>2 DEF CutDelivery!vars
    <2>3. CASE (meta' = "usage") # (meta = "usage")
      <3>1. meta' = "usage"
        BY <1>1, <1>5, <1>6, <2>3
      <3>2. Used
        BY <1>1, <1>2, <1>4, <2>3, <3>1 DEF Used
      <3>3. (meta' = "usage") = TRUE
        BY <3>1
      <3>4. CutDelivery!Report
        BY <1>1, <1>7, <2>1, <3>2, <3>3 DEF CutDelivery!Report
      <3>5. QED
        BY <3>4 DEF CutDelivery!Next
    <2>4. QED
      BY <2>2, <2>3
  <1>10. ASSUME NEW t \in Frame, Due(provider, c) = <<t>>
         PROVE  CutDelivery!Deliver
    <2>1. u # "usage"
      <3>1. c # <<"usage">>
        <4>1. Due(provider, <<"usage">>) = <<>>
          BY MarkDue
        <4>2. <<t>> # <<>>
          OBVIOUS
        <4>3. QED
          BY <1>10, <4>1, <4>2
      <3>2. QED
        BY <1>4, <3>1
    <2>2. (meta' = "usage") = (meta = "usage")
      BY <1>1, <1>5, <1>6, <2>1
    <2> DEFINE rest == Dues(provider, Tail(Coming))
    <2> DEFINE s == CutAll(delivered)
    <2>3. Written(CutAll(answer)) = s \o (<<t>> \o rest) /\ rest \in Seq(Text) /\ t \in Text
      <3>1. Dues(provider, Coming) = <<t>> \o rest /\ rest \in Seq(Frame)
        BY <1>1, <1>10, DuesHead DEF c
      <3>2. rest \in Seq(Text) /\ t \in Text
        BY <3>1, FramesAreTexts DEF Frame
      <3>3. QED
        BY <1>2, <3>1, <3>2, WrittenIs DEF Expected
    <2> HIDE DEF rest
    <2>4. Len(s) < Len(Written(CutAll(answer))) /\ Written(CutAll(answer))[Len(s) + 1] = t
      <3> HIDE DEF s
      <3>1. s \in Seq(Text)
        BY <1>8 DEF s
      <3>2. QED
        BY <2>3, <3>1, NextElement
    <2>5. CutAll(delivered)' = Append(s, t)
      BY <1>1, <1>7, <1>8, <1>10, <2>3, AppendIsConcat
    <2>6. QED
      BY <1>1, <1>7, <2>2, <2>4, <2>5 DEF CutDelivery!Deliver
  <1>11. QED
    BY <1>3, <1>9, <1>10, DueType DEF CutDelivery!Next

-----------------------------------------------------------------------------
(* What is delivered consists of what the answer does.                     *)

LEMMA ElementsType ==
    ASSUME NEW S, NEW R, NEW s \in Seq(S), \A i \in 1..Len(s) : s[i] \in R
    PROVE  s \in Seq(R)
  <1>1. Len(s) \in Nat /\ s \in [1..Len(s) -> S]
    BY LenProperties
  <1>2. s \in [1..Len(s) -> R]
    BY <1>1
  <1>3. QED
    BY <1>1, <1>2

LEMMA ConcatParts ==
    ASSUME NEW S, NEW R, NEW s \in Seq(S), NEW t \in Seq(S), s \o t \in Seq(R)
    PROVE  s \in Seq(R) /\ t \in Seq(R)
  <1>1. /\ Len(s \o t) = Len(s) + Len(t) /\ Len(s) \in Nat /\ Len(t) \in Nat
        /\ \A i \in 1..(Len(s) + Len(t)) : (s \o t)[i] = IF i <= Len(s) THEN s[i] ELSE t[i - Len(s)]
    BY ConcatProperties, LenProperties
  <1>2. \A i \in 1..(Len(s) + Len(t)) : (s \o t)[i] \in R
    BY <1>1
  <1>3. ASSUME NEW i \in 1..Len(s)
        PROVE  s[i] \in R
    <2>1. i \in 1..(Len(s) + Len(t)) /\ i <= Len(s)
      BY <1>1
    <2>2. QED
      BY <1>1, <1>2, <2>1
  <1>4. ASSUME NEW i \in 1..Len(t)
        PROVE  t[i] \in R
    <2>1. Len(s) + i \in 1..(Len(s) + Len(t)) /\ ~ (Len(s) + i <= Len(s)) /\ (Len(s) + i) - Len(s) = i
      BY <1>1
    <2>2. QED
      BY <1>1, <1>2, <2>1
  <1>5. QED
    BY <1>3, <1>4, ElementsType

LEMMA CutInside ==
    ASSUME NEW R, NEW s \in Text, Cut(s) \in Seq(R)
    PROVE  s \in Seq(R \union Wide) /\ ("replacement" \notin R => s \in Seq(R))
  <1> DEFINE T == {t \in Text : Cut(t) \in Seq(R) =>
                      t \in Seq(R \union Wide) /\ ("replacement" \notin R => t \in Seq(R))}
  <1>1. <<>> \in T
    BY EmptySeq DEF Text
  <1>2. ASSUME NEW t \in Text, NEW x \in Symbol, t \in T
        PROVE  Append(t, x) \in T
    <2>1. SUFFICES ASSUME Cut(Append(t, x)) \in Seq(R)
                   PROVE  /\ Append(t, x) \in Seq(R \union Wide)
                          /\ "replacement" \notin R => Append(t, x) \in Seq(R)
      BY DEF Text
    <2>2. Cut(t) \in Text /\ Halves(x) \in Text /\ Cut(t) \o Halves(x) \in Seq(R)
      BY <2>1, CutType, HalvesType, CutAppend
    <2>3. Cut(t) \in Seq(R) /\ Halves(x) \in Seq(R)
      BY <2>2, ConcatParts DEF Text
    <2>4. t \in Seq(R \union Wide) /\ ("replacement" \notin R => t \in Seq(R))
      BY <1>2, <2>3
    <2>5. CASE x \in Wide
      <3>1. "replacement" \in R
        BY <2>3, <2>5 DEF Halves
      <3>2. x \in R \union Wide
        BY <2>5
      <3>3. QED
        BY <2>4, <3>1, <3>2, AppendProperties
    <2>6. CASE x \notin Wide
      <3>1. x \in R
        BY <2>3, <2>6 DEF Halves
      <3>2. x \in R \union Wide
        BY <3>1
      <3>3. Append(t, x) \in Seq(R \union Wide)
        BY <2>4, <3>2, AppendProperties
      <3>4. "replacement" \notin R => Append(t, x) \in Seq(R)
        BY <2>4, <3>1, AppendProperties
      <3>5. QED
        BY <3>3, <3>4
    <2>7. QED
      BY <2>5, <2>6
  <1> HIDE DEF T
  <1>3. \A t \in Text : t \in T
    BY <1>1, <1>2, SequencesInduction DEF Text
  <1>4. QED
    BY <1>3 DEF T

LEMMA WrittenWithin ==
    ASSUME NEW who, NEW R, NEW tokens \in Seq(Seq(R))
    PROVE  WrittenFor(who, tokens) \in Seq(Seq(R))
  <1> DEFINE w == [i \in 1..Len(tokens) |-> VisibleTo(who, <<tokens[i]>>)]
  <1>1. Len(tokens) \in Nat /\ \A i \in 1..Len(tokens) : tokens[i] \in Seq(R)
    OBVIOUS
  <1>2. \A i \in 1..Len(tokens) : <<tokens[i]>> \in Seq(Seq(R))
    BY <1>1
  <1>3. \A i \in 1..Len(tokens) : VisibleTo(who, <<tokens[i]>>) \in Seq(Seq(R))
    BY <1>2, EmptySeq DEF VisibleTo
  <1>4. w \in Seq(Seq(Seq(R)))
    BY <1>1, <1>3
  <1> HIDE DEF w
  <1>5. FlattenSeq(w) \in Seq(Seq(R))
    BY <1>4, FlattenType
  <1>6. QED
    BY <1>5 DEF WrittenFor, w

LEMMA DeliveredWithin ==
    ASSUME NEW R, StreamInv, CutAll(answer) \in Seq(Seq(R))
    PROVE  /\ delivered \in Seq(Seq(R \union Wide))
           /\ "replacement" \notin R => delivered \in Seq(Seq(R))
  <1>1. delivered \in Seq(Text) /\ Arrived
    BY DEF StreamInv, Typed
  <1>2. PICK due \in Seq(Frame) : Whole = CutAll(delivered) \o due
    BY <1>1 DEF Arrived
  <1>3. Whole \in Seq(Seq(R))
    BY WrittenWithin DEF Whole
  <1>4. CutAll(delivered) \in Seq(Text) /\ due \in Seq(Text)
    BY <1>1, CutAllType, FramesAreTexts
  <1>5. CutAll(delivered) \in Seq(Seq(R))
    BY <1>2, <1>3, <1>4, ConcatParts
  <1>6. ASSUME NEW i \in 1..Len(delivered)
        PROVE  /\ delivered[i] \in Seq(R \union Wide)
               /\ "replacement" \notin R => delivered[i] \in Seq(R)
    <2>1. Len(CutAll(delivered)) = Len(delivered) /\ CutAll(delivered)[i] = Cut(delivered[i])
      BY <1>1, CutAllType
    <2>2. delivered[i] \in Text
      BY <1>1
    <2>3. Cut(delivered[i]) \in Seq(R)
      BY <1>5, <2>1
    <2>4. QED
      BY <2>2, <2>3, CutInside
  <1>7. QED
    BY <1>1, <1>6, ElementsType

\* What all answers consist of when all that can be cut has been.
LEMMA AnswerWithin ==
    ASSUME answer \in Answers
    PROVE  CutAll(answer) \in Seq(Seq(Plain))
  <1>1. answer \in Seq(Token)
    BY AnswerType
  <1>2. \A i \in 1..Len(answer) : answer[i] \in Token
    BY <1>1
  <1>3. \A i \in 1..Len(answer) : Cut(answer[i]) \in Seq(Plain)
    BY <1>2, TokenCut
  <1>4. Len(answer) \in Nat
    BY <1>1
  <1>5. QED
    BY <1>3, <1>4 DEF CutAll

LEMMA StreamTyped ==
    ASSUME StreamInv
    PROVE  Stream!TypeOK
  <1>1. Typed
    BY DEF StreamInv
  <1>2. answer \in Answers
    BY <1>1 DEF Typed
  <1>3. delivered \in Seq(Seq(Plain \union Wide))
    BY <1>2, AnswerWithin, DeliveredWithin
  <1>4. Plain \union Wide = Stream!Character \union {"control", "replacement"}
    BY DEF Plain, Stream!Character
  <1>5. wire \in Seq(Stream!Byte)
    <2>1. ByteSent \subseteq Stream!Byte
      BY DEF ByteSent
    <2>2. wire \in Seq(ByteSent)
      BY <1>1 DEF Typed, Bytes
    <2>3. QED
      BY <2>1, <2>2, SeqMonotonic
  <1>6. QED
    BY <1>1, <1>3, <1>4, <1>5 DEF Typed, Stream!TypeOK, Text, Symbol

-----------------------------------------------------------------------------
(* The call.                                                               *)

\* Whoever sleeps has an attempt left.
RequestInv == Retry!TypeOK /\ (state = "sleeping" => attempt < MaxRetries)

CallInv == RequestInv /\ StreamInv

LEMMA RequestInit ==
    ASSUME Retry!Init
    PROVE  RequestInv
  <1>1. 0 \in 0..MaxRetries
    BY MaxRetriesAssumption
  <1>2. QED
    BY <1>1 DEF Retry!Init, RequestInv, Retry!TypeOK

LEMMA RequestKeeps ==
    ASSUME RequestInv, Retry!Next \/ UNCHANGED requestVars
    PROVE  RequestInv'
  <1> USE DEF RequestInv, Retry!TypeOK, Retry!Over
  <1>1. MaxRetries \in Nat /\ Retry!max_attempts = MaxRetries + 1 /\ attempt \in 0..MaxRetries
    BY MaxRetriesAssumption DEF Retry!max_attempts
  <1>2. CASE Retry!RefuseToStream
    BY <1>2 DEF Retry!RefuseToStream
  <1>3. CASE Retry!Succeed
    BY <1>1, <1>3 DEF Retry!Succeed
  <1>4. CASE Retry!GiveUp
    BY <1>1, <1>4 DEF Retry!GiveUp
  <1>5. CASE Retry!BackOff
    <2>1. attempt < MaxRetries
      BY <1>1, <1>5 DEF Retry!BackOff
    <2>2. QED
      BY <1>5, <2>1 DEF Retry!BackOff
  <1>6. CASE Retry!Wake
    <2>1. attempt + 1 \in 0..MaxRetries
      BY <1>1, <1>6 DEF Retry!Wake
    <2>2. QED
      BY <1>6, <2>1 DEF Retry!Wake
  <1>7. CASE Retry!Drop
    BY <1>7 DEF Retry!Drop
  <1>8. CASE UNCHANGED requestVars
    BY <1>8 DEF requestVars
  <1>9. QED
    BY <1>2, <1>3, <1>4, <1>5, <1>6, <1>7, <1>8 DEF Retry!Next

\* The request and the stream take turns.
LEMMA CallSteps ==
    ASSUME [Next]_vars
    PROVE  \/ Retry!Next /\ UNCHANGED streamVars
           \/ UNCHANGED requestVars /\ (Stream!Next \/ UNCHANGED streamVars)
  BY DEF Next, vars, Request, Read, Break, Stall, Stream!Next

LEMMA StreamKeeps ==
    ASSUME StreamInv, Stream!Next \/ UNCHANGED streamVars
    PROVE  StreamInv'
  BY ReceiveKeeps, YieldKeeps, EndingKeeps, SilenceKeeps DEF Stream!Next

LEMMA CallInit ==
    ASSUME Init
    PROVE  CallInv
  BY RequestInit, StreamInit DEF Init, CallInv

LEMMA CallKeeps ==
    ASSUME CallInv, [Next]_vars
    PROVE  CallInv'
  <1>1. RequestInv'
    BY CallSteps, RequestKeeps DEF CallInv
  <1>2. StreamInv'
    BY CallSteps, StreamKeeps DEF CallInv
  <1>3. QED
    BY <1>1, <1>2 DEF CallInv

THEOREM CallCorrect == Spec => []CallInv
  <1>1. Init => CallInv
    BY CallInit
  <1>2. CallInv /\ [Next]_vars => CallInv'
    BY CallKeeps
  <1>3. QED
    BY <1>1, <1>2, PTL DEF Spec

(* TypeOK: the variables of with_retries and of the stream keep their      *)
(* types, however the answer is cut.  What the turn receives is made of    *)
(* characters, control tokens and replacements for what was cut: no data   *)
(* of another frame, no newline and no half of a character gets into a     *)
(* token.                                                                  *)
THEOREM TypeCorrect == Spec => []TypeOK
  <1>1. CallInv => TypeOK
    BY StreamTyped DEF CallInv, RequestInv, TypeOK
  <1>2. QED
    BY <1>1, CallCorrect, PTL

(* with_retries computes 100 * (1 << attempt) in u64: up to max_retries =  *)
(* 58, and in a build without overflow checks always, computing the        *)
(* backoff does not panic, though nothing limits max_retries but its u8.   *)
THEOREM BackoffFits ==
    ASSUME MaxRetries <= 58 \/ ~ Checked
    PROVE  Spec => [](state # "panicked")
  <1> DEFINE Fits == state # "panicked"
  <1>1. Init => Fits
    BY DEF Init, Retry!Init
  <1>2. CallInv /\ Fits /\ [Next]_vars => Fits'
    <2>1. SUFFICES ASSUME CallInv, Fits, [Next]_vars
                   PROVE  Fits'
      OBVIOUS
    <2>2. CASE Retry!BackOff
      <3>1. attempt \in 0..MaxRetries /\ MaxRetries \in Nat /\ attempt + 1 < MaxRetries + 1
        BY <2>1, <2>2, MaxRetriesAssumption DEF CallInv, RequestInv, Retry!TypeOK, Retry!BackOff, Retry!max_attempts
      <3>2. ASSUME Checked
            PROVE  ~ Retry!Overflows(attempt)
        <4>1. attempt \in 0..57
          BY <3>1, <3>2
        <4>2. attempt % 64 = attempt /\ ~ (attempt > 63)
          BY <4>1
        <4>3. 2 + attempt \in 0..63 /\ 5 + attempt \in 0..63 /\ 6 + attempt \in 0..63
          BY <4>1
        <4>4. Retry!Product(attempt) \subseteq Retry!Word
          BY <4>2, <4>3 DEF Retry!Product, Retry!Hundred, Retry!Word
        <4>5. QED
          BY <4>2, <4>4 DEF Retry!Overflows, Retry!ShiftOverflows
      <3>3. QED
        BY <2>2, <3>2 DEF Retry!BackOff
    <2>3. CASE Retry!Next /\ ~ Retry!BackOff
      BY <2>3 DEF Retry!Next, Retry!RefuseToStream, Retry!Succeed, Retry!GiveUp, Retry!Wake, Retry!Drop
    <2>4. CASE UNCHANGED requestVars
      BY <2>1, <2>4 DEF requestVars
    <2>5. QED
      BY <2>1, <2>2, <2>3, <2>4, CallSteps
  <1>3. QED
    BY <1>1, <1>2, CallCorrect, PTL DEF Spec

-----------------------------------------------------------------------------
(* What the turn receives.                                                 *)

LEMMA CutDeliveryInit ==
    ASSUME Init
    PROVE  CutDelivery!Init
  <1>1. Typed /\ delivered = <<>> /\ meta = "none" /\ outcome = "open"
    BY CallInit DEF CallInv, StreamInv, Init, Stream!Init
  <1>2. Written(CutAll(answer)) \in Seq(Seq(Stream!Symbol))
    <2>1. Plain \subseteq Stream!Symbol
      BY PlainType DEF Symbol
    <2>2. Seq(Plain) \subseteq Seq(Stream!Symbol)
      BY <2>1, SeqMonotonic
    <2>3. Whole \in Seq(Seq(Plain))
      BY <1>1, AnswerWithin, WrittenWithin DEF Whole, Typed
    <2>4. Whole \in Seq(Seq(Stream!Symbol))
      BY <2>2, <2>3, SeqMonotonic
    <2>5. QED
      BY <2>4, WrittenIs
  <1>3. Used \in BOOLEAN
    BY DEF Used
  <1>4. CutAll(delivered) = <<>> /\ (meta = "usage") = FALSE
    BY <1>1, CutAllEmpty
  <1>5. QED
    BY <1>1, <1>2, <1>3, <1>4 DEF CutDelivery!Init

LEMMA CutDeliveryStep ==
    ASSUME CallInv, [Next]_vars
    PROVE  [CutDelivery!Next]_CutDelivery!vars
  <1>1. StreamInv
    BY DEF CallInv
  <1>2. CASE UNCHANGED streamVars \/ Stream!Receive \/ Stream!Stall
    <2>1. UNCHANGED <<provider, answer, usage, delivered, meta, outcome>>
      BY <1>2 DEF streamVars, Stream!Receive, Stream!Stall, Stream!given
    <2>2. QED
      BY <2>1, NothingSeen
  <1>3. CASE Stream!Yield
    BY <1>1, <1>3, YieldSeen
  <1>4. CASE Stream!End
    BY <1>1, <1>4, EndSeen DEF CutDelivery!Next
  <1>5. CASE Stream!FailToParse \/ Stream!Break \/ Stream!TimeOut
    <2>1. /\ UNCHANGED <<provider, answer, usage, delivered, meta>>
          /\ outcome = "open" /\ outcome' = "failed"
      BY <1>5 DEF Stream!FailToParse, Stream!Break, Stream!TimeOut, Stream!given
    <2>2. QED
      BY <2>1, FailureSeen DEF CutDelivery!Next
  <1>6. QED
    BY <1>2, <1>3, <1>4, <1>5, CallSteps DEF Stream!Next

(* DeliversAllButCutCharacters: however the network cuts the bytes of an   *)
(* answer into chunks, whatever characters are cut with them, with garbled *)
(* frames, broken connections and timeouts anywhere, the turn receives the *)
(* model's tokens one by one and in order, none twice and none left out,   *)
(* if one does not look at the characters of several bytes; a stream that  *)
(* ends has delivered them all, and OpenRouter's usage with them.          *)
THEOREM BytesArrive == Spec => DeliversAllButCutCharacters
  <1>1. Init => CutDelivery!Init
    BY CutDeliveryInit
  <1>2. CallInv /\ [Next]_vars => [CutDelivery!Next]_CutDelivery!vars
    BY CutDeliveryStep
  <1>3. QED
    BY <1>1, <1>2, CallCorrect, PTL DEF Spec, DeliversAllButCutCharacters, CutDelivery!Spec

OneByteAnswers == Answers \subseteq Seq(Seq(Narrow \union {"control"}) \ {<<>>})

LEMMA OneByteUncut ==
    ASSUME NEW tokens \in Seq(Seq(Narrow \union {"control"}))
    PROVE  CutAll(tokens) = tokens
  <1>1. Narrow \union {"control"} \subseteq Rest
    BY PlainType DEF Plain
  <1>2. \A i \in 1..Len(tokens) : tokens[i] \in Seq(Narrow \union {"control"})
    OBVIOUS
  <1>3. \A i \in 1..Len(tokens) : tokens[i] \in Seq(Rest)
    BY <1>1, <1>2, SeqMonotonic
  <1>4. \A i \in 1..Len(tokens) : Cut(tokens[i]) = tokens[i]
    BY <1>3, CutRest
  <1>5. tokens = [i \in 1..Len(tokens) |-> tokens[i]]
    OBVIOUS
  <1>6. QED
    BY <1>4, <1>5 DEF CutAll

LEMMA NothingCut ==
    ASSUME OneByteAnswers, StreamInv
    PROVE  CutAll(answer) = answer /\ CutAll(delivered) = delivered
  <1> DEFINE R == Narrow \union {"control"}
  <1>1. answer \in Seq(Seq(R))
    <2>1. answer \in Seq(Seq(R) \ {<<>>})
      BY DEF OneByteAnswers, StreamInv, Typed
    <2>2. Seq(R) \ {<<>>} \subseteq Seq(R)
      OBVIOUS
    <2> HIDE DEF R
    <2>3. QED
      BY <2>1, <2>2, SeqMonotonic
  <1>2. CutAll(answer) = answer
    BY <1>1, OneByteUncut
  <1>3. "replacement" \notin R
    BY CharactersAssumption DEF Stream!Marks
  <1>4. delivered \in Seq(Seq(R))
    <2> HIDE DEF R
    <2>1. QED
      BY <1>1, <1>2, <1>3, DeliveredWithin
  <1>5. QED
    BY <1>2, <1>4, OneByteUncut

(* DeliversTokens: an answer whose characters have one byte each arrives   *)
(* as the model wrote it, wherever it is cut.  The hypothesis is needed:   *)
(* a character of several bytes may be lost, as a run shows.               *)
THEOREM TokensArrive ==
    ASSUME OneByteAnswers
    PROVE  Spec => DeliversTokens
  <1>1. Init => Delivery!Init
    <2>1. SUFFICES ASSUME Init
                   PROVE  Delivery!Init
      OBVIOUS
    <2>2. StreamInv
      BY <2>1, CallInit DEF CallInv
    <2>3. CutAll(answer) = answer /\ CutAll(delivered) = delivered
      BY <2>2, NothingCut
    <2>4. CutDelivery!Init
      BY <2>1, CutDeliveryInit
    <2>5. QED
      BY <2>3, <2>4 DEF CutDelivery!Init, Delivery!Init
  <1>2. (StreamInv => CutAll(answer) = answer /\ CutAll(delivered) = delivered)'
    <2>1. StreamInv => CutAll(answer) = answer /\ CutAll(delivered) = delivered
      BY NothingCut
    <2>2. QED
      BY <2>1, PTL
  <1>3. CallInv /\ [Next]_vars => [Delivery!Next]_Delivery!vars
    <2>1. SUFFICES ASSUME CallInv, [Next]_vars
                   PROVE  [Delivery!Next]_Delivery!vars
      OBVIOUS
    <2>2. StreamInv /\ StreamInv'
      BY <2>1, CallKeeps DEF CallInv
    <2>3. CutAll(answer) = answer /\ CutAll(delivered) = delivered
      BY <2>2, NothingCut
    <2>4. (CutAll(answer) = answer /\ CutAll(delivered) = delivered)'
      BY <1>2, <2>2
    <2>5. [CutDelivery!Next]_CutDelivery!vars
      BY <2>1, CutDeliveryStep
    <2>6. Written(CutAll(answer)) = Written(answer) /\ Written(CutAll(answer))' = Written(answer)'
      BY <2>3, <2>4
    <2>7. QED
      BY <2>3, <2>4, <2>5, <2>6
      DEF CutDelivery!Next, CutDelivery!vars, CutDelivery!Deliver, CutDelivery!Report, CutDelivery!End,
          CutDelivery!Fail, Delivery!Next, Delivery!vars, Delivery!Deliver, Delivery!Report,
          Delivery!End, Delivery!Fail
  <1>4. QED
    BY <1>1, <1>3, CallCorrect, PTL DEF Spec, DeliversTokens, Delivery!Spec

=============================================================================
