----------------------- MODULE NarrationStream_proofs -----------------------
(***************************************************************************)
(* What the stripper makes of an answer of any length.  The argument       *)
(* follows the answer piece by piece: what lies in a block, what a cut tag *)
(* still lacks and what comes after a marker is settled by what has been   *)
(* written before it, and no later piece changes it.                       *)
(***************************************************************************)
EXTENDS NarrationStream, TLAPS

\* The text has a block that is not closed.
Open(text) == \E j \in 1..Len(text) : Tag(text, j) /\ \A k \in j..Len(text) : text[k] # "close"

\* A marker, or the first half of one, stands at i and outside of blocks.
Reveals(text, i) == text[i] \in {"marker", "marker_1"} /\ ~ InBlock(text, i)

Marked(text, i) == \E j \in 1..i : Reveals(text, j)

\* The second half of a cut marker is where the next piece belongs.
Completed(text, i) ==
    i = Len(text) \/ (text[i + 1] = "marker_2" /\ ~ InBlock(text, i + 1))

\* Each piece where a model puts it: the tale outside of blocks and before every
\* marker that is not in one.
InPlace(text, i) ==
    /\ text[i] = "tale" => ~ InBlock(text, i) /\ ~ Marked(text, i)
    /\ text[i] \in {"open", "open_2", "close"} => InBlock(text, i)
    /\ text[i] \in {"thought", "marker_2"} => InBlock(text, i) \/ Marked(text, i)
    /\ text[i] = "open_1" => StartsTag(text, i) \/ i = Len(text)
    /\ text[i] = "marker_1" /\ ~ InBlock(text, i) => Completed(text, i)

\* What a model in state m has written.
Told(text, m) ==
    /\ text \in Seq(Piece)
    /\ m \in Minds
    /\ \A i \in 1..Len(text) : InPlace(text, i)
    /\ Open(text) <=> m \in {"thinking", "musing"}
    /\ Marked(text, Len(text)) <=> m \in {"reasoning", "marking"}
    /\ (Len(text) > 0 /\ text[Len(text)] = "open_1") <=> m = "opening"
    /\ (Len(text) > 0 /\ text[Len(text)] = "marker_1") <=> m \in {"marking", "musing"}

-----------------------------------------------------------------------------
(* One more piece.                                                         *)

LEMMA ContinuationsAre ==
    ASSUME NEW m \in Minds, NEW next \in Continuations(m)
    PROVE  \/ m = "telling" /\ next \in {<<"tale", "telling">>, <<"open", "thinking">>,
                                         <<"marker", "reasoning">>, <<"open_1", "opening">>,
                                         <<"marker_1", "marking">>}
           \/ m = "opening" /\ next = <<"open_2", "thinking">>
           \/ m = "marking" /\ next = <<"marker_2", "reasoning">>
           \/ m = "thinking" /\ next \in {<<"thought", "thinking">>, <<"close", "telling">>,
                                          <<"marker", "thinking">>, <<"marker_1", "musing">>}
           \/ m = "musing" /\ next = <<"marker_2", "thinking">>
           \/ m = "reasoning" /\ next = <<"thought", "reasoning">>
  BY DEF Continuations, Minds, Within

LEMMA OneMore ==
    ASSUME NEW text \in Seq(Piece), NEW piece \in Piece, NEW longer, longer = Append(text, piece)
    PROVE  /\ longer \in Seq(Piece)
           /\ Len(text) \in Nat
           /\ Len(longer) = Len(text) + 1
           /\ longer[Len(text) + 1] = piece
           /\ \A i \in 1..Len(text) : longer[i] = text[i]
  OBVIOUS

\* What a text makes of a piece does not depend on what comes later.
LEMMA PrefixStays ==
    ASSUME NEW text \in Seq(Piece), NEW piece \in Piece, NEW longer, longer = Append(text, piece),
           NEW i \in 1..Len(text)
    PROVE  /\ Tag(longer, i) <=> Tag(text, i)
           /\ InBlock(longer, i) <=> InBlock(text, i)
           /\ StartsTag(text, i) => StartsTag(longer, i)
           /\ Reveals(longer, i) <=> Reveals(text, i)
  <1>1. Len(text) \in Nat /\ Len(longer) = Len(text) + 1 /\ \A j \in 1..Len(text) : longer[j] = text[j]
    BY OneMore
  <1>2. \A j \in 1..Len(text) : Tag(longer, j) <=> Tag(text, j)
    BY <1>1 DEF Tag
  <1>3. InBlock(longer, i) <=> InBlock(text, i)
    <2>1. \A j \in 1..i : (Tag(longer, j) <=> Tag(text, j)) /\ longer[j] = text[j]
      BY <1>1, <1>2
    <2>2. \A j \in 1..i : \A k \in j..(i - 1) : longer[k] = text[k]
      BY <1>1
    <2>3. QED
      BY <2>1, <2>2 DEF InBlock
  <1>4. StartsTag(text, i) => StartsTag(longer, i)
    BY <1>1 DEF StartsTag
  <1>5. Reveals(longer, i) <=> Reveals(text, i)
    BY <1>1, <1>3 DEF Reveals
  <1>6. QED
    BY <1>2, <1>3, <1>4, <1>5

LEMMA MarkedStays ==
    ASSUME NEW text \in Seq(Piece), NEW piece \in Piece, NEW longer, longer = Append(text, piece),
           NEW i \in 1..Len(text)
    PROVE  Marked(longer, i) <=> Marked(text, i)
  <1>1. \A j \in 1..i : j \in 1..Len(text)
    BY OneMore
  <1>2. \A j \in 1..i : Reveals(longer, j) <=> Reveals(text, j)
    BY <1>1, PrefixStays
  <1>3. QED
    BY <1>2 DEF Marked

LEMMA PieceFalls ==
    ASSUME NEW text \in Seq(Piece), NEW piece \in Piece, NEW longer, longer = Append(text, piece)
    PROVE  /\ InBlock(longer, Len(text) + 1) <=> Open(text) \/ Tag(longer, Len(text) + 1)
           /\ Open(longer) <=> piece # "close" /\ (Open(text) \/ Tag(longer, Len(text) + 1))
           /\ Marked(longer, Len(text) + 1) <=>
                  \/ Marked(text, Len(text))
                  \/ piece \in {"marker", "marker_1"} /\ ~ Open(text)
           /\ Tag(longer, Len(text) + 1) <=>
                  \/ piece = "open"
                  \/ piece = "open_2" /\ Len(text) > 0 /\ text[Len(text)] = "open_1"
  <1> DEFINE n == Len(text)
  <1>1. /\ n \in Nat /\ Len(longer) = n + 1 /\ longer[n + 1] = piece
        /\ \A i \in 1..n : longer[i] = text[i]
    BY OneMore
  <1>2. \A i \in 1..n : Tag(longer, i) <=> Tag(text, i)
    BY PrefixStays
  <1> HIDE DEF n
  <1>3. Tag(longer, n + 1) <=> piece = "open" \/ (piece = "open_2" /\ n > 0 /\ text[n] = "open_1")
    <2>1. (n + 1) - 1 = n /\ (n + 1 > 1 <=> n > 0)
      BY <1>1
    <2>2. n > 0 => longer[n] = text[n]
      BY <1>1
    <2>3. QED
      BY <1>1, <2>1, <2>2 DEF Tag
  <1>4. InBlock(longer, n + 1) <=> Open(text) \/ Tag(longer, n + 1)
    <2>1. ASSUME InBlock(longer, n + 1)
          PROVE  Open(text) \/ Tag(longer, n + 1)
      <3>1. PICK j \in 1..(n + 1) : Tag(longer, j) /\ \A k \in j..((n + 1) - 1) : longer[k] # "close"
        BY <2>1 DEF InBlock
      <3>2. CASE j = n + 1
        BY <3>1, <3>2
      <3>3. CASE j # n + 1
        <4>1. j \in 1..n /\ Tag(text, j)
          BY <1>2, <1>1, <3>1, <3>3
        <4>2. \A k \in j..n : text[k] # "close"
          BY <1>1, <3>1, <4>1
        <4>3. QED
          BY <4>1, <4>2 DEF Open, n
      <3>4. QED
        BY <3>2, <3>3
    <2>2. ASSUME Open(text)
          PROVE  InBlock(longer, n + 1)
      <3>1. PICK j \in 1..n : Tag(text, j) /\ \A k \in j..n : text[k] # "close"
        BY <2>2 DEF Open, n
      <3>2. j \in 1..(n + 1) /\ Tag(longer, j) /\ \A k \in j..((n + 1) - 1) : longer[k] # "close"
        BY <1>2, <1>1, <3>1
      <3>3. QED
        BY <3>2 DEF InBlock
    <2>3. ASSUME Tag(longer, n + 1)
          PROVE  InBlock(longer, n + 1)
      BY <1>1, <2>3 DEF InBlock
    <2>4. QED
      BY <2>1, <2>2, <2>3
  <1>5. Open(longer) <=> piece # "close" /\ (Open(text) \/ Tag(longer, n + 1))
    <2>1. Open(longer) <=> piece # "close" /\ InBlock(longer, n + 1)
      <3>1. ASSUME NEW j \in 1..(n + 1)
            PROVE  (\A k \in j..(n + 1) : longer[k] # "close")
                       <=> piece # "close" /\ \A k \in j..((n + 1) - 1) : longer[k] # "close"
        BY <1>1
      <3>2. QED
        BY <1>1, <3>1 DEF Open, InBlock
    <2>2. QED
      BY <1>4, <2>1
  <1>6. Marked(longer, n + 1) <=> Marked(text, n) \/ (piece \in {"marker", "marker_1"} /\ ~ Open(text))
    <2>1. \A j \in 1..(n + 1) : j = n + 1 \/ j \in 1..n
      BY <1>1
    <2>2. 1..n \subseteq 1..(n + 1) /\ n + 1 \in 1..(n + 1)
      BY <1>1
    <2>3. \A j \in 1..n : Reveals(longer, j) <=> Reveals(text, j)
      BY PrefixStays DEF n
    <2>4. Reveals(longer, n + 1) <=> piece \in {"marker", "marker_1"} /\ ~ Open(text)
      BY <1>1, <1>3, <1>4 DEF Reveals
    <2>5. QED
      BY <2>1, <2>2, <2>3, <2>4 DEF Marked
  <1>7. QED
    BY <1>3, <1>4, <1>5, <1>6 DEF n

LEMMA TellingGoesOn ==
    ASSUME NEW text, NEW m, Told(text, m), NEW next \in Continuations(m),
           NEW piece, piece = next[1], NEW longer, longer = Append(text, piece)
    PROVE  Told(longer, next[2])
  <1> DEFINE n == Len(text)
  <1>1. /\ text \in Seq(Piece) /\ piece \in Piece
        /\ next[2] \in Minds
    <2>1. m \in Minds
      BY DEF Told
    <2>2. text \in Seq(Piece)
      BY DEF Told
    <2>3. QED
      BY <2>1, <2>2, ContinuationsAre DEF Piece, Half, Minds, Within
  <1>2. /\ longer \in Seq(Piece) /\ Len(longer) = n + 1 /\ n \in Nat /\ longer[n + 1] = piece
        /\ \A i \in 1..n : longer[i] = text[i]
    BY <1>1, OneMore
  <1>3. /\ InBlock(longer, n + 1) <=> Open(text) \/ Tag(longer, n + 1)
        /\ Open(longer) <=> piece # "close" /\ (Open(text) \/ Tag(longer, n + 1))
        /\ Marked(longer, n + 1) <=>
               \/ Marked(text, n)
               \/ piece \in {"marker", "marker_1"} /\ ~ Open(text)
        /\ Tag(longer, n + 1) <=>
               \/ piece = "open"
               \/ piece = "open_2" /\ n > 0 /\ text[n] = "open_1"
    BY <1>1, PieceFalls
  <1> HIDE DEF n
  <1>4. /\ Open(text) <=> m \in {"thinking", "musing"}
        /\ Marked(text, n) <=> m \in {"reasoning", "marking"}
        /\ (n > 0 /\ text[n] = "open_1") <=> m = "opening"
        /\ (n > 0 /\ text[n] = "marker_1") <=> m \in {"marking", "musing"}
    BY DEF n, Told
  <1>5. \/ m = "telling" /\ piece = "tale" /\ next[2] = "telling"
        \/ m = "telling" /\ piece = "open" /\ next[2] = "thinking"
        \/ m = "telling" /\ piece = "marker" /\ next[2] = "reasoning"
        \/ m = "telling" /\ piece = "open_1" /\ next[2] = "opening"
        \/ m = "telling" /\ piece = "marker_1" /\ next[2] = "marking"
        \/ m = "opening" /\ piece = "open_2" /\ next[2] = "thinking"
        \/ m = "marking" /\ piece = "marker_2" /\ next[2] = "reasoning"
        \/ m = "thinking" /\ piece = "thought" /\ next[2] = "thinking"
        \/ m = "thinking" /\ piece = "close" /\ next[2] = "telling"
        \/ m = "thinking" /\ piece = "marker" /\ next[2] = "thinking"
        \/ m = "thinking" /\ piece = "marker_1" /\ next[2] = "musing"
        \/ m = "musing" /\ piece = "marker_2" /\ next[2] = "thinking"
        \/ m = "reasoning" /\ piece = "thought" /\ next[2] = "reasoning"
    <2>1. m \in Minds
      BY DEF Told
    <2>2. QED
      BY <2>1, ContinuationsAre
  <1>6. /\ Open(longer) <=> next[2] \in {"thinking", "musing"}
        /\ Marked(longer, n + 1) <=> next[2] \in {"reasoning", "marking"}
        /\ piece = "open_1" <=> next[2] = "opening"
        /\ piece = "marker_1" <=> next[2] \in {"marking", "musing"}
    BY <1>3, <1>4, <1>5
  <1>7. ASSUME NEW i \in 1..n
        PROVE  InPlace(longer, i)
    <2>1. InPlace(text, i)
      BY DEF n, Told
    <2>2. /\ InBlock(longer, i) <=> InBlock(text, i)
          /\ StartsTag(text, i) => StartsTag(longer, i)
          /\ Marked(longer, i) <=> Marked(text, i)
      BY <1>1, PrefixStays, MarkedStays DEF n
    <2>3. ASSUME text[i] = "open_1", i = n
          PROVE  StartsTag(longer, i)
      <3>1. n > 0 /\ piece = "open_2"
        BY <1>2, <1>4, <1>5, <2>3
      <3>2. QED
        BY <1>2, <2>3, <3>1 DEF StartsTag
    <2>4. text[i] = "open_1" => StartsTag(longer, i)
      BY <2>1, <2>2, <2>3 DEF InPlace, n
    <2>5. ASSUME text[i] = "marker_1", ~ InBlock(text, i)
          PROVE  Completed(longer, i)
      <3>1. CASE i = n
        <4>1. ~ Open(text)
          <5>1. InBlock(text, n) \/ ~ Open(text)
            <6>1. ASSUME Open(text) PROVE InBlock(text, n)
              <7>1. PICK j \in 1..n : Tag(text, j) /\ \A k \in j..n : text[k] # "close"
                BY <6>1 DEF Open, n
              <7>2. \A k \in j..(n - 1) : text[k] # "close"
                BY <1>2, <7>1
              <7>3. QED
                BY <7>1, <7>2 DEF InBlock
            <6>2. QED
              BY <6>1
          <5>2. QED
            BY <2>5, <3>1, <5>1
        <4>2. m = "marking" /\ piece = "marker_2"
          BY <1>2, <1>4, <1>5, <2>5, <3>1, <4>1
        <4>3. ~ InBlock(longer, n + 1)
          BY <1>3, <4>1, <4>2
        <4>4. QED
          BY <1>2, <3>1, <4>2, <4>3 DEF Completed
      <3>2. CASE i # n
        <4>1. i + 1 \in 1..n /\ text[i + 1] = "marker_2" /\ ~ InBlock(text, i + 1)
          BY <1>2, <2>1, <2>5, <3>2 DEF InPlace, Completed, n
        <4>2. InBlock(longer, i + 1) <=> InBlock(text, i + 1)
          BY <1>1, <4>1, PrefixStays DEF n
        <4>3. QED
          BY <1>2, <4>1, <4>2 DEF Completed
      <3>3. QED
        BY <3>1, <3>2
    <2>6. QED
      BY <1>2, <2>1, <2>2, <2>4, <2>5 DEF InPlace
  <1>8. InPlace(longer, n + 1)
    <2>1. piece \in {"open", "open_2", "close"} => InBlock(longer, n + 1)
      BY <1>3, <1>4, <1>5
    <2>2. piece = "tale" => ~ InBlock(longer, n + 1) /\ ~ Marked(longer, n + 1)
      BY <1>3, <1>4, <1>5
    <2>3. piece \in {"thought", "marker_2"} => InBlock(longer, n + 1) \/ Marked(longer, n + 1)
      BY <1>3, <1>4, <1>5
    <2>4. QED
      BY <1>2, <2>1, <2>2, <2>3 DEF InPlace, Completed
  <1>9. \A i \in 1..Len(longer) : InPlace(longer, i)
    <2>1. \A i \in 1..(n + 1) : i \in 1..n \/ i = n + 1
      BY <1>2
    <2>2. QED
      BY <1>2, <1>7, <1>8, <2>1
  <1>10. QED
    BY <1>1, <1>2, <1>6, <1>9 DEF Told

-----------------------------------------------------------------------------
(* Plain turns.                                                            *)

\* Of an answer that is complete the stripper keeps the tale.
LEMMA StripKeepsTheTale ==
    ASSUME NEW text, NEW m, Told(text, m), m \notin Within
    PROVE  strip(text) = Pieces(text, "tale")
  <1> DEFINE kept == {i \in Outside(text) :
                         \A j \in Outside(text) : j <= i => ~ StripsFrom(text, j)}
  <1> DEFINE tale == {i \in 1..Len(text) : text[i] = "tale"}
  <1>1. /\ text \in Seq(Piece) /\ Len(text) \in Nat
        /\ \A i \in 1..Len(text) : InPlace(text, i)
        /\ ~ (Len(text) > 0 /\ text[Len(text)] \in {"open_1", "marker_1"})
    BY DEF Told, Within
  <1>2. ASSUME NEW j \in Outside(text), StripsFrom(text, j)
        PROVE  Reveals(text, j)
    BY <1>2 DEF StripsFrom, Reveals, Outside
  <1>3. ASSUME NEW j \in 1..Len(text), Reveals(text, j)
        PROVE  j \in Outside(text) /\ StripsFrom(text, j)
    <2>1. j \in Outside(text)
      BY <1>3 DEF Reveals, Outside, StartsTag
    <2>2. CASE text[j] = "marker"
      BY <2>1, <2>2 DEF StripsFrom
    <2>3. CASE text[j] = "marker_1"
      <3>1. j # Len(text) /\ Completed(text, j)
        BY <1>1, <1>3, <2>3 DEF InPlace, Reveals
      <3>2. j + 1 \in 1..Len(text) /\ text[j + 1] = "marker_2" /\ ~ InBlock(text, j + 1)
        BY <1>1, <3>1 DEF Completed
      <3>3. j + 1 \in Outside(text)
        BY <3>2 DEF Outside, StartsTag
      <3>4. \A k \in Outside(text) : k <= j \/ k >= j + 1
        BY <1>1 DEF Outside
      <3>5. QED
        BY <2>1, <2>3, <3>2, <3>3, <3>4 DEF StripsFrom
    <2>4. QED
      BY <1>3, <2>1, <2>2, <2>3 DEF Reveals
  <1>4. ASSUME NEW i \in tale
        PROVE  i \in kept
    <2>1. /\ i \in 1..Len(text) /\ text[i] = "tale" /\ ~ InBlock(text, i) /\ ~ Marked(text, i)
      BY <1>1 DEF InPlace
    <2>2. i \in Outside(text)
      BY <2>1 DEF Outside, StartsTag
    <2>3. ASSUME NEW j \in Outside(text), j <= i
          PROVE  ~ StripsFrom(text, j)
      <3>1. j \in 1..i
        BY <1>1, <2>1, <2>3 DEF Outside
      <3>2. ~ Reveals(text, j)
        BY <2>1, <3>1 DEF Marked
      <3>3. QED
        BY <1>2, <3>2
    <2>4. QED
      BY <2>2, <2>3
  <1>5. ASSUME NEW i \in kept
        PROVE  i \in tale
    <2>1. i \in 1..Len(text) /\ ~ InBlock(text, i) /\ ~ StartsTag(text, i) /\ i \in Outside(text)
      BY DEF Outside
    <2>2. ~ Marked(text, i)
      <3>1. ASSUME NEW j \in 1..i, Reveals(text, j)
            PROVE  FALSE
        <4>1. j \in 1..Len(text) /\ j <= i
          BY <1>1, <2>1
        <4>2. QED
          BY <1>3, <3>1, <4>1
      <3>2. QED
        BY <3>1 DEF Marked
    <2>3. InPlace(text, i)
      BY <1>1, <2>1
    <2>4. text[i] # "open_1"
      BY <1>1, <2>1, <2>3 DEF InPlace
    <2>5. text[i] \notin {"marker", "marker_1"}
      <3>1. ~ Reveals(text, i)
        BY <1>1, <2>1, <2>2 DEF Marked
      <3>2. QED
        BY <2>1, <3>1 DEF Reveals
    <2>6. text[i] \in Piece
      BY <1>1, <2>1
    <2>7. QED
      BY <2>1, <2>2, <2>3, <2>4, <2>5, <2>6 DEF InPlace, Piece, Half
  <1>6. kept = tale
    BY <1>4, <1>5
  <1>7. QED
    BY <1>6 DEF strip, Pieces

PlainInv ==
    /\ Told(answer, mind)
    /\ phase = "finished" => mind \notin Within /\ (~ mode.streamed => saved = strip(answer))

LEMMA PlainInit == Init => PlainInv
  <1> SUFFICES ASSUME Init PROVE PlainInv
    OBVIOUS
  <1>1. answer = <<>> /\ mind = "telling" /\ phase = "answering"
    BY DEF Init
  <1>2. Told(<<>>, "telling")
    BY DEF Told, Open, Marked, Minds
  <1>3. QED
    BY <1>1, <1>2 DEF PlainInv

LEMMA PlainNext == PlainInv /\ [Next]_vars => PlainInv'
  <1> SUFFICES ASSUME PlainInv, [Next]_vars PROVE PlainInv'
    OBVIOUS
  <1>1. CASE OnePieceToken
    <2>1. PICK next \in Continuations(mind) :
             phase = "answering" /\ answer' = answer \o <<next[1]>> /\ mind' = next[2] /\ phase' = phase
      BY <1>1 DEF OnePieceToken, Write
    <2>2. answer' = Append(answer, next[1])
      BY <2>1 DEF PlainInv, Told
    <2>3. Told(answer', mind')
      BY <2>1, <2>2, TellingGoesOn DEF PlainInv
    <2>4. QED
      BY <2>1, <2>3 DEF PlainInv
  <1>2. CASE TwoPieceToken
    <2>1. PICK first \in Continuations(mind) : \E second \in Continuations(first[2]) :
             /\ phase = "answering" /\ phase' = phase
             /\ answer' = answer \o <<first[1], second[1]>> /\ mind' = second[2]
      BY <1>2 DEF TwoPieceToken, Write
    <2>2. PICK second \in Continuations(first[2]) :
             /\ phase = "answering" /\ phase' = phase
             /\ answer' = answer \o <<first[1], second[1]>> /\ mind' = second[2]
      BY <2>1
    <2>3. Told(Append(answer, first[1]), first[2])
      BY TellingGoesOn DEF PlainInv
    <2>4. Told(Append(Append(answer, first[1]), second[1]), second[2])
      BY <2>3, TellingGoesOn
    <2>5. answer' = Append(Append(answer, first[1]), second[1])
      <3>1. answer \in Seq(Piece) /\ Append(answer, first[1]) \in Seq(Piece)
        BY <2>3 DEF PlainInv, Told
      <3>2. QED
        BY <2>2, <3>1
    <2>6. QED
      BY <2>2, <2>4, <2>5 DEF PlainInv
  <1>3. CASE Finish
    BY <1>3 DEF Finish, PlainInv
  <1>4. CASE UNCHANGED vars
    BY <1>4 DEF vars, PlainInv
  <1>5. QED
    BY <1>1, <1>2, <1>3, <1>4 DEF Next

(* A plain turn saves the tale of every answer, however long and with      *)
(* however many blocks, cut tags and markers in and after them, and       *)
(* nothing else (NarrationStream!PlainTurnsSaveTheTale).                   *)
THEOREM PlainTurnsAreSound == Spec => []PlainTurnsSaveTheTale
  <1>1. PlainInv => PlainTurnsSaveTheTale
    BY StripKeepsTheTale DEF PlainInv, PlainTurnsSaveTheTale
  <1>2. QED
    BY PlainInit, PlainNext, <1>1, PTL DEF Spec

=============================================================================
