-------------------------- MODULE NarrationStream --------------------------
(***************************************************************************)
(* The narration of one turn between the model and the player, with the    *)
(* reasoning some models write into it.  A plain turn strips the whole     *)
(* answer (BasicHiddenReasoningStripper).  A streamed turn drops tokens    *)
(* that hold a marker, hands every other token to the client at once, and  *)
(* strips what is left of the answer when it is complete; the llama.cpp    *)
(* provider has dropped its control tokens before that.                    *)
(*                                                                         *)
(* An answer is a sequence of pieces.  "open" is <think>, "close" is       *)
(* </think>, "marker" one of the four phrases that announce reasoning.  A  *)
(* tokenizer may cut an opening tag into "open_1" and "open_2", and a      *)
(* marker, which is two or three words, into "marker_1" and "marker_2".    *)
(* What the player may read is "tale", the rest "thought".                 *)
(***************************************************************************)
EXTENDS Lists

CONSTANTS
    Modes,          \* the kinds of turns considered
    MaxPieces       \* bound: pieces of an answer

Half == {"open_1", "open_2", "marker_1", "marker_2"}
Piece == {"tale", "thought", "open", "close", "marker"} \union Half

\* A turn is plain or streamed, its provider drops some tokens, and the model's
\* tokenizer may cut opening tags and markers.
Mode == [streamed : BOOLEAN, controlTokens : SUBSET Piece, cut : BOOLEAN]

VARIABLES
    mode,       \* what kind of turn it is
    answer,     \* what the model has written
    mind,       \* what the model is doing: one of Minds
    raw,        \* raw_response
    shown,      \* the tokens the client has received
    saved,      \* the narration of the assistant message
    phase       \* "answering", "finished"

vars == <<mode, answer, mind, raw, shown, saved, phase>>

-----------------------------------------------------------------------------
(* The stripper.                                                           *)

Tag(text, i) ==
    \/ text[i] = "open"
    \/ text[i] = "open_2" /\ i > 1 /\ text[i - 1] = "open_1"

Marker(text, i) ==
    \/ text[i] = "marker"
    \/ text[i] = "marker_1" /\ i < Len(text) /\ text[i + 1] = "marker_2"

\* Position i lies in a block: from an opening tag to the next closing one.
InBlock(text, i) ==
    \E j \in 1..i : Tag(text, j) /\ \A k \in j..(i - 1) : text[k] # "close"

\* The first half of a cut tag belongs to the tag.
StartsTag(text, i) ==
    text[i] = "open_1" /\ i < Len(text) /\ text[i + 1] = "open_2"

Outside(text) == {i \in 1..Len(text) : ~ InBlock(text, i) /\ ~ StartsTag(text, i)}

\* Once the blocks are gone, a marker stands at i; one may have been joined by that.
StripsFrom(text, i) ==
    \/ text[i] = "marker"
    \/ /\ text[i] = "marker_1"
       /\ \E j \in Outside(text) :
             /\ j > i /\ text[j] = "marker_2"
             /\ \A k \in Outside(text) : k <= i \/ k >= j

\* strip: the blocks go, and then everything from the first marker that is left.
strip(text) ==
    Kept(text, {i \in Outside(text) : \A j \in Outside(text) : j <= i => ~ StripsFrom(text, j)})

-----------------------------------------------------------------------------
(* Tokens.                                                                 *)

is_control_token(token) == Len(token) = 1 /\ token[1] \in mode.controlTokens

is_reasoning_marker(token) ==
    \E i \in 1..Len(token) : Tag(token, i) \/ Marker(token, i)

\* A model tells, thinks in a block, or reasons after a marker; it may be within
\* a cut tag ("opening"), or a cut marker outside ("marking") or inside a block.
Within == {"opening", "marking", "musing"}
Minds == {"telling", "thinking", "reasoning"} \union Within

\* What a model may write next, and its state of mind after it: blocks are
\* closed before the next is opened, and what follows a marker is reasoning,
\* to the end of the answer or of the block.
Continuations(m) ==
    CASE m = "telling" ->
            {<<"tale", "telling">>, <<"open", "thinking">>, <<"marker", "reasoning">>}
            \union (IF mode.cut THEN {<<"open_1", "opening">>, <<"marker_1", "marking">>} ELSE {})
      [] m = "opening" -> {<<"open_2", "thinking">>}
      [] m = "marking" -> {<<"marker_2", "reasoning">>}
      [] m = "thinking" ->
            {<<"thought", "thinking">>, <<"close", "telling">>, <<"marker", "thinking">>}
            \union (IF mode.cut THEN {<<"marker_1", "musing">>} ELSE {})
      [] m = "musing" -> {<<"marker_2", "thinking">>}
      [] m = "reasoning" -> {<<"thought", "reasoning">>}

-----------------------------------------------------------------------------
Init ==
    /\ mode \in Modes
    /\ answer = <<>>
    /\ mind = "telling"
    /\ raw = <<>>
    /\ shown = <<>>
    /\ saved = <<>>
    /\ phase = "answering"

Write(token) ==
    /\ phase = "answering"
    /\ Len(answer) + Len(token) <= MaxPieces
    /\ answer' = answer \o token

\* stream_turn's loop: a dropped token is neither shown nor part of the answer.
HandOut(token) ==
    IF is_control_token(token) \/ is_reasoning_marker(token)
    THEN UNCHANGED <<raw, shown>>
    ELSE raw' = raw \o token /\ shown' = shown \o token

OnePieceToken ==
    \E next \in Continuations(mind) :
        /\ Write(<<next[1]>>)
        /\ mind' = next[2]
        /\ IF mode.streamed THEN HandOut(<<next[1]>>) ELSE UNCHANGED <<raw, shown>>
        /\ UNCHANGED <<mode, saved, phase>>

TwoPieceToken ==
    \E first \in Continuations(mind) : \E second \in Continuations(first[2]) :
        LET token == <<first[1], second[1]>> IN
        /\ Write(token)
        /\ mind' = second[2]
        /\ IF mode.streamed THEN HandOut(token) ELSE UNCHANGED <<raw, shown>>
        /\ UNCHANGED <<mode, saved, phase>>

\* The answer is complete, and no model stops within a tag or a marker.
Finish ==
    /\ phase = "answering"
    /\ mind \notin Within
    /\ saved' = strip(IF mode.streamed THEN raw ELSE answer)
    /\ phase' = "finished"
    /\ UNCHANGED <<mode, answer, mind, raw, shown>>

Next == OnePieceToken \/ TwoPieceToken \/ Finish

Spec == Init /\ [][Next]_vars

-----------------------------------------------------------------------------
(* Properties.                                                             *)

Pieces(text, piece) == Kept(text, {i \in 1..Len(text) : text[i] = piece})

(* What is saved of a finished answer is the tale and nothing else:        *)
(* neither reasoning nor a tag, a half of one or a marker.                 *)
SavedIsTheTale ==
    phase = "finished" => \A i \in 1..Len(saved) : saved[i] = "tale"

(* A plain turn saves all of the tale as well: no block hides what comes   *)
(* after it, and no marker within a block what comes after the block       *)
(* (strip takes the blocks out before it looks for markers).               *)
PlainTurnsSaveTheTale ==
    phase = "finished" /\ ~ mode.streamed => saved = Pieces(answer, "tale")

(* The comment on is_reasoning_marker: streaming output stays free of the  *)
(* prefixes of hidden reasoning, that is, of tags and markers.             *)
ShownIsFreeOfMarkers ==
    \A i \in 1..Len(shown) : ~ Tag(shown, i) /\ ~ Marker(shown, i)

=============================================================================
