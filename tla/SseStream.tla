----------------------------- MODULE SseStream -----------------------------
(***************************************************************************)
(* A streamed answer on its way from the provider's server to the turn:    *)
(* the stream function of the three providers, over SseLineDecoder.  They  *)
(* are alike line by line but for what is made of a frame: llama.cpp's     *)
(* drops control tokens, OpenRouter's reports usage and stops at [DONE].   *)
(* The server writes frames; the network hands them over in chunks cut     *)
(* anywhere, inside a line or a character; each chunk is made text by      *)
(* itself, and the text is buffered until a blank line ends a frame.       *)
(*                                                                         *)
(* A token is a sequence of characters, and none is empty; the JSON around *)
(* it is left out, and the prefix of a line ("data: " or ":") is one byte. *)
(***************************************************************************)
EXTENDS Integers, Sequences, SequencesExt

CONSTANTS
    Narrow, Wide,   \* characters of one byte, of two bytes
    Answers,        \* the answers considered: sequences of tokens
    MaxChunk        \* bound: bytes in a chunk

Character == Narrow \union Wide

Providers == {"openai_compatible", "llama_cpp", "openrouter"}

\* <think>, </think> or <|...|>, in one token.
Control == <<"control">>

\* What else the bytes of a frame can be decoded to.  A chunk may have a usage, which may be null.
Marks == {"control", "usage", "no usage", "data", "comment", "DONE", "garbage", "newline", "replacement"}

Symbol == Character \union Marks

Byte == [symbol : Symbol, part : 1..2]

VARIABLES
    provider,   \* its provider_type
    answer,     \* what the model writes
    usage,      \* how the server reports usage: "never", "last", or null until the "last" one
    wire,       \* bytes the server has sent or will send, not yet received
    stalls,     \* the server sends nothing more but keeps the connection open
    buffer,     \* SseLineDecoder.buffer
    frames,     \* data of complete frames not yet looked at
    delivered,  \* the tokens the turn has received
    meta,       \* stream_meta: of the last metadata event, "none" or what it says of usage
    outcome     \* "open", "ended", "failed"

\* What the server will do, and who has asked it.
given == <<provider, answer, usage>>
vars == <<given, wire, stalls, buffer, frames, delivered, meta, outcome>>

-----------------------------------------------------------------------------
(* The server, external.                                                   *)

BytesOf(symbol) ==
    [i \in 1..(IF symbol \in Wide THEN 2 ELSE 1) |-> [symbol |-> symbol, part |-> i]]

Encode(symbols) == FlattenSeq([i \in 1..Len(symbols) |-> BytesOf(symbols[i])])

BlankLine == <<"newline", "newline">>

Reports == {"never", "last", "null before last"}

TokenFrame(token, reports) ==
    <<"data">> \o token \o (IF reports = "null before last" THEN <<"no usage">> ELSE <<>>) \o BlankLine
CommentFrame == <<"comment">> \o BlankLine
DoneFrame == <<"data", "DONE">> \o BlankLine
UsageFrame == <<"data", "usage">> \o BlankLine
\* Something that is not JSON.
GarbledFrame == <<"data", "garbage">> \o BlankLine

\* garbled: the token that a garbled frame comes before, 0 for none.
Response(tokens, reports, garbled) ==
    LET Framed(i) == (IF i = garbled THEN GarbledFrame ELSE <<>>) \o TokenFrame(tokens[i], reports)
        usageFrame == IF reports = "never" THEN <<>> ELSE UsageFrame
    IN  Encode(CommentFrame \o FlattenSeq([i \in 1..Len(tokens) |-> Framed(i)])
                   \o usageFrame \o DoneFrame)

-----------------------------------------------------------------------------
(* The decoder.                                                            *)

\* Mutant: a chunk that is not valid by itself is dropped.
ValidOrNothing(chunk) ==
    IF chunk[1].part = 2 \/ (Last(chunk).symbol \in Wide /\ Last(chunk).part = 1)
    THEN <<>>
    ELSE FlattenSeq([i \in 1..Len(chunk) |-> IF chunk[i].part = 1 THEN <<chunk[i].symbol>> ELSE <<>>])

\* from_utf8_lossy of one chunk: a character whose bytes are not all in it is lost.
Lossy(chunk) ==
    LET Decoded(i) ==
          LET byte == chunk[i] IN
          CASE byte.symbol \notin Wide -> <<byte.symbol>>
            [] byte.part = 2 -> IF i > 1 THEN <<byte.symbol>> ELSE <<"replacement">>
            [] OTHER -> IF i = Len(chunk) THEN <<"replacement">> ELSE <<>>
    IN  FlattenSeq([i \in 1..Len(chunk) |-> Decoded(i)])

\* A frame that is no data line has no data; no data is dropped.
DataOf(frame) == IF Len(frame) > 1 /\ Head(frame) = "data" THEN <<Tail(frame)>> ELSE <<>>

EndsFrame(unfinished, symbol) ==
    symbol = "newline" /\ unfinished # <<>> /\ Last(unfinished) = "newline"

Feed(state, symbol) ==
    IF EndsFrame(state.buffer, symbol)
    THEN [buffer |-> <<>>, frames |-> state.frames \o DataOf(Front(state.buffer))]
    ELSE [state EXCEPT !.buffer = Append(state.buffer, symbol)]

\* push: the data of each frame the text completes, and what is left in the buffer.
Push(unfinished, text) ==
    LET fed[i \in 0..Len(text)] ==
          IF i = 0 THEN [buffer |-> unfinished, frames |-> <<>>] ELSE Feed(fed[i - 1], text[i])
    IN  fed[Len(text)]

-----------------------------------------------------------------------------
(* The stream.                                                             *)

Init ==
    /\ provider \in Providers
    /\ answer \in Answers
    /\ usage \in Reports
    /\ wire \in {Response(answer, usage, garbled) : garbled \in 0..Len(answer)}
    /\ stalls = FALSE
    /\ buffer = <<>>
    /\ frames = <<>>
    /\ delivered = <<>>
    /\ meta = "none"
    /\ outcome = "open"

\* External: from here on the server is silent.
Stall ==
    /\ outcome = "open"
    /\ ~ stalls
    /\ stalls' = TRUE
    /\ UNCHANGED <<given, wire, buffer, frames, delivered, meta, outcome>>

\* The next chunk is waited for when all frames have been looked at.
Receive ==
    /\ outcome = "open"
    /\ frames = <<>>
    /\ ~ stalls
    /\ wire # <<>>
    /\ \E n \in 1..MaxChunk :
          /\ n <= Len(wire)
          /\ wire' = SubSeq(wire, n + 1, Len(wire))
          /\ LET pushed == Push(buffer, Lossy(SubSeq(wire, 1, n)))
             IN  buffer' = pushed.buffer /\ frames' = pushed.frames
    /\ UNCHANGED <<given, stalls, delivered, meta, outcome>>

\* What parse_sse_data_line makes of a frame's data.
Malformed(frame) == frame = <<"garbage">>
Done(frame) == frame = <<"DONE">>
UsageOf(frame) == IF Last(frame) \in {"usage", "no usage"} THEN Last(frame) ELSE "none"
TokenOf(frame) ==
    LET token == IF Last(frame) \in {"DONE", "usage", "no usage"} THEN Front(frame) ELSE frame
    IN  IF token = <<>> THEN <<>> ELSE <<token>>

\* What of the tokens the provider lets through.
Visible(tokens) == IF provider = "llama_cpp" /\ tokens = <<Control>> THEN <<>> ELSE tokens

\* Only OpenRouter's provider has an event for the usage, null or not.
Metadata(frame) ==
    IF provider = "openrouter" /\ UsageOf(frame) # "none" THEN UsageOf(frame) ELSE meta

\* The turn takes the token and then the metadata.  At [DONE] OpenRouter's provider
\* leaves the frames of this chunk, but waits for the next one like the others.
Yield ==
    /\ outcome = "open"
    /\ frames # <<>>
    /\ ~ Malformed(Head(frames))
    /\ frames' = IF Done(Head(frames)) /\ provider = "openrouter" THEN <<>> ELSE Tail(frames)
    /\ delivered' = delivered \o Visible(TokenOf(Head(frames)))
    /\ meta' = Metadata(Head(frames))
    /\ UNCHANGED <<given, wire, stalls, buffer, outcome>>

\* The error ends the stream; frames behind this one are never looked at.
FailToParse ==
    /\ outcome = "open"
    /\ frames # <<>>
    /\ Malformed(Head(frames))
    /\ frames' = <<>>
    /\ outcome' = "failed"
    /\ UNCHANGED <<given, wire, stalls, buffer, delivered, meta>>

\* The server has closed: what is still in the buffer is dropped.
End ==
    /\ outcome = "open"
    /\ frames = <<>>
    /\ ~ stalls
    /\ wire = <<>>
    /\ outcome' = "ended"
    /\ UNCHANGED <<given, wire, stalls, buffer, frames, delivered, meta>>

\* The connection breaks.
Break ==
    /\ outcome = "open"
    /\ frames = <<>>
    /\ wire # <<>>
    /\ outcome' = "failed"
    /\ UNCHANGED <<given, wire, stalls, buffer, frames, delivered, meta>>

\* Mutant: only the first token is waited for with a timeout.
TimeOutAtStart ==
    /\ outcome = "open" /\ frames = <<>> /\ stalls /\ delivered = <<>>
    /\ outcome' = "failed"
    /\ UNCHANGED <<given, wire, stalls, buffer, frames, delivered, meta>>

\* stream_idle_timeout_seconds without a chunk, whatever has been received before.
TimeOut ==
    /\ outcome = "open"
    /\ frames = <<>>
    /\ stalls
    /\ outcome' = "failed"
    /\ UNCHANGED <<given, wire, stalls, buffer, frames, delivered, meta>>

Next == Stall \/ Receive \/ Yield \/ FailToParse \/ End \/ Break \/ TimeOut

-----------------------------------------------------------------------------
TypeOK ==
    /\ provider \in Providers
    /\ answer \in Answers
    /\ usage \in Reports
    /\ wire \in Seq(Byte)
    /\ stalls \in BOOLEAN
    /\ buffer \in Seq(Symbol)
    /\ frames \in Seq(Seq(Symbol))
    /\ delivered \in Seq(Seq(Character \union {"control", "replacement"}))
    /\ meta \in {"none", "usage", "no usage"}
    /\ outcome \in {"open", "ended", "failed"}

=============================================================================
