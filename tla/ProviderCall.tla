---------------------------- MODULE ProviderCall ----------------------------
(***************************************************************************)
(* A call of a provider as a whole.  generate is a request made under      *)
(* with_retries; stream is one too, and the answer is then read from the   *)
(* connection that the request has opened.  A stream that breaks is not    *)
(* opened again.                                                           *)
(***************************************************************************)
EXTENDS Integers, Sequences, SequencesExt

CONSTANTS
    MaxRetries, Checked,                \* see ProviderRetry
    Narrow, Wide, Answers, MaxChunk     \* see SseStream

ASSUME MaxRetriesAssumption == MaxRetries \in 0..255
ASSUME CheckedAssumption == Checked \in BOOLEAN
ASSUME MaxChunkAssumption == MaxChunk \in Nat \ {0}
ASSUME AnswersAssumption == Answers \subseteq Seq(Seq(Narrow \union Wide \union {"control"}) \ {<<>>})

VARIABLES
    call, streaming, attempt, state,                \* of the request
    provider, answer, usage, wire, stalls,          \* of the stream
    buffer, frames, delivered, meta, outcome

Retry == INSTANCE ProviderRetry
Stream == INSTANCE SseStream

ASSUME CharactersAssumption ==
    Narrow \intersect Wide = {} /\ (Narrow \union Wide) \intersect Stream!Marks = {}

requestVars == <<call, streaming, attempt, state>>
streamVars == <<provider, answer, usage, wire, stalls, buffer, frames, delivered, meta, outcome>>
vars == <<requestVars, streamVars>>

-----------------------------------------------------------------------------
\* The response that a request gets is the same whichever attempt gets it.
Init == Retry!Init /\ Stream!Init

Request == Retry!Next /\ UNCHANGED streamVars

Streams == call = "stream" /\ state = "ok"

Break == Streams /\ Stream!Break /\ UNCHANGED requestVars

\* The stream's own steps, for which there must be one.
Read ==
    /\ Streams
    /\ Stream!Receive \/ Stream!Yield \/ Stream!FailToParse \/ Stream!End \/ Stream!TimeOut
    /\ UNCHANGED requestVars

\* External: the server falls silent.
Stall == Streams /\ Stream!Stall /\ UNCHANGED requestVars

Next == Request \/ Read \/ Break \/ Stall

Spec == Init /\ [][Next]_vars

\* A request ends, because the client has a timeout; timers fire; a server that
\* is not silent goes on sending, and the turn polls its stream.
FairSpec ==
    /\ Spec
    /\ WF_vars((Retry!RefuseToStream \/ Retry!Succeed \/ Retry!GiveUp \/ Retry!BackOff)
                   /\ UNCHANGED streamVars)
    /\ WF_vars(Retry!Wake /\ UNCHANGED streamVars)
    /\ WF_vars(Read)

-----------------------------------------------------------------------------
(* Properties.                                                             *)

TypeOK == Retry!TypeOK /\ Stream!TypeOK

\* The tokens the turn ought to get, and whether it ought to learn of the usage.
Written(tokens) == FlattenSeq([i \in 1..Len(tokens) |-> Stream!Visible(<<tokens[i]>>)])

Used == provider = "openrouter" /\ usage # "never"

Delivery == INSTANCE TokenDelivery WITH
    Token <- Seq(Stream!Symbol), written <- Written(answer), used <- Used, reported <- meta = "usage"

(* However the network cuts the answer into chunks, and whichever provider *)
(* reads it, the turn receives the model's tokens, whole, once and in      *)
(* order, and is never asked to take one back: no broken stream is opened  *)
(* again.  A stream that ends has delivered all of them, and OpenRouter's  *)
(* usage too, which later frames do not hide or wipe out.                  *)
DeliversTokens == Delivery!Spec

\* Symbols as they arrive if the network cuts every character that it can.
Cut(symbols) ==
    FlattenSeq([i \in 1..Len(symbols) |->
                   IF symbols[i] \in Wide THEN <<"replacement", "replacement">> ELSE <<symbols[i]>>])

CutAll(tokens) == [i \in 1..Len(tokens) |-> Cut(tokens[i])]

CutDelivery == INSTANCE TokenDelivery WITH
    Token <- Seq(Stream!Symbol), written <- Written(CutAll(answer)), delivered <- CutAll(delivered),
    used <- Used, reported <- meta = "usage"

(* A character that is cut is lost, but nothing around it: each token      *)
(* still arrives with all the others, once and in order, if one does not   *)
(* look at the characters of several bytes, and so does the usage.         *)
DeliversAllButCutCharacters == CutDelivery!Spec

(* Whatever the provider answers, and even if it falls silent in the       *)
(* middle of its answer, the call ends with an answer or an error, if the  *)
(* provider is configured with at most 58 retries or the build has no      *)
(* overflow checks.  With 59 (max_retries is a u8) and overflow checks the *)
(* call of a server that keeps failing ends in a panic of with_retries.    *)
EveryCallEnds ==
    <>(state \in Retry!Over /\ (Streams => outcome # "open"))

=============================================================================
