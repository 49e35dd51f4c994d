--------------------------- MODULE TokenDelivery ---------------------------
(***************************************************************************)
(* What a provider's token stream promises the turn that reads it: the     *)
(* tokens the model wrote arrive one by one and in order, what the answer  *)
(* has used arrives as well, and the stream then ends.  A stream that      *)
(* fails does so in the middle, and nothing arrives after it.              *)
(***************************************************************************)
EXTENDS Integers, Sequences

CONSTANTS Token

VARIABLES
    written,    \* the tokens of the answer, in order
    used,       \* the server tells what the answer has used
    delivered,  \* the tokens the turn has received
    reported,   \* the turn knows what has been used
    outcome     \* "open", "ended", "failed"

vars == <<written, used, delivered, reported, outcome>>

Init ==
    /\ written \in Seq(Token)
    /\ used \in BOOLEAN
    /\ delivered = <<>>
    /\ reported = FALSE
    /\ outcome = "open"

Deliver ==
    /\ outcome = "open"
    /\ Len(delivered) < Len(written)
    /\ delivered' = Append(delivered, written[Len(delivered) + 1])
    /\ UNCHANGED <<written, used, reported, outcome>>

Report ==
    /\ outcome = "open"
    /\ used
    /\ reported' = TRUE
    /\ UNCHANGED <<written, used, delivered, outcome>>

End ==
    /\ outcome = "open"
    /\ delivered = written
    /\ reported = used
    /\ outcome' = "ended"
    /\ UNCHANGED <<written, used, delivered, reported>>

Fail ==
    /\ outcome = "open"
    /\ outcome' = "failed"
    /\ UNCHANGED <<written, used, delivered, reported>>

Next == Deliver \/ Report \/ End \/ Fail

Spec == Init /\ [][Next]_vars

=============================================================================
