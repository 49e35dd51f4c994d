------------------------- MODULE MCNarrationStream -------------------------
(***************************************************************************)
(* Instances of NarrationStream: plain turns, and streamed turns of a      *)
(* provider that drops control tokens (llama.cpp) and of one that does     *)
(* not, with a tokenizer that cuts tags and markers; and streamed turns    *)
(* with one that does not cut.                                             *)
(***************************************************************************)
EXTENDS NarrationStream

Plain == [streamed |-> FALSE, controlTokens |-> {}, cut |-> TRUE]
Streamed == [streamed |-> TRUE, controlTokens |-> {}, cut |-> TRUE]
StreamedLlamaCpp == [streamed |-> TRUE, controlTokens |-> {"open", "close"}, cut |-> TRUE]

AllModes == {Plain, Streamed, StreamedLlamaCpp}
OnlyUncut == {[Streamed EXCEPT !.cut = FALSE]}

=============================================================================
