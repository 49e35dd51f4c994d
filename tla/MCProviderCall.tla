--------------------------- MODULE MCProviderCall ---------------------------
(***************************************************************************)
(* Instances of ProviderCall.  58 retries are the most whose delays fit    *)
(* into a word.  The answers have none to three tokens of one to three     *)
(* characters, one of them a control token; in WideAnswers, and in some of *)
(* the MixedAnswers, one character takes two bytes.                        *)
(***************************************************************************)
EXTENDS ProviderCall

CONSTANTS a, b, umlaut

LargestSoundMaxRetries == 58

WideAnswers == {<<<<a, umlaut>>>>}

MixedAnswers ==
    {<<>>, <<<<a, b>>, <<b>>>>, <<<<"control">>, <<a>>, <<b>>>>,
     <<<<"control">>, <<umlaut>>, <<a, umlaut, umlaut>>>>, <<<<umlaut, b>>, <<a>>>>}

=============================================================================
