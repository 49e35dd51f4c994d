CONSTANTS
    a = a
    b = b
    umlaut = umlaut
    Narrow = {a, b}
    Wide = {umlaut}
    Answers <- MixedAnswers
    MaxChunk = 12
    MaxRetries <- LargestSoundMaxRetries
    Checked = TRUE
SPECIFICATION FairSpec
INVARIANTS
    TypeOK
PROPERTIES
    DeliversAllButCutCharacters
    EveryCallEnds
CHECK_DEADLOCK FALSE
