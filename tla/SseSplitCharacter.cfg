CONSTANTS
    a = a
    b = b
    umlaut = umlaut
    Narrow = {a, b}
    Wide = {umlaut}
    Answers <- WideAnswers
    MaxChunk = 12
    MaxRetries = 1
    Checked = TRUE
SPECIFICATION FairSpec
PROPERTIES
    DeliversTokens
CHECK_DEADLOCK FALSE
