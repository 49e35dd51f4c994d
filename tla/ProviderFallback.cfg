CONSTANTS
    Providers = {x1}
    Sessions = {s1}
    Processes = {p1}
    Requests = {r1}
    None = None
SPECIFICATION HistorySpec
INVARIANT
    MissingProviderIsRefused
CHECK_DEADLOCK FALSE
