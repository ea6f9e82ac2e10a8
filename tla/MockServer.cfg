SPECIFICATION Spec
CONSTANTS
    file = file
    url = url
    None = None
    Paths <- FileThenUrl
    Urls = {url}
    Reloads = {r1, r2}
    Requests = {q1}
    MaxEdits = 3
INVARIANTS
    ParsedServed
    MonotonicAnswers
    CleanStopAnswers
PROPERTIES
    EditsServed
    StopEnds
CHECK_DEADLOCK FALSE
