\* Every call comes to an answer.
SPECIFICATION FairSpec
CONSTANTS
    Requests = {r1, r2}
    Asks <- MCEvery
    Tools = {claude, codex}
    Order <- MCOrder
    Registry = {codex}
    Strict = {codex}
    Providers = {p, q}
    Rest = {theirs, empty}
    Empty = empty
    Fatal = stops
    Nobody = nobody
    Absent = absent
    Keep = keep
    None = none
    Found <- MCPresent
    Rows <- MCRows
    Readable <- MCReadable
    MaxEdits = 0
    Overlapping = TRUE
    EditAnyTime = TRUE
    Faults = {"write", "store", "readback", "hiccup", "crash"}
    claude = claude
    codex = codex
    p = p
    q = q
    theirs = theirs
    stops = stops
PROPERTIES Answered
\* A process makes one call: the system stops when every call is answered.
CHECK_DEADLOCK FALSE
