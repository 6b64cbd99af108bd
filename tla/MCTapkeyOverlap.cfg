\* Switches and restores that overlap, with files refused, undos refused or a process dying.
SPECIFICATION Spec
CONSTANTS
    Requests = {r1, r2, r3}
    Asks <- MCRestoring
    Tools = {claude, codex}
    Order <- MCOrder
    Registry = {codex}
    Strict = {codex}
    Providers = {p, q}
    Rest = {theirs, empty}
    Empty = empty
    Fatal = stops
    Nobody = nobody
    Absent = absent
    Keep = keep
    None = none
    Found <- MCFound
    Rows <- MCRows
    Readable <- MCReadable
    MaxEdits = 0
    Overlapping = TRUE
    EditAnyTime = TRUE
    Faults = {"write", "late", "undo", "hiccup", "crash"}
    claude = claude
    codex = codex
    p = p
    q = q
    theirs = theirs
    stops = stops
SYMMETRY Symmetry
INVARIANTS BackupHoldsBefore
PROPERTIES SnapshotIsFloor SnapshotReturnsAll AnsweredExactly
\* A process makes one call: the system stops when every call is answered.
CHECK_DEADLOCK FALSE
