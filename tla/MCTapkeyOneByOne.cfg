\* One call after another, edits by others in between.
SPECIFICATION Spec
CONSTANTS
    Requests = {r1, r2, r3}
    Asks <- MCOneByOne
    Tools = {claude, codex}
    Order <- MCOrder
    Registry = {codex}
    Strict = {codex}
    Providers = {p, q}
    Rest = {theirs, stops}
    Empty = theirs
    Fatal = stops
    Nobody = nobody
    Absent = absent
    Keep = keep
    None = none
    Found <- MCPresent
    Rows <- MCRows
    Readable <- MCReadable
    MaxEdits = 1
    Overlapping = FALSE
    EditAnyTime = FALSE
    Faults = {"write", "late", "undo", "keychain", "crash"}
    claude = claude
    codex = codex
    p = p
    q = q
    theirs = theirs
    stops = stops
SYMMETRY Symmetry
INVARIANTS NoBrokenTool NoFalseDrift
PROPERTIES OnlyOwnedKeys CycleSteps DoesAsAsked
\* A process makes one call: the system stops when every call is answered.
CHECK_DEADLOCK FALSE
