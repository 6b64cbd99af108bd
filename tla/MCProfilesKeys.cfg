\* One call after another: keys and records come and go together.
SPECIFICATION Spec
CONSTANTS
    Requests = {r1, r2, r3, r4}
    Asks <- MCKeys
    Ids = {a, b}
    Names = {m, n}
    Assignments = {some}
    NoTools = notools
    None = none
    Unreadable = unreadable
    Formats <- MCFormats
    Hosts <- MCHosts
    Docs <- MCDocs
    Overlapping = FALSE
    Faults = {"keychain", "network"}
    a = a
    b = b
    m = m
    n = n
    some = some
SYMMETRY Symmetry
INVARIANTS NoOrphanKey FormatsAreEvidence
\* A process makes one call: the system stops when every call is answered.
CHECK_DEADLOCK FALSE
