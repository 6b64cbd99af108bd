\* The operations that read profiles.json under the lock, overlapping in every way.
SPECIFICATION Spec
CONSTANTS
    Requests = {r1, r2, r3}
    Asks <- MCLocked
    Ids = {a, b}
    Names = {m, n}
    Assignments = {some}
    NoTools = notools
    None = none
    Unreadable = unreadable
    Formats <- MCFormats
    Hosts <- MCOneHost
    Docs <- MCDocs
    Overlapping = TRUE
    Faults = {"store", "network", "spoil", "crash"}
    a = a
    b = b
    m = m
    n = n
    some = some
SYMMETRY Symmetry
PROPERTIES NoLostUpdate
\* A process makes one call: the system stops when every call is answered.
CHECK_DEADLOCK FALSE
