\* A provider is removed while its catalogue is fetched.
SPECIFICATION Spec
CONSTANTS
    Requests = {r1, r2}
    Asks <- MCKeys
    Ids = {a, b}
    Names = {m, n}
    Assignments = {some}
    NoTools = notools
    None = none
    Unreadable = unreadable
    Formats <- MCFormats
    Hosts <- MCOneHost
    Docs <- MCFilledOnly
    Overlapping = TRUE
    Faults = {}
    a = a
    b = b
    m = m
    n = n
    some = some
SYMMETRY Symmetry
INVARIANTS NeverPanics
\* A process makes one call: the system stops when every call is answered.
CHECK_DEADLOCK FALSE
