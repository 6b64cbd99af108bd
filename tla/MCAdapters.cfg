\* Each tool by itself, with three edits by others anywhere between tapkey's calls.
SPECIFICATION Spec
CONSTANTS
    Providers = {p, q}
    Models = {m, n, other}
    None = none
    Blank = blank
    Bare = bare
    Own = own
    Reference = reference
    Asks <- MCAsks
    Edits <- MCEdits
    Exports <- MCExports
    Exported = exported
    Givens <- MCGivens
    MaxEdits = 3
    p = p
    q = q
    m = m
    n = n
    other = other
    key1 = key1
    key2 = key2
INVARIANTS SwitchHolds UnassignedIsCleared NoFalseDrift NoBrokenTool OffersKeepTheirKey
PROPERTIES AcceptSettles
