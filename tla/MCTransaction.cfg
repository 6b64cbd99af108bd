\* Modes are the bits given to others than the owner: 0600, 0644 and 0664, under the usual umask.
\* Anything may fail, while undoing too, and the process may die part way.
SPECIFICATION Spec
CONSTANTS
    Paths = {"claude", "codex", "opencode"}
    Contents = {old, new}
    Modes = {{}, {read}, {read, write}}
    Umask = {write}
    DefaultMode = {}
    Absent = absent
    Plans <- MCPlans
    Faults = {"refuse", "late", "undo", "crash"}
SYMMETRY Symmetry
INVARIANTS OldOrNew RestoredIsHonest
PROPERTIES ImplementsContract
\* A process that died makes no further call.
CHECK_DEADLOCK FALSE
