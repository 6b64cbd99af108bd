\* Requests overlap and the clock is set back: each still has a whole backup of its own for good.
SPECIFICATION Spec
CONSTANTS
    Requests = {r1, r2, r3}
    Listers = {l1}
    Copies = {1, 2}
    None = none
    Clock <- MCClock
    ClockMayGoBack = TRUE
    Overlapping = TRUE
    Faults = {"refuse", "crash", "unremovable"}
SYMMETRY Symmetry
INVARIANTS CommittedIsComplete AppliedIsUndoable UndoNamesMine
PROPERTIES CommittedIsKept ListingSweepsTorn
