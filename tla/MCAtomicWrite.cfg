\* Refusals, crashes and power losses anywhere, the target there or not, its directory there or not.
SPECIFICATION Spec
CONSTANTS
    Writers = {w1, w2, w3}
    Old = old
    None = none
    Faults = {"io", "cleanup", "crash", "power"}
SYMMETRY Symmetry
INVARIANTS NeverPartial SuccessIsDurable NoDebris
PROPERTIES OneStep
\* A write is not repeated: every writer ends.
CHECK_DEADLOCK FALSE
