------------------------------ MODULE OneFile ------------------------------
(***************************************************************************)
(* What atomic.rs promises of a file that several calls replace, with      *)
(* nothing said about temporary files, renames and flushes: "a reader sees *)
(* either the old contents or the new ones, never a partial file, and the  *)
(* new contents survive a power loss".  A call replaces everything the     *)
(* file holds at one moment or not at all; when it says it did, what the   *)
(* file holds then is what a power loss leaves, on a system where flushing *)
(* a directory lasts.  A call that failed may have replaced the file all   *)
(* the same.  Module AtomicWrite implements it.                            *)
(***************************************************************************)
CONSTANTS
    Writers,    \* the calls, each with contents of its own
    Old,        \* the contents before any of them
    None        \* what a reader gets where there is no file

VARIABLES
    holds,      \* whose contents a reader gets, every byte of them
    medium,     \* what a power loss may leave for a reader
    newDir,     \* a call made the directory, and a power loss may take it with the file
    stage,      \* of a call: "open", "replaced", then "ok" or "failed"
    reach       \* how far flushing a directory reaches; never changes

vars == <<holds, medium, newDir, stage, reach>>

Init ==
    /\ holds \in {Old, None}
    /\ medium = {holds}
    /\ newDir = FALSE
    /\ stage = [w \in Writers |-> "open"]
    /\ reach \in {"medium", "cache"}

\* A directory is made only where there was none, and so no file, now or after a power loss.  The call
\* may fail over it.
MakeDirectory(w) ==
    /\ stage[w] = "open" /\ ~newDir
    /\ holds = None /\ medium = {None}
    /\ newDir' = TRUE
    /\ stage' \in {stage, [stage EXCEPT ![w] = "failed"]}
    /\ UNCHANGED <<holds, medium, reach>>

Replace(w) ==
    /\ stage[w] = "open"
    /\ stage' = [stage EXCEPT ![w] = "replaced"]
    /\ holds' = w
    /\ medium' = medium \cup {w}
    /\ UNCHANGED <<newDir, reach>>

Report(w) ==
    /\ stage[w] = "replaced"
    /\ stage' = [stage EXCEPT ![w] = "ok"]
    /\ medium' = IF reach = "medium" THEN {holds} ELSE medium
    /\ UNCHANGED <<holds, newDir, reach>>

\* An error, or the death of the process, before the file was replaced or after.
Fail(w) ==
    /\ stage[w] \in {"open", "replaced"}
    /\ stage' = [stage EXCEPT ![w] = "failed"]
    /\ UNCHANGED <<holds, medium, newDir, reach>>

PowerLoss ==
    /\ stage' = [w \in Writers |-> IF stage[w] = "ok" THEN "ok" ELSE "failed"]
    /\ holds' \in medium \cup IF newDir THEN {None} ELSE {}
    /\ medium' = {holds'}
    /\ newDir' = FALSE
    /\ UNCHANGED reach

Next ==
    \/ \E w \in Writers : MakeDirectory(w) \/ Replace(w) \/ Report(w) \/ Fail(w)
    \/ PowerLoss

Spec == Init /\ [][Next]_vars
=============================================================================
