---------------------------- MODULE AllOrNothing ----------------------------
(***************************************************************************)
(* What tapkey promises of a switch (CONTRIBUTING.md, "A switch is all or  *)
(* nothing"; core/src/transaction.rs, "Apply every action, or none of      *)
(* them"), with nothing said about how: a request asks for a goal, and is  *)
(* answered either with the goal reached or with the files as they were.   *)
(* What failed beyond repair is answered too, and is then torn: some files *)
(* as asked, the others as they were.  Module Transaction implements it.   *)
(***************************************************************************)
CONSTANTS
    Paths,      \* the files a transaction may name
    Files       \* what one path may hold, "no file" included

VARIABLES
    files,      \* what every path holds, as the caller of apply can tell
    goal,       \* what every path should hold once the request is applied
    verdict     \* "open" until answered, then "applied", "rolled_back" or "torn"

vars == <<files, goal, verdict>>

TypeOK ==
    /\ files \in [Paths -> Files]
    /\ goal \in [Paths -> Files]
    /\ verdict \in {"open", "applied", "rolled_back", "torn"}

Init ==
    /\ files \in [Paths -> Files]
    /\ goal \in [Paths -> Files]
    /\ verdict = "open"

\* A new request: it may ask for anything, and touches nothing by being asked.
Ask ==
    /\ verdict # "open"
    /\ goal' \in [Paths -> Files]
    /\ verdict' = "open"
    /\ UNCHANGED files

Commit ==
    /\ verdict = "open"
    /\ files' = goal
    /\ verdict' = "applied"
    /\ UNCHANGED goal

RollBack ==
    /\ verdict = "open"
    /\ verdict' = "rolled_back"
    /\ UNCHANGED <<files, goal>>

\* The way back failed too: every file is old or new, and nothing says which.
Tear ==
    /\ verdict = "open"
    /\ verdict' = "torn"
    /\ files' \in {f \in [Paths -> Files] : \A p \in Paths : f[p] \in {files[p], goal[p]}}
    /\ UNCHANGED goal

Next == Ask \/ Commit \/ RollBack \/ Tear

Spec == Init /\ [][Next]_vars
=============================================================================
