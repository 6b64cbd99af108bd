------------------------------ MODULE MCTapkey ------------------------------
(***************************************************************************)
(* Two tools, one of each kind: Claude Code, which has no registry, and    *)
(* Codex, which has one and a key that keeps it from starting.             *)
(***************************************************************************)
EXTENDS Tapkey, TLC

CONSTANTS claude, codex, p, q, theirs, stops

MCOrder == <<claude, codex>>

MCFound == {Absent, [sel |-> Nobody, reg |-> {}, rest |-> theirs]}
MCPresent == {[sel |-> Nobody, reg |-> {}, rest |-> theirs]}

Both(x) == [op |-> "switch", profile |-> [t \in Tools |-> x]]
Just(tool, x) == [op |-> "switch", profile |-> [t \in Tools |-> IF t = tool THEN x ELSE None]]
Snapshot == [op |-> "snapshot"]
Backup(n) == [op |-> "backup", id |-> n]
Remove(x) == [op |-> "remove", provider |-> x]
Accept(tool) == [op |-> "accept", tool |-> tool]
Step(way) == [op |-> "cycle", step |-> way]

\* Three profiles; the third is named for nothing its model is called, which is the common case.
MCRows == <<Both(p).profile, Both(q).profile, Just(codex, q).profile>>
MCReadable == {<<1, p>>, <<2, q>>}

\* Two profiles, one of them for one tool only, and both ways back.
MCRestoring == {Both(p), Just(codex, q), Snapshot, Backup(1)}

\* Everything that goes one call after another: steps through the profiles, of which the first is to
\* the first profile or to the last, a removal, both ways back, accepted drift.
MCOneByOne ==
    {Remove(p), Snapshot, Backup(1), Accept(codex), Step("next"), Step("previous")}

\* Every kind of request, a few of each.
MCEvery == {Both(p), Just(codex, q), Snapshot, Backup(1), Remove(p), Accept(codex)}

\* The processes are alike.
Symmetry == Permutations(Requests)
=============================================================================
