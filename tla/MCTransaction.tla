--------------------------- MODULE MCTransaction ---------------------------
(***************************************************************************)
(* Small instances of Transaction: one file per tool, in the order of      *)
(* their names, which is the order `switch` walks them in (profile.tools   *)
(* is a BTreeMap).  With three tools a plan has a first action, a middle   *)
(* one and a last one to be refused at.  The two contents are              *)
(* interchangeable: nothing looks into a file.                             *)
(***************************************************************************)
EXTENDS Transaction, TLC

MCOrder == <<"claude", "codex", "opencode">>

Position(path) == CHOOSE n \in DOMAIN MCOrder : MCOrder[n] = path

\* At most one action per tool: a write of either content, a deletion, or nothing.
MCPlans ==
    {s \in UNION {[1..n -> Step] : n \in 0..Cardinality(Paths)} :
        \A i, j \in DOMAIN s : i < j => Position(s[i].path) < Position(s[j].path)}

Symmetry == Permutations(Contents)
=============================================================================
