---------------------------- MODULE Transaction ----------------------------
(***************************************************************************)
(* core/src/transaction.rs: a list of writes and deletions applied in      *)
(* order; when one is refused, everything already done is put back in      *)
(* reverse order from what `before` read.                                  *)
(*                                                                         *)
(* A file is its content and its permission bits, because putting a file   *)
(* back includes both: an existing file is asked for with its own mode     *)
(* (atomic.rs, existing_mode), a deleted one with the mode recorded.  The  *)
(* system takes the umask off what is asked for: no write gives it back.   *)
(*                                                                         *)
(* Faults is the set of things that may go wrong:                          *)
(*   "refuse"  an action is refused and its file is as it was;             *)
(*   "late"    an action reports an error after its file changed, which is *)
(*             flush_directory failing once `persist` renamed the file;    *)
(*   "undo"    the same two, while putting a file back;                    *)
(*   "crash"   the process dies with the transaction under way.            *)
(***************************************************************************)
EXTENDS Naturals, Sequences, FiniteSets

CONSTANTS
    Paths,          \* the files a transaction may name
    Contents,       \* what a file may hold
    Modes,          \* permissions, each the set of its bits
    Umask,          \* the bits the system withholds from any file a process creates
    DefaultMode,    \* the mode a created file is asked for (0600)
    Absent,         \* "no such file", and the content an Action::Delete leaves
    Plans,          \* the lists of actions the adapters may hand over
    Faults          \* what may go wrong, see above

File == [content : Contents, mode : Modes]
Step == [path : Paths, to : Contents \cup {Absent}]

\* An adapter plans at most one action for one file.
DistinctPaths(plan) ==
    \A i, j \in DOMAIN plan : plan[i].path = plan[j].path => i = j

ASSUME TransactionAssumption ==
    /\ DefaultMode \in Modes
    /\ \A mode \in Modes : mode \ Umask \in Modes
    /\ Absent \notin Contents
    /\ Absent \notin File
    /\ Plans \subseteq {s \in Seq(Step) : DistinctPaths(s)}
    /\ Faults \subseteq {"refuse", "late", "undo", "crash"}

VARIABLES
    disk,       \* what every path holds now
    plan,       \* Transaction::actions
    before,     \* the reading `before` took, or << >> until it is taken
    done,       \* how many actions are applied and not put back
    failedAt,   \* the position of the action that was refused, 0 for none
    restored,   \* RolledBack::restored
    phase,
    start,      \* history: what every path held when apply was called
    lost        \* history: files changed by an action that failed, or refused to be put back

vars == <<disk, plan, before, done, failedAt, restored, phase, start, lost>>

Settled == {"ok", "rolled_back"}
Phases == {"read", "apply", "undo", "crashed"} \cup Settled

(***************************************************************************)
(* The file system calls.                                                  *)
(***************************************************************************)
\* FileSystem::write through write_atomically: the file that is renamed into place is created with the
\* old file's mode, or the mode asked where there was none, less the umask either way.
Written(old, content, mode) ==
    [content |-> content, mode |-> (IF old = Absent THEN mode ELSE old.mode) \ Umask]

\* One action's effect on the file it names; RealFs::remove of a missing file is no error.
Put(old, to) == IF to = Absent THEN Absent ELSE Written(old, to, DefaultMode)

\* Mutant of PutBack: the mode the reading recorded is not used.
PutBackDefaultMode(now, was) ==
    IF was = Absent THEN Absent ELSE Written(now, was.content, DefaultMode)

\* One entry of `undo`: what it leaves where `now` is the file and `was` the reading.
PutBack(now, was) ==
    IF was = Absent THEN Absent ELSE Written(now, was.content, was.mode)

\* Every path after the first n actions of a plan that began at `from`.
After(from, pl, n) ==
    [p \in Paths |->
        IF \E i \in 1..n : pl[i].path = p
        THEN Put(from[p], pl[CHOOSE i \in 1..n : pl[i].path = p].to)
        ELSE from[p]]
-----------------------------------------------------------------------------
Init ==
    /\ disk \in [Paths -> File \cup {Absent}]
    /\ plan \in Plans
    /\ before = << >>
    /\ done = 0
    /\ failedAt = 0
    /\ restored = 0
    /\ phase = "read"
    /\ start = disk
    /\ lost = {}

\* The next call of apply, on the files as the last one left them.
Begin ==
    /\ phase \in Settled
    /\ plan' \in Plans
    /\ before' = << >>
    /\ done' = 0
    /\ failedAt' = 0
    /\ restored' = 0
    /\ phase' = "read"
    /\ start' = disk
    /\ lost' = {}
    /\ UNCHANGED disk

\* capture: one entry for every action, in the order of the actions.
ReadBefore ==
    /\ phase = "read"
    /\ before' = [i \in 1..Len(plan) |-> disk[plan[i].path]]
    /\ phase' = "apply"
    /\ UNCHANGED <<disk, plan, done, failedAt, restored, start, lost>>

\* `before` could not read a file: nothing was touched and nothing is put back.
ReadRefused ==
    /\ "refuse" \in Faults
    /\ phase = "read"
    /\ phase' = "rolled_back"
    /\ UNCHANGED <<disk, plan, before, done, failedAt, restored, start, lost>>

Act ==
    /\ phase = "apply"
    /\ done < Len(plan)
    /\ LET step == plan[done + 1] IN
       disk' = [disk EXCEPT ![step.path] = Put(@, step.to)]
    /\ done' = done + 1
    /\ UNCHANGED <<plan, before, failedAt, restored, phase, start, lost>>

\* The for loop ran out of actions: Ok(()).
Finish ==
    /\ phase = "apply"
    /\ done = Len(plan)
    /\ phase' = "ok"
    /\ UNCHANGED <<disk, plan, before, done, failedAt, restored, start, lost>>

\* Action `done + 1` fails; undo covers before[..index], which leaves that action out.
Refused ==
    /\ phase = "apply"
    /\ done < Len(plan)
    /\ \/ /\ "refuse" \in Faults
          /\ UNCHANGED <<disk, lost>>
       \/ /\ "late" \in Faults
          /\ plan[done + 1].to # Absent
          /\ lost' = {plan[done + 1].path}
          /\ LET step == plan[done + 1] IN
             disk' = [disk EXCEPT ![step.path] = Put(@, step.to)]
    /\ failedAt' = done + 1
    /\ phase' = "undo"
    /\ UNCHANGED <<plan, before, done, restored, start>>

\* Mutant of Undo: a file the transaction created is left behind.
UndoKeepsCreated ==
    /\ phase = "undo"
    /\ done > 0
    /\ disk' = IF before[done] = Absent THEN disk
               ELSE [disk EXCEPT ![plan[done].path] = PutBack(@, before[done])]
    /\ restored' = restored + 1
    /\ done' = done - 1
    /\ UNCHANGED <<plan, before, failedAt, phase, start, lost>>

Undo ==
    /\ phase = "undo"
    /\ done > 0
    /\ disk' = [disk EXCEPT ![plan[done].path] = PutBack(@, before[done])]
    /\ restored' = restored + 1
    /\ done' = done - 1
    /\ UNCHANGED <<plan, before, failedAt, phase, start, lost>>

\* Mutant of UndoRefused: the count goes up without looking at the outcome.
UndoRefusedCounted ==
    /\ "undo" \in Faults
    /\ phase = "undo"
    /\ done > 0
    /\ disk' = disk
    /\ restored' = restored + 1
    /\ done' = done - 1
    /\ lost' = lost \cup {plan[done].path}
    /\ UNCHANGED <<plan, before, failedAt, phase, start>>

\* An entry that could not be put back is skipped and not counted; undo goes on with the next.
UndoRefused ==
    /\ "undo" \in Faults
    /\ phase = "undo"
    /\ done > 0
    /\ \/ UNCHANGED disk
       \/ /\ before[done] # Absent
          /\ disk' = [disk EXCEPT ![plan[done].path] = PutBack(@, before[done])]
    /\ done' = done - 1
    /\ lost' = lost \cup {plan[done].path}
    /\ UNCHANGED <<plan, before, failedAt, restored, phase, start>>

Report ==
    /\ phase = "undo"
    /\ done = 0
    /\ phase' = "rolled_back"
    /\ UNCHANGED <<disk, plan, before, done, failedAt, restored, start, lost>>

Crash ==
    /\ "crash" \in Faults
    /\ phase \in {"apply", "undo"}
    /\ phase' = "crashed"
    /\ UNCHANGED <<disk, plan, before, done, failedAt, restored, start, lost>>

Next ==
    \/ Begin \/ ReadBefore \/ ReadRefused \/ Act \/ Finish
    \/ Refused \/ Undo \/ UndoRefused \/ Report \/ Crash

Spec == Init /\ [][Next]_vars
-----------------------------------------------------------------------------
(* PROPERTIES *)

TypeOK ==
    /\ disk \in [Paths -> File \cup {Absent}]
    /\ plan \in Plans
    /\ before \in Seq(File \cup {Absent})
    /\ phase \in {"apply", "undo"} => Len(before) = Len(plan)
    /\ done \in 0..Len(plan)
    /\ failedAt \in 0..Len(plan)
    /\ restored \in Nat
    /\ phase \in Phases
    /\ start \in [Paths -> File \cup {Absent}]
    /\ lost \subseteq Paths

\* A file as far as `apply` is concerned: where the request is answered it is what is on the disk,
\* and while it is under way (or after a crash, when nobody is answered) what it was.
Visible == IF phase \in Settled THEN disk ELSE start

Goal == After(start, plan, Len(plan))

\* A file, and the files, as far as any write of them could give back: without what the umask withholds.
Bare(file) == IF file = Absent THEN Absent ELSE [file EXCEPT !.mode = @ \ Umask]
BareAll(files) == [p \in Paths |-> Bare(files[p])]

\* The contract of CONTRIBUTING.md, "A switch is all or nothing": transaction.rs answers with every
\* action applied, or with every file as it was, content and mode both (the mode up to the umask, which
\* a file that was written loses for good).  Only where an action failed after its file had changed, or
\* a file could not be put back, is "rolled_back" an answer that may leave some files old and some new;
\* and even then no file is anything else.
Contract == INSTANCE AllOrNothing WITH
    Files <- File \cup {Absent},
    files <- BareAll(Visible),
    goal <- BareAll(Goal),
    verdict <- IF phase = "ok" THEN "applied"
               ELSE IF phase = "rolled_back" THEN IF lost = {} THEN "rolled_back" ELSE "torn"
               ELSE "open"

ImplementsContract == Contract!Spec

\* The number a person reads in the failure ("N file(s) restored", lib.rs) is never more than the
\* number of files that really are as they were (up to the umask), whatever went wrong while putting
\* them back.
RestoredIsHonest ==
    phase = "rolled_back" =>
        restored <= Cardinality({i \in 1..Len(plan) :
                                    /\ i < failedAt
                                    /\ Bare(disk[plan[i].path]) = Bare(start[plan[i].path])})

\* Whatever fails, in whatever order, and wherever the process dies: a file holds what it held when
\* apply was called or exactly what the plan gives it, mode included, and never a mixture.  The one
\* thing that may be missing from a file put back is what the umask withheld when it was written again.
OldOrNew == \A p \in Paths : disk[p] \in {start[p], Bare(start[p]), Goal[p]}
=============================================================================
