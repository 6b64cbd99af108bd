---------------------------- MODULE AtomicWrite ----------------------------
(***************************************************************************)
(* core/src/atomic.rs: writing one file so that a reader sees the old      *)
(* contents or the new ones, and the new ones survive a power loss: on a   *)
(* system whose fsync of a directory reaches the medium (not Darwin's).    *)
(*                                                                         *)
(* Several writers may be replacing the same target (two processes outside *)
(* the lock, or tapkey and the tool's owner); each has a temporary file of *)
(* its own and writes contents of its own, so an inode is named by who     *)
(* wrote it.  Everything a write or a rename does is first in the running  *)
(* system's memory; the medium holds one of the states since the last      *)
(* flush, and a power loss picks which.                                    *)
(*                                                                         *)
(* Faults: "io" (any step may be refused), "cleanup" (removing the         *)
(* temporary file may be refused too), "crash" (a writer's process dies),  *)
(* "power" (the machine loses power).                                      *)
(***************************************************************************)
EXTENDS Naturals, Sequences

CONSTANTS
    Writers,        \* calls of write_atomically, one per process
    Old,            \* the inode the target had before any of them
    None,           \* no such directory entry
    Faults

Inodes == Writers \cup {Old}

\* How much of its bytes an inode holds.
Amount == {"none", "part", "full"}

ASSUME AtomicAssumption ==
    /\ Old \notin Writers /\ None \notin Inodes
    /\ Faults \subseteq {"io", "cleanup", "crash", "power"}

VARIABLES
    entry,          \* the inode the target's name leads to, as a reader sees it
    entryOnMedium,  \* the entries a power loss may bring back
    bytes,          \* how much of each inode a reader sees
    bytesOnMedium,  \* how much of each inode a power loss may leave
    temp,           \* the writers whose temporary file is there
    parent,         \* "missing", "made" (by us, its own entry not flushed) or "kept"
    pc,
    renamed,        \* history: the writers in the order their files took the name, in the directory
                    \* as it is now
    unremovable,    \* history: the writers whose temporary file could not be removed
    reach           \* how far flushing a directory reaches on this system; never changes

vars == <<entry, entryOnMedium, bytes, bytesOnMedium, temp, parent, pc, renamed, unremovable, reach>>

media == <<entryOnMedium, bytesOnMedium>>

Working == {"parent", "create", "write", "rest", "flush", "rename", "flushdir", "cleanup"}
Ended == {"ok", "err", "dead"}

Init ==
    /\ parent \in {"missing", "kept"}
    /\ entry \in IF parent = "kept" THEN {Old, None} ELSE {None}
    /\ entryOnMedium = {entry}
    /\ bytes = [i \in Inodes |-> IF i = Old THEN "full" ELSE "none"]
    /\ bytesOnMedium = [i \in Inodes |-> {bytes[i]}]
    /\ temp = {}
    /\ pc = [w \in Writers |-> "parent"]
    /\ renamed = << >>
    /\ unremovable = {}
    /\ reach \in {"medium", "cache"}

Goto(w, from, to) ==
    /\ pc[w] = from
    /\ pc' = [pc EXCEPT ![w] = to]

\* create_dir_all and set_permissions; a refusal of the second leaves the directory behind.
EnsureParent(w) ==
    /\ \/ /\ parent # "missing"
          /\ Goto(w, "parent", "create")
          /\ UNCHANGED parent
       \/ /\ parent = "missing"
          /\ Goto(w, "parent", "create")
          /\ parent' = "made"
       \/ /\ parent = "missing" /\ "io" \in Faults
          /\ Goto(w, "parent", "err")
          /\ parent' \in {"missing", "made"}
    /\ UNCHANGED <<entry, media, bytes, temp, renamed, unremovable, reach>>

CreateTemp(w) ==
    /\ Goto(w, "create", "write")
    /\ temp' = temp \cup {w}
    /\ UNCHANGED <<entry, media, bytes, parent, renamed, unremovable, reach>>

\* write_all may take several system calls: the file is partial in between.
WriteAll(w) ==
    /\ \/ Goto(w, "write", "rest") /\ bytes' = [bytes EXCEPT ![w] = "part"]
       \/ Goto(w, "rest", "flush") /\ bytes' = [bytes EXCEPT ![w] = "full"]
    /\ bytesOnMedium' = [bytesOnMedium EXCEPT ![w] = @ \cup {bytes'[w]}]
    /\ UNCHANGED <<entry, entryOnMedium, temp, parent, renamed, unremovable, reach>>

\* Mutant of FlushToMedium: what plain fsync does on Darwin, or nothing at all.
FlushNothing(w) ==
    /\ Goto(w, "flush", "rename")
    /\ UNCHANGED <<entry, media, bytes, temp, parent, renamed, unremovable, reach>>

FlushToMedium(w) ==
    /\ Goto(w, "flush", "rename")
    /\ bytesOnMedium' = [bytesOnMedium EXCEPT ![w] = {bytes[w]}]
    /\ UNCHANGED <<entry, entryOnMedium, bytes, temp, parent, renamed, unremovable, reach>>

\* The rename: the temporary name is gone and the target is this writer's file.
Persist(w) ==
    /\ Goto(w, "rename", "flushdir")
    /\ entry' = w
    /\ entryOnMedium' = entryOnMedium \cup {w}
    /\ temp' = temp \ {w}
    /\ renamed' = Append(renamed, w)
    /\ UNCHANGED <<bytes, bytesOnMedium, parent, unremovable, reach>>

\* Mutant of FlushDirectory: success reported with the entry still cached.
FlushDirectoryNot(w) ==
    /\ Goto(w, "flushdir", "ok")
    /\ UNCHANGED <<entry, media, bytes, temp, parent, renamed, unremovable, reach>>

\* File::sync_all on the directory, a plain fsync: "plain fsync on Darwin only reaches the drive's
\* cache", where a power loss may still lose the entry.  The directory it may have been created in is
\* not flushed on any system.
FlushDirectory(w) ==
    /\ Goto(w, "flushdir", "ok")
    /\ entryOnMedium' = IF reach = "medium" THEN {entry} ELSE entryOnMedium
    /\ UNCHANGED <<entry, bytes, bytesOnMedium, temp, parent, renamed, unremovable, reach>>

\* Mutant of Fail: the error is returned at once.
FailWithoutCleanup(w) ==
    /\ "io" \in Faults
    /\ pc[w] \in Working \ {"parent", "cleanup"}
    /\ pc' = [pc EXCEPT ![w] = "err"]
    /\ UNCHANGED <<entry, media, bytes, temp, parent, renamed, unremovable, reach>>

\* Any step of write_then_rename is refused: the error is returned after the temporary file is
\* removed, and a refusal of the directory flush comes when the target is already the new file.
Fail(w) ==
    /\ "io" \in Faults
    /\ pc[w] \in Working \ {"parent", "cleanup"}
    /\ pc' = [pc EXCEPT ![w] = "cleanup"]
    /\ UNCHANGED <<entry, media, bytes, temp, parent, renamed, unremovable, reach>>

Cleanup(w) ==
    /\ Goto(w, "cleanup", "err")
    /\ \/ temp' = temp \ {w} /\ UNCHANGED unremovable
       \/ "cleanup" \in Faults /\ unremovable' = unremovable \cup {w} /\ UNCHANGED temp
    /\ UNCHANGED <<entry, media, bytes, parent, renamed, reach>>

Crash(w) ==
    /\ "crash" \in Faults
    /\ pc[w] \in Working
    /\ pc' = [pc EXCEPT ![w] = "dead"]
    /\ UNCHANGED <<entry, media, bytes, temp, parent, renamed, unremovable, reach>>

\* What a power loss may leave of the bytes.
MayRemain == {b \in [Inodes -> Amount] : \A i \in Inodes : b[i] \in bytesOnMedium[i]}

\* Every process dies and the system comes back with what the medium happens to hold.  A directory
\* whose own entry was never flushed may be gone with everything in it.
PowerLoss ==
    /\ "power" \in Faults
    /\ pc' = [w \in Writers |-> IF pc[w] \in Working THEN "dead" ELSE pc[w]]
    /\ \/ /\ entry' \in entryOnMedium
          /\ parent' = IF parent = "made" THEN "kept" ELSE parent
          /\ UNCHANGED <<temp, renamed>>
       \/ /\ parent = "made"
          /\ entry' = None
          /\ parent' = "missing"
          /\ temp' = {}
          /\ renamed' = << >>
    /\ entryOnMedium' = {entry'}
    /\ bytes' \in MayRemain
    /\ bytesOnMedium' = [i \in Inodes |-> {bytes'[i]}]
    /\ UNCHANGED <<unremovable, reach>>

Next ==
    \/ \E w \in Writers :
          \/ EnsureParent(w) \/ CreateTemp(w) \/ WriteAll(w) \/ FlushToMedium(w) \/ Persist(w)
          \/ FlushDirectory(w) \/ Fail(w) \/ Cleanup(w) \/ Crash(w)
    \/ PowerLoss

Spec == Init /\ [][Next]_vars
-----------------------------------------------------------------------------
(* PROPERTIES *)

TypeOK ==
    /\ entry \in Inodes \cup {None}
    /\ entryOnMedium \in (SUBSET (Inodes \cup {None})) \ {{}}
    /\ bytes \in [Inodes -> Amount]
    /\ bytesOnMedium \in [Inodes -> (SUBSET Amount) \ {{}}]
    /\ temp \subseteq Writers
    /\ \A w \in Writers :
          /\ pc[w] \in {"write", "rest", "flush", "rename"} => w \in temp
          /\ pc[w] \in {"parent", "create", "flushdir"} => w \notin temp
    /\ parent \in {"missing", "made", "kept"}
    /\ pc \in [Writers -> Working \cup Ended]
    /\ renamed \in Seq(Writers)
    /\ unremovable \subseteq Writers
    /\ reach \in {"medium", "cache"}

\* atomic.rs: "a reader sees either the old contents or the new ones, never a partial file", at every
\* moment, between any steps of any writers, and after a power loss at any of them.
NeverPartial == entry # None => bytes[entry] = "full"

\* atomic.rs: "the new contents survive a power loss".  Once a call has returned Ok the target is its
\* file, or the file of a writer that replaced it afterwards, even if the power went in between.  The
\* exceptions are the code's own: where the call had to make the directory, the directory's own entry
\* is never flushed, and the power may take it with everything in it; and on Darwin the entry is only
\* as far as the drive's cache when Ok is returned, so that there the promise is not kept.
SuccessIsDurable ==
    \A w \in Writers : \A n \in DOMAIN renamed :
        reach = "medium" /\ pc[w] = "ok" /\ renamed[n] = w =>
            entry = w \/ \E m \in DOMAIN renamed : m > n /\ entry = renamed[m]

\* atomic.rs, "Leave nothing behind": a call that returned, well or badly, left no temporary file,
\* unless the system would not remove it.
NoDebris == \A w \in Writers : pc[w] \in {"ok", "err"} /\ w \in temp => w \in unremovable

\* What a reader gets by a name, from inodes that hold so much of their bytes; by the target's name
\* now, and after a power loss.
Read(e, held) == IF e = None THEN None ELSE IF held[e] = "full" THEN e ELSE "torn"
Holds == Read(entry, bytes)
OnMedium == {Read(e, b) : e \in entryOnMedium, b \in MayRemain}

NewDir == parent = "made"

StageOf(place) ==
    CASE place = "flushdir" -> "replaced"
      [] place = "ok" -> "ok"
      [] place \in {"cleanup", "err", "dead"} -> "failed"
      [] OTHER -> "open"
Stage == [w \in Writers |-> StageOf(pc[w])]

Promise == INSTANCE OneFile WITH
    holds <- Holds, medium <- OnMedium, newDir <- NewDir, stage <- Stage, reach <- reach

\* write_atomically replaces a file at one moment, its rename, or not at all, whatever fails and
\* whoever else replaces it: the callers may take a write as one step (OneFile).
OneStep == Promise!Spec
=============================================================================
