------------------------------ MODULE Backups ------------------------------
(***************************************************************************)
(* core/src/store.rs: backups as directories that come into being file by  *)
(* file, with the manifest last; and the two readers that look at them     *)
(* without the lock, the history listing, which sweeps directories that    *)
(* have no manifest, and newest_backup, which a switch uses to name its    *)
(* own backup for Undo.                                                    *)
(*                                                                         *)
(* A directory is named <<t, n>>: the name of the instant the request took *)
(* from the clock (module Instants), and 1 for the plain name or n for     *)
(* "t-n" (free_name).  With n up to 9 the order of the names as strings is *)
(* the order of the pairs.                                                 *)
(***************************************************************************)
EXTENDS Instants, FiniteSets

CONSTANTS
    Requests,       \* changes that take a backup: switch, restore, remove_provider
    Listers,        \* list_history calls
    Copies,         \* the copies one backup holds ("01", "02", ...)
    None,
    Clock,          \* bound: the moments there are, from first to last
    ClockMayGoBack, \* whether the wall clock may be set back
    Overlapping,    \* whether a request may arrive while another is under way
    Faults          \* "refuse": a write of the store is refused; "crash": a process dies;
                    \* "unremovable": a removal in the store is refused

ASSUME BackupsAssumption ==
    /\ IsFiniteSet(Requests) /\ Requests # {}
    /\ Clock \in Seq(Moments) /\ Clock # <<>>
    /\ \A i, j \in DOMAIN Clock : i < j =>
          Clock[i][1] < Clock[j][1] \/ (Clock[i][1] = Clock[j][1] /\ Clock[i][2] < Clock[j][2])
    /\ None \notin Requests /\ None \notin DOMAIN Clock
    /\ ClockMayGoBack \in BOOLEAN /\ Overlapping \in BOOLEAN
    /\ Faults \subseteq {"refuse", "crash", "unremovable"}

VARIABLES
    clock,      \* which moment it is
    dirs,       \* name -> [copies present, by: whose manifest, or None]
    lock,
    pc,         \* where each request is
    at,         \* Env::now of each request, taken when it arrives
    mine,       \* the name take_backup gave each request
    left,       \* the copies write_group has yet to write
    named,      \* the id the request was answered with (newest_backup)
    lister,     \* where each listing is
    listed,     \* the directory entries a listing has yet to look at
    target,     \* the directory a listing is removing
    over,       \* history: the requests that had died or been refused when a listing began
    met         \* history: the requests whose directory a listing met without its manifest while they
                \* were writing it, and goes on to remove

reqVars == <<lock, pc, at, mine, left, named>>
listVars == <<lister, listed, target, over>>
vars == <<clock, dirs, reqVars, listVars, met>>

Stamps == [c \in DOMAIN Clock |-> FormatUtc(Clock[c])]
Names == {<<Stamps[c], n>> : c \in DOMAIN Clock, n \in 1..Cardinality(Requests)}

Busy == {"waiting", "name", "dir", "copy", "manifest", "newest", "apply"}
Holding == Busy \ {"waiting"}
Writing == {"copy", "manifest"}

\* The names in the order `sort` puts them in.
Before(a, b) == SortsBefore(a[1], b[1]) \/ (a[1] = b[1] /\ a[2] < b[2])
Newest(S) == CHOOSE a \in S : \A b \in S \ {a} : Before(b, a)

Committed(d) == d \in DOMAIN dirs /\ dirs[d].by # None
Restorable(d) == Committed(d) /\ dirs[d].copies = Copies

\* What is in a directory, whether or not it is still there: writing a file recreates it.
Dir(d) == IF d \in DOMAIN dirs THEN dirs[d] ELSE [copies |-> {}, by |-> None]
With(d, r) == [x \in DOMAIN dirs \cup {d} |-> IF x = d THEN r ELSE dirs[x]]

Init ==
    /\ clock = 1
    /\ dirs = [d \in {} |-> None]
    /\ lock = None
    /\ pc = [r \in Requests |-> "idle"]
    /\ at = [r \in Requests |-> None]
    /\ mine = [r \in Requests |-> None]
    /\ left = [r \in Requests |-> Copies]
    /\ named = [r \in Requests |-> None]
    /\ lister = [l \in Listers |-> "idle"]
    /\ listed = [l \in Listers |-> {}]
    /\ target = [l \in Listers |-> None]
    /\ over = [l \in Listers |-> {}]
    /\ met = {}
-----------------------------------------------------------------------------
(* The clock, which is the machine's and not tapkey's. *)

Tick ==
    /\ clock' \in {c \in DOMAIN Clock : c > clock \/ ClockMayGoBack}
    /\ clock' # clock
    /\ UNCHANGED <<dirs, reqVars, listVars, met>>
-----------------------------------------------------------------------------
(* A request that changes files.  The instant is taken first (Env::real), before the profiles are  *)
(* read, the keychain is asked and the lock is taken. *)

Step(r, from, to) ==
    /\ pc[r] = from
    /\ pc' = [pc EXCEPT ![r] = to]

Arrive(r) ==
    /\ Overlapping \/ \A q \in Requests : pc[q] \notin Busy
    /\ Step(r, "idle", "waiting")
    /\ at' = [at EXCEPT ![r] = clock]
    /\ UNCHANGED <<clock, dirs, lock, mine, left, named, listVars, met>>

Acquire(r) ==
    /\ lock = None
    /\ Step(r, "waiting", "name")
    /\ lock' = r
    /\ UNCHANGED <<clock, dirs, at, mine, left, named, listVars, met>>

\* Mutant of FreeName: two changes in one millisecond share a directory.
FreeNameAlwaysBase(r) ==
    /\ Step(r, "name", "dir")
    /\ mine' = [mine EXCEPT ![r] = <<Stamps[at[r]], 1>>]
    /\ UNCHANGED <<clock, dirs, lock, at, left, named, listVars, met>>

FreeName(r) ==
    /\ Step(r, "name", "dir")
    /\ \E n \in 1..Cardinality(Requests) :
          /\ <<Stamps[at[r]], n>> \notin DOMAIN dirs
          /\ \A m \in 1..(n - 1) : <<Stamps[at[r]], m>> \in DOMAIN dirs
          /\ mine' = [mine EXCEPT ![r] = <<Stamps[at[r]], n>>]
    /\ UNCHANGED <<clock, dirs, lock, at, left, named, listVars, met>>

\* Mutant of MakeDir: the manifest is written first and the copies after it.
MakeDirManifestFirst(r) ==
    /\ Step(r, "dir", IF Copies = {} THEN "manifest" ELSE "copy")
    /\ dirs' = With(mine[r], [Dir(mine[r]) EXCEPT !.by = r])
    /\ UNCHANGED <<clock, lock, at, mine, left, named, listVars, met>>

\* create_dir_closed of the group; write_group then takes the captured files in order.
MakeDir(r) ==
    /\ Step(r, "dir", IF Copies = {} THEN "manifest" ELSE "copy")
    /\ dirs' = With(mine[r], Dir(mine[r]))
    /\ met' = met \cup {q \in {r} : \E l \in Listers : target[l] = mine[r]}
    /\ UNCHANGED <<clock, lock, at, mine, left, named, listVars>>

CopyFile(r) ==
    /\ pc[r] = "copy"
    /\ \E c \in left[r] :
          /\ \A e \in left[r] : c <= e
          /\ dirs' = With(mine[r], [Dir(mine[r]) EXCEPT !.copies = @ \cup {c}])
          /\ left' = [left EXCEPT ![r] = @ \ {c}]
    /\ pc' = IF left'[r] = {} THEN [pc EXCEPT ![r] = "manifest"] ELSE pc
    /\ UNCHANGED <<clock, lock, at, mine, named, listVars, met>>

\* The commit point: written atomically once every copy is.
WriteManifest(r) ==
    /\ Step(r, "manifest", "newest")
    /\ dirs' = With(mine[r], [Dir(mine[r]) EXCEPT !.by = r])
    /\ UNCHANGED <<clock, lock, at, mine, left, named, listVars, met>>

\* Mutant of NameNewest: the other end of the sorted list.
NameOldest(r) ==
    /\ Step(r, "newest", "apply")
    /\ named' = [named EXCEPT ![r] =
           IF DOMAIN dirs = {} THEN None
           ELSE CHOOSE a \in DOMAIN dirs : \A b \in DOMAIN dirs \ {a} : Before(a, b)]
    /\ UNCHANGED <<clock, dirs, lock, at, mine, left, listVars, met>>

\* store::newest_backup: the last name in the directory, whoever it belongs to and complete or not.
NameNewest(r) ==
    /\ Step(r, "newest", "apply")
    /\ named' = [named EXCEPT ![r] = IF DOMAIN dirs = {} THEN None ELSE Newest(DOMAIN dirs)]
    /\ UNCHANGED <<clock, dirs, lock, at, mine, left, listVars, met>>

\* The change itself, and the answer.
Finish(r) ==
    /\ Step(r, "apply", "done")
    /\ lock' = None
    /\ UNCHANGED <<clock, dirs, at, mine, left, named, listVars, met>>

\* A copy or the manifest cannot be written: "could not record a backup", and nothing is applied.
Refuse(r) ==
    /\ "refuse" \in Faults
    /\ pc[r] \in {"dir", "copy", "manifest"}
    /\ pc' = [pc EXCEPT ![r] = "refused"]
    /\ lock' = None
    /\ UNCHANGED <<clock, dirs, at, mine, left, named, listVars, met>>

Crash(r) ==
    /\ "crash" \in Faults
    /\ pc[r] \in Holding
    /\ pc' = [pc EXCEPT ![r] = "dead"]
    /\ lock' = None
    /\ UNCHANGED <<clock, dirs, at, mine, left, named, listVars, met>>
-----------------------------------------------------------------------------
(* Store::backups, called by list_history without the lock. *)

ReadDir(l) ==
    /\ lister[l] = "idle"
    /\ lister' = [lister EXCEPT ![l] = "looking"]
    /\ listed' = [listed EXCEPT ![l] = DOMAIN dirs]
    /\ over' = [over EXCEPT ![l] = {r \in Requests : pc[r] \in {"dead", "refused"}}]
    /\ UNCHANGED <<clock, dirs, reqVars, target, met>>

\* Mutant of Look: a directory without a manifest is skipped.
LookSkipsTorn(l) ==
    /\ lister[l] = "looking"
    /\ \E d \in listed[l] : listed' = [listed EXCEPT ![l] = @ \ {d}]
    /\ UNCHANGED <<clock, dirs, reqVars, lister, target, over, met>>

\* One entry: passed over when it is no directory any more, kept when its manifest exists, to be
\* removed when it does not.
Look(l) ==
    /\ lister[l] = "looking"
    /\ \E d \in listed[l] :
          /\ listed' = [listed EXCEPT ![l] = @ \ {d}]
          /\ \/ /\ d \notin DOMAIN dirs \/ Committed(d)
                /\ UNCHANGED <<lister, target, met>>
             \/ /\ d \in DOMAIN dirs /\ ~Committed(d)
                /\ lister' = [lister EXCEPT ![l] = "removing"]
                /\ target' = [target EXCEPT ![l] = d]
                /\ met' = met \cup {r \in Requests : pc[r] \in Writing /\ mine[r] = d}
    /\ UNCHANGED <<clock, dirs, reqVars, over>>

\* remove_dir_all takes one file after another and the directory last.  A directory that is gone, or
\* that a request is writing into again, is an error, which ends the listing.
RemoveOne(l) ==
    /\ lister[l] = "removing"
    /\ target[l] \in DOMAIN dirs
    /\ LET d == target[l] IN
       \/ \E c \in dirs[d].copies : dirs' = [dirs EXCEPT ![d].copies = @ \ {c}]
       \/ Committed(d) /\ dirs' = [dirs EXCEPT ![d].by = None]
    /\ UNCHANGED <<clock, reqVars, listVars, met>>

RemoveDir(l) ==
    /\ lister[l] = "removing"
    /\ target[l] \in DOMAIN dirs
    /\ dirs[target[l]] = [copies |-> {}, by |-> None]
    /\ dirs' = [d \in DOMAIN dirs \ {target[l]} |-> dirs[d]]
    /\ lister' = [lister EXCEPT ![l] = "looking"]
    /\ target' = [target EXCEPT ![l] = None]
    /\ UNCHANGED <<clock, reqVars, listed, over, met>>

RemoveFails(l) ==
    /\ lister[l] = "removing"
    /\ \/ "unremovable" \in Faults
       \/ target[l] \notin DOMAIN dirs
       \/ \E r \in Requests : pc[r] \in Holding /\ mine[r] = target[l]
    /\ lister' = [lister EXCEPT ![l] = "done"]
    /\ target' = [target EXCEPT ![l] = None]
    /\ listed' = [listed EXCEPT ![l] = {}]
    /\ UNCHANGED <<clock, dirs, reqVars, over, met>>

ListDone(l) ==
    /\ lister[l] = "looking"
    /\ listed[l] = {}
    /\ lister' = [lister EXCEPT ![l] = "done"]
    /\ UNCHANGED <<clock, dirs, reqVars, listed, target, over, met>>

Change(r) ==
    \/ Arrive(r) \/ Acquire(r) \/ FreeName(r) \/ MakeDir(r) \/ CopyFile(r) \/ WriteManifest(r)
    \/ NameNewest(r) \/ Finish(r) \/ Refuse(r) \/ Crash(r)

List(l) ==
    ReadDir(l) \/ Look(l) \/ RemoveOne(l) \/ RemoveDir(l) \/ RemoveFails(l) \/ ListDone(l)

Next == Tick \/ (\E r \in Requests : Change(r)) \/ (\E l \in Listers : List(l))

Spec == Init /\ [][Next]_vars
-----------------------------------------------------------------------------
(* PROPERTIES *)

\* store.rs: "The manifest is written last and is the commit point".  A backup with a manifest has
\* every copy the manifest names, so restore_plan can read all of it, unless a listing met its directory
\* before the manifest was there: the listing takes no lock, and goes on removing.
CommittedIsComplete == \A d \in DOMAIN dirs : Committed(d) /\ dirs[d].by \notin met => Restorable(d)

\* lib.rs, switch: nothing is applied before a backup is recorded.  From the moment files may change,
\* and for good, the request's own backup is there, complete, and nobody else's, unless a listing met
\* its directory while it was being written.
AppliedIsUndoable ==
    \A r \in Requests \ met : pc[r] \in {"apply", "done"} =>
        /\ Restorable(mine[r])
        /\ dirs[mine[r]].by = r

\* lib.rs, switch: "The newest entry is the one just written".  The id a switch is answered with, which
\* Undo restores, is the backup that switch took, as long as no other change took its instant as late
\* or later (a change that reads the clock and then waits for the lock is answered with somebody
\* else's backup) and no listing met its directory while it was being written.
UndoNamesMine ==
    \A r \in Requests \ met :
        pc[r] \in {"apply", "done"} /\ (\A q \in Requests \ {r} : at[q] # None => at[q] < at[r]) =>
            named[r] = mine[r]

\* store.rs: erasing somebody's only way back "is worse than any amount of clutter".  No step, of a
\* change or of a listing beside it, removes a committed backup or changes what it holds; the only
\* backup a listing takes is one it met without its manifest.
CommittedIsKept ==
    [][\A d \in DOMAIN dirs :
          Committed(d) /\ dirs[d].by \notin met => d \in DOMAIN dirs' /\ dirs'[d] = dirs[d]]_dirs

\* store.rs, backups: "sweeping away any interrupted write it finds".  When a listing comes to its end,
\* every directory without a manifest belongs to a request that had not died or been refused when the
\* listing began, or that a listing met while it was writing.
ListingSweepsTorn ==
    [][\A l \in Listers : lister[l] = "looking" /\ lister'[l] = "done" =>
          \A d \in DOMAIN dirs :
              Committed(d) \/ \E r \in Requests : mine[r] = d /\ (r \notin over[l] \/ r \in met)]_lister
=============================================================================
