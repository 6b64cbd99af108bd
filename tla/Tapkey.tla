------------------------------- MODULE Tapkey -------------------------------
(***************************************************************************)
(* core/src/lib.rs: the requests that change the tools' files or what      *)
(* tapkey remembers of them (switch, restore, remove_provider,             *)
(* accept_drift), run by several processes over one store, one advisory    *)
(* lock and the same configuration files, which the tools and the person   *)
(* also edit.                                                              *)
(*                                                                         *)
(* A configuration file is three things: the provider and models it        *)
(* selects, the providers tapkey registered in it (tools with a registry), *)
(* and the rest, which is not tapkey's.  The app's cycle through the       *)
(* profiles (app/src-tauri/src/lib.rs) is a request of its own here: it    *)
(* asks what is in effect and then for a switch.  Writing one file is one  *)
(* step (module AtomicWrite), one backup is one step (module Backups).     *)
(***************************************************************************)
EXTENDS Naturals, Sequences, FiniteSets

CONSTANTS
    Requests,       \* one process each, making one call of `handle`
    Asks,           \* what they may ask for, see Ask
    Tools,
    Order,          \* the tools in the order they are planned and written
    Registry,       \* the tools with a registry of providers: Codex, OpenCode
    Strict,         \* the tools a key of their own keeps from starting: Codex
    Providers,
    Rest,           \* what the rest of a file may be
    Empty,          \* the rest of a file tapkey creates
    Fatal,          \* the rest of a file with the key that stops a strict tool
    Nobody,         \* nothing selected: the tool's own login
    Absent,         \* no such file
    Keep,           \* in a plan, a capture or a backup: a file it does not name
    None,
    Found,          \* the files there may be before tapkey first runs
    Rows,           \* the profiles in the store's order
    Readable,       \* which row's name is part of which provider's main model
    MaxEdits,       \* bound: outside edits
    Overlapping,    \* whether requests may overlap
    EditAnyTime,    \* whether an edit may come while a request is under way
    Faults          \* a write of the "store" or of a file ("write", and "late", after its rename) is
                    \* refused, or its "undo", the "keychain", the "readback" or, once, the lock
                    \* ("hiccup"); "crash": a process dies

Config == [sel : Providers \cup {Nobody}, reg : SUBSET Providers, rest : Rest]
File == Config \cup {Absent}
Partial == [Tools -> File \cup {Keep}]

Ask ==
    [op : {"switch"}, profile : [Tools -> Providers \cup {None}]]
    \cup [op : {"snapshot"}]
    \cup [op : {"backup"}, id : Nat]
    \cup [op : {"remove"}, provider : Providers]
    \cup [op : {"accept"}, tool : Tools]
    \cup [op : {"cycle"}, step : {"next", "previous"}]

Attempts == 3

ASSUME TapkeyAssumption ==
    /\ IsFiniteSet(Requests) /\ None \notin Requests
    /\ Asks \subseteq Ask
    /\ Tools # {} /\ Order \in Seq(Tools)
    /\ \A t \in Tools : \E i \in DOMAIN Order : Order[i] = t
    /\ \A i, j \in DOMAIN Order : Order[i] = Order[j] => i = j
    /\ Registry \subseteq Tools /\ Strict \subseteq Tools
    /\ Nobody \notin Providers /\ None \notin Providers \cup {Nobody}
    /\ Absent \notin Config /\ Keep \notin File /\ None \notin [Tools -> File]
    /\ Empty \in Rest
    /\ Found \subseteq File
    /\ Rows \in Seq([Tools -> Providers \cup {None}])
    /\ Readable \subseteq (DOMAIN Rows) \X Providers
    /\ MaxEdits \in Nat
    /\ Overlapping \in BOOLEAN /\ EditAnyTime \in BOOLEAN
    /\ Faults \subseteq {"store", "write", "late", "undo", "keychain", "readback", "hiccup", "crash"}

VARIABLES
    disk,       \* the tools' configuration files
    snapshot,   \* the first-run snapshot, or None
    backups,    \* the committed backups, in the order they were taken
    state,      \* state.json: what each tool was left selecting, None when not owned
    records,    \* the providers in profiles.json
    keys,       \* the providers the helper holds a key for
    lock,
    req,        \* what each process is doing
    edits,      \* outside edits so far
    edited,     \* history: the tools whose selection others have edited
    changed     \* history: tapkey has changed some file

store == <<snapshot, backups, state>>
vars == <<disk, store, records, keys, lock, req, edits, edited, changed>>

Planning == {"cycle", "check", "plan", "lock"}
Locked == {"read", "capture", "snapshot", "backup", "before", "apply", "undo", "record",
           "forget", "records", "accept", "readback"}
Busy == Planning \cup Locked

\* Where a call waits for the helper, which asks the keychain: for a person at an access dialog, and at
\* a terminal for what is typed (the helper that `check` runs has the caller's standard input).
Waiting == {"check", "forget"}
Ended == {"applied", "rolled_back", "refused", "busy", "dead"}

NoFiles == [t \in Tools |-> Keep]

Idle == [pc |-> "idle", ask |-> None, doc |-> {}, plan |-> NoFiles, todo |-> {}, tries |-> 0,
         captured |-> NoFiles, backup |-> 0, before |-> NoFiles, done |-> {},
         lost |-> {}]     \* history: the files whose write or undo was refused when it may have been done

Init ==
    /\ disk \in [Tools -> Found]
    /\ snapshot = None
    /\ backups = << >>
    /\ state = [t \in Tools |-> None]
    /\ records = Providers
    /\ keys = Providers
    /\ lock = None
    /\ req = [r \in Requests |-> Idle]
    /\ edits = 0
    /\ edited = {}
    /\ changed = FALSE

Goto(r, pc) == req' = [req EXCEPT ![r].pc = pc]

At(r, pc) == req[r].pc = pc

\* The call returns: whatever it answers, the lock is dropped with it.
Answer(r, verdict) ==
    /\ Goto(r, verdict)
    /\ lock' = IF lock = r THEN None ELSE lock

\* The first and the last of some tools, in the order they are planned and written.
First(tools) ==
    Order[CHOOSE i \in DOMAIN Order :
              Order[i] \in tools /\ \A j \in DOMAIN Order : Order[j] \in tools => i <= j]
Last(tools) ==
    Order[CHOOSE i \in DOMAIN Order :
              Order[i] \in tools /\ \A j \in DOMAIN Order : Order[j] \in tools => i >= j]

Named(partial) == {t \in Tools : partial[t] # Keep}
Only(plan, files) == [t \in Tools |-> IF plan[t] = Keep THEN Keep ELSE files[t]]

\* What planning reads: a file that is not there is an empty document.
Live(t) == IF disk[t] = Absent THEN [sel |-> Nobody, reg |-> {}, rest |-> Empty] ELSE disk[t]

\* Mutant of SelectedIn: a whole-file template instead of an edit in place.
TemplateIn(t, p) == [sel |-> p, reg |-> IF t \in Registry THEN {p} ELSE {}, rest |-> Empty]

\* Adapter::plan_switch: selection and registration replaced in place, everything else as read.
SelectedIn(t, p) ==
    [Live(t) EXCEPT !.sel = p, !.reg = IF t \in Registry THEN @ \cup {p} ELSE @]

WillNotStart(t) == t \in Strict /\ disk[t] # Absent /\ disk[t].rest = Fatal
-----------------------------------------------------------------------------
(* Before the lock. *)

\* `switch` refuses a profile of no tool and an unknown provider; remove_provider an unknown one.
Known(ask) ==
    /\ ask.op = "switch" =>
          /\ \E t \in Tools : ask.profile[t] # None
          /\ \A t \in Tools : ask.profile[t] \in records \cup {None}
    /\ ask.op = "remove" => ask.provider \in records

Covered(ask) ==
    IF ask.op = "switch" THEN {t \in Tools : ask.profile[t] # None} ELSE Tools

Called(a) ==
    [Idle EXCEPT !.ask = a, !.doc = records, !.todo = Covered(a),
                 !.pc = IF ~Known(a) THEN "refused"
                        ELSE IF a.op = "cycle" THEN "cycle"
                        ELSE IF a.op = "switch" THEN "check"
                        ELSE IF a.op = "remove" THEN "plan" ELSE "lock"]

Start(r) ==
    /\ At(r, "idle")
    /\ Overlapping \/ \A q \in Requests : req[q].pc \notin Busy
    /\ \E a \in Asks :
          /\ a.op = "backup" => a.id \in DOMAIN backups
          /\ req' = [req EXCEPT ![r] = Called(a)]
    /\ UNCHANGED <<disk, store, records, keys, lock, edits, edited, changed>>

Using == {t \in Tools : Live(t).sel # Nobody}

\* The row whose name is part of the main model of the first tool that uses any; 0 for none.
RowInEffect ==
    LET named == IF Using = {} THEN {}
                 ELSE {i \in DOMAIN Rows : <<i, Live(First(Using)).sel>> \in Readable} IN
    IF named = {} THEN 0 ELSE CHOOSE i \in named : \A j \in named : i <= j

\* Mutant of StepIndex: no step back from the first row.
StepIndexClamped(at, step) ==
    IF step = "next" THEN (at % Len(Rows)) + 1 ELSE IF at <= 1 THEN 1 ELSE at - 1

\* step_index: from nowhere forward starts at the top and backward at the bottom.
StepIndex(at, step) ==
    IF step = "next" THEN (at % Len(Rows)) + 1 ELSE IF at <= 1 THEN Len(Rows) ELSE at - 1

\* The shortcut and the tray: with two profiles or more, the switch to the row a step from the one in
\* effect, or from nowhere when effective_state is refused.
Cycle(r) ==
    /\ At(r, "cycle")
    /\ IF Len(Rows) < 2
       THEN Goto(r, "refused")
       ELSE \E at \in {RowInEffect} \cup IF "readback" \in Faults THEN {0} ELSE {} :
              LET next == Rows[StepIndex(at, req[r].ask.step)] IN
              req' = [req EXCEPT ![r] = Called([op |-> "switch", profile |-> next])]
    /\ UNCHANGED <<disk, store, records, keys, lock, edits, edited, changed>>

\* The helper is asked for the key of every provider of the profile, and may be refused the keychain.
CheckKeys(r) ==
    /\ At(r, "check")
    /\ LET found == \A t \in Tools : req[r].ask.profile[t] \in keys \cup {None} IN
       \/ found /\ Goto(r, "plan")
       \/ (~found \/ "keychain" \in Faults) /\ Goto(r, "refused")
    /\ UNCHANGED <<disk, store, records, keys, lock, edits, edited, changed>>

\* One tool planned from its file as it is now; a tool that will not start is left out.
PlanSwitch(r) ==
    /\ At(r, "plan") /\ req[r].ask.op = "switch"
    /\ LET t == First(req[r].todo) IN
       req' = [req EXCEPT
           ![r].plan[t] = IF WillNotStart(t) THEN Keep ELSE SelectedIn(t, req[r].ask.profile[t]),
           ![r].todo = @ \ {t},
           ![r].pc = IF req[r].todo = {t} THEN "lock" ELSE "plan"]
    /\ UNCHANGED <<disk, store, records, keys, lock, edits, edited, changed>>

\* Mutant of PlanRemoval: the guard is forgotten.
PlanRemovalUnguarded(r) ==
    /\ At(r, "plan") /\ req[r].ask.op = "remove"
    /\ LET t == First(req[r].todo)
           gone == req[r].ask.provider IN
       req' = [req EXCEPT
              ![r].plan[t] = IF t \in Registry THEN [Live(t) EXCEPT !.reg = @ \ {gone}] ELSE Keep,
              ![r].todo = @ \ {t},
              ![r].pc = IF req[r].todo = {t} THEN "lock" ELSE "plan"]
    /\ UNCHANGED <<disk, store, records, keys, lock, edits, edited, changed>>

\* Adapter::plan_removal: refused while the tool selects the provider; only a registry is edited.
PlanRemoval(r) ==
    /\ At(r, "plan") /\ req[r].ask.op = "remove"
    /\ LET t == First(req[r].todo)
           gone == req[r].ask.provider IN
       IF Live(t).sel = gone
       THEN Goto(r, "refused")
       ELSE req' = [req EXCEPT
              ![r].plan[t] = IF t \in Registry THEN [Live(t) EXCEPT !.reg = @ \ {gone}] ELSE Keep,
              ![r].todo = @ \ {t},
              ![r].pc = IF req[r].todo = {t} THEN "lock" ELSE "plan"]
    /\ UNCHANGED <<disk, store, records, keys, lock, edits, edited, changed>>
-----------------------------------------------------------------------------
(* The lock. *)

FirstLocked(ask) ==
    IF ask.op \in {"switch", "remove"} THEN "capture"
    ELSE IF ask.op = "accept" THEN "accept" ELSE "read"

\* Mutant of TakeLock: whoever asks gets it.
TakeLockAnyway(r) ==
    /\ At(r, "lock")
    /\ lock' = r
    /\ req' = [req EXCEPT ![r].tries = 0, ![r].pc = FirstLocked(req[r].ask)]
    /\ UNCHANGED <<disk, store, records, keys, edits, edited, changed>>

\* Lock::acquire returns, and its count of the attempts goes with it.
TakeLock(r) ==
    /\ At(r, "lock")
    /\ lock = None
    /\ lock' = r
    /\ req' = [req EXCEPT ![r].tries = 0, ![r].pc = FirstLocked(req[r].ask)]
    /\ UNCHANGED <<disk, store, records, keys, edits, edited, changed>>

\* Mutant of Contended: attempts without end.
ContendedForever(r) ==
    /\ At(r, "lock")
    /\ lock # None \/ "hiccup" \in Faults
    /\ req' = [req EXCEPT ![r].tries = (@ + 1) % Attempts]
    /\ UNCHANGED <<disk, store, records, keys, lock, edits, edited, changed>>

\* An attempt fails, because of a holder or of a passing EAGAIN; after the third the answer is "busy".
Contended(r) ==
    /\ At(r, "lock")
    /\ lock # None \/ "hiccup" \in Faults
    /\ req' = [req EXCEPT ![r].tries = @ + 1,
                          ![r].pc = IF req[r].tries + 1 = Attempts THEN "busy" ELSE @]
    /\ UNCHANGED <<disk, store, records, keys, lock, edits, edited, changed>>
-----------------------------------------------------------------------------
(* Under the lock: what is needed for the way back, then the change. *)

Stored(ask) == IF ask.op = "snapshot" THEN snapshot ELSE backups[ask.id]

\* `restore`: Store::restore_plan, "backup_unreadable" when there is no snapshot to go back to.
ReadStored(r) ==
    /\ At(r, "read")
    /\ IF Stored(req[r].ask) = None
       THEN Answer(r, "refused")
       ELSE /\ req' = [req EXCEPT ![r].plan = Stored(req[r].ask), ![r].pc = "capture"]
            /\ UNCHANGED lock
    /\ UNCHANGED <<disk, store, records, keys, edits, edited, changed>>

Capture(r) ==
    /\ At(r, "capture")
    /\ req' = [req EXCEPT ![r].captured = Only(req[r].plan, disk),
                          ![r].pc = IF req[r].ask.op = "switch" THEN "snapshot" ELSE "backup"]
    /\ UNCHANGED <<disk, store, records, keys, lock, edits, edited, changed>>

\* Mutant of TakeSnapshot: only the files this switch touches.
TakeSnapshotOfTouched(r) ==
    /\ At(r, "snapshot")
    /\ snapshot' = IF snapshot = None THEN req[r].captured ELSE snapshot
    /\ Goto(r, "backup")
    /\ UNCHANGED <<disk, backups, state, records, keys, lock, edits, edited, changed>>

\* Mutant of TakeSnapshot: taken anew at every switch.
TakeSnapshotAgain(r) ==
    /\ At(r, "snapshot")
    /\ snapshot' = disk
    /\ Goto(r, "backup")
    /\ UNCHANGED <<disk, backups, state, records, keys, lock, edits, edited, changed>>

\* Every managed file, not only the touched ones, and only when there is no snapshot yet.  The write of
\* its manifest may be refused after the rename, as that of a backup and of profiles.json may.
TakeSnapshot(r) ==
    /\ At(r, "snapshot")
    /\ snapshot' = IF snapshot = None THEN disk ELSE snapshot
    /\ \/ Goto(r, "backup") /\ UNCHANGED lock
       \/ "store" \in Faults /\ snapshot = None /\ Answer(r, "refused")
    /\ UNCHANGED <<disk, backups, state, records, keys, edits, edited, changed>>

TakeBackup(r) ==
    /\ At(r, "backup")
    /\ backups' = Append(backups, req[r].captured)
    /\ \/ /\ req' = [req EXCEPT ![r].backup = Len(backups) + 1, ![r].pc = "before"]
          /\ UNCHANGED lock
       \/ "store" \in Faults /\ Answer(r, "refused")
    /\ UNCHANGED <<disk, snapshot, state, records, keys, edits, edited, changed>>

\* Transaction::apply begins by reading the files again.
ReadBefore(r) ==
    /\ At(r, "before")
    /\ req' = [req EXCEPT ![r].before = Only(req[r].plan, disk),
                          ![r].todo = Named(req[r].plan), ![r].pc = "apply"]
    /\ UNCHANGED <<disk, store, records, keys, lock, edits, edited, changed>>

ApplyOne(r) ==
    /\ At(r, "apply") /\ req[r].todo # {}
    /\ LET t == First(req[r].todo) IN
       /\ disk' = [disk EXCEPT ![t] = req[r].plan[t]]
       /\ req' = [req EXCEPT ![r].todo = @ \ {t}, ![r].done = @ \cup {t}]
    /\ changed' = TRUE
    /\ UNCHANGED <<store, records, keys, lock, edits, edited>>

\* A file is refused: undo what is done, last first.  A write may be refused after its rename, and is
\* not among what is undone.
ApplyRefused(r) ==
    /\ At(r, "apply") /\ req[r].todo # {}
    /\ LET t == First(req[r].todo) IN
       \/ /\ "write" \in Faults
          /\ Goto(r, "undo")
          /\ UNCHANGED <<disk, changed>>
       \/ /\ "late" \in Faults /\ req[r].plan[t] # Absent
          /\ disk' = [disk EXCEPT ![t] = req[r].plan[t]]
          /\ req' = [req EXCEPT ![r].lost = {t}, ![r].pc = "undo"]
          /\ changed' = TRUE
    /\ UNCHANGED <<store, records, keys, lock, edits, edited>>

\* Mutant of UndoOne: what the plan wrote is left where the file did not exist.
UndoKeepsCreated(r) ==
    /\ At(r, "undo") /\ req[r].done # {}
    /\ LET t == Last(req[r].done) IN
       /\ disk' = [disk EXCEPT ![t] = IF req[r].before[t] = Absent THEN @ ELSE req[r].before[t]]
       /\ req' = [req EXCEPT ![r].done = @ \ {t}]
    /\ UNCHANGED <<store, records, keys, lock, edits, edited, changed>>

UndoOne(r) ==
    /\ At(r, "undo") /\ req[r].done # {}
    /\ LET t == Last(req[r].done) IN
       /\ disk' = [disk EXCEPT ![t] = req[r].before[t]]
       /\ req' = [req EXCEPT ![r].done = @ \ {t}]
    /\ UNCHANGED <<store, records, keys, lock, edits, edited, changed>>

\* An error of `undo` is passed over: the file is as planned, or put back by a write whose rename was
\* done, and the next one's turn comes.
UndoRefused(r) ==
    /\ "undo" \in Faults
    /\ At(r, "undo") /\ req[r].done # {}
    /\ LET t == Last(req[r].done) IN
       /\ \/ UNCHANGED disk
          \/ req[r].before[t] # Absent /\ disk' = [disk EXCEPT ![t] = req[r].before[t]]
       /\ req' = [req EXCEPT ![r].done = @ \ {t}, ![r].lost = @ \cup {t}]
    /\ UNCHANGED <<store, records, keys, lock, edits, edited, changed>>

RollBack(r) ==
    /\ At(r, "undo") /\ req[r].done = {}
    /\ Answer(r, "rolled_back")
    /\ UNCHANGED <<disk, store, records, keys, edits, edited, changed>>

Applied(r) ==
    /\ At(r, "apply") /\ req[r].todo = {}
    /\ Goto(r, IF req[r].ask.op = "remove" THEN "forget" ELSE "record")
    /\ UNCHANGED <<disk, store, records, keys, lock, edits, edited, changed>>
-----------------------------------------------------------------------------
(* After the change. *)

Fingerprints(ask) ==
    IF ask.op = "switch" THEN ask.profile
    ELSE IF ask.op = "snapshot" THEN [t \in Tools |-> None] ELSE state

\* Mutant of Record: going back to the snapshot leaves the fingerprints.
RecordSwitchOnly(r) ==
    /\ At(r, "record")
    /\ state' = IF req[r].ask.op = "switch" THEN req[r].ask.profile ELSE state
    /\ Goto(r, "readback")
    /\ UNCHANGED <<disk, snapshot, backups, records, keys, lock, edits, edited, changed>>

\* State::write, whose failure is ignored.  It replaces the whole file: a tool the profile does not
\* cover is owned no more, and one that was left out because it will not start is.
Record(r) ==
    /\ At(r, "record")
    /\ state' = Fingerprints(req[r].ask) \/ ("store" \in Faults /\ state' = state)
    /\ Goto(r, "readback")
    /\ UNCHANGED <<disk, snapshot, backups, records, keys, lock, edits, edited, changed>>

\* accept_drift: the record of an owned tool is taken anew from what is live, when anything is.  It
\* stays as it is when the files cannot be resolved or state.json not written, and no error is made
\* of either here.
AcceptDrift(r) ==
    /\ At(r, "accept")
    /\ LET t == req[r].ask.tool IN
       \/ state' = IF state[t] # None /\ Live(t).sel # Nobody
                   THEN [state EXCEPT ![t] = Live(t).sel] ELSE state
       \/ Faults \cap {"readback", "store"} # {} /\ state' = state
    /\ Goto(r, "readback")
    /\ UNCHANGED <<disk, snapshot, backups, records, keys, lock, edits, edited, changed>>

\* effective_state, which answers "unparsable" for the whole request when any tool's files are.
ReadBack(r) ==
    /\ At(r, "readback")
    /\ \/ Answer(r, "applied")
       \/ "readback" \in Faults /\ Answer(r, "refused")
    /\ UNCHANGED <<disk, store, records, keys, edits, edited, changed>>

Forget(r) ==
    /\ At(r, "forget")
    /\ \/ /\ keys' = keys \ {req[r].ask.provider}
          /\ Goto(r, "records")
          /\ UNCHANGED lock
       \/ /\ "keychain" \in Faults
          /\ Answer(r, "refused")
          /\ UNCHANGED keys
    /\ UNCHANGED <<disk, store, records, edits, edited, changed>>

\* profiles.json as it was read before the lock, less this provider.
WriteRecords(r) ==
    /\ At(r, "records")
    /\ \/ records' = req[r].doc \ {req[r].ask.provider} /\ Answer(r, "applied")
       \/ /\ "store" \in Faults
          /\ records' \in {records, req[r].doc \ {req[r].ask.provider}}
          /\ Answer(r, "refused")
    /\ UNCHANGED <<disk, store, keys, edits, edited, changed>>

\* A file that cannot be read or parsed, or a store that cannot be written, before anything is changed.
Refuse(r) ==
    /\ "store" \in Faults
    /\ req[r].pc \in {"plan", "lock", "read", "capture", "snapshot", "backup"}
    /\ Answer(r, "refused")
    /\ UNCHANGED <<disk, store, records, keys, edits, edited, changed>>

\* The process dies; its descriptor is closed and with it the lock.
Crash(r) ==
    /\ "crash" \in Faults
    /\ req[r].pc \in Busy
    /\ Answer(r, "dead")
    /\ UNCHANGED <<disk, store, records, keys, edits, edited, changed>>

\* The tool or the person: another value in the rest, another selection, or none.
Edit ==
    /\ edits < MaxEdits
    /\ EditAnyTime \/ \A r \in Requests : req[r].pc \notin Busy
    /\ \E t \in Tools :
          /\ disk[t] # Absent
          /\ \/ \E x \in Rest : disk' = [disk EXCEPT ![t].rest = x] /\ UNCHANGED edited
             \/ /\ \E s \in disk[t].reg \cup {Nobody} : disk' = [disk EXCEPT ![t].sel = s]
                /\ edited' = edited \cup {t}
          /\ disk' # disk
    /\ edits' = edits + 1
    /\ UNCHANGED <<store, records, keys, lock, req, changed>>

\* What a process does next of its own accord once it is called, and waits for nobody.
Progress(r) ==
    \/ Cycle(r) \/ PlanSwitch(r) \/ PlanRemoval(r) \/ TakeLock(r) \/ Contended(r)
    \/ ReadStored(r) \/ Capture(r) \/ TakeSnapshot(r) \/ TakeBackup(r) \/ ReadBefore(r)
    \/ ApplyOne(r) \/ UndoOne(r) \/ RollBack(r) \/ Applied(r)
    \/ Record(r) \/ AcceptDrift(r) \/ ReadBack(r) \/ WriteRecords(r)

Fault(r) == ApplyRefused(r) \/ UndoRefused(r) \/ Refuse(r) \/ Crash(r)

Next ==
    \/ \E r \in Requests : Start(r) \/ Progress(r) \/ CheckKeys(r) \/ Forget(r) \/ Fault(r)
    \/ Edit

Spec == Init /\ [][Next]_vars

\* Every process that was called goes on running, but while it waits for the helper: nothing else waits
\* for a person or for another process, the lock included, which is asked for and never waited for.
FairSpec == Spec /\ \A r \in Requests : WF_vars(Progress(r))
-----------------------------------------------------------------------------
(* PROPERTIES *)

\* README.md: tapkey "keeps a copy of everything as it was before the first change".  The snapshot is
\* taken before any file is changed, by whichever process, and is never taken again.
SnapshotIsFloor ==
    [][/\ changed' => snapshot' # None
       /\ snapshot' # snapshot => snapshot = None /\ ~changed]_<<snapshot, changed>>

\* lib.rs, "full restoration is its job": a restore of the snapshot that is answered "applied" leaves
\* every managed file as it was then, the ones no switch touched included, and tapkey owning nothing.
SnapshotReturnsAll ==
    [][\A r \in Requests :
          req[r].ask # None /\ req[r].pc # "applied" /\ req'[r].pc = "applied" =>
              (req[r].ask.op = "snapshot" =>
                    /\ disk = snapshot
                    /\ "store" \notin Faults => state = [t \in Tools |-> None])]_req

Changing == {"apply", "undo", "record", "forget", "records", "readback", "applied", "rolled_back"}

\* lib.rs, switch and restore: a change is backed up before it is made.  Whatever other processes do,
\* the backup a request took holds every file it changes exactly as the request found it, and so it
\* does when the process dies with some files written.
BackupHoldsBefore ==
    \A r \in Requests :
        (req[r].pc \in Changing \/ (req[r].pc = "dead" /\ req[r].done \cup req[r].lost # {}))
        /\ req[r].ask.op # "accept" =>
            /\ req[r].backup \in DOMAIN backups
            /\ backups[req[r].backup] = req[r].before

\* CONTRIBUTING.md, "A switch is all or nothing", across processes: when a request is answered
\* "applied" every file of its plan is as planned at that moment, and when it is answered "rolled
\* back" every one is as the request found it, but for those whose own write was refused after its
\* rename or whose undo was refused, which the answer does not tell of: they may be as planned.
AnsweredExactly ==
    [][\A r \in Requests : \A t \in Tools :
          /\ req[r].pc = "readback" /\ req'[r].pc = "applied" /\ req[r].plan[t] # Keep =>
                disk[t] = req[r].plan[t]
          /\ req[r].pc = "undo" /\ req'[r].pc = "rolled_back" /\ req[r].plan[t] # Keep =>
                disk[t] = req[r].before[t] \/ (t \in req[r].lost /\ disk[t] = req[r].plan[t])]_req

\* CONTRIBUTING.md, "It changes only the keys it owns.  Every managed file is read live": a write of a
\* switch or of a removal leaves the rest of the file, and every other provider's registration, as
\* they are at that moment.
OnlyOwnedKeys ==
    [][\A r \in Requests :
          req[r].pc = "apply" /\ req'[r].done # req[r].done =>
              LET t == First(req[r].todo)
                  ask == req[r].ask
                  mine == IF ask.op = "switch" THEN {ask.profile[t]}
                          ELSE IF ask.op = "remove" THEN {ask.provider} ELSE Providers IN
              mine # Providers =>
                  /\ disk'[t].rest = Live(t).rest
                  /\ disk'[t].reg \ mine = Live(t).reg \ mine]_<<disk, req>>

\* lib.rs, remove_provider: refused while a tool selects the provider, "because the alternative is
\* the broken tool".  No tool is left selecting a provider whose record or key tapkey has removed.
NoBrokenTool ==
    (\A r \in Requests : req[r].pc \notin Busy) =>
        \A t \in Tools :
            disk[t] # Absent /\ disk[t].sel # Nobody =>
                /\ disk[t].sel \in records \cap keys
                /\ t \in Registry => disk[t].sel \in disk[t].reg

Drifted(t) == state[t] # None /\ (disk[t] = Absent \/ disk[t].sel # state[t])

\* What may make a tool's file differ from the record though nobody edited it: it was not put back when
\* the call was rolled back, the call died with it written, it was put back from a backup (the record
\* stays as it is then), or the profile covers a tool that will not start (which is recorded, and its
\* file left alone).
Mislaid(r, t) ==
    \/ t \in req[r].lost
    \/ t \in req[r].done /\ (req[r].pc = "dead" \/ req[r].ask.op = "backup")
    \/ /\ req[r].backup # 0 /\ req[r].ask.op = "switch" /\ req[r].pc # "rolled_back"
       /\ req[r].ask.profile[t] # None /\ req[r].plan[t] = Keep

\* fingerprint.rs: drift asks "is this slot still what we put there".  Between requests nothing drifts
\* but a tool whose selection somebody else edited or whose record a call left behind in one of these
\* four ways.
NoFalseDrift ==
    (\A r \in Requests : req[r].pc \notin Busy) =>
        \A t \in Tools : Drifted(t) => t \in edited \/ \E r \in Requests : Mislaid(r, t)

\* Row i is what all tools use, and its name can be read there and no other row's can.
InEffect(i) ==
    \A t \in Tools :
        /\ Rows[i][t] # None /\ Live(t).sel = Rows[i][t]
        /\ {j \in DOMAIN Rows : <<j, Live(t).sel>> \in Readable} = {i}

\* app lib.rs: "The shortcut cycles forward", the tray's click cycles back, "the onboarding promise" that
\* it "returns to the previous profile".  From a profile that all tools use and whose name can be
\* read there, a step leads to its neighbour in the list, around its ends, whatever was done before.
CycleSteps ==
    [][\A r \in Requests : \A i \in DOMAIN Rows :
          req[r].pc = "cycle" /\ req'[r].pc = "check" /\ InEffect(i) =>
              LET to == CHOOSE j \in DOMAIN Rows : req'[r].ask.profile = Rows[j] IN
              IF req[r].ask.step = "next"
              THEN to = i + 1 \/ (to = 1 /\ i = Len(Rows))
              ELSE i = to + 1 \/ (i = 1 /\ to = Len(Rows))]_req

\* The files as another call would find them: what the holder of the lock has written counts when all
\* of it is, and not while it may still be undone.
Seen ==
    IF lock # None /\ req[lock].pc \in {"apply", "undo"}
    THEN [t \in Tools |-> IF t \in req[lock].done \cup req[lock].lost
                          THEN req[lock].before[t] ELSE disk[t]]
    ELSE disk

\* The calls that died or could not put back every file.
Mishaps == {r \in Requests : req[r].pc = "dead" \/ (req[r].pc = "rolled_back" /\ req[r].lost # {})}

OneAfterAnother == INSTANCE Calls WITH files <- Seen, owned <- state, mishaps <- Mishaps

\* lib.rs, one call after another: each request does to the files and to what tapkey remembers what Calls
\* says of it, all of it at one moment or nothing.  A call that dies, or whose rollback is refused a
\* file, is a mishap, and may leave some files old and some new, once.
DoesAsAsked == OneAfterAnother!Spec

\* A call that does not wait for the helper for ever comes to an answer, however many processes want the
\* lock: nobody queues (lock.rs, "a second caller is refused rather than queued"), not even for a
\* holder that waits for ever, and nothing is left locked by a dead process.
Answered ==
    \A r \in Requests :
        []<>(req[r].pc \notin Waiting) => (req[r].pc \in Busy ~> req[r].pc \in Ended)
=============================================================================
