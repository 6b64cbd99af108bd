# tapkey: a verification project

tapkey is a macOS menu bar program that switches three coding tools (Claude Code, Codex,
OpenCode) between model providers by editing the tools' own configuration files. The tools and the
person write the same files; tapkey promises to change only what it owns, all of it or none of it,
to keep a way back, to report what a tool will really use, and to keep keys in the keychain. This
directory holds TLA+ modules translated from the Rust core (`core/src`), TLC runs that check them on
small instances, and TLAPS proofs of most of what the runs check for every size of instance.

Paths below are relative to the repository; `lib.rs`, `store.rs` and so on are in `core/src`, the
adapters in `core/src/adapters`.

## 1. The system

One call of `handle` (lib.rs) is one request, read from a line of JSON and answered with one. The
menu bar app calls it in-process, the `tapkey` binary once per process. There is no daemon: what
runs concurrently is *processes* (and the app's own calls), over one store directory
(`profiles.json`, `state.json`, `snapshot/`, `backups/`, `lock`), the keychain behind a helper
binary, and the tools' files.

| part | state | operations | correct when |
|---|---|---|---|
| Transaction (`transaction.rs`, `fs.rs`) | the files a change writes, what they held before | capture, before, apply, undo | every file old or new; the answer says which, but for a file refused after its rename or refused to undo; the count of restored files is honest |
| Atomic replacement (`atomic.rs`) | a directory entry, a temporary file, what is on the medium | write_atomically | no reader sees a partial file; an answered write survives a power loss where flushing a directory reaches the medium; nothing is left behind |
| Backup store (`store.rs`) | `snapshot/`, `backups/<instant>/` with copies and a manifest | take_snapshot, take_backup, backups (which sweeps), restore_plan, sweep | a committed backup is whole and stays; a change applied has one; the snapshot is of the state before the first change |
| Advisory lock (`lock.rs`) | who holds it | acquire in three attempts, drop | never two writers; a dead holder frees it; nobody queues |
| Requests that change tools (`lib.rs` switch, restore, remove_provider, accept_drift) | the above, `state.json`, `profiles.json` | one each | no tool left broken, only owned keys changed, every call answered |
| Fingerprints (`fingerprint.rs`) | a hash per owned slot | read, write, drifted | drift is reported exactly when somebody else changed a slot |
| Profiles and providers (`profile.rs`, `lib.rs`) | `profiles.json` | fourteen operations on it, two with network exchanges | no update lost; references and names kept; no panic |
| Credentials and harvest (`credentials.rs`, `lib.rs`) | which providers have a key; declined candidates | store, forget, check, read_inline, accept, decline | no key without its owner; the key taken is the one that was offered |
| Key helper (`helper.rs`, `bin/tapkey-helper.rs`) | one key per provider, in the keychain or in files | get, has, set, forget: a process each, answering by exit code | what it says of a key was true while it ran; it always answers |
| Adapters (`adapters/*`) | none of their own: layered files, shell exports | effective_state, plan_switch, plan_removal, fingerprint, known_providers | what the profile says is what the tool will use; unassigned slots are handed back |
| Document editors (`json.rs`, `toml.rs`) | a document's bytes, and for TOML its envelope: mark, line ends, last line | set, remove, push | only the named keys change; comments and envelope stay |
| Probe (`probe.rs`) | none: a control and three requests | run | a verdict is evidence or there is none |
| Instants (`instant.rs`) | none | format_utc | the right date; names sort as moments do |
| Environment (`env.rs`), wire (`wire.rs`) | none | reads and conversions | |
| App (`app/src-tauri`, `app/dist`) | the helper in the store's `bin/`; window, tray, pages | refresh_helper, cycle, the pages' calls | the helper is whole and current; a cycle goes to the neighbour |

How they interact: `switch` reads `profiles.json` and asks the helper for the key's *presence*,
lets every adapter plan against the files as they are, and only then takes the lock; under it, it
captures every managed file, takes the snapshot if there is none, takes a backup, applies the
transaction, writes the fingerprints and reads everything back. `restore` takes the lock first and
plans from the store. `remove_provider` runs the adapters' guards and plans before the lock.
`accept_drift` only touches `state.json`. Everything that writes `profiles.json` goes through
`write_store` or takes the lock itself, except that some read it (or change the keychain) first.
`test` and `discover` talk to the provider's host in between. The keychain is only touched by the
helper, a program the core starts per question and the app replaces, at each launch, by the one in its
bundle; so a call may meet a helper that is being replaced, and two launches may meet each other. The
app's shortcut and tray `cycle`: they ask for the profiles and for the state in effect, pick a row and
make it a `switch`.

What is hard here: calls of several processes that interleave around a lock taken part way; files
read before it and written after; a process or the machine dying between any two writes; refusals in
the middle of several writes, while undoing too; a clock that is not monotonic and names things; and
three tools whose rules about which of several places wins have nothing in common. `PROJECT.json`
lists each such hazard at its line.

## 2. The modules

```
AllOrNothing  <==implements==  Transaction     (one change of Tapkey)
                                   |  (one file of it)
OneFile       <==implements==  AtomicWrite
Instants  <-  Backups          (one backup of Tapkey)
Calls         <==implements==  Tapkey          (as long as calls do not overlap)
Tapkey        composes lock, snapshot, backups, transaction, fingerprints, keychain, records, cycle
Profiles      profiles.json, lock, keychain, probe and catalogue
Helper        (one call to the keychain of Tapkey and Profiles)
Chain  <-  ClaudeCode, Codex, OpenCode  <-  Adapters
Toml  <-  Editor               (one edit of a file in Adapters)
```

Each `MC*` module extends one of these and gives TLC its finite inputs. `TransactionProofs`,
`AtomicWriteProofs`, `InstantsProofs`, `BackupsProofs` (over InstantsProofs), `TapkeyProofs`,
`HelperProofs`, `ProfilesProofs` and `AdaptersProofs` extend the module they are named for and hold its
theorems.

**Transaction** (transaction.rs, fs.rs). `plan` is the list of actions, `before` what `before()` read,
`done` the index reached; `Begin`, `ReadBefore`/`ReadRefused`, `Act`, `Refused`, `Undo`/`UndoRefused`,
`Report`, `Finish` and `Crash` are the loop of `apply`, its early return and the loop of `undo`. An action
may be refused before it touches its file or *after* (the directory flush at atomic.rs:77 comes after the
rename); undo then covers `before[..index]` only, as the code does. `Put`/`PutBack` carry the mode as well
as the content, a mode being the set of its bits: an existing file is asked for with its own mode, a
recreated one with the recorded one, and what it gets is that less the umask, since the temporary file is
created anew (atomic.rs:51, 173-182). The history variable `lost` names the files a fault changed or left
changed.

**AllOrNothing** is the abstract promise: a request is answered with the goal reached, with nothing
changed, or (`Tear`) with every file old or new. The refinement maps what a caller can see: files as
they were until the answer. `torn` is allowed by the mapping only when `lost` is not empty, so it
cannot hide an ordinary failure.

**AtomicWrite** (atomic.rs). Several writers of one name. An inode's bytes and the directory's entry
each have a *set* of values the medium may hold; `FlushToMedium` and `FlushDirectory` narrow them,
`PowerLoss` picks one. The file is flushed by `F_FULLFSYNC` on Darwin (atomic.rs:199-217), the directory
by a plain fsync everywhere (atomic.rs:219-224), which on Darwin "only reaches the drive's cache"
(atomic.rs:200-201): `reach` says which kind of system this is, and where it is `"cache"`
`FlushDirectory` narrows nothing. (The repository's word is taken; a standard library whose `sync_all`
does more makes `reach` be `"medium"`; on Windows, a directory that cannot be opened counts as flushed.) Every step may fail (`Fail`, then `Cleanup`), and the process may die.

**OneFile** is what the callers of `write_atomically` are promised, without temporary files, renames and
flushes: a call replaces all the file holds at one moment or fails, before that moment or after it; when
it reports success, what the file holds is what a power loss leaves, on a system where a flushed
directory lasts (`reach`). A power loss otherwise leaves anything that was put there since, and no file where the directory had just been made. The mapping
(`Holds`, `OnMedium`, `Stage`) says what a reader gets, so that a partial file would be seen as `"torn"`,
which OneFile has no step to.

**Backups** (store.rs with the part of `switch` around it). Directories appear at `MakeDir`, fill copy
by copy, and are committed by `WriteManifest`. Instants are read on `Arrive`, before the lock, as
`Env::real` does, and named by **Instants**, where a name is its fields from the year to the
millisecond; `FreeName` adds the suffix the code adds. A listing reads the directory, looks at
each entry and removes the ones without a manifest, step by step and without the lock, at any moment
beside the changes. The history `met` holds the requests whose directory a listing found without its
manifest while they were writing it (or while it was about to be made under a name that a listing was
removing): what becomes of those is the code's to lose, and every property says what holds of the rest.
`over` is what had ended when a listing began.

**Tapkey** (lib.rs). One process per request, one action per step of the call, in the code's order; a file
is what it selects, what is registered in it and the rest. One write of a file is one action here because
AtomicWrite is proved to be one (`WriteIsOneStep`); one backup is one action because Backups shows a
committed one is whole (but for one a listing meets while it is written, which Tapkey, having no listings,
leaves to Backups). Reading `profiles.json` is part of `Start`; asking the helper for the keys is a
step of its own (`CheckKeys`), because it is where a call may wait for a person. A write is refused before
its rename or after it (`ApplyRefused`), and so may its undoing be (`UndoRefused`), as in Transaction:
`lost` of a request holds the files the answer does not speak of. `edited` is the history of which
selections others have edited. A profile gives each tool a provider or says nothing of it; slots are the
matter of Adapters. `Cycle` is a request of the app's: it becomes the switch that `StepIndex` picks, from
the row whose name can be read in the first tool's main model (`RowInEffect`; which names can is the
constant `Readable`).

**Calls** is what the requests of Tapkey do when they come one after another, with nothing said of plans,
locks, writes one file at a time and undoing: the files become one of `Targets`, reckoned from what they
hold at that moment (`Change`), after a backup of all that is changed and for a switch the snapshot;
where the process dies, or a file is refused to the rollback, each file is as it was or as it was to
become (`Tear`), once for that call (`mishaps`). What is remembered agrees
with the files at that moment: tapkey comes to own only what selects its providers (`Own`), nothing when
all is as it was first (`Disown`), and a key or a record goes only when no tool selects or registers its
provider (`ForgetKey`, `DropRecord`). The mapping (`Seen`) shows the files without what a change has
written so far, until it is all there.

**Profiles** (lib.rs, profile.rs, credentials.rs, probe.rs). `ReadFirst`, `Probe`, `AskCatalogue` and
`StoreKey` are what an operation does before the lock; one operator per operation gives the new file
from the old. A probe asks the control and then one format per step (`AskControl`, `AskFormat`), and
the network may fail before each (`NoAnswer`); a host serves some formats or answers everything, and
has its catalogue behind some of the two doors `discover` tries. `Spoil` is a person breaking the file,
which `write_store` takes as empty.

**Helper** (helper.rs, tapkey-helper.rs, credentials.rs, env.rs, the app's `refresh_helper_from`). A
launch is six steps between which it may die or be refused, on a `bin/` whose names lead to files: a
file being written keeps being written when its name moves, which is what two launches do to each
other. A call is its parent's side (`Spawn`, the standard input it leaves, what it makes of the exit
code) and the helper's own (read standard input to the end, then look, store, look and remove), over
the keychain or over files. `seen` is the history of what was there while a call ran.

**Chain, ClaudeCode, Codex, OpenCode, Adapters** (adapters/*). A tool's configuration is a function from
layer to key to value. The tool reads all of them; tapkey reads those it was given (`View`): the shipped
program has neither a project nor the login shell's exports (env.rs:117, 119; `with_project` and
`with_shell` are called by tests only), so `given` is empty there, and the run has the fuller cases too.
Plans and readings go by `View`, what the tool uses by the files. A chain is the sequence of cells a slot
consults and the first with a value wins. The three tool modules hold each tool's rules as operators
(slots, chains, `Planned`, `Fingerprint`, `Refuses`, `Removed`); Adapters is the trait over them and the
calls that use it. The history variable `theirs` holds the cells whose value is somebody else's. Claude
Code's three upper files are one layer; unobservable places (command line, `/model`, the console) never
win in the code and are left out; two of OpenCode's three user files are kept, which is what the rule "the
first that exists" needs. A provider's base URL is the provider. `Known` is what a tool's files offer to
harvest and `ReadInline` the key an accept reads again: in OpenCode the person may have an entry of the
same id, with and without a URL and a key, in each of the user's files and the install's. Registry entries
of tapkey's own are offered like any other, as the code does.

**Editor** (json.rs). A document is a sequence of tokens; `Value`, `Object`, `Array` and `Root` read it
as the parser does, with its two tolerances, into nodes with ranges; `Put`/`Insert`, `Excise`, `Push`
and `Unpush` compute the range to cut and what to put there, and `Splice` reads the result again and
refuses it when it cannot. `Says`, `Having` and `Lacking` are the other side: a document as an ordered
tree, and what an edit is meant to make of it. White space, the style an insertion copies from its
neighbours, and what is inside a string or a scalar are left out; a comment is a block comment, so that
no newline matters. It has recursive operators and no theorems.

**Toml** (toml.rs) gives Editor its third format. A body is a sequence of lines (headers, pairs,
comments, and what stands beside them); the edits are what toml.rs asks of toml_edit and what
toml_edit, an external library, does: comments above an item go with it, a new key goes last in its
table, a new table behind the one before it in the tree. `Strip`, `Restore` and `Preserved` are the
envelope and the round trip before any edit; `Reopen` writes a file and reads it again. Inline tables
are values, as toml_edit has them; dotted keys and arrays of tables are left out.

## 3. The runs

| run | instance | checks |
|---|---|---|
| MCTransaction | three files, two contents, three modes of which the umask takes a bit, every plan of up to three actions, all faults | `OldOrNew`, `RestoredIsHonest`, `ImplementsContract` |
| MCAtomicWrite | three writers; target and directory there or not; a directory flush that reaches the medium or not; all faults | `NeverPartial`, `SuccessIsDurable`, `NoDebris`, `OneStep` |
| MCBackups | three overlapping changes, one listing at any moment, two instants across 29 February, clock may go back, all faults | `CommittedIsComplete`, `AppliedIsUndoable`, `UndoNamesMine`, `CommittedIsKept`, `ListingSweepsTorn`; the calendar to 2100 as an assumption |
| MCTapkeyOverlap | three overlapping requests among two switches, restore of the snapshot and of a backup; two tools; writes refused early and late, refused undos, a lock that fails in passing, deaths | `BackupHoldsBefore`, `SnapshotIsFloor`, `SnapshotReturnsAll`, `AnsweredExactly` |
| MCTapkeyOneByOne | three requests one after another among cycles either way over three profiles and the switches they become, a removal, snapshot, a backup, an accept; one outside edit between them; writes refused early and late, refused undos and keychain, deaths | `NoBrokenTool`, `NoFalseDrift`, `OnlyOwnedKeys`, `CycleSteps`, `DoesAsAsked` |
| MCTapkeyAnswered | two overlapping requests of any kind, nearly everything may fail | `Answered` (liveness) |
| MCProfilesLocked | three overlapping requests of every operation that reads under the lock; file good, small or unreadable | `NoLostUpdate` |
| MCProfilesKeys | four requests one after another; three hosts; keychain and network refuse | `NoOrphanKey`, `FormatsAreEvidence` |
| MCAdapters | each tool, two providers, two models, three profiles, three edits by others, any shell exports of four variables; tapkey given nothing, the project, or both | `SwitchHolds`, `UnassignedIsCleared`, `NoFalseDrift`, `NoBrokenTool`, `OffersKeepTheirKey`, `AcceptSettles` |
| MCEditor | thirteen JSON files, the JSONC ones with comments in any one or two places, and eight TOML files in every envelope; any sequence of the adapters' edits | `EditsAreExact`, `CommentsSurvive`, `RefusedForShape`, `LeavesNoTrail`, `EnvelopeKept` |
| MCHelper | three launches and two calls, three of them in one behaviour; two versions; either kind of store; all faults | `HelperIsWhole`, `HonestAnswers`, `LaunchRepairs`, `Returns` (liveness) |
| MCProfilesDiscover | a removal during discovery | `NeverPanics` is violated |

Which of these are proved as well, and of which instances, section 4 says.

Why these bounds. In a transaction what matters is an action before, at and after the one that
fails: three. Two writers race for a name and a third can replace the winner while the loser cleans
up. Three changes give a torn backup between two whole ones, two names in one millisecond, and a name
that sorts before an older one; each of them meets the one listing wherever it may (the theorems have any
number of listings); with two instants the clock can stand still, advance and go back.
Requests only meet through the lock, the files and the store, and each hazard found needs two at a
time; a third is there to see what two left behind. So it is with launches of the helper and
calls of it, where a third finds an old staging file or nobody's helper; two versions are an older and
a newer app, and one key is enough to be there or not. The two instants are the last millisecond of a
leap February and the first of March, where a calendar goes wrong first; every day to 2100 is
compared with the calendar beside it. Three profiles have a first, a last and one in between, and one
whose name is no part of a model. Two formats can be answered half. TOML's comments stand where
toml_edit decides whose they are: above a key, above and beside a header, at the end of a table and of
the file. In a
document a comment can be lost, moved or doubled wherever it stands, so it stands everywhere; two show
an order. Two tools are one with and one without a
registry, the two kinds `Tapkey` distinguishes. Three edits reach, for example, a key set above
tapkey's, accepted, and taken away again. Deadlock checking is off where processes make one call
each and then stop; in MCBackups the clock, in MCAdapters the calls, always have a step.

Symmetry is used for the identities of requests and writers only, and in no run with a liveness
property.

Fairness. `Answered` assumes weak fairness of one process's `Progress`: a called process keeps running.
`Progress` is every step but two, `CheckKeys` and `Forget`, where the call waits for the helper and
with it possibly for a person: at the keychain's access dialog (env.rs:22-23, 103) and, at a terminal,
for the end of a standard input the helper inherits (env.rs:255). These get no fairness, and
`Answered` speaks of a call only if it does not stay in one of them for ever (`Waiting`). What
remains is what the code can be held to: no other step waits for anybody. The lock is tried three times
with a pause and then given up (lock.rs:35-47), so a held lock is a "busy" answer and never a wait,
even when its holder waits for the helper for ever (a removal that forgets a key does so under the
lock); so the calls beside one that waits are answered all the same. `Returns` assumes weak fairness of
`Progress` of one call of the helper: its parent starts it and waits (credentials.rs:74, env.rs:260), and
the helper waits for its standard input, which the parent closes or which is nothing at all, except in
`has`. There the input is the caller's own, and ending it (`EndStdin`) is up to the person and gets no
fairness; `Returns` says nothing of a `has` whose input is open. It takes an access to the keychain to
return: where the platform asks the person first, that is as long as the person takes, and `Returns` is
of a dialog that is answered. Refusals, deaths, edits and new calls get no fairness.

## 4. What is proved

Each theorem is for every value of the module's constants that its `ASSUME` allows (any sets of paths,
tools, providers, requests and so on, of any size) and for every subset of the faults, under the
hypotheses named with it and no other. Where a hypothesis cuts something off, the run has the same
cut, and section 5 says what happens beyond it.

**TransactionProofs**: `TypeCorrect`; `InvariantHolds`, the inductive invariant `IInv`;
`EveryFileOldOrNew` (`OldOrNew`); `CountIsHonest` (`RestoredIsHonest`); and `ApplyIsAllOrNothing`,
`Spec => ImplementsContract`: every step of `apply` and `undo` is a step of AllOrNothing or a stutter.
`OldOrNew` alone is not inductive: whether putting back `before[done]` restores a file depends on
what `before` holds and on what else was written since. `Reading` says that `before` is the reading
of the files as they were, and that nothing is lost before the first failure; `Prefix` says that as
long as nothing is lost the disk is exactly the first `done` actions applied to the start, so that
undoing action `done` gives the first `done - 1`. The lemmas about `After` (one action more, one
less, no action, all old or new) rest on paths being distinct in a plan, the assumption
`TransactionAssumption` draws from `switch`: one file per tool.

**AtomicWriteProofs**: `TypeCorrect`, `ReaderSeesWhole` (`NeverPartial`), `ReportedStays`
(`SuccessIsDurable`), `NothingLeftBehind` (`NoDebris`) and `WriteIsOneStep`, `Spec => OneStep`: every step
of `write_atomically`, of a death and of a power loss is a step of OneFile or a stutter, for any number of
writers. The invariant is
the order of write_then_rename: bytes are whole before they are flushed and flushed before the name
changes (`FlushedFirst`), so that every inode the name leads to, or may lead to after a power loss, is
whole on the medium (`Whole`); and whoever is about to flush the directory took the name since the last
power loss (`InOrder`), which is what makes an answer durable (`Kept`) where a flushed directory reaches
the medium: `ReportedStays`, and the success of OneFile, promise nothing after a power loss elsewhere.
The refinement adds that there is
nothing, now or after a power loss, where the directory has yet to be made (`NoDirectory`): `MakeDirectory`
of OneFile may lose only what was put there afterwards.

**InstantsProofs**: `DatesAreRight`, `DatesSort` (a later day has a later date) and `NamesSort` (an
earlier moment has a name that sorts strictly before), for every moment from 1970 on. `DatesAreRight` says
that day 0 is 1970-01-01 and that the date of each day is the one after the date of the day before
(`NextDate`), on a calendar of twelve months with leap years, centuries and four centuries: with it,
`civil_from_days` is right of every day, which MCBackups compares to 2100 only. The function divides by
lengths that are not the lengths of its years and months. `MonthTable` shows that the months so found are
as long as they should be, `YearExact` that a year so found begins on its own first day (`FirstDay`) and
`YearLength` that it ends before the next one's, in any era; `NextInYear` and `NextOfYear` put them
together on either side of a year's end.

**BackupsProofs**, for any requests, copies and clock and any number of listings at any moment, with no
hypothesis: `ManifestIsLast` (`CommittedIsComplete`), `EveryChangeIsUndoable` (`AppliedIsUndoable`),
`BackupsAreKept` (`CommittedIsKept`), `ListingsSweep` (`ListingSweepsTorn`), `UndoIsMine`
(`UndoNamesMine`). The invariant follows one directory: the name is free when it is made (`Free`), its
maker fills it up to the manifest and nobody else writes it (`Filling`, `Recorded`, from `Locked`). A
listing and a change meet only in a directory that has no manifest yet: whose directory is being removed
while it writes there has been met (`Marked`), so that what a listing removes has no manifest, or that of
a request that was met (`Removable`), and what it leaves without one is of somebody who was under way
(`Sweeping`). So the exception in the properties, `met`, is all that a listing without the lock costs.
`UndoIsMine` needs `NamesSort`: the newest *name* is the latest instant's because names sort as moments
do.

**TapkeyProofs**, for any tools, profiles and number of requests:

| theorem | property | hypotheses |
|---|---|---|
| `TypeCorrect`, `OneHolder` | (the ground of the others; nobody but the lock's holder is past the lock) | none |
| `BackedUp` | `BackupHoldsBefore` | files not edited during a call |
| `AnswersAreTrue` | `AnsweredExactly`, which excepts a file whose write was refused late or whose undo was refused | files not edited during a call |
| `SnapshotComesFirst` | `SnapshotIsFloor` | no removal asked for |
| `AllIsReturned` | `SnapshotReturnsAll` | files not edited during a call |
| `OthersKeysStay` | `OnlyOwnedKeys` | files not edited during a call, calls do not overlap |
| `CycleIsRound` | `CycleSteps` | the files can be read back; no profile listed twice |
| `NoToolIsBroken` | `NoBrokenTool` | one call after another, no edit during one, no older backup restored; the files found name none of tapkey's providers |
| `NothingDriftsByItself` | `NoFalseDrift`, which names four ways a call leaves a record wrong (`Mislaid`) | one call after another, no edit during one; `state.json` can be written |
| `CallsDoAsAsked` | `DoesAsAsked`, where a call that dies or cannot undo may tear once | one call after another, no edit during one |

`~EditAnyTime` (`Calm`) is what the code cannot defend against: between its plan and its write an editor's
save is written over (lib.rs:402). Removals take no snapshot (lib.rs:1175), a restored backup may select a
provider that has gone since, an overlapping switch can pass a removal's guard (lib.rs:1161): each is a
line of section 5. What is not cut is what a write or an undo may be refused: every theorem has refusals
before and after the rename and while undoing. The runs make the same cuts or wider ones, but that
MCTapkeyOneByOne restores a backup too: three calls are too few for that to select a provider removed
since. The invariants: `Alone` (whoever is past the lock holds it) makes everything a holder has read stay
true of the disk while it holds; with it `Work` says what that is at each step of a change (what it
captured, what the backup has, which files are done and which are still as found), which no property says
by itself; `Floor` and `Return` follow the snapshot; `Preserve` says of a plan that it carries over all
that is not tapkey's; `Care` says of every file a process may still write, including the snapshot, that it
selects nobody whose record or key is gone; `Explained` says that files and records agree, or an edit or a
call that is through with the file accounts for it (`Excused`), and in the middle of a change that they
will if it is undone. `CallsDoAsAsked` is the widest of them: a request is asked anything, restores of
older backups included, any step may be refused, undoing included, and any process may die, over any files
found. `Meant` is its invariant: as far as it has come, a plan makes of each file what was asked of it
(`Planned`) or is what was stored (`FromStore`), the way back is kept and is the last backup (`Kept`), the
providers are still known (`Entitled`), what is done is as planned (`Written`), and after the change the
files are such that what comes to be remembered is so (`Left`). `IsTarget` then shows that what a change
is about to make of the files is among the `Targets` of what is seen of them, from which `Applied`
(`ChangedAtOnce`), a death and a rollback that could not put back every file (`Torn`, `WhenMishaps`) and
the steps that remember (`Remembered`) map to steps of Calls; all others are not seen (`Unseen`).

**HelperProofs**, for any number of launches and calls, versions, keys and files: `HelperStaysWhole`
(`HelperIsWhole`), `LaunchesRepair` (`LaunchRepairs`) and `AnswersAreHonest` (`HonestAnswers`), with no
hypothesis. The properties themselves speak of launches that do not meet; the invariant `Staged` says of
such a launch which file is under the staging name and what is in it, `Whole` that a helper that is gone
is gone because some launch stands, or fell, between its renames, and `Seeing` that what a call has seen
includes what is there now.

**ProfilesProofs**, for any number of requests, ids, names, formats and hosts: `EvidenceOnly`
(`FormatsAreEvidence`; what the file recorded at first must be so as well), whatever overlaps and
whatever fails, from `Probed`, what a probe has heard so far is exactly what the host serves of the
formats it has asked; `NothingIsUndone` (`NoLostUpdate`) of the operations that read the file under the
lock, i.e. all but `test` and `remove_provider`, from `Prepared`, what is about to be written is the file
as it now is but for what was asked; and `EveryKeyHasAnOwner` (`NoOrphanKey`), one call after another in a store
that can be written and without `set_credential`, which stores a key under any id it is given, from
`Homes`, which says which keys may wait for a record at each step of each operation.

**AdaptersProofs**, for each of the three tools, any providers, models, profiles, exports, edits and
number of calls, and whatever of the project and the shell tapkey is given:

| theorem | property | hypotheses |
|---|---|---|
| `SwitchHoldsAlways` | `SwitchHolds` | none |
| `NeverFalseDrift` | `NoFalseDrift` | none |
| `AcceptingSettles` | `AcceptSettles` | none |
| `OffersKeep` | `OffersKeepTheirKey` | none |
| `UnassignedStaysCleared` | `UnassignedIsCleared` | the login shell goes on exporting what it did (`ShellStays`) |
| `RemovedIsNotSelected` | `NoBrokenTool` | OpenCode's profiles have their main model at their own provider (`MainsAreOwn`); none of the person's files of OpenCode's disappears (`FilesStay`) |

Five lemmas about chains are the ground: `FirstIs`, `WinsIs` and `EffectiveIs` say that the first cell
with a value wins, `DisputedIs` that somebody else decides when a cell of theirs has only silence before
it, `HeldReads` that a chain reads as v, or somebody else decides, if one of its cells has v or is theirs
and all above it are silent or theirs. That last form is what `HeldSlots` and `HeldEndpoint` say of the
profile last written: unlike what a chain reads as, it survives an edit of any cell. `Foreign` says that a
cell tapkey does not write is empty or somebody else's, so that all above tapkey's own is; a cell that
holds what tapkey wrote is never one it may not see (`Held`), so that what it holds for the tool it holds
in `View` as well (`HeldSeen`), which is what drift is asked of; lemmas go
through each tool's `Planned` and `Removed` key by key. `ClearedSlots` is the same for slots assigned
nothing; `Accounted` says that what is recorded of a slot is what the profile wants, or somebody
decided, which an accept must keep as well as a switch; `Unselected` follows the cell that selects.
Why the hypotheses: a variable is emptied only where tapkey knows, at the switch, that the shell exports
it (claude.rs:376-387), so an export that comes later shows through. (Where tapkey is given no exports, as
in the shipped program, any of them does: the property then says that what tapkey wrote is gone, and no
more.) A provider only a slot names is not
looked up (lib.rs:347), so a switch could select one that was removed; and when `opencode.jsonc` goes
away, the file below it counts again, with what was left in it. The profiles and edits of MCAdapters
make the same cuts.

What is not proved, and why: `Answered` and `Returns` are liveness, out of the proof system's reach;
Editor and Toml compute on recursive trees of tokens, and what a recursive definition computes cannot be
proved by induction here; that MCProfilesDiscover's property fails is for TLC to show.
`TypeOK` is checked by no run: it is proved, and stated in the module or with its proof.

## 5. Where code and promise differ

One run is expected to fail, and shows a disagreement by a shortest trace (see `findings` in
`PROJECT.json`):

* **Discover panics** (lib.rs:956) when its provider is removed during the network exchange.

The following are exceptions written into properties or into the inputs of passing runs; each was
seen as a counterexample without the exception:

* `test` writes back the providers it read before its probes (lib.rs:686, 722-732), so what others changed
  meanwhile is undone, against lib.rs:679-683; so does `remove_provider` (lib.rs:1153, 1218).
  MCProfilesLocked has every operation but `test` and `remove_provider`, which read before the lock; with
  a rename during a test `NoLostUpdate` fails.
* Restoring a backup does not touch `state.json` (lib.rs:605): after an Undo tapkey's own change is
  reported as drift. `NoFalseDrift` names it (`Mislaid`).
* Removing a JSON member takes the comments between it and its neighbours, and every comment of an
  object it was the only member of (json.rs:227-236); json.rs:3-4 says comments survive.
* The first of several elements cannot be removed from a list: its comma stays, the text cannot be read
  and the edit, with the provider's removal, is refused (json.rs:141-152).
* A list with a trailing comma, or with comments and no element, cannot be appended to, and the switch
  is refused (json.rs:202-209); json.rs:65 takes a trailing comma as content.
* Strict reading passes a trailing comma in a list (json.rs:674-700), against json.rs:59.
* An action that fails after its rename stays changed though the answer is "rolled_back"
  (transaction.rs:98-103; `lost` in the contract), and so does one whose undo is refused, which is passed
  over (transaction.rs:130-140). CONTRIBUTING.md:40-41 promises otherwise. In Tapkey such a file then
  differs from `state.json`, which was not written: it is reported as drift though nobody else wrote it.
  `AnsweredExactly`, `NoFalseDrift` and `DoesAsAsked` except these files and no others.
* The same holds of the store: an error after the rename of the snapshot, a backup's manifest or
  `profiles.json` is answered as a refusal although the file is there (lib.rs:463-487, 1220).
* The umask comes off the mode of every file that is written, an existing one's too (atomic.rs:51,
  173-182), so 0664 becomes 0644, against atomic.rs:16-18; a recreated file need not have its old mode.
* The first write into a directory just made does not survive a power loss (atomic.rs:77).
* On Darwin no answered write is sure to: the directory's entry is flushed by a plain fsync
  (atomic.rs:220-224), which "only reaches the drive's cache" there (atomic.rs:200-201;
  CONTRIBUTING.md:48-49), against atomic.rs:13-14. What is lost is the rename, never half a file:
  `NeverPartial` holds of both kinds of system, `SuccessIsDurable` of the other.
* A listing takes no lock (store.rs:173-188, lib.rs:225-260) and may remove the directory of a backup being
  written: the manifest is then committed over copies that are gone, or the switch refused. The properties
  of Backups except the backup a listing met so, and no other.
* A change that waited for the lock is given a later change's backup to undo (lib.rs:491).
* The removal guard runs before the lock (lib.rs:1161), so an overlapping switch can select the
  provider removed.
* Removal takes no snapshot (lib.rs:1175): made first, the later snapshot is not of the first state.
* A tool the switch left out gets fingerprints of values never written (lib.rs:513); `NoFalseDrift` of
  Tapkey names it (`Mislaid`).
* Accepting drift does not settle a key that was taken out (fingerprint.rs:71, lib.rs:649).
* A removal refused by the keychain has changed the files; the pages say nothing was (settings.js:392).
* An edit between planning and writing is written over (lib.rs:402).
* A harvested key stays behind when the lock is held (lib.rs:1012).
* Claude Code's deprecated utility variable, mirrored on assignment, is not taken back (claude.rs:356).
* OpenCode's removal guard looks at `model` in one file only (opencode.rs:470); `small_model`, and a
  `model` left in another of the user's files, may go on naming the provider removed.
* OpenCode slots may name a provider that does not exist; it gets an entry without a base URL
  (opencode.rs:307), where lib.rs:347 promises that such a profile is refused.
* A profile's providers are looked up, a slot's own are not (lib.rs:347): a switch can select a removed
  provider as the main model's own. And a user's file of OpenCode's that goes away uncovers the one below
  it, with what was left there. MCAdapters has neither.
* A variable Claude Code is to be without is emptied only where the shell is known to export it at the
  switch (claude.rs:376-387). The shipped program is told of no export at all: `Env::real` has an empty
  map (env.rs:119) and `with_shell` is called by tests only, so that the variable is always taken out and
  the shell's export takes its place, which the comment at claude.rs:376-380 is there to prevent.
  `UnassignedIsCleared` excepts exports tapkey does not know of. MCAdapters' shell does not change.
* Nor is it given a project (env.rs:117): what a repository's file says over the user's is not in what
  tapkey reports, and no drift. `SwitchHolds` is of what the tool reads, `NoFalseDrift` of what tapkey does.
* OpenCode without a tool provider is written no slot and recorded all the same (opencode.rs:279,326).
* Codex's utility slot is two keys and one record: two different values never settle.
* Claude Code's removal guard compares the endpoint in effect, so a project file hides that the
  user's file still names the provider (claude.rs:487).
* Two launches at once (`refresh_helper` at app lib.rs:148 comes before the single-instance plugin at :151)
  share one staging name, and may leave a mixture of two helpers under the helper's name, or none, for
  the next launch to repair. `HelperIsWhole` and `LaunchRepairs` speak of launches that do not meet.
* A launch cut off, or refused, between its two renames (app lib.rs:574-575) leaves no helper: until the
  next launch every check of a key is "denied" and every store refused. `HelperIsWhole` allows that.
* The stored helper is compared by its bytes only (app lib.rs:557), and a failed chmod is ignored (:571): a
  helper that cannot be run stays.
* The check of a key leaves the helper the caller's standard input (env.rs:255), which the helper reads to
  the end (tapkey-helper.rs:14): `tapkey` on a terminal waits for the person. `Returns` and `Answered`
  except it.
* A call that waits at the keychain's access dialog waits for the person (env.rs:22-23, 103), and a removal
  does so holding the lock (lib.rs:1214): meanwhile every other change is answered "busy".
* Where keys are files, `set` and `forget` are given the store's root and `has` and `get` are not
  (credentials.rs:55, 85, 112, env.rs:255; helper.rs:150-159): with a store of its own a key put
  in is not found. `HonestAnswers` speaks of the place asked.
* `forget` looks and then removes; of two at once one is refused by the keychain (helper.rs:112-118).
* The cycle takes the row whose *name* is the first tool's main model, or a part of it (app lib.rs:502-507);
  a profile named otherwise is never "in effect", and going forward always gives the first row.
  `CycleSteps` speaks of names that can be read there.
* TOML: a removed key takes the comments above it along, and the file's own head comment with its first
  key; a value set over a table replaces all in it; a file with CRLF that edits bring down to one line
  without an end loses the CRLF; a file that cannot be read is taken as empty (codex.rs:174, 475).
* A test that cannot tell leaves the formats of an earlier one beside the new `tested_at`
  (lib.rs:724-731); accepting an id that exists puts a fresh record in its place, without its models
  and formats (lib.rs:1027).
* Backup names of one instant sort by their suffix as strings: `-10` before `-2` (store.rs:149-151). The
  model has three changes and does not get there.
* An OpenCode entry in `~/.opencode` with a plain key is offered, and its accept refused: `read_inline` does
  not look there (credentials.rs:27), against adapters/mod.rs:152. `OffersKeepTheirKey` excepts it.
* OpenCode's harvest asks the user's files before the install's, first named first kept
  (opencode.rs:423-438), so a lower file's entry hides a higher one's, against the comment at opencode.rs:422;
  and an entry without a URL hides every later one of its id.
* `read_all` puts OpenCode's project files above the install's (opencode.rs:131-139); the comment at
  opencode.rs:115-116 says the install outranks every project directory.
* tapkey's own entries are offered for harvest as the person's (codex.rs:452, opencode.rs:435), and so is
  Claude Code's endpoint when it has been emptied (claude.rs:456).
* The app's page nests a restore's target in params where wire.rs:27-30 flattens it, so Undo from the page
  is refused as malformed (app/dist/main.js:488). No model has the shape of a message.

## 6. What is not modelled

The layout of what the editors write, dotted keys and arrays of tables in TOML, parse failures of a
tool's file as the adapters meet them, harvest candidates in login shells and the profile suggested for
them, the edit of a file between a harvest's two readings, an empty secret or a malformed command line
of the helper, reads of the environment, the command line, the app's windows and tray, and the
pages. The retention
sweep (store.rs:237) is called by nothing in the program. The Windows arms of `atomic.rs` and
`lock.rs` are not distinguished, but for `reach`. `refresh_helper` writes the helper by `fs::write` and
renames it with no flush in between (app lib.rs:562-575), so that a power loss may leave a helper with
part of its bytes; Helper has deaths and refusals and no power loss, and the next launch, which compares
the bytes, repairs such a one. Windows of failure inside `write_store`'s own write are
AtomicWrite's.

## 7. Plan

Done, in this order: Transaction with its contract and proofs, AtomicWrite, Backups, Tapkey over them,
Profiles, the adapters and the JSON editor; then the helper and its replacement, the cycle, TOML, the
calendar, the probe and the harvest. What is left to model:

1. **Retention**: `sweep` with its two ceilings (store.rs:237). Nothing calls it, so it has no state or
   interleaving of its own to check; once it has a caller, it belongs in Backups as an action that races
   `take_backup` and a listing.
2. **Harvest while files change**: the two readings of a file with an edit in between, in Adapters.

Runs stay few: the additions join the runs of their modules, and a disagreement replaces a weaker one.

Every property of the passing runs that is neither liveness nor about the recursive editor has its
theorem. What could still be proved is what calls that overlap do, for which Calls would need steps in
which one call writes over another's change (section 5 lists where that happens), and that the operations
of Profiles do as they are asked, by a contract like Calls.
