------------------------------- MODULE Helper -------------------------------
(***************************************************************************)
(* The credential helper: a program in the store's bin/ directory that     *)
(* alone touches keys (core/src/helper.rs), the calls the core makes of it *)
(* (credentials.rs, env.rs) and its replacement by the one in the bundle   *)
(* when the app is launched (app/src-tauri/src/lib.rs).                    *)
(*                                                                         *)
(* A launch replaces the helper before the single-instance plugin can turn *)
(* it away, so two may be at it at once, of the same app or of an older    *)
(* and a newer one.  A name in bin/ leads to a file; a file that is being  *)
(* written keeps being written when its name moves.                        *)
(*                                                                         *)
(* What a launch moves aside is read by nobody and is left out.            *)
(*                                                                         *)
(* Faults: "launch" (a step of a launch is refused, or its process dies),  *)
(* "keychain" (the store of keys refuses, or a helper's process dies).     *)
(***************************************************************************)
EXTENDS Naturals, FiniteSets

CONSTANTS
    MaxLaunches,    \* bound: launches of the app, one process each
    Versions,       \* what the bytes of a bundled helper may be
    Torn,           \* bytes that are no helper: a part of one, or a mixture
    MaxCalls,       \* bound: calls of the helper
    MaxStarted,     \* bound: launches and calls in one behaviour
    Asked,          \* what they may ask for
    Keys,           \* what the secret of the one provider may be
    NoKey,
    None,
    Faults          \* "launch", "keychain"

\* Both are numbered in the order they start.
Launches == 1..MaxLaunches
Callers == 1..MaxCalls

\* A file is named for the launch that made it; an earlier one may have left one.
Shipped == 0
Files == Launches \cup {Shipped}
Operations == {"has", "get", "set", "forget"}

ASSUME HelperAssumption ==
    /\ Versions # {} /\ Torn \notin Versions /\ None \notin Files
    /\ NoKey \notin Keys
    /\ {MaxLaunches, MaxCalls, MaxStarted} \subseteq Nat
    /\ Asked \subseteq Operations
    /\ Faults \subseteq {"launch", "keychain"}

VARIABLES
    bin,        \* the files the names "exe" and "new" lead to
    image,      \* what a file holds and whether it may be run
    launch,     \* each launch: where it is, its bundle's version, the file it has open
    met,        \* history: launches that ran while another did
    kind,       \* the store of keys: the platform's, or files
    secrets,    \* the key in each place there is
    call        \* each call: where it is, what it asks, the keys there were meanwhile

swap == <<bin, image, launch, met>>
vault == <<kind, secrets, call>>
vars == <<swap, vault>>

Launching == {"compare", "open", "fill", "chmod", "aside", "swap"}
Launched == {"done", "cut_off"}
Answers == {"found", "nothing", "absent", "denied", "ok", "failed"}
Running == {"spawn", "stdin", "perform", "remove"}
Places == {"platform", "handed", "default"}

NotLaunching(pc) == [pc |-> pc, want |-> None, file |-> None, lax |-> FALSE]
NotAsking(pc) == [pc |-> pc, op |-> None, key |-> NoKey, stdin |-> "ended", seen |-> {}]

Init ==
    /\ \E v \in Versions, there \in {Shipped, None} :
          /\ bin = [name \in {"exe", "new"} |-> IF name = "exe" THEN there ELSE None]
          /\ image = [f \in Files |-> IF f = Shipped THEN [bytes |-> v, exec |-> TRUE]
                                      ELSE [bytes |-> Torn, exec |-> FALSE]]
    /\ launch = [l \in Launches |-> NotLaunching("idle")]
    /\ met = {}
    /\ kind \in {"platform", "files"}
    /\ \E k \in Keys \cup {NoKey} : secrets = [place \in Places |-> k]
    /\ call = [c \in Callers |-> NotAsking("idle")]
-----------------------------------------------------------------------------
(* A launch: refresh_helper_from. *)

Started(procs) == {i \in DOMAIN procs : procs[i].pc # "idle"}

MayStart(procs, i) ==
    /\ Started(procs) = 1..i - 1
    /\ Cardinality(Started(launch)) + Cardinality(Started(call)) < MaxStarted

Step(l, from, to) ==
    /\ launch[l].pc = from
    /\ launch' = [launch EXCEPT ![l].pc = to]

End(l, from, how) ==
    /\ launch[l].pc = from
    /\ launch' = [launch EXCEPT ![l] = NotLaunching(how)]

Launch(l) ==
    /\ MayStart(launch, l)
    /\ \E v \in Versions : launch' = [launch EXCEPT ![l].pc = "compare", ![l].want = v]
    /\ LET others == {k \in Launches : launch[k].pc \in Launching} IN
       met' = IF others = {} THEN met ELSE met \cup others \cup {l}
    /\ UNCHANGED <<bin, image, vault>>

\* Mutant of UpToDate: any helper will do.
UpToDateAny(l) == bin["exe"] # None

\* Only the bytes are compared, not whether the file may be run.
UpToDate(l) == bin["exe"] # None /\ image[bin["exe"]].bytes = launch[l].want

Compare(l) ==
    /\ IF UpToDate(l) THEN End(l, "compare", "done") ELSE Step(l, "compare", "open")
    /\ UNCHANGED <<bin, image, met, vault>>

\* Mutant of OpenStaging: the helper is overwritten where it is.
OpenInPlace(l) ==
    /\ launch[l].pc = "open"
    /\ LET f == IF bin["exe"] = None THEN l ELSE bin["exe"] IN
       /\ bin' = [bin EXCEPT !["exe"] = f]
       /\ image' = [image EXCEPT ![f].bytes = Torn]
       /\ launch' = [launch EXCEPT ![l].pc = "fill", ![l].file = f]
    /\ UNCHANGED <<met, vault>>

\* fs::write of the staging name opens: a file left there, whosever it is, is emptied.
OpenStaging(l) ==
    /\ launch[l].pc = "open"
    /\ LET f == IF bin["new"] = None THEN l ELSE bin["new"] IN
       /\ bin' = [bin EXCEPT !["new"] = f]
       /\ image' = [image EXCEPT ![f].bytes = Torn]
       /\ launch' = [launch EXCEPT ![l].pc = "fill", ![l].file = f]
    /\ UNCHANGED <<met, vault>>

\* fs::write writes to what it opened, wherever its name is now.  Over another version the end of the
\* longer one may stay.
Fill(l) ==
    /\ Step(l, "fill", "chmod")
    /\ LET f == launch[l].file
           mixed == IF image[f].bytes \in Versions \ {launch[l].want} THEN {Torn} ELSE {} IN
       \E b \in {launch[l].want} \cup mixed : image' = [image EXCEPT ![f].bytes = b]
    /\ UNCHANGED <<bin, met, vault>>

\* set_permissions by name; a failure is ignored.
Chmod(l) ==
    /\ launch[l].pc = "chmod"
    /\ \E made \in IF "launch" \in Faults THEN BOOLEAN ELSE {TRUE} :
          /\ launch' = [launch EXCEPT ![l].pc = "aside", ![l].lax = ~made]
          /\ image' = IF made /\ bin["new"] # None
                      THEN [image EXCEPT ![bin["new"]].exec = TRUE] ELSE image
    /\ UNCHANGED <<bin, met, vault>>

\* The helper there is goes aside, by rename; a failure is ignored.
Aside(l) ==
    /\ Step(l, "aside", "swap")
    /\ \/ bin' = [bin EXCEPT !["exe"] = None]
       \/ "launch" \in Faults /\ UNCHANGED bin
    /\ UNCHANGED <<image, met, vault>>

\* The new one takes the name, unless another launch has taken the new one.  The first is then still
\* aside.
Swap(l) ==
    /\ IF bin["new"] = None
       THEN End(l, "swap", "cut_off") /\ UNCHANGED bin
       ELSE End(l, "swap", "done") /\ bin' = [bin EXCEPT !["exe"] = bin["new"], !["new"] = None]
    /\ UNCHANGED <<image, met, vault>>

\* The process dies, or it is refused the directory, the staging file, the room on the disk or the
\* second rename.  Nothing is put back.
CutOff(l) ==
    /\ "launch" \in Faults
    /\ \E from \in Launching : End(l, from, "cut_off")
    /\ UNCHANGED <<bin, image, met, vault>>
-----------------------------------------------------------------------------
(* A call: the parent's side (credentials.rs, env.rs) and the helper's own. *)

\* store and forget name the core's own directory for files, has and get do not: keys in files are put
\* in one place and looked for in another.
Place(op) ==
    IF kind = "platform" THEN "platform" ELSE IF op \in {"set", "forget"} THEN "handed" ELSE "default"

Held(c) == secrets[Place(call[c].op)]

\* What the parent makes of an exit code, or of none.
Verdict(op, code) ==
    IF op \in {"set", "forget"}
    THEN IF code = "yes" \/ (op = "forget" /\ code = "no") THEN "ok" ELSE "failed"
    ELSE CASE code = "yes" -> "found"
           [] op = "get" -> "nothing"
           [] code = "no" -> "absent"
           [] OTHER -> "denied"

\* Mutant of Said: one code for all that is not a yes.
SaidByTwo(op, code) == Verdict(op, IF code = "yes" THEN code ELSE "no")

Said(op, code) == Verdict(op, code)

Exit(c, from, code) ==
    /\ call[c].pc = from
    /\ call' = [call EXCEPT ![c] = NotAsking(Said(call[c].op, code))]

\* Somebody asks, with a standard input of his own that has ended (the app's) or not (a terminal's).
Ask(c) ==
    /\ MayStart(call, c)
    /\ \E op \in Asked, s \in {"ended", "open"}, k \in Keys :
          call' = [call EXCEPT ![c] = [pc |-> "spawn", op |-> op, stdin |-> s,
                                       key |-> IF op = "set" THEN k ELSE NoKey,
                                       seen |-> {secrets[Place(op)]}]]
    /\ UNCHANGED <<kind, secrets, swap>>

Runs(f) == f # None /\ image[f].bytes \in Versions /\ image[f].exec

\* Command::spawn of helper_path.  A helper that is not there, or is not one, cannot be run.
Spawn(c) ==
    /\ IF Runs(bin["exe"])
       THEN call[c].pc = "spawn" /\ call' = [call EXCEPT ![c].pc = "stdin"]
       ELSE Exit(c, "spawn", "none")
    /\ UNCHANGED <<kind, secrets, swap>>

\* Mutant of Piped: forget is left the parent's standard input.
PipedButForget(op) == op \notin {"has", "forget"}

\* Whose standard input is a pipe that the parent closes, or nothing: has inherits the parent's.
Piped(op) == op # "has"

\* The helper reads its standard input to the end, whatever it was asked.
ReadStdin(c) ==
    /\ call[c].pc = "stdin"
    /\ Piped(call[c].op) \/ call[c].stdin = "ended"
    /\ call' = [call EXCEPT ![c].pc = "perform"]
    /\ UNCHANGED <<kind, secrets, swap>>

\* The person at the terminal ends it.
EndStdin(c) ==
    /\ call[c].pc \in Running /\ call[c].stdin = "open"
    /\ call' = [call EXCEPT ![c].stdin = "ended"]
    /\ UNCHANGED <<kind, secrets, swap>>

\* Store::read for has and get.
Look(c) ==
    /\ call[c].op \in {"has", "get"}
    /\ Exit(c, "perform", IF Held(c) = NoKey THEN "no" ELSE "yes")
    /\ UNCHANGED <<kind, secrets, swap>>

\* What the other calls in this place are there to see.
Witnessed(place, k) ==
    [c \in Callers |-> IF call[c].pc \in Running /\ Place(call[c].op) = place
                       THEN [call[c] EXCEPT !.seen = @ \cup {k}] ELSE call[c]]

\* A helper that did what it was asked may still die before it says so.
CodesOf(code) == {code} \cup IF "keychain" \in Faults THEN {"none"} ELSE {}

Store(c) ==
    /\ call[c].pc = "perform" /\ call[c].op = "set"
    /\ LET place == Place("set") IN
       \E code \in CodesOf("yes") :
          /\ secrets' = [secrets EXCEPT ![place] = call[c].key]
          /\ call' = [Witnessed(place, call[c].key) EXCEPT ![c] = NotAsking(Said("set", code))]
    /\ UNCHANGED <<kind, swap>>

\* forget looks first, and removes in a step of its own.
LookToForget(c) ==
    /\ call[c].op = "forget"
    /\ IF Held(c) = NoKey
       THEN Exit(c, "perform", "no")
       ELSE call[c].pc = "perform" /\ call' = [call EXCEPT ![c].pc = "remove"]
    /\ UNCHANGED <<kind, secrets, swap>>

\* A key that went in between is an error of the platform's store, and none of the files.
Remove(c) ==
    /\ call[c].pc = "remove"
    /\ LET place == Place("forget")
           lost == kind = "platform" /\ Held(c) = NoKey IN
       \E code \in CodesOf(IF lost THEN "error" ELSE "yes") :
          /\ secrets' = [secrets EXCEPT ![place] = NoKey]
          /\ call' = [Witnessed(place, NoKey) EXCEPT ![c] = NotAsking(Said("forget", code))]
    /\ UNCHANGED <<kind, swap>>

\* The store of keys refuses, or the helper dies of something: before it did what it was asked.
CallRefused(c) ==
    /\ "keychain" \in Faults
    /\ \E from \in {"stdin", "perform", "remove"} : Exit(c, from, "none")
    /\ UNCHANGED <<kind, secrets, swap>>

Progress(c) ==
    \/ Spawn(c) \/ ReadStdin(c) \/ Look(c) \/ Store(c) \/ LookToForget(c) \/ Remove(c)

Next ==
    \/ \E l \in Launches :
          \/ Launch(l) \/ Compare(l) \/ OpenStaging(l) \/ Fill(l) \/ Chmod(l) \/ Aside(l) \/ Swap(l)
          \/ CutOff(l)
    \/ \E c \in Callers : Ask(c) \/ EndStdin(c) \/ CallRefused(c) \/ Progress(c)

Spec == Init /\ [][Next]_vars

\* A helper that was started goes on, and its parent waits for it.
FairSpec == Spec /\ \A c \in Callers : WF_vars(Progress(c))
-----------------------------------------------------------------------------
(* PROPERTIES *)

\* app lib.rs: "The swap is by rename, never by overwrite".  As long as no two launches meet, what the
\* helper's name leads to is a whole helper at every moment, whatever is refused and whoever dies, and
\* the name is only free before the first launch, between the two renames of one, or after one that was
\* cut off or refused there.
HelperIsWhole ==
    met = {} =>
        IF bin["exe"] # None
        THEN image[bin["exe"]].bytes \in Versions
        ELSE \A l \in Launches : launch[l].pc = "done" =>
                \E k \in Launches \ {l} : launch[k].pc \in {"swap", "cut_off"}

\* What the end of such a launch has to find.
Repaired ==
    \A l \in Launches :
        launch[l].pc \in Launching /\ launch'[l].pc = "done" /\ l \notin met' =>
            /\ bin'["exe"] # None
            /\ image'[bin'["exe"]].bytes = launch[l].want
            /\ (launch[l].pc = "swap" /\ ~launch[l].lax) => image'[bin'["exe"]].exec

\* app lib.rs: "Copy this bundle's helper into the store, unless the stored one is byte-identical".  A
\* launch that met no other and was refused nothing leaves the bundle's helper under its name, whatever
\* earlier launches left behind; and one that can be run, if it had to be replaced.
LaunchRepairs == [][Repaired]_swap

\* helper.rs: "One non-zero code for the last two would make the core guess, and the guess becomes add
\* a key said to somebody whose key exists and was withheld".  Whatever happens to the helper or to the
\* key meanwhile, a key is called found only if there was one while the call ran, called absent only if
\* there was none, and called forgotten only if it was gone.
HonestAnswers ==
    [][\A c \in Callers : call[c].pc \in Running /\ call'[c].pc \in Answers =>
          LET op == call[c].op
              seen == call[c].seen \cup {secrets'[Place(op)]} IN
          /\ call'[c].pc = "found" => seen \cap Keys # {}
          /\ call'[c].pc = "absent" \/ (op = "forget" /\ call'[c].pc = "ok") => NoKey \in seen]_vault

\* Every call of the helper is answered, but for has at a terminal: it waits there for an input that
\* nobody means to give.
Returns ==
    \A c \in Callers :
        call[c].pc \in Running /\ (call[c].op = "has" => call[c].stdin = "ended")
        ~> call[c].pc \in Answers
=============================================================================
