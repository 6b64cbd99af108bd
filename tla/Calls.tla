------------------------------- MODULE Calls -------------------------------
(***************************************************************************)
(* What the requests of core/src/lib.rs do to the tools' files and to what *)
(* tapkey remembers, one request after another, with nothing said about    *)
(* plans, locks, writes one file at a time and their undoing: a request    *)
(* changes all the files it changes at one moment, from what they hold at  *)
(* that moment, after a way back was kept; or it changes none.  Only a     *)
(* request that has a mishap, because its process dies or because a file   *)
(* is refused to its rollback, may leave some files old and some new, once.*)
(* Module Tapkey implements it as long as its calls do not overlap.        *)
(***************************************************************************)
EXTENDS Naturals, Sequences

CONSTANTS Requests, Tools, Registry, Strict, Providers, Rest, Empty, Fatal, Nobody, Absent, Keep, None

VARIABLES
    files,      \* the tools' configuration files, as in Tapkey
    snapshot,   \* the files before tapkey's first change, or None
    backups,    \* the files changes were made to, oldest first
    owned,      \* the provider tapkey left each tool with, or None
    records,    \* the providers that are known
    keys,       \* those that there is a key for
    mishaps     \* the requests that died or could not put back every file

vars == <<files, snapshot, backups, owned, records, keys, mishaps>>

File == [sel : Providers \cup {Nobody}, reg : SUBSET Providers, rest : Rest] \cup {Absent}
Profiles == [Tools -> Providers \cup {None}]

Init ==
    /\ files \in [Tools -> File]
    /\ snapshot = None
    /\ backups = << >>
    /\ owned = [t \in Tools |-> None]
    /\ records = Providers
    /\ keys = Providers
    /\ mishaps = {}

\* No file is an empty one.
Config(t) == IF files[t] = Absent THEN [sel |-> Nobody, reg |-> {}, rest |-> Empty] ELSE files[t]

LeftOut(t) == t \in Strict /\ files[t] # Absent /\ files[t].rest = Fatal
-----------------------------------------------------------------------------
(* What the files may become. *)

\* Every tool of the profile that will start selects its provider, registered where tools do that.
Switched(profile) ==
    [t \in Tools |->
        IF profile[t] = None \/ LeftOut(t) THEN files[t]
        ELSE [Config(t) EXCEPT !.sel = profile[t],
                               !.reg = IF t \in Registry THEN @ \cup {profile[t]} ELSE @]]

\* The provider is registered nowhere.
Removed(p) ==
    [t \in Tools |-> IF t \in Registry THEN [Config(t) EXCEPT !.reg = @ \ {p}] ELSE files[t]]

\* The files of a backup, and the others as they are.
Returned(backup) == [t \in Tools |-> IF backup[t] = Keep THEN files[t] ELSE backup[t]]

Selected(p) == \E t \in Tools : Config(t).sel = p
Registered(p) == \E t \in Registry : p \in Config(t).reg

\* The last backup holds what is about to be changed.
BackedUp(new) ==
    /\ backups # << >>
    /\ \A t \in Tools : new[t] # files[t] => backups[Len(backups)][t] = files[t]

\* A switch to providers that are known and have a key, once the snapshot is there; the way back to the
\* snapshot or to a backup; the removal of a known provider that no tool selects.
Targets ==
    {new \in {Switched(profile) : profile \in [Tools -> (records \cap keys) \cup {None}]} :
        snapshot # None}
    \cup {new \in {snapshot} : snapshot # None}
    \cup {Returned(backups[i]) : i \in DOMAIN backups}
    \cup {Removed(p) : p \in {p \in records : ~Selected(p)}}
-----------------------------------------------------------------------------
(* What may happen. *)

TakeSnapshot ==
    /\ snapshot = None
    /\ snapshot' = files
    /\ UNCHANGED <<files, backups, owned, records, keys, mishaps>>

TakeBackup ==
    /\ \E touched \in SUBSET Tools :
          backups' = Append(backups, [t \in Tools |-> IF t \in touched THEN files[t] ELSE Keep])
    /\ UNCHANGED <<files, snapshot, owned, records, keys, mishaps>>

Change ==
    /\ files' # files
    /\ files' \in {new \in Targets : BackedUp(new)}
    /\ UNCHANGED <<snapshot, backups, owned, records, keys, mishaps>>

Mishap == \E r \in Requests \ mishaps : mishaps' = mishaps \cup {r}

\* With some files old and some new.
Tear ==
    /\ Mishap
    /\ \E new \in Targets :
          /\ BackedUp(new)
          /\ DOMAIN files' = Tools
          /\ \A t \in Tools : files'[t] \in {files[t], new[t]}
    /\ UNCHANGED <<snapshot, backups, owned, records, keys>>

\* The process dies while no file is being changed.
Die ==
    /\ Mishap
    /\ UNCHANGED <<files, snapshot, backups, owned, records, keys>>

\* After a switch tapkey owns the tools of the profile, which select its providers, but for those left
\* out.
Own ==
    /\ owned' \in Profiles /\ \E t \in Tools : owned'[t] # None
    /\ \A t \in Tools : owned'[t] = None \/ LeftOut(t) \/ Config(t).sel = owned'[t]
    /\ UNCHANGED <<files, snapshot, backups, records, keys, mishaps>>

\* After the way back to the snapshot it owns nothing.
Disown ==
    /\ files = snapshot
    /\ owned' = [t \in Tools |-> None]
    /\ UNCHANGED <<files, snapshot, backups, records, keys, mishaps>>

\* accept_drift
Accept ==
    /\ \E t \in Tools :
          /\ owned[t] # None /\ Config(t).sel # Nobody
          /\ owned' = [owned EXCEPT ![t] = Config(t).sel]
    /\ UNCHANGED <<files, snapshot, backups, records, keys, mishaps>>

\* A key goes while the provider is still known, and its record after it; no tool needs them then.
ForgetKey ==
    /\ \E p \in records :
          /\ ~Selected(p) /\ ~Registered(p)
          /\ keys' = keys \ {p}
    /\ UNCHANGED <<files, snapshot, backups, owned, records, mishaps>>

DropRecord ==
    /\ \E p \in records \ keys :
          /\ ~Selected(p) /\ ~Registered(p)
          /\ records' = records \ {p}
    /\ UNCHANGED <<files, snapshot, backups, owned, keys, mishaps>>

\* The tool itself, or a person.
Edit ==
    /\ \E t \in Tools :
          /\ files[t] # Absent
          /\ \/ \E x \in Rest : files' = [files EXCEPT ![t].rest = x]
             \/ \E p \in files[t].reg \cup {Nobody} : files' = [files EXCEPT ![t].sel = p]
    /\ UNCHANGED <<snapshot, backups, owned, records, keys, mishaps>>

Next ==
    \/ TakeSnapshot \/ TakeBackup \/ Change \/ Tear \/ Die \/ Own \/ Disown \/ Accept
    \/ ForgetKey \/ DropRecord \/ Edit

Spec == Init /\ [][Next]_vars
=============================================================================
