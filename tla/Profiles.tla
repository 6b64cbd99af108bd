------------------------------ MODULE Profiles ------------------------------
(***************************************************************************)
(* core/src/lib.rs and core/src/profile.rs: profiles.json, the one file    *)
(* providers and profiles live in, the list of declined harvest offers     *)
(* beside it and the stored keys.  Every operation replaces the whole      *)
(* file.  Most read it under the lock; test and remove_provider write back *)
(* what they read before, and discover reads it twice.                     *)
(*                                                                         *)
(* test asks the provider's host first which formats it speaks             *)
(* (core/src/probe.rs), discover for its catalogue.                        *)
(*                                                                         *)
(* What the tools' files have to do with a removal is in module Tapkey.    *)
(***************************************************************************)
EXTENDS Naturals, Sequences, FiniteSets

CONSTANTS
    Requests,       \* one process each, making one call of `handle`
    Asks,           \* what they may ask for
    Ids,            \* ids of providers and of profiles
    Names,
    Assignments,    \* what a profile may assign to the tools
    NoTools,        \* the assignment that names no tool, which is refused
    None,
    Unreadable,     \* profiles.json when it is missing or does not parse
    Formats,        \* the formats a host is asked for, in order
    Hosts,          \* what the hosts may be, see Host
    Docs,           \* profiles.json as earlier calls may have left it
    Overlapping,    \* whether requests may overlap
    Faults          \* "store", "keychain", "network", "spoil", "crash"

AllFormats == {Formats[i] : i \in DOMAIN Formats}
Doors == {"Authorization", "x-api-key"}

\* A host serves some formats, or answers whatever it is asked; and has its catalogue behind some doors.
Host == [serves : SUBSET AllFormats, gateway : BOOLEAN, catalogue : SUBSET Doors]

\* formats: None until a test could tell.  models: no catalogue, one with its model enabled, one with
\* it trimmed away.
Provider ==
    [name : Names, enabled : BOOLEAN, tested : BOOLEAN, formats : (SUBSET AllFormats) \cup {None},
     models : {"none", "on", "off"}]
Profile == [name : Names, tools : Assignments]

\* What profiles.json parses to.
Keyed(records) == UNION {[ids -> records] : ids \in SUBSET Ids}
Stores == [providers : Keyed(Provider), profiles : Keyed(Profile)]

\* Operations that end in write_store, and the others.
ProfileOps ==
    {"create_profile", "update_profile", "rename_profile", "duplicate_profile", "delete_profile"}
ProviderOps == {"create_provider", "rename_provider", "set_provider_enabled", "set_model_enabled"}
Plain == ProfileOps \cup ProviderOps
Reading == {"test", "discover", "remove_provider"}
Keeping == {"accept_harvest", "decline_harvest", "set_credential"}

\* What the wire refuses to be without.
Complete(a) ==
    /\ a.op \in Plain \cup Reading \cup Keeping /\ a.id \in Ids
    /\ a.op \in {"create_provider", "rename_provider", "create_profile", "rename_profile"} =>
          a.name \in Names
    /\ a.op \in {"set_provider_enabled", "set_model_enabled"} => a.enabled \in BOOLEAN
    /\ a.op \in {"create_profile", "update_profile"} => a.tools \in Assignments \cup {NoTools}
    /\ a.op = "duplicate_profile" => a.as \in Ids

ASSUME ProfilesAssumption ==
    /\ IsFiniteSet(Requests) /\ None \notin Requests
    /\ NoTools \notin Assignments
    /\ \A a \in Asks : Complete(a)
    /\ Unreadable \notin Stores /\ Docs \subseteq Stores \cup {Unreadable}
    /\ Formats \in Seq(AllFormats)
    /\ \A h \in Hosts : h.serves \subseteq AllFormats
    /\ Overlapping \in BOOLEAN
    /\ Faults \subseteq {"store", "keychain", "network", "spoil", "crash"}

VARIABLES
    doc,        \* profiles.json
    declined,   \* declined-harvest.json
    keys,       \* the ids the helper holds a key for
    lock,
    pc,
    ask,
    draft,      \* Profiles in the memory of each call
    host,       \* the host of the providers
    probe       \* what each test has asked it so far, and the formats that answered, or None

vars == <<doc, declined, keys, lock, pc, ask, draft, host, probe>>

Busy == {"waiting", "asking", "lock", "locked", "forget", "write"}
Ended == {"changed", "refused", "busy", "panicked", "dead"}

Nothing == [providers |-> [i \in {} |-> None], profiles |-> [i \in {} |-> None]]

\* Profiles::read, or the empty store where the caller falls back to it.
Read == IF doc = Unreadable THEN Nothing ELSE doc

Put(f, i, v) == [j \in DOMAIN f \cup {i} |-> IF j = i THEN v ELSE f[j]]
Drop(f, i) == [j \in DOMAIN f \ {i} |-> f[j]]

Fresh(name) == [name |-> name, enabled |-> TRUE, tested |-> FALSE, formats |-> None, models |-> "none"]

Init ==
    /\ doc \in Docs
    /\ declined = {}
    /\ keys = IF doc = Unreadable THEN {} ELSE DOMAIN doc.providers
    /\ lock = None
    /\ pc = [r \in Requests |-> "idle"]
    /\ ask = [r \in Requests |-> None]
    /\ draft = [r \in Requests |-> Nothing]
    /\ host \in Hosts
    /\ probe = [r \in Requests |-> [asked |-> 0, served |-> {}]]

Goto(r, from, to) ==
    /\ pc[r] = from
    /\ pc' = [pc EXCEPT ![r] = to]

Answer(r, from, verdict) ==
    /\ Goto(r, from, verdict)
    /\ lock' = IF lock = r THEN None ELSE lock

Start(r) ==
    /\ Overlapping \/ \A q \in Requests : pc[q] \notin Busy
    /\ Goto(r, "idle", "waiting")
    /\ \E a \in Asks : ask' = [ask EXCEPT ![r] = a]
    /\ UNCHANGED <<doc, declined, keys, lock, draft>>
-----------------------------------------------------------------------------
(* What a call does before it takes the lock. *)

\* write_store and decline_harvest go for the lock at once.
Straight(r) ==
    /\ pc[r] = "waiting" /\ ask[r].op \in Plain \cup {"decline_harvest"}
    /\ Goto(r, "waiting", "lock")
    /\ UNCHANGED <<doc, declined, keys, lock, ask, draft>>

\* test, discover and remove_provider read the file and look for the provider.
ReadFirst(r) ==
    /\ pc[r] = "waiting" /\ ask[r].op \in Reading
    /\ IF ask[r].id \in DOMAIN Read.providers
       THEN Goto(r, "waiting", IF ask[r].op = "remove_provider" THEN "lock" ELSE "asking")
       ELSE Goto(r, "waiting", "refused")
    /\ draft' = [draft EXCEPT ![r] = Read]
    /\ UNCHANGED <<doc, declined, keys, lock, ask>>

\* Mutant of NoAnswer: what does not answer is not served.
NoAnswerIsNo(r) ==
    /\ "network" \in Faults
    /\ probe' = [probe EXCEPT ![r].asked = Len(Formats) + 1]
    /\ Goto(r, "asking", "lock")

\* CannotTell, at the control or half way.
NoAnswer(r) ==
    /\ "network" \in Faults
    /\ probe' = [probe EXCEPT ![r].served = None]
    /\ Goto(r, "asking", "lock")

\* The control: a host that answers on a path that cannot exist tells nothing.
AskControl(r) ==
    /\ probe[r].asked = 0
    /\ IF host.gateway
       THEN Goto(r, "asking", "lock") /\ probe' = [probe EXCEPT ![r].served = None]
       ELSE UNCHANGED pc /\ probe' = [probe EXCEPT ![r].asked = 1]

AskFormat(r) ==
    /\ probe[r].asked \in DOMAIN Formats
    /\ LET format == Formats[probe[r].asked]
           answers == host.gateway \/ format \in host.serves
       IN probe' = [probe EXCEPT ![r].asked = @ + 1,
                                 ![r].served = IF answers THEN @ \cup {format} ELSE @]
    /\ IF probe[r].asked = Len(Formats) THEN Goto(r, "asking", "lock") ELSE UNCHANGED pc

\* probe::run, one request at a time.
Probe(r) ==
    /\ pc[r] = "asking" /\ ask[r].op = "test"
    /\ AskControl(r) \/ AskFormat(r) \/ NoAnswer(r)
    /\ UNCHANGED <<doc, declined, keys, lock, ask, draft>>

\* Which of the doors discover tries: by the formats a test recorded, or both.
DoorsOf(provider) ==
    IF provider.formats = None THEN Doors
    ELSE IF "anthropic_messages" \in provider.formats THEN {"x-api-key"} ELSE {"Authorization"}

AskCatalogue(r) ==
    /\ pc[r] = "asking" /\ ask[r].op = "discover"
    /\ LET found == DoorsOf(draft[r].providers[ask[r].id]) \cap host.catalogue IN
       \/ found # {} /\ Goto(r, "asking", "lock")
       \/ (found = {} \/ "network" \in Faults) /\ Goto(r, "asking", "refused")
    /\ UNCHANGED <<doc, declined, keys, lock, ask, draft>>

\* accept_harvest hands the key, when the tool's file holds one, to the helper before it has the lock.
StoreKey(r) ==
    /\ pc[r] = "waiting" /\ ask[r].op = "accept_harvest"
    /\ \/ keys' \in {keys, keys \cup {ask[r].id}} /\ Goto(r, "waiting", "lock")
       \/ "keychain" \in Faults /\ UNCHANGED keys /\ Goto(r, "waiting", "refused")
    /\ UNCHANGED <<doc, declined, lock, ask, draft>>

\* set_credential: no lock, and no look at profiles.json.
SetCredential(r) ==
    /\ pc[r] = "waiting" /\ ask[r].op = "set_credential"
    /\ \/ keys' = keys \cup {ask[r].id} /\ Goto(r, "waiting", "changed")
       \/ "keychain" \in Faults /\ UNCHANGED keys /\ Goto(r, "waiting", "refused")
    /\ UNCHANGED <<doc, declined, lock, ask, draft>>
-----------------------------------------------------------------------------
(* The lock. *)

\* Mutant of TakeLock: nobody is kept out.
TakeLockAnyway(r) ==
    /\ Goto(r, "lock", "locked")
    /\ lock' = r
    /\ UNCHANGED <<doc, declined, keys, ask, draft>>

TakeLock(r) ==
    /\ lock = None
    /\ Goto(r, "lock", "locked")
    /\ lock' = r
    /\ UNCHANGED <<doc, declined, keys, ask, draft>>

\* Three attempts found a holder.
GiveUp(r) ==
    /\ lock # None
    /\ Goto(r, "lock", "busy")
    /\ UNCHANGED <<doc, declined, keys, lock, ask, draft>>
-----------------------------------------------------------------------------
(* Under the lock: the file is read and changed in memory. *)

\* One operation of write_store: refused when its condition does not hold of what was read.
Change(r, op, ok, providers, profiles) ==
    /\ pc[r] = "locked" /\ ask[r].op = op /\ ok
    /\ Goto(r, "locked", "write")
    /\ draft' = [draft EXCEPT ![r] = [providers |-> providers, profiles |-> profiles]]
    /\ UNCHANGED <<doc, declined, keys, lock, ask>>

HasProfile(r) == ask[r].id \in DOMAIN Read.profiles
HasProvider(r) == ask[r].id \in DOMAIN Read.providers

CreateProfile(r) ==
    Change(r, "create_profile", ~HasProfile(r) /\ ask[r].tools # NoTools, Read.providers,
           Put(Read.profiles, ask[r].id, [name |-> ask[r].name, tools |-> ask[r].tools]))

UpdateProfile(r) ==
    Change(r, "update_profile", HasProfile(r) /\ ask[r].tools # NoTools, Read.providers,
           [Read.profiles EXCEPT ![ask[r].id].tools = ask[r].tools])

RenameProfile(r) ==
    Change(r, "rename_profile", HasProfile(r), Read.providers,
           [Read.profiles EXCEPT ![ask[r].id].name = ask[r].name])

\* Everything comes across but the name, "<name> (copy)".
DuplicateProfile(r) ==
    /\ pc[r] = "locked" /\ ask[r].op = "duplicate_profile"
    /\ \E name \in Names :
          Change(r, "duplicate_profile", HasProfile(r) /\ ask[r].as \notin DOMAIN Read.profiles,
                 Read.providers,
                 Put(Read.profiles, ask[r].as, [Read.profiles[ask[r].id] EXCEPT !.name = name]))

DeleteProfile(r) ==
    Change(r, "delete_profile", HasProfile(r), Read.providers, Drop(Read.profiles, ask[r].id))

CreateProvider(r) ==
    Change(r, "create_provider", ~HasProvider(r),
           Put(Read.providers, ask[r].id, Fresh(ask[r].name)), Read.profiles)

RenameProvider(r) ==
    Change(r, "rename_provider", HasProvider(r),
           [Read.providers EXCEPT ![ask[r].id].name = ask[r].name], Read.profiles)

SetProviderEnabled(r) ==
    Change(r, "set_provider_enabled", HasProvider(r),
           [Read.providers EXCEPT ![ask[r].id].enabled = ask[r].enabled], Read.profiles)

SetModelEnabled(r) ==
    Change(r, "set_model_enabled",
           HasProvider(r) /\ Read.providers[ask[r].id].models # "none",
           [Read.providers EXCEPT ![ask[r].id].models = IF ask[r].enabled THEN "on" ELSE "off"],
           Read.profiles)

\* The condition of the operation does not hold: the answer is a refusal, and nothing is written.
Unwilling(r) ==
    /\ pc[r] = "locked"
    /\ \/ ask[r].op \in ProfileOps \ {"create_profile"} /\ ~HasProfile(r)
       \/ ask[r].op = "create_profile" /\ HasProfile(r)
       \/ ask[r].op \in {"create_profile", "update_profile"} /\ ask[r].tools = NoTools
       \/ ask[r].op = "duplicate_profile" /\ ask[r].as \in DOMAIN Read.profiles
       \/ ask[r].op = "create_provider" /\ HasProvider(r)
       \/ ask[r].op \in ProviderOps \ {"create_provider"} /\ ~HasProvider(r)
       \/ /\ ask[r].op = "set_model_enabled" /\ HasProvider(r)
          /\ Read.providers[ask[r].id].models = "none"
    /\ Answer(r, "locked", "refused")
    /\ UNCHANGED <<doc, declined, keys, ask, draft>>

\* test: the record in the reading it began with is marked; the file is not read again.  Formats that
\* were recorded before stay when it cannot tell.
Test(r) ==
    /\ pc[r] = "locked" /\ ask[r].op = "test"
    /\ Goto(r, "locked", "write")
    /\ draft' = [draft EXCEPT
           ![r].providers[ask[r].id].tested = TRUE,
           ![r].providers[ask[r].id].formats = IF probe[r].served = None THEN @ ELSE probe[r].served]
    /\ UNCHANGED <<doc, declined, keys, lock, ask>>

\* discover reads the file again, and takes it for granted that the provider is still there.
Discover(r) ==
    /\ pc[r] = "locked" /\ ask[r].op = "discover"
    /\ IF HasProvider(r)
       THEN /\ Goto(r, "locked", "write")
            /\ draft' = [draft EXCEPT ![r] = [Read EXCEPT !.providers[ask[r].id].models = "on"]]
            /\ UNCHANGED lock
       ELSE Answer(r, "locked", "panicked") /\ UNCHANGED draft
    /\ UNCHANGED <<doc, declined, keys, ask>>

\* remove_provider, once the tools' files are done: the key, then the record.
RemoveProvider(r) ==
    /\ pc[r] = "locked" /\ ask[r].op = "remove_provider"
    /\ Goto(r, "locked", "forget")
    /\ draft' = [draft EXCEPT ![r].providers = Drop(@, ask[r].id)]
    /\ UNCHANGED <<doc, declined, keys, lock, ask>>

\* Mutant of Forget: the key is left where it is.
ForgetNot(r) ==
    /\ Goto(r, "forget", "write")
    /\ UNCHANGED <<doc, declined, keys, lock, ask, draft>>

Forget(r) ==
    /\ \/ /\ Goto(r, "forget", "write")
          /\ keys' = keys \ {ask[r].id}
          /\ UNCHANGED lock
       \/ /\ "keychain" \in Faults
          /\ Answer(r, "forget", "refused")
          /\ UNCHANGED keys
    /\ UNCHANGED <<doc, declined, ask, draft>>

\* Whatever record there was is replaced, and the decline goes before the file is written; that
\* the list of declines could not be written is told to nobody.
AcceptHarvest(r) ==
    /\ pc[r] = "locked" /\ ask[r].op = "accept_harvest"
    /\ Goto(r, "locked", "write")
    /\ \/ declined' = declined \ {ask[r].id}
       \/ "store" \in Faults /\ UNCHANGED declined
    /\ \E name \in Names :
          draft' = [draft EXCEPT ![r] = [Read EXCEPT !.providers = Put(@, ask[r].id, Fresh(name))]]
    /\ UNCHANGED <<doc, keys, lock, ask>>

DeclineHarvest(r) ==
    /\ pc[r] = "locked" /\ ask[r].op = "decline_harvest"
    /\ \/ declined' = declined \cup {ask[r].id}
       \/ "store" \in Faults /\ UNCHANGED declined
    /\ Answer(r, "locked", "changed")
    /\ UNCHANGED <<doc, keys, ask, draft>>

\* write_atomically of the whole file.
Write(r) ==
    /\ \/ doc' = draft[r] /\ Answer(r, "write", "changed")
       \/ "store" \in Faults /\ UNCHANGED doc /\ Answer(r, "write", "refused")
    /\ UNCHANGED <<declined, keys, ask, draft>>

Crash(r) ==
    /\ "crash" \in Faults
    /\ pc[r] \in Busy
    /\ Answer(r, pc[r], "dead")
    /\ UNCHANGED <<doc, declined, keys, ask, draft>>

\* Somebody breaks the file by hand.
Spoil ==
    /\ "spoil" \in Faults
    /\ doc # Unreadable
    /\ doc' = Unreadable
    /\ UNCHANGED <<declined, keys, lock, pc, ask, draft>>

WriteStore(r) ==
    \/ CreateProfile(r) \/ UpdateProfile(r) \/ RenameProfile(r) \/ DuplicateProfile(r)
    \/ DeleteProfile(r) \/ CreateProvider(r) \/ RenameProvider(r) \/ SetProviderEnabled(r)
    \/ SetModelEnabled(r) \/ Unwilling(r)

Call(r) ==
    \/ Start(r) \/ Straight(r) \/ ReadFirst(r) \/ AskCatalogue(r) \/ StoreKey(r) \/ SetCredential(r)
    \/ TakeLock(r) \/ GiveUp(r)
    \/ WriteStore(r) \/ Test(r) \/ Discover(r) \/ RemoveProvider(r) \/ Forget(r)
    \/ AcceptHarvest(r) \/ DeclineHarvest(r) \/ Write(r) \/ Crash(r)

Next ==
    /\ \/ (\E r \in Requests : Call(r)) /\ UNCHANGED probe
       \/ \E r \in Requests : Probe(r)
       \/ Spoil /\ UNCHANGED probe
    /\ UNCHANGED host

Spec == Init /\ [][Next]_vars
-----------------------------------------------------------------------------
(* PROPERTIES *)

Fields == {"name", "enabled", "tested", "formats", "models", "tools"}

\* The fields of a record that an operation is there to change: all when it makes or ends the record.
OwnFields(op) ==
    IF op \in {"rename_provider", "rename_profile"} THEN {"name"}
    ELSE IF op = "update_profile" THEN {"tools"}
    ELSE IF op = "set_provider_enabled" THEN {"enabled"}
    ELSE IF op = "test" THEN {"tested", "formats"}
    ELSE IF op \in {"discover", "set_model_enabled"} THEN {"models"}
    ELSE Fields

Target(a) == IF a.op = "duplicate_profile" THEN a.as ELSE a.id

\* What one operation may do to one of the two lists.
SameBut(old, new, op, id) ==
    /\ \A i \in (DOMAIN old \cup DOMAIN new) \ {id} :
          i \in DOMAIN old \cap DOMAIN new /\ new[i] = old[i]
    /\ OwnFields(op) # Fields =>
          /\ id \in DOMAIN old \cap DOMAIN new
          /\ \A f \in DOMAIN old[id] \ OwnFields(op) : new[id][f] = old[id][f]

\* What a write may do to the file, asked for a.
OnlyAsked(old, new, a) ==
    IF a.op \in ProfileOps
    THEN /\ new.providers = old.providers
         /\ SameBut(old.profiles, new.profiles, a.op, Target(a))
    ELSE /\ new.profiles = old.profiles
         /\ SameBut(old.providers, new.providers, a.op, a.id)

\* lib.rs: the lock is taken by "any write to the store".  A write changes, of the file as it is at
\* that moment, the record it was asked about and in it what it was asked to change: nothing another
\* process wrote in between is undone.
NoLostUpdate ==
    [][\A r \in Requests :
          pc[r] = "write" /\ pc'[r] = "changed" /\ doc # Unreadable =>
              OnlyAsked(doc, doc', ask[r])]_<<doc, pc>>

\* lib.rs, handle: "a panic here would take the host application down".
NeverPanics == \A r \in Requests : pc[r] # "panicked"

\* probe.rs: "a half-verdict is worse than none", and "when the control answers too, the honest verdict is
\* cannot tell".  Whatever happens to the network half way and whatever tests and other operations came
\* before, the formats recorded of a provider are those its host serves.
FormatsAreEvidence ==
    \A i \in DOMAIN Read.providers :
        Read.providers[i].formats # None => ~host.gateway /\ Read.providers[i].formats = host.serves

\* lib.rs, remove_provider: "a secret outliving its owner is a secret with no visible owner".  Between
\* requests every stored key belongs to a provider in the file.
NoOrphanKey ==
    (\A r \in Requests : pc[r] \notin Busy) => keys \subseteq DOMAIN Read.providers
=============================================================================
