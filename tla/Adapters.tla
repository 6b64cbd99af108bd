------------------------------ MODULE Adapters -------------------------------
(***************************************************************************)
(* core/src/adapters/mod.rs and the parts of core/src/lib.rs that go       *)
(* through it: one tool, its layered configuration, the person and the     *)
(* tool who edit it, and tapkey's switch, removal and accepted drift, each *)
(* a whole call (how calls overlap, fail and roll back is module Tapkey).  *)
(* The three tools' own rules are ClaudeCode, Codex and OpenCode.          *)
(***************************************************************************)
EXTENDS Naturals, FiniteSets, Sequences

CONSTANTS Providers, Models, None, Blank, Bare, Own, Reference,
    Asks,           \* per tool, the assignments there are profiles for
    Edits,          \* per tool, the cells others may write: <<layer, key, value>>
    Exports,        \* the variables the login shell may export
    Exported,       \* what it exports them as
    Givens,         \* what of a project and of the login shell tapkey may have been given
    MaxEdits        \* bound: edits by others

CL == INSTANCE ClaudeCode
CX == INSTANCE Codex
OC == INSTANCE OpenCode
INSTANCE Chain

Tools == {"claude", "codex", "opencode"}

Slots(t) == CASE t = "claude" -> CL!Slots [] t = "codex" -> CX!Slots [] OTHER -> OC!Slots
Layers(t) == CASE t = "claude" -> CL!Layers [] t = "codex" -> CX!Layers [] OTHER -> OC!Layers
Keys(t) == CASE t = "claude" -> CL!Keys [] t = "codex" -> CX!Keys [] OTHER -> OC!Keys

\* What a profile says of one slot: nothing, a model, or a model at a provider of its own.
SlotAssignment == [provider : Providers \cup {None}, model : Models \cup {None}]

ASSUME AdaptersAssumption ==
    /\ None \notin Providers \cup Models \cup {Blank, Bare, Exported, "schema", "empty"}
    /\ None \notin Providers \X Models
    /\ {Bare, Blank, Own} \cap Providers = {}
    /\ (Providers \cup {Own}) \cap (CX!Settings \cup OC!Settings) = {}
    /\ \A t \in Tools : None \notin (Layers(t) \X Keys(t)) \cup Asks[t]
    /\ \A t \in Tools : \A a \in Asks[t] :
        /\ a.provider \in Providers \cup {None}
        /\ DOMAIN a.slots \subseteq Slots(t)
        /\ \A s \in DOMAIN a.slots : a.slots[s] \in SlotAssignment
    /\ \A t \in Tools : \A e \in Edits[t] : e[1] \in Layers(t) /\ e[2] \in Keys(t)
    /\ Exports \subseteq CL!Keys
    /\ Givens \subseteq SUBSET {"project", "shell"}
    /\ MaxEdits \in Nat

VARIABLES
    tool,       \* which tool this is
    given,      \* which of the project's layer and the login shell's exports tapkey knows
    files,      \* its configuration: layer, then key, then value or None
    owned,      \* state.json: the slots tapkey owns here and what each was left at
    removed,    \* the providers that have been removed
    theirs,     \* history: the cells whose value is somebody else's
    last,       \* history: the assignment last written to the files, or None
    edits

vars == <<tool, given, files, owned, removed, theirs, last, edits>>

Nothing == [s \in {} |-> None]

Init ==
    /\ tool \in Tools
    /\ given \in Givens
    /\ \E exports \in SUBSET (IF tool = "claude" THEN Exports ELSE {}) :
        /\ files = [l \in Layers(tool) |-> [k \in Keys(tool) |->
                        IF l = "shell" /\ k \in exports THEN Exported ELSE None]]
        /\ theirs = {"shell"} \X exports
    /\ owned = Nothing
    /\ removed = {}
    /\ last = None
    /\ edits = 0

------------------------------------------------------------------------------
(* The trait: one rule per tool behind each name. *)

\* What tapkey sees of the files.  The tool itself always reads the project it is started in and
\* the variables it is started with; tapkey has of them what its Env was given.  The shipped
\* program's, Env::real, has neither a project nor an export, whatever there is.  (Claude Code's
\* layer of the project holds the administrator's managed file as well, which is always read.)
Hidden == {"project", "shell"} \ given
View ==
    [l \in Layers(tool) |->
        IF l \in Hidden THEN [k \in Keys(tool) |-> None] ELSE files[l]]

Chains(s) ==
    CASE tool = "claude" -> CL!Chains(files, s)
      [] tool = "codex" -> CX!Chains(files, s)
      [] OTHER -> OC!Chains(files, s)

Endpoint ==
    CASE tool = "claude" -> CL!Endpoint(files)
      [] tool = "codex" -> CX!Endpoint(files)
      [] OTHER -> OC!Endpoint(files)

\* Only Claude Code's depends on more than the file that is written.
Planned(a) ==
    CASE tool = "claude" -> [files EXCEPT !["user"] = CL!Planned(View, a)["user"]]
      [] tool = "codex" -> CX!Planned(files, a)
      [] OTHER -> OC!Planned(files, a)

Fingerprint(a) ==
    CASE tool = "claude" -> CL!Fingerprint(a)
      [] tool = "codex" -> CX!Fingerprint(a)
      [] OTHER -> OC!Fingerprint(a)

Skips == tool = "codex" /\ CX!Skips(files)

Refuses(p) ==
    CASE tool = "claude" -> CL!Refuses(View, p)
      [] tool = "codex" -> CX!Refuses(files, p)
      [] OTHER -> OC!Refuses(files, p)

Removal(p) ==
    CASE tool = "claude" -> files
      [] tool = "codex" -> CX!Removed(files, p)
      [] OTHER -> OC!Removed(files, p)

Known ==
    CASE tool = "claude" -> CL!Known(files)
      [] tool = "codex" -> CX!Known(files)
      [] OTHER -> OC!Known(files)

\* Codex keeps no key to be read.
ReadInline(id) ==
    CASE tool = "claude" -> CL!ReadInline(files)
      [] tool = "codex" -> None
      [] OTHER -> OC!ReadInline(files, id)

\* What tapkey finds each slot to read as, one value for each key it is reached through.
Readings(s) == {Effective(View, Chains(s)[i]) : i \in DOMAIN Chains(s)}

Drifted(s) == s \in DOMAIN owned /\ Readings(s) # {owned[s]}

------------------------------------------------------------------------------
(* The calls. *)

\* History: a cell tapkey gives another value is tapkey's from then on; a switch of Claude Code
\* speaks for every path it owns, those it leaves as they are included.
Unclaimed == {c \in theirs : Value(files', c) = Value(files, c)}
Spoken == IF tool = "claude" THEN {"user"} \X CL!OwnedPaths ELSE {}

\* The profile's assignment for this tool is written, and recorded whether or not the tool was
\* left out.  A provider that is no longer there refuses the switch; one a slot names is not asked.
Switch(a) ==
    /\ a.provider \notin removed
    /\ files' = IF Skips THEN files ELSE Planned(a)
    /\ last' = IF Skips THEN None ELSE a
    /\ owned' = Fingerprint(a)
    /\ theirs' = Unclaimed \ Spoken
    /\ UNCHANGED <<tool, given, removed, edits>>

\* A profile that says nothing of this tool: what was recorded of it goes.
SwitchOthers ==
    /\ owned' = Nothing
    /\ UNCHANGED <<tool, given, files, removed, theirs, last, edits>>

RemoveProvider(p) ==
    /\ p \notin removed
    /\ ~Refuses(p)
    /\ files' = Removal(p)
    /\ removed' = removed \cup {p}
    /\ theirs' = Unclaimed
    /\ UNCHANGED <<tool, given, owned, last, edits>>

\* Mutant of AcceptDrift: every slot is taken over, also those tapkey does not own.
AcceptDriftEverywhere ==
    /\ owned # Nothing
    /\ owned' = [s \in {t \in Slots(tool) : Effective(View, Chains(t)[1]) # None} |->
                    Effective(View, Chains(s)[1])]
    /\ UNCHANGED <<tool, given, files, removed, theirs, last, edits>>

\* What each owned slot reads as first is recorded; one that reads as nothing keeps its record.
AcceptDrift ==
    /\ owned # Nothing
    /\ owned' = [s \in DOMAIN owned |->
                    LET live == Effective(View, Chains(s)[1])
                    IN IF live = None THEN owned[s] ELSE live]
    /\ UNCHANGED <<tool, given, files, removed, theirs, last, edits>>

\* The person, the tool or a repository writes a key.
Edit(e) ==
    /\ edits < MaxEdits
    /\ files[e[1]][e[2]] # e[3]
    /\ files' = [files EXCEPT ![e[1]][e[2]] = e[3]]
    /\ theirs' = theirs \cup {<<e[1], e[2]>>}
    /\ edits' = edits + 1
    /\ UNCHANGED <<tool, given, owned, removed, last>>

Next ==
    \/ \E a \in Asks[tool] : Switch(a)
    \/ SwitchOthers
    \/ \E p \in Providers : RemoveProvider(p)
    \/ AcceptDrift
    \/ \E e \in Edits[tool] : Edit(e)

Spec == Init /\ [][Next]_vars

------------------------------------------------------------------------------
\* Somebody else decided what a chain reads as: theirs is the winning cell, one before it, or the
\* key that lets the project's file count.
DisputedIn(f, claims, chain) ==
    \/ UpTo(chain, Wins(f, chain)) \cap claims # {}
    \/ <<"user", "trust_level">> \in claims

\* As the tool reads it, and as tapkey does.
Disputed(chain) == DisputedIn(files, theirs, chain)
Seen == {c \in theirs : c[1] \notin Hidden}
DisputedInView(chain) == DisputedIn(View, Seen, chain)

\* What a profile asks of a slot, whatever the adapter records.
Wanted(s) ==
    LET x == last.slots[s]
    IN IF tool # "opencode" THEN x.model
       ELSE IF x.provider # None THEN <<x.provider, x.model>> ELSE <<last.provider, x.model>>

WantedSlots ==
    IF last = None \/ (tool = "opencode" /\ last.provider = None) THEN {}
    ELSE {s \in DOMAIN last.slots : last.slots[s].model # None}

EndpointKeys ==
    CASE tool = "claude" -> {CL!ENDPOINT_VAR}
      [] tool = "codex" -> {"model_provider"} \cup Providers
      [] OTHER -> {"model"} \cup Providers

SlotsHold ==
    \A s \in WantedSlots : \A i \in DOMAIN Chains(s) :
        Disputed(Chains(s)[i]) \/ Effective(files, Chains(s)[i]) = Wanted(s)

EndpointHolds ==
    last # None /\ last.provider # None
    /\ (tool = "opencode" => "main" \in WantedSlots /\ last.slots["main"].provider = None)
    /\ (\A c \in theirs : c[1] = "shell" \/ c[2] \notin EndpointKeys)
    => Endpoint = last.provider

\* What the tool will use in a slot is what the profile last written says, through every key the
\* slot is reached by, unless somebody else wrote a place that counts at least as much: a shell
\* export under the user's file does not, nor a deprecated name the file itself keeps.  And the
\* provider it will send to is the profile's, nobody else having written the keys it is found by:
\* Claude Code's and Codex's one endpoint, OpenCode's for a main model that names none of its own.
\* (claude.rs:341-365, codex.rs:194-214, opencode.rs:276-308; resolve and endpoint in each)
SwitchHolds == SlotsHold /\ EndpointHolds

\* An export tapkey knows of, of the variable it empties over it.
Exposed(s, cell) == tool = "claude" /\ "shell" \in given /\ cell = <<"shell", CL!OWNED[s]>>

\* Nothing an earlier profile put in a slot is left when the profile assigns that slot nothing:
\* Claude Code's variable is gone, or emptied over the shell's export of it where tapkey knows of
\* the export (else the export is what the tool uses); Codex's key is gone.
\* The deprecated variable, kept in step with an assignment, is not taken back with it; OpenCode
\* leaves such a slot alone.  (claude.rs:338-340,360-365,376-387, codex.rs:210-213)
UnassignedIsCleared ==
    last # None /\ tool # "opencode" =>
        \A s \in Slots(tool) \ WantedSlots :
            (tool = "claude" \/ s \in DOMAIN last.slots) =>
            \A i \in DOMAIN Chains(s) :
                LET winner == Wins(files, Chains(s)[i])
                IN \/ winner = None
                   \/ Value(files, winner) = Blank
                   \/ winner[2] = CL!DEPRECATED_UTILITY
                   \/ winner \in theirs /\ ~Exposed(s, winner)
                   \/ tool = "claude" /\ <<"user", CL!OWNED[s]>> \in theirs

\* A slot is reported as drifted only when somebody else wrote a place that decides it, after a
\* switch that wrote the tool, in a file tapkey reads: tapkey's own switches, removals and accepts do
\* not look like drift, nor does what only the tool reads.
\* OpenCode without a provider is written nothing and recorded all the same.
\* (fingerprint.rs:3-4,66-68; fingerprint in each adapter)
NoFalseDrift ==
    last # None /\ (tool = "opencode" => last.provider # None) =>
        \A s \in Slots(tool) :
            Drifted(s) => \E i \in DOMAIN Chains(s) : DisputedInView(Chains(s)[i])

\* Accepting drift settles every slot tapkey owns that reads one way, and takes on no other slot.
\* (lib.rs:634-652)
AcceptSettles ==
    [][AcceptDrift =>
        /\ DOMAIN owned' = DOMAIN owned
        /\ \A s \in DOMAIN owned :
            Cardinality(Readings(s)) = 1 /\ None \notin Readings(s) => ~Drifted(s)']_vars

\* A provider that was removed is not the one tapkey left the tool selecting, in the file tapkey
\* writes, unless somebody else wrote the selection.  (plan_removal in each adapter, lib.rs:1145)
Selecting(p) ==
    CASE tool = "claude" ->
            /\ Endpoint = p
            /\ ~Disputed(CL!Var(CL!ENDPOINT_VAR))
      [] tool = "codex" ->
            /\ files["user"]["model_provider"] = p
            /\ <<"user", "model_provider">> \notin theirs
      [] OTHER ->
            LET cell == <<OC!Written(files), "model">>
            IN /\ cell \notin theirs
               /\ Value(files, cell) # None /\ Value(files, cell)[1] = p

NoBrokenTool == \A p \in removed : ~Selecting(p)

\* adapters/mod.rs, CredentialSource: plaintext in a file tapkey parses is "re-readable at accept
\* time".  Two readers that share no code agree: whatever the tool's files say of an id, in whichever
\* of them, the key accept_harvest reads again is the one beside the offer's URL.  An offer out of the
\* install's own directory is the exception: the key is not found there and the accept is refused.
\* (known_providers in each adapter, credentials.rs:13-46, lib.rs:977-1005)
OffersKeepTheirKey ==
    \A o \in Known : o.place # "install" /\ o.keys # {} => ReadInline(o.id) \in o.keys
=============================================================================
