----------------------------- MODULE ClaudeCode ------------------------------
(***************************************************************************)
(* core/src/adapters/claude.rs: what Claude Code will use, and what a      *)
(* switch writes.  Everything tapkey writes goes into the `env` block of   *)
(* the user's settings file; the files above it (managed, project local,   *)
(* project) are one layer here, the login shell's exports another, below.  *)
(* A provider's base URL is the provider itself.                           *)
(***************************************************************************)
EXTENDS Sequences

CONSTANTS Providers, Models, None,
    Blank           \* the empty string that neutralises a shell export

INSTANCE Chain

Layers == {"project", "user", "shell"}

\* The variable each slot writes, and those that carry a display companion.
OWNED ==
    [main |-> "ANTHROPIC_MODEL", utility |-> "ANTHROPIC_DEFAULT_HAIKU_MODEL",
     subagent |-> "CLAUDE_CODE_SUBAGENT_MODEL", opus |-> "ANTHROPIC_DEFAULT_OPUS_MODEL",
     sonnet |-> "ANTHROPIC_DEFAULT_SONNET_MODEL", fable |-> "ANTHROPIC_DEFAULT_FABLE_MODEL"]
Companion ==
    [opus |-> "ANTHROPIC_DEFAULT_OPUS_MODEL_NAME", sonnet |-> "ANTHROPIC_DEFAULT_SONNET_MODEL_NAME",
     fable |-> "ANTHROPIC_DEFAULT_FABLE_MODEL_NAME"]
ENDPOINT_VAR == "ANTHROPIC_BASE_URL"
DEPRECATED_UTILITY == "ANTHROPIC_SMALL_FAST_MODEL"
KeyCells == << <<"user", "ANTHROPIC_AUTH_TOKEN">>, <<"user", "ANTHROPIC_API_KEY">> >>
KeyVars == {KeyCells[i][2] : i \in DOMAIN KeyCells}

Slots == DOMAIN OWNED
SlotsOf(key) ==
    {s \in Slots : key = OWNED[s] \/ (s \in DOMAIN Companion /\ key = Companion[s])}
Keys == {OWNED[s] : s \in Slots} \cup {Companion[s] : s \in DOMAIN Companion}
            \cup {ENDPOINT_VAR, DEPRECATED_UTILITY, "model", "ANTHROPIC_DEFAULT_MODEL"}
            \cup KeyVars

\* What tapkey may write in a settings file.
OwnedPaths == Keys \ ({"model", "ANTHROPIC_DEFAULT_MODEL"} \cup KeyVars)

\* An environment variable: the settings files' `env` blocks, then what the shell exports.
Var(name) == << <<"project", name>>, <<"user", name>>, <<"shell", name>> >>
Key(name) == << <<"project", name>>, <<"user", name>> >>

Chains(files, slot) ==
    IF slot = "main"
    THEN << Var(OWNED.main) \o Key("model") \o Var("ANTHROPIC_DEFAULT_MODEL") >>
    ELSE IF slot = "utility" THEN << Var(DEPRECATED_UTILITY) \o Var(OWNED.utility) >>
    ELSE << Var(OWNED[slot]) >>

Endpoint(files) == Effective(files, Var(ENDPOINT_VAR))

Model(a, slot) == IF slot \in DOMAIN a.slots THEN a.slots[slot].model ELSE None

\* Mutant of Cleared: what the file says is left there.
ClearedNot(files, key) == files["user"][key]

\* Taken out of the file, or emptied when the shell is known to export it.  (The files here are
\* those tapkey sees: the shipped program is told of no export, Env::real, and only takes out.)
Cleared(files, key) == IF files["shell"][key] = None THEN None ELSE Blank

Put(files, key, value) == IF value = None THEN Cleared(files, key) ELSE value

\* Mutant of Mirrored: the deprecated variable is left as it was.
MirroredNot(files, a) == files["user"][DEPRECATED_UTILITY]

\* The variable that lost its name is kept in step where the file has it, and nowhere else.
Mirrored(files, a) ==
    LET kept == files["user"][DEPRECATED_UTILITY]
    IN IF kept # None /\ Model(a, "utility") # None THEN Model(a, "utility") ELSE kept

Planned(files, a) ==
    LET written(key) ==
            IF key = ENDPOINT_VAR THEN Put(files, key, a.provider)
            ELSE IF key = DEPRECATED_UTILITY THEN Mirrored(files, a)
            ELSE IF SlotsOf(key) # {} THEN Put(files, key, Model(a, CHOOSE s \in SlotsOf(key) : TRUE))
            ELSE files["user"][key]
    IN [files EXCEPT !["user"] = [key \in Keys |-> written(key)]]

Fingerprint(a) == [s \in {t \in Slots : Model(a, t) # None} |-> Model(a, s)]

\* Mutant of Refuses: the provider in use is not looked at.
RefusesNot(files, p) == FALSE

\* No registry: the tool uses the provider its endpoint names, and there is nothing to take out.
Refuses(files, p) == Endpoint(files) = p

\* known_providers: the one endpoint of the user's file, also when it has been emptied.
Known(files) ==
    {[id |-> url, place |-> "user", keys |-> {files["user"][v] : v \in KeyVars} \ {None}] :
        url \in {files["user"][ENDPOINT_VAR]} \ {None}}

\* read_inline: the key in the user's file, whichever of the two variables holds it.
ReadInline(files) == Effective(files, KeyCells)
=============================================================================
