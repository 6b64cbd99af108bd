-------------------------------- MODULE Codex --------------------------------
(***************************************************************************)
(* core/src/adapters/codex.rs: what Codex will use, and what a switch      *)
(* writes.  Two files, the project's and the user's; the project's counts  *)
(* only while the user's trusts it, and for no key of the denylist.  The   *)
(* key p stands for the table `model_providers.tapkey-p`, its value for    *)
(* the table's base_url, which is the provider itself.                     *)
(***************************************************************************)
EXTENDS Sequences, SequencesExt

CONSTANTS Providers, Models, None,
    Own             \* the id of a table of the person's

INSTANCE Chain

Layers == {"project", "user"}

\* The keys each owned slot is reached through: one each, the utility slot two.
Paths ==
    [main |-> <<"model">>, review |-> <<"review_model">>, subagent |-> <<"default_subagent_model">>,
     utility |-> <<"extract_model", "consolidation_model">>, effort |-> <<"model_reasoning_effort">>]
Slots == DOMAIN Paths
SlotKeys == UNION {ToSet(Paths[s]) : s \in Slots}
SlotOf(key) == CHOOSE s \in Slots : key \in ToSet(Paths[s])

Settings == SlotKeys \cup {"profile", "model_provider", "trust_level"}
Keys == Settings \cup Providers \cup {Own}
PROJECT_DENYLIST == Providers \cup {"profile", "model_provider"}

Trusted(files) == files["user"]["trust_level"] = "trusted"

Consulted(files, key) ==
    (IF Trusted(files) /\ key \notin PROJECT_DENYLIST THEN << <<"project", key>> >> ELSE << >>)
        \o << <<"user", key>> >>

Chains(files, slot) == [i \in DOMAIN Paths[slot] |-> Consulted(files, Paths[slot][i])]

Endpoint(files) ==
    LET id == Effective(files, Consulted(files, "model_provider"))
    IN IF id \in Providers THEN Effective(files, Consulted(files, id)) ELSE None

\* A `profile` key keeps Codex from starting: the tool is left out and the key is named.
Skips(files) == files["user"]["profile"] # None

\* A profile that names no provider leaves the selected one; a slot it does not speak of is left,
\* a slot it assigns nothing is taken out.
Planned(files, a) ==
    LET spoken == {k \in SlotKeys : SlotOf(k) \in DOMAIN a.slots}
        written(key) ==
            IF key \in spoken THEN a.slots[SlotOf(key)].model
            ELSE IF a.provider # None /\ key \in {"model_provider", a.provider} THEN a.provider
            ELSE files["user"][key]
    IN [files EXCEPT !["user"] = [key \in Keys |-> written(key)]]

Fingerprint(a) ==
    [s \in {t \in Slots \cap DOMAIN a.slots : a.slots[t].model # None} |-> a.slots[s].model]

Refuses(files, p) == files["user"]["model_provider"] = p

\* The table goes; what else the file says stays.
Removed(files, p) == [files EXCEPT !["user"][p] = None]

\* known_providers: the tables in the user's file, tapkey's too.  None holds a key.
Known(files) ==
    {[id |-> i, place |-> "user", keys |-> {}] :
        i \in {j \in Providers \cup {Own} : files["user"][j] # None}}
=============================================================================
