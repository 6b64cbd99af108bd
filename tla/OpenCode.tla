------------------------------- MODULE OpenCode ------------------------------
(***************************************************************************)
(* core/src/adapters/opencode.rs: what OpenCode will use, and what a       *)
(* switch writes.  Every file there is counts, the project's without a     *)
(* gate; the user's are read together and the first that exists is         *)
(* written.  A slot holds <<provider, model>>, the key p stands for the    *)
(* registry entry `provider.tapkey-p`: the provider itself when it has the *)
(* base URL, Bare when it has models and nothing else.  Own is an entry of *)
(* the person's, with what it says of the URL and of the key.              *)
(***************************************************************************)
EXTENDS Sequences, SequencesExt

CONSTANTS Providers, Models, None,
    Bare,           \* a registry entry with no base URL
    Own,            \* the id of the person's entry
    Reference       \* a key that is said to be in a variable or a file

INSTANCE Chain

\* The project's files, the tool's own directory, and two of the user's three names.
Order == <<"project", "install", "jsonc", "json">>
Layers == ToSet(Order)
UserFiles == <<"jsonc", "json">>

Path == [main |-> "model", utility |-> "small_model"]
Slots == DOMAIN Path
SlotsOf(key) == {s \in Slots : Path[s] = key}
Settings == {Path[s] : s \in Slots} \cup {"$schema", "enabled_providers", "rest"}
Keys == Settings \cup Providers \cup {Own}

Exists(files, layer) == \E key \in Keys : files[layer][key] # None

\* config_path: the first of the user's files that exists, or the first name.
Written(files) ==
    LET there == {l \in ToSet(UserFiles) : Exists(files, l)}
    IN IF there = {} THEN UserFiles[1] ELSE First(UserFiles, there)

Consulted(key) == [i \in DOMAIN Order |-> <<Order[i], key>>]
Chains(files, slot) == << Consulted(Path[slot]) >>

\* The endpoint the main model's provider has, in the first file that gives it one.
Endpoint(files) ==
    LET main == Effective(files, Consulted("model"))
    IN IF main = None \/ main[1] \notin Providers
       THEN None
       ELSE IF \E l \in Layers : files[l][main[1]] = main[1] THEN main[1] ELSE None

SlotProvider(a, slot) ==
    IF a.slots[slot].provider # None THEN a.slots[slot].provider ELSE a.provider
Assigned(a) == {s \in Slots \cap DOMAIN a.slots : a.slots[s].model # None}
Namespaced(a, slot) == <<SlotProvider(a, slot), a.slots[slot].model>>

\* The tool's provider is registered whole; a slot's own gets an entry for its models if it had none.
Entry(files, a, key) ==
    LET old == files[Written(files)][key]
    IN IF key = a.provider THEN key
       ELSE IF old = None /\ \E s \in Assigned(a) : SlotProvider(a, s) = key THEN Bare
       ELSE old

\* A profile that names no provider writes the schema key and nothing else.  A list of enabled
\* providers is added to where there is one.
Planned(files, a) ==
    LET l == Written(files)
        written(key) ==
            IF key = "$schema" THEN "schema"
            ELSE IF a.provider = None THEN files[l][key]
            ELSE IF key \in Providers THEN Entry(files, a, key)
            ELSE IF key = "enabled_providers" /\ files[l][key] # None
                 THEN files[l][key] \cup {a.provider}
            ELSE IF SlotsOf(key) \cap Assigned(a) # {}
                 THEN Namespaced(a, CHOOSE s \in SlotsOf(key) : TRUE)
            ELSE files[l][key]
    IN [files EXCEPT ![l] = [key \in Keys |-> written(key)]]

\* Mutant of Fingerprint: the model is recorded under the tool's provider.
FingerprintToolProvider(a) ==
    [s \in {t \in Assigned(a) : SlotProvider(a, t) # None} |-> <<a.provider, a.slots[s].model>>]

\* A slot whose provider nobody names is not recorded.
Fingerprint(a) == [s \in {t \in Assigned(a) : SlotProvider(a, t) # None} |-> Namespaced(a, s)]

\* Only the main model of the file tapkey writes is asked.
Refuses(files, p) ==
    LET main == files[Written(files)]["model"] IN main # None /\ main[1] = p

\* The entry goes, and its name in the list; the file is written whether or not it was there.
Removed(files, p) ==
    LET l == Written(files)
        list == files[l]["enabled_providers"]
    IN [files EXCEPT ![l][p] = None,
                     ![l]["enabled_providers"] = IF list = None THEN None ELSE list \ {p},
                     ![l]["rest"] = IF @ = None THEN "empty" ELSE @]
-----------------------------------------------------------------------------
(* What is there to harvest. *)

\* A tapkey entry with a URL points to the key's file; one without has neither.
Said(entry) ==
    IF entry = Bare THEN [url |-> None, key |-> None]
    ELSE IF entry \in Providers THEN [url |-> entry, key |-> Reference]
    ELSE entry

Ids == Providers \cup {Own}
Naming(files, order, id) == {l \in ToSet(order) : files[l][id] # None}
Plain(entry) == {Said(entry).key} \ {None, Reference}

\* known_providers leaves the project's files out and asks the user's before the install's.
Harvested == UserFiles \o <<"install">>

Offered(files, id, l) == [id |-> id, place |-> l, keys |-> Plain(files[l][id])]

\* Mutant of Known: an entry without a URL does not end the search for its id.
KnownWithURL(files) ==
    LET naming(id) == {l \in Naming(files, Harvested, id) : Said(files[l][id]).url # None}
    IN {Offered(files, id, First(Harvested, naming(id))) : id \in {i \in Ids : naming(i) # {}}}

\* The first file that names an id speaks for it, and unless it gives a URL there is no offer.
Known(files) ==
    LET naming(id) == Naming(files, Harvested, id)
        speaks(id) == First(Harvested, naming(id))
    IN {Offered(files, id, speaks(id)) : id \in
            {i \in Ids : naming(i) # {} /\ Said(files[speaks(i)][i]).url # None}}

\* read_inline: the first key under the id in the user's files; the install's are not looked at.
ReadInline(files, id) ==
    LET plain == {l \in Naming(files, UserFiles, id) : Plain(files[l][id]) # {}}
    IN IF plain = {} THEN None ELSE Said(files[First(UserFiles, plain)][id]).key
=============================================================================
