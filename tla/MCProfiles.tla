----------------------------- MODULE MCProfiles -----------------------------
(***************************************************************************)
(* Two ids and two names, so that an operation has another record, and     *)
(* another field of its own record, to spoil.                              *)
(***************************************************************************)
EXTENDS Profiles, TLC

CONSTANTS a, b, m, n, some

On(op, i) == [op |-> op, id |-> i]
Naming(op, i, x) == [op |-> op, id |-> i, name |-> x]
Setting(op, i, e) == [op |-> op, id |-> i, enabled |-> e]

\* Every operation that reads the file under the lock.
MCLocked ==
    {Naming("create_provider", a, m), Naming("rename_provider", a, n),
     Setting("set_provider_enabled", a, FALSE), Setting("set_model_enabled", a, FALSE),
     On("discover", a), On("accept_harvest", b), On("decline_harvest", b),
     [op |-> "create_profile", id |-> a, name |-> m, tools |-> some],
     [op |-> "create_profile", id |-> b, name |-> m, tools |-> NoTools],
     [op |-> "update_profile", id |-> a, tools |-> some],
     [op |-> "duplicate_profile", id |-> a, as |-> b],
     Naming("rename_profile", a, n), On("delete_profile", a), On("set_credential", a)}

\* The operations with a key, and those that need a provider to be there.
MCKeys ==
    {On("accept_harvest", a), On("accept_harvest", b), On("remove_provider", a),
     On("remove_provider", b), On("test", a), On("discover", a)}

\* A store with two providers, one with a catalogue, and a profile.
MCFilled ==
    [providers |-> (a :> [Fresh(m) EXCEPT !.models = "on"] @@ b :> Fresh(m)),
     profiles |-> (a :> [name |-> m, tools |-> some])]
MCOneProvider == [providers |-> a :> Fresh(m), profiles |-> [i \in {} |-> None]]

MCDocs == {Unreadable, MCFilled, MCOneProvider}
MCFilledOnly == {MCFilled}

MCFormats == <<"anthropic_messages", "openai_chat">>

\* Two that route, each with its catalogue behind another door, and one that answers everything.
MCHosts ==
    {[serves |-> {"openai_chat"}, gateway |-> FALSE, catalogue |-> {"Authorization"}],
     [serves |-> {"anthropic_messages", "openai_chat"}, gateway |-> FALSE, catalogue |-> {"x-api-key"}],
     [serves |-> {}, gateway |-> TRUE, catalogue |-> {}]}
MCOneHost == {[serves |-> {}, gateway |-> FALSE, catalogue |-> Doors]}

Symmetry == Permutations(Requests)
=============================================================================
