----------------------------- MODULE MCAdapters ------------------------------
(***************************************************************************)
(* Two providers, two models, and for each tool a few profiles and the     *)
(* edits that reach its own rules: the deprecated variable and the shell   *)
(* for Claude Code, trust and the profile key for Codex, the second file   *)
(* and the list of enabled providers for OpenCode; and what the person has *)
(* of providers and keys in each.                                          *)
(***************************************************************************)
EXTENDS Adapters

CONSTANTS p, q, m, n, other, key1, key2

At(model) == [provider |-> None, model |-> model]
Elsewhere(x, model) == [provider |-> x, model |-> model]
None_ == At(None)

\* An entry of the person's: its URL is all one, its key each file's own.
Entry(url, key) == [url |-> url, key |-> key]

MCAsks ==
    [claude |->
        {[provider |-> p, slots |-> [main |-> At(m), utility |-> At(m)]],
         [provider |-> q, slots |-> [main |-> Elsewhere(p, n), opus |-> At(n)]],
         [provider |-> None, slots |-> [utility |-> None_]]},
     codex |->
        {[provider |-> p, slots |-> [main |-> At(m), utility |-> At(m)]],
         [provider |-> q, slots |-> [main |-> At(n), utility |-> None_]],
         [provider |-> None, slots |-> [review |-> At(n)]]},
     opencode |->
        {[provider |-> p, slots |-> [main |-> At(m), utility |-> Elsewhere(q, n)]],
         [provider |-> q, slots |-> [main |-> At(m)]],
         [provider |-> None, slots |-> [main |-> At(n), utility |-> Elsewhere(p, n)]]}]

MCEdits ==
    [claude |->
        {<<"project", "ANTHROPIC_BASE_URL", q>>, <<"project", "ANTHROPIC_BASE_URL", None>>,
         <<"project", "ANTHROPIC_MODEL", other>>,
         <<"user", "model", other>>, <<"user", "ANTHROPIC_MODEL", None>>,
         <<"user", "ANTHROPIC_SMALL_FAST_MODEL", other>>,
         <<"user", "ANTHROPIC_DEFAULT_OPUS_MODEL", other>>,
         <<"user", "ANTHROPIC_AUTH_TOKEN", key1>>, <<"user", "ANTHROPIC_API_KEY", key2>>},
     codex |->
        {<<"user", "trust_level", "trusted">>, <<"project", "model", other>>,
         <<"project", "model_provider", q>>, <<"user", "model_provider", None>>,
         <<"user", "model_provider", p>>, <<"user", "consolidation_model", other>>,
         <<"user", "profile", other>>, <<"user", "profile", None>>,
         <<"user", Own, other>>},
     opencode |->
        {<<"jsonc", "rest", other>>, <<"json", "rest", other>>,
         <<"json", "enabled_providers", {}>>, <<"project", "model", <<other, other>>>>,
         <<"json", "model", <<other, other>>>>, <<"jsonc", "model", None>>,
         <<"jsonc", "small_model", None>>,
         <<"jsonc", Own, Entry(other, key1)>>, <<"jsonc", Own, Entry(other, Reference)>>,
         <<"jsonc", Own, Entry(None, key1)>>, <<"json", Own, Entry(other, key2)>>,
         <<"json", Own, Entry(None, key2)>>, <<"install", Own, Entry(other, other)>>}]

\* The shipped program's world, the same with a managed file (which is read in any case), and all
\* of it, as the tests build it.
MCGivens == {{}, {"project"}, {"project", "shell"}}

MCExports == {"ANTHROPIC_BASE_URL", "ANTHROPIC_MODEL", "ANTHROPIC_DEFAULT_OPUS_MODEL",
              "ANTHROPIC_SMALL_FAST_MODEL"}
=============================================================================
