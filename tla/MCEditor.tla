------------------------------ MODULE MCEditor ------------------------------
(***************************************************************************)
(* Files of both formats, those of the second with a comment in any one    *)
(* place and the short ones with another, and the edits the adapters make: *)
(* an endpoint and a model in Claude Code's env, a slot, a registry entry  *)
(* and the list of enabled providers of OpenCode;                          *)
(* and a slot and a registry entry of Codex, whose files are of every      *)
(* envelope.                                                               *)
(***************************************************************************)
EXTENDS Editor, FiniteSets

\* env: what the tool is told; rest: a key that is none of ours.
Claude == {
    <<"{", "}">>,
    <<"{", "env", ":", "{", "}", "}">>,
    <<"{", "rest", ":", "1", ",", "env", ":", "{", "model", ":", "x", ",", "rest", ":", "x", "}", "}">>,
    <<"{", "env", ":", "{", "rest", ":", "[", "1", ",", "]", "}", ",", "rest", ":", "{", "}", "}">>,
    <<"{", "env", ":", "{", "base", ":", "1", "}", "}">>,
    <<"{", "env", ":", "1", "}">>,
    <<"[", "]">>}

OpenCode == {
    <<"{", "}">>,
    <<"{", "rest", ":", "x", ",", "list", ":", "[", "]", "}">>,
    <<"{", "model", ":", "x", ",", "list", ":", "[", "x", ",", "]", ",", "}">>,
    <<"{", "list", ":", "[", "ours", ",", "x", "]", ",", "rest", ":", "1", "}">>,
    <<"{", "provider", ":", "{", "x", ":", "{", "}", "}", ",", "model", ":", "x", ",", "}">>,
    <<"{", "provider", ":", "1", ",", "list", ":", "ours", "}">>}

\* Bound: files of up to this many tokens get a second comment.
TwiceUpTo == 10

Places(t) == 1..(Len(t) + 1)

Commented(t) ==
    {t} \cup {InsertAt(t, i, "c1") : i \in Places(t)}
        \cup {InsertAt(InsertAt(t, ij[2], "c2"), ij[1], "c1") :
                 ij \in {ij \in Places(t) \X Places(t) : ij[1] <= ij[2] /\ Len(t) <= TwiceUpTo}}

MCFiles ==
    {[tolerance |-> "strict", doc |-> t] : t \in Claude}
        \cup {[tolerance |-> "jsonc", doc |-> t] : t \in UNION {Commented(t) : t \in OpenCode}}

Codex == {
    <<>>,
    <<Pair("model", "x"), Beside(Pair("rest", "1"), "c3")>>,
    <<Comment("c1"), Beside(Pair("model", "x"), "c3"), Header(<<"rest">>), Pair("model", "x"), Comment("c2")>>,
    <<Pair("rest", "1"), Header(<<"providers", "x">>), Pair("base", "x"), Comment("c1"), Header(<<"rest2">>)>>,
    <<Header(<<"rest", "x">>), Comment("c1"), Beside(Header(<<"providers">>), "c3"), Header(<<"rest">>)>>,
    <<Header(<<"providers", "ours">>), Pair("base", "1"), Comment("c1"), Header(<<"providers", "x">>)>>,
    <<Comment("c1"), Header(<<"model">>), Beside(Pair("x", "1"), "c2"), Header(<<"model", "x">>)>>,
    <<Pair("providers", "inline"), Comment("c1")>>}

\* The last line may have no end, and a file of several may mix the two.
Ends(n) == {ends \in [1..n -> {"lf", "crlf", "none"}] : \A i \in 1..(n - 1) : ends[i] # "none"}

MCTomlFiles ==
    UNION {{[bom |-> bom, lines |-> t, ends |-> ends] : bom \in BOOLEAN, ends \in Ends(Len(t))} : t \in Codex}

Edit(op, path, value) == [op |-> op, path |-> path, value |-> value]

MCEdits == [
    strict |->
        {Edit("set_string", <<"env", key>>, <<value>>) : key \in {"base", "model"}, value \in {"x", "y"}}
            \cup {Edit("remove", <<"env", key>>, <<>>) : key \in {"base", "model"}},
    jsonc |->
        {Edit("set_string", <<"model">>, <<"y">>), Edit("remove", <<"model">>, <<>>),
         Edit("set_string", <<"provider", "ours", "base">>, <<"y">>),
         Edit("ensure_object", <<"provider", "ours", "models", "y">>, <<"{", "}">>),
         Edit("remove", <<"provider", "ours">>, <<>>),
         Edit("push_string", <<"list">>, <<"ours">>),
         Edit("remove_from_array", <<"list">>, <<"ours">>)},
    toml |->
        {Edit("set_string", <<"model">>, <<"y">>), Edit("remove", <<"model">>, <<>>),
         Edit("set_string", <<"providers", "ours", "base">>, <<"y">>),
         Edit("set_string", <<"providers", "ours", "name">>, <<"y">>),
         Edit("remove", <<"providers", "ours">>, <<>>)}]
=============================================================================
