--------------------------- MODULE MCInterceptor ---------------------------
(***************************************************************************)
(* A small instance of Interceptor: three ids whose byte order and folded  *)
(* order differ ("B" < "a" in bytes), one restricted caller, listings in   *)
(* both OpenAI shapes and on the Claude port, and lifecycle payloads that  *)
(* restrict, lift, reorder, fail and are unreadable.                       *)
(***************************************************************************)
EXTENDS Interceptor, TLC

MCModels == {"a", "B", "c"}
MCPatterns == {"B*", "c", "*"}
MCHits == [cs \in BOOLEAN |-> [p \in MCPatterns |->
             CASE p = "B*" -> {"B"} [] p = "c" -> {"c"} [] OTHER -> {}]]
MCIdBefore == [cs \in BOOLEAN |->
                 IF cs THEN {<<"B", "a">>, <<"B", "c">>, <<"a", "c">>}
                       ELSE {<<"a", "B">>, <<"B", "c">>, <<"a", "c">>}]
MCScopes == {"s1", "s2"}
MCCredentials == {"k1", "k2"}
MCDigest == [k \in MCCredentials |-> IF k = "k1" THEN "s1" ELSE "s2"]

Plain(id) == [key |-> id, slug |-> NoSlug, slugForm |-> FALSE, rich |-> FALSE]
Rich(id) == [Plain(id) EXCEPT !.rich = TRUE]
Slug(id) == [key |-> id, slug |-> id, slugForm |-> TRUE, rich |-> TRUE]
Bare(id) == [Slug(id) EXCEPT !.rich = FALSE]
Both(id, slug) == [Rich(id) EXCEPT !.slug = slug]

Listing(format, auth, apiKey, list) ==
    [readable |-> TRUE, ok |-> TRUE, chat |-> FALSE, body |-> "list",
     format |-> format, auth |-> auth, apiKey |-> apiKey, list |-> list]

OpenAIRestricted == Listing("openai", "k1", NoCredential, <<Plain("a"), Plain("B")>>)
OpenAIShuffled == Listing("openai", NoCredential, "k1", <<Plain("c"), Plain("B"), Rich("a")>>)
CodexRestricted == Listing("openai", "k1", "k2", <<Slug("B"), Both("a", "c"), Bare("c")>>)
ClaudeRestricted == Listing("claude", "k1", NoCredential, <<Plain("B"), Plain("a")>>)
EmptyListing == Listing("openai", "k1", NoCredential, <<>>)
Chat == [OpenAIRestricted EXCEPT !.chat = TRUE]
Garbled == [OpenAIRestricted EXCEPT !.body = "garbled", !.list = <<>>]

CodexSingle == Listing("openai", "k1", NoCredential, <<Slug("B")>>)

ClaudeSingle == Listing("claude", "k1", NoCredential, <<Plain("B")>>)

RaceCalls == {OpenAIRestricted, CodexSingle, ClaudeSingle}
AllCalls == {OpenAIShuffled, CodexRestricted, ClaudeRestricted, EmptyListing,
             Chat, Garbled}

Rule(scope, allow, deny) == [scope |-> scope, allow |-> allow, deny |-> deny, cs |-> FALSE]

Yaml(order_, cs, access) ==
    [readable |-> TRUE, yaml |-> TRUE, wellFormed |-> TRUE, strategy |-> "",
     order |-> order_, cs |-> cs, access |-> access, refreshOk |-> TRUE]

Restrict1 == Yaml(<<"B*">>, FALSE,
                  <<Rule(NoScope, {}, {"c"}), Rule("s1", {}, {"B*"}), Rule("s1", {}, {})>>)
AllowOnly == Yaml(<<"*", "c", "B*">>, TRUE, <<Rule("s1", {"c"}, {}), Rule("s2", {}, {"c"})>>)
Lifted == Yaml(<<>>, TRUE, <<>>)
ByName == [Restrict1 EXCEPT !.strategy = "name"]
Unknown == [Restrict1 EXCEPT !.strategy = "unknown"]
BadRefresh == [Lifted EXCEPT !.refreshOk = FALSE]
Unreadable == [Lifted EXCEPT !.readable = FALSE]

RacePayloads == {Restrict1, Lifted}
AllPayloads == {Restrict1, AllowOnly, ByName, Unknown, BadRefresh, Unreadable}

Interchangeable == Permutations(Requests)
=============================================================================
