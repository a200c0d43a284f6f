---------------------------- MODULE MCManagement ----------------------------
(***************************************************************************)
(* The instance of MCInterceptor with a panel: a status request and        *)
(* previews with and without a scope, a port, a rule, edits and ids.       *)
(***************************************************************************)
EXTENDS Management, MCInterceptor

Query(kind, scope, port) ==
    [kind |-> kind, strategy |-> "grouped", order |-> <<"c">>, cs |-> FALSE,
     port |-> port, ids |-> <<>>, scope |-> scope, allow |-> NoList, deny |-> NoList]

Status == Query("status", NoScope, NoPort)
ScopedOpenAI == Query("preview", "s1", "openai")
ScopedNewest == [Query("preview", "s1", NoPort) EXCEPT !.strategy = "", !.order = <<>>]
ScopedClaude == Query("preview", "s1", "claude")
Unscoped == [Query("preview", NoScope, "openai") EXCEPT !.strategy = "name"]
Edited == [ScopedOpenAI EXCEPT !.deny = {"c"}]
HandWritten == [ScopedOpenAI EXCEPT !.ids = <<"c", "B", "a", "B">>]

Panel == {Status, ScopedOpenAI, ScopedNewest, ScopedClaude, Edited, HandWritten}
Unfiltered == {Unscoped}
StatusOnly == {Status}

PanelCalls == {OpenAIShuffled, ClaudeRestricted}
PanelPayloads == {Restrict1, AllowOnly}
=============================================================================
