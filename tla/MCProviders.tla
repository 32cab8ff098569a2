----------------------------- MODULE MCProviders -----------------------------
(* Small instances of the two providers for TLC.  The adapter: calls and   *)
(* answers that are good, and others with one thing wrong each.            *)
EXTENDS Providers

GoodConfig == [key |-> TRUE, timeout |-> "in_range", url |-> "https",
               transport |-> "none"]

MCConfigs == {GoodConfig, [GoodConfig EXCEPT !.url = "local_http"],
              [GoodConfig EXCEPT !.url = "other"],
              [GoodConfig EXCEPT !.transport = "proxied"]}

Plain == [route |-> "anthropic", withTools |-> FALSE, untrusted |-> TRUE,
          valid |-> TRUE, schema |-> "object", tools |-> <<>>,
          wire |-> "verified", maxTokens |-> 1]

Tooled == [Plain EXCEPT !.withTools = TRUE, !.untrusted = FALSE,
                        !.schema = "none", !.tools = <<"object">>]

MCCalls == {Plain, Tooled, [Plain EXCEPT !.route = "other"],
            [Plain EXCEPT !.wire = "reencoded"], [Plain EXCEPT !.maxTokens = 0],
            [Tooled EXCEPT !.untrusted = TRUE],
            [Tooled EXCEPT !.tools = <<"object", "unnamed">>]}

Answer(size, ends, content) ==
    [status |-> "ok", declared |-> -1, size |-> size, ends |-> ends,
     document |-> "message", metadata |-> TRUE, stop |-> "end_turn",
     input |-> 1, output |-> 1, content |-> content]

Text == Answer(2, 2, <<"text">>)

(* Bodies under the cap, at the cap, one over it, and one over it whose    *)
(* document ends at the cap.                                               *)
MCResponses ==
    {Text, Answer(1, 1, <<"blank", "text">>), Answer(3, 3, <<"text">>),
     Answer(4, 2, <<"text">>), [Answer(3, 2, <<"text">>) EXCEPT !.declared = 3],
     [Text EXCEPT !.declared = 2],
     [Text EXCEPT !.status = "redirect"], [Text EXCEPT !.status = "error"],
     [Text EXCEPT !.document = "malformed"], [Text EXCEPT !.metadata = FALSE],
     [Text EXCEPT !.stop = "refusal"], [Text EXCEPT !.stop = "max_tokens"],
     [Text EXCEPT !.stop = "other"], [Text EXCEPT !.output = 2],
     [Text EXCEPT !.input = 4], [Text EXCEPT !.input = -1],
     [Text EXCEPT !.stop = "tool_use", !.content = <<"text", "offered">>],
     [Text EXCEPT !.content = <<"offered">>], [Text EXCEPT !.content = <<"other">>],
     [Text EXCEPT !.content = <<"blank">>], [Text EXCEPT !.content = <<>>]}

-----------------------------------------------------------------------------
(* The fake: three callers, of a prompt with a script of two steps, of one *)
(* with a recording besides, of one without either.                        *)
CONSTANTS c1, c2, c3, greet, plan, other, h1, h2

MCCallers == {c1, c2, c3}
MCPrompts == {greet, plan, other}
MCHashes == {h1, h2}

Good == [err |-> FALSE, zero |-> FALSE]
Bad == [err |-> TRUE, zero |-> TRUE]

Script == [p \in MCPrompts |-> CASE p = greet -> <<Good, Bad>>
                                 [] p = plan -> <<Good>>
                                 [] p = other -> NoOne]

Recorded(p, h) == [prompt |-> p, hash |-> h, step |-> Good]

Options == [recordings |-> <<Recorded(plan, h1)>>, scripts |-> Script]

MCOptionSets ==
    {Options,
     [Options EXCEPT !.recordings = <<Recorded(plan, h1), Recorded(plan, h1)>>],
     [Options EXCEPT !.recordings = <<Recorded(plan, "malformed")>>],
     [Options EXCEPT !.scripts[greet] = <<>>],
     [Options EXCEPT !.scripts[greet] = <<[err |-> TRUE, zero |-> FALSE]>>]}

File == [bounded |-> TRUE, wellFormed |-> TRUE, version |-> 1, scripts |-> Script,
         retentionTold |-> TRUE]

MCFiles == {[File EXCEPT !.scripts[plan] = <<>>], [File EXCEPT !.version = 2],
            [File EXCEPT !.retentionTold = FALSE], [File EXCEPT !.bounded = FALSE]}

Of(p, h) == [prompt |-> p, hash |-> h, platform |-> "own", withTools |-> FALSE,
             untrusted |-> FALSE, valid |-> TRUE]

MCRequests ==
    {Of(greet, h1), Of(plan, h1), Of(plan, h2), Of(other, h2),
     [Of(greet, h1) EXCEPT !.platform = "other"],
     [Of(greet, h1) EXCEPT !.withTools = TRUE, !.untrusted = TRUE],
     [Of(greet, h1) EXCEPT !.valid = FALSE]}
=============================================================================
