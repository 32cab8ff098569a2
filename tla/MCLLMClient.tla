----------------------------- MODULE MCLLMClient -----------------------------
(* A small instance of LLMClient for TLC: a call that passes, with tools   *)
(* and without; the calls that differ from it in one field, and a few in   *)
(* two, so that the order of the checks shows; and counts that are         *)
(* negative, the largest, and one too many.                                *)
EXTENDS LLMClient

MCPlaceholderBytes == <<4, 5>>

TextOf(bytes, protected, candidates) ==
    [bytes |-> bytes, protected |-> protected, candidates |-> candidates, escapes |-> 1]

Found(start, end, prio, exempt) ==
    [start |-> start, end |-> end, prio |-> prio, exempt |-> exempt]

Plain == TextOf(2, {}, {})
Secret == TextOf(6, {}, {Found(1, 3, 1, FALSE)})
Nested == TextOf(9, {}, {Found(0, 6, 2, FALSE), Found(1, 2, 1, FALSE), Found(3, 5, 2, TRUE),
                         Found(6, 8, 1, FALSE)})
Chained == TextOf(9, {}, {Found(0, 3, 2, TRUE), Found(2, 5, 1, FALSE), Found(4, 8, 2, TRUE)})
Exempt == TextOf(5, {}, {Found(0, 2, 1, TRUE), Found(1, 4, 2, TRUE)})
Masked1 == TextOf(9, {[start |-> 0, end |-> 4]}, {Found(3, 6, 1, FALSE), Found(4, 6, 2, FALSE)})
Grows == TextOf(6, {}, {Found(n, n + 1, 2, FALSE) : n \in {0, 2, 4}})
Long == TextOf(MaxRequestTextBytes + 1, {}, {})

MCTexts == {Secret, Nested, Chained, Exempt, Masked1, Grows, Long}

TextPart(t) == [text |-> t, untrusted |-> <<>>]
BlockPart(s, t) == [text |-> NoText, untrusted |-> <<s, t>>]
Says(role, parts) == <<[role |-> role, parts |-> parts]>>

BaseMessages == Says("user", <<TextPart(Plain)>>)

MCMessages ==
    {Says("user", <<TextPart(t)>>) : t \in MCTexts}
    \cup {Says("user", <<TextPart(Plain), BlockPart(s, t)>>)
            : s \in {NoText, Secret}, t \in {Plain, Nested}}
    \cup {<<>>, Says("other", <<TextPart(Plain)>>), Says("user", <<>>),
          Says("user", <<TextPart(NoText)>>),
          Says("assistant", <<[TextPart(Plain) EXCEPT !.untrusted = <<Plain, Plain>>]>>),
          BaseMessages \o BaseMessages}

-----------------------------------------------------------------------------
(* Schemas: an order of lines, each of which refers to a definition.       *)
O(members) == [kind |-> "object", members |-> members]
A(items) == [kind |-> "array", items |-> items]
Number(n) == [kind |-> "integer", text |-> n]

Object(properties) ==
    O(<<<<"type", Str("object")>>, <<"additionalProperties", False>>,
        <<"required", A([i \in DOMAIN properties |-> Str(properties[i][1])])>>,
        <<"properties", O(properties)>>>>)

TypeOf(t) == O(<<<<"type", Str(t)>>>>)
Const(s) == O(<<<<"const", Str(s)>>>>)
EnumOf(s) == O(<<<<"type", Str("string")>>, <<"enum", A(<<Str(s), Str("k1")>>)>>>>)
ArrayOf(n) == O(<<<<"type", Str("array")>>, <<"items", n>>>>)
Ref(d) == O(<<<<"$ref", RefTo(d)>>>>)
Union(form, ns) == O(<<<<form, A(ns)>>>>)
Pattern(p) == O(<<<<"type", Str("string")>>, <<"pattern", Str(p)>>>>)
With(n, k, v) == O(Append(n.members, <<k, v>>))
Without(n, k) == O(SelectSeq(n.members, LAMBDA m : m[1] # k))

Doc(v) == [bytes |-> 1, json |-> TRUE, admitted |-> TRUE, compiles |-> TRUE,
           tooManyTexts |-> FALSE, value |-> v]

Line == Object(<<<<"kind", EnumOf("k2")>>>>)
Order(line) == With(Object(<<<<"lines", ArrayOf(Ref("line"))>>>>),
                    "$defs", O(<<<<"line", line>>>>))
Root(n) == Object(<<<<"name", n>>>>)

BaseSchema == Doc(Order(Line))

(* One thing wrong each, and what is unusual but right.                    *)
MCSchemas ==
    {Doc(s) : s \in
       {Without(Order(Line), "additionalProperties"), Order(Without(Line, "additionalProperties")),
        Without(Order(Line), "required"), With(Order(Line), "type", Str("object")),
        With(Order(Line), "title", Str("t")), With(Order(Line), "pattern", Str("p1")),
        With(Order(Line), "$schema", Str("draft2020")), With(Order(Line), "$schema", Str("other")),
        With(Root(TypeOf("string")), "$defs", A(<<>>)),
        With(Root(TypeOf("string")), "$defs", O(<<<<"-", Line>>>>)),
        Order(Object(<<<<"kind", Ref("line")>>>>)), Root(Ref("missing")),
        Root(Union("anyOf", <<Line, TypeOf("string")>>)), Root(Union("anyOf", <<>>)),
        Root(Union("oneOf", <<TypeOf("string"), EnumOf("k2")>>)),
        Root(With(Union("anyOf", <<Line>>), "type", Str("string"))),
        Root(With(Line, "$defs", O(<<>>))), Root(O(<<>>)), Root(Str("string")),
        Root(TypeOf("other")), Root(Without(ArrayOf(Line), "items")),
        Object(<<<<"-", Line>>>>), With(Object(<<>>), "required", A(<<Str("kind")>>)),
        TypeOf("string"), Root(ArrayOf(ArrayOf(ArrayOf(ArrayOf(Line))))),
        Root(O(<<<<"const", [kind |-> "long_number", text |-> "1e9"]>>>>))}}
    \cup {Doc(Root(n)) : n \in
       {Const("secret"), Const("blank secret"), EnumOf("secret"), Pattern("^secret$"),
        ArrayOf(EnumOf("secret")), Union("anyOf", <<Line, Const("secret")>>)}}
    \cup {Doc(With(Root(ArrayOf(Ref("line"))), "$defs", O(<<<<"line", EnumOf("secret")>>>>))),
          Doc(With(Object(<<>>), "title", Str("secret key")))}
    \cup {[BaseSchema EXCEPT !.bytes = MaxSchemaBytes + 1], [BaseSchema EXCEPT !.json = FALSE],
          [BaseSchema EXCEPT !.admitted = FALSE], [BaseSchema EXCEPT !.compiles = FALSE],
          [BaseSchema EXCEPT !.tooManyTexts = TRUE]}

MCPropNames == {"name", "kind", "lines", "other"}
MCDefNames == {"line"}
MCTrimmed == [s \in {"blank secret"} |-> "secret"]
MCBare == [p \in {"^secret$"} |-> "secret"]
MCMatches == {<<"^secret$", "secret">>}
MCSecretTexts == {<<"name", "secret">>, <<"secret key">>}

(* Answers.                                                                *)
LineOf(kind) == O(<<<<"kind", Str(kind)>>>>)
Lines(lines) == O(<<<<"lines", A(lines)>>>>)

GoodOrder == Doc(Lines(<<LineOf("k1"), LineOf("k2")>>))

MCOutputs ==
    {GoodOrder, [GoodOrder EXCEPT !.bytes = MaxOutputBytes + 1],
     Doc(Lines(<<O(<<<<"kind", Str("k1")>>, <<"other", Number("1")>>>>)>>)),
     Doc(Lines(<<O(<<<<"kind", Str("k1")>>, <<"kind", Str("k2")>>>>)>>))}

Wrong == Doc(Lines(<<LineOf("k3")>>))

MCDocuments == MCSchemas \cup MCOutputs \cup {BaseSchema, Wrong}

Tool(name, texts) == [name |-> name, admitted |-> TRUE, texts |-> texts, schema |-> BaseSchema,
                      bytes |-> 1]

BaseTools == <<Tool("t1", {Plain}), Tool("t2", {Plain})>>

MCTools == {<<>>, <<Tool("t1", {}), Tool("t1", {})>>, <<Tool("t1", {Plain, Secret})>>,
            <<Tool("t1", {Exempt})>>, <<[Tool("t1", {}) EXCEPT !.admitted = FALSE]>>}
           \cup {<<Tool("t1", {}), [Tool("t2", {}) EXCEPT !.schema = s]>> : s \in MCSchemas}

ContentOf(name) == [name |-> name, wellFormed |-> TRUE, texts |-> {Plain}, bytes |-> 1,
                    document |-> BaseSchema]

FileOf(name) == [kind |-> "regular", size |-> 1, opens |-> TRUE, openRegular |-> TRUE,
                 openSize |-> 1, reads |-> TRUE, content |-> ContentOf(name)]

BasePrompt == [idValid |-> TRUE, dir |-> "directory", system |-> FileOf("system"),
               schema |-> FileOf("schema")]

(* A file that is not what Lstat said once it is open, or once it is read. *)
MCFiles(f) ==
    {[f EXCEPT !.kind = k] : k \in {"directory", "link", "missing", "unreadable"}}
    \cup {[f EXCEPT !.size = 9], [f EXCEPT !.opens = FALSE],
          [f EXCEPT !.openRegular = FALSE], [f EXCEPT !.openSize = 9],
          [f EXCEPT !.reads = FALSE], [f EXCEPT !.content.bytes = 9],
          [f EXCEPT !.content.bytes = 0], [f EXCEPT !.content.name = "changed"],
          [f EXCEPT !.content.wellFormed = FALSE],
          [f EXCEPT !.content.texts = {Plain, Nested}]}

MCPrompts ==
    {[BasePrompt EXCEPT !.idValid = FALSE], [BasePrompt EXCEPT !.dir = "link"]}
    \cup {[BasePrompt EXCEPT !.system = f] : f \in MCFiles(FileOf("system"))}
    \cup {[BasePrompt EXCEPT !.schema = f] : f \in MCFiles(FileOf("schema"))}
    \cup {[BasePrompt EXCEPT !.schema.content.document = d] : d \in MCSchemas}

ModelOf(form, geo) == [form |-> form, realDate |-> TRUE, floating |-> FALSE, geo |-> geo]

RouteTo(platform, regions, models) ==
    [platform: {platform}, region: regions, model: models]

BaseRoute == [platform |-> "bedrock", region |-> "eu-west-1",
              model |-> ModelOf("bedrock", "eu")]

MCRoutes ==
    RouteTo("bedrock", {"", "malformed", "eu-west-1", "eu-west-2", "us-east-1"},
            {ModelOf("bedrock", g) : g \in {"", "eu", "us"}}
              \cup {ModelOf("generic", ""), [ModelOf("bedrock", "") EXCEPT !.realDate = FALSE]})
    \cup RouteTo("vertex", {"", "eu", "europe-west2"},
                 {ModelOf("vertex", ""), ModelOf("anthropic", "")})
    \cup RouteTo("anthropic", {"", "eu-west-1"},
                 {ModelOf("anthropic", ""), ModelOf("undated", ""), ModelOf("generic", ""),
                  [ModelOf("undated", "") EXCEPT !.floating = TRUE]})
    \cup RouteTo("selfhosted", {"", "malformed", "eu-west-1"},
                 {ModelOf("generic", ""), ModelOf("malformed", "")})
    \cup RouteTo("fake", {""}, {ModelOf("generic", "")})
    \cup RouteTo("unknown", {""}, {ModelOf("generic", "")})

MCPolicies == [route: MCRoutes, residency: {"eu", "none"}, retention: {"zero"}]
              \cup [route: {BaseRoute}, residency: {"eu", "none", "unknown"},
                    retention: {"zero", "standard", "unknown"}]

BasePolicy == [route |-> BaseRoute, residency |-> "eu", retention |-> "zero"]

Customer == [canonical |-> TRUE, special |-> "no", version4 |-> TRUE, rfcVariant |-> TRUE]

(* What WithTenant makes of contexts and identifiers.                      *)
MCContexts ==
    UNION {WithTenant(NoTenant, id) : id \in {Customer, [Customer EXCEPT !.version4 = FALSE]}}
    \cup {NoTenant}

Base(withTools) ==
    [ctx |-> <<Customer>>, withTools |-> withTools, messages |-> BaseMessages,
     maxTokens |-> 2, tools |-> BaseTools, promptHash |-> <<"system", "schema">>,
     prompt |-> BasePrompt, resolves |-> TRUE, policy |-> BasePolicy,
     requiresRetention |-> FALSE]

MCCalls ==
    UNION {{[Base(w) EXCEPT !.messages = m] : m \in MCMessages \cup {BaseMessages}}
           \cup {[Base(w) EXCEPT !.tools = t] : t \in MCTools}
           \cup {[Base(w) EXCEPT !.ctx = x, !.messages = m]
                   : x \in MCContexts, m \in {BaseMessages, <<>>}}
           \cup {[Base(w) EXCEPT !.maxTokens = n] : n \in {0, MaxTokensPerCall + 1}}
             : w \in BOOLEAN}
    \cup {[Base(FALSE) EXCEPT !.prompt = p] : p \in MCPrompts}
    \cup {[Base(FALSE) EXCEPT !.policy = p, !.requiresRetention = r]
            : p \in MCPolicies, r \in BOOLEAN}
    \cup {[Base(FALSE) EXCEPT !.resolves = FALSE, !.policy.residency = "unknown"]}

MCCounts == {-1, MaxReportedTokens, MaxReportedTokens + 1}

Asks(name, input) == [name |-> name, input |-> input]

MCContents ==
    [output: MCOutputs, toolCalls: {<<>>}]
    \cup [output: {GoodOrder}, toolCalls: {<<Asks("t1", GoodOrder)>>, <<Asks("t1", Wrong)>>,
            <<Asks("t2", GoodOrder), Asks("t1", Wrong)>>,
            <<Asks("t1", GoodOrder), Asks("t3", GoodOrder)>>}]
=============================================================================
