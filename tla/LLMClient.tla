------------------------------ MODULE LLMClient ------------------------------
(***************************************************************************)
(* One call of the LLM client (internal/llm/client.go, run): the ordered   *)
(* checks S1 to S12 that admit a call, then the attempts of the provider,  *)
(* each answer out of the schema corrected up to MaxCorrections times, and *)
(* the account of what the attempts may have cost.                         *)
(*                                                                         *)
(* The call runs in one goroutine; its context may be cancelled by others  *)
(* at any time, and the provider is an external service.                   *)
(***************************************************************************)
EXTENDS LLMRequests, PromptRegistry, RoutePolicy

CONSTANTS
    MaxCorrections, MaxTokensPerCall, AllowFakeRoute,  \* Config
    MaxCorrectionsLimit, MaxTokensLimit, MaxRequestTextBytes, MaxReportedTokens,
    CorrectionBytes,    \* the size of one correction message
    Calls,              \* what the callers may ask
    Counts,             \* the token counts a provider may declare
    Contents,           \* what a provider may answer
    EURegions           \* the regions that lie in the European Union

(* The tenant that a context carries (internal/tenancy).  No other package *)
(* reads or writes it: a context carries what WithTenant put in it.        *)

(* An identifier, by what the checks of its characters find.               *)
ID == [canonical: BOOLEAN, special: {"no", "nil", "max", "system"},
       version4: BOOLEAN, rfcVariant: BOOLEAN]

Valid(id) ==
    /\ id.canonical
    /\ id.special \notin {"nil", "max"}
    /\ id.special = "system" \/ (id.version4 /\ id.rfcVariant)

(* A context carries at most one tenant.                                   *)
NoTenant == <<>>

Carries(ctx) == ctx # NoTenant /\ Valid(ctx[1])

(* The contexts a caller gets from WithTenant: none after an error.        *)
WithTenant(ctx, id) ==
    IF ~Valid(id) \/ ctx \notin {NoTenant, <<id>>} THEN {} ELSE {<<id>>}

(* The checks, in the order of the code; the route is checked by three.    *)
Checks == <<"tenant", "canceled", "untrusted", "request", "token_budget",
            "text_size", "tools", "prompt", "prompt_hash", "prompt_secret",
            "route", "fake_route", "policy", "redacted_size">>

CheckNames == {Checks[i] : i \in DOMAIN Checks}

(* A call, and what the client finds when it makes it: the files of the    *)
(* prompt, and the policy that the resolver gives, if any.                 *)
Call == [ctx: Seq(ID), withTools: BOOLEAN,
         messages: Seq(Message), maxTokens: Int, tools: Seq(ToolSpec),
         promptHash: STRING \X STRING, prompt: Access,
         resolves: BOOLEAN, policy: TenantPolicy, requiresRetention: BOOLEAN]

(* NewClient                                                               *)
ValidConfig ==
    /\ MaxCorrections \in 0..MaxCorrectionsLimit
    /\ MaxTokensPerCall \in 1..MaxTokensLimit

ASSUME ClientAssumption ==
    /\ ValidConfig
    /\ Calls \subseteq Call
    /\ MaxReportedTokens \in Nat
    /\ CorrectionBytes \in Nat
    /\ Counts \subseteq Int
    /\ \A c \in Contents : c.toolCalls \in Seq(ToolCall)

(* A reply of the provider: an error, or the counts it declares, the model *)
(* it names, and an output or calls of tools; and what the attempt really  *)
(* cost.                                                                   *)
NoText == [bytes |-> 0, protected |-> {}, candidates |-> {}, escapes |-> 0]

(* A correction quotes the schema, never the output; it is not masked.     *)
Correction ==
    [text |-> <<[of |-> [NoText EXCEPT !.bytes = CorrectionBytes], masks |-> <<>>]>>,
     untrusted |-> <<>>]

NoCall == [ctx |-> NoTenant, withTools |-> FALSE, messages |-> <<>>, maxTokens |-> 0]

NoDocument == [bytes |-> 0, json |-> FALSE, admitted |-> TRUE, compiles |-> FALSE,
               tooManyTexts |-> FALSE, value |-> Str("")]

NoContent == [output |-> NoDocument, toolCalls |-> <<>>]

NoReply == [failed |-> TRUE, input |-> 0, output |-> 0, modelMatches |-> FALSE,
            content |-> NoContent, cost |-> 0]

-----------------------------------------------------------------------------
VARIABLES
    call,
    where,      \* "idle", "ready" before an attempt, "calling", "answered", "over"
    ctxDone,    \* ctx.Err() is not nil
    attempt,
    req,        \* the parts of req.Messages: masked, then the corrections
    answer,     \* the last reply of the provider
    attempts,   \* tr.Attempts
    usage,      \* tr.Usage, input and output together
    bound,
    outcome,    \* "none", "result", or the error
    charged,    \* the error is a UsageError
    cost        \* what the attempts really cost, all together

callVars == <<call, where, ctxDone, attempt, req, answer, attempts,
              usage, bound, outcome, charged, cost>>

Init ==
    /\ call = NoCall
    /\ where = "idle"
    /\ ctxDone = FALSE
    /\ attempt = 0 /\ attempts = 0
    /\ req = <<>>
    /\ answer = NoReply
    /\ usage = 0 /\ bound = 0 /\ cost = 0
    /\ outcome = "none"
    /\ charged = FALSE

-----------------------------------------------------------------------------
(* The checks *)

(* Check by check, what makes it fail.                                     *)
Fails(c, check) ==
    \/ check = "tenant" /\ ~Carries(c.ctx)
    \/ check = "canceled" /\ ctxDone
    \/ check = "untrusted" /\ c.withTools /\ HasUntrusted(c.messages)
    \/ check = "request" /\ ~ValidMessages(c.messages)
    \/ check = "token_budget" /\ c.maxTokens \notin 1..MaxTokensPerCall
    \/ check = "text_size" /\ TextSize(c.messages) > MaxRequestTextBytes
    \/ check = "tools" /\ c.withTools /\ ~CheckTools(c.tools)
    \/ check = "prompt" /\ ~Loads(c.prompt)
    \/ check = "prompt_hash" /\ c.promptHash # HashOf(c.prompt)
    \/ check = "prompt_secret" /\ SecretInPrompt(c.prompt)
    \/ check = "route" /\ ~c.resolves
    \/ check = "fake_route" /\ c.policy.route.platform = "fake" /\ ~AllowFakeRoute
    \/ check = "policy" /\ ~PolicyHolds(c.policy, c.requiresRetention)
    \/ /\ check = "redacted_size"
       /\ MaskedSize(RedactMessages(c.messages)) > MaxRequestTextBytes

(* The error is the one of the first check that fails.                     *)
Refused(c, check) ==
    \E i \in DOMAIN Checks :
        /\ Checks[i] = check
        /\ Fails(c, check)
        /\ \A j \in 1..(i - 1) : ~Fails(c, Checks[j])

Refuse(c) ==
    /\ where = "idle"
    /\ \E check \in CheckNames :
        /\ Refused(c, check)
        /\ outcome' = check
    /\ where' = "over"
    /\ call' = c
    /\ UNCHANGED <<ctxDone, attempt, req, answer, attempts, usage,
                   bound, charged, cost>>

Admit(c) ==
    /\ where = "idle"
    /\ \A check \in CheckNames : ~Fails(c, check)
    /\ where' = "ready"
    /\ call' = c
    /\ req' = RedactMessages(c.messages)
    /\ UNCHANGED <<ctxDone, attempt, answer, attempts, usage,
                   bound, outcome, charged, cost>>

-----------------------------------------------------------------------------
(* The attempts *)

(* RequestBytes: the prompt, its schema, and the messages as rendered; the *)
(* tools are not part of the request.                                      *)
RequestBytes ==
    call.prompt.system.content.bytes + call.prompt.schema.content.bytes
      + RenderedMessages(req)

(* The closure spent: an error after a call says what it may have cost.    *)
Spent(error) ==
    /\ where' = "over"
    /\ outcome' = error
    /\ charged' = TRUE
    /\ UNCHANGED <<attempt, req>>

(* Slip: a cancellation never costs anything.                              *)
NothingPaid == FALSE

PaidBefore == attempt > 0

(* S13: a cancellation before the first attempt cost nothing.              *)
StopBeforeAttempt ==
    /\ where = "ready"
    /\ ctxDone
    /\ where' = "over"
    /\ outcome' = "canceled"
    /\ charged' = PaidBefore
    /\ UNCHANGED <<call, ctxDone, attempt, req, answer, attempts,
                   usage, bound, cost>>

CallProvider ==
    /\ where = "ready"
    /\ ~ctxDone
    /\ where' = "calling"
    /\ UNCHANGED <<call, ctxDone, attempt, req, answer, attempts,
                   usage, bound, outcome, charged, cost>>

Answered ==
    /\ where = "answered"
    /\ attempts' = attempts + 1
    /\ UNCHANGED <<call, ctxDone, answer, cost>>

(* Slip: a negative count is believed.                                     *)
UsageNotTooLarge(r) == r.input <= MaxReportedTokens /\ r.output <= MaxReportedTokens

ValidUsage(r) ==
    /\ r.input >= 0 /\ r.input <= MaxReportedTokens
    /\ r.output >= 0 /\ r.output <= MaxReportedTokens

Counted == ~answer.failed /\ ValidUsage(answer)

(* Without a usage that can be believed, the attempt is charged its whole  *)
(* request and its whole output, but not the tools.                        *)
ProviderFailed ==
    /\ Answered
    /\ ~Counted
    /\ bound' = bound + call.maxTokens + RequestBytes
    /\ Spent("provider_failed")
    /\ UNCHANGED usage

Count ==
    /\ Answered
    /\ Counted
    /\ usage' = usage + answer.input + answer.output
    /\ bound' = bound + answer.input + answer.output

ModelMismatch ==
    /\ Count
    /\ ~answer.modelMatches
    /\ Spent("model_mismatch")

Tools == IF call.withTools THEN call.tools ELSE <<>>

PromptSchema == call.prompt.schema.content.document

Verdict == CheckOutput(PromptSchema, Tools, answer.content)

Accept ==
    /\ Count
    /\ answer.modelMatches
    /\ Verdict = "valid"
    /\ where' = "over"
    /\ outcome' = "result"
    /\ UNCHANGED <<attempt, req, charged>>

(* Slip: one correction more.                                              *)
MayCorrectOnceMore == Verdict = "out_of_schema" /\ attempt <= MaxCorrections

MayCorrect == Verdict = "out_of_schema" /\ attempt < MaxCorrections

GiveUp ==
    /\ Count
    /\ answer.modelMatches
    /\ Verdict # "valid"
    /\ ~MayCorrect
    /\ Spent(Verdict)

Correct ==
    /\ Count
    /\ answer.modelMatches
    /\ Verdict # "valid"
    /\ MayCorrect
    /\ req' = Append(req, Correction)
    /\ attempt' = attempt + 1
    /\ where' = "ready"
    /\ UNCHANGED <<outcome, charged>>

Client ==
    \/ StopBeforeAttempt \/ CallProvider
    \/ ProviderFailed \/ ModelMismatch \/ Accept \/ GiveUp \/ Correct

-----------------------------------------------------------------------------
(* The environment *)

(* A provider answers within the limits it was given, and a usage that can *)
(* be believed is at least what the attempt cost; a failed attempt may     *)
(* have cost anything up to all that was sent, tools included, and its     *)
(* whole output.                                                           *)
Believable(r) ==
    ~r.failed /\ {r.input, r.output} \subseteq 0..MaxReportedTokens

SentBytes == RequestBytes + ToolBytes(Tools)

Extremes(r) == {0, IF Believable(r) THEN r.input + r.output
                                    ELSE call.maxTokens + SentBytes}

(* An error comes with no answer.                                          *)
Replies ==
    {NoReply} \cup
    [failed: {FALSE}, input: Counts, output: Counts, modelMatches: BOOLEAN,
     content: Contents, cost: {0}]

(* Costs are taken at both ends of what is plausible.                      *)
ProviderReplies ==
    /\ where = "calling"
    /\ \E r \in Replies : \E c \in Extremes(r) :
         /\ answer' = [r EXCEPT !.cost = c]
         /\ cost' = cost + c
    /\ where' = "answered"
    /\ UNCHANGED <<call, ctxDone, attempt, req, attempts, usage, bound,
                   outcome, charged>>

CancelContext ==
    /\ ~ctxDone
    /\ ctxDone' = TRUE
    /\ UNCHANGED <<call, where, attempt, req, answer, attempts, usage,
                   bound, outcome, charged, cost>>

Next ==
    \/ \E c \in Calls : Refuse(c) \/ Admit(c)
    \/ Client
    \/ ProviderReplies
    \/ CancelContext

Spec == Init /\ [][Next]_callVars

-----------------------------------------------------------------------------
(* Properties *)

(* Every failure after a call of the provider says what it may have cost,  *)
(* and no other does (UsageError, av): its caller can tell a refused call  *)
(* from a paid one.                                                        *)
FailureChargedIffCalled ==
    where = "over" =>
        /\ charged <=> (outcome # "result" /\ attempts > 0)
        /\ outcome = "result" => attempts > 0

(* What the caller is told: Bound after a failure, the usage of all        *)
(* attempts, corrected ones included, with a result.                       *)
Told == IF outcome = "result" THEN usage ELSE bound

(* What may be missing from it: the tools, as the provider reads them, of  *)
(* an attempt that failed without a usage, the last one.                   *)
Untold == IF outcome = "provider_failed" THEN ToolBytes(Tools) ELSE 0

(* The caller is told what was spent, or more (T10, obligation be),        *)
(* whatever the provider declares and whenever the context ends; without   *)
(* tools always, and with tools but for those of one attempt: WithTools    *)
(* sends them (client.go, run), and RequestBytes forgets them (usage.go).  *)
ToldCoversCost == where = "over" => cost <= Told + Untold

(* The provider is called again only for an answer out of the schema, with *)
(* one more correction in the request, and at most MaxCorrections times.   *)
Corrections ==
    /\ req # <<>> => Len(req) = Len(PartsOf(call.messages)) + attempt
    /\ attempts <= MaxCorrections + 1
    /\ where = "calling" => attempts = attempt
    /\ where \in {"ready", "calling"} /\ attempts > 0 =>
         Verdict = "out_of_schema" /\ answer.modelMatches

(* What a schema says of an answer, read from the answer: each object in   *)
(* it has exactly the properties of one of the objects of the schema, or   *)
(* the schema spells it out.                                               *)
Declared(schema, answered) ==
    \A o \in Nodes(answered) :
        \/ o.kind # "object"
        \/ o \in Nodes(schema)
        \/ \E n \in Nodes(schema) :
              Is(n, "type", Str("object")) /\ Keys(o) = Keys(Properties(n))

(* What an answer is checked against: the schema of the prompt, or, for    *)
(* each of its calls, that of the tool called.                             *)
CheckedAnswers ==
    LET calls == ToSet(answer.content.toolCalls) IN
    IF calls = {} THEN {<<PromptSchema, answer.content.output>>}
    ELSE {<<ToolOf(call.tools, tc.name).schema, tc.input>> : tc \in calls}

CheckedResult ==
    LET calls == ToSet(answer.content.toolCalls) IN
    /\ answer.modelMatches /\ Counted
    /\ calls # {} => call.withTools
    /\ \A tc \in calls : tc.name \in NamesOf(call.tools)
    /\ \A c \in CheckedAnswers : Validate(c[1], c[2])
    /\ <<call.prompt.system.content.name, call.prompt.schema.content.name>>
         = call.promptHash
    /\ call.prompt.system.content.bytes <= MaxSystemBytes

(* A result comes from the model of the route.  It is an output in the     *)
(* schema of the prompt that the caller pinned, read whole, or else every  *)
(* one of its calls is of a tool that was given, in the schema of that     *)
(* tool; a call without tools has no tool.  Whatever the schema, nothing   *)
(* is in a result, at any depth, that the schema does not name, and        *)
(* nothing is missing from it: strict schemas are all that is compiled.    *)
ResultChecked ==
    outcome = "result" =>
        /\ CheckedResult
        /\ \A c \in CheckedAnswers : Declared(c[1].value, c[2].value)

Sent == where = "calling"

(* What a rule found, not exempt, outside of the placeholders.             *)
IsSecret(c, t) ==
    /\ ~c.exempt /\ c.start < c.end
    /\ \A p \in t.protected : c.start \notin p.start..(p.end - 1)

Covers(mask, c) == mask.start <= c.start /\ c.end <= mask.end

(* A schema spells a text under a name if a value there, or in an array    *)
(* there, may be that text and may not be any other.                       *)
Spells(schema, n, s) ==
    \E inArray \in BOOLEAN :
        LET Value(x) == IF inArray THEN [kind |-> "array", items |-> <<Str(x)>>] ELSE Str(x)
        IN  Conforms(schema, n, Value(s)) /\ ~Conforms(schema, n, Value("another"))

TellsSecret(schema) ==
    \E n \in Nodes(schema), t \in SecretTexts :
        \/ n = Str(t[1]) /\ Len(t) = 1
        \/ /\ Len(t) = 2
           /\ t[1] \in Keys(Properties(n))
           /\ Spells(schema, At(Properties(n), t[1]), t[2])

(* Of the messages, every text that is sent, as masked.                    *)
SentTexts == UNION {ToSet(req[i].text \o req[i].untrusted) : i \in DOMAIN req}

(* Each secret of a text is masked, whole, whatever it overlaps; nothing   *)
(* is masked but for one; the masks are in order and apart, as Redact      *)
(* needs them.                                                             *)
SecretsMasked(m) ==
    /\ \A c \in m.of.candidates :
         IsSecret(c, m.of) => \E i \in DOMAIN m.masks : Covers(m.masks[i], c)
    /\ \A i \in DOMAIN m.masks :
         \E c \in m.of.candidates : IsSecret(c, m.of) /\ Covers(m.masks[i], c)
    /\ \A i, j \in DOMAIN m.masks : i < j => m.masks[i].end <= m.masks[j].start

(* The texts that are sent as they are.                                    *)
UnmaskedTexts ==
    call.prompt.system.content.texts \cup call.prompt.schema.content.texts
      \cup UNION {Tools[i].texts : i \in DOMAIN Tools}

NoSecretInTexts ==
    /\ \A m \in SentTexts : SecretsMasked(m)
    /\ \A t \in UnmaskedTexts : \A c \in t.candidates : ~IsSecret(c, t)

(* What the provider gets holds no secret that a rule finds: the messages  *)
(* are masked; the prompt and the tools hold none, nor does a schema tell  *)
(* one by the only values it admits under a name (T7, T44, V2).            *)
SentIsMasked ==
    Sent =>
        /\ NoSecretInTexts
        /\ \A d \in {PromptSchema} \cup {Tools[i].schema : i \in DOMAIN Tools} :
             ~TellsSecret(d.value)

(* The text of a tenant that must stay in the European Union goes to no    *)
(* region outside of it, nor to a model that is served elsewhere; that of  *)
(* a tenant without retention to no model that retains it; and the model   *)
(* is never an alias (ADR 0002).                                           *)
StaysInEU(r) ==
    \/ r.platform = "fake"
    \/ /\ r.platform \in {"bedrock", "vertex"}
       /\ r.region \in EURegions
       /\ r.model.geo \in {"", "eu"}

RouteLawful ==
    Sent =>
        LET p == call.policy IN
        /\ p.residency = "none" \/ (p.residency = "eu" /\ StaysInEU(p.route))
        /\ p.retention = "standard" \/ (p.retention = "zero" /\ ~call.requiresRetention)
        /\ ~p.route.model.floating
=============================================================================
