-------------------------- MODULE AnthropicProvider --------------------------
(***************************************************************************)
(* One call of the Anthropic adapter                                       *)
(* (internal/llm/adapters/anthropic/provider.go): the checks before any    *)
(* I/O, the one request, the body read under a cap, the answer checked,    *)
(* and the error that the caller is told.                                  *)
(*                                                                         *)
(* The SDK, the HTTP client and the server are external: the context and   *)
(* the timer of the client may end at any step, the network may fail, the  *)
(* server may answer anything.                                             *)
(***************************************************************************)
EXTENDS Integers, SequencesExt

CONSTANTS
    Configs, Calls, Responses,
    MaxResponseBytes,
    MaxOutputLimit,     \* 1 << 16
    MaxInputLimit,      \* 1 << 21
    MaxRead             \* the bytes that one Read asks for

(* An endpoint is https, http on the machine itself, or anything else.     *)
Config == [key: BOOLEAN, timeout: {"in_range", "out_of_range"},
           url: {"https", "local_http", "other"},
           transport: {"none", "direct", "proxied", "foreign"}]

(* What is on the wire for the schemas of a call: their verified bytes,    *)
(* or what the SDK made of them.                                           *)
Call == [route: {"anthropic", "other"}, withTools: BOOLEAN, untrusted: BOOLEAN,
         valid: BOOLEAN, schema: {"none", "object", "other"},
         tools: Seq({"object", "other", "unnamed"}), wire: {"verified", "reencoded"},
         maxTokens: Int]

(* A declared length of -1 is unknown.  The document of the body ends      *)
(* where "ends" says, blanks follow.                                       *)
Response == [status: {"ok", "redirect", "error"}, declared: Nat \cup {-1},
             size: Nat, ends: Nat, document: {"message", "malformed"},
             metadata: BOOLEAN,
             stop: {"end_turn", "tool_use", "refusal", "max_tokens", "other"},
             input: Int, output: Int,
             content: Seq({"text", "blank", "offered", "other"})]

ASSUME ProviderAssumption ==
    /\ Configs \subseteq Config /\ Calls \subseteq Call /\ Responses \subseteq Response
    /\ \A r \in Responses : /\ r.declared \in {-1, r.size}
                            /\ r.ends <= r.size
    /\ MaxResponseBytes \in Nat /\ MaxRead \in Nat \ {0}

VARIABLES
    config,     \* of the provider, once New returned it
    where,      \* where the call is
    call,
    ctxDone,    \* the context of the caller is over
    timedOut,   \* the timer of the HTTP client fired
    response,
    left,       \* cappedBody.left
    taken,      \* bytes taken from the network
    held,       \* bytes the SDK was given
    outcome,
    requests    \* history: requests sent

vars == <<config, where, call, ctxDone, timedOut, response, left, taken, held,
          outcome, requests>>

None == "none"

Init ==
    /\ config = None
    /\ where = "unmade"
    /\ call = None /\ response = None
    /\ ctxDone = FALSE /\ timedOut = FALSE
    /\ left = 0 /\ taken = 0 /\ held = 0
    /\ outcome = "none"
    /\ requests = 0

(* New: no proxy that the configuration did not exclude.                   *)
ValidConfig(c) ==
    /\ c.key
    /\ c.timeout = "in_range"
    /\ c.url \in {"https", "local_http"}
    /\ c.transport \in {"none", "direct"}

New(c) ==
    /\ where = "unmade"
    /\ IF ValidConfig(c)
       THEN config' = c /\ where' = "idle" /\ UNCHANGED outcome
       ELSE where' = "over" /\ outcome' = "invalid_config" /\ UNCHANGED config
    /\ UNCHANGED <<call, ctxDone, timedOut, response, left, taken, held, requests>>

-----------------------------------------------------------------------------
(* Before any I/O *)

(* buildParams                                                             *)
ValidRequest(c) ==
    /\ c.valid
    /\ c.maxTokens \in 1..MaxOutputLimit
    /\ IF c.withTools THEN c.tools # <<>> ELSE c.schema # "none"
    /\ c.schema # "other"
    /\ \A i \in DOMAIN c.tools : c.tools[i] = "object"

(* The refusals, in the order of the code.                                 *)
Refusal(c) ==
    CASE ctxDone -> "context"
      [] c.route # "anthropic" -> "wrong_platform"
      [] c.withTools /\ c.untrusted -> "untrusted_with_tools"
      [] ~ValidRequest(c) -> "invalid_request"
      [] OTHER -> "none"

Start(c) ==
    /\ where = "idle"
    /\ call' = c
    /\ outcome' = Refusal(c)
    /\ where' = IF Refusal(c) = "none" THEN "built" ELSE "over"
    /\ UNCHANGED <<config, ctxDone, timedOut, response, left, taken, held, requests>>

-----------------------------------------------------------------------------
(* The request and the body *)

(* Slip: the SDK tries again.                                              *)
TwoRetries == 2

MaxRetries == 0

Retried(kind) == kind \in {"transport", "timeout", "api"} /\ requests <= MaxRetries

(* The switch on the error: that of the context first.                     *)
Fails(kind) ==
    IF Retried(kind) /\ ~ctxDone
    THEN where' = "built" /\ UNCHANGED outcome
    ELSE where' = "over" /\ outcome' = IF ctxDone THEN "context" ELSE kind

(* verifiedBytes, before any I/O.                                          *)
VerifiedBytes == call.wire = "verified"

Send ==
    /\ where = "built"
    /\ IF VerifiedBytes
       THEN /\ where' = "waiting"
            /\ requests' = requests + 1
            /\ taken' = 0 /\ held' = 0
            /\ UNCHANGED outcome
       ELSE Fails("reencoded") /\ UNCHANGED <<requests, taken, held>>
    /\ UNCHANGED <<config, call, ctxDone, timedOut, response, left>>

(* A redirect is refused, a declared length over the cap too, before any   *)
(* byte is read.                                                           *)
Respond(r) ==
    /\ where = "waiting"
    /\ response' = r
    /\ \/ r.status = "redirect" /\ Fails("redirect") /\ UNCHANGED left
       \/ /\ r.status # "redirect"
          /\ r.declared > MaxResponseBytes
          /\ Fails("too_large")
          /\ UNCHANGED left
       \/ /\ r.status # "redirect"
          /\ r.declared <= MaxResponseBytes
          /\ where' = "reading"
          /\ left' = MaxResponseBytes
          /\ UNCHANGED outcome
    /\ UNCHANGED <<config, call, ctxDone, timedOut, taken, held, requests>>

(* The connection breaks, or is cut by the context or the timer: so is a   *)
(* request not yet sent.                                                   *)
NetworkFails ==
    /\ where \in {"built", "waiting", "reading"}
    /\ where = "built" => ctxDone
    /\ Fails(IF timedOut THEN "timeout" ELSE "transport")
    /\ UNCHANGED <<config, call, ctxDone, timedOut, response, left, taken, held,
                   requests>>

(* Slip: a Read leaves the room of the next one as it was.                 *)
RoomUnchanged(n) == left

RoomAfter(n) == left - n

(* cappedBody.Read, of any number of bytes up to what is asked for.        *)
Read(n) ==
    /\ where = "reading"
    /\ left > 0
    /\ n <= left
    /\ taken + n <= response.size
    /\ left' = RoomAfter(n)
    /\ taken' = taken + n /\ held' = held + n
    /\ UNCHANGED <<config, where, call, ctxDone, timedOut, response, outcome, requests>>

(* Slip: the body ends at the cap.                                         *)
EndAtCap == taken = response.size \/ left = 0

EndOfBody == taken = response.size

(* With no room left one more byte is looked for.                          *)
TooLarge ==
    /\ where = "reading"
    /\ left = 0
    /\ ~EndOfBody
    /\ taken' = taken + 1
    /\ \/ Fails("too_large")
       \/ timedOut /\ Fails("timeout")
    /\ UNCHANGED <<config, call, ctxDone, timedOut, response, left, held, requests>>

-----------------------------------------------------------------------------
(* The answer *)

(* convertMessage, in its order.                                           *)
Judgement(r) ==
    CASE ~r.metadata -> "invalid_metadata"
      [] r.stop = "tool_use" /\ ~call.withTools -> "unexpected_content"
      [] r.stop = "refusal" -> "refusal"
      [] r.stop = "max_tokens" -> "max_tokens"
      [] r.stop = "other" -> "unexpected_stop"
      [] r.input \notin 0..MaxInputLimit \/ r.output < 0 \/ r.output > call.maxTokens ->
           "invalid_usage"
      [] \E i \in DOMAIN r.content :
           \/ r.content[i] = "other"
           \/ r.content[i] = "offered" /\ ~call.withTools -> "unexpected_content"
      [] ToSet(r.content) \subseteq {"blank"} -> "empty"
      [] OTHER -> "response"

Decodes == response.document = "message" /\ held >= response.ends

Finish ==
    /\ where = "reading"
    /\ EndOfBody
    /\ CASE response.status = "error" -> Fails("api")
         [] response.status = "ok" /\ ~Decodes -> Fails("transport")
         [] response.status = "ok" /\ Decodes ->
              where' = "over" /\ outcome' = Judgement(response)
    /\ UNCHANGED <<config, call, ctxDone, timedOut, response, left, taken, held,
                   requests>>

-----------------------------------------------------------------------------
(* The caller and the timer *)

GiveUp ==
    /\ where # "over"
    /\ ~ctxDone
    /\ ctxDone' = TRUE
    /\ UNCHANGED <<config, where, call, timedOut, response, left, taken, held,
                   outcome, requests>>

TimeOut ==
    /\ where \in {"waiting", "reading"}
    /\ ~timedOut
    /\ timedOut' = TRUE
    /\ UNCHANGED <<config, where, call, ctxDone, response, left, taken, held,
                   outcome, requests>>

Next ==
    \/ \E c \in Configs : New(c)
    \/ \E c \in Calls : Start(c)
    \/ Send \/ NetworkFails
    \/ \E r \in Responses : Respond(r)
    \/ \E n \in 1..MaxRead : Read(n)
    \/ TooLarge \/ Finish \/ GiveUp \/ TimeOut

Spec == Init /\ [][Next]_vars

-----------------------------------------------------------------------------
(* Properties *)

(* What the client counts for an attempt is the cost of one request: a     *)
(* call sends at most one, and none when it is refused, with the bytes     *)
(* that were verified, never untrusted text beside tools, only to a        *)
(* configured endpoint.                                                    *)
OneRequest ==
    /\ requests <= 1
    /\ requests = 1 => /\ call.wire = "verified"
                       /\ ~(call.withTools /\ call.untrusted)
                       /\ ValidConfig(config)
    /\ outcome \in {"invalid_config", "wrong_platform", "untrusted_with_tools",
                    "invalid_request", "reencoded"} => requests = 0

(* A response comes from the whole body of a good answer, never from the   *)
(* beginning of one over the cap, holds what was asked for and a usage the *)
(* client can count, even when the context ended meanwhile.  At most one   *)
(* byte more than the cap is taken from the network, at most the cap is    *)
(* kept, and a body is called too large only if it is.                     *)
AnswerIsWhole ==
    /\ outcome = "response" =>
         /\ requests = 1
         /\ response.status = "ok"
         /\ held = response.size
         /\ response.output \in 0..call.maxTokens
         /\ \A i \in DOMAIN response.content :
              response.content[i] = "offered" => call.withTools
    /\ held <= MaxResponseBytes /\ taken <= MaxResponseBytes + 1
    /\ outcome = "too_large" => response.size > MaxResponseBytes
=============================================================================
