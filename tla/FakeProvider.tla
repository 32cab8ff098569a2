---------------------------- MODULE FakeProvider ----------------------------
(***************************************************************************)
(* The deterministic provider (internal/llm/fake): it answers a request    *)
(* with its recording, or with the next step of the script of its prompt.  *)
(* Callers run concurrently: the activities of a worker, the runs of a     *)
(* test; a mutex is held for the whole of a call.                          *)
(*                                                                         *)
(* A hash stands for the request it is the hash of.                        *)
(***************************************************************************)
EXTENDS Integers, SequencesExt, FiniteSets

CONSTANTS
    Callers,
    NoOne,
    Prompts,
    Hashes,
    Files,          \* what LoadOptions may read
    OptionSets,     \* what a test may pass to New
    Requests

Step == [err: BOOLEAN, zero: BOOLEAN]

Recording == [prompt: Prompts \cup {""}, hash: Hashes \cup {"malformed"}, step: Step]

Options == [recordings: Seq(Recording), scripts: [Prompts -> {NoOne} \cup Seq(Step)]]

File == [bounded: BOOLEAN, wellFormed: BOOLEAN, version: Nat,
         scripts: [Prompts -> {NoOne} \cup Seq(Step)], retentionTold: BOOLEAN]

Request == [prompt: Prompts, hash: Hashes, platform: {"own", "other"},
            withTools: BOOLEAN, untrusted: BOOLEAN, valid: BOOLEAN]

VARIABLES
    recordings, scripts, cursors,   \* of the provider, once New returned it
    made,                           \* no, yes, refused
    mu,                             \* who holds the mutex
    invocations, calls,
    at,                             \* where each caller is
    request,
    over,                           \* its context is over
    step,                           \* the index it read from the cursor
    result,                         \* of each call
    given                           \* history: the steps answered, by prompt

fvars == <<recordings, scripts, cursors, made, mu, invocations, calls, at, request,
           over, step, result, given>>

Init ==
    /\ recordings = {} /\ scripts = [p \in Prompts |-> NoOne]
    /\ cursors = [p \in Prompts |-> 0]
    /\ made = "no"
    /\ mu = NoOne
    /\ invocations = 0 /\ calls = <<>>
    /\ at = [k \in Callers |-> "idle"]
    /\ request = [k \in Callers |-> NoOne]
    /\ over = [k \in Callers |-> FALSE]
    /\ step = [k \in Callers |-> 0]
    /\ result = [k \in Callers |-> "none"]
    /\ given = [p \in Prompts |-> <<>>]

-----------------------------------------------------------------------------
(* Options *)

ValidStep(s) == s.err => s.zero

ValidRecording(r) == r.prompt # "" /\ r.hash # "malformed" /\ ValidStep(r.step)

(* New: well formed recordings of distinct requests, no empty script.      *)
ValidOptions(opt) ==
    LET r == opt.recordings IN
    /\ \A i \in DOMAIN r :
         /\ ValidRecording(r[i])
         /\ \A j \in DOMAIN r :
              r[i].prompt = r[j].prompt /\ r[i].hash = r[j].hash => i = j
    /\ \A p \in Prompts :
         opt.scripts[p] # NoOne =>
           opt.scripts[p] # <<>> /\ \A s \in ToSet(opt.scripts[p]) : ValidStep(s)

New(opt) ==
    /\ made = "no"
    /\ made' = IF ValidOptions(opt) THEN "yes" ELSE "refused"
    /\ recordings' = IF ValidOptions(opt) THEN ToSet(opt.recordings) ELSE {}
    /\ scripts' = IF ValidOptions(opt) THEN opt.scripts ELSE scripts
    /\ UNCHANGED <<cursors, mu, invocations, calls, at, request, over, step, result,
                   given>>

(* LoadOptions appends the steps of a script one by one: a script without  *)
(* any is no script at all.                                                *)
Loadable(f) == f.bounded /\ f.wellFormed /\ f.version = 1 /\ f.retentionTold

OptionsOf(f) ==
    [recordings |-> <<>>,
     scripts |-> [p \in Prompts |-> IF f.scripts[p] = <<>> THEN NoOne ELSE f.scripts[p]]]

Load(f) ==
    IF Loadable(f) THEN New(OptionsOf(f))
    ELSE /\ made = "no"
         /\ made' = "refused"
         /\ UNCHANGED <<recordings, scripts, cursors, mu, invocations, calls, at, request,
                        over, step, result, given>>

-----------------------------------------------------------------------------
(* One call *)

Ask(k) ==
    /\ made = "yes"
    /\ at[k] = "idle"
    /\ \E r \in Requests : request' = [request EXCEPT ![k] = r]
    /\ at' = [at EXCEPT ![k] = "lock"]
    /\ UNCHANGED <<recordings, scripts, cursors, made, mu, invocations, calls, over, step,
                   result, given>>

(* Slip: no mutex.                                                         *)
AlwaysFree == TRUE

Free == mu = NoOne

Lock(k) ==
    /\ at[k] = "lock"
    /\ Free
    /\ mu' = k
    /\ invocations' = invocations + 1
    /\ at' = [at EXCEPT ![k] = "check"]
    /\ UNCHANGED <<recordings, scripts, cursors, made, calls, request, over, step, result,
                   given>>

(* The refusals, in the order of the code.                                 *)
Refusal(k) ==
    LET r == request[k] IN
    CASE over[k] -> "context"
      [] r.platform # "own" -> "wrong_platform"
      [] r.withTools /\ r.untrusted -> "untrusted_with_tools"
      [] ~r.valid -> "invalid_request"
      [] OTHER -> "none"

Unlock(k, res) ==
    /\ mu' = NoOne
    /\ at' = [at EXCEPT ![k] = "over"]
    /\ result' = [result EXCEPT ![k] = res]

Check(k) ==
    /\ at[k] = "check"
    /\ IF Refusal(k) = "none"
       THEN /\ calls' = Append(calls, k)
            /\ at' = [at EXCEPT ![k] = "look"]
            /\ UNCHANGED <<mu, result>>
       ELSE Unlock(k, Refusal(k)) /\ UNCHANGED calls
    /\ UNCHANGED <<recordings, scripts, cursors, made, invocations, request, over, step,
                   given>>

RecordingsOf(r) == {x \in recordings : x.prompt = r.prompt /\ x.hash = r.hash}

Answer(s) == IF s.err THEN "scripted_error" ELSE "response"

(* lookup: a recording first, else the script of the prompt.               *)
LookUp(k) ==
    LET r == request[k]
        steps == scripts[r.prompt]
    IN
    /\ at[k] = "look"
    /\ \/ \E x \in RecordingsOf(r) : Unlock(k, Answer(x.step)) /\ UNCHANGED step
       \/ /\ RecordingsOf(r) = {}
          /\ \/ steps = NoOne /\ Unlock(k, "no_recording") /\ UNCHANGED step
             \/ /\ steps # NoOne
                /\ cursors[r.prompt] >= Len(steps)
                /\ Unlock(k, "exhausted")
                /\ UNCHANGED step
             \/ /\ steps # NoOne
                /\ cursors[r.prompt] < Len(steps)
                /\ step' = [step EXCEPT ![k] = cursors[r.prompt]]
                /\ at' = [at EXCEPT ![k] = "take"]
                /\ UNCHANGED <<mu, result>>
    /\ UNCHANGED <<recordings, scripts, cursors, made, invocations, calls, request, over,
                   given>>

Take(k) ==
    LET p == request[k].prompt IN
    /\ at[k] = "take"
    /\ cursors' = [cursors EXCEPT ![p] = step[k] + 1]
    /\ given' = [given EXCEPT ![p] = Append(@, step[k] + 1)]
    /\ Unlock(k, Answer(scripts[p][step[k] + 1]))
    /\ UNCHANGED <<recordings, scripts, made, invocations, calls, request, over, step>>

GiveUp(k) ==
    /\ made = "yes"
    /\ at[k] # "over"
    /\ ~over[k]
    /\ over' = [over EXCEPT ![k] = TRUE]
    /\ UNCHANGED <<recordings, scripts, cursors, made, mu, invocations, calls, at, request,
                   step, result, given>>

Next ==
    \/ \E opt \in OptionSets : New(opt)
    \/ \E f \in Files : Load(f)
    \/ \E k \in Callers : Ask(k) \/ Lock(k) \/ Check(k) \/ LookUp(k) \/ Take(k) \/ GiveUp(k)

Spec == Init /\ [][Next]_fvars

-----------------------------------------------------------------------------
(* Properties *)

Ended(res) == {k \in Callers : result[k] = res}

(* Whatever the callers that run at once, a script is answered in its      *)
(* order, each step to one call; a call refused, cancelled while it waited *)
(* for the mutex included, or answered by a recording takes no step; a     *)
(* script is exhausted only when every step of it was answered; and the    *)
(* record of the calls holds each one that was not refused, once.          *)
StepsOnce ==
    /\ \A p \in Prompts :
         /\ given[p] = [i \in 1..Len(given[p]) |-> i]
         /\ cursors[p] = Len(given[p])
         /\ Len(given[p]) =
              Cardinality({k \in Ended("response") \cup Ended("scripted_error") :
                             request[k].prompt = p /\ RecordingsOf(request[k]) = {}})
         /\ (\E k \in Ended("exhausted") : request[k].prompt = p) =>
              Len(given[p]) = Len(scripts[p])
    /\ LET lookedUp == {k \in Callers : at[k] \in {"look", "take"}}
                         \cup UNION {Ended(r) : r \in {"response", "scripted_error",
                                                       "no_recording", "exhausted"}}
       IN  ToSet(calls) = lookedUp /\ Len(calls) = Cardinality(lookedUp)
    /\ Len(calls) <= invocations
=============================================================================
