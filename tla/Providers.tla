------------------------------ MODULE Providers ------------------------------
(***************************************************************************)
(* The two providers behind the port of the models: the adapter of one     *)
(* platform, of which AnthropicProvider models one call, and the fake one, *)
(* shared by its callers.  A program wires one of them (the flag -llm of   *)
(* cmd/rempart-worker); both implement ModelPort.                          *)
(***************************************************************************)
EXTENDS AnthropicProvider, FiniteSets

CONSTANTS
    Callers, NoOne, Prompts, Hashes, Files, OptionSets, Requests,
    Lone                \* the caller of the one call

VARIABLES
    llm,        \* the provider wired
    recordings, scripts, cursors, made, mu, invocations, calls, at, request, over,
    step, result, given

Fake == INSTANCE FakeProvider

ASSUME ProvidersAssumption ==
    /\ IsFiniteSet(Callers)
    /\ Lone \in Callers
    /\ NoOne \notin Callers
    /\ Requests \subseteq Fake!Request
    /\ OptionSets \subseteq Fake!Options
    /\ Files \subseteq Fake!File

fakeVars == <<recordings, scripts, cursors, made, mu, invocations, calls, at,
              request, over, step, result, given>>

ProvidersInit ==
    /\ llm \in {"anthropic", "fake"}
    /\ Init
    /\ Fake!Init

ProvidersNext ==
    /\ UNCHANGED llm
    /\ \/ llm = "anthropic" /\ Next /\ UNCHANGED fakeVars
       \/ llm = "fake" /\ Fake!Next /\ UNCHANGED vars

ProvidersSpec == ProvidersInit /\ [][ProvidersNext]_<<llm, vars, fakeVars>>

-----------------------------------------------------------------------------
(* Properties *)

AskedOf(k) ==
    CASE llm = "fake" /\ at[k] # "idle" ->
           [platform |-> request[k].platform, withTools |-> request[k].withTools,
            untrusted |-> request[k].untrusted, valid |-> request[k].valid]
      [] llm = "anthropic" /\ k = Lone /\ where \notin {"unmade", "idle"}
           /\ outcome # "invalid_config" ->
           [platform |-> IF call.route = "anthropic" THEN "own" ELSE "other",
            withTools |-> call.withTools, untrusted |-> call.untrusted,
            valid |-> ValidRequest(call)]
      [] OTHER -> NoOne

SentOf(k) ==
    CASE llm = "fake" /\ k \in ToSet(calls) -> 1
      [] llm = "anthropic" /\ k = Lone -> requests
      [] OTHER -> 0

OutcomeOf(k) ==
    LET ended == IF llm = "fake" THEN at[k] = "over"
                 ELSE k = Lone /\ where = "over" /\ outcome # "invalid_config"
        res == IF llm = "fake" THEN result[k] ELSE outcome
    IN  CASE ~ended -> "none"
          [] ended /\ res = "response" -> "answered"
          [] ended /\ res # "response" ->
               IF SentOf(k) = 0 THEN "refused" ELSE "failed"

Port == INSTANCE ModelPort WITH
    None    <- NoOne,
    asked   <- [k \in Callers |-> AskedOf(k)],
    sent    <- [k \in Callers |-> SentOf(k)],
    outcome <- [k \in Callers |-> OutcomeOf(k)]

ASSUME NothingAssumption == NoOne \notin Port!Asked

(* Both providers keep the contract of ModelProvider (ports/provider.go):  *)
(* a call is put to the model once at most, only if it is lawful, and      *)
(* refused before that or not at all.                                      *)
ImplementsPort == Port!Spec

StepsOnce == Fake!StepsOnce
=============================================================================
