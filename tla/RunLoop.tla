------------------------------- MODULE RunLoop -------------------------------
(***************************************************************************)
(* RunLoop (internal/loops/runloop.go): propose, verify, and stop on a     *)
(* candidate the verifier accepts, on a budget, on a stagnation, on a      *)
(* failure, or on a response that cannot be trusted.                       *)
(*                                                                         *)
(* The loop is the code of a Temporal workflow.  It blocks on two          *)
(* activities, the proposer (a paid model call, one attempt) and the       *)
(* verifier (retried by Temporal); the time of the workflow and its        *)
(* cancellation move only while it is blocked.  The steps between two      *)
(* blocking points are split at the top of the loop, where nothing but the *)
(* loop itself may move.                                                   *)
(***************************************************************************)
EXTENDS Findings, FiniteSets

CONSTANTS
    Candidates,         \* candidates admitted and not empty
    Oversized,          \* one that admittedJSON refuses
    EmptyCandidate,     \* one without content
    NoCandidate,        \* nil
    Reports,            \* the lists of findings within bounds
    Specs,              \* the specifications a caller may give
    Proposals,          \* how a call of the proposer may end
    Verifications,      \* how the verification, retries included, may end
    MaxIterationsLimit, MaxTokensLimit, MaxStrategies, MaxEscalateAfter,
    MaxWallTimeLimit, MinActivityTimeout, MaxActivityTimeout,
    MaxActivityAttempts,
    DefaultSwitchAfter, DefaultEscalateAfter, DefaultActivityTimeout

LoopSpec == [names: {"valid", "invalid", "same"}, strategies: Int,
             maxIterations: Int, maxTokens: Int, maxWallTime: Int,
             switchAfter: Int, escalateAfter: Int, activityTimeout: Int,
             payloadAdmitted: BOOLEAN]

NoSpec == [names |-> "invalid", strategies |-> 0, maxIterations |-> 0,
           maxTokens |-> 0, maxWallTime |-> 0, switchAfter |-> 0,
           escalateAfter |-> 0, activityTimeout |-> 0,
           payloadAdmitted |-> FALSE]

(* The end of a call of the proposer.  A failure has a cost only when its  *)
(* direct cause is an application error with details; "declared" details   *)
(* are exactly {"tokens":N}, "malformed" any other.  "retryable" is false  *)
(* for a non-retryable error and for the types never retried.              *)
Proposal == [state: {"none", "pending", "answered", "failed"},
             candidate: Candidates \cup {Oversized, EmptyCandidate, NoCandidate},
             tokens: Int, details: {"none", "malformed", "declared"},
             retryable: BOOLEAN]

NoProposal == [state |-> "none", candidate |-> NoCandidate, tokens |-> 0,
               details |-> "none", retryable |-> FALSE]

Verification == [state: {"none", "pending", "answered", "failed"}, ok: BOOLEAN,
                 findings: Reports \cup {<<>>}, inBounds: BOOLEAN]

NoVerification == [state |-> "none", ok |-> FALSE, findings |-> <<>>,
                   inBounds |-> TRUE]

ASSUME LoopAssumption ==
    /\ NoCandidate \notin Candidates \cup {Oversized, EmptyCandidate}
    /\ {Oversized, EmptyCandidate} \cap Candidates = {}
    /\ Specs \subseteq LoopSpec
    /\ \A p \in Proposals : p \in Proposal /\ p.state \in {"answered", "failed"}
    /\ \A v \in Verifications :
         v \in Verification /\ v.state \in {"answered", "failed"}
    /\ \A f \in Reports \cup {<<>>} : Len(f) \in Nat /\ Score(f) \in Nat
    /\ MaxIterationsLimit \in Nat /\ MaxTokensLimit \in Nat
    /\ MaxActivityAttempts \in Nat \ {0}
    /\ {DefaultSwitchAfter, DefaultEscalateAfter, DefaultActivityTimeout} \subseteq Int

Reasons == {"budget_iterations", "budget_tokens", "budget_time", "stagnation",
            "strategies_exhausted", "activity_failed", "invalid_response"}

-----------------------------------------------------------------------------
VARIABLES
    loopSpec,   \* the specification, once its defaults are applied
    phase,      \* its caller, the top of the loop, an activity, returned
    timeUp,     \* the wall time budget is spent
    cancelled,  \* the context of the workflow is cancelled
    proposal,   \* the call of the proposer in progress, the last one after
    verdict,    \* the verification in progress, the last one after
    it, strat, failures,                \* locals of the loop
    best, bestScore, remaining, last,   \* best is nil until there is one
    lastFP, same,                       \* same is 0 until there is a print
    status, reason, outBest, outRemaining, iterations, tokens, trace,
                \* the result; status is also the error, if any
    judged      \* history: the candidates the verifier refused, in order

bestVars == <<best, bestScore, remaining>>
stallVars == <<last, lastFP, same, strat, judged>>
outVars == <<status, reason, outBest, outRemaining>>
countVars == <<iterations, tokens, trace>>
envVars == <<timeUp, cancelled>>
vars == <<loopSpec, phase, proposal, verdict, it, failures, envVars, bestVars,
          stallVars, outVars, countVars>>

Trace == [strategy: Nat, failed: BOOLEAN, verified: BOOLEAN,
          fingerprint: {Fingerprint(f) : f \in Reports \cup {<<>>}},
          score: Nat, findings: Nat, tokens: Nat]

TypeOK ==
    /\ loopSpec \in LoopSpec
    /\ phase \in {"idle", "top", "propose", "verify", "done"}
    /\ timeUp \in BOOLEAN /\ cancelled \in BOOLEAN
    /\ proposal \in Proposal /\ verdict \in Verification
    /\ it \in Nat /\ strat \in Nat /\ failures \in Nat /\ same \in Nat
    /\ best \in Candidates \cup {NoCandidate}
    /\ bestScore \in Nat
    /\ remaining \in Reports \cup {<<>>} /\ last \in Reports \cup {<<>>}
    /\ lastFP \in {Fingerprint(f) : f \in Reports \cup {<<>>}}
    /\ status \in {"running", "converged", "escalated", "canceled", "invalid_spec"}
    /\ reason \in Reasons \cup {"none"}
    /\ outBest \in Candidates \cup {NoCandidate}
    /\ outRemaining \in Reports \cup {<<>>}
    /\ iterations \in Nat /\ tokens \in Nat
    /\ trace \in Seq(Trace)
    /\ judged \in Seq([candidate: Candidates, findings: Reports \cup {<<>>}])

Init ==
    /\ loopSpec = NoSpec
    /\ phase = "idle"
    /\ timeUp = FALSE /\ cancelled = FALSE
    /\ proposal = NoProposal /\ verdict = NoVerification
    /\ it = 0 /\ strat = 0 /\ failures = 0 /\ same = 0
    /\ best = NoCandidate /\ bestScore = 0
    /\ remaining = <<>> /\ last = <<>> /\ lastFP = {}
    /\ status = "running" /\ reason = "none"
    /\ outBest = NoCandidate /\ outRemaining = <<>>
    /\ iterations = 0 /\ tokens = 0 /\ trace = <<>>
    /\ judged = <<>>

-----------------------------------------------------------------------------
(* The specification of a loop *)

WithDefaults(s) ==
    [s EXCEPT !.switchAfter = IF @ = 0 THEN DefaultSwitchAfter ELSE @,
              !.escalateAfter = IF @ = 0 THEN DefaultEscalateAfter ELSE @,
              !.activityTimeout = IF @ = 0 THEN DefaultActivityTimeout ELSE @]

ValidSpec(spec) ==
    LET s == WithDefaults(spec) IN
    /\ s.names = "valid"
    /\ s.strategies \in 1..MaxStrategies
    /\ s.maxIterations \in 1..MaxIterationsLimit
    /\ s.maxTokens \in 1..MaxTokensLimit
    /\ s.maxWallTime \in 1..MaxWallTimeLimit
    /\ 1 <= s.switchAfter /\ s.switchAfter < s.escalateAfter
    /\ s.escalateAfter <= MaxEscalateAfter
    /\ s.activityTimeout \in MinActivityTimeout..MaxActivityTimeout

(* RunLoop is called; an invalid specification or payload is an error.     *)
Begin(s) ==
    /\ phase = "idle"
    /\ IF ValidSpec(s) /\ s.payloadAdmitted
       THEN /\ loopSpec' = WithDefaults(s)
            /\ phase' = "top"
            /\ it' = 1
            /\ UNCHANGED status
       ELSE /\ phase' = "done"
            /\ status' = "invalid_spec"
            /\ UNCHANGED <<loopSpec, it>>
    /\ UNCHANGED <<proposal, verdict, failures, envVars, bestVars, stallVars,
                   reason, outBest, outRemaining, countVars>>

-----------------------------------------------------------------------------
(* The top of the loop *)

(* The closure escalate: an escalation is a result.                        *)
Escalate(why, b, rem) ==
    /\ phase' = "done"
    /\ status' = "escalated"
    /\ reason' = why
    /\ outBest' = b
    /\ outRemaining' = rem

Stop(why) == Escalate(why, best, remaining) /\ UNCHANGED it

Again == phase' = "top" /\ it' = it + 1 /\ UNCHANGED outVars

OutOfBudget ==
    /\ phase = "top"
    /\ \/ it > loopSpec.maxIterations /\ Stop("budget_iterations")
       \/ it <= loopSpec.maxIterations /\ timeUp /\ Stop("budget_time")
    /\ UNCHANGED <<loopSpec, proposal, verdict, failures, envVars, bestVars,
                   stallVars, countVars>>

(* ExecuteActivity(ProposeActivity): the request carries the strategy, the *)
(* best candidate so far and the findings of the last verification.        *)
Propose ==
    /\ phase = "top"
    /\ it <= loopSpec.maxIterations
    /\ ~timeUp
    /\ phase' = "propose"
    /\ proposal' = [NoProposal EXCEPT !.state = "pending"]
    /\ UNCHANGED <<loopSpec, verdict, it, failures, envVars, bestVars,
                   stallVars, outVars, countVars>>

(* A cancellation ends either activity for the workflow and wins over its  *)
(* result: RunLoop returns it with an empty result.                        *)
ReturnCancellation ==
    /\ phase \in {"propose", "verify"}
    /\ cancelled
    /\ phase' = "done"
    /\ status' = "canceled"
    /\ iterations' = 0 /\ tokens' = 0 /\ trace' = <<>>
    /\ UNCHANGED <<loopSpec, proposal, verdict, it, failures, envVars,
                   bestVars, stallVars, reason, outBest, outRemaining>>

-----------------------------------------------------------------------------
(* The proposer answered or failed *)

Proposed == phase = "propose" /\ ~cancelled /\ proposal.state # "pending"

Failed == proposal.state = "failed"

(* failedCall: without a declared cost, no retry.                          *)
CallTokens ==
    CASE ~Failed                                     -> proposal.tokens
      [] Failed /\ proposal.details = "none"         -> 0
      [] Failed /\ proposal.details = "malformed"    -> -1
      [] Failed /\ proposal.details = "declared"     -> proposal.tokens

(* Slip: a failure that declares no cost is retried like any other.        *)
RetryableByType == proposal.retryable

Retryable == proposal.details = "declared" /\ proposal.retryable

TokensAdmitted == 0 <= CallTokens /\ CallTokens <= MaxTokensLimit

Spent == tokens + CallTokens

(* Slip: a failed call is not checked against the budget.                  *)
WithinBudgetUnlessFailed == Failed \/ Spent <= loopSpec.maxTokens

WithinBudget == Spent <= loopSpec.maxTokens

Traced(n) ==
    /\ iterations' = it
    /\ trace' = Append(trace, [strategy |-> strat + 1, failed |-> Failed,
                               verified |-> FALSE, fingerprint |-> {},
                               score |-> 0, findings |-> 0, tokens |-> n])

(* Slip: the tokens of a failed call are traced, and not counted.          *)
CountedIfAnswered ==
    Traced(CallTokens) /\ tokens' = IF Failed THEN tokens ELSE Spent

Counted == Traced(CallTokens) /\ tokens' = Spent

(* An absurd count is traced, and not counted.                             *)
RefuseTokens ==
    /\ Proposed
    /\ ~TokensAdmitted
    /\ Traced(0)
    /\ Stop("invalid_response")
    /\ UNCHANGED <<loopSpec, proposal, verdict, failures, envVars, bestVars,
                   stallVars, tokens>>

OverspendTokens ==
    /\ Proposed
    /\ TokensAdmitted
    /\ Counted
    /\ ~WithinBudget
    /\ Stop("budget_tokens")
    /\ UNCHANGED <<loopSpec, proposal, verdict, failures, envVars, bestVars,
                   stallVars>>

(* Slip: one failure more than the limit.                                  *)
TooManyAfter(n) == n > MaxActivityAttempts

TooMany(n) == n >= MaxActivityAttempts

(* A declared failure is tried again, as the next iteration, unless it is  *)
(* the last of a row.                                                      *)
FailedProposal ==
    /\ Proposed
    /\ TokensAdmitted
    /\ Counted
    /\ WithinBudget
    /\ Failed
    /\ failures' = failures + 1
    /\ IF ~Retryable \/ TooMany(failures')
       THEN Stop("activity_failed")
       ELSE Again
    /\ UNCHANGED <<loopSpec, proposal, verdict, envVars, bestVars, stallVars>>

Answered ==
    /\ Proposed
    /\ TokensAdmitted
    /\ Counted
    /\ WithinBudget
    /\ ~Failed
    /\ failures' = 0
    /\ UNCHANGED <<loopSpec, proposal, envVars, bestVars, stallVars>>

AdmittedCandidate == proposal.candidate \notin {Oversized, EmptyCandidate, NoCandidate}

RefuseCandidate ==
    /\ Answered
    /\ ~AdmittedCandidate
    /\ Stop("invalid_response")
    /\ UNCHANGED verdict

LateCandidate ==
    /\ Answered
    /\ AdmittedCandidate
    /\ timeUp
    /\ Stop("budget_time")
    /\ UNCHANGED verdict

(* ExecuteActivity(VerifyActivity).                                        *)
Verify ==
    /\ Answered
    /\ AdmittedCandidate
    /\ ~timeUp
    /\ phase' = "verify"
    /\ verdict' = [NoVerification EXCEPT !.state = "pending"]
    /\ UNCHANGED <<it, outVars>>

-----------------------------------------------------------------------------
(* The verifier answered or failed *)

(* Slip: the error of the verification is not handled.                     *)
VerifiedIfAnswered == phase = "verify" /\ ~cancelled /\ verdict.state = "answered"

Verified == phase = "verify" /\ ~cancelled /\ verdict.state # "pending"

FailedVerification ==
    /\ Verified
    /\ \/ verdict.state = "failed" /\ Stop("activity_failed")
       \/ verdict.state # "failed" /\ ~verdict.inBounds /\ Stop("invalid_response")
    /\ UNCHANGED <<loopSpec, proposal, verdict, failures, envVars, bestVars,
                   stallVars, countVars>>

Examined ==
    /\ Verified
    /\ verdict.state = "answered"
    /\ verdict.inBounds
    /\ trace' = [trace EXCEPT ![Len(trace)] =
                   [@ EXCEPT !.verified = TRUE,
                             !.fingerprint = Fingerprint(verdict.findings),
                             !.score = Score(verdict.findings),
                             !.findings = Len(verdict.findings)]]
    /\ UNCHANGED <<loopSpec, proposal, verdict, failures, envVars, iterations, tokens>>

(* Slip: the findings of an acceptance are not looked at.                  *)
IncoherentRefusal == ~verdict.ok /\ verdict.findings = <<>>

(* An acceptance with a blocking finding, a refusal without any finding.   *)
Incoherent ==
    \/ verdict.ok /\ Blocking(verdict.findings)
    \/ ~verdict.ok /\ verdict.findings = <<>>

RefuseVerdict ==
    /\ Examined
    /\ Incoherent
    /\ Stop("invalid_response")
    /\ UNCHANGED <<bestVars, stallVars>>

Converge ==
    /\ Examined
    /\ verdict.ok
    /\ ~Incoherent
    /\ phase' = "done"
    /\ status' = "converged"
    /\ outBest' = proposal.candidate
    /\ outRemaining' = verdict.findings
    /\ UNCHANGED <<it, reason, bestVars, stallVars>>

(* Slip: the last of the lowest score.                                     *)
NotWorse == best = NoCandidate \/ Score(verdict.findings) <= bestScore

Better == best = NoCandidate \/ Score(verdict.findings) < bestScore

KeepBest ==
    IF Better
    THEN /\ best' = proposal.candidate
         /\ bestScore' = Score(verdict.findings)
         /\ remaining' = verdict.findings
    ELSE UNCHANGED bestVars

(* Slip: two refusals are alike when they weigh the same.                  *)
SameScore == same > 0 /\ Score(verdict.findings) = Score(last)

SamePrint == same > 0 /\ Fingerprint(verdict.findings) = lastFP

(* Slip: the count starts at the second print.                             *)
RepeatedFromZero == IF Fingerprint(verdict.findings) = lastFP THEN same + 1 ELSE 0

Repeated == IF SamePrint THEN same + 1 ELSE 1

(* Neither a new print nor a new strategy resets the other; the best may   *)
(* have changed in this very step.                                         *)
Judge ==
    /\ Examined
    /\ ~verdict.ok
    /\ ~Incoherent
    /\ KeepBest
    /\ last' = verdict.findings
    /\ lastFP' = Fingerprint(verdict.findings)
    /\ same' = Repeated
    /\ judged' = Append(judged, [candidate |-> proposal.candidate,
                                 findings |-> verdict.findings])
    /\ \/ /\ Repeated >= loopSpec.escalateAfter
          /\ Escalate("stagnation", best', remaining')
          /\ UNCHANGED <<it, strat>>
       \/ /\ Repeated < loopSpec.escalateAfter
          /\ Repeated >= loopSpec.switchAfter
          /\ strat + 1 >= loopSpec.strategies
          /\ Escalate("strategies_exhausted", best', remaining')
          /\ UNCHANGED <<it, strat>>
       \/ /\ Repeated < loopSpec.escalateAfter
          /\ Repeated >= loopSpec.switchAfter
          /\ strat + 1 < loopSpec.strategies
          /\ strat' = strat + 1
          /\ Again
       \/ /\ Repeated < loopSpec.switchAfter
          /\ UNCHANGED strat
          /\ Again

Workflow ==
    \/ OutOfBudget \/ Propose \/ ReturnCancellation
    \/ RefuseTokens \/ OverspendTokens \/ FailedProposal
    \/ RefuseCandidate \/ LateCandidate \/ Verify
    \/ FailedVerification \/ RefuseVerdict \/ Converge \/ Judge

-----------------------------------------------------------------------------
(* The environment *)

ProposerEnds(p) ==
    /\ phase = "propose"
    /\ proposal.state = "pending"
    /\ proposal' = p
    /\ UNCHANGED <<loopSpec, phase, verdict, it, failures, envVars, bestVars,
                   stallVars, outVars, countVars>>

ProposerReplies == \E p \in Proposals : ProposerEnds(p)

VerifierReplies ==
    /\ phase = "verify"
    /\ verdict.state = "pending"
    /\ verdict' \in Verifications
    /\ UNCHANGED <<loopSpec, phase, proposal, it, failures, envVars, bestVars,
                   stallVars, outVars, countVars>>

(* The budget starts with the run and is not empty.                        *)
Elapse ==
    /\ phase \in {"propose", "verify"}
    /\ ~timeUp
    /\ timeUp' = TRUE
    /\ UNCHANGED <<loopSpec, phase, cancelled, proposal, verdict, it, failures,
                   bestVars, stallVars, outVars, countVars>>

Cancel ==
    /\ phase # "top"
    /\ ~cancelled
    /\ cancelled' = TRUE
    /\ UNCHANGED <<loopSpec, phase, timeUp, proposal, verdict, it, failures,
                   bestVars, stallVars, outVars, countVars>>

Next ==
    \/ \E s \in Specs : Begin(s)
    \/ Workflow
    \/ ProposerReplies
    \/ VerifierReplies
    \/ Elapse
    \/ Cancel

Spec == Init /\ [][Next]_vars

(* A worker polls the queue, and the StartToCloseTimeout of each attempt   *)
(* ends it.  Time need not run out.                                        *)
FairSpec ==
    Spec /\ WF_vars(Workflow) /\ WF_vars(ProposerReplies) /\ WF_vars(VerifierReplies)

-----------------------------------------------------------------------------
(* Properties *)

TokensOf(t) ==
    LET sum[n \in 0..Len(t)] == IF n = 0 THEN 0 ELSE sum[n - 1] + t[n].tokens
    IN  sum[Len(t)]

Begun == loopSpec # NoSpec

(* The trace accounts for the run: one entry per finished call of the      *)
(* proposer, failed ones included, and the tokens of the result are those  *)
(* of the trace.                                                           *)
TraceAccounts ==
    /\ iterations = Len(trace)
    /\ iterations <= loopSpec.maxIterations
    /\ tokens = TokensOf(trace)

(* The token budget is exceeded by one call at most, and exceeding it is   *)
(* always what the escalation says (T10): no later check may mask it.      *)
TokenBudget ==
    Begun =>
        /\ tokens <= loopSpec.maxTokens + MaxTokensLimit
        /\ (tokens > loopSpec.maxTokens) <=> (reason = "budget_tokens")

(* A call whose cost is unknown, because it failed without a declared cost *)
(* or declared an absurd one, is the last call of the run (obligation h).  *)
CostUnknown ==
    \/ ~TokensAdmitted
    \/ Failed /\ proposal.details # "declared"

UnknownCostEndsRun ==
    [][Proposed /\ CostUnknown /\ phase' # phase => phase' = "done"]_vars

(* The best candidate is the first of the lowest score among those the     *)
(* verifier refused so far, and what remains is its own list of findings:  *)
(* an escalation returns the two together (D8).                            *)
BestIsFirstLowest ==
    /\ judged = <<>> => best = NoCandidate
    /\ judged # <<>> =>
         \E k \in DOMAIN judged :
           /\ best = judged[k].candidate
           /\ remaining = judged[k].findings
           /\ \A j \in DOMAIN judged :
                /\ Score(judged[j].findings) >= Score(remaining)
                /\ j < k => Score(judged[j].findings) > Score(remaining)
    /\ status = "escalated" => outBest = best /\ outRemaining = remaining

(* A converged run holds the candidate of the last verification, accepted  *)
(* without a blocking finding, proposed and verified within the budgets.   *)
ConvergedOnAcceptance ==
    status = "converged" =>
        /\ verdict.ok /\ verdict.inBounds
        /\ outBest = proposal.candidate /\ outBest \in Candidates
        /\ outRemaining = verdict.findings /\ ~Blocking(outRemaining)
        /\ trace[Len(trace)].verified /\ ~trace[Len(trace)].failed
        /\ tokens <= loopSpec.maxTokens

PrintOf(k) == Fingerprint(judged[k].findings)

(* The last n of the first k candidates refused failed alike.              *)
AlikeAt(k, n) == k >= n /\ \A j \in (k - n + 1)..k : PrintOf(j) = PrintOf(k)

(* A run stops as stagnating exactly when the last EscalateAfter refused   *)
(* candidates failed alike, whatever the failed calls and the changes of   *)
(* strategy in between (D10).                                              *)
StagnationExact ==
    Begun =>
        (reason = "stagnation") <=> AlikeAt(Len(judged), loopSpec.escalateAfter)

(* The calls of the first i that a verification followed.                  *)
VerifiedBy(i) == {j \in 1..i : trace[j].verified}

(* The candidate of call i made the last SwitchAfter refused fail alike.   *)
StalledAt(i) ==
    /\ trace[i].verified
    /\ AlikeAt(Cardinality(VerifiedBy(i)), loopSpec.switchAfter)

(* The proposer gets the next strategy exactly when the last SwitchAfter   *)
(* refused candidates failed alike: a failed call changes nothing.         *)
StrategyFollowsStagnation ==
    \A i \in 1..(Len(trace) - 1) :
        trace[i + 1].strategy = trace[i].strategy + IF StalledAt(i) THEN 1 ELSE 0

(* Who reads only the trace knows what the run spent, how often it called, *)
(* and why its strategy changed where it did.                              *)
TraceTellsTheRun == TraceAccounts /\ StrategyFollowsStagnation

(* MaxActivityAttempts failed calls in a row are the end of the run, and   *)
(* a failed call is never the basis of a verification.                     *)
FailuresInRow ==
    /\ \A i \in DOMAIN trace : trace[i].failed => ~trace[i].verified
    /\ \A i \in 1..(Len(trace) - MaxActivityAttempts + 1) :
         (\A j \in i..(i + MaxActivityAttempts - 1) : trace[j].failed) =>
            /\ i + MaxActivityAttempts - 1 = Len(trace)
            /\ phase = "done"

(* A run ends, cancelled or not, without help of the wall time.            *)
RunEnds == phase \in {"top", "propose", "verify"} ~> phase = "done"
=============================================================================
