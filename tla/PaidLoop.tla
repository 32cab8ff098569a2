------------------------------- MODULE PaidLoop -------------------------------
(***************************************************************************)
(* What a run really costs: RunLoop, its proposer activity                 *)
(* (internal/loops/demo/activities/activities.go, Propose) and the client  *)
(* it calls, composed.  Each iteration of the loop is one attempt of the   *)
(* activity and one call of the client, which pays the provider any number *)
(* of times.  The context of the activity may end at any point; the server *)
(* may give the attempt up while it still runs, and the cancellation of    *)
(* the workflow does not reach it: either way the call goes on unheard.    *)
(***************************************************************************)
EXTENDS LLMClient

CONSTANTS
    Candidates, Oversized, EmptyCandidate, NoCandidate, Reports, Verifications,
    Budget,             \* the specification of the loop
    MaxRunTokens        \* MaxTokensLimit of the loop

VARIABLES
    loopSpec, phase, timeUp, cancelled, proposal, verdict, it, strat, failures,
    best, bestScore, remaining, last, lastFP, same, status, reason, outBest,
    outRemaining, iterations, tokens, trace, judged,
    activity,   \* no call; one the server waits for; one it gave up
    paid        \* history: what the calls that are over really cost

Loop == INSTANCE RunLoop WITH
    Specs <- {Budget}, Proposals <- {}, MaxIterationsLimit <- Budget.maxIterations,
    MaxTokensLimit <- MaxRunTokens,
    MaxStrategies <- 1, MaxEscalateAfter <- Budget.escalateAfter,
    MaxWallTimeLimit <- 1, MinActivityTimeout <- 1, MaxActivityTimeout <- 1,
    MaxActivityAttempts <- 3, DefaultSwitchAfter <- 2, DefaultEscalateAfter <- 3,
    DefaultActivityTimeout <- 1

ASSUME PaidAssumption ==
    /\ Calls # {}
    /\ Budget \in Loop!LoopSpec
    /\ MaxRunTokens \in Nat

loopVars == <<loopSpec, phase, timeUp, cancelled, proposal, verdict, it, strat,
              failures, best, bestScore, remaining, last, lastFP, same, status,
              reason, outBest, outRemaining, iterations, tokens, trace, judged>>
paidVars == <<loopVars, callVars, activity, paid>>

PaidInit == Loop!Init /\ Init /\ activity = "none" /\ paid = 0

(* The next call starts with a client of its own.                          *)
CallOver ==
    /\ paid' = paid + cost
    /\ call' = NoCall /\ where' = "idle" /\ ctxDone' = FALSE
    /\ attempt' = 0 /\ req' = <<>> /\ attempts' = 0
    /\ answer' = NoReply
    /\ usage' = 0 /\ bound' = 0 /\ cost' = 0
    /\ outcome' = "none" /\ charged' = FALSE

-----------------------------------------------------------------------------
(* The loop *)

LoopStep ==
    /\ Loop!Begin(Budget) \/ Loop!Workflow \/ Loop!VerifierReplies
         \/ Loop!Elapse \/ Loop!Cancel
    /\ phase' = "propose" => phase = "propose"
    /\ UNCHANGED <<callVars, activity, paid>>

(* The attempt is scheduled, and starts.                                   *)
Propose ==
    /\ Loop!Propose
    /\ activity' = "running"
    /\ CallOver

-----------------------------------------------------------------------------
(* The activity *)

(* A failure that tells no cost.                                          *)
Failure == [Loop!NoProposal EXCEPT !.state = "failed"]

(* Slip: the failure declares the usage counted, not the bound.            *)
DeclaredUsage == [Failure EXCEPT !.details = "declared", !.tokens = usage,
                               !.retryable = outcome = "out_of_schema"]

(* Only an answer out of the schema may be tried again.                    *)
UsageError == [Failure EXCEPT !.details = "declared", !.tokens = bound,
                            !.retryable = outcome = "out_of_schema"]

(* Slip: the end of the context is a failure that cost nothing.            *)
ContextCostsNothing == [Failure EXCEPT !.details = "declared", !.retryable = TRUE]

(* Once the context is over its error comes back, without a cost.          *)
ContextError == Failure

(* The switch on the error of the client.                                  *)
Results ==
    IF outcome = "result"
    THEN {[Loop!NoProposal EXCEPT !.state = "answered", !.candidate = c,
                                  !.tokens = usage] : c \in Candidates}
    ELSE {IF ctxDone THEN ContextError ELSE IF charged THEN UsageError ELSE Failure}

Heard == activity = "running" /\ phase = "propose"

(* A request, a client or a tenant that will not do: no call is made.      *)
RefuseRequest ==
    /\ Heard
    /\ where = "idle"
    /\ Loop!ProposerEnds(Failure)
    /\ activity' = "none"
    /\ CallOver

(* Propose calls Structured: no tools.                                     *)
ClientStep ==
    /\ activity # "none"
    /\ Next
    /\ ~call'.withTools
    /\ UNCHANGED <<loopVars, activity, paid>>

Return ==
    /\ Heard
    /\ where = "over"
    /\ \E p \in Results : Loop!ProposerEnds(p)
    /\ activity' = "none"
    /\ CallOver

(* Nobody waits for it any more.                                           *)
ReturnUnheard ==
    /\ activity # "none"
    /\ ~Heard
    /\ where = "over"
    /\ activity' = "none"
    /\ CallOver
    /\ UNCHANGED loopVars

(* The StartToCloseTimeout passed, or the worker is lost: the server fails *)
(* the attempt while the call may go on.                                   *)
Abandon ==
    /\ Heard
    /\ Loop!ProposerEnds(Failure)
    /\ activity' = "lost"
    /\ UNCHANGED <<callVars, paid>>

PaidNext ==
    \/ LoopStep \/ Propose
    \/ RefuseRequest \/ ClientStep \/ Return \/ ReturnUnheard \/ Abandon

PaidSpec == PaidInit /\ [][PaidNext]_paidVars

-----------------------------------------------------------------------------
(* Properties *)

(* The last call said what it cost: RunLoop can count it.                  *)
CostTold ==
    /\ proposal.state = "answered" \/ proposal.details = "declared"
    /\ Loop!TokensAdmitted

Settled ==
    \/ phase \in {"top", "verify"}
    \/ phase = "propose" /\ proposal.state = "pending"
    \/ phase = "done" /\ status # "canceled" /\ CostTold

(* The tokens of a run cover what its calls really cost, failed and        *)
(* corrected attempts included: whenever a call is made, those before it,  *)
(* and at the end all of them, if the last one could tell its cost.        *)
CallsCounted == Settled => paid <= tokens

Larger(a, b) == IF a >= b THEN a ELSE b

(* The most that an attempt of a call, and all of them, can cost.          *)
WorstAttempt(c) ==
    Larger(2 * MaxReportedTokens,
           c.maxTokens + MaxCorrections * CorrectionBytes
             + c.prompt.system.content.bytes + c.prompt.schema.content.bytes
             + RenderedMessages(RedactMessages(c.messages)))

WorstOf(c) == (MaxCorrections + 1) * WorstAttempt(c)

(* Whatever ends the run, a timeout or a cancellation with a call still in *)
(* progress included, it really costs at most its budget and one call.     *)
BudgetBoundsSpending ==
    \E c \in Calls : paid + cost <= loopSpec.maxTokens + WorstOf(c)

(* What a run spends is what it counts, as long as it can know, and is     *)
(* bounded where it cannot.                                                *)
SpendingKnownOrBounded == CallsCounted /\ BudgetBoundsSpending
=============================================================================
