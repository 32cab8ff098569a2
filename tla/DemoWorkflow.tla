----------------------------- MODULE DemoWorkflow -----------------------------
(***************************************************************************)
(* The demonstration workflow (internal/loops/demo/workflow.go): RunLoop,  *)
(* then a wait for one approval of the plan it converged on, then the      *)
(* commit of that plan.  It composes RunLoop and Approvals, which share    *)
(* the context of the workflow and its cancellation: a signal may arrive   *)
(* while the loop still runs, a cancellation at any blocking point, and    *)
(* the commit activity may take effect although the workflow never hears   *)
(* of it.                                                                  *)
(***************************************************************************)
EXTENDS Integers, Sequences

CONSTANTS
    Candidates, Oversized, EmptyCandidate, NoCandidate, Reports, Proposals,
    Verifications,
    PlanHashOf,         \* planHash: SHA-256 of the domain and the candidate
    Identities, SecurityHolders, Hashes, NoValue, Signals, InboxBound,
    Authors,            \* the authors an input may declare
    MaxIterations, MaxTokens, MaxTokensLimit,
    MaxIgnored          \* MaxIgnoredSignals

ASSUME DemoAssumption ==
    /\ PlanHashOf \in [Candidates -> Hashes]
    /\ \A c, d \in Candidates : PlanHashOf[c] = PlanHashOf[d] => c = d
    /\ Authors \subseteq Identities \cup {NoValue}
    /\ MaxIterations \in Nat

VARIABLES
    loopSpec, loopPhase, timeUp, proposal, verdict, it, strat, failures, best,
    bestScore, remaining, last, lastFP, same, status, reason, outBest,
    outRemaining, iterations, tokens, trace, judged,
    req, waitPhase, inbox, deadline, current, reply, security, approvals,
    ignored, outcome,
    cancelled,
    stage,      \* "start", "loop", "wait", "commit", or how it returned
    author,     \* in.Author
    planHash,   \* out.PlanHash
    commit,     \* the future of the commit activity
    attempt,    \* its one attempt, which may outlive the future
    effects     \* the plans the commit activity took effect on

Spec0 == [names |-> "valid", strategies |-> 2, maxIterations |-> MaxIterations,
          maxTokens |-> MaxTokens, maxWallTime |-> 1, switchAfter |-> 2,
          escalateAfter |-> 3, activityTimeout |-> 1, payloadAdmitted |-> TRUE]

ApprovalRequest(a, h) ==
    [plan |-> h, author |-> a, required |-> 1, needsRole |-> FALSE,
     verify |-> TRUE, maxIgnored |-> MaxIgnored, timeout |-> 1]

Loop == INSTANCE RunLoop WITH
    phase <- loopPhase, Specs <- {Spec0}, MaxIterationsLimit <- MaxIterations,
    MaxStrategies <- 2, MaxEscalateAfter <- 3, MaxWallTimeLimit <- 1,
    MinActivityTimeout <- 1, MaxActivityTimeout <- 1, MaxActivityAttempts <- 3,
    DefaultSwitchAfter <- 2, DefaultEscalateAfter <- 3,
    DefaultActivityTimeout <- 1

Wait == INSTANCE Approvals WITH
    phase <- waitPhase, MaxRequired <- 1, DefaultMaxIgnored <- 1,
    MaxIgnoredLimit <- MaxIgnored, MaxTimeout <- 1,
    Requests <- {ApprovalRequest(a, h) : a \in Identities, h \in Hashes}

loopVars == <<loopSpec, loopPhase, timeUp, proposal, verdict, it, strat,
              failures, best, bestScore, remaining, last, lastFP, same, status,
              reason, outBest, outRemaining, iterations, tokens, trace, judged>>
waitVars == <<req, waitPhase, inbox, deadline, current, reply, security,
              approvals, ignored, outcome>>
demoVars == <<stage, author, planHash, commit, attempt, effects>>
vars == <<loopVars, waitVars, demoVars, cancelled>>

Returned == {"refused", "error", "no_plan", "not_approved", "committed"}

Init ==
    /\ Loop!Init
    /\ Wait!Init
    /\ stage = "start"
    /\ author = NoValue
    /\ planHash = NoValue
    /\ commit = "none"
    /\ attempt = "none"
    /\ effects = {}

-----------------------------------------------------------------------------
(* Slip: the hash of the best of the candidates refused, if any.           *)
StalePlan(c) == PlanHashOf[IF best # NoCandidate THEN best ELSE c]

planHashOf(c) == PlanHashOf[c]

(* Input.validate: the target and the timeout are checked the same way.    *)
Start(a) ==
    /\ stage = "start"
    /\ author' = a
    /\ IF a = NoValue
       THEN stage' = "refused" /\ UNCHANGED <<loopVars, cancelled>>
       ELSE stage' = "loop" /\ Loop!Begin(Spec0)
    /\ UNCHANGED <<waitVars, planHash, commit, attempt, effects>>

LoopStep ==
    /\ stage = "loop"
    /\ Loop!Workflow
    /\ UNCHANGED <<waitVars, demoVars>>

LoopOver == stage = "loop" /\ loopPhase = "done"

(* Slip: the error of the loop is not handled.                             *)
EscalatedOnly == status = "escalated"

NotConverged == status # "converged"

(* Without a converged result there is no wait.                            *)
LeaveAfterLoop ==
    /\ LoopOver
    /\ NotConverged
    /\ stage' = IF status = "escalated" THEN "no_plan" ELSE "error"
    /\ UNCHANGED <<loopVars, waitVars, cancelled, author,
                   planHash, commit, attempt, effects>>

(* The plan is the best candidate; its approval is awaited in the step     *)
(* that ends the loop.                                                     *)
AwaitApproval ==
    /\ LoopOver
    /\ status = "converged"
    /\ stage' = "wait"
    /\ planHash' = planHashOf(outBest)
    /\ Wait!Begin(ApprovalRequest(author, planHashOf(outBest)))
    /\ UNCHANGED <<loopVars, author, commit, attempt, effects>>

WaitStep ==
    /\ stage = "wait"
    /\ Wait!Workflow
    /\ UNCHANGED <<loopVars, demoVars>>

WaitOver == stage = "wait" /\ waitPhase = "done"

LeaveAfterWait ==
    /\ WaitOver
    /\ outcome # "approved" \/ cancelled
    /\ stage' = IF outcome \in Wait!Errors \/ outcome = "approved"
                THEN "error" ELSE "not_approved"
    /\ UNCHANGED <<loopVars, waitVars, cancelled, author,
                   planHash, commit, attempt, effects>>

(* ExecuteActivity(CommitActivity): one attempt.                           *)
Commit ==
    /\ WaitOver
    /\ outcome = "approved"
    /\ ~cancelled
    /\ stage' = "commit"
    /\ commit' = "pending"
    /\ attempt' = "running"
    /\ UNCHANGED <<loopVars, waitVars, cancelled, author, planHash, effects>>

(* Slips: the error of the commit is not looked at, or is, and not its     *)
(* cancellation.                                                           *)
CommitEnded == commit # "pending"
CommitNotFailed == commit \in {"done", "canceled"}

Committed == commit = "done"

CommitReturns ==
    /\ stage = "commit"
    /\ commit # "pending"
    /\ stage' = IF Committed THEN "committed" ELSE "error"
    /\ UNCHANGED <<loopVars, waitVars, cancelled, author, planHash, commit,
                   attempt, effects>>

Workflow ==
    \/ LoopStep \/ LeaveAfterLoop \/ AwaitApproval
    \/ WaitStep \/ LeaveAfterWait \/ Commit \/ CommitReturns

-----------------------------------------------------------------------------
(* The environment moves only while the workflow is blocked.               *)
Blocked == ~LoopOver /\ ~WaitOver /\ loopPhase # "top"

(* The attempt runs whether the workflow still waits or not; its result    *)
(* may be lost (a timeout) although it took effect.                        *)
CommitRuns ==
    /\ attempt = "running"
    /\ attempt' = "over"
    /\ \E result \in {"done", "failed"} :
         /\ commit' = IF commit = "pending" THEN result ELSE commit
         /\ \/ effects' = effects \cup {planHash}
            \/ result = "failed" /\ UNCHANGED effects
    /\ UNCHANGED <<loopVars, waitVars, cancelled, stage, author, planHash>>

Signal ==
    /\ Blocked
    /\ stage \in {"start", "loop", "wait"}
    /\ \E s \in Signals : Wait!Arrive(s)
    /\ UNCHANGED <<loopVars, demoVars>>

(* The future of an activity in progress is resolved by the cancellation,  *)
(* unless the result of the activity came first.                           *)
Cancel ==
    /\ Blocked
    /\ stage \notin Returned
    /\ Wait!Cancel
    /\ commit' = IF commit = "pending" THEN "canceled" ELSE commit
    /\ UNCHANGED <<loopVars, stage, author, planHash, attempt, effects>>

Environment ==
    \/ stage = "loop" /\ (Loop!ProposerReplies \/ Loop!VerifierReplies \/ Loop!Elapse)
         /\ UNCHANGED <<waitVars, demoVars>>
    \/ Blocked /\ (Wait!Fire \/ Wait!VerifierReplies)
         /\ UNCHANGED <<loopVars, demoVars>>
    \/ CommitRuns

Next ==
    \/ \E a \in Authors : Start(a)
    \/ Workflow
    \/ Environment
    \/ Signal
    \/ Cancel

Spec == Init /\ [][Next]_vars

(* A worker runs the workflow, and each activity ends by its timeout.      *)
FairSpec == Spec /\ WF_vars(Workflow) /\ WF_vars(Environment)

-----------------------------------------------------------------------------
(* Properties *)

(* Nothing is committed but the plan of the candidate the verifier         *)
(* accepted, approved by someone else than the author in a verified signal *)
(* on that very plan, signals sent before it existed included (principle   *)
(* 7).                                                                     *)
CommittedWasApproved ==
    \A h \in effects :
        /\ status = "converged"
        /\ verdict.ok /\ h = PlanHashOf[proposal.candidate]
        /\ outcome = "approved"
        /\ \E i \in DOMAIN approvals :
             /\ approvals[i].genuine /\ approvals[i].approved
             /\ approvals[i].plan = h
             /\ approvals[i].approver # author

(* The output says "committed" only if the commit took effect; when it     *)
(* says anything else than an error, it did not.                           *)
OutputTellsTheEffect ==
    /\ stage = "committed" => effects = {planHash}
    /\ stage \in {"refused", "no_plan", "not_approved"} => effects = {}

(* The commit is never started once the workflow is cancelled, and a       *)
(* cancelled workflow ends in error whatever it was doing (obligation m),  *)
(* unless the commit was done before.                                      *)
CancelledNeverCommits ==
    [][cancelled /\ commit # "done" =>
         /\ attempt = "none" => attempt' = "none"
         /\ stage' # stage => stage' \in {"refused", "loop", "error"}]_vars

(* Only a converged loop opens a wait, on the hash of its best candidate.  *)
WaitOnlyIfConverged ==
    waitPhase # "idle" =>
        /\ status = "converged"
        /\ req.plan = PlanHashOf[outBest]
        /\ req.author = author

(* Once started, the workflow returns.                                     *)
WorkflowReturns == stage = "loop" ~> stage \in Returned
=============================================================================
