-------------------------- MODULE DemoWorkflowProofs --------------------------
(***************************************************************************)
(* The demonstration workflow for every value of the constants: whatever   *)
(* the candidates, the people, the signals and the moment of a             *)
(* cancellation, nothing is committed but an approved plan, and the output *)
(* tells what was.                                                         *)
(***************************************************************************)
EXTENDS DemoWorkflow, TLAPS

(* How the loop ends, and what a cancellation leaves of it: between two    *)
(* blocking points it is as it was when the run began.                     *)
LoopInv ==
    /\ loopPhase \in {"idle", "top", "propose", "verify", "done"}
    /\ loopPhase # "done" => status = "running"
    /\ status = "converged" => /\ loopPhase = "done"
                               /\ verdict.ok /\ outBest = proposal.candidate
    /\ loopPhase = "idle" => ~timeUp
    /\ loopPhase = "top" /\ cancelled =>
         /\ it = 1 /\ ~timeUp
         /\ loopSpec.maxIterations \in Nat /\ loopSpec.maxIterations >= 1
    /\ stage = "loop" /\ loopPhase = "done" /\ cancelled =>
         status \notin {"converged", "escalated"}

(* The plan whose approval is awaited.                                     *)
Awaited ==
    /\ status = "converged" /\ planHash = PlanHashOf[outBest]
    /\ req.plan = planHash /\ req.author = author /\ req.required = 1

Approved(a) ==
    /\ a.genuine /\ a.approved
    /\ a.plan = planHash
    /\ a.approver # author

(* One approval is required: none is kept until it ends the wait.          *)
WaitInv ==
    /\ waitPhase \in {"idle", "select", "verify", "done"}
    /\ waitPhase # "done" => approvals = <<>> /\ outcome = "none"
    /\ waitPhase \in {"select", "verify"} => stage = "wait" /\ Awaited
    /\ waitPhase = "verify" =>
         /\ current.plan = planHash /\ current.approver # author
         /\ reply.valid => current.genuine
    /\ outcome = "approved" =>
         /\ status = "converged" /\ planHash = PlanHashOf[outBest]
         /\ approvals = <<current>> /\ Approved(current)
    /\ stage = "wait" /\ waitPhase = "done" /\ cancelled => outcome \in Wait!Errors

Before == {"start", "loop", "wait", "refused", "no_plan", "not_approved"}

StageInv ==
    /\ stage \in {"start", "loop", "wait", "commit"} \cup Returned
    /\ stage = "start" => loopPhase = "idle"
    /\ stage = "loop" => loopPhase # "idle"
    /\ stage \notin {"start", "loop", "refused"} => loopPhase = "done"
    /\ stage \in {"start", "loop", "refused"} => waitPhase = "idle"
    /\ stage = "wait" => waitPhase # "idle"

(* An attempt of the commit is made once, and only after an approval.      *)
CommitInv ==
    /\ attempt \in {"none", "running", "over"}
    /\ stage \in Before => attempt = "none"
    /\ attempt = "none" => effects = {} /\ commit = "none"
    /\ attempt # "none" => waitPhase = "done" /\ outcome = "approved"
    /\ attempt = "running" => effects = {} /\ commit \in {"pending", "canceled"}
    /\ effects \subseteq {planHash}
    /\ commit = "pending" => attempt = "running"
    /\ commit = "done" => effects = {planHash}
    /\ stage = "committed" => commit = "done"

Inductive == LoopInv /\ WaitInv /\ StageInv /\ CommitInv

LEMMA InitInductive == Init => Inductive
  BY DEF Init, Loop!Init, Wait!Init, Inductive, LoopInv, WaitInv, StageInv, CommitInv,
         Before, Returned

-----------------------------------------------------------------------------
(* The loop *)

(* What ends the loop, an acceptance aside, is no convergence.             *)
LEMMA LoopWorkflow ==
    ASSUME LoopInv, stage = "loop", stage' = stage, Loop!Workflow
    PROVE  LoopInv' /\ cancelled' = cancelled /\ loopPhase' # "idle"
<1> USE DEF LoopInv
<1>1. CASE Loop!OutOfBudget
  <2>1. ~cancelled
    BY <1>1 DEF Loop!OutOfBudget
  <2> QED
    BY <1>1, <2>1 DEF Loop!OutOfBudget, Loop!Stop, Loop!Escalate, Loop!envVars
<1>2. CASE Loop!Propose
  BY <1>2 DEF Loop!Propose, Loop!envVars, Loop!outVars
<1>3. CASE Loop!ReturnCancellation
  BY <1>3 DEF Loop!ReturnCancellation, Loop!envVars
<1>4. CASE Loop!RefuseTokens \/ Loop!OverspendTokens \/ Loop!RefuseCandidate
           \/ Loop!LateCandidate
  BY <1>4
  DEF Loop!RefuseTokens, Loop!OverspendTokens, Loop!RefuseCandidate, Loop!LateCandidate,
      Loop!Answered, Loop!Proposed, Loop!Stop, Loop!Escalate, Loop!envVars
<1>5. CASE Loop!FailedProposal
  BY <1>5
  DEF Loop!FailedProposal, Loop!Proposed, Loop!Stop, Loop!Escalate, Loop!Again,
      Loop!envVars, Loop!outVars
<1>6. CASE Loop!Verify
  BY <1>6 DEF Loop!Verify, Loop!Answered, Loop!Proposed, Loop!envVars, Loop!outVars
<1>7. CASE Loop!FailedVerification \/ Loop!RefuseVerdict
  BY <1>7
  DEF Loop!FailedVerification, Loop!RefuseVerdict, Loop!Examined, Loop!Verified,
      Loop!Stop, Loop!Escalate, Loop!envVars
<1>8. CASE Loop!Converge
  BY <1>8 DEF Loop!Converge, Loop!Examined, Loop!Verified, Loop!envVars
<1>9. CASE Loop!Judge
  BY <1>9
  DEF Loop!Judge, Loop!Examined, Loop!Verified, Loop!Escalate, Loop!Again, Loop!envVars,
      Loop!outVars
<1> QED
  BY <1>1, <1>2, <1>3, <1>4, <1>5, <1>6, <1>7, <1>8, <1>9 DEF Loop!Workflow

LEMMA LoopEnvironment ==
    ASSUME LoopInv, stage = "loop", stage' = stage,
           Loop!ProposerReplies \/ Loop!VerifierReplies \/ Loop!Elapse
    PROVE  LoopInv' /\ cancelled' = cancelled /\ loopPhase' = loopPhase
<1>1. ASSUME NEW p \in Proposals, Loop!ProposerEnds(p)
      PROVE  LoopInv' /\ cancelled' = cancelled /\ loopPhase' = loopPhase
  BY <1>1 DEF LoopInv, Loop!ProposerEnds, Loop!envVars, Loop!outVars
<1>2. CASE Loop!VerifierReplies
  BY <1>2 DEF LoopInv, Loop!VerifierReplies, Loop!envVars, Loop!outVars
<1>3. CASE Loop!Elapse
  BY <1>3 DEF LoopInv, Loop!Elapse, Loop!outVars
<1> QED
  BY <1>1, <1>2, <1>3 DEF Loop!ProposerReplies

LEMMA InLoop ==
    ASSUME Inductive, stage = "loop", LoopInv', cancelled' = cancelled,
           loopPhase' # "idle", UNCHANGED <<waitVars, demoVars>>
    PROVE  Inductive'
<1>1. waitPhase = "idle" /\ attempt = "none" /\ outcome = "none"
  BY DEF Inductive, StageInv, CommitInv, WaitInv, Before
<1>2. WaitInv' /\ StageInv' /\ CommitInv'
  BY <1>1
  DEF Inductive, WaitInv, StageInv, CommitInv, Before, Returned, waitVars, demoVars
<1> QED
  BY <1>2 DEF Inductive

LEMMA StartStep == ASSUME Inductive, NEW a \in Authors, Start(a) PROVE Inductive'
<1>1. /\ stage = "start" /\ loopPhase = "idle" /\ waitPhase = "idle" /\ attempt = "none"
      /\ status = "running" /\ ~timeUp /\ outcome = "none"
  BY DEF Start, Inductive, LoopInv, StageInv, WaitInv, CommitInv, Before
<1>2. UNCHANGED <<waitVars, planHash, commit, attempt, effects, cancelled>>
  BY DEF Start, Loop!Begin, Loop!envVars
<1>3. LoopInv' /\ (stage' = "refused" \/ (stage' = "loop" /\ loopPhase' # "idle"))
  <2>1. CASE a = NoValue
    BY <1>1, <2>1 DEF Start, Inductive, LoopInv, loopVars
  <2>2. CASE a # NoValue /\ loopPhase' = "top"
    <3>1. /\ Loop!ValidSpec(Spec0) /\ loopSpec' = Loop!WithDefaults(Spec0) /\ it' = 1
          /\ status' = status /\ timeUp' = timeUp
      BY <2>2 DEF Start, Loop!Begin, Loop!envVars
    <3>2. loopSpec'.maxIterations = MaxIterations
      BY <3>1 DEF Loop!WithDefaults, Spec0
    <3>3. MaxIterations >= 1
      BY <3>1, DemoAssumption DEF Loop!ValidSpec, Loop!WithDefaults, Spec0
    <3> QED
      BY <1>1, <2>2, <3>1, <3>2, <3>3, DemoAssumption DEF Start, LoopInv
  <2>3. CASE a # NoValue /\ loopPhase' # "top"
    BY <1>1, <2>3 DEF Start, Loop!Begin, LoopInv
  <2> QED
    BY <2>1, <2>2, <2>3
<1>4. WaitInv' /\ StageInv' /\ CommitInv'
  BY <1>1, <1>2, <1>3
  DEF Inductive, WaitInv, StageInv, CommitInv, Before, Returned, waitVars
<1> QED
  BY <1>3, <1>4 DEF Inductive

LEMMA LeaveLoopStep == ASSUME Inductive, LeaveAfterLoop PROVE Inductive'
<1>1. stage = "loop" /\ waitPhase = "idle" /\ attempt = "none" /\ outcome = "none"
  BY DEF LeaveAfterLoop, LoopOver, Inductive, StageInv, CommitInv, WaitInv, Before
<1>2. stage' \in {"no_plan", "error"}
  BY DEF LeaveAfterLoop
<1> QED
  BY <1>1, <1>2
  DEF LeaveAfterLoop, LoopOver, Inductive, LoopInv, WaitInv, Awaited, StageInv, CommitInv,
      Before, Returned, loopVars, waitVars

-----------------------------------------------------------------------------
(* The wait *)

LEMMA AwaitStep == ASSUME Inductive, AwaitApproval PROVE Inductive'
<1>1. /\ stage = "loop" /\ loopPhase = "done" /\ status = "converged" /\ ~cancelled
      /\ waitPhase = "idle" /\ attempt = "none" /\ approvals = <<>> /\ outcome = "none"
      /\ effects = {} /\ commit = "none"
  BY DEF AwaitApproval, LoopOver, Inductive, LoopInv, StageInv, CommitInv, WaitInv, Before
<1> DEFINE r == ApprovalRequest(author, PlanHashOf[outBest])
<1>2. /\ Wait!Begin(r) /\ planHash' = PlanHashOf[outBest] /\ stage' = "wait"
      /\ UNCHANGED <<loopVars, author, commit, attempt, effects>>
  BY DEF AwaitApproval, planHashOf
<1>3. /\ Wait!WithDefaults(r).plan = PlanHashOf[outBest]
      /\ Wait!WithDefaults(r).author = author /\ Wait!WithDefaults(r).required = 1
  BY DEF Wait!WithDefaults, ApprovalRequest
<1> HIDE DEF r
<1>4. UNCHANGED <<approvals, cancelled>>
  BY <1>2 DEF Wait!Begin
<1>5. CASE waitPhase' = "select"
  <2>1. req' = Wait!WithDefaults(r) /\ outcome' = "none"
    BY <1>1, <1>2, <1>5 DEF Wait!Begin
  <2>2. Awaited'
    BY <1>1, <1>2, <1>3, <2>1 DEF Awaited, loopVars
  <2> QED
    BY <1>1, <1>2, <1>4, <1>5, <2>1, <2>2
    DEF Inductive, LoopInv, WaitInv, StageInv, CommitInv, Before, loopVars
<1>6. CASE waitPhase' # "select"
  <2>1. waitPhase' = "done" /\ outcome' = "invalid_request"
    BY <1>2, <1>6 DEF Wait!Begin
  <2> QED
    BY <1>1, <1>2, <1>4, <2>1
    DEF Inductive, LoopInv, WaitInv, StageInv, CommitInv, Before, loopVars, Wait!Errors
<1> QED
  BY <1>5, <1>6

(* A step of the wait that keeps it open, on the same request.             *)
LEMMA StillWaiting ==
    ASSUME Inductive, stage = "wait", waitPhase \in {"select", "verify"},
           waitPhase' \in {"select", "verify"},
           UNCHANGED <<loopVars, demoVars, req, approvals, outcome>>,
           waitPhase' = "verify" =>
             /\ current'.plan = planHash /\ current'.approver # author
             /\ reply'.valid => current'.genuine,
           cancelled' = cancelled
    PROVE  Inductive'
<1>1. Awaited /\ Awaited'
  BY DEF Inductive, WaitInv, Awaited, loopVars, demoVars
<1>2. approvals = <<>> /\ outcome = "none" /\ attempt = "none"
  BY DEF Inductive, WaitInv, StageInv, CommitInv, Before
<1> QED
  BY <1>1, <1>2
  DEF Inductive, LoopInv, WaitInv, StageInv, CommitInv, Before, Returned, loopVars, demoVars

(* A return of the wait that approves nothing, and is an error when the    *)
(* workflow is cancelled.                                                  *)
LEMMA WaitReturns ==
    ASSUME Inductive, stage = "wait", waitPhase \in {"select", "verify"},
           UNCHANGED <<loopVars, demoVars, cancelled>>,
           NEW o, NEW kept, NEW ign, Wait!End(o, kept, ign),
           o # "approved"
    PROVE  Inductive'
<1>1. attempt = "none" /\ waitPhase' = "done"
  BY DEF Inductive, CommitInv, Before, Wait!End
<1>2. outcome' # "approved" /\ (cancelled => outcome' = "canceled")
  BY DEF Wait!End
<1> QED
  BY <1>1, <1>2
  DEF Inductive, LoopInv, WaitInv, Awaited, StageInv, CommitInv, Before, Returned, loopVars,
      demoVars, Wait!Errors

LEMMA IgnoreStep ==
    ASSUME Inductive, stage = "wait", waitPhase \in {"select", "verify"},
           UNCHANGED <<loopVars, demoVars, cancelled, req>>,
           NEW a, NEW why, Wait!Ignore(a, why)
    PROVE  Inductive'
<1> DEFINE ign == Append(ignored, [declared |-> a.approver, reason |-> why])
<1>1. CASE Wait!End("signal_flood", approvals, ign)
  BY <1>1, WaitReturns
<1>2. CASE waitPhase' = "select" /\ UNCHANGED <<approvals, outcome>>
  BY <1>2, StillWaiting
<1> QED
  BY <1>1, <1>2 DEF Wait!Ignore

(* The approval that ends the wait is a verified one, on this plan, not of *)
(* its author.                                                             *)
LEMMA KeepStep ==
    ASSUME Inductive, stage = "wait", Wait!Keep, UNCHANGED <<loopVars, demoVars>>
    PROVE  Inductive'
<1>1. /\ waitPhase = "verify" /\ Awaited /\ approvals = <<>> /\ attempt = "none"
      /\ current.plan = planHash /\ current.approver # author
      /\ reply.valid => current.genuine
  BY DEF Wait!Keep, Wait!Resuming, Inductive, WaitInv, CommitInv, Before
<1>2. /\ ~cancelled /\ reply.valid /\ current.approved
      /\ UNCHANGED <<req, cancelled, current, reply>>
  BY DEF Wait!Keep, Wait!Resuming, Wait!Late, Wait!Refused
<1>3. Append(approvals, current) = <<current>> /\ Len(Append(approvals, current)) = 1
  BY <1>1
<1>4. Wait!End("approved", <<current>>, ignored)
  BY <1>1, <1>3 DEF Wait!Keep, Awaited
<1>5. waitPhase' = "done" /\ outcome' = "approved" /\ approvals' = <<current>>
  BY <1>2, <1>4 DEF Wait!End
<1>6. Approved(current)'
  BY <1>1, <1>2 DEF Approved, demoVars
<1> QED
  BY <1>1, <1>2, <1>5, <1>6
  DEF Inductive, LoopInv, WaitInv, Awaited, StageInv, CommitInv, Before, Returned, loopVars,
      demoVars

LEMMA WaitStepInv == ASSUME Inductive, WaitStep PROVE Inductive'
<1>1. stage = "wait" /\ UNCHANGED <<loopVars, demoVars>>
  BY DEF WaitStep
<1>2. waitPhase \in {"select", "verify"} => Awaited
  BY DEF Inductive, WaitInv
<1>3. CASE Wait!Expire
  BY <1>1, <1>3, WaitReturns DEF Wait!Expire
<1>4. CASE Wait!Drop
  BY <1>1, <1>4, StillWaiting DEF Wait!Drop, Wait!Receiving, Wait!waitVars
<1>5. CASE Wait!ScreenOut
  BY <1>1, <1>5, IgnoreStep DEF Wait!ScreenOut, Wait!Receiving
<1>6. CASE Wait!StartVerification
  <2>1. /\ waitPhase = "select" /\ waitPhase' = "verify" /\ current' = Head(inbox)
        /\ reply' = Wait!Pending
        /\ UNCHANGED <<req, cancelled, approvals, outcome>>
    BY <1>6 DEF Wait!StartVerification, Wait!Receiving
  <2>2. current'.plan = req.plan /\ current'.approver # req.author
    <3>1. Wait!Screen(Head(inbox)) = "none"
      BY <1>6 DEF Wait!StartVerification
    <3> QED
      BY <2>1, <3>1 DEF Wait!Screen
  <2>3. ~reply'.valid
    BY <2>1 DEF Wait!Pending, Wait!NoReply
  <2> QED
    BY <1>1, <1>2, <2>1, <2>2, <2>3, StillWaiting DEF Awaited
<1>7. CASE Wait!LateVerification
  BY <1>1, <1>7, WaitReturns DEF Wait!LateVerification, Wait!Resuming
<1>8. CASE Wait!VerificationRefused
  BY <1>1, <1>8, IgnoreStep DEF Wait!VerificationRefused, Wait!Resuming
<1>9. CASE Wait!Reject
  BY <1>1, <1>9, WaitReturns DEF Wait!Reject, Wait!Resuming
<1>10. CASE Wait!ReserveLastSeat
  BY <1>1, <1>10, IgnoreStep DEF Wait!ReserveLastSeat, Wait!Resuming
<1>11. CASE Wait!Keep
  BY <1>1, <1>11, KeepStep
<1> QED
  BY <1>3, <1>4, <1>5, <1>6, <1>7, <1>8, <1>9, <1>10, <1>11 DEF WaitStep, Wait!Workflow

-----------------------------------------------------------------------------
(* The commit and the environment *)

LEMMA EndSteps ==
    ASSUME Inductive, LeaveAfterWait \/ Commit \/ CommitReturns \/ CommitRuns
    PROVE  Inductive'
<1> USE DEF Inductive, LoopInv, WaitInv, Awaited, Approved, StageInv, CommitInv, Before,
            Returned, loopVars, waitVars, WaitOver
<1>1. CASE LeaveAfterWait
  BY <1>1 DEF LeaveAfterWait
<1>2. CASE Commit
  BY <1>2 DEF Commit
<1>3. CASE CommitReturns
  BY <1>3 DEF CommitReturns, Committed
<1>4. CASE CommitRuns
  BY <1>4 DEF CommitRuns
<1> QED
  BY <1>1, <1>2, <1>3, <1>4

LEMMA EnvironmentStep ==
    ASSUME Inductive,
           Signal \/ Cancel
             \/ (Blocked /\ (Wait!Fire \/ Wait!VerifierReplies) /\ UNCHANGED <<loopVars, demoVars>>)
    PROVE  Inductive'
<1> USE DEF Inductive, LoopInv, WaitInv, Awaited, Approved, StageInv, CommitInv, Before,
            Returned, loopVars, demoVars
<1>1. ASSUME NEW s \in Signals, Wait!Arrive(s), UNCHANGED <<loopVars, demoVars>>
      PROVE  Inductive'
  BY <1>1 DEF Wait!Arrive, Wait!waitVars
<1>2. CASE Cancel
  BY <1>2 DEF Cancel, Wait!Cancel, Blocked, LoopOver, WaitOver
<1>3. CASE Wait!Fire /\ UNCHANGED <<loopVars, demoVars>>
  BY <1>3 DEF Wait!Fire
<1>4. CASE Wait!VerifierReplies /\ UNCHANGED <<loopVars, demoVars>>
  <2>1. waitPhase = "verify" /\ UNCHANGED <<req, waitPhase, approvals, outcome, cancelled, current>>
    BY <1>4 DEF Wait!VerifierReplies, Wait!waitVars
  <2>2. reply'.valid => current.genuine
    BY <1>4 DEF Wait!VerifierReplies, Wait!NoReply
  <2>3. stage = "wait"
    BY <2>1
  <2> QED
    BY <1>4, <2>1, <2>2, <2>3, StillWaiting
<1> QED
  BY <1>1, <1>2, <1>3, <1>4 DEF Signal

LEMMA StepInductive == ASSUME Inductive, [Next]_vars PROVE Inductive'
<1>1. CASE LoopStep
  BY <1>1, LoopWorkflow, InLoop DEF LoopStep, Inductive, demoVars
<1>2. CASE stage = "loop" /\ (Loop!ProposerReplies \/ Loop!VerifierReplies \/ Loop!Elapse)
           /\ UNCHANGED <<waitVars, demoVars>>
  BY <1>2, LoopEnvironment, InLoop DEF Inductive, StageInv, demoVars
<1>3. CASE UNCHANGED vars
  BY <1>3 DEF vars, Inductive, LoopInv, WaitInv, Awaited, Approved, StageInv, CommitInv,
              loopVars, waitVars, demoVars
<1> QED
  BY <1>1, <1>2, <1>3, StartStep, LeaveLoopStep, AwaitStep, WaitStepInv, EndSteps,
     EnvironmentStep
  DEF Next, Workflow, Environment

(* The invariant holds for all values of the constants: whatever is       *)
(* committed stems from the loop and the wait of this very run.           *)
THEOREM InductiveInvariant == Spec => []Inductive
  BY InitInductive, StepInductive, PTL DEF Spec

(* Nothing is committed but the plan that the verifier accepted, approved  *)
(* in a verified signal on that very plan by someone else than its author. *)
THEOREM OnlyApprovedIsCommitted == Spec => []CommittedWasApproved
<1>1. Inductive => CommittedWasApproved
  <2> SUFFICES ASSUME Inductive, NEW h \in effects
               PROVE  /\ status = "converged"
                      /\ verdict.ok /\ h = PlanHashOf[proposal.candidate]
                      /\ outcome = "approved"
                      /\ \E i \in DOMAIN approvals :
                           /\ approvals[i].genuine /\ approvals[i].approved
                           /\ approvals[i].plan = h
                           /\ approvals[i].approver # author
    BY DEF CommittedWasApproved
  <2>1. h = planHash /\ outcome = "approved"
    BY DEF Inductive, CommitInv
  <2>2. /\ status = "converged" /\ planHash = PlanHashOf[outBest]
        /\ approvals = <<current>> /\ Approved(current)
    BY <2>1 DEF Inductive, WaitInv
  <2>3. 1 \in DOMAIN approvals /\ approvals[1] = current
    BY <2>2
  <2> QED
    BY <2>1, <2>2, <2>3 DEF Inductive, LoopInv, Approved
<1> QED
  BY <1>1, InductiveInvariant, PTL

(* The output says "committed" only of a commit that took effect, and      *)
(* anything but an error only when none did.                               *)
THEOREM OutputIsTrue == Spec => []OutputTellsTheEffect
<1>1. Inductive => OutputTellsTheEffect
  BY DEF Inductive, CommitInv, Before, OutputTellsTheEffect
<1> QED
  BY <1>1, InductiveInvariant, PTL

(* Wherever a cancellation finds the workflow, no commit starts after it,  *)
(* and the workflow ends in error unless the commit was done.              *)
THEOREM CancellationIsFinal == Spec => CancelledNeverCommits
<1>1. ASSUME Inductive, [Next]_vars, cancelled, commit # "done", stage' # stage
      PROVE  stage' \in {"refused", "loop", "error"}
  <2>1. ASSUME NEW a \in Authors, Start(a) PROVE stage' \in {"refused", "loop", "error"}
    BY <2>1 DEF Start
  <2>2. CASE LeaveAfterLoop \/ AwaitApproval
    BY <1>1, <2>2 DEF LeaveAfterLoop, AwaitApproval, LoopOver, Inductive, LoopInv
  <2>3. CASE LeaveAfterWait \/ Commit \/ CommitReturns
    BY <1>1, <2>3
    DEF LeaveAfterWait, Commit, CommitReturns, Committed, WaitOver, Inductive, WaitInv
  <2>4. CASE LoopStep \/ WaitStep \/ Environment \/ Signal \/ Cancel \/ UNCHANGED vars
    BY <1>1, <2>4
    DEF LoopStep, WaitStep, Environment, CommitRuns, Signal, Cancel, vars, demoVars
  <2> QED
    BY <1>1, <2>1, <2>2, <2>3, <2>4 DEF Next, Workflow
<1>2. ASSUME Inductive, [Next]_vars, cancelled, attempt = "none"
      PROVE  attempt' = "none"
  <2>1. ASSUME NEW a \in Authors, Start(a) PROVE attempt' = "none"
    BY <1>2, <2>1 DEF Start
  <2>2. CASE LeaveAfterLoop \/ AwaitApproval \/ LeaveAfterWait \/ Commit \/ CommitReturns
             \/ CommitRuns
    BY <1>2, <2>2
    DEF LeaveAfterLoop, AwaitApproval, LeaveAfterWait, Commit, CommitReturns, CommitRuns
  <2>3. CASE LoopStep \/ WaitStep \/ Signal \/ Cancel \/ UNCHANGED vars
    BY <1>2, <2>3 DEF LoopStep, WaitStep, Signal, Cancel, vars, demoVars
  <2>4. CASE Environment /\ ~CommitRuns
    BY <1>2, <2>4 DEF Environment, demoVars
  <2> QED
    BY <1>2, <2>1, <2>2, <2>3, <2>4 DEF Next, Workflow
<1>3. Inductive /\ [Next]_vars =>
        [cancelled /\ commit # "done" =>
           /\ attempt = "none" => attempt' = "none"
           /\ stage' # stage => stage' \in {"refused", "loop", "error"}]_vars
  BY <1>1, <1>2
<1> QED
  BY <1>3, InductiveInvariant, PTL DEF Spec, CancelledNeverCommits
=============================================================================
