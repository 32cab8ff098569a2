---------------------------- MODULE RunLoopProofs ----------------------------
(***************************************************************************)
(* The safety of RunLoop for every value of the constants: any candidates, *)
(* reports, specifications, replies of the activities, and limits.         *)
(*                                                                         *)
(* Each property is proved by an invariant of its own, on top of Shape.    *)
(***************************************************************************)
EXTENDS RunLoop, FiniteSetTheorems, WellFoundedInduction, TLAPS

Running == phase \in {"top", "propose", "verify"}

(* A verification follows an answered call of the proposer, whose entry is *)
(* the last of the trace.                                                  *)
Verifying ==
    /\ proposal.state = "answered"
    /\ proposal.candidate \in Candidates
    /\ trace # <<>>
    /\ ~trace[Len(trace)].failed

Shape ==
    /\ TypeOK
    /\ phase = "propose" => proposal.state # "none"
    /\ phase = "verify" => Verifying

Judged == [candidate: Candidates, findings: Reports \cup {<<>>}]

-----------------------------------------------------------------------------
(* What Append does to a sequence, element by element.                     *)
LEMMA AppendFacts ==
    ASSUME NEW S, NEW s \in Seq(S), NEW e \in S
    PROVE  /\ Append(s, e) \in Seq(S)
           /\ Len(Append(s, e)) = Len(s) + 1
           /\ Append(s, e) # <<>>
           /\ \A i \in 1..Len(s) : Append(s, e)[i] = s[i]
           /\ Append(s, e)[Len(s) + 1] = e
           /\ Len(s) \in Nat
           /\ DOMAIN s = 1..Len(s)
           /\ DOMAIN Append(s, e) = 1..(Len(s) + 1)
  OBVIOUS

(* No finding has an empty print.                                          *)
LEMMA EmptyPrint ==
    {} \in {Fingerprint(f) : f \in Reports \cup {<<>>}}
  <1>1. Fingerprint(<<>>) = {}
    BY DEF Fingerprint
  <1> QED
    BY <1>1

(* A call of the proposer that ended adds one entry to the trace.          *)
LEMMA TracedCall ==
    ASSUME TypeOK, NEW n \in Nat, Traced(n)
    PROVE  /\ trace' \in Seq(Trace)
           /\ iterations' \in Nat
           /\ Len(trace') = Len(trace) + 1
           /\ trace' # <<>>
           /\ \A i \in 1..Len(trace) : trace'[i] = trace[i]
           /\ trace'[Len(trace) + 1].failed = Failed
           /\ trace'[Len(trace) + 1].verified = FALSE
           /\ trace'[Len(trace) + 1].strategy = strat + 1
           /\ trace'[Len(trace) + 1].tokens = n
           /\ Len(trace) \in Nat
           /\ DOMAIN trace = 1..Len(trace)
           /\ DOMAIN trace' = 1..(Len(trace) + 1)
  <1> DEFINE e == [strategy |-> strat + 1, failed |-> Failed,
                   verified |-> FALSE, fingerprint |-> {},
                   score |-> 0, findings |-> 0, tokens |-> n]
  <1>1. e \in Trace
    BY EmptyPrint DEF TypeOK, Trace, Failed
  <1>2. trace \in Seq(Trace)
    BY DEF TypeOK
  <1>3. trace' = Append(trace, e) /\ iterations' = it
    BY DEF Traced
  <1> HIDE DEF e
  <1>4. /\ Append(trace, e) \in Seq(Trace)
        /\ Len(Append(trace, e)) = Len(trace) + 1
        /\ Append(trace, e) # <<>>
        /\ \A i \in 1..Len(trace) : Append(trace, e)[i] = trace[i]
        /\ Append(trace, e)[Len(trace) + 1] = e
        /\ Len(trace) \in Nat
        /\ DOMAIN trace = 1..Len(trace)
        /\ DOMAIN Append(trace, e) = 1..(Len(trace) + 1)
    BY <1>1, <1>2, AppendFacts
  <1>5. /\ e.failed = Failed /\ e.verified = FALSE
        /\ e.strategy = strat + 1 /\ e.tokens = n
    BY DEF e
  <1> QED
    BY <1>3, <1>4, <1>5 DEF TypeOK

(* What is declared, once admitted, is a count.                            *)
LEMMA AdmittedCount ==
    ASSUME TypeOK, TokensAdmitted
    PROVE  CallTokens \in Nat /\ CallTokens <= MaxTokensLimit
  <1>1. CallTokens \in Int
    BY DEF CallTokens, TypeOK, Proposal, Failed
  <1> QED
    BY <1>1, LoopAssumption DEF TokensAdmitted

(* A call that counts: its tokens are added to those of the run.           *)
LEMMA CountedCall ==
    ASSUME TypeOK, TokensAdmitted, Counted
    PROVE  /\ tokens' \in Nat
           /\ tokens' = tokens + CallTokens
           /\ CallTokens \in Nat /\ CallTokens <= MaxTokensLimit
           /\ Traced(CallTokens)
  BY AdmittedCount DEF Counted, Spent, TypeOK

(* An examined verification fills the last entry of the trace.             *)
LEMMA ExaminedEntry ==
    ASSUME Shape, Examined
    PROVE  /\ trace' \in Seq(Trace)
           /\ Len(trace) \in Nat \ {0}
           /\ Len(trace') = Len(trace)
           /\ DOMAIN trace = 1..Len(trace)
           /\ DOMAIN trace' = 1..Len(trace)
           /\ \A i \in 1..Len(trace) :
                /\ trace'[i].failed = trace[i].failed
                /\ trace'[i].strategy = trace[i].strategy
                /\ trace'[i].tokens = trace[i].tokens
           /\ \A i \in 1..(Len(trace) - 1) : trace'[i] = trace[i]
           /\ trace'[Len(trace)].verified = TRUE
  <1>1. trace \in Seq(Trace) /\ Len(trace) \in Nat \ {0}
    BY DEF Shape, TypeOK, Verifying, Examined, Verified
  <1> DEFINE last1 == trace[Len(trace)]
             e == [last1 EXCEPT !.verified = TRUE,
                                !.fingerprint = Fingerprint(verdict.findings),
                                !.score = Score(verdict.findings),
                                !.findings = Len(verdict.findings)]
  <1>2. last1 \in Trace
    BY <1>1
  <1>3. verdict.findings \in Reports \cup {<<>>}
    BY DEF Shape, TypeOK, Verification
  <1>4. /\ Score(verdict.findings) \in Nat
        /\ Len(verdict.findings) \in Nat
        /\ Fingerprint(verdict.findings)
             \in {Fingerprint(f) : f \in Reports \cup {<<>>}}
    BY <1>3, LoopAssumption
  <1>5. /\ e \in Trace /\ e.failed = last1.failed /\ e.verified = TRUE
        /\ e.strategy = last1.strategy /\ e.tokens = last1.tokens
    BY <1>2, <1>4 DEF Trace
  <1>6. trace' = [trace EXCEPT ![Len(trace)] = e]
    BY DEF Examined
  <1> HIDE DEF e
  <1>7. /\ trace' \in Seq(Trace)
        /\ Len(trace') = Len(trace)
        /\ DOMAIN trace = 1..Len(trace)
        /\ DOMAIN trace' = 1..Len(trace)
        /\ \A i \in 1..(Len(trace) - 1) : trace'[i] = trace[i]
        /\ trace'[Len(trace)] = e
    BY <1>1, <1>5, <1>6
  <1> QED
    BY <1>1, <1>5, <1>7

-----------------------------------------------------------------------------
(* Shape *)

LEMMA ShapeInit == Init => Shape
  <1> SUFFICES ASSUME Init PROVE Shape
    OBVIOUS
  <1>1. lastFP \in {Fingerprint(f) : f \in Reports \cup {<<>>}}
    BY EmptyPrint DEF Init
  <1>2. loopSpec \in LoopSpec /\ proposal \in Proposal /\ verdict \in Verification
    BY DEF Init, NoSpec, LoopSpec, NoProposal, Proposal, NoVerification, Verification
  <1>3. trace \in Seq(Trace) /\ judged \in Seq(Judged)
    BY DEF Init
  <1>4. TypeOK
    BY <1>1, <1>2, <1>3 DEF Init, TypeOK, Judged
  <1> QED
    BY <1>4 DEF Init, Shape

(* Begin takes a specification of its caller.                              *)
LEMMA DefaultsTyped ==
    ASSUME NEW s \in Specs
    PROVE  WithDefaults(s) \in LoopSpec
  BY LoopAssumption DEF WithDefaults, LoopSpec

(* The outcomes of the calls leave their types as they are.                *)
LEMMA ShapeNext ==
    ASSUME Shape, [Next]_vars
    PROVE  Shape'
  <1> USE DEF Shape
  <1>1. ASSUME NEW s \in Specs, Begin(s)
        PROVE  Shape'
    BY <1>1, DefaultsTyped DEF Begin, TypeOK, envVars, bestVars, stallVars, countVars
  <1>2. CASE OutOfBudget
    BY <1>2 DEF OutOfBudget, Stop, Escalate, TypeOK, Reasons, envVars, bestVars,
                stallVars, countVars
  <1>3. CASE Propose
    <2>1. proposal' = [state |-> "pending", candidate |-> NoCandidate, tokens |-> 0,
                       details |-> "none", retryable |-> FALSE]
      BY <1>3 DEF Propose, NoProposal
    <2>2. proposal' \in Proposal /\ proposal'.state # "none"
      BY <2>1 DEF Proposal
    <2> QED
      BY <1>3, <2>2 DEF Propose, TypeOK, envVars, bestVars, stallVars, outVars, countVars
  <1>4. CASE ReturnCancellation
    <2>1. trace' \in Seq(Trace)
      BY <1>4 DEF ReturnCancellation
    <2> QED
      BY <1>4, <2>1 DEF ReturnCancellation, TypeOK, envVars, bestVars, stallVars
  <1>5. CASE RefuseTokens
    <2>1. trace' \in Seq(Trace) /\ iterations' \in Nat
      BY <1>5, TracedCall DEF RefuseTokens
    <2> QED
      BY <1>5, <2>1 DEF RefuseTokens, Stop, Escalate, TypeOK, Reasons, envVars,
                        bestVars, stallVars
  <1>6. CASE OverspendTokens
    <2>1. tokens' \in Nat /\ CallTokens \in Nat /\ Traced(CallTokens)
      BY <1>6, CountedCall DEF OverspendTokens
    <2>2. trace' \in Seq(Trace) /\ iterations' \in Nat
      BY <2>1, TracedCall
    <2> QED
      BY <1>6, <2>1, <2>2 DEF OverspendTokens, Stop, Escalate, TypeOK, Reasons,
                              envVars, bestVars, stallVars
  <1>7. CASE FailedProposal
    <2>1. tokens' \in Nat /\ CallTokens \in Nat /\ Traced(CallTokens)
      BY <1>7, CountedCall DEF FailedProposal
    <2>2. trace' \in Seq(Trace) /\ iterations' \in Nat
      BY <2>1, TracedCall
    <2> QED
      BY <1>7, <2>1, <2>2 DEF FailedProposal, Stop, Again, Escalate, TypeOK, Reasons,
                              envVars, bestVars, stallVars, outVars
  <1>8. ASSUME Answered
        PROVE  /\ tokens' \in Nat
               /\ trace' \in Seq(Trace) /\ iterations' \in Nat
               /\ trace' # <<>> /\ ~trace'[Len(trace')].failed
               /\ proposal.state = "answered"
    <2>1. tokens' \in Nat /\ CallTokens \in Nat /\ Traced(CallTokens)
      BY <1>8, CountedCall DEF Answered
    <2>2. /\ trace' \in Seq(Trace) /\ iterations' \in Nat /\ trace' # <<>>
          /\ trace'[Len(trace')].failed = Failed
      BY <2>1, TracedCall
    <2>3. proposal.state = "answered"
      BY <1>8 DEF Answered, Proposed, Failed, TypeOK, Proposal
    <2> QED
      BY <1>8, <2>1, <2>2, <2>3 DEF Answered
  <1>9. CASE RefuseCandidate
    BY <1>8, <1>9 DEF RefuseCandidate, Answered, Stop, Escalate, TypeOK, Reasons,
                      envVars, bestVars, stallVars
  <1>10. CASE LateCandidate
    BY <1>8, <1>10 DEF LateCandidate, Answered, Stop, Escalate, TypeOK, Reasons,
                       envVars, bestVars, stallVars
  <1>11. CASE Verify
    <2>1. verdict' \in Verification
      BY <1>11 DEF Verify, NoVerification, Verification
    <2>2. proposal.candidate \in Candidates
      BY <1>11 DEF Verify, AdmittedCandidate, TypeOK, Proposal
    <2> QED
      BY <1>8, <1>11, <2>1, <2>2
      DEF Verify, Answered, Verifying, TypeOK, envVars, bestVars, stallVars, outVars
  <1>12. CASE FailedVerification
    BY <1>12 DEF FailedVerification, Stop, Escalate, TypeOK, Reasons, envVars,
                 bestVars, stallVars, countVars
  <1>13. CASE RefuseVerdict
    BY <1>13, ExaminedEntry DEF RefuseVerdict, Examined, Stop, Escalate, TypeOK,
                                Reasons, envVars, bestVars, stallVars
  <1>14. CASE Converge
    <2>1. proposal.candidate \in Candidates
      BY <1>14 DEF Converge, Examined, Verified, Verifying
    <2> QED
      BY <1>14, <2>1, ExaminedEntry DEF Converge, Examined, TypeOK, Verification,
                                        envVars, bestVars, stallVars
  <1>15. CASE Judge
    <2>1. /\ proposal.candidate \in Candidates
          /\ verdict.findings \in Reports \cup {<<>>}
      BY <1>15 DEF Judge, Examined, Verified, Verifying, TypeOK, Verification
    <2>2. /\ best' \in Candidates \cup {NoCandidate} /\ bestScore' \in Nat
          /\ remaining' \in Reports \cup {<<>>}
      BY <1>15, <2>1, LoopAssumption DEF Judge, KeepBest, bestVars, TypeOK
    <2>3. same' \in Nat /\ last' \in Reports \cup {<<>>}
          /\ lastFP' \in {Fingerprint(f) : f \in Reports \cup {<<>>}}
      BY <1>15, <2>1 DEF Judge, Repeated, TypeOK
    <2>4. judged' \in Seq(Judged)
      BY <1>15, <2>1 DEF Judge, TypeOK, Judged
    <2>5. trace' \in Seq(Trace)
      BY <1>15, ExaminedEntry DEF Judge
    <2>6. /\ strat' \in Nat /\ it' \in Nat /\ phase' \in {"top", "done"}
          /\ status' \in {"running", "converged", "escalated", "canceled", "invalid_spec"}
          /\ reason' \in Reasons \cup {"none"}
          /\ outBest' \in Candidates \cup {NoCandidate}
          /\ outRemaining' \in Reports \cup {<<>>}
      BY <1>15, <2>2 DEF Judge, Escalate, Again, outVars, TypeOK, Reasons
    <2> QED
      BY <1>15, <2>2, <2>3, <2>4, <2>5, <2>6
      DEF Judge, Examined, TypeOK, Judged, envVars
  <1>16. CASE ProposerReplies
    BY <1>16, LoopAssumption DEF ProposerReplies, ProposerEnds, TypeOK, envVars,
                                 bestVars, stallVars, outVars, countVars
  <1>17. CASE VerifierReplies
    BY <1>17, LoopAssumption DEF VerifierReplies, Verifying, TypeOK, envVars, bestVars,
                                 stallVars, outVars, countVars
  <1>18. CASE Elapse
    BY <1>18 DEF Elapse, Verifying, TypeOK, bestVars, stallVars, outVars, countVars
  <1>19. CASE Cancel
    BY <1>19 DEF Cancel, Verifying, TypeOK, bestVars, stallVars, outVars, countVars
  <1>20. CASE UNCHANGED vars
    BY <1>20 DEF vars, Verifying, TypeOK, envVars, bestVars, stallVars, outVars, countVars
  <1> QED
    BY <1>1, <1>2, <1>3, <1>4, <1>5, <1>6, <1>7, <1>9, <1>10, <1>11, <1>12, <1>13,
       <1>14, <1>15, <1>16, <1>17, <1>18, <1>19, <1>20
    DEF Next, Workflow

(* The type invariant: every variable stays in its set, whatever the       *)
(* activities answer.                                                      *)
THEOREM TypeInvariant == Spec => []TypeOK
  <1>1. Shape => TypeOK
    BY DEF Shape
  <1> QED
    BY <1>1, ShapeInit, ShapeNext, PTL DEF Spec

-----------------------------------------------------------------------------
(* The budget of tokens *)

(* While the run goes on, the budget is not exceeded: every count is       *)
(* checked against it in the step that adds it.                            *)
WithinBudgetSoFar ==
    /\ phase = "idle" => loopSpec = NoSpec /\ tokens = 0 /\ reason = "none"
    /\ Running => /\ loopSpec.maxTokens >= 1
                  /\ tokens <= loopSpec.maxTokens
                  /\ reason = "none"
    /\ TokenBudget

LEMMA BudgetNext ==
    ASSUME Shape, Shape', WithinBudgetSoFar, [Next]_vars
    PROVE  WithinBudgetSoFar'
  <1> USE DEF WithinBudgetSoFar, Running, TokenBudget, Begun
  <1>1. loopSpec \in LoopSpec /\ tokens \in Nat
    BY DEF Shape, TypeOK
  <1>2. loopSpec.maxTokens \in Int
    BY <1>1 DEF LoopSpec
  <1>3. ASSUME NEW s \in Specs, Begin(s)
        PROVE  WithinBudgetSoFar'
    <2>1. CASE ValidSpec(s) /\ s.payloadAdmitted
      <3>1. loopSpec' = WithDefaults(s) /\ phase' = "top" /\ reason' = "none" /\ tokens' = 0
        BY <1>3, <2>1 DEF Begin, countVars
      <3>2. loopSpec'.maxTokens >= 1 /\ loopSpec'.maxTokens \in Int
        BY <2>1, <3>1, LoopAssumption DEF ValidSpec
      <3> QED
        BY <3>1, <3>2, LoopAssumption
    <2>2. CASE ~(ValidSpec(s) /\ s.payloadAdmitted)
      BY <1>3, <2>2 DEF Begin, countVars
    <2> QED
      BY <2>1, <2>2
  <1>4. CASE OutOfBudget
    BY <1>1, <1>2, <1>4, LoopAssumption DEF OutOfBudget, Stop, Escalate, countVars
  <1>5. CASE Propose
    BY <1>5 DEF Propose, outVars, countVars
  <1>6. CASE ReturnCancellation
    BY <1>1, <1>2, <1>6, LoopAssumption DEF ReturnCancellation
  <1>7. CASE RefuseTokens
    BY <1>1, <1>2, <1>7, LoopAssumption DEF RefuseTokens, Proposed, Stop, Escalate
  <1>8. CASE OverspendTokens
    <2>1. /\ tokens' \in Nat /\ tokens' = tokens + CallTokens
          /\ CallTokens \in Nat /\ CallTokens <= MaxTokensLimit
      BY <1>8, CountedCall DEF OverspendTokens, Shape
    <2> QED
      BY <1>1, <1>2, <1>8, <2>1, LoopAssumption
      DEF OverspendTokens, Proposed, WithinBudget, Spent, Stop, Escalate
  <1>9. CASE FailedProposal
    <2>1. /\ tokens' \in Nat /\ tokens' = tokens + CallTokens
          /\ CallTokens \in Nat /\ CallTokens <= MaxTokensLimit
      BY <1>9, CountedCall DEF FailedProposal, Shape
    <2> QED
      BY <1>1, <1>2, <1>9, <2>1, LoopAssumption
      DEF FailedProposal, Proposed, WithinBudget, Spent, Stop, Again, Escalate, outVars
  <1>10. ASSUME Answered
         PROVE  /\ tokens' \in Nat /\ tokens' <= loopSpec.maxTokens
                /\ loopSpec' = loopSpec
                /\ loopSpec.maxTokens >= 1
                /\ reason = "none"
    <2>1. tokens' \in Nat /\ tokens' = tokens + CallTokens
      BY <1>10, CountedCall DEF Answered, Shape
    <2> QED
      BY <1>10, <2>1 DEF Answered, Proposed, WithinBudget, Spent
  <1>11. CASE RefuseCandidate \/ LateCandidate \/ Verify
    BY <1>2, <1>10, <1>11, LoopAssumption
    DEF RefuseCandidate, LateCandidate, Verify, Stop, Escalate, outVars
  <1>12. CASE FailedVerification
    BY <1>1, <1>2, <1>12, LoopAssumption
    DEF FailedVerification, Verified, Stop, Escalate, countVars
  <1>13. CASE RefuseVerdict \/ Converge
    BY <1>1, <1>2, <1>13, LoopAssumption
    DEF RefuseVerdict, Converge, Examined, Verified, Stop, Escalate
  <1>14. CASE Judge
    BY <1>1, <1>2, <1>14, LoopAssumption
    DEF Judge, Examined, Verified, Escalate, Again, outVars
  <1>15. CASE ProposerReplies \/ VerifierReplies
    BY <1>15 DEF ProposerReplies, ProposerEnds, VerifierReplies, outVars, countVars
  <1>16. CASE Elapse \/ Cancel
    BY <1>16 DEF Elapse, Cancel, outVars, countVars
  <1>17. CASE UNCHANGED vars
    BY <1>17 DEF vars, outVars, countVars
  <1> QED
    BY <1>3, <1>4, <1>5, <1>6, <1>7, <1>8, <1>9, <1>11, <1>12, <1>13, <1>14,
       <1>15, <1>16, <1>17
    DEF Next, Workflow

(* The budget of tokens is exceeded by one call at most, and exceeding it  *)
(* is always what the escalation says (T10).                               *)
THEOREM BudgetHolds == Spec => []TokenBudget
  <1>1. Init => WithinBudgetSoFar
    BY DEF Init, WithinBudgetSoFar, Running, TokenBudget, Begun
  <1>2. WithinBudgetSoFar => TokenBudget
    BY DEF WithinBudgetSoFar
  <1> QED
    BY <1>1, <1>2, ShapeInit, ShapeNext, BudgetNext, PTL DEF Spec

-----------------------------------------------------------------------------
(* Calls of unknown cost *)

(* Each step of the loop that follows such a call returns.                 *)
LEMMA UnknownCostStep ==
    ASSUME [Next]_vars, Proposed, CostUnknown, phase' # phase
    PROVE  phase' = "done"
  <1> USE DEF Proposed
  <1>1. CASE RefuseTokens \/ OverspendTokens
    BY <1>1 DEF RefuseTokens, OverspendTokens, Stop, Escalate
  <1>2. CASE FailedProposal
    <2>1. ~Retryable
      BY <1>2 DEF FailedProposal, CostUnknown, Retryable
    <2> QED
      BY <1>2, <2>1 DEF FailedProposal, Stop, Escalate
  <1>3. CASE RefuseCandidate \/ LateCandidate \/ Verify
    BY <1>3 DEF RefuseCandidate, LateCandidate, Verify, Answered, CostUnknown
  <1>4. CASE OutOfBudget \/ Propose \/ ReturnCancellation
    BY <1>4 DEF OutOfBudget, Propose, ReturnCancellation
  <1>5. CASE FailedVerification \/ RefuseVerdict \/ Converge \/ Judge
    BY <1>5 DEF FailedVerification, RefuseVerdict, Converge, Judge, Examined, Verified
  <1>6. CASE ProposerReplies \/ VerifierReplies \/ Elapse \/ Cancel \/ UNCHANGED vars
    BY <1>6 DEF ProposerReplies, ProposerEnds, VerifierReplies, Elapse, Cancel, vars
  <1>7. ASSUME NEW s \in Specs, Begin(s)
        PROVE  phase' = "done"
    BY <1>7 DEF Begin
  <1> QED
    BY <1>1, <1>2, <1>3, <1>4, <1>5, <1>6, <1>7 DEF Next, Workflow

(* A call whose cost is unknown is the last call of the run                *)
(* (obligation h).                                                         *)
THEOREM UnknownCostIsLast == Spec => UnknownCostEndsRun
  BY UnknownCostStep, PTL DEF Spec, UnknownCostEndsRun

-----------------------------------------------------------------------------
(* The best candidate *)

(* While the run goes on, the score kept is that of the findings kept.     *)
ScoreKept ==
    /\ judged # <<>> => bestScore = Score(remaining)
    /\ phase # "done" => status = "running"
    /\ BestIsFirstLowest

(* Only Judge changes what was refused, and what is best.                  *)
LEMMA BestJudged ==
    ASSUME Shape, Shape', ScoreKept, Judge
    PROVE  ScoreKept'
  <1> DEFINE n == Len(judged)
             new == [candidate |-> proposal.candidate, findings |-> verdict.findings]
  <1>1. /\ new \in Judged
        /\ judged \in Seq(Judged)
        /\ new.candidate = proposal.candidate /\ new.findings = verdict.findings
    BY DEF Judge, Examined, Verified, Shape, Verifying, TypeOK, Verification, Judged
  <1>2. judged' = Append(judged, new)
    BY DEF Judge
  <1> HIDE DEF new
  <1>3. /\ judged' # <<>>
        /\ n \in Nat
        /\ DOMAIN judged = 1..n
        /\ DOMAIN judged' = 1..(n + 1)
        /\ \A i \in 1..n : judged'[i] = judged[i]
        /\ judged'[n + 1] = new
    BY <1>1, <1>2, AppendFacts
  <1>4. /\ Score(new.findings) \in Nat
        /\ \A i \in 1..n : Score(judged[i].findings) \in Nat
        /\ \A i \in 1..n : judged[i].candidate \in Candidates
    <2>1. new \in Judged /\ \A i \in 1..n : judged[i] \in Judged
      BY <1>1, <1>3
    <2>2. \A x \in Judged : Score(x.findings) \in Nat /\ x.candidate \in Candidates
      BY LoopAssumption DEF Judged
    <2> QED
      BY <2>1, <2>2
  <1>5. judged = <<>> => n = 0
    BY <1>1
  <1>6. judged # <<>> => best \in Candidates
    BY <1>3, <1>4 DEF ScoreKept, BestIsFirstLowest
  <1>7. /\ best' = new.candidate => best' # NoCandidate
        /\ bestScore' = Score(remaining')
        /\ \E k \in DOMAIN judged' :
             /\ best' = judged'[k].candidate
             /\ remaining' = judged'[k].findings
             /\ \A j \in DOMAIN judged' :
                  /\ Score(judged'[j].findings) >= Score(remaining')
                  /\ j < k => Score(judged'[j].findings) > Score(remaining')
    <2>1. CASE Better
      <3>1. /\ best' = new.candidate
            /\ remaining' = new.findings
            /\ bestScore' = Score(new.findings)
        BY <1>1, <2>1 DEF Judge, KeepBest
      <3>2. \A j \in 1..n : Score(judged[j].findings) > Score(new.findings)
        <4>1. CASE judged = <<>>
          BY <4>1, <1>5
        <4>2. CASE judged # <<>>
          <5>1. bestScore = Score(remaining) /\ Score(new.findings) < bestScore
            BY <1>1, <1>6, <2>1, <4>2, LoopAssumption DEF Better, ScoreKept
          <5>2. \A j \in 1..n : Score(judged[j].findings) >= Score(remaining)
            BY <4>2, <1>3 DEF ScoreKept, BestIsFirstLowest
          <5>3. bestScore \in Nat
            BY DEF Shape, TypeOK
          <5> QED
            BY <1>4, <5>1, <5>2, <5>3
        <4> QED
          BY <4>1, <4>2
      <3>3. new.candidate # NoCandidate
        BY <1>1, LoopAssumption DEF Judged
      <3> QED
        BY <1>3, <1>4, <3>1, <3>2, <3>3
    <2>2. CASE ~Better
      <3>1. best' = best /\ remaining' = remaining /\ bestScore' = bestScore
        BY <2>2 DEF Judge, KeepBest, bestVars
      <3>2. judged # <<>> /\ Score(new.findings) >= bestScore
        BY <1>1, <1>4, <2>2 DEF Better, ScoreKept, BestIsFirstLowest, Shape, TypeOK
      <3>3. bestScore = Score(remaining) /\ best # NoCandidate
        BY <1>6, <3>2, LoopAssumption DEF ScoreKept
      <3>4. PICK k \in 1..n :
              /\ best = judged[k].candidate
              /\ remaining = judged[k].findings
              /\ \A j \in 1..n :
                   /\ Score(judged[j].findings) >= Score(remaining)
                   /\ j < k => Score(judged[j].findings) > Score(remaining)
        BY <1>3, <3>2 DEF ScoreKept, BestIsFirstLowest
      <3>5. \A j \in 1..(n + 1) :
               /\ Score(judged'[j].findings) >= Score(remaining)
               /\ j < k => Score(judged'[j].findings) > Score(remaining)
        <4>1. \A j \in 1..n : judged'[j] = judged[j]
          BY <1>3
        <4>2. Score(judged'[n + 1].findings) >= Score(remaining) /\ ~(n + 1 < k)
          BY <1>3, <3>2, <3>3
        <4>3. \A j \in 1..(n + 1) : j \in 1..n \/ j = n + 1
          BY <1>3
        <4> QED
          BY <3>4, <4>1, <4>2, <4>3
      <3> QED
        BY <1>3, <3>1, <3>3, <3>4, <3>5
    <2> QED
      BY <2>1, <2>2
  <1>8. /\ phase' # "done" => status' = "running"
        /\ status' = "escalated" => outBest' = best' /\ outRemaining' = remaining'
    BY DEF Judge, Examined, Verified, ScoreKept, Escalate, Again, outVars
  <1> QED
    BY <1>3, <1>7, <1>8 DEF ScoreKept, BestIsFirstLowest

LEMMA BestNext ==
    ASSUME Shape, Shape', ScoreKept, [Next]_vars
    PROVE  ScoreKept'
  <1>1. CASE Judge
    BY <1>1, BestJudged
  <1>2. ASSUME UNCHANGED <<judged, bestVars>>,
               \/ UNCHANGED <<phase, outVars>>
               \/ phase # "done" /\ UNCHANGED outVars
               \/ phase' = "done" /\ status' \in {"canceled", "converged", "invalid_spec"}
               \/ phase' = "done" /\ outBest' = best /\ outRemaining' = remaining
        PROVE  ScoreKept'
    BY <1>2 DEF ScoreKept, BestIsFirstLowest, bestVars, outVars
  <1>3. ASSUME NEW s \in Specs, Begin(s)
        PROVE  ScoreKept'
    BY <1>2, <1>3 DEF Begin, stallVars, outVars
  <1>4. CASE OutOfBudget \/ Propose \/ ReturnCancellation
    BY <1>2, <1>4 DEF OutOfBudget, Propose, ReturnCancellation, Stop, Escalate, stallVars
  <1>5. CASE RefuseTokens \/ OverspendTokens \/ FailedProposal
    BY <1>2, <1>5 DEF RefuseTokens, OverspendTokens, FailedProposal, Proposed, Stop,
                      Escalate, Again, stallVars
  <1>6. CASE RefuseCandidate \/ LateCandidate \/ Verify
    BY <1>2, <1>6 DEF RefuseCandidate, LateCandidate, Verify, Answered, Proposed,
                      Stop, Escalate, stallVars
  <1>7. CASE FailedVerification \/ RefuseVerdict \/ Converge
    BY <1>2, <1>7 DEF FailedVerification, RefuseVerdict, Converge, Stop, Escalate, stallVars
  <1>8. CASE ProposerReplies \/ VerifierReplies \/ Elapse \/ Cancel
    BY <1>2, <1>8 DEF ProposerReplies, ProposerEnds, VerifierReplies, Elapse, Cancel,
                      stallVars
  <1>9. CASE UNCHANGED vars
    BY <1>2, <1>9 DEF vars, stallVars
  <1> QED
    BY <1>1, <1>3, <1>4, <1>5, <1>6, <1>7, <1>8, <1>9 DEF Next, Workflow

(* The best candidate is the first of the lowest score among those the     *)
(* verifier refused, with its own findings (D8).                           *)
THEOREM BestIsKept == Spec => []BestIsFirstLowest
  <1>1. Init => ScoreKept
    BY DEF Init, ScoreKept, BestIsFirstLowest
  <1>2. ScoreKept => BestIsFirstLowest
    BY DEF ScoreKept
  <1> QED
    BY <1>1, <1>2, ShapeInit, ShapeNext, BestNext, PTL DEF Spec

-----------------------------------------------------------------------------
(* Acceptance *)

AcceptedSoFar ==
    /\ phase # "done" => status = "running"
    /\ ConvergedOnAcceptance

LEMMA AcceptanceNext ==
    ASSUME Shape, Shape', WithinBudgetSoFar, AcceptedSoFar, [Next]_vars
    PROVE  AcceptedSoFar'
  <1> USE DEF AcceptedSoFar
  <1>1. CASE Converge
    <2>1. phase' = "done" /\ trace'[Len(trace')].verified /\ ~trace'[Len(trace')].failed
      <3>1. /\ Len(trace') = Len(trace) /\ Len(trace) \in Nat \ {0}
            /\ \A i \in 1..Len(trace) : trace'[i].failed = trace[i].failed
            /\ trace'[Len(trace)].verified = TRUE
        BY <1>1, ExaminedEntry DEF Converge
      <3>2. ~trace[Len(trace)].failed
        BY <1>1 DEF Converge, Examined, Verified, Shape, Verifying
      <3> QED
        BY <1>1, <3>1, <3>2 DEF Converge
    <2>2. tokens' <= loopSpec'.maxTokens
      BY <1>1 DEF Converge, Examined, Verified, WithinBudgetSoFar, Running
    <2>3. proposal.candidate \in Candidates
      BY <1>1 DEF Converge, Examined, Verified, Shape, Verifying
    <2> QED
      BY <1>1, <2>1, <2>2, <2>3
      DEF Converge, Examined, Incoherent, ConvergedOnAcceptance
  <1>2. ASSUME status' # "converged", phase' # "done" => status' = "running"
        PROVE  AcceptedSoFar'
    BY <1>2 DEF ConvergedOnAcceptance
  <1>3. ASSUME NEW s \in Specs, Begin(s)
        PROVE  AcceptedSoFar'
    BY <1>2, <1>3 DEF Begin
  <1>4. CASE OutOfBudget \/ Propose \/ ReturnCancellation
    BY <1>2, <1>4 DEF OutOfBudget, Propose, ReturnCancellation, Stop, Escalate, outVars
  <1>5. CASE RefuseTokens \/ OverspendTokens \/ FailedProposal
    BY <1>2, <1>5 DEF RefuseTokens, OverspendTokens, FailedProposal, Proposed, Stop,
                      Escalate, Again, outVars
  <1>6. CASE RefuseCandidate \/ LateCandidate \/ Verify
    BY <1>2, <1>6 DEF RefuseCandidate, LateCandidate, Verify, Answered, Proposed,
                      Stop, Escalate, outVars
  <1>7. CASE FailedVerification \/ RefuseVerdict \/ Judge
    BY <1>2, <1>7 DEF FailedVerification, RefuseVerdict, Judge, Examined, Verified,
                      Stop, Escalate, Again, outVars
  <1>8. CASE ProposerReplies \/ VerifierReplies \/ Elapse
    BY <1>2, <1>8 DEF ProposerReplies, ProposerEnds, VerifierReplies, Elapse, outVars
  <1>9. CASE Cancel \/ UNCHANGED vars
    BY <1>9 DEF Cancel, vars, outVars, countVars, ConvergedOnAcceptance
  <1> QED
    BY <1>1, <1>3, <1>4, <1>5, <1>6, <1>7, <1>8, <1>9 DEF Next, Workflow

(* A converged run holds the candidate of the last verification, accepted  *)
(* without a blocking finding, within the budgets.                         *)
THEOREM ConvergedIsAccepted == Spec => []ConvergedOnAcceptance
  <1>1. Init => WithinBudgetSoFar /\ AcceptedSoFar
    BY DEF Init, WithinBudgetSoFar, Running, TokenBudget, Begun, AcceptedSoFar,
           ConvergedOnAcceptance
  <1>2. AcceptedSoFar => ConvergedOnAcceptance
    BY DEF AcceptedSoFar
  <1> QED
    BY <1>1, <1>2, ShapeInit, ShapeNext, BudgetNext, AcceptanceNext, PTL DEF Spec

-----------------------------------------------------------------------------
(* Failures in a row *)

(* "failures" counts the failed calls at the end of the trace.             *)
FailuresCounted ==
    /\ phase = "idle" => trace = <<>> /\ failures = 0
    /\ Running =>
         /\ failures < MaxActivityAttempts
         /\ failures <= Len(trace)
         /\ failures < Len(trace) => ~trace[Len(trace) - failures].failed
    /\ FailuresInRow

(* A window of failed calls cannot end before the last entry of a trace    *)
(* that grows, nor at it while the run goes on.                            *)
LEMMA RowTraced ==
    ASSUME Shape, Shape', FailuresCounted, phase = "propose", NEW n \in Nat, Traced(n),
           phase' # "idle",
           \/ phase' = "done"
           \/ /\ Failed /\ failures' = failures + 1
              /\ failures' < MaxActivityAttempts
           \/ ~Failed /\ failures' = 0
    PROVE  FailuresCounted'
  <1> DEFINE L == Len(trace)
  <1>1. /\ L \in Nat /\ Len(trace') = L + 1 /\ trace' # <<>>
        /\ DOMAIN trace = 1..L /\ DOMAIN trace' = 1..(L + 1)
        /\ \A i \in 1..L : trace'[i] = trace[i]
        /\ trace'[L + 1].failed = Failed /\ trace'[L + 1].verified = FALSE
    BY TracedCall DEF Shape
  <1>2. failures \in Nat /\ failures' \in Nat
    BY DEF Shape, TypeOK
  <1>3. /\ failures < MaxActivityAttempts /\ failures <= L
        /\ failures < L => ~trace[L - failures].failed
    BY DEF FailuresCounted, Running
  <1>4. MaxActivityAttempts \in Nat \ {0}
    BY LoopAssumption
  <1>5. phase' # "done" =>
          /\ failures' < MaxActivityAttempts /\ failures' <= Len(trace')
          /\ failures' < Len(trace') => ~trace'[Len(trace') - failures'].failed
    BY <1>1, <1>2, <1>3, <1>4
  <1>6. \A i \in DOMAIN trace' : trace'[i].failed => ~trace'[i].verified
    BY <1>1 DEF FailuresCounted, FailuresInRow
  <1>7. ASSUME NEW i \in 1..(Len(trace') - MaxActivityAttempts + 1),
               \A j \in i..(i + MaxActivityAttempts - 1) : trace'[j].failed
        PROVE  i + MaxActivityAttempts - 1 = Len(trace') /\ phase' = "done"
    <2>1. i \in Int /\ i >= 1 /\ i + MaxActivityAttempts - 1 <= L + 1
      BY <1>1, <1>4
    <2>2. i + MaxActivityAttempts - 1 = Len(trace')
      <3>1. SUFFICES ASSUME i + MaxActivityAttempts - 1 <= L
                     PROVE  FALSE
        BY <1>1, <1>4, <2>1
      <3>2. \A j \in i..(i + MaxActivityAttempts - 1) : trace[j].failed
        BY <1>1, <1>4, <1>7, <2>1, <3>1
      <3>3. i \in 1..(L - MaxActivityAttempts + 1)
        BY <1>1, <1>4, <2>1, <3>1
      <3> QED
        BY <3>2, <3>3 DEF FailuresCounted, FailuresInRow
    <2>3. phase' = "done"
      <3>1. SUFFICES ASSUME phase' # "done"
                     PROVE  FALSE
        OBVIOUS
      <3>2. Len(trace') - failures' \in i..(i + MaxActivityAttempts - 1)
        BY <1>1, <1>2, <1>4, <1>5, <2>1, <2>2, <3>1
      <3>3. failures' < Len(trace')
        BY <1>1, <1>2, <1>4, <1>5, <2>1, <2>2, <3>1
      <3> QED
        BY <1>5, <1>7, <3>1, <3>2, <3>3
    <2> QED
      BY <2>2, <2>3
  <1>8. FailuresInRow'
    BY <1>6, <1>7 DEF FailuresInRow
  <1> QED
    BY <1>5, <1>8 DEF FailuresCounted, Running

(* An examined verification fills the last entry, of an answered call.     *)
LEMMA RowExamined ==
    ASSUME Shape, Shape', FailuresCounted, Examined, phase' # "idle"
    PROVE  FailuresCounted'
  <1> DEFINE L == Len(trace)
  <1>1. /\ L \in Nat \ {0} /\ Len(trace') = L
        /\ DOMAIN trace = 1..L /\ DOMAIN trace' = 1..L
        /\ \A i \in 1..L : trace'[i].failed = trace[i].failed
        /\ \A i \in 1..(L - 1) : trace'[i] = trace[i]
    BY ExaminedEntry
  <1>2. ~trace[L].failed /\ Running
    BY DEF Examined, Verified, Shape, Verifying, Running
  <1>3. \A i \in DOMAIN trace' : trace'[i].failed => ~trace'[i].verified
    <2> SUFFICES ASSUME NEW i \in 1..L, trace'[i].failed
                 PROVE  ~trace'[i].verified
      BY <1>1
    <2>1. i \in 1..(L - 1)
      BY <1>1, <1>2
    <2> QED
      BY <1>1, <2>1 DEF FailuresCounted, FailuresInRow
  <1>4. MaxActivityAttempts \in Nat \ {0}
    BY LoopAssumption
  <1>5. ASSUME NEW i \in 1..(L - MaxActivityAttempts + 1),
               \A j \in i..(i + MaxActivityAttempts - 1) : trace'[j].failed
        PROVE  FALSE
    <2>1. \A j \in i..(i + MaxActivityAttempts - 1) : trace[j].failed
      BY <1>1, <1>4, <1>5
    <2>2. phase = "done"
      BY <2>1 DEF FailuresCounted, FailuresInRow
    <2> QED
      BY <1>2, <2>2 DEF Running
  <1>6. FailuresInRow'
    BY <1>1, <1>3, <1>5 DEF FailuresInRow
  <1>7. failures' = failures /\ failures \in Nat
    BY DEF Examined, Shape, TypeOK
  <1>8. failures < L => ~trace'[L - failures].failed
    BY <1>1, <1>2, <1>7 DEF FailuresCounted
  <1> QED
    BY <1>1, <1>2, <1>6, <1>7, <1>8 DEF FailuresCounted, Running

LEMMA RowNext ==
    ASSUME Shape, Shape', FailuresCounted, [Next]_vars
    PROVE  FailuresCounted'
  <1> USE DEF Shape
  <1>1. CASE RefuseTokens
    <2>1. phase = "propose" /\ phase' = "done" /\ Traced(0)
      BY <1>1 DEF RefuseTokens, Proposed, Stop, Escalate
    <2> QED
      BY <2>1, RowTraced
  <1>2. CASE OverspendTokens
    <2>1. phase = "propose" /\ phase' = "done" /\ CallTokens \in Nat /\ Traced(CallTokens)
      BY <1>2, CountedCall DEF OverspendTokens, Proposed, Stop, Escalate
    <2> QED
      BY <2>1, RowTraced
  <1>3. CASE FailedProposal
    <2>1. phase = "propose" /\ CallTokens \in Nat /\ Traced(CallTokens) /\ Failed
      BY <1>3, CountedCall DEF FailedProposal, Proposed
    <2>2. failures' = failures + 1 /\ failures \in Nat
      BY <1>3 DEF FailedProposal, TypeOK
    <2>3. phase' = "done" \/ (phase' = "top" /\ failures' < MaxActivityAttempts)
      BY <1>3, <2>2, LoopAssumption DEF FailedProposal, TooMany, Stop, Again, Escalate
    <2> QED
      BY <2>1, <2>2, <2>3, RowTraced
  <1>4. CASE RefuseCandidate \/ LateCandidate \/ Verify
    <2>1. Answered /\ phase' \in {"verify", "done"}
      BY <1>4 DEF RefuseCandidate, LateCandidate, Verify, Stop, Escalate
    <2>2. phase = "propose" /\ CallTokens \in Nat /\ Traced(CallTokens)
      BY <2>1, CountedCall DEF Answered, Proposed
    <2> QED
      BY <2>1, <2>2, RowTraced DEF Answered
  <1>5. CASE RefuseVerdict \/ Converge \/ Judge
    <2>1. Examined /\ phase' \in {"top", "done"}
      BY <1>5 DEF RefuseVerdict, Converge, Judge, Stop, Escalate, Again
    <2> QED
      BY <2>1, RowExamined
  <1>6. CASE ReturnCancellation
    <2>1. trace' = <<>> /\ phase' = "done"
      BY <1>6 DEF ReturnCancellation
    <2>2. FailuresInRow'
      BY <2>1, LoopAssumption DEF FailuresInRow
    <2> QED
      BY <2>1, <2>2 DEF FailuresCounted, Running
  <1>7. ASSUME NEW s \in Specs, Begin(s)
        PROVE  FailuresCounted'
    <2>1. trace = <<>> /\ failures = 0 /\ trace' = trace /\ failures' = failures
            /\ phase' # "idle"
      BY <1>7 DEF Begin, FailuresCounted, countVars
    <2>2. FailuresInRow'
      BY <2>1, LoopAssumption DEF FailuresInRow
    <2> QED
      BY <2>1, <2>2, LoopAssumption DEF FailuresCounted, Running
  <1>8. CASE OutOfBudget \/ Propose \/ FailedVerification
    <2>1. UNCHANGED <<trace, failures>> /\ Running /\ phase' \in {"propose", "done"}
      BY <1>8 DEF OutOfBudget, Propose, FailedVerification, Verified, Running, Stop,
                  Escalate, countVars
    <2> QED
      BY <2>1 DEF FailuresCounted, FailuresInRow, Running
  <1>9. CASE ProposerReplies \/ VerifierReplies \/ Elapse \/ Cancel \/ UNCHANGED vars
    <2>1. UNCHANGED <<trace, failures, phase>>
      BY <1>9 DEF ProposerReplies, ProposerEnds, VerifierReplies, Elapse, Cancel,
                   vars, countVars
    <2> QED
      BY <2>1 DEF FailuresCounted, FailuresInRow, Running
  <1> QED
    BY <1>1, <1>2, <1>3, <1>4, <1>5, <1>6, <1>7, <1>8, <1>9 DEF Next, Workflow

(* As many failed calls in a row as MaxActivityAttempts end the run, and   *)
(* no failed call is verified.                                             *)
THEOREM FailuresEndRun == Spec => []FailuresInRow
  <1>1. Init => FailuresCounted
    BY LoopAssumption DEF Init, FailuresCounted, FailuresInRow, Running
  <1>2. FailuresCounted => FailuresInRow
    BY DEF FailuresCounted
  <1> QED
    BY <1>1, <1>2, ShapeInit, ShapeNext, RowNext, PTL DEF Spec

-----------------------------------------------------------------------------
(* Stagnation *)

(* The last "same" refused candidates failed alike, and no more of them.   *)
LongestRun ==
    LET k == Len(judged) IN
    /\ same <= k
    /\ same = 0 => k = 0
    /\ \A j \in 1..k : j > k - same => PrintOf(j) = lastFP
    /\ same < k => PrintOf(k - same) # lastFP

StallCounted ==
    /\ LongestRun
    /\ phase = "idle" => same = 0
    /\ phase # "done" => reason = "none"
    /\ Begun => /\ 1 <= loopSpec.switchAfter
                /\ loopSpec.switchAfter < loopSpec.escalateAfter
                /\ (reason = "stagnation") <=> same >= loopSpec.escalateAfter

(* The count of the loop is the length of the longest run.                 *)
LEMMA CountIsExact ==
    ASSUME TypeOK, LongestRun, NEW n \in Int, n >= 1
    PROVE  AlikeAt(Len(judged), n) <=> same >= n
  <1> DEFINE k == Len(judged)
  <1>1. k \in Nat /\ same \in Nat /\ same <= k
    BY DEF TypeOK, LongestRun
  <1>2. k >= 1 => PrintOf(k) = lastFP
    BY <1>1 DEF LongestRun
  <1>3. ASSUME same >= n PROVE AlikeAt(k, n)
    <2>1. k >= n /\ \A j \in (k - n + 1)..k : j \in 1..k /\ j > k - same
      BY <1>1, <1>3
    <2> QED
      BY <1>1, <1>2, <2>1 DEF AlikeAt, LongestRun
  <1>4. ASSUME AlikeAt(k, n), same < n PROVE FALSE
    <2>1. k >= n
      BY <1>4 DEF AlikeAt
    <2>2. k - same \in (k - n + 1)..k /\ same < k
      BY <1>1, <1>4, <2>1
    <2>3. PrintOf(k - same) = PrintOf(k)
      BY <1>4, <2>2 DEF AlikeAt
    <2> QED
      BY <1>1, <1>2, <2>2, <2>3 DEF LongestRun
  <1> QED
    BY <1>1, <1>3, <1>4

LEMMA CountIsExactNext ==
    (TypeOK /\ LongestRun =>
       \A n \in Int : n >= 1 => (AlikeAt(Len(judged), n) <=> same >= n))'
  <1>1. TypeOK /\ LongestRun =>
          \A n \in Int : n >= 1 => (AlikeAt(Len(judged), n) <=> same >= n)
    BY CountIsExact
  <1> QED
    BY <1>1, PTL

(* One more refused candidate, alike or not.                               *)
LEMMA StallJudged ==
    ASSUME TypeOK, StallCounted, Judge
    PROVE  StallCounted'
  <1> DEFINE e == [candidate |-> proposal.candidate, findings |-> verdict.findings]
  <1>0. PICK k \in Nat : k = Len(judged)
    BY DEF TypeOK
  <1>1. /\ same \in Nat /\ same <= k
        /\ Len(judged') = k + 1
        /\ judged'[k + 1] = e
        /\ \A j \in 1..k : judged'[j] = judged[j]
    <2>1. judged' = Append(judged, e) /\ judged \in Seq([candidate: Candidates, findings: Reports \cup {<<>>}])
      BY DEF Judge, TypeOK
    <2> HIDE DEF e
    <2> QED
      BY <1>0, <2>1 DEF TypeOK, StallCounted, LongestRun
  <1>2. /\ lastFP' = Fingerprint(verdict.findings)
        /\ Fingerprint(judged'[k + 1].findings) = lastFP'
        /\ \A j \in 1..k : Fingerprint(judged'[j].findings) = PrintOf(j)
    BY <1>1 DEF Judge, PrintOf
  <1>3. same' = Repeated
    BY DEF Judge
  <1>4. LongestRun'
    <2>1. CASE SamePrint
      <3>1. same' = same + 1 /\ lastFP' = lastFP
        BY <1>2, <1>3, <2>1 DEF Repeated, SamePrint
      <3>2. \A j \in 1..(k + 1) : j > k - same => Fingerprint(judged'[j].findings) = lastFP'
        <4>1. \A j \in 1..(k + 1) : j \in 1..k \/ j = k + 1
          BY <1>1
        <4> QED
          BY <1>0, <1>1, <1>2, <3>1, <4>1 DEF StallCounted, LongestRun
      <3>3. same < k => k - same \in 1..k /\ PrintOf(k - same) # lastFP
        BY <1>0, <1>1 DEF StallCounted, LongestRun
      <3>4. (k + 1) - (same + 1) = k - same
        BY <1>1
      <3> QED
        BY <1>0, <1>1, <1>2, <3>1, <3>2, <3>3, <3>4 DEF LongestRun, PrintOf
    <2>2. CASE ~SamePrint
      <3>1. same' = 1
        BY <1>3, <2>2 DEF Repeated
      <3>2. k >= 1 => Fingerprint(judged'[k].findings) # lastFP'
        <4>1. k >= 1 => same > 0 /\ PrintOf(k) = lastFP
          BY <1>0, <1>1 DEF StallCounted, LongestRun
        <4> QED
          BY <1>1, <1>2, <2>2, <4>1 DEF SamePrint
      <3>3. \A j \in 1..(k + 1) : j > k => j = k + 1
        BY <1>1
      <3>4. (k + 1) - 1 = k
        BY <1>1
      <3> QED
        BY <1>0, <1>1, <1>2, <3>1, <3>2, <3>3, <3>4 DEF LongestRun, PrintOf
    <2> QED
      BY <2>1, <2>2
  <1>5. phase # "idle" /\ phase' # "idle" /\ phase # "done" /\ loopSpec' = loopSpec
    BY DEF Judge, Examined, Verified, Escalate, Again
  <1>6. \/ Repeated >= loopSpec.escalateAfter /\ reason' = "stagnation" /\ phase' = "done"
        \/ /\ Repeated < loopSpec.escalateAfter
           /\ \/ reason' = "strategies_exhausted" /\ phase' = "done"
              \/ reason' = reason
        \/ /\ Repeated < loopSpec.switchAfter
           /\ reason' = reason
    BY DEF Judge, Escalate, Again, outVars
  <1>7. /\ Repeated \in Nat
        /\ loopSpec.switchAfter \in Int /\ loopSpec.escalateAfter \in Int
    BY <1>1 DEF Repeated, TypeOK, LoopSpec
  <1>8. reason = "none"
    BY <1>5 DEF StallCounted
  <1> QED
    BY <1>3, <1>4, <1>5, <1>6, <1>7, <1>8 DEF StallCounted, Begun

LEMMA StallNext ==
    ASSUME Shape, Shape', StallCounted, [Next]_vars
    PROVE  StallCounted'
  <1>1. CASE Judge
    BY <1>1, StallJudged DEF Shape
  <1>2. ASSUME UNCHANGED <<judged, same, lastFP, loopSpec>>,
               phase' # "idle" \/ phase' = phase,
               \/ phase' = "done" /\ reason' \in Reasons \ {"stagnation"}
                                  /\ phase # "done"
               \/ reason' = reason /\ (phase = "done" => phase' = "done")
        PROVE  StallCounted'
    BY <1>2 DEF StallCounted, LongestRun, PrintOf, Begun, Reasons
  <1>3. ASSUME NEW s \in Specs, Begin(s)
        PROVE  StallCounted'
    <2>1. UNCHANGED <<judged, same, lastFP, reason>> /\ phase = "idle" /\ phase' # "idle"
      BY <1>3 DEF Begin, stallVars
    <2>2. LongestRun' /\ same' = 0 /\ reason' = "none"
      BY <2>1 DEF StallCounted, LongestRun, PrintOf
    <2>3. CASE ValidSpec(s) /\ s.payloadAdmitted
      <3>1. /\ 1 <= loopSpec'.switchAfter
            /\ loopSpec'.switchAfter < loopSpec'.escalateAfter
        BY <1>3, <2>3 DEF Begin, ValidSpec
      <3>2. loopSpec'.switchAfter \in Int /\ loopSpec'.escalateAfter \in Int
        BY DEF Shape, TypeOK, LoopSpec
      <3> QED
        BY <2>1, <2>2, <3>1, <3>2 DEF StallCounted
    <2>4. CASE ~(ValidSpec(s) /\ s.payloadAdmitted)
      BY <1>3, <2>1, <2>2, <2>4 DEF Begin, StallCounted, Begun
    <2> QED
      BY <2>3, <2>4
  <1>4. CASE OutOfBudget \/ Propose \/ ReturnCancellation
    BY <1>2, <1>4 DEF OutOfBudget, Propose, ReturnCancellation, Stop, Escalate,
                      stallVars, outVars, Reasons
  <1>5. CASE RefuseTokens \/ OverspendTokens \/ FailedProposal
    BY <1>2, <1>5 DEF RefuseTokens, OverspendTokens, FailedProposal, Proposed, Stop,
                      Escalate, Again, stallVars, outVars, Reasons
  <1>6. CASE RefuseCandidate \/ LateCandidate \/ Verify
    BY <1>2, <1>6 DEF RefuseCandidate, LateCandidate, Verify, Answered, Proposed,
                      Stop, Escalate, stallVars, outVars, Reasons
  <1>7. CASE FailedVerification \/ RefuseVerdict \/ Converge
    BY <1>2, <1>7 DEF FailedVerification, RefuseVerdict, Converge, Examined, Verified,
                      Stop, Escalate, stallVars, outVars, Reasons
  <1>8. CASE ProposerReplies \/ VerifierReplies \/ Elapse \/ Cancel \/ UNCHANGED vars
    BY <1>2, <1>8 DEF ProposerReplies, ProposerEnds, VerifierReplies, Elapse, Cancel,
                      vars, stallVars, outVars
  <1> QED
    BY <1>1, <1>3, <1>4, <1>5, <1>6, <1>7, <1>8 DEF Next, Workflow

(* The run stops as stagnating exactly when the last EscalateAfter refused *)
(* candidates failed alike, whatever failed or changed in between.         *)
THEOREM StagnationStops == Spec => []StagnationExact
  <1>1. Init => StallCounted
    BY DEF Init, StallCounted, LongestRun, Begun
  <1>2. Shape /\ StallCounted => StagnationExact
    <2> SUFFICES ASSUME Shape, StallCounted, Begun
                 PROVE  (reason = "stagnation") <=>
                            AlikeAt(Len(judged), loopSpec.escalateAfter)
      BY DEF StagnationExact
    <2>1. loopSpec.escalateAfter \in Int /\ loopSpec.escalateAfter >= 1
      BY DEF Shape, TypeOK, LoopSpec, StallCounted
    <2> QED
      BY <2>1, CountIsExact DEF StallCounted, Shape
  <1> QED
    BY <1>1, <1>2, ShapeInit, ShapeNext, StallNext, PTL DEF Spec

-----------------------------------------------------------------------------
(* Induction over the natural numbers, with a set in place of a predicate: *)
(* the least number outside of it would be a successor.                    *)

Below == {pair \in Nat \X Nat : pair[1] < pair[2]}

LEMMA LeastNumber ==
    ASSUME NEW T, T \subseteq Nat, T # {}
    PROVE  \E least \in T : \A n \in T : least <= n
  <1>1. IsWellFoundedOn(Below, Nat)
    BY NatLessThanWellFounded DEF Below, OpToRel
  <1>2. PICK least \in T : \A n \in T : ~(<<n, least>> \in Below)
    BY <1>1, WFMin, Zenon
  <1>3. ASSUME NEW n \in T, n < least
        PROVE  FALSE
    BY <1>2, <1>3 DEF Below
  <1> QED
    BY <1>3

LEMMA SetInduction ==
    ASSUME NEW S, 0 \in S, \A n \in Nat : n \in S => n + 1 \in S
    PROVE  \A n \in Nat : n \in S
  <1> DEFINE T == {n \in Nat : n \notin S}
  <1> SUFFICES ASSUME T # {}
               PROVE  FALSE
    OBVIOUS
  <1>1. PICK least \in T : \A n \in T : least <= n
    BY LeastNumber
  <1>2. least # 0 /\ least - 1 \in Nat /\ least - 1 \notin T
    BY <1>1
  <1> QED
    BY <1>1, <1>2

-----------------------------------------------------------------------------
(* The tokens of a trace *)

Tokened(t) == Len(t) \in Nat /\ \A n \in 1..Len(t) : t[n].tokens \in Int

(* f[n] is the sum of the tokens of the first n entries, up to k.          *)
SumsUpTo(t, f, k) ==
    /\ f \in [0..k -> Int]
    /\ f[0] = 0
    /\ \A n \in 1..k : f[n] = f[n - 1] + t[n].tokens

LEMMA SumsExist ==
    ASSUME NEW t, Tokened(t)
    PROVE  \E f : SumsUpTo(t, f, Len(t))
  <1> DEFINE S == {k \in Nat : k <= Len(t) => \E f : SumsUpTo(t, f, k)}
  <1>1. 0 \in S
    <2>1. SumsUpTo(t, [n \in 0..0 |-> 0], 0)
      BY DEF SumsUpTo
    <2> QED
      BY <2>1
  <1>2. ASSUME NEW k \in Nat, k \in S
        PROVE  k + 1 \in S
    <2> SUFFICES ASSUME k + 1 <= Len(t)
                 PROVE  \E f : SumsUpTo(t, f, k + 1)
      OBVIOUS
    <2>1. k <= Len(t) /\ t[k + 1].tokens \in Int
      BY DEF Tokened
    <2>2. PICK f : SumsUpTo(t, f, k)
      BY <1>2, <2>1
    <2> DEFINE g == [n \in 0..(k + 1) |-> IF n = k + 1 THEN f[k] + t[k + 1].tokens ELSE f[n]]
    <2>3. g \in [0..(k + 1) -> Int]
      BY <2>1, <2>2 DEF SumsUpTo
    <2>4. g[0] = 0 /\ \A n \in 1..(k + 1) : g[n] = g[n - 1] + t[n].tokens
      BY <2>2 DEF SumsUpTo
    <2> HIDE DEF g
    <2>5. SumsUpTo(t, g, k + 1)
      BY <2>3, <2>4 DEF SumsUpTo
    <2> QED
      BY <2>5
  <1> HIDE DEF S
  <1>3. Len(t) \in S
    BY <1>1, <1>2, SetInduction DEF Tokened
  <1> QED
    BY <1>3 DEF S, Tokened

LEMMA SumsAgree ==
    ASSUME NEW t, NEW u, NEW k \in Nat, NEW f, NEW g,
           NEW j \in Nat, j >= k, SumsUpTo(t, f, k), SumsUpTo(u, g, j),
           \A n \in 1..k : t[n].tokens = u[n].tokens
    PROVE  f[k] = g[k]
  <1> DEFINE S == {n \in Nat : n <= k => f[n] = g[n]}
  <1>1. 0 \in S
    BY DEF SumsUpTo
  <1>2. ASSUME NEW n \in Nat, n \in S
        PROVE  n + 1 \in S
    <2> SUFFICES ASSUME n + 1 <= k
                 PROVE  f[n + 1] = g[n + 1]
      OBVIOUS
    <2>1. f[n] = g[n] /\ n + 1 \in 1..k /\ (n + 1) - 1 = n
      BY <1>2
    <2>2. n + 1 \in 1..j
      OBVIOUS
    <2> QED
      BY <2>1, <2>2 DEF SumsUpTo
  <1> HIDE DEF S
  <1>3. k \in S
    BY <1>1, <1>2, SetInduction
  <1> QED
    BY <1>3 DEF S

(* TokensOf is the last of the sums.                                       *)
LEMMA TokensSum ==
    ASSUME NEW t, Tokened(t)
    PROVE  \E f : SumsUpTo(t, f, Len(t)) /\ TokensOf(t) = f[Len(t)]
  <1> DEFINE F == CHOOSE f : f = [n \in 0..Len(t) |->
                                    IF n = 0 THEN 0 ELSE f[n - 1] + t[n].tokens]
  <1>1. PICK f : SumsUpTo(t, f, Len(t))
    BY SumsExist
  <1>2. f = [n \in 0..Len(t) |-> IF n = 0 THEN 0 ELSE f[n - 1] + t[n].tokens]
    <2> DEFINE h == [n \in 0..Len(t) |-> IF n = 0 THEN 0 ELSE f[n - 1] + t[n].tokens]
    <2>1. \A n \in 0..Len(t) : f[n] = h[n]
      BY <1>1 DEF SumsUpTo, Tokened
    <2> QED
      BY <1>1, <2>1 DEF SumsUpTo
  <1>3. F = [n \in 0..Len(t) |-> IF n = 0 THEN 0 ELSE F[n - 1] + t[n].tokens]
    BY <1>2, Zenon
  <1>4. TokensOf(t) = F[Len(t)]
    BY Zenon DEF TokensOf
  <1> HIDE DEF F
  <1> DEFINE S == {k \in Nat : k <= Len(t) => F[k] = f[k]}
  <1>5. 0 \in S
    BY <1>1, <1>3 DEF SumsUpTo, Tokened
  <1>6. ASSUME NEW k \in Nat, k \in S
        PROVE  k + 1 \in S
    BY <1>1, <1>3, <1>6 DEF SumsUpTo, Tokened
  <1> HIDE DEF S
  <1>7. Len(t) \in S
    BY <1>5, <1>6, SetInduction DEF Tokened
  <1> QED
    BY <1>1, <1>4, <1>7 DEF S, Tokened

LEMMA TokensUnchanged ==
    ASSUME NEW t, NEW u, Tokened(t), Tokened(u), Len(u) = Len(t),
           \A n \in 1..Len(t) : u[n].tokens = t[n].tokens
    PROVE  TokensOf(u) = TokensOf(t)
  <1>1. PICK f : SumsUpTo(t, f, Len(t)) /\ TokensOf(t) = f[Len(t)]
    BY TokensSum
  <1>2. PICK g : SumsUpTo(u, g, Len(u)) /\ TokensOf(u) = g[Len(u)]
    BY TokensSum
  <1>3. Len(t) \in Nat /\ Len(u) \in Nat /\ Len(u) >= Len(t)
    BY DEF Tokened
  <1>4. f[Len(t)] = g[Len(t)]
    <2>1. \A n \in 1..Len(t) : t[n].tokens = u[n].tokens
      OBVIOUS
    <2> QED
      BY <1>1, <1>2, <1>3, <2>1, SumsAgree
  <1> QED
    BY <1>1, <1>2, <1>4

LEMMA TokensAdded ==
    ASSUME NEW t, NEW u, Tokened(t), Tokened(u), Len(u) = Len(t) + 1,
           \A n \in 1..Len(t) : u[n] = t[n]
    PROVE  TokensOf(u) = TokensOf(t) + u[Len(u)].tokens
  <1>1. PICK f : SumsUpTo(t, f, Len(t)) /\ TokensOf(t) = f[Len(t)]
    BY TokensSum
  <1>2. PICK g : SumsUpTo(u, g, Len(u)) /\ TokensOf(u) = g[Len(u)]
    BY TokensSum
  <1>3. Len(t) \in Nat /\ Len(u) \in Nat /\ Len(u) >= Len(t)
    BY DEF Tokened
  <1>4. f[Len(t)] = g[Len(t)]
    <2>1. PICK k \in Nat : k = Len(t)
      BY <1>3
    <2>2. PICK j \in Nat : j = Len(u) /\ j >= k
      BY <1>3, <2>1
    <2>3. SumsUpTo(t, f, k) /\ SumsUpTo(u, g, j)
      BY <1>1, <1>2, <2>1, <2>2
    <2>4. \A n \in 1..k : t[n].tokens = u[n].tokens
      BY <2>1
    <2> QED
      BY <2>1, <2>2, <2>3, <2>4, SumsAgree
  <1>5. g[Len(t) + 1] = g[Len(t)] + u[Len(t) + 1].tokens
    BY <1>2, <1>3 DEF SumsUpTo
  <1> QED
    BY <1>1, <1>2, <1>4, <1>5

-----------------------------------------------------------------------------
(* The trace accounts for the run *)

Kept ==
    /\ TraceAccounts
    /\ phase = "idle" => trace = <<>> /\ loopSpec = NoSpec /\ tokens = 0
    /\ phase \in {"top", "propose"} => it = Len(trace) + 1
    /\ phase = "propose" => it <= loopSpec.maxIterations
    /\ phase = "verify" => it = Len(trace)

LEMMA TraceTokened ==
    ASSUME NEW t \in Seq(Trace)
    PROVE  Tokened(t)
  <1>1. \A n \in 1..Len(t) : t[n] \in Trace
    OBVIOUS
  <1>2. \A e \in Trace : e.tokens \in Int
    BY DEF Trace
  <1> QED
    BY <1>1, <1>2 DEF Tokened

(* One more call, whose tokens are those added to the run.                 *)
LEMMA KeptTraced ==
    ASSUME Shape, Shape', Kept, NEW n \in Nat, Traced(n), tokens' = tokens + n,
           phase = "propose", loopSpec' = loopSpec,
           \/ phase' = "done"
           \/ phase' = "verify" /\ it' = it
           \/ phase' = "top" /\ it' = it + 1
    PROVE  Kept'
  <1>1. /\ Len(trace') = Len(trace) + 1 /\ Len(trace) \in Nat
        /\ \A i \in 1..Len(trace) : trace'[i] = trace[i]
        /\ trace'[Len(trace) + 1].tokens = n
    BY TracedCall DEF Shape
  <1>2. Tokened(trace) /\ Tokened(trace')
    BY TraceTokened DEF Shape, TypeOK
  <1>3. TokensOf(trace') = TokensOf(trace) + n
    BY <1>1, <1>2, TokensAdded
  <1>4. tokens' = TokensOf(trace')
    BY <1>3 DEF Kept, TraceAccounts
  <1>5. it = Len(trace) + 1 /\ it <= loopSpec.maxIterations /\ iterations' = it
    BY DEF Kept, Traced
  <1> QED
    BY <1>1, <1>4, <1>5 DEF Kept, TraceAccounts

(* A verification leaves the tokens of the trace as they are.              *)
LEMMA KeptExamined ==
    ASSUME Shape, Shape', Kept, Examined,
           \/ phase' = "done"
           \/ phase' = "top" /\ it' = it + 1
    PROVE  Kept'
  <1>1. /\ Len(trace') = Len(trace) /\ Len(trace) \in Nat
        /\ \A i \in 1..Len(trace) : trace'[i].tokens = trace[i].tokens
    BY ExaminedEntry
  <1>2. Tokened(trace) /\ Tokened(trace')
    BY TraceTokened DEF Shape, TypeOK
  <1>3. TokensOf(trace') = TokensOf(trace)
    BY <1>1, <1>2, TokensUnchanged
  <1>4. phase = "verify" /\ UNCHANGED <<tokens, iterations, loopSpec>>
    BY DEF Examined, Verified
  <1> QED
    BY <1>1, <1>3, <1>4 DEF Kept, TraceAccounts

LEMMA EmptyTokens == TokensOf(<<>>) = 0
  <1>1. Tokened(<<>>)
    BY DEF Tokened
  <1>2. PICK f : SumsUpTo(<<>>, f, Len(<<>>)) /\ TokensOf(<<>>) = f[Len(<<>>)]
    BY <1>1, TokensSum
  <1> QED
    BY <1>2 DEF SumsUpTo

LEMMA KeptNext ==
    ASSUME Shape, Shape', Kept, [Next]_vars
    PROVE  Kept'
  <1>1. CASE RefuseTokens
    <2>1. /\ phase = "propose" /\ phase' = "done" /\ Traced(0) /\ tokens' = tokens
          /\ loopSpec' = loopSpec
      BY <1>1 DEF RefuseTokens, Proposed, Stop, Escalate
    <2>2. tokens' = tokens + 0
      BY <2>1 DEF Shape, TypeOK
    <2> QED
      BY <2>1, <2>2, KeptTraced
  <1>2. ASSUME Proposed, TokensAdmitted, Counted, loopSpec' = loopSpec,
               \/ phase' = "done"
               \/ phase' = "verify" /\ it' = it
               \/ phase' = "top" /\ it' = it + 1
        PROVE  Kept'
    <2>1. CallTokens \in Nat /\ Traced(CallTokens) /\ tokens' = tokens + CallTokens
      BY <1>2, CountedCall DEF Shape
    <2> QED
      BY <1>2, <2>1, KeptTraced DEF Proposed
  <1>3. CASE OverspendTokens \/ FailedProposal
    BY <1>2, <1>3 DEF OverspendTokens, FailedProposal, Stop, Escalate, Again
  <1>4. CASE RefuseCandidate \/ LateCandidate \/ Verify
    BY <1>2, <1>4 DEF RefuseCandidate, LateCandidate, Verify, Answered, Stop, Escalate
  <1>5. CASE RefuseVerdict \/ Converge \/ Judge
    <2>1. Examined /\ (phase' = "done" \/ (phase' = "top" /\ it' = it + 1))
      BY <1>5 DEF RefuseVerdict, Converge, Judge, Stop, Escalate, Again
    <2> QED
      BY <2>1, KeptExamined
  <1>6. CASE ReturnCancellation
    <2>1. /\ phase' = "done" /\ iterations' = 0 /\ tokens' = 0 /\ trace' = <<>>
          /\ loopSpec' = loopSpec
      BY <1>6 DEF ReturnCancellation
    <2>2. 0 <= loopSpec.maxIterations
      <3>1. iterations \in Nat /\ loopSpec.maxIterations \in Int
        BY DEF Shape, TypeOK, LoopSpec
      <3> QED
        BY <3>1 DEF Kept, TraceAccounts
    <2> QED
      BY <2>1, <2>2, EmptyTokens DEF Kept, TraceAccounts
  <1>7. ASSUME NEW s \in Specs, Begin(s)
        PROVE  Kept'
    <2>1. /\ trace' = <<>> /\ trace = <<>> /\ tokens' = tokens /\ iterations' = iterations
          /\ (phase' = "top" /\ it' = 1) \/ phase' = "done"
      BY <1>7 DEF Begin, Kept, countVars
    <2>2. 0 <= loopSpec'.maxIterations
      <3>1. CASE ValidSpec(s) /\ s.payloadAdmitted
        <4>1. loopSpec'.maxIterations \in 1..MaxIterationsLimit
          BY <1>7, <3>1 DEF Begin, ValidSpec
        <4> QED
          BY <4>1, LoopAssumption
      <3>2. CASE ~(ValidSpec(s) /\ s.payloadAdmitted)
        BY <1>7, <3>2 DEF Begin, Kept, NoSpec
      <3> QED
        BY <3>1, <3>2
    <2> QED
      BY <2>1, <2>2 DEF Kept, TraceAccounts
  <1>8. CASE OutOfBudget \/ Propose \/ FailedVerification
    <2>1. /\ UNCHANGED <<trace, tokens, iterations, loopSpec>>
          /\ \/ phase' = "done"
             \/ /\ phase = "top" /\ phase' = "propose" /\ it' = it
                /\ it <= loopSpec.maxIterations
      BY <1>8 DEF OutOfBudget, Propose, FailedVerification, Stop, Escalate, countVars
    <2> QED
      BY <2>1 DEF Kept, TraceAccounts
  <1>9. CASE ProposerReplies \/ VerifierReplies \/ Elapse \/ Cancel \/ UNCHANGED vars
    <2>1. UNCHANGED <<trace, tokens, iterations, loopSpec, phase, it>>
      BY <1>9 DEF ProposerReplies, ProposerEnds, VerifierReplies, Elapse, Cancel,
                   vars, countVars
    <2> QED
      BY <2>1 DEF Kept, TraceAccounts
  <1> QED
    BY <1>1, <1>3, <1>4, <1>5, <1>6, <1>7, <1>8, <1>9 DEF Next, Workflow

-----------------------------------------------------------------------------
(* The strategies *)

(* The verifications of the trace are those that judged a candidate, and   *)
(* the next call gets the strategy that the last one calls for.            *)
StrategyKept ==
    /\ StrategyFollowsStagnation
    /\ phase = "idle" => trace = <<>> /\ judged = <<>>
    /\ phase = "verify" => ~trace[Len(trace)].verified
    /\ Running =>
         /\ Begun
         /\ Cardinality(VerifiedBy(Len(trace))) = Len(judged)
         /\ trace # <<>> =>
              strat + 1 = trace[Len(trace)].strategy
                            + IF StalledAt(Len(trace)) THEN 1 ELSE 0

LEMMA VerifiedCount ==
    ASSUME NEW i \in Nat, NEW k \in Nat, i <= k
    PROVE  /\ IsFiniteSet(VerifiedBy(k))
           /\ Cardinality(VerifiedBy(i)) \in Nat
           /\ Cardinality(VerifiedBy(i)) <= Cardinality(VerifiedBy(k))
  <1>1. IsFiniteSet(1..k)
    BY FS_Interval
  <1>2. VerifiedBy(k) \in SUBSET (1..k) /\ VerifiedBy(i) \in SUBSET VerifiedBy(k)
    BY DEF VerifiedBy
  <1>3. IsFiniteSet(VerifiedBy(k))
    BY <1>1, <1>2, FS_Subset
  <1>4. /\ IsFiniteSet(VerifiedBy(i))
        /\ Cardinality(VerifiedBy(i)) <= Cardinality(VerifiedBy(k))
    BY <1>2, <1>3, FS_Subset
  <1> QED
    BY <1>3, <1>4, FS_CardinalityType

(* What a call called for stays as long as it and what was judged by then  *)
(* stay.                                                                   *)
LEMMA StalledStays ==
    ASSUME NEW i \in Nat, i >= 1, loopSpec' = loopSpec, loopSpec.switchAfter \in Int,
           loopSpec.switchAfter >= 1,
           \A j \in 1..i : trace'[j].verified = trace[j].verified,
           Cardinality(VerifiedBy(i)) <= Len(judged), Len(judged) \in Nat,
           \A j \in 1..Len(judged) : judged'[j] = judged[j]
    PROVE  StalledAt(i)' <=> StalledAt(i)
  <1>1. VerifiedBy(i)' = VerifiedBy(i)
    BY DEF VerifiedBy
  <1> DEFINE k == Cardinality(VerifiedBy(i))
             n == loopSpec.switchAfter
  <1>2. k \in Nat /\ k <= Len(judged)
    BY VerifiedCount
  <1>3. ASSUME k >= n
        PROVE  \A j \in (k - n + 1)..k : j \in 1..Len(judged) /\ k \in 1..Len(judged)
    BY <1>2, <1>3
  <1>4. \A j \in 1..Len(judged) : PrintOf(j)' = PrintOf(j)
    BY DEF PrintOf
  <1>5. AlikeAt(k, n)' <=> AlikeAt(k, n)
    <2>1. k' = k /\ n' = n
      BY <1>1
    <2> HIDE DEF k, n
    <2> QED
      BY <2>1, <1>2, <1>3, <1>4 DEF AlikeAt
  <1>6. trace'[i].verified = trace[i].verified
    OBVIOUS
  <1> QED
    BY <1>5, <1>6 DEF StalledAt

(* One more call, under the strategy that the last one called for.         *)
LEMMA StrategyTraced ==
    ASSUME Shape, Shape', StallCounted, StrategyKept, NEW n \in Nat, Traced(n),
           phase = "propose", phase' \in {"top", "verify", "done"},
           UNCHANGED <<loopSpec, judged, strat>>
    PROVE  StrategyKept'
  <1>0. PICK L \in Nat : L = Len(trace)
    BY DEF Shape, TypeOK
  <1>1. /\ L \in Nat /\ Len(trace') = L + 1 /\ trace' # <<>>
        /\ \A i \in 1..L : trace'[i] = trace[i]
        /\ trace'[L + 1].verified = FALSE
        /\ trace'[L + 1].strategy = strat + 1
    BY <1>0, TracedCall DEF Shape
  <1>2. Len(judged) \in Nat /\ strat \in Nat
    BY DEF Shape, TypeOK
  <1>3. Begun /\ loopSpec.switchAfter \in Int /\ loopSpec.switchAfter >= 1
    BY DEF StrategyKept, Running, Examined, Verified, StallCounted, Shape, TypeOK, LoopSpec
  <1>4. Cardinality(VerifiedBy(L)) = Len(judged)
    BY <1>0 DEF StrategyKept, Running
  <1>5. ASSUME NEW i \in 1..L
        PROVE  StalledAt(i)' <=> StalledAt(i)
    <2>1. Cardinality(VerifiedBy(i)) <= Len(judged)
      BY <1>1, <1>4, VerifiedCount
    <2>2. \A j \in 1..i : trace'[j].verified = trace[j].verified
      BY <1>1
    <2> QED
      BY <1>1, <1>2, <1>3, <2>1, <2>2, StalledStays
  <1>6. VerifiedBy(L + 1)' = VerifiedBy(L)
    BY <1>1 DEF VerifiedBy
  <1>7. ~StalledAt(L + 1)'
    BY <1>1 DEF StalledAt
  <1>8. ASSUME NEW i \in 1..L
        PROVE  trace'[i + 1].strategy = trace'[i].strategy + IF StalledAt(i)' THEN 1 ELSE 0
    <2>1. CASE i = L
      BY <1>0, <1>1, <1>5, <2>1 DEF StrategyKept, Running
    <2>2. CASE i # L
      <3>1. i \in 1..(L - 1) /\ i + 1 \in 1..L
        BY <1>1, <2>2
      <3> QED
        BY <1>0, <1>1, <1>5, <3>1 DEF StrategyKept, StrategyFollowsStagnation
    <2> QED
      BY <2>1, <2>2
  <1>9. StrategyFollowsStagnation'
    BY <1>1, <1>8 DEF StrategyFollowsStagnation
  <1>10. /\ ~trace'[Len(trace')].verified
         /\ strat' + 1 = trace'[Len(trace')].strategy
                           + IF StalledAt(L + 1)' THEN 1 ELSE 0
         /\ Cardinality(VerifiedBy(L + 1))' = Len(judged')
    BY <1>1, <1>2, <1>4, <1>6, <1>7
  <1> QED
    BY <1>1, <1>3, <1>9, <1>10 DEF StrategyKept, Begun

(* What an examined verification leaves of the calls before.               *)
LEMMA StrategyExamined ==
    ASSUME Shape, StallCounted, StrategyKept, Examined, loopSpec' = loopSpec,
           \A j \in 1..Len(judged) : judged'[j] = judged[j]
    PROVE  StrategyFollowsStagnation'
  <1> DEFINE L == Len(trace)
  <1>1. /\ L \in Nat \ {0} /\ Len(trace') = L
        /\ \A i \in 1..(L - 1) : trace'[i] = trace[i]
        /\ \A i \in 1..L : trace'[i].strategy = trace[i].strategy
    BY ExaminedEntry
  <1>2. Len(judged) \in Nat
    BY DEF Shape, TypeOK
  <1>3. Begun /\ loopSpec.switchAfter \in Int /\ loopSpec.switchAfter >= 1
    BY DEF StrategyKept, Running, Examined, Verified, StallCounted, Shape, TypeOK, LoopSpec
  <1>4. Cardinality(VerifiedBy(L)) = Len(judged)
    BY DEF StrategyKept, Running, Examined, Verified
  <1>5. ASSUME NEW i \in 1..(L - 1)
        PROVE  trace'[i + 1].strategy = trace'[i].strategy + IF StalledAt(i)' THEN 1 ELSE 0
    <2>1. Cardinality(VerifiedBy(i)) <= Len(judged)
      BY <1>1, <1>4, VerifiedCount
    <2>2. \A j \in 1..i : trace'[j].verified = trace[j].verified
      BY <1>1
    <2>3. StalledAt(i)' <=> StalledAt(i)
      BY <1>1, <1>2, <1>3, <2>1, <2>2, StalledStays
    <2>4. i + 1 \in 1..L
      BY <1>1
    <2> QED
      BY <1>1, <2>3, <2>4 DEF StrategyKept, StrategyFollowsStagnation
  <1> QED
    BY <1>1, <1>5 DEF StrategyFollowsStagnation

(* A refusal is counted on both sides, and calls for the next strategy     *)
(* when the count of the loop says so.                                     *)
LEMMA StrategyJudged ==
    ASSUME Shape, Shape', StallCounted, StallCounted', StrategyKept, Judge
    PROVE  StrategyKept'
  <1> DEFINE e == [candidate |-> proposal.candidate, findings |-> verdict.findings]
  <1>0. PICK L \in Nat : L = Len(trace)
    BY DEF Shape, TypeOK
  <1>k. PICK k \in Nat : k = Len(judged)
    BY DEF Shape, TypeOK
  <1>1. /\ L \in Nat \ {0} /\ Len(trace') = L /\ trace' # <<>>
        /\ \A i \in 1..(L - 1) : trace'[i] = trace[i]
        /\ \A i \in 1..L : trace'[i].strategy = trace[i].strategy
        /\ trace'[L].verified = TRUE
    <2>1. Examined
      BY DEF Judge
    <2> QED
      BY <1>0, <2>1, ExaminedEntry
  <1>2. k \in Nat /\ Len(judged') = k + 1 /\ \A j \in 1..k : judged'[j] = judged[j]
    <2>1. /\ judged' = Append(judged, e)
          /\ judged \in Seq([candidate: Candidates, findings: Reports \cup {<<>>}])
      BY DEF Judge, Shape, TypeOK
    <2> HIDE DEF e
    <2> QED
      BY <1>k, <2>1
  <1>3. loopSpec' = loopSpec /\ phase = "verify" /\ phase' \in {"top", "done"}
    BY DEF Judge, Examined, Verified, Escalate, Again
  <1>4. StrategyFollowsStagnation'
    BY <1>k, <1>2, <1>3, StrategyExamined DEF Judge
  <1>5. ~trace[L].verified /\ Cardinality(VerifiedBy(L)) = k /\ trace # <<>>
    BY <1>0, <1>k, <1>3, <1>1 DEF StrategyKept, Running
  <1>6. Cardinality(VerifiedBy(L))' = k + 1
    <2>1. VerifiedBy(L)' = VerifiedBy(L) \cup {L}
      BY <1>1 DEF VerifiedBy
    <2>2. L \notin VerifiedBy(L)
      BY <1>5 DEF VerifiedBy
    <2>3. IsFiniteSet(VerifiedBy(L))
      BY VerifiedCount
    <2> QED
      BY <1>5, <2>1, <2>2, <2>3, FS_AddElement
  <1>7. PICK n \in Int : n >= 1 /\ n = loopSpec.switchAfter
    BY <1>3 DEF StrategyKept, Running, StallCounted, Shape, TypeOK, LoopSpec
  <1>8. AlikeAt(k + 1, n)' <=> same' >= n
    <2>1. TypeOK' /\ LongestRun'
      BY DEF Shape, StallCounted
    <2>2. AlikeAt(Len(judged), n)' <=> same' >= n
      BY <1>7, <2>1, CountIsExactNext
    <2> QED
      BY <1>2, <2>2
  <1>9. StalledAt(L)' <=> Repeated >= loopSpec.switchAfter
    <2>1. same' = Repeated
      BY DEF Judge
    <2>2. StalledAt(L)' <=> AlikeAt(k + 1, n)'
      BY <1>1, <1>3, <1>6, <1>7 DEF StalledAt
    <2> QED
      BY <1>7, <1>8, <2>1, <2>2
  <1>10. ASSUME phase' # "done"
         PROVE  strat' = strat + IF Repeated >= loopSpec.switchAfter THEN 1 ELSE 0
    <2>1. \/ Repeated >= loopSpec.switchAfter /\ strat' = strat + 1
          \/ Repeated < loopSpec.switchAfter /\ strat' = strat
      BY <1>10 DEF Judge, Escalate
    <2>2. Repeated \in Int /\ loopSpec.switchAfter \in Int /\ strat \in Nat
      BY DEF Repeated, Shape, TypeOK, LoopSpec
    <2> QED
      BY <2>1, <2>2
  <1>11. strat + 1 = trace[L].strategy
    <2>1. ~StalledAt(L) /\ trace[L].strategy \in Nat
      <3>1. trace[L] \in Trace
        BY <1>0, <1>1 DEF Shape, TypeOK
      <3> QED
        BY <1>5, <3>1 DEF StalledAt, Trace
    <2> QED
      BY <1>0, <1>3, <1>5, <2>1 DEF StrategyKept, Running
  <1>12. phase' # "done" =>
           strat' + 1 = trace'[L].strategy + IF StalledAt(L)' THEN 1 ELSE 0
    <2>1. strat \in Nat /\ trace'[L].strategy = trace[L].strategy
      BY <1>1 DEF Shape, TypeOK
    <2> QED
      BY <1>9, <1>10, <1>11, <2>1
  <1>13. Cardinality(VerifiedBy(Len(trace)))' = Len(judged')
    BY <1>1, <1>2, <1>6
  <1>14. phase' # "done" =>
           strat' + 1 = trace'[Len(trace')].strategy
                         + IF StalledAt(Len(trace))' THEN 1 ELSE 0
    BY <1>1, <1>12
  <1> QED
    BY <1>3, <1>4, <1>13, <1>14 DEF StrategyKept, Running, Begun

LEMMA StrategyNext ==
    ASSUME Shape, Shape', StallCounted, StallCounted', StrategyKept, [Next]_vars
    PROVE  StrategyKept'
  <1>1. CASE Judge
    BY <1>1, StrategyJudged
  <1>2. CASE RefuseTokens
    <2>1. /\ phase = "propose" /\ phase' = "done" /\ Traced(0)
          /\ UNCHANGED <<loopSpec, judged, strat>>
      BY <1>2 DEF RefuseTokens, Proposed, Stop, Escalate, stallVars
    <2> QED
      BY <2>1, StrategyTraced
  <1>3. CASE OverspendTokens \/ FailedProposal
    <2>1. /\ phase = "propose" /\ phase' \in {"top", "done"} /\ TokensAdmitted /\ Counted
          /\ UNCHANGED <<loopSpec, judged, strat>>
      BY <1>3 DEF OverspendTokens, FailedProposal, Proposed, Stop, Escalate, Again, stallVars
    <2>2. CallTokens \in Nat /\ Traced(CallTokens)
      BY <2>1, CountedCall DEF Shape
    <2> QED
      BY <2>1, <2>2, StrategyTraced
  <1>4. CASE RefuseCandidate \/ LateCandidate \/ Verify
    <2>1. /\ phase = "propose" /\ phase' \in {"verify", "done"} /\ TokensAdmitted /\ Counted
          /\ UNCHANGED <<loopSpec, judged, strat>>
      BY <1>4 DEF RefuseCandidate, LateCandidate, Verify, Answered, Proposed, Stop,
                  Escalate, stallVars
    <2>2. CallTokens \in Nat /\ Traced(CallTokens)
      BY <2>1, CountedCall DEF Shape
    <2> QED
      BY <2>1, <2>2, StrategyTraced
  <1>5. CASE RefuseVerdict \/ Converge
    <2>1. Examined /\ phase' = "done" /\ judged' = judged /\ loopSpec' = loopSpec
      BY <1>5 DEF RefuseVerdict, Converge, Examined, Stop, Escalate, stallVars
    <2>2. StrategyFollowsStagnation'
      BY <2>1, StrategyExamined
    <2> QED
      BY <2>1, <2>2 DEF StrategyKept, Running
  <1>6. CASE ReturnCancellation
    <2>1. trace' = <<>> /\ phase' = "done"
      BY <1>6 DEF ReturnCancellation
    <2> QED
      BY <2>1 DEF StrategyKept, StrategyFollowsStagnation, Running
  <1>7. ASSUME NEW s \in Specs, Begin(s)
        PROVE  StrategyKept'
    <2>1. trace' = <<>> /\ judged' = <<>> /\ phase' \in {"top", "done"}
      BY <1>7 DEF Begin, StrategyKept, countVars, stallVars
    <2>2. phase' = "top" => Begun'
      <3>1. phase' = "top" => loopSpec'.names = "valid"
        BY <1>7 DEF Begin, ValidSpec
      <3> QED
        BY <3>1 DEF Begun, NoSpec
    <2>3. Cardinality(VerifiedBy(Len(trace)))' = Len(judged')
      <3>1. VerifiedBy(Len(trace))' = {}
        BY <2>1 DEF VerifiedBy
      <3> QED
        BY <2>1, <3>1, FS_EmptySet
    <2> QED
      BY <2>1, <2>2, <2>3 DEF StrategyKept, StrategyFollowsStagnation, Running
  <1>8. ASSUME UNCHANGED <<trace, judged, strat, loopSpec>>,
               phase' = phase \/ phase' = "done"
                 \/ (phase = "top" /\ phase' = "propose")
        PROVE  StrategyKept'
    <2>1. StrategyFollowsStagnation'
      <3>1. ASSUME NEW i
            PROVE  StalledAt(i)' <=> StalledAt(i)
        <4>1. VerifiedBy(i)' = VerifiedBy(i)
          BY <1>8 DEF VerifiedBy
        <4>2. \A k, n : AlikeAt(k, n)' <=> AlikeAt(k, n)
          BY <1>8 DEF AlikeAt, PrintOf
        <4> QED
          BY <1>8, <4>1, <4>2 DEF StalledAt
      <3> QED
        BY <1>8, <3>1 DEF StrategyKept, StrategyFollowsStagnation
    <2> QED
      BY <1>8, <2>1 DEF StrategyKept, StalledAt, VerifiedBy, AlikeAt, PrintOf, Running, Begun
  <1>9. CASE OutOfBudget \/ Propose \/ FailedVerification
    BY <1>8, <1>9 DEF OutOfBudget, Propose, FailedVerification, Stop, Escalate,
                      countVars, stallVars
  <1>10. CASE ProposerReplies \/ VerifierReplies \/ Elapse \/ Cancel \/ UNCHANGED vars
    BY <1>8, <1>10 DEF ProposerReplies, ProposerEnds, VerifierReplies, Elapse, Cancel,
                       vars, countVars, stallVars
  <1> QED
    BY <1>1, <1>2, <1>3, <1>4, <1>5, <1>6, <1>7, <1>9, <1>10 DEF Next, Workflow

(* Who reads only the trace knows what the run spent, how often it called, *)
(* and why its strategy changed where it did: RunLoop's trace entries and  *)
(* counters, for any sequence of answers, failures and verdicts.           *)
THEOREM TraceIsTheRun == Spec => []TraceTellsTheRun
  <1>1. Init => StallCounted
    BY DEF Init, StallCounted, LongestRun, Begun
  <1>2. Init => Kept
    BY EmptyTokens DEF Init, Kept, TraceAccounts, NoSpec
  <1>3. Init => StrategyKept
    BY DEF Init, StrategyKept, StrategyFollowsStagnation, Running
  <1>4. Kept /\ StrategyKept => TraceTellsTheRun
    BY DEF Kept, StrategyKept, TraceTellsTheRun
  <1> QED
    BY <1>1, <1>2, <1>3, <1>4, ShapeInit, ShapeNext, StallNext, KeptNext, StrategyNext, PTL
    DEF Spec

=============================================================================
