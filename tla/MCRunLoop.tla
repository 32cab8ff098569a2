------------------------------ MODULE MCRunLoop ------------------------------
(* Small instances of RunLoop for TLC.                                     *)
EXTENDS RunLoop

CONSTANTS c1, c2

Found(code, severity) ==
    [code |-> code, resource |-> "r", severity |-> severity, rest |-> 0]

(* "hot" and "warm" differ by their score, not by their print; "odd" has   *)
(* another print and an unknown severity; "cold" does not block.           *)
hot  == <<Found("A", "high")>>
warm == <<Found("A", "medium")>>
odd  == <<Found("B", "surprising")>>
cold == <<Found("C", "low")>>

MCReports == {hot, warm, odd, cold}

Answer(c, n) == [NoProposal EXCEPT !.state = "answered", !.candidate = c, !.tokens = n]
Failure(d, n, r) == [NoProposal EXCEPT !.state = "failed", !.details = d,
                                       !.tokens = n, !.retryable = r]

MCProposals ==
    {Answer(c1, 1), Answer(c2, 2), Answer(Oversized, 1), Answer(EmptyCandidate, 1),
     Answer(c1, -1), Answer(c1, MaxTokensLimit + 1), Answer(c1, MaxTokensLimit),
     Failure("none", 0, TRUE), Failure("malformed", 0, TRUE),
     Failure("declared", 1, TRUE), Failure("declared", 1, FALSE)}

Verdict(ok, f) == [state |-> "answered", ok |-> ok, findings |-> f, inBounds |-> TRUE]

MCVerifications ==
    {Verdict(FALSE, f) : f \in MCReports \cup {<<>>}}
    \cup {Verdict(TRUE, f) : f \in {<<>>, cold, warm}}
    \cup {[Verdict(FALSE, hot) EXCEPT !.inBounds = FALSE],
          [NoVerification EXCEPT !.state = "failed"]}

Small == [names |-> "valid", strategies |-> 2, maxIterations |-> 4,
          maxTokens |-> 6, maxWallTime |-> 1, switchAfter |-> 2,
          escalateAfter |-> 3, activityTimeout |-> 1, payloadAdmitted |-> TRUE]

(* The defaults, thresholds that let every strategy be used up, and one    *)
(* request invalid in each field.                                          *)
MCSpecs ==
    {[Small EXCEPT !.switchAfter = 0, !.escalateAfter = 0, !.activityTimeout = 0],
     [Small EXCEPT !.switchAfter = 1, !.escalateAfter = 4]}
    \cup {[Small EXCEPT !.names = "same"], [Small EXCEPT !.strategies = 0],
          [Small EXCEPT !.strategies = MaxStrategies + 1],
          [Small EXCEPT !.maxIterations = 0],
          [Small EXCEPT !.maxIterations = MaxIterationsLimit + 1],
          [Small EXCEPT !.maxTokens = 0],
          [Small EXCEPT !.maxTokens = MaxTokensLimit + 1],
          [Small EXCEPT !.maxWallTime = 0],
          [Small EXCEPT !.maxWallTime = MaxWallTimeLimit + 1],
          [Small EXCEPT !.switchAfter = 3],
          [Small EXCEPT !.escalateAfter = MaxEscalateAfter + 1],
          [Small EXCEPT !.activityTimeout = MaxActivityTimeout + 1],
          [Small EXCEPT !.payloadAdmitted = FALSE]}
=============================================================================
