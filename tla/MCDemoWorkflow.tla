---------------------------- MODULE MCDemoWorkflow ----------------------------
(* A small instance of DemoWorkflow for TLC: two candidates, each with its *)
(* plan hash, and an author who also signs.                                *)
EXTENDS DemoWorkflow, TLC

CONSTANTS c1, c2, h1, h2, ann, bob

MCPlanHashOf == (c1 :> h1) @@ (c2 :> h2)

hot == <<[code |-> "DEMO-MISMATCH", resource |-> "candidate",
          severity |-> "high", rest |-> 0]>>

MCReports == {hot}

Answer(c) == [state |-> "answered", candidate |-> c, tokens |-> 1,
              details |-> "none", retryable |-> FALSE]

MCProposals ==
    {Answer(c) : c \in Candidates}
    \cup {[Answer(NoCandidate) EXCEPT !.state = "failed", !.details = "declared",
                                      !.retryable = TRUE]}

(* The verifier of the demonstration: accepted, or one high finding.       *)
MCVerifications ==
    {[state |-> "answered", ok |-> TRUE, findings |-> <<>>, inBounds |-> TRUE],
     [state |-> "answered", ok |-> FALSE, findings |-> hot, inBounds |-> TRUE],
     [state |-> "failed", ok |-> FALSE, findings |-> <<>>, inBounds |-> TRUE]}

Signed(ok, h, id, g) == [form |-> "canonical", approved |-> ok, plan |-> h,
                         approver |-> id, genuine |-> g]

MCSignals ==
    {Signed(TRUE, h, id, TRUE) : h \in Hashes, id \in Identities}
    \cup {Signed(TRUE, h1, bob, FALSE), Signed(FALSE, h1, bob, TRUE)}
=============================================================================
