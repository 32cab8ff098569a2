------------------------- MODULE ApprovalsRefinement -------------------------
(***************************************************************************)
(* AwaitApprovals keeps its promise: Approvals implements ApprovalDecision *)
(* under the mapping below.  The signals screened, ignored or being        *)
(* verified are steps of the wait that the ballot box does not see.        *)
(***************************************************************************)
EXTENDS Approvals

Verdict ==
    CASE phase = "idle"               -> "closed"
      [] phase \in {"select", "verify"} -> "open"
      [] phase = "done"               -> outcome

Decision == INSTANCE ApprovalDecision WITH
    author    <- req.author,
    required  <- req.required,
    needsRole <- req.needsRole,
    ballots   <- {approvals[i].approver : i \in DOMAIN approvals},
    verdict   <- Verdict

(* Every step of the wait is a step of the ballot box or leaves it alone,  *)
(* and a box once open is closed: AwaitApprovals decides at most once, on  *)
(* votes it never loses or counts twice, and always ends.                  *)
ImplementsDecision == Decision!Spec
=============================================================================
