----------------------------- MODULE MCApprovals -----------------------------
(* Small instances of Approvals for TLC: an author, two other people, one  *)
(* of them with the security role, and a second plan.                      *)
EXTENDS ApprovalsRefinement

CONSTANTS author, alice, sec, plan, otherPlan

MCIdentities == {author, alice, sec}
MCSecurityHolders == {sec}
MCHashes == {plan, otherPlan}

Signed(ok, h, id, g) == [form |-> "canonical", approved |-> ok, plan |-> h,
                         approver |-> id, genuine |-> g]

(* Approvals and refusals of everybody, a forged one of each kind, an      *)
(* approval of the other plan, and payloads nobody can read.               *)
MCSignals ==
    {Signed(ok, plan, id, TRUE) : ok \in BOOLEAN, id \in MCIdentities}
    \cup {Signed(TRUE, plan, sec, FALSE), Signed(FALSE, plan, alice, FALSE),
          Signed(TRUE, otherPlan, alice, TRUE), Unread("malformed"),
          Unread("undecodable")}

Ask(n, role, max) == [plan |-> plan, author |-> author, required |-> n,
                      needsRole |-> role, verify |-> TRUE, maxIgnored |-> max,
                      timeout |-> 1]

(* Valid requests with the default and the largest bound, one of them that *)
(* nobody can meet, and one request invalid in each field.                 *)
MCRequests ==
    {Ask(1, TRUE, 0), Ask(2, FALSE, 0), Ask(2, TRUE, MaxIgnoredLimit),
     Ask(3, FALSE, 0)}
    \cup {[Ask(1, FALSE, 0) EXCEPT !.plan = NoValue],
          [Ask(1, FALSE, 0) EXCEPT !.author = NoValue],
          [Ask(1, FALSE, 0) EXCEPT !.verify = FALSE],
          [Ask(1, FALSE, 0) EXCEPT !.timeout = 0],
          [Ask(1, FALSE, 0) EXCEPT !.timeout = MaxTimeout + 1],
          Ask(0, FALSE, 0), Ask(MaxRequired + 1, FALSE, 0),
          Ask(1, FALSE, -1), Ask(1, FALSE, MaxIgnoredLimit + 1)}
=============================================================================
