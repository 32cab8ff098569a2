--------------------------- MODULE ApprovalDecision ---------------------------
(***************************************************************************)
(* What a wait for approvals promises (the comments of AwaitApprovals and  *)
(* of ApprovalResult, internal/loops/approvals.go), without signals,       *)
(* signatures, activities or timers: a ballot box that is opened once, in  *)
(* which distinct people other than the author vote one after the other,   *)
(* and that is closed once, approved with exactly the votes required or    *)
(* emptied.                                                                *)
(***************************************************************************)
EXTENDS Integers, FiniteSets

CONSTANTS Identities, SecurityHolders, NoValue, MaxRequired

VARIABLES author, required, needsRole, ballots, verdict

decisionVars == <<author, required, needsRole, ballots, verdict>>

Verdicts == {"closed", "open", "approved", "rejected", "timed_out",
             "signal_flood", "invalid_request", "canceled"}

Init ==
    /\ author = NoValue
    /\ required = 0
    /\ needsRole = FALSE
    /\ ballots = {}
    /\ verdict = "closed"

Open ==
    /\ verdict = "closed"
    /\ verdict' = "open"
    /\ author' \in Identities
    /\ required' \in 1..MaxRequired
    /\ needsRole' \in BOOLEAN
    /\ UNCHANGED ballots

Refuse ==
    /\ verdict = "closed"
    /\ verdict' = "invalid_request"
    /\ UNCHANGED <<author, required, needsRole, ballots>>

MayVote(id) == id \in Identities \ (ballots \cup {author})

Vote(id) ==
    /\ verdict = "open"
    /\ MayVote(id)
    /\ ballots' = ballots \cup {id}
    /\ IF Cardinality(ballots) + 1 < required
       THEN UNCHANGED verdict
       ELSE /\ Cardinality(ballots) + 1 = required
            /\ needsRole => ballots' \cap SecurityHolders # {}
            /\ verdict' = "approved"
    /\ UNCHANGED <<author, required, needsRole>>

Close ==
    /\ verdict = "open"
    /\ verdict' \in {"rejected", "timed_out", "signal_flood", "canceled"}
    /\ ballots' = {}
    /\ UNCHANGED <<author, required, needsRole>>

Next == Open \/ Refuse \/ (\E id \in Identities : Vote(id)) \/ Close

(* An open box is closed in the end.                                       *)
Spec == Init /\ [][Next]_decisionVars /\ WF_decisionVars(Close)
=============================================================================
