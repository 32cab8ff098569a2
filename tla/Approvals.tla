------------------------------ MODULE Approvals ------------------------------
(***************************************************************************)
(* AwaitApprovals (internal/loops/approvals.go): the wait of a Temporal    *)
(* workflow for the approvals of one plan.                                 *)
(*                                                                         *)
(* Signals are buffered by the channel "approval" from the start of the    *)
(* workflow.  The wait reads them one by one, screens each without an      *)
(* activity, then has its signature checked by the verification activity.  *)
(* It runs against a durable deadline and against the cancellation of the  *)
(* workflow, both of which may arrive at any point, a verification in      *)
(* progress included.  A worker that crashes replays the history: the      *)
(* state below is the one the history determines, and a crash shows only   *)
(* as a verification that fails.                                           *)
(***************************************************************************)
EXTENDS Integers, Sequences

CONSTANTS
    Identities,         \* canonical identities (validIdentity)
    SecurityHolders,    \* those who have the security role
    Hashes,             \* well-formed plan hashes (validPlanHash)
    NoValue,            \* the empty string: no hash, no identity, no activity
    Signals,            \* what the clients of the workflow may send
    Requests,           \* what the calling workflow may ask
    MaxRequired,        \* MaxRequiredApprovals
    DefaultMaxIgnored,
    MaxIgnoredLimit,
    MaxTimeout,         \* MaxApprovalTimeout, in units that tell 0 from it
    InboxBound          \* bound of the model: signals buffered at once

(* A signal is not authenticated.  "genuine" says that its signature is    *)
(* one of its declared approver, allowed to decide, on its content: only   *)
(* the verification activity can tell.  "malformed" is any payload that    *)
(* decodeApproval refuses, "undecodable" one that the data converter of    *)
(* the SDK drops before the workflow sees it.                              *)
Canonical == [form: {"canonical"}, approved: BOOLEAN, plan: Hashes,
              approver: Identities, genuine: BOOLEAN]

Unread(form) == [form |-> form, approved |-> FALSE, plan |-> NoValue,
                 approver |-> NoValue, genuine |-> FALSE]

Signal == Canonical \cup {Unread("malformed"), Unread("undecodable")}

Request == [plan: Hashes \cup {NoValue}, author: Identities \cup {NoValue},
            required: Int, needsRole: BOOLEAN, verify: BOOLEAN,
            maxIgnored: Int, timeout: Int]

NoRequest == [plan |-> NoValue, author |-> NoValue, required |-> 0,
              needsRole |-> FALSE, verify |-> FALSE, maxIgnored |-> 0,
              timeout |-> 0]

ASSUME ConstantsAssumption ==
    /\ NoValue \notin Identities \cup Hashes
    /\ SecurityHolders \subseteq Identities
    /\ Signals \subseteq Signal
    /\ Requests \subseteq Request
    /\ MaxRequired \in Nat \ {0}
    /\ MaxIgnoredLimit \in Nat
    /\ DefaultMaxIgnored \in 1..MaxIgnoredLimit
    /\ MaxTimeout \in Nat
    /\ InboxBound \in Nat

Reasons == {"malformed", "wrong_hash", "self_approval", "duplicate",
            "verify_error", "invalid_signature", "needs_security_role"}

Outcomes == {"approved", "rejected", "timed_out", "signal_flood"}

(* The wait returns an outcome, or one of two errors.                      *)
Errors == {"invalid_request", "canceled"}

-----------------------------------------------------------------------------
VARIABLES
    req,        \* the request, once its defaults are applied
    phase,      \* where the workflow blocks: its caller, Select, Get, returned
    inbox,      \* the buffered signal channel
    deadline,   \* the timer of the wait
    cancelled,  \* the context of the workflow is cancelled
    current,    \* the signal under verification, the last one verified after
    reply,      \* the result of its verification activity
    security,   \* one approval kept has the security role
    approvals,  \* res.Approvals
    ignored,    \* res.Ignored
    outcome     \* res.Outcome, or the error

waitVars == <<phase, deadline, approvals, ignored, outcome>>
vars == <<req, phase, inbox, deadline, cancelled, current, reply, security,
          approvals, ignored, outcome>>

NoReply == [status |-> "none", valid |-> FALSE, role |-> FALSE]
Pending == [NoReply EXCEPT !.status = "pending"]

TypeOK ==
    /\ req \in Request
    /\ phase \in {"idle", "select", "verify", "done"}
    /\ inbox \in Seq(Signal)
    /\ deadline \in {"unset", "armed", "fired", "stopped"}
    /\ cancelled \in BOOLEAN
    /\ current \in Signal
    /\ reply \in [status: {"none", "pending", "error", "checked"},
                  valid: BOOLEAN, role: BOOLEAN]
    /\ security \in BOOLEAN
    /\ approvals \in Seq(Canonical)
    /\ ignored \in Seq([declared: Identities \cup {NoValue}, reason: Reasons])
    /\ outcome \in {"none"} \cup Outcomes \cup Errors

Init ==
    /\ req = NoRequest
    /\ phase = "idle"
    /\ inbox = <<>>
    /\ deadline = "unset"
    /\ cancelled = FALSE
    /\ current = Unread("undecodable")
    /\ reply = NoReply
    /\ security = FALSE
    /\ approvals = <<>>
    /\ ignored = <<>>
    /\ outcome = "none"

-----------------------------------------------------------------------------
(* The request *)

WithDefaults(r) ==
    IF r.maxIgnored = 0 THEN [r EXCEPT !.maxIgnored = DefaultMaxIgnored] ELSE r

ValidRequest(r) ==
    /\ r.plan \in Hashes
    /\ r.author \in Identities
    /\ r.required \in 1..MaxRequired
    /\ r.verify
    /\ WithDefaults(r).maxIgnored \in 1..MaxIgnoredLimit

ValidTimeout(t) == 0 < t /\ t <= MaxTimeout

(* AwaitApprovals is called.  The timer is started on a child of the       *)
(* context: if the context is cancelled, so is the timer.                  *)
Begin(r) ==
    /\ phase = "idle"
    /\ IF ValidRequest(r) /\ ValidTimeout(r.timeout)
       THEN /\ req' = WithDefaults(r)
            /\ phase' = "select"
            /\ deadline' = IF cancelled THEN "stopped" ELSE "armed"
            /\ UNCHANGED outcome
       ELSE /\ phase' = "done"
            /\ outcome' = "invalid_request"
            /\ UNCHANGED <<req, deadline>>
    /\ UNCHANGED <<inbox, cancelled, current, reply, security, approvals, ignored>>

-----------------------------------------------------------------------------
(* The loop of the wait *)

DeadlineReady == deadline \in {"fired", "stopped"}

(* The timer is stopped by the return and by a cancellation alike.         *)
StopTimer == deadline' = IF deadline = "armed" THEN "stopped" ELSE deadline

(* Slip: a wait that times out returns what it gathered so far.            *)
EndKeepingAll(o, kept, ign) ==
    /\ phase' = "done"
    /\ StopTimer
    /\ outcome' = IF cancelled THEN "canceled" ELSE o
    /\ approvals' = kept
    /\ ignored' = ign

(* The closure end: a cancellation is never an outcome, and nothing is     *)
(* retained unless approved.                                               *)
End(o, kept, ign) ==
    /\ phase' = "done"
    /\ StopTimer
    /\ outcome' = IF cancelled THEN "canceled" ELSE o
    /\ approvals' = IF ~cancelled /\ o = "approved" THEN kept ELSE <<>>
    /\ ignored' = IF cancelled THEN <<>> ELSE ign

(* Slip: the bound is reached, not exceeded.                               *)
IgnoreOneLess(a, reason) ==
    LET ign == Append(ignored, [declared |-> a.approver, reason |-> reason])
    IN  IF Len(ign) >= req.maxIgnored
        THEN End("signal_flood", approvals, ign)
        ELSE /\ phase' = "select"
             /\ ignored' = ign
             /\ UNCHANGED <<deadline, approvals, outcome>>

Ignore(a, reason) ==
    LET ign == Append(ignored, [declared |-> a.approver, reason |-> reason])
    IN  IF Len(ign) > req.maxIgnored
        THEN End("signal_flood", approvals, ign)
        ELSE /\ phase' = "select"
             /\ ignored' = ign
             /\ UNCHANGED <<deadline, approvals, outcome>>

Kept(id) == \E i \in DOMAIN approvals : approvals[i].approver = id

(* Slip: nobody looks for a second approval of the same person.            *)
ScreenWithoutDuplicate(a) ==
    CASE a.form # "canonical"               -> "malformed"
      [] a.form = "canonical" /\ a.plan # req.plan
                                            -> "wrong_hash"
      [] a.form = "canonical" /\ a.plan = req.plan /\ a.approver = req.author
                                            -> "self_approval"
      [] OTHER                              -> "none"

(* The checks that need no activity, in order; "none" lets it through.    *)
Screen(a) ==
    CASE a.form # "canonical"               -> "malformed"
      [] a.form = "canonical" /\ a.plan # req.plan
                                            -> "wrong_hash"
      [] a.form = "canonical" /\ a.plan = req.plan /\ a.approver = req.author
                                            -> "self_approval"
      [] a.form = "canonical" /\ a.plan = req.plan /\ a.approver # req.author
         /\ a.approved /\ Kept(a.approver)  -> "duplicate"
      [] OTHER                              -> "none"

(* The deadline is looked at first: signals that came before it but were   *)
(* not read yet are lost.                                                  *)
Expire ==
    /\ phase = "select"
    /\ DeadlineReady
    /\ End("timed_out", approvals, ignored)
    /\ UNCHANGED <<req, inbox, cancelled, current, reply, security>>

Receiving ==
    /\ phase = "select"
    /\ ~DeadlineReady
    /\ inbox # <<>>
    /\ inbox' = Tail(inbox)
    /\ UNCHANGED <<req, cancelled, security>>

(* The SDK drops an undecodable signal; the loop goes round.               *)
Drop ==
    /\ Receiving
    /\ Head(inbox).form = "undecodable"
    /\ UNCHANGED <<waitVars, current, reply>>

ScreenOut ==
    /\ Receiving
    /\ Head(inbox).form # "undecodable"
    /\ Screen(Head(inbox)) # "none"
    /\ Ignore(Head(inbox), Screen(Head(inbox)))
    /\ UNCHANGED <<current, reply>>

(* ExecuteActivity(VerifyActivity): one attempt, the workflow blocks.      *)
StartVerification ==
    /\ Receiving
    /\ Head(inbox).form # "undecodable"
    /\ Screen(Head(inbox)) = "none"
    /\ phase' = "verify"
    /\ current' = Head(inbox)
    /\ reply' = Pending
    /\ UNCHANGED <<deadline, approvals, ignored, outcome>>

(* Get returns: the activity ended, or the cancellation of the context     *)
(* ended it for the workflow.                                              *)
Resuming ==
    /\ phase = "verify"
    /\ reply.status # "pending" \/ cancelled
    /\ UNCHANGED <<req, inbox, cancelled, current, reply>>

(* Slip: a verification begun before the deadline counts after it.         *)
LateIfCancelled == cancelled

Late == cancelled \/ DeadlineReady

LateVerification ==
    /\ Resuming
    /\ Late
    /\ End("timed_out", approvals, ignored)
    /\ UNCHANGED security

(* Slip: the seat is reserved once it is taken.                            *)
LastSeatTaken ==
    /\ req.needsRole
    /\ ~security
    /\ ~reply.role
    /\ Len(approvals) = req.required

(* The last seat is kept for the security role when nobody has it yet.     *)
LastSeatReserved ==
    /\ req.needsRole
    /\ ~security
    /\ ~reply.role
    /\ Len(approvals) = req.required - 1

(* Slip: the answer of the verification activity is not looked at.         *)
RefusedOnError == reply.status = "error"

Refused == reply.status = "error" \/ ~reply.valid

VerificationRefused ==
    /\ Resuming
    /\ ~Late
    /\ Refused
    /\ Ignore(current, IF reply.status = "error" THEN "verify_error"
                                                 ELSE "invalid_signature")
    /\ UNCHANGED security

Reject ==
    /\ Resuming
    /\ ~Late
    /\ ~Refused
    /\ ~current.approved
    /\ End("rejected", approvals, ignored)
    /\ UNCHANGED security

ReserveLastSeat ==
    /\ Resuming
    /\ ~Late
    /\ ~Refused
    /\ current.approved
    /\ LastSeatReserved
    /\ Ignore(current, "needs_security_role")
    /\ UNCHANGED security

Keep ==
    /\ Resuming
    /\ ~Late
    /\ ~Refused
    /\ current.approved
    /\ ~LastSeatReserved
    /\ security' = (security \/ reply.role)
    /\ LET kept == Append(approvals, current)
       IN  IF Len(kept) = req.required
           THEN End("approved", kept, ignored)
           ELSE /\ phase' = "select"
                /\ approvals' = kept
                /\ UNCHANGED <<deadline, ignored, outcome>>

Workflow ==
    \/ Expire
    \/ Drop
    \/ ScreenOut
    \/ StartVerification
    \/ LateVerification
    \/ VerificationRefused
    \/ Reject
    \/ ReserveLastSeat
    \/ Keep

-----------------------------------------------------------------------------
(* The environment *)

(* Anybody may signal the workflow, at any time, any number of times: a    *)
(* signal sent before the wait stays buffered.  One that arrives after the *)
(* wait is never read.                                                     *)
Arrive(s) ==
    /\ phase # "done"
    /\ Len(inbox) < InboxBound
    /\ inbox' = Append(inbox, s)
    /\ UNCHANGED <<req, waitVars, cancelled, current, reply, security>>

Fire ==
    /\ deadline = "armed"
    /\ deadline' = "fired"
    /\ UNCHANGED <<req, phase, inbox, cancelled, current, reply, security,
                   approvals, ignored, outcome>>

Cancel ==
    /\ ~cancelled
    /\ cancelled' = TRUE
    /\ StopTimer
    /\ UNCHANGED <<req, phase, inbox, current, reply, security, approvals,
                   ignored, outcome>>

(* The verification activity ends: it fails (an error, a timeout, the loss *)
(* of its worker), or it answers.  It never calls a forged signature       *)
(* valid, nor gives the security role to someone without it; it may refuse *)
(* either for reasons of its own.                                          *)
VerifierReplies ==
    /\ phase = "verify"
    /\ reply.status = "pending"
    /\ \/ reply' = [NoReply EXCEPT !.status = "error"]
       \/ \E valid, role \in BOOLEAN :
            /\ valid => current.genuine
            /\ role => current.approver \in SecurityHolders
            /\ reply' = [status |-> "checked", valid |-> valid, role |-> role]
    /\ UNCHANGED <<req, waitVars, inbox, cancelled, current, security>>

Next ==
    \/ \E r \in Requests : Begin(r)
    \/ Workflow
    \/ \E s \in Signals : Arrive(s)
    \/ Fire
    \/ Cancel
    \/ VerifierReplies

Spec == Init /\ [][Next]_vars

(* A worker polls the task queue, the server fires the timers, and the     *)
(* ScheduleToCloseTimeout of the verification ends it.  Nobody has to      *)
(* signal, to cancel or to call.                                           *)
FairSpec == Spec /\ WF_vars(Workflow) /\ WF_vars(Fire) /\ WF_vars(VerifierReplies)

-----------------------------------------------------------------------------
(* Properties *)

(* What makes a signal count: it approves this plan, with the signature of *)
(* someone who is not the author.                                          *)
Counts(a) ==
    /\ a.approved
    /\ a.plan = req.plan
    /\ a.approver # req.author
    /\ a.genuine

Distinct(kept) ==
    \A i, j \in DOMAIN kept : kept[i].approver = kept[j].approver => i = j

HasRole(kept) == \E i \in DOMAIN kept : kept[i].approver \in SecurityHolders

(* An approved plan has exactly the required number of approvals, of       *)
(* distinct people, none of them the author, each verified on this plan,   *)
(* and one with the security role if the request asks for it, whatever the *)
(* order of the signals, their copies and the forged ones among them.      *)
Quorum ==
    outcome = "approved" =>
        /\ Len(approvals) = req.required
        /\ \A i \in DOMAIN approvals : Counts(approvals[i])
        /\ Distinct(approvals)
        /\ req.needsRole => HasRole(approvals)

(* A wait that did not approve retains no approval, and an error retains   *)
(* nothing at all (the closure end).                                       *)
NothingRetained ==
    phase = "done" =>
        /\ outcome # "approved" => approvals = <<>>
        /\ outcome \in Errors => ignored = <<>>

(* A refusal ends the wait only if it is genuine, on this plan, and not of *)
(* the author: nobody can reject in the name of someone else.              *)
RejectionAuthenticated ==
    outcome = "rejected" =>
        /\ ~current.approved
        /\ current.genuine
        /\ current.plan = req.plan
        /\ current.approver # req.author

(* The record of ignored signals is bounded by MaxIgnored, and the bound   *)
(* is exceeded, by one, exactly when the wait ends on a flood.             *)
FloodBound ==
    phase \in {"select", "verify", "done"} /\ outcome # "invalid_request" =>
        /\ Len(ignored) <= req.maxIgnored + 1
        /\ (Len(ignored) = req.maxIgnored + 1) <=> (outcome = "signal_flood")

(* Nothing counts once the deadline passed or the workflow is cancelled:   *)
(* no step then keeps an approval, nor ends the wait on anything but a     *)
(* timeout or the cancellation, even if the verification began in time.    *)
NothingCountsLate ==
    [][(cancelled \/ DeadlineReady) /\ deadline # "unset" =>
         /\ Len(approvals') <= Len(approvals)
         /\ outcome' # outcome => outcome' \in {"timed_out", "canceled"}
      ]_vars

(* A cancelled wait returns the cancellation, never an outcome.            *)
CancellationIsNoOutcome ==
    [][cancelled /\ phase # "done" /\ phase' = "done" =>
          outcome' \in Errors]_vars

(* Once begun, the wait ends, even if signals never stop coming.           *)
WaitEnds == phase \in {"select", "verify"} ~> phase = "done"
-----------------------------------------------------------------------------
(* The inductive invariant: what the loop keeps true between two steps, of *)
(* which the properties above are consequences.                            *)

Live == phase \in {"select", "verify"}

(* Nothing happened before the call.                                       *)
Untouched ==
    phase = "idle" =>
        /\ approvals = <<>> /\ ignored = <<>> /\ ~security
        /\ deadline = "unset"

(* An open wait has no outcome yet, still lacks an approval, and has room  *)
(* for one more signal to ignore.                                          *)
StillOpen ==
    /\ phase # "done" => outcome = "none"
    /\ phase # "idle" /\ outcome # "invalid_request" =>
         ValidRequest(req) /\ req.maxIgnored >= 1
    /\ Live => /\ Len(approvals) < req.required
               /\ Len(ignored) <= req.maxIgnored
               /\ deadline # "unset"

Ballots ==
    /\ \A i \in DOMAIN approvals : Counts(approvals[i])
    /\ Distinct(approvals)
    /\ Live /\ security => HasRole(approvals)

(* What the verification in progress may add to the approvals kept.        *)
UnderVerification ==
    phase = "verify" =>
        /\ current \in Canonical
        /\ current.plan = req.plan
        /\ current.approver # req.author
        /\ current.approved => ~Kept(current.approver)
        /\ reply.valid => current.genuine
        /\ reply.role => current.approver \in SecurityHolders

(* The timer is started on a child of the context, and stopped with it.    *)
TimerStopped == cancelled => deadline # "armed"

Inductive ==
    /\ TypeOK
    /\ Untouched
    /\ TimerStopped
    /\ StillOpen
    /\ Ballots
    /\ UnderVerification
    /\ Quorum
    /\ NothingRetained
    /\ RejectionAuthenticated
    /\ FloodBound
=============================================================================
