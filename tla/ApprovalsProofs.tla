--------------------------- MODULE ApprovalsProofs ---------------------------
(***************************************************************************)
(* The safety of the approval wait for every value of the constants: any   *)
(* number of people, of plans, of signals, of approvals to gather.         *)
(*                                                                         *)
(* Inductive is an inductive invariant of Approvals, of which Quorum,      *)
(* NothingRetained, RejectionAuthenticated and FloodBound are conjuncts.   *)
(* With it, the wait keeps its promise: each step of Approvals is a step   *)
(* of ApprovalDecision under the mapping of ApprovalsRefinement, or leaves *)
(* the ballot box alone.  TLC checks that the box is closed in the end.    *)
(***************************************************************************)
EXTENDS ApprovalsRefinement, FiniteSetTheorems, TLAPS

(* What Append does to a sequence, element by element.                     *)
LEMMA AppendFacts ==
    ASSUME NEW S, NEW s \in Seq(S), NEW e \in S
    PROVE  /\ Append(s, e) \in Seq(S)
           /\ Len(Append(s, e)) = Len(s) + 1
           /\ DOMAIN s = 1..Len(s)
           /\ DOMAIN Append(s, e) = 1..(Len(s) + 1)
           /\ \A i \in DOMAIN s : Append(s, e)[i] = s[i]
           /\ Append(s, e)[Len(s) + 1] = e
           /\ Len(s) \in Nat
  OBVIOUS

(* A request that the code admits asks for at least one approval, and      *)
(* leaves room for at least one signal to ignore.                          *)
LEMMA AdmittedRequest ==
    ASSUME NEW r \in Request, ValidRequest(r)
    PROVE  /\ WithDefaults(r) \in Request
           /\ ValidRequest(WithDefaults(r))
           /\ WithDefaults(r).maxIgnored >= 1
           /\ WithDefaults(r).required >= 1
  BY ConstantsAssumption DEF ValidRequest, WithDefaults, Request

(* A signal that passes the screen is canonical, on this plan, not of its  *)
(* author, and no second approval of the same person.                      *)
LEMMA ScreenedSignal ==
    ASSUME NEW a \in Signal, Screen(a) = "none"
    PROVE  /\ a \in Canonical
           /\ a.plan = req.plan
           /\ a.approver # req.author
           /\ a.approved => ~Kept(a.approver)
  <1>1. a.form = "canonical"
    BY DEF Screen
  <1>2. a \in Canonical
    <2>1. a # Unread("malformed") /\ a # Unread("undecodable")
      BY <1>1 DEF Unread
    <2> QED
      BY <2>1 DEF Signal
  <1>3. a.plan = req.plan /\ a.approver # req.author
    BY <1>1 DEF Screen
  <1>4. ~(a.approved /\ Kept(a.approver))
    BY <1>1, <1>3 DEF Screen
  <1> QED
    BY <1>2, <1>3, <1>4

(* The approvals kept and one more, valid and of somebody new, are again   *)
(* valid approvals of distinct people.                                     *)
LEMMA OneMoreBallot ==
    ASSUME TypeOK, Ballots, UnderVerification, phase = "verify",
           current.approved, reply.valid
    PROVE  LET kept == Append(approvals, current)
           IN  /\ kept \in Seq(Canonical)
               /\ Len(kept) = Len(approvals) + 1
               /\ \A i \in DOMAIN kept : Counts(kept[i])
               /\ Distinct(kept)
               /\ (security \/ reply.role) => HasRole(kept)
  <1> DEFINE kept == Append(approvals, current)
  <1>1. current \in Canonical /\ approvals \in Seq(Canonical)
    BY DEF TypeOK, UnderVerification
  <1>2. /\ kept \in Seq(Canonical)
        /\ Len(kept) = Len(approvals) + 1
        /\ DOMAIN approvals = 1..Len(approvals)
        /\ DOMAIN kept = 1..(Len(approvals) + 1)
        /\ \A i \in DOMAIN approvals : kept[i] = approvals[i]
        /\ kept[Len(approvals) + 1] = current
        /\ Len(approvals) \in Nat
    BY <1>1, AppendFacts
  <1>3. Counts(current)
    BY DEF UnderVerification, Counts
  <1>4. ASSUME NEW i \in DOMAIN kept
        PROVE  Counts(kept[i])
    <2>1. CASE i \in DOMAIN approvals
      BY <2>1, <1>2 DEF Ballots
    <2>2. CASE i = Len(approvals) + 1
      BY <2>2, <1>2, <1>3
    <2> QED
      BY <1>2, <2>1, <2>2
  <1>5. \A i \in DOMAIN approvals : approvals[i].approver # current.approver
    BY DEF UnderVerification, Kept
  <1>6. ASSUME NEW i \in DOMAIN kept, NEW j \in DOMAIN kept,
               kept[i].approver = kept[j].approver
        PROVE  i = j
    <2>1. CASE i \in DOMAIN approvals /\ j \in DOMAIN approvals
      BY <2>1, <1>2, <1>6 DEF Ballots, Distinct
    <2>2. CASE i \in DOMAIN approvals /\ j = Len(approvals) + 1
      BY <2>2, <1>2, <1>5, <1>6
    <2>3. CASE i = Len(approvals) + 1 /\ j \in DOMAIN approvals
      BY <2>3, <1>2, <1>5, <1>6
    <2> QED
      BY <1>2, <2>1, <2>2, <2>3
  <1>7. ASSUME security \/ reply.role
        PROVE  HasRole(kept)
    <2>1. CASE security
      BY <2>1, <1>2 DEF Ballots, Live, HasRole
    <2>2. CASE reply.role
      BY <2>2, <1>2 DEF UnderVerification, HasRole
    <2> QED
      BY <1>7, <2>1, <2>2
  <1> QED
    BY <1>2, <1>4, <1>6, <1>7 DEF Distinct

IgnoredSignal == [declared: Identities \cup {NoValue}, reason: Reasons]

(* The variables a step of the wait must leave well typed besides those    *)
(* that End and Ignore assign.                                             *)
OthersTyped ==
    /\ req' = req
    /\ inbox' \in Seq(Signal)
    /\ cancelled' = cancelled
    /\ current' = current \/ phase = "select"
    /\ current' \in Signal
    /\ reply' = reply
    /\ security' \in BOOLEAN

(* Every return of the wait re-establishes the invariant: an approval with *)
(* a quorum, a rejection with an authentic refusal, a flood with one       *)
(* signal too many, anything with nothing retained.                        *)
LEMMA EndKeepsInductive ==
    ASSUME Inductive, Live, OthersTyped,
           NEW o \in Outcomes, NEW kept \in Seq(Canonical),
           NEW ign \in Seq(IgnoredSignal),
           End(o, kept, ign),
           o = "approved" => /\ Len(kept) = req.required
                             /\ \A i \in DOMAIN kept : Counts(kept[i])
                             /\ Distinct(kept)
                             /\ req.needsRole => HasRole(kept),
           o = "rejected" => /\ ~current'.approved
                             /\ current'.genuine
                             /\ current'.plan = req.plan
                             /\ current'.approver # req.author,
           Len(ign) <= req.maxIgnored + 1,
           (Len(ign) = req.maxIgnored + 1) <=> (o = "signal_flood")
    PROVE  Inductive'
  <1> USE DEF OthersTyped
  <1>1. /\ phase' = "done"
        /\ deadline' \in {"unset", "armed", "fired", "stopped"}
        /\ outcome' = IF cancelled THEN "canceled" ELSE o
        /\ approvals' = IF ~cancelled /\ o = "approved" THEN kept ELSE <<>>
        /\ ignored' = IF cancelled THEN <<>> ELSE ign
    BY DEF End, StopTimer, Inductive, TypeOK
  <1>2. /\ req \in Request
        /\ ValidRequest(req)
        /\ req.maxIgnored \in Int
        /\ req.maxIgnored >= 1
        /\ cancelled \in BOOLEAN
        /\ Len(<<>>) = 0
        /\ DOMAIN <<>> = {}
        /\ Len(ign) \in Nat
    BY DEF Inductive, TypeOK, StillOpen, Live, Request
  <1>3. TypeOK'
    <2>1. approvals' \in Seq(Canonical) /\ ignored' \in Seq(IgnoredSignal)
      BY <1>1
    <2>2. outcome' \in {"none"} \cup Outcomes \cup Errors
      BY <1>1 DEF Errors
    <2> QED
      BY <1>1, <2>1, <2>2 DEF Inductive, TypeOK, IgnoredSignal
  <1>4. Untouched' /\ UnderVerification' /\ TimerStopped'
    BY <1>1 DEF Untouched, UnderVerification, TimerStopped, Inductive, End, StopTimer
  <1>5. StillOpen'
    <2>1. ~Live' /\ ValidRequest(req)'
      BY <1>1, <1>2 DEF Live, ValidRequest
    <2> QED
      BY <1>1, <1>2, <2>1 DEF StillOpen
  <1>6. /\ (\A i \in DOMAIN approvals : Counts(approvals[i]))'
        /\ Distinct(approvals)'
        /\ outcome' = "approved" =>
             /\ Len(approvals)' = req.required
             /\ req.needsRole => HasRole(approvals)'
    <2>1. CASE ~cancelled /\ o = "approved"
      BY <2>1, <1>1 DEF Counts
    <2>2. CASE ~(~cancelled /\ o = "approved")
      BY <2>2, <1>1, <1>2 DEF Distinct, Outcomes
    <2> QED
      BY <2>1, <2>2
  <1>7. Ballots' /\ Quorum'
    BY <1>1, <1>6 DEF Ballots, Live, Quorum
  <1>8. NothingRetained'
    BY <1>1 DEF NothingRetained, Errors, Outcomes
  <1>9. RejectionAuthenticated'
    BY <1>1 DEF RejectionAuthenticated
  <1>10. FloodBound'
    <2>1. CASE cancelled
      BY <2>1, <1>1, <1>2 DEF FloodBound
    <2>2. CASE ~cancelled
      BY <2>2, <1>1, <1>2 DEF FloodBound
    <2> QED
      BY <1>2, <2>1, <2>2
  <1> QED
    BY <1>3, <1>4, <1>5, <1>7, <1>8, <1>9, <1>10 DEF Inductive

(* A signal ignored leaves the wait open with one more signal ignored, or  *)
(* ends it on a flood.                                                     *)
LEMMA IgnoreKeepsInductive ==
    ASSUME Inductive, Live, OthersTyped, security' = security,
           NEW a \in Signal, NEW reason \in Reasons,
           Ignore(a, reason)
    PROVE  Inductive'
  <1> DEFINE entry == [declared |-> a.approver, reason |-> reason]
  <1> DEFINE ign == Append(ignored, entry)
  <1>1. a.approver \in Identities \cup {NoValue}
    BY DEF Signal, Canonical, Unread
  <1>2. entry \in IgnoredSignal /\ ignored \in Seq(IgnoredSignal)
    BY <1>1 DEF IgnoredSignal, Inductive, TypeOK
  <1>3. ign \in Seq(IgnoredSignal) /\ Len(ign) = Len(ignored) + 1 /\ Len(ignored) \in Nat
    BY <1>2, AppendFacts
  <1>4. /\ req.maxIgnored \in Int
        /\ Len(ignored) <= req.maxIgnored
        /\ approvals \in Seq(Canonical)
    BY DEF Inductive, TypeOK, StillOpen, Live, Request
  <1> HIDE DEF ign, entry
  <1>5. CASE Len(ign) > req.maxIgnored
    <2>1. End("signal_flood", approvals, ign)
      BY <1>5 DEF Ignore, ign, entry
    <2>2. Len(ign) = req.maxIgnored + 1
      BY <1>3, <1>4, <1>5
    <2> QED
      BY <2>1, <2>2, <1>3, <1>4, EndKeepsInductive DEF Outcomes
  <1>6. CASE ~(Len(ign) > req.maxIgnored)
    <2>1. /\ phase' = "select"
          /\ ignored' = ign
          /\ UNCHANGED <<deadline, approvals, outcome>>
      BY <1>6 DEF Ignore, ign, entry
    <2>2. Len(ign) <= req.maxIgnored
      BY <1>3, <1>4, <1>6
    <2>3. TypeOK'
      BY <2>1, <1>3 DEF Inductive, TypeOK, OthersTyped, IgnoredSignal
    <2>4. Untouched' /\ UnderVerification' /\ TimerStopped'
      BY <2>1 DEF Untouched, UnderVerification, TimerStopped, Inductive, OthersTyped
    <2>5. StillOpen'
      BY <2>1, <2>2 DEF Inductive, StillOpen, Live, ValidRequest, WithDefaults, OthersTyped
    <2>6. outcome' = "none"
      BY <2>1 DEF Inductive, StillOpen, Live
    <2>7. Ballots'
      BY <2>1 DEF Inductive, Ballots, Live, Counts, Distinct, HasRole, OthersTyped
    <2>8. Quorum' /\ NothingRetained' /\ RejectionAuthenticated'
      BY <2>1, <2>6 DEF Quorum, NothingRetained, RejectionAuthenticated
    <2>9. FloodBound'
      BY <2>1, <2>2, <2>6, <1>3, <1>4 DEF FloodBound, OthersTyped
    <2> QED
      BY <2>3, <2>4, <2>5, <2>7, <2>8, <2>9 DEF Inductive
  <1> QED
    BY <1>5, <1>6

-----------------------------------------------------------------------------
(* The steps *)

(* The next signal is well typed, and so is what remains in the channel.   *)
LEMMA NextSignal ==
    ASSUME TypeOK, inbox # <<>>
    PROVE  Head(inbox) \in Signal /\ Tail(inbox) \in Seq(Signal)
  BY DEF TypeOK

(* A step that leaves alone what the wait has decided so far, and changes  *)
(* no signal under verification, keeps the invariant.                      *)
LEMMA QuietStep ==
    ASSUME Inductive, TypeOK', TimerStopped',
           UNCHANGED <<req, phase, current, security, approvals, ignored, outcome>>,
           phase = "verify" => \/ reply' = reply
                               \/ /\ reply'.valid => current.genuine
                                  /\ reply'.role => current.approver \in SecurityHolders,
           deadline' = "unset" <=> deadline = "unset"
    PROVE  Inductive'
  <1>1. Untouched' /\ UnderVerification'
    BY DEF Inductive, Untouched, UnderVerification, Kept
  <1>2. StillOpen'
    BY DEF Inductive, StillOpen, Live, ValidRequest, WithDefaults
  <1>3. Ballots' /\ Quorum'
    BY DEF Inductive, Ballots, Quorum, Live, Counts, Distinct, HasRole
  <1>4. NothingRetained' /\ RejectionAuthenticated' /\ FloodBound'
    BY DEF Inductive, NothingRetained, RejectionAuthenticated, FloodBound
  <1> QED
    BY <1>1, <1>2, <1>3, <1>4 DEF Inductive

LEMMA InitInductive == Init => Inductive
  <1> SUFFICES ASSUME Init PROVE Inductive
    OBVIOUS
  <1> USE DEF Init
  <1>1. TypeOK
    <2>1. req \in Request
      BY DEF NoRequest, Request
    <2>2. current \in Signal
      BY DEF Signal
    <2>3. reply \in [status: {"none", "pending", "error", "checked"},
                     valid: BOOLEAN, role: BOOLEAN]
      BY DEF NoReply
    <2>4. /\ inbox \in Seq(Signal)
          /\ approvals \in Seq(Canonical)
          /\ ignored \in Seq([declared: Identities \cup {NoValue}, reason: Reasons])
      OBVIOUS
    <2> QED
      BY <2>1, <2>2, <2>3, <2>4 DEF TypeOK
  <1>2. Ballots
    BY DEF Ballots, Distinct, Live
  <1> QED
    BY <1>1, <1>2 DEF Inductive, Untouched, TimerStopped, StillOpen, Live, UnderVerification,
         Quorum, NothingRetained, RejectionAuthenticated, FloodBound, Errors

LEMMA BeginStep ==
    ASSUME Inductive, NEW r \in Requests, Begin(r)
    PROVE  Inductive'
  <1>1. r \in Request
    BY ConstantsAssumption
  <1>2. /\ phase = "idle"
        /\ UNCHANGED <<inbox, cancelled, current, reply, security, approvals, ignored>>
        /\ approvals = <<>> /\ ignored = <<>> /\ ~security /\ outcome = "none"
    BY DEF Begin, Inductive, Untouched, StillOpen
  <1>3. CASE ValidRequest(r) /\ ValidTimeout(r.timeout)
    <2>1. /\ req' = WithDefaults(r)
          /\ phase' = "select"
          /\ deadline' \in {"stopped", "armed"}
          /\ outcome' = "none"
      BY <1>2, <1>3 DEF Begin
    <2>2. /\ req' \in Request
          /\ ValidRequest(req')
          /\ req'.maxIgnored \in Int /\ req'.maxIgnored >= 1
          /\ req'.required \in Int /\ req'.required >= 1
      BY <1>1, <1>3, <2>1, AdmittedRequest DEF Request
    <2>3. TypeOK'
      BY <1>2, <2>1, <2>2 DEF Inductive, TypeOK
    <2>4. StillOpen'
      BY <1>2, <2>1, <2>2 DEF StillOpen, Live, ValidRequest, WithDefaults
    <2>5. Ballots'
      BY <1>2 DEF Ballots, Distinct, Live
    <2>6. FloodBound'
      BY <1>2, <2>1, <2>2 DEF FloodBound
    <2> QED
      BY <1>2, <2>1, <2>3, <2>4, <2>5, <2>6
      DEF Begin, Inductive, Untouched, TimerStopped, UnderVerification, Quorum,
          NothingRetained, RejectionAuthenticated
  <1>4. CASE ~(ValidRequest(r) /\ ValidTimeout(r.timeout))
    <2>1. /\ phase' = "done"
          /\ outcome' = "invalid_request"
          /\ UNCHANGED <<req, deadline>>
      BY <1>4 DEF Begin
    <2>2. TypeOK'
      BY <1>2, <2>1 DEF Inductive, TypeOK, Errors
    <2>3. Ballots'
      BY <1>2, <2>1 DEF Ballots, Distinct, Live
    <2> QED
      BY <1>2, <2>1, <2>2, <2>3
      DEF Inductive, Untouched, TimerStopped, StillOpen, Live, UnderVerification,
          Quorum, NothingRetained, RejectionAuthenticated, FloodBound
  <1> QED
    BY <1>3, <1>4

(* A deadline or a late verification ends an open wait with what it has.   *)
LEMMA TimeoutStep ==
    ASSUME Inductive, Live, OthersTyped, End("timed_out", approvals, ignored)
    PROVE  Inductive'
  <1>1. /\ approvals \in Seq(Canonical)
        /\ ignored \in Seq(IgnoredSignal)
        /\ Len(ignored) \in Nat
        /\ req.maxIgnored \in Int
        /\ Len(ignored) <= req.maxIgnored
    BY DEF Inductive, TypeOK, IgnoredSignal, StillOpen, Live, Request
  <1> QED
    BY <1>1, EndKeepsInductive DEF Outcomes

LEMMA ExpireStep == Inductive /\ Expire => Inductive'
  BY TimeoutStep DEF Expire, Live, OthersTyped, Inductive, TypeOK

LEMMA DropStep == Inductive /\ Drop => Inductive'
  <1> SUFFICES ASSUME Inductive, Drop PROVE Inductive'
    OBVIOUS
  <1>1. TypeOK'
    BY NextSignal DEF Drop, Receiving, waitVars, Inductive, TypeOK
  <1>2. TimerStopped'
    BY DEF Drop, Receiving, waitVars, Inductive, TimerStopped
  <1> QED
    BY <1>1, <1>2, QuietStep DEF Drop, Receiving, waitVars

LEMMA ScreenOutStep == Inductive /\ ScreenOut => Inductive'
  <1> SUFFICES ASSUME Inductive, ScreenOut PROVE Inductive'
    OBVIOUS
  <1>1. Head(inbox) \in Signal /\ inbox' \in Seq(Signal)
    BY NextSignal DEF ScreenOut, Receiving, Inductive
  <1>2. Live /\ OthersTyped /\ security' = security
    BY <1>1 DEF ScreenOut, Receiving, Live, OthersTyped, Inductive, TypeOK
  <1>3. Screen(Head(inbox)) \in Reasons
    <2>1. ScreenOut => Screen(Head(inbox)) # "none"
      BY DEF ScreenOut
    <2> QED
      BY <2>1, Zenon DEF Screen, Reasons
  <1>4. Ignore(Head(inbox), Screen(Head(inbox)))
    BY DEF ScreenOut
  <1> QED
    BY <1>1, <1>2, <1>3, <1>4, IgnoreKeepsInductive

LEMMA StartVerificationStep == Inductive /\ StartVerification => Inductive'
  <1> SUFFICES ASSUME Inductive, StartVerification PROVE Inductive'
    OBVIOUS
  <1>1. /\ phase = "select"
        /\ phase' = "verify"
        /\ current' = Head(inbox)
        /\ reply' = Pending
        /\ inbox' = Tail(inbox)
        /\ UNCHANGED <<req, cancelled, security, deadline, approvals, ignored, outcome>>
    BY DEF StartVerification, Receiving
  <1>2. Head(inbox) \in Signal /\ Tail(inbox) \in Seq(Signal)
    BY NextSignal DEF StartVerification, Receiving, Inductive
  <1>3. TypeOK'
    <2>1. reply' \in [status: {"none", "pending", "error", "checked"},
                      valid: BOOLEAN, role: BOOLEAN]
      BY <1>1 DEF Pending, NoReply
    <2> QED
      BY <1>1, <1>2, <2>1 DEF Inductive, TypeOK
  <1>4. UnderVerification'
    <2>1. /\ current' \in Canonical
          /\ current'.plan = req.plan
          /\ current'.approver # req.author
          /\ current'.approved => ~Kept(current'.approver)
      BY <1>1, <1>2, ScreenedSignal DEF StartVerification
    <2>2. ~reply'.valid /\ ~reply'.role
      BY <1>1 DEF Pending, NoReply
    <2> QED
      BY <1>1, <2>1, <2>2 DEF UnderVerification, Kept
  <1>5. Untouched' /\ TimerStopped' /\ NothingRetained'
    BY <1>1 DEF Inductive, Untouched, TimerStopped, NothingRetained
  <1>6. StillOpen'
    BY <1>1 DEF Inductive, StillOpen, Live, ValidRequest, WithDefaults
  <1>7. Ballots'
    BY <1>1 DEF Inductive, Ballots, Live, Counts, Distinct, HasRole
  <1>8. outcome' = "none"
    BY <1>1 DEF Inductive, StillOpen
  <1>9. Quorum' /\ RejectionAuthenticated'
    BY <1>8 DEF Quorum, RejectionAuthenticated
  <1>10. FloodBound'
    BY <1>1 DEF Inductive, FloodBound
  <1> QED
    BY <1>3, <1>4, <1>5, <1>6, <1>7, <1>9, <1>10 DEF Inductive

(* What a verification that ends in time leaves to the five cases below.   *)
LEMMA ResumedTyped ==
    ASSUME Inductive, Resuming, security' \in BOOLEAN
    PROVE  Live /\ OthersTyped
  BY DEF Inductive, TypeOK, Resuming, Live, OthersTyped

LEMMA LateVerificationStep == Inductive /\ LateVerification => Inductive'
  <1> SUFFICES ASSUME Inductive, LateVerification PROVE Inductive'
    OBVIOUS
  <1>1. Live /\ OthersTyped
    BY ResumedTyped DEF LateVerification, Inductive, TypeOK
  <1> QED
    BY <1>1, TimeoutStep DEF LateVerification

LEMMA VerificationRefusedStep == Inductive /\ VerificationRefused => Inductive'
  <1> SUFFICES ASSUME Inductive, VerificationRefused PROVE Inductive'
    OBVIOUS
  <1>1. Live /\ OthersTyped /\ security' = security
    BY ResumedTyped DEF VerificationRefused, Inductive, TypeOK
  <1>2. PICK reason \in Reasons : Ignore(current, reason)
    BY DEF VerificationRefused, Reasons
  <1>3. current \in Signal
    BY DEF Inductive, TypeOK
  <1> QED
    BY <1>1, <1>2, <1>3, IgnoreKeepsInductive

LEMMA ReserveLastSeatStep == Inductive /\ ReserveLastSeat => Inductive'
  <1> SUFFICES ASSUME Inductive, ReserveLastSeat PROVE Inductive'
    OBVIOUS
  <1>1. Live /\ OthersTyped /\ security' = security
    BY ResumedTyped DEF ReserveLastSeat, Inductive, TypeOK
  <1>2. Ignore(current, "needs_security_role")
    BY DEF ReserveLastSeat
  <1>3. current \in Signal
    BY DEF Inductive, TypeOK
  <1> QED
    BY <1>1, <1>2, <1>3, IgnoreKeepsInductive DEF Reasons

LEMMA RejectStep == Inductive /\ Reject => Inductive'
  <1> SUFFICES ASSUME Inductive, Reject PROVE Inductive'
    OBVIOUS
  <1>1. Live /\ OthersTyped
    BY ResumedTyped DEF Reject, Inductive, TypeOK
  <1>2. /\ phase = "verify"
        /\ current' = current
        /\ reply.valid
        /\ ~current.approved
        /\ End("rejected", approvals, ignored)
    BY DEF Reject, Resuming, Refused
  <1>3. current.genuine /\ current.plan = req.plan /\ current.approver # req.author
    BY <1>2 DEF Inductive, UnderVerification
  <1>4. /\ approvals \in Seq(Canonical)
        /\ ignored \in Seq(IgnoredSignal)
        /\ Len(ignored) \in Nat
        /\ req.maxIgnored \in Int
        /\ Len(ignored) <= req.maxIgnored
    BY <1>1 DEF Inductive, TypeOK, IgnoredSignal, StillOpen, Request
  <1> QED
    BY <1>1, <1>2, <1>3, <1>4, EndKeepsInductive DEF Outcomes

(* The last approval gives the quorum: the last seat is refused to anybody *)
(* without the security role as long as nobody kept has it.                *)
LEMMA KeepStep == Inductive /\ Keep => Inductive'
  <1> SUFFICES ASSUME Inductive, Keep PROVE Inductive'
    OBVIOUS
  <1> DEFINE kept == Append(approvals, current)
  <1>1. /\ phase = "verify"
        /\ ~LastSeatReserved
        /\ current.approved
        /\ reply.valid
        /\ security' = (security \/ reply.role)
        /\ UNCHANGED <<req, inbox, cancelled, current, reply>>
        /\ IF Len(kept) = req.required
           THEN End("approved", kept, ignored)
           ELSE /\ phase' = "select"
                /\ approvals' = kept
                /\ UNCHANGED <<deadline, ignored, outcome>>
    BY DEF Keep, Resuming, Refused
  <1>2. /\ kept \in Seq(Canonical)
        /\ Len(kept) = Len(approvals) + 1
        /\ \A i \in DOMAIN kept : Counts(kept[i])
        /\ Distinct(kept)
        /\ (security \/ reply.role) => HasRole(kept)
    BY <1>1, OneMoreBallot DEF Inductive
  <1> HIDE DEF kept
  <1>3. /\ ignored \in Seq(IgnoredSignal)
        /\ Len(ignored) \in Nat
        /\ Len(approvals) \in Nat
        /\ req.maxIgnored \in Int
        /\ req.required \in Int
        /\ Len(ignored) <= req.maxIgnored
        /\ Len(approvals) < req.required
        /\ deadline # "unset"
        /\ outcome = "none"
    BY <1>1 DEF Inductive, TypeOK, IgnoredSignal, StillOpen, Live, Request
  <1>4. security' \in BOOLEAN
    BY <1>1 DEF Inductive, TypeOK
  <1>5. Live /\ OthersTyped
    BY <1>4, ResumedTyped DEF Keep
  <1>6. CASE Len(kept) = req.required
    <2>1. req.needsRole => HasRole(kept)
      BY <1>1, <1>2, <1>3, <1>6 DEF LastSeatReserved
    <2> QED
      BY <1>1, <1>2, <1>3, <1>5, <1>6, <2>1, EndKeepsInductive DEF Outcomes
  <1>7. CASE Len(kept) # req.required
    <2>1. /\ phase' = "select"
          /\ approvals' = kept
          /\ UNCHANGED <<deadline, ignored, outcome>>
      BY <1>1, <1>7
    <2>2. TypeOK'
      BY <1>1, <1>2, <1>4, <2>1 DEF Inductive, TypeOK
    <2>3. Len(kept) < req.required
      BY <1>2, <1>3, <1>7
    <2>4. StillOpen'
      BY <1>1, <1>3, <2>1, <2>3 DEF Inductive, StillOpen, Live, ValidRequest, WithDefaults
    <2>5. Ballots'
      BY <1>1, <1>2, <2>1 DEF Ballots, Counts, Distinct, HasRole
    <2>6. Untouched' /\ TimerStopped' /\ UnderVerification' /\ NothingRetained'
      BY <1>1, <2>1
      DEF Inductive, Untouched, TimerStopped, UnderVerification, NothingRetained
    <2>7. Quorum' /\ RejectionAuthenticated'
      BY <1>3, <2>1 DEF Quorum, RejectionAuthenticated
    <2>8. FloodBound'
      BY <1>1, <1>3, <2>1 DEF FloodBound
    <2> QED
      BY <2>2, <2>4, <2>5, <2>6, <2>7, <2>8 DEF Inductive
  <1> QED
    BY <1>6, <1>7

LEMMA ArriveStep == ASSUME NEW s \in Signals PROVE Inductive /\ Arrive(s) => Inductive'
  <1> SUFFICES ASSUME Inductive, Arrive(s) PROVE Inductive'
    OBVIOUS
  <1>1. s \in Signal
    BY ConstantsAssumption
  <1>2. Append(inbox, s) \in Seq(Signal)
    BY <1>1, AppendFacts DEF Inductive, TypeOK
  <1>3. TypeOK'
    BY <1>2 DEF Arrive, waitVars, Inductive, TypeOK
  <1>4. TimerStopped'
    BY DEF Arrive, waitVars, Inductive, TimerStopped
  <1> QED
    BY <1>3, <1>4, QuietStep DEF Arrive, waitVars

LEMMA FireStep == Inductive /\ Fire => Inductive'
  <1> SUFFICES ASSUME Inductive, Fire PROVE Inductive'
    OBVIOUS
  <1>1. TypeOK'
    BY DEF Fire, Inductive, TypeOK
  <1>2. TimerStopped'
    BY DEF Fire, Inductive, TimerStopped
  <1> QED
    BY <1>1, <1>2, QuietStep DEF Fire

LEMMA CancelStep == Inductive /\ Cancel => Inductive'
  <1> SUFFICES ASSUME Inductive, Cancel PROVE Inductive'
    OBVIOUS
  <1>1. TypeOK'
    BY DEF Cancel, StopTimer, Inductive, TypeOK
  <1>2. TimerStopped'
    BY DEF Cancel, StopTimer, Inductive, TimerStopped
  <1> QED
    BY <1>1, <1>2, QuietStep DEF Cancel, StopTimer

LEMMA VerifierRepliesStep == Inductive /\ VerifierReplies => Inductive'
  <1> SUFFICES ASSUME Inductive, VerifierReplies PROVE Inductive'
    OBVIOUS
  <1>1. /\ reply' \in [status: {"none", "pending", "error", "checked"},
                       valid: BOOLEAN, role: BOOLEAN]
        /\ reply'.valid => current.genuine
        /\ reply'.role => current.approver \in SecurityHolders
    <2>1. CASE reply' = [NoReply EXCEPT !.status = "error"]
      BY <2>1 DEF NoReply
    <2>2. CASE \E valid, role \in BOOLEAN :
                 /\ valid => current.genuine
                 /\ role => current.approver \in SecurityHolders
                 /\ reply' = [status |-> "checked", valid |-> valid, role |-> role]
      BY <2>2
    <2> QED
      BY <2>1, <2>2 DEF VerifierReplies
  <1>2. TypeOK'
    BY <1>1 DEF VerifierReplies, waitVars, Inductive, TypeOK
  <1>3. TimerStopped'
    BY DEF VerifierReplies, waitVars, Inductive, TimerStopped
  <1> QED
    BY <1>1, <1>2, <1>3, QuietStep DEF VerifierReplies, waitVars

LEMMA StutterStep == Inductive /\ UNCHANGED vars => Inductive'
  <1> SUFFICES ASSUME Inductive, UNCHANGED vars PROVE Inductive'
    OBVIOUS
  <1>1. TypeOK'
    BY DEF vars, Inductive, TypeOK
  <1>2. TimerStopped'
    BY DEF vars, Inductive, TimerStopped
  <1> QED
    BY <1>1, <1>2, QuietStep DEF vars

-----------------------------------------------------------------------------
(* The theorems *)

LEMMA WorkflowStep == Inductive /\ Workflow => Inductive'
  BY ExpireStep, DropStep, ScreenOutStep, StartVerificationStep,
     LateVerificationStep, VerificationRefusedStep, RejectStep,
     ReserveLastSeatStep, KeepStep
  DEF Workflow

LEMMA NextStep == Inductive /\ [Next]_vars => Inductive'
  BY WorkflowStep, BeginStep, ArriveStep, FireStep, CancelStep,
     VerifierRepliesStep, StutterStep
  DEF Next

(* The invariant holds of every behaviour of AwaitApprovals.               *)
THEOREM InductiveInvariant == Spec => []Inductive
  BY InitInductive, NextStep, PTL DEF Spec

(* Every variable of the wait keeps its type.                              *)
THEOREM TypeInvariant == Spec => []TypeOK
  BY InductiveInvariant, PTL DEF Inductive

(* An approved plan has exactly the required number of verified approvals, *)
(* of distinct people who are not the author, with the security role among *)
(* them when it is asked for.                                              *)
THEOREM ApprovedWithQuorum == Spec => []Quorum
  BY InductiveInvariant, PTL DEF Inductive

(* A wait that did not approve retains no approval.                        *)
THEOREM NothingRetainedUnlessApproved == Spec => []NothingRetained
  BY InductiveInvariant, PTL DEF Inductive

(* Only a genuine refusal of this plan rejects it.                         *)
THEOREM OnlyGenuineRefusals == Spec => []RejectionAuthenticated
  BY InductiveInvariant, PTL DEF Inductive

(* The record of ignored signals exceeds its bound, by one, only when the  *)
(* wait ends on a flood.                                                   *)
THEOREM FloodIsBounded == Spec => []FloodBound
  BY InductiveInvariant, PTL DEF Inductive

(* A timeout keeps no approval.                                            *)
LEMMA EndLate ==
    ASSUME Inductive, End("timed_out", approvals, ignored)
    PROVE  /\ Len(approvals') <= Len(approvals)
           /\ outcome' # outcome => outcome' \in {"timed_out", "canceled"}
  <1>1. Len(approvals) \in Nat /\ Len(<<>>) = 0
    BY DEF Inductive, TypeOK
  <1> QED
    BY <1>1 DEF End

(* Once the deadline passed or the workflow is cancelled, no step keeps an *)
(* approval, nor ends the wait on anything but the timeout or the          *)
(* cancellation.                                                           *)
THEOREM LateNeverCounts == Spec => NothingCountsLate
  <1>1. ASSUME Inductive, Next, Late, deadline # "unset"
        PROVE  /\ Len(approvals') <= Len(approvals)
               /\ outcome' # outcome => outcome' \in {"timed_out", "canceled"}
    <2> USE DEF Late
    <2>1. Len(approvals) \in Nat
      BY <1>1 DEF Inductive, TypeOK
    <2>2. ASSUME NEW r \in Requests, Begin(r) PROVE FALSE
      BY <1>1, <2>2 DEF Begin, Inductive, Untouched
    <2>3. ~Receiving
      BY <1>1 DEF Receiving, Late, DeadlineReady, Inductive, TimerStopped, TypeOK
    <2>4. CASE Expire \/ LateVerification
      BY <1>1, <2>4, EndLate DEF Expire, LateVerification
    <2>5. CASE Fire \/ Cancel \/ VerifierReplies \/ \E s \in Signals : Arrive(s)
      BY <2>1, <2>5 DEF Arrive, Fire, Cancel, VerifierReplies, waitVars
    <2>6. ~VerificationRefused /\ ~Reject /\ ~ReserveLastSeat /\ ~Keep
      BY <1>1 DEF VerificationRefused, Reject, ReserveLastSeat, Keep
    <2>7. ~Drop /\ ~ScreenOut /\ ~StartVerification
      BY <2>3 DEF Drop, ScreenOut, StartVerification
    <2> QED
      BY <1>1, <2>2, <2>4, <2>5, <2>6, <2>7 DEF Next, Workflow
  <1>2. ASSUME Inductive, UNCHANGED vars
        PROVE  UNCHANGED <<approvals, outcome>> /\ Len(approvals) \in Nat
    BY <1>2 DEF vars, Inductive, TypeOK
  <1>3. Inductive /\ [Next]_vars =>
          [(cancelled \/ DeadlineReady) /\ deadline # "unset" =>
             /\ Len(approvals') <= Len(approvals)
             /\ outcome' # outcome => outcome' \in {"timed_out", "canceled"}]_vars
    BY <1>1, <1>2 DEF Late
  <1> QED
    BY <1>3, InductiveInvariant, PTL DEF Spec, NothingCountsLate

(* A cancelled wait returns an error, never an outcome.                    *)
THEOREM CancelledHasNoOutcome == Spec => CancellationIsNoOutcome
  <1>1. ASSUME Next, cancelled, phase # "done", phase' = "done"
        PROVE  outcome' \in Errors
    <2>1. ASSUME NEW r \in Requests, Begin(r)
          PROVE  outcome' \in Errors
      BY <1>1, <2>1 DEF Begin, Errors
    <2>2. ASSUME NEW o, NEW kept, NEW ign, End(o, kept, ign)
          PROVE  outcome' \in Errors
      BY <1>1, <2>2 DEF End, Errors
    <2>3. ASSUME NEW a, NEW reason, Ignore(a, reason)
          PROVE  outcome' \in Errors
      BY <1>1, <2>2, <2>3 DEF Ignore
    <2>4. CASE Workflow
      <3>1. CASE Expire
        BY <2>2, <3>1 DEF Expire
      <3>2. CASE Drop \/ StartVerification
        BY <1>1, <3>2 DEF Drop, StartVerification, waitVars
      <3>3. CASE ScreenOut
        BY <2>3, <3>3 DEF ScreenOut
      <3>4. CASE LateVerification
        BY <2>2, <3>4 DEF LateVerification
      <3>5. CASE VerificationRefused \/ Reject \/ ReserveLastSeat \/ Keep
        BY <1>1, <3>5 DEF VerificationRefused, Reject, ReserveLastSeat, Keep, Late
      <3> QED
        BY <2>4, <3>1, <3>2, <3>3, <3>4, <3>5 DEF Workflow
    <2>5. CASE Fire \/ Cancel \/ VerifierReplies \/ \E s \in Signals : Arrive(s)
      BY <1>1, <2>5 DEF Arrive, Fire, Cancel, VerifierReplies, waitVars
    <2> QED
      BY <1>1, <2>1, <2>4, <2>5 DEF Next
  <1>2. [Next]_vars =>
          [cancelled /\ phase # "done" /\ phase' = "done" => outcome' \in Errors]_vars
    BY <1>1
  <1> QED
    BY <1>2, PTL DEF Spec, CancellationIsNoOutcome

-----------------------------------------------------------------------------
(* The refinement *)

Voters(kept) == {kept[i].approver : i \in DOMAIN kept}

(* The instance has a Cardinality of its own.                              *)
LEMMA SameCardinality == \A S : Decision!Cardinality(S) = Cardinality(S)
  BY DEF Decision!Cardinality, Cardinality

(* The ballots of distinct people are as many as the people.               *)
LEMMA VotersCounted ==
    ASSUME NEW kept \in Seq(Canonical), Distinct(kept)
    PROVE  Cardinality(Voters(kept)) = Len(kept)
  <1> DEFINE f == [i \in 1..Len(kept) |-> kept[i].approver]
  <1>1. Len(kept) \in Nat /\ DOMAIN kept = 1..Len(kept)
    OBVIOUS
  <1>2. f \in [1..Len(kept) -> Voters(kept)]
    BY <1>1 DEF Voters
  <1>3. \A i, j \in 1..Len(kept) : f[i] = f[j] => i = j
    BY <1>1 DEF Distinct
  <1>4. \A v \in Voters(kept) : \E i \in 1..Len(kept) : f[i] = v
    BY <1>1 DEF Voters
  <1> HIDE DEF f
  <1>5. f \in Bijection(1..Len(kept), Voters(kept))
    BY <1>2, <1>3, <1>4, Zenon DEF Bijection, Injection, IsInjective, Surjection
  <1> QED
    BY <1>1, <1>5, FS_CountingElements DEF ExistsBijection

-----------------------------------------------------------------------------
(* The verdict that the mapping reads, by phase.                           *)
LEMMA VerdictByPhase ==
    /\ phase = "idle" => Verdict = "closed"
    /\ phase \in {"select", "verify"} => Verdict = "open"
    /\ phase = "done" => Verdict = outcome
  BY DEF Verdict

(* The same, after a step.                                                 *)
LEMMA VerdictByPhaseNext ==
    /\ phase' = "idle" => Verdict' = "closed"
    /\ phase' \in {"select", "verify"} => Verdict' = "open"
    /\ phase' = "done" => Verdict' = outcome'
  BY DEF Verdict

(* A step that keeps the request, the approvals and the outcome, and does  *)
(* not return, is none of the ballot box.                                  *)
LEMMA Unseen ==
    ASSUME UNCHANGED <<req, approvals, outcome>>,
           phase' = phase \/ (Live /\ phase' \in {"select", "verify"})
    PROVE  UNCHANGED Decision!decisionVars
  BY DEF Decision!decisionVars, Verdict, Live

(* A return that is no approval closes the box.                            *)
LEMMA Closing ==
    ASSUME Inductive, Live, req' = req, NEW o \in Outcomes \ {"approved"},
           NEW kept, NEW ign, End(o, kept, ign)
    PROVE  Decision!Close
  <1>1. /\ phase' = "done" /\ approvals' = <<>>
        /\ outcome' \in {"rejected", "timed_out", "signal_flood", "canceled"}
    BY DEF End, Outcomes
  <1>2. Verdict = "open" /\ Verdict' = outcome'
    BY <1>1, VerdictByPhase, VerdictByPhaseNext DEF Live
  <1>3. {approvals'[i].approver : i \in DOMAIN approvals'} = {}
    BY <1>1
  <1> QED
    BY <1>1, <1>2, <1>3 DEF Decision!Close

(* One more signal ignored closes the box on a flood, or is not seen.      *)
LEMMA Ignoring ==
    ASSUME Inductive, Live, req' = req, NEW a, NEW reason, Ignore(a, reason)
    PROVE  Decision!Close \/ UNCHANGED Decision!decisionVars
  <1> DEFINE ign == Append(ignored, [declared |-> a.approver, reason |-> reason])
  <1>1. CASE Len(ign) > req.maxIgnored
    <2>1. End("signal_flood", approvals, ign)
      BY <1>1 DEF Ignore
    <2> QED
      BY <2>1, Closing DEF Outcomes
  <1>2. CASE ~(Len(ign) > req.maxIgnored)
    BY <1>2, Unseen DEF Ignore
  <1> QED
    BY <1>1, <1>2

(* An approval that is kept is a vote, the last one if the quorum is met.  *)
LEMMA Voting ==
    ASSUME Inductive, Inductive', Keep
    PROVE  Decision!Vote(current.approver)
  <1> DEFINE kept == Append(approvals, current)
             id == current.approver
  <1>1. /\ phase = "verify" /\ ~Late /\ current.approved /\ reply.valid /\ req' = req
        /\ IF Len(kept) = req.required
           THEN End("approved", kept, ignored)
           ELSE phase' = "select" /\ approvals' = kept /\ UNCHANGED outcome
    BY DEF Keep, Resuming, Refused
  <1>2. approvals' = kept
    BY <1>1 DEF End, Late
  <1>3. /\ approvals \in Seq(Canonical) /\ approvals' \in Seq(Canonical)
        /\ Distinct(approvals) /\ Distinct(approvals)'
        /\ req.required \in Int /\ Len(approvals) < req.required
        /\ current \in Canonical
    BY <1>1 DEF Inductive, TypeOK, Ballots, StillOpen, Live, Request, UnderVerification
  <1>4. Cardinality(Voters(approvals)) = Len(approvals) /\ Len(approvals) \in Nat
    BY <1>3, VotersCounted
  <1>5. Voters(approvals') = Voters(approvals) \cup {id}
    <2>1. /\ DOMAIN approvals = 1..Len(approvals)
          /\ DOMAIN kept = 1..(Len(approvals) + 1)
          /\ \A i \in DOMAIN approvals : kept[i] = approvals[i]
          /\ kept[Len(approvals) + 1] = current
          /\ Len(approvals) \in Nat
      BY <1>3, AppendFacts
    <2> QED
      BY <1>2, <2>1 DEF Voters
  <1>6. id \in Identities \ (Voters(approvals) \cup {req.author})
    BY <1>1, <1>3 DEF Inductive, UnderVerification, Kept, Voters, Canonical
  <1>7. Verdict = "open"
    BY <1>1, VerdictByPhase
  <1>8. /\ {approvals[i].approver : i \in DOMAIN approvals} = Voters(approvals)
        /\ {approvals'[i].approver : i \in DOMAIN approvals'} = Voters(approvals')
        /\ Decision!Cardinality(Voters(approvals)) = Len(approvals)
    BY <1>4, SameCardinality DEF Voters
  <1>9. CASE Len(kept) = req.required
    <2>1. phase' = "done" /\ outcome' = "approved"
      BY <1>1, <1>9 DEF End, Late
    <2>2. Verdict' = "approved"
      BY <2>1, VerdictByPhaseNext
    <2>3. req.needsRole => Voters(approvals') \cap SecurityHolders # {}
      BY <1>1, <2>1 DEF Inductive, Quorum, HasRole, Voters
    <2>4. Len(approvals) + 1 = req.required
      BY <1>3, <1>9
    <2>5. ~(Decision!Cardinality(Voters(approvals)) + 1 < req.required)
      BY <1>3, <1>4, <1>8, <2>4
    <2> QED
      BY <1>1, <1>5, <1>6, <1>7, <1>8, <2>2, <2>3, <2>4, <2>5
      DEF Decision!Vote, Decision!MayVote
  <1>10. CASE Len(kept) # req.required
    <2>1. phase' = "select"
      BY <1>1, <1>10
    <2>2. Verdict' = "open"
      BY <2>1, VerdictByPhaseNext
    <2>3. Len(approvals) + 1 < req.required
      BY <1>3, <1>10
    <2> QED
      <3>1. ~(Len(approvals) + 1 = req.required)
        BY <1>4, <2>3, <1>3
      <3> QED
        BY <1>1, <1>3, <1>4, <1>5, <1>6, <1>7, <1>8, <2>2, <2>3
        DEF Decision!Vote, Decision!MayVote
  <1> QED
    BY <1>9, <1>10

-----------------------------------------------------------------------------
(* The refinement *)

LEMMA InitRefines == Init => Decision!Init
  BY DEF Init, Decision!Init, Verdict, NoRequest

LEMMA NextRefines ==
    ASSUME Inductive, Inductive', [Next]_vars
    PROVE  [Decision!Next]_Decision!decisionVars
  <1>1. ASSUME NEW r \in Requests, Begin(r)
        PROVE  Decision!Open \/ Decision!Refuse
    <2>1. /\ Verdict = "closed" /\ approvals' = approvals /\ phase = "idle"
      BY <1>1, VerdictByPhase DEF Begin
    <2>2. CASE ValidRequest(r) /\ ValidTimeout(r.timeout)
      <3>1. req' = WithDefaults(r) /\ phase' = "select" /\ ValidRequest(r)
        BY <1>1, <2>2 DEF Begin
      <3>2. /\ req'.author \in Identities /\ req'.required \in 1..MaxRequired
            /\ req'.needsRole \in BOOLEAN
        <4>1. r \in Request
          BY ConstantsAssumption
        <4> QED
          BY <3>1, <4>1, AdmittedRequest DEF ValidRequest, Request
      <3>3. Verdict' = "open"
        BY <3>1, VerdictByPhaseNext
      <3> QED
        BY <2>1, <3>2, <3>3 DEF Decision!Open
    <2>3. CASE ~(ValidRequest(r) /\ ValidTimeout(r.timeout))
      <3>1. phase' = "done" /\ outcome' = "invalid_request" /\ req' = req
        BY <1>1, <2>3 DEF Begin
      <3>2. Verdict' = "invalid_request"
        BY <3>1, VerdictByPhaseNext
      <3> QED
        BY <2>1, <3>1, <3>2 DEF Decision!Refuse
    <2> QED
      BY <2>2, <2>3
  <1>2. CASE Expire \/ LateVerification \/ Reject
    <2>1. /\ Live /\ req' = req
          /\ \E o \in Outcomes \ {"approved"} : End(o, approvals, ignored)
      BY <1>2 DEF Expire, LateVerification, Reject, Resuming, Live, Outcomes
    <2>2. Decision!Close
      BY <2>1, Closing
    <2> QED
      BY <2>2 DEF Decision!Next
  <1>3. CASE ScreenOut \/ VerificationRefused \/ ReserveLastSeat
    <2>1. Live /\ req' = req /\ \E a, reason : Ignore(a, reason)
      BY <1>3
      DEF ScreenOut, VerificationRefused, ReserveLastSeat, Receiving, Resuming, Live
    <2>2. Decision!Close \/ UNCHANGED Decision!decisionVars
      BY <2>1, Ignoring
    <2> QED
      BY <2>2 DEF Decision!Next
  <1>4. CASE Keep
    <2>1. current.approver \in Identities
      BY <1>4 DEF Keep, Resuming, Inductive, UnderVerification, Canonical
    <2>2. Decision!Vote(current.approver)
      BY <1>4, Voting
    <2>3. \E id \in Identities : Decision!Vote(id)
      BY <2>1, <2>2, Zenon DEF Decision!Vote
    <2> QED
      BY <2>3 DEF Decision!Next
  <1>5. CASE Drop \/ StartVerification
    BY <1>5, Unseen DEF Drop, StartVerification, Receiving, Live, waitVars
  <1>6. CASE (\E s \in Signals : Arrive(s)) \/ Fire \/ Cancel \/ VerifierReplies
    BY <1>6, Unseen DEF Arrive, Fire, Cancel, VerifierReplies, waitVars
  <1>7. CASE UNCHANGED vars
    BY <1>7, Unseen DEF vars
  <1> QED
    BY <1>1, <1>2, <1>3, <1>4, <1>5, <1>6, <1>7 DEF Next, Workflow, Decision!Next

(* AwaitApprovals decides at most once, on votes of distinct people other  *)
(* than the author, which it never loses or counts twice.                  *)
THEOREM WaitImplementsDecision ==
    Spec => Decision!Init /\ [][Decision!Next]_Decision!decisionVars
  BY InitInductive, NextStep, InitRefines, NextRefines, PTL DEF Spec
=============================================================================
