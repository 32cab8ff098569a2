----------------------------- MODULE RunDuration -----------------------------
(***************************************************************************)
(* How long one demonstration workflow may last: the clock of RunLoop      *)
(* (internal/loops/runloop.go, spec.go), of the wait for its approval      *)
(* (approvals.go) and of the commit (demo/workflow.go).  What the          *)
(* activities return is any of the things RunLoop tells apart; what counts *)
(* here is when each attempt is scheduled, starts and ends.                *)
(*                                                                         *)
(* StartToCloseTimeout bounds an attempt from its start.  Only the         *)
(* verification of a signature has a ScheduleToCloseTimeout, which counts  *)
(* the time in the task queue too; any other attempt may stay there for    *)
(* QueueDelay, which no option of the code bounds.                         *)
(***************************************************************************)
EXTENDS Integers

CONSTANTS
    MaxIterations,
    MaxWallTime,
    ActivityTimeout,        \* of RunLoop's activities
    ApprovalTimeout,
    VerifyApprovalTimeout,
    CommitTimeout,
    ExecutionMargin,
    QueueDelay              \* longest time from schedule to start

MaxActivityAttempts == 3

ASSUME DurationAssumption ==
    /\ MaxIterations \in Nat \ {0}
    /\ MaxWallTime \in Nat \ {0}
    /\ ActivityTimeout \in Nat \ {0}
    /\ ApprovalTimeout \in Nat \ {0}
    /\ VerifyApprovalTimeout \in Nat
    /\ CommitTimeout \in Nat
    /\ ExecutionMargin \in Nat
    /\ QueueDelay \in Nat

(* Slip: an InitialInterval of 2 s.                                        *)
BackoffTwice(n) == IF n = 1 THEN 2 ELSE 4

(* RetryPolicy: InitialInterval 1 s, BackoffCoefficient 2.                 *)
Backoff(n) == IF n = 1 THEN 1 ELSE 2

MaxRunDuration == MaxWallTime + MaxActivityAttempts * ActivityTimeout + 3

(* Slip: the verification that ends after the deadline is forgotten.       *)
ExecutionTimeoutShort ==
    MaxRunDuration + ApprovalTimeout + CommitTimeout + ExecutionMargin

ExecutionTimeout ==
    MaxRunDuration + ApprovalTimeout + VerifyApprovalTimeout + CommitTimeout
      + ExecutionMargin

VARIABLES
    now,        \* since the start of the workflow, which starts RunLoop
    place,      \* where the workflow is
    task,       \* the activity in progress: none, queued, running, backoff
    since,      \* when the activity came to be so
    asked,      \* when its first attempt was scheduled
    attempt,
    it,
    loopEnd,    \* when RunLoop returned, -1 before
    waitStart   \* when the approval timer started, -1 before

vars == <<now, place, task, since, asked, attempt, it, loopEnd, waitStart>>

Init ==
    /\ now = 0
    /\ place = "top"
    /\ task = "none"
    /\ since = 0 /\ asked = 0 /\ attempt = 1
    /\ it = 1
    /\ loopEnd = -1 /\ waitStart = -1

InLoop == place \in {"top", "propose", "verify"}

TimeUp == now >= MaxWallTime

Expired == waitStart # -1 /\ now >= waitStart + ApprovalTimeout

-----------------------------------------------------------------------------
(* Activities *)

Schedule(where) ==
    /\ place' = where
    /\ task' = "queued"
    /\ since' = now
    /\ asked' = now
    /\ attempt' = 1

Idle(where) ==
    /\ place' = where
    /\ task' = "none"
    /\ UNCHANGED <<since, asked, attempt>>

StartAttempt ==
    /\ task = "queued"
    /\ task' = "running"
    /\ since' = now
    /\ UNCHANGED <<now, place, asked, attempt, it, loopEnd, waitStart>>

(* Temporal retries the verifier only: any other activity has one attempt. *)
RetryLater ==
    /\ place = "verify"
    /\ task = "running"
    /\ attempt < MaxActivityAttempts
    /\ task' = "backoff"
    /\ since' = now
    /\ UNCHANGED <<now, place, asked, attempt, it, loopEnd, waitStart>>

RetryNow ==
    /\ task = "backoff"
    /\ now = since + Backoff(attempt)
    /\ task' = "queued"
    /\ attempt' = attempt + 1
    /\ since' = now
    /\ UNCHANGED <<now, place, asked, it, loopEnd, waitStart>>

-----------------------------------------------------------------------------
(* The workflow *)

(* Any escalation, error or cancellation ends the demonstration.           *)
Leave ==
    /\ Idle("done")
    /\ loopEnd' = IF InLoop THEN now ELSE loopEnd
    /\ UNCHANGED <<now, it, waitStart>>

Stop ==
    /\ place = "top"
    /\ it > MaxIterations \/ TimeUp
    /\ Leave

Propose ==
    /\ place = "top"
    /\ it <= MaxIterations
    /\ ~TimeUp
    /\ Schedule("propose")
    /\ UNCHANGED <<now, it, loopEnd, waitStart>>

NextIteration ==
    /\ Idle("top")
    /\ it' = it + 1
    /\ UNCHANGED <<now, loopEnd, waitStart>>

(* The call failed, to be tried again or not, or it answered.              *)
ProposeEnds ==
    /\ place = "propose"
    /\ task = "running"
    /\ \/ NextIteration
       \/ Leave
       \/ /\ ~TimeUp
          /\ Schedule("verify")
          /\ UNCHANGED <<now, it, loopEnd, waitStart>>

(* The candidate is refused, the run stops, or it converges and the wait   *)
(* for approvals starts its timer in the same step.                        *)
VerifyEnds ==
    /\ place = "verify"
    /\ task = "running"
    /\ \/ NextIteration
       \/ Leave
       \/ /\ Idle("wait")
          /\ loopEnd' = now
          /\ waitStart' = now
          /\ UNCHANGED <<now, it>>

(* A signal passed the screen: its signature is verified.                  *)
CheckSignature ==
    /\ place = "wait"
    /\ ~Expired
    /\ Schedule("signature")
    /\ UNCHANGED <<now, it, loopEnd, waitStart>>

(* It ends by ScheduleToCloseTimeout at the latest, in the queue included; *)
(* late, it ends the wait, else the wait goes on, is over, or is approved. *)
SignatureChecked ==
    /\ place = "signature"
    /\ task = "running" \/ now >= asked + VerifyApprovalTimeout
    /\ \/ Leave
       \/ /\ ~Expired
          /\ Idle("wait")
          /\ UNCHANGED <<now, it, loopEnd, waitStart>>
       \/ /\ ~Expired
          /\ Schedule("commit")
          /\ UNCHANGED <<now, it, loopEnd, waitStart>>

GiveUp ==
    /\ place = "wait"
    /\ Leave

CommitEnds ==
    /\ place = "commit"
    /\ task = "running"
    /\ Leave

(* Time passes only while something may last: the workflow itself answers  *)
(* an event at once.                                                       *)
Lasts ==
    \/ task = "queued" /\ now < since + QueueDelay
    \/ task = "running" /\ place \in {"propose", "verify"} /\ now < since + ActivityTimeout
    \/ task = "running" /\ place = "signature"
    \/ task = "running" /\ place = "commit" /\ now < since + CommitTimeout
    \/ task = "backoff" /\ now < since + Backoff(attempt)
    \/ place = "wait" /\ ~Expired

Tick ==
    /\ Lasts
    /\ place = "signature" => now < asked + VerifyApprovalTimeout
    /\ now' = now + 1
    /\ UNCHANGED <<place, task, since, asked, attempt, it, loopEnd, waitStart>>

Next ==
    \/ StartAttempt \/ RetryLater \/ RetryNow
    \/ Stop \/ Propose \/ ProposeEnds \/ VerifyEnds
    \/ CheckSignature \/ SignatureChecked \/ GiveUp \/ CommitEnds
    \/ Tick

Spec == Init /\ [][Next]_vars

-----------------------------------------------------------------------------
(* Properties *)

(* The comment of MaxRunDuration, "bounds RunLoop": RunLoop returns at     *)
(* most that long after its start.                                         *)
RunLoopBounded ==
    /\ InLoop => now <= MaxRunDuration
    /\ loopEnd <= MaxRunDuration

(* The comment of ExecutionTimeout, "bounds one execution": the server     *)
(* never has to kill an execution, which would leave it without a result.  *)
ExecutionBounded == now <= ExecutionTimeout

(* Both comments hold while no attempt waits in the task queue.            *)
BoundsHold == RunLoopBounded /\ ExecutionBounded
=============================================================================
