---------------------------- MODULE WorkerProofs ----------------------------
(***************************************************************************)
(* The bounds of a run and of an execution (RunDuration), for every value  *)
(* of the time-outs, when no attempt waits in the task queue: with a queue *)
(* delay the first one is false (RunDurationQueue.cfg).  Then the worker:  *)
(* its exit code, and that it gives no execution up.                       *)
(***************************************************************************)
EXTENDS Worker, TLAPS

Typed ==
    /\ now \in Nat /\ since \in Nat /\ asked \in Nat
    /\ place \in {"top", "propose", "verify", "wait", "signature", "commit", "done"}
    /\ task \in {"none", "queued", "running", "backoff"}
    /\ attempt \in 1..MaxActivityAttempts
    /\ loopEnd \in Nat \cup {-1} /\ waitStart \in Nat \cup {-1}

(* What may be in progress where, and that nothing stays queued.           *)
Tasks ==
    /\ place \in {"top", "wait", "done"} <=> task = "none"
    /\ task = "backoff" => place = "verify" /\ attempt < MaxActivityAttempts
    /\ task = "queued" => now = since

(* How long the attempts before the n-th may have lasted, pauses included. *)
Before(n) ==
    CASE n = 1 -> 0
      [] n = 2 -> ActivityTimeout + 1
      [] n = 3 -> 2 * ActivityTimeout + 3

(* When the activity in progress was asked for, and how long it lasted.    *)
InProgress ==
    /\ place = "propose" =>
         /\ asked < MaxWallTime
         /\ since = asked
         /\ now <= since + ActivityTimeout
    /\ place = "verify" =>
         /\ asked < MaxWallTime
         /\ task \in {"queued", "running"} =>
              /\ since <= asked + Before(attempt)
              /\ now <= since + ActivityTimeout
         /\ task = "backoff" =>
              /\ since <= asked + Before(attempt) + ActivityTimeout
              /\ now <= since + Backoff(attempt)
    /\ place = "signature" =>
         /\ asked < waitStart + ApprovalTimeout
         /\ now <= asked + VerifyApprovalTimeout
    /\ place = "commit" =>
         /\ since < waitStart + ApprovalTimeout
         /\ now <= since + CommitTimeout

(* The wait starts when RunLoop returns.                                   *)
InWait ==
    /\ place \in {"wait", "signature", "commit"} =>
         waitStart \in Nat /\ waitStart < MaxRunDuration
    /\ place = "wait" => now <= waitStart + ApprovalTimeout

InTime ==
    /\ Typed
    /\ Tasks
    /\ InProgress
    /\ InWait
    /\ place = "top" => now <= MaxRunDuration
    /\ loopEnd <= MaxRunDuration
    /\ ExecutionBounded

-----------------------------------------------------------------------------
(* What each place allows, once the bounds are expanded.                   *)
LEMMA BoundsFollow ==
    ASSUME InTime
    PROVE  RunLoopBounded /\ ExecutionBounded
  <1>1. CASE place = "verify"
    BY <1>1, DurationAssumption
    DEF InTime, Typed, Tasks, InProgress, Before, Backoff, RunLoopBounded, InLoop,
        MaxRunDuration, MaxActivityAttempts
  <1>2. CASE place # "verify"
    BY <1>2, DurationAssumption
    DEF InTime, Typed, InProgress, RunLoopBounded, InLoop, MaxRunDuration,
        MaxActivityAttempts
  <1> QED
    BY <1>1, <1>2 DEF InTime

LEMMA InitInTime == Init => InTime
  BY DurationAssumption
  DEF Init, InTime, Typed, Tasks, InProgress, InWait, MaxRunDuration,
      ExecutionBounded, ExecutionTimeout, MaxActivityAttempts

LEMMA NextInTime ==
    ASSUME QueueDelay = 0, InTime, [Next]_vars
    PROVE  InTime'
  <1> USE DurationAssumption DEF MaxActivityAttempts
  <1>1. RunLoopBounded
    BY BoundsFollow
  <1>2. CASE StartAttempt
    BY <1>2 DEF StartAttempt, InTime, Typed, Tasks, InProgress, InWait, ExecutionBounded
  <1>3. CASE RetryLater
    <2>1. /\ now <= asked + Before(attempt) + ActivityTimeout
          /\ Before(attempt) \in Int
      BY <1>3 DEF RetryLater, InTime, Typed, InProgress, Before
    <2>2. Backoff(attempt) \in Nat
      BY DEF Backoff
    <2> QED
      BY <1>3, <2>1, <2>2
      DEF RetryLater, InTime, Typed, Tasks, InProgress, InWait, ExecutionBounded
  <1>4. CASE RetryNow
    BY <1>4 DEF RetryNow, InTime, Typed, Tasks, InProgress, InWait, Backoff, Before,
                ExecutionBounded
  <1>5. ASSUME Leave
        PROVE  InTime'
    BY <1>1, <1>5 DEF Leave, Idle, InTime, Typed, Tasks, InProgress, InWait,
                      RunLoopBounded, ExecutionBounded
  <1>6. CASE Stop
    BY <1>5, <1>6 DEF Stop
  <1>7. CASE Propose
    BY <1>7 DEF Propose, Schedule, TimeUp, InTime, Typed, Tasks, InProgress, InWait,
                ExecutionBounded
  <1>8. ASSUME InLoop, NextIteration
        PROVE  InTime'
    BY <1>1, <1>8 DEF NextIteration, Idle, InTime, Typed, Tasks, InProgress, InWait,
                      RunLoopBounded, ExecutionBounded
  <1>9. CASE ProposeEnds
    <2>1. CASE ~TimeUp /\ Schedule("verify") /\ UNCHANGED <<now, it, loopEnd, waitStart>>
      BY <2>1 DEF Schedule, TimeUp, InTime, Typed, Tasks, InProgress, InWait, Before,
                  ExecutionBounded
    <2> QED
      BY <1>5, <1>8, <1>9, <2>1 DEF ProposeEnds, InLoop
  <1>10. CASE VerifyEnds
    <2>1. CASE Idle("wait") /\ loopEnd' = now /\ waitStart' = now /\ UNCHANGED <<now, it>>
      <3>1. now < MaxRunDuration
        BY <1>10 DEF VerifyEnds, InTime, Typed, InProgress, Before, MaxRunDuration
      <3>2. MaxRunDuration \in Nat
        BY DEF MaxRunDuration
      <3> QED
        BY <1>10, <2>1, <3>1, <3>2
        DEF VerifyEnds, Idle, InTime, Typed, Tasks, InProgress, InWait, ExecutionBounded
    <2> QED
      BY <1>5, <1>8, <1>10, <2>1 DEF VerifyEnds, InLoop
  <1>11. CASE CheckSignature
    BY <1>11 DEF CheckSignature, Schedule, Expired, InTime, Typed, Tasks, InProgress,
                 InWait, ExecutionBounded
  <1>12. CASE SignatureChecked
    <2>1. CASE ~Expired /\ Idle("wait") /\ UNCHANGED <<now, it, loopEnd, waitStart>>
      BY <1>12, <2>1 DEF SignatureChecked, Idle, Expired, InTime, Typed, Tasks,
                         InProgress, InWait, ExecutionBounded
    <2>2. CASE ~Expired /\ Schedule("commit") /\ UNCHANGED <<now, it, loopEnd, waitStart>>
      BY <1>12, <2>2 DEF SignatureChecked, Schedule, Expired, InTime, Typed, Tasks,
                         InProgress, InWait, ExecutionBounded
    <2> QED
      BY <1>5, <1>12, <2>1, <2>2 DEF SignatureChecked
  <1>13. CASE GiveUp \/ CommitEnds
    BY <1>5, <1>13 DEF GiveUp, CommitEnds
  <1>14. CASE Tick
    <2>1. /\ now' = now + 1
          /\ UNCHANGED <<place, task, since, asked, attempt, loopEnd, waitStart>>
          /\ task # "queued"
      BY <1>14 DEF Tick, Lasts, InTime, Typed, Tasks
    <2>2. Typed' /\ Tasks' /\ InProgress' /\ InWait'
      BY <1>14, <2>1 DEF Tick, Lasts, Expired, Backoff, InTime, Typed, Tasks,
                         InProgress, InWait, Before
    <2>3. place \notin {"top", "done"}
      BY <1>14, <2>1 DEF Tick, Lasts, InTime, Tasks
    <2>4. now' <= ExecutionTimeout
      <3>1. CASE place = "propose"
        BY <3>1, <2>1, <2>2 DEF Typed, InProgress, ExecutionTimeout, MaxRunDuration
      <3>2. CASE place = "verify"
        BY <3>2, <2>1, <2>2 DEF Typed, Tasks, InProgress, Before, Backoff,
                                ExecutionTimeout, MaxRunDuration
      <3>3. CASE place \in {"wait", "signature", "commit"}
        BY <3>3, <2>1, <2>2 DEF Typed, InProgress, InWait, ExecutionTimeout, MaxRunDuration
      <3> QED
        BY <2>3, <3>1, <3>2, <3>3 DEF InTime, Typed
    <2> QED
      BY <2>1, <2>2, <2>3, <2>4 DEF InTime, ExecutionBounded, MaxRunDuration,
                                    ExecutionTimeout
  <1>15. CASE UNCHANGED vars
    BY <1>15 DEF vars, InTime, Typed, Tasks, InProgress, InWait, ExecutionBounded
  <1> QED
    BY <1>2, <1>3, <1>4, <1>6, <1>7, <1>9, <1>10, <1>11, <1>12, <1>13, <1>14, <1>15
    DEF Next

(* With an empty task queue, RunLoop returns within MaxRunDuration, and an *)
(* execution ends within ExecutionTimeout, whatever the time-outs, and     *)
(* however the attempts fail.                                              *)
THEOREM RunIsBounded ==
    ASSUME QueueDelay = 0
    PROVE  Spec => []BoundsHold
  <1>1. InTime /\ [Next]_vars => InTime'
    BY NextInTime
  <1>2. InTime => BoundsHold
    BY BoundsFollow DEF BoundsHold
  <1> QED
    BY <1>1, <1>2, InitInTime, PTL DEF Spec

-----------------------------------------------------------------------------
(* The worker *)

Before5 == {"config", "wire", "dial", "register", "begin"}

(* Which of the client and of the worker are up where, what is known of    *)
(* the execution there, and what the exit code stands for.                 *)
Attended ==
    /\ where \in Before5 \cup {"get", "print", "leave", "exited"}
    /\ execution \in {"none", "open", "completed", "failed", "timed_out"}
    /\ early \in Nat /\ adrift \in Nat
    /\ where \in {"register", "begin", "get", "print"} => connected
    /\ where \in {"config", "wire", "dial", "exited"} => ~connected
    /\ where \in {"begin", "get", "print"} => polling
    /\ where \in Before5 \ {"begin"} => ~polling
    /\ polling => connected
    /\ where \in Before5 => execution = "none" /\ adrift = 0
    /\ where = "get" => execution # "none"
    /\ where = "print" => execution = "completed"
    /\ where \notin {"leave", "exited"} => code = -1
    /\ code \notin {0, 137} => ~printed
    /\ code = 0 => printed
    /\ printed => execution = "completed"
    /\ code = 2 => where = "exited" /\ execution = "none"

LEMMA AttendedTells == Attended => ExitTellsResult
  BY DEF Attended, ExitTellsResult, Before5

LEMMA InitAttended == WorkerInit => Attended
  BY DEF WorkerInit, Attended, Before5

LEMMA NextAttended ==
    ASSUME Attended, [WorkerNext]_wvars
    PROVE  Attended'
  <1> USE WorkerAssumption DEF Before5, Return
  <1>1. CASE LoadConfig
    BY <1>1 DEF LoadConfig, Attended
  <1>2. CASE Wire
    BY <1>2 DEF Wire, Attended
  <1>3. CASE Connect
    BY <1>3 DEF Connect, Attended
  <1>4. CASE StartWorker
    BY <1>4 DEF StartWorker, Attended
  <1>5. ASSUME NEW delay \in StartDelays, Begin(delay)
        PROVE  Attended'
    BY <1>5 DEF Begin, Attended
  <1>6. CASE BeginFails
    BY <1>6 DEF BeginFails, Attended
  <1>7. CASE Get
    BY <1>7 DEF Get, Attended
  <1>8. CASE PrintResult
    BY <1>8 DEF PrintResult, Printed, Attended
  <1>9. CASE StopWaiting
    BY <1>9 DEF StopWaiting, Attended
  <1>10. CASE Leaving
    BY <1>10 DEF Leaving, Attended
  <1>11. CASE Serve
    BY <1>11 DEF Serve, Served, Attended
  <1>12. CASE TimeOutExecution
    BY <1>12 DEF TimeOutExecution, Attended
  <1>13. CASE TickAdrift
    BY <1>13 DEF TickAdrift, Attended
  <1>14. CASE Interrupt \/ LoseLink
    BY <1>14 DEF Interrupt, LoseLink, Attended
  <1>15. CASE Killed
    BY <1>15 DEF Killed, Attended
  <1>16. CASE UNCHANGED wvars
    BY <1>16 DEF wvars, process, Attended
  <1> QED
    BY <1>1, <1>2, <1>3, <1>4, <1>5, <1>6, <1>7, <1>8, <1>9, <1>10, <1>11, <1>12,
       <1>13, <1>14, <1>15, <1>16
    DEF WorkerNext, Run

(* Time goes by on the clock of the execution while it is served, and on   *)
(* the other only while it is not; what is served no more never is again.  *)
Adrift ==
    /\ execution = "open" => place # "done"
    /\ execution = "none" => now = 0 /\ place = "top"
    /\ adrift > 0 => ~Served

LEMMA OpenInTime ==
    ASSUME InTime, place # "done"
    PROVE  now < ExecutionTimeout
  <1> USE DurationAssumption DEF MaxRunDuration, MaxActivityAttempts, ExecutionTimeout
  <1>1. CASE place \in {"top", "wait", "signature", "commit"}
    BY <1>1 DEF InTime, Typed, InProgress, InWait
  <1>2. CASE place = "propose"
    BY <1>2 DEF InTime, Typed, InProgress
  <1>3. CASE place = "verify"
    BY <1>3 DEF InTime, Typed, Tasks, InProgress, Before, Backoff
  <1> QED
    BY <1>1, <1>2, <1>3 DEF InTime, Typed

LEMMA NextAdrift ==
    ASSUME Attended, Adrift, [WorkerNext]_wvars
    PROVE  Adrift'
  <1> USE WorkerAssumption DEF Before5, Return
  <1>1. CASE LoadConfig \/ Wire \/ Connect \/ BeginFails \/ Get \/ PrintResult \/ StopWaiting
    BY <1>1 DEF LoadConfig, Wire, Connect, BeginFails, Get, PrintResult, Printed,
                StopWaiting, Attended, Adrift, Served, vars
  <1>2. CASE StartWorker
    BY <1>2 DEF StartWorker, Attended, Adrift, Served, vars
  <1>3. ASSUME NEW delay \in StartDelays, Begin(delay)
        PROVE  Adrift'
    BY <1>3 DEF Begin, Attended, Adrift, Served, vars
  <1>4. CASE Leaving
    BY <1>4 DEF Leaving, Attended, Adrift, Served, vars
  <1>5. CASE Serve
    BY <1>5 DEF Serve, Attended, Adrift, Served
  <1>6. CASE TimeOutExecution
    BY <1>6 DEF TimeOutExecution, Attended, Adrift, Served, vars
  <1>7. CASE TickAdrift
    BY <1>7 DEF TickAdrift, Attended, Adrift, Served, vars
  <1>8. CASE Interrupt \/ LoseLink \/ Killed
    BY <1>8 DEF Interrupt, LoseLink, Killed, Attended, Adrift, Served, vars
  <1>9. CASE UNCHANGED wvars
    BY <1>9 DEF wvars, process, Attended, Adrift, Served, vars
  <1> QED
    BY <1>1, <1>2, <1>3, <1>4, <1>5, <1>6, <1>7, <1>8, <1>9 DEF WorkerNext, Run

LEMMA WorkerStepIsRunStep == [WorkerNext]_wvars => [Next]_vars
  BY DEF WorkerNext, wvars, Run, LoadConfig, Wire, Connect, StartWorker, Begin,
         BeginFails, Get, PrintResult, StopWaiting, Leaving, Serve, TimeOutExecution,
         TickAdrift, Interrupt, LoseLink, Killed

LEMMA WorkerInitAdrift == WorkerInit => Init /\ Adrift
  BY DEF WorkerInit, Adrift, Init

LEMMA StepWaitsItOut ==
    ASSUME Attended, Adrift, InTime
    PROVE  /\ (StopWaiting /\ execution = "open") =>
                interrupted \/ ~linked \/ early >= RunGrace
           /\ (execution = "open" /\ execution' = "timed_out" /\ WorkerNext) =>
                adrift > 0 \/ ~Served
  <1> USE WorkerAssumption, DurationAssumption
  <1>1. execution = "open" => now < ExecutionTimeout /\ now \in Nat
    BY OpenInTime DEF Adrift, InTime, Typed
  <1>2. ExecutionTimeout \in Nat
    BY DEF ExecutionTimeout, MaxRunDuration, MaxActivityAttempts
  <1>3. ASSUME StopWaiting, execution = "open", ~interrupted, linked
        PROVE  early >= RunGrace
    <2>1. adrift = 0
      BY <1>3 DEF StopWaiting, Attended, Adrift, Served, Before5
    <2> QED
      BY <1>1, <1>2, <1>3, <2>1
      DEF StopWaiting, ContextOver, Elapsed, ClientTimeout, Attended
  <1>4. ASSUME execution = "open", adrift = 0, Due
        PROVE  FALSE
    BY <1>1, <1>2, <1>4 DEF Due, Elapsed
  <1>5. ASSUME WorkerNext, execution = "open", execution' = "timed_out"
        PROVE  Due
    BY <1>5 DEF WorkerNext, Run, LoadConfig, Wire, Connect, StartWorker, Begin,
         BeginFails, Get, PrintResult, StopWaiting, Leaving, Serve, TimeOutExecution,
         TickAdrift, Interrupt, LoseLink, Killed, Attended, Before5
  <1> QED
    BY <1>3, <1>4, <1>5 DEF Attended

(* The two bounds hold of an execution in the worker too: how it is served *)
(* and abandoned takes none of its own clock.                              *)
THEOREM WorkerRunIsBounded ==
    ASSUME QueueDelay = 0
    PROVE  WorkerSpec => []BoundsHold
  <1>1. InTime /\ [WorkerNext]_wvars => InTime'
    BY NextInTime, WorkerStepIsRunStep
  <1>2. InTime => BoundsHold
    BY BoundsFollow DEF BoundsHold
  <1>3. WorkerInit => InTime
    BY WorkerInitAdrift, InitInTime
  <1> QED
    BY <1>1, <1>2, <1>3, PTL DEF WorkerSpec

(* With an empty task queue, a worker that is not interrupted and keeps    *)
(* its link gives an execution up only when its start took the grace, and  *)
(* the server times out none that was served all along.                    *)
THEOREM WorkerWaitsItOut ==
    ASSUME QueueDelay = 0
    PROVE  WorkerSpec => WaitsItOut
  <1>1. WorkerInit => Attended /\ Adrift /\ InTime
    BY WorkerInitAdrift, InitInTime, InitAttended
  <1>2. Attended /\ Adrift /\ InTime /\ [WorkerNext]_wvars => (Attended /\ Adrift /\ InTime)'
    BY NextInTime, WorkerStepIsRunStep, NextAttended, NextAdrift
  <1>3. Attended /\ Adrift /\ InTime /\ [WorkerNext]_wvars
          => [/\ (StopWaiting /\ execution = "open") =>
                    interrupted \/ ~linked \/ early >= RunGrace
              /\ (execution = "open" /\ execution' = "timed_out") =>
                    adrift > 0 \/ ~Served]_wvars
    BY StepWaitsItOut
  <1> QED
    BY <1>1, <1>2, <1>3, PTL DEF WorkerSpec, WaitsItOut

(* The exit code of the worker tells what became of the execution, for any *)
(* command line, time-out and delay, signals, lost links and kills         *)
(* included: run, main and the deferred calls of cmd/rempart-worker.       *)
THEOREM WorkerExitTellsResult == WorkerSpec => []ExitTellsResult
  <1>1. Attended /\ [WorkerNext]_wvars => Attended'
    BY NextAttended
  <1> QED
    BY <1>1, InitAttended, AttendedTells, PTL DEF WorkerSpec
=============================================================================
