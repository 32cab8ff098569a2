------------------------------- MODULE Worker -------------------------------
(***************************************************************************)
(* The demonstration worker (cmd/rempart-worker): one process reads its    *)
(* command line, wires the fake model, registers the demonstration on a    *)
(* queue of its own, starts one execution, waits for its result, prints    *)
(* it, and leaves.  The execution is that of RunDuration; its clock runs   *)
(* while the worker serves the queue, "adrift" counts the time after.      *)
(*                                                                         *)
(* The Temporal server and client are external.  The server closes an      *)
(* execution at its time-out whatever became of the worker; a lost link    *)
(* stays lost.                                                             *)
(***************************************************************************)
EXTENDS RunDuration

CONSTANTS
    CommandLines,
    RunGrace,
    StartDelays         \* from the call to the start of the execution

Flags == [parsed: BOOLEAN, llm: {"fake", "anthropic", "other"}, dev: BOOLEAN,
          demoOnce: BOOLEAN, tenant: {"customer", "system", "invalid"},
          addresses: BOOLEAN]

ASSUME WorkerAssumption ==
    /\ CommandLines \subseteq Flags
    /\ RunGrace \in Nat
    /\ StartDelays \subseteq Nat

VARIABLES
    flags,
    where,          \* where run is
    interrupted,    \* SIGINT or SIGTERM was received
    connected,      \* the client is not closed
    polling,        \* the worker is started and not stopped
    linked,         \* the server can be reached
    execution,      \* none, open, completed, failed, timed_out
    early,          \* how long the call that started it had lasted
    adrift,         \* time since nobody serves its queue
    printed,
    code            \* of the process, -1 before

process == <<flags, where, interrupted, connected, polling, linked, execution,
             early, adrift, printed, code>>

(* LoadConfig: the refusals, in its order.                                 *)
ConfigError(f) ==
    CASE ~f.parsed -> "command_line"
      [] f.llm = "anthropic" -> "provider_refused"
      [] f.llm = "other" -> "llm_required"
      [] ~f.dev -> "fake_requires_dev"
      [] ~f.demoOnce -> "demo_once_required"
      [] f.tenant # "customer" -> "tenant"
      [] ~f.addresses -> "addresses"
      [] OTHER -> "none"

WorkerInit ==
    /\ Init
    /\ flags \in CommandLines
    /\ where = "config"
    /\ interrupted = FALSE /\ connected = FALSE /\ polling = FALSE /\ linked = TRUE
    /\ execution = "none" /\ early = 0 /\ adrift = 0
    /\ printed = FALSE
    /\ code = -1

-----------------------------------------------------------------------------
(* The process *)

(* run returns: what it deferred is done in the reverse order.             *)
Return(c) == where' = "leave" /\ code' = c

LoadConfig ==
    /\ where = "config"
    /\ IF ConfigError(flags) = "none"
       THEN where' = "wire" /\ UNCHANGED code
       ELSE where' = "exited" /\ code' = 2
    /\ UNCHANGED <<vars, flags, interrupted, connected, polling, linked, execution,
                   early, adrift, printed>>

(* run checks the flags again, LoadConfig bypassed or not.                 *)
Rechecked == flags.dev /\ flags.llm = "fake" /\ flags.demoOnce

(* The options, the script, the provider, the resolver, the client and the *)
(* identifiers: each may fail.                                             *)
Wire ==
    /\ where = "wire"
    /\ \/ Rechecked /\ where' = "dial" /\ UNCHANGED code
       \/ Return(1)
    /\ UNCHANGED <<vars, flags, interrupted, connected, polling, linked, execution,
                   early, adrift, printed>>

Connect ==
    /\ where = "dial"
    /\ \/ /\ linked /\ ~interrupted
          /\ where' = "register" /\ connected' = TRUE
          /\ UNCHANGED code
       \/ Return(1) /\ UNCHANGED connected
    /\ UNCHANGED <<vars, flags, interrupted, polling, linked, execution, early, adrift,
                   printed>>

(* demo.Register: no system tenant.                                        *)
Registered == flags.tenant = "customer"

StartWorker ==
    /\ where = "register"
    /\ \/ /\ Registered
          /\ where' = "begin" /\ polling' = TRUE
          /\ UNCHANGED code
       \/ Return(1) /\ UNCHANGED polling
    /\ UNCHANGED <<vars, flags, interrupted, connected, linked, execution, early,
                   adrift, printed>>

(* ExecuteWorkflow: the start may be acknowledged, refused, or take place  *)
(* without the process being told.                                         *)
Begin(delay) ==
    /\ where = "begin"
    /\ linked
    /\ execution' = "open"
    /\ early' = delay
    /\ \/ ~interrupted /\ where' = "get" /\ UNCHANGED code
       \/ Return(1)
    /\ UNCHANGED <<vars, flags, interrupted, connected, polling, linked, adrift,
                   printed>>

BeginFails ==
    /\ where = "begin"
    /\ Return(1)
    /\ UNCHANGED <<vars, flags, interrupted, connected, polling, linked, execution,
                   early, adrift, printed>>

(* Get: the result of a completed execution is printed, unless that fails. *)
Get ==
    /\ where = "get"
    /\ linked /\ ~interrupted
    /\ execution \notin {"none", "open"}
    /\ IF execution = "completed"
       THEN where' = "print" /\ UNCHANGED code
       ELSE Return(1)
    /\ UNCHANGED <<vars, flags, interrupted, connected, polling, linked, execution,
                   early, adrift, printed>>

(* Slip: the error of the encoder is forgotten.                            *)
PrintedAnyway(ok) == printed' = ok /\ Return(0)

Printed(ok) == printed' = ok /\ Return(IF ok THEN 0 ELSE 1)

PrintResult ==
    /\ where = "print"
    /\ \E ok \in BOOLEAN : Printed(ok)
    /\ UNCHANGED <<vars, flags, interrupted, connected, polling, linked, execution,
                   early, adrift>>

(* Slip: no grace for the start.                                           *)
WithoutGrace == ExecutionTimeout

ClientTimeout == ExecutionTimeout + RunGrace

Elapsed == now + adrift

(* Slip: run waits with the context of the process, which has no timer.    *)
OnlyInterrupted == interrupted

(* The context of run: interrupted, or its timer fired; the answer to Get  *)
(* may take any time once the execution is closed.                         *)
ContextOver ==
    \/ interrupted
    \/ early + Elapsed >= ClientTimeout

StopWaiting ==
    /\ where = "get"
    /\ ContextOver
    /\ Return(1)
    /\ UNCHANGED <<vars, flags, interrupted, connected, polling, linked, execution,
                   early, adrift, printed>>

(* Worker.Stop, then Client.Close.                                         *)
Leaving ==
    /\ where = "leave"
    /\ IF polling THEN polling' = FALSE /\ UNCHANGED <<where, connected>>
       ELSE IF connected THEN connected' = FALSE /\ UNCHANGED <<where, polling>>
       ELSE where' = "exited" /\ UNCHANGED <<connected, polling>>
    /\ UNCHANGED <<vars, flags, interrupted, linked, execution, early, adrift, printed,
                   code>>

-----------------------------------------------------------------------------
(* The execution, the server and the faults *)

Served == execution = "open" /\ polling /\ linked

(* A step of the workflow or of one of its activities, or time passing.    *)
Serve ==
    /\ Served
    /\ Next
    /\ execution' \in IF place' = "done" THEN {"completed", "failed"} ELSE {"open"}
    /\ UNCHANGED <<flags, where, interrupted, connected, polling, linked, early, adrift,
                   printed, code>>

Due == Elapsed >= ExecutionTimeout

TimeOutExecution ==
    /\ execution = "open"
    /\ Due
    /\ execution' = "timed_out"
    /\ UNCHANGED <<vars, flags, where, interrupted, connected, polling, linked, early,
                   adrift, printed, code>>

(* Time passes while nobody serves the execution, or for a process that    *)
(* waits without a link.                                                   *)
TickAdrift ==
    /\ ~Served
    /\ \/ execution = "open" /\ ~Due
       \/ where = "get" /\ early + Elapsed < ClientTimeout
    /\ adrift' = adrift + 1
    /\ UNCHANGED <<vars, flags, where, interrupted, connected, polling, linked,
                   execution, early, printed, code>>

(* Once run has returned its context counts no more.                       *)
Interrupt ==
    /\ where \in {"wire", "dial", "register", "begin", "get"}
    /\ ~interrupted
    /\ interrupted' = TRUE
    /\ UNCHANGED <<vars, flags, where, connected, polling, linked, execution, early,
                   adrift, printed, code>>

LoseLink ==
    /\ linked
    /\ where \in {"dial", "begin", "get"}
    /\ linked' = FALSE
    /\ UNCHANGED <<vars, flags, where, interrupted, connected, polling, execution, early,
                   adrift, printed, code>>

(* The process is killed: nothing it deferred is done.                     *)
Killed ==
    /\ where # "exited"
    /\ where' = "exited"
    /\ code' = 137
    /\ connected' = FALSE /\ polling' = FALSE
    /\ UNCHANGED <<vars, flags, interrupted, linked, execution, early, adrift, printed>>

Run ==
    \/ LoadConfig \/ Wire \/ Connect \/ StartWorker
    \/ (\E delay \in StartDelays : Begin(delay)) \/ BeginFails
    \/ Get \/ PrintResult \/ StopWaiting \/ Leaving

WorkerNext ==
    \/ Run \/ Serve \/ TimeOutExecution \/ TickAdrift
    \/ Interrupt \/ LoseLink \/ Killed

wvars == <<vars, process>>

(* The process runs, the server's timers fire, activities end by their     *)
(* time-outs and the workflow answers them; signals, however many, do not  *)
(* stop the clock.                                                         *)
WorkerSpec ==
    /\ WorkerInit /\ [][WorkerNext]_wvars
    /\ WF_wvars(Run)
    /\ WF_wvars(Serve)
    /\ SF_wvars(Serve /\ Tick)
    /\ WF_wvars(TimeOutExecution)
    /\ WF_wvars(TickAdrift)

-----------------------------------------------------------------------------
(* Properties *)

(* Unless it is interrupted, the process does not give an execution up     *)
(* that it could still see end: run waits ExecutionTimeout and runGrace    *)
(* (run.go), so only a start slower than the grace, or a lost link, makes  *)
(* it miss the result; and the server has to end no execution that was     *)
(* served to its end.                                                      *)
WaitsItOut ==
    [][/\ (StopWaiting /\ execution = "open") =>
            interrupted \/ ~linked \/ early >= RunGrace
       /\ (execution = "open" /\ execution' = "timed_out") => adrift > 0 \/ ~Served]_wvars

(* The exit code tells what happened: 0, a completed execution was printed *)
(* whole; 2, nothing was started.  A process that left by itself serves no *)
(* queue any more, and none is served once the client is closed.           *)
ExitTellsResult ==
    /\ code = 0 => execution = "completed" /\ printed
    /\ printed => code \in {0, 137}
    /\ code = 2 => execution = "none" /\ ~connected
    /\ where = "exited" => ~polling /\ ~connected
    /\ polling => connected

(* The process ends, and so does what it started, killed, interrupted or   *)
(* cut off in between: an execution left behind has its own time-out.      *)
EverythingEnds ==
    /\ <>(where = "exited")
    /\ execution = "open" ~> execution # "open"
=============================================================================
