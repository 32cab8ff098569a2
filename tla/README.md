# Rempart M0, modelled in TLA+

This directory models the implementation of milestone M0 of Rempart: a loop that
asks a language model for a candidate, has it verified, waits for people to
approve the plan it leads to, and commits it. The code is Go on Temporal.
Temporal replays a workflow from its history, so a workflow is a sequential
program interrupted only at its blocking calls; what makes it hard is what may
happen while it blocks.

1. [The system](#1-the-system)
2. [Modules and code](#2-modules-and-code)
3. [Runs](#3-runs)
4. [Fairness](#4-fairness)
5. [Proofs](#5-proofs)
6. [Disagreements](#6-disagreements)
7. [What is left out](#7-what-is-left-out)
8. [Plan](#8-plan)

To check: `tlc -config X.cfg M` for a run, `tlapm M.tla` for a module of proofs.
`PROJECT.json` lists the components, the runs, the lines each definition
translates (`map`), the hazards, and for each property a small change of the
model that breaks it (`mutants`; the changed definitions stand just before the
ones they replace, under a comment that starts with `Slip:`).

## 1. The system

| part | state | operations | hard behaviour | correct when |
|---|---|---|---|---|
| **RunLoop** (`internal/loops/runloop.go`, `spec.go`, `findings.go`, `activities.go`) | iteration, strategy, best candidate, stagnation, failures in a row, tokens, trace | propose, verify, converge, escalate | results, failures, the wall time and the cancellation arrive in any order; a failed paid call may or may not say what it cost | it ends; the tokens are accounted for and bounded; the best candidate is the first of the lowest score; a converged candidate was accepted |
| **AwaitApprovals** (`internal/loops/approvals.go`) | buffered signals, approvals kept, signals ignored, deadline | screen a signal, verify it, keep, reject, ignore | signals are unauthenticated, duplicated, reordered, unbounded in number; the deadline and the cancellation race with a verification | an approved plan has its quorum of genuine, distinct approvals; nothing counts late; the record is bounded |
| **Demonstration workflow** (`internal/loops/demo`) | the candidate, its plan hash, the wait, the commit | run the loop, wait, commit | each part may fail, time out or be cancelled between two steps | only a plan approved under its own hash is committed, and the output tells the effect |
| **Activities** (`internal/loops/demo/activities`) | none | propose (a paid call of the client), verify, sign, commit | an activity may be ended while its call goes on | what a call cost is declared, or no other call follows |
| **LLM client** (`internal/llm/client.go`, `check.go`, `usage.go`) | attempt, request, usage, bound | admit, call, check, correct, account | the context is cancelled between attempts; the provider declares absurd usages | every failure after a call tells at least what it may have cost; a result was checked |
| **Redaction** (`internal/llm/redact`) | none | find, merge, mask | candidates overlap, nest, are exempt, touch placeholders; a mask may lengthen a text | no secret that a rule finds is sent |
| **Route policy** (`internal/llm/domain/policy.go`) | none | check | the region, the model and the capability each have their say | the text of a tenant stays where its policy says |
| **Prompts** (`internal/llm/prompts`) | none, the files | load | files change while they are read | the prompt sent is the pinned one |
| **Requests** (`internal/llm/domain`) | none | validate, render | bounds at limits | each refuses what it must |
| **Schemas** (`internal/llm/schema`) | none | decode, compile, validate an answer | references, duplicate keys, nesting, texts hidden in a schema | an answer that is returned is in the schema, and the model reads no secret in one |
| **Anthropic adapter** (`internal/llm/adapters/anthropic`) | one HTTP call | build, send, read a capped body, classify | a body longer than the cap, a failure that hides a cost | a response only from a whole, verified body |
| **Fake provider** (`internal/llm/fake`) | recordings, scripts, a cursor for each prompt, a mutex | configure, answer | concurrent callers, cancelled at any time | each scripted step answers one call, in order |
| **Evals** (`internal/evals`, `cmd/rempart-evals`) | suite files, baseline files, selection of suites | discover, load, select, run, grade, compare, write a baseline | files that readers of YAML read differently, or that change between two readings; a crash in the middle of a write; one suite of several failing | exit 0 only if every concerned suite ran as it reads, and was compared without a regression |
| **Worker** (`cmd/rempart-worker`) | one process, one execution | configure, start, wait, stop | a signal, a kill or a lost link at any point; the execution outlives the process | the exit code tells the result, and both end |
| **Tenancy** (`internal/tenancy`) | a value of a context | attach, read | | a call without a tenant is refused |
| **Architecture tests** (`internal/archtest`) | the repository | list the packages, read the sources, judge | the rules see names, the compiler sees what they mean; files of other builds | a repository that passes is layered as it is linked, and calls the loops with constants only |
| **Secrets, identifiers** (`internal/secrets`, `internal/loops/workflowid.go`) | an erasable buffer | | | |

How they interact. The worker starts one demonstration workflow. The workflow
calls RunLoop, which schedules the activity `ProposeActivity` (one attempt, a
paid call through the LLM client, which checks the tenant, the policy and the
prompts, redacts, and calls a provider) and `VerifyActivity` (retried by
Temporal). A converged candidate determines a plan hash; the workflow calls
AwaitApprovals with it, which reads the signal channel `approval` and schedules
the activity that verifies a signature. An approved plan is committed by one
last activity. All state is the history of one workflow; activities share
nothing but their messages. The worker wires the
fake provider in M0; the adapter implements the same port. The evals command is
another program: it reads suites, runs them through the same client, and compares
their reports with baseline files. The architecture tests look at all of it.

`PROJECT.json` lists every part, the ones that are not modelled with the reason,
and every hazard at its line.

## 2. Modules and code

| module | models | extends / instantiates |
|---|---|---|
| `Findings` | score, blocking findings, fingerprint (`findings.go`) | |
| `RunLoop` | `RunLoop`, its specification and its admission checks | `Findings` |
| `RunLoopProofs` | the theorems about `RunLoop` | `RunLoop`, `TLAPS` |
| `RunDuration` | the time of the whole workflow: wall time, attempts, pauses, task queue, deadline, commit | |
| `Worker` | the process that starts the execution and waits for it | `RunDuration` |
| `WorkerProofs` | the theorems about `RunDuration` and `Worker` | `Worker`, `TLAPS` |
| `Approvals` | `AwaitApprovals` | |
| `ApprovalDecision` | what the wait promises, in two variables and one action | |
| `ApprovalsRefinement` | the mapping from `Approvals` to `ApprovalDecision` | `Approvals`, instantiates `ApprovalDecision` |
| `ApprovalsProofs` | the theorems about `Approvals`, and that it implements `ApprovalDecision` | `ApprovalsRefinement`, `TLAPS` |
| `DemoWorkflow` | the demonstration workflow | instantiates `RunLoop` and `Approvals` |
| `DemoWorkflowProofs` | the theorems about the composition | `DemoWorkflow`, `TLAPS` |
| `Json` | JSON values, and which ones are decoded (`decode.go`) | |
| `Schema` | strict schemas, what a model reads in one, answers (`internal/llm/schema`) | `Json` |
| `Redaction` | what candidates become: matches, masks, lengths (`redact.go`) | |
| `LLMRequests` | valid requests, their sizes, their masks, the tools, the check of an answer (`types.go`, `check.go`, `usage.go`, `untrusted.go`) | `Redaction`, `Schema` |
| `PromptRegistry` | the loading of a prompt (`registry.go`) | `Redaction` |
| `RoutePolicy` | `CheckPolicy` (`policy.go`) | |
| `LLMClient` | one call of the client, and the tenant of its context (`tenant.go`) | `LLMRequests`, `PromptRegistry`, `RoutePolicy` |
| `PaidLoop` | what a run really costs: the loop, its proposer activity, the client | `LLMClient`, instantiates `RunLoop` |
| `LLMClientProofs` | the theorems about `LLMClient` and `PaidLoop` | `PaidLoop`, `TLAPS` |
| `Evals` | paths, checks and grades of outputs, reports, the comparison with a baseline (`path.go`, `grade.go`, ...) | `Json` |
| `SuiteFiles` | the YAML of the suites: what is read, by whom, which directories are suites (`suite.go`, `discover.go`) | `Evals` |
| `EvalsCommand` | the command `rempart-evals` and its target (`targets.go`) | `SuiteFiles` |
| `EvalsCommandProofs` | the theorems about `EvalsCommand` | `EvalsCommand`, `TLAPS` |
| `BaselineFile` | the file of a baseline: written, failed, crashed on, read meanwhile | |
| `BaselineFileProofs` | the theorems about `BaselineFile` | `BaselineFile`, `TLAPS` |
| `ModelPort` | what a provider promises to each of its callers (`ports/provider.go`) | |
| `AnthropicProvider` | one call of the Anthropic adapter | |
| `FakeProvider` | the fake provider and its concurrent callers | |
| `Providers` | either of the two behind the port, and the mapping to `ModelPort` | `AnthropicProvider`, instantiates `FakeProvider` and `ModelPort` |
| `ProvidersProofs` | the theorems about `Providers` | `Providers`, `TLAPS` |
| `ArchRules` | the import rules over what `go list` says (`rules.go`, `packages.go`, `pkgdirs.go`) | |
| `GoSources` | Go files as far as the rules look at them, and what the language makes of a name (Go itself; its syntax trees as `loopsrc.go` visits them) | `ArchRules` |
| `LoopSources` | the source rules of the loops (`loopsrc.go`) | `GoSources` |
| `Architecture` | the tests over a repository that developers edit | `LoopSources` |
| `MC...` | the values of the constants for TLC | the module they name |

**RunLoop.** The code between two blocking calls is one atomic piece of a
workflow task. It is cut at the top of the loop, in actions named for what the
code decides there. `phase` says where the workflow blocks: `propose` and
`verify` are the two `Get`s. Only there may the environment act: the activity
ends (`ProposerReplies`, `VerifierReplies`), the wall time is spent (`Elapse`),
the context is cancelled (`Cancel`). Each guard is a condition of the code, in
its order: an absurd count of tokens is refused before it is added
(`RefuseTokens`), the budget is checked before the failure (`OverspendTokens`),
then the failure (`FailedProposal`), the candidate, the time, the verification.
`best`, `same`, `strat` and `failures` are the local variables of the loop;
`judged` is a history variable that no action reads. Candidates are model values,
a list of findings is a sequence of records with what the score and the print
read. The lengths of JSON texts are abstracted to admitted or not.

**Approvals.** A signal is one of three things: a canonical payload, one the
decoder refuses, one the SDK drops. Whether its signature is genuine is a field
that only the verification activity reads. `phase` is `select` in the selector
and `verify` in the `Get` of the verification. The screening is one function
(`Screen`) with the reasons of the code, in their order; each outcome of a
verification is an action of its own. The timer is a child of the context, so a
cancellation stops it (`StopTimer`), which makes its future ready as well:
`DeadlineReady` is both. A worker that crashes replays; a crash shows as the
failure of an activity and nothing else.

**DemoWorkflow** is the composition: its variables are its own and those of one
instance of `RunLoop` and one of `Approvals`, whose actions are its own while the
workflow is in that part. Both share the cancellation. Signals arrive from the
start of the workflow, before the wait.

**RunDuration** counts time. An attempt is queued, runs, and ends before its
`StartToCloseTimeout`; a verification is attempted `MaxActivityAttempts` times
with the pauses of the retry policy. `QueueDelay` is the time an attempt may stay
in the task queue.

**LLMClient.** A call goes through fourteen checks, in the order of the code;
`Fails` says of each when it fails, with the operators of the pure modules. `req`
is what is sent: the masked parts and the corrections. The loop of attempts and
the account are those of the code. `cost` is a history variable: what the
attempts really cost, which the code cannot see. The provider may fail, before or
after it was paid, or answer anything (`Replies`); it may declare any usage, but
one within bounds covers what the attempt cost. Any other attempt cost at most its
output and all that was sent (`SentBytes`): the request, which `RequestBytes` measures,
and the tools, which it does not (`ToolBytes`, section 6).

**Redaction.** A text is its length, the placeholders in it and the candidates
its rules find: spans with a priority, exempt or not. What follows is the code:
candidates inside a placeholder are dropped, the others are sorted, united when
they overlap, and a group with one that is not exempt is a match. A masked text
keeps what it was made of, so that a property can compare the two. A text has
finitely many candidates.

**PromptRegistry.** A file is what each look at it finds: its entry, the file
once open, the bytes read. They need not agree. **RoutePolicy** keeps of the name
of a model what the patterns tell apart: its form, whether its date exists,
whether it is an alias, its inference profile; `LLMClient` keeps of the identifier
of a tenant what its checks find.

**Json and Schema.** A JSON value is an atom with its text, an array, or an object whose
members keep the order of the text, so that duplicates exist. Nesting is walked
level by level, `MaxDepth` of them, which is also how the code bounds it: no
definition is recursive, and the modules above can be proved about. Which names
the patterns admit, what a pattern of a schema matches, and in which texts a rule
finds a secret are given. The lengths and bounds of values, which only narrow the
answers, are left out.

**PaidLoop** composes what costs money. The variables are those of `LLMClient`,
which it extends, of one instance of `RunLoop`, `activity` (no call, one the server
waits for, one it gave up) and the history `paid`. `Return` is the switch of
`Activities.Propose` on the error of the client: a result, the error of the
context, a declared bound, a refusal. The context of the activity may end at any
step, and the server may give the attempt up while the call goes on (`Abandon`).

**AnthropicProvider.** One call: the refusals before any I/O, the bytes on the
wire compared with the verified ones, one request, the body read under the cap
(`left` is that of `cappedBody`), the answer judged in the order of
`convertMessage`. A body is a size and the place where its document ends, since
a cut body followed by blanks would decode. The caller and the timer may end the
call at any step.

**FakeProvider.** `New` checks options, or a file of them. A call takes the
mutex, looks for the recording of its hash, then for the script of its prompt,
reads the cursor, and moves it; every line of this is an action, so that another
caller may come in between wherever the mutex lets it. `given` is a history
variable. **ModelPort** is what both providers promise, in three variables:
what each caller asks, how often the model was asked, and the outcome.

**Worker.** `where` is the line of `run`. The execution is that of `RunDuration`,
its clock runs while the worker serves the queue; the server, which is external,
closes it at its time-out whatever became of the worker. Signals, a kill and a
lost link may come at any step.

**Architecture.** A repository is a set of files (imports, declarations,
statements, expressions), links, and others. A developer edits it, `RunTests` is a
run of the tests: `ReadSources` of every file, `go list` of the default build,
the rules. What a name means to the compiler (scopes, shadowing, dot and renamed
imports, build tags) is defined beside, in `GoSources`, from the language, and
the properties are stated with it. A package is named after its directory: the rules
read the name of a package from its path (`path.Base`, `loopsrc.go:188`), and only the
packages of domains are tested to be named so. A module is found by its path: a
`replace` of `go.mod` is outside of the model.

**Evals, SuiteFiles and EvalsCommand.** A file is one document or more, and a
document a tree of nodes as they are written: scalars with a style, mappings,
sequences, aliases, marks. `ReadAs` is what a reader makes of it. There are five:
`program` is the library that the code uses, `core` and `old` are two versions of
the norm, `dateless` is the old one without its type of dates, and `eye` sees a value
where it stands, before lines are folded and the escapes outside the code's list are
resolved. `ReadsFile` is what the code admits; that all five read alike what it admits
is a conjunct of `ExitZeroIsClean`, but for what `old` makes of a file with a date that
the library does not know, such as `2001-12-14 9:00:00 -5` (`Dated`, section 6). The form of a plain scalar and its
value to each reader are given (`Plain`). `ToSuite` and `ToCase` are the
structures that the library fills.

Paths select in a JSON output, checks compare what they select by value and not by
text, and `Pass` is the grade. A rate is a fraction `<<k, n>>`, compared by
multiplication where the code has floats and a margin of 1e-9. `EvalsCommand` is
one sequential process; `at` is where it is. A suite is loaded by its directory
to be selected, then by its name to be run, as the code does, and somebody may
edit it in between (`Edit`). The target is that of the demonstration: `DemoInput`
is what it takes, `OutcomeOf` what it makes of the end of a workflow, which is one
of those that `DemoWorkflow` can return (`Ends`).

**BaselineFile.** Names point to files; the rename moves the name, an open file
keeps its content. Each operation may fail, the write may stop short, the process
may die before each of them, and the cleaning after a failure may fail too.

## 3. Runs

| run | shows | bounds and why they are enough |
|---|---|---|
| `approvals` | the quorum, the authenticated refusal, the bound of the record, nothing counts late; the wait implements `ApprovalDecision`, its liveness included | three people, one with the security role; a genuine signal of everybody for and against, forged ones, one for another plan, one malformed, one undecodable; quorums of 2, with a reserved seat, and of 3, which cannot be met; records of 1 and 2; one buffered signal at a time, which loses no order since signals arrive at any time |
| `run_loop` | the trace accounts for the run and its strategies, the budget, the best candidate, the acceptance, stagnation exactly when it should, failures in a row, an unknown cost is the last; it ends | 4 iterations, 2 strategies, thresholds 2 and 3 (the defaults) and 1 and 4 (every strategy used up); 4 lists of findings: two alike with different scores, one of another print, one not blocking; counts of tokens below, at and above each limit; one specification invalid in each field |
| `run_duration_queue` | `MaxRunDuration` is exceeded with a queue delay (see 6) | 4 iterations, times of a few units, a delay of 2 |
| `worker` | without one, the run and the execution keep their bounds, tightly; the exit code tells the result; a worker that is not disturbed waits for the end; the process and the execution end | 2 iterations, a wall time of 2, activities of 1 and 4, so that a verification of the loop and of a signature differ; a grace of 4 and starts of 3 and 4, which fit with the run and do not; a command line refused for each reason |
| `demo_workflow` | only what was approved is committed, and the output says so; never after a cancellation; it returns | two candidates with their own hashes, an author who signs too, forged signals, 2 iterations |
| `llm_client` | the account of a call, its corrections, the checks of a result, that nothing unmasked is sent, that the route is lawful | calls that differ from one that passes in one field, and a few in two, which show the order of the checks; candidates that nest, chain, touch, are exempt, or lengthen the text; a schema not strict for each rule, references, secrets in each place that a model reads, answers that miss a key or repeat one; tools of one byte, sent with the request; each form of model on each platform, in and out of the European Union; prompt files that change at each step; counts -1, the largest, one more; 2 corrections |
| `providers` | an answer comes from a whole body; each scripted step answers one call; both providers implement the port | a cap of 2 bytes, bodies of 1 to 4, one over the cap whose document ends at it, answers and calls with one thing wrong each; three callers of the fake, two prompts, a recording and scripts of up to two steps, options refused for each reason |
| `paid_loop` | what the run counts covers what its calls cost, and a lost, timed out or cancelled run costs at most its budget and one call | 3 iterations, a budget of 5, one correction, counts that are the largest and one too many; a call that the budget of the client refuses |
| `evals` | every suite concerned runs, the exit code is that of the worst, exit 0 means what it says, a baseline is written from a whole run only | a tree of two suites, one with an injection and an expected escalation, and a tree for each thing that can be wrong in one: a value that readers disagree on or that is refused (27 of them), or that is admitted though one reader takes it for a date, an odd check, field, file, input or directory (38), a directory in another, in `cases`, or called `all`; one edit; ends that pass, that are forbidden, that escalate, that fail; five sets of baselines, absent, unreadable, too tolerant, or of a run where the injection passed; every kind of base and of change; nesting of 8 nodes, which the deepest file exceeds |
| `evals_nested` | a suite is not run (see 6) | two suites of the same name in two directories |
| `baseline_file` | the baseline is always whole and never lost, commands say what they did | three writers, one with a report that cannot be a baseline, two readers: two renames around one read |
| `architecture` | a repository that passes after its edits is layered as it is linked, and calls the loops with constants as the compiler reads them | a small repository with every layer, and the edits of the tests of the rules (`loops_test.go`, `loops_harden_test.go`, `rules_test.go`); 2 edits, since the hard cases take two files: a declaration that shadows and a use, a file of another build and a use |

Numbers with a name in the code (`MaxIgnoredLimit`, `MaxTokensLimit`,
`MaxActivityAttempts`, `MaxNesting`, ...) are constants of the models; the runs
make them small, and keep their order. The bounds that the code does not have are
`InboxBound`, on the signals buffered at once, and `MaxEdits`, on the edits of the
repository.

Deadlock is not checked: a workflow, a call, a wait and a command end, and stay
ended.
`RunEnds`, `WorkflowReturns`, `EverythingEnds` and `ImplementsDecision` say that
they do.

## 4. Fairness

`FairSpec` asks three things, never more: the workflow code runs when it can (a
worker polls the task queue), a scheduled activity ends (its timeout ends it, as
a failure, if nothing else does), and the timer of the server fires. Nobody has
to signal, to cancel, or to be approved, and the wall time need not run out:
`RunEnds` holds by the number of iterations alone.

`WorkerSpec` asks that the process goes on (`Run`), that a connected, polling
worker serves the queue (`Serve`), that the clock of the server goes on when
nobody does (`TickAdrift`), and that the server closes what is over
(`TimeOutExecution`). The clock of a served execution (`Serve /\ Tick`) needs
strong fairness: it stops while something is due and starts again after it, and
signals, however many, do not stop it. Nobody has to interrupt, kill or cut off
the worker, and nothing says that the link lasts: `EverythingEnds` holds in every
case. The other modules have safety properties only, and no fairness.

## 5. Proofs

`ApprovalsProofs` proves for every set of people, plans, signals and requests,
every quorum and every bound, under `ConstantsAssumption` only (the bounds are
naturals, the default record is within its limit, holders of the role are
people, the empty string is neither a person nor a hash):

- `InductiveInvariant`: `Spec => []Inductive`;
- its consequences `TypeInvariant`, `ApprovedWithQuorum` (`Quorum`),
  `NothingRetainedUnlessApproved`, `OnlyGenuineRefusals`
  (`RejectionAuthenticated`), `FloodIsBounded` (`FloodBound`);
- `LateNeverCounts` (`NothingCountsLate`) and `CancelledHasNoOutcome`, which are
  about steps.

`Quorum` is not inductive: it speaks of the end. What the loop keeps true while
it is open is in `Inductive`: an open wait lacks at least one approval, and has
room for one more ignored signal (`StillOpen`); what it kept so far counts and
is of distinct people, and `security` says whether one has the role
(`Ballots`); the last missing seat is still reserved for the role when the role
is required; the signal under verification passed the screening, so it is for
this plan, by someone who is not the author and did not sign yet
(`UnderVerification`); before the call nothing happened (`Untouched`), and a
cancelled context has stopped the timer (`TimerStopped`).

The proof goes by the actions of `Next`: one lemma for each, and one step in each
lemma for each conjunct the action can disturb. Facts about sequences (appending
a ballot of a new person keeps them distinct, and so on) are lemmas of their own.

It also proves `WaitImplementsDecision`: under the mapping of
`ApprovalsRefinement`, the initial states of the wait are those of the ballot box,
and each of its steps is a step of the box or leaves it alone. `Keep` is a vote
(the people of distinct ballots are as many as the ballots, `VotersCounted`), a
return that is no approval closes the box, and the rest is not seen. It uses
`Inductive` before and after the step. The fairness of `ApprovalDecision`, hence
that the box is closed in the end, is checked by `approvals` only.

`RunLoopProofs` proves, for any candidates, reports, specifications, replies and
limits (`LoopAssumption`: they have their types, and the limit of attempts is
positive):

- `TypeInvariant`, by `Shape`: the types, and that a verification follows an
  answered call whose candidate was admitted and whose entry is the last of the
  trace;
- `BudgetHolds` (`TokenBudget`), by `WithinBudgetSoFar`: while the run goes on,
  the budget is not exceeded, since the step that adds a count checks it;
- `UnknownCostIsLast` (`UnknownCostEndsRun`), step by step;
- `BestIsKept` (`BestIsFirstLowest`), by `ScoreKept`: the score kept is that of
  the findings kept;
- `ConvergedIsAccepted` (`ConvergedOnAcceptance`), on top of `WithinBudgetSoFar`;
- `FailuresEndRun` (`FailuresInRow`), by `FailuresCounted`: the counter is the
  number of failed calls at the end of the trace, and the entry before them, if
  any, did not fail;
- `StagnationStops` (`StagnationExact`), by `StallCounted`: the counter `same` is
  the length of the longest run of equal prints at the end of what was judged
  (`LongestRun`), so that the thresholds are met exactly when it is;
- `TraceIsTheRun` (`TraceTellsTheRun`), by `Kept` and `StrategyKept`: each counter
  is what the entries of the trace add up to, an entry at a time, and the strategy
  is the one that the last verdicts call for.

Each is an invariant on top of `Shape`, with one step of its lemma for each
action, or for the actions that do the same to it.

`WorkerProofs` proves `RunIsBounded` (`BoundsHold`: `RunLoopBounded` and
`ExecutionBounded`) for any time-outs and any limit of iterations
(`DurationAssumption`), when `QueueDelay = 0`: this is the hypothesis that the code
does not ensure (section 6), and `run_duration_queue` shows that the conclusion
fails without it. `InTime` says, place by place, how late it may be: an attempt of
the verifier started at most `Before(attempt)` after the activity was asked for,
which was before `MaxWallTime`; the wait started within `MaxRunDuration`; a
signature or a commit was asked for before the deadline. Every step of the worker
is a step of the run or leaves it alone, so the bounds hold there too
(`WorkerRunIsBounded`). `WorkerExitTellsResult` (`ExitTellsResult`) needs no
hypothesis: `Attended` says what the worker knows at each of its places, and which
deferred calls are left. `WorkerWaitsItOut` (`WaitsItOut`) needs `QueueDelay = 0`:
`Adrift` says that time goes by for an open execution outside of its own clock only
once it is served no more, and `InTime` that one in progress has time left.

`BaselineFileProofs` proves, for any set of writers and readers and any reports
(`FileAssumption`: a writer is not a reader, and the old baseline is neither a
writer nor a refused report), `InductiveInvariant` and its consequences
`BaselineAlwaysWhole` (`AlwaysWhole`), `ResultsAreTrue` (`SaysWhatItDid`) and
`BaselineNeverLost` (`BaselineStays`). `AlwaysWhole` is not inductive: a rename
gives the name to a file, which must have been whole before. `WriterInv` says so
of a writer that reached `Rename`, and that only a writer that renamed holds the
name; `ReaderInv` that an open file is whole, which nothing undoes since a file
that has the name is never written again.

`DemoWorkflowProofs` proves, for any candidates, hashes, people, reports and
signals (`DemoAssumption`), `InductiveInvariant`, `OnlyApprovedIsCommitted`
(`CommittedWasApproved`), `OutputIsTrue` (`OutputTellsTheEffect`) and
`CancellationIsFinal` (`CancelledNeverCommits`). The invariant has a part for
each stage: what the loop leaves when it converges (`LoopInv`), what the wait
leaves when it approves (`WaitInv`), that a stage starts only after the one
before left what it needs (`StageInv`), and that a commit is of the candidate
whose hash was put to the wait (`CommitInv`).

`LLMClientProofs` proves, for any calls, answers, limits and schemas
(`ClientAssumption`), `InvariantHolds`, `OnlyCallsAreCharged`
(`FailureChargedIffCalled`), `CostIsCovered` (`ToldCoversCost`) and
`CorrectionsAreBounded` (`Corrections`). `ToldCoversCost` says that what the caller is
told covers what the attempts cost, without tools always, and with tools up to the
size of the tools once, if the call ended with an attempt that told no usage
(`Untold`). The account is not inductive by itself:
what matters is that the bound of an attempt covers it before it starts, that
`told` is the sum of the attempts that ended, and where a failure may leave.
The sizes of texts are recursive sums, which lemmas bound by induction (below):
`MaskedHasASize`, a text shrinks by no more than its matches, which lie in it,
apart; `CorrectedHasASize`, a request grows by one correction with each attempt.
Three more theorems are about what is sent and what comes back, by `Checked`, which
remembers what `Fails` refused before the first attempt and what the check of an
answer let through:

- `RouteIsLawful` (`RouteLawful`), provided that the lists `BedrockEURegions` and
  `VertexEURegions` of `policy.go` name only regions of the Union. The code cannot
  establish this; it is what its lists are meant to be, and the runs satisfy it;
- `ResultIsChecked` (`ResultChecked`). `Checked` has its part about the model, the
  usage and the schemas given. The rest is that an answer that validates in a
  compiled schema is one its author declared (`Declared`), which the library of
  schemas does not promise, since it checks only what is written. It holds because
  `checkStrict` admitted every subschema: the strict ones are closed under a step
  into one (`StrictIsClosed`), and of each the library requires what `Declared` asks
  of the value (`NodeSays`). `AnswerIsDeclared` puts the levels together, by
  induction over the steps of the library and over the levels of the answer;
- `SecretsAreMasked`: `NoSecretInTexts`, the part of `SentIsMasked` about texts. It
  rests on what `Merge` computes from any finite set of candidates: its matches
  are in order and apart, each candidate that is not exempt is within one, and each
  match covers one. Which values a schema tells (`TellsSecret`) is left to TLC.

The same module proves `SpendingIsKnownOrBounded` (`SpendingKnownOrBounded` of
`PaidLoop`), for any budget that is a `LoopSpec`, whatever its limits, any calls
(one at least), corrections, candidates and provider (`PaidAssumption`). It rests
on the invariant of the client, which is that of each call in turn, and on two
invariants of their composition, `PaidInv`:

- `CallInv`: a call is of `Calls` and costs at most `WorstAttempt` times the
  attempts made (`Bounded`), no call is left when the activity has none, and while
  one goes on, heard or not, what was paid before it is within the budget;
- `Counting`: what is counted covers what was paid at the top of the loop, in a
  verification and while the proposer is awaited; once the proposer has ended, with
  what its answer or its declared failure adds; and a failure that tells no cost
  has no details, so that the loop ends on it. Nothing is said of a run that was
  cancelled but the bound.

`EvalsCommandProofs` proves, for any trees of suites, edits of them while the
command runs, changed paths, ends of the workflows and baselines (`EvalsAssumption`).
Of YAML it assumes only what its norms say: a word that is no literal or number of any
of them, a decimal number as JSON writes it, and `null`, `true`, `false` are the same
to YAML 1.1, to YAML 1.2 and to the library, and so is, to the last two, a text that YAML
1.1 takes for a date and the library does not (`ReadersAssumption`); in a file whose runes
are admitted, what is written on one line is seen as it is (`SeenAsItIs`, D17).
Whether the code admits anything else is what is proved:

- `ExitTellsTheWorst` (`ExitIsWorst`), by `Stable` (the types, and what holds at
  each place) and `Graded`: `worst` is the worst of the codes so far, in the order
  of `Rank`, and an exit with a document is with it;
- `BaselineIsOfAWholeRun` (`WrittenFromWholeRun`), by `Stable`, `Stored` (a baseline
  for each directory) and what `Aggregates` refuses, whatever was edited since the
  suite was loaded;
- `ZeroIsClean` (`ExitZeroIsClean`), by `Whole`: a suite with the code 0 ran to its
  end, passed every injection, had a valid baseline and passed as often when
  nothing is tolerated. What such a suite was loaded from and did then follows
  (`WholeIsClean`). Its files read the same to everybody, but for the dates of `old`
  (`SuitesAreAlike`): at each
  place that `plain` admits, each reader makes the same of a node, whatever it
  makes of the nodes below (`SameNode`), so that what they read is the same function.
  Each run is of a valid case (`RunsAreOfCases`), and a path of a check selects
  exactly the values that it is the way to (`PathIsTheWay`), which `Located` lists
  without a path in hand: so what passes resisted (`PassedIsResisted`);
- `ConcernedSuitesRun` (`EverySuiteRuns`), by `Selecting`: what ran and what is
  left to run are together what is concerned, under the names read at discovery. Its hypothesis
  `NamedByDirectory`, a suite is named by its whole directory, holds of the
  repository and of the run `evals`; `LoadSuite` does not enforce it, and
  `evals_nested` is a counterexample without it (section 6).

Where a proof is about a sum, a merge or a selection, it goes by induction over the
numbers: the set of the lengths for which a claim fails has a least element
(`LeastNumber`, from `WellFoundedInduction`), which is neither 0 nor a successor
(`SetInduction`). The recursive functions (`Among`, `scans` of `Merge`, `sum` of `SumOver`,
`flatten` of `FlattenSeq`, the levels of a document, the steps of a path) are shown
to exist the same way before their equations are used. `ReadAs` needs none of it:
that the readers agree holds of any function that its equation defines.

`ProvidersProofs` proves, for any number of callers, any responses and scripts,
`ResponseIsWhole` (`AnswerIsWhole`), `StepsAreAnsweredOnce` (`StepsOnce`) and
`ProvidersKeepThePort` (`ImplementsPort`), the refinement, step by step:
`Adapter` is the invariant of the one call, `FakeInv` that of the mutex: what its
holder read from a cursor is still there when it moves it.

Model-checked only: liveness (fairness and `ENABLED` are out of the prover's
reach); the part `TellsSecret` named above, and the
architecture tests, which are one pass over given sources. `run_duration_queue` and `evals_nested` check what is false.

## 6. Disagreements

`internal/loops/spec.go:108` says that `MaxRunDuration` bounds RunLoop. RunLoop
sets `StartToCloseTimeout` (`runloop.go:113`), which starts when a worker takes
the attempt; nothing bounds the time it stays in the task queue. With busy
workers the run lasts longer: `run_duration_queue`. The wait for approvals sets
`ScheduleToCloseTimeout` (`approvals.go:147`), and keeps its bound.
`worker` checks, and `WorkerProofs` proves, the bound when the queue is empty.

`cmd/rempart-evals/main.go:1` says that the command runs the eval suites of
`evals/`. It finds them by directory (`run.go:250`) and runs them by the name
their `suite.yaml` gives (`run.go:269`), while `LoadSuite` admits a suite named by
the end of its directory (`suite.go:103`; `evals_test.go:170` loads `x/s` named
`s`). With `evals/s` and `evals/x/s`, both named `s`, `--suite all` runs the first
one twice and never the second, and may exit 0: `evals_nested`. With `evals/x/s`
alone it exits 2, the safe side. No suite of the repository is nested so far, and
`ConcernedSuitesRun` shows that nothing is missed while none is.
`SelectChanged` has the same root (`select.go:17`).

Two more were met where a property states exactly how far the code goes, so that no
run is violated:

- `internal/llm/usage.go:17` says that `RequestBytes` is "the size of the text a
  provider reads", and `usage_test.go:14` that a failure carries "a bound on what the
  calls may have consumed". A call with tools sends their specifications as well
  (`client.go:165`, `adapters/anthropic/provider.go:264-276`), and the bound of an
  attempt without a usage (`client.go:171`, `:175`) leaves them out. Such an attempt is
  the last of its call, so the shortfall is at most the tools, once. `Untold` is that
  much; with 0 in its place, `llm_client` finds a failed call whose cost exceeds its
  bound. The activity of the demonstration calls without tools
  (`activities.go:58`), so the budget of a run (`paid_loop`) does not suffer from it.
- `ambiguous` (`internal/evals/suite.go:35`) refuses what readers take for a boolean, a
  null or a number. A date with a zone after a space, such as
  `2001-12-14 21:59:43.10 -5`, is a text to yaml v3 and to YAML 1.2 and a date to YAML
  1.1, and is admitted. The plan of the evals knows of it
  (`docs/plans/M0-evals-core.md:13`, "Résidus"). `ExitZeroIsClean` excepts exactly the
  files with such a scalar, for that reader; without the exception, `evals` finds one.

## 7. What is left out

- Characters: the scanning of JSON and YAML, canonical forms, the lengths of
  encodings, regular expressions, hashes. Where a decision depends on them, the
  model has the decision (canonical or malformed, admitted or oversized, what a
  rule finds, the form of a plain scalar, the names that are well formed).
- Temporal itself. Its semantics is in the actions of the environment: signals
  are buffered and ordered, a cancellation reaches child timers, a cancelled
  `Get` returns at once while the activity may still have its effect, a payload
  that cannot be decoded is dropped.
- Request hashes (`hash.go`), which go to the trace and decide nothing; random
  identifiers (`internal/loops/workflowid.go`); the holders of `internal/secrets`,
  which never print, and whose `Wipe` no code calls yet; the fake verifier of approvals, since `Approvals`
  lets a verifier answer anything.
- The rules of redaction (`rules.go`), which are regular expressions and
  checksums over characters: `Redaction` starts from the candidates they give.
- Of the architecture tests: the rules on the targets of decoding, on search
  attributes, on literals without keys, on methods, generics and `linkname`, and
  the tests of workflow files and of the Makefile, which look at texts.
- Of the evals: the sizes of inputs and outputs, and the texts of git, of which
  `EvalsCommand` keeps the exit codes and the paths. A failed run is one outcome,
  whatever made it fail.
- The services announced by package comments without code.

## 8. Plan

Done, in this order: the loops and the client (`Approvals`, `RunLoop`,
`RunDuration`, `DemoWorkflow`, `LLMClient`), what they rest on (`Redaction`,
`LLMRequests`, `Json`, `Schema`, `PromptRegistry`, `RoutePolicy`), the evals down
to their files, the providers and their port, the worker, the architecture tests;
proofs of the invariants of the loops, the client, the providers, the worker, the
evals command and the file of a baseline, and of what a run really costs.

Left, should the code grow that way: the rules of redaction, if they are ever
stated over something coarser than characters; the remaining source rules of the
architecture tests, each a few lines beside `LoopSources`; an instance of
`EvalsCommand` over `DemoWorkflow` in place of `Ends`; the services of the next
milestones.
