----------------------------- MODULE EvalsCommand -----------------------------
(***************************************************************************)
(* The command rempart-evals (cmd/rempart-evals: run.go, git.go): choose   *)
(* the suites, run each of them, compare its report with its baseline, or  *)
(* write that baseline, and exit with a code.                              *)
(*                                                                         *)
(* The command is one sequential process.  The files under evals/ may      *)
(* change while it runs: a suite is loaded once to be selected, and again  *)
(* to be run.  The write of a baseline is one step here; BaselineFile      *)
(* opens it up.                                                            *)
(***************************************************************************)
EXTENDS SuiteFiles

CONSTANTS
    Contents,   \* what a directory may hold
    Trees,      \* what evals/ may be at the start: contents by directory
    Edits,      \* the contents that an edit may leave
    Order,      \* the directories, sorted
    CommandLines,
    Paths,      \* the changed paths git may list
    Ends,       \* how a workflow of the target may end
    Baselines,  \* what the baseline files may be at the start, by name
    NoBaseline, Unreadable,
    ValidTargets,   \* the texts that the demonstration takes as its target
    LongReplies,    \* the replies over the limit of bytes
    MaxReplies

Dirs == ToSet(Order)

(* The flags: how often each is given, and with what.                      *)
CommandLine == [suite: Dirs \cup {"all", "changed", "invalid"},
                suites: Nat, base: {"empty", "zeros", "symbolic", "commit"},
                bases: Nat, write: BOOLEAN, writes: Nat, positional: BOOLEAN]

(* A changed path is in the core, or a path that is not valid; in a        *)
(* directory of suites; and matched by some patterns.                      *)
Path == [core: BOOLEAN, under: DOMAIN Segments, matches: SUBSET Patterns]

(* A baseline file that can be read: counts and tolerances.                *)
Baseline ==
    [report: [identity: STRING, cases: Int, runs: Int, injectionRuns: Int,
              escalationRuns: Int, passed: Int, escalatedRight: Int, resisted: Int,
              iterations: Int, tokens: Int],
     tolerances: [success: Int, escalation: Int, iterations: Int, tokens: Int]]

(* A node of a file whose runes are admitted: what one sees of it is its   *)
(* text, if it is written on one line.                                     *)
SeenAsItIs(n) ==
    /\ n.kind \in {"scalar", "sequence", "mapping", "alias"}
    /\ n.kind = "scalar" =>
         /\ n.style = "plain" => n.text \in DOMAIN Plain
         /\ ~Block(n) /\ n.written = "line" => n.seen = n.text

ASSUME EvalsAssumption ==
    /\ Order \in Seq(DOMAIN Segments) /\ IsInjective(Order)
    /\ \A d \in DOMAIN Segments : Segments[d] \in Seq(STRING)
    /\ \A p \in DOMAIN PathParts : PathParts[p] \in Seq(STRING)
    /\ CaseOrder \in Seq(STRING)
    /\ \A x \in DOMAIN Contents : \A f \in {Contents[x].suite} \cup Range(Contents[x].cases) :
         f.admitted => \A i \in 1..Len(f.docs) : \A n \in PlacesOf(f.docs[i]) : SeenAsItIs(n[1])
    /\ \A t \in Trees : DOMAIN t \subseteq Dirs /\ Range(t) \subseteq DOMAIN Contents
    /\ Edits \subseteq DOMAIN Contents
    /\ CommandLines \subseteq CommandLine
    /\ Paths \subseteq Path
    /\ \A e \in Ends : {e.iterations, e.tokens} \subseteq Nat
    /\ Baselines \subseteq [Dirs -> Baseline \cup {NoBaseline, Unreadable}]
    /\ {MaxDepth, MaxSteps, MaxChecks, MaxRuns, MaxNesting, MaxFileBytes, MaxWatch,
        MaxCases, MaxSuites, MaxReplies} \subseteq Nat

(* The suites that load, by directory and content.                         *)
Loads == {x \in Dirs \X DOMAIN Contents : LoadsSuite(x[1], Contents[x[2]])}

Suites == [x \in {y[2] : y \in Loads} |-> ToSuite(Contents[x])]

-----------------------------------------------------------------------------
(* The target of the demonstration (targets.go): which inputs it takes,    *)
(* and what it makes of a workflow that ended in its test environment.     *)
(* The workflow is that of DemoWorkflow, with scripted replies and a       *)
(* verifier of approvals that refuses every one.                           *)
Targets == {"demo"}

Identity == "fake"

(* demoInput *)
DemoInput(v) ==
    /\ v.kind = "object"
    /\ Keys(v) = {"target", "replies"}
    /\ At(v, "target").kind = "string" /\ At(v, "target").text \in ValidTargets
    /\ At(v, "replies").kind = "array"
    /\ Len(ItemsOf(v, "replies")) \in 1..MaxReplies
    /\ \A r \in ToSet(ItemsOf(v, "replies")) : r.kind = "object" /\ r \notin LongReplies

(* How a workflow ended: with a result, or not.  The best candidate is a   *)
(* JSON value or nothing.                                                  *)
Truth(b) == [kind |-> "boolean", text |-> IF b THEN "true" ELSE "false"]

Null == [kind |-> "null", text |-> "null"]

(* demoProjection *)
Projection(e) ==
    [kind |-> "object",
     members |-> <<<<"status", Str(e.status)>>, <<"reason", Str(e.reason)>>,
                   <<"best", IF e.best = {} THEN Null ELSE CHOOSE v \in e.best : TRUE>>,
                   <<"iterations", [kind |-> "integer", text |-> ToString(e.iterations)]>>,
                   <<"tokens", [kind |-> "integer", text |-> ToString(e.tokens)]>>,
                   <<"approval", Str(e.approval)>>, <<"committed", Truth(e.committed)>>>>]

SchemaValid(e) == e.best # {} /\ e.inSchema

FailedOutcome ==
    [err |-> {"workflow_failed"}, output |-> Null, schemaValid |-> FALSE, status |-> "",
     escalated |-> FALSE, iterations |-> 0, tokens |-> 0]

(* Run *)
OutcomeOf(e) ==
    IF e.failed THEN FailedOutcome
    ELSE [err |-> {}, output |-> Projection(e), schemaValid |-> SchemaValid(e),
          status |-> e.status, escalated |-> e.status = "escalated",
          iterations |-> e.iterations, tokens |-> e.tokens]

-----------------------------------------------------------------------------
(* The command *)

VARIABLES
    opts,       \* the command line, once admitted
    at,         \* where the command is
    tree,       \* evals/: the contents of the directories with a suite.yaml
    edited,     \* somebody edited it
    known,      \* the suites loaded to be selected, each with its directory
    changed,    \* the paths git listed
    fallback,   \* doc.Selection.Fallback
    todo,       \* the names of the suites still to run
    from,       \* the content that the suite in progress was loaded from
    cases,      \* its cases
    outcomes,   \* its outcomes so far
    suites,     \* doc.Suites, with what each suite was loaded from
    worst,
    printed,    \* on the standard output: nothing, the report, the document
    baseline,   \* the baseline file of each suite, by name
    exit        \* the exit code, -1 before

files == <<tree, edited>>

running == <<from, cases>>

vars == <<opts, at, files, known, changed, fallback, todo, running, outcomes, suites,
          worst, printed, baseline, exit>>

OK == 0
Regression == 1
Usage == 2
Missing == 3
Exec == 4

NoOptions == [suite |-> "invalid", suites |-> 0, base |-> "empty", bases |-> 0,
              write |-> FALSE, writes |-> 0, positional |-> FALSE]

Init ==
    /\ opts = NoOptions
    /\ at = "start"
    /\ tree \in Trees
    /\ edited = FALSE
    /\ known = <<>>
    /\ changed = {}
    /\ fallback = ""
    /\ todo = <<>> /\ from = "" /\ cases = <<>> /\ outcomes = <<>> /\ suites = <<>>
    /\ worst = OK
    /\ printed = "nothing"
    /\ baseline \in Baselines
    /\ exit = -1

-----------------------------------------------------------------------------
Exit(code) == at' = "exited" /\ exit' = code

Many == opts.suite \in {"all", "changed"}
Writing == opts.writes = 1

(* parseArgs                                                               *)
ValidCommandLine(c) ==
    LET named == c.suite \notin {"all", "changed"} IN
    /\ ~c.positional
    /\ c.suites = 1 /\ c.bases <= 1 /\ c.writes <= 1
    /\ c.suite # "invalid"
    /\ (c.suite = "changed") <=> (c.bases = 1)
    /\ c.writes = 1 => named /\ c.write

(* A forbidden variable of the environment, or a directory that is not the *)
(* root of the repository, is an error of usage.                           *)
Start(c) ==
    /\ at = "start"
    /\ \/ Exit(Usage) /\ UNCHANGED <<opts, todo>>
       \/ /\ ValidCommandLine(c)
          /\ opts' = c
          /\ IF c.suite \in {"all", "changed"}
             THEN at' = "discover" /\ UNCHANGED todo
             ELSE at' = "load" /\ todo' = <<c.suite>>
          /\ UNCHANGED exit
    /\ UNCHANGED <<files, known, changed, fallback, running, outcomes, suites, worst,
                   printed, baseline>>

NamesOf(loaded) == [i \in DOMAIN loaded |-> loaded[i].suite.name]

(* Slip: a path under the directory of a suite does not concern it.        *)
ConcernsWatching(s, p) == ToSet(s.watch) \cap p.matches # {}

Concerns(s, p) ==
    \/ IsPrefix(Segments[s.name], Segments[p.under])
    \/ ToSet(s.watch) \cap p.matches # {}

(* SelectChanged                                                           *)
SelectChanged(paths) ==
    Among(known, {k \in ToSet(known) : \E p \in paths : p.core \/ Concerns(k.suite, p)})

(* DiscoverSuites, then LoadSuite of each: all of them must load.          *)
Found(t) == Among(Order, Visited(t))

ContentsOf(t) == [d \in DOMAIN t |-> Contents[t[d]]]

DiscoverSuites ==
    LET dirs == Found(ContentsOf(tree))
        loaded == [i \in DOMAIN dirs |-> [dir |-> dirs[i], suite |-> Suites[tree[dirs[i]]]]]
    IN  /\ Discovers(ContentsOf(tree))
        /\ \A d \in ToSet(dirs) : <<d, tree[d]>> \in Loads
        /\ known' = loaded
        /\ IF opts.suite = "all"
           THEN at' = "next" /\ todo' = NamesOf(loaded)
           ELSE at' = "diff" /\ UNCHANGED todo

(* The reading of a directory may fail besides.                            *)
Discover ==
    /\ at = "discover"
    /\ \/ Exit(Usage) /\ UNCHANGED <<known, todo>>
       \/ DiscoverSuites /\ UNCHANGED exit
    /\ UNCHANGED <<opts, files, changed, fallback, running, outcomes, suites, worst,
                   printed, baseline>>

FallsBack(reason) ==
    fallback' = reason /\ todo' = NamesOf(known) /\ UNCHANGED changed

WholeDiff(paths) ==
    /\ changed' = paths
    /\ fallback' = ""
    /\ todo' = NamesOf(SelectChanged(paths))

(* changedPaths: without a base that git knows, that is an ancestor, and   *)
(* whose differences were read whole, every suite is kept.                 *)
Diff ==
    /\ at = "diff"
    /\ at' = "next"
    /\ \/ opts.base = "empty" /\ FallsBack("base_absent")
       \/ opts.base = "zeros" /\ FallsBack("base_null")
       \/ opts.base = "symbolic" /\ FallsBack("base_invalid")
       \/ /\ opts.base = "commit"
          /\ \/ \E reason \in {"git_failed", "base_not_ancestor", "diff_too_large"} :
                  FallsBack(reason)
             \/ \E paths \in SUBSET Paths : WholeDiff(paths)
    /\ UNCHANGED <<opts, files, known, running, outcomes, suites, worst, printed,
                   baseline, exit>>

Current == Head(todo)

NextSuite ==
    /\ at = "next"
    /\ todo # <<>>
    /\ at' = "load"
    /\ UNCHANGED <<opts, files, known, changed, fallback, todo, running, outcomes,
                   suites, worst, printed, baseline, exit>>

Runnable(s) ==
    /\ s.target \in Targets
    /\ \A c \in ToSet(s.cases) : \A v \in c.input : DemoInput(v)

(* The suite is loaded by its name; its target must exist and accept every *)
(* case.                                                                   *)
Load ==
    /\ at = "load"
    /\ IF /\ Current \in DOMAIN tree
          /\ <<Current, tree[Current]>> \in Loads
          /\ Runnable(Suites[tree[Current]])
       THEN /\ at' = "run"
            /\ from' = tree[Current]
            /\ cases' = Suites[tree[Current]].cases
            /\ outcomes' = <<>>
            /\ UNCHANGED exit
       ELSE Exit(Usage) /\ UNCHANGED <<from, cases, outcomes>>
    /\ UNCHANGED <<opts, files, known, changed, fallback, todo, suites, worst,
                   printed, baseline>>

Run(e) ==
    /\ at = "run"
    /\ Len(outcomes) < Total(cases)
    /\ outcomes' = Append(outcomes, OutcomeOf(e))
    /\ UNCHANGED <<opts, at, files, known, changed, fallback, todo, running, suites,
                   worst, printed, baseline, exit>>

-----------------------------------------------------------------------------
(* The end of a suite *)

Report == Aggregate(Identity, cases, outcomes)

(* emit: the standard output may be closed.                                *)
Emit(what, code) ==
    \/ printed' = what /\ Exit(code)
    \/ printed' = "nothing" /\ Exit(Exec)

(* Slip: a missing baseline is no worse than a regression.                 *)
RankByNumber(code) == IF code = Missing THEN 1 ELSE IF code = Regression THEN 2
                      ELSE IF code = Exec THEN 3 ELSE 0

(* worse: 4, 3, 1, 0.                                                      *)
Rank(code) == CASE code = OK -> 0 [] code = Regression -> 1
                [] code = Missing -> 2 [] code = Exec -> 3

Worse(a, b) == IF Rank(b) > Rank(a) THEN b ELSE a

Entry(code) == [suite |-> Current, code |-> code, from |-> from, outcomes |-> outcomes]

(* What a suite alone and one of many do with its code.                    *)
EndSuite(code) ==
    /\ suites' = Append(suites, Entry(code))
    /\ IF Many
       THEN /\ at' = "next"
            /\ todo' = Tail(todo)
            /\ worst' = Worse(worst, code)
            /\ UNCHANGED <<exit, printed>>
       ELSE /\ UNCHANGED <<todo, worst>>
            /\ IF code \in {OK, Regression} THEN Emit("report", code)
               ELSE Exit(code) /\ UNCHANGED printed

(* The target fails, as when the command is interrupted, or the outcomes   *)
(* cannot be aggregated.                                                   *)
FailRun ==
    /\ at = "run"
    /\ \/ Len(outcomes) < Total(cases)
       \/ ~Aggregates(cases, outcomes)
    /\ EndSuite(Exec)
    /\ UNCHANGED <<opts, files, known, changed, fallback, running, outcomes, baseline>>

Ran == at = "run" /\ Aggregates(cases, outcomes)

ReadBaseline == baseline[Current]

(* An unreadable baseline is an error of usage, which stops everything,    *)
(* the writing of a new one included.                                      *)
RefuseBaseline ==
    /\ Ran
    /\ ReadBaseline = Unreadable
    /\ Exit(Usage)
    /\ UNCHANGED <<opts, files, known, changed, fallback, todo, running, outcomes,
                   suites, worst, printed, baseline>>

CompareSuite ==
    /\ Ran
    /\ ~Writing
    /\ ReadBaseline # Unreadable
    /\ EndSuite(IF ReadBaseline = NoBaseline THEN Missing
                ELSE IF Compare(ReadBaseline, Report) = {} THEN OK ELSE Regression)
    /\ UNCHANGED <<opts, files, known, changed, fallback, running, outcomes, baseline>>

New == [report |-> Report, tolerances |-> NoTolerance]

(* writeBaseline, then the report.                                         *)
WriteBaseline ==
    /\ Ran
    /\ Writing
    /\ ReadBaseline # Unreadable
    /\ \/ Exit(Usage) /\ UNCHANGED <<printed, baseline>>
       \/ /\ Validate(New)
          /\ baseline' = [baseline EXCEPT ![Current] = New]
          /\ Emit("report", OK)
    /\ UNCHANGED <<opts, files, known, changed, fallback, todo, running, outcomes,
                   suites, worst>>

Finish ==
    /\ at = "next"
    /\ todo = <<>>
    /\ Emit("document", worst)
    /\ UNCHANGED <<opts, files, known, changed, fallback, todo, running, outcomes,
                   suites, worst, baseline>>

(* Somebody edits a suite.                                                 *)
Edit(d, x) ==
    /\ at # "exited"
    /\ ~edited
    /\ tree' = [tree EXCEPT ![d] = x]
    /\ edited' = TRUE
    /\ UNCHANGED <<opts, at, known, changed, fallback, todo, running, outcomes, suites,
                   worst, printed, baseline, exit>>

Next ==
    \/ \E c \in CommandLines : Start(c)
    \/ Discover \/ Diff \/ NextSuite \/ Load
    \/ \E e \in Ends : Run(e)
    \/ FailRun \/ RefuseBaseline \/ CompareSuite \/ WriteBaseline \/ Finish
    \/ \E d \in DOMAIN tree, x \in Edits : Edit(d, x)

Spec == Init /\ [][Next]_vars

-----------------------------------------------------------------------------
(* Properties *)

(* The suites of evals/: those in no other one.                            *)
Everything == {d \in DOMAIN tree : \A e \in DOMAIN tree : ~Inside(d, e)}

WatchedBy(d) == UNION {ToSet(k.suite.watch) : k \in {x \in ToSet(known) : x.dir = d}}

(* The suites that must run: those the command names, or all of them; with *)
(* "changed" and a diff that can be believed, those a changed path         *)
(* touches, in their directory or in what they watch, and all of them when *)
(* the core changed.                                                       *)
Concerned ==
    CASE ~Many -> {opts.suite}
      [] Many /\ (opts.suite = "all" \/ fallback # "") -> Everything
      [] OTHER -> {d \in Everything : \E p \in changed :
                     \/ p.core
                     \/ IsPrefix(Segments[d], Segments[p.under])
                     \/ WatchedBy(d) \cap p.matches # {}}

(* Every suite concerned is run, and no other, unless the command stops    *)
(* for its usage ("runs the eval suites of evals/", main.go).              *)
EverySuiteRuns ==
    exit \notin {-1, Usage} /\ ~Writing =>
        {suites[i].suite : i \in DOMAIN suites} = Concerned

(* The files from which every reader of YAML, and the eye in what is       *)
(* compared, reads what the program reads, but for dates of YAML 1.1.      *)
Alike ==
    {x \in DOMAIN Suites :
       /\ ReadAlike(Contents[x].suite)
       /\ \A id \in DOMAIN Contents[x].cases : ReadAlike(Contents[x].cases[id])}

(* One step further into a value: into its items, or under one of its      *)
(* keys.  A key is never taken for the step into the items.                *)
Further(p) ==
    {<<Append(p[1], AnyItem), x>> : x \in IF p[2].kind = "array" THEN ToSet(p[2].items) ELSE {}}
    \cup {<<Append(p[1], k), At(p[2], k)>> : k \in Keys(p[2]) \ {AnyItem}}

(* The values of an output, each with the way to it, of as many steps as a *)
(* check may take.                                                         *)
Located(v) ==
    LET located[n \in 0..MaxSteps] ==
            IF n = 0 THEN {<<<<>>, v>>} ELSE UNION {Further(p) : p \in located[n - 1]}
    IN  UNION {located[n] : n \in 0..MaxSteps}

(* What the case forbids is nowhere in the output, and what it requires is *)
(* there.                                                                  *)
Resisted(c, o) ==
    LET There(pc) == \E p \in Located(o.output) :
                        p[1] = PathParts[pc.path] /\ Agrees(pc, p[2])
    IN  /\ o.err = {}
        /\ \A pc \in ToSet(c.expect.mustNotInclude) : ~There(pc)
        /\ \A pc \in ToSet(c.expect.mustInclude) : There(pc)
        /\ AsExpected(c, o)

(* The suite ran whole: every run of a case tagged as an injection passed, *)
(* and no fewer runs passed than in a baseline of the same size without    *)
(* tolerance, the baseline being a valid one.                              *)
RanWhole(e) ==
    LET run == Suites[e.from].cases
        base == baseline[e.suite]
        passed == Passed(run, e.outcomes)
    IN  /\ Len(e.outcomes) = Total(run)
        /\ \A n \in DOMAIN e.outcomes : IsInjection(CaseOf(run)[n]) => n \in passed
        /\ Validate(base)
        /\ base.tolerances = NoTolerance /\ base.report.runs = Len(e.outcomes)
             => Cardinality(passed) >= base.report.passed

(* Its files read as anybody reads them, and every injection resisted.     *)
ReadAndResisted(e) ==
    LET run == CaseOf(Suites[e.from].cases) IN
    /\ e.from \in Alike
    /\ Len(e.outcomes) = Len(run)
    /\ \A n \in DOMAIN e.outcomes : IsInjection(run[n]) => Resisted(run[n], e.outcomes[n])

(* The gate opens only on suites that ran whole, were read as anybody      *)
(* reads their files, a text that only YAML 1.1 takes for a date aside     *)
(* (V7), and resisted what they must.                                      *)
ExitZeroIsClean ==
    exit = OK /\ ~Writing =>
        \A i \in DOMAIN suites : RanWhole(suites[i]) /\ ReadAndResisted(suites[i])

(* The exit code is that of the worst suite, in the order 4, 3, 1, 0 (D8); *)
(* the document shows every one of them, and is missing only when the      *)
(* command stops for its usage or cannot print (D10).                      *)
ExitIsWorst ==
    exit # -1 /\ Many =>
        LET codes == {suites[i].code : i \in DOMAIN suites} IN
        CASE printed = "nothing" -> exit \in {Usage, Exec}
          [] printed = "document" ->
               /\ todo = <<>>
               /\ exit = IF Exec \in codes THEN Exec
                         ELSE IF Missing \in codes THEN Missing
                         ELSE IF Regression \in codes THEN Regression ELSE OK

(* A baseline changes only when asked to, that of the one suite named, and *)
(* only to the report of a whole run of it, with no tolerance; a command   *)
(* that exits for its usage changed nothing (D19).                         *)
WrittenFromWholeRun ==
    [][baseline' # baseline =>
         LET n == opts.suite IN
         /\ Writing /\ ~Many /\ exit' # Usage
         /\ baseline' = [baseline EXCEPT ![n] = baseline'[n]]
         /\ Len(outcomes) = Total(cases)
         /\ baseline'[n].report.runs = Len(outcomes)
         /\ baseline'[n].tolerances = NoTolerance]_vars
=============================================================================
