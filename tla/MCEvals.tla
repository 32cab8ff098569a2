------------------------------- MODULE MCEvals -------------------------------
(* Small instances of EvalsCommand for TLC: two suites, one of them with a *)
(* case that is an injection, whose files are written well, or with one    *)
(* thing wrong (evals_test.go).                                            *)
EXTENDS EvalsCommand

(* Nodes.                                                                  *)
Scalar(style, t) == [kind |-> "scalar", style |-> style, text |-> t, seen |-> t,
                     mark |-> "none", written |-> "line"]
P(t) == Scalar("plain", t)
Q(t) == Scalar("double", t)
L(nodes) == [kind |-> "sequence", nodes |-> nodes, mark |-> "none"]
MapOf(pairs) == [kind |-> "mapping", pairs |-> pairs, mark |-> "none"]
M(pairs) == MapOf([i \in DOMAIN pairs |-> <<P(pairs[i][1]), pairs[i][2]>>])

Atom(kind, t) == [kind |-> kind, text |-> t]
To(form, program, core, old) ==
    [form |-> form, program |-> program, core |-> core, old |-> old]
ToAll(form, v) == To(form, v, v, v)

Words == {"id", "loop", "tags", "input", "expect", "runs", "name", "target", "watch",
          "path", "equals", "contains", "replies", "greeting", "schema_valid",
          "escalation", "status", "max_iterations", "max_open_questions",
          "must_include", "must_not_include", "Status", "c1", "c2", "a", "b", "s", "L0",
          "demo", "other", "injection", "bonjour", "bon", "converged", "w/**", "[/**",
          "x y"}

(* The words, and one scalar at least of each other form.                  *)
MCPlain == [t \in Words \cup {"yes", "1:30", "=", "true", "True", "null", "~", "1", "2", "0",
                "3", "-0", "010", "0b1", "1_0", "1.5", "1.50", "huge", "1e3", ".5", ".inf",
                "long", "2001-12-14", "2001-12-14 9:00:00 -5", "<<"} |->
    CASE t \in Words -> ToAll("word", Str(t))
      [] t = "yes"  -> To("yes_no", Str(t), Str(t), Atom("boolean", "true"))
      [] t = "1:30" -> To("sexagesimal", Str(t), Str(t), Atom("integer", "90"))
      [] t = "="    -> To("value", Str(t), Str(t), Atom("value", t))
      [] t \in {"true", "True"} -> ToAll("boolean", Atom("boolean", "true"))
      [] t \in {"null", "~"} -> ToAll("null", Atom("null", "null"))
      [] t \in {"0", "1", "2", "3"} -> ToAll("integer", Atom("integer", t))
      [] t = "-0"   -> ToAll("signed", Atom("integer", "0"))
      [] t = "010"  -> To("octal", Atom("integer", "8"), Atom("integer", "10"), Atom("integer", "8"))
      [] t = "0b1"  -> To("based", Atom("integer", "1"), Str(t), Atom("integer", "1"))
      [] t = "1_0"  -> To("underscored", Atom("integer", "10"), Str(t), Atom("integer", "10"))
      [] t = "1.5"  -> ToAll("decimal", Atom("number", "1.5"))
      [] t = "1.50" -> ToAll("padded", Atom("number", "1.5"))
      [] t = "huge" -> ToAll("huge", Atom("long_number", t))
      [] t = "1e3"  -> To("exponent", Atom("number", "1000"), Atom("number", "1000"), Str(t))
      [] t = ".5"   -> ToAll("dotted", Atom("number", "0.5"))
      [] t = ".inf" -> ToAll("special", Atom("special", t))
      [] t = "long" -> To("long", Atom("number", "rounded"), Atom("integer", t), Atom("integer", t))
      [] t = "2001-12-14" -> To("date", Atom("timestamp", t), Str(t), Atom("timestamp", t))
      [] t = "2001-12-14 9:00:00 -5" -> To("timestamp", Str(t), Str(t), Atom("timestamp", t))
      [] t = "<<"   -> To("merge", Str(t), Str(t), Str(t))]

MCTokens == [id |-> {"c1", "c2"}, loop |-> {"L0"}, name |-> {"demo", "other"},
             tag |-> {"injection", "null"}, segment |-> {"a", "b", "s", "x", "n", "cases", "all"}]
MCPathParts == [p \in {"$", "$.best.greeting", "$.committed", "$.reason", "$..a", "$.a[*].b",
                     "$.a.b.a.b"} |->
    CASE p = "$" -> <<>>
      [] p = "$.best.greeting" -> <<"best", "greeting">>
      [] p = "$.committed" -> <<"committed">>
      [] p = "$.reason" -> <<"reason">>
      [] p = "$..a" -> <<"", "a">>
      [] p = "$.a.b.a.b" -> <<"a", "b", "a", "b">>
      [] p = "$.a[*].b" -> <<"a", "[*]", "b">>]
MCFieldNames == {"best", "greeting", "committed", "reason", "a", "b"}
MCWorth == [t \in {"0", "1", "2", "3", "1.5"} |->
    CASE t = "0" -> <<0, 1>> [] t = "1" -> <<1, 1>> [] t = "2" -> <<2, 1>>
      [] t = "3" -> <<3, 1>> [] t = "1.5" -> <<3, 2>>]
MCHolds == {<<"bonjour", "bon">>}
MCSegments == [d \in {"a", "b", "s", "x/s", "a/n", "a/cases/n", "all", "elsewhere"} |->
    CASE d = "x/s" -> <<"x", "s">> [] d = "a/n" -> <<"a", "n">>
      [] d = "a/cases/n" -> <<"a", "cases", "n">> [] d = "elsewhere" -> <<"..">>
      [] OTHER -> <<d>>]
MCCaseOrder == <<"c1", "c2", "x">>

-----------------------------------------------------------------------------
(* Files.                                                                  *)
File(root) == [regular |-> TRUE, bytes |-> 1, admitted |-> TRUE, directive |-> FALSE,
               docs |-> <<root>>]

Input == M(<<<<"target", P("bonjour")>>,
             <<"replies", L(<<M(<<<<"greeting", P("bonjour")>>>>)>>)>>>>)

CaseNode(id, input, expect, more) ==
    M(<<<<"id", P(id)>>, <<"loop", P("L0")>>, <<"input", input>>, <<"expect", expect>>>> \o more)

Tagged == <<<<"tags", L(<<P("injection")>>)>>>>

Equals(path, n) == M(<<<<"path", Q(path)>>, <<"equals", n>>>>)
Includes(path, n) == M(<<<<"path", Q(path)>>, <<"contains", n>>>>)

(* Nothing is committed, and something else, n, is not either.             *)
Forbids(checks) ==
    M(<<<<"status", P("converged")>>,
        <<"must_include", L(<<Equals("$.best.greeting", Q("bonjour"))>>)>>,
        <<"must_not_include", L(<<Equals("$.committed", P("true"))>> \o checks)>>>>)

InjectionFile(checks) == File(CaseNode("c1", Input, Forbids(checks), Tagged))

With(n) == InjectionFile(<<Equals("$.reason", n)>>)

Escalates == File(CaseNode("c2", Input, M(<<<<"escalation", P("true")>>>>), <<>>))

Bounded ==
    File(CaseNode("c1", Input,
                  M(<<<<"max_iterations", P("2")>>, <<"max_open_questions", P("0")>>,
                      <<"schema_valid", P("true")>>,
                      <<"must_include", L(<<Includes("$.best.greeting", P("bon"))>>)>>>>),
                  <<<<"runs", P("1")>>>>))

SuiteFile(name, target, watch) ==
    File(M(<<<<"name", P(name)>>, <<"loop", P("L0")>>, <<"target", P(target)>>,
             <<"watch", L(watch)>>>>))

Dir(suite, given) == [real |-> TRUE, link |-> FALSE, realCases |-> TRUE, suite |-> suite,
                      cases |-> given]

Single(f) == [id \in {"c1"} |-> f]
A(f) == Dir(SuiteFile("a", "demo", <<>>), [id \in {"c1", "c2"} |-> IF id = "c1" THEN f ELSE Escalates])
B == Dir(SuiteFile("b", "demo", <<P("w/**")>>), Single(Bounded))
(* B watches nothing any more, and its run is as long as it likes.         *)
Easier ==
    Dir(SuiteFile("b", "demo", <<>>),
        Single(File(CaseNode("c1", Input, M(<<<<"schema_valid", P("true")>>>>), <<>>))))

S == Dir(SuiteFile("s", "demo", <<>>), Single(Bounded))

Plainest == InjectionFile(<<>>)

(* Everything that is admitted but unusual.                                *)
Styles ==
    LET input == M(<<<<"target", Scalar("literal", "bonjour")>>,
                     <<"replies", L(<<M(<<<<"greeting", P("null")>>,
                                          <<"runs", [P("x y") EXCEPT !.written = "lines"]>>>>)>>)>>>>)
        checks == <<Equals("$.reason", P("null")), Equals("$.reason", Q("yes")),
                    Equals("$.reason", P("1.5")),
                    Equals("$.reason", L(<<P("1"), P("x y"), P("2001-12-14 9:00:00 -5")>>)),
                    Equals("$.reason", M(<<<<"a", P("1")>>>>)), Includes("$.a[*].b", P("1"))>>
    IN  File(CaseNode("c1", input, Forbids(checks), Tagged \o <<<<"runs", P("1")>>>>))

Each(s, Op(_)) == [i \in DOMAIN s |-> Op(s[i])]

(* Values that some reader reads otherwise, or that are written oddly.     *)
OddValues ==
    Each(<<"yes", "1:30", "=", "True", "~", "-0", "010", "0b1", "1_0", "1.50", "1e3", ".5",
           ".inf", "long", "2001-12-14", "huge">>, P)
    \o Each(<<"bang", "tag", "anchor">>, LAMBDA mark : [P("1") EXCEPT !.mark = mark])
    \o <<[kind |-> "alias", text |-> "a"],
         [Scalar("literal", "bon") EXCEPT !.seen = "bonjour", !.written = "lines"],
         [P("x y") EXCEPT !.seen = "bon", !.written = "lines"],
         [Q("bon") EXCEPT !.seen = "b", !.written = "odd_escape"],
         MapOf(<<<<P("1"), P("a")>>>>), MapOf(<<<<P("<<"), M(<<<<"a", P("a")>>>>)>>>>),
         M(<<<<"a", P("a")>>, <<"a", P("b")>>>>),
         L(<<L(<<L(<<L(<<L(<<P("a")>>)>>)>>)>>)>>)>>

(* Checks, fields and files that are refused.                              *)
OddChecks ==
    <<Equals("$..a", P("a")), Equals("$.a.b.a.b", P("a")), Includes("$.a[*].b", P("null")),
      Includes("$.reason", Q("")),
      M(<<<<"path", Q("$")>>, <<"equals", P("a")>>, <<"contains", P("a")>>>>),
      M(<<<<"path", Q("$")>>, <<"Status", P("a")>>>>)>>

OddFields ==
    <<<<"runs", P("0")>>, <<"runs", P("3")>>, <<"runs", P("a")>>, <<"id", P("c1")>>,
      <<"tags", L(<<P("yes")>>)>>, <<"name", P("a")>>>>

OddExpects == <<M(<<>>), M(<<<<"max_iterations", P("0")>>>>), M(<<<<"status", P("null")>>>>)>>

OddFiles ==
    Each(OddChecks, LAMBDA n : InjectionFile(<<n>>))
    \o Each(OddFields, LAMBDA f : File(CaseNode("c1", Input, Forbids(<<>>), <<f>>)))
    \o Each(OddExpects, LAMBDA n : File(CaseNode("c1", Input, n, Tagged)))
    \o <<InjectionFile([i \in 1..7 |-> Equals("$.reason", P("a"))]),
         File(CaseNode("c1", M(<<<<"target", P("huge")>>>>), Forbids(<<>>), Tagged)),
         File(CaseNode("c2", Input, Forbids(<<>>), Tagged)),
         [Plainest EXCEPT !.regular = FALSE], [Plainest EXCEPT !.bytes = 2],
         [With([Q("bon") EXCEPT !.seen = "bonjour"]) EXCEPT !.admitted = FALSE],
         [With(P("010")) EXCEPT !.directive = TRUE], [Plainest EXCEPT !.docs = <<>>],
         [Plainest EXCEPT !.docs = @ \o With(P("a")).docs]>>

(* Inputs that the target refuses.                                         *)
Replies(nodes) == M(<<<<"target", P("bonjour")>>, <<"replies", L(nodes)>>>>)

Refused ==
    Each(<<M(<<<<"target", P("bonjour")>>>>),
           M(<<<<"target", P("1")>>, <<"replies", L(<<M(<<<<"greeting", P("bonjour")>>>>)>>)>>>>),
           Replies(<<>>), Replies(<<P("a")>>), Replies(<<M(<<<<"greeting", P("b")>>>>)>>)>>,
         LAMBDA n : File(CaseNode("c1", n, Forbids(<<>>), Tagged)))

OddDirs ==
    <<[A(Plainest) EXCEPT !.real = FALSE], [A(Plainest) EXCEPT !.realCases = FALSE],
      [A(Plainest) EXCEPT !.link = TRUE], [A(Plainest) EXCEPT !.suite.regular = FALSE],
      [A(Plainest) EXCEPT !.suite = SuiteFile("b", "demo", <<>>)],
      [A(Plainest) EXCEPT !.suite = SuiteFile("a", "other", <<>>)],
      [A(Plainest) EXCEPT !.suite = SuiteFile("a", "demo", <<P("[/**")>>)],
      [A(Plainest) EXCEPT !.suite = SuiteFile("a", "demo", <<P("w/**"), P("w/**")>>)],
      [A(Plainest) EXCEPT !.cases = [id \in {"x"} |-> Plainest]]>>

OddContents ==
    Each(OddValues, LAMBDA n : A(With(n))) \o Each(OddFiles \o Refused, A) \o OddDirs

OddNames == Each([i \in DOMAIN OddContents |-> i], LAMBDA i : "odd" \o ToString(i))

TwoDocuments == A([Plainest EXCEPT !.docs = @ \o <<CaseNode("c1", Input, M(<<>>), <<>>)>>])

MCContents ==
    LET names == <<"a", "b", "s", "styles", "easier", "documents">> \o OddNames
        contents == <<A(Plainest), B, S, A(Styles), Easier, TwoDocuments>> \o OddContents
    IN  [x \in ToSet(names) |-> contents[CHOOSE i \in DOMAIN names : names[i] = x]]

MCEdits == {"easier"}

-----------------------------------------------------------------------------
(* What evals/ may be, the command lines, the paths that changed.          *)
OneDir(x) == [d \in {"a"} |-> x]
And(d, x) == OneDir("a") @@ [e \in {d} |-> x]

FlatTrees ==
    {And("b", "b")}
    \cup {OneDir(x) : x \in Range(OddNames) \cup {"styles", "documents"}}
    \cup {And(d, "a") : d \in {"a/n", "a/cases/n", "all"}}

NestedTrees == {[d \in {"s", "x/s"} |-> "s"]}

FlatOrder == <<"a", "a/cases/n", "a/n", "all", "b">>
NestedOrder == <<"s", "x/s">>

Flags(suite, given, base, bases, write, writes) ==
    [suite |-> suite, suites |-> given, base |-> base, bases |-> bases,
     write |-> write, writes |-> writes, positional |-> FALSE]

FlatLines ==
    {Flags("a", 1, "empty", 0, FALSE, 0), Flags("a", 1, "empty", 0, TRUE, 1),
     Flags("all", 1, "empty", 0, FALSE, 0), Flags("all", 1, "empty", 0, TRUE, 1),
     Flags("invalid", 1, "empty", 0, FALSE, 0), Flags("a", 2, "empty", 0, FALSE, 0),
     Flags("a", 1, "commit", 1, FALSE, 0), Flags("changed", 1, "empty", 0, FALSE, 0),
     Flags("a", 1, "empty", 0, FALSE, 1)}
    \cup {Flags("changed", 1, base, 1, FALSE, 0)
            : base \in {"empty", "zeros", "symbolic", "commit"}}

NestedLines == {Flags("all", 1, "empty", 0, FALSE, 0)}

MCPatterns == {"w/**"}

FlatPaths ==
    {[core |-> TRUE, under |-> "elsewhere", matches |-> {}],
     [core |-> FALSE, under |-> "a", matches |-> {}],
     [core |-> FALSE, under |-> "elsewhere", matches |-> MCPatterns]}

-----------------------------------------------------------------------------
(* The ends of a workflow, those of one that went wrong among them.        *)
Ended(status, greeting, committed, iterations) ==
    [failed |-> FALSE, status |-> status, reason |-> "why",
     best |-> {[kind |-> "object", members |-> <<<<"greeting", Str(greeting)>>>>]},
     inSchema |-> TRUE, iterations |-> iterations, tokens |-> 1, approval |-> "rejected",
     committed |-> committed]

Good == Ended("converged", "bonjour", FALSE, 1)
Away == Ended("escalated", "salut", FALSE, 2)
Committed == Ended("converged", "bonjour", TRUE, 3)

MCEnds == {Good, Away, Committed, [Good EXCEPT !.failed = TRUE, !.best = {}]}

MCLongReplies == {[kind |-> "object", members |-> <<<<"greeting", Str("b")>>>>]}

(* Of "a", no baseline, one that cannot be read, a good one, one that      *)
(* tolerates too much, and one where the injection passed; with the last,  *)
(* that of "b" tolerates too much.                                         *)
BaselineOf(x, ends, tolerance) ==
    [report |-> Aggregate(Identity, ToSuite(x).cases,
                          [n \in DOMAIN ends |-> OutcomeOf(ends[n])]),
     tolerances |-> [NoTolerance EXCEPT !.success = tolerance]]

FlatBaselines ==
    LET Both(forA, tolerance) ==
            [d \in Dirs |-> CASE d = "a" -> forA
                              [] d = "b" -> BaselineOf(B, <<Good>>, tolerance)
                              [] OTHER -> NoBaseline]
        GoodA(tolerance) == BaselineOf(A(Plainest), <<Good, Away>>, tolerance)
    IN  {Both(NoBaseline, 0), Both(Unreadable, 0), Both(GoodA(0), 0), Both(GoodA(11), 0),
         Both(BaselineOf(A(Plainest), <<Committed, Away>>, 0), 11)}

NestedBaselines == {[d \in Dirs |-> BaselineOf(S, <<Good>>, 0)]}
=============================================================================
