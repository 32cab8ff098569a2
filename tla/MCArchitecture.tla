----------------------------- MODULE MCArchitecture -----------------------------
(* A small repository, with the edits of the tests of the rules             *)
(* (loops_test.go, loops_harden_test.go, rules_test.go).                    *)
EXTENDS Architecture

GH == "github.com"
MCModule == <<GH, "amezianechayer", "rempart">>
Self == <<GH, "amezianechayer", "rempart">>
Workflow == <<"go.temporal.io", "sdk", "workflow">>
SQL == <<"database", "sql">>

LoopsDir == <<"internal", "loops">>
DemoDir == <<"internal", "loops", "demo">>
LoopsFakeDir == <<"internal", "loops", "fake">>
LLMDir == <<"internal", "llm">>
LLMDomainDir == <<"internal", "llm", "domain">>
LLMFakeDir == <<"internal", "llm", "fake">>
AnthropicDir == <<"internal", "llm", "adapters", "anthropic">>
TenancyDir == <<"internal", "tenancy">>
EvalsDir == <<"internal", "evals">>
WorkerDir == <<"cmd", "rempart-worker">>
EvalsCmdDir == <<"cmd", "rempart-evals">>
WireDir == <<"cmd", "devwire">>
DevDir == <<"internal", "devwire">>
TestdataDir == <<"internal", "evals", "testdata">>

Of(dir) == <<dir[Len(dir)], Self \o dir>>
Plain(dir, paths) == File(dir, "x.go", "", {Of(d) : d \in paths}, <<>>)
Uses(dir, paths, outside) ==
    File(dir, "x.go", "", {Of(d) : d \in paths} \cup {<<p[Len(p)], p>> : p \in outside}, <<>>)

-----------------------------------------------------------------------------
(* The loops *)

ctx == <<"ctx", Sel("workflow", "Context")>>
Takes(type) == <<ctx, <<"s", type>>, <<"in", Name("string")>>>>

LoopsTypes ==
    <<Decl("type", "LoopSpec", TRUE, <<>>, <<>>,
           <<Stmt("expr", "", <<Node("struct", "", "", <<>>, <<Name("string"), Name("Budget")>>)>>)>>),
      Decl("type", "Budget", TRUE, <<>>, <<>>, <<Stmt("expr", "", <<Name("int")>>)>>),
      Decl("type", "ApprovalRequest", TRUE, <<>>, <<>>, <<Stmt("expr", "", <<Name("string")>>)>>),
      Decl("const", "MaxIterationsLimit", TRUE, <<>>, <<>>, <<Stmt("expr", "", <<Basic("200")>>)>>)>>

LoopsFile(name, decls) == File(LoopsDir, name, "", {<<"workflow", Workflow>>}, decls)

LoopsGo ==
    LoopsFile("runloop.go",
         LoopsTypes \o
         <<Decl("func", "RunLoop", TRUE, Takes(Name("LoopSpec")), <<Name("error")>>,
                <<Stmt("return", "", <<Name("nil")>>)>>),
           Decl("func", "AwaitApprovals", TRUE, Takes(Name("ApprovalRequest")), <<Name("error")>>,
                <<Stmt("return", "", <<Name("nil")>>)>>)>>)

(* An entry point of another name: of the type itself, of an alias, of a   *)
(* structure around it, of functions of it, as a variable, as a literal;   *)
(* and two that the rules admit, one of them a type of functions.          *)
EntryPoint(param, types) ==
    LoopsFile("entry.go", types \o
         <<Decl("func", "Start", TRUE, Takes(param), <<Name("error")>>,
                <<Stmt("return", "", <<Name("nil")>>)>>)>>)
VarOf(x, e) == Decl("var", x, FALSE, <<>>, <<>>, <<Stmt("expr", "", <<e>>)>>)
PlanType(type) == <<Decl("type", "Plan", TRUE, <<>>, <<>>, <<Stmt("expr", "", <<type>>)>>)>>

EntryPoints ==
    {EntryPoint(Name("LoopSpec"), <<>>), EntryPoint(Name("string"), <<>>),
     EntryPoint(Name("string"), PlanType(FuncType(<<Name("LoopSpec")>>))),
     EntryPoint(Name("Plan"), PlanType(FuncType(<<Name("LoopSpec")>>))),
     LoopsFile("entry.go", <<VarOf("start", FuncOf(<<Name("LoopSpec")>>))>>),
     LoopsFile("entry.go", <<Decl("var", "Start", TRUE, <<>>, <<FuncType(<<Name("LoopSpec")>>)>>,
                                  <<>>)>>),
     EntryPoint(Name("Plan"), PlanType(Name("LoopSpec"))),
     EntryPoint(Name("Plan"), PlanType(Node("struct", "", "", <<>>, <<Name("ApprovalRequest")>>))),
     LoopsFile("entry.go", <<Decl("func", "start", FALSE, Takes(Name("LoopSpec")), <<Name("error")>>,
                                  <<Stmt("return", "", <<Name("nil")>>)>>),
                             Decl("var", "Start", TRUE, <<>>, <<>>,
                                  <<Stmt("expr", "", <<Name("start")>>)>>)>>)}

-----------------------------------------------------------------------------
(* The demonstration *)

Minutes == Op(<<Basic("10"), Sel("time", "Minute")>>)
WholeBudget ==
    Keyed(Sel("loops", "Budget"), <<"MaxIterations", "MaxTokens", "MaxWallTime">>,
          <<Op(<<Sel("loops", "MaxIterationsLimit"), Basic("20")>>), Basic("10_000"), Minutes>>)
PartBudget ==
    Keyed(Sel("loops", "Budget"), <<"MaxIterations", "MaxWallTime">>, <<Basic("10"), Minutes>>)

SpecLit(id, budget) ==
    Keyed(Sel("loops", "LoopSpec"),
          <<"ID", "ProposeActivity", "VerifyActivity", "Strategies", "Budget">>,
          <<id, Basic("demo.Propose"), Basic("demo.Verify"),
            ListOf(Name("string"), <<Basic("direct"), Basic("strict")>>), budget>>)

SpecDecl(params, id, budget) ==
    Decl("func", "Spec", TRUE, params, <<Sel("loops", "LoopSpec")>>,
         <<Stmt("return", "", <<SpecLit(id, budget)>>)>>)

RequestLit(required, verify) ==
    Keyed(Sel("loops", "ApprovalRequest"),
          <<"PlanHash", "Author", "Required", "NeedsSecurityRole", "VerifyActivity">>,
          <<CallOf(Name("string"), <<Name("res")>>), Name("author"), required, Name("false"), verify>>)
NoRole ==
    Keyed(Sel("loops", "ApprovalRequest"), <<"PlanHash", "Author", "Required", "VerifyActivity">>,
          <<CallOf(Name("string"), <<Name("res")>>), Name("author"), Basic("1"), Name("verifyApproval")>>)

Call(g, arg) == CallOf(Sel("loops", g), <<Name("ctx"), arg, Name("target")>>)

WorkflowDecl(before, spec, between, request) ==
    Decl("func", "Workflow", TRUE,
         <<ctx, <<"target", Name("string")>>, <<"author", Name("string")>>>>, <<Name("error")>>,
         before \o <<Stmt("define", "res", <<Call("RunLoop", spec)>>)>>
         \o between \o <<Stmt("expr", "", <<Call("AwaitApprovals", request)>>),
                         Stmt("return", "", <<Name("nil")>>)>>)

Const(x, e) == Decl("const", x, FALSE, <<>>, <<>>, <<Stmt("expr", "", <<e>>)>>)

DemoImports == {<<"workflow", Workflow>>, <<"time", <<"time">>>>, Of(LoopsDir)}
DemoFile(name, tag, imports, decls) == File(DemoDir, name, tag, imports, decls)

DemoGo(decls, specDecl, workflowDecl) ==
    DemoFile("workflow.go", "", DemoImports,
             <<Const("verifyApproval", Basic("demo.VerifyApproval")), specDecl, workflowDecl>> \o decls)

ctxSpec == CallOf(Name("Spec"), <<>>)
GoodSpec == SpecDecl(<<>>, Basic("demo"), WholeBudget)
Good == RequestLit(Basic("1"), Name("verifyApproval"))
GoodWorkflow == WorkflowDecl(<<>>, ctxSpec, <<>>, Good)
Let(x, e) == <<Stmt("define", x, <<e>>)>>

Demos ==
    {DemoGo(<<>>, GoodSpec, GoodWorkflow),
     \* spec_parameter, field_from_variable, budget_field_missing, package_variable, shadowed_spec
     DemoGo(<<>>, SpecDecl(<<<<"n", Name("int")>>>>, Basic("demo"), WholeBudget),
            WorkflowDecl(<<>>, CallOf(Name("Spec"), <<Name("target")>>), <<>>, Good)),
     DemoGo(<<VarOf("demoID", Basic("demo"))>>, SpecDecl(<<>>, Name("demoID"), WholeBudget), GoodWorkflow),
     DemoGo(<<>>, SpecDecl(<<>>, Basic("demo"), PartBudget), GoodWorkflow),
     DemoGo(<<VarOf("demoSpec", ctxSpec)>>, GoodSpec, WorkflowDecl(<<>>, Name("demoSpec"), <<>>, Good)),
     DemoGo(<<>>, GoodSpec, WorkflowDecl(Let("Spec", FuncOf(<<>>)), ctxSpec, <<>>, Good)),
     \* a name declared in the function, but after its use
     DemoGo(<<>>, GoodSpec, WorkflowDecl(<<>>, ctxSpec, Let("Spec", FuncOf(<<>>)), Good)),
     \* request_variable, required_computed, shadowed_constant, security_role_omitted
     DemoGo(<<>>, GoodSpec, WorkflowDecl(<<>>, ctxSpec, Let("req", Good), Name("req"))),
     DemoGo(<<>>, GoodSpec, WorkflowDecl(<<>>, ctxSpec, <<>>,
                RequestLit(CallOf(Name("len"), <<Name("author")>>), Name("verifyApproval")))),
     DemoGo(<<>>, GoodSpec, WorkflowDecl(<<>>, ctxSpec, Let("verifyApproval", Name("author")), Good)),
     DemoGo(<<>>, GoodSpec, WorkflowDecl(<<>>, ctxSpec, <<>>, NoRole)),
     \* shadowed_package
     DemoGo(<<>>, GoodSpec, WorkflowDecl(<<>>, ctxSpec, Let("time", Name("author")),
                RequestLit(Op(<<Sel("time", "Minute")>>), Name("verifyApproval")))),
     \* another constant, in place of the name
     DemoGo(<<>>, GoodSpec, WorkflowDecl(<<>>, ctxSpec, <<>>,
                RequestLit(Op(<<Basic("1"), Basic("1")>>), Basic("demo.VerifyApproval")))),
     \* registered
     DemoGo(<<VarOf("start", Sel("loops", "RunLoop"))>>, GoodSpec, GoodWorkflow)}

DemoOthers ==
    { \* build_variant; one of the predeclared false
     DemoFile("spec_dev.go", "dev", DemoImports, <<SpecDecl(<<>>, Basic("demo"), PartBudget)>>),
     DemoFile("spec_dev.go", "dev", {}, <<VarOf("false", Basic("true"))>>),
     \* renamed_import, dot_import, a call through a renamed import
     DemoFile("alias.go", "", {<<"lp", Self \o LoopsDir>>}, <<VarOf("start", Sel("lp", "RunLoop"))>>),
     DemoFile("dot.go", "", {<<".", Self \o LoopsDir>>}, <<VarOf("start", Name("RunLoop"))>>),
     DemoFile("alias.go", "", {<<"lp", Self \o LoopsDir>>},
              <<Decl("func", "again", FALSE, <<ctx>>, <<>>,
                     <<Stmt("expr", "", <<CallOf(Sel("lp", "RunLoop"),
                            <<Name("ctx"), ctxSpec, Basic("x")>>)>>)>>)>>)}

-----------------------------------------------------------------------------
(* The rest *)

Packages ==
    {LoopsGo, DemoGo(<<>>, GoodSpec, GoodWorkflow),
     Plain(LoopsFakeDir, {LoopsDir}), Plain(LLMDomainDir, {}),
     Plain(LLMDir, {LLMDomainDir, TenancyDir}), Plain(LLMFakeDir, {LLMDir, LLMDomainDir}),
     Uses(AnthropicDir, {LLMDir}, {<<GH, "anthropics", "anthropic-sdk-go">>}),
     Plain(TenancyDir, {}), Plain(EvalsDir, {LLMDir}),
     Plain(WorkerDir, {DemoDir}), Plain(EvalsCmdDir, {EvalsDir, LLMFakeDir})}

MCBase == Tree(Packages, {}, {})

MCLayout == {Self \o d : d \in {LoopsDir, LLMDir, TenancyDir, EvalsDir, WorkerDir}}

MCWritten ==
    Demos \cup DemoOthers \cup EntryPoints
    \cup {Plain(LLMDomainDir, {TenancyDir}), Uses(LLMDomainDir, {}, {<<GH, "lib">>}),
          Uses(LLMDomainDir, {}, {SQL}), Uses(LLMDir, {LLMDomainDir}, {SQL}),
          Plain(LLMDir, {LLMDomainDir, AnthropicDir}), Plain(EvalsDir, {LLMDir, WireDir}),
          Plain(EvalsDir, {LLMDir, TestdataDir}), Plain(EvalsDir, {LLMDir, DevDir}),
          Plain(WireDir, {LLMFakeDir}), Plain(TestdataDir, {LLMFakeDir}),
          Plain(DevDir, {TenancyDir}), Plain(WorkerDir, {DemoDir, LoopsFakeDir}),
          Plain(WorkerDir, {DemoDir, AnthropicDir}),
          File(WorkerDir, "dev.go", "dev", {Of(LoopsFakeDir)}, <<>>),
          File(TenancyDir, "x.go", "dev", {}, <<>>), Plain(DemoDir, {LLMDir})}

MCLinked == {<<DevDir, LLMFakeDir>>, <<DevDir, LoopsFakeDir>>}
MCAdded == {<<LoopsDir, "asm.s">>, <<LLMDir, "asm.s">>, <<LLMDir, "go.mod">>, <<<<>>, "go.work">>,
            <<<<"vendor">>, "modules.txt">>}
MCForeign == {"asm.s"}
MCDotted == {GH, "go.temporal.io"}
MCUniverse == {"true", "false", "nil", "len", "string", "int", "error"}
MCTags == {"dev"}
MCReflective == {<<"reflect">>, <<"unsafe">>, <<"C">>}
MCIgnored == {"testdata"}
=============================================================================
