------------------------------ MODULE LoopSources ------------------------------
(***************************************************************************)
(* The source rules of the loops (internal/archtest/loopsrc.go,            *)
(* CheckLoopSources): RunLoop and AwaitApprovals are called, never handed  *)
(* over, with a specification and a request written in the source; no      *)
(* other way leads to them.  The rules look at the syntax alone, at every  *)
(* file whatever its build tag.                                            *)
(*                                                                         *)
(* Left out: the rules on decoding, on search attributes and on literals   *)
(* without keys, methods, and generic functions.                           *)
(***************************************************************************)
EXTENDS GoSources

CONSTANTS Reflective,   \* reflect, unsafe, C
          Ignored       \* testdata, and the names that begin with "." or "_"

Loops == In(<<"internal", "loops">>)
LoopsFakes == In(<<"internal", "loops", "fake">>)
CmdPath == In(<<"cmd">>)

Under(path, root) == IsPrefix(root, path)

Guarded == {"RunLoop", "AwaitApprovals"}

(* The fields of the literals: those that must be, and those that may.     *)
RequiredFields ==
    [LoopSpec |-> {"ID", "ProposeActivity", "VerifyActivity", "Strategies", "Budget"},
     Budget |-> {"MaxIterations", "MaxTokens", "MaxWallTime"},
     ApprovalRequest |-> {"PlanHash", "Author", "Required", "NeedsSecurityRole",
                          "VerifyActivity"}]

OptionalFields ==
    [LoopSpec |-> {"SwitchAfter", "EscalateAfter", "ActivityTimeout"},
     Budget |-> {},
     ApprovalRequest |-> {"MaxIgnored"}]

-----------------------------------------------------------------------------
(* The index *)

DeclsOf(files, pkg, x) ==
    UNION {{<<f, i>> : i \in {j \in DOMAIN f.decls : f.decls[j].name = x}}
             : f \in {g \in files : PkgOf(g) = pkg}}

(* "dup" for what is declared twice: the variants of a build.              *)
KindOf(files, pkg, x) ==
    LET decls == DeclsOf(files, pkg, x) IN
    CASE Cardinality(decls) = 0 -> ""
      [] Cardinality(decls) = 1 -> LET d == CHOOSE y \in decls : TRUE IN d[1].decls[d[2]].kind
      [] OTHER -> "dup"

TheDecl(files, pkg, x) == CHOOSE y \in DeclsOf(files, pkg, x) : TRUE

(* Slip: only the parameters of a function shadow a name.                  *)
ParamsOnly(d) == ParamNames(d)

(* declNames: every name declared in a declaration, wherever in it.        *)
DeclNames(d) == ParamNames(d) \cup ({s.name : s \in ToSet(d.body)} \ {""})

Unresolved == <<<<>>, "">>

(* resolve, by the syntax alone: the package and the name.                 *)
Resolve(f, locals, e) ==
    LET named == {i \in f.imports : i[1] = e.qual} IN
    CASE e.form = "name" /\ e.qual = "" /\ e.name \notin locals -> <<PkgOf(f), e.name>>
      [] e.form = "name" /\ e.qual \notin locals \cup {""} /\ named # {} ->
           <<(CHOOSE i \in named : TRUE)[2], e.name>>
      [] OTHER -> Unresolved

ExprsOf(d) == UNION {ToSet(s.exprs) : s \in ToSet(d.body)}

TypesOf(d) == {p[2] : p \in ToSet(d.params)} \cup ToSet(d.results)

Mentions(f, specs, e) ==
    \E n \in NodesOf(e) : n.form = "name" /\ Resolve(f, {}, n) \in specs

(* The fixed point: LoopSpec, ApprovalRequest, and the types built on one. *)
RECURSIVE Grown(_, _)
Grown(files, specs) ==
    LET more == {<<PkgOf(f), d.name>> : <<f, d>> \in
                   {<<g, c>> \in UNION {{h} \X ToSet(h.decls) : h \in files} :
                      c.kind = "type" /\ \E e \in ExprsOf(c) : Mentions(g, specs, e)}}
    IN  IF more \subseteq specs THEN specs ELSE Grown(files, specs \cup more)

SpecTypes(files) ==
    Grown(files, {<<Loops, "LoopSpec">>, <<Loops, "ApprovalRequest">>})

TakesSpec(f, specs, params) == \E p \in params : Mentions(f, specs, p)

FuncTakesSpec(f, specs, d) ==
    d.kind = "func" /\ TakesSpec(f, specs, {p[2] : p \in ToSet(d.params)})

-----------------------------------------------------------------------------
(* Constants *)

IsName(files, f, locals, e, x) ==
    /\ e.form = "name" /\ e.qual = "" /\ e.name = x /\ x \notin locals
    /\ KindOf(files, PkgOf(f), x) = ""

Units == {"Nanosecond", "Microsecond", "Millisecond", "Second", "Minute", "Hour"}

RECURSIVE IsConst(_, _, _, _)
IsConst(files, f, locals, e) ==
    \/ e.form = "basic"
    \/ e.form = "op" /\ \A x \in ToSet(e.args) : IsConst(files, f, locals, x)
    \/ /\ e.form = "list"
       /\ IsName(files, f, locals, e.args[1], "string") /\ Len(e.args) > 1
       /\ \A x \in ToSet(Tail(e.args)) : IsConst(files, f, locals, x)
    \/ /\ e.form = "name"
       /\ \/ \E b \in {"true", "false"} : IsName(files, f, locals, e, b)
          \/ LET r == Resolve(f, locals, e) IN
             IF r[1] = <<"time">> THEN r[2] \in Units ELSE KindOf(files, r[1], r[2]) = "const"

IsLoops(files, f, locals, e, type) ==
    Resolve(f, locals, e) = <<Loops, type>> /\ KindOf(files, Loops, type) = "type"

(* A literal with its required fields, no other than its own, none twice.  *)
KeyedBy(files, f, locals, e, type) ==
    /\ e.form = "keyed" /\ IsLoops(files, f, locals, e.args[1], type)
    /\ IsInjective(e.keys)
    /\ RequiredFields[type] \subseteq ToSet(e.keys)
    /\ ToSet(e.keys) \subseteq RequiredFields[type] \cup OptionalFields[type]

ConstFields(files, f, locals, e, fields) ==
    \A k \in ToSet(e.keys) \cap fields : IsConst(files, f, locals, ValueAt(e, k))

(* A function without parameters, whose body returns a constant LoopSpec.  *)
SpecFunc(files, f, d) ==
    LET locals == DeclNames(d)
        spec == d.body[1].exprs[1]
        budget == ValueAt(spec, "Budget")
    IN
    /\ d.params = <<>> /\ Len(d.results) = 1
    /\ IsLoops(files, f, locals, d.results[1], "LoopSpec")
    /\ Len(d.body) = 1 /\ d.body[1].kind = "return" /\ Len(d.body[1].exprs) = 1
    /\ KeyedBy(files, f, locals, spec, "LoopSpec")
    /\ ConstFields(files, f, locals, spec, ToSet(spec.keys) \ {"Budget"})
    /\ KeyedBy(files, f, locals, budget, "Budget")
    /\ ConstFields(files, f, locals, budget, ToSet(budget.keys))

SpecCall(files, f, locals, call) ==
    /\ Len(call.args) = 4
    /\ call.args[3].form = "call" /\ Len(call.args[3].args) = 1
    /\ LET r == Resolve(f, locals, call.args[3].args[1]) IN
       /\ KindOf(files, r[1], r[2]) = "func"
       /\ LET d == TheDecl(files, r[1], r[2]) IN SpecFunc(files, d[1], d[1].decls[d[2]])

RequestLiteral(files, f, locals, call) ==
    LET request == call.args[3] IN
    /\ Len(call.args) = 4
    /\ KeyedBy(files, f, locals, request, "ApprovalRequest")
    /\ ConstFields(files, f, locals, request, ToSet(request.keys) \ {"PlanHash", "Author"})

-----------------------------------------------------------------------------
(* The rules *)

RefersTo(f, e, g) ==
    /\ e.form = "name" /\ e.name = g
    /\ IF e.qual = "" THEN PkgOf(f) = Loops ELSE Resolve(f, {}, e) = <<Loops, g>>

(* The names in an expression that are not the callee of a call: an        *)
(* expression is a value where it stands by itself or as an argument.      *)
ValuesIn(e) ==
    {x \in {e} \cup UNION {ToSet(IF n.form = "call" THEN Tail(n.args) ELSE n.args)
                             : n \in NodesOf(e)} : x.form = "name"}

Calls(e, f, g) == {n \in NodesOf(e) : n.form = "call" /\ RefersTo(f, n.args[1], g)}

(* ref: used as a value, or called with something else than a constant; in *)
(* loops, declared anew; or named by a literal.                            *)
RefViolations(files, f, d) ==
    LET written == ExprsOf(d) \cup TypesOf(d)
        named(g) ==
            \/ PkgOf(f) = Loops /\ g \in DeclNames(d)
            \/ \E e \in written :
                 \/ \E x \in ValuesIn(e) : RefersTo(f, x, g)
                 \/ \E n \in NodesOf(e) : n.form = "basic" /\ n.name = g
    IN
    {<<"not-registered", f.dir>> : g \in {h \in Guarded : named(h)}}
    \cup UNION {
      {<<"loop-spec-constant", f.dir>> :
         c \in {n \in Calls(e, f, "RunLoop") : ~SpecCall(files, f, DeclNames(d), n)}}
      \cup {<<"approval-request-constant", f.dir>> :
         c \in {n \in Calls(e, f, "AwaitApprovals") : ~RequestLiteral(files, f, DeclNames(d), n)}}
        : e \in ExprsOf(d)}

(* A function, by name or literal, that takes a spec.                      *)
ValueTakesSpec(files, specs, f, e) ==
    \/ e.form = "func" /\ TakesSpec(f, specs, ToSet(e.args))
    \/ LET r == Resolve(f, {}, e)
           guards == r[1] = Loops /\ r[2] \in Guarded
       IN  /\ DeclsOf(files, r[1], r[2]) # {} /\ ~guards
           /\ LET t == TheDecl(files, r[1], r[2]) IN FuncTakesSpec(t[1], specs, t[1].decls[t[2]])

TypeTakesSpec(specs, f, t) ==
    \/ t.form = "type" /\ TakesSpec(f, specs, ToSet(t.args))
    \/ Resolve(f, {}, t) \in specs

(* In the loops, but for the guarded functions, what is exported takes no  *)
(* spec, and what takes one is only called; no function literal takes one. *)
EntryViolations(files, specs, f, d) ==
    LET inLoops == Under(PkgOf(f), Loops)
        exported ==
            /\ d.exported
            /\ \/ FuncTakesSpec(f, specs, d) /\ ~(PkgOf(f) = Loops /\ d.name \in Guarded)
               \/ /\ d.kind = "var"
                  /\ \/ \E e \in ExprsOf(d) : ValueTakesSpec(files, specs, f, e)
                     \/ \E t \in ToSet(d.results) : TypeTakesSpec(specs, f, t)
        asValue ==
            \E e \in ExprsOf(d) : \E x \in ValuesIn(e) :
                /\ x.qual = "" /\ x.name \notin DeclNames(d)
                /\ KindOf(files, PkgOf(f), x.name) = "func"
                /\ ValueTakesSpec(files, specs, f, x)
        literal ==
            \E e \in ExprsOf(d) : \E n \in NodesOf(e) :
               n.form = "func" /\ TakesSpec(f, specs, ToSet(n.args))
    IN  IF (inLoops /\ (exported \/ asValue)) \/ literal
        THEN {<<"loops-no-spec-entrypoint", f.dir>>} ELSE {}

(* A directory that the patterns of go ignore.                             *)
IgnoredElem(x) == x \in Ignored

(* Slip: a package that is not a command may be imported from anywhere.    *)
CmdImportable(f, path) == FALSE

CmdImport(f, path) == Under(path, CmdPath) /\ ~Under(PkgOf(f), CmdPath)

ImportViolations(f) ==
    UNION {
      {<<"no-dot-import", f.dir>> : x \in {y \in {i[1]} : y = "."}}
      \cup {<<"loops-fake-tests-only", f.dir>> : x \in
              {y \in {i[2]} : Under(y, LoopsFakes) /\ ~Under(PkgOf(f), LoopsFakes)}}
      \cup {<<"no-ignored-dir-import", f.dir>> : x \in
              {y \in {i[2]} : InModule(y) /\ \E s \in ToSet(y) : IgnoredElem(s)}}
      \cup {<<"no-cmd-import", f.dir>> : x \in {y \in {i[2]} : CmdImport(f, y)}}
      \cup {<<"loops-no-reflection", f.dir>> : x \in
              {y \in {i[2]} : Under(PkgOf(f), Loops) /\ y \in Reflective}}
        : i \in f.imports}

CheckLoopSources(files) ==
    LET specs == SpecTypes(files) IN
    UNION {ImportViolations(f)
           \cup UNION {RefViolations(files, f, d) \cup EntryViolations(files, specs, f, d)
                         : d \in ToSet(f.decls)} : f \in files}
    \cup {<<"not-declared", Loops>> : g \in {h \in Guarded : KindOf(files, Loops, h) # "func"}}
=============================================================================
