------------------------------- MODULE ArchRules -------------------------------
(***************************************************************************)
(* The import rules of the architecture tests (internal/archtest/rules.go, *)
(* packages.go, pkgdirs.go): which package of the module may import which, *)
(* over what `go list` says of the packages.                               *)
(*                                                                         *)
(* An import path is the sequence of its segments.                         *)
(***************************************************************************)
EXTENDS Naturals, SequencesExt

CONSTANTS
    Module,     \* the path of the module
    Dotted,     \* the segments with a dot in them
    Partial     \* the segments with a wildcard among other characters

In(p) == Module \o p

IsStdlib(path) == path[1] \notin Dotted \cup {""}

WellFormed(path) == path # <<>> /\ "" \notin ToSet(path)

InModule(path) == IsPrefix(Module, path)

Wild == {"*", "..."}

(* A module that could be taken for the standard library checks nothing.   *)
ValidModule ==
    WellFormed(Module) /\ ToSet(Module) \cap (Partial \cup Wild) = {} /\ ~IsStdlib(Module)

-----------------------------------------------------------------------------
(* Patterns *)

Std == <<"std">>
All == <<"...">>

ValidPattern(p) ==
    \/ p \in {Std, All}
    \/ /\ WellFormed(p)
       /\ ToSet(p) \cap Partial = {}
       /\ "..." \notin ToSet(Front(p))

Match(p, path) ==
    /\ ValidPattern(p) /\ WellFormed(path)
    /\ \/ p = All
       \/ p = Std /\ IsStdlib(path)
       \/ /\ p \notin {Std, All}
          /\ LET subtree == Last(p) = "..."
                 segments == IF subtree THEN Front(p) ELSE p
             IN  /\ IF subtree THEN Len(path) >= Len(segments) ELSE Len(path) = Len(segments)
                 /\ \A k \in DOMAIN segments : segments[k] \in {"*", path[k]}

MatchAny(patterns, path) == \E p \in patterns : Match(p, path)

-----------------------------------------------------------------------------
(* Rules *)

(* Only importers in allowedFrom may import a target.                      *)
ConfineRule(name, targets, allowedFrom) ==
    [name |-> name, kind |-> "confine", from |-> {}, targets |-> targets,
     allowedFrom |-> allowedFrom, allowedTargets |-> {}]

(* The importers of from may import, among the targets, the allowed ones.  *)
RestrictRule(name, from, targets, allowedTargets) ==
    [name |-> name, kind |-> "restrict", from |-> from, targets |-> targets,
     allowedFrom |-> {}, allowedTargets |-> allowedTargets]

Cmd == In(<<"cmd", "...">>)
Domain == In(<<"internal", "*", "domain", "...">>)
Adapters == In(<<"internal", "*", "adapters", "...">>)
Fakes == In(<<"internal", "*", "fake", "...">>)
Anthropic == In(<<"internal", "llm", "adapters", "anthropic", "...">>)
LoopsFake == In(<<"internal", "loops", "fake", "...">>)

Engine == {In(<<"internal", "loops">>), In(<<"internal", "loops", "domain", "...">>),
           In(<<"internal", "loops", "codec", "...">>), LoopsFake}

DefaultRules ==
    {RestrictRule("domain-pure", {Domain}, {All}, {Std, Domain}),
     ConfineRule("adapters-edge", {Adapters}, {Cmd, Adapters}),
     ConfineRule("sdk-confine-anthropic",
             {<<"github.com", "anthropics", "anthropic-sdk-go", "...">>}, {Anthropic}),
     ConfineRule("sdk-confine-temporal",
             {<<"go.temporal.io", "sdk", "...">>, <<"go.temporal.io", "api", "...">>},
             {In(<<"internal", "loops", "...">>), Cmd}),
     ConfineRule("sdk-confine-sql",
             {<<"database", "sql", "...">>, <<"github.com", "jackc", "pgx", "...">>,
              <<"github.com", "jackc", "pgconn", "...">>, <<"github.com", "lib", "pq", "...">>},
             {Adapters}),
     RestrictRule("loops-agnostic", Engine, {},
              Engine \cup {In(<<"internal", "tenancy">>), In(<<"internal", "secrets", "secret">>),
                           In(<<"internal", "secrets", "ports">>),
                           In(<<"internal", "secrets", "envelope">>)}),
     ConfineRule("fakes-wired-in-cmd", {Fakes}, {Cmd}),
     ConfineRule("loops-fake-tests-only", {LoopsFake}, {}),
     ConfineRule("anthropic-unwired-m0", {Anthropic}, {Anthropic})}

ValidRule(r) ==
    /\ r.name # ""
    /\ r.kind = "confine" => r.targets # {}
    /\ r.kind = "restrict" => r.from # {}
    /\ \A p \in r.from \cup r.targets \cup r.allowedFrom \cup r.allowedTargets :
         ValidPattern(p)

(* Slip: whatever the targets of a rule, its scope is the module.          *)
OnlyModule(r, imported) == InModule(imported)

(* Without targets, the scope of a rule is the module.                     *)
InScope(r, imported) ==
    IF r.targets = {} THEN InModule(imported) ELSE MatchAny(r.targets, imported)

Violates(r, importer, imported) ==
    \/ /\ r.kind = "confine"
       /\ MatchAny(r.targets, imported) /\ ~MatchAny(r.allowedFrom, importer)
    \/ /\ r.kind = "restrict"
       /\ MatchAny(r.from, importer)
       /\ InScope(r, imported) /\ ~MatchAny(r.allowedTargets, imported)

Violation(rule, importer, imported) ==
    [rule |-> rule, importer |-> importer, imported |-> imported]

Invalid == <<"(invalid)">>

(* An invalid rule is a violation: it never silently checks nothing.       *)
Check(pkgs, rules) ==
    IF ~ValidModule THEN {Violation("(module)", Invalid, Module)}
    ELSE {Violation(r.name, Invalid, <<>>) : r \in {s \in rules : ~ValidRule(s)}}
         \cup UNION {{Violation(r.name, p.path, i) :
                        <<r, i>> \in {<<s, j>> \in rules \X p.imports :
                                        ValidRule(s) /\ Violates(s, p.path, j)}}
                       : p \in {q \in pkgs : InModule(q.path)}}

-----------------------------------------------------------------------------
(* What go list says *)

(* decodePackages: the output is a sequence of values, each an object with *)
(* a path that no other has; an empty output is an error.                  *)
Decoded(values) ==
    /\ values # <<>>
    /\ \A i \in DOMAIN values : values[i].object /\ values[i].path # <<>>
    /\ \A i, j \in DOMAIN values : i # j => values[i].path # values[j].path

LoadPackages(listing) == ~listing.failed /\ Decoded(listing.values)

(* A package of the module lives, links resolved, where its path says, and *)
(* what it imports of the module is listed.  resolved is the directory     *)
(* that EvalSymlinks finds, if any.                                        *)
CheckPackageDirs(pkgs) ==
    LET listed == {p.path : p \in pkgs} IN
    UNION {(IF p.resolved = <<p.path>> THEN {} ELSE {Violation("package-dir", p.path, p.dir)})
           \cup {Violation("package-unlisted", p.path, i) :
                   i \in {j \in p.imports : InModule(j) /\ j \notin listed}}
             : p \in {q \in pkgs : InModule(q.path)}}
=============================================================================
