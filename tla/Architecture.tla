------------------------------ MODULE Architecture ------------------------------
(***************************************************************************)
(* The architecture tests (internal/archtest) over a changing repository:  *)
(* developers edit the tree, and the tests judge what they find, go list   *)
(* telling them of the default build and ReadSources of every file.        *)
(*                                                                         *)
(* The rules look at names; what they are for is stated below in terms of  *)
(* what the compiler makes of the same files.  A package is named after    *)
(* its directory.                                                          *)
(***************************************************************************)
EXTENDS LoopSources

CONSTANTS
    Base,       \* the tree at the start
    Written,    \* the files that a developer may write, over one of the same name or anew
    Linked,     \* the links that one may add
    Added,      \* the other files that one may add
    Foreign,    \* the names of the sources that are not Go
    Layout,     \* the packages that must be there
    MaxEdits    \* bound on the edits

VARIABLES
    tree,       \* the repository
    edits,      \* how many edits so far
    verdict     \* "none" since the last edit, "pass" or "fail"

vars == <<tree, edits, verdict>>

-----------------------------------------------------------------------------
(* What the tests read *)

InIgnored(dir) == \E x \in ToSet(dir) : IgnoredElem(x)

ModuleFile(o) ==
    \/ o[2] = "go.mod" /\ o[1] # <<>>
    \/ o[2] \in {"go.work", "go.work.sum"}
    \/ o[2] = "modules.txt" /\ o[1] # <<>> /\ Last(o[1]) = "vendor"

ForeignSource(o) == o[2] \in Foreign /\ IsPrefix(<<"internal", "loops">>, o[1])

(* ReadSources fails closed on what go build follows and the rules do not. *)
Readable ==
    tree.links = {} /\ \A o \in tree.others : ~ModuleFile(o) /\ ~ForeignSource(o)

SourcesRead == {f \in tree.files : ~InIgnored(f.dir)}

(* go list ./... lists the packages of the default build, by directory,    *)
(* without following a link.                                               *)
GoList ==
    LET built == {f \in Build(tree, "").files : ~InIgnored(f.dir)} IN
    {[object |-> TRUE, path |-> PkgOf(f),
      imports |-> UNION {{i[2] : i \in g.imports} : g \in {h \in built : h.dir = f.dir}},
      dir |-> PkgOf(f), resolved |-> <<PkgOf(f)>>] : f \in built}

-----------------------------------------------------------------------------
Init == tree = Base /\ edits = 0 /\ verdict = "none"

Edit(newTree) ==
    /\ edits < MaxEdits /\ newTree # tree
    /\ tree' = newTree /\ edits' = edits + 1 /\ verdict' = "none"

WriteFile ==
    \E f \in Written :
        Edit([tree EXCEPT !.files =
                {g \in @ : <<g.dir, g.name>> # <<f.dir, f.name>>} \cup {f}])

AddLink == \E l \in Linked : Edit([tree EXCEPT !.links = @ \cup {l}])

AddOther == \E o \in Added : Edit([tree EXCEPT !.others = @ \cup {o}])

(* TestRepositoryConforms and TestLoopSourcesConform.  go list may fail,   *)
(* or not end in time.                                                     *)
Conforms(failed) ==
    LET pkgs == GoList IN
    /\ LoadPackages([failed |-> failed,
                      values |-> FoldSet(LAMBDA p, s : Append(s, p), <<>>, pkgs)])
    /\ Layout \subseteq {p.path : p \in pkgs}
    /\ Check(pkgs, DefaultRules) = {}
    /\ CheckPackageDirs(pkgs) = {}
    /\ Readable
    /\ CheckLoopSources(SourcesRead) = {}

RunTests ==
    /\ \E failed \in BOOLEAN : verdict' = IF Conforms(failed) THEN "pass" ELSE "fail"
    /\ UNCHANGED <<tree, edits>>

Next == WriteFile \/ AddLink \/ AddOther \/ RunTests

Spec == Init /\ [][Next]_vars

-----------------------------------------------------------------------------
(* What a compiler finds *)

ImportsOf(t, dir) == UNION {{i[2] : i \in f.imports} : f \in {g \in t.files : g.dir = dir}}

Dirs(t, paths) == {Real(t.links, RelOf(p)) : p \in {q \in paths : InModule(q)}}

(* What is linked with a package: the directories its imports lead to, and *)
(* theirs; and the paths from outside the module.                          *)
RECURSIVE ReachedDirs(_, _)
ReachedDirs(t, dirs) ==
    LET more == dirs \cup UNION {Dirs(t, ImportsOf(t, d)) : d \in dirs}
    IN  IF more = dirs THEN dirs ELSE ReachedDirs(t, more)

Reached(t, dir) == ReachedDirs(t, Dirs(t, ImportsOf(t, dir)))

OutsideOf(t, dir) ==
    {p \in UNION {ImportsOf(t, d) : d \in {dir} \cup Reached(t, dir)} : ~InModule(p)}

Is(dir, pattern) == Match(pattern, In(dir))

(* In each build whose names are declared once.                            *)
Compiled ==
    {t \in {Build(tree, tag) : tag \in Tags \cup {""}} :
       \A f \in t.files : \A d \in ToSet(f.decls) : Cardinality(DeclaredIn(t, f.dir, d.name)) = 1}

(* The type of a parameter, built on a specification or a request.         *)
RECURSIVE BuiltOnSpec(_, _, _)
BuiltOnSpec(t, f, e) ==
    \E n \in NodesOf(e) :
        /\ n.form = "name"
        /\ \E x \in Means(t, f, {}, n).at :
             LET own == PkgOf(x[1]) = Loops /\ x[2].name \in {"LoopSpec", "ApprovalRequest"} IN
             \/ own
             \/ x[2].kind = "type" /\ \E y \in ExprsOf(x[2]) : BuiltOnSpec(t, x[1], y)

(* Whether a name, seen below those of a declaration before it, is that of *)
(* the guarded function g.                                                 *)
IsGuarded(t, f, locals, e, g) ==
    LET m == Means(t, f, locals, e) IN
    e.form = "name" /\ m.what = "declared" /\ \E x \in m.at : PkgOf(x[1]) = Loops /\ x[2].name = g

(* A constant specification with a whole budget: the only value of a       *)
(* function without parameters.                                            *)
ConstantSpec(t, f, locals, e) ==
    /\ ~Varies(t, f, locals, e)
    /\ e.form = "call"
    /\ \A x \in Means(t, f, locals, e.args[1]).at :
         \A r \in UNION {ToSet(s.exprs) : s \in {y \in ToSet(x[2].body) : y.kind = "return"}} :
            /\ r.form = "keyed" /\ HasKey(r, "Budget")
            /\ ToSet(ValueAt(r, "Budget").keys) = {"MaxIterations", "MaxTokens", "MaxWallTime"}

(* A request that says itself what is required of the approvals.           *)
ConstantRequest(t, f, locals, e) ==
    /\ e.form = "keyed"
    /\ \A k \in {"Required", "NeedsSecurityRole", "VerifyActivity"} :
         HasKey(e, k) /\ ~Varies(t, f, locals, ValueAt(e, k))

-----------------------------------------------------------------------------
(* A tree that passes, in the default build: whatever the imports of a     *)
(* domain lead to is of a domain or of the standard library; adapters and  *)
(* fakes are linked with no library, the fake of the loops and the adapter *)
(* of the vendor with nothing outside of them.  A rule speaks of one       *)
(* import at a time (rules.go, Check; loopsrc.go, the rules on imports).   *)
LayersHold ==
    verdict = "pass" =>
        LET t == Build(tree, "") IN
        \A dir \in {f.dir : f \in {g \in t.files : ~InIgnored(g.dir)}} :
           LET reached == Reached(t, dir) IN
           /\ Is(dir, Domain) =>
                /\ \A d \in reached : Is(d, Domain)
                /\ \A p \in OutsideOf(t, dir) : IsStdlib(p)
           /\ \A d \in reached :
                /\ Is(d, Fakes) => Is(dir, Cmd)
                /\ Is(d, Adapters) => Is(dir, Cmd) \/ Is(dir, Adapters)
                /\ Is(d, LoopsFake) => Is(dir, LoopsFake)
                /\ Is(d, Anthropic) => Is(dir, Anthropic)

(* A tree that passes, in every build: RunLoop and AwaitApprovals are only *)
(* ever called, with a specification that never varies and has a whole     *)
(* budget, and with a request whose requirements never vary, as the        *)
(* compiler reads each name where it stands; and no other exported         *)
(* function of the loops takes either (loopsrc.go, ref, specCall, keyed,   *)
(* isConst, entrypoints).                                                  *)
SpecIsConstant ==
    verdict = "pass" =>
        \A t \in Compiled : \A f \in {g \in t.files : ~InIgnored(g.dir)} :
        \A d \in ToSet(f.decls) :
            /\ \A i \in DOMAIN d.body : \A e \in ToSet(d.body[i].exprs) :
                 LET locals == NamesBefore(d, i)
                     Called(g) == {n \in NodesOf(e) : n.form = "call"
                                                      /\ IsGuarded(t, f, locals, n.args[1], g)}
                 IN
                 /\ \A x \in ValuesIn(e) : \A g \in Guarded : ~IsGuarded(t, f, locals, x, g)
                 /\ \A c \in Called("RunLoop") : ConstantSpec(t, f, locals, c.args[3])
                 /\ \A c \in Called("AwaitApprovals") : ConstantRequest(t, f, locals, c.args[3])
            /\ d.kind = "func" /\ d.exported /\ Under(PkgOf(f), Loops)
                 /\ ~(PkgOf(f) = Loops /\ d.name \in Guarded) =>
                   \A p \in ToSet(d.params) : ~BuiltOnSpec(t, f, p[2])
=============================================================================
