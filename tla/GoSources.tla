------------------------------- MODULE GoSources -------------------------------
(***************************************************************************)
(* Go source files, as far as the source rules of the architecture tests   *)
(* look at them: imports, declarations, statements and expressions; and    *)
(* what the language makes of a name.                                      *)
(*                                                                         *)
(* An expression is a node with its form, its name and what qualifies it,  *)
(* its keys and its arguments:                                             *)
(*   "name"   x or q.x                                                     *)
(*   "basic"  a literal                                                    *)
(*   "op"     an operation on the arguments, parentheses included, but     *)
(*            neither the address of one nor what a channel receives       *)
(*   "call"   of its first argument with the others                        *)
(*   "keyed"  T{k: e, ...}, T its first argument                           *)
(*   "list"   []T{e, ...}, T its first argument                            *)
(*   "func"   a function literal: the types of its parameters              *)
(*   "type"   a function type: those of its parameters                     *)
(*   "struct" a struct type: those of its fields                           *)
(***************************************************************************)
EXTENDS ArchRules

CONSTANTS Universe,     \* the names that the language declares
          Tags          \* the build tags

Node(form, name, qual, keys, args) ==
    [form |-> form, name |-> name, qual |-> qual, keys |-> keys, args |-> args]

Name(x) == Node("name", x, "", <<>>, <<>>)
Sel(q, x) == Node("name", x, q, <<>>, <<>>)
Basic(text) == Node("basic", text, "", <<>>, <<>>)
Op(args) == Node("op", "", "", <<>>, args)
CallOf(fun, args) == Node("call", "", "", <<>>, <<fun>> \o args)
Keyed(type, keys, args) == Node("keyed", "", "", keys, <<type>> \o args)
ListOf(type, args) == Node("list", "", "", <<>>, <<type>> \o args)
FuncOf(params) == Node("func", "", "", <<>>, params)
FuncType(params) == Node("type", "", "", <<>>, params)

(* The value under a key: keys are beside the arguments after the type.    *)
HasKey(e, k) == k \in ToSet(e.keys)
ValueAt(e, k) == e.args[1 + CHOOSE i \in DOMAIN e.keys : e.keys[i] = k]

RECURSIVE NodesOf(_)
NodesOf(e) == {e} \cup UNION {NodesOf(a) : a \in ToSet(e.args)}

(* A declaration: "const", "var", "type" or "func", with its parameters    *)
(* (name and type), the types of its results and its statements.  That of  *)
(* a constant, of a variable or of a type has one statement, its value or  *)
(* its type, and the result of a variable is the type it is declared with. *)
(* A statement is "return", "expr" or, of a name, "define".                *)
Decl(kind, name, exported, params, results, body) ==
    [kind |-> kind, name |-> name, exported |-> exported, params |-> params,
     results |-> results, body |-> body]

Stmt(kind, name, exprs) == [kind |-> kind, name |-> name, exprs |-> exprs]

ParamNames(d) == {p[1] : p \in ToSet(d.params)}

NamesBefore(d, i) == ParamNames(d) \cup ({d.body[j].name : j \in 1..(i - 1)} \ {""})

(* A file: its name and directory, its build tag ("" for none), the names  *)
(* it gives to its imports, and its declarations.                          *)
File(dir, name, tag, imports, decls) ==
    [dir |-> dir, name |-> name, tag |-> tag, imports |-> imports, decls |-> decls]

PkgOf(f) == In(f.dir)

(* A tree: its Go files, its links from a directory to another, and its    *)
(* other files, as directory and name.                                     *)
Tree(files, links, others) == [files |-> files, links |-> links, others |-> others]

(* The directory that a path of the module leads to.                       *)
RECURSIVE Real(_, _)
Real(links, dir) ==
    IF \E l \in links : IsPrefix(l[1], dir)
    THEN LET l == CHOOSE x \in links : IsPrefix(x[1], dir)
         IN  Real(links \ {l}, l[2] \o SubSeq(dir, Len(l[1]) + 1, Len(dir)))
    ELSE dir

RelOf(path) == SubSeq(path, Len(Module) + 1, Len(path))

(* What is compiled with a tag, or with none.                              *)
Build(tree, tag) == [tree EXCEPT !.files = {f \in @ : f.tag \in {"", tag}}]

-----------------------------------------------------------------------------
(* What the language makes of a name: where it is declared, seen from      *)
(* below the local names of a file.                                        *)

DeclaredIn(tree, dir, x) ==
    UNION {{<<f, d>> : d \in {c \in ToSet(f.decls) : c.name = x}}
             : f \in {g \in tree.files : g.dir = dir}}

Unknown == [what |-> "unknown", at |-> {}]
Local == [what |-> "local", at |-> {}]
Declared(at) == [what |-> "declared", at |-> at]

Imported(tree, path, x) ==
    IF InModule(path)
    THEN Declared({d \in DeclaredIn(tree, Real(tree.links, RelOf(path)), x) : d[2].exported})
    ELSE [what |-> "outside", at |-> {}]

Means(tree, f, locals, e) ==
    LET own(x) == DeclaredIn(tree, f.dir, x)
        shadowed == e.qual \in locals \/ own(e.qual) # {}
        named == {i \in f.imports : i[1] = e.qual}
        dots == UNION {Imported(tree, i[2], e.name).at
                         : i \in {j \in f.imports : j[1] = "." /\ InModule(j[2])}}
    IN
    CASE e.qual # "" /\ shadowed -> Local
      [] e.qual # "" /\ ~shadowed /\ named # {} ->
           Imported(tree, (CHOOSE i \in named : TRUE)[2], e.name)
      [] e.qual = "" /\ e.name \in locals -> Local
      [] e.qual = "" /\ e.name \notin locals /\ own(e.name) # {} -> Declared(own(e.name))
      [] e.qual = "" /\ e.name \notin locals /\ own(e.name) = {} /\ dots # {} -> Declared(dots)
      [] e.qual = "" /\ e.name \notin locals /\ own(e.name) = {} /\ dots = {}
           /\ e.name \in Universe -> [what |-> "universe", at |-> {}]
      [] OTHER -> Unknown

(* Whether an expression may have another value the next time.  A call has *)
(* the same one when the function has no parameter and returns the same.   *)
RECURSIVE Varies(_, _, _, _)
Varies(tree, f, locals, e) ==
    LET m == Means(tree, f, locals, IF e.form = "call" THEN e.args[1] ELSE e)
        Same(es, g, scope) == \A x \in ToSet(es) : ~Varies(tree, g, scope, x)
    IN
    ~ \/ e.form = "basic"
      \/ e.form = "op" /\ Same(e.args, f, locals)
      \/ e.form \in {"keyed", "list"} /\ Same(Tail(e.args), f, locals)
      \/ /\ e.form = "name"
         /\ \/ m.what \in {"universe", "outside"}
            \/ m.at # {} /\ \A x \in m.at : x[2].kind \in {"const", "func"}
      \/ /\ e.form = "call" /\ e.args[1].form = "name"
         /\ m.what = "declared" /\ m.at # {}
         /\ \A x \in m.at :
              /\ x[2].kind = "func" /\ x[2].params = <<>>
              /\ \A i \in DOMAIN x[2].body :
                   x[2].body[i].kind = "return" =>
                     Same(x[2].body[i].exprs, x[1], NamesBefore(x[2], i))
=============================================================================
