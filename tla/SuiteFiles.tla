------------------------------ MODULE SuiteFiles ------------------------------
(***************************************************************************)
(* The files of the suites of evals (internal/evals: suite.go,             *)
(* discover.go): which YAML documents are read, what is read in them,      *)
(* which directories are suites.                                           *)
(*                                                                         *)
(* Readers of YAML disagree: the library of this program, the core schema  *)
(* of the norm, YAML 1.1, YAML 1.1 without its type of dates; and the eye, *)
(* which looks at a value where it is written.  What each of them makes of *)
(* a plain scalar is given, with its form; the form tells what the         *)
(* expressions of the code tell apart.                                     *)
(***************************************************************************)
EXTENDS Evals

CONSTANTS
    Plain,          \* of a plain scalar, its form and its value to each reader
    Segments,       \* of the name of a directory of suites, its segments
    Patterns,       \* the valid patterns of watched paths
    CaseOrder,      \* the names of the files of cases, sorted
    MaxNesting, MaxFileBytes, MaxWatch, MaxCases, MaxSuites

(* The elements of s that are in S, in their order.                        *)
Among(s, S) ==
    LET among[n \in 0..Len(s)] ==
            IF n = 0 THEN <<>>
            ELSE IF s[n] \in S THEN Append(among[n - 1], s[n]) ELSE among[n - 1]
    IN  among[Len(s)]

Readers == {"program", "core", "old", "dateless", "eye"}

(* A "timestamp" is a date to YAML 1.1, with a zone after a space, or of a *)
(* day that there is not; the library only knows the others, "date".       *)
StrForms == {"word", "yes_no", "sexagesimal", "value", "timestamp"}
IntForms == {"integer", "signed", "octal", "based", "underscored"}
FloatForms == {"decimal", "huge", "padded", "exponent", "dotted", "special", "long"}
Forms == StrForms \cup IntForms \cup FloatForms \cup {"null", "boolean", "date", "merge"}

(* Words, the decimal numbers, and the literals of JSON are the same to    *)
(* all of YAML 1.1, YAML 1.2 and the library; to the last two, so are the  *)
(* texts that YAML 1.1 takes for dates.                                    *)
ASSUME ReadersAssumption ==
    \A t \in DOMAIN Plain :
        /\ Plain[t].form \in Forms
        /\ Plain[t].form = "timestamp" => Plain[t].core = Plain[t].program
        /\ Plain[t].form \in {"word", "integer", "decimal", "huge"}
             \/ t \in {"null", "true", "false"}
           => Plain[t].core = Plain[t].program /\ Plain[t].old = Plain[t].program

(* What the library makes of a plain scalar, by its form.                  *)
TagOf(form) ==
    CASE form \in StrForms -> "str"
      [] form = "null" -> "null"
      [] form = "boolean" -> "bool"
      [] form \in IntForms -> "int"
      [] form \in FloatForms -> "float"
      [] form = "date" -> "timestamp"
      [] form = "merge" -> "merge"

(* Slip: the numbers with colons are not among the ambiguous ones.         *)
NotAmbiguousWithColons(form) ==
    form \in {"word", "timestamp", "date", "merge", "sexagesimal"}

(* The expression is about booleans, nulls and numbers, not about dates.   *)
NotAmbiguous(form) == form \in {"word", "timestamp", "date", "merge"}

(* The numbers that read back exactly as they are written.                 *)
Exact(form) == form \in {"integer", "decimal", "huge"}

-----------------------------------------------------------------------------
(* A node is a scalar, with its style, its value, what one sees of it, and *)
(* how it is written: on one line, on more, or with an escape that is not  *)
(* in the list; a mapping; a sequence; or an alias.  A mark comes before   *)
(* it: a tag, the tag "!", an anchor.                                      *)
ZoneOf(k) ==
    IF k.kind = "scalar" /\ k.text \in {"input", "equals", "contains"} THEN k.text ELSE "typed"

(* The nodes right below, each with the field that it is in.               *)
Below(n, zone) ==
    CASE n.kind = "mapping" ->
           {<<p[1], zone>> : p \in ToSet(n.pairs)}
           \cup {<<p[2], IF zone = "typed" THEN ZoneOf(p[1]) ELSE zone>> : p \in ToSet(n.pairs)}
      [] n.kind = "sequence" -> {<<x, zone>> : x \in ToSet(n.nodes)}
      [] OTHER -> {}

(* By depth, the document being above its root.                            *)
Placed(root) ==
    LET placed[i \in 1..(MaxNesting + 1)] ==
            IF i = 1 THEN {<<root, "typed">>}
            ELSE UNION {Below(x[1], x[2]) : x \in placed[i - 1]}
    IN  placed

PlacesOf(root) == UNION {Placed(root)[i] : i \in 1..MaxNesting}

Tag(n) ==
    CASE n.kind # "scalar" -> n.kind
      [] n.kind = "scalar" /\ n.style # "plain" -> "str"
      [] OTHER -> TagOf(Plain[n.text].form)

JsonScalar(n, nulls) ==
    CASE Tag(n) = "str" -> n.style # "plain" \/ NotAmbiguous(Plain[n.text].form)
      [] Tag(n) = "null" -> nulls /\ n.text = "null"
      [] Tag(n) = "bool" -> n.text \in {"true", "false"}
      [] Tag(n) \in {"int", "float"} -> Exact(Plain[n.text].form)
      [] OTHER -> FALSE

Block(n) == n.style \in {"literal", "folded"}

(* plain, of one node.                                                     *)
PlainNode(n, zone) ==
    /\ n.kind # "alias"
    /\ n.mark = "none"
    /\ n.kind = "scalar" =>
         /\ n.style = "double" => n.written = "line"
         /\ zone \in {"equals", "contains"} => ~Block(n) /\ n.written = "line"
         /\ JsonScalar(n, zone \in {"input", "equals"})
    /\ n.kind = "mapping" => \A p \in ToSet(n.pairs) : Tag(p[1]) = "str"

PlainDocument(root) ==
    /\ Placed(root)[MaxNesting + 1] = {}
    /\ \A x \in PlacesOf(root) : PlainNode(x[1], x[2])

-----------------------------------------------------------------------------
(* What a reader makes of a node.  The tag "!" makes a text of a scalar,   *)
(* but the library drops it; "<<" merges, but not in the core schema; a    *)
(* key given twice has one of its values.                                  *)
IsTimestamp(n) ==
    n.kind = "scalar" /\ n.style = "plain" /\ Plain[n.text].form = "timestamp"

ScalarTo(reader, n, zone) ==
    LET r == CASE reader = "eye" -> "program"
               [] reader = "dateless" -> IF IsTimestamp(n) THEN "core" ELSE "old"
               [] OTHER -> reader
    IN
    CASE reader = "eye" /\ zone \in {"equals", "contains"} /\ n.seen # n.text -> Str(n.seen)
      [] n.mark = "tag" \/ (n.mark = "bang" /\ reader # "program") -> Str(n.text)
      [] n.style # "plain" -> Str(n.text)
      [] OTHER -> Plain[n.text][r]

Merges(reader, k) ==
    reader # "core" /\ k.kind = "scalar" /\ k.style = "plain" /\ Plain[k.text].form = "merge"

KeptPairs(reader, pairs) ==
    LET Kept(i) == \A j \in DOMAIN pairs :
                     pairs[j][1] = pairs[i][1] =>
                        IF reader = "core" THEN i <= j ELSE j <= i
        kept == Among([i \in DOMAIN pairs |-> i], {i \in DOMAIN pairs : Kept(i)})
    IN  [i \in DOMAIN kept |-> pairs[kept[i]]]

(* Given is what is read below, where it is.                               *)
ReadNode(reader, read, n, zone) ==
    CASE n.kind = "scalar" -> ScalarTo(reader, n, zone)
      [] n.kind = "sequence" ->
           [kind |-> "array", items |-> [i \in DOMAIN n.nodes |-> read[<<n.nodes[i], zone>>]]]
      [] n.kind = "mapping" ->
           LET Of(p) == <<read[<<p[1], zone>>].text,
                          read[<<p[2], IF zone = "typed" THEN ZoneOf(p[1]) ELSE zone>>]>>
               kept == KeptPairs(reader, n.pairs)
           IN  [kind |-> IF \E p \in ToSet(n.pairs) : Merges(reader, p[1])
                         THEN "merged" ELSE "object",
                members |-> [i \in DOMAIN kept |-> Of(kept[i])]]
      [] n.kind = "alias" -> [kind |-> "alias", text |-> n.text]

ReadAs(reader, root) ==
    LET read[x \in PlacesOf(root)] == ReadNode(reader, read, x[1], x[2])
    IN  read[<<root, "typed">>]

-----------------------------------------------------------------------------
(* The fields of the files, with their types.                              *)
SuiteFields == [name |-> "string", loop |-> "string", target |-> "string",
                watch |-> "strings"]

CaseFields == [id |-> "string", loop |-> "string", tags |-> "strings", input |-> "any",
               expect |-> "expect", runs |-> "integer"]

ExpectFields == [schema_valid |-> "boolean", escalation |-> "boolean", status |-> "string",
                 max_iterations |-> "integer", max_open_questions |-> "integer",
                 must_include |-> "checks", must_not_include |-> "checks"]

CheckFields == [path |-> "string", contains |-> "any", equals |-> "any"]

IsAll(v, Test(_)) == v.kind = "array" /\ \A x \in ToSet(v.items) : Test(x)

HasFields(v, fields, Fits(_, _)) ==
    /\ v.kind = "object"
    /\ Keys(v) \subseteq DOMAIN fields
    /\ \A k \in Keys(v) : Fits(At(v, k), fields[k])

FitsSimply(v, type) ==
    \/ type = "any" \/ v.kind = type
    \/ type = "strings" /\ IsAll(v, LAMBDA x : x.kind = "string")

FitsInExpect(v, type) ==
    \/ FitsSimply(v, type)
    \/ type = "checks" /\ IsAll(v, LAMBDA x : HasFields(x, CheckFields, FitsSimply))

FitsInCase(v, type) ==
    \/ FitsSimply(v, type)
    \/ type = "expect" /\ HasFields(v, ExpectFields, FitsInExpect)

(* decodeFile: a file of the right size and runes, without directive, of   *)
(* one plain document, where no key is given twice, ...                    *)
ReadsFile(f) ==
    /\ f.regular
    /\ f.bytes <= MaxFileBytes
    /\ f.admitted
    /\ ~f.directive
    /\ Len(f.docs) = 1
    /\ PlainDocument(f.docs[1])
    /\ \A x \in PlacesOf(f.docs[1]) :
         x[1].kind = "mapping" => IsInjective([j \in DOMAIN x[1].pairs |-> x[1].pairs[j][1].text])

(* ... with exactly these fields, of these types.                          *)
DecodesSuite(f) ==
    ReadsFile(f) /\ HasFields(ReadAs("program", f.docs[1]), SuiteFields, FitsSimply)

DecodesCase(f) ==
    ReadsFile(f) /\ HasFields(ReadAs("program", f.docs[1]), CaseFields, FitsInCase)

(* Of a field, what is said of it; the zero value says nothing.            *)
Said(v, k) == IF Has(v, k) THEN {At(v, k)} ELSE {}
TextAt(v, k) == IF Has(v, k) THEN At(v, k).text ELSE ""
Texts(v, k) == [i \in DOMAIN ItemsOf(v, k) |-> ItemsOf(v, k)[i].text]
Truths(v, k) == {x.text = "true" : x \in Said(v, k)}
Ints(v, k) == {Worth[x.text][1] : x \in Said(v, k)}

ToCheck(v) == [path |-> TextAt(v, "path"), contains |-> Said(v, "contains"),
               equals |-> Said(v, "equals")]

ToChecks(v, k) == [i \in DOMAIN ItemsOf(v, k) |-> ToCheck(ItemsOf(v, k)[i])]

ToExpect(v) ==
    [schemaValid |-> Truths(v, "schema_valid"), escalation |-> Truths(v, "escalation"),
     status |-> {TextAt(v, "status")} \ {""},
     maxIterations |-> Ints(v, "max_iterations"),
     maxOpenQuestions |-> Ints(v, "max_open_questions"),
     mustInclude |-> ToChecks(v, "must_include"),
     mustNotInclude |-> ToChecks(v, "must_not_include")]

NoMembers == [kind |-> "object", members |-> <<>>]

ToCase(v) ==
    [id |-> TextAt(v, "id"), loop |-> TextAt(v, "loop"), tags |-> Texts(v, "tags"),
     input |-> Said(v, "input"),
     expect |-> ToExpect(IF Has(v, "expect") THEN At(v, "expect") ELSE NoMembers),
     runs |-> IF Has(v, "runs") THEN Worth[At(v, "runs").text][1] ELSE 1]

-----------------------------------------------------------------------------
(* A directory: whether it is one all the way down, as its cases must be,  *)
(* and whether there is a link in it; its suite.yaml and its files of      *)
(* cases, by their names without ".yaml".                                  *)
ValidSuiteName(s) ==
    /\ s \in DOMAIN Segments
    /\ Len(Segments[s]) <= 4
    /\ ToSet(Segments[s]) \subseteq Tokens.segment

NamedAfter(name, dir) == IsSuffix(Segments[name], Segments[dir])

CasesOf(d) == Among(CaseOrder, DOMAIN d.cases)

ReadCase(d, id) == ToCase(ReadAs("program", d.cases[id].docs[1]))

ToSuite(d) ==
    LET v == ReadAs("program", d.suite.docs[1]) IN
    [name |-> TextAt(v, "name"), loop |-> TextAt(v, "loop"), target |-> TextAt(v, "target"),
     watch |-> Texts(v, "watch"),
     cases |-> [i \in DOMAIN CasesOf(d) |-> ReadCase(d, CasesOf(d)[i])]]

ValidHeader(dir, s) ==
    /\ ValidSuiteName(s.name) /\ NamedAfter(s.name, dir)
    /\ s.loop \in Tokens.loop /\ s.target \in Tokens.name
    /\ Len(s.watch) <= MaxWatch /\ ToSet(s.watch) \subseteq Patterns

(* LoadSuite *)
LoadsSuite(dir, d) ==
    /\ ValidSuiteName(dir) /\ d.real
    /\ DecodesSuite(d.suite)
    /\ d.realCases
    /\ Cardinality(DOMAIN d.cases) \in 1..MaxCases
    /\ DOMAIN d.cases \subseteq Tokens.id
    /\ \A id \in DOMAIN d.cases : DecodesCase(d.cases[id])
    /\ ValidHeader(dir, ToSuite(d))
    /\ \A id \in DOMAIN d.cases :
         LET c == ReadCase(d, id) IN
         ValidCase(c) /\ c.id = id /\ c.loop = ToSuite(d).loop

-----------------------------------------------------------------------------
(* Discovery, over the directories that hold a suite.yaml.                 *)

Inside(d, e) == IsStrictPrefix(Segments[e], Segments[d])

(* cases and baseline of a suite are not searched.                         *)
Skipped(tree, d) ==
    \E e \in DOMAIN tree :
        /\ Inside(d, e)
        /\ tree[e].suite.regular
        /\ Segments[d][Len(Segments[e]) + 1] \in {"cases", "baseline"}

Visited(tree) == {d \in DOMAIN tree : ~Skipped(tree, d)}

(* DiscoverSuites *)
Discovers(tree) ==
    LET found == Visited(tree) IN
    /\ \A d \in found : tree[d].suite.regular /\ ~tree[d].link
    /\ Cardinality(found) <= MaxSuites
    /\ \A d \in found : ValidSuiteName(d) /\ d \notin {"all", "changed"}
    /\ \A d, e \in found : ~Inside(d, e)

-----------------------------------------------------------------------------
(* What a reader makes of a file: the first document or the last one; the  *)
(* directive of a version is obeyed, or not.                               *)
FileTo(reader, f) ==
    LET r == IF f.directive /\ reader = "core" THEN "old" ELSE reader IN
    ReadAs(r, f.docs[IF reader = "program" THEN 1 ELSE Len(f.docs)])

(* Every reader reads the same in it, but that a text may be a date to     *)
(* YAML 1.1: then it is that text which makes the difference.              *)
Dated(f) == \E i \in DOMAIN f.docs : \E x \in PlacesOf(f.docs[i]) : IsTimestamp(x[1])

ReadAlike(f) ==
    \A r \in Readers :
        FileTo(r, f) = FileTo("program", f) \/ (r = "old" /\ Dated(f))
=============================================================================
