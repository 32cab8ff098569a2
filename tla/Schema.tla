-------------------------------- MODULE Schema --------------------------------
(***************************************************************************)
(* The schemas of prompts and tools (internal/llm/schema): how a JSON text *)
(* is decoded, which schemas are strict, which texts a model reads in one, *)
(* and which answers are in it.                                            *)
(*                                                                         *)
(* What happens inside of a text is given: the names that the patterns     *)
(* admit, what a pattern matches, in which texts a rule finds a secret.    *)
(* Lengths and bounds, which only narrow the answers, are left out.        *)
(***************************************************************************)
EXTENDS Json

CONSTANTS
    Documents,          \* the JSON texts that prompts, tools and answers may be
    MaxSchemaBytes, MaxOutputBytes,
    PropNames, DefNames,
    Trimmed,            \* of a text that starts with blanks, what follows them
    Bare,               \* of a pattern with anchors, what they hold
    Matches,            \* the pairs of a pattern and a text that it matches
    SecretTexts         \* the texts in which a rule finds a secret

(* A document is its size, whether it is one JSON value, whether all of it *)
(* is in the closed list of characters, whether the library compiles it,   *)
(* whether it has more texts than are looked at, and its value.            *)
ASSUME SchemaAssumption ==
    /\ \A d \in Documents :
         /\ d.bytes \in Nat
         /\ {d.json, d.admitted, d.compiles, d.tooManyTexts} \subseteq BOOLEAN
         /\ d.value.kind \in STRING
    /\ {MaxDepth, MaxSchemaBytes, MaxOutputBytes} \subseteq Nat

-----------------------------------------------------------------------------
(* Strict schemas *)

TypeNames == {"null", "boolean", "object", "array", "number", "integer", "string"}

(* One of type, $ref, anyOf and oneOf; without any, enum, then const.      *)
FormOf(n) ==
    LET keys == {"type", "$ref", "anyOf", "oneOf"} \cap Keys(n) IN
    CASE keys = {"type"} ->
           IF \E t \in TypeNames : At(n, "type") = Str(t) THEN At(n, "type").text ELSE "none"
      [] keys \in {{"$ref"}, {"anyOf"}, {"oneOf"}} -> CHOOSE k \in keys : TRUE
      [] keys = {} /\ Has(n, "enum") -> "enum"
      [] keys = {} /\ ~Has(n, "enum") /\ Has(n, "const") -> "const"
      [] OTHER -> "none"

(* The closed list of the keywords of each form.                           *)
Allowed(form) ==
    {"title", "description"} \cup
    CASE form = "object" -> {"type", "properties", "required", "additionalProperties"}
      [] form = "array"  -> {"type", "items", "minItems", "maxItems"}
      [] form = "string" -> {"type", "minLength", "maxLength", "pattern", "enum", "const"}
      [] form \in {"integer", "number"} -> {"type", "minimum", "maximum", "enum", "const"}
      [] form \in {"boolean", "null"} -> {"type", "enum", "const"}
      [] form \in {"$ref", "anyOf", "oneOf", "enum", "const"} -> {form}

RootOnly == {"$schema", "$defs"}

NoMembers == [kind |-> "object", members |-> <<>>]

Defs(root) == IF Has(root, "$defs") THEN At(root, "$defs") ELSE NoMembers

RefTo(d) == Str("#/$defs/" \o d)

Properties(n) == IF Has(n, "properties") THEN At(n, "properties") ELSE NoMembers

(* Slip: an object is closed unless it says that it is open.               *)
ClosedUnlessOpen(n) ==
    Has(n, "additionalProperties") => Is(n, "additionalProperties", False)

Closed(n) == Is(n, "additionalProperties", False)

(* required lists every property exactly once.                             *)
StrictObject(n) ==
    LET required == ItemsOf(n, "required") IN
    /\ Closed(n)
    /\ Properties(n).kind = "object"
    /\ Has(n, "required") => At(n, "required").kind = "array"
    /\ IsInjective(required)
    /\ ToSet(required) = {Str(k) : k \in Keys(Properties(n))}
    /\ Keys(Properties(n)) \subseteq PropNames

(* Where a subschema is: at the root, inside of it, or in a definition.    *)
Places == {"root", "inside", "defs"}

(* checker.node, given the subschemas that are strict one level below.     *)
StrictNode(root, below, n, place) ==
    LET form == FormOf(n)
        AllStrict(S) ==
            \A x \in S : <<x, IF place = "defs" THEN "defs" ELSE "inside">> \in below
    IN
    /\ n.kind = "object"
    /\ form # "none"
    /\ Keys(n) \subseteq Allowed(form) \cup IF place = "root" THEN RootOnly ELSE {}
    /\ form = "$ref" =>
         place # "defs" /\ \E d \in Keys(Defs(root)) : At(n, "$ref") = RefTo(d)
    /\ form = "object" => StrictObject(n) /\ AllStrict(Children(Properties(n)))
    /\ form = "array" => Has(n, "items") /\ AllStrict({At(n, "items")})
    /\ form \in {"anyOf", "oneOf"} =>
         ItemsOf(n, form) # <<>> /\ AllStrict(ToSet(ItemsOf(n, form)))

(* The strict subschemas, with their places: no document has more levels.  *)
StrictAt(root) ==
    LET strict[k \in 0..(MaxDepth + 1)] ==
            IF k = 0 THEN {}
            ELSE {p \in Nodes(root) \X Places : StrictNode(root, strict[k - 1], p[1], p[2])}
    IN  strict[MaxDepth + 1]

(* checkStrict, of a decoded schema.                                       *)
CheckStrict(root) ==
    /\ Is(root, "type", Str("object"))
    /\ Has(root, "$schema") => Is(root, "$schema", Str("draft2020"))
    /\ Defs(root).kind = "object"
    /\ Keys(Defs(root)) \subseteq DefNames
    /\ \A x \in Children(Defs(root)) : <<x, "defs">> \in StrictAt(root)
    /\ <<root, "root">> \in StrictAt(root)

(* CompileSchema: the library has the last word.                           *)
CompileSchema(d) ==
    /\ d.bytes <= MaxSchemaBytes
    /\ Decodes(d)
    /\ d.admitted
    /\ CheckStrict(d.value)
    /\ d.compiles

-----------------------------------------------------------------------------
(* The texts that a model reads *)

(* What a subschema says of the values under the same name: its items, its *)
(* alternatives, what it refers to.                                        *)
Inner(root, n) ==
    (IF Has(n, "items") THEN {At(n, "items")} ELSE {})
    \cup ToSet(ItemsOf(n, "anyOf")) \cup ToSet(ItemsOf(n, "oneOf"))
    \cup {At(Defs(root), d) : d \in {e \in Keys(Defs(root)) : Is(n, "$ref", RefTo(e))}}

Reached(root, n) ==
    LET size == Cardinality(Nodes(root))
        reached[i \in 0..size] ==
            IF i = 0 THEN {n}
            ELSE UNION {{x} \cup Inner(root, x) : x \in reached[i - 1]}
    IN  reached[size]

Pair(k, s) == {<<k, s>>} \cup IF s \in DOMAIN Trimmed THEN {<<k, Trimmed[s]>>} ELSE {}

TextsIn(S) == {x.text : x \in {y \in S : y.kind = "string"}}

TextsAt(n, k) == TextsIn(IF Has(n, k) THEN {At(n, k)} ELSE {})

BareTexts(n) == {Bare[p] : p \in TextsAt(n, "pattern") \cap DOMAIN Bare}

(* "name: value", for what is said of the values under a name.             *)
Named(root, name, v) ==
    UNION {UNION {Pair(name, s) :
                    s \in TextsAt(n, "const") \cup TextsIn(ToSet(ItemsOf(n, "enum")))
                          \cup TextsAt(n, "pattern") \cup BareTexts(n)}
             : n \in Reached(root, v)}

(* Texts: the keys, the texts, "key: text" for each member, and the pairs  *)
(* of the properties and of the definitions.                               *)
Texts(root) ==
    UNION {(IF n.kind = "string" THEN {<<n.text>>} ELSE {})
           \cup UNION {{<<k>>} \cup UNION {Pair(k, s) : s \in TextsAt(n, k)} : k \in Keys(n)}
           \cup UNION {UNION {Named(root, name, At(At(n, k), name)) : name \in Keys(At(n, k))}
                         : k \in {"properties", "$defs"} \cap Keys(n)}
             : n \in Nodes(root)}

(* secretInTexts; a text that cannot be read holds no secret that is told. *)
TextsFail(d) == d.bytes > MaxSchemaBytes \/ ~Decodes(d) \/ d.tooManyTexts

SecretInTexts(d) == Texts(d.value) \cap SecretTexts # {}

-----------------------------------------------------------------------------
(* Answers *)

Typed(v, type) == v.kind = type \/ (type = "number" /\ v.kind = "integer")

(* What the library makes of a schema: each keyword constrains the value.  *)
(* Given are the pairs of a subschema and a value in it, one step further. *)
ConformsNode(root, further, n, v) ==
    /\ Has(n, "type") => Typed(v, At(n, "type").text)
    /\ Has(n, "const") => v = At(n, "const")
    /\ Has(n, "enum") => v \in ToSet(ItemsOf(n, "enum"))
    /\ Has(n, "pattern") /\ v.kind = "string" => <<At(n, "pattern").text, v.text>> \in Matches
    /\ Has(n, "$ref") =>
         \A d \in Keys(Defs(root)) :
            At(n, "$ref") = RefTo(d) => <<At(Defs(root), d), v>> \in further
    /\ Has(n, "anyOf") => \E x \in ToSet(ItemsOf(n, "anyOf")) : <<x, v>> \in further
    /\ Has(n, "oneOf") =>
         Cardinality({i \in DOMAIN ItemsOf(n, "oneOf") :
                        <<ItemsOf(n, "oneOf")[i], v>> \in further}) = 1
    /\ v.kind = "array" /\ Has(n, "items") =>
         \A x \in ToSet(v.items) : <<At(n, "items"), x>> \in further
    /\ v.kind = "object" =>
         /\ \A s \in ToSet(ItemsOf(n, "required")) : s.text \in Keys(v)
         /\ Is(n, "additionalProperties", False) => Keys(v) \subseteq Keys(Properties(n))
         /\ \A k \in Keys(v) \cap Keys(Properties(n)) :
              <<At(Properties(n), k), At(v, k)>> \in further

(* Each step goes down the schema, or once to a definition of it.          *)
Conforms(root, node, value) ==
    LET conforms[k \in 0..(2 * (MaxDepth + 1))] ==
            IF k = 0 THEN {}
            ELSE {p \in Nodes(root) \X Nodes(value) :
                    ConformsNode(root, conforms[k - 1], p[1], p[2])}
    IN  <<node, value>> \in conforms[2 * (MaxDepth + 1)]

Validate(d, output) ==
    /\ output.bytes <= MaxOutputBytes
    /\ Decodes(output)
    /\ Conforms(d.value, d.value, output.value)
=============================================================================
