--------------------------------- MODULE Json ---------------------------------
(***************************************************************************)
(* JSON values, and what internal/llm/schema decodes (decode.go).          *)
(*                                                                         *)
(* A value is an atom with its text, an array, or an object, whose members *)
(* keep the order of the text.                                             *)
(***************************************************************************)
EXTENDS Integers, SequencesExt

CONSTANT MaxDepth

Str(s) == [kind |-> "string", text |-> s]

False == [kind |-> "boolean", text |-> "false"]

KeysOf(v) ==
    IF v.kind = "object" THEN [i \in DOMAIN v.members |-> v.members[i][1]] ELSE <<>>

Keys(v) == ToSet(KeysOf(v))

Has(v, k) == k \in Keys(v)

At(v, k) == v.members[CHOOSE i \in DOMAIN v.members : v.members[i][1] = k][2]

Is(v, k, x) == Has(v, k) /\ At(v, k) = x

ItemsOf(v, k) == IF Has(v, k) /\ At(v, k).kind = "array" THEN At(v, k).items ELSE <<>>

Children(v) ==
    CASE v.kind = "object" -> {v.members[i][2] : i \in DOMAIN v.members}
      [] v.kind = "array"  -> ToSet(v.items)
      [] OTHER             -> {}

(* The values of a document, by depth.                                     *)
Levels(v) ==
    LET level[n \in 0..MaxDepth] ==
            IF n = 0 THEN {v} ELSE UNION {Children(x) : x \in level[n - 1]}
    IN  level

Nodes(v) == UNION Range(Levels(v))

(* decodeStrict: one value, no key twice in an object, no array or object  *)
(* below MaxDepth, no number that is too long or has an exponent.          *)
Admits(v) ==
    /\ \A x \in Levels(v)[MaxDepth] : x.kind \notin {"object", "array"}
    /\ \A x \in Nodes(v) : IsInjective(KeysOf(x)) /\ x.kind # "long_number"

Decodes(d) == d.json /\ Admits(d.value)
=============================================================================
