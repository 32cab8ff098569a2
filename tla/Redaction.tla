------------------------------- MODULE Redaction -------------------------------
(***************************************************************************)
(* The masking of secrets (internal/llm/redact/redact.go): how what the    *)
(* rules find in a text becomes matches, and what the masked text is.      *)
(* What a rule finds is given with the text: a candidate is a span, the    *)
(* priority of its rule, and whether the rule exempts it.                  *)
(***************************************************************************)
EXTENDS Integers, FiniteSets, SequencesExt

CONSTANT PlaceholderBytes   \* the length of a placeholder, by priority

Span == [start: Nat, end: Nat]

Candidate == [start: Nat, end: Nat, prio: DOMAIN PlaceholderBytes, exempt: BOOLEAN]

(* A text: its length, the placeholders it already holds, what the rules   *)
(* find in it around them, and the bytes that escaping its tags would add. *)
Text ==
    {t \in [bytes: Nat, protected: SUBSET Span,
            candidates: {cs \in SUBSET Candidate : IsFiniteSet(cs)}, escapes: Nat] :
        \A c \in t.candidates : c.end <= t.bytes}

ASSUME RedactionAssumption == PlaceholderBytes \in Seq(Nat)

(* overlaps: the first span that ends after lo.                            *)
Overlaps(protected, lo, hi) ==
    \E p \in protected :
        /\ p.end > lo /\ p.start < hi
        /\ \A q \in protected : q.end > lo => p.start <= q.start

Inside(protected, pos) == Overlaps(protected, pos, pos + 1)

Kept(t) == {c \in t.candidates : c.end > c.start /\ ~Inside(t.protected, c.start)}

Before(a, b) ==
    \/ a.start < b.start
    \/ a.start = b.start /\ a.end > b.end
    \/ a.start = b.start /\ a.end = b.end /\ a.prio <= b.prio

-----------------------------------------------------------------------------
(* Slip: the end of a group is that of its last candidate.                 *)
ExtendToLast(g, c) ==
    [start |-> g.start, end |-> c.end,
     prios |-> IF c.exempt THEN g.prios ELSE g.prios \cup {c.prio}]

(* A group of overlapping candidates, and the priorities of those that are *)
(* not exempt.                                                             *)
Extend(g, c) ==
    [start |-> g.start, end |-> IF c.end > g.end THEN c.end ELSE g.end,
     prios |-> IF c.exempt THEN g.prios ELSE g.prios \cup {c.prio}]

Group(c) == [start |-> c.start, end |-> c.end,
             prios |-> IF c.exempt THEN {} ELSE {c.prio}]

NoGroup == [start |-> 0, end |-> 0, prios |-> {}]

(* Only a group with a candidate that is not exempt is a match.            *)
Close(scan) == IF scan.open.prios = {} THEN scan.out ELSE Append(scan.out, scan.open)

(* A candidate extends the open group, or closes it and opens its own.     *)
Scan(scan, c) ==
    IF c.start < scan.open.end
    THEN [scan EXCEPT !.open = Extend(scan.open, c)]
    ELSE [out |-> Close(scan), open |-> Group(c)]

Sorted(cs) ==
    CHOOSE s \in SetToSeqs(cs) : \A i, j \in DOMAIN s : i < j => Before(s[i], s[j])

Merge(cs) ==
    LET s == Sorted(cs)
        scans[n \in 0..Len(s)] ==
            IF n = 0 THEN [out |-> <<>>, open |-> NoGroup]
            ELSE Scan(scans[n - 1], s[n])
    IN  Close(scans[Len(s)])

Find(t) == Merge(Kept(t))

ContainsSecret(t) == Find(t) # <<>>

-----------------------------------------------------------------------------
(* A masked text is what it was made of and its matches.                   *)
Masked(t) == [of |-> t, masks |-> Find(t)]

SumOver(f) ==
    LET sum[n \in 0..Len(f)] == IF n = 0 THEN 0 ELSE sum[n - 1] + f[n]
    IN  sum[Len(f)]

(* Each match is replaced by the placeholder of its first kind, which may  *)
(* be longer.                                                              *)
MaskedBytes(m) ==
    m.of.bytes + SumOver([i \in DOMAIN m.masks |->
        PlaceholderBytes[Min(m.masks[i].prios)]
          - (m.masks[i].end - m.masks[i].start)])
=============================================================================
