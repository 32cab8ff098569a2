---------------------------- MODULE LLMClientProofs ----------------------------
(***************************************************************************)
(* For every configuration, call, answer and provider: what a failed call  *)
(* of the client says it cost covers what it cost, only a call that        *)
(* reached the provider says so, and the corrections are bounded; what is  *)
(* sent goes where it may, with its secrets masked; a result was checked.  *)
(* And what a run of the loop really costs, over all of its calls.         *)
(***************************************************************************)
EXTENDS PaidLoop, FiniteSetTheorems, WellFoundedInduction, TLAPS
-----------------------------------------------------------------------------
(* Induction over the natural numbers, with a set in place of a predicate: *)
(* the least number outside of it would be a successor.                    *)

Lower == {pair \in Nat \X Nat : pair[1] < pair[2]}

LEMMA LeastNumber ==
    ASSUME NEW T, T \subseteq Nat, T # {}
    PROVE  \E least \in T : \A n \in T : least <= n
<1>1. IsWellFoundedOn(Lower, Nat)
  BY NatLessThanWellFounded DEF Lower, OpToRel
<1>2. PICK least \in T : \A n \in T : ~(<<n, least>> \in Lower)
  BY <1>1, WFMin, Zenon
<1>3. ASSUME NEW n \in T, n < least
      PROVE  FALSE
  BY <1>2, <1>3 DEF Lower
<1> QED
  BY <1>3

LEMMA SetInduction ==
    ASSUME NEW S, 0 \in S, \A n \in Nat : n \in S => n + 1 \in S
    PROVE  \A n \in Nat : n \in S
<1> DEFINE T == {n \in Nat : n \notin S}
<1> SUFFICES ASSUME T # {}
             PROVE  FALSE
  OBVIOUS
<1>1. PICK least \in T : \A n \in T : least <= n
  BY LeastNumber
<1>2. least # 0 /\ least - 1 \in Nat /\ least - 1 \notin T
  BY <1>1
<1> QED
  BY <1>1, <1>2

-----------------------------------------------------------------------------
(* The order of the candidates *)

LEMMA BeforeOrders ==
    ASSUME NEW a \in Candidate, NEW b \in Candidate
    PROVE  /\ Before(a, b) \/ Before(b, a)
           /\ Before(a, b) => a.start <= b.start
           /\ \A c \in Candidate : Before(a, b) /\ Before(b, c) => Before(a, c)
<1>1. \A c \in Candidate : c.start \in Nat /\ c.end \in Nat /\ c.prio \in Nat
  <2>1. DOMAIN PlaceholderBytes \subseteq Nat
    BY RedactionAssumption
  <2> QED
    BY <2>1 DEF Candidate
<1> QED
  BY <1>1 DEF Before

(* s holds n candidates of cs, each once, in order.                        *)
InOrder(s, n, cs) ==
    /\ s \in [1..n -> cs]
    /\ \A i, j \in 1..n : i < j => s[i] # s[j] /\ Before(s[i], s[j])

(* One more candidate is inserted where it belongs.                        *)
LEMMA Inserted ==
    ASSUME NEW cs \in SUBSET Candidate, NEW c \in Candidate, c \notin cs,
           NEW n \in Nat, NEW s, InOrder(s, n, cs)
    PROVE  \E t : InOrder(t, n + 1, cs \cup {c})
<1> DEFINE After == {i \in 1..(n + 1) : i = n + 1 \/ Before(c, s[i])}
<1>1. PICK k \in After : \A i \in After : k <= i
  <2>1. n + 1 \in After
    OBVIOUS
  <2>2. After \subseteq Nat /\ After # {}
    BY <2>1
  <2> HIDE DEF After
  <2> QED
    BY <2>2, LeastNumber
<1>2. \A i \in 1..n : s[i] \in cs /\ s[i] \in Candidate
  BY DEF InOrder
<1>3. \A i \in 1..n : i < k => Before(s[i], c)
  BY <1>1, <1>2, BeforeOrders
<1>4. \A i \in 1..n : k <= i => Before(c, s[i])
  <2> SUFFICES ASSUME NEW i \in 1..n, k <= i
               PROVE  Before(c, s[i])
    OBVIOUS
  <2>1. k \in 1..n /\ Before(c, s[k])
    BY <1>1
  <2>2. CASE i = k
    BY <2>1, <2>2
  <2>3. CASE i # k
    <3>1. Before(s[k], s[i])
      BY <2>1, <2>3 DEF InOrder
    <3> QED
      BY <1>2, <2>1, <3>1, BeforeOrders
  <2> QED
    BY <2>2, <2>3
<1> DEFINE t == [i \in 1..(n + 1) |-> IF i < k THEN s[i] ELSE IF i = k THEN c ELSE s[i - 1]]
<1>5. k \in 1..(n + 1)
  BY <1>1
<1> HIDE DEF After
<1>6. t \in [1..(n + 1) -> cs \cup {c}]
  BY <1>2, <1>5
<1>7. \A i, j \in 1..(n + 1) : i < j => t[i] # t[j] /\ Before(t[i], t[j])
  <2> SUFFICES ASSUME NEW i \in 1..(n + 1), NEW j \in 1..(n + 1), i < j
               PROVE  t[i] # t[j] /\ Before(t[i], t[j])
    OBVIOUS
  <2>1. CASE j < k
    BY <1>5, <2>1 DEF InOrder
  <2>2. CASE i < k /\ j = k
    BY <1>2, <1>3, <1>5, <2>2
  <2>3. CASE i < k /\ k < j
    BY <1>5, <2>3 DEF InOrder
  <2>4. CASE i = k
    <3>1. j - 1 \in 1..n /\ k <= j - 1 /\ t[j] = s[j - 1] /\ t[i] = c
      BY <1>5, <2>4
    <3> QED
      BY <1>2, <1>4, <3>1
  <2>5. CASE k < i
    BY <1>5, <2>5 DEF InOrder
  <2> QED
    BY <1>5, <2>1, <2>2, <2>3, <2>4, <2>5
<1> HIDE DEF t
<1> QED
  BY <1>6, <1>7 DEF InOrder

LEMMA OrderExists ==
    ASSUME NEW cs \in SUBSET Candidate, IsFiniteSet(cs)
    PROVE  \E s : InOrder(s, Cardinality(cs), cs)
<1> DEFINE S == {n \in Nat : \A ds \in SUBSET Candidate :
                   IsFiniteSet(ds) /\ Cardinality(ds) = n => \E s : InOrder(s, n, ds)}
<1>1. 0 \in S
  <2>1. \A ds : InOrder(<<>>, 0, ds)
    BY DEF InOrder
  <2> QED
    BY <2>1
<1>2. ASSUME NEW n \in Nat, n \in S
      PROVE  n + 1 \in S
  <2> SUFFICES ASSUME NEW ds \in SUBSET Candidate, IsFiniteSet(ds), Cardinality(ds) = n + 1
               PROVE  \E s : InOrder(s, n + 1, ds)
    OBVIOUS
  <2>1. PICK c \in ds : TRUE
    BY FS_EmptySet
  <2>2. IsFiniteSet(ds \ {c}) /\ Cardinality(ds \ {c}) = Cardinality(ds) - 1
    BY <2>1, FS_RemoveElement
  <2>3. PICK s : InOrder(s, n, ds \ {c})
    <3>1. Cardinality(ds \ {c}) = n
      BY <2>2
    <3> QED
      BY <1>2, <2>2, <3>1
  <2>4. \E t : InOrder(t, n + 1, (ds \ {c}) \cup {c})
    BY <2>1, <2>3, Inserted
  <2>5. (ds \ {c}) \cup {c} = ds
    BY <2>1
  <2> QED
    BY <2>4, <2>5
<1> HIDE DEF S
<1>3. Cardinality(cs) \in Nat
  BY FS_CardinalityType
<1>4. Cardinality(cs) \in S
  BY <1>1, <1>2, <1>3, SetInduction
<1> QED
  BY <1>4 DEF S

LEMMA SortedIsInOrder ==
    ASSUME NEW cs \in SUBSET Candidate, IsFiniteSet(cs)
    PROVE  /\ Cardinality(cs) \in Nat
           /\ InOrder(Sorted(cs), Cardinality(cs), cs)
           /\ \A c \in cs : \E i \in 1..Cardinality(cs) : Sorted(cs)[i] = c
<1> DEFINE n == Cardinality(cs)
<1>1. n \in Nat
  BY FS_CardinalityType
<1>2. PICK s : InOrder(s, n, cs)
  BY OrderExists
<1> HIDE DEF n
<1>3. s \in [1..n -> cs] /\ \A i, j \in 1..n : i # j => s[i] # s[j]
  BY <1>1, <1>2 DEF InOrder
<1>4. s \in SetToSeqs(cs) /\ \A i, j \in DOMAIN s : i < j => Before(s[i], s[j])
  BY <1>2, <1>3 DEF SetToSeqs, InOrder, n
<1>5. /\ Sorted(cs) \in SetToSeqs(cs)
      /\ \A i, j \in DOMAIN Sorted(cs) : i < j => Before(Sorted(cs)[i], Sorted(cs)[j])
  BY <1>4 DEF Sorted
<1>6. /\ Sorted(cs) \in [1..n -> cs]
      /\ \A i, j \in 1..n : i # j => Sorted(cs)[i] # Sorted(cs)[j]
  BY <1>5 DEF SetToSeqs, n
<1>7. InOrder(Sorted(cs), n, cs)
  BY <1>1, <1>5, <1>6 DEF InOrder
<1>8. Sorted(cs) \in Injection(1..n, cs)
  BY <1>6 DEF Injection, IsInjective
<1>9. Cardinality(1..n) = n
  BY <1>1, FS_Interval
<1>10. Sorted(cs) \in Surjection(1..n, cs)
  BY <1>8, <1>9, FS_Injection DEF n
<1> QED
  BY <1>1, <1>7, <1>10 DEF n, Surjection

-----------------------------------------------------------------------------
(* The scan *)

Matched == [start: Nat, end: Nat, prios: SUBSET Nat]

Empty == [out |-> <<>>, open |-> NoGroup]

(* scans[n] is what the scan makes of the first n candidates of s.         *)
Scans(s, f, k) ==
    /\ f[0] = Empty
    /\ \A n \in 1..k : f[n] = Scan(f[n - 1], s[n])

(* The matches so far are in order, before the open group.                 *)
InTurn(x) ==
    /\ \A i, j \in 1..Len(x.out) : i < j => x.out[i].end <= x.out[j].start
    /\ \A i \in 1..Len(x.out) : x.out[i].end <= x.open.start

(* Each candidate that is not exempt is in a match or in the open group.   *)
NoneMissed(x, s, n) ==
    \A k \in 1..n : ~s[k].exempt =>
        \/ \E i \in 1..Len(x.out) : Covers(x.out[i], s[k])
        \/ x.open.prios # {} /\ Covers(x.open, s[k])

(* Each match holds such a candidate, and so does the group, if it may     *)
(* become one.                                                             *)
NoneAdded(x, s, n) ==
    /\ \A i \in 1..Len(x.out) : \E k \in 1..n : ~s[k].exempt /\ Covers(x.out[i], s[k])
    /\ x.open.prios # {} => \E k \in 1..n : ~s[k].exempt /\ Covers(x.open, s[k])

(* A match ends with one of its candidates.                                *)
Tight(m, s, n) ==
    /\ m.start <= m.end /\ m.prios \subseteq DOMAIN PlaceholderBytes
    /\ \E k \in 1..n : m.end = s[k].end

NoneWider(x, s, n) ==
    /\ \A i \in 1..Len(x.out) : x.out[i].prios # {} /\ Tight(x.out[i], s, n)
    /\ n > 0 => Tight(x.open, s, n)

(* The open group starts no later than the next candidate.                 *)
Scanned(x, s, n) ==
    /\ x \in [out: Seq(Matched), open: Matched]
    /\ n = 0 => x = Empty
    /\ n > 0 => x.open.start <= s[n].start
    /\ InTurn(x) /\ NoneMissed(x, s, n) /\ NoneAdded(x, s, n) /\ NoneWider(x, s, n)

Spans(s, n) == \A k \in 1..n : s[k] \in Candidate /\ s[k].start < s[k].end

LEMMA ScanStep ==
    ASSUME NEW s, NEW n \in Nat, Spans(s, n + 1), NEW x, Scanned(x, s, n),
           n > 0 => s[n].start <= s[n + 1].start
    PROVE  Scanned(Scan(x, s[n + 1]), s, n + 1)
<1> DEFINE c == s[n + 1]
           y == Scan(x, c)
<1>1. /\ c.start \in Nat /\ c.end \in Nat /\ c.prio \in Nat /\ c.start < c.end
      /\ c.exempt \in BOOLEAN /\ c.prio \in DOMAIN PlaceholderBytes
  <2>1. n + 1 \in 1..(n + 1)
    OBVIOUS
  <2>2. s[n + 1] \in Candidate /\ s[n + 1].start < s[n + 1].end
    BY <2>1 DEF Spans
  <2>3. DOMAIN PlaceholderBytes \subseteq Nat
    BY RedactionAssumption
  <2>4. \A d \in Candidate : d.start \in Nat /\ d.end \in Nat /\ d.prio \in Nat
    BY <2>3 DEF Candidate
  <2>5. \A d \in Candidate : d.exempt \in BOOLEAN /\ d.prio \in DOMAIN PlaceholderBytes
    BY DEF Candidate
  <2> QED
    BY <2>2, <2>4, <2>5
<1>2. \A k \in 1..n : s[k].start \in Nat /\ s[k].end \in Nat
  BY DEF Spans, Candidate
<1> DEFINE g == x.open
           out == x.out
           len == Len(out)
<1>3. /\ g \in Matched /\ g.start \in Nat /\ g.end \in Nat /\ g.prios \in SUBSET Nat
      /\ out \in Seq(Matched) /\ len \in Nat
      /\ \A i \in 1..len : out[i].start \in Nat /\ out[i].end \in Nat
  <2>1. x.open \in Matched /\ x.out \in Seq(Matched)
    BY DEF Scanned
  <2>2. \A m \in Matched : m.start \in Nat /\ m.end \in Nat /\ m.prios \in SUBSET Nat
    BY DEF Matched
  <2> QED
    BY <2>1, <2>2
<1>4. g.start <= c.start
  <2>1. CASE n = 0
    BY <1>1, <2>1 DEF Scanned, Empty, NoGroup
  <2>2. CASE n > 0
    <3>1. n \in 1..n /\ g.start <= s[n].start
      BY <2>2 DEF Scanned
    <3> QED
      BY <1>1, <1>2, <1>3, <2>2, <3>1
  <2> QED
    BY <2>1, <2>2
<1>5. n + 1 \in Nat /\ n + 1 > 0 /\ n + 1 \in 1..(n + 1) /\ 1..(n + 1) = (1..n) \cup {n + 1}
  OBVIOUS
<1>6. CASE c.start < g.end
  <2> DEFINE h == Extend(g, c)
  <2>1. n > 0
    BY <1>1, <1>6 DEF Scanned, Empty, NoGroup
  <2>2. y = [out |-> out, open |-> h]
    BY <1>6 DEF Scan, Scanned
  <2>3. /\ h \in Matched
        /\ h.start = g.start
        /\ h.end >= g.end /\ h.end >= c.end
        /\ h.prios = IF c.exempt THEN g.prios ELSE g.prios \cup {c.prio}
    BY <1>1, <1>3 DEF Extend, Matched
  <2>4. Covers(h, c) /\ \A k \in 1..n : Covers(g, s[k]) => Covers(h, s[k])
    <3>1. /\ g.end \in Nat /\ h.end \in Nat /\ c.end \in Nat
          /\ \A k \in 1..n : s[k].end \in Nat
      BY <1>1, <1>2, <1>3, <2>3 DEF Matched
    <3> HIDE DEF g, h, c
    <3> QED
      BY <1>4, <2>3, <3>1 DEF Covers
  <2> HIDE DEF c, g, h, out
  <2>5. y \in [out: Seq(Matched), open: Matched] /\ y.out = out /\ y.open = h
    BY <1>3, <2>2, <2>3
  <2>6. InTurn(y) /\ y.open.start <= s[n + 1].start
    BY <1>4, <2>3, <2>5 DEF Scanned, InTurn, c, g, out
  <2>7. NoneMissed(y, s, n + 1)
    <3>1. CASE ~c.exempt
      BY <1>5, <2>3, <2>4, <2>5, <3>1 DEF Scanned, NoneMissed, c, g, out
    <3>2. CASE c.exempt
      BY <1>5, <2>3, <2>4, <2>5, <3>2 DEF Scanned, NoneMissed, c, g, out
    <3> QED
      BY <3>1, <3>2
  <2>8. \A i \in 1..Len(y.out) : \E k \in 1..(n + 1) : ~s[k].exempt /\ Covers(y.out[i], s[k])
    BY <1>5, <2>5 DEF Scanned, NoneAdded, out
  <2>9. y.open.prios # {} => \E k \in 1..(n + 1) : ~s[k].exempt /\ Covers(y.open, s[k])
    <3>1. CASE ~c.exempt
      BY <1>5, <2>4, <2>5, <3>1 DEF c
    <3>2. CASE c.exempt
      BY <1>5, <2>3, <2>4, <2>5, <3>2 DEF Scanned, NoneAdded, g
    <3> QED
      BY <3>1, <3>2
  <2>10. NoneAdded(y, s, n + 1)
    BY <2>8, <2>9 DEF NoneAdded
  <2>11. Tight(g, s, n)
    BY <2>1 DEF Scanned, NoneWider, g
  <2>12. Tight(h, s, n + 1)
    <3>1. h.start <= h.end
      BY <1>1, <1>3, <1>4, <2>3 DEF Matched
    <3>2. h.prios \subseteq DOMAIN PlaceholderBytes
      BY <1>1, <2>3, <2>11 DEF Tight
    <3>3. h.end = g.end \/ h.end = c.end
      BY DEF Extend, h
    <3>4. \E k \in 1..(n + 1) : h.end = s[k].end
      BY <1>5, <2>11, <3>3 DEF Tight, c
    <3> QED
      BY <3>1, <3>2, <3>4 DEF Tight
  <2>13. \A m : Tight(m, s, n) => Tight(m, s, n + 1)
    BY <1>5 DEF Tight
  <2>14. NoneWider(y, s, n + 1)
    BY <2>5, <2>12, <2>13 DEF Scanned, NoneWider, out
  <2> QED
    BY <1>5, <2>5, <2>6, <2>7, <2>10, <2>14 DEF Scanned, c
<1>7. CASE ~(c.start < g.end)
  <2> DEFINE h == Group(c)
             new == Close(x)
  <2>1. y = [out |-> new, open |-> h]
    BY <1>7 DEF Scan
  <2>2. /\ h \in Matched
        /\ h.start = c.start /\ h.end = c.end
        /\ h.prios = IF c.exempt THEN {} ELSE {c.prio}
    BY <1>1 DEF Group, Matched
  <2>3. g.end <= c.start
    BY <1>1, <1>3, <1>7
  <2>4. /\ new \in Seq(Matched)
        /\ Len(new) = IF g.prios = {} THEN len ELSE len + 1
        /\ \A i \in 1..len : new[i] = out[i]
        /\ g.prios # {} => new[len + 1] = g
    BY <1>3 DEF Close
  <2> HIDE DEF c, g, h, out, new
  <2>5. y \in [out: Seq(Matched), open: Matched] /\ y.out = new /\ y.open = h
    BY <2>1, <2>2, <2>4
  <2>6. /\ \A i, j \in 1..len : i < j => out[i].end <= out[j].start
        /\ \A i \in 1..len : out[i].end <= g.start
    BY DEF Scanned, InTurn, g, out
  <2>7. /\ \A i, j \in 1..Len(new) : i < j => new[i].end <= new[j].start
        /\ \A i \in 1..Len(new) : new[i].end <= h.start
    <3>0. \A i \in 1..len : out[i].end <= h.start
      BY <1>1, <1>3, <1>4, <2>2, <2>6
    <3>1. CASE g.prios = {}
      <4>1. Len(new) = len /\ \A i \in 1..len : new[i] = out[i]
        BY <2>4, <3>1
      <4>2. 1..Len(new) = 1..len
        BY <4>1
      <4>3. \A i, j \in 1..Len(new) : i < j => new[i].end <= new[j].start
        BY <2>6, <4>1, <4>2
      <4>4. \A i \in 1..Len(new) : new[i].end <= h.start
        BY <3>0, <4>1, <4>2
      <4> QED
        BY <4>3, <4>4
    <3>2. CASE g.prios # {}
      <4>1. /\ 1..Len(new) = (1..len) \cup {len + 1}
            /\ new[len + 1] = g /\ \A i \in 1..len : new[i] = out[i]
        BY <1>3, <2>4, <3>2
      <4>2. \A i, j \in 1..len : i < j => new[i].end <= new[j].start
        BY <2>6, <4>1
      <4>3. \A i \in 1..len : new[i].end <= new[len + 1].start
        BY <2>6, <4>1
      <4>4. \A i, j \in 1..Len(new) : i < j => new[i].end <= new[j].start
        <5> SUFFICES ASSUME NEW i \in 1..Len(new), NEW j \in 1..Len(new), i < j
                     PROVE  new[i].end <= new[j].start
          OBVIOUS
        <5>1. i \in 1..len
          BY <1>3, <4>1
        <5>2. j \in 1..len \/ j = len + 1
          BY <4>1
        <5> QED
          BY <4>2, <4>3, <5>1, <5>2
      <4> QED
        BY <2>2, <2>3, <3>0, <4>1, <4>4
    <3> QED
      BY <3>1, <3>2
  <2>8. \A k \in 1..(n + 1) : ~s[k].exempt =>
         \/ \E i \in 1..Len(new) : Covers(new[i], s[k])
         \/ h.prios # {} /\ Covers(h, s[k])
    <3> SUFFICES ASSUME NEW k \in 1..(n + 1), ~s[k].exempt
                 PROVE  \/ \E i \in 1..Len(new) : Covers(new[i], s[k])
                        \/ h.prios # {} /\ Covers(h, s[k])
      OBVIOUS
    <3>1. CASE k = n + 1
      BY <1>1, <2>2, <3>1 DEF Covers, c
    <3>2. CASE k # n + 1
      <4>1. \/ \E i \in 1..len : Covers(out[i], s[k])
            \/ g.prios # {} /\ Covers(g, s[k])
        BY <3>2 DEF Scanned, NoneMissed, g, out
      <4>2. CASE \E i \in 1..len : Covers(out[i], s[k])
        <5>1. PICK i \in 1..len : Covers(out[i], s[k])
          BY <4>2
        <5>2. 1..len \subseteq 1..Len(new)
          BY <1>3, <2>4
        <5>3. i \in 1..Len(new) /\ new[i] = out[i]
          BY <2>4, <5>1, <5>2
        <5> QED
          BY <5>1, <5>3
      <4>3. CASE g.prios # {} /\ Covers(g, s[k])
        <5>1. len + 1 \in 1..Len(new) /\ new[len + 1] = g
          BY <1>3, <2>4, <4>3
        <5> QED
          BY <4>3, <5>1
      <4> QED
        BY <4>1, <4>2, <4>3
    <3> QED
      BY <3>1, <3>2
  <2>9. \A i \in 1..Len(new) : \E k \in 1..(n + 1) : ~s[k].exempt /\ Covers(new[i], s[k])
    <3> SUFFICES ASSUME NEW i \in 1..Len(new)
                 PROVE  \E k \in 1..n : ~s[k].exempt /\ Covers(new[i], s[k])
      BY <1>5
    <3>1. CASE i \in 1..len
      BY <2>4, <3>1 DEF Scanned, NoneAdded, out
    <3>2. CASE i \notin 1..len
      <4>1. g.prios # {} /\ i = len + 1 /\ new[i] = g
        BY <1>3, <2>4, <3>2
      <4> QED
        BY <4>1 DEF Scanned, NoneAdded, g
    <3> QED
      BY <3>1, <3>2
  <2>10. h.prios # {} => \E k \in 1..(n + 1) : ~s[k].exempt /\ Covers(h, s[k])
    BY <1>1, <1>5, <2>2 DEF Covers, c
  <2>11. h.start <= s[n + 1].start
    BY <1>1, <2>2 DEF c
  <2>12. InTurn(y) /\ NoneMissed(y, s, n + 1) /\ NoneAdded(y, s, n + 1)
    BY <2>5, <2>7, <2>8, <2>9, <2>10 DEF InTurn, NoneMissed, NoneAdded
  <2>13. \A m : Tight(m, s, n) => Tight(m, s, n + 1)
    BY <1>5 DEF Tight
  <2>14. Tight(h, s, n + 1)
    BY <1>1, <1>5, <2>2 DEF Tight, c
  <2>15. \A i \in 1..Len(new) : new[i].prios # {} /\ Tight(new[i], s, n)
    <3> SUFFICES ASSUME NEW i \in 1..Len(new)
                 PROVE  new[i].prios # {} /\ Tight(new[i], s, n)
      OBVIOUS
    <3>1. CASE i \in 1..len
      BY <2>4, <3>1 DEF Scanned, NoneWider, out
    <3>2. CASE i \notin 1..len
      <4>1. g.prios # {} /\ new[i] = g
        BY <1>3, <2>4, <3>2
      <4>2. n > 0
        BY <4>1 DEF Scanned, Empty, NoGroup, g
      <4> QED
        BY <4>1, <4>2 DEF Scanned, NoneWider, g
    <3> QED
      BY <3>1, <3>2
  <2>16. NoneWider(y, s, n + 1)
    BY <2>5, <2>13, <2>14, <2>15 DEF NoneWider
  <2> QED
    BY <1>5, <2>5, <2>11, <2>12, <2>16 DEF Scanned, c
<1> QED
  BY <1>6, <1>7

LEMMA ScansExist ==
    ASSUME NEW s, NEW len \in Nat
    PROVE  \E f : f = [n \in 0..len |-> IF n = 0 THEN Empty ELSE Scan(f[n - 1], s[n])]
<1> DEFINE Of(f, k) == f = [n \in 0..k |-> IF n = 0 THEN Empty ELSE Scan(f[n - 1], s[n])]
           S == {k \in Nat : \E f : Of(f, k)}
<1>1. 0 \in S
  <2>1. Of([n \in 0..0 |-> Empty], 0)
    OBVIOUS
  <2> QED
    BY <2>1
<1>2. ASSUME NEW k \in Nat, k \in S
      PROVE  k + 1 \in S
  <2>1. PICK f : Of(f, k)
    BY <1>2
  <2> DEFINE g == [n \in 0..(k + 1) |-> IF n = k + 1 THEN Scan(f[k], s[k + 1]) ELSE f[n]]
  <2>2. \A n \in 0..(k + 1) : g[n] = IF n = 0 THEN Empty ELSE Scan(g[n - 1], s[n])
    <3>1. ASSUME NEW n \in 0..(k + 1)
          PROVE  g[n] = IF n = 0 THEN Empty ELSE Scan(g[n - 1], s[n])
      <4>1. CASE n = k + 1
        <5>1. n - 1 = k /\ n # 0 /\ g[k] = f[k] /\ g[n] = Scan(f[k], s[k + 1])
          BY <4>1
        <5> QED
          BY <4>1, <5>1
      <4>2. CASE n # k + 1
        <5>1. n \in 0..k /\ g[n] = f[n]
          BY <4>2
        <5>2. f[n] = IF n = 0 THEN Empty ELSE Scan(f[n - 1], s[n])
          BY <2>1, <5>1
        <5>3. n # 0 => g[n - 1] = f[n - 1]
          BY <5>1
        <5> QED
          BY <5>1, <5>2, <5>3
      <4> QED
        BY <4>1, <4>2
    <3> QED
      BY <3>1
  <2>3. Of(g, k + 1)
    BY <2>2
  <2> HIDE DEF g, Of
  <2> QED
    BY <2>3
<1> HIDE DEF S
<1>3. len \in S
  BY <1>1, <1>2, SetInduction
<1> QED
  BY <1>3 DEF S

LEMMA MergeScans ==
    ASSUME NEW cs \in SUBSET Candidate, IsFiniteSet(cs),
           \A c \in cs : c.start < c.end
    PROVE  \E x : Merge(cs) = Close(x) /\ Scanned(x, Sorted(cs), Cardinality(cs))
<1> DEFINE s == Sorted(cs)
           len == Cardinality(cs)
           F == CHOOSE f : f = [n \in 0..Len(s) |->
                     IF n = 0 THEN [out |-> <<>>, open |-> NoGroup]
                     ELSE Scan(f[n - 1], s[n])]
<1>1. len \in Nat /\ InOrder(s, len, cs)
  BY SortedIsInOrder
<1> HIDE DEF len, s
<1>2. Len(s) = len
  BY <1>1 DEF InOrder
<1>3. \E f : f = [n \in 0..Len(s) |->
              IF n = 0 THEN [out |-> <<>>, open |-> NoGroup] ELSE Scan(f[n - 1], s[n])]
  BY <1>1, <1>2, ScansExist DEF Empty
<1>4. F = [n \in 0..Len(s) |-> IF n = 0 THEN [out |-> <<>>, open |-> NoGroup]
                                 ELSE Scan(F[n - 1], s[n])]
  BY <1>3, Zenon
<1>5. Merge(cs) = Close(F[Len(s)])
  BY Zenon DEF Merge, s
<1> HIDE DEF F
<1>6. \A k \in 1..len : s[k] \in cs /\ s[k] \in Candidate
  BY <1>1 DEF InOrder
<1> DEFINE S == {n \in Nat : n <= len => Scanned(F[n], s, n)}
<1>7. 0 \in S
  <2>1. F[0] = Empty
    BY <1>1, <1>2, <1>4 DEF Empty
  <2>2. Empty \in [out: Seq(Matched), open: Matched] /\ Empty.out = <<>> /\ Empty.open.prios = {}
    BY DEF Empty, NoGroup, Matched
  <2> QED
    BY <2>1, <2>2 DEF Scanned, InTurn, NoneMissed, NoneAdded, NoneWider
<1>8. ASSUME NEW n \in Nat, n \in S
      PROVE  n + 1 \in S
  <2> SUFFICES ASSUME n + 1 <= len
               PROVE  Scanned(F[n + 1], s, n + 1)
    OBVIOUS
  <2>1. Scanned(F[n], s, n)
    BY <1>1, <1>8
  <2>2. F[n + 1] = Scan(F[n], s[n + 1])
    BY <1>1, <1>2, <1>4
  <2>3. Spans(s, n + 1)
    BY <1>1, <1>6 DEF Spans
  <2>4. n > 0 => s[n].start <= s[n + 1].start
    <3> SUFFICES ASSUME n > 0
                 PROVE  s[n].start <= s[n + 1].start
      OBVIOUS
    <3>1. n \in 1..len /\ n + 1 \in 1..len /\ n < n + 1
      BY <1>1
    <3>2. Before(s[n], s[n + 1])
      BY <1>1, <3>1 DEF InOrder
    <3> QED
      BY <1>6, <3>1, <3>2, BeforeOrders
  <2> QED
    BY <2>1, <2>2, <2>3, <2>4, ScanStep
<1> HIDE DEF S
<1>9. len \in S
  BY <1>1, <1>7, <1>8, SetInduction
<1>10. Scanned(F[len], s, len)
  BY <1>1, <1>9 DEF S
<1> QED
  BY <1>2, <1>5, <1>10 DEF s, len

(* What merge makes of candidates: matches in order and apart, each        *)
(* candidate that is not exempt in one, and in each match one of these.    *)
LEMMA MergeMatches ==
    ASSUME NEW cs \in SUBSET Candidate, IsFiniteSet(cs),
           \A c \in cs : c.start < c.end
    PROVE  /\ Merge(cs) \in Seq(Matched)
           /\ \A i, j \in DOMAIN Merge(cs) : i < j => Merge(cs)[i].end <= Merge(cs)[j].start
           /\ \A c \in cs : ~c.exempt => \E i \in DOMAIN Merge(cs) : Covers(Merge(cs)[i], c)
           /\ \A i \in DOMAIN Merge(cs) : \E c \in cs : ~c.exempt /\ Covers(Merge(cs)[i], c)
           /\ \A i \in DOMAIN Merge(cs) :
                /\ Merge(cs)[i].start <= Merge(cs)[i].end
                /\ \E c \in cs : Merge(cs)[i].end = c.end
                /\ Merge(cs)[i].prios # {}
                /\ Merge(cs)[i].prios \subseteq DOMAIN PlaceholderBytes
<1> DEFINE s == Sorted(cs)
           n == Cardinality(cs)
           ms == Merge(cs)
<1>1. PICK x : ms = Close(x) /\ Scanned(x, s, n)
  BY MergeScans
<1>2. n \in Nat /\ InOrder(s, n, cs) /\ \A c \in cs : \E k \in 1..n : s[k] = c
  BY SortedIsInOrder
<1> HIDE DEF s, n, ms
<1>3. \A k \in 1..n : s[k] \in cs
  BY <1>2 DEF InOrder
<1> DEFINE out == x.out
           g == x.open
           len == Len(out)
<1>4. /\ out \in Seq(Matched) /\ g \in Matched /\ len \in Nat
      /\ \A i, j \in 1..len : i < j => out[i].end <= out[j].start
      /\ \A i \in 1..len : out[i].end <= g.start
      /\ \A k \in 1..n : ~s[k].exempt =>
           \/ \E i \in 1..len : Covers(out[i], s[k])
           \/ g.prios # {} /\ Covers(g, s[k])
      /\ \A i \in 1..len : \E k \in 1..n : ~s[k].exempt /\ Covers(out[i], s[k])
      /\ g.prios # {} => \E k \in 1..n : ~s[k].exempt /\ Covers(g, s[k])
  <2>1. out \in Seq(Matched) /\ g \in Matched /\ len \in Nat
    BY <1>1 DEF Scanned
  <2> QED
    BY <1>1, <2>1, Zenon DEF Scanned, InTurn, NoneMissed, NoneAdded
<1> DEFINE IsTight(m) ==
             /\ m.start <= m.end
             /\ \E c \in cs : m.end = c.end
             /\ m.prios # {}
             /\ m.prios \subseteq DOMAIN PlaceholderBytes
<1>8. (\A i \in 1..len : IsTight(out[i])) /\ (g.prios # {} => IsTight(g))
  <2>1. \A m : Tight(m, s, n) /\ m.prios # {} => IsTight(m)
    BY <1>3 DEF Tight
  <2>2. n = 0 => g.prios = {}
    BY <1>1 DEF Scanned, Empty, NoGroup
  <2>3. n > 0 => Tight(g, s, n)
    BY <1>1 DEF Scanned, NoneWider
  <2>4. \A i \in 1..len : out[i].prios # {} /\ Tight(out[i], s, n)
    BY <1>1, Zenon DEF Scanned, NoneWider
  <2> QED
    BY <1>2, <2>1, <2>2, <2>3, <2>4
<1> HIDE DEF IsTight
<1>5. ms = IF g.prios = {} THEN out ELSE Append(out, g)
  BY <1>1 DEF Close
<1> HIDE DEF out, g
<1>6. ASSUME g.prios = {}
      PROVE  /\ ms \in Seq(Matched) /\ \A i, j \in DOMAIN ms : i < j => ms[i].end <= ms[j].start
             /\ \A k \in 1..n : ~s[k].exempt => \E i \in DOMAIN ms : Covers(ms[i], s[k])
             /\ \A i \in DOMAIN ms : \E k \in 1..n : ~s[k].exempt /\ Covers(ms[i], s[k])
             /\ \A i \in DOMAIN ms : IsTight(ms[i])
  <2>1. ms = out /\ DOMAIN ms = 1..len
    BY <1>4, <1>5, <1>6
  <2> HIDE DEF len
  <2>2. \A k \in 1..n : ~s[k].exempt => \E i \in DOMAIN ms : Covers(ms[i], s[k])
    BY <1>4, <1>6, <2>1
  <2>3. \A i \in DOMAIN ms : \E k \in 1..n : ~s[k].exempt /\ Covers(ms[i], s[k])
    BY <1>4, <2>1
  <2>4. ms \in Seq(Matched) /\ \A i, j \in DOMAIN ms : i < j => ms[i].end <= ms[j].start
    BY <1>4, <2>1
  <2>5. \A i \in DOMAIN ms : IsTight(ms[i])
    BY <1>8, <2>1
  <2> QED
    BY <2>2, <2>3, <2>4, <2>5
<1>7. ASSUME g.prios # {}
      PROVE  /\ ms \in Seq(Matched) /\ \A i, j \in DOMAIN ms : i < j => ms[i].end <= ms[j].start
             /\ \A k \in 1..n : ~s[k].exempt => \E i \in DOMAIN ms : Covers(ms[i], s[k])
             /\ \A i \in DOMAIN ms : \E k \in 1..n : ~s[k].exempt /\ Covers(ms[i], s[k])
             /\ \A i \in DOMAIN ms : IsTight(ms[i])
  <2>1. /\ ms \in Seq(Matched) /\ DOMAIN ms = (1..len) \cup {len + 1}
        /\ ms[len + 1] = g /\ \A i \in 1..len : ms[i] = out[i]
    BY <1>4, <1>5, <1>7
  <2> HIDE DEF len
  <2>2. \A i, j \in DOMAIN ms : i < j => ms[i].end <= ms[j].start
    <3> SUFFICES ASSUME NEW i \in DOMAIN ms, NEW j \in DOMAIN ms, i < j
                 PROVE  ms[i].end <= ms[j].start
      OBVIOUS
    <3>1. i \in 1..len
      BY <1>4, <2>1
    <3>2. CASE j \in 1..len
      BY <1>4, <2>1, <3>1, <3>2
    <3>3. CASE j = len + 1
      BY <1>4, <2>1, <3>1, <3>3
    <3> QED
      BY <2>1, <3>2, <3>3
  <2>3. \A k \in 1..n : ~s[k].exempt => \E i \in DOMAIN ms : Covers(ms[i], s[k])
    <3> SUFFICES ASSUME NEW k \in 1..n, ~s[k].exempt
                 PROVE  \E i \in DOMAIN ms : Covers(ms[i], s[k])
      OBVIOUS
    <3>1. CASE \E i \in 1..len : Covers(out[i], s[k])
      BY <2>1, <3>1
    <3>2. CASE Covers(g, s[k])
      BY <2>1, <3>2
    <3> QED
      BY <1>4, <3>1, <3>2
  <2>4. \A i \in DOMAIN ms : \E k \in 1..n : ~s[k].exempt /\ Covers(ms[i], s[k])
    BY <1>4, <1>7, <2>1
  <2>5. \A i \in DOMAIN ms : IsTight(ms[i])
    BY <1>7, <1>8, <2>1
  <2> QED
    BY <2>1, <2>2, <2>3, <2>4, <2>5
<1>10. \A i \in DOMAIN ms :
        /\ ms[i].start <= ms[i].end
        /\ \E c \in cs : ms[i].end = c.end
        /\ ms[i].prios # {}
        /\ ms[i].prios \subseteq DOMAIN PlaceholderBytes
  BY <1>6, <1>7, Zenon DEF IsTight
<1> HIDE DEF IsTight
<1>11. \A c \in cs : ~c.exempt => \E i \in DOMAIN ms : Covers(ms[i], c)
  BY <1>2, <1>6, <1>7, Zenon
<1>12. \A i \in DOMAIN ms : \E c \in cs : ~c.exempt /\ Covers(ms[i], c)
  BY <1>3, <1>6, <1>7, Zenon
<1>13. ms \in Seq(Matched) /\ \A i, j \in DOMAIN ms : i < j => ms[i].end <= ms[j].start
  BY <1>6, <1>7, Zenon
<1> QED
  BY <1>10, <1>11, <1>12, <1>13, Zenon DEF ms

(* A span that starts in a placeholder is told to be inside of one.        *)
LEMMA InsideIsExact ==
    ASSUME NEW protected \in SUBSET Span, NEW pos \in Nat
    PROVE  Inside(protected, pos) <=> \E p \in protected : pos \in p.start..(p.end - 1)
<1>1. \A p \in protected : p.start \in Nat /\ p.end \in Nat
  BY DEF Span
<1>2. ASSUME Inside(protected, pos)
      PROVE  \E p \in protected : pos \in p.start..(p.end - 1)
  BY <1>1, <1>2 DEF Inside, Overlaps
<1>3. ASSUME NEW p \in protected, pos \in p.start..(p.end - 1)
      PROVE  Inside(protected, pos)
  <2> DEFINE T == {n \in Nat : \E q \in protected : q.end > pos /\ q.start = n}
  <2>1. p.start \in T
    BY <1>1, <1>3
  <2>2. PICK least \in T : \A n \in T : least <= n
    <3>1. T \subseteq Nat /\ T # {}
      BY <2>1
    <3> HIDE DEF T
    <3> QED
      BY <3>1, LeastNumber
  <2>3. PICK q \in protected : q.end > pos /\ q.start = least
    BY <2>2
  <2>4. least <= p.start
    BY <2>1, <2>2
  <2>5. \A r \in protected : r.end > pos => q.start <= r.start
    BY <1>1, <2>2, <2>3
  <2>6. q.start < pos + 1
    BY <1>1, <1>3, <2>3, <2>4
  <2> QED
    BY <2>3, <2>5, <2>6 DEF Inside, Overlaps
<1> QED
  BY <1>2, <1>3
(* Of any text, every secret is masked, whole, and nothing else is.        *)
LEMMA MaskedIsMasked ==
    ASSUME NEW t \in Text
    PROVE  SecretsMasked(Masked(t))
<1> DEFINE cs == Kept(t)
<1>1. /\ t.candidates \in SUBSET Candidate /\ IsFiniteSet(t.candidates)
      /\ t.protected \in SUBSET Span
  BY DEF Text
<1>2. cs \in SUBSET Candidate /\ IsFiniteSet(cs) /\ \A c \in cs : c.start < c.end
  <2>1. cs \subseteq t.candidates
    BY DEF Kept
  <2>2. \A c \in Candidate : c.start \in Nat /\ c.end \in Nat
    BY DEF Candidate
  <2>3. \A c \in cs : c.end > c.start
    BY DEF Kept
  <2> QED
    BY <1>1, <2>1, <2>2, <2>3, FS_Subset
<1>3. \A c \in t.candidates : IsSecret(c, t) <=> c \in cs /\ ~c.exempt
  <2> SUFFICES ASSUME NEW c \in t.candidates
               PROVE  IsSecret(c, t) <=> c \in cs /\ ~c.exempt
    OBVIOUS
  <2>1. c.start \in Nat /\ c.end \in Nat
    BY <1>1 DEF Candidate
  <2>2. Inside(t.protected, c.start) <=> \E p \in t.protected : c.start \in p.start..(p.end - 1)
    BY <1>1, <2>1, InsideIsExact
  <2> QED
    BY <2>1, <2>2 DEF IsSecret, Kept
<1>4. cs \subseteq t.candidates
  BY DEF Kept
<1>5. Masked(t).of = t /\ Masked(t).masks = Merge(cs)
  BY DEF Masked, Find
<1> HIDE DEF cs
<1> QED
  BY <1>2, <1>3, <1>4, <1>5, MergeMatches DEF SecretsMasked

-----------------------------------------------------------------------------
(* The sizes of texts and of messages *)

Numbers(f) == Len(f) \in Nat /\ \A n \in 1..Len(f) : f[n] \in Int

(* g[n] is the sum of the first n elements of f, up to k.                  *)
Sums(f, g, k) ==
    /\ g \in [0..k -> Int]
    /\ g[0] = 0
    /\ \A n \in 1..k : g[n] = g[n - 1] + f[n]

LEMMA SumsExist ==
    ASSUME NEW f, Numbers(f)
    PROVE  \E g : Sums(f, g, Len(f))
<1> DEFINE S == {k \in Nat : k <= Len(f) => \E g : Sums(f, g, k)}
<1>1. 0 \in S
  <2>1. Sums(f, [n \in 0..0 |-> 0], 0)
    BY DEF Sums
  <2> QED
    BY <2>1
<1>2. ASSUME NEW k \in Nat, k \in S
      PROVE  k + 1 \in S
  <2> SUFFICES ASSUME k + 1 <= Len(f)
               PROVE  \E g : Sums(f, g, k + 1)
    OBVIOUS
  <2>1. k <= Len(f) /\ f[k + 1] \in Int
    BY DEF Numbers
  <2>2. PICK g : Sums(f, g, k)
    BY <1>2, <2>1
  <2> DEFINE h == [n \in 0..(k + 1) |-> IF n = k + 1 THEN g[k] + f[k + 1] ELSE g[n]]
  <2>3. h \in [0..(k + 1) -> Int]
    BY <2>1, <2>2 DEF Sums
  <2>4. h[0] = 0 /\ \A n \in 1..(k + 1) : h[n] = h[n - 1] + f[n]
    BY <2>2 DEF Sums
  <2> HIDE DEF h
  <2>5. Sums(f, h, k + 1)
    BY <2>3, <2>4 DEF Sums
  <2> QED
    BY <2>5
<1> HIDE DEF S
<1>3. Len(f) \in S
  BY <1>1, <1>2, SetInduction DEF Numbers
<1> QED
  BY <1>3 DEF S, Numbers

LEMMA SumsAgree ==
    ASSUME NEW f, NEW u, NEW k \in Nat, NEW g, NEW h,
           NEW j \in Nat, j >= k, Sums(f, g, k), Sums(u, h, j),
           \A n \in 1..k : f[n] = u[n]
    PROVE  g[k] = h[k]
<1> DEFINE S == {n \in Nat : n <= k => g[n] = h[n]}
<1>1. 0 \in S
  BY DEF Sums
<1>2. ASSUME NEW n \in Nat, n \in S
      PROVE  n + 1 \in S
  <2> SUFFICES ASSUME n + 1 <= k
               PROVE  g[n + 1] = h[n + 1]
    OBVIOUS
  <2>1. g[n] = h[n] /\ n + 1 \in 1..k /\ (n + 1) - 1 = n
    BY <1>2
  <2>2. n + 1 \in 1..j
    OBVIOUS
  <2> QED
    BY <2>1, <2>2 DEF Sums
<1> HIDE DEF S
<1>3. k \in S
  BY <1>1, <1>2, SetInduction
<1> QED
  BY <1>3 DEF S

(* SumOver is the last of the sums.                                        *)
LEMMA SumIsLast ==
    ASSUME NEW f, Numbers(f)
    PROVE  \E g : Sums(f, g, Len(f)) /\ SumOver(f) = g[Len(f)]
<1> DEFINE F == CHOOSE sum : sum = [n \in 0..Len(f) |->
                                     IF n = 0 THEN 0 ELSE sum[n - 1] + f[n]]
<1>1. PICK g : Sums(f, g, Len(f))
  BY SumsExist
<1>2. g = [n \in 0..Len(f) |-> IF n = 0 THEN 0 ELSE g[n - 1] + f[n]]
  <2> DEFINE h == [n \in 0..Len(f) |-> IF n = 0 THEN 0 ELSE g[n - 1] + f[n]]
  <2>1. \A n \in 0..Len(f) : g[n] = h[n]
    BY <1>1 DEF Sums, Numbers
  <2> QED
    BY <1>1, <2>1 DEF Sums
<1>3. F = [n \in 0..Len(f) |-> IF n = 0 THEN 0 ELSE F[n - 1] + f[n]]
  BY <1>2, Zenon
<1>4. SumOver(f) = F[Len(f)]
  BY Zenon DEF SumOver
<1> HIDE DEF F
<1> DEFINE S == {k \in Nat : k <= Len(f) => F[k] = g[k]}
<1>5. 0 \in S
  BY <1>1, <1>3 DEF Sums, Numbers
<1>6. ASSUME NEW k \in Nat, k \in S
      PROVE  k + 1 \in S
  BY <1>1, <1>3, <1>6 DEF Sums, Numbers
<1> HIDE DEF S
<1>7. Len(f) \in S
  BY <1>5, <1>6, SetInduction DEF Numbers
<1> QED
  BY <1>1, <1>4, <1>7 DEF S, Numbers

LEMMA SumOfNaturals ==
    ASSUME NEW f, Len(f) \in Nat, \A n \in 1..Len(f) : f[n] \in Nat
    PROVE  SumOver(f) \in Nat
<1>1. PICK g : Sums(f, g, Len(f)) /\ SumOver(f) = g[Len(f)]
  BY SumIsLast DEF Numbers
<1> DEFINE S == {k \in Nat : k <= Len(f) => g[k] \in Nat}
<1>2. 0 \in S
  BY <1>1 DEF Sums
<1>3. ASSUME NEW k \in Nat, k \in S
      PROVE  k + 1 \in S
  BY <1>1, <1>3 DEF Sums
<1> HIDE DEF S
<1>4. Len(f) \in S
  BY <1>2, <1>3, SetInduction
<1> QED
  BY <1>1, <1>4 DEF S

LEMMA SumAppended ==
    ASSUME NEW f, NEW u, Numbers(f), Numbers(u), Len(u) = Len(f) + 1,
           \A n \in 1..Len(f) : u[n] = f[n]
    PROVE  SumOver(u) = SumOver(f) + u[Len(u)]
<1>1. PICK g : Sums(f, g, Len(f)) /\ SumOver(f) = g[Len(f)]
  BY SumIsLast
<1>2. PICK h : Sums(u, h, Len(u)) /\ SumOver(u) = h[Len(u)]
  BY SumIsLast
<1>3. PICK k \in Nat : k = Len(f) /\ Len(u) = k + 1
  BY DEF Numbers
<1>4. g[k] = h[k]
  <2>1. PICK j \in Nat : j = Len(u) /\ j >= k
    BY <1>3
  <2>2. Sums(f, g, k) /\ Sums(u, h, j)
    BY <1>1, <1>2, <1>3, <2>1
  <2> QED
    BY <1>3, <2>1, <2>2, SumsAgree
<1>5. h[k + 1] = h[k] + u[k + 1]
  BY <1>2, <1>3 DEF Sums
<1> QED
  BY <1>1, <1>2, <1>3, <1>4, <1>5

LEMMA OneSum ==
    ASSUME NEW v \in Nat
    PROVE  SumOver(<<v>>) = v /\ SumOver(<<>>) = 0
<1>1. Numbers(<<>>) /\ Numbers(<<v>>) /\ Len(<<v>>) = 1 /\ Len(<<>>) = 0 /\ <<v>>[1] = v
  BY DEF Numbers
<1>2. SumOver(<<>>) = 0
  <2>1. PICK g : Sums(<<>>, g, 0) /\ SumOver(<<>>) = g[0]
    BY <1>1, SumIsLast
  <2> QED
    BY <2>1 DEF Sums
<1>3. SumOver(<<v>>) = v
  <2> DEFINE u == <<v>>
  <2>1. Numbers(u) /\ Len(u) = 1 /\ u[1] = v
    BY <1>1
  <2> HIDE DEF u
  <2>2. PICK g : Sums(u, g, 1) /\ SumOver(u) = g[1]
    BY <2>1, SumIsLast
  <2>3. g[0] = 0 /\ g[0 + 1] = g[0] + u[0 + 1]
    BY <2>2 DEF Sums
  <2>4. SumOver(u) = v
    BY <2>1, <2>2, <2>3
  <2> QED
    BY <2>4 DEF u
<1> QED
  BY <1>2, <1>3

LEMMA LeastOf ==
    ASSUME NEW T \in SUBSET Nat, T # {}
    PROVE  Min(T) \in T /\ \A n \in T : Min(T) <= n
<1>1. \E least \in T : \A n \in T : least <= n
  BY LeastNumber
<1> QED
  BY <1>1 DEF Min

(* A text shrinks by no more than its matches, which lie in it, apart.     *)
LEMMA MaskedHasASize ==
    ASSUME NEW t \in Text
    PROVE  MaskedBytes(Masked(t)) \in Nat
<1> DEFINE cs == Kept(t)
           ms == Merge(cs)
           f == [i \in DOMAIN ms |-> PlaceholderBytes[Min(ms[i].prios)] - (ms[i].end - ms[i].start)]
           len == Len(ms)
<1>1. /\ t.candidates \in SUBSET Candidate /\ IsFiniteSet(t.candidates)
      /\ t.bytes \in Nat /\ \A c \in t.candidates : c.end <= t.bytes
  BY DEF Text
<1>2. cs \in SUBSET Candidate /\ IsFiniteSet(cs) /\ \A c \in cs : c.start < c.end /\ c.end <= t.bytes
  <2>1. cs \subseteq t.candidates
    BY DEF Kept
  <2>2. \A c \in cs : c.start < c.end
    BY <1>1 DEF Kept, Candidate
  <2> QED
    BY <1>1, <2>1, <2>2, FS_Subset
<1> HIDE DEF cs
<1>3. /\ ms \in Seq(Matched)
      /\ \A i, j \in DOMAIN ms : i < j => ms[i].end <= ms[j].start
      /\ \A i \in DOMAIN ms :
           /\ ms[i].start <= ms[i].end
           /\ \E c \in cs : ms[i].end = c.end
           /\ ms[i].prios # {}
           /\ ms[i].prios \subseteq DOMAIN PlaceholderBytes
  BY <1>2, MergeMatches
<1> HIDE DEF ms
<1>4. len \in Nat /\ DOMAIN ms = 1..len
  BY <1>3
<1>5. \A i \in 1..len : /\ ms[i].start \in Nat /\ ms[i].end \in Nat
                        /\ ms[i].start <= ms[i].end /\ ms[i].end <= t.bytes
  <2>1. \A m \in Matched : m.start \in Nat /\ m.end \in Nat
    BY DEF Matched
  <2> QED
    BY <1>2, <1>3, <1>4, <2>1
<1>6. \A i \in 1..len : PlaceholderBytes[Min(ms[i].prios)] \in Nat
  <2> SUFFICES ASSUME NEW i \in 1..len
               PROVE  PlaceholderBytes[Min(ms[i].prios)] \in Nat
    OBVIOUS
  <2>1. DOMAIN PlaceholderBytes \subseteq Nat
    BY RedactionAssumption
  <2>2. ms[i].prios \in SUBSET Nat /\ ms[i].prios # {}
        /\ ms[i].prios \subseteq DOMAIN PlaceholderBytes
    BY <1>3, <1>4, <2>1
  <2>3. Min(ms[i].prios) \in DOMAIN PlaceholderBytes
    BY <2>2, LeastOf
  <2> QED
    BY <2>3, RedactionAssumption
<1>7. /\ f \in [1..len -> Int]
      /\ \A i \in 1..len : f[i] >= ms[i].start - ms[i].end
  BY <1>4, <1>5, <1>6
<1> HIDE DEF f
<1>8. Len(f) = len /\ Numbers(f)
  BY <1>4, <1>7 DEF Numbers
<1>9. PICK g : Sums(f, g, len) /\ SumOver(f) = g[len]
  BY <1>8, SumIsLast
<1> DEFINE End(n) == IF n = 0 THEN 0 ELSE ms[n].end
           S == {n \in Nat : n <= len => g[n] + End(n) >= 0}
<1>10. 0 \in S
  BY <1>9 DEF Sums
<1>11. ASSUME NEW n \in Nat, n \in S
       PROVE  n + 1 \in S
  <2> SUFFICES ASSUME n + 1 <= len
               PROVE  g[n + 1] + End(n + 1) >= 0
    OBVIOUS
  <2>1. n + 1 \in 1..len /\ n + 1 # 0 /\ g[n] + End(n) >= 0 /\ g[n] \in Int
    BY <1>4, <1>9, <1>11 DEF Sums
  <2>2. g[n + 1] = g[n] + f[n + 1] /\ f[n + 1] \in Int
    BY <1>7, <1>9, <2>1 DEF Sums
  <2>3. End(n) <= ms[n + 1].start /\ End(n) \in Nat
    <3>1. CASE n = 0
      BY <1>5, <2>1, <3>1
    <3>2. CASE n # 0
      <4>1. n \in 1..len /\ n < n + 1
        BY <2>1, <3>2
      <4> QED
        BY <1>3, <1>4, <1>5, <2>1, <3>2, <4>1
    <3> QED
      BY <3>1, <3>2
  <2>4. /\ f[n + 1] >= ms[n + 1].start - ms[n + 1].end
        /\ ms[n + 1].start \in Nat /\ ms[n + 1].end \in Nat /\ End(n + 1) = ms[n + 1].end
    BY <1>5, <1>7, <2>1
  <2> HIDE DEF End
  <2>5. End(n + 1) \in Nat /\ f[n + 1] + End(n + 1) >= End(n)
    BY <2>2, <2>3, <2>4
  <2>6. g[n + 1] + End(n + 1) = (g[n] + f[n + 1]) + End(n + 1)
    BY <2>2
  <2> DEFINE before == g[n]
             more == f[n + 1]
             from == End(n)
             to == End(n + 1)
  <2>7. /\ before \in Int /\ more \in Int /\ from \in Nat /\ to \in Nat
        /\ before + from >= 0 /\ more + to >= from
    BY <2>1, <2>2, <2>3, <2>5
  <2> HIDE DEF before, more, from, to
  <2>8. (before + more) + to >= 0
    BY <2>7
  <2> QED
    BY <2>6, <2>8 DEF before, more, to
<1> HIDE DEF S
<1>12. len \in S
  BY <1>4, <1>10, <1>11, SetInduction
<1>13. g[len] \in Int /\ g[len] + End(len) >= 0 /\ End(len) \in Nat /\ End(len) <= t.bytes
  <2>1. g[len] \in Int
    BY <1>4, <1>9 DEF Sums
  <2>2. g[len] + End(len) >= 0
    BY <1>4, <1>12 DEF S
  <2>3. End(len) \in Nat /\ End(len) <= t.bytes
    <3>1. CASE len = 0
      BY <1>1, <3>1
    <3>2. CASE len # 0
      <4>1. len \in 1..len
        BY <1>4, <3>2
      <4> QED
        BY <1>5, <3>2, <4>1
    <3> QED
      BY <3>1, <3>2
  <2> QED
    BY <2>1, <2>2, <2>3
<1> HIDE DEF End
<1>14. MaskedBytes(Masked(t)) = t.bytes + SumOver(f)
  BY Zenon DEF MaskedBytes, Masked, Find, f, ms, cs
<1> QED
  BY <1>1, <1>9, <1>13, <1>14

LEMMA BlockHasASize ==
    ASSUME NEW block, MaskedBytes(block[1]) \in Nat, MaskedBytes(block[2]) \in Nat,
           block[2].of.escapes \in Nat
    PROVE  RenderedBytes(block) \in Nat
<1> DEFINE source == MaskedBytes(block[1])
           T == {MaxSourceIDBytes, IF source = 0 THEN 1 ELSE source}
<1>1. T \in SUBSET Nat /\ T # {}
  BY RequestsAssumption
<1> HIDE DEF T, source
<1>2. Min(T) \in Nat
  BY <1>1, LeastOf
<1>3. RenderedBytes(block) = TagBytes + Min(T) + MaskedBytes(block[2]) + block[2].of.escapes
  BY Zenon DEF RenderedBytes, T, source
<1> QED
  BY <1>2, <1>3, RequestsAssumption

LEMMA PartHasASize ==
    ASSUME NEW p \in Part
    PROVE  RenderedPart(MaskedPart(p)) \in Nat
<1> DEFINE q == MaskedPart(p)
<1>1. p.text \in Text /\ p.untrusted \in {<<>>} \cup (Text \X Text)
  BY DEF Part
<1>2. CASE p.untrusted = <<>>
  <2>1. q.text = <<Masked(p.text)>> /\ q.untrusted = <<>>
    BY <1>2 DEF MaskedPart
  <2> DEFINE v == MaskedBytes(Masked(p.text))
  <2>2. v \in Nat
    BY <1>1, MaskedHasASize
  <2>3. [k \in DOMAIN q.text |-> MaskedBytes(q.text[k])] = <<v>>
    BY <2>1
  <2> HIDE DEF v, q
  <2>4. RenderedPart(q) = SumOver(<<v>>) + 0
    BY <2>1, <2>3 DEF RenderedPart
  <2> QED
    BY <2>2, <2>4, OneSum DEF q
<1>3. CASE p.untrusted # <<>>
  <2>1. p.untrusted = <<p.untrusted[1], p.untrusted[2]>>
        /\ p.untrusted[1] \in Text /\ p.untrusted[2] \in Text
    BY <1>1, <1>3
  <2>2. q.text = <<>> /\ q.untrusted = <<Masked(p.untrusted[1]), Masked(p.untrusted[2])>>
    BY <1>3, <2>1 DEF MaskedPart
  <2>3. /\ MaskedBytes(q.untrusted[1]) \in Nat /\ MaskedBytes(q.untrusted[2]) \in Nat
        /\ q.untrusted[2].of.escapes \in Nat
    <3>1. \A t \in Text : t.escapes \in Nat /\ Masked(t).of = t
      BY DEF Text, Masked
    <3> QED
      BY <2>1, <2>2, <3>1, MaskedHasASize
  <2>4. RenderedBytes(q.untrusted) \in Nat
    BY <2>3, BlockHasASize
  <2>5. [k \in DOMAIN q.text |-> MaskedBytes(q.text[k])] = <<>>
    BY <2>2
  <2>6. q.untrusted # <<>>
    BY <2>2
  <2> HIDE DEF q
  <2>7. RenderedPart(q) = SumOver(<<>>) + RenderedBytes(q.untrusted)
    BY <2>5, <2>6 DEF RenderedPart
  <2>8. SumOver(<<>>) = 0
    <3>1. 0 \in Nat
      OBVIOUS
    <3> QED
      BY <3>1, OneSum
  <2>9. RenderedPart(q) \in Nat
    BY <2>4, <2>7, <2>8
  <2> QED
    BY <2>9 DEF q
<1> QED
  BY <1>2, <1>3

LEMMA CorrectionHasItsSize == RenderedPart(Correction) = CorrectionBytes
<1> DEFINE m == Correction.text[1]
<1>1. /\ Correction.text = <<m>> /\ Correction.untrusted = <<>>
      /\ m.of.bytes = CorrectionBytes /\ m.masks = <<>>
  BY DEF Correction, NoText
<1>2. CorrectionBytes \in Nat
  BY ClientAssumption
<1> HIDE DEF m
<1>3. MaskedBytes(m) = CorrectionBytes
  <2>1. [i \in DOMAIN m.masks |-> PlaceholderBytes[Min(m.masks[i].prios)]
                                   - (m.masks[i].end - m.masks[i].start)] = <<>>
    BY <1>1
  <2>2. MaskedBytes(m) = m.of.bytes + SumOver(<<>>)
    BY <2>1 DEF MaskedBytes
  <2>3. SumOver(<<>>) = 0
    BY <1>2, OneSum
  <2> QED
    BY <1>1, <1>2, <2>2, <2>3
<1>4. [k \in DOMAIN Correction.text |-> MaskedBytes(Correction.text[k])] = <<CorrectionBytes>>
  BY <1>1, <1>3
<1>5. RenderedPart(Correction) = SumOver(<<CorrectionBytes>>) + 0
  BY <1>1, <1>4 DEF RenderedPart
<1> QED
  BY <1>2, <1>5, OneSum

(* Sequences of sequences, one after the other.                            *)
LEMMA FlatIsASeq ==
    ASSUME NEW S, NEW ss \in Seq(Seq(S))
    PROVE  FlattenSeq(ss) \in Seq(S)
<1>1. CASE Len(ss) = 0
  <2>1. ss = <<>> /\ <<>> \in Seq(S)
    BY <1>1
  <2>2. FlattenSeq(ss) = ss
    BY <1>1, Zenon DEF FlattenSeq
  <2> QED
    BY <2>1, <2>2
<1>2. CASE Len(ss) # 0
  <2> DEFINE Of(f, k) == f = [i \in 1..k |-> IF i = 1 THEN ss[i] ELSE f[i - 1] \o ss[i]]
             R == {k \in Nat : k + 1 <= Len(ss) =>
                      \E f : Of(f, k + 1) /\ f \in [1..(k + 1) -> Seq(S)]}
  <2>0. Len(ss) \in Nat /\ \A i \in 1..Len(ss) : ss[i] \in Seq(S)
    OBVIOUS
  <2>1. 0 \in R
    <3> DEFINE f == [i \in 1..(0 + 1) |-> ss[1]]
    <3>1. Of(f, 0 + 1)
      OBVIOUS
    <3>2. f \in [1..(0 + 1) -> Seq(S)]
      BY <1>2, <2>0
    <3> HIDE DEF f, Of
    <3> QED
      BY <3>1, <3>2
  <2>2. ASSUME NEW k \in Nat, k \in R
        PROVE  k + 1 \in R
    <3> HIDE DEF Of
    <3> SUFFICES ASSUME (k + 1) + 1 <= Len(ss)
                 PROVE  \E f : Of(f, (k + 1) + 1) /\ f \in [1..((k + 1) + 1) -> Seq(S)]
      OBVIOUS
    <3> DEFINE n == k + 1
    <3>1. PICK f : Of(f, n) /\ f \in [1..n -> Seq(S)]
      BY <2>0, <2>2
    <3> USE DEF Of
    <3> DEFINE g == [i \in 1..(n + 1) |-> IF i = n + 1 THEN f[n] \o ss[n + 1] ELSE f[i]]
    <3>2. n \in Nat /\ n >= 1 /\ n + 1 \in 1..Len(ss) /\ f[n] \in Seq(S) /\ ss[n + 1] \in Seq(S)
      BY <2>0, <3>1
    <3>3. f[n] \o ss[n + 1] \in Seq(S)
      BY <3>2
    <3>4. g \in [1..(n + 1) -> Seq(S)]
      <4>1. \A i \in 1..(n + 1) : g[i] \in Seq(S)
        BY <3>1, <3>2, <3>3
      <4> QED
        BY <4>1
    <3>5. \A i \in 1..(n + 1) : g[i] = IF i = 1 THEN ss[i] ELSE g[i - 1] \o ss[i]
      <4> SUFFICES ASSUME NEW i \in 1..(n + 1)
                   PROVE  g[i] = IF i = 1 THEN ss[i] ELSE g[i - 1] \o ss[i]
        OBVIOUS
      <4>1. CASE i = n + 1
        <5>1. i # 1 /\ i - 1 = n /\ n \in 1..(n + 1) /\ n # n + 1
          BY <3>2, <4>1
        <5>2. g[n] = f[n]
          BY <5>1
        <5>3. g[i] = f[n] \o ss[n + 1]
          BY <4>1
        <5> QED
          BY <4>1, <5>1, <5>2, <5>3
      <4>2. CASE i # n + 1
        <5>1. i \in 1..n /\ g[i] = f[i]
          BY <3>2, <4>2
        <5>2. f[i] = IF i = 1 THEN ss[i] ELSE f[i - 1] \o ss[i]
          BY <3>1, <5>1
        <5>3. i # 1 => g[i - 1] = f[i - 1]
          BY <3>2, <5>1
        <5> QED
          BY <5>1, <5>2, <5>3
      <4> QED
        BY <4>1, <4>2
    <3>6. Of(g, n + 1)
      BY <3>5
    <3> HIDE DEF g, Of
    <3> QED
      BY <3>4, <3>6
  <2> HIDE DEF R
  <2>3. Len(ss) - 1 \in R
    <3>1. \A k \in Nat : k \in R
      BY <2>1, <2>2, SetInduction
    <3>2. Len(ss) - 1 \in Nat
      BY <1>2, <2>0
    <3> QED
      BY <3>1, <3>2
  <2>4. PICK f : Of(f, Len(ss)) /\ f \in [1..Len(ss) -> Seq(S)]
    <3>1. (Len(ss) - 1) + 1 = Len(ss) /\ Len(ss) <= Len(ss)
      BY <2>0
    <3> HIDE DEF Of
    <3> QED
      BY <2>3, <3>1 DEF R
  <2> DEFINE F == CHOOSE flatten : flatten = [i \in 1..Len(ss) |->
                     IF i = 1 THEN ss[i] ELSE flatten[i - 1] \o ss[i]]
  <2>5. F = [i \in 1..Len(ss) |-> IF i = 1 THEN ss[i] ELSE F[i - 1] \o ss[i]]
    BY <2>4, Zenon
  <2>6. FlattenSeq(ss) = F[Len(ss)]
    BY <1>2, Zenon DEF FlattenSeq
  <2> HIDE DEF F
  <2> DEFINE Q == {k \in Nat : k + 1 <= Len(ss) => F[k + 1] \in Seq(S)}
  <2>7. 0 \in Q
    BY <2>0, <2>5
  <2>8. ASSUME NEW k \in Nat, k \in Q
        PROVE  k + 1 \in Q
    <3> SUFFICES ASSUME (k + 1) + 1 <= Len(ss)
                 PROVE  F[(k + 1) + 1] \in Seq(S)
      OBVIOUS
    <3>1. F[k + 1] \in Seq(S) /\ (k + 1) + 1 \in 1..Len(ss) /\ (k + 1) + 1 # 1
          /\ ((k + 1) + 1) - 1 = k + 1
      BY <2>0, <2>8
    <3>2. F[(k + 1) + 1] = F[k + 1] \o ss[(k + 1) + 1]
      BY <2>5, <3>1
    <3>3. ss[(k + 1) + 1] \in Seq(S)
      BY <2>0, <3>1
    <3> QED
      BY <3>1, <3>2, <3>3
  <2> HIDE DEF Q
  <2>9. \A k \in Nat : k \in Q
    BY <2>7, <2>8, SetInduction
  <2>10. Len(ss) - 1 \in Nat /\ (Len(ss) - 1) + 1 = Len(ss)
    BY <1>2, <2>0
  <2>11. F[(Len(ss) - 1) + 1] \in Seq(S)
    <3>1. Len(ss) - 1 \in Q /\ (Len(ss) - 1) + 1 <= Len(ss)
      BY <2>0, <2>9, <2>10
    <3> QED
      BY <3>1 DEF Q
  <2> QED
    BY <2>6, <2>10, <2>11
<1> QED
  BY <1>1, <1>2

LEMMA PartsAreASeq ==
    ASSUME NEW c \in Calls
    PROVE  PartsOf(c.messages) \in Seq(Part)
<1> DEFINE ss == [i \in DOMAIN c.messages |-> c.messages[i].parts]
<1>1. c.messages \in Seq(Message)
  BY ClientAssumption DEF Call
<1>2. \A m \in Message : m.parts \in Seq(Part)
  BY DEF Message
<1>3. ss \in Seq(Seq(Part))
  BY <1>1, <1>2
<1> HIDE DEF ss
<1>4. FlattenSeq(ss) \in Seq(Part)
  BY <1>3, FlatIsASeq
<1> QED
  BY <1>4, Zenon DEF PartsOf, ss

-----------------------------------------------------------------------------
(* What a call costs *)

(* The most that the last attempt may have cost.                           *)
Charge == IF Counted THEN answer.input + answer.output
                     ELSE call.maxTokens + SentBytes

Corrected(messages, k) == RedactMessages(messages) \o [i \in 1..k |-> Correction]

Counters ==
    /\ attempt \in 0..MaxCorrections /\ attempts \in Nat
    /\ usage \in Nat /\ bound \in Nat /\ cost \in Nat

Idle == /\ attempts = 0 /\ attempt = 0 /\ req = <<>>
        /\ usage = 0 /\ bound = 0 /\ cost = 0
        /\ outcome = "none" /\ ~charged

(* While the attempts go on.                                               *)
Running == /\ call \in Calls /\ call.maxTokens \in Nat
           /\ req = Corrected(call.messages, attempt)
           /\ attempts = attempt
           /\ outcome = "none" /\ ~charged

(* What was told of the earlier attempts covers them.                      *)
Covered == cost <= bound /\ cost <= usage

AfterCorrection == attempts > 0 => Verdict = "out_of_schema" /\ answer.modelMatches

AnswerOK == /\ answer.input \in Int /\ answer.output \in Int
            /\ answer.failed \in BOOLEAN
            /\ answer.cost \in Nat /\ answer.cost <= Charge
            /\ cost - answer.cost <= bound /\ cost - answer.cost <= usage

Over == /\ FailureChargedIffCalled /\ ToldCoversCost
        /\ attempts <= MaxCorrections + 1
        /\ req = <<>> \/ (call \in Calls /\ req = Corrected(call.messages, attempt))

IInv ==
    /\ where \in {"idle", "ready", "calling", "answered", "over"}
    /\ Counters
    /\ where = "idle" => Idle
    /\ where \in {"ready", "calling", "answered"} => Running
    /\ where \in {"ready", "calling"} => Covered /\ AfterCorrection
    /\ where = "answered" => AnswerOK
    /\ where = "over" => Over

(* What a check of an answer says is no outcome of a call that succeeds.   *)
LEMMA VerdictIsAnError ==
    ASSUME NEW schema, NEW tools, NEW r
    PROVE  CheckOutput(schema, tools, r) \in {"valid", "unknown_tool", "out_of_schema"}
<1>1. \A i : CheckCall(tools, i) \in {"valid", "unknown_tool", "out_of_schema"}
  BY DEF CheckCall
<1>2. CheckText(schema, r.output) \in {"valid", "out_of_schema"}
  BY DEF CheckText
<1> QED
  BY <1>1, <1>2 DEF CheckOutput

LEMMA NoCheckIsAResult == "result" \notin CheckNames /\ "provider_failed" \notin CheckNames
  BY DEF CheckNames, Checks

LEMMA RedactedIsASeq ==
    ASSUME NEW c \in Calls
    PROVE  /\ DOMAIN RedactMessages(c.messages) = 1..Len(PartsOf(c.messages))
           /\ Len(PartsOf(c.messages)) \in Nat
           /\ \E S : RedactMessages(c.messages) \in Seq(S)
<1> DEFINE parts == PartsOf(c.messages)
           masked == RedactMessages(c.messages)
<1>1. parts \in Seq(Part)
  BY PartsAreASeq
<1>2. masked = [i \in 1..Len(parts) |-> MaskedPart(parts[i])]
  BY <1>1 DEF RedactMessages
<1> HIDE DEF parts, masked
<1>3. Len(parts) \in Nat
  BY <1>1
<1> DEFINE S == {MaskedPart(parts[i]) : i \in 1..Len(parts)}
<1>4. masked \in Seq(S)
  BY <1>2, <1>3
<1> QED
  BY <1>2, <1>3, <1>4 DEF parts, masked

(* A correction is one more part, after the parts of the caller.           *)
LEMMA CorrectedGrows ==
    ASSUME NEW c \in Calls, NEW k \in Nat
    PROVE  /\ RedactMessages(c.messages) = Corrected(c.messages, 0)
           /\ Append(Corrected(c.messages, k), Correction) = Corrected(c.messages, k + 1)
           /\ Len(Corrected(c.messages, k)) = Len(PartsOf(c.messages)) + k
<1> DEFINE masked == RedactMessages(c.messages)
           n == Len(PartsOf(c.messages))
           some(j) == [i \in 1..j |-> Correction]
<1>1. PICK S : masked \in Seq(S)
  BY RedactedIsASeq
<1>2. n \in Nat /\ DOMAIN masked = 1..n
  BY RedactedIsASeq
<1> DEFINE T == S \cup {Correction}
<1>3. masked \in Seq(T) /\ Len(masked) = n
  BY <1>1, <1>2
<1>4. \A j \in Nat : some(j) \in Seq(T) /\ Len(some(j)) = j
  OBVIOUS
<1> HIDE DEF masked, n, T
<1>5. masked = masked \o some(0)
  BY <1>3, <1>4
<1>6. Append(masked \o some(k), Correction) = masked \o some(k + 1)
  <2>1. some(k) \in Seq(T) /\ some(k + 1) \in Seq(T) /\ Len(some(k)) = k /\ Len(some(k + 1)) = k + 1
    BY <1>4
  <2>2. Correction \in T
    BY DEF T
  <2> DEFINE l == Append(masked \o some(k), Correction)
             r == masked \o some(k + 1)
  <2>3. l \in Seq(T) /\ r \in Seq(T) /\ Len(l) = n + k + 1 /\ Len(r) = n + k + 1
    BY <1>2, <1>3, <2>1, <2>2
  <2>4. \A i \in 1..(n + k + 1) : l[i] = r[i]
    BY <1>2, <1>3, <2>1, <2>2
  <2> HIDE DEF l, r
  <2>5. l = r
    BY <2>3, <2>4
  <2> QED
    BY <2>5 DEF l, r
<1>7. Len(masked \o some(k)) = n + k
  BY <1>2, <1>3, <1>4
<1> QED
  BY <1>5, <1>6, <1>7 DEF Corrected, masked, n

LEMMA CorrectedElements ==
    ASSUME NEW c \in Calls, NEW k \in Nat
    PROVE  LET s == Corrected(c.messages, k)
               len == Len(PartsOf(c.messages)) + k
           IN  /\ s \in Seq({MaskedPart(p) : p \in Part} \cup {Correction})
               /\ DOMAIN s = 1..len
<1> DEFINE parts == PartsOf(c.messages)
           first == RedactMessages(c.messages)
           some == [i \in 1..k |-> Correction]
           T == {MaskedPart(p) : p \in Part} \cup {Correction}
<1>1. parts \in Seq(Part)
  BY PartsAreASeq
<1>2. first = [i \in 1..Len(parts) |-> MaskedPart(parts[i])]
  BY <1>1 DEF RedactMessages
<1>3. Len(parts) \in Nat /\ \A i \in 1..Len(parts) : parts[i] \in Part
  BY <1>1
<1> HIDE DEF parts, first
<1>4. first \in Seq(T) /\ Len(first) = Len(parts)
  BY <1>2, <1>3
<1>5. some \in Seq(T) /\ Len(some) = k
  OBVIOUS
<1> HIDE DEF some, T
<1>6. first \o some \in Seq(T) /\ Len(first \o some) = Len(parts) + k
  BY <1>4, <1>5
<1> DEFINE s == first \o some
<1>7. Corrected(c.messages, k) = s
  BY DEF Corrected, first, some
<1> HIDE DEF s
<1>8. s \in Seq(T) /\ Len(s) = Len(parts) + k /\ DOMAIN s = 1..Len(s)
  BY <1>6 DEF s
<1> QED
  BY <1>7, <1>8 DEF T, parts

(* The request of an attempt, in bytes: that of the first one, and its     *)
(* corrections.                                                            *)
LEMMA CorrectedHasASize ==
    ASSUME NEW c \in Calls, NEW k \in Nat
    PROVE  /\ RenderedMessages(Corrected(c.messages, k)) \in Nat
           /\ RenderedMessages(Corrected(c.messages, k))
                = RenderedMessages(RedactMessages(c.messages)) + k * CorrectionBytes
<1> DEFINE first == RedactMessages(c.messages)
           size == RenderedMessages(first)
           S == {n \in Nat : RenderedMessages(Corrected(c.messages, n)) = size + n * CorrectionBytes}
           parts == PartsOf(c.messages)
<1>1. CorrectionBytes \in Nat
  BY ClientAssumption
<1>2. size \in Nat
  <2> DEFINE f == [i \in DOMAIN first |-> RenderedPart(first[i])]
  <2>1. parts \in Seq(Part)
    BY PartsAreASeq
  <2>2. first = [i \in 1..Len(parts) |-> MaskedPart(parts[i])]
    BY <2>1 DEF RedactMessages
  <2>3. Len(parts) \in Nat /\ \A i \in 1..Len(parts) : parts[i] \in Part
    BY <2>1
  <2> HIDE DEF parts
  <2>4. f = [i \in 1..Len(parts) |-> RenderedPart(MaskedPart(parts[i]))]
    BY <2>2
  <2>5. f \in [1..Len(parts) -> Nat]
    BY <2>3, <2>4, PartHasASize
  <2>6. size = SumOver(f)
    BY DEF RenderedMessages
  <2> HIDE DEF f, first, size
  <2>7. Len(f) = Len(parts) /\ \A i \in 1..Len(f) : f[i] \in Nat
    BY <2>3, <2>5
  <2>8. SumOver(f) \in Nat
    BY <2>3, <2>7, SumOfNaturals
  <2> QED
    BY <2>6, <2>8
<1> HIDE DEF size
<1>3. 0 \in S
  BY <1>1, <1>2, CorrectedGrows DEF size
<1>4. ASSUME NEW n \in Nat, n \in S
      PROVE  n + 1 \in S
  <2> DEFINE s == Corrected(c.messages, n)
             t == Corrected(c.messages, n + 1)
             f == [i \in DOMAIN s |-> RenderedPart(s[i])]
             u == [i \in DOMAIN t |-> RenderedPart(t[i])]
             len == Len(parts) + n
             T == {MaskedPart(p) : p \in Part} \cup {Correction}
  <2>0. n + 1 \in Nat /\ len \in Nat
    BY RedactedIsASeq
  <2>1. t = Append(s, Correction) /\ len \in Nat
    BY <2>0, CorrectedGrows
  <2>2. /\ DOMAIN s = 1..len
        /\ \A i \in 1..len : t[i] = s[i] /\ s[i] \in T
        /\ DOMAIN t = 1..(len + 1) /\ t[len + 1] = Correction
    <3>1. s \in Seq(T) /\ DOMAIN s = 1..len
      BY CorrectedElements
    <3>2. Correction \in T
      OBVIOUS
    <3> HIDE DEF s, t, len, T
    <3>3. Len(s) = len
      BY <2>0, <3>1
    <3> QED
      BY <2>1, <3>1, <3>2, <3>3
  <2> HIDE DEF s, t, len
  <2>3. /\ f = [i \in 1..len |-> RenderedPart(s[i])]
        /\ u = [i \in 1..(len + 1) |-> RenderedPart(t[i])]
    BY <2>2
  <2>4. \A i \in 1..len : RenderedPart(s[i]) \in Nat
    BY <1>1, <2>2, PartHasASize, CorrectionHasItsSize
  <2>5. RenderedMessages(s) = SumOver(f) /\ RenderedMessages(t) = SumOver(u)
    BY DEF RenderedMessages
  <2> HIDE DEF f, u
  <2>6. /\ Len(f) = len /\ Len(u) = len + 1
        /\ Numbers(f) /\ Numbers(u) /\ \A i \in 1..len : u[i] = f[i]
        /\ u[len + 1] = CorrectionBytes
    <3>1. f \in [1..len -> Nat] /\ \A i \in 1..len : f[i] = RenderedPart(s[i])
      BY <2>3, <2>4
    <3>2. u \in [1..(len + 1) -> Nat] /\ \A i \in 1..(len + 1) : u[i] = RenderedPart(t[i])
      <4>1. \A i \in 1..(len + 1) : RenderedPart(t[i]) \in Nat
        <5>1. \A i \in 1..(len + 1) : i \in 1..len \/ i = len + 1
          BY <2>1
        <5> QED
          BY <1>1, <2>2, <2>4, <5>1, CorrectionHasItsSize
      <4> QED
        BY <2>3, <4>1
    <3>3. len + 1 \in Nat /\ len + 1 \in 1..(len + 1) /\ 1..len \subseteq 1..(len + 1)
      BY <2>1
    <3>4. Len(f) = len /\ Len(u) = len + 1
      BY <2>1, <3>1, <3>2
    <3>5. Numbers(f) /\ Numbers(u)
      <4>1. \A i \in 1..len : f[i] \in Int
        BY <3>1
      <4>2. \A i \in 1..(len + 1) : u[i] \in Int
        BY <3>2
      <4> QED
        BY <2>1, <3>3, <3>4, <4>1, <4>2 DEF Numbers
    <3> QED
      BY <2>2, <3>1, <3>2, <3>3, <3>4, <3>5, CorrectionHasItsSize
  <2>7. SumOver(u) = SumOver(f) + CorrectionBytes
    BY <2>6, SumAppended
  <2>8. RenderedMessages(s) = size + n * CorrectionBytes
    BY <1>4 DEF s
  <2>9. n * CorrectionBytes \in Nat /\ (n + 1) * CorrectionBytes = n * CorrectionBytes + CorrectionBytes
    BY <1>1
  <2>10. RenderedMessages(t) = size + (n + 1) * CorrectionBytes
    BY <1>1, <1>2, <2>5, <2>7, <2>8, <2>9
  <2> QED
    BY <2>10 DEF t
<1> HIDE DEF S
<1>5. k \in S
  BY <1>3, <1>4, SetInduction
<1>6. k * CorrectionBytes \in Nat
  BY <1>1
<1> QED
  BY <1>2, <1>5, <1>6 DEF S, size

(* What a call and its corrections are, in bytes, is a number.             *)
LEMMA RequestHasASize ==
    ASSUME Running, Counters
    PROVE  RequestBytes \in Nat
<1>1. RenderedMessages(req) \in Nat
  BY CorrectedHasASize DEF Running, Counters
<1>2. call.prompt \in Access
  BY ClientAssumption DEF Running, Call
<1>3. call.prompt.system.content \in Content /\ call.prompt.schema.content \in Content
  BY <1>2 DEF Access, File
<1> QED
  BY <1>1, <1>3 DEF RequestBytes, Content

(* So are its tools.                                                       *)
LEMMA ToolsHaveASize ==
    ASSUME call \in Calls
    PROVE  ToolBytes(Tools) \in Nat /\ (~call.withTools => ToolBytes(Tools) = 0)
<1> DEFINE sizes == [i \in DOMAIN Tools |-> Tools[i].bytes]
<1>1. Tools \in Seq(ToolSpec) /\ (~call.withTools => Tools = <<>>)
  BY ClientAssumption DEF Call, Tools
<1>2. Len(sizes) \in Nat /\ \A n \in 1..Len(sizes) : sizes[n] \in Nat
  <2>1. \A t \in ToolSpec : t.bytes \in Nat
    BY DEF ToolSpec
  <2>2. \A i \in 1..Len(Tools) : Tools[i] \in ToolSpec
    BY <1>1
  <2>3. Len(sizes) = Len(Tools)
    BY <1>1
  <2> QED
    BY <1>1, <2>1, <2>2, <2>3
<1>3. ~call.withTools => sizes = <<>>
  BY <1>1
<1>4. ToolBytes(Tools) = SumOver(sizes)
  BY DEF ToolBytes
<1> HIDE DEF sizes
<1> QED
  BY <1>2, <1>3, <1>4, SumOfNaturals, OneSum

-----------------------------------------------------------------------------
LEMMA InitIInv == Init => IInv
  BY ClientAssumption DEF Init, IInv, Counters, Idle, ValidConfig

(* Before any attempt, a call is refused or admitted.                      *)
LEMMA Admission ==
    ASSUME IInv, NEW c \in Calls, Refuse(c) \/ Admit(c)
    PROVE  IInv'
<1>1. Idle /\ Counters
  BY DEF IInv, Refuse, Admit
<1>2. CASE Refuse(c)
  <2>1. outcome' \notin {"result", "provider_failed"} /\ where' = "over"
    BY <1>2, NoCheckIsAResult DEF Refuse
  <2>2. Counters' /\ Over'
    BY <1>1, <1>2, <2>1, ClientAssumption
    DEF Idle, Counters, Refuse, Over, FailureChargedIffCalled, ToldCoversCost, Told, Untold,
        ValidConfig
  <2> QED
    BY <2>1, <2>2 DEF IInv
<1>3. CASE Admit(c)
  <2>1. call'.maxTokens \in Nat
    <3>1. ~Fails(c, "token_budget")
      BY <1>3 DEF Admit, CheckNames, Checks
    <3> QED
      BY <1>3, <3>1, ClientAssumption DEF Admit, Fails, Call, ValidConfig
  <2>2. req' = Corrected(call'.messages, attempt')
    BY <1>1, <1>3, CorrectedGrows DEF Admit, Idle
  <2>3. Running' /\ Counters' /\ Covered' /\ AfterCorrection'
    BY <1>1, <1>3, <2>1, <2>2 DEF Admit, Idle, Running, Counters, Covered, AfterCorrection
  <2>4. where' = "ready"
    BY <1>3 DEF Admit
  <2> QED
    BY <2>3, <2>4 DEF IInv
<1> QED
  BY <1>2, <1>3

(* A call that ends after an answer.                                       *)
LEMMA EndAfterAnswer ==
    ASSUME IInv, Answered,
           where' = "over", attempt' = attempt, req' = req,
           usage' \in Nat, bound' \in Nat,
           \/ /\ outcome' # "result" /\ charged'
              /\ \/ cost <= bound'
                 \/ outcome' = "provider_failed" /\ cost <= bound' + ToolBytes(Tools)
           \/ outcome' = "result" /\ ~charged' /\ cost <= usage'
    PROVE  IInv'
<1>1. Running /\ Counters
  BY DEF IInv, Answered
<1>2. Counters'
  BY <1>1 DEF Counters, Answered
<1>3. attempts' > 0 /\ attempts' <= MaxCorrections + 1
  BY <1>1, ClientAssumption DEF Counters, Running, Answered, ValidConfig
<1>4. cost' <= Told' + Untold'
  <2>1. ToolBytes(Tools) \in Nat /\ ToolBytes(Tools)' = ToolBytes(Tools)
    BY <1>1, ToolsHaveASize DEF Running, Answered, Tools
  <2>2. cost' = cost /\ cost \in Nat
    BY <1>1 DEF Counters, Answered
  <2>3. CASE outcome' = "provider_failed"
    <3>1. Told' = bound' /\ Untold' = ToolBytes(Tools)
      BY <2>1, <2>3 DEF Told, Untold
    <3>2. cost <= bound' \/ cost <= bound' + ToolBytes(Tools)
      BY <2>3
    <3> QED
      BY <2>1, <2>2, <3>1, <3>2
  <2>4. CASE outcome' # "provider_failed"
    <3>1. Untold' = 0
      BY <2>4 DEF Untold
    <3>2. Told' \in Nat /\ cost <= Told'
      BY <2>4 DEF Told
    <3>3. \A m, n \in Nat : m <= n => m <= n + 0
      OBVIOUS
    <3> QED
      BY <2>2, <3>1, <3>2, <3>3
  <2> QED
    BY <2>3, <2>4
<1>5. Over'
  BY <1>1, <1>3, <1>4 DEF Over, Running, Answered, FailureChargedIffCalled, ToldCoversCost
<1> QED
  BY <1>2, <1>5 DEF IInv

(* What is counted of an answer covers what it cost, and all before it.    *)
LEMMA CountCovers ==
    ASSUME IInv, Count
    PROVE  /\ usage' \in Nat /\ bound' \in Nat
           /\ cost <= usage' /\ cost <= bound'
<1>1. Counters /\ AnswerOK
  BY DEF IInv, Count, Answered
<1>2. answer.cost <= answer.input + answer.output
  BY <1>1 DEF Count, AnswerOK, Charge
<1> QED
  BY <1>1, <1>2 DEF Count, AnswerOK, Counters, Counted, ValidUsage

LEMMA AttemptStep ==
    ASSUME IInv, Client
    PROVE  IInv'
<1>1. CASE StopBeforeAttempt
  <2>1. Running /\ Counters /\ Covered
    BY <1>1 DEF IInv, StopBeforeAttempt
  <2>2. attempts <= MaxCorrections + 1
    BY <2>1, ClientAssumption DEF Running, Counters, ValidConfig
  <2>3. cost' <= Told' + Untold'
    <3>1. Told' = bound /\ Untold' = 0
      BY <1>1 DEF StopBeforeAttempt, Told, Untold
    <3>2. cost' = cost /\ cost \in Nat /\ bound \in Nat /\ cost <= bound
      BY <1>1, <2>1 DEF StopBeforeAttempt, Counters, Covered
    <3> QED
      BY <3>1, <3>2
  <2>4. Over' /\ Counters'
    BY <1>1, <2>1, <2>2, <2>3
    DEF StopBeforeAttempt, PaidBefore, Running, Counters, Over,
        FailureChargedIffCalled, ToldCoversCost
  <2> QED
    BY <1>1, <2>4 DEF IInv, StopBeforeAttempt
<1>2. CASE CallProvider
  BY <1>2
  DEF CallProvider, IInv, Counters, Running, Covered, AfterCorrection, Verdict, Tools, PromptSchema
<1>3. CASE ProviderFailed
  <2>1. Running /\ Counters /\ AnswerOK
    BY <1>3 DEF IInv, ProviderFailed, Answered
  <2>2. RequestBytes \in Nat /\ ToolBytes(Tools) \in Nat
    BY <2>1, RequestHasASize, ToolsHaveASize DEF Running
  <2>3. bound' \in Nat /\ usage' \in Nat /\ cost <= bound' + ToolBytes(Tools)
    BY <1>3, <2>1, <2>2
    DEF ProviderFailed, Running, Counters, AnswerOK, Charge, SentBytes
  <2> QED
    BY <1>3, <2>3, EndAfterAnswer DEF ProviderFailed, Spent
<1>4. CASE ModelMismatch
  BY <1>4, CountCovers, EndAfterAnswer DEF ModelMismatch, Spent, Count
<1>5. CASE Accept
  <2>1. ~charged
    BY <1>5 DEF IInv, Running, Accept, Count, Answered
  <2> QED
    BY <1>5, <2>1, CountCovers, EndAfterAnswer DEF Accept, Count
<1>6. CASE GiveUp
  <2>1. Verdict # "result"
    BY VerdictIsAnError DEF Verdict
  <2> QED
    BY <1>6, <2>1, CountCovers, EndAfterAnswer DEF GiveUp, Spent, Count
<1>7. CASE Correct
  <2>1. Running /\ Counters /\ where' = "ready"
    BY <1>7 DEF IInv, Correct, Count, Answered
  <2>2. Counters' /\ Covered'
    BY <1>7, <2>1, CountCovers, ClientAssumption
    DEF Correct, MayCorrect, Count, Answered, Counters, Covered, ValidConfig
  <2>3. req' = Corrected(call.messages, attempt')
    BY <1>7, <2>1, CorrectedGrows DEF Correct, Running, Counters
  <2>4. Running'
    BY <1>7, <2>1, <2>3 DEF Correct, Count, Answered, Running
  <2>5. AfterCorrection'
    BY <1>7 DEF Correct, Count, Answered, MayCorrect, AfterCorrection, Verdict, Tools, PromptSchema
  <2> QED
    BY <2>1, <2>2, <2>4, <2>5 DEF IInv
<1> QED
  BY <1>1, <1>2, <1>3, <1>4, <1>5, <1>6, <1>7 DEF Client

(* What a reply is, and that its cost is set apart.                        *)
LEMMA RepliesTyped ==
    ASSUME NEW r \in Replies, NEW c
    PROVE  /\ r.input \in Int /\ r.output \in Int /\ r.failed \in BOOLEAN
           /\ r.content.toolCalls \in Seq(ToolCall)
           /\ LET reply == [r EXCEPT !.cost = c] IN
              /\ reply.input = r.input /\ reply.output = r.output /\ reply.failed = r.failed
              /\ reply.content = r.content /\ reply.cost = c
<1>1. CASE r = NoReply
  <2>1. NoReply.content.toolCalls = <<>> /\ NoReply.failed = TRUE
    BY DEF NoReply, NoContent
  <2>2. r.failed \in BOOLEAN
    BY <1>1, <2>1, Zenon
  <2>3. r.content.toolCalls \in Seq(ToolCall)
    BY <1>1, <2>1
  <2>4. r.input \in Int /\ r.output \in Int
    BY <1>1 DEF NoReply
  <2>5. LET reply == [r EXCEPT !.cost = c] IN
        /\ reply.input = r.input /\ reply.output = r.output /\ reply.failed = r.failed
        /\ reply.content = r.content /\ reply.cost = c
    BY <1>1 DEF NoReply
  <2> QED
    BY <2>2, <2>3, <2>4, <2>5
<1>2. CASE r \in [failed: {FALSE}, input: Counts, output: Counts, modelMatches: BOOLEAN,
                  content: Contents, cost: {0}]
  <2>1. /\ r.input \in Int /\ r.output \in Int /\ r.failed \in BOOLEAN
        /\ r.content.toolCalls \in Seq(ToolCall)
    BY <1>2, ClientAssumption
  <2> QED
    BY <1>2, <2>1
<1> QED
  BY <1>1, <1>2 DEF Replies

LEMMA ReplyStep ==
    ASSUME IInv, ProviderReplies
    PROVE  IInv'
<1>1. Running /\ Counters /\ Covered
  BY DEF IInv, ProviderReplies
<1>2. SentBytes \in Nat /\ SentBytes' = SentBytes
  <2>1. RequestBytes \in Nat /\ ToolBytes(Tools) \in Nat
    BY <1>1, RequestHasASize, ToolsHaveASize DEF Running
  <2>2. RequestBytes' = RequestBytes /\ ToolBytes(Tools)' = ToolBytes(Tools)
    BY DEF ProviderReplies, RequestBytes, Tools
  <2> QED
    BY <2>1, <2>2 DEF SentBytes
<1>3. PICK r \in Replies : \E c \in Extremes(r) :
         answer' = [r EXCEPT !.cost = c] /\ cost' = cost + c
  BY DEF ProviderReplies
<1>4. PICK c \in Extremes(r) : answer' = [r EXCEPT !.cost = c] /\ cost' = cost + c
  BY <1>3
<1>5. /\ r.input \in Int /\ r.output \in Int /\ r.failed \in BOOLEAN
      /\ answer'.input = r.input /\ answer'.output = r.output /\ answer'.failed = r.failed
      /\ answer'.cost = c
  BY <1>4, RepliesTyped
<1>6. Charge' = IF Believable(r) THEN r.input + r.output ELSE call.maxTokens + SentBytes
  BY <1>2, <1>5, ClientAssumption
  DEF Charge, Counted, ValidUsage, Believable, ProviderReplies
<1>8. c \in Nat /\ c <= Charge'
  BY <1>1, <1>2, <1>4, <1>5, <1>6, ClientAssumption DEF Extremes, Believable, Running
<1>9. AnswerOK'
  BY <1>1, <1>4, <1>5, <1>8 DEF AnswerOK, Covered, Counters, ProviderReplies
<1>10. Running' /\ Counters' /\ where' = "answered"
  BY <1>1, <1>4, <1>8 DEF Running, Counters, ProviderReplies
<1> QED
  BY <1>9, <1>10 DEF IInv

LEMMA StepIInv ==
    ASSUME IInv, [Next]_callVars
    PROVE  IInv'
<1>1. CASE CancelContext \/ UNCHANGED callVars
  <2>1. UNCHANGED <<call, where, attempt, req, answer, attempts, usage, bound, outcome,
                    charged, cost>>
    BY <1>1 DEF CancelContext, callVars
  <2>2. UNCHANGED <<Counters, Idle, Running, Covered, Over>>
    BY <2>1
    DEF Counters, Idle, Running, Covered, Over, FailureChargedIffCalled, ToldCoversCost, Told,
        Untold, Tools
  <2>3. UNCHANGED <<AfterCorrection, AnswerOK>>
    BY <2>1
    DEF AfterCorrection, Verdict, Tools, PromptSchema, AnswerOK, Charge, SentBytes,
        RequestBytes, Counted, ValidUsage
  <2> QED
    BY <2>1, <2>2, <2>3 DEF IInv
<1> QED
  BY <1>1, Admission, AttemptStep, ReplyStep DEF Next

(* For all values of the constants, each attempt of a call adds a          *)
(* correction and is counted, and an end tells what the attempts cost.     *)
THEOREM InvariantHolds == Spec => []IInv
<1>1. IInv /\ [Next]_callVars => IInv'
  BY StepIInv
<1> QED
  BY <1>1, InitIInv, PTL DEF Spec

(* Whatever the provider answers and whenever the context ends, an error   *)
(* says that it was paid for exactly when the provider was called.         *)
THEOREM OnlyCallsAreCharged == Spec => []FailureChargedIffCalled
<1>1. IInv => FailureChargedIffCalled
  BY DEF IInv, Over, FailureChargedIffCalled
<1> QED
  BY <1>1, InvariantHolds, PTL

(* What the caller is told is never less than what the attempts cost, but  *)
(* for the tools of one that failed; without tools, never less.            *)
THEOREM CostIsCovered == Spec => []ToldCoversCost
<1>1. IInv => ToldCoversCost
  BY DEF IInv, Over, ToldCoversCost
<1> QED
  BY <1>1, InvariantHolds, PTL

(* Each further attempt follows an answer out of the schema and carries    *)
(* one more correction; there are at most MaxCorrections.                  *)
THEOREM CorrectionsAreBounded == Spec => []Corrections
<1>1. IInv => Corrections
  <2> SUFFICES ASSUME IInv PROVE Corrections
    OBVIOUS
  <2>1. CASE where = "idle"
    BY <2>1, ClientAssumption DEF IInv, Idle, Corrections, ValidConfig
  <2>2. CASE where \in {"ready", "calling", "answered"}
    <3>1. Running /\ Counters
      BY <2>2 DEF IInv
    <3>2. Len(req) = Len(PartsOf(call.messages)) + attempt
      BY <3>1, CorrectedGrows DEF Running, Counters
    <3>3. attempts <= MaxCorrections + 1
      BY <3>1, ClientAssumption DEF Running, Counters, ValidConfig
    <3>4. where \in {"ready", "calling"} => AfterCorrection
      BY DEF IInv
    <3> QED
      BY <3>1, <3>2, <3>3, <3>4 DEF Running, Corrections, AfterCorrection
  <2>3. CASE where = "over"
    <3>1. Over /\ Counters
      BY <2>3 DEF IInv
    <3>2. req # <<>> => Len(req) = Len(PartsOf(call.messages)) + attempt
      BY <3>1, CorrectedGrows DEF Over, Counters
    <3> QED
      BY <2>3, <3>1, <3>2 DEF Over, Corrections
  <2> QED
    BY <2>1, <2>2, <2>3 DEF IInv
<1> QED
  BY <1>1, InvariantHolds, PTL
-----------------------------------------------------------------------------
(* Schemas and answers *)

(* A chain of sets, each computed from the one before.                     *)
Chain(f, start, G, k) == f = [n \in 0..k |-> IF n = 0 THEN start ELSE G[f[n - 1]]]

LEMMA ChainExists ==
    ASSUME NEW U, NEW start \in U, NEW G \in [U -> U], NEW len \in Nat
    PROVE  \E f \in [0..len -> U] : Chain(f, start, G, len)
<1> DEFINE S == {k \in Nat : \E f \in [0..k -> U] : Chain(f, start, G, k)}
<1>1. 0 \in S
  <2> DEFINE f == [n \in 0..0 |-> start]
  <2>1. f \in [0..0 -> U]
    OBVIOUS
  <2>2. Chain(f, start, G, 0)
    BY DEF Chain
  <2> QED
    BY <2>1, <2>2
<1>2. ASSUME NEW k \in Nat, k \in S
      PROVE  k + 1 \in S
  <2>1. PICK f \in [0..k -> U] : Chain(f, start, G, k)
    BY <1>2
  <2> DEFINE g == [n \in 0..(k + 1) |-> IF n = k + 1 THEN G[f[k]] ELSE f[n]]
  <2>2. g \in [0..(k + 1) -> U]
    <3>1. f[k] \in U
      OBVIOUS
    <3>2. \A n \in 0..(k + 1) : n # k + 1 => n \in 0..k
      OBVIOUS
    <3> QED
      BY <3>1, <3>2
  <2>3. ASSUME NEW n \in 0..(k + 1)
        PROVE  g[n] = IF n = 0 THEN start ELSE G[g[n - 1]]
    <3>1. CASE n = k + 1
      <4>1. n - 1 = k /\ n # 0 /\ g[k] = f[k] /\ g[n] = G[f[k]]
        BY <3>1
      <4> QED
        BY <4>1
    <3>2. CASE n # k + 1
      <4>1. n \in 0..k /\ g[n] = f[n]
        BY <3>2
      <4>2. f[n] = IF n = 0 THEN start ELSE G[f[n - 1]]
        BY <2>1, <4>1 DEF Chain
      <4>3. n # 0 => g[n - 1] = f[n - 1]
        BY <4>1
      <4> QED
        BY <4>2, <4>3
    <3> QED
      BY <3>1, <3>2
  <2>4. Chain(g, start, G, k + 1)
    <3>1. g = [n \in 0..(k + 1) |-> g[n]]
      BY <2>2
    <3> HIDE DEF g
    <3> QED
      BY <2>3, <3>1 DEF Chain
  <2> HIDE DEF g
  <2> QED
    BY <2>2, <2>4
<1> HIDE DEF S
<1>3. len \in S
  BY <1>1, <1>2, SetInduction
<1> QED
  BY <1>3 DEF S

Below(S) == UNION {Children(x) : x \in S}

LevelsTo(f, v, k) == f = [n \in 0..k |-> IF n = 0 THEN {v} ELSE UNION {Children(x) : x \in f[n - 1]}]

LEMMA LevelsExist ==
    ASSUME NEW v, NEW len \in Nat
    PROVE  \E f : LevelsTo(f, v, len)
<1> DEFINE S == {k \in Nat : \E f : LevelsTo(f, v, k)}
<1>1. 0 \in S
  <2> DEFINE f == [n \in 0..0 |-> {v}]
  <2>2. LevelsTo(f, v, 0)
    BY DEF LevelsTo
  <2> QED
    BY <2>2
<1>2. ASSUME NEW k \in Nat, k \in S
      PROVE  k + 1 \in S
  <2>1. PICK f : LevelsTo(f, v, k)
    BY <1>2
  <2> DEFINE final == Below(f[k])
             g == [n \in 0..(k + 1) |-> IF n = k + 1 THEN final ELSE f[n]]
  <2>3. ASSUME NEW n \in 0..(k + 1)
        PROVE  g[n] = IF n = 0 THEN {v} ELSE Below(g[n - 1])
    <3>1. CASE n = k + 1
      <4>1. n - 1 = k /\ n # 0 /\ g[k] = f[k] /\ g[n] = final
        BY <3>1
      <4> QED
        BY <4>1
    <3>2. CASE n # k + 1
      <4>1. n \in 0..k /\ g[n] = f[n]
        BY <3>2
      <4>2. f[n] = IF n = 0 THEN {v} ELSE Below(f[n - 1])
        BY <2>1, <4>1 DEF LevelsTo, Below
      <4>3. n # 0 => g[n - 1] = f[n - 1]
        BY <4>1
      <4> QED
        BY <4>2, <4>3
    <3> QED
      BY <3>1, <3>2
  <2>4. LevelsTo(g, v, k + 1)
    <3>1. g = [n \in 0..(k + 1) |-> g[n]]
      OBVIOUS
    <3> HIDE DEF g
    <3> QED
      BY <2>3, <3>1 DEF LevelsTo, Below
  <2> HIDE DEF g
  <2> QED
    BY <2>4
<1> HIDE DEF S
<1>3. len \in S
  BY <1>1, <1>2, SetInduction
<1> QED
  BY <1>3 DEF S

LEMMA LevelsAre ==
    ASSUME NEW v
    PROVE  /\ DOMAIN Levels(v) = 0..MaxDepth
           /\ Levels(v)[0] = {v}
           /\ \A n \in 1..MaxDepth : Levels(v)[n] = Below(Levels(v)[n - 1])
<1>1. MaxDepth \in Nat
  BY SchemaAssumption
<1> DEFINE L == CHOOSE f : f = [n \in 0..MaxDepth |->
                  IF n = 0 THEN {v} ELSE UNION {Children(x) : x \in f[n - 1]}]
<1>2. L = [n \in 0..MaxDepth |-> IF n = 0 THEN {v} ELSE UNION {Children(x) : x \in L[n - 1]}]
  <2>1. \E f : f = [n \in 0..MaxDepth |->
                     IF n = 0 THEN {v} ELSE UNION {Children(x) : x \in f[n - 1]}]
    <3>1. PICK f : LevelsTo(f, v, MaxDepth)
      BY <1>1, LevelsExist
    <3> QED
      BY <3>1 DEF LevelsTo
  <2> QED
    BY <2>1, Zenon
<1>3. Levels(v) = L
  BY Zenon DEF Levels
<1> HIDE DEF L
<1>4. \A n \in 1..MaxDepth : n \in 0..MaxDepth /\ n # 0
  BY <1>1
<1> QED
  BY <1>1, <1>2, <1>3, <1>4 DEF Below

LEMMA NodesAre ==
    ASSUME NEW v
    PROVE  /\ v \in Nodes(v)
           /\ \A x : x \in Nodes(v) <=> \E n \in 0..MaxDepth : x \in Levels(v)[n]
<1>1. MaxDepth \in Nat /\ 0 \in 0..MaxDepth
  BY SchemaAssumption
<1>2. \A x : x \in Nodes(v) <=> \E n \in 0..MaxDepth : x \in Levels(v)[n]
  BY LevelsAre DEF Nodes, Range
<1> QED
  BY <1>1, <1>2, LevelsAre

(* A document that decodes has all of its values: no value is deeper.      *)
LEMMA ChildIsANode ==
    ASSUME NEW v, Admits(v), NEW x \in Nodes(v), NEW c \in Children(x)
    PROVE  c \in Nodes(v)
<1>1. MaxDepth \in Nat
  BY SchemaAssumption
<1>2. PICK n \in 0..MaxDepth : x \in Levels(v)[n]
  BY NodesAre
<1>3. n # MaxDepth
  <2> SUFFICES ASSUME n = MaxDepth
               PROVE  FALSE
    OBVIOUS
  <2>1. x.kind \notin {"object", "array"}
    BY <1>2 DEF Admits
  <2> QED
    BY <2>1 DEF Children
<1>4. n + 1 \in 1..MaxDepth /\ n + 1 \in 0..MaxDepth /\ (n + 1) - 1 = n
  BY <1>1, <1>3
<1>5. c \in Levels(v)[n + 1]
  <2>1. c \in Below(Levels(v)[n])
    BY <1>2 DEF Below
  <2>2. Levels(v)[n + 1] = Below(Levels(v)[n])
    BY <1>4, LevelsAre
  <2> QED
    BY <2>1, <2>2
<1> QED
  BY <1>4, <1>5, NodesAre

(* What holds of a document and, with a value, of its children, holds of   *)
(* all of it.                                                              *)
LEMMA NodesFollow ==
    ASSUME NEW v, NEW S, v \in S, \A x \in S \cap Nodes(v) : Children(x) \subseteq S
    PROVE  Nodes(v) \subseteq S
<1>1. MaxDepth \in Nat
  BY SchemaAssumption
<1> DEFINE R == {n \in Nat : n <= MaxDepth => Levels(v)[n] \subseteq S}
<1>2. 0 \in R
  BY LevelsAre
<1>3. ASSUME NEW n \in Nat, n \in R
      PROVE  n + 1 \in R
  <2> SUFFICES ASSUME n + 1 <= MaxDepth
               PROVE  Levels(v)[n + 1] \subseteq S
    OBVIOUS
  <2>1. n \in 0..MaxDepth /\ n + 1 \in 1..MaxDepth /\ (n + 1) - 1 = n
    BY <1>1
  <2>2. Levels(v)[n] \subseteq S \cap Nodes(v)
    BY <1>3, <2>1, NodesAre
  <2>3. Levels(v)[n + 1] = Below(Levels(v)[n])
    BY <2>1, LevelsAre
  <2> QED
    BY <2>2, <2>3 DEF Below
<1> HIDE DEF R
<1>4. \A n \in Nat : n \in R
  BY <1>2, <1>3, SetInduction
<1>5. \A n \in 0..MaxDepth : Levels(v)[n] \subseteq S
  BY <1>1, <1>4 DEF R
<1> QED
  BY <1>5, NodesAre

(* The strict subschemas are in a set in which each is, given the others.  *)
LEMMA StrictIsClosed ==
    ASSUME NEW root
    PROVE  \E T : /\ StrictAt(root) \subseteq T
                  /\ T \subseteq Nodes(root) \X Places
                  /\ \A p \in T : StrictNode(root, T, p[1], p[2])
<1> DEFINE P == Nodes(root) \X Places
           final == MaxDepth + 1
           G == [S \in SUBSET P |-> {p \in P : StrictNode(root, S, p[1], p[2])}]
           F == CHOOSE f : f = [k \in 0..(MaxDepth + 1) |->
                  IF k = 0 THEN {}
                  ELSE {p \in Nodes(root) \X Places : StrictNode(root, f[k - 1], p[1], p[2])}]
<1>1. final \in Nat
  BY SchemaAssumption
<1>2. \E f : f = [k \in 0..(MaxDepth + 1) |->
                  IF k = 0 THEN {}
                  ELSE {p \in Nodes(root) \X Places : StrictNode(root, f[k - 1], p[1], p[2])}]
  <2>1. G \in [SUBSET P -> SUBSET P] /\ {} \in SUBSET P
    OBVIOUS
  <2> HIDE DEF G, P
  <2>2. PICK f \in [0..final -> SUBSET P] : Chain(f, {}, G, final)
    BY <1>1, <2>1, ChainExists
  <2>3. \A k \in 0..final : k # 0 => G[f[k - 1]] = {p \in P : StrictNode(root, f[k - 1], p[1], p[2])}
    <3> SUFFICES ASSUME NEW k \in 0..final, k # 0
                 PROVE  G[f[k - 1]] = {p \in P : StrictNode(root, f[k - 1], p[1], p[2])}
      OBVIOUS
    <3>1. k - 1 \in 0..final
      BY <1>1
    <3>2. f[k - 1] \in SUBSET P
      BY <3>1
    <3> QED
      BY <3>2 DEF G
  <2>4. f = [k \in 0..final |-> IF k = 0 THEN {} ELSE {p \in P : StrictNode(root, f[k - 1], p[1], p[2])}]
    BY <2>2, <2>3 DEF Chain
  <2> QED
    BY <2>4 DEF P
<1>3. F = [k \in 0..(MaxDepth + 1) |->
                  IF k = 0 THEN {}
                  ELSE {p \in Nodes(root) \X Places : StrictNode(root, F[k - 1], p[1], p[2])}]
  BY <1>2, Zenon
<1>4. StrictAt(root) = F[MaxDepth + 1]
  BY Zenon DEF StrictAt
<1> HIDE DEF F, G
<1> DEFINE T == UNION {F[k] : k \in 0..final}
<1>5. ASSUME NEW p \in T
      PROVE  p \in P /\ StrictNode(root, T, p[1], p[2])
  <2>1. PICK k \in 0..final : p \in F[k]
    OBVIOUS
  <2>2. k # 0 /\ p \in P /\ StrictNode(root, F[k - 1], p[1], p[2])
    BY <1>3, <2>1
  <2>3. k - 1 \in 0..final
    BY <1>1, <2>2
  <2>4. F[k - 1] \subseteq T
    BY <2>3
  <2> HIDE DEF T
  <2> QED
    BY <2>2, <2>4 DEF StrictNode
<1>6. StrictAt(root) \subseteq T
  BY <1>1, <1>4
<1> HIDE DEF T
<1> QED
  BY <1>5, <1>6

(* The steps of the library, up to the one that Conforms asks for.         *)
LEMMA ConformsInSteps ==
    ASSUME NEW root, NEW value
    PROVE  \E f :
             /\ \A node : Conforms(root, node, value) => <<node, value>> \in f[2 * (MaxDepth + 1)]
             /\ f[0] = {}
             /\ \A k \in 0..(2 * (MaxDepth + 1)) : f[k] \subseteq Nodes(root) \X Nodes(value)
             /\ \A k \in 1..(2 * (MaxDepth + 1)) : \A p \in f[k] :
                  ConformsNode(root, f[k - 1], p[1], p[2])
<1> DEFINE P == Nodes(root) \X Nodes(value)
           final == 2 * (MaxDepth + 1)
           G == [S \in SUBSET P |-> {p \in P : ConformsNode(root, S, p[1], p[2])}]
           F == CHOOSE f : f = [k \in 0..(2 * (MaxDepth + 1)) |->
                  IF k = 0 THEN {}
                  ELSE {p \in Nodes(root) \X Nodes(value) :
                          ConformsNode(root, f[k - 1], p[1], p[2])}]
<1>1. final \in Nat
  BY SchemaAssumption
<1>2. \E f : f = [k \in 0..(2 * (MaxDepth + 1)) |->
                  IF k = 0 THEN {}
                  ELSE {p \in Nodes(root) \X Nodes(value) :
                          ConformsNode(root, f[k - 1], p[1], p[2])}]
  <2>1. G \in [SUBSET P -> SUBSET P] /\ {} \in SUBSET P
    OBVIOUS
  <2> HIDE DEF G, P, final
  <2>2. PICK f \in [0..final -> SUBSET P] : Chain(f, {}, G, final)
    BY <1>1, <2>1, ChainExists
  <2>3. \A k \in 0..final : k # 0 => G[f[k - 1]] = {p \in P : ConformsNode(root, f[k - 1], p[1], p[2])}
    <3> SUFFICES ASSUME NEW k \in 0..final, k # 0
                 PROVE  G[f[k - 1]] = {p \in P : ConformsNode(root, f[k - 1], p[1], p[2])}
      OBVIOUS
    <3>1. k - 1 \in 0..final
      BY <1>1
    <3>2. f[k - 1] \in SUBSET P
      BY <3>1
    <3> QED
      BY <3>2 DEF G
  <2>4. f = [k \in 0..final |-> IF k = 0 THEN {} ELSE {p \in P : ConformsNode(root, f[k - 1], p[1], p[2])}]
    BY <2>2, <2>3 DEF Chain
  <2> QED
    BY <2>4 DEF P, final
<1>3. F = [k \in 0..(2 * (MaxDepth + 1)) |->
                  IF k = 0 THEN {}
                  ELSE {p \in Nodes(root) \X Nodes(value) :
                          ConformsNode(root, F[k - 1], p[1], p[2])}]
  BY <1>2, Zenon
<1>4. \A node : Conforms(root, node, value) => <<node, value>> \in F[2 * (MaxDepth + 1)]
  BY Zenon DEF Conforms
<1> HIDE DEF F, G
<1>5. F[0] = {}
  BY <1>1, <1>3
<1>6. ASSUME NEW k \in 1..final, NEW p \in F[k]
      PROVE  ConformsNode(root, F[k - 1], p[1], p[2])
  <2>1. k \in 0..final /\ k # 0
    BY <1>1
  <2> QED
    BY <1>3, <2>1
<1>7. \A k \in 0..final : F[k] \subseteq P
  BY <1>3
<1> QED
  BY <1>4, <1>5, <1>6, <1>7

(* What the form of a subschema says that it has.                          *)
LEMMA Forms ==
    ASSUME NEW n, FormOf(n) # "none"
    PROVE  \/ /\ Has(n, "type") /\ FormOf(n) \in TypeNames
              /\ At(n, "type").text = FormOf(n) /\ At(n, "type") = Str(FormOf(n))
           \/ FormOf(n) \in {"$ref", "anyOf", "oneOf", "enum", "const"} /\ Has(n, FormOf(n))
<1> DEFINE keys == {"type", "$ref", "anyOf", "oneOf"} \cap Keys(n)
<1>1. CASE keys = {"type"}
  <2>1. Has(n, "type")
    BY <1>1 DEF Has
  <2>2. FormOf(n) = IF \E t \in TypeNames : At(n, "type") = Str(t) THEN At(n, "type").text ELSE "none"
    BY <1>1 DEF FormOf
  <2>3. PICK t \in TypeNames : At(n, "type") = Str(t)
    BY <2>2
  <2>4. FormOf(n) = t
    BY <2>2, <2>3 DEF Str
  <2> QED
    BY <2>1, <2>3, <2>4 DEF Str
<1>2. CASE keys \in {{"$ref"}, {"anyOf"}, {"oneOf"}}
  <2>1. FormOf(n) = CHOOSE k \in keys : TRUE
    BY <1>2 DEF FormOf
  <2>2. FormOf(n) \in keys /\ keys \subseteq {"$ref", "anyOf", "oneOf"}
    <3>1. keys # {} /\ keys \subseteq {"$ref", "anyOf", "oneOf"}
      BY <1>2
    <3> QED
      BY <2>1, <3>1
  <2> QED
    BY <2>2 DEF Has
<1>3. CASE keys = {} /\ Has(n, "enum")
  BY <1>3 DEF FormOf
<1>4. CASE keys = {} /\ ~Has(n, "enum") /\ Has(n, "const")
  BY <1>4 DEF FormOf
<1>5. CASE /\ keys # {"type"} /\ keys \notin {{"$ref"}, {"anyOf"}, {"oneOf"}}
           /\ ~(keys = {} /\ Has(n, "enum")) /\ ~(keys = {} /\ ~Has(n, "enum") /\ Has(n, "const"))
  <2>1. FormOf(n) = "none"
    BY <1>5 DEF FormOf
  <2> QED
    BY <2>1
<1> QED
  BY <1>1, <1>2, <1>3, <1>4, <1>5

(* A value is declared when it is in the schema, or has the properties of  *)
(* an object of it.                                                        *)
DeclaredValue(root, o) ==
    \/ o.kind # "object"
    \/ o \in Nodes(root)
    \/ \E n \in Nodes(root) : Is(n, "type", Str("object")) /\ Keys(o) = Keys(Properties(n))

DeclaredWith(root, S, v) == v \in S /\ DeclaredValue(root, v) /\ Children(v) \subseteq S

LEMMA MemberIsAChild ==
    ASSUME NEW v, NEW k, Has(v, k)
    PROVE  At(v, k) \in Children(v) /\ v.kind = "object"
<1>1. v.kind = "object" /\ \E i \in DOMAIN v.members : v.members[i][1] = k
  <2>1. k \in ToSet(KeysOf(v))
    BY DEF Has, Keys
  <2>2. PICK i \in DOMAIN KeysOf(v) : k = KeysOf(v)[i]
    BY <2>1 DEF ToSet
  <2>3. v.kind = "object"
    <3> SUFFICES ASSUME v.kind # "object"
                 PROVE  FALSE
      OBVIOUS
    <3>1. KeysOf(v) = <<>>
      BY DEF KeysOf
    <3> QED
      BY <2>2, <3>1
  <2> QED
    BY <2>2, <2>3 DEF KeysOf
<1> DEFINE i == CHOOSE i \in DOMAIN v.members : v.members[i][1] = k
<1>2. i \in DOMAIN v.members /\ At(v, k) = v.members[i][2]
  BY <1>1 DEF At
<1> QED
  BY <1>1, <1>2 DEF Children

(* No key is there twice: each child of an object is under its key.        *)
LEMMA ChildIsAMember ==
    ASSUME NEW v, v.kind = "object", IsInjective(KeysOf(v)), NEW c \in Children(v)
    PROVE  \E k \in Keys(v) : c = At(v, k)
<1>1. PICK i \in DOMAIN v.members : c = v.members[i][2]
  BY DEF Children
<1> DEFINE k == v.members[i][1]
           j == CHOOSE j \in DOMAIN v.members : v.members[j][1] = k
<1>2. DOMAIN KeysOf(v) = DOMAIN v.members /\ \A m \in DOMAIN v.members : KeysOf(v)[m] = v.members[m][1]
  BY DEF KeysOf
<1>3. j \in DOMAIN v.members /\ v.members[j][1] = k /\ At(v, k) = v.members[j][2]
  BY <1>1 DEF At
<1> HIDE DEF j
<1>4. i = j
  BY <1>1, <1>2, <1>3 DEF IsInjective
<1>5. k \in Keys(v)
  BY <1>1, <1>2 DEF Keys, ToSet
<1> QED
  BY <1>1, <1>3, <1>4, <1>5

LEMMA ItemIsAChild ==
    ASSUME NEW v, NEW k, NEW x \in ToSet(ItemsOf(v, k))
    PROVE  Has(v, k) /\ x \in Children(At(v, k))
<1>1. Has(v, k) /\ At(v, k).kind = "array" /\ ItemsOf(v, k) = At(v, k).items
  <2> SUFFICES ASSUME ~(Has(v, k) /\ At(v, k).kind = "array")
               PROVE  FALSE
    BY DEF ItemsOf
  <2>1. ItemsOf(v, k) = <<>>
    BY DEF ItemsOf
  <2> QED
    BY <2>1 DEF ToSet
<1> QED
  BY <1>1 DEF Children

(* One step of the library, of a strict subschema: what is in it is        *)
(* declared, and so are its children, if that is so of the steps before.   *)
LEMMA NodeSays ==
    ASSUME NEW root, Admits(root), NEW T, NEW A, NEW S,
           T \subseteq Nodes(root) \X Places,
           \A q \in T : StrictNode(root, T, q[1], q[2]),
           \A x \in Children(Defs(root)) : <<x, "defs">> \in T,
           Nodes(root) \subseteq S,
           NEW p \in T, NEW v, v \in S, IsInjective(KeysOf(v)),
           ConformsNode(root, A, p[1], v),
           \A q \in T : \A w : <<q[1], w>> \in A => DeclaredWith(root, S, w)
    PROVE  DeclaredWith(root, S, v)
<1> DEFINE n == p[1]
           form == FormOf(n)
           inner == IF p[2] = "defs" THEN "defs" ELSE "inside"
<1>1. n \in Nodes(root) /\ StrictNode(root, T, n, p[2])
  OBVIOUS
<1>2. form # "none"
  BY <1>1 DEF StrictNode
<1>3. \A x : <<x, inner>> \in T => \A w : <<x, w>> \in A => DeclaredWith(root, S, w)
  OBVIOUS
<1> HIDE DEF inner
<1>4. ASSUME NEW x, x.kind \notin {"object", "array"}, x \in S
      PROVE  DeclaredWith(root, S, x)
  BY <1>4 DEF DeclaredWith, DeclaredValue, Children
<1>5. ASSUME NEW k \in {"enum", "const"}, form = k, Has(n, k)
      PROVE  DeclaredWith(root, S, v)
  <2>1. At(n, k) \in Nodes(root)
    BY <1>1, <1>5, MemberIsAChild, ChildIsANode
  <2>2. v \in Nodes(root)
    <3>1. CASE k = "const"
      <4>1. v = At(n, "const")
        BY <1>5, <3>1 DEF ConformsNode
      <4> QED
        BY <2>1, <3>1, <4>1
    <3>2. CASE k = "enum"
      <4>1. v \in ToSet(ItemsOf(n, "enum"))
        BY <1>5, <3>2 DEF ConformsNode
      <4>2. v \in Children(At(n, "enum"))
        BY <4>1, ItemIsAChild
      <4> QED
        BY <2>1, <3>2, <4>2, ChildIsANode
    <3> QED
      BY <1>5, <3>1, <3>2
  <2>3. Children(v) \subseteq Nodes(root)
    BY <2>2, ChildIsANode
  <2> QED
    BY <2>2, <2>3 DEF DeclaredWith, DeclaredValue
<1>6. ASSUME form = "$ref", Has(n, "$ref")
      PROVE  DeclaredWith(root, S, v)
  <2>1. PICK d \in Keys(Defs(root)) : At(n, "$ref") = RefTo(d)
    BY <1>1, <1>6 DEF StrictNode
  <2>2. <<At(Defs(root), d), v>> \in A
    BY <1>6, <2>1 DEF ConformsNode
  <2>3. At(Defs(root), d) \in Children(Defs(root))
    BY <2>1, MemberIsAChild DEF Has
  <2>4. <<At(Defs(root), d), "defs">> \in T
    BY <2>3
  <2>5. <<At(Defs(root), d), "defs">>[1] = At(Defs(root), d)
    OBVIOUS
  <2> QED
    BY <2>2, <2>4, <2>5
<1>7. ASSUME NEW k \in {"anyOf", "oneOf"}, form = k, Has(n, k)
      PROVE  DeclaredWith(root, S, v)
  <2>1. \A x \in ToSet(ItemsOf(n, k)) : <<x, inner>> \in T
    BY <1>1, <1>7 DEF StrictNode, inner
  <2>2. \E x \in ToSet(ItemsOf(n, k)) : <<x, v>> \in A
    <3>1. CASE k = "anyOf"
      BY <1>7, <3>1 DEF ConformsNode
    <3>2. CASE k = "oneOf"
      <4> DEFINE holds == {i \in DOMAIN ItemsOf(n, "oneOf") : <<ItemsOf(n, "oneOf")[i], v>> \in A}
      <4>1. Cardinality(holds) = 1
        BY <1>7, <3>2 DEF ConformsNode
      <4> HIDE DEF holds
      <4>2. holds # {}
        BY <4>1, FS_EmptySet
      <4> USE DEF holds
      <4> QED
        BY <3>2, <4>2 DEF ToSet
    <3> QED
      BY <1>7, <3>1, <3>2
  <2> QED
    BY <1>3, <2>1, <2>2
<1>8. ASSUME Has(n, "type"), form \in TypeNames, At(n, "type").text = form,
             At(n, "type") = Str(form)
      PROVE  DeclaredWith(root, S, v)
  <2>1. Typed(v, form)
    BY <1>8 DEF ConformsNode
  <2>2. CASE form \notin {"object", "array"}
    <3>1. v.kind \notin {"object", "array"}
      BY <2>1, <2>2 DEF Typed
    <3> QED
      BY <1>4, <3>1
  <2>3. CASE form = "array"
    <3>1. v.kind = "array" /\ Has(n, "items") /\ <<At(n, "items"), inner>> \in T
      BY <1>1, <2>1, <2>3 DEF Typed, StrictNode, inner
    <3>2. \A x \in ToSet(v.items) : <<At(n, "items"), x>> \in A
      BY <3>1 DEF ConformsNode
    <3>3. \A x \in Children(v) : x \in S
      <4>1. Children(v) = ToSet(v.items)
        BY <3>1 DEF Children
      <4> QED
        BY <1>3, <3>1, <3>2, <4>1 DEF DeclaredWith
    <3> QED
      BY <3>1, <3>3 DEF DeclaredWith, DeclaredValue
  <2>4. CASE form = "object"
    <3> DEFINE props == Properties(n)
    <3>1. v.kind = "object" /\ StrictObject(n) /\ \A x \in Children(props) : <<x, inner>> \in T
      BY <1>1, <2>1, <2>4 DEF Typed, StrictNode, inner
    <3>2. /\ \A s \in ToSet(ItemsOf(n, "required")) : s.text \in Keys(v)
          /\ Is(n, "additionalProperties", False) => Keys(v) \subseteq Keys(props)
          /\ \A k \in Keys(v) \cap Keys(props) : <<At(props, k), At(v, k)>> \in A
      BY <3>1 DEF ConformsNode
    <3>3. Keys(v) \subseteq Keys(props)
      BY <3>1, <3>2 DEF StrictObject, Closed
    <3>4. Keys(props) \subseteq Keys(v)
      <4> SUFFICES ASSUME NEW k \in Keys(props)
                   PROVE  k \in Keys(v)
        OBVIOUS
      <4>1. Str(k) \in ToSet(ItemsOf(n, "required"))
        BY <3>1 DEF StrictObject
      <4> QED
        BY <3>2, <4>1 DEF Str
    <3>5. ASSUME NEW c \in Children(v)
          PROVE  c \in S
      <4>1. PICK k \in Keys(v) : c = At(v, k)
        BY <3>1, ChildIsAMember
      <4>2. <<At(props, k), c>> \in A /\ Has(props, k)
        BY <3>2, <3>3, <4>1 DEF Has
      <4>3. <<At(props, k), inner>> \in T
        BY <3>1, <4>2, MemberIsAChild
      <4> QED
        BY <1>3, <4>2, <4>3 DEF DeclaredWith
    <3>6. Is(n, "type", Str("object"))
      BY <1>8, <2>4 DEF Is
    <3>7. Keys(v) = Keys(props)
      BY <3>3, <3>4
    <3> HIDE DEF n
    <3>8. DeclaredValue(root, v)
      BY <1>1, <3>6, <3>7 DEF DeclaredValue
    <3> QED
      BY <3>5, <3>8 DEF DeclaredWith
  <2> QED
    BY <2>2, <2>3, <2>4
<1> QED
  BY <1>2, <1>5, <1>6, <1>7, <1>8, Forms

(* Whatever the schema that compiles, and whatever answer is in it: each   *)
(* value of the answer is declared.                                        *)
LEMMA AnswerIsDeclared ==
    ASSUME NEW root, NEW shown, Admits(root), CheckStrict(root), Admits(shown),
           Conforms(root, root, shown)
    PROVE  \A o \in Nodes(shown) : DeclaredValue(root, o)
<1> DEFINE final == 2 * (MaxDepth + 1)
<1>1. final \in Nat
  BY SchemaAssumption
<1>2. PICK T : /\ StrictAt(root) \subseteq T
               /\ T \subseteq Nodes(root) \X Places
               /\ \A q \in T : StrictNode(root, T, q[1], q[2])
  BY StrictIsClosed
<1>3. <<root, "root">> \in T /\ \A x \in Children(Defs(root)) : <<x, "defs">> \in T
  BY <1>2 DEF CheckStrict
<1>4. PICK f : /\ \A node : Conforms(root, node, shown) => <<node, shown>> \in f[final]
               /\ f[0] = {}
               /\ \A k \in 0..final : f[k] \subseteq Nodes(root) \X Nodes(shown)
               /\ \A k \in 1..final : \A p \in f[k] : ConformsNode(root, f[k - 1], p[1], p[2])
  BY ConformsInSteps
<1> HIDE DEF final
<1> DEFINE S == Nodes(root) \cup {r[2] : r \in {r \in UNION {f[k] : k \in 0..final} :
                                                \E q \in T : q[1] = r[1]}}
           Agreed(k) == \A q \in T : \A w : <<q[1], w>> \in f[k] => DeclaredWith(root, S, w)
           R == {k \in Nat : k <= final => Agreed(k)}
<1>5. ASSUME NEW k \in 0..final, NEW q \in T, NEW w, <<q[1], w>> \in f[k]
      PROVE  w \in S
  <2>1. <<q[1], w>> \in UNION {f[j] : j \in 0..final}
    BY <1>5
  <2>2. <<q[1], w>>[2] = w /\ <<q[1], w>>[1] = q[1]
    OBVIOUS
  <2> QED
    BY <2>1, <2>2
<1> HIDE DEF S
<1>6. 0 \in R
  BY <1>4
<1>7. ASSUME NEW k \in Nat, k \in R
      PROVE  k + 1 \in R
  <2> SUFFICES ASSUME k + 1 <= final, NEW q \in T, NEW w, <<q[1], w>> \in f[k + 1]
               PROVE  DeclaredWith(root, S, w)
    OBVIOUS
  <2>1. k + 1 \in 1..final /\ k + 1 \in 0..final /\ (k + 1) - 1 = k /\ k <= final
    BY <1>1
  <2>2. Agreed(k)
    BY <1>7, <2>1
  <2>3. <<q[1], w>> \in Nodes(root) \X Nodes(shown)
    BY <1>4, <2>1
  <2>4. IsInjective(KeysOf(w))
    BY <2>3 DEF Admits
  <2>5. ConformsNode(root, f[k], q[1], w)
    <3>1. ConformsNode(root, f[(k + 1) - 1], <<q[1], w>>[1], <<q[1], w>>[2])
      BY <1>4, <2>1
    <3> QED
      BY <2>1, <3>1
  <2>6. w \in S
    BY <1>5, <2>1
  <2>7. Nodes(root) \subseteq S
    BY DEF S
  <2> QED
    BY <1>2, <1>3, <2>2, <2>4, <2>5, <2>6, <2>7, NodeSays
<1> HIDE DEF R
<1>8. Agreed(final)
  <2>1. final \in R
    BY <1>1, <1>6, <1>7, SetInduction
  <2> QED
    BY <1>1, <2>1 DEF R
<1>9. shown \in S
  <2>1. <<root, shown>> \in f[final] /\ final \in 0..final
    BY <1>1, <1>4
  <2>2. <<<<root, "root">>[1], shown>> \in f[final]
    BY <2>1
  <2> QED
    BY <1>3, <1>5, <2>1, <2>2
<1>10. ASSUME NEW o \in S
       PROVE  DeclaredValue(root, o) /\ Children(o) \subseteq S
  <2>1. CASE o \in Nodes(root)
    <3>1. Children(o) \subseteq Nodes(root)
      BY <2>1, ChildIsANode
    <3> QED
      BY <2>1, <3>1 DEF DeclaredValue, S
  <2>2. CASE o \notin Nodes(root)
    <3>1. PICK k \in 0..final, q \in T : <<q[1], o>> \in f[k]
      <4>1. PICK r \in UNION {f[k] : k \in 0..final} : o = r[2] /\ \E q \in T : q[1] = r[1]
        BY <1>10, <2>2 DEF S
      <4>2. PICK k \in 0..final : r \in f[k]
        BY <4>1
      <4>3. r = <<r[1], r[2]>>
        BY <1>4, <4>2
      <4> QED
        BY <4>1, <4>2, <4>3
    <3>2. k \in R
      BY <1>1, <1>6, <1>7, SetInduction
    <3>3. DeclaredWith(root, S, o)
      BY <1>1, <3>1, <3>2 DEF R
    <3> QED
      BY <3>3 DEF DeclaredWith
  <2> QED
    BY <2>1, <2>2
<1>11. Nodes(shown) \subseteq S
  BY <1>9, <1>10, NodesFollow
<1> QED
  BY <1>10, <1>11

-----------------------------------------------------------------------------
(* What is sent, and what is given back *)

(* What the checks of a call that is admitted leave true.                  *)
Admissible(c) ==
    /\ c.withTools => CheckTools(c.tools)
    /\ Loads(c.prompt) /\ c.promptHash = HashOf(c.prompt) /\ ~SecretInPrompt(c.prompt)
    /\ PolicyHolds(c.policy, c.requiresRetention)

AnswersDeclared == \A c \in CheckedAnswers : Declared(c[1].value, c[2].value)

Checked ==
    /\ where \in {"ready", "calling", "answered"} => Admissible(call)
    /\ where = "answered" => answer.content.toolCalls \in Seq(ToolCall)
    /\ outcome = "result" => where = "over" /\ CheckedResult /\ AnswersDeclared

LEMMA AdmittedIsAdmissible ==
    ASSUME NEW c \in Calls, Admit(c)
    PROVE  Admissible(c)
<1>1. \A check \in {"tools", "prompt", "prompt_hash", "prompt_secret", "policy"} : ~Fails(c, check)
  BY DEF Admit, CheckNames, Checks
<1> QED
  BY <1>1 DEF Fails, Admissible

(* An answer that is valid has only calls of the tools given, each in the  *)
(* schema of its tool, or none and an output in the schema of the prompt.  *)
LEMMA ValidAnswer ==
    ASSUME NEW schema, NEW tools, NEW r, r.toolCalls \in Seq(ToolCall),
           CheckOutput(schema, tools, r) = "valid"
    PROVE  /\ ToSet(r.toolCalls) = {} => Validate(schema, r.output)
           /\ \A tc \in ToSet(r.toolCalls) :
                tc.name \in NamesOf(tools) /\ Validate(ToolOf(tools, tc.name).schema, tc.input)
<1> DEFINE calls == r.toolCalls
           failed == {i \in DOMAIN calls : CheckCall(tools, calls[i]) # "valid"}
<1>1. CASE calls = <<>>
  <2>1. CheckText(schema, r.output) = "valid"
    BY <1>1 DEF CheckOutput
  <2>2. Validate(schema, r.output)
    BY <2>1 DEF CheckText
  <2>3. ToSet(calls) = {}
    BY <1>1 DEF ToSet
  <2> QED
    BY <2>2, <2>3
<1>2. CASE calls # <<>>
  <2>1. ToSet(calls) # {}
    <3>1. calls[1] \in ToSet(calls)
      BY <1>2 DEF ToSet
    <3> QED
      BY <3>1
  <2>2. failed = {}
    <3> SUFFICES ASSUME failed # {}
                 PROVE  FALSE
      OBVIOUS
    <3>1. failed \subseteq Nat
      OBVIOUS
    <3> HIDE DEF failed
    <3>2. \E least \in failed : \A n \in failed : least <= n
      BY <3>1, LeastNumber
    <3>3. Min(failed) \in failed
      BY <3>2 DEF Min
    <3>4. CheckCall(tools, calls[Min(failed)]) = "valid"
      BY <1>2 DEF CheckOutput, failed
    <3> QED
      BY <3>3, <3>4 DEF failed
  <2>3. ASSUME NEW tc \in ToSet(calls)
        PROVE  CheckCall(tools, tc) = "valid"
    <3>1. PICK i \in DOMAIN calls : tc = calls[i]
      BY DEF ToSet
    <3> QED
      BY <2>2, <3>1
  <2> QED
    BY <2>1, <2>3 DEF CheckCall
<1> QED
  BY <1>1, <1>2

(* What a compiled schema lets through is declared in it.                  *)
LEMMA ValidIsDeclared ==
    ASSUME NEW d, NEW output, CompileSchema(d), Validate(d, output)
    PROVE  Declared(d.value, output.value)
<1>1. Admits(d.value) /\ CheckStrict(d.value)
  BY DEF CompileSchema, Decodes
<1>2. Admits(output.value) /\ Conforms(d.value, d.value, output.value)
  BY DEF Validate, Decodes
<1> QED
  BY <1>1, <1>2, AnswerIsDeclared DEF Declared, DeclaredValue

LEMMA ToolIsCompiled ==
    ASSUME NEW tools, CheckTools(tools), NEW name \in NamesOf(tools)
    PROVE  CompileSchema(ToolOf(tools, name).schema)
<1>1. PICK i \in DOMAIN tools : tools[i].name = name
  BY DEF NamesOf
<1>2. tools[i] \in ToSet(tools)
  BY <1>1 DEF ToSet
<1>3. ToolOf(tools, name) \in ToSet(tools)
  BY <1>1, <1>2 DEF ToolOf
<1>4. PICK j \in DOMAIN tools : ToolOf(tools, name) = tools[j]
  BY <1>3 DEF ToSet
<1> QED
  BY <1>4 DEF CheckTools

LEMMA AcceptedIsChecked ==
    ASSUME Checked, Accept
    PROVE  CheckedResult /\ AnswersDeclared
<1>1. /\ Admissible(call) /\ answer.content.toolCalls \in Seq(ToolCall)
      /\ answer.modelMatches /\ Counted /\ Verdict = "valid"
  BY DEF Checked, Accept, Count, Answered
<1> DEFINE calls == ToSet(answer.content.toolCalls)
<1>2. /\ calls = {} => Validate(PromptSchema, answer.content.output)
      /\ \A tc \in calls :
            tc.name \in NamesOf(Tools) /\ Validate(ToolOf(Tools, tc.name).schema, tc.input)
  BY <1>1, ValidAnswer DEF Verdict
<1>3. calls # {} => call.withTools
  BY <1>2 DEF Tools, NamesOf
<1>4. calls # {} => Tools = call.tools
  BY <1>3 DEF Tools
<1>5. \A c \in CheckedAnswers : Validate(c[1], c[2])
  BY <1>2, <1>4 DEF CheckedAnswers
<1>6. /\ <<call.prompt.system.content.name, call.prompt.schema.content.name>> = call.promptHash
      /\ call.prompt.system.content.bytes <= MaxSystemBytes
  BY <1>1 DEF Admissible, HashOf, Loads, ReadBounded
<1>7. CheckedResult
  BY <1>1, <1>2, <1>3, <1>4, <1>5, <1>6 DEF CheckedResult
<1>8. ASSUME NEW c \in CheckedAnswers
      PROVE  CompileSchema(c[1])
  <2>1. CASE calls = {}
    <3>1. c[1] = PromptSchema
      BY <2>1 DEF CheckedAnswers
    <3> QED
      BY <1>1, <3>1 DEF Admissible, Loads, PromptSchema
  <2>2. CASE calls # {}
    <3>1. PICK tc \in calls : c[1] = ToolOf(call.tools, tc.name).schema
      BY <2>2 DEF CheckedAnswers
    <3>2. CheckTools(call.tools) /\ tc.name \in NamesOf(call.tools)
      BY <1>1, <1>2, <1>3, <1>4, <2>2 DEF Admissible
    <3> QED
      BY <3>1, <3>2, ToolIsCompiled
  <2> QED
    BY <2>1, <2>2
<1>9. AnswersDeclared
  BY <1>5, <1>8, ValidIsDeclared DEF AnswersDeclared
<1> QED
  BY <1>7, <1>9

LEMMA CheckedInit == Init => Checked
  BY DEF Init, Checked

LEMMA CheckedStep ==
    ASSUME IInv, Checked, [Next]_callVars
    PROVE  Checked'
<1>1. CASE UNCHANGED <<call, answer, outcome>> /\ where' = where
  <2>1. UNCHANGED <<Admissible(call), CheckedResult, AnswersDeclared>>
    BY <1>1
    DEF Admissible, CheckedResult, AnswersDeclared, CheckedAnswers, PromptSchema, Counted, ValidUsage
  <2> QED
    BY <1>1, <2>1 DEF Checked
<1>2. ASSUME NEW c \in Calls, Refuse(c)
      PROVE  Checked'
  BY <1>2, NoCheckIsAResult DEF Refuse, Checked
<1>3. ASSUME NEW c \in Calls, Admit(c)
      PROVE  Checked'
  <2>1. Admissible(c) /\ outcome = "none"
    BY <1>3, AdmittedIsAdmissible DEF IInv, Idle, Admit
  <2>2. call' = c /\ where' = "ready" /\ outcome' = outcome
    BY <1>3 DEF Admit
  <2> QED
    BY <2>1, <2>2 DEF Checked
<1>4. CASE Accept
  <2>1. CheckedResult /\ AnswersDeclared
    BY <1>4, AcceptedIsChecked
  <2>2. UNCHANGED <<call, answer>> /\ where' = "over"
    BY <1>4 DEF Accept, Count, Answered
  <2>3. CheckedResult' /\ AnswersDeclared'
    BY <2>1, <2>2
    DEF CheckedResult, AnswersDeclared, CheckedAnswers, PromptSchema, Counted, ValidUsage
  <2> QED
    BY <2>2, <2>3 DEF Checked
<1>5. CASE StopBeforeAttempt \/ ProviderFailed \/ ModelMismatch \/ GiveUp
  <2>1. outcome' # "result" /\ where' = "over"
    BY <1>5, VerdictIsAnError DEF StopBeforeAttempt, ProviderFailed, ModelMismatch, GiveUp, Spent, Verdict
  <2> QED
    BY <2>1 DEF Checked
<1>6. CASE CallProvider \/ Correct
  <2>1. /\ where \in {"ready", "answered"} /\ where' \in {"ready", "calling"}
        /\ UNCHANGED <<call, outcome>>
    BY <1>6 DEF CallProvider, Correct, Count, Answered
  <2>2. outcome' # "result" /\ Admissible(call)
    BY <2>1 DEF Checked
  <2> QED
    BY <2>1, <2>2 DEF Checked
<1>7. CASE ProviderReplies
  <2>1. where = "calling" /\ where' = "answered" /\ UNCHANGED <<call, outcome>>
    BY <1>7 DEF ProviderReplies
  <2>2. outcome' # "result" /\ Admissible(call)
    BY <2>1 DEF Checked
  <2>3. answer'.content.toolCalls \in Seq(ToolCall)
    <3>1. PICK r \in Replies : \E c \in Extremes(r) : answer' = [r EXCEPT !.cost = c]
      BY <1>7 DEF ProviderReplies
    <3> QED
      BY <3>1, RepliesTyped
  <2> QED
    BY <2>1, <2>2, <2>3 DEF Checked
<1>8. CASE CancelContext \/ UNCHANGED callVars
  BY <1>1, <1>8 DEF CancelContext, callVars
<1> QED
  BY <1>2, <1>3, <1>4, <1>5, <1>6, <1>7, <1>8 DEF Next, Client

LEMMA CheckedHolds == Spec => []Checked
<1>1. IInv /\ Checked /\ [Next]_callVars => Checked'
  BY CheckedStep
<1> QED
  BY <1>1, CheckedInit, InvariantHolds, PTL DEF Spec

(* The text of a tenant stays where its policy says, as long as the two    *)
(* lists of the code name only regions that lie in the Union.              *)
THEOREM RouteIsLawful ==
    ASSUME BedrockEURegions \cup VertexEURegions \subseteq EURegions
    PROVE  Spec => []RouteLawful
<1>1. IInv /\ Checked => RouteLawful
  <2> SUFFICES ASSUME IInv, Checked, Sent
               PROVE  RouteLawful
    BY DEF RouteLawful
  <2> DEFINE p == call.policy
  <2>1. call \in Calls /\ PolicyHolds(p, call.requiresRetention)
    BY DEF IInv, Running, Checked, Sent, Admissible
  <2>2. p \in TenantPolicy
    BY <2>1, ClientAssumption DEF Call
  <2>3. /\ p.residency \in {"eu", "none", "unknown"}
        /\ p.retention \in {"zero", "standard", "unknown"}
        /\ p.route.model \in Model
    BY <2>2 DEF TenantPolicy, Route
  <2> HIDE DEF p
  <2>4. ASSUME ResidentInEU(p.route), ModelPinned(p.route)
        PROVE  StaysInEU(p.route)
    <3>1. CASE p.route.platform = "vertex"
      <4>1. p.route.model.form = "vertex"
        BY <2>4, <3>1 DEF ModelPinned
      <4>2. p.route.model.geo = ""
        BY <2>3, <4>1 DEF Model
      <4>3. p.route.region \in VertexEURegions
        BY <2>4, <3>1 DEF ResidentInEU
      <4> QED
        BY <3>1, <4>2, <4>3 DEF StaysInEU
    <3>2. CASE p.route.platform # "vertex"
      BY <2>4, <3>2 DEF ResidentInEU, StaysInEU
    <3> QED
      BY <3>1, <3>2
  <2>5. ~p.route.model.floating
    BY <2>1 DEF PolicyHolds, ModelPinned
  <2> QED
    BY <2>1, <2>3, <2>4, <2>5 DEF PolicyHolds, RouteLawful, p
<1> QED
  BY <1>1, InvariantHolds, CheckedHolds, PTL

(* A result was checked, whatever the provider answers: it comes from the  *)
(* model of the route, with a usage that can be believed, and its output   *)
(* or each of its calls is in the schema of the pinned prompt or of a tool *)
(* that was given.  Whatever these schemas, nothing is in it, at any       *)
(* depth, but what they name, and nothing that they name is missing.       *)
THEOREM ResultIsChecked == Spec => []ResultChecked
<1>1. Checked => ResultChecked
  BY DEF Checked, ResultChecked, AnswersDeclared
<1> QED
  BY <1>1, CheckedHolds, PTL

LEMMA NothingToMask ==
    ASSUME NEW t \in Text, ~ContainsSecret(t)
    PROVE  \A c \in t.candidates : ~IsSecret(c, t)
<1>1. Masked(t).of = t /\ Masked(t).masks = <<>>
  BY DEF Masked, ContainsSecret
<1> QED
  BY <1>1, MaskedIsMasked DEF SecretsMasked

(* The texts of a request are masked texts, but for those of corrections.  *)
LEMMA TextsOfRequest ==
    ASSUME Running, Counters, NEW m \in SentTexts
    PROVE  \/ \E t \in Text : m = Masked(t)
           \/ m = Correction.text[1]
<1> DEFINE masked == RedactMessages(call.messages)
           parts == PartsOf(call.messages)
<1>1. PICK i \in DOMAIN req : m \in ToSet(req[i].text \o req[i].untrusted)
  BY DEF SentTexts
<1>2. call \in Calls /\ attempt \in Nat /\ req = masked \o [k \in 1..attempt |-> Correction]
  BY ClientAssumption DEF Running, Counters, Corrected, ValidConfig
<1>3. parts \in Seq(Part) /\ masked = [j \in 1..Len(parts) |-> MaskedPart(parts[j])]
  BY <1>2, PartsAreASeq DEF RedactMessages
<1>4. PICK S : masked \in Seq(S)
  BY <1>2, RedactedIsASeq
<1> HIDE DEF masked, parts
<1> DEFINE more == [k \in 1..attempt |-> Correction]
<1>5. more \in Seq({Correction}) /\ \A k \in 1..attempt : more[k] = Correction
  BY <1>2
<1>6. Len(masked) = Len(parts) /\ Len(parts) \in Nat /\ Len(more) = attempt
  BY <1>2, <1>3, <1>4
<1>7. DOMAIN req = 1..(Len(parts) + attempt)
  <2> DEFINE T == S \cup {Correction}
  <2>1. masked \in Seq(T) /\ more \in Seq(T)
    BY <1>4, <1>5
  <2> HIDE DEF more, T
  <2>2. req = masked \o more /\ Len(masked) = Len(parts) /\ Len(more) = attempt
    BY <1>2, <1>6 DEF more
  <2>3. req \in Seq(T) /\ Len(req) = Len(parts) + attempt
    <3>1. masked \o more \in Seq(T)
      BY <2>1
    <3>2. Len(masked \o more) = Len(masked) + Len(more)
      BY <2>1
    <3> QED
      BY <2>2, <3>1, <3>2
  <2> QED
    BY <2>3
<1>8. CASE i <= Len(parts)
  <2>1. i \in 1..Len(parts) /\ req[i] = MaskedPart(parts[i]) /\ parts[i] \in Part
    BY <1>2, <1>3, <1>4, <1>5, <1>6, <1>7, <1>8
  <2> DEFINE p == parts[i]
  <2>2. p.text \in Text /\ p.untrusted \in {<<>>} \cup (Text \X Text)
    BY <2>1 DEF Part
  <2>3. CASE p.untrusted = <<>>
    <3>1. MaskedPart(p).text = <<Masked(p.text)>> /\ MaskedPart(p).untrusted = <<>>
      BY <2>3 DEF MaskedPart
    <3>2. m = Masked(p.text)
      BY <1>1, <2>1, <3>1 DEF ToSet
    <3> QED
      BY <2>2, <3>2
  <2>4. CASE p.untrusted # <<>>
    <3>1. p.untrusted = <<p.untrusted[1], p.untrusted[2]>>
          /\ p.untrusted[1] \in Text /\ p.untrusted[2] \in Text
      BY <2>2, <2>4
    <3>2. MaskedPart(p).untrusted = <<Masked(p.untrusted[1]), Masked(p.untrusted[2])>>
      BY <3>1 DEF MaskedPart
    <3>3. MaskedPart(p).text = <<>>
      BY <2>4 DEF MaskedPart
    <3>4. m \in {Masked(p.untrusted[1]), Masked(p.untrusted[2])}
      BY <1>1, <2>1, <3>2, <3>3 DEF ToSet
    <3> QED
      BY <3>1, <3>4
  <2> QED
    BY <2>3, <2>4
<1>9. CASE i > Len(parts)
  <2>1. req[i] = Correction
    BY <1>2, <1>4, <1>5, <1>6, <1>7, <1>9
  <2>2. Correction.text \o Correction.untrusted = <<Correction.text[1]>>
    BY DEF Correction
  <2> QED
    BY <1>1, <2>1, <2>2 DEF ToSet
<1> QED
  BY <1>6, <1>7, <1>8, <1>9

(* Whatever the texts and whatever the rules find in them, each secret of  *)
(* a message is masked, whole, by masks in order and apart, nothing else   *)
(* is, and the prompt and the tools hold none.                             *)
THEOREM SecretsAreMasked == Spec => [](Sent => NoSecretInTexts)
<1>1. IInv /\ Checked => (Sent => NoSecretInTexts)
  <2> SUFFICES ASSUME IInv, Checked, Sent
               PROVE  NoSecretInTexts
    OBVIOUS
  <2>1. Running /\ Counters /\ Admissible(call) /\ call \in Calls
    BY DEF IInv, Running, Checked, Sent
  <2>2. SecretsMasked(Correction.text[1])
    BY DEF SecretsMasked, Correction, NoText
  <2>3. \A m \in SentTexts : SecretsMasked(m)
    BY <2>1, <2>2, TextsOfRequest, MaskedIsMasked
  <2>4. ASSUME NEW t \in call.prompt.system.content.texts
                          \cup call.prompt.schema.content.texts
        PROVE  t \in Text /\ ~ContainsSecret(t)
    <3>1. call.prompt \in Access
      BY <2>1, ClientAssumption DEF Call
    <3>2. call.prompt.system.content \in Content /\ call.prompt.schema.content \in Content
      BY <3>1 DEF Access, File
    <3>3. t \in Text
      BY <3>2, <2>4 DEF Content
    <3> QED
      BY <2>1, <2>4, <3>3 DEF Admissible, SecretInPrompt
  <2>5. ASSUME NEW i \in DOMAIN Tools, NEW t \in Tools[i].texts
        PROVE  t \in Text /\ ~ContainsSecret(t)
    <3>1. call.withTools /\ Tools = call.tools
      BY <2>5 DEF Tools
    <3>2. call.tools \in Seq(ToolSpec)
      BY <2>1, ClientAssumption DEF Call
    <3>3. Tools[i] \in ToolSpec
      BY <3>1, <3>2
    <3>4. t \in Text
      BY <3>3 DEF ToolSpec
    <3>5. CheckTools(Tools)
      BY <2>1, <3>1 DEF Admissible
    <3> QED
      BY <3>4, <3>5 DEF CheckTools
  <2>6. \A t \in UnmaskedTexts : t \in Text /\ ~ContainsSecret(t)
    BY <2>4, <2>5 DEF UnmaskedTexts
  <2> QED
    BY <2>3, <2>6, NothingToMask DEF NoSecretInTexts
<1> QED
  BY <1>1, InvariantHolds, CheckedHolds, PTL

-----------------------------------------------------------------------------
(* What a call may cost *)

LEMMA WorstIsANumber ==
    ASSUME NEW c \in Calls
    PROVE  /\ WorstAttempt(c) \in Nat /\ WorstAttempt(c) >= 2 * MaxReportedTokens
           /\ \A k \in 0..MaxCorrections :
                c.maxTokens + k * CorrectionBytes
                  + c.prompt.system.content.bytes + c.prompt.schema.content.bytes
                  + RenderedMessages(RedactMessages(c.messages)) <= WorstAttempt(c)
<1> DEFINE system == c.prompt.system.content.bytes
           schema == c.prompt.schema.content.bytes
           size == RenderedMessages(RedactMessages(c.messages))
           most == MaxCorrections * CorrectionBytes
<1>1. c \in Call /\ CorrectionBytes \in Nat /\ MaxReportedTokens \in Nat /\ MaxCorrections \in Nat
  BY ClientAssumption DEF ValidConfig
<1>2. system \in Nat /\ schema \in Nat /\ c.maxTokens \in Int
  <2>1. c.prompt.system \in File /\ c.prompt.schema \in File /\ c.maxTokens \in Int
    BY <1>1 DEF Call, Access
  <2> QED
    BY <2>1 DEF File, Content
<1>3. size \in Nat
  <2>1. 0 \in Nat
    OBVIOUS
  <2>2. RenderedMessages(Corrected(c.messages, 0)) \in Nat
    BY <2>1, CorrectedHasASize
  <2> QED
    BY <2>1, <2>2, CorrectedGrows
<1>4. most \in Nat /\ \A k \in 0..MaxCorrections : k * CorrectionBytes <= most /\ k * CorrectionBytes \in Nat
  BY <1>1
<1>5. WorstAttempt(c) = Larger(2 * MaxReportedTokens, c.maxTokens + most + system + schema + size)
  BY Zenon DEF WorstAttempt, most, system, schema, size
<1> HIDE DEF most, system, schema, size
<1>6. /\ WorstAttempt(c) \in Nat /\ WorstAttempt(c) >= 2 * MaxReportedTokens
      /\ WorstAttempt(c) >= c.maxTokens + most + system + schema + size
  BY <1>1, <1>2, <1>3, <1>4, <1>5 DEF Larger
<1>7. \A k \in 0..MaxCorrections :
        c.maxTokens + k * CorrectionBytes + system + schema + size <= WorstAttempt(c)
  <2> SUFFICES ASSUME NEW k \in 0..MaxCorrections
               PROVE  c.maxTokens + k * CorrectionBytes + system + schema + size <= WorstAttempt(c)
    OBVIOUS
  <2> DEFINE some == k * CorrectionBytes
  <2>1. some <= most /\ some \in Nat
    BY <1>4
  <2> HIDE DEF some
  <2>2. c.maxTokens + some + system + schema + size <= WorstAttempt(c)
    BY <1>2, <1>3, <1>4, <1>6, <2>1
  <2> QED
    BY <2>2 DEF some
<1> QED
  BY <1>6, <1>7 DEF system, schema, size

(* A failed attempt costs no more than its whole request and output.       *)
LEMMA AttemptIsBounded ==
    ASSUME Running, Counters, ~call.withTools
    PROVE  /\ call \in Calls
           /\ WorstAttempt(call) \in Nat /\ WorstAttempt(call) >= 2 * MaxReportedTokens
           /\ call.maxTokens + SentBytes <= WorstAttempt(call)
           /\ call.maxTokens \in Nat /\ SentBytes \in Nat
<1>1. call \in Calls /\ req = Corrected(call.messages, attempt) /\ attempt \in Nat
      /\ attempt \in 0..MaxCorrections /\ call.maxTokens \in Nat
  BY DEF Running, Counters
<1> DEFINE system == call.prompt.system.content.bytes
           schema == call.prompt.schema.content.bytes
           size == RenderedMessages(RedactMessages(call.messages))
           some == attempt * CorrectionBytes
<1>2. RenderedMessages(req) = size + some /\ RenderedMessages(req) \in Nat
  BY <1>1, CorrectedHasASize
<1>3. call.maxTokens + some + system + schema + size <= WorstAttempt(call)
  BY <1>1, WorstIsANumber
<1>4. system \in Nat /\ schema \in Nat
  <2>1. call.prompt.system \in File /\ call.prompt.schema \in File
    BY <1>1, ClientAssumption DEF Call, Access
  <2> QED
    BY <2>1 DEF File, Content
<1>5. size \in Nat /\ some \in Nat
  <2>1. 0 \in Nat
    OBVIOUS
  <2>2. size \in Nat
    BY <1>1, <2>1, CorrectedHasASize, CorrectedGrows
  <2> QED
    BY <1>1, <2>2, ClientAssumption
<1>6. RequestBytes = system + schema + RenderedMessages(req)
  BY DEF RequestBytes
<1> HIDE DEF system, schema, size, some
<1>7. call.maxTokens + RequestBytes <= WorstAttempt(call) /\ RequestBytes \in Nat
  BY <1>1, <1>2, <1>3, <1>4, <1>5, <1>6
<1>8. SentBytes = RequestBytes
  BY <1>1, <1>7, ToolsHaveASize DEF SentBytes
<1> QED
  BY <1>1, <1>7, <1>8, WorstIsANumber

(* The attempts that were made, the one just answered included.            *)
Attempted == attempts + IF where = "answered" THEN 1 ELSE 0

Bounded ==
    where # "idle" =>
        /\ call \in Calls /\ ~call.withTools
        /\ cost <= Attempted * WorstAttempt(call)

LEMMA BoundedStep ==
    ASSUME IInv, Bounded, [Next]_callVars, where' # "idle" => ~call'.withTools
    PROVE  Bounded'
<1>1. CASE CancelContext \/ UNCHANGED callVars
  BY <1>1 DEF CancelContext, callVars, Bounded, Attempted
<1>2. ASSUME NEW c \in Calls, Refuse(c) \/ Admit(c)
      PROVE  Bounded'
  <2>1. Idle
    BY <1>2 DEF IInv, Refuse, Admit
  <2>2. call' = c /\ cost' = 0 /\ Attempted' = 0
    BY <1>2, <2>1 DEF Refuse, Admit, Idle, Attempted
  <2>3. 0 <= 0 * WorstAttempt(c)
    BY WorstIsANumber
  <2> QED
    BY <1>2, <2>2, <2>3 DEF Bounded
<1>3. CASE Client
  <2>1. where # "idle" /\ call' = call /\ cost' = cost
    BY <1>3
    DEF Client, StopBeforeAttempt, CallProvider, ProviderFailed, ModelMismatch, Accept, GiveUp,
        Correct, Count, Answered
  <2>2. Attempted' = Attempted
    <3>1. attempts \in Nat
      BY DEF IInv, Counters
    <3>2. CASE StopBeforeAttempt \/ CallProvider
      BY <3>1, <3>2 DEF StopBeforeAttempt, CallProvider, Attempted
    <3>3. CASE ~(StopBeforeAttempt \/ CallProvider)
      <4>1. where = "answered" /\ attempts' = attempts + 1 /\ where' # "answered"
        BY <1>3, <3>3
        DEF Client, ProviderFailed, ModelMismatch, Accept, GiveUp, Correct, Count, Answered, Spent
      <4> QED
        BY <3>1, <4>1 DEF Attempted
    <3> QED
      BY <3>2, <3>3
  <2> QED
    BY <2>1, <2>2 DEF Bounded
<1>4. CASE ProviderReplies
  <2> DEFINE worst == WorstAttempt(call)
  <2>1. Running /\ Counters /\ where = "calling"
    BY <1>4 DEF IInv, ProviderReplies
  <2>2. /\ call \in Calls /\ worst \in Nat /\ worst >= 2 * MaxReportedTokens
        /\ call.maxTokens + SentBytes <= worst
        /\ call.maxTokens \in Nat /\ SentBytes \in Nat
    BY <2>1, AttemptIsBounded DEF Bounded
  <2>3. PICK r \in Replies : \E c \in Extremes(r) : cost' = cost + c
    BY <1>4 DEF ProviderReplies
  <2>4. PICK c \in Extremes(r) : cost' = cost + c
    BY <2>3
  <2>5. r.input \in Int /\ r.output \in Int
    BY RepliesTyped
  <2> HIDE DEF worst
  <2>6. c \in Nat /\ c <= worst
    BY <2>2, <2>4, <2>5, ClientAssumption DEF Extremes, Believable
  <2>7. Attempted = attempts /\ Attempted' = attempts + 1 /\ attempts \in Nat /\ cost \in Nat
    BY <1>4, <2>1 DEF Attempted, ProviderReplies, Counters
  <2>8. (attempts + 1) * worst = attempts * worst + worst /\ attempts * worst \in Nat
    BY <2>2, <2>7
  <2>9. cost <= attempts * worst
    BY <2>1, <2>7 DEF Bounded, worst
  <2>10. cost' <= Attempted' * worst
    BY <2>2, <2>4, <2>6, <2>7, <2>8, <2>9
  <2>11. call' = call
    BY <1>4 DEF ProviderReplies
  <2> QED
    BY <2>2, <2>10, <2>11 DEF Bounded, worst
<1> QED
  BY <1>1, <1>2, <1>3, <1>4 DEF Next

(* At the end of a call as at any moment, its cost is within the worst.    *)
LEMMA CostIsBounded ==
    ASSUME IInv, Bounded
    PROVE  /\ cost \in Nat
           /\ where = "idle" => cost = 0
           /\ where # "idle" => call \in Calls /\ cost <= WorstOf(call)
           /\ \A c \in Calls : WorstOf(c) \in Nat
<1>1. MaxCorrections \in Nat
  BY ClientAssumption DEF ValidConfig
<1>2. \A c \in Calls : WorstOf(c) \in Nat
  BY <1>1, WorstIsANumber DEF WorstOf
<1>3. cost \in Nat /\ (where = "idle" => cost = 0)
  BY DEF IInv, Counters, Idle
<1>4. ASSUME where # "idle"
      PROVE  call \in Calls /\ cost <= WorstOf(call)
  <2> DEFINE worst == WorstAttempt(call)
  <2>1. call \in Calls /\ cost <= Attempted * worst
    BY <1>4 DEF Bounded
  <2>2. worst \in Nat
    BY <2>1, WorstIsANumber
  <2>3. Attempted \in 0..(MaxCorrections + 1)
    <3>1. CASE where = "over"
      BY <1>1, <3>1 DEF IInv, Over, Counters, Attempted
    <3>2. CASE where \in {"ready", "calling", "answered"}
      BY <1>1, <3>2 DEF IInv, Running, Counters, Attempted
    <3> QED
      BY <1>4, <3>1, <3>2 DEF IInv
  <2> HIDE DEF worst
  <2>4. Attempted * worst <= (MaxCorrections + 1) * worst
        /\ Attempted * worst \in Nat /\ (MaxCorrections + 1) * worst \in Nat
    BY <1>1, <2>2, <2>3
  <2>5. cost <= (MaxCorrections + 1) * worst
    BY <1>3, <2>1, <2>4
  <2> QED
    BY <2>1, <2>5 DEF WorstOf, worst
<1> QED
  BY <1>2, <1>3, <1>4

-----------------------------------------------------------------------------
(* What a run really costs *)

Waiting == phase = "propose" /\ proposal.state = "pending"
Replied == phase = "propose" /\ proposal.state # "pending"

(* The end of the call says what it cost.                                  *)
Priced == proposal.state = "answered" \/ proposal.details = "declared"

(* The call that is going on, and what the run may have paid so far.       *)
CallInv ==
    /\ IInv /\ Bounded
    /\ activity \in {"none", "running", "lost"}
    /\ loopSpec.maxTokens \in Nat /\ paid \in Nat
    /\ activity = "none" => where = "idle"
    /\ activity # "none" => paid <= loopSpec.maxTokens
    /\ \E c \in Calls : paid <= loopSpec.maxTokens + WorstOf(c)

(* What is counted covers what was paid, but for the last call of a run.   *)
Counting ==
    /\ phase \in {"idle", "top", "propose", "verify", "done"}
    /\ tokens \in Nat
    /\ phase = "idle" => activity = "none" /\ paid = 0 /\ tokens = 0
    /\ phase \in {"top", "verify"} =>
         activity = "none" /\ paid <= tokens /\ tokens <= loopSpec.maxTokens
    /\ Waiting => activity = "running" /\ paid <= tokens /\ tokens <= loopSpec.maxTokens
    /\ Replied =>
         /\ proposal.state \in {"answered", "failed"}
         /\ proposal.tokens \in Nat /\ tokens <= loopSpec.maxTokens
         /\ Priced => activity = "none" /\ paid <= tokens + proposal.tokens
         /\ ~Priced => proposal.details = "none"
    /\ phase = "done" /\ status # "canceled" /\ CostTold =>
         activity = "none" /\ paid <= tokens

PaidInv == CallInv /\ Counting

LEMMA CallOverStep ==
    ASSUME CallInv, CallOver, loopSpec' = loopSpec,
           activity' \in {"none", "running"},
           activity' # "none" => activity = "none" /\ paid <= loopSpec.maxTokens,
           activity = "none" \/ where = "idle" \/ paid <= loopSpec.maxTokens
    PROVE  CallInv' /\ paid' = paid + cost /\ (where = "idle" => cost = 0) /\ cost \in Nat
<1>1. /\ cost \in Nat /\ (where = "idle" => cost = 0)
      /\ where # "idle" => call \in Calls /\ cost <= WorstOf(call)
      /\ \A c \in Calls : WorstOf(c) \in Nat
  BY CostIsBounded DEF CallInv
<1>2. paid' = paid + cost /\ where' = "idle" /\ activity' \in {"none", "running", "lost"}
  BY DEF CallOver
<1>3. IInv' /\ Bounded'
  BY ClientAssumption DEF CallOver, IInv, Counters, Idle, Bounded, ValidConfig
<1>4. \E c \in Calls : paid' <= loopSpec.maxTokens + WorstOf(c)
  <2>1. CASE where = "idle"
    BY <1>1, <1>2, <2>1 DEF CallInv
  <2>2. CASE where # "idle"
    <3>1. paid <= loopSpec.maxTokens
      BY <2>2 DEF CallInv
    <3> QED
      BY <1>1, <1>2, <2>2, <3>1 DEF CallInv
  <2> QED
    BY <2>1, <2>2
<1>5. activity' # "none" => paid' <= loopSpec.maxTokens
  BY <1>1, <1>2 DEF CallInv
<1> QED
  BY <1>1, <1>2, <1>3, <1>4, <1>5 DEF CallInv

LEMMA PaidStarts == PaidInit => PaidInv
<1> SUFFICES ASSUME PaidInit PROVE PaidInv
  OBVIOUS
<1>1. IInv /\ where = "idle" /\ activity = "none" /\ paid = 0 /\ phase = "idle" /\ tokens = 0
      /\ loopSpec.maxTokens = 0
  BY InitIInv DEF PaidInit, Loop!Init, Loop!NoSpec, Init
<1>2. Bounded
  BY <1>1 DEF Bounded
<1>3. \E c \in Calls : paid <= loopSpec.maxTokens + WorstOf(c)
  <2>1. PICK c \in Calls : TRUE
    BY PaidAssumption
  <2>2. WorstOf(c) \in Nat
    BY <1>1, <1>2, CostIsBounded
  <2> QED
    BY <1>1, <2>1, <2>2
<1> QED
  BY <1>1, <1>2, <1>3 DEF PaidInv, CallInv, Counting, Waiting, Replied

(* While the loop moves, no call does.                                     *)
LEMMA CallUntouched ==
    ASSUME CallInv, UNCHANGED <<callVars, activity, paid, loopSpec>>
    PROVE  CallInv'
<1>1. UNCHANGED callVars
  OBVIOUS
<1>2. where' # "idle" => ~call'.withTools
  BY <1>1 DEF CallInv, Bounded, callVars
<1>3. IInv' /\ Bounded'
  BY <1>1, <1>2, StepIInv, BoundedStep DEF CallInv
<1> QED
  BY <1>3 DEF CallInv, callVars

LEMMA LoopCounts ==
    ASSUME PaidInv, LoopStep
    PROVE  PaidInv'
<1>1. UNCHANGED <<callVars, activity, paid>> /\ (phase' = "propose" => phase = "propose")
  BY DEF LoopStep
<1>2. CASE Loop!Begin(Budget)
  <2>1. phase = "idle" /\ activity = "none" /\ paid = 0 /\ tokens = 0 /\ where = "idle"
    BY <1>2 DEF Loop!Begin, PaidInv, Counting, CallInv
  <2>2. tokens' = 0 /\ phase' \in {"top", "done"} /\ loopSpec'.maxTokens \in Nat
    <3>1. CASE Loop!ValidSpec(Budget) /\ Budget.payloadAdmitted
      <4> DEFINE s == Loop!WithDefaults(Budget)
      <4>1. s.maxTokens = Budget.maxTokens /\ s.maxTokens \in 1..MaxRunTokens
        BY <3>1, PaidAssumption DEF Loop!ValidSpec, Loop!WithDefaults, Loop!LoopSpec
      <4> QED
        BY <1>2, <2>1, <3>1, <4>1, PaidAssumption DEF Loop!Begin, Loop!countVars
    <3>2. CASE ~(Loop!ValidSpec(Budget) /\ Budget.payloadAdmitted)
      BY <1>2, <2>1, <3>2 DEF Loop!Begin, Loop!countVars, PaidInv, CallInv
    <3> QED
      BY <3>1, <3>2
  <2>3. \E c \in Calls : paid' <= loopSpec'.maxTokens + WorstOf(c)
    <3>1. PICK c \in Calls : TRUE
      BY PaidAssumption
    <3>2. WorstOf(c) \in Nat
      BY CostIsBounded DEF PaidInv, CallInv
    <3> QED
      BY <1>1, <2>1, <2>2, <3>1, <3>2
  <2>4. IInv' /\ Bounded'
    <3>1. where' # "idle" => ~call'.withTools
      BY <1>1 DEF PaidInv, CallInv, Bounded, callVars
    <3> QED
      BY <1>1, <3>1, StepIInv, BoundedStep DEF PaidInv, CallInv
  <2>5. CallInv'
    BY <1>1, <2>1, <2>2, <2>3, <2>4 DEF CallInv, callVars
  <2>6. Counting'
    BY <1>1, <2>1, <2>2 DEF Counting, Waiting, Replied
  <2> QED
    BY <2>5, <2>6 DEF PaidInv
<1>3. CASE Loop!Workflow \/ Loop!VerifierReplies \/ Loop!Elapse \/ Loop!Cancel
  <2>1. loopSpec' = loopSpec
    BY <1>3
    DEF Loop!Workflow, Loop!OutOfBudget, Loop!Propose, Loop!ReturnCancellation,
        Loop!RefuseTokens, Loop!OverspendTokens, Loop!FailedProposal, Loop!RefuseCandidate,
        Loop!LateCandidate, Loop!Verify, Loop!Answered, Loop!FailedVerification,
        Loop!RefuseVerdict, Loop!Converge, Loop!Judge, Loop!Examined, Loop!VerifierReplies,
        Loop!Elapse, Loop!Cancel
  <2>2. CallInv'
    BY <1>1, <2>1, CallUntouched DEF PaidInv
  <2>3. CASE Loop!OutOfBudget \/ Loop!FailedVerification \/ Loop!RefuseVerdict
             \/ Loop!Converge \/ Loop!Judge
    <3>1. phase \in {"top", "verify"} /\ phase' \in {"top", "done"} /\ tokens' = tokens
      BY <2>3
      DEF Loop!OutOfBudget, Loop!FailedVerification, Loop!RefuseVerdict, Loop!Converge,
          Loop!Judge, Loop!Examined, Loop!Verified, Loop!Stop, Loop!Escalate, Loop!Again,
          Loop!countVars
    <3> QED
      BY <1>1, <2>1, <2>2, <3>1 DEF PaidInv, Counting, Waiting, Replied
  <2>4. CASE Loop!Propose
    BY <1>1, <2>4 DEF Loop!Propose
  <2>5. CASE Loop!ReturnCancellation
    BY <1>1, <2>1, <2>2, <2>5 DEF Loop!ReturnCancellation, PaidInv, Counting, Waiting, Replied
  <2>6. CASE Loop!RefuseTokens
    <3>1. phase' = "done" /\ tokens' = tokens /\ ~CostTold'
      BY <2>6
      DEF Loop!RefuseTokens, Loop!Stop, Loop!Escalate, CostTold, Loop!TokensAdmitted,
          Loop!CallTokens, Loop!Failed
    <3> QED
      BY <1>1, <2>1, <2>2, <3>1 DEF PaidInv, Counting, Waiting, Replied
  <2>7. CASE Loop!OverspendTokens \/ Loop!FailedProposal \/ Loop!RefuseCandidate
             \/ Loop!LateCandidate \/ Loop!Verify
    <3> DEFINE n == Loop!CallTokens
    <3>1. /\ Loop!Proposed /\ Loop!TokensAdmitted /\ tokens' = tokens + n
          /\ proposal' = proposal
      BY <2>7
      DEF Loop!OverspendTokens, Loop!FailedProposal, Loop!RefuseCandidate,
          Loop!LateCandidate, Loop!Verify, Loop!Answered, Loop!Counted, Loop!Spent
    <3>2. Replied /\ tokens \in Nat /\ n \in Nat
      <4>1. /\ Replied /\ tokens \in Nat /\ proposal.tokens \in Nat
            /\ proposal.state \in {"answered", "failed"}
            /\ (proposal.details \in {"none", "declared"} \/ proposal.state = "answered")
        BY <3>1 DEF Loop!Proposed, Replied, PaidInv, Counting, Priced
      <4>2. n \in {0, proposal.tokens}
        BY <4>1 DEF Loop!CallTokens, Loop!Failed
      <4> HIDE DEF n
      <4> QED
        BY <4>1, <4>2
    <3>3. Priced => activity = "none" /\ n = proposal.tokens /\ paid <= tokens + n
      BY <3>2 DEF PaidInv, Counting, Priced, Loop!CallTokens, Loop!Failed
    <3>4. phase' = "done" \/ (phase' \in {"top", "verify"} /\ Priced /\ tokens + n <= loopSpec.maxTokens)
      BY <2>7
      DEF Loop!OverspendTokens, Loop!FailedProposal, Loop!RefuseCandidate,
          Loop!LateCandidate, Loop!Verify, Loop!Answered, Loop!Stop, Loop!Escalate, Loop!Again,
          Loop!Retryable, Loop!WithinBudget, Loop!Spent, Priced, Loop!Failed, Loop!Proposed,
          PaidInv, Counting, Replied
    <3> HIDE DEF n
    <3>5. CostTold' => Priced
      BY <3>1 DEF CostTold, Priced
    <3> QED
      BY <1>1, <2>1, <2>2, <3>1, <3>2, <3>3, <3>4, <3>5
      DEF PaidInv, Counting, Waiting, Replied
  <2>8. CASE Loop!VerifierReplies \/ Loop!Elapse \/ Loop!Cancel
    <3>1. UNCHANGED <<phase, proposal, tokens, status>>
      BY <2>8
      DEF Loop!VerifierReplies, Loop!Elapse, Loop!Cancel, Loop!outVars, Loop!countVars
    <3>2. UNCHANGED <<Waiting, Replied, Priced, CostTold>>
      BY <3>1
      DEF Waiting, Replied, Priced, CostTold, Loop!TokensAdmitted, Loop!CallTokens, Loop!Failed
    <3> QED
      BY <1>1, <2>1, <2>2, <3>1, <3>2 DEF PaidInv, Counting
  <2> QED
    BY <1>3, <2>3, <2>4, <2>5, <2>6, <2>7, <2>8 DEF Loop!Workflow
<1> QED
  BY <1>2, <1>3 DEF LoopStep

(* The end of an attempt, heard by the loop.                               *)
LEMMA EndIsCounted ==
    ASSUME PaidInv, Heard, NEW p, Loop!ProposerEnds(p),
           p.state \in {"answered", "failed"}, p.tokens \in Nat,
           p.details \in {"none", "declared"}
    PROVE  /\ loopSpec' = loopSpec /\ paid <= loopSpec.maxTokens
           /\ \/ p.state = "failed" /\ p.details = "none"
              \/ activity' = "none" /\ paid' <= paid + p.tokens /\ paid' \in Int
              => Counting'
<1>1. /\ phase = "propose" /\ Waiting /\ proposal' = p
      /\ UNCHANGED <<loopSpec, phase, status, tokens>>
  BY DEF Loop!ProposerEnds, Waiting, Loop!outVars, Loop!countVars
<1>2. paid <= tokens /\ tokens <= loopSpec.maxTokens /\ tokens \in Nat /\ paid \in Nat
      /\ loopSpec.maxTokens \in Nat
  BY <1>1 DEF PaidInv, Counting, CallInv
<1>3. ~Waiting' /\ Replied' /\ (Priced' <=> p.state = "answered" \/ p.details = "declared")
  BY <1>1 DEF Waiting, Replied, Priced
<1>4. ASSUME \/ p.state = "failed" /\ p.details = "none"
             \/ activity' = "none" /\ paid' <= paid + p.tokens /\ paid' \in Int
      PROVE  Counting'
  BY <1>1, <1>2, <1>3, <1>4 DEF Counting
<1> QED
  BY <1>1, <1>2, <1>4

LEMMA PaidStep ==
    ASSUME PaidInv, [PaidNext]_paidVars
    PROVE  PaidInv'
<1>0. CallInv /\ Counting
  BY DEF PaidInv
<1>1. CASE UNCHANGED paidVars
  <2>1. CallInv'
    BY <1>0, <1>1, CallUntouched DEF paidVars, loopVars
  <2>2. UNCHANGED <<phase, proposal, tokens, status, activity, paid, loopSpec>>
    BY <1>1 DEF paidVars, loopVars
  <2>3. UNCHANGED <<Waiting, Replied, Priced, CostTold>>
    BY <2>2
    DEF Waiting, Replied, Priced, CostTold, Loop!TokensAdmitted, Loop!CallTokens, Loop!Failed
  <2>4. Counting'
    BY <1>0, <2>2, <2>3 DEF Counting
  <2> QED
    BY <2>1, <2>4 DEF PaidInv
<1>2. CASE Propose
  <2>1. phase = "top" /\ phase' = "propose" /\ proposal'.state = "pending"
        /\ UNCHANGED <<loopSpec, tokens>>
    BY <1>2 DEF Propose, Loop!Propose, Loop!countVars, Loop!NoProposal
  <2>2. activity = "none" /\ activity' = "running" /\ CallOver
        /\ paid <= tokens /\ tokens <= loopSpec.maxTokens /\ where = "idle"
        /\ paid <= loopSpec.maxTokens /\ tokens \in Nat
    BY <1>0, <1>2, <2>1 DEF Propose, Counting, CallInv
  <2>3. CallInv' /\ paid' = paid + cost /\ cost = 0
    BY <1>0, <2>1, <2>2, CallOverStep
  <2>4. paid' = paid
    BY <1>0, <2>3 DEF CallInv
  <2>5. Counting'
    BY <2>1, <2>2, <2>4 DEF Counting, Waiting, Replied
  <2> QED
    BY <2>3, <2>5 DEF PaidInv
<1>3. CASE RefuseRequest
  <2>1. Heard /\ Loop!ProposerEnds(Failure) /\ where = "idle" /\ CallOver /\ activity' = "none"
    BY <1>3 DEF RefuseRequest
  <2>2. Failure.state = "failed" /\ Failure.tokens = 0 /\ Failure.details = "none"
    BY DEF Failure, Loop!NoProposal
  <2>3. loopSpec' = loopSpec /\ Counting'
    BY <2>1, <2>2, EndIsCounted
  <2>4. CallInv'
    BY <1>0, <2>1, <2>3, CallOverStep
  <2> QED
    BY <2>3, <2>4 DEF PaidInv
<1>4. CASE ClientStep
  <2>1. [Next]_callVars /\ UNCHANGED <<loopVars, activity, paid>>
    BY <1>4 DEF ClientStep
  <2>2. IInv' /\ Bounded' /\ activity # "none"
    BY <1>0, <1>4, <2>1, StepIInv, BoundedStep DEF ClientStep, CallInv
  <2>3. UNCHANGED <<phase, proposal, tokens, status, activity, paid, loopSpec>>
    BY <2>1 DEF loopVars
  <2>4. CallInv'
    BY <1>0, <2>2, <2>3 DEF CallInv
  <2>5. UNCHANGED <<Waiting, Replied, Priced, CostTold>>
    BY <2>3
    DEF Waiting, Replied, Priced, CostTold, Loop!TokensAdmitted, Loop!CallTokens, Loop!Failed
  <2>6. Counting'
    BY <1>0, <2>3, <2>5 DEF Counting
  <2> QED
    BY <2>4, <2>6 DEF PaidInv
<1>5. CASE Return
  <2>1. PICK p \in Results : Loop!ProposerEnds(p)
    BY <1>5 DEF Return
  <2>2. Heard /\ where = "over" /\ CallOver /\ activity' = "none"
    BY <1>5 DEF Return
  <2>3. usage \in Nat /\ bound \in Nat /\ cost \in Nat
        /\ (cost <= IF outcome = "result" THEN usage ELSE bound)
    <3>1. call \in Calls /\ ~call.withTools
      BY <1>0, <2>2 DEF CallInv, Bounded
    <3>2. Untold = 0
      BY <3>1, ToolsHaveASize DEF Untold
    <3> QED
      BY <1>0, <2>2, <3>2 DEF CallInv, IInv, Counters, Over, ToldCoversCost, Told
  <2>4. /\ p.state \in {"answered", "failed"} /\ p.tokens \in Nat
        /\ p.details \in {"none", "declared"}
        /\ (p.state = "failed" /\ p.details = "none") \/ cost <= p.tokens
    <3>1. CASE outcome = "result"
      BY <2>1, <2>3, <3>1 DEF Results, Loop!NoProposal
    <3>2. CASE outcome # "result" /\ ~ctxDone /\ charged
      BY <2>1, <2>3, <3>2 DEF Results, UsageError, Failure, Loop!NoProposal
    <3>3. CASE outcome # "result" /\ (ctxDone \/ ~charged)
      BY <2>1, <2>3, <3>3 DEF Results, ContextError, Failure, Loop!NoProposal
    <3> QED
      BY <3>1, <3>2, <3>3
  <2>5. loopSpec' = loopSpec /\ paid <= loopSpec.maxTokens
    BY <2>1, <2>2, <2>4, EndIsCounted
  <2>6. CallInv' /\ paid' = paid + cost /\ paid \in Nat
    BY <1>0, <2>2, <2>5, CallOverStep DEF CallInv
  <2>7. (p.state = "failed" /\ p.details = "none")
        \/ (activity' = "none" /\ paid' <= paid + p.tokens /\ paid' \in Int)
    BY <2>2, <2>3, <2>4, <2>6
  <2>8. Counting'
    BY <2>1, <2>2, <2>4, <2>7, EndIsCounted
  <2> QED
    BY <2>6, <2>8 DEF PaidInv
<1>6. CASE ReturnUnheard
  <2>1. activity # "none" /\ ~Heard /\ where = "over" /\ CallOver /\ activity' = "none"
        /\ UNCHANGED <<phase, proposal, tokens, status, loopSpec>>
    BY <1>6 DEF ReturnUnheard, loopVars
  <2>2. CallInv'
    BY <1>0, <2>1, CallOverStep DEF CallInv
  <2>3. UNCHANGED <<Waiting, Replied, Priced, CostTold>>
    BY <2>1
    DEF Waiting, Replied, Priced, CostTold, Loop!TokensAdmitted, Loop!CallTokens, Loop!Failed
  <2>4. ~Waiting /\ (Replied => ~Priced) /\ phase \notin {"idle", "top", "verify"}
        /\ ~(phase = "done" /\ status # "canceled" /\ CostTold)
    BY <1>0, <2>1 DEF Counting, Heard, Waiting
  <2>5. Counting'
    BY <1>0, <2>1, <2>3, <2>4 DEF Counting
  <2> QED
    BY <2>2, <2>5 DEF PaidInv
<1>7. CASE Abandon
  <2>1. Heard /\ Loop!ProposerEnds(Failure) /\ activity' = "lost" /\ UNCHANGED <<callVars, paid>>
    BY <1>7 DEF Abandon
  <2>2. Failure.state = "failed" /\ Failure.tokens = 0 /\ Failure.details = "none"
    BY DEF Failure, Loop!NoProposal
  <2>3. loopSpec' = loopSpec /\ Counting' /\ paid <= loopSpec.maxTokens
    BY <2>1, <2>2, EndIsCounted
  <2>4. IInv' /\ Bounded'
    <3>1. where' # "idle" => ~call'.withTools
      BY <1>0, <2>1 DEF CallInv, Bounded, callVars
    <3> QED
      BY <1>0, <2>1, <3>1, StepIInv, BoundedStep DEF CallInv
  <2>5. CallInv'
    BY <1>0, <2>1, <2>3, <2>4 DEF CallInv
  <2> QED
    BY <2>3, <2>5 DEF PaidInv
<1> QED
  BY <1>1, <1>2, <1>3, <1>4, <1>5, <1>6, <1>7, LoopCounts DEF PaidNext

(* For every budget, call, answer and provider: what a run counts covers   *)
(* what its calls really cost whenever a call is made, and at the end if   *)
(* the last one told its cost; otherwise, whoever gave up or cancelled it, *)
(* the run cost at most its budget and one call (T10).                     *)
THEOREM SpendingIsKnownOrBounded == PaidSpec => []SpendingKnownOrBounded
<1>1. PaidInv /\ [PaidNext]_paidVars => PaidInv'
  BY PaidStep
<1>2. PaidInv => SpendingKnownOrBounded
  <2> SUFFICES ASSUME PaidInv PROVE SpendingKnownOrBounded
    OBVIOUS
  <2>1. CallsCounted
    BY DEF PaidInv, Counting, CallsCounted, Settled, Waiting
  <2>2. BudgetBoundsSpending
    <3>1. /\ cost \in Nat /\ (where = "idle" => cost = 0)
          /\ where # "idle" => call \in Calls /\ cost <= WorstOf(call)
          /\ \A c \in Calls : WorstOf(c) \in Nat
      BY CostIsBounded DEF PaidInv, CallInv
    <3>2. CASE where = "idle"
      BY <3>1, <3>2 DEF PaidInv, CallInv, BudgetBoundsSpending
    <3>3. CASE where # "idle"
      <4>1. paid <= loopSpec.maxTokens /\ paid \in Nat /\ loopSpec.maxTokens \in Nat
        BY <3>3 DEF PaidInv, CallInv
      <4>2. paid + cost <= loopSpec.maxTokens + WorstOf(call)
        BY <3>1, <3>3, <4>1
      <4> QED
        BY <3>1, <3>3, <4>2 DEF BudgetBoundsSpending
    <3> QED
      BY <3>2, <3>3
  <2> QED
    BY <2>1, <2>2 DEF SpendingKnownOrBounded
<1> QED
  BY <1>1, <1>2, PaidStarts, PTL DEF PaidSpec
=============================================================================
