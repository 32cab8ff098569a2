-------------------------- MODULE EvalsCommandProofs --------------------------
(***************************************************************************)
(* The evals command, for any trees of suites, edits of them, changed      *)
(* paths, ends of workflows and baselines: the exit code is that of the    *)
(* worst suite; a zero of it stands for suites that read the same to all,  *)
(* ran whole, did as well as their baselines and resisted what they must;  *)
(* a baseline is written from a whole run; and, when suites are named by   *)
(* their directories, every one concerned runs.                            *)
(***************************************************************************)
EXTENDS EvalsCommand, FiniteSetTheorems, SequenceTheorems, WellFoundedInduction, TLAPS

Codes == {OK, Regression, Missing, Exec}

Outcomes == {OutcomeOf(e) : e \in Ends}

Names == Dirs \cup {Suites[x].name : x \in DOMAIN Suites}

Entries == [suite: Dirs, code: Codes, from: DOMAIN Suites, outcomes: Seq(Outcomes)]

Known == [dir: Dirs, suite: Range(Suites)]

Typed ==
    /\ opts \in CommandLine
    /\ at \in {"start", "discover", "diff", "next", "load", "run", "exited"}
    /\ exit \in Codes \cup {-1, Usage}
    /\ printed \in {"nothing", "report", "document"}
    /\ DOMAIN tree \subseteq Dirs
    /\ known \in Seq(Known)
    /\ todo \in Seq(Names)
    /\ outcomes \in Seq(Outcomes)
    /\ suites \in Seq(Entries)
    /\ worst \in Codes

(* Where the command is, and what it has done by then.                     *)
InProgress ==
    /\ at = "exited" <=> exit # -1
    /\ at # "exited" => printed = "nothing"
    /\ opts = NoOptions \/ ValidCommandLine(opts)
    /\ at \in {"discover", "diff", "next"} => Many
    /\ at \in {"load", "run"} => todo # <<>> /\ ValidCommandLine(opts)
    /\ ~Many /\ at \in {"load", "run"} => todo = <<opts.suite>>
    /\ at \in {"start", "discover", "diff"} => suites = <<>> /\ worst = OK
    /\ ~Many /\ at # "exited" => suites = <<>>
    /\ at = "start" => opts = NoOptions
    /\ at = "run" =>
         /\ Current \in Dirs /\ from \in DOMAIN Suites
         /\ cases = Suites[from].cases

Stable == Typed /\ InProgress

-----------------------------------------------------------------------------
(* Induction, over sets of numbers.                                        *)
Lower == {pair \in Nat \X Nat : pair[1] < pair[2]}

LEMMA LeastNumber ==
    ASSUME NEW T, T \subseteq Nat, T # {}
    PROVE  \E least \in T : \A n \in T : least <= n
<1>1. IsWellFoundedOn(Lower, Nat)
  BY NatLessThanWellFounded DEF Lower, OpToRel
<1>2. PICK least \in T : \A n \in T : ~(<<n, least>> \in Lower)
  BY <1>1, WFMin, Zenon
<1>3. ASSUME NEW n \in T, n < least
      PROVE  FALSE
  BY <1>2, <1>3 DEF Lower
<1> QED
  BY <1>3

LEMMA SetInduction ==
    ASSUME NEW S, 0 \in S, \A n \in Nat : n \in S => n + 1 \in S
    PROVE  \A n \in Nat : n \in S
<1> DEFINE T == {n \in Nat : n \notin S}
<1> SUFFICES ASSUME T # {}
             PROVE  FALSE
  OBVIOUS
<1>1. PICK least \in T : \A n \in T : least <= n
  BY LeastNumber
<1>2. least # 0 /\ least - 1 \in Nat /\ least - 1 \notin T
  BY <1>1
<1> QED
  BY <1>1, <1>2
-----------------------------------------------------------------------------
(* The elements of a sequence that are in a set.                           *)
IsAmong(f, s, S, last) ==
    f = [n \in 0..last |->
           IF n = 0 THEN <<>>
           ELSE IF s[n] \in S THEN Append(f[n - 1], s[n]) ELSE f[n - 1]]

LEMMA AmongExists ==
    ASSUME NEW s, NEW S, NEW last \in Nat
    PROVE  \E f : IsAmong(f, s, S, last)
<1> DEFINE Step(x, n) == IF s[n] \in S THEN Append(x, s[n]) ELSE x
           Of(f, k) == f = [n \in 0..k |-> IF n = 0 THEN <<>> ELSE Step(f[n - 1], n)]
           K == {k \in Nat : \E f : Of(f, k)}
<1> HIDE DEF Step
<1>1. 0 \in K
  <2>1. Of([n \in 0..0 |-> <<>>], 0)
    OBVIOUS
  <2> QED
    BY <2>1
<1>2. ASSUME NEW k \in Nat, k \in K
      PROVE  k + 1 \in K
  <2>1. PICK f : Of(f, k)
    BY <1>2
  <2> DEFINE g == [n \in 0..(k + 1) |-> IF n = k + 1 THEN Step(f[k], k + 1) ELSE f[n]]
  <2>2. ASSUME NEW n \in 0..(k + 1)
        PROVE  g[n] = IF n = 0 THEN <<>> ELSE Step(g[n - 1], n)
    <3>1. CASE n = k + 1
      <4>1. n - 1 = k /\ n # 0 /\ g[k] = f[k] /\ g[n] = Step(f[k], k + 1)
        BY <3>1
      <4> QED
        BY <3>1, <4>1
    <3>2. CASE n # k + 1
      <4>1. n \in 0..k /\ g[n] = f[n]
        BY <3>2
      <4>2. f[n] = IF n = 0 THEN <<>> ELSE Step(f[n - 1], n)
        BY <2>1, <4>1
      <4>3. n # 0 => g[n - 1] = f[n - 1]
        BY <4>1
      <4> QED
        BY <4>1, <4>2, <4>3
    <3> QED
      BY <3>1, <3>2
  <2>3. Of(g, k + 1)
    BY <2>2
  <2> HIDE DEF g, Of
  <2> QED
    BY <2>3
<1> HIDE DEF K
<1>3. last \in K
  BY <1>1, <1>2, SetInduction
<1> QED
  BY <1>3 DEF K, Step, IsAmong

LEMMA AppendedSet ==
    ASSUME NEW T, NEW s \in Seq(T), NEW x \in T
    PROVE  /\ Append(s, x) \in Seq(T) /\ Append(s, x) # <<>>
           /\ ToSet(Append(s, x)) = ToSet(s) \cup {x}
<1>1. /\ DOMAIN s = 1..Len(s) /\ Len(s) \in Nat
      /\ DOMAIN Append(s, x) = 1..(Len(s) + 1)
      /\ \A i \in 1..Len(s) : Append(s, x)[i] = s[i]
      /\ Append(s, x)[Len(s) + 1] = x
  OBVIOUS
<1> QED
  BY <1>1 DEF ToSet

LEMMA AmongIs ==
    ASSUME NEW T, NEW s \in Seq(T), NEW S
    PROVE  Among(s, S) \in Seq(T) /\ ToSet(Among(s, S)) = ToSet(s) \cap S
<1> DEFINE F == CHOOSE f : f = [n \in 0..Len(s) |->
                     IF n = 0 THEN <<>>
                     ELSE IF s[n] \in S THEN Append(f[n - 1], s[n]) ELSE f[n - 1]]
           Upto(n) == {s[i] : i \in 1..n} \cap S
           K == {n \in Nat : n <= Len(s) => F[n] \in Seq(T) /\ ToSet(F[n]) = Upto(n)}
<1>1. Len(s) \in Nat /\ DOMAIN s = 1..Len(s)
  OBVIOUS
<1>2. \E f : f = [n \in 0..Len(s) |->
                     IF n = 0 THEN <<>>
                     ELSE IF s[n] \in S THEN Append(f[n - 1], s[n]) ELSE f[n - 1]]
  <2>1. PICK f : IsAmong(f, s, S, Len(s))
    BY <1>1, AmongExists
  <2> QED
    BY <2>1, Zenon DEF IsAmong
<1>3. F = [n \in 0..Len(s) |->
             IF n = 0 THEN <<>>
             ELSE IF s[n] \in S THEN Append(F[n - 1], s[n]) ELSE F[n - 1]]
  BY <1>2, Zenon
<1>4. Among(s, S) = F[Len(s)]
  BY Zenon DEF Among
<1> DEFINE Step(x, n) == IF s[n] \in S THEN Append(x, s[n]) ELSE x
<1>9. F = [n \in 0..Len(s) |-> IF n = 0 THEN <<>> ELSE Step(F[n - 1], n)]
  BY <1>3
<1> HIDE DEF F, Step
<1>5. 0 \in K
  <2>1. F[0] = <<>>
    BY <1>1, <1>9
  <2>2. <<>> \in Seq(T) /\ ToSet(<<>>) = {}
    BY DEF ToSet
  <2>3. 1..0 = {}
    OBVIOUS
  <2>4. Upto(0) = {}
    BY <2>3
  <2> QED
    BY <2>1, <2>2, <2>4
<1>6. ASSUME NEW n \in Nat, n \in K
      PROVE  n + 1 \in K
  <2> SUFFICES ASSUME n + 1 <= Len(s)
               PROVE  F[n + 1] \in Seq(T) /\ ToSet(F[n + 1]) = Upto(n + 1)
    OBVIOUS
  <2>1. F[n] \in Seq(T) /\ ToSet(F[n]) = Upto(n)
    BY <1>1, <1>6
  <2>2. F[n + 1] = Step(F[n], n + 1)
    BY <1>1, <1>9
  <2>3. s[n + 1] \in T
    BY <1>1
  <2>4. Upto(n + 1) = IF s[n + 1] \in S THEN Upto(n) \cup {s[n + 1]} ELSE Upto(n)
    <3>1. 1..(n + 1) = (1..n) \cup {n + 1}
      OBVIOUS
    <3> QED
      BY <3>1
  <2>5. Append(F[n], s[n + 1]) \in Seq(T)
        /\ ToSet(Append(F[n], s[n + 1])) = ToSet(F[n]) \cup {s[n + 1]}
    BY <2>1, <2>3, AppendedSet
  <2> HIDE DEF Upto
  <2>6. CASE s[n + 1] \in S
    BY <2>1, <2>2, <2>4, <2>5, <2>6 DEF Step
  <2>7. CASE s[n + 1] \notin S
    BY <2>1, <2>2, <2>4, <2>7 DEF Step
  <2> QED
    BY <2>6, <2>7
<1> HIDE DEF K
<1>7. Len(s) \in K
  BY <1>1, <1>5, <1>6, SetInduction
<1>8. F[Len(s)] \in Seq(T) /\ ToSet(F[Len(s)]) = Upto(Len(s))
  BY <1>1, <1>7 DEF K
<1> QED
  BY <1>1, <1>4, <1>8 DEF ToSet

LEMMA HeadAndTail ==
    ASSUME NEW T, NEW s \in Seq(T), s # <<>>
    PROVE  /\ Head(s) \in T /\ Tail(s) \in Seq(T)
           /\ ToSet(s) = {Head(s)} \cup ToSet(Tail(s))
<1>1. /\ Len(s) \in Nat \ {0} /\ DOMAIN s = 1..Len(s) /\ Head(s) = s[1]
  OBVIOUS
<1>2. /\ Head(s) \in T /\ Tail(s) \in Seq(T) /\ Len(Tail(s)) = Len(s) - 1
      /\ \A i \in 1..Len(Tail(s)) : Tail(s)[i] = s[i + 1]
  BY HeadTailProperties
<1> DEFINE t == Tail(s)
<1>3. DOMAIN t = 1..(Len(s) - 1) /\ \A i \in 1..(Len(s) - 1) : t[i] = s[i + 1]
  BY <1>2
<1> HIDE DEF t
<1>4. ASSUME NEW i \in 1..Len(s), i # 1
      PROVE  i - 1 \in 1..(Len(s) - 1) /\ t[i - 1] = s[i]
  BY <1>1, <1>3, <1>4
<1>5. ASSUME NEW i \in 1..(Len(s) - 1)
      PROVE  i + 1 \in 1..Len(s) /\ t[i] = s[i + 1]
  BY <1>1, <1>3
<1>6. 1 \in 1..Len(s)
  BY <1>1
<1>7. {s[i] : i \in 1..Len(s)} = {s[1]} \cup {t[i] : i \in 1..(Len(s) - 1)}
  BY <1>4, <1>5, <1>6
<1> QED
  BY <1>1, <1>2, <1>3, <1>7 DEF ToSet, t

(* The suites to run, and their names.                                     *)
LEMMA NamesAreNames ==
    ASSUME NEW s \in Seq(Known)
    PROVE  NamesOf(s) \in Seq(Names) /\ ToSet(NamesOf(s)) = {k.suite.name : k \in ToSet(s)}
<1>1. DOMAIN s = 1..Len(s) /\ Len(s) \in Nat /\ \A i \in 1..Len(s) : s[i] \in Known
  OBVIOUS
<1>2. \A k \in Known : k.suite.name \in Names
  BY DEF Known, Names, Range
<1>3. NamesOf(s) \in Seq(Names)
  BY <1>1, <1>2 DEF NamesOf
<1> QED
  BY <1>1, <1>3 DEF NamesOf, ToSet

LEMMA SelectedAreKnown ==
    ASSUME Typed, NEW paths
    PROVE  /\ SelectChanged(paths) \in Seq(Known)
           /\ ToSet(SelectChanged(paths)) =
                {k \in ToSet(known) : \E p \in paths : p.core \/ Concerns(k.suite, p)}
<1> DEFINE S == {k \in ToSet(known) : \E p \in paths : p.core \/ Concerns(k.suite, p)}
<1>1. SelectChanged(paths) = Among(known, S)
  BY DEF SelectChanged
<1>2. known \in Seq(Known)
  BY DEF Typed
<1>3. S \subseteq ToSet(known)
  OBVIOUS
<1> HIDE DEF S
<1>4. Among(known, S) \in Seq(Known) /\ ToSet(Among(known, S)) = ToSet(known) \cap S
  BY <1>2, AmongIs
<1>5. ToSet(Among(known, S)) = S
  BY <1>3, <1>4
<1> QED
  BY <1>1, <1>4, <1>5 DEF S

(* What is found: the directories visited, each with its suite.            *)
LEMMA FoundIsVisited ==
    ASSUME DOMAIN tree \subseteq Dirs
    PROVE  /\ Found(ContentsOf(tree)) \in Seq(Dirs)
           /\ ToSet(Found(ContentsOf(tree))) = Visited(ContentsOf(tree))
<1> DEFINE V == Visited(ContentsOf(tree))
<1>1. V \subseteq Dirs
  BY DEF Visited, ContentsOf
<1>2. Order \in Seq(Dirs) /\ ToSet(Order) = Dirs
  <2>1. Order \in Seq(DOMAIN Segments)
    BY EvalsAssumption
  <2> QED
    BY <2>1 DEF Dirs, ToSet
<1> HIDE DEF V
<1>3. Among(Order, V) \in Seq(Dirs) /\ ToSet(Among(Order, V)) = ToSet(Order) \cap V
  BY <1>2, AmongIs
<1> QED
  BY <1>1, <1>2, <1>3 DEF Found, V

Loaded(dirs) == [i \in DOMAIN dirs |-> [dir |-> dirs[i], suite |-> Suites[tree[dirs[i]]]]]

LEMMA DiscoveredAreKnown ==
    ASSUME DOMAIN tree \subseteq Dirs, DiscoverSuites
    PROVE  /\ known' \in Seq(Known)
           /\ {k.dir : k \in ToSet(known')} = Visited(ContentsOf(tree))
           /\ \A k, l \in ToSet(known') : k.dir = l.dir => k = l
           /\ \A k \in ToSet(known') :
                /\ <<k.dir, tree[k.dir]>> \in Loads
                /\ k.suite = Suites[tree[k.dir]]
<1> DEFINE dirs == Found(ContentsOf(tree))
           V == Visited(ContentsOf(tree))
<1>1. /\ known' = Loaded(dirs)
      /\ \A d \in ToSet(dirs) : <<d, tree[d]>> \in Loads
  BY DEF DiscoverSuites, Loaded
<1>2. dirs \in Seq(Dirs) /\ ToSet(dirs) = V
  BY FoundIsVisited
<1> HIDE DEF dirs, V
<1>3. \A x \in Loads : x[1] \in Dirs /\ x[2] \in DOMAIN Suites
  BY DEF Loads, Suites
<1>4. DOMAIN dirs = 1..Len(dirs) /\ Len(dirs) \in Nat
  BY <1>2
<1>10. \A i \in DOMAIN dirs : dirs[i] \in ToSet(dirs) /\ dirs[i] \in Dirs
  BY <1>2, <1>4 DEF ToSet
<1>11. \A x \in DOMAIN Suites : Suites[x] \in Range(Suites)
  BY DEF Range
<1>12. \A d \in ToSet(dirs) : tree[d] \in DOMAIN Suites
  BY <1>1, <1>3
<1>5. \A i \in DOMAIN dirs :
        /\ dirs[i] \in ToSet(dirs) /\ dirs[i] \in Dirs
        /\ Suites[tree[dirs[i]]] \in Range(Suites)
  BY <1>10, <1>11, <1>12
<1>6. known' \in Seq(Known)
  BY <1>1, <1>4, <1>5 DEF Loaded, Known
<1>7. ToSet(known') = {[dir |-> d, suite |-> Suites[tree[d]]] : d \in ToSet(dirs)}
  BY <1>1 DEF Loaded, ToSet
<1>8. \A k \in ToSet(known') :
        k.dir \in ToSet(dirs) /\ k = [dir |-> k.dir, suite |-> Suites[tree[k.dir]]]
  BY <1>7
<1>9. {k.dir : k \in ToSet(known')} = ToSet(dirs)
  <2>1. ASSUME NEW d \in ToSet(dirs)
        PROVE  \E k \in ToSet(known') : k.dir = d
    <3>1. [dir |-> d, suite |-> Suites[tree[d]]] \in ToSet(known')
      BY <1>7
    <3> QED
      BY <3>1
  <2> QED
    BY <1>8, <2>1
<1> QED
  BY <1>1, <1>2, <1>6, <1>8, <1>9 DEF V

-----------------------------------------------------------------------------
LEMMA StableInit == Init => Stable
<1> SUFFICES ASSUME Init
             PROVE  Stable
  OBVIOUS
<1>1. tree \in Trees /\ DOMAIN tree \subseteq Dirs
  BY EvalsAssumption DEF Init
<1>2. NoOptions \in CommandLine
  BY DEF NoOptions, CommandLine
<1>3. Typed
  <2>1. /\ opts = NoOptions /\ at = "start" /\ exit = -1 /\ printed = "nothing"
        /\ known = <<>> /\ todo = <<>> /\ outcomes = <<>> /\ suites = <<>> /\ worst = OK
    BY DEF Init
  <2>2. \A T : <<>> \in Seq(T)
    OBVIOUS
  <2> QED
    BY <1>1, <1>2, <2>1, <2>2 DEF Typed, Codes
<1>4. ~Many
  BY DEF Init, Many, NoOptions
<1>5. InProgress
  BY <1>4 DEF Init, InProgress
<1> QED
  BY <1>3, <1>5 DEF Stable

(* Once admitted, the options stay.                                        *)
LEMMA SameOptions ==
    ASSUME UNCHANGED opts
    PROVE  Many' = Many /\ Writing' = Writing
           /\ ValidCommandLine(opts)' = ValidCommandLine(opts)
  BY DEF Many, Writing, ValidCommandLine

LEMMA StartStable == ASSUME Stable, NEW c \in CommandLines, Start(c) PROVE Stable'
<1>1. UNCHANGED <<tree, known, outcomes, suites, worst, printed>> /\ at = "start"
  BY DEF Start, files, running
<1>2. CASE Exit(Usage) /\ UNCHANGED <<opts, todo>>
  <2>1. Many' = Many /\ ValidCommandLine(opts)' = ValidCommandLine(opts)
    BY <1>2, SameOptions
  <2>2. Typed'
    BY <1>1, <1>2 DEF Stable, Typed, Exit
  <2> QED
    BY <1>1, <1>2, <2>1, <2>2 DEF Stable, InProgress, Exit, Usage
<1>3. CASE /\ ValidCommandLine(c) /\ opts' = c
           /\ IF c.suite \in {"all", "changed"}
              THEN at' = "discover" /\ UNCHANGED todo
              ELSE at' = "load" /\ todo' = <<c.suite>>
           /\ UNCHANGED exit
  <2>1. c \in CommandLine
    BY EvalsAssumption
  <2>2. Many' <=> c.suite \in {"all", "changed"}
    BY <1>3 DEF Many
  <2>3. ValidCommandLine(opts)'
    BY <1>3 DEF ValidCommandLine
  <2>4. c.suite \notin {"all", "changed"} => c.suite \in Names
    BY <1>3, <2>1 DEF ValidCommandLine, CommandLine, Names
  <2>5. Typed'
    <3>1. /\ at' \in {"discover", "load"}
          /\ todo' = todo \/ (c.suite \in Names /\ todo' = <<c.suite>>)
      BY <1>3, <2>4
    <3>2. todo' \in Seq(Names)
      <4>1. todo \in Seq(Names)
        BY DEF Stable, Typed
      <4>2. \A n \in Names : <<n>> \in Seq(Names)
        OBVIOUS
      <4> QED
        BY <3>1, <4>1, <4>2
    <3> QED
      BY <1>1, <1>3, <2>1, <3>1, <3>2 DEF Stable, Typed
  <2> QED
    BY <1>1, <1>3, <2>2, <2>3, <2>5 DEF Stable, InProgress
<1> QED
  BY <1>2, <1>3 DEF Start

LEMMA DiscoverStable == ASSUME Stable, Discover PROVE Stable'
<1>1. /\ UNCHANGED <<opts, tree, outcomes, suites, worst, printed>>
      /\ at = "discover"
  BY DEF Discover, files, running
<1>2. Many' = Many /\ ValidCommandLine(opts)' = ValidCommandLine(opts)
  BY <1>1, SameOptions
<1>3. CASE Exit(Usage) /\ UNCHANGED <<known, todo>>
  <2>1. Typed'
    BY <1>1, <1>3 DEF Stable, Typed, Exit
  <2> QED
    BY <1>1, <1>2, <1>3, <2>1 DEF Stable, InProgress, Exit, Usage
<1>4. CASE DiscoverSuites /\ UNCHANGED exit
  <2>1. known' \in Seq(Known)
    BY <1>4, DiscoveredAreKnown DEF Stable, Typed
  <2>2. NamesOf(known') \in Seq(Names)
    BY <2>1, NamesAreNames
  <2>3. \/ at' = "next" /\ todo' = NamesOf(known')
        \/ at' = "diff" /\ UNCHANGED todo
    BY <1>4 DEF DiscoverSuites
  <2>4. Typed'
    BY <1>1, <1>4, <2>1, <2>2, <2>3 DEF Stable, Typed
  <2> QED
    BY <1>1, <1>2, <1>4, <2>3, <2>4 DEF Stable, InProgress
<1> QED
  BY <1>3, <1>4 DEF Discover

LEMMA DiffStable == ASSUME Stable, Diff PROVE Stable'
<1>1. /\ UNCHANGED <<opts, tree, known, outcomes, suites, worst, printed, exit>>
      /\ at = "diff" /\ at' = "next"
  BY DEF Diff, files, running
<1>2. Many' = Many /\ ValidCommandLine(opts)' = ValidCommandLine(opts)
  BY <1>1, SameOptions
<1>3. \/ todo' = NamesOf(known)
      \/ \E paths : todo' = NamesOf(SelectChanged(paths))
  BY DEF Diff, FallsBack, WholeDiff
<1>4. todo' \in Seq(Names)
  <2>1. known \in Seq(Known)
    BY DEF Stable, Typed
  <2> QED
    BY <1>3, <2>1, NamesAreNames, SelectedAreKnown DEF Stable
<1>5. Typed'
  BY <1>1, <1>4 DEF Stable, Typed
<1> QED
  BY <1>1, <1>2, <1>5 DEF Stable, InProgress

LEMMA NextSuiteStable == ASSUME Stable, NextSuite PROVE Stable'
<1>1. /\ UNCHANGED <<opts, tree, known, todo, outcomes, suites, worst, printed, exit>>
      /\ at = "next" /\ at' = "load" /\ todo # <<>>
  BY DEF NextSuite, files, running
<1>2. Many' = Many /\ ValidCommandLine(opts)' = ValidCommandLine(opts)
  BY <1>1, SameOptions
<1>3. Many /\ ValidCommandLine(opts)
  BY <1>1 DEF Stable, InProgress, Many, NoOptions
<1>4. Typed'
  BY <1>1 DEF Stable, Typed
<1> QED
  BY <1>1, <1>2, <1>3, <1>4 DEF Stable, InProgress

LEMMA LoadStable == ASSUME Stable, Load PROVE Stable'
<1>1. /\ UNCHANGED <<opts, tree, known, todo, suites, worst, printed>>
      /\ at = "load"
  BY DEF Load, files
<1>2. Many' = Many /\ ValidCommandLine(opts)' = ValidCommandLine(opts)
      /\ Current' = Current
  BY <1>1, SameOptions DEF Current
<1>3. CASE Exit(Usage) /\ UNCHANGED <<from, cases, outcomes>>
  <2>1. Typed'
    BY <1>1, <1>3 DEF Stable, Typed, Exit
  <2> QED
    BY <1>1, <1>2, <1>3, <2>1 DEF Stable, InProgress, Exit, Usage
<1>4. CASE /\ Current \in DOMAIN tree /\ <<Current, tree[Current]>> \in Loads
           /\ at' = "run" /\ from' = tree[Current]
           /\ cases' = Suites[tree[Current]].cases
           /\ outcomes' = <<>> /\ UNCHANGED exit
  <2>1. Current \in Dirs
    BY <1>4 DEF Stable, Typed
  <2>2. from' \in DOMAIN Suites
    BY <1>4 DEF Suites
  <2>3. cases' = Suites[from'].cases
    BY <1>4
  <2>4. Typed'
    BY <1>1, <1>4 DEF Stable, Typed
  <2>5. todo # <<>> /\ ValidCommandLine(opts) /\ (~Many => todo = <<opts.suite>> /\ suites = <<>>)
        /\ printed = "nothing" /\ exit = -1
    BY <1>1 DEF Stable, InProgress
  <2> QED
    BY <1>1, <1>2, <1>4, <2>1, <2>2, <2>3, <2>4, <2>5 DEF Stable, InProgress
<1> QED
  BY <1>3, <1>4 DEF Load

LEMMA RunStable == ASSUME Stable, NEW e \in Ends, Run(e) PROVE Stable'
<1>1. /\ UNCHANGED <<opts, at, tree, known, todo, from, cases, suites, worst, printed, exit>>
      /\ at = "run" /\ outcomes' = Append(outcomes, OutcomeOf(e))
  BY DEF Run, files, running
<1>2. Many' = Many /\ ValidCommandLine(opts)' = ValidCommandLine(opts)
      /\ Current' = Current
  BY <1>1, SameOptions DEF Current
<1>3. OutcomeOf(e) \in Outcomes
  BY DEF Outcomes
<1>4. outcomes' \in Seq(Outcomes)
  BY <1>1, <1>3, AppendedSet DEF Stable, Typed
<1>5. Typed'
  BY <1>1, <1>4 DEF Stable, Typed
<1> QED
  BY <1>1, <1>2, <1>5 DEF Stable, InProgress

LEMMA EndSuiteStable ==
    ASSUME Stable, at = "run", NEW code \in Codes, EndSuite(code),
           UNCHANGED <<opts, tree, known, from, cases, outcomes>>
    PROVE  Stable' /\ suites' \in Seq(Entries) /\ ToSet(suites') = ToSet(suites) \cup {Entry(code)}
<1>1. Many' = Many /\ ValidCommandLine(opts)' = ValidCommandLine(opts)
  BY SameOptions
<1>2. Entry(code) \in Entries
  BY DEF Stable, Typed, InProgress, Entry, Entries
<1>3. suites' \in Seq(Entries) /\ ToSet(suites') = ToSet(suites) \cup {Entry(code)}
  BY <1>2, AppendedSet DEF Stable, Typed, EndSuite
<1>4. todo \in Seq(Names) /\ todo # <<>> /\ Tail(todo) \in Seq(Names)
  <2>1. todo \in Seq(Names) /\ todo # <<>>
    BY DEF Stable, Typed, InProgress
  <2> QED
    BY <2>1, HeadAndTail
<1>5. CASE Many
  <2>1. /\ at' = "next" /\ todo' = Tail(todo) /\ worst' = Worse(worst, code)
        /\ UNCHANGED <<exit, printed>>
    BY <1>5 DEF EndSuite
  <2>2. worst' \in Codes
    BY <2>1 DEF Worse, Stable, Typed
  <2>3. Typed'
    BY <1>3, <1>4, <2>1, <2>2 DEF Stable, Typed
  <2> QED
    BY <1>1, <1>3, <1>5, <2>1, <2>3 DEF Stable, InProgress
<1>6. CASE ~Many
  <2>1. /\ UNCHANGED <<todo, worst>> /\ at' = "exited"
        /\ exit' \in {code, Exec} /\ printed' \in {"nothing", "report", printed}
    BY <1>6 DEF EndSuite, Emit, Exit
  <2>2. exit' \in Codes /\ exit' # -1
    BY <2>1 DEF Codes, OK, Regression, Missing, Exec
  <2>3. Typed'
    BY <1>3, <2>1, <2>2 DEF Stable, Typed
  <2> QED
    BY <1>1, <1>3, <1>6, <2>1, <2>2, <2>3 DEF Stable, InProgress
<1> QED
  BY <1>5, <1>6

LEMMA EndedStable == ASSUME Stable, FailRun \/ CompareSuite PROVE Stable'
<1> DEFINE compared == IF ReadBaseline = NoBaseline THEN Missing
                       ELSE IF Compare(ReadBaseline, Report) = {} THEN OK ELSE Regression
<1>1. Exec \in Codes /\ compared \in Codes
  BY DEF Codes
<1>2. /\ at = "run" /\ UNCHANGED <<opts, tree, known, from, cases, outcomes>>
      /\ EndSuite(Exec) \/ EndSuite(compared)
  BY DEF FailRun, CompareSuite, Ran, files, running
<1> HIDE DEF compared
<1> QED
  BY <1>1, <1>2, EndSuiteStable

LEMMA WriteStable == ASSUME Stable, RefuseBaseline \/ WriteBaseline PROVE Stable'
<1>1. /\ UNCHANGED <<opts, tree, known, todo, from, cases, outcomes, suites, worst>>
      /\ at = "run" /\ at' = "exited"
      /\ exit' \in {OK, Usage, Exec} /\ printed' \in {"nothing", "report", printed}
  BY DEF RefuseBaseline, WriteBaseline, Ran, Emit, Exit, files, running
<1>2. Many' = Many /\ ValidCommandLine(opts)' = ValidCommandLine(opts)
  BY <1>1, SameOptions
<1>3. exit' # -1 /\ Typed'
  BY <1>1 DEF Stable, Typed, Codes, OK, Usage, Exec
<1> QED
  BY <1>1, <1>2, <1>3 DEF Stable, InProgress

LEMMA FinishStable == ASSUME Stable, Finish PROVE Stable'
<1>1. /\ UNCHANGED <<opts, tree, known, todo, from, cases, outcomes, suites, worst>>
      /\ at = "next" /\ at' = "exited"
      /\ exit' \in {worst, Exec} /\ printed' \in {"nothing", "document"}
  BY DEF Finish, Emit, Exit, files, running
<1>2. Many' = Many /\ ValidCommandLine(opts)' = ValidCommandLine(opts)
  BY <1>1, SameOptions
<1>3. exit' \in Codes /\ exit' # -1
  BY <1>1 DEF Stable, Typed, Codes, OK, Regression, Missing, Exec
<1>4. Typed'
  BY <1>1, <1>3 DEF Stable, Typed
<1> QED
  BY <1>1, <1>2, <1>3, <1>4 DEF Stable, InProgress

LEMMA EditStable == ASSUME Stable, NEW d, NEW x, Edit(d, x) PROVE Stable'
<1>1. /\ UNCHANGED <<opts, at, known, todo, from, cases, outcomes, suites, worst, printed, exit>>
      /\ DOMAIN tree' = DOMAIN tree
  BY DEF Edit, running
<1>2. Many' = Many /\ ValidCommandLine(opts)' = ValidCommandLine(opts)
      /\ Current' = Current
  BY <1>1, SameOptions DEF Current
<1>3. Typed'
  BY <1>1 DEF Stable, Typed
<1> QED
  BY <1>1, <1>2, <1>3 DEF Stable, InProgress

LEMMA StutterStable == ASSUME Stable, UNCHANGED vars PROVE Stable'
  BY DEF vars, files, running, Stable, Typed, InProgress, Many, ValidCommandLine, Current

LEMMA StableNext == Stable /\ [Next]_vars => Stable'
  BY StartStable, DiscoverStable, DiffStable, NextSuiteStable, LoadStable, RunStable,
     EndedStable, WriteStable, FinishStable, EditStable, StutterStable DEF Next

(* The types of the variables, and what the command has done by then.      *)
LEMMA StaysStable == Spec => []Stable
  BY StableInit, StableNext, PTL DEF Spec

-----------------------------------------------------------------------------
(* The exit code.                                                          *)
Gravest(codes) ==
    IF Exec \in codes THEN Exec
    ELSE IF Missing \in codes THEN Missing
    ELSE IF Regression \in codes THEN Regression ELSE OK

CodesRun == {suites[i].code : i \in DOMAIN suites}

Graded ==
    /\ Many => worst = Gravest(CodesRun)
    /\ Many /\ at = "exited" =>
         \/ printed = "nothing" /\ exit \in {Usage, Exec}
         \/ printed = "document" /\ todo = <<>> /\ exit = worst

LEMMA GravestGrows ==
    ASSUME NEW codes \in SUBSET Codes, NEW code \in Codes
    PROVE  Gravest(codes \cup {code}) = Worse(Gravest(codes), code)
<1>1. /\ Rank(OK) = 0 /\ Rank(Regression) = 1 /\ Rank(Missing) = 2 /\ Rank(Exec) = 3
  BY DEF Rank, OK, Regression, Missing, Exec
<1>2. Gravest(codes) \in Codes
  BY DEF Gravest, Codes
<1>3. OK # Regression /\ OK # Missing /\ OK # Exec /\ Regression # Missing
      /\ Regression # Exec /\ Missing # Exec
  BY DEF OK, Regression, Missing, Exec
<1>4. CASE code = Exec
  BY <1>1, <1>2, <1>3, <1>4 DEF Gravest, Worse, Codes
<1>5. CASE code = Missing
  BY <1>1, <1>2, <1>3, <1>5 DEF Gravest, Worse, Codes
<1>6. CASE code = Regression
  BY <1>1, <1>2, <1>3, <1>6 DEF Gravest, Worse, Codes
<1>7. CASE code = OK
  BY <1>1, <1>2, <1>3, <1>7 DEF Gravest, Worse, Codes
<1> QED
  BY <1>4, <1>5, <1>6, <1>7 DEF Codes

LEMMA CodesGrow ==
    ASSUME Stable, at = "run", NEW code \in Codes, EndSuite(code),
           UNCHANGED <<opts, tree, known, from, cases, outcomes>>
    PROVE  CodesRun \subseteq Codes /\ CodesRun' = CodesRun \cup {code}
<1>1. suites \in Seq(Entries) /\ suites' \in Seq(Entries)
      /\ ToSet(suites') = ToSet(suites) \cup {Entry(code)}
  BY EndSuiteStable DEF Stable, Typed
<1>2. CodesRun = {e.code : e \in ToSet(suites)} /\ CodesRun' = {e.code : e \in ToSet(suites')}
  BY DEF CodesRun, ToSet
<1>3. \A e \in ToSet(suites) : e.code \in Codes
  <2>1. \A e \in ToSet(suites) : e \in Entries
    BY <1>1 DEF ToSet
  <2> QED
    BY <2>1 DEF Entries
<1>4. Entry(code).code = code
  BY DEF Entry
<1> QED
  BY <1>1, <1>2, <1>3, <1>4

LEMMA GradedEnd ==
    ASSUME Stable, Graded, at = "run", NEW code \in Codes, EndSuite(code),
           UNCHANGED <<opts, tree, known, from, cases, outcomes>>
    PROVE  Graded'
<1>1. Many' = Many
  BY SameOptions
<1>2. CASE ~Many
  BY <1>1, <1>2 DEF Graded
<1>3. CASE Many
  <2>1. at' = "next" /\ worst' = Worse(worst, code)
    BY <1>3 DEF EndSuite
  <2>2. CodesRun \subseteq Codes /\ CodesRun' = CodesRun \cup {code}
    BY CodesGrow
  <2>3. worst' = Gravest(CodesRun')
    BY <1>3, <2>1, <2>2, GravestGrows DEF Graded
  <2> QED
    BY <2>1, <2>3 DEF Graded
<1> QED
  BY <1>2, <1>3

LEMMA GradedInit == Init => Graded
<1> SUFFICES ASSUME Init
             PROVE  Graded
  OBVIOUS
<1>1. opts = NoOptions
  BY DEF Init
<1>2. ~Many
  BY <1>1 DEF Many, NoOptions
<1> QED
  BY <1>2 DEF Graded

LEMMA GradedNext == Stable /\ Graded /\ [Next]_vars => Graded'
<1> SUFFICES ASSUME Stable, Graded, [Next]_vars
             PROVE  Graded'
  OBVIOUS
<1>1. ASSUME UNCHANGED <<opts, suites, worst>>,
             \/ at' # "exited"
             \/ exit' = Usage /\ printed' = "nothing"
             \/ UNCHANGED <<at, exit, printed, todo>>
      PROVE  Graded'
  <2>1. Many' = Many /\ CodesRun' = CodesRun
    BY <1>1, SameOptions DEF CodesRun
  <2> QED
    BY <1>1, <2>1 DEF Graded
<1>2. at # "exited" => printed = "nothing"
  BY DEF Stable, InProgress
<1>3. ASSUME NEW c \in CommandLines, Start(c)
      PROVE  Graded'
  <2>1. UNCHANGED <<suites, worst, printed>> /\ at = "start"
    BY <1>3 DEF Start
  <2>2. suites = <<>> /\ worst = OK /\ ~Many
    BY <2>1 DEF Stable, InProgress, Many, NoOptions
  <2>3. CASE Exit(Usage) /\ UNCHANGED opts
    BY <2>1, <2>2, <2>3, SameOptions DEF Graded
  <2>4. CASE at' # "exited"
    <3>1. CodesRun' = {}
      BY <2>1, <2>2 DEF CodesRun
    <3> QED
      BY <2>1, <2>2, <2>4, <3>1 DEF Graded, Gravest
  <2> QED
    BY <1>3, <2>3, <2>4 DEF Start
<1>4. ASSUME Discover \/ Diff \/ NextSuite \/ Load \/ RefuseBaseline
      PROVE  Graded'
  BY <1>1, <1>2, <1>4
     DEF Discover, DiscoverSuites, Diff, NextSuite, Load, RefuseBaseline, Ran, Exit
<1>5. ASSUME NEW e \in Ends, Run(e)
      PROVE  Graded'
  BY <1>1, <1>5 DEF Run
<1>6. ASSUME FailRun \/ CompareSuite
      PROVE  Graded'
  <2>1. /\ at = "run" /\ UNCHANGED <<opts, tree, known, from, cases, outcomes>>
        /\ \E code \in Codes : EndSuite(code)
    BY <1>6 DEF FailRun, CompareSuite, Ran, files, running, Codes
  <2> QED
    BY <2>1, GradedEnd
<1>7. ASSUME WriteBaseline
      PROVE  Graded'
  <2>1. ~Many /\ UNCHANGED opts
    BY <1>7 DEF WriteBaseline, Ran, Stable, InProgress, ValidCommandLine, Writing, Many
  <2> QED
    BY <2>1, SameOptions DEF Graded
<1>8. ASSUME Finish
      PROVE  Graded'
  <2>1. Many' = Many /\ CodesRun' = CodesRun
    BY <1>8, SameOptions DEF Finish, CodesRun
  <2> QED
    BY <1>8, <2>1 DEF Graded, Finish, Emit, Exit
<1>9. ASSUME NEW d, NEW x, Edit(d, x)
      PROVE  Graded'
  BY <1>1, <1>9 DEF Edit
<1>10. CASE UNCHANGED vars
  BY <1>1, <1>10 DEF vars
<1> QED
  BY <1>3, <1>4, <1>5, <1>6, <1>7, <1>8, <1>9, <1>10 DEF Next

(* The exit code of many suites is that of the worst, and their document   *)
(* is missing only with an error of usage, or of the output (run.go: D8,   *)
(* D10).                                                                   *)
THEOREM ExitTellsTheWorst == Spec => []ExitIsWorst
<1>1. Stable /\ Graded => ExitIsWorst
  <2> SUFFICES ASSUME Stable, Graded, exit # -1, Many
               PROVE  LET codes == {suites[i].code : i \in DOMAIN suites} IN
                      CASE printed = "nothing" -> exit \in {Usage, Exec}
                        [] printed = "document" ->
                             /\ todo = <<>>
                             /\ exit = IF Exec \in codes THEN Exec
                                       ELSE IF Missing \in codes THEN Missing
                                       ELSE IF Regression \in codes THEN Regression ELSE OK
    BY DEF ExitIsWorst
  <2>1. at = "exited" /\ worst = Gravest(CodesRun)
    BY DEF Stable, InProgress, Graded
  <2>2. CASE printed = "nothing" /\ exit \in {Usage, Exec}
    BY <2>2
  <2>3. CASE printed = "document" /\ todo = <<>> /\ exit = worst
    BY <2>1, <2>3 DEF Gravest, CodesRun
  <2> QED
    BY <2>1, <2>2, <2>3 DEF Graded
<1> QED
  BY <1>1, StaysStable, GradedInit, GradedNext, PTL DEF Spec

-----------------------------------------------------------------------------
(* The baselines.                                                          *)
Stored ==
    /\ baseline = [d \in Dirs |-> baseline[d]]
    /\ ~Writing => baseline \in [Dirs -> Baseline \cup {NoBaseline, Unreadable}]

LEMMA StoredInit == Init => Stored
<1> SUFFICES ASSUME Init
             PROVE  Stored
  OBVIOUS
<1>1. baseline \in [Dirs -> Baseline \cup {NoBaseline, Unreadable}]
  BY EvalsAssumption DEF Init
<1> QED
  BY <1>1 DEF Stored

(* What writes a baseline.                                                 *)
Written(n) ==
    /\ Writing /\ ~Many /\ exit' # Usage /\ n = opts.suite /\ n \in Dirs
    /\ Len(outcomes) = Total(cases)
    /\ baseline' = [baseline EXCEPT ![n] = New]
    /\ UNCHANGED opts

LEMMA OnlyWritten ==
    ASSUME Stable, [Next]_vars
    PROVE  \/ UNCHANGED <<opts, baseline>>
           \/ \E c \in CommandLines : Start(c) /\ UNCHANGED baseline
           \/ Written(opts.suite)
<1>1. ASSUME WriteBaseline, ~UNCHANGED baseline
      PROVE  Written(opts.suite)
  <2>1. /\ at = "run" /\ Len(outcomes) = Total(cases) /\ Writing
        /\ baseline' = [baseline EXCEPT ![Current] = New]
        /\ exit' \in {OK, Exec} /\ UNCHANGED opts
    BY <1>1 DEF WriteBaseline, Ran, Aggregates, Emit, Exit
  <2>2. ValidCommandLine(opts) /\ Current \in Dirs
    BY <2>1 DEF Stable, InProgress
  <2>3. ~Many
    BY <2>1, <2>2 DEF ValidCommandLine, Writing, Many
  <2>4. Current = opts.suite
    BY <2>1, <2>3 DEF Stable, InProgress, Current
  <2> QED
    BY <2>1, <2>2, <2>3, <2>4 DEF Written, OK, Exec, Usage
<1>2. ASSUME Next, ~WriteBaseline
      PROVE  \/ UNCHANGED <<opts, baseline>>
             \/ \E c \in CommandLines : Start(c) /\ UNCHANGED baseline
  BY <1>2 DEF Next, Start, Discover, Diff, NextSuite, Load, Run, FailRun, RefuseBaseline,
              CompareSuite, Finish, Edit
<1>3. WriteBaseline => UNCHANGED opts
  BY DEF WriteBaseline
<1>4. UNCHANGED vars => UNCHANGED <<opts, baseline>>
  BY DEF vars
<1> QED
  BY <1>1, <1>2, <1>3, <1>4

LEMMA StoredNext == Stable /\ Stored /\ [Next]_vars => Stored'
<1> SUFFICES ASSUME Stable, Stored, [Next]_vars
             PROVE  Stored'
  OBVIOUS
<1>1. CASE UNCHANGED <<opts, baseline>>
  BY <1>1, SameOptions DEF Stored
<1>2. CASE \E c \in CommandLines : Start(c) /\ UNCHANGED baseline
  <2>1. at = "start"
    BY <1>2 DEF Start
  <2>2. ~Writing
    BY <2>1 DEF Stable, InProgress, Writing, NoOptions
  <2> QED
    BY <1>2, <2>2 DEF Stored
<1>3. CASE Written(opts.suite)
  <2>1. Writing' /\ baseline' = [baseline EXCEPT ![opts.suite] = New]
    BY <1>3, SameOptions DEF Written
  <2>2. baseline' = [d \in Dirs |-> baseline'[d]]
    BY <2>1 DEF Stored
  <2> QED
    BY <2>1, <2>2 DEF Stored
<1> QED
  BY <1>1, <1>2, <1>3, OnlyWritten

(* A baseline is written only when asked to, for the one suite named, and  *)
(* from a whole run of it, with no tolerance (run.go; git.go: D19).        *)
THEOREM BaselineIsOfAWholeRun == Spec => WrittenFromWholeRun
<1> DEFINE Change == baseline' # baseline =>
         LET n == opts.suite IN
         /\ Writing /\ ~Many /\ exit' # Usage
         /\ baseline' = [baseline EXCEPT ![n] = baseline'[n]]
         /\ Len(outcomes) = Total(cases)
         /\ baseline'[n].report.runs = Len(outcomes)
         /\ baseline'[n].tolerances = NoTolerance
<1>1. Stable /\ Stored /\ [Next]_vars => Change
  <2> SUFFICES ASSUME Stable, Stored, [Next]_vars, baseline' # baseline
               PROVE  LET n == opts.suite IN
                      /\ Writing /\ ~Many /\ exit' # Usage
                      /\ baseline' = [baseline EXCEPT ![n] = baseline'[n]]
                      /\ Len(outcomes) = Total(cases)
                      /\ baseline'[n].report.runs = Len(outcomes)
                      /\ baseline'[n].tolerances = NoTolerance
    OBVIOUS
  <2> DEFINE n == opts.suite
  <2>1. Written(n)
    BY OnlyWritten
  <2>2. n \in Dirs /\ baseline' = [baseline EXCEPT ![n] = New] /\ Len(outcomes) = Total(cases)
    BY <2>1 DEF Written
  <2>3. baseline'[n] = New
    BY <2>2 DEF Stored
  <2>4. New.report.runs = Total(cases) /\ New.tolerances = NoTolerance
    BY DEF New, Report, Aggregate
  <2> QED
    BY <2>1, <2>2, <2>3, <2>4 DEF Written
<1>2. Stable /\ Stored /\ [Next]_vars => [Change]_vars
  BY <1>1
<1> HIDE DEF Change
<1>3. Spec => [][Change]_vars
  BY <1>2, StaysStable, StoredInit, StoredNext, PTL DEF Spec
<1> QED
  BY <1>3, Zenon DEF WrittenFromWholeRun, Change

-----------------------------------------------------------------------------
(* The comparison of a report with its baseline.                           *)
LEMMA CompareAgrees ==
    ASSUME NEW b, NEW r, Compare(b, r) = {}
    PROVE  /\ Validate(b)
           /\ Resists(b.report, r)
           /\ NotBelow(SuccessRate(r), SuccessRate(b.report), b.tolerances.success)
<1> DEFINE base == b.report
           t == IF Validate(b) THEN b.tolerances ELSE NoTolerance
           ok == [baseline |-> Validate(b),
               identity |-> r.identity = base.identity,
               cases |-> r.cases >= base.cases /\ r.runs >= base.runs,
               injection_runs |-> r.injectionRuns >= base.injectionRuns,
               escalation_runs |-> r.escalationRuns >= base.escalationRuns,
               success_rate |->
                 NotBelow(SuccessRate(r), SuccessRate(base), t.success),
               correct_escalation_rate |->
                 NotBelow(CorrectEscalationRate(r), CorrectEscalationRate(base),
                          t.escalation),
               injection_resistance |-> Resists(base, r),
               avg_iterations |->
                 NotAbove(AvgIterations(r), AvgIterations(base), 100 * t.iterations),
               avg_tokens |->
                 100 * AvgTokens(r)[1] * AvgTokens(base)[2]
                   <= AvgTokens(base)[1] * (100 + t.tokens) * AvgTokens(r)[2]]
<1>1. {m \in DOMAIN ok : ~ok[m]} = {}
  BY Zenon DEF Compare
<1>2. {"baseline", "injection_resistance", "success_rate"} \subseteq DOMAIN ok
  OBVIOUS
<1>3. /\ ok["baseline"] = Validate(b)
      /\ ok["injection_resistance"] = Resists(b.report, r)
      /\ ok["success_rate"] = NotBelow(SuccessRate(r), SuccessRate(base), t.success)
  OBVIOUS
<1> HIDE DEF ok
<1>4. ok["baseline"] /\ ok["injection_resistance"] /\ ok["success_rate"]
  BY <1>1, <1>2
<1>5. Validate(b) /\ Resists(b.report, r) /\ NotBelow(SuccessRate(r), SuccessRate(base), t.success)
  BY <1>3, <1>4, Zenon
<1> QED
  BY <1>5

LEMMA ProductsOrder ==
    ASSUME NEW p \in Int, NEW q \in Int, NEW n \in Nat \ {0},
           100 * p * n >= (100 * q - 0 * n) * n
    PROVE  p >= q
<1>1. 100 * p * n = (100 * p) * n /\ (100 * q - 0 * n) = 100 * q
  OBVIOUS
<1>2. (100 * p) * n >= (100 * q) * n
  BY <1>1
<1>3. \A x, y \in Int : x * n >= y * n => x >= y
  <2>1. ASSUME NEW x \in Int, NEW y \in Int, x < y
        PROVE  x * n < y * n
    <3>1. (y - x) * n > 0
      BY <2>1
    <3>2. (y - x) * n = y * n - x * n
      OBVIOUS
    <3> QED
      BY <3>1, <3>2
  <2> QED
    BY <2>1
<1>4. 100 * p >= 100 * q
  BY <1>2, <1>3
<1> QED
  BY <1>4

(* What a comparison without regression says of the runs.                  *)
LEMMA GradesAgree ==
    ASSUME NEW run, NEW results, NEW T, results \in Seq(T), NEW b \in Baseline,
           Aggregates(run, results),
           Compare(b, Aggregate(Identity, run, results)) = {}
    PROVE  LET passed == Passed(run, results) IN
           /\ Len(results) = Total(run)
           /\ \A n \in DOMAIN results : IsInjection(CaseOf(run)[n]) => n \in passed
           /\ Validate(b)
           /\ b.tolerances = NoTolerance /\ b.report.runs = Len(results)
                => Cardinality(passed) >= b.report.passed
<1> DEFINE r == Aggregate(Identity, run, results)
           passed == Passed(run, results)
           injections == {n \in DOMAIN results : IsInjection(CaseOf(run)[n])}
<1>1. /\ r.runs = Total(run) /\ r.injectionRuns = Cardinality(injections)
      /\ r.passed = Cardinality(passed) /\ r.resisted = Cardinality(injections \cap passed)
  BY DEF Aggregate
<1>2. /\ Validate(b) /\ Resists(b.report, r)
      /\ NotBelow(SuccessRate(r), SuccessRate(b.report), b.tolerances.success)
  BY CompareAgrees
<1>3. Len(results) = Total(run) /\ Total(run) > 0 /\ Total(run) \in Nat
  BY DEF Aggregates
<1>4. /\ IsFiniteSet(passed) /\ Cardinality(passed) \in Nat
      /\ IsFiniteSet(injections) /\ Cardinality(injections) \in Nat
  <2>1. IsFiniteSet(DOMAIN results)
    <3>1. DOMAIN results = 1..Len(results) /\ Len(results) \in Int
      OBVIOUS
    <3> QED
      BY <3>1, FS_Interval
  <2>2. passed \in SUBSET DOMAIN results /\ injections \in SUBSET DOMAIN results
    BY DEF Passed
  <2> HIDE DEF passed, injections
  <2> QED
    BY <2>1, <2>2, FS_Subset, FS_CardinalityType
<1> HIDE DEF r
<1>5. injections \subseteq passed
  <2> DEFINE k == Cardinality(injections \cap passed)
             m == Cardinality(injections)
  <2>1. injections \cap passed \in SUBSET injections
    OBVIOUS
  <2> HIDE DEF passed, injections
  <2>2. k \in Nat /\ k <= m /\ m \in Nat /\ (m = k => injections = injections \cap passed)
    BY <1>4, <2>1, FS_Subset, FS_CardinalityType
  <2>3. m = 0 => injections = {}
    BY <1>4, FS_EmptySet
  <2> HIDE DEF k, m
  <2>4. NotBelow(Ratio(k, m), <<1, 1>>, 0)
    BY <1>1, <1>2 DEF Resists, InjectionResistance, k, m
  <2>5. m # 0 => m = k
    BY <2>2, <2>4 DEF NotBelow, Ratio
  <2> QED
    BY <2>2, <2>3, <2>5
<1>6. ASSUME b.tolerances = NoTolerance, b.report.runs = Len(results)
      PROVE  Cardinality(passed) >= b.report.passed
  <2> DEFINE p == Cardinality(passed)
             q == b.report.passed
             n == Total(run)
  <2>1. p \in Nat /\ q \in Int /\ n \in Nat \ {0}
    <3>1. q \in Int
      BY DEF Baseline
    <3> QED
      BY <1>3, <1>4, <3>1
  <2>2. SuccessRate(r) = <<p, n>> /\ SuccessRate(b.report) = <<q, n>>
    BY <1>1, <1>3, <1>6 DEF SuccessRate, Ratio
  <2>3. b.tolerances.success = 0
    BY <1>6 DEF NoTolerance
  <2> HIDE DEF p, q, n
  <2>4. NotBelow(<<p, n>>, <<q, n>>, 0)
    BY <1>2, <2>2, <2>3
  <2>5. 100 * p * n >= (100 * q - 0 * n) * n
    BY <2>4 DEF NotBelow
  <2>6. p >= q
    BY <2>1, <2>5, ProductsOrder
  <2> QED
    BY <2>6 DEF p, q
<1> QED
  BY <1>2, <1>3, <1>5, <1>6

-----------------------------------------------------------------------------
(* What the entries of the suites stand for.                               *)
Whole ==
    /\ ~Writing => \A e \in ToSet(suites) : e.code = OK => RanWhole(e)
    /\ ~Many /\ ~Writing /\ exit = OK => \A e \in ToSet(suites) : e.code = OK

LEMMA SameBaseline ==
    ASSUME UNCHANGED baseline, NEW e
    PROVE  RanWhole(e)' = RanWhole(e)
  BY DEF RanWhole

(* A suite that ends with no regression ran whole.                         *)
LEMMA EndsWhole ==
    ASSUME Stable, Stored, ~Writing, CompareSuite, Compare(ReadBaseline, Report) = {},
           ReadBaseline # NoBaseline
    PROVE  RanWhole(Entry(OK))
<1>1. /\ at = "run" /\ Aggregates(cases, outcomes)
      /\ ReadBaseline # Unreadable
  BY DEF CompareSuite, Ran
<1>2. Current \in Dirs /\ cases = Suites[from].cases /\ outcomes \in Seq(Outcomes)
  BY <1>1 DEF Stable, InProgress, Typed
<1>3. ReadBaseline \in Baseline
  BY <1>1, <1>2 DEF Stored, ReadBaseline
<1>4. LET passed == Passed(cases, outcomes) IN
      /\ Len(outcomes) = Total(cases)
      /\ \A n \in DOMAIN outcomes : IsInjection(CaseOf(cases)[n]) => n \in passed
      /\ Validate(ReadBaseline)
      /\ ReadBaseline.tolerances = NoTolerance /\ ReadBaseline.report.runs = Len(outcomes)
           => Cardinality(passed) >= ReadBaseline.report.passed
  BY <1>1, <1>2, <1>3, GradesAgree DEF Report
<1>5. /\ Entry(OK).from = from /\ Entry(OK).suite = Current /\ Entry(OK).outcomes = outcomes
  BY DEF Entry
<1> QED
  BY <1>2, <1>4, <1>5 DEF RanWhole, ReadBaseline

LEMMA WholeEnd ==
    ASSUME Stable, Stored, Whole, FailRun \/ CompareSuite
    PROVE  Whole'
<1> DEFINE compared == IF ReadBaseline = NoBaseline THEN Missing
                       ELSE IF Compare(ReadBaseline, Report) = {} THEN OK ELSE Regression
<1>1. /\ at = "run" /\ UNCHANGED <<opts, tree, known, from, cases, outcomes, baseline>>
      /\ \/ FailRun /\ EndSuite(Exec)
         \/ CompareSuite /\ EndSuite(compared)
  BY DEF FailRun, CompareSuite, Ran, files, running
<1>2. PICK code \in Codes : /\ EndSuite(code)
                            /\ code = OK => CompareSuite /\ compared = OK
  BY <1>1 DEF Codes, OK, Exec, Regression, Missing
<1>3. Many' = Many /\ Writing' = Writing
  BY <1>1, SameOptions
<1>4. ToSet(suites') = ToSet(suites) \cup {Entry(code)} /\ Entry(code).code = code
  BY <1>1, <1>2, EndSuiteStable DEF Entry
<1>5. ~Writing /\ code = OK => RanWhole(Entry(code))
  <2> SUFFICES ASSUME ~Writing, code = OK
               PROVE  RanWhole(Entry(OK))
    OBVIOUS
  <2>1. Compare(ReadBaseline, Report) = {} /\ ReadBaseline # NoBaseline
    BY <1>2 DEF OK, Missing, Regression
  <2> QED
    BY <1>2, <2>1, EndsWhole
<1>6. ~Writing' => \A e \in ToSet(suites') : e.code = OK => RanWhole(e)'
  BY <1>1, <1>3, <1>4, <1>5, SameBaseline DEF Whole
<1>7. ~Many' /\ ~Writing' /\ exit' = OK => \A e \in ToSet(suites') : e.code = OK
  <2> SUFFICES ASSUME ~Many, exit' = OK
               PROVE  \A e \in ToSet(suites') : e.code = OK
    BY <1>3
  <2>1. suites = <<>>
    BY <1>1 DEF Stable, InProgress
  <2>2. ToSet(suites) = {}
    BY <2>1 DEF ToSet
  <2>3. exit' = code \/ exit' = Exec
    BY <1>2 DEF EndSuite, Emit, Exit
  <2>4. code = OK
    BY <2>3 DEF OK, Exec
  <2> QED
    BY <1>4, <2>2, <2>4
<1> QED
  BY <1>6, <1>7 DEF Whole

LEMMA WholeInit == Init => Whole
<1> SUFFICES ASSUME Init
             PROVE  Whole
  OBVIOUS
<1>1. suites = <<>>
  BY DEF Init
<1> QED
  BY <1>1 DEF Whole, ToSet

LEMMA WholeNext == Stable /\ Stored /\ Whole /\ [Next]_vars => Whole'
<1> SUFFICES ASSUME Stable, Stored, Whole, [Next]_vars
             PROVE  Whole'
  OBVIOUS
<1>1. CASE suites = <<>> /\ UNCHANGED suites
  BY <1>1 DEF Whole, ToSet
<1>2. ASSUME UNCHANGED <<opts, suites, baseline>>,
             exit' = Usage \/ UNCHANGED exit \/ Many
      PROVE  Whole'
  <2>1. Many' = Many /\ Writing' = Writing /\ \A e : RanWhole(e)' = RanWhole(e)
    BY <1>2, SameOptions, SameBaseline
  <2>2. Usage # OK
    BY DEF Usage, OK
  <2> QED
    BY <1>2, <2>1, <2>2 DEF Whole
<1>3. ASSUME NEW c \in CommandLines, Start(c)
      PROVE  suites = <<>> /\ UNCHANGED suites
  BY <1>3 DEF Start, Stable, InProgress
<1>4. ASSUME Discover \/ Diff \/ NextSuite \/ Load \/ RefuseBaseline
      PROVE  Whole'
  BY <1>2, <1>4 DEF Discover, DiscoverSuites, Diff, NextSuite, Load, RefuseBaseline, Exit
<1>5. ASSUME NEW e \in Ends, Run(e)
      PROVE  Whole'
  BY <1>2, <1>5 DEF Run
<1>6. ASSUME WriteBaseline
      PROVE  Whole'
  <2>1. Writing /\ UNCHANGED opts
    BY <1>6 DEF WriteBaseline
  <2> QED
    BY <2>1, SameOptions DEF Whole
<1>7. ASSUME Finish
      PROVE  Whole'
  <2>1. Many
    BY <1>7 DEF Finish, Stable, InProgress
  <2> QED
    BY <1>2, <1>7, <2>1 DEF Finish
<1>8. ASSUME NEW d, NEW x, Edit(d, x)
      PROVE  Whole'
  BY <1>2, <1>8 DEF Edit
<1>9. CASE UNCHANGED vars
  BY <1>2, <1>9 DEF vars
<1> QED
  BY <1>1, <1>3, <1>4, <1>5, <1>6, <1>7, <1>8, <1>9, WholeEnd DEF Next

-----------------------------------------------------------------------------
(* A file that is loaded reads the same to everybody.                      *)

(* Of the plain scalars, those that are admitted are the same to all, or   *)
(* are timestamps, which are the same to all but YAML 1.1.                 *)
LEMMA SamePlain ==
    ASSUME NEW n, n.kind = "scalar", n.style = "plain", n.text \in DOMAIN Plain,
           NEW nulls, JsonScalar(n, nulls)
    PROVE  /\ Plain[n.text].core = Plain[n.text].program
           /\ Plain[n.text].old = Plain[n.text].program \/ IsTimestamp(n)
<1> DEFINE form == Plain[n.text].form
<1>1. Tag(n) = TagOf(form)
  BY DEF Tag
<1>2. /\ form \in Forms
      /\ form \in {"word", "integer", "decimal", "huge"} \/ n.text \in {"null", "true", "false"}
           => Plain[n.text].core = Plain[n.text].program
              /\ Plain[n.text].old = Plain[n.text].program
      /\ form = "timestamp" => Plain[n.text].core = Plain[n.text].program
  BY ReadersAssumption
<1> HIDE DEF form
<1>3. CASE form \in StrForms
  <2>1. Tag(n) = "str"
    BY <1>1, <1>3 DEF TagOf, StrForms, IntForms, FloatForms
  <2>2. NotAmbiguous(form)
    BY <2>1 DEF JsonScalar, form
  <2>3. form \in {"word", "timestamp"}
    BY <1>3, <2>2 DEF NotAmbiguous, StrForms
  <2> QED
    BY <1>2, <2>3 DEF IsTimestamp, form
<1>4. CASE form \in IntForms \cup FloatForms
  <2>1. Tag(n) \in {"int", "float"}
    BY <1>1, <1>4 DEF TagOf, StrForms, IntForms, FloatForms
  <2>2. Exact(form)
    BY <2>1 DEF JsonScalar, form
  <2> QED
    BY <1>2, <2>2 DEF Exact
<1>5. CASE form \in {"null", "boolean", "date", "merge"}
  <2>1. Tag(n) \in {"null", "bool", "timestamp", "merge"}
    BY <1>1, <1>5 DEF TagOf, StrForms, IntForms, FloatForms
  <2>2. n.text \in {"null", "true", "false"}
    BY <2>1 DEF JsonScalar
  <2> QED
    BY <1>2, <2>2
<1> QED
  BY <1>2, <1>3, <1>4, <1>5 DEF Forms

LEMMA SameScalar ==
    ASSUME NEW n, NEW zone, n.kind = "scalar", PlainNode(n, zone), SeenAsItIs(n),
           NEW r \in Readers, r # "old" \/ ~IsTimestamp(n)
    PROVE  ScalarTo(r, n, zone) = ScalarTo("program", n, zone)
<1>1. n.mark = "none" /\ JsonScalar(n, zone \in {"input", "equals"})
  BY DEF PlainNode
<1>2. ~(r = "eye" /\ zone \in {"equals", "contains"} /\ n.seen # n.text)
  BY DEF PlainNode, SeenAsItIs
<1>3. CASE n.style # "plain"
  BY <1>1, <1>2, <1>3 DEF ScalarTo
<1>4. CASE n.style = "plain"
  <2> DEFINE s == CASE r = "eye" -> "program"
                    [] r = "dateless" -> IF IsTimestamp(n) THEN "core" ELSE "old"
                    [] OTHER -> r
  <2>1. s \in {"program", "core"} \/ (s = "old" /\ ~IsTimestamp(n))
    BY DEF Readers
  <2>2. Plain[n.text][s] = Plain[n.text]["program"]
    BY <1>1, <1>4, <2>1, SamePlain DEF SeenAsItIs
  <2>3. ScalarTo(r, n, zone) = Plain[n.text][s]
    BY <1>1, <1>2, <1>4 DEF ScalarTo
  <2>4. ScalarTo("program", n, zone) = Plain[n.text]["program"]
    BY <1>1, <1>4 DEF ScalarTo
  <2> QED
    BY <2>2, <2>3, <2>4
<1> QED
  BY <1>3, <1>4

(* No key is given twice, so that none is preferred; and none merges.      *)
DistinctKeys(n) ==
    n.kind = "mapping" => IsInjective([j \in DOMAIN n.pairs |-> n.pairs[j][1].text])

LEMMA SameNode ==
    ASSUME NEW n, NEW zone, PlainNode(n, zone), SeenAsItIs(n), DistinctKeys(n),
           NEW r \in Readers, r # "old" \/ ~IsTimestamp(n), NEW read
    PROVE  ReadNode(r, read, n, zone) = ReadNode("program", read, n, zone)
<1>1. CASE n.kind = "scalar"
  BY <1>1, SameScalar DEF ReadNode
<1>2. CASE n.kind = "mapping"
  <2>1. KeptPairs(r, n.pairs) = KeptPairs("program", n.pairs)
    <3> DEFINE pairs == n.pairs
               All(q) == {i \in DOMAIN pairs : \A j \in DOMAIN pairs :
                            pairs[j][1] = pairs[i][1] =>
                              IF q = "core" THEN i <= j ELSE j <= i}
    <3>1. \A i, j \in DOMAIN pairs : pairs[j][1] = pairs[i][1] => i = j
      BY <1>2 DEF DistinctKeys, IsInjective
    <3>2. All(r) = All("program")
      <4>1. \A i \in DOMAIN pairs : i \in All(r) <=> i \in All("program")
        BY <3>1
      <4> QED
        BY <4>1
    <3> QED
      BY <3>2 DEF KeptPairs
  <2>2. ASSUME NEW p \in ToSet(n.pairs), NEW q
        PROVE  ~Merges(q, p[1])
    <3>1. Tag(p[1]) = "str"
      BY <1>2 DEF PlainNode
    <3> QED
      BY <3>1 DEF Tag, TagOf, Merges, StrForms, IntForms, FloatForms
  <2> QED
    BY <1>2, <2>1, <2>2 DEF ReadNode
<1>3. CASE n.kind = "sequence"
  BY <1>3 DEF ReadNode
<1> QED
  BY <1>1, <1>2, <1>3 DEF PlainNode, SeenAsItIs

LEMMA SameReading ==
    ASSUME NEW root,
           \A x \in PlacesOf(root) :
              PlainNode(x[1], x[2]) /\ SeenAsItIs(x[1]) /\ DistinctKeys(x[1]),
           NEW r \in Readers,
           r # "old" \/ \A x \in PlacesOf(root) : ~IsTimestamp(x[1])
    PROVE  ReadAs(r, root) = ReadAs("program", root)
<1> DEFINE P == PlacesOf(root)
           Read(q) == CHOOSE f : f = [x \in P |-> ReadNode(q, f, x[1], x[2])]
<1>1. \A q : ReadAs(q, root) = Read(q)[<<root, "typed">>]
  BY Zenon DEF ReadAs
<1>2. \A f : [x \in P |-> ReadNode(r, f, x[1], x[2])]
               = [x \in P |-> ReadNode("program", f, x[1], x[2])]
  BY SameNode
<1>3. \A f : (f = [x \in P |-> ReadNode(r, f, x[1], x[2])])
               <=> (f = [x \in P |-> ReadNode("program", f, x[1], x[2])])
  BY <1>2
<1>4. Read(r) = Read("program")
  BY <1>3, Zenon
<1> HIDE DEF Read
<1> QED
  BY <1>1, <1>4

LEMMA FileIsReadAlike ==
    ASSUME NEW f, ReadsFile(f),
           \A i \in 1..Len(f.docs) : \A n \in PlacesOf(f.docs[i]) : SeenAsItIs(n[1])
    PROVE  ReadAlike(f)
<1>1. Len(f.docs) = 1 /\ ~f.directive
  BY DEF ReadsFile
<1>2. \A x \in PlacesOf(f.docs[1]) :
        PlainNode(x[1], x[2]) /\ SeenAsItIs(x[1]) /\ DistinctKeys(x[1])
  <2>1. PlainDocument(f.docs[1])
    BY DEF ReadsFile
  <2>2. \A x \in PlacesOf(f.docs[1]) : DistinctKeys(x[1])
    BY DEF ReadsFile, DistinctKeys
  <2>3. 1 \in 1..Len(f.docs)
    BY <1>1
  <2> QED
    BY <2>1, <2>2, <2>3 DEF PlainDocument
<1>3. ASSUME NEW r \in Readers, r # "old" \/ ~Dated(f)
      PROVE  FileTo(r, f) = FileTo("program", f)
  <2>0. r # "old" \/ \A x \in PlacesOf(f.docs[1]) : ~IsTimestamp(x[1])
    BY <1>1, <1>3 DEF Dated
  <2>1. ReadAs(r, f.docs[1]) = ReadAs("program", f.docs[1])
    BY <1>2, <2>0, SameReading
  <2>2. FileTo(r, f) = ReadAs(r, f.docs[1]) /\ FileTo("program", f) = ReadAs("program", f.docs[1])
    BY <1>1 DEF FileTo
  <2> QED
    BY <2>1, <2>2
<1> QED
  BY <1>3 DEF ReadAlike

LEMMA SuitesAreAlike == DOMAIN Suites \subseteq Alike
<1> SUFFICES ASSUME NEW x \in DOMAIN Suites
             PROVE  x \in Alike
  OBVIOUS
<1>1. PICK y \in Loads : x = y[2]
  BY DEF Suites
<1>2. x \in DOMAIN Contents /\ LoadsSuite(y[1], Contents[x])
  BY <1>1 DEF Loads
<1>3. ASSUME NEW f \in {Contents[x].suite} \cup Range(Contents[x].cases), ReadsFile(f)
      PROVE  ReadAlike(f)
  <2>1. f.admitted
    BY <1>3 DEF ReadsFile
  <2>2. \A i \in 1..Len(f.docs) : \A n \in PlacesOf(f.docs[i]) : SeenAsItIs(n[1])
    BY <1>2, <2>1, EvalsAssumption
  <2> QED
    BY <1>3, <2>2, FileIsReadAlike
<1>4. ReadAlike(Contents[x].suite)
  BY <1>2, <1>3 DEF LoadsSuite, DecodesSuite
<1>5. ASSUME NEW id \in DOMAIN Contents[x].cases
      PROVE  ReadAlike(Contents[x].cases[id])
  <2>1. Contents[x].cases[id] \in Range(Contents[x].cases)
    BY DEF Range
  <2>2. ReadsFile(Contents[x].cases[id])
    BY <1>2 DEF LoadsSuite, DecodesCase
  <2> QED
    BY <1>3, <2>1, <2>2
<1> QED
  BY <1>4, <1>5 DEF Alike

-----------------------------------------------------------------------------
(* Where a path leads, by its steps and by the ways to the values.         *)
SelectedTo(f, v, steps, k) ==
    f = [n \in 0..k |->
           IF n = 0 THEN {v} ELSE UNION {Select(x, steps[n]) : x \in f[n - 1]}]

LocatedTo(f, v, k) ==
    f = [n \in 0..k |-> IF n = 0 THEN {<<<<>>, v>>} ELSE UNION {Further(p) : p \in f[n - 1]}]

LEMMA SelectionExists ==
    ASSUME NEW v, NEW steps, NEW len \in Nat
    PROVE  \E f : SelectedTo(f, v, steps, len)
<1> DEFINE Step(X, n) == UNION {Select(x, steps[n]) : x \in X}
           Of(f, k) == f = [n \in 0..k |-> IF n = 0 THEN {v} ELSE Step(f[n - 1], n)]
           K == {k \in Nat : \E f : Of(f, k)}
<1> HIDE DEF Step
<1>1. 0 \in K
  <2>1. Of([n \in 0..0 |-> {v}], 0)
    OBVIOUS
  <2> QED
    BY <2>1
<1>2. ASSUME NEW k \in Nat, k \in K
      PROVE  k + 1 \in K
  <2>1. PICK f : Of(f, k)
    BY <1>2
  <2> DEFINE g == [n \in 0..(k + 1) |-> IF n = k + 1 THEN Step(f[k], k + 1) ELSE f[n]]
  <2>2. ASSUME NEW n \in 0..(k + 1)
        PROVE  g[n] = IF n = 0 THEN {v} ELSE Step(g[n - 1], n)
    <3>1. CASE n = k + 1
      <4>1. n - 1 = k /\ n # 0 /\ g[k] = f[k] /\ g[n] = Step(f[k], k + 1)
        BY <3>1
      <4> QED
        BY <3>1, <4>1
    <3>2. CASE n # k + 1
      <4>1. n \in 0..k /\ g[n] = f[n]
        BY <3>2
      <4>2. f[n] = IF n = 0 THEN {v} ELSE Step(f[n - 1], n)
        BY <2>1, <4>1
      <4>3. n # 0 => g[n - 1] = f[n - 1]
        BY <4>1
      <4> QED
        BY <4>1, <4>2, <4>3
    <3> QED
      BY <3>1, <3>2
  <2>3. Of(g, k + 1)
    BY <2>2
  <2> HIDE DEF g, Of
  <2> QED
    BY <2>3
<1> HIDE DEF K
<1>3. len \in K
  BY <1>1, <1>2, SetInduction
<1> QED
  BY <1>3 DEF K, Step, SelectedTo

LEMMA LocationExists ==
    ASSUME NEW v, NEW len \in Nat
    PROVE  \E f : LocatedTo(f, v, len)
<1> DEFINE Step(X) == UNION {Further(p) : p \in X}
           Of(f, k) == f = [n \in 0..k |-> IF n = 0 THEN {<<<<>>, v>>} ELSE Step(f[n - 1])]
           K == {k \in Nat : \E f : Of(f, k)}
<1> HIDE DEF Step
<1>1. 0 \in K
  <2>1. Of([n \in 0..0 |-> {<<<<>>, v>>}], 0)
    OBVIOUS
  <2> QED
    BY <2>1
<1>2. ASSUME NEW k \in Nat, k \in K
      PROVE  k + 1 \in K
  <2>1. PICK f : Of(f, k)
    BY <1>2
  <2> DEFINE g == [n \in 0..(k + 1) |-> IF n = k + 1 THEN Step(f[k]) ELSE f[n]]
  <2>2. ASSUME NEW n \in 0..(k + 1)
        PROVE  g[n] = IF n = 0 THEN {<<<<>>, v>>} ELSE Step(g[n - 1])
    <3>1. CASE n = k + 1
      <4>1. n - 1 = k /\ n # 0 /\ g[k] = f[k] /\ g[n] = Step(f[k])
        BY <3>1
      <4> QED
        BY <3>1, <4>1
    <3>2. CASE n # k + 1
      <4>1. n \in 0..k /\ g[n] = f[n]
        BY <3>2
      <4>2. f[n] = IF n = 0 THEN {<<<<>>, v>>} ELSE Step(f[n - 1])
        BY <2>1, <4>1
      <4>3. n # 0 => g[n - 1] = f[n - 1]
        BY <4>1
      <4> QED
        BY <4>1, <4>2, <4>3
    <3> QED
      BY <3>1, <3>2
  <2>3. Of(g, k + 1)
    BY <2>2
  <2> HIDE DEF g, Of
  <2> QED
    BY <2>3
<1> HIDE DEF K
<1>3. len \in K
  BY <1>1, <1>2, SetInduction
<1> QED
  BY <1>3 DEF K, Step, LocatedTo

(* The two of them go the same steps.                                      *)
LEMMA StepsAreTaken ==
    ASSUME NEW v, NEW path, ParsesPath(path)
    PROVE  \E S, L : /\ SelectedTo(S, v, PathParts[path], Len(PathParts[path]))
                     /\ SelectPath(v, path) = S[Len(PathParts[path])]
                     /\ LocatedTo(L, v, MaxSteps)
                     /\ Located(v) = UNION {L[n] : n \in 0..MaxSteps}
<1> DEFINE steps == PathParts[path]
           S == CHOOSE f : f = [n \in 0..Len(steps) |->
                  IF n = 0 THEN {v} ELSE UNION {Select(x, steps[n]) : x \in f[n - 1]}]
           L == CHOOSE f : f = [n \in 0..MaxSteps |->
                  IF n = 0 THEN {<<<<>>, v>>} ELSE UNION {Further(p) : p \in f[n - 1]}]
<1>1. MaxSteps \in Nat /\ Len(steps) \in Nat
  BY EvalsAssumption DEF ParsesPath
<1>2. SelectPath(v, path) = S[Len(steps)]
  BY Zenon DEF SelectPath
<1>3. Located(v) = UNION {L[n] : n \in 0..MaxSteps}
  BY Zenon DEF Located
<1>4. SelectedTo(S, v, steps, Len(steps))
  <2>1. \E f : SelectedTo(f, v, steps, Len(steps))
    BY <1>1, SelectionExists
  <2> QED
    BY <2>1, Zenon DEF SelectedTo
<1>5. LocatedTo(L, v, MaxSteps)
  <2>1. \E f : LocatedTo(f, v, MaxSteps)
    BY <1>1, LocationExists
  <2> QED
    BY <2>1, Zenon DEF LocatedTo
<1> HIDE DEF S, L
<1> QED
  BY <1>2, <1>3, <1>4, <1>5

(* One step further, in the values and in the ways.                        *)
LEMMA FurtherSelects ==
    ASSUME NEW q
    PROVE  /\ \A p \in Further(q) : \E s \in {AnyItem} \cup Keys(q[2]) :
                \E x \in Select(q[2], s) : p = <<Append(q[1], s), x>>
           /\ \A s : \A x \in Select(q[2], s) : <<Append(q[1], s), x>> \in Further(q)
<1>1. ASSUME NEW p \in Further(q)
      PROVE  \E s \in {AnyItem} \cup Keys(q[2]) :
                \E x \in Select(q[2], s) : p = <<Append(q[1], s), x>>
  <2>1. CASE \E x \in IF q[2].kind = "array" THEN ToSet(q[2].items) ELSE {} :
                p = <<Append(q[1], AnyItem), x>>
    BY <2>1 DEF Select
  <2>2. CASE \E k \in Keys(q[2]) \ {AnyItem} : p = <<Append(q[1], k), At(q[2], k)>>
    BY <2>2 DEF Select, Has
  <2> QED
    BY <2>1, <2>2 DEF Further
<1>2. ASSUME NEW s, NEW x \in Select(q[2], s)
      PROVE  <<Append(q[1], s), x>> \in Further(q)
  BY DEF Further, Select, Has
<1> QED
  BY <1>1, <1>2

(* A path selects the values that it is the way to.                        *)
LEMMA PathIsTheWay ==
    ASSUME NEW v, NEW path, ParsesPath(path)
    PROVE  /\ \A p \in Located(v) : p[1] = PathParts[path] => p[2] \in SelectPath(v, path)
           /\ \A w \in SelectPath(v, path) :
                \E p \in Located(v) : p[1] = PathParts[path] /\ p[2] = w
<1> DEFINE steps == PathParts[path]
           len == Len(steps)
<1>1. /\ steps \in Seq(STRING) /\ len \in Nat /\ MaxSteps \in Nat /\ len <= MaxSteps
  BY EvalsAssumption DEF ParsesPath
<1>2. PICK S, L : /\ SelectedTo(S, v, steps, len)
                  /\ SelectPath(v, path) = S[len]
                  /\ LocatedTo(L, v, MaxSteps)
                  /\ Located(v) = UNION {L[n] : n \in 0..MaxSteps}
  BY StepsAreTaken
<1> HIDE DEF steps, len
<1>3. S[0] = {v} /\ L[0] = {<<<<>>, v>>}
  BY <1>1, <1>2 DEF SelectedTo, LocatedTo
<1>4. ASSUME NEW n \in Nat, n + 1 <= len
      PROVE  S[n + 1] = UNION {Select(x, steps[n + 1]) : x \in S[n]}
  <2>1. n + 1 \in 0..len /\ n + 1 # 0 /\ (n + 1) - 1 = n
    BY <1>1, <1>4
  <2> QED
    BY <1>2, <2>1 DEF SelectedTo
<1>5. ASSUME NEW n \in Nat, n + 1 <= MaxSteps
      PROVE  L[n + 1] = UNION {Further(p) : p \in L[n]}
  <2>1. n + 1 \in 0..MaxSteps /\ n + 1 # 0 /\ (n + 1) - 1 = n
    BY <1>1, <1>5
  <2> QED
    BY <1>2, <2>1 DEF LocatedTo
<1> DEFINE T == STRING \cup {AnyItem} \cup UNION {Keys(p[2]) : p \in Located(v)}
<1>6. /\ steps \in Seq(T) /\ AnyItem \in T
      /\ \A n \in 0..MaxSteps : \A q \in L[n] :
           q \in Located(v) /\ {AnyItem} \cup Keys(q[2]) \subseteq T
  <2>1. STRING \subseteq T
    OBVIOUS
  <2>2. \A q \in Located(v) : Keys(q[2]) \subseteq T
    OBVIOUS
  <2>3. AnyItem \in T
    OBVIOUS
  <2> HIDE DEF T
  <2>4. steps \in Seq(T)
    <3>1. /\ Len(steps) \in Nat /\ steps = [i \in 1..Len(steps) |-> steps[i]]
          /\ \A i \in 1..Len(steps) : steps[i] \in STRING
      BY <1>1
    <3>2. steps \in [1..Len(steps) -> T]
      BY <2>1, <3>1
    <3> QED
      BY <3>1, <3>2, SeqDef
  <2>5. \A n \in 0..MaxSteps : L[n] \subseteq Located(v)
    BY <1>2
  <2> QED
    BY <2>2, <2>3, <2>4, <2>5
<1> HIDE DEF T
<1> DEFINE Ways(n) == n <= MaxSteps => \A p \in L[n] : p[1] \in Seq(T) /\ Len(p[1]) = n
           K == {n \in Nat : Ways(n)}
<1>7. 0 \in K
  <2>1. <<>> \in Seq(T) /\ Len(<<>>) = 0
    OBVIOUS
  <2>2. \A p \in L[0] : p[1] = <<>>
    BY <1>3
  <2>3. Ways(0)
    BY <2>1, <2>2
  <2> QED
    BY <2>3
<1>8. ASSUME NEW n \in Nat, n \in K
      PROVE  n + 1 \in K
  <2> SUFFICES ASSUME n + 1 <= MaxSteps, NEW p \in L[n + 1]
               PROVE  p[1] \in Seq(T) /\ Len(p[1]) = n + 1
    OBVIOUS
  <2>1. PICK q \in L[n] : p \in Further(q)
    BY <1>5
  <2>2. /\ q[1] \in Seq(T) /\ Len(q[1]) = n
        /\ {AnyItem} \cup Keys(q[2]) \subseteq T
    <3>1. n \in 0..MaxSteps /\ n <= MaxSteps
      BY <1>1
    <3> QED
      BY <1>6, <1>8, <3>1
  <2>3. PICK s \in {AnyItem} \cup Keys(q[2]) :
           \E x \in Select(q[2], s) : p = <<Append(q[1], s), x>>
    BY <2>1, FurtherSelects
  <2>4. p[1] = Append(q[1], s) /\ s \in T
    BY <2>2, <2>3
  <2> QED
    BY <2>2, <2>4
<1>9. \A n \in Nat : Ways(n)
  <2>1. \A n \in Nat : n \in K
    <3> HIDE DEF K
    <3> QED
      BY <1>7, <1>8, SetInduction
  <2> QED
    BY <2>1
<1> DEFINE Along(p, n) == \A i \in 1..n : p[1][i] = steps[i]
           Reached(n) == n <= len => \A p \in L[n] : Along(p, n) => p[2] \in S[n]
           Led(n) == n <= len => \A w \in S[n] : \E p \in L[n] : p[2] = w /\ Along(p, n)
           M == {n \in Nat : Reached(n) /\ Led(n)}
<1>10. 0 \in M
  <2>1. \A p \in L[0] : p[2] \in S[0]
    BY <1>3
  <2>2. \A w \in S[0] : <<<<>>, w>> \in L[0]
    BY <1>3
  <2>3. \A p : Along(p, 0)
    OBVIOUS
  <2> HIDE DEF Along
  <2> QED
    BY <2>1, <2>2, <2>3
<1>11. ASSUME NEW n \in Nat, n \in M
       PROVE  n + 1 \in M
  <2> SUFFICES ASSUME n + 1 <= len
               PROVE  Reached(n + 1) /\ Led(n + 1)
    OBVIOUS
  <2>1. /\ n + 1 <= MaxSteps /\ n <= MaxSteps /\ n <= len
        /\ 1..(n + 1) = (1..n) \cup {n + 1}
    BY <1>1
  <2>2. /\ L[n + 1] = UNION {Further(p) : p \in L[n]}
        /\ S[n + 1] = UNION {Select(x, steps[n + 1]) : x \in S[n]}
    BY <1>4, <1>5, <2>1
  <2>3. ASSUME NEW q \in L[n], NEW s \in T, NEW x
        PROVE  Along(<<Append(q[1], s), x>>, n + 1) <=> Along(q, n) /\ s = steps[n + 1]
    <3>1. q[1] \in Seq(T) /\ Len(q[1]) = n
      BY <1>9, <2>1
    <3>2. /\ \A i \in 1..n : Append(q[1], s)[i] = q[1][i]
          /\ Append(q[1], s)[n + 1] = s
      BY <3>1
    <3> QED
      BY <2>1, <3>2
  <2>4. \A q \in L[n] : {AnyItem} \cup Keys(q[2]) \subseteq T
    BY <1>6, <2>1
  <2>5. steps[n + 1] \in T
    BY <1>6, <2>1, ElementOfSeq DEF len
  <2>6. ASSUME NEW p \in L[n + 1], Along(p, n + 1)
        PROVE  p[2] \in S[n + 1]
    <3>1. PICK q \in L[n] : p \in Further(q)
      BY <2>2
    <3>2. PICK s \in {AnyItem} \cup Keys(q[2]) :
             \E x \in Select(q[2], s) : p = <<Append(q[1], s), x>>
      BY <3>1, FurtherSelects
    <3>3. PICK x \in Select(q[2], s) : p = <<Append(q[1], s), x>>
      BY <3>2
    <3>4. s \in T
      BY <2>4
    <3> HIDE DEF Along
    <3>5. Along(q, n) /\ s = steps[n + 1]
      BY <2>3, <2>6, <3>3, <3>4
    <3>6. q[2] \in S[n]
      BY <1>11, <2>1, <3>5
    <3> QED
      BY <2>2, <3>3, <3>5, <3>6
  <2>7. ASSUME NEW w \in S[n + 1]
        PROVE  \E p \in L[n + 1] : p[2] = w /\ Along(p, n + 1)
    <3>1. PICK x \in S[n] : w \in Select(x, steps[n + 1])
      BY <2>2
    <3>2. PICK q \in L[n] : q[2] = x /\ Along(q, n)
      BY <1>11, <2>1
    <3> DEFINE p == <<Append(q[1], steps[n + 1]), w>>
    <3>3. p \in Further(q)
      BY <3>1, <3>2, FurtherSelects
    <3> HIDE DEF Along
    <3>4. Along(p, n + 1)
      BY <2>3, <2>5, <3>2
    <3> QED
      BY <2>2, <3>3, <3>4
  <2> QED
    BY <2>6, <2>7
<1>12. Reached(len) /\ Led(len) /\ Ways(len)
  <2>1. \A n \in Nat : n \in M
    <3> HIDE DEF M
    <3> QED
      BY <1>10, <1>11, SetInduction
  <2> QED
    BY <1>1, <1>9, <2>1
<1> HIDE DEF K, M
<1>13. ASSUME NEW p \in Located(v), p[1] = steps
       PROVE  p[2] \in SelectPath(v, path)
  <2>1. PICK n \in 0..MaxSteps : p \in L[n]
    BY <1>2
  <2>2. n \in Nat /\ n <= MaxSteps
    BY <1>1
  <2>3. Len(p[1]) = n
    BY <1>9, <2>1, <2>2
  <2>4. n = len
    BY <1>13, <2>3 DEF len
  <2> QED
    BY <1>1, <1>2, <1>12, <1>13, <2>1, <2>4
<1>14. ASSUME NEW w \in SelectPath(v, path)
       PROVE  \E p \in Located(v) : p[1] = steps /\ p[2] = w
  <2>1. PICK p \in L[len] : p[2] = w /\ Along(p, len)
    BY <1>1, <1>2, <1>12
  <2>2. p[1] \in Seq(T) /\ Len(p[1]) = len /\ p \in Located(v)
    BY <1>1, <1>6, <1>12
  <2>3. steps \in Seq(T) /\ Len(steps) = len
    BY <1>6 DEF len
  <2>4. p[1] = steps
    BY <2>1, <2>2, <2>3, SeqEqual
  <2> QED
    BY <2>1, <2>2, <2>4
<1> QED
  BY <1>13, <1>14 DEF steps

-----------------------------------------------------------------------------
(* What passes does what its case demands.                                 *)
LEMMA PassedIsResisted ==
    ASSUME NEW c, ValidCase(c), NEW o, Pass(c, o)
    PROVE  Resisted(c, o)
<1>1. o.err = {} /\ AsExpected(c, o) /\ OutputHolds(c.expect, o.output)
  BY DEF Pass
<1>2. ASSUME NEW pc \in PathChecks(c.expect)
      PROVE  /\ Admits(o.output)
             /\ Meets(pc, o.output) <=>
                  \E p \in Located(o.output) :
                     p[1] = PathParts[pc.path] /\ Agrees(pc, p[2])
  <2>1. ParsesPath(pc.path)
    BY DEF ValidCase, ValidCheck
  <2>2. Admits(o.output)
    BY <1>1 DEF OutputHolds
  <2> QED
    BY <2>1, <2>2, PathIsTheWay DEF Meets
<1>3. /\ \A pc \in ToSet(c.expect.mustInclude) : Meets(pc, o.output)
      /\ \A pc \in ToSet(c.expect.mustNotInclude) : ~Meets(pc, o.output)
  BY <1>1 DEF OutputHolds, PathChecks
<1> QED
  BY <1>1, <1>2, <1>3 DEF Resisted, PathChecks

-----------------------------------------------------------------------------
(* The runs of a suite: each case as often as it says.                     *)
TotalTo(f, run, k) == f = [n \in 0..k |-> IF n = 0 THEN 0 ELSE f[n - 1] + run[n].runs]

LEMMA TotalExists ==
    ASSUME NEW run, NEW len \in Nat
    PROVE  \E f : TotalTo(f, run, len)
<1> DEFINE Step(x, n) == x + run[n].runs
           Of(f, k) == f = [n \in 0..k |-> IF n = 0 THEN 0 ELSE Step(f[n - 1], n)]
           K == {k \in Nat : \E f : Of(f, k)}
<1> HIDE DEF Step
<1>1. 0 \in K
  <2>1. Of([n \in 0..0 |-> 0], 0)
    OBVIOUS
  <2> QED
    BY <2>1
<1>2. ASSUME NEW k \in Nat, k \in K
      PROVE  k + 1 \in K
  <2>1. PICK f : Of(f, k)
    BY <1>2
  <2> DEFINE g == [n \in 0..(k + 1) |-> IF n = k + 1 THEN Step(f[k], k + 1) ELSE f[n]]
  <2>2. ASSUME NEW n \in 0..(k + 1)
        PROVE  g[n] = IF n = 0 THEN 0 ELSE Step(g[n - 1], n)
    <3>1. CASE n = k + 1
      <4>1. n - 1 = k /\ n # 0 /\ g[k] = f[k] /\ g[n] = Step(f[k], k + 1)
        BY <3>1
      <4> QED
        BY <3>1, <4>1
    <3>2. CASE n # k + 1
      <4>1. n \in 0..k /\ g[n] = f[n]
        BY <3>2
      <4>2. f[n] = IF n = 0 THEN 0 ELSE Step(f[n - 1], n)
        BY <2>1, <4>1
      <4>3. n # 0 => g[n - 1] = f[n - 1]
        BY <4>1
      <4> QED
        BY <4>1, <4>2, <4>3
    <3> QED
      BY <3>1, <3>2
  <2>3. Of(g, k + 1)
    BY <2>2
  <2> HIDE DEF g, Of
  <2> QED
    BY <2>3
<1> HIDE DEF K
<1>3. len \in K
  BY <1>1, <1>2, SetInduction
<1> QED
  BY <1>3 DEF K, Step, TotalTo

LEMMA TotalIsTheSum ==
    ASSUME NEW run, Len(run) \in Nat
    PROVE  \E f : TotalTo(f, run, Len(run)) /\ Total(run) = f[Len(run)]
<1> DEFINE f == CHOOSE g : g = [n \in 0..Len(run) |->
                  IF n = 0 THEN 0 ELSE g[n - 1] + run[n].runs]
<1>1. Total(run) = f[Len(run)]
  BY Zenon DEF Total
<1>2. TotalTo(f, run, Len(run))
  <2>1. \E g : TotalTo(g, run, Len(run))
    BY TotalExists
  <2> QED
    BY <2>1, Zenon DEF TotalTo
<1> HIDE DEF f
<1> QED
  BY <1>1, <1>2

FlatTo(f, ss, k) == f = [i \in 1..k |-> IF i = 1 THEN ss[i] ELSE f[i - 1] \o ss[i]]

LEMMA FlatExists ==
    ASSUME NEW ss, NEW len \in Nat
    PROVE  \E f : FlatTo(f, ss, len + 1)
<1> DEFINE Step(x, n) == x \o ss[n]
           Of(f, k) == f = [n \in 1..(k + 1) |-> IF n = 1 THEN ss[n] ELSE Step(f[n - 1], n)]
           K == {k \in Nat : \E f : Of(f, k)}
<1> HIDE DEF Step
<1>1. 0 \in K
  <2>1. Of([n \in 1..(0 + 1) |-> ss[1]], 0)
    OBVIOUS
  <2> QED
    BY <2>1
<1>2. ASSUME NEW k \in Nat, k \in K
      PROVE  k + 1 \in K
  <2>1. PICK f : Of(f, k)
    BY <1>2
  <2> DEFINE m == k + 1
             g == [n \in 1..(m + 1) |-> IF n = m + 1 THEN Step(f[m], m + 1) ELSE f[n]]
  <2>2. ASSUME NEW n \in 1..(m + 1)
        PROVE  g[n] = IF n = 1 THEN ss[n] ELSE Step(g[n - 1], n)
    <3>1. CASE n = m + 1
      <4>1. n - 1 = m /\ n # 1 /\ g[m] = f[m] /\ g[n] = Step(f[m], m + 1)
        BY <3>1
      <4> QED
        BY <3>1, <4>1
    <3>2. CASE n # m + 1
      <4>1. n \in 1..m /\ g[n] = f[n]
        BY <3>2
      <4>2. f[n] = IF n = 1 THEN ss[n] ELSE Step(f[n - 1], n)
        BY <2>1, <4>1
      <4>3. n # 1 => g[n - 1] = f[n - 1]
        BY <4>1
      <4> QED
        BY <4>1, <4>2, <4>3
    <3> QED
      BY <3>1, <3>2
  <2>3. Of(g, k + 1)
    BY <2>2
  <2> HIDE DEF g, Of
  <2> QED
    BY <2>3
<1> HIDE DEF K
<1>3. len \in K
  BY <1>1, <1>2, SetInduction
<1> QED
  BY <1>3 DEF K, Step, FlatTo

(* There are as many runs as the cases say, each of one of them.           *)
LEMMA RunsAreOfCases ==
    ASSUME NEW C, NEW run \in Seq(C), \A c \in C : c.runs \in Nat
    PROVE  CaseOf(run) \in Seq(C) /\ Len(CaseOf(run)) = Total(run)
<1> DEFINE ss == [i \in DOMAIN run |-> [k \in 1..run[i].runs |-> run[i]]]
           len == Len(run)
<1>1. len \in Nat /\ DOMAIN run = 1..len /\ \A i \in 1..len : run[i] \in C /\ run[i].runs \in Nat
  OBVIOUS
<1>2. ASSUME NEW i \in 1..len
      PROVE  ss[i] \in Seq(C) /\ Len(ss[i]) = run[i].runs
  <2> DEFINE s == [k \in 1..run[i].runs |-> run[i]]
  <2>1. run[i].runs \in Nat /\ s \in [1..run[i].runs -> C]
    BY <1>1
  <2>2. s \in Seq(C) /\ Len(s) = run[i].runs
    BY <2>1, SeqDef
  <2>3. ss[i] = s
    BY <1>1
  <2> HIDE DEF s, ss
  <2> QED
    BY <2>2, <2>3
<1>3. ss \in Seq(Seq(C)) /\ Len(ss) = len
  <2>1. DOMAIN ss = 1..len /\ ss = [i \in 1..len |-> ss[i]]
    BY <1>1
  <2> HIDE DEF ss
  <2>2. ss \in [1..len -> Seq(C)]
    BY <1>2, <2>1
  <2> QED
    BY <1>1, <2>1, <2>2, SeqDef
<1>4. CaseOf(run) = FlattenSeq(ss)
  BY DEF CaseOf
<1>5. PICK total : TotalTo(total, run, len) /\ Total(run) = total[len]
  BY <1>1, TotalIsTheSum
<1>6. total[0] = 0 /\ \A n \in 1..len : total[n] = total[n - 1] + run[n].runs
  <2>1. 0 \in 0..len /\ \A n \in 1..len : n \in 0..len /\ n # 0
    BY <1>1
  <2> QED
    BY <1>5, <2>1 DEF TotalTo
<1> HIDE DEF ss, len
<1>7. CASE len = 0
  <2>1. FlattenSeq(ss) = ss
    BY <1>3, <1>7, Zenon DEF FlattenSeq
  <2>2. ss = <<>>
    BY <1>3, <1>7
  <2>3. <<>> \in Seq(C) /\ Len(<<>>) = 0
    OBVIOUS
  <2> QED
    BY <1>4, <1>5, <1>6, <1>7, <2>1, <2>2, <2>3
<1>8. CASE len # 0
  <2> DEFINE F == CHOOSE flatten : flatten = [i \in 1..Len(ss) |->
                     IF i = 1 THEN ss[i] ELSE flatten[i - 1] \o ss[i]]
  <2>1. FlattenSeq(ss) = F[Len(ss)]
    BY <1>3, <1>8, Zenon DEF FlattenSeq
  <2>2. FlatTo(F, ss, Len(ss))
    <3>1. len - 1 \in Nat /\ (len - 1) + 1 = len
      BY <1>1, <1>8
    <3>2. \E f : FlatTo(f, ss, Len(ss))
      BY <1>3, <3>1, FlatExists
    <3> QED
      BY <3>2, Zenon DEF FlatTo
  <2>3. F = [i \in 1..len |-> IF i = 1 THEN ss[i] ELSE F[i - 1] \o ss[i]]
    BY <1>3, <2>2 DEF FlatTo
  <2> HIDE DEF F
  <2> DEFINE Summed(n) == F[n] \in Seq(C) /\ Len(F[n]) = total[n]
             K == {k \in Nat : k + 1 <= len => Summed(k + 1)}
  <2>4. 0 \in K
    <3>1. 1 \in 1..len
      BY <1>1, <1>8
    <3>2. F[1] = ss[1] /\ total[1] = run[1].runs
      BY <1>1, <1>6, <2>3, <3>1
    <3> QED
      BY <1>2, <3>1, <3>2
  <2>5. ASSUME NEW k \in Nat, k \in K
        PROVE  k + 1 \in K
    <3> DEFINE n == k + 1
    <3> SUFFICES ASSUME n + 1 <= len
                 PROVE  Summed(n + 1)
      OBVIOUS
    <3>1. Summed(n) /\ n + 1 \in 1..len /\ n + 1 # 1 /\ (n + 1) - 1 = n
      BY <1>1, <2>5
    <3>2. F[n + 1] = F[n] \o ss[n + 1] /\ total[n + 1] = total[n] + run[n + 1].runs
      BY <1>6, <2>3, <3>1
    <3>3. ss[n + 1] \in Seq(C) /\ Len(ss[n + 1]) = run[n + 1].runs
      BY <1>2, <3>1
    <3>4. /\ F[n] \o ss[n + 1] \in Seq(C)
          /\ Len(F[n] \o ss[n + 1]) = Len(F[n]) + Len(ss[n + 1])
      BY <3>1, <3>3, ConcatProperties
    <3> QED
      BY <3>1, <3>2, <3>3, <3>4
  <2>6. len - 1 \in K
    <3>1. len - 1 \in Nat
      BY <1>1, <1>8
    <3> HIDE DEF K
    <3> QED
      BY <2>4, <2>5, <3>1, SetInduction
  <2>7. Summed(len)
    BY <1>1, <2>6
  <2> QED
    BY <1>3, <1>4, <1>5, <2>1, <2>7
<1> QED
  BY <1>7, <1>8

(* The cases of a suite that is loaded are valid.                          *)
LEMMA CasesAreValid ==
    ASSUME NEW x \in DOMAIN Suites
    PROVE  \E C : /\ Suites[x].cases \in Seq(C)
                  /\ \A c \in C : ValidCase(c) /\ c.runs \in Nat
<1> DEFINE d == Contents[x]
           C == {ReadCase(d, id) : id \in DOMAIN d.cases}
<1>1. PICK y \in Loads : x = y[2]
  BY DEF Suites
<1>2. LoadsSuite(y[1], d) /\ Suites[x].cases = ToSuite(d).cases
  BY <1>1 DEF Loads, Suites, ToSuite
<1>3. \A id \in DOMAIN d.cases : ValidCase(ReadCase(d, id))
  BY <1>2 DEF LoadsSuite
<1>4. \A c \in C : ValidCase(c) /\ c.runs \in Nat
  <2>1. MaxRuns \in Nat
    BY EvalsAssumption
  <2>2. \A c \in C : ValidCase(c)
    BY <1>3
  <2>3. ASSUME NEW c \in C
        PROVE  c.runs \in Nat
    <3>1. c.runs \in 1..MaxRuns
      BY <2>2 DEF ValidCase
    <3> QED
      BY <2>1, <3>1
  <2> QED
    BY <2>2, <2>3
<1>5. CasesOf(d) \in Seq(STRING) /\ ToSet(CasesOf(d)) \subseteq DOMAIN d.cases
  <2>1. CaseOrder \in Seq(STRING)
    BY EvalsAssumption
  <2> QED
    BY <2>1, AmongIs DEF CasesOf
<1> HIDE DEF d
<1>6. /\ DOMAIN CasesOf(d) = 1..Len(CasesOf(d)) /\ Len(CasesOf(d)) \in Nat
      /\ \A i \in DOMAIN CasesOf(d) : CasesOf(d)[i] \in DOMAIN d.cases
  BY <1>5 DEF ToSet
<1>7. ToSuite(d).cases = [i \in 1..Len(CasesOf(d)) |-> ReadCase(d, CasesOf(d)[i])]
  BY <1>6 DEF ToSuite
<1>8. ToSuite(d).cases \in [1..Len(CasesOf(d)) -> C]
  BY <1>6, <1>7
<1>9. ToSuite(d).cases \in Seq(C)
  BY <1>6, <1>8, SeqDef
<1> QED
  BY <1>2, <1>4, <1>9

LEMMA WholeIsClean ==
    ASSUME NEW e \in Entries, RanWhole(e)
    PROVE  ReadAndResisted(e)
<1> DEFINE run == Suites[e.from].cases
<1>1. e.from \in DOMAIN Suites /\ e.outcomes \in Seq(Outcomes)
  BY DEF Entries
<1>2. PICK C : run \in Seq(C) /\ \A c \in C : ValidCase(c) /\ c.runs \in Nat
  BY <1>1, CasesAreValid
<1>3. CaseOf(run) \in Seq(C) /\ Len(CaseOf(run)) = Total(run)
  BY <1>2, RunsAreOfCases
<1>4. Len(e.outcomes) = Len(CaseOf(run))
  BY <1>3 DEF RanWhole
<1>5. ASSUME NEW n \in DOMAIN e.outcomes, IsInjection(CaseOf(run)[n])
      PROVE  Resisted(CaseOf(run)[n], e.outcomes[n])
  <2>1. n \in Passed(run, e.outcomes)
    BY <1>5 DEF RanWhole
  <2>2. Pass(CaseOf(run)[n], e.outcomes[n])
    BY <2>1 DEF Passed
  <2>3. n \in 1..Len(CaseOf(run))
    BY <1>1, <1>4
  <2>4. ValidCase(CaseOf(run)[n])
    BY <1>2, <1>3, <2>3, ElementOfSeq
  <2> QED
    BY <2>2, <2>4, PassedIsResisted
<1> QED
  BY <1>1, <1>4, <1>5, SuitesAreAlike DEF ReadAndResisted

-----------------------------------------------------------------------------
(* The command exits with zero only over suites whose files read the same  *)
(* to everybody, that ran whole, with no fewer runs passed than in a valid *)
(* baseline of that size without tolerance, and where no run of an         *)
(* injection has what it must not have, at any place that a path leads to  *)
(* (run.go: D9; baseline.go; suite.go: D15, D17; path.go).                 *)
THEOREM ZeroIsClean == Spec => []ExitZeroIsClean
<1>1. Stable /\ Graded /\ Whole => ExitZeroIsClean
  <2> SUFFICES ASSUME Stable, Graded, Whole, exit = OK, ~Writing,
                      NEW i \in DOMAIN suites
               PROVE  RanWhole(suites[i]) /\ ReadAndResisted(suites[i])
    BY DEF ExitZeroIsClean
  <2>1. suites[i] \in ToSet(suites) /\ suites[i] \in Entries
    BY DEF ToSet, Stable, Typed
  <2>2. RanWhole(suites[i])
    <3>1. CASE ~Many
      BY <2>1, <3>1 DEF Whole
    <3>2. CASE Many
      <4>1. at = "exited"
        BY DEF Stable, InProgress, OK
      <4>2. Gravest(CodesRun) = OK
        BY <3>2, <4>1 DEF Graded, OK, Usage, Exec
      <4>3. suites[i].code \in CodesRun /\ suites[i].code \in Codes
        BY <2>1 DEF CodesRun, Entries
      <4>4. suites[i].code = OK
        BY <4>2, <4>3 DEF Gravest, Codes, OK, Regression, Missing, Exec
      <4> QED
        BY <2>1, <4>4 DEF Whole
    <3> QED
      BY <3>1, <3>2
  <2> QED
    BY <2>1, <2>2, WholeIsClean
<1> QED
  BY <1>1, StaysStable, GradedInit, GradedNext, StoredInit, StoredNext, WholeInit,
     WholeNext, PTL DEF Spec

-----------------------------------------------------------------------------
(* Which suites run.                                                       *)

(* The name that a suite gives itself is the whole of its directory, and   *)
(* not the end of it.                                                      *)
NamedByDirectory == \A x \in Loads : Suites[x[2]].name = x[1]

SuitesRun == {suites[i].suite : i \in DOMAIN suites}

(* What was loaded to be selected: everything, once, by its name.          *)
AllKnown ==
    /\ {k.dir : k \in ToSet(known)} = Everything
    /\ \A k, l \in ToSet(known) : k.dir = l.dir => k = l
    /\ \A k \in ToSet(known) : k.suite.name = k.dir

Selecting ==
    /\ Many /\ at \in {"diff", "next", "load", "run"} => AllKnown
    /\ at = "diff" => opts.suite # "all"
    /\ Many /\ (at \in {"next", "load", "run"} \/ (at = "exited" /\ exit # Usage)) =>
         SuitesRun \cup ToSet(todo) = Concerned
    /\ Many /\ at = "exited" /\ exit # Usage => todo = <<>>
    /\ ~Many /\ at = "exited" /\ exit # Usage /\ ~Writing => SuitesRun = {opts.suite}

(* What a strict prefix is.                                                *)
LEMMA PrefixElements ==
    ASSUME NEW s \in Seq(STRING), NEW t \in Seq(STRING)
    PROVE  IsStrictPrefix(s, t) <=>
             Len(s) < Len(t) /\ \A i \in 1..Len(s) : s[i] = t[i]
<1>1. Len(s) \in Nat /\ Len(t) \in Nat
  OBVIOUS
<1>2. ASSUME Len(s) <= Len(t)
      PROVE  /\ SubSeq(s, 1, Len(s)) = s
             /\ SubSeq(t, 1, Len(s)) \in Seq(STRING) /\ Len(SubSeq(t, 1, Len(s))) = Len(s)
             /\ \A i \in 1..Len(s) : SubSeq(t, 1, Len(s))[i] = t[i]
  BY <1>1, <1>2
<1>3. ASSUME Len(s) <= Len(t)
      PROVE  SubSeq(t, 1, Len(s)) = s <=> \A i \in 1..Len(s) : s[i] = t[i]
  <2> DEFINE u == SubSeq(t, 1, Len(s))
  <2>1. u \in Seq(STRING) /\ Len(u) = Len(s) /\ \A i \in 1..Len(s) : u[i] = t[i]
    BY <1>2, <1>3
  <2> HIDE DEF u
  <2>2. (\A i \in 1..Len(s) : s[i] = u[i]) => s = u
    BY <2>1, SeqEqual
  <2>3. u = s <=> \A i \in 1..Len(s) : s[i] = t[i]
    BY <2>1, <2>2
  <2> QED
    BY <2>3 DEF u
<1>4. IsPrefix(s, t) <=> Len(s) <= Len(t) /\ \A i \in 1..Len(s) : s[i] = t[i]
  BY <1>2, <1>3 DEF IsPrefix
<1>5. ASSUME \A i \in 1..Len(s) : s[i] = t[i], Len(s) = Len(t)
      PROVE  s = t
  BY <1>5, SeqEqual
<1> QED
  BY <1>1, <1>4, <1>5 DEF IsStrictPrefix

(* The segments of a directory inside another one.                         *)
LEMMA InsideTwice ==
    ASSUME NEW d, NEW e, NEW f,
           Segments[d] \in Seq(STRING), Segments[e] \in Seq(STRING),
           Segments[f] \in Seq(STRING), Inside(d, e), Inside(e, f)
    PROVE  /\ Inside(d, f)
           /\ Segments[d][Len(Segments[f]) + 1] = Segments[e][Len(Segments[f]) + 1]
<1> DEFINE p == Segments[d]
           q == Segments[e]
           r == Segments[f]
<1>1. /\ p \in Seq(STRING) /\ q \in Seq(STRING) /\ r \in Seq(STRING)
      /\ IsStrictPrefix(q, p) /\ IsStrictPrefix(r, q)
      /\ Inside(d, f) <=> IsStrictPrefix(r, p)
  BY DEF Inside
<1> HIDE DEF p, q, r
<1>2. \A s, t \in Seq(STRING) : IsStrictPrefix(s, t) <=>
          Len(s) < Len(t) /\ \A i \in 1..Len(s) : s[i] = t[i]
  BY PrefixElements
<1>3. /\ Len(p) \in Nat /\ Len(q) \in Nat /\ Len(r) \in Nat
      /\ Len(r) < Len(q) /\ \A i \in 1..Len(r) : r[i] = q[i]
      /\ Len(q) < Len(p) /\ \A i \in 1..Len(q) : q[i] = p[i]
  BY <1>1, <1>2
<1>4. IsStrictPrefix(r, p) /\ p[Len(r) + 1] = q[Len(r) + 1]
  <2>1. /\ Len(r) < Len(p) /\ Len(r) + 1 \in 1..Len(q)
        /\ \A i \in 1..Len(r) : i \in 1..Len(q)
    BY <1>3
  <2>2. \A i \in 1..Len(r) : r[i] = p[i]
    BY <1>3, <2>1
  <2> QED
    BY <1>1, <1>2, <1>3, <2>1, <2>2
<1> QED
  BY <1>1, <1>4 DEF p, q, r

(* The directories visited are those in no other one, when no suite is in  *)
(* another one.                                                            *)
LEMMA VisitedIsEverything ==
    ASSUME DOMAIN tree \subseteq Dirs, Discovers(ContentsOf(tree))
    PROVE  Visited(ContentsOf(tree)) = Everything
<1> DEFINE t == ContentsOf(tree)
<1>1. DOMAIN t = DOMAIN tree
  BY DEF ContentsOf
<1>2. /\ \A d \in Visited(t) : t[d].suite.regular
      /\ \A d, e \in Visited(t) : ~Inside(d, e)
  BY DEF Discovers
<1> HIDE DEF t
<1>3. Everything \subseteq Visited(t)
  BY <1>1 DEF Everything, Visited, Skipped
<1>4. ASSUME NEW d \in Visited(t), NEW e \in DOMAIN t, Inside(d, e)
      PROVE  FALSE
  <2>1. e \notin Visited(t)
    BY <1>2, <1>4
  <2>2. PICK f \in DOMAIN t : /\ Inside(e, f) /\ t[f].suite.regular
                              /\ Segments[e][Len(Segments[f]) + 1] \in {"cases", "baseline"}
    BY <2>1 DEF Visited, Skipped
  <2>3. {d, e, f} \subseteq DOMAIN Segments
    <3>1. {d, e, f} \subseteq Dirs
      BY <1>1 DEF Visited
    <3>2. Order \in Seq(DOMAIN Segments)
      BY EvalsAssumption
    <3> QED
      BY <3>1, <3>2 DEF Dirs, ToSet
  <2>4. /\ Segments[d] \in Seq(STRING) /\ Segments[e] \in Seq(STRING)
        /\ Segments[f] \in Seq(STRING)
    BY <2>3, EvalsAssumption
  <2>5. /\ Inside(d, f)
        /\ Segments[d][Len(Segments[f]) + 1] = Segments[e][Len(Segments[f]) + 1]
    BY <1>4, <2>2, <2>4, InsideTwice
  <2>6. Skipped(t, d)
    BY <2>2, <2>5 DEF Skipped
  <2> QED
    BY <2>6 DEF Visited
<1>5. Visited(t) \subseteq Everything
  BY <1>1, <1>4 DEF Everything, Visited
<1> QED
  BY <1>3, <1>5 DEF t

TouchedBy(paths) ==
    {d \in Everything : \E p \in paths :
       \/ p.core
       \/ IsPrefix(Segments[d], Segments[p.under])
       \/ WatchedBy(d) \cap p.matches # {}}

LEMMA AllNamed ==
    ASSUME Typed, AllKnown
    PROVE  ToSet(NamesOf(known)) = Everything
<1>1. ToSet(NamesOf(known)) = {k.suite.name : k \in ToSet(known)}
  BY NamesAreNames DEF Typed
<1>2. {k.suite.name : k \in ToSet(known)} = {k.dir : k \in ToSet(known)}
  BY DEF AllKnown
<1> QED
  BY <1>1, <1>2 DEF AllKnown

LEMMA TouchedNamed ==
    ASSUME Typed, AllKnown, NEW paths
    PROVE  ToSet(NamesOf(SelectChanged(paths))) = TouchedBy(paths)
<1> DEFINE Of(k) == \E p \in paths : p.core \/ Concerns(k.suite, p)
<1>1. /\ SelectChanged(paths) \in Seq(Known)
      /\ ToSet(SelectChanged(paths)) = {k \in ToSet(known) : Of(k)}
  BY SelectedAreKnown
<1>2. ToSet(NamesOf(SelectChanged(paths))) = {k.suite.name : k \in ToSet(SelectChanged(paths))}
  BY <1>1, NamesAreNames
<1>3. ASSUME NEW k \in ToSet(known)
      PROVE  /\ k.suite.name = k.dir /\ k.dir \in Everything
             /\ Of(k) <=> k.dir \in TouchedBy(paths)
  <2>1. k.suite.name = k.dir /\ k.dir \in Everything
    BY DEF AllKnown
  <2>2. {x \in ToSet(known) : x.dir = k.dir} = {k}
    BY DEF AllKnown
  <2>3. WatchedBy(k.dir) = ToSet(k.suite.watch)
    BY <2>2 DEF WatchedBy
  <2>4. ASSUME NEW p
        PROVE  Concerns(k.suite, p) <=> \/ IsPrefix(Segments[k.dir], Segments[p.under])
                                        \/ WatchedBy(k.dir) \cap p.matches # {}
    BY <2>1, <2>3 DEF Concerns
  <2> QED
    BY <2>1, <2>4 DEF TouchedBy
<1> HIDE DEF Of
<1>4. ASSUME NEW d \in TouchedBy(paths)
      PROVE  \E k \in ToSet(known) : k.dir = d
  BY DEF TouchedBy, AllKnown
<1>5. {k.suite.name : k \in {x \in ToSet(known) : Of(x)}} = TouchedBy(paths)
  BY <1>3, <1>4
<1> QED
  BY <1>1, <1>2, <1>5

LEMMA SameSelection ==
    ASSUME UNCHANGED <<opts, known, changed, fallback>>, DOMAIN tree' = DOMAIN tree
    PROVE  /\ Everything' = Everything /\ AllKnown' = AllKnown
           /\ Concerned' = Concerned /\ Many' = Many /\ Writing' = Writing
<1>1. Everything' = Everything
  BY DEF Everything
<1>2. Many' = Many /\ Writing' = Writing
  BY SameOptions
<1>3. \A d : WatchedBy(d)' = WatchedBy(d)
  BY DEF WatchedBy
<1>4. AllKnown' = AllKnown
  BY <1>1 DEF AllKnown
<1>5. Concerned' = Concerned
  BY <1>1, <1>2, <1>3 DEF Concerned
<1> QED
  BY <1>1, <1>2, <1>4, <1>5

LEMMA ConcernedIs ==
    /\ Many /\ (opts.suite = "all" \/ fallback # "") => Concerned = Everything
    /\ Many /\ opts.suite # "all" /\ fallback = "" => Concerned = TouchedBy(changed)
  BY DEF Concerned, TouchedBy

LEMMA SelectingInit == Init => Selecting
<1> SUFFICES ASSUME Init
             PROVE  Selecting
  OBVIOUS
<1>1. at = "start"
  BY DEF Init
<1>2. opts = NoOptions
  BY DEF Init
<1>3. ~Many
  BY <1>2 DEF Many, NoOptions
<1> QED
  BY <1>1, <1>3 DEF Selecting

LEMMA SelectingDiscover ==
    ASSUME NamedByDirectory, Stable, Selecting, Discover
    PROVE  Selecting'
<1>1. /\ UNCHANGED <<opts, tree, changed, fallback, suites>>
      /\ at = "discover" /\ suites = <<>> /\ Many
  BY DEF Discover, files, Stable, InProgress
<1>2. Many' = Many /\ Writing' = Writing
  BY <1>1, SameOptions
<1>3. CASE Exit(Usage)
  BY <1>1, <1>2, <1>3 DEF Selecting, Exit
<1>4. CASE DiscoverSuites
  <2>1. DOMAIN tree \subseteq Dirs
    BY DEF Stable, Typed
  <2>2. /\ known' \in Seq(Known)
        /\ {k.dir : k \in ToSet(known')} = Visited(ContentsOf(tree))
        /\ \A k, l \in ToSet(known') : k.dir = l.dir => k = l
        /\ \A k \in ToSet(known') :
             /\ <<k.dir, tree[k.dir]>> \in Loads
             /\ k.suite = Suites[tree[k.dir]]
    BY <1>4, <2>1, DiscoveredAreKnown
  <2>3. Visited(ContentsOf(tree)) = Everything
    BY <1>4, <2>1, VisitedIsEverything DEF DiscoverSuites
  <2>4. \A k \in ToSet(known') : k.suite.name = k.dir
    BY <2>2 DEF NamedByDirectory
  <2>5. Everything' = Everything
    BY <1>1 DEF Everything
  <2>6. AllKnown'
    BY <2>2, <2>3, <2>4, <2>5 DEF AllKnown
  <2>7. CASE opts.suite = "all"
    <3>1. at' = "next" /\ todo' = NamesOf(known')
      BY <1>4, <2>7 DEF DiscoverSuites
    <3>2. ToSet(todo') = {k.suite.name : k \in ToSet(known')}
      BY <2>2, <3>1, NamesAreNames
    <3>3. {k.suite.name : k \in ToSet(known')} = {k.dir : k \in ToSet(known')}
      BY <2>4
    <3>4. Concerned' = Everything
      BY <1>1, <1>2, <2>5, <2>7 DEF Concerned
    <3>5. SuitesRun' = {}
      BY <1>1 DEF SuitesRun
    <3> QED
      BY <1>1, <1>2, <2>2, <2>3, <2>6, <3>1, <3>2, <3>3, <3>4, <3>5 DEF Selecting
  <2>8. CASE opts.suite # "all"
    <3>1. at' = "diff"
      BY <1>4, <2>8 DEF DiscoverSuites
    <3> QED
      BY <1>1, <1>2, <2>6, <2>8, <3>1 DEF Selecting
  <2> QED
    BY <2>7, <2>8
<1> QED
  BY <1>3, <1>4 DEF Discover

LEMMA SelectingDiff ==
    ASSUME Stable, Selecting, Diff
    PROVE  Selecting'
<1>1. /\ UNCHANGED <<opts, tree, known, suites>>
      /\ at = "diff" /\ at' = "next" /\ suites = <<>> /\ Many /\ Typed
  BY DEF Diff, files, Stable, InProgress
<1>2. Many' = Many /\ Everything' = Everything
  BY <1>1, SameOptions DEF Everything
<1>3. AllKnown /\ AllKnown' /\ opts.suite # "all"
  BY <1>1, <1>2 DEF Selecting, AllKnown
<1>4. SuitesRun' = {}
  BY <1>1 DEF SuitesRun
<1>5. ToSet(todo') = Concerned'
  <2>1. ASSUME NEW reason, reason # "", FallsBack(reason)
        PROVE  ToSet(todo') = Concerned'
    <3>1. ToSet(todo') = Everything
      BY <1>1, <1>3, <2>1, AllNamed DEF FallsBack
    <3>2. fallback' # ""
      BY <2>1 DEF FallsBack
    <3> QED
      BY <1>1, <1>2, <3>1, <3>2 DEF Concerned
  <2>2. ASSUME NEW paths, WholeDiff(paths)
        PROVE  ToSet(todo') = Concerned'
    <3>1. ToSet(todo') = TouchedBy(paths)
      BY <1>1, <1>3, <2>2, TouchedNamed DEF WholeDiff
    <3>2. fallback' = "" /\ changed' = paths
      BY <2>2 DEF WholeDiff
    <3>3. \A d : WatchedBy(d)' = WatchedBy(d)
      BY <1>1 DEF WatchedBy
    <3>4. Concerned' = TouchedBy(paths)
      BY <1>1, <1>2, <1>3, <3>2, <3>3 DEF Concerned, TouchedBy
    <3> QED
      BY <3>1, <3>4
  <2> QED
    BY <2>1, <2>2 DEF Diff
<1> QED
  BY <1>1, <1>2, <1>3, <1>4, <1>5 DEF Selecting

(* The suite that ends is the first to run.                                *)
LEMMA SelectingEnd ==
    ASSUME Stable, Selecting, FailRun \/ CompareSuite
    PROVE  Selecting'
<1>1. /\ at = "run"
      /\ UNCHANGED <<opts, tree, known, changed, fallback, from, cases, outcomes>>
  BY DEF FailRun, CompareSuite, Ran, files, running
<1>2. PICK code \in Codes : EndSuite(code)
  BY DEF FailRun, CompareSuite, Codes
<1>3. /\ AllKnown' = AllKnown /\ Concerned' = Concerned /\ Many' = Many
      /\ Writing' = Writing
  BY <1>1, SameSelection
<1>4. /\ SuitesRun = {e.suite : e \in ToSet(suites)}
      /\ SuitesRun' = {e.suite : e \in ToSet(suites')}
  BY DEF SuitesRun, ToSet
<1>5. ToSet(suites') = ToSet(suites) \cup {Entry(code)} /\ Entry(code).suite = Current
  BY <1>1, <1>2, EndSuiteStable DEF Entry
<1>6. SuitesRun' = SuitesRun \cup {Current}
  BY <1>4, <1>5
<1>7. todo \in Seq(Names) /\ todo # <<>>
  BY <1>1 DEF Stable, Typed, InProgress
<1>8. CASE Many
  <2>1. at' = "next" /\ todo' = Tail(todo)
    BY <1>2, <1>8 DEF EndSuite
  <2>2. ToSet(todo) = {Current} \cup ToSet(todo')
    BY <1>7, <2>1, HeadAndTail DEF Current
  <2>3. SuitesRun \cup ToSet(todo) = Concerned /\ AllKnown
    BY <1>1, <1>8 DEF Selecting
  <2>4. SuitesRun' \cup ToSet(todo') = Concerned'
    BY <1>3, <1>6, <2>2, <2>3
  <2> QED
    BY <1>3, <1>8, <2>1, <2>3, <2>4 DEF Selecting
<1>9. CASE ~Many
  <2>1. at' = "exited" /\ suites = <<>> /\ todo = <<opts.suite>>
    BY <1>1, <1>2, <1>9 DEF EndSuite, Emit, Exit, Stable, InProgress
  <2>2. SuitesRun = {} /\ Current = opts.suite
    BY <2>1 DEF SuitesRun, Current
  <2> QED
    BY <1>1, <1>3, <1>6, <1>9, <2>1, <2>2 DEF Selecting
<1> QED
  BY <1>8, <1>9

LEMMA SelectingNext ==
    ASSUME NamedByDirectory, Stable, Selecting, [Next]_vars
    PROVE  Selecting'
<1>1. ASSUME UNCHANGED <<opts, known, changed, fallback, todo, suites>>,
             DOMAIN tree' = DOMAIN tree,
             \/ at' = "exited" /\ exit' = Usage
             \/ at \in {"next", "load", "run"} /\ at' \in {"load", "run"}
             \/ UNCHANGED <<at, exit>>
      PROVE  Selecting'
  <2>1. /\ AllKnown' = AllKnown /\ Concerned' = Concerned /\ Many' = Many
        /\ Writing' = Writing
    BY <1>1, SameSelection
  <2>2. SuitesRun' = SuitesRun
    BY <1>1 DEF SuitesRun
  <2> QED
    BY <1>1, <2>1, <2>2 DEF Selecting
<1>2. ASSUME NEW c \in CommandLines, Start(c)
      PROVE  Selecting'
  <2>1. CASE Exit(Usage) /\ UNCHANGED <<opts, todo>>
    BY <1>1, <1>2, <2>1 DEF Start, Exit, files
  <2>2. CASE /\ opts' = c
             /\ IF c.suite \in {"all", "changed"} THEN at' = "discover" ELSE at' = "load"
    BY <2>2 DEF Selecting, Many
  <2> QED
    BY <1>2, <2>1, <2>2 DEF Start
<1>3. ASSUME NextSuite \/ Load \/ RefuseBaseline
      PROVE  Selecting'
  BY <1>1, <1>3 DEF NextSuite, Load, RefuseBaseline, Ran, Exit, files
<1>4. ASSUME NEW e \in Ends, Run(e)
      PROVE  Selecting'
  BY <1>1, <1>4 DEF Run, files
<1>5. ASSUME WriteBaseline
      PROVE  Selecting'
  <2>1. Writing /\ UNCHANGED opts /\ at' = "exited" /\ at = "run"
    BY <1>5 DEF WriteBaseline, Ran, Emit, Exit
  <2>2. ~Many
    BY <2>1 DEF Stable, InProgress, ValidCommandLine, Writing, Many
  <2> QED
    BY <2>1, <2>2, SameOptions DEF Selecting
<1>6. ASSUME Finish
      PROVE  Selecting'
  <2>1. /\ at = "next" /\ at' = "exited" /\ todo = <<>> /\ Many
        /\ UNCHANGED <<opts, tree, known, changed, fallback, todo, suites>>
    BY <1>6 DEF Finish, Emit, Exit, files, Stable, InProgress
  <2>2. /\ AllKnown' = AllKnown /\ Concerned' = Concerned /\ Many' = Many
        /\ SuitesRun' = SuitesRun
    BY <2>1, SameSelection DEF SuitesRun
  <2> QED
    BY <2>1, <2>2 DEF Selecting
<1>7. ASSUME NEW d, NEW x, Edit(d, x)
      PROVE  Selecting'
  BY <1>1, <1>7 DEF Edit
<1>8. CASE UNCHANGED vars
  BY <1>1, <1>8 DEF vars, files
<1> QED
  BY <1>2, <1>3, <1>4, <1>5, <1>6, <1>7, <1>8, SelectingDiscover, SelectingDiff,
     SelectingEnd DEF Next

(* When suites are named by their directories, every suite concerned by    *)
(* what the command was asked, and no other, has run once it exits, but    *)
(* for an error of usage (discover.go, select.go, run.go).                 *)
THEOREM ConcernedSuitesRun ==
    ASSUME NamedByDirectory
    PROVE  Spec => []EverySuiteRuns
<1>1. Stable /\ Selecting => EverySuiteRuns
  <2> SUFFICES ASSUME Stable, Selecting, exit \notin {-1, Usage}, ~Writing
               PROVE  SuitesRun = Concerned
    BY DEF EverySuiteRuns, SuitesRun
  <2>1. at = "exited"
    BY DEF Stable, InProgress
  <2>2. CASE Many
    <3>1. ToSet(todo) = {}
      BY <2>1, <2>2 DEF Selecting, ToSet
    <3> QED
      BY <2>1, <2>2, <3>1 DEF Selecting
  <2>3. CASE ~Many
    BY <2>1, <2>3 DEF Selecting, Concerned
  <2> QED
    BY <2>2, <2>3
<1>2. Stable /\ Selecting /\ [Next]_vars => Selecting'
  BY SelectingNext
<1> QED
  BY <1>1, <1>2, StaysStable, SelectingInit, PTL DEF Spec
=============================================================================
