-------------------------- MODULE BaselineFileProofs --------------------------
(***************************************************************************)
(* A baseline is always whole, for any number of commands that write it    *)
(* and of others that read it, whatever fails and whoever dies.            *)
(*                                                                         *)
(* Inductive follows each file: it is renamed only once written whole, so  *)
(* that the name, and whoever opened it, always points to a whole file.    *)
(***************************************************************************)
EXTENDS BaselineFile, TLAPS

LEMMA InitInductive == Init => Inductive
  <1> SUFFICES ASSUME Init PROVE Inductive
    OBVIOUS
  <1>1. files \in [Inodes -> File]
    <2>1. \A f \in Inodes : (IF f = Old THEN Old ELSE ReportOf[f])
                              \in {Old} \cup {ReportOf[w] : w \in Writers}
      BY DEF Inodes
    <2>2. \A f \in Inodes : [content |-> IF f = Old THEN Old ELSE ReportOf[f],
                              whole |-> f = Old] \in File
      BY <2>1 DEF File
    <2> QED
      BY <2>2 DEF Init
  <1>2. TypeOK
    BY <1>1 DEF Init, TypeOK, Inodes, Processes, Places, Answers
  <1>3. files[Old].whole
    BY DEF Init, Inodes
  <1>4. ASSUME NEW w \in Writers PROVE WriterInv(w)
    BY <1>4, FileAssumption DEF Init, WriterInv, Inodes
  <1>5. ASSUME NEW r \in Readers PROVE ReaderInv(r)
    BY <1>5 DEF Init, ReaderInv
  <1> QED
    BY <1>2, <1>3, <1>4, <1>5 DEF Inductive

(* Every step preserves it.  The step that matters is Rename: the file it  *)
(* gives the name to was written whole, by WriterInv.                      *)
LEMMA NextInductive == Inductive /\ [Next]_vars => Inductive'
  <1> SUFFICES ASSUME Inductive, [Next]_vars PROVE Inductive'
    OBVIOUS
  <1> USE DEF Inductive, Inodes, Processes, Ends, Go
  <1>1. ASSUME NEW w \in Writers, CheckParents(w) PROVE Inductive'
    <2>1. TypeOK'
      BY <1>1, FileAssumption DEF TypeOK, File, Places, Answers, CheckParents
    <2>2. files'[Old].whole
      BY <1>1, FileAssumption DEF TypeOK, File, CheckParents
    <2>3. ASSUME NEW v \in Writers PROVE WriterInv(v)'
      BY <1>1, <2>3, FileAssumption
      DEF TypeOK, File, WriterInv, CheckParents
    <2>4. ASSUME NEW q \in Readers PROVE ReaderInv(q)'
      BY <1>1, <2>4, FileAssumption
      DEF TypeOK, File, WriterInv, ReaderInv, CheckParents
    <2> QED
      BY <2>1, <2>2, <2>3, <2>4
  <1>2. ASSUME NEW w \in Writers, MakeParents(w) PROVE Inductive'
    <2>1. TypeOK'
      BY <1>2, FileAssumption DEF TypeOK, File, Places, Answers, MakeParents
    <2>2. files'[Old].whole
      BY <1>2, FileAssumption DEF TypeOK, File, MakeParents
    <2>3. ASSUME NEW v \in Writers PROVE WriterInv(v)'
      BY <1>2, <2>3, FileAssumption
      DEF TypeOK, File, WriterInv, MakeParents
    <2>4. ASSUME NEW q \in Readers PROVE ReaderInv(q)'
      BY <1>2, <2>4, FileAssumption
      DEF TypeOK, File, WriterInv, ReaderInv, MakeParents
    <2> QED
      BY <2>1, <2>2, <2>3, <2>4
  <1>3. ASSUME NEW w \in Writers, Create(w) PROVE Inductive'
    <2>1. TypeOK'
      <3>1. temp' \in [Writers -> Inodes \cup {NoFile}]
        <4>1. \/ temp' = temp
              \/ \E x \in {w, NoFile} : temp' = [temp EXCEPT ![w] = x]
          BY <1>3 DEF Create, CreateApart
        <4> QED
          BY <4>1 DEF TypeOK
      <3>2. files' \in [Inodes -> File]
        BY <1>3 DEF TypeOK, Create, CreateApart
      <3>3. /\ target' \in Inodes \cup {NoFile}
            /\ parents' = parents
            /\ opened' = opened
        BY <1>3 DEF TypeOK, Create, CreateApart
      <3>4. at' \in [Processes -> Places] /\ result' \in [Processes -> Answers]
        BY <1>3 DEF TypeOK, Places, Answers, Create, CreateApart
      <3> QED
        BY <3>1, <3>2, <3>3, <3>4 DEF TypeOK
    <2>2. files'[Old].whole
      BY <1>3, FileAssumption DEF TypeOK, File, Create, CreateApart
    <2>3. ASSUME NEW v \in Writers PROVE WriterInv(v)'
      BY <1>3, <2>3, FileAssumption
      DEF TypeOK, File, WriterInv, Create, CreateApart
    <2>4. ASSUME NEW q \in Readers PROVE ReaderInv(q)'
      BY <1>3, <2>4, FileAssumption
      DEF TypeOK, File, WriterInv, ReaderInv, Create, CreateApart
    <2> QED
      BY <2>1, <2>2, <2>3, <2>4
  <1>4. ASSUME NEW w \in Writers, Write(w) PROVE Inductive'
    <2>1. TypeOK'
      <3>1. temp' \in [Writers -> Inodes \cup {NoFile}]
        <4>1. \/ temp' = temp
              \/ \E x \in {w, NoFile} : temp' = [temp EXCEPT ![w] = x]
          BY <1>4 DEF Write, WriteError, Discard, Remove, RemoveTemp
        <4> QED
          BY <4>1 DEF TypeOK
      <3>2. files' \in [Inodes -> File]
        <4>1. \/ files' = files
              \/ files' = [files EXCEPT ![w] = [files[w] EXCEPT !.whole = TRUE]]
          BY <1>4 DEF Write, WriteError, Discard, Remove, RemoveTemp
        <4>2. files[w] \in File
          BY DEF TypeOK
        <4>3. [files[w] EXCEPT !.whole = TRUE] \in File
          BY <4>2 DEF File
        <4> QED
          BY <4>1, <4>3 DEF TypeOK
      <3>3. /\ target' \in Inodes \cup {NoFile}
            /\ parents' = parents
            /\ opened' = opened
        BY <1>4 DEF TypeOK, Write, WriteError, Discard, Remove, RemoveTemp
      <3>4. at' \in [Processes -> Places] /\ result' \in [Processes -> Answers]
        BY <1>4
        DEF TypeOK, Places, Answers, Write, WriteError, Discard, Remove,
            RemoveTemp
      <3> QED
        BY <3>1, <3>2, <3>3, <3>4 DEF TypeOK
    <2>2. files'[Old].whole
      BY <1>4, FileAssumption
      DEF TypeOK, File, Write, WriteError, Discard, Remove, RemoveTemp
    <2>3. ASSUME NEW v \in Writers PROVE WriterInv(v)'
      BY <1>4, <2>3, FileAssumption
      DEF TypeOK, File, WriterInv, Write, WriteError, Discard, Remove,
          RemoveTemp
    <2>4. ASSUME NEW q \in Readers PROVE ReaderInv(q)'
      BY <1>4, <2>4, FileAssumption
      DEF TypeOK, File, WriterInv, ReaderInv, Write, WriteError, Discard,
          Remove, RemoveTemp
    <2> QED
      BY <2>1, <2>2, <2>3, <2>4
  <1>5. ASSUME NEW w \in Writers, Rename(w) PROVE Inductive'
    <2>1. TypeOK'
      <3>1. temp' \in [Writers -> Inodes \cup {NoFile}]
        <4>1. \/ temp' = temp
              \/ \E x \in {w, NoFile} : temp' = [temp EXCEPT ![w] = x]
          BY <1>5 DEF Rename, Discard, Remove, RemoveTemp
        <4> QED
          BY <4>1 DEF TypeOK
      <3>2. files' \in [Inodes -> File]
        BY <1>5 DEF TypeOK, Rename, Discard, Remove, RemoveTemp
      <3>3. /\ target' \in Inodes \cup {NoFile}
            /\ parents' = parents
            /\ opened' = opened
        BY <1>5 DEF TypeOK, Rename, Discard, Remove, RemoveTemp
      <3>4. at' \in [Processes -> Places] /\ result' \in [Processes -> Answers]
        BY <1>5 DEF TypeOK, Places, Answers, Rename, Discard, Remove, RemoveTemp
      <3> QED
        BY <3>1, <3>2, <3>3, <3>4 DEF TypeOK
    <2>2. files'[Old].whole
      BY <1>5, FileAssumption
      DEF TypeOK, File, Rename, Discard, Remove, RemoveTemp
    <2>3. ASSUME NEW v \in Writers PROVE WriterInv(v)'
      BY <1>5, <2>3, FileAssumption
      DEF TypeOK, File, WriterInv, Rename, Discard, Remove, RemoveTemp
    <2>4. ASSUME NEW q \in Readers PROVE ReaderInv(q)'
      BY <1>5, <2>4, FileAssumption
      DEF TypeOK, File, WriterInv, ReaderInv, Rename, Discard, Remove,
          RemoveTemp
    <2> QED
      BY <2>1, <2>2, <2>3, <2>4
  <1>6. ASSUME NEW w \in Writers, Return(w) PROVE Inductive'
    <2>1. TypeOK'
      BY <1>6, FileAssumption DEF TypeOK, File, Places, Answers, Return
    <2>2. files'[Old].whole
      BY <1>6, FileAssumption DEF TypeOK, File, Return
    <2>3. ASSUME NEW v \in Writers PROVE WriterInv(v)'
      BY <1>6, <2>3, FileAssumption
      DEF TypeOK, File, WriterInv, Return
    <2>4. ASSUME NEW q \in Readers PROVE ReaderInv(q)'
      BY <1>6, <2>4, FileAssumption
      DEF TypeOK, File, WriterInv, ReaderInv, Return
    <2> QED
      BY <2>1, <2>2, <2>3, <2>4
  <1>7. ASSUME NEW w \in Writers, Crash(w) PROVE Inductive'
    <2>1. TypeOK'
      BY <1>7, FileAssumption DEF TypeOK, File, Places, Answers, Crash
    <2>2. files'[Old].whole
      BY <1>7, FileAssumption DEF TypeOK, File, Crash
    <2>3. ASSUME NEW v \in Writers PROVE WriterInv(v)'
      BY <1>7, <2>3, FileAssumption
      DEF TypeOK, File, WriterInv, Crash
    <2>4. ASSUME NEW q \in Readers PROVE ReaderInv(q)'
      BY <1>7, <2>4, FileAssumption
      DEF TypeOK, File, WriterInv, ReaderInv, Crash
    <2> QED
      BY <2>1, <2>2, <2>3, <2>4
  <1>8. ASSUME NEW r \in Readers, LookUp(r) PROVE Inductive'
    <2>1. TypeOK'
      BY <1>8, FileAssumption DEF TypeOK, File, Places, Answers, LookUp
    <2>2. files'[Old].whole
      BY <1>8, FileAssumption DEF TypeOK, File, LookUp
    <2>3. ASSUME NEW v \in Writers PROVE WriterInv(v)'
      BY <1>8, <2>3, FileAssumption
      DEF TypeOK, File, WriterInv, LookUp
    <2>4. ASSUME NEW q \in Readers PROVE ReaderInv(q)'
      BY <1>8, <2>4, FileAssumption
      DEF TypeOK, File, WriterInv, ReaderInv, LookUp
    <2> QED
      BY <2>1, <2>2, <2>3, <2>4
  <1>9. ASSUME NEW r \in Readers, Open(r) PROVE Inductive'
    <2>1. TypeOK'
      BY <1>9, FileAssumption DEF TypeOK, File, Places, Answers, Open
    <2>2. files'[Old].whole
      BY <1>9, FileAssumption DEF TypeOK, File, Open
    <2>3. ASSUME NEW v \in Writers PROVE WriterInv(v)'
      BY <1>9, <2>3, FileAssumption
      DEF TypeOK, File, WriterInv, Open
    <2>4. ASSUME NEW q \in Readers PROVE ReaderInv(q)'
      BY <1>9, <2>4, FileAssumption
      DEF TypeOK, File, WriterInv, ReaderInv, Open
    <2> QED
      BY <2>1, <2>2, <2>3, <2>4
  <1>10. ASSUME NEW r \in Readers, Read(r) PROVE Inductive'
    <2>1. TypeOK'
      BY <1>10, FileAssumption DEF TypeOK, File, Places, Answers, Read
    <2>2. files'[Old].whole
      BY <1>10, FileAssumption DEF TypeOK, File, Read
    <2>3. ASSUME NEW v \in Writers PROVE WriterInv(v)'
      BY <1>10, <2>3, FileAssumption
      DEF TypeOK, File, WriterInv, Read
    <2>4. ASSUME NEW q \in Readers PROVE ReaderInv(q)'
      BY <1>10, <2>4, FileAssumption
      DEF TypeOK, File, WriterInv, ReaderInv, Read
    <2> QED
      BY <2>1, <2>2, <2>3, <2>4
  <1>11. CASE UNCHANGED vars
    BY <1>11 DEF vars, TypeOK, WriterInv, ReaderInv
  <1> QED
    BY <1>1, <1>2, <1>3, <1>4, <1>5, <1>6, <1>7, <1>8, <1>9, <1>10, <1>11
    DEF Next, Writer, Reader

(* The invariant of the baseline file holds for any processes.             *)
THEOREM InductiveInvariant == Spec => []Inductive
  BY InitInductive, NextInductive, PTL DEF Spec

(* The name of the baseline never points to a file cut short, nor to a     *)
(* report that cannot be a baseline, and no reader reads one.              *)
THEOREM BaselineAlwaysWhole == Spec => []AlwaysWhole
  <1>1. Inductive => AlwaysWhole
    BY FileAssumption
    DEF Inductive, TypeOK, WriterInv, ReaderInv, AlwaysWhole, Inodes
  <1> QED
    BY <1>1, InductiveInvariant, PTL

(* What a command returns is what it did to the file.                      *)
THEOREM ResultsAreTrue == Spec => []SaysWhatItDid
  <1>1. Inductive => SaysWhatItDid
    BY DEF Inductive, WriterInv, SaysWhatItDid
  <1> QED
    BY <1>1, InductiveInvariant, PTL

(* No step, of a command that fails or dies included, takes the baseline   *)
(* away.                                                                   *)
THEOREM BaselineNeverLost == Spec => BaselineStays
  <1>1. Inductive /\ [Next]_vars => [target # NoFile => target' # NoFile]_vars
    <2> SUFFICES ASSUME Inductive, Next
               PROVE  target # NoFile => target' # NoFile
      BY DEF vars
    <2>1. ASSUME NEW w \in Writers, Writer(w) \/ Crash(w)
          PROVE  target' \in {target, w}
      BY <2>1 DEF Writer, CheckParents, MakeParents, Create, CreateApart, Write,
                  WriteError, Rename, Return, Crash, Discard, Remove, RemoveTemp
    <2>2. ASSUME NEW r \in Readers, Reader(r) PROVE target' = target
      BY <2>2 DEF Reader, LookUp, Open, Read
    <2> QED
      BY <2>1, <2>2, FileAssumption DEF Next
  <1> QED
    BY <1>1, InductiveInvariant, PTL DEF Spec, BaselineStays

=============================================================================
