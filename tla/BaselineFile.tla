----------------------------- MODULE BaselineFile -----------------------------
(***************************************************************************)
(* The file of one baseline (cmd/rempart-evals/baseline.go and             *)
(* internal/evals/baselinefile.go): how a command writes it, and how       *)
(* another one reads it meanwhile.                                         *)
(*                                                                         *)
(* A command writes a new file under a random name, then renames it.  Any  *)
(* operation on the file system may fail, the write may stop short, and    *)
(* the process may die between two of them.  The rename is atomic, and an  *)
(* open file is read whatever becomes of its name.                         *)
(***************************************************************************)
CONSTANTS
    Writers, Readers,   \* the processes
    Old,                \* what the baseline holds before, if anything
    NoFile,             \* no file has this name
    Refused,            \* a report that EncodeBaseline refuses
    ReportOf            \* what each writer has to write

(* A file is its content, whole or not.  A name points to one; writing     *)
(* changes the file, renaming the name.                                    *)
File == [content: {Old} \cup {ReportOf[w] : w \in Writers}, whole: BOOLEAN]

ASSUME FileAssumption ==
    /\ Writers \cap Readers = {}
    /\ NoFile \notin Writers \cup {Old}
    /\ Old \notin Writers \cup {Refused}

VARIABLES
    target,     \* the file the name of the baseline points to
    temp,       \* the temporary name of each writer
    files,      \* each file: that of Old, and one per writer
    parents,    \* the parents of the name: absent, directories, or a link
    at,         \* where each process is
    opened,     \* the file a reader has open
    result      \* what each process returned

vars == <<target, temp, files, parents, at, opened, result>>

Inodes == {Old} \cup Writers

Init ==
    /\ parents \in {"absent", "directories", "link"}
    /\ target \in {Old, NoFile}
    /\ parents = "absent" => target = NoFile
    /\ temp = [w \in Writers |-> NoFile]
    /\ files = [f \in Inodes |-> [content |-> IF f = Old THEN Old ELSE ReportOf[f],
                                  whole |-> f = Old]]
    /\ at = [p \in Writers \cup Readers |-> "start"]
    /\ opened = [r \in Readers |-> NoFile]
    /\ result = [p \in Writers \cup Readers |-> "none"]

-----------------------------------------------------------------------------
Go(p, where) == at' = [at EXCEPT ![p] = where]
Ends(p, what) == Go(p, "over") /\ result' = [result EXCEPT ![p] = what]

(* EncodeBaseline, then the parents: none of those that exist may be a     *)
(* link.  The ones that do not are made.                                   *)
CheckParents(w) ==
    /\ at[w] = "start"
    /\ IF ReportOf[w] = Refused \/ parents = "link"
       THEN Ends(w, "error")
       ELSE Go(w, "checked") /\ UNCHANGED result
    /\ UNCHANGED <<target, temp, files, parents, opened>>

MakeParents(w) ==
    /\ at[w] = "checked"
    /\ \/ Ends(w, "error") /\ UNCHANGED parents
       \/ /\ parents' = "directories"
          /\ Go(w, "made")
          /\ UNCHANGED result
    /\ UNCHANGED <<target, temp, files, opened>>

(* Slip: the baseline itself is written over.                              *)
CreateInPlace(w) ==
    /\ target' = w
    /\ UNCHANGED temp

CreateApart(w) ==
    /\ temp' = [temp EXCEPT ![w] = w]
    /\ UNCHANGED target

Create(w) ==
    /\ at[w] = "made"
    /\ \/ Ends(w, "error") /\ UNCHANGED <<target, temp>>
       \/ CreateApart(w) /\ Go(w, "created") /\ UNCHANGED result
    /\ UNCHANGED <<files, parents, opened>>

(* Write and Close: on an error of either the temporary name is removed,   *)
(* if it can be.                                                           *)
RemoveTemp(w) ==
    /\ temp' \in {temp, [temp EXCEPT ![w] = NoFile]}
    /\ UNCHANGED target

(* Slip: the name of the baseline is removed instead.                      *)
RemoveBaseline(w) ==
    /\ target' \in {target, NoFile}
    /\ UNCHANGED temp

Remove(w) == RemoveTemp(w)

Discard(w) == Remove(w) /\ Ends(w, "error")

(* Slip: an error of the write is not looked at.                           *)
WriteErrorForgotten(w) == Go(w, "written") /\ UNCHANGED <<target, temp, result>>

WriteError(w) == Discard(w)

Write(w) ==
    /\ at[w] = "created"
    /\ \/ /\ files' = [files EXCEPT ![w].whole = TRUE]
          /\ Go(w, "written")
          /\ UNCHANGED <<target, temp, result>>
       \/ WriteError(w) /\ UNCHANGED files
    /\ UNCHANGED <<parents, opened>>

Rename(w) ==
    /\ at[w] = "written"
    /\ \/ /\ target' = w
          /\ temp' = [temp EXCEPT ![w] = NoFile]
          /\ Go(w, "renamed")
          /\ UNCHANGED result
       \/ Discard(w)
    /\ UNCHANGED <<files, parents, opened>>

Return(w) ==
    /\ at[w] = "renamed"
    /\ Ends(w, "written")
    /\ UNCHANGED <<target, temp, files, parents, opened>>

(* The process dies: what it did to the files stays.                       *)
Crash(w) ==
    /\ at[w] \notin {"start", "over"}
    /\ Ends(w, "crashed")
    /\ UNCHANGED <<target, temp, files, parents, opened>>

-----------------------------------------------------------------------------
(* LoadBaseline: the parents and the name are looked up first.             *)
LookUp(r) ==
    /\ at[r] = "start"
    /\ \/ parents = "link" /\ Ends(r, "invalid")
       \/ parents # "link" /\ target = NoFile /\ Ends(r, "no_baseline")
       \/ parents # "link" /\ target # NoFile /\ Go(r, "found") /\ UNCHANGED result
    /\ UNCHANGED <<target, temp, files, parents, opened>>

Open(r) ==
    /\ at[r] = "found"
    /\ \/ Ends(r, "invalid") /\ UNCHANGED opened
       \/ /\ target # NoFile
          /\ opened' = [opened EXCEPT ![r] = target]
          /\ Go(r, "opened")
          /\ UNCHANGED result
    /\ UNCHANGED <<target, temp, files, parents>>

(* decodeBaseline refuses a document that stops short.                     *)
Read(r) ==
    /\ at[r] = "opened"
    /\ Ends(r, IF files[opened[r]].whole THEN "read" ELSE "cut")
    /\ UNCHANGED <<target, temp, files, parents, opened>>

Writer(w) ==
    CheckParents(w) \/ MakeParents(w) \/ Create(w) \/ Write(w) \/ Rename(w) \/ Return(w)

Reader(r) == LookUp(r) \/ Open(r) \/ Read(r)

Next ==
    \/ \E w \in Writers : Writer(w) \/ Crash(w)
    \/ \E r \in Readers : Reader(r)

Spec == Init /\ [][Next]_vars

-----------------------------------------------------------------------------
Processes == Writers \cup Readers

Places == {"start", "checked", "made", "created", "written", "renamed",
           "found", "opened", "over"}

Answers == {"none", "error", "crashed", "written", "invalid", "no_baseline",
            "read", "cut"}

TypeOK ==
    /\ target \in Inodes \cup {NoFile}
    /\ temp \in [Writers -> Inodes \cup {NoFile}]
    /\ files \in [Inodes -> File]
    /\ parents \in {"absent", "directories", "link"}
    /\ at \in [Processes -> Places]
    /\ opened \in [Readers -> Inodes \cup {NoFile}]
    /\ result \in [Processes -> Answers]

(* What the properties rest on: a file is renamed once whole, only over    *)
(* the name of the baseline, and a name that is found is that of a whole   *)
(* file.                                                                   *)
WriterInv(w) ==
    /\ at[w] \in {"checked", "made", "created", "written", "renamed"} =>
         ReportOf[w] # Refused
    /\ at[w] \in {"written", "renamed"} => files[w].whole
    /\ at[w] = "renamed" => temp[w] = NoFile
    /\ temp[w] \in {NoFile, w}
    /\ at[w] # "over" <=> result[w] = "none"
    /\ target = w => /\ files[w].whole
                     /\ ReportOf[w] # Refused
                     /\ \/ at[w] = "renamed"
                        \/ at[w] = "over" /\ result[w] \in {"written", "crashed"}
    /\ result[w] = "written" => files[w].whole /\ temp[w] = NoFile

ReaderInv(r) ==
    /\ opened[r] # NoFile => files[opened[r]].whole
    /\ at[r] = "opened" => opened[r] # NoFile
    /\ result[r] # "cut"

Inductive ==
    /\ TypeOK
    /\ files[Old].whole
    /\ \A w \in Writers : WriterInv(w)
    /\ \A r \in Readers : ReaderInv(r)

-----------------------------------------------------------------------------
(* Properties *)

(* Whoever crashes or fails, the baseline is absent, the old one or a new  *)
(* one, always whole, and never a report that cannot be a baseline; and    *)
(* whoever reads it meanwhile reads it whole (D19).                        *)
AlwaysWhole ==
    /\ target # NoFile => files[target].whole
    /\ target \in Writers => ReportOf[target] # Refused
    /\ \A r \in Readers : result[r] # "cut"

(* Once there is a baseline there always is one, failures and crashes of   *)
(* a writing included.                                                     *)
BaselineStays == [][target # NoFile => target' # NoFile]_vars

(* A command that says it failed never became the baseline, and one that   *)
(* says it wrote did write its report, whole, and left no other name.      *)
SaysWhatItDid ==
    \A w \in Writers :
        /\ result[w] = "error" => target # w
        /\ result[w] = "written" => files[w].whole /\ temp[w] = NoFile
=============================================================================
