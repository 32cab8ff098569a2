----------------------------- MODULE PromptRegistry -----------------------------
(***************************************************************************)
(* The loading of a prompt (internal/llm/prompts/registry.go, LoadFS): a   *)
(* directory with two files, each examined, opened, examined again and     *)
(* read within a limit, while another process may change it.               *)
(***************************************************************************)
EXTENDS Redaction, Schema

CONSTANT MaxSystemBytes

(* What one access to a file finds: its kind and size at Lstat, once open, *)
(* and the content that is read.                                           *)
Content == [name: STRING, wellFormed: BOOLEAN, texts: SUBSET Text, bytes: Nat,
            document: Documents]

File == [kind: {"regular", "directory", "link", "missing", "unreadable"}, size: Nat,
         opens: BOOLEAN, openRegular: BOOLEAN, openSize: Nat,
         reads: BOOLEAN, content: Content]

Access == [idValid: BOOLEAN, dir: {"regular", "directory", "link", "missing", "unreadable"},
           system: File, schema: File]

(* readBounded: at most one byte more than the limit is read.              *)
ReadBounded(f, limit) ==
    /\ f.kind = "regular" /\ f.size <= limit
    /\ f.opens /\ f.openRegular /\ f.openSize <= limit
    /\ f.reads /\ f.content.bytes <= limit

(* checkSystem says whether a text is well formed; what is read of the     *)
(* schema is a document.                                                   *)
Loads(a) ==
    /\ a.idValid
    /\ a.dir = "directory"
    /\ ReadBounded(a.system, MaxSystemBytes)
    /\ ReadBounded(a.schema, MaxSchemaBytes)
    /\ a.system.content.bytes > 0
    /\ a.system.content.wellFormed
    /\ CompileSchema(a.schema.content.document)

(* promptHash frames each part: no two prompts have the same hash.         *)
HashOf(a) == <<a.system.content.name, a.schema.content.name>>

(* A secret in the prompt, or texts too many to tell.                      *)
SecretInPrompt(a) ==
    \/ TextsFail(a.schema.content.document)
    \/ SecretInTexts(a.schema.content.document)
    \/ \E t \in a.system.content.texts \cup a.schema.content.texts : ContainsSecret(t)
=============================================================================
