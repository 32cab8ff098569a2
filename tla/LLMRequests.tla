------------------------------ MODULE LLMRequests ------------------------------
(***************************************************************************)
(* The requests and the answers of the LLM client: what makes messages     *)
(* valid (internal/llm/domain/types.go), how their texts are measured and  *)
(* masked, which tools are admitted, and what an answer is checked against *)
(* (internal/llm/check.go, usage.go).                                      *)
(***************************************************************************)
EXTENDS Redaction, Schema

CONSTANTS TagBytes,         \* the tags around an untrusted block
          MaxSourceIDBytes

ASSUME RequestsAssumption == TagBytes \in Nat /\ MaxSourceIDBytes \in Nat

(* A part is meant to hold a text, or an untrusted block: its source and   *)
(* its content.  An empty text is none.                                    *)
Part == [text: Text, untrusted: {<<>>} \cup (Text \X Text)]

Message == [role: {"user", "assistant", "other"}, parts: Seq(Part)]

ValidPart(p) == (p.text.bytes > 0) # (p.untrusted # <<>>)

ValidMessages(messages) ==
    /\ messages # <<>>
    /\ \A i \in DOMAIN messages :
         /\ messages[i].role \in {"user", "assistant"}
         /\ messages[i].parts # <<>>
         /\ \A j \in DOMAIN messages[i].parts : ValidPart(messages[i].parts[j])

PartsOf(messages) ==
    FlattenSeq([i \in DOMAIN messages |-> messages[i].parts])

HasUntrusted(messages) == \E p \in ToSet(PartsOf(messages)) : p.untrusted # <<>>

TextSize(messages) ==
    LET parts == PartsOf(messages) IN
    SumOver([i \in DOMAIN parts |-> parts[i].text.bytes
                + SumOver([k \in DOMAIN parts[i].untrusted |->
                             parts[i].untrusted[k].bytes])])

-----------------------------------------------------------------------------
(* The messages of a request, masked: the text of a part is masked only    *)
(* when it has no untrusted block.                                         *)
MaskedPart(p) ==
    [text |-> IF p.untrusted = <<>> THEN <<Masked(p.text)>> ELSE <<>>,
     untrusted |-> [k \in DOMAIN p.untrusted |-> Masked(p.untrusted[k])]]

RedactMessages(messages) ==
    LET parts == PartsOf(messages) IN [i \in DOMAIN parts |-> MaskedPart(parts[i])]

TextsOf(masked) == FlattenSeq([i \in DOMAIN masked |-> masked[i].text \o masked[i].untrusted])

MaskedSize(masked) ==
    LET texts == TextsOf(masked) IN
    SumOver([i \in DOMAIN texts |-> MaskedBytes(texts[i])])

(* RenderUntrusted: the source is cut, never empty, and the content is     *)
(* escaped.                                                                *)
RenderedBytes(block) ==
    LET source == MaskedBytes(block[1]) IN
    TagBytes + Min({MaxSourceIDBytes, IF source = 0 THEN 1 ELSE source})
             + MaskedBytes(block[2]) + block[2].of.escapes

(* The messages, as a provider reads them.                                 *)
RenderedPart(p) ==
    SumOver([k \in DOMAIN p.text |-> MaskedBytes(p.text[k])])
      + IF p.untrusted = <<>> THEN 0 ELSE RenderedBytes(p.untrusted)

RenderedMessages(masked) == SumOver([i \in DOMAIN masked |-> RenderedPart(masked[i])])

-----------------------------------------------------------------------------
(* A tool: its name, whether name and description are in their lists, the  *)
(* texts of its name, its description and its raw schema, its schema, and  *)
(* the size of what a provider reads of all that.                          *)
ToolSpec == [name: STRING, admitted: BOOLEAN, texts: SUBSET Text, schema: Documents,
             bytes: Nat]

ToolBytes(tools) == SumOver([i \in DOMAIN tools |-> tools[i].bytes])

CheckTools(tools) ==
    /\ tools # <<>>
    /\ \A i \in DOMAIN tools :
         /\ tools[i].admitted
         /\ \A j \in 1..(i - 1) : tools[j].name # tools[i].name
         /\ \A t \in tools[i].texts : ~ContainsSecret(t)
         /\ ~TextsFail(tools[i].schema) /\ ~SecretInTexts(tools[i].schema)
         /\ CompileSchema(tools[i].schema)

(* An answer is an output, or calls of tools with their inputs.            *)
ToolCall == [name: STRING, input: Documents]

NamesOf(tools) == {tools[i].name : i \in DOMAIN tools}

(* Names of tools are distinct.                                            *)
ToolOf(tools, name) == CHOOSE t \in ToSet(tools) : t.name = name

CheckCall(tools, tc) ==
    IF tc.name \notin NamesOf(tools) THEN "unknown_tool"
    ELSE IF Validate(ToolOf(tools, tc.name).schema, tc.input) THEN "valid"
    ELSE "out_of_schema"

CheckText(schema, output) == IF Validate(schema, output) THEN "valid" ELSE "out_of_schema"

(* checkOutput: the first call that fails says how.                        *)
CheckOutput(schema, tools, r) ==
    LET failed == {i \in DOMAIN r.toolCalls : CheckCall(tools, r.toolCalls[i]) # "valid"}
    IN  CASE r.toolCalls = <<>> -> CheckText(schema, r.output)
          [] r.toolCalls # <<>> /\ failed = {} -> "valid"
          [] r.toolCalls # <<>> /\ failed # {} -> CheckCall(tools, r.toolCalls[Min(failed)])
=============================================================================
