------------------------------ MODULE MCPaidLoop ------------------------------
(* A small instance of PaidLoop for TLC: one candidate, a call that passes *)
(* the checks and one that the budget of the client refuses, one          *)
(* correction, and counts that are the largest and one too many.           *)
EXTENDS PaidLoop

CONSTANT c1

hot == <<[code |-> "DEMO-MISMATCH", resource |-> "candidate",
          severity |-> "high", rest |-> 0]>>

MCReports == {hot}

MCVerifications ==
    {[state |-> "answered", ok |-> FALSE, findings |-> hot, inBounds |-> TRUE],
     [state |-> "answered", ok |-> TRUE, findings |-> <<>>, inBounds |-> TRUE]}

MCPlaceholderBytes == <<1>>
MCNoPairs == <<>>

(* The schema of the prompt, demo.greeting.v1, and answers in it and not.  *)
Object(members) == [kind |-> "object", members |-> members]

Doc(value) == [bytes |-> 1, json |-> TRUE, admitted |-> TRUE, compiles |-> TRUE,
               tooManyTexts |-> FALSE, value |-> value]

GreetingSchema ==
    Doc(Object(<<<<"type", Str("object")>>,
                 <<"properties", Object(<<<<"greeting", Object(<<<<"type", Str("string")>>>>)>>>>)>>,
                 <<"required", [kind |-> "array", items |-> <<Str("greeting")>>]>>,
                 <<"additionalProperties", [kind |-> "boolean", text |-> "false"]>>>>))

Greeting == Doc(Object(<<<<"greeting", Str("hello")>>>>))
NoGreeting == Doc(Object(<<>>))

MCDocuments == {GreetingSchema, Greeting, NoGreeting}

ContentOf(name) == [name |-> name, wellFormed |-> TRUE, texts |-> {},
                    document |-> GreetingSchema, bytes |-> IF name = "system" THEN 1 ELSE 0]

FileOf(name) == [kind |-> "regular", size |-> 1, opens |-> TRUE, openRegular |-> TRUE,
                 openSize |-> 1, reads |-> TRUE, content |-> ContentOf(name)]

TextOf(bytes) == [bytes |-> bytes, protected |-> {}, candidates |-> {}, escapes |-> 0]

(* What the activity asks: an instruction, and the target as an untrusted  *)
(* block.                                                                  *)
DemoMessage ==
    [role |-> "user",
     parts |-> <<[text |-> TextOf(1), untrusted |-> <<>>],
                 [text |-> TextOf(0), untrusted |-> <<TextOf(1), TextOf(1)>>]>>]

MCCalls ==
    {[ctx |-> <<[canonical |-> TRUE, special |-> "no", version4 |-> TRUE,
                 rfcVariant |-> TRUE]>>,
      withTools |-> FALSE, messages |-> <<DemoMessage>>, maxTokens |-> n,
      tools |-> <<>>, promptHash |-> <<"system", "schema">>,
      prompt |-> [idValid |-> TRUE, dir |-> "directory", system |-> FileOf("system"),
                  schema |-> FileOf("schema")],
      resolves |-> TRUE,
      policy |-> [route |-> [platform |-> "fake", region |-> "",
                             model |-> [form |-> "generic", realDate |-> FALSE,
                                        floating |-> FALSE, geo |-> ""]],
                  residency |-> "eu", retention |-> "zero"],
      requiresRetention |-> FALSE] : n \in {2, MaxTokensPerCall + 1}}

(* In the schema, out of it, or a call of a tool that there is not.        *)
MCContents ==
    [output: {Greeting, NoGreeting}, toolCalls: {<<>>}]
    \cup {[output |-> Greeting, toolCalls |-> <<[name |-> "t", input |-> Greeting]>>]}

MCCounts == {MaxReportedTokens, MaxReportedTokens + 1}

MCBudget == [names |-> "valid", strategies |-> 1, maxIterations |-> 3,
             maxTokens |-> 5, maxWallTime |-> 1, switchAfter |-> 2,
             escalateAfter |-> 3, activityTimeout |-> 1, payloadAdmitted |-> TRUE]
=============================================================================
