------------------------------ MODULE MCWorker ------------------------------
(* A valid command line, and one refused for each reason.                  *)
EXTENDS Worker

Good == [parsed |-> TRUE, llm |-> "fake", dev |-> TRUE, demoOnce |-> TRUE,
         tenant |-> "customer", addresses |-> TRUE]

MCCommandLines ==
    {Good} \cup
    {[Good EXCEPT !.parsed = FALSE], [Good EXCEPT !.llm = "anthropic"],
     [Good EXCEPT !.llm = "other"], [Good EXCEPT !.dev = FALSE],
     [Good EXCEPT !.demoOnce = FALSE], [Good EXCEPT !.tenant = "system"],
     [Good EXCEPT !.addresses = FALSE]}
=============================================================================
