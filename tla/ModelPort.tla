------------------------------ MODULE ModelPort ------------------------------
(***************************************************************************)
(* What a provider of a model promises to each of its callers              *)
(* (internal/llm/ports/provider.go): a call is put to the model at most    *)
(* once, only if it is one that this provider may put to it, and is        *)
(* answered from that one time or not at all; a refused call never         *)
(* reaches the model.                                                      *)
(***************************************************************************)
EXTENDS Naturals

CONSTANTS Callers, None

VARIABLES
    asked,      \* what each caller asks: its own platform or not, lawful or not
    sent,       \* times its call was put to the model
    outcome     \* none, refused, failed, answered

portVars == <<asked, sent, outcome>>

Asked == [platform: {"own", "other"}, withTools: BOOLEAN, untrusted: BOOLEAN,
          valid: BOOLEAN]

Init ==
    /\ asked = [k \in Callers |-> None]
    /\ sent = [k \in Callers |-> 0]
    /\ outcome = [k \in Callers |-> "none"]

(* No route of another platform, no untrusted text beside tools.           *)
Lawful(a) ==
    /\ a.platform = "own"
    /\ ~(a.withTools /\ a.untrusted)
    /\ a.valid

(* A call may be refused as soon as it is made.                            *)
Ask(k) ==
    /\ asked[k] = None
    /\ \E a \in Asked : asked' = [asked EXCEPT ![k] = a]
    /\ outcome' \in {outcome, [outcome EXCEPT ![k] = "refused"]}
    /\ UNCHANGED sent

Pending(k) == asked[k] # None /\ outcome[k] = "none"

Refuse(k) ==
    /\ Pending(k)
    /\ sent[k] = 0
    /\ outcome' = [outcome EXCEPT ![k] = "refused"]
    /\ UNCHANGED <<asked, sent>>

Submit(k) ==
    /\ Pending(k)
    /\ sent[k] = 0
    /\ Lawful(asked[k])
    /\ sent' = [sent EXCEPT ![k] = 1]
    /\ UNCHANGED <<asked, outcome>>

Answer(k) ==
    /\ Pending(k)
    /\ sent[k] = 1
    /\ outcome' \in {[outcome EXCEPT ![k] = o] : o \in {"failed", "answered"}}
    /\ UNCHANGED <<asked, sent>>

Next == \E k \in Callers : Ask(k) \/ Refuse(k) \/ Submit(k) \/ Answer(k)

Spec == Init /\ [][Next]_portVars
=============================================================================
