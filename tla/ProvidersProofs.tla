---------------------------- MODULE ProvidersProofs ----------------------------
(***************************************************************************)
(* Both providers of a model keep the contract of the port, for every      *)
(* configuration, call, answer and number of callers; the answer of the    *)
(* adapter is whole, and the fake one answers each step of a script once.  *)
(***************************************************************************)
EXTENDS Providers, FiniteSetTheorems, TLAPS

-----------------------------------------------------------------------------
(* The adapter *)

Untouched == requests = 0 /\ taken = 0 /\ held = 0

(* The body, while it is read: what is left of the cap is what was not     *)
(* taken yet.                                                              *)
Reading == /\ response \in Responses /\ response.status # "redirect"
           /\ held \in Nat /\ taken = held
           /\ left \in Nat /\ left + held = MaxResponseBytes
           /\ held <= response.size

Admitted == /\ call \in Calls
            /\ call.route = "anthropic" /\ ~(call.withTools /\ call.untrusted)
            /\ ValidRequest(call)

Adapter ==
    /\ where \in {"unmade", "idle", "built", "waiting", "reading", "over"}
    /\ where # "over" => outcome = "none"
    /\ where \in {"unmade", "idle", "built"} => Untouched
    /\ where \in {"built", "waiting", "reading"} => Admitted
    /\ where \in {"waiting", "reading"} => requests = 1
    /\ where = "waiting" => taken = 0 /\ held = 0
    /\ where = "reading" => Reading
    /\ AnswerIsWhole

(* A call that fails is over, with an error of its own: nothing is tried   *)
(* again.                                                                  *)
LEMMA FailureIsFinal ==
    ASSUME Adapter, NEW kind, Fails(kind), where \in {"built", "waiting", "reading"},
           kind \in {"redirect", "too_large", "transport", "timeout", "api", "reencoded"},
           where = "built" => ctxDone \/ kind = "reencoded"
    PROVE  where' = "over" /\ outcome' \in {"context", kind}
<1>1. ~(Retried(kind) /\ ~ctxDone)
  BY DEF Adapter, Retried, MaxRetries
<1> QED
  BY <1>1 DEF Fails

LEMMA AdapterInit == Init => Adapter
  BY ProviderAssumption DEF Init, Adapter, Untouched, AnswerIsWhole

LEMMA SendStep == ASSUME Adapter, Send PROVE Adapter'
<1>1. where = "built" /\ Untouched /\ Admitted
  BY DEF Send, Adapter
<1>2. CASE VerifiedBytes
  BY <1>1, <1>2, ProviderAssumption
  DEF Send, Adapter, Untouched, Admitted, AnswerIsWhole
<1>3. CASE ~VerifiedBytes
  <2>1. where' = "over" /\ outcome' \in {"context", "reencoded"}
    BY <1>1, <1>3, FailureIsFinal DEF Send
  <2> QED
    BY <1>1, <1>3, <2>1, ProviderAssumption DEF Send, Adapter, Untouched, AnswerIsWhole
<1> QED
  BY <1>2, <1>3

LEMMA RespondStep == ASSUME Adapter, NEW r \in Responses, Respond(r) PROVE Adapter'
<1>1. /\ where = "waiting" /\ taken = 0 /\ held = 0 /\ requests = 1 /\ Admitted
      /\ outcome = "none"
  BY DEF Respond, Adapter
<1>2. r.size \in Nat /\ r.declared \in {-1, r.size} /\ MaxResponseBytes \in Nat
  BY ProviderAssumption DEF Response
<1>3. CASE where' = "reading"
  <2>1. left' = MaxResponseBytes /\ outcome' = outcome
    BY <1>1, <1>3, FailureIsFinal DEF Respond
  <2>2. Reading'
    BY <1>1, <1>2, <1>3, <2>1, FailureIsFinal DEF Respond, Reading
  <2> QED
    BY <1>1, <1>2, <1>3, <2>1, <2>2 DEF Respond, Adapter, Admitted, AnswerIsWhole
<1>4. CASE where' # "reading"
  <2>1. /\ where' = "over"
        /\ \/ outcome' \in {"context", "redirect"}
           \/ outcome' \in {"context", "too_large"} /\ r.declared > MaxResponseBytes
    BY <1>1, <1>4, FailureIsFinal DEF Respond
  <2>2. AnswerIsWhole'
    BY <1>1, <1>2, <2>1 DEF Respond, AnswerIsWhole
  <2> QED
    BY <1>4, <2>1, <2>2 DEF Adapter
<1> QED
  BY <1>3, <1>4

LEMMA BreakStep == ASSUME Adapter, NetworkFails PROVE Adapter'
<1>1. where' = "over" /\ outcome' \in {"context", "timeout", "transport"}
  BY FailureIsFinal DEF NetworkFails
<1>2. AnswerIsWhole'
  BY <1>1 DEF NetworkFails, Adapter, AnswerIsWhole
<1> QED
  BY <1>1, <1>2 DEF Adapter

LEMMA ReadStep == ASSUME Adapter, NEW n \in 1..MaxRead, Read(n) PROVE Adapter'
<1>1. Reading /\ Admitted /\ requests = 1 /\ where = "reading" /\ outcome = "none"
  BY DEF Read, Adapter
<1>2. n \in Nat /\ MaxResponseBytes \in Nat /\ response.size \in Nat
  BY <1>1, ProviderAssumption DEF Reading, Response
<1>3. Reading'
  BY <1>1, <1>2 DEF Read, Reading, RoomAfter
<1>4. AnswerIsWhole'
  BY <1>1, <1>2, <1>3 DEF Read, AnswerIsWhole, Reading
<1> QED
  BY <1>1, <1>3, <1>4 DEF Read, Adapter, Admitted

LEMMA TooLargeStep == ASSUME Adapter, TooLarge PROVE Adapter'
<1>1. Reading /\ requests = 1
  BY DEF TooLarge, Adapter
<1>2. MaxResponseBytes \in Nat /\ response.size \in Nat
  BY <1>1, ProviderAssumption DEF Reading, Response
<1>3. where' = "over" /\ outcome' \in {"context", "too_large", "timeout"}
  BY FailureIsFinal DEF TooLarge
<1>4. AnswerIsWhole'
  BY <1>1, <1>2, <1>3 DEF TooLarge, EndOfBody, Reading, AnswerIsWhole
<1> QED
  BY <1>3, <1>4 DEF Adapter

(* Only a judgement gives a response.                                      *)
LEMMA JudgedGood ==
    ASSUME Adapter, where = "reading", Judgement(response) = "response"
    PROVE  /\ response.output \in 0..call.maxTokens
           /\ \A i \in DOMAIN response.content :
                response.content[i] = "offered" => call.withTools
<1>1. response.output \in Int /\ call.maxTokens \in Int
  BY ProviderAssumption DEF Adapter, Reading, Admitted, Response, Call
<1>2. ~(response.output < 0 \/ response.output > call.maxTokens)
  BY DEF Judgement
<1>3. ~\E i \in DOMAIN response.content :
         response.content[i] = "offered" /\ ~call.withTools
  BY DEF Judgement
<1> QED
  BY <1>1, <1>2, <1>3

LEMMA FinishStep == ASSUME Adapter, Finish PROVE Adapter'
<1>1. Reading /\ requests = 1 /\ where = "reading"
  BY DEF Finish, Adapter
<1>2. response \in Response /\ MaxResponseBytes \in Nat
  BY <1>1, ProviderAssumption DEF Reading
<1>3. held = response.size /\ held <= MaxResponseBytes
  BY <1>1, <1>2 DEF Finish, EndOfBody, Reading, Response
<1>4. /\ where' = "over"
      /\ \/ outcome' \in {"context", "api", "transport"}
         \/ response.status = "ok" /\ outcome' = Judgement(response)
  <2>1. CASE response.status = "error"
    BY <1>1, <2>1, FailureIsFinal DEF Finish
  <2>2. CASE response.status = "ok" /\ ~Decodes
    BY <1>1, <2>2, FailureIsFinal DEF Finish
  <2>3. CASE response.status = "ok" /\ Decodes
    BY <2>3 DEF Finish
  <2>4. response.status # "redirect"
    BY <1>1 DEF Reading
  <2> QED
    BY <1>2, <2>1, <2>2, <2>3, <2>4 DEF Response
<1>5. Judgement(response) # "too_large"
  BY DEF Judgement
<1>6. AnswerIsWhole'
  BY <1>1, <1>2, <1>3, <1>4, <1>5, JudgedGood
  DEF Finish, AnswerIsWhole, Reading, Response
<1> QED
  BY <1>4, <1>6 DEF Adapter

LEMMA AdapterStep == ASSUME Adapter, [Next]_vars PROVE Adapter'
<1>1. ASSUME NEW c \in Configs, New(c) PROVE Adapter'
  BY <1>1 DEF New, Adapter, Untouched, AnswerIsWhole
<1>2. ASSUME NEW c \in Calls, Start(c) PROVE Adapter'
  <2>1. Refusal(c) \in {"context", "wrong_platform", "untrusted_with_tools",
                        "invalid_request", "none"}
    BY DEF Refusal
  <2>2. Refusal(c) = "none" =>
          c.route = "anthropic" /\ ~(c.withTools /\ c.untrusted) /\ ValidRequest(c)
    BY DEF Refusal
  <2>3. AnswerIsWhole'
    BY <1>2, <2>1 DEF Start, Adapter, Untouched, AnswerIsWhole
  <2>4. where' = "built" => Admitted'
    BY <1>2, <2>2 DEF Start, Admitted
  <2> QED
    BY <1>2, <2>3, <2>4 DEF Start, Adapter, Untouched
<1>3. CASE GiveUp \/ TimeOut \/ UNCHANGED vars
  BY <1>3 DEF GiveUp, TimeOut, vars, Adapter, Untouched, Admitted, Reading, AnswerIsWhole
<1> QED
  BY <1>1, <1>2, <1>3, SendStep, RespondStep, BreakStep, ReadStep, TooLargeStep, FinishStep
  DEF Next

(* For every answer of the server, every cap and every break of the        *)
(* connection, a response comes from the whole body of a good answer, and  *)
(* no more than the cap is kept.                                           *)
THEOREM ResponseIsWhole == ProvidersSpec => []AnswerIsWhole
<1>1. ProvidersInit => Adapter
  BY AdapterInit DEF ProvidersInit
<1>2. Adapter /\ [ProvidersNext]_<<llm, vars, fakeVars>> => Adapter'
  BY AdapterStep DEF ProvidersNext
<1>3. Adapter => AnswerIsWhole
  BY DEF Adapter
<1> QED
  BY <1>1, <1>2, <1>3, PTL DEF ProvidersSpec

-----------------------------------------------------------------------------
(* The fake provider *)

(* The instance has its own operators of the libraries.                    *)
LEMMA SameOperators ==
    /\ \A S : Fake!Cardinality(S) = Cardinality(S)
    /\ \A s : Fake!ToSet(s) = ToSet(s)
  BY DEF Fake!Cardinality, Cardinality, Fake!ToSet, ToSet

Refusals == {"context", "wrong_platform", "untrusted_with_tools", "invalid_request"}

Found == {"response", "scripted_error", "no_recording", "exhausted"}

(* The callers answered with a step of the script of p, and all those that *)
(* were not refused.                                                       *)
Stepped(p) ==
    {k \in Callers : /\ result[k] \in {"response", "scripted_error"}
                     /\ request[k].prompt = p
                     /\ Fake!RecordingsOf(request[k]) = {}}

LookedUp == {k \in Callers : at[k] \in {"look", "take"} \/ result[k] \in Found}

Types ==
    /\ made \in {"no", "yes", "refused"}
    /\ at \in [Callers -> {"idle", "lock", "check", "look", "take", "over"}]
    /\ request \in [Callers -> Requests \cup {NoOne}]
    /\ \A k \in Callers : at[k] # "idle" => request[k] \in Requests
    /\ result \in [Callers -> Refusals \cup Found \cup {"none"}]
    /\ step \in [Callers -> Nat]
    /\ scripts \in [Prompts -> {NoOne} \cup Seq(Fake!Step)]
    /\ cursors \in [Prompts -> Nat]
    /\ given \in [Prompts -> Seq(Nat)]
    /\ calls \in Seq(Callers)
    /\ invocations \in Nat

Fresh ==
    /\ \A k \in Callers : at[k] = "idle"
    /\ \A p \in Prompts : cursors[p] = 0

(* A script is answered up to its cursor, in its order.                    *)
Cursor ==
    \A p \in Prompts :
        /\ given[p] = [i \in 1..cursors[p] |-> i]
        /\ scripts[p] = NoOne => cursors[p] = 0
        /\ scripts[p] # NoOne => cursors[p] <= Len(scripts[p])
        /\ cursors[p] = Cardinality(Stepped(p))

Mutex == \A k \in Callers : at[k] \in {"check", "look", "take"} => mu = k

LawfulRequest(r) ==
    r.platform = "own" /\ ~(r.withTools /\ r.untrusted) /\ r.valid

Progress ==
    \A k \in Callers :
        /\ at[k] # "over" <=> result[k] = "none"
        /\ at[k] \in {"look", "take"} => LawfulRequest(request[k])
        /\ at[k] = "take" =>
             /\ scripts[request[k].prompt] # NoOne
             /\ step[k] = cursors[request[k].prompt]
             /\ step[k] < Len(scripts[request[k].prompt])
             /\ Fake!RecordingsOf(request[k]) = {}
        /\ result[k] = "exhausted" =>
             /\ scripts[request[k].prompt] # NoOne
             /\ cursors[request[k].prompt] = Len(scripts[request[k].prompt])

Record ==
    /\ ToSet(calls) = LookedUp
    /\ Len(calls) = Cardinality(LookedUp)
    /\ Len(calls) <= invocations
    /\ \A k \in Callers : at[k] = "check" => Len(calls) < invocations

FakeInv ==
    /\ Types
    /\ made # "yes" => Fresh
    /\ Cursor /\ Mutex /\ Progress /\ Record

LEMMA FiniteSets ==
    /\ IsFiniteSet(LookedUp) /\ \A p : IsFiniteSet(Stepped(p))
  <1>1. LookedUp \subseteq Callers /\ \A p : Stepped(p) \subseteq Callers
    BY DEF LookedUp, Stepped
  <1> QED
    BY <1>1, FS_Subset, ProvidersAssumption

LEMMA FakeInit == Fake!Init => FakeInv
<1> SUFFICES ASSUME Fake!Init PROVE FakeInv
  OBVIOUS
<1>1. \A k \in Callers : at[k] = "idle" /\ result[k] = "none" /\ request[k] = NoOne
  BY DEF Fake!Init
<1>2. LookedUp = {} /\ \A p : Stepped(p) = {}
  BY <1>1 DEF LookedUp, Stepped, Found
<1>3. Cardinality(LookedUp) = 0 /\ \A p : Cardinality(Stepped(p)) = 0
  BY <1>2, FS_EmptySet
<1>4. Types /\ Fresh /\ Mutex /\ Progress
  BY <1>1 DEF Fake!Init, Types, Fresh, Mutex, Progress, Found, Refusals
<1>5. \A p \in Prompts : given[p] = <<>> /\ cursors[p] = 0
  BY DEF Fake!Init
<1>6. Cursor
  <2>1. \A p \in Prompts : scripts[p] = NoOne
    BY DEF Fake!Init
  <2>2. <<>> = [i \in 1..0 |-> i]
    OBVIOUS
  <2> QED
    BY <1>3, <1>5, <2>1, <2>2 DEF Cursor
<1>7. Record
  <2>1. calls = <<>> /\ invocations = 0
    BY DEF Fake!Init
  <2>2. ToSet(calls) = {}
    BY <2>1 DEF ToSet
  <2> QED
    BY <1>1, <1>2, <1>3, <2>1, <2>2 DEF Record
<1> QED
  BY <1>4, <1>6, <1>7 DEF FakeInv

(* What a new provider is made of is well typed, and nothing was asked of  *)
(* it yet.                                                                 *)
LEMMA MadeStep ==
    ASSUME FakeInv, made = "no", made' \in {"yes", "refused"},
           scripts' = scripts \/ scripts' \in [Prompts -> {NoOne} \cup Seq(Fake!Step)],
           UNCHANGED <<cursors, mu, invocations, calls, at, request, over, step, result,
                       given>>
    PROVE  FakeInv'
<1>1. Fresh /\ Types /\ Progress
  BY DEF FakeInv
<1>2. LookedUp' = LookedUp
  BY DEF LookedUp
<1>3. \A p : Stepped(p) = {} /\ Stepped(p)' = {}
  BY <1>1 DEF Stepped, Fresh, Progress
<1>4. Types' /\ Fresh'
  BY <1>1 DEF Types, Fresh
<1>5. \A p \in Prompts : cursors[p] = 0 /\ cursors'[p] = 0
                         /\ (scripts'[p] # NoOne => Len(scripts'[p]) \in Nat)
  BY <1>1, <1>4 DEF Fresh, Types
<1>6. Cursor'
  <2> SUFFICES ASSUME NEW p \in Prompts
               PROVE  /\ given'[p] = [i \in 1..cursors'[p] |-> i]
                      /\ scripts'[p] = NoOne => cursors'[p] = 0
                      /\ scripts'[p] # NoOne => cursors'[p] <= Len(scripts'[p])
                      /\ cursors'[p] = Cardinality(Stepped(p)')
    BY DEF Cursor
  <2>1. given[p] = [i \in 1..cursors[p] |-> i]
    BY DEF FakeInv, Cursor
  <2>2. Cardinality(Stepped(p)') = 0
    BY <1>3, FS_EmptySet
  <2> QED
    BY <1>5, <2>1, <2>2
<1>7. Mutex' /\ Progress'
  BY <1>1 DEF Fresh, Mutex, Progress, FakeInv
<1>8. Record'
  BY <1>2 DEF Record, FakeInv
<1> QED
  BY <1>4, <1>6, <1>7, <1>8 DEF FakeInv

LEMMA NewStep == ASSUME FakeInv, NEW opt \in OptionSets, Fake!New(opt) PROVE FakeInv'
<1>1. opt.scripts \in [Prompts -> {NoOne} \cup Seq(Fake!Step)]
  BY ProvidersAssumption DEF Fake!Options
<1> QED
  BY <1>1, MadeStep DEF Fake!New

LEMMA LoadStep == ASSUME FakeInv, NEW f \in Files, Fake!Load(f) PROVE FakeInv'
<1>1. f.scripts \in [Prompts -> {NoOne} \cup Seq(Fake!Step)]
  BY ProvidersAssumption DEF Fake!File
<1>2. Fake!OptionsOf(f).scripts \in [Prompts -> {NoOne} \cup Seq(Fake!Step)]
  BY <1>1 DEF Fake!OptionsOf
<1> QED
  BY <1>2, MadeStep DEF Fake!Load, Fake!New

-----------------------------------------------------------------------------
(* A step of one caller that neither takes a step of a script nor is       *)
(* recorded.                                                               *)
LEMMA QuietStep ==
    ASSUME FakeInv, made = "yes",
           UNCHANGED <<recordings, scripts, cursors, made, calls, step, given>>,
           Types', Mutex', Progress',
           LookedUp' = LookedUp, \A p \in Prompts : Stepped(p)' = Stepped(p),
           invocations' >= invocations,
           \A k \in Callers : at'[k] = "check" => Len(calls) < invocations'
    PROVE  FakeInv'
<1>1. Cursor'
  BY DEF Cursor, FakeInv
<1>2. Record'
  BY DEF Record, FakeInv, Types
<1> QED
  BY <1>1, <1>2 DEF FakeInv

LEMMA AskStep == ASSUME FakeInv, NEW k \in Callers, Fake!Ask(k) PROVE FakeInv'
<1>1. PICK r \in Requests : request' = [request EXCEPT ![k] = r]
  BY DEF Fake!Ask
<1>2. Types /\ Mutex /\ Progress /\ Record
  BY DEF FakeInv
<1>3. Types'
  BY <1>1, <1>2 DEF Fake!Ask, Types
<1>4. result[k] = "none"
  BY <1>2 DEF Fake!Ask, Progress
<1>5. Mutex' /\ Progress'
  BY <1>1, <1>2, <1>4 DEF Fake!Ask, Types, Mutex, Progress, Fake!RecordingsOf, LawfulRequest
<1>6. LookedUp' = LookedUp
  BY <1>2, <1>4 DEF Fake!Ask, Types, LookedUp
<1>7. \A p \in Prompts : Stepped(p)' = Stepped(p)
  BY <1>1, <1>2, <1>4 DEF Fake!Ask, Types, Stepped, Fake!RecordingsOf
<1>8. \A j \in Callers : at'[j] = "check" => Len(calls) < invocations'
  BY <1>2 DEF Fake!Ask, Types, Record
<1> QED
  BY <1>2, <1>3, <1>5, <1>6, <1>7, <1>8, QuietStep DEF Fake!Ask, Types

LEMMA LockStep == ASSUME FakeInv, NEW k \in Callers, Fake!Lock(k) PROVE FakeInv'
<1>1. Types /\ Mutex /\ Progress /\ Record
  BY DEF FakeInv
<1>2. made = "yes"
  BY DEF FakeInv, Fresh, Fake!Lock
<1>3. Types'
  BY <1>1 DEF Fake!Lock, Types
<1>4. Mutex' /\ Progress'
  BY <1>1, ProvidersAssumption
  DEF Fake!Lock, Fake!Free, Types, Mutex, Progress, Fake!RecordingsOf, LawfulRequest
<1>5. LookedUp' = LookedUp
  BY <1>1 DEF Fake!Lock, Types, LookedUp
<1>6. \A p \in Prompts : Stepped(p)' = Stepped(p)
  BY DEF Fake!Lock, Stepped, Fake!RecordingsOf
<1>7. \A j \in Callers : at'[j] = "check" => Len(calls) < invocations'
  BY <1>1 DEF Fake!Lock, Types, Record
<1> QED
  BY <1>1, <1>2, <1>3, <1>4, <1>5, <1>6, <1>7, QuietStep DEF Fake!Lock, Types

LEMMA GiveUpStep == ASSUME FakeInv, NEW k \in Callers, Fake!GiveUp(k) PROVE FakeInv'
<1>1. LookedUp' = LookedUp /\ \A p : Stepped(p)' = Stepped(p)
  BY DEF Fake!GiveUp, LookedUp, Stepped, Fake!RecordingsOf
<1>2. Types' /\ Mutex' /\ Progress'
  BY DEF Fake!GiveUp, FakeInv, Types, Mutex, Progress, Fake!RecordingsOf, LawfulRequest
<1> QED
  BY <1>1, <1>2, QuietStep DEF Fake!GiveUp, FakeInv, Types, Record

LEMMA AppendAdds ==
    ASSUME NEW S, NEW s \in Seq(S), NEW e
    PROVE  ToSet(Append(s, e)) = ToSet(s) \cup {e} /\ Len(Append(s, e)) = Len(s) + 1
<1> DEFINE t == Append(s, e)
<1>1. /\ DOMAIN s = 1..Len(s) /\ Len(s) \in Nat
      /\ DOMAIN t = 1..(Len(s) + 1) /\ Len(t) = Len(s) + 1
      /\ \A i \in 1..Len(s) : t[i] = s[i]
      /\ t[Len(s) + 1] = e
  OBVIOUS
<1> HIDE DEF t
<1>2. \A i \in DOMAIN t : i \in DOMAIN s \/ i = Len(s) + 1
  BY <1>1
<1>3. {t[i] : i \in DOMAIN t} = {s[i] : i \in DOMAIN s} \cup {e}
  BY <1>1, <1>2
<1> QED
  BY <1>1, <1>3 DEF ToSet, t

(* A caller that is refused leaves nothing behind.                         *)
LEMMA CheckStep == ASSUME FakeInv, NEW k \in Callers, Fake!Check(k) PROVE FakeInv'
<1>1. Types /\ Mutex /\ Progress /\ Record
  BY DEF FakeInv
<1>2. made = "yes" /\ at[k] = "check" /\ result[k] = "none" /\ mu = k
  BY DEF FakeInv, Fresh, Fake!Check, Progress, Mutex
<1>3. \A j \in Callers \ {k} : at[j] \notin {"check", "look", "take"}
  BY <1>1, <1>2 DEF Mutex
<1>4. k \notin LookedUp
  BY <1>2 DEF LookedUp, Found
<1>5. CASE Fake!Refusal(k) = "none"
  <2>1. /\ calls' = Append(calls, k) /\ at' = [at EXCEPT ![k] = "look"]
        /\ UNCHANGED <<mu, result>>
    BY <1>5 DEF Fake!Check
  <2>2. LawfulRequest(request[k])
    BY <1>5 DEF Fake!Refusal, LawfulRequest
  <2>3. LookedUp' = LookedUp \cup {k}
    BY <1>1, <2>1 DEF LookedUp, Types
  <2>4. Cardinality(LookedUp') = Cardinality(LookedUp) + 1
    BY <1>4, <2>3, FiniteSets, FS_AddElement
  <2>5. ToSet(calls') = ToSet(calls) \cup {k} /\ Len(calls') = Len(calls) + 1
    BY <1>1, <2>1, AppendAdds DEF Types
  <2>6. Record'
    BY <1>1, <1>2, <1>3, <2>1, <2>3, <2>4, <2>5 DEF Record, Fake!Check, Types
  <2>7. \A p \in Prompts : Stepped(p)' = Stepped(p)
    BY <2>1 DEF Fake!Check, Stepped, Fake!RecordingsOf
  <2>8. Cursor'
    BY <2>7 DEF Cursor, FakeInv, Fake!Check
  <2>9. Types' /\ Mutex' /\ Progress'
    BY <1>1, <1>2, <2>1, <2>2
    DEF Fake!Check, Types, Mutex, Progress, Fake!RecordingsOf, LawfulRequest
  <2> QED
    BY <1>2, <2>6, <2>8, <2>9 DEF FakeInv, Fake!Check
<1>6. CASE Fake!Refusal(k) # "none"
  <2>1. /\ at' = [at EXCEPT ![k] = "over"] /\ mu' = NoOne /\ calls' = calls
        /\ result' = [result EXCEPT ![k] = Fake!Refusal(k)]
    BY <1>6 DEF Fake!Check, Fake!Unlock
  <2>2. Fake!Refusal(k) \in Refusals
    BY <1>6 DEF Fake!Refusal, Refusals
  <2> HIDE DEF Fake!Refusal
  <2>3. LookedUp' = LookedUp
    BY <1>1, <1>2, <2>1, <2>2 DEF LookedUp, Types, Found, Refusals
  <2>4. \A p \in Prompts : Stepped(p)' = Stepped(p)
    BY <1>1, <1>2, <2>1, <2>2 DEF Fake!Check, Stepped, Fake!RecordingsOf, Types, Refusals
  <2>5. Types'
    BY <1>1, <2>1, <2>2 DEF Fake!Check, Types
  <2>6. Mutex'
    BY <1>3, <2>1, <1>1 DEF Mutex, Types
  <2>7. Progress'
    BY <1>1, <2>1, <2>2, <1>2
    DEF Fake!Check, Progress, Types, Fake!RecordingsOf, LawfulRequest, Refusals
  <2> QED
    BY <1>1, <1>2, <1>3, <2>1, <2>3, <2>4, <2>5, <2>6, <2>7, QuietStep
    DEF Fake!Check, Types
<1> QED
  BY <1>5, <1>6

(* A caller answered without a step of the script, or told that none is    *)
(* left.                                                                   *)
LEMMA UnlockStep ==
    ASSUME FakeInv, made = "yes", NEW k \in Callers, at[k] = "look",
           NEW res \in Found, Fake!Unlock(k, res),
           UNCHANGED <<recordings, scripts, cursors, made, invocations, calls, request,
                       over, given, step>>,
           res \in {"response", "scripted_error"} => Fake!RecordingsOf(request[k]) # {},
           res = "exhausted" =>
             /\ scripts[request[k].prompt] # NoOne
             /\ cursors[request[k].prompt] = Len(scripts[request[k].prompt])
    PROVE  FakeInv'
<1>1. Types /\ Mutex /\ Progress /\ Record
  BY DEF FakeInv
<1>2. mu = k /\ \A j \in Callers \ {k} : at[j] \notin {"check", "look", "take"}
  BY <1>1 DEF Mutex
<1>3. /\ at' = [at EXCEPT ![k] = "over"] /\ mu' = NoOne
      /\ result' = [result EXCEPT ![k] = res]
  BY DEF Fake!Unlock
<1>4. result[k] = "none"
  BY <1>1 DEF Progress
<1>5. Types'
  BY <1>1, <1>3 DEF Types
<1>6. Mutex'
  BY <1>1, <1>2, <1>3 DEF Mutex, Types
<1>7. res # "none"
  BY DEF Found
<1>8. Progress'
  BY <1>1, <1>3, <1>7 DEF Progress, Types, Fake!RecordingsOf, LawfulRequest
<1>9. LookedUp' = LookedUp
  BY <1>1, <1>3 DEF LookedUp, Types
<1>10. \A p \in Prompts : Stepped(p)' = Stepped(p)
  BY <1>1, <1>3, <1>4 DEF Stepped, Types, Fake!RecordingsOf
<1> QED
  BY <1>1, <1>2, <1>3, <1>5, <1>6, <1>8, <1>9, <1>10, QuietStep DEF Types

LEMMA LookUpStep == ASSUME FakeInv, NEW k \in Callers, Fake!LookUp(k) PROVE FakeInv'
<1> DEFINE r == request[k]
           steps == scripts[r.prompt]
<1>1. Types /\ Mutex /\ Progress /\ Record /\ Cursor
  BY DEF FakeInv
<1>2. made = "yes" /\ at[k] = "look"
  BY DEF FakeInv, Fresh, Fake!LookUp
<1>3. r \in Fake!Request /\ r.prompt \in Prompts
  BY <1>1, <1>2, ProvidersAssumption DEF Types, Fake!Request
<1>4. UNCHANGED <<recordings, scripts, cursors, made, invocations, calls, request, over,
                  given>>
  BY DEF Fake!LookUp
<1>5. CASE \E x \in Fake!RecordingsOf(r) : Fake!Unlock(k, Fake!Answer(x.step)) /\ UNCHANGED step
  <2>1. PICK x \in Fake!RecordingsOf(r) : Fake!Unlock(k, Fake!Answer(x.step)) /\ UNCHANGED step
    BY <1>5
  <2>2. Fake!Answer(x.step) \in {"response", "scripted_error"}
    BY DEF Fake!Answer
  <2> HIDE DEF Fake!Answer
  <2>3. Fake!Answer(x.step) \in Found
    BY <2>2 DEF Found
  <2> QED
    BY <1>2, <1>4, <2>1, <2>2, <2>3, UnlockStep
<1>6. CASE steps = NoOne /\ Fake!Unlock(k, "no_recording") /\ UNCHANGED step
  BY <1>2, <1>4, <1>6, UnlockStep DEF Found
<1>7. CASE /\ steps # NoOne /\ cursors[r.prompt] >= Len(steps)
           /\ Fake!Unlock(k, "exhausted") /\ UNCHANGED step
  <2>1. cursors[r.prompt] = Len(steps)
    BY <1>1, <1>3, <1>7 DEF Cursor, Types
  <2> QED
    BY <1>2, <1>4, <1>7, <2>1, UnlockStep DEF Found
<1>8. CASE /\ Fake!RecordingsOf(r) = {}
           /\ steps # NoOne /\ cursors[r.prompt] < Len(steps)
           /\ step' = [step EXCEPT ![k] = cursors[r.prompt]]
           /\ at' = [at EXCEPT ![k] = "take"]
           /\ UNCHANGED <<mu, result>>
  <2>1. \A j \in Callers \ {k} : at[j] \notin {"check", "look", "take"}
    BY <1>1, <1>2 DEF Mutex
  <2>2. Types'
    <3>1. cursors[r.prompt] \in Nat
      BY <1>1, <1>3 DEF Types
    <3>2. step' \in [Callers -> Nat]
      BY <1>1, <1>8, <3>1 DEF Types
    <3>3. at' \in [Callers -> {"idle", "lock", "check", "look", "take", "over"}]
      BY <1>1, <1>8 DEF Types
    <3>4. \A j \in Callers : at'[j] # "idle" => request[j] \in Requests
      BY <1>1, <1>2, <1>8 DEF Types
    <3> QED
      BY <1>1, <1>4, <1>8, <3>2, <3>3, <3>4 DEF Types
  <2>3. Mutex'
    BY <1>1, <1>2, <1>8 DEF Mutex, Types
  <2>4. Progress'
    BY <1>1, <1>2, <1>3, <1>4, <1>8, <2>1 DEF Progress, Types, Fake!RecordingsOf, LawfulRequest
  <2>5. LookedUp' = LookedUp
    BY <1>1, <1>2, <1>8 DEF LookedUp, Types
  <2>6. \A p \in Prompts : Stepped(p)' = Stepped(p)
    BY <1>4, <1>8 DEF Stepped, Fake!RecordingsOf
  <2>7. Cursor'
    BY <1>1, <1>4, <2>6 DEF Cursor
  <2>8. Record'
    BY <1>1, <1>4, <1>8, <2>5 DEF Record, Types
  <2> QED
    BY <1>2, <1>4, <2>2, <2>3, <2>4, <2>7, <2>8 DEF FakeInv
<1> QED
  BY <1>5, <1>6, <1>7, <1>8 DEF Fake!LookUp

LEMMA TakeStep == ASSUME FakeInv, NEW k \in Callers, Fake!Take(k) PROVE FakeInv'
<1>1. Types /\ Mutex /\ Progress /\ Record /\ Cursor
  BY DEF FakeInv
<1>2. made = "yes" /\ at[k] = "take" /\ mu = k
  BY <1>1 DEF FakeInv, Fresh, Fake!Take, Mutex
<1>3. request[k].prompt \in Prompts
  BY <1>1, <1>2, ProvidersAssumption DEF Types, Fake!Request
<1> PICK p \in Prompts : p = request[k].prompt
  BY <1>3
<1> DEFINE res == Fake!Answer(scripts[p][step[k] + 1])
<1>4. /\ scripts[p] # NoOne /\ step[k] = cursors[p] /\ step[k] < Len(scripts[p])
      /\ Fake!RecordingsOf(request[k]) = {} /\ LawfulRequest(request[k])
      /\ result[k] = "none"
  BY <1>1, <1>2 DEF Progress
<1>5. /\ cursors' = [cursors EXCEPT ![p] = cursors[p] + 1]
      /\ given' = [given EXCEPT ![p] = Append(given[p], cursors[p] + 1)]
      /\ mu' = NoOne /\ at' = [at EXCEPT ![k] = "over"]
      /\ result' = [result EXCEPT ![k] = res]
      /\ UNCHANGED <<recordings, scripts, made, invocations, calls, request, over, step>>
  BY <1>4 DEF Fake!Take, Fake!Unlock
<1>6. res \in {"response", "scripted_error"}
  BY DEF Fake!Answer
<1> HIDE DEF res
<1>7. \A j \in Callers \ {k} : at[j] \notin {"check", "look", "take"}
  BY <1>1, <1>2 DEF Mutex
<1>8. Types'
  <2>1. cursors[p] \in Nat /\ given[p] \in Seq(Nat)
    BY <1>1, <1>3 DEF Types
  <2>2. cursors' \in [Prompts -> Nat]
    <3>1. cursors \in [Prompts -> Nat] /\ cursors[p] + 1 \in Nat
      BY <1>1, <2>1 DEF Types
    <3> QED
      BY <1>5, <3>1
  <2>3. Append(given[p], cursors[p] + 1) \in Seq(Nat)
    BY <2>1
  <2>4. given' \in [Prompts -> Seq(Nat)]
    BY <1>1, <1>5, <2>3 DEF Types
  <2>5. /\ at' \in [Callers -> {"idle", "lock", "check", "look", "take", "over"}]
        /\ \A j \in Callers : at'[j] # "idle" => request[j] \in Requests
    BY <1>1, <1>2, <1>5 DEF Types
  <2>6. result' \in [Callers -> Refusals \cup Found \cup {"none"}]
    BY <1>1, <1>5, <1>6 DEF Types, Found
  <2> QED
    BY <1>1, <1>5, <2>2, <2>4, <2>5, <2>6 DEF Types
<1>9. Mutex'
  BY <1>1, <1>5, <1>7 DEF Mutex, Types
<1>10. \A j \in Callers : result[j] = "exhausted" => request[j].prompt # p
  BY <1>1, <1>4 DEF Progress
<1>11. Progress'
  <2> SUFFICES ASSUME NEW j \in Callers
               PROVE  /\ at'[j] # "over" <=> result'[j] = "none"
                      /\ at'[j] \notin {"look", "take"}
                      /\ result'[j] = "exhausted" =>
                           /\ scripts[request[j].prompt] # NoOne
                           /\ cursors'[request[j].prompt] = Len(scripts[request[j].prompt])
    BY <1>5 DEF Progress
  <2>1. CASE j = k
    BY <1>1, <1>5, <1>6, <2>1 DEF Types
  <2>2. CASE j # k
    <3>1. at'[j] = at[j] /\ result'[j] = result[j]
      BY <1>1, <1>5, <2>2 DEF Types
    <3>2. result[j] = "exhausted" => cursors'[request[j].prompt] = cursors[request[j].prompt]
      BY <1>1, <1>5, <1>10 DEF Types
    <3> QED
      BY <1>1, <1>7, <2>2, <3>1, <3>2 DEF Progress
  <2> QED
    BY <2>1, <2>2
<1>12. LookedUp' = LookedUp
  BY <1>1, <1>2, <1>5, <1>6 DEF LookedUp, Types, Found
<1>13. Record'
  BY <1>1, <1>5, <1>12 DEF Record, Types
<1>14. Stepped(p)' = Stepped(p) \cup {k} /\ k \notin Stepped(p)
  BY <1>1, <1>4, <1>5, <1>6 DEF Stepped, Types, Fake!RecordingsOf
<1>15. Cardinality(Stepped(p)') = Cardinality(Stepped(p)) + 1
  BY <1>14, FiniteSets, FS_AddElement
<1>16. \A q \in Prompts \ {p} : Stepped(q)' = Stepped(q)
  BY <1>1, <1>4, <1>5 DEF Stepped, Types, Fake!RecordingsOf
<1>17. Cursor'
  <2> SUFFICES ASSUME NEW q \in Prompts
               PROVE  /\ given'[q] = [i \in 1..cursors'[q] |-> i]
                      /\ scripts'[q] = NoOne => cursors'[q] = 0
                      /\ scripts'[q] # NoOne => cursors'[q] <= Len(scripts'[q])
                      /\ cursors'[q] = Cardinality(Stepped(q)')
    BY DEF Cursor
  <2>1. CASE q = p
    <3>1. given[p] = [i \in 1..cursors[p] |-> i] /\ cursors[p] \in Nat
      BY <1>1, <1>3 DEF Cursor, Types
    <3>2. given'[p] = [i \in 1..(cursors[p] + 1) |-> i]
      <4> DEFINE n == cursors[p]
                 s == given[p]
                 t == [i \in 1..(n + 1) |-> i]
      <4>1. s \in Seq(Nat) /\ Len(s) = n /\ \A i \in 1..n : s[i] = i
        BY <3>1
      <4>2. n \in Nat
        BY <3>1
      <4>3. given'[p] = Append(s, n + 1)
        BY <1>1, <1>3, <1>5 DEF Types
      <4> HIDE DEF n, s
      <4>4. t \in Seq(Nat) /\ Len(t) = n + 1
        BY <4>2
      <4>5. Append(s, n + 1) \in Seq(Nat) /\ Len(Append(s, n + 1)) = n + 1
        BY <4>1, <4>2
      <4>6. \A i \in 1..(n + 1) : Append(s, n + 1)[i] = t[i]
        BY <4>1, <4>2
      <4>7. Append(s, n + 1) = t
        BY <4>4, <4>5, <4>6
      <4> QED
        BY <4>3, <4>7 DEF n
    <3>3. cursors'[p] = cursors[p] + 1
      BY <1>1, <1>3, <1>5 DEF Types
    <3>4. cursors[p] = Cardinality(Stepped(p))
      BY <1>1, <1>3 DEF Cursor
    <3>5. Len(scripts[p]) \in Nat /\ cursors[p] + 1 <= Len(scripts[p])
      BY <1>1, <1>3, <1>4, <3>1 DEF Types
    <3>6. scripts' = scripts
      BY <1>5
    <3>7. Cardinality(Stepped(q)') = cursors'[p]
      <4>1. Stepped(q)' = Stepped(p)'
        BY <2>1 DEF Stepped
      <4> QED
        BY <1>15, <3>3, <3>4, <4>1
    <3>8. given'[p] = [i \in 1..cursors'[p] |-> i]
      BY <3>2, <3>3
    <3> QED
      BY <1>4, <2>1, <3>3, <3>5, <3>6, <3>7, <3>8
  <2>2. CASE q # p
    <3>1. cursors'[q] = cursors[q] /\ given'[q] = given[q] /\ scripts'[q] = scripts[q]
      BY <1>1, <1>5, <2>2 DEF Types
    <3>2. Cardinality(Stepped(q)') = Cardinality(Stepped(q))
      BY <1>16, <2>2
    <3> QED
      BY <1>1, <3>1, <3>2 DEF Cursor
  <2> QED
    BY <2>1, <2>2
<1> QED
  BY <1>2, <1>5, <1>8, <1>9, <1>11, <1>13, <1>17 DEF FakeInv

LEMMA FakeStep == ASSUME FakeInv, [Fake!Next]_fakeVars PROVE FakeInv'
<1>1. CASE UNCHANGED fakeVars
  <2>1. LookedUp' = LookedUp /\ \A p : Stepped(p)' = Stepped(p)
    BY <1>1 DEF fakeVars, LookedUp, Stepped, Fake!RecordingsOf
  <2>2. Types' /\ Mutex' /\ Progress'
    BY <1>1 DEF fakeVars, FakeInv, Types, Mutex, Progress, Fake!RecordingsOf, LawfulRequest
  <2>3. Cursor'
    BY <1>1, <2>1 DEF fakeVars, FakeInv, Cursor
  <2>4. Record'
    BY <1>1, <2>1 DEF fakeVars, FakeInv, Record
  <2>5. made' # "yes" => Fresh'
    BY <1>1 DEF fakeVars, FakeInv, Fresh
  <2> QED
    BY <2>2, <2>3, <2>4, <2>5 DEF FakeInv
<1> QED
  BY <1>1, NewStep, LoadStep, AskStep, LockStep, CheckStep, LookUpStep, TakeStep, GiveUpStep
  DEF Fake!Next

(* Whatever the number of callers, and whichever of them runs first, each  *)
(* step of a script is answered once, in order, and each call that was not *)
(* refused is recorded once.                                               *)
THEOREM StepsAreAnsweredOnce == ProvidersSpec => []StepsOnce
<1>1. ProvidersInit => FakeInv
  BY FakeInit DEF ProvidersInit
<1>2. FakeInv /\ [ProvidersNext]_<<llm, vars, fakeVars>> => FakeInv'
  BY FakeStep DEF ProvidersNext
<1>3. FakeInv => StepsOnce
  <2> SUFFICES ASSUME FakeInv PROVE StepsOnce
    OBVIOUS
  <2>1. ASSUME NEW p \in Prompts
        PROVE  /\ given[p] = [i \in 1..Len(given[p]) |-> i]
               /\ cursors[p] = Len(given[p])
               /\ Len(given[p]) = Cardinality(Stepped(p))
               /\ (\E k \in Callers : result[k] = "exhausted" /\ request[k].prompt = p) =>
                    Len(given[p]) = Len(scripts[p])
    <3>1. given[p] = [i \in 1..cursors[p] |-> i] /\ cursors[p] \in Nat
      BY DEF FakeInv, Cursor, Types
    <3>2. Len(given[p]) = cursors[p]
      BY <3>1
    <3> QED
      BY <3>1, <3>2 DEF FakeInv, Cursor, Progress
  <2>2. \A p : {k \in Fake!Ended("response") \cup Fake!Ended("scripted_error") :
                  request[k].prompt = p /\ Fake!RecordingsOf(request[k]) = {}} = Stepped(p)
    BY DEF Fake!Ended, Stepped
  <2>3. {k \in Callers : at[k] \in {"look", "take"}}
           \cup UNION {Fake!Ended(r) : r \in {"response", "scripted_error",
                                              "no_recording", "exhausted"}} = LookedUp
    BY DEF Fake!Ended, LookedUp, Found
  <2>4. \A p : (\E k \in Fake!Ended("exhausted") : request[k].prompt = p)
                 <=> \E k \in Callers : result[k] = "exhausted" /\ request[k].prompt = p
    BY DEF Fake!Ended
  <2>5. ToSet(calls) = LookedUp /\ Len(calls) = Cardinality(LookedUp) /\ Len(calls) <= invocations
    BY DEF FakeInv, Record
  <2> QED
    BY <2>1, <2>2, <2>3, <2>4, <2>5, SameOperators DEF StepsOnce, Fake!StepsOnce
<1> QED
  BY <1>1, <1>2, <1>3, PTL DEF ProvidersSpec

-----------------------------------------------------------------------------
(* The port *)

Unseen(k) ==
    /\ AskedOf(k)' = AskedOf(k)
    /\ SentOf(k)' = SentOf(k)
    /\ OutcomeOf(k)' = OutcomeOf(k)

Asks(k) ==
    /\ AskedOf(k) = NoOne /\ AskedOf(k)' \in Port!Asked
    /\ SentOf(k)' = SentOf(k)
    /\ OutcomeOf(k)' \in {OutcomeOf(k), "refused"}

IsPending(k) ==
    /\ AskedOf(k) # NoOne /\ AskedOf(k)' = AskedOf(k)
    /\ OutcomeOf(k) = "none"

Refuses(k) ==
    /\ IsPending(k) /\ SentOf(k) = 0
    /\ SentOf(k)' = 0 /\ OutcomeOf(k)' = "refused"

Submits(k) ==
    /\ IsPending(k) /\ SentOf(k) = 0 /\ Port!Lawful(AskedOf(k))
    /\ SentOf(k)' = 1 /\ OutcomeOf(k)' = "none"

Answers(k) ==
    /\ IsPending(k) /\ SentOf(k) = 1
    /\ SentOf(k)' = 1 /\ OutcomeOf(k)' \in {"failed", "answered"}

(* What one caller sees, while the others see nothing, is a step of the    *)
(* port.                                                                   *)
LEMMA OneCallerSteps ==
    ASSUME NEW k \in Callers,
           \A j \in Callers \ {k} : Unseen(j),
           Unseen(k) \/ Asks(k) \/ Refuses(k) \/ Submits(k) \/ Answers(k)
    PROVE  [Port!Next]_Port!portVars
<1> DEFINE A == [j \in Callers |-> AskedOf(j)]
           S == [j \in Callers |-> SentOf(j)]
           O == [j \in Callers |-> OutcomeOf(j)]
<1>1. /\ A' = [A EXCEPT ![k] = AskedOf(k)']
      /\ S' = [S EXCEPT ![k] = SentOf(k)']
      /\ O' = [O EXCEPT ![k] = OutcomeOf(k)']
  BY DEF Unseen
<1>2. A[k] = AskedOf(k) /\ S[k] = SentOf(k) /\ O[k] = OutcomeOf(k)
  OBVIOUS
<1>3. /\ AskedOf(k)' = AskedOf(k) => A' = A
      /\ SentOf(k)' = SentOf(k) => S' = S
      /\ OutcomeOf(k)' = OutcomeOf(k) => O' = O
  BY DEF Unseen
<1> HIDE DEF A, S, O
<1>4. CASE Unseen(k)
  BY <1>3, <1>4 DEF Unseen, Port!portVars, A, S, O
<1>5. CASE Asks(k)
  <2>1. Port!Ask(k)
    BY <1>1, <1>2, <1>3, <1>5 DEF Asks, Port!Ask, A, S, O
  <2> QED
    BY <2>1 DEF Port!Next
<1>6. CASE Refuses(k)
  <2>1. Port!Refuse(k)
    BY <1>1, <1>2, <1>3, <1>6 DEF Refuses, IsPending, Port!Refuse, Port!Pending, A, S, O
  <2> QED
    BY <2>1 DEF Port!Next
<1>7. CASE Submits(k)
  <2>1. Port!Submit(k)
    BY <1>1, <1>2, <1>3, <1>7 DEF Submits, IsPending, Port!Submit, Port!Pending, A, S, O
  <2> QED
    BY <2>1 DEF Port!Next
<1>8. CASE Answers(k)
  <2>1. Port!Answer(k)
    BY <1>1, <1>2, <1>3, <1>8 DEF Answers, IsPending, Port!Answer, Port!Pending, A, S, O
  <2> QED
    BY <2>1 DEF Port!Next
<1> QED
  BY <1>4, <1>5, <1>6, <1>7, <1>8

-----------------------------------------------------------------------------
(* What the port sees of a caller of the fake provider.                    *)
FakeAsked(k) ==
    IF at[k] = "idle" THEN NoOne
    ELSE [platform |-> request[k].platform, withTools |-> request[k].withTools,
          untrusted |-> request[k].untrusted, valid |-> request[k].valid]

FakeSent(k) == IF k \in ToSet(calls) THEN 1 ELSE 0

FakeOutcome(k) ==
    IF at[k] # "over" THEN "none"
    ELSE IF result[k] = "response" THEN "answered"
    ELSE IF k \in ToSet(calls) THEN "failed" ELSE "refused"

LEMMA FakeSeen ==
    ASSUME llm = "fake", NEW k
    PROVE  AskedOf(k) = FakeAsked(k) /\ SentOf(k) = FakeSent(k) /\ OutcomeOf(k) = FakeOutcome(k)
  BY DEF AskedOf, SentOf, OutcomeOf, FakeAsked, FakeSent, FakeOutcome

LEMMA FakeSeenNext ==
    ASSUME llm' = "fake", NEW k
    PROVE  /\ AskedOf(k)' = FakeAsked(k)' /\ SentOf(k)' = FakeSent(k)'
           /\ OutcomeOf(k)' = FakeOutcome(k)'
  BY DEF AskedOf, SentOf, OutcomeOf, FakeAsked, FakeSent, FakeOutcome

(* A caller that another one's step leaves where it is sees nothing.       *)
LEMMA FakeUnseen ==
    ASSUME llm = "fake", llm' = llm, NEW k,
           at'[k] = at[k] \/ ("idle" \notin {at[k], at'[k]} /\ "over" \notin {at[k], at'[k]}),
           request'[k] = request[k], result'[k] = result[k],
           k \in ToSet(calls') <=> k \in ToSet(calls)
    PROVE  Unseen(k)
  BY FakeSeen, FakeSeenNext DEF Unseen, FakeAsked, FakeSent, FakeOutcome

LEMMA LawfulSeen ==
    ASSUME FakeInv, llm = "fake", NEW k \in Callers, at[k] # "idle"
    PROVE  /\ AskedOf(k) \in Port!Asked /\ AskedOf(k) # NoOne
           /\ LawfulRequest(request[k]) => Port!Lawful(AskedOf(k))
<1>1. request[k] \in Fake!Request
  BY ProvidersAssumption DEF FakeInv, Types
<1>2. AskedOf(k) \in Port!Asked
  BY <1>1, FakeSeen DEF FakeAsked, Port!Asked, Fake!Request
<1>3. LawfulRequest(request[k]) => Port!Lawful(AskedOf(k))
  BY FakeSeen DEF FakeAsked, LawfulRequest, Port!Lawful
<1> QED
  BY <1>2, <1>3, NothingAssumption

LEMMA FakeRefines ==
    ASSUME FakeInv, FakeInv', llm = "fake", llm' = llm, Fake!Next
    PROVE  [Port!Next]_Port!portVars
<1> USE DEF FakeAsked, FakeSent, FakeOutcome
<1>1. Types /\ Record /\ Progress
  BY DEF FakeInv
<1>2. \E k \in Callers : TRUE
  BY ProvidersAssumption
<1>3. ASSUME \A k \in Callers : Unseen(k)
      PROVE  [Port!Next]_Port!portVars
  BY <1>2, <1>3, OneCallerSteps
<1>4. ASSUME NEW opt \in OptionSets, Fake!New(opt) PROVE [Port!Next]_Port!portVars
  BY <1>3, <1>4, FakeUnseen DEF Fake!New
<1>5. ASSUME NEW f \in Files, Fake!Load(f) PROVE [Port!Next]_Port!portVars
  BY <1>3, <1>5, FakeUnseen DEF Fake!Load, Fake!New
<1>6. ASSUME NEW k \in Callers, Fake!GiveUp(k) PROVE [Port!Next]_Port!portVars
  BY <1>3, <1>6, FakeUnseen DEF Fake!GiveUp
<1>7. ASSUME NEW k \in Callers, Fake!Lock(k) PROVE [Port!Next]_Port!portVars
  <2>1. \A j \in Callers : Unseen(j)
    BY <1>1, <1>7, FakeUnseen DEF Fake!Lock, Types
  <2> QED
    BY <1>3, <2>1
<1>8. ASSUME NEW k \in Callers, Fake!Ask(k) PROVE [Port!Next]_Port!portVars
  <2>1. \A j \in Callers \ {k} : Unseen(j)
    BY <1>1, <1>8, FakeUnseen DEF Fake!Ask, Types
  <2>2. at[k] = "idle" /\ at'[k] = "lock" /\ UNCHANGED calls
    BY <1>1, <1>8 DEF Fake!Ask, Types
  <2>3. AskedOf(k)' \in Port!Asked
    <3>1. request'[k] \in Fake!Request
      BY <2>2, ProvidersAssumption DEF FakeInv, Types
    <3> QED
      BY <2>2, <3>1, FakeSeenNext DEF Port!Asked, Fake!Request
  <2>4. Asks(k)
    BY <2>2, <2>3, FakeSeen, FakeSeenNext DEF Asks
  <2> QED
    BY <2>1, <2>4, OneCallerSteps
<1>9. ASSUME NEW k \in Callers, Fake!Check(k) PROVE [Port!Next]_Port!portVars
  <2>1. at[k] = "check" /\ k \notin ToSet(calls) /\ UNCHANGED request
    <3>1. at[k] = "check" /\ UNCHANGED request
      BY <1>9 DEF Fake!Check
    <3>2. k \notin LookedUp
      BY <1>1, <3>1 DEF LookedUp, Progress, Found
    <3> QED
      BY <1>1, <3>1, <3>2 DEF Record
  <2>2. AskedOf(k) # NoOne /\ (LawfulRequest(request[k]) => Port!Lawful(AskedOf(k)))
    BY <2>1, LawfulSeen
  <2>3. CASE Fake!Refusal(k) = "none"
    <3>1. at'[k] = "look" /\ result' = result /\ calls' = Append(calls, k)
          /\ \A j \in Callers \ {k} : at'[j] = at[j]
      BY <1>1, <1>9, <2>3 DEF Fake!Check, Types
    <3>2. ToSet(calls') = ToSet(calls) \cup {k}
      BY <1>1, <3>1, AppendAdds DEF Types
    <3>3. LawfulRequest(request[k])
      BY <2>3 DEF Fake!Refusal, LawfulRequest
    <3>4. Submits(k)
      BY <2>1, <2>2, <3>1, <3>2, <3>3, FakeSeen, FakeSeenNext DEF Submits, IsPending
    <3>5. \A j \in Callers \ {k} : Unseen(j)
      BY <2>1, <3>1, <3>2, FakeUnseen
    <3> QED
      BY <3>4, <3>5, OneCallerSteps
  <2>4. CASE Fake!Refusal(k) # "none"
    <3>1. /\ at'[k] = "over" /\ result'[k] # "response" /\ calls' = calls
          /\ \A j \in Callers \ {k} : at'[j] = at[j] /\ result'[j] = result[j]
      <4>1. Fake!Refusal(k) # "response"
        BY DEF Fake!Refusal
      <4> QED
        BY <1>1, <1>9, <2>4, <4>1 DEF Fake!Check, Fake!Unlock, Types
    <3>2. Refuses(k)
      BY <2>1, <2>2, <3>1, FakeSeen, FakeSeenNext DEF Refuses, IsPending
    <3>3. \A j \in Callers \ {k} : Unseen(j)
      BY <2>1, <3>1, FakeUnseen
    <3> QED
      BY <3>2, <3>3, OneCallerSteps
  <2> QED
    BY <2>3, <2>4
<1>10. ASSUME NEW k \in Callers, at[k] \in {"look", "take"}, UNCHANGED <<calls, request>>,
              NEW res, Fake!Unlock(k, res)
       PROVE  [Port!Next]_Port!portVars
  <2>1. k \in ToSet(calls)
    BY <1>1, <1>10 DEF Record, LookedUp
  <2>2. AskedOf(k) # NoOne
    BY <1>10, LawfulSeen
  <2>3. /\ at'[k] = "over"
        /\ \A j \in Callers \ {k} : at'[j] = at[j] /\ result'[j] = result[j]
    BY <1>1, <1>10 DEF Fake!Unlock, Types
  <2>4. Answers(k)
    BY <1>10, <2>1, <2>2, <2>3, FakeSeen, FakeSeenNext DEF Answers, IsPending
  <2>5. \A j \in Callers \ {k} : Unseen(j)
    BY <1>10, <2>3, FakeUnseen
  <2> QED
    BY <2>4, <2>5, OneCallerSteps
<1>11. ASSUME NEW k \in Callers, Fake!LookUp(k) PROVE [Port!Next]_Port!portVars
  <2>1. at[k] = "look" /\ UNCHANGED <<calls, request>>
    BY <1>11 DEF Fake!LookUp
  <2>2. CASE \E res : Fake!Unlock(k, res)
    BY <1>10, <2>1, <2>2
  <2>3. CASE at' = [at EXCEPT ![k] = "take"] /\ UNCHANGED <<mu, result>>
    <3>1. \A j \in Callers : Unseen(j)
      BY <1>1, <2>1, <2>3, FakeUnseen DEF Types
    <3> QED
      BY <1>3, <3>1
  <2> QED
    BY <1>11, <2>2, <2>3, Zenon DEF Fake!LookUp
<1>12. ASSUME NEW k \in Callers, Fake!Take(k) PROVE [Port!Next]_Port!portVars
  BY <1>10, <1>12 DEF Fake!Take
<1> QED
  BY <1>4, <1>5, <1>6, <1>7, <1>8, <1>9, <1>11, <1>12 DEF Fake!Next

-----------------------------------------------------------------------------
(* What the port sees of the adapter.                                      *)
OwnAsked ==
    [platform |-> IF call.route = "anthropic" THEN "own" ELSE "other",
     withTools |-> call.withTools, untrusted |-> call.untrusted,
     valid |-> ValidRequest(call)]

IsAsked == where \notin {"unmade", "idle"} /\ outcome # "invalid_config"

OwnOutcome ==
    IF where # "over" \/ outcome = "invalid_config" THEN "none"
    ELSE IF outcome = "response" THEN "answered"
    ELSE IF requests = 0 THEN "refused" ELSE "failed"

LEMMA SameRequest == ASSUME call' = call PROVE OwnAsked' = OwnAsked
<1>1. ValidRequest(call)' = ValidRequest(call)
  BY Zenon DEF ValidRequest
<1> QED
  BY <1>1 DEF OwnAsked

LEMMA OwnSeen ==
    ASSUME llm = "anthropic"
    PROVE  /\ AskedOf(Lone) = IF IsAsked THEN OwnAsked ELSE NoOne
           /\ SentOf(Lone) = requests
           /\ OutcomeOf(Lone) = OwnOutcome
  BY DEF AskedOf, SentOf, OutcomeOf, OwnAsked, IsAsked, OwnOutcome

LEMMA OwnSeenNext ==
    ASSUME llm' = "anthropic"
    PROVE  /\ AskedOf(Lone)' = IF IsAsked' THEN OwnAsked' ELSE NoOne
           /\ SentOf(Lone)' = requests'
           /\ OutcomeOf(Lone)' = OwnOutcome'
  BY DEF AskedOf, SentOf, OutcomeOf, OwnAsked, IsAsked, OwnOutcome

LEMMA OthersUnseen ==
    ASSUME llm = "anthropic", llm' = llm, NEW j \in Callers \ {Lone}
    PROVE  Unseen(j)
  BY DEF Unseen, AskedOf, SentOf, OutcomeOf

LEMMA AdmittedSeen ==
    ASSUME llm = "anthropic", Admitted, IsAsked
    PROVE  AskedOf(Lone) \in Port!Asked /\ AskedOf(Lone) # NoOne /\ Port!Lawful(AskedOf(Lone))
<1>1. call \in Call /\ ValidRequest(call) \in BOOLEAN
  BY ProviderAssumption DEF Admitted, ValidRequest
<1>2. OwnAsked \in Port!Asked
  BY <1>1 DEF OwnAsked, Port!Asked, Call
<1>3. Port!Lawful(OwnAsked)
  BY DEF Admitted, OwnAsked, Port!Lawful
<1> QED
  BY <1>2, <1>3, OwnSeen, NothingAssumption

(* The ways in which a step of the adapter is seen.                        *)
LEMMA OwnStep ==
    ASSUME Adapter, llm = "anthropic", llm' = llm, call' = call,
           where \in {"built", "waiting", "reading"},
           \/ where' # "over" /\ outcome' = "none" /\ requests' = requests
              /\ where' \notin {"unmade", "idle"}
           \/ where' = "over" /\ requests' = requests /\ outcome' # "invalid_config"
              /\ (outcome' = "response" => requests = 1)
           \/ where = "built" /\ where' = "waiting" /\ outcome' = "none" /\ requests' = 1
    PROVE  [Port!Next]_Port!portVars
<1>1. Admitted /\ outcome = "none" /\ IsAsked
  BY DEF Adapter, IsAsked
<1>2. AskedOf(Lone) # NoOne /\ Port!Lawful(AskedOf(Lone))
  BY <1>1, AdmittedSeen
<1>3. requests \in {0, 1} /\ (where = "built" => requests = 0)
  BY DEF Adapter, Untouched
<1>4. OutcomeOf(Lone) = "none" /\ SentOf(Lone) = requests /\ SentOf(Lone)' = requests'
  BY <1>1, OwnSeen, OwnSeenNext DEF OwnOutcome
<1>5. AskedOf(Lone)' = AskedOf(Lone)
  <2>1. IsAsked'
    BY DEF IsAsked
  <2> QED
    BY <1>1, <2>1, OwnSeen, OwnSeenNext, SameRequest
<1>6. CASE where' # "over" /\ requests' = requests /\ outcome' = "none"
  BY <1>4, <1>5, <1>6, OthersUnseen, OwnSeenNext, OneCallerSteps, ProvidersAssumption
  DEF Unseen, OwnOutcome
<1>7. CASE where' = "over" /\ requests' = requests /\ outcome' # "invalid_config"
           /\ (outcome' = "response" => requests = 1)
  <2>1. OutcomeOf(Lone)' = IF outcome' = "response" THEN "answered"
                           ELSE IF requests = 0 THEN "refused" ELSE "failed"
    BY <1>7, OwnSeenNext DEF OwnOutcome
  <2>2. Refuses(Lone) \/ Answers(Lone)
    BY <1>2, <1>3, <1>4, <1>5, <1>7, <2>1 DEF Refuses, Answers, IsPending
  <2> QED
    BY <2>2, OthersUnseen, OneCallerSteps, ProvidersAssumption
<1>8. CASE where = "built" /\ where' = "waiting" /\ outcome' = "none" /\ requests' = 1
  <2>1. OutcomeOf(Lone)' = "none"
    BY <1>8, OwnSeenNext DEF OwnOutcome
  <2>2. Submits(Lone)
    BY <1>2, <1>3, <1>4, <1>5, <1>8, <2>1 DEF Submits, IsPending
  <2> QED
    BY <2>2, OthersUnseen, OneCallerSteps, ProvidersAssumption
<1> QED
  BY <1>6, <1>7, <1>8

LEMMA StartRefines ==
    ASSUME Adapter, llm = "anthropic", llm' = llm, NEW c \in Calls, Start(c)
    PROVE  [Port!Next]_Port!portVars
<1>1. /\ where = "idle" /\ requests = 0 /\ outcome = "none" /\ requests' = 0 /\ call' = c
      /\ outcome' = Refusal(c) /\ where' = IF Refusal(c) = "none" THEN "built" ELSE "over"
  BY DEF Start, Adapter, Untouched
<1>2. Refusal(c) \notin {"invalid_config", "response"}
  BY DEF Refusal
<1> HIDE DEF Refusal
<1>3. AskedOf(Lone) = NoOne /\ SentOf(Lone) = 0 /\ OutcomeOf(Lone) = "none"
  BY <1>1, OwnSeen DEF IsAsked, OwnOutcome
<1>4. /\ AskedOf(Lone)' = OwnAsked' /\ SentOf(Lone)' = 0
      /\ OutcomeOf(Lone)' \in {"none", "refused"}
  BY <1>1, <1>2, OwnSeenNext DEF IsAsked, OwnOutcome
<1>5. OwnAsked' \in Port!Asked
  <2>1. call' \in Call /\ ValidRequest(call)' \in BOOLEAN
    BY <1>1, ProviderAssumption DEF ValidRequest
  <2> QED
    BY <2>1 DEF OwnAsked, Port!Asked, Call
<1>6. Asks(Lone)
  BY <1>3, <1>4, <1>5 DEF Asks
<1> QED
  BY <1>6, OthersUnseen, OneCallerSteps, ProvidersAssumption

LEMMA AdapterRefines ==
    ASSUME Adapter, llm = "anthropic", llm' = llm, Next
    PROVE  [Port!Next]_Port!portVars
<1>1. ASSUME NEW c \in Configs, New(c) PROVE [Port!Next]_Port!portVars
  <2>1. Unseen(Lone)
    BY <1>1, OwnSeen, OwnSeenNext DEF New, Adapter, Unseen, IsAsked, OwnOutcome
  <2> QED
    BY <2>1, OthersUnseen, OneCallerSteps, ProvidersAssumption
<1>2. CASE GiveUp \/ TimeOut
  <2>1. UNCHANGED <<where, call, outcome, requests>>
    BY <1>2 DEF GiveUp, TimeOut
  <2>2. Unseen(Lone)
    <3>1. IsAsked' = IsAsked /\ OwnOutcome' = OwnOutcome /\ OwnAsked' = OwnAsked
      BY <2>1, SameRequest DEF IsAsked, OwnOutcome
    <3> QED
      BY <2>1, <3>1, OwnSeen, OwnSeenNext DEF Unseen
  <2> QED
    BY <2>2, OthersUnseen, OneCallerSteps, ProvidersAssumption
<1>3. CASE Send
  <2>1. where = "built" /\ requests = 0 /\ outcome = "none" /\ call' = call
    BY <1>3 DEF Send, Adapter, Untouched
  <2>2. CASE VerifiedBytes
    BY <1>3, <2>1, <2>2, OwnStep DEF Send
  <2>3. CASE ~VerifiedBytes
    BY <1>3, <2>1, <2>3, OwnStep, FailureIsFinal DEF Send
  <2> QED
    BY <2>2, <2>3
<1>4. ASSUME NEW r \in Responses, Respond(r) PROVE [Port!Next]_Port!portVars
  <2>1. where = "waiting" /\ outcome = "none" /\ UNCHANGED <<call, requests>>
    BY <1>4 DEF Respond, Adapter
  <2>2. \/ where' = "over" /\ outcome' \in {"context", "redirect", "too_large"}
        \/ where' = "reading" /\ outcome' = outcome
    BY <1>4, <2>1, FailureIsFinal DEF Respond
  <2> QED
    BY <2>1, <2>2, OwnStep
<1>5. CASE NetworkFails
  <2>1. where' = "over" /\ outcome' \in {"context", "timeout", "transport"}
    BY <1>5, FailureIsFinal DEF NetworkFails
  <2> QED
    BY <1>5, <2>1, OwnStep DEF NetworkFails
<1>6. ASSUME NEW n \in 1..MaxRead, Read(n) PROVE [Port!Next]_Port!portVars
  BY <1>6, OwnStep DEF Read, Adapter
<1>7. CASE TooLarge
  <2>1. where' = "over" /\ outcome' \in {"context", "too_large", "timeout"}
    BY <1>7, FailureIsFinal DEF TooLarge
  <2> QED
    BY <1>7, <2>1, OwnStep DEF TooLarge
<1>8. CASE Finish
  <2>1. where = "reading" /\ requests = 1 /\ UNCHANGED <<call, requests>>
    BY <1>8 DEF Finish, Adapter
  <2>2. response.status \in {"ok", "error"}
    BY <2>1, ProviderAssumption DEF Adapter, Reading, Response
  <2>3. Judgement(response) # "invalid_config"
    BY DEF Judgement
  <2>4. where' = "over" /\ outcome' # "invalid_config"
    <3>1. CASE response.status = "error"
      BY <1>8, <2>1, <3>1, FailureIsFinal DEF Finish
    <3>2. CASE response.status = "ok" /\ ~Decodes
      BY <1>8, <2>1, <3>2, FailureIsFinal DEF Finish
    <3>3. CASE response.status = "ok" /\ Decodes
      BY <1>8, <2>3, <3>3 DEF Finish
    <3> QED
      BY <2>2, <3>1, <3>2, <3>3
  <2> QED
    BY <2>1, <2>4, OwnStep
<1> QED
  BY <1>1, <1>2, <1>3, <1>4, <1>5, <1>6, <1>7, <1>8, StartRefines DEF Next

LEMMA PortStutter ==
    ASSUME UNCHANGED <<llm, vars, fakeVars>>
    PROVE  UNCHANGED Port!portVars
<1>1. \A k : Unseen(k)
  BY DEF vars, fakeVars, Unseen, AskedOf, SentOf, OutcomeOf, ValidRequest
<1> QED
  BY <1>1 DEF Unseen, Port!portVars

LEMMA PortInit == ProvidersInit => Port!Init
<1>1. ASSUME ProvidersInit, NEW k \in Callers
      PROVE  AskedOf(k) = NoOne /\ SentOf(k) = 0 /\ OutcomeOf(k) = "none"
  BY <1>1
  DEF ProvidersInit, Init, Fake!Init, AskedOf, SentOf, OutcomeOf, ToSet
<1> QED
  BY <1>1 DEF Port!Init

(* Whichever provider is wired, and for any number of callers: a call is   *)
(* put to the model once at most, only if it is lawful, and is refused     *)
(* before that or not at all.                                              *)
THEOREM ProvidersKeepThePort == ProvidersSpec => ImplementsPort
<1> DEFINE IInv == llm \in {"anthropic", "fake"} /\ Adapter /\ FakeInv
           allVars == <<llm, vars, fakeVars>>
<1>1. ProvidersInit => IInv
  BY AdapterInit, FakeInit DEF ProvidersInit
<1>2. IInv /\ [ProvidersNext]_allVars => IInv'
  BY AdapterStep, FakeStep DEF ProvidersNext
<1>3. IInv /\ IInv' /\ [ProvidersNext]_allVars => [Port!Next]_Port!portVars
  <2>1. ASSUME IInv, IInv', ProvidersNext PROVE [Port!Next]_Port!portVars
    BY <2>1, AdapterRefines, FakeRefines DEF ProvidersNext
  <2>2. ASSUME UNCHANGED allVars PROVE [Port!Next]_Port!portVars
    BY <2>2, PortStutter
  <2> QED
    BY <2>1, <2>2
<1> QED
  BY <1>1, <1>2, <1>3, PortInit, PTL DEF ProvidersSpec, ImplementsPort, Port!Spec
=============================================================================
