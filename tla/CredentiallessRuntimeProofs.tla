--------------------- MODULE CredentiallessRuntimeProofs ---------------------
(***************************************************************************)
(* Theorems about CredentiallessRuntime, for any finite set of requests,   *)
(* any routes, answers and failures of writes: what the child is given     *)
(* back was recorded, an admitted run and a sealed bundle hide nothing,    *)
(* and a run that went well is admitted.                                   *)
(***************************************************************************)
EXTENDS CredentiallessRuntime, FiniteSetTheorems, TLAPS

-----------------------------------------------------------------------------
(* How an attempt ends *)

\* The last alternative of EndingOf: everything was as asked.
Clear(c, x) ==
  /\ ResponseSound(x) /\ ~Elsewhere(x, c) /\ ~(x.bytes > (CHOOSE a \in RoutesOf(c) : TRUE).bytes)
  /\ Fine(x.status) /\ Parses(c.provider, x)

Tokens(c, x) ==
  [input |-> x.usage.input, output |-> OutputTokens(c.provider, x.usage),
   total |-> IF c.provider = "anthropic" THEN Absent ELSE x.usage.total]

LEMMA EndingCases ==
  ASSUME NEW c, NEW x
  PROVE  \/ EndingOf(c, x) = Failure("transport_failure", FALSE, Absent)
         \/ EndingOf(c, x) = Failure("protocol_failure", TRUE, x.status)
         \/ EndingOf(c, x) = Failure("provider_failure", TRUE, x.status)
         \/ /\ Clear(c, x)
            /\ EndingOf(c, x) = Success(RequestedModel(c), x.model, Tokens(c, x), x.status)
<1> HIDE DEF Failure, Success, Transported, ResponseSound, Elsewhere, Fine, Parses, RoutesOf
<1> QED BY DEF EndingOf, Completion, Clear, Tokens

\* What succeed and fail accept has the type of an ending, and the frame check takes it.
LEMMA AcceptedEnding ==
  ASSUME NEW c, NEW x, Accepted(EndingOf(c, x))
  PROVE  /\ EndingOf(c, x) \in Ending
         /\ EndingOf(c, x).outcome \in Terminal
         /\ EndingOf(c, x).outcome \notin Censored
         /\ RequestedModel(c) \in Pins => EndingSound(EndingOf(c, x), RequestedModel(c))
<1> DEFINE e == EndingOf(c, x)
<1>0. Absent \notin Pins /\ Absent \notin Usage /\ Absent \notin {"reason", "mismatch"}
      /\ Absent \notin 100 .. 599
  BY FrameAssumption
<1>1. CASE e = Failure("transport_failure", FALSE, Absent)
  BY <1>0, <1>1 DEF Failure, Ending, Terminal, Censored, EndingSound
<1>2. CASE e = Failure("protocol_failure", TRUE, x.status)
                 \/ e = Failure("provider_failure", TRUE, x.status)
  <2>1. PICK o \in {"protocol_failure", "provider_failure"} : e = Failure(o, TRUE, x.status)
    BY <1>2
  <2>2. FailureAccepted(e)
    BY <2>1 DEF Accepted, Failure
  <2>3. /\ x.status \in 100 .. 599
        /\ o = "provider_failure" => x.status >= 400
    BY <2>1, <2>2 DEF FailureAccepted, Failure, StatusValid
  <2>4. e \in Ending
    BY <2>1, <2>3 DEF Failure, Ending, Terminal
  <2> QED BY <1>0, <2>1, <2>3, <2>4 DEF Failure, Terminal, Censored, EndingSound, StatusValid
<1>3. CASE e = Success(RequestedModel(c), x.model, Tokens(c, x), x.status)
  <2> DEFINE u == Tokens(c, x)
  <2>1. SuccessAccepted(e)
    BY <1>3 DEF Accepted, Success
  <2>2. x.model \in Pins /\ UsageValid(u) /\ x.status \in 200 .. 299
    BY <1>3, <2>1 DEF SuccessAccepted, Success, Fine
  <2>3. u \in Usage
    BY <2>2 DEF UsageValid, Usage, Tokens
  <2>4. x.status \in 100 .. 599 /\ x.status # Absent /\ u # Absent /\ x.model # Absent
    BY <1>0, <2>2, <2>3
  <2> HIDE DEF u
  <2>5. e \in Ending
    <3> DEFINE o == IF x.model = RequestedModel(c) THEN "success" ELSE "identity_mismatch"
               w == IF x.model = RequestedModel(c) THEN Absent ELSE "mismatch"
    <3>1. e = [outcome |-> o, dispatched |-> TRUE, resolved |-> x.model,
               response |-> TRUE, usage |-> u, status |-> x.status, failure |-> w]
      <4> HIDE DEF e, u
      <4> QED BY <1>3 DEF Success, u
    <3>2. o \in {"success", "identity_mismatch"} /\ w \in {Absent, "mismatch"}
      OBVIOUS
    <3> HIDE DEF e, o, w
    <3> QED BY <2>2, <2>3, <2>4, <3>1, <3>2 DEF Ending, Terminal
  <2> HIDE DEF e
  <2>6. CASE x.model = RequestedModel(c)
    <3>1. e = [outcome |-> "success", dispatched |-> TRUE, resolved |-> x.model,
               response |-> TRUE, usage |-> u, status |-> x.status, failure |-> Absent]
      BY <1>3, <2>6 DEF Success, u
    <3> QED BY <1>0, <2>2, <2>4, <2>5, <2>6, <3>1
            DEF Terminal, Censored, EndingSound, StatusValid, Fine, e
  <2>7. CASE x.model # RequestedModel(c)
    <3>1. e = [outcome |-> "identity_mismatch", dispatched |-> TRUE, resolved |-> x.model,
               response |-> TRUE, usage |-> u, status |-> x.status, failure |-> "mismatch"]
      BY <1>3, <2>7 DEF Success, u
    <3> QED BY <1>0, <2>2, <2>4, <2>5, <2>7, <3>1
            DEF Terminal, Censored, EndingSound, StatusValid, Fine, e
  <2> QED BY <2>6, <2>7
<1> QED BY <1>1, <1>2, <1>3, EndingCases

\* A configured call has one route.
LEMMA OneRoute ==
  ASSUME NEW c, NEW a \in RoutesOf(c)
  PROVE  a = (CHOOSE b \in RoutesOf(c) : TRUE) /\ a.bytes \in Nat
<1>1. \A b \in RoutesOf(c) : b = a
  BY EgressAssumption DEF RoutesOf, ConfigurationSound
<1>2. (CHOOSE b \in RoutesOf(c) : TRUE) \in RoutesOf(c)
  OBVIOUS
<1> QED BY <1>1, <1>2, EgressAssumption DEF RoutesOf

\* Only the provider's own answer ends an attempt in success or in a mismatch.
LEMMA SuccessMeans ==
  ASSUME NEW c, NEW x \in Exchange,
         EndingOf(c, x).outcome \in {"success", "identity_mismatch"}
  PROVE  /\ FromProvider(c, x) /\ x.model # Absent
         /\ EndingOf(c, x).outcome = "success" <=> x.model = RequestedModel(c)
<1>1. Clear(c, x) /\ EndingOf(c, x) = Success(RequestedModel(c), x.model, Tokens(c, x), x.status)
  BY EndingCases DEF Failure
<1>2. EndingOf(c, x).outcome = "success" <=> x.model = RequestedModel(c)
  BY <1>1 DEF Success
<1>3. x.url = c.url /\ ~x.redirected
  BY <1>1 DEF Clear, Elsewhere
<1>4. x.status \in 200 .. 299 /\ x.json /\ UsageSound(c.provider, x.usage) /\ x.model # Absent
  BY <1>1 DEF Clear, Fine, Parses
<1>5. \A a \in RoutesOf(c) : x.bytes \in 1 .. a.bytes
  <2> SUFFICES ASSUME NEW a \in RoutesOf(c) PROVE x.bytes \in 1 .. a.bytes
    OBVIOUS
  <2>1. a.bytes \in Nat /\ ~(x.bytes > a.bytes)
    BY <1>1, OneRoute DEF Clear
  <2>2. x.bytes \in Nat /\ x.bytes >= 1
    BY <1>1, LogicalAssumption DEF Clear, ResponseSound
  <2> QED BY <2>1, <2>2
<1> QED BY <1>2, <1>3, <1>4, <1>5 DEF FromProvider

\* An allowed call has a route of the policy and of the configuration.
LEMMA AllowedMeans ==
  ASSUME NEW c, NEW n \in Nat, NEW at, Authorize(c, n, at) = "allowed"
  PROVE  \E a \in RoutesOf(c), b \in Routes :
           b.key = <<a.provider, RequestedModel(c)>> /\ n <= b.attempts
<1> DEFINE q == [key |-> <<c.provider, RequestedModel(c)>>, scopes |-> c.scopes,
                 bytes |-> c.bytes, attempt |-> n]
<1>1. RoutesOf(c) # {} /\ ModelDecision(Routes, q) = "allowed"
  BY DEF Authorize
<1>2. Reasons(Routes, q) = {}
  BY <1>1 DEF ModelDecision
<1>3. ~("route" \in Reasons(Routes, q)) /\ ~("attempts" \in Reasons(Routes, q))
  BY <1>2
<1>4. {a \in Routes : a.key = q.key} # {}
  BY <1>3 DEF Reasons
<1>5. PICK b \in Routes : b.key = q.key
  BY <1>4
<1>6. ~(q.attempt > b.attempts)
  BY <1>3, <1>5 DEF Reasons
<1>7. PICK a \in RoutesOf(c) : a.provider = c.provider
  BY <1>1 DEF RoutesOf
<1>8. n <= b.attempts
  BY <1>6, EgressAssumption
<1> QED BY <1>5, <1>7, <1>8

LEMMA AuthorizeType == \A c, n, at : Authorize(c, n, at) \in {"allowed", "policy"}
BY DEF Authorize

LEMMA IdentifiedType == \A c, at : Identified(c, at) \in BOOLEAN
BY DEF Identified, IdentityAccepted

-----------------------------------------------------------------------------
(* What each step does *)

Calls == Explicit \cup {Resolve(m) : m \in Native}
Line(f, r) == [stage |-> "line", frame |-> f, request |-> r]

LEMMA CallFacts ==
  ASSUME RuntimeTypeOK
  PROVE  /\ AtWork => /\ call.frame \in Frame /\ call.request \in Request
                      /\ call = [stage |-> call.stage, frame |-> call.frame,
                                 request |-> call.request]
         /\ ~AtWork /\ call.stage # "final" => call = Idle
         /\ call = Idle => ~AtWork /\ call.stage = "idle"
BY DEF RuntimeTypeOK, GatewayTypeOK, AtWork, Idle

LEMMA FrameFacts ==
  ASSUME NEW f \in Frame
  PROVE  /\ f.sequence \in Nat /\ f.requested \in Pins /\ f.occurrence \in Occurrence
         /\ f.retryOf \in Occurrence \cup {Absent} /\ f.policy \in Policy
         /\ f.kind \in {"decision", "action"}
         /\ f.kind = "decision" => f \in Decision
         /\ f.kind = "action" => f \in Action /\ f.ending \in Ending
         /\ f.occurrence[2] \in 1 .. MaxAttempt
BY DEF Frame, Decision, Action, Occurrence

LEMMA LogFacts ==
  ASSUME RuntimeTypeOK
  PROVE  /\ Len(log) \in Nat /\ log \in Seq(Frame)
         /\ \A i \in 1 .. Len(log) : log[i] \in Frame
         /\ Decisions \subseteq 1 .. Len(log) /\ Actions \subseteq 1 .. Len(log)
         /\ \A i \in Decisions : log[i] \in Frame /\ log[i].kind = "decision"
         /\ \A i \in Actions : log[i] \in Frame /\ log[i].kind = "action"
BY DEF RuntimeTypeOK, GatewayTypeOK, Decisions, Actions

LEMMA EmitMeans ==
  ASSUME NEW r, NEW f, Emit(r, f)
  PROVE  \/ call' = Line(f, r) /\ chain' = chain + 1 /\ FrameSound(f) /\ InStep
         \/ call' = Idle /\ chain' = chain /\ ~FrameSound(f)
         \/ call' = Idle /\ chain' = chain + 1 /\ ~InStep
BY DEF Emit, Line

\* A request that was never handed an attempt is read or refused.
Turned(r) ==
  /\ LoopIsFree /\ handler[r] \in {"unsent", "reading"}
  /\ handler[r] = "unsent" => parent \in {"waiting", "closing"}
  /\ UNCHANGED <<manifest, open, prior, attempt, held, call, log, torn, disk, faults,
                 answer, gone, parent, exit, receipt>>
  /\ chain' \in Nat /\ (chain' = chain \/ ~InStep)
  /\ \E c \in Calls \cup {None} : asked' = [asked EXCEPT ![r] = c]
  /\ \E k \in Kind \cup {None} : kind' = [kind EXCEPT ![r] = k]
  /\ \/ /\ handler' = [handler EXCEPT ![r] = "reading"] /\ UNCHANGED <<reply, counters>>
     \/ Respond(r, "unauthorized") /\ counters' = Bump("unauthorized")
     \/ Refuse(r)

\* Its decision is on its way into the log.
PreparedAs(r, c, k, f) ==
  /\ LoopIsFree /\ handler[r] = "reading" /\ ~gone[r] /\ attempt[r] = "none"
  /\ Recording /\ InStep
  /\ asked' = [asked EXCEPT ![r] = c] /\ kind' = [kind EXCEPT ![r] = k]
  /\ call' = Line(f, r) /\ chain' = chain + 1
  /\ FrameSound(f) /\ f.sequence = chain /\ f.requested = RequestedModel(c)
  /\ f.occurrence \notin prior
  /\ f.policy = "allowed" =>
       \E a \in RoutesOf(c), b \in Routes :
         b.key = <<a.provider, RequestedModel(c)>> /\ f.occurrence[2] <= b.attempts
  /\ f.occurrence[2] > 1 =>
       f.retryOf = <<f.occurrence[1], f.occurrence[2] - 1>> /\ f.retryOf \in prior
  /\ handler' = [handler EXCEPT ![r] = "running"]
  /\ UNCHANGED <<manifest, open, prior, attempt, held, log, torn, disk, faults,
                 answer, reply, gone, counters, parent, exit, receipt>>
Prepared(r) == \E c \in Calls, k \in Kind, f \in Decision : PreparedAs(r, c, k, f)

\* It is answered: the frame of its end is on its way, or the end is refused.
Answered(r, x) ==
  LET e == EndingOf(asked[r], x) IN
  /\ LoopIsFree /\ handler[r] = "upstream" /\ attempt[r] = "dispatched"
  /\ answer' = [answer EXCEPT ![r] = x]
  /\ attempt' = IF Accepted(e) THEN [attempt EXCEPT ![r] = "closed"] ELSE attempt
  /\ UNCHANGED <<manifest, open, prior, held, log, torn, disk, faults,
                 kind, asked, gone, parent, exit, receipt>>
  /\ \/ \E i \in Decisions :
          /\ Accepted(e) /\ log[i].occurrence = held[r]
          /\ FrameSound(ActionOf(log[i], e)) /\ InStep
          /\ call' = Line(ActionOf(log[i], e), r) /\ chain' = chain + 1
          /\ handler' = [handler EXCEPT ![r] = "running"] /\ UNCHANGED <<reply, counters>>
     \/ /\ Accepted(e) =>
             \E i \in Decisions :
               /\ log[i].occurrence = held[r]
               /\ ~(Closing /\ InStep /\ FrameSound(ActionOf(log[i], e)))
        /\ chain' \in {chain, chain + 1} /\ (~Accepted(e) => chain' = chain)
        /\ UNCHANGED call /\ Refuse(r)

LEMMA DispatchMeans ==
  ASSUME RuntimeTypeOK, NEW r \in Request, NEW k \in Kind, NEW c \in Calls,
         NEW l \in Logical, NEW n \in 1 .. MaxAttempt,
         NEW retryOf \in Occurrence \cup {Absent}, Dispatch(r, k, c, l, n, retryOf)
  PROVE  Prepared(r) \/ Turned(r)
<1>0. chain \in Nat
  BY DEF RuntimeTypeOK, GatewayTypeOK
<1>1. /\ LoopIsFree /\ handler[r] = "reading" /\ ~gone[r] /\ call = Idle
      /\ kind' = [kind EXCEPT ![r] = k] /\ asked' = [asked EXCEPT ![r] = c]
      /\ UNCHANGED <<answer, gone, parent, exit, receipt>>
  BY DEF Dispatch, LoopIsFree
<1>2. CASE ~(NamesModel(c) /\ MayPrepare(RequestedModel(c), l, n, retryOf))
  <2>1. Refuse(r) /\ UNCHANGED gatewayVars
    BY <1>2 DEF Dispatch
  <2> QED BY <1>0, <1>1, <2>1 DEF Turned, gatewayVars
<1>3. CASE NamesModel(c) /\ MayPrepare(RequestedModel(c), l, n, retryOf)
  <2>1. PICK at \in Times :
          Prepare(r, RequestedModel(c), l, n, retryOf, Authorize(c, n, at), Identified(c, at))
    BY <1>3 DEF Dispatch
  <2> DEFINE f == [kind |-> "decision", sequence |-> chain, requested |-> RequestedModel(c),
                   occurrence |-> <<l, n>>, retryOf |-> retryOf,
                   policy |-> Authorize(c, n, at), identified |-> Identified(c, at)]
  <2>2. /\ attempt[r] = "none" /\ Emit(r, f)
        /\ UNCHANGED <<manifest, open, prior, attempt, held, log, torn, disk, faults>>
    BY <2>1 DEF Prepare
  <2>3. /\ Recording /\ RequestedModel(c) \in Pins /\ <<l, n>> \notin prior
        /\ IF n = 1 THEN retryOf = Absent ELSE retryOf = <<l, n - 1>> /\ retryOf \in prior
    BY <1>3 DEF MayPrepare
  <2>4. /\ f.sequence = chain /\ f.requested = RequestedModel(c) /\ f.kind = "decision"
        /\ f.occurrence = <<l, n>> /\ f.retryOf = retryOf /\ f.policy = Authorize(c, n, at)
        /\ f.occurrence[1] = l /\ f.occurrence[2] = n
    OBVIOUS
  <2>5. n \in Nat /\ n >= 1 /\ MaxAttempt \in Nat
    BY GatewayAssumption
  <2>6. Authorize(c, n, at) \in {"allowed", "policy"}
    BY AuthorizeType
  <2>7. f \in Decision
    BY <1>0, <2>3, <2>6, IdentifiedType DEF Decision, Occurrence, Policy
  <2>8. n = 1 <=> retryOf = Absent
    <3>1. n # 1 => retryOf \in Occurrence
      BY <2>3, <2>5 DEF Occurrence
    <3> QED BY <2>3, <3>1, GatewayAssumption
  <2>9. n > 1 => retryOf = <<l, n - 1>> /\ retryOf \in prior
    BY <2>3, <2>5
  <2> HIDE DEF f
  <2>10. f.policy = "allowed" =>
           \E a \in RoutesOf(c), b \in Routes :
             b.key = <<a.provider, RequestedModel(c)>> /\ f.occurrence[2] <= b.attempts
    <3>1. Authorize(c, n, at) = "allowed" =>
            \E a \in RoutesOf(c), b \in Routes :
              b.key = <<a.provider, RequestedModel(c)>> /\ n <= b.attempts
      BY <2>5, AllowedMeans
    <3> QED BY <2>4, <3>1
  <2>11. FrameSound(f)
    BY <2>3, <2>4, <2>5, <2>6, <2>8 DEF FrameSound
  <2>12. CASE call' = Idle
    <3>1. Refuse(r)
      BY <1>3, <2>12 DEF Dispatch
    <3>2. ~InStep /\ chain' = chain + 1
      BY <2>2, <2>11, <2>12, EmitMeans DEF Line, Idle
    <3>3. UNCHANGED <<manifest, open, prior, attempt, held, call, log, torn, disk, faults,
                      answer, gone, parent, exit, receipt>>
      BY <1>1, <2>2, <2>12
    <3>4. chain' \in Nat /\ (chain' = chain \/ ~InStep)
      BY <1>0, <3>2
    <3> QED BY <1>1, <3>1, <3>3, <3>4 DEF Turned
  <2>13. CASE call' # Idle
    <3>1. handler' = [handler EXCEPT ![r] = "running"] /\ UNCHANGED <<reply, counters>>
      BY <1>3, <2>13 DEF Dispatch
    <3>2. call' = Line(f, r) /\ chain' = chain + 1 /\ InStep
      BY <2>2, <2>13, EmitMeans
    <3>3. f.occurrence \notin prior
      BY <2>3, <2>4
    <3>4. f.occurrence[2] > 1 =>
            f.retryOf = <<f.occurrence[1], f.occurrence[2] - 1>> /\ f.retryOf \in prior
      BY <2>4, <2>9
    <3>5. f.sequence = chain /\ f.requested = RequestedModel(c)
      BY <2>4
    <3>6. UNCHANGED <<manifest, open, prior, attempt, held, log, torn, disk, faults,
                      answer, reply, gone, counters, parent, exit, receipt>>
      BY <1>1, <2>2, <3>1
    <3>7. PreparedAs(r, c, k, f)
      BY <1>1, <2>2, <2>3, <2>10, <2>11, <3>1, <3>2, <3>3, <3>4, <3>5, <3>6 DEF PreparedAs
    <3> QED BY <2>7, <3>7 DEF Prepared
  <2> QED BY <2>12, <2>13
<1> QED BY <1>2, <1>3

\* A native call's number is one of Logical: each before it was answered.
LEMMA NativeIdType ==
  ASSUME RuntimeTypeOK, ReplySound, NEW r \in Request, handler[r] = "reading"
  PROVE  NativeId \in Logical
<1> DEFINE Done == {s \in Request : handler[s] = "done"}
<1>1. Done \in SUBSET Request /\ Done # Request
  OBVIOUS
<1>2. IsFiniteSet(Request) /\ Cardinality(Request) \in Nat
  BY LogicalAssumption, FS_CardinalityType
<1>3. IsFiniteSet(Done) /\ Cardinality(Done) < Cardinality(Request)
  BY <1>1, <1>2, FS_Subset, FS_CardinalityType
<1>4. counters.native \in Nat /\ counters.native <= Cardinality(Done)
  BY DEF RuntimeTypeOK, Counters, ReplySound
<1>5. Cardinality(Done) \in Nat
  BY <1>3, FS_CardinalityType
<1> HIDE DEF Done
<1>6. counters.native + 1 \in 1 .. Cardinality(Request)
  BY <1>2, <1>3, <1>4, <1>5
<1> QED BY <1>6, LogicalAssumption DEF NativeId

LEMMA SettleMeans ==
  ASSUME RuntimeTypeOK, NEW r \in Request, NEW x \in Exchange, Settle(r, x)
  PROVE  Answered(r, x)
<1> DEFINE e == EndingOf(asked[r], x)
<1>1. /\ LoopIsFree /\ handler[r] = "upstream" /\ call = Idle
      /\ answer' = [answer EXCEPT ![r] = x] /\ Finish(r, e)
      /\ IF call' = Idle THEN Refuse(r)
         ELSE handler' = [handler EXCEPT ![r] = "running"] /\ UNCHANGED <<reply, counters>>
      /\ UNCHANGED <<kind, asked, gone, parent, exit, receipt>>
  BY DEF Settle, LoopIsFree
<1> HIDE DEF e
<1>2. /\ attempt[r] = "dispatched"
      /\ UNCHANGED <<manifest, open, prior, held, log, torn, disk, faults>>
  BY <1>1 DEF Finish
<1>3. CASE ~Accepted(e)
  <2>1. UNCHANGED <<attempt, chain, call>>
    BY <1>1, <1>3 DEF Finish
  <2> QED BY <1>1, <1>2, <1>3, <2>1 DEF Answered, e
<1>4. CASE Accepted(e)
  <2>1. attempt' = [attempt EXCEPT ![r] = "closed"]
    BY <1>1, <1>4 DEF Finish
  <2>2. PICK i \in 1 .. Len(log) :
          /\ log[i].kind = "decision" /\ log[i].occurrence = held[r]
          /\ IF Closing THEN Emit(r, ActionOf(log[i], e)) ELSE UNCHANGED <<chain, call>>
    BY <1>1, <1>4 DEF Finish
  <2>3. i \in Decisions
    BY <2>2 DEF Decisions
  <2>4. CASE /\ call' = Line(ActionOf(log[i], e), r) /\ chain' = chain + 1
             /\ FrameSound(ActionOf(log[i], e)) /\ InStep
    <3>1. call' # Idle
      BY <2>4 DEF Line, Idle
    <3> QED BY <1>1, <1>2, <1>4, <2>1, <2>2, <2>3, <2>4, <3>1 DEF Answered, e
  <2>5. CASE /\ call' = Idle /\ chain' \in {chain, chain + 1}
             /\ ~(Closing /\ InStep /\ FrameSound(ActionOf(log[i], e)))
    BY <1>1, <1>2, <1>4, <2>1, <2>2, <2>3, <2>5 DEF Answered, e
  <2> QED BY <1>1, <2>2, <2>4, <2>5, EmitMeans
<1> QED BY <1>3, <1>4

LEMMA Steps ==
  ASSUME RuntimeTypeOK, ReplySound, [Next]_vars
  PROVE  \/ \E r \in Request : Turned(r) \/ Prepared(r) \/ CallProvider(r) \/ HangUp(r)
         \/ \E r \in Request, x \in Exchange : Answered(r, x)
         \/ (WriteLine \/ AdmitAttempt \/ CensorAttempt \/ CountAttempt) /\ UNCHANGED runtimeVars
         \/ Return
         \/ \E how \in {"completed", "failed"} : ChildExits(how)
         \/ Seal \/ Sealed \/ Fail \/ WriteReceipt
         \/ UNCHANGED vars
<1>1. CASE \E r \in Request : Receive(r) \/ ReadFails(r)
  <2>0. chain \in Nat /\ asked \in [Request -> Calls \cup {None}] /\ kind \in [Request -> Kind \cup {None}]
    BY DEF RuntimeTypeOK, GatewayTypeOK, Calls
  <2>1. PICK r \in Request : Receive(r) \/ ReadFails(r)
    BY <1>1
  <2>2. asked' = [asked EXCEPT ![r] = asked[r]] /\ asked[r] \in Calls \cup {None}
    BY <2>0, <2>1 DEF Receive, ReadFails
  <2>3. kind' = [kind EXCEPT ![r] = kind[r]] /\ kind[r] \in Kind \cup {None}
    BY <2>0, <2>1 DEF Receive, ReadFails
  <2>4. Turned(r)
    BY <2>0, <2>1, <2>2, <2>3 DEF Receive, ReadFails, Turned, gatewayVars
  <2> QED BY <2>4
<1>2. CASE \E r \in Request, c \in Explicit, l \in Name, n \in 1 .. MaxAttempt,
              retryOf \in Occurrence \cup {Absent} :
             Dispatch(r, "explicit", c, l, n, retryOf)
  BY <1>2, DispatchMeans, LogicalAssumption DEF Calls, Kind
<1>3. CASE \E r \in Request, m \in Native : DispatchNative(r, m)
  <2>1. PICK r \in Request, m \in Native : DispatchNative(r, m)
    BY <1>3
  <2>2. Dispatch(r, "native", Resolve(m), NativeId, 1, Absent)
    BY <2>1 DEF DispatchNative
  <2>3. NativeId \in Logical
    BY <2>2, NativeIdType DEF Dispatch
  <2>4. Resolve(m) \in Calls /\ 1 \in 1 .. MaxAttempt /\ "native" \in Kind
    BY GatewayAssumption DEF Calls, Kind
  <2> QED BY <2>2, <2>3, <2>4, DispatchMeans
<1>4. CASE \E r \in Request, x \in Exchange : Settle(r, x)
  BY <1>4, SettleMeans
<1> HIDE DEF Turned, Prepared, Answered
<1> QED BY <1>1, <1>2, <1>3, <1>4 DEF Next, Record

LEMMA BumpMeans ==
  ASSUME RuntimeTypeOK, NEW c \in {"unauthorized", "malformed"}
  PROVE  LET b == Bump(c) IN
         /\ b \in Counters
         /\ b.accepted = counters.accepted /\ b.explicit = counters.explicit
         /\ b.native = counters.native
         /\ b.unauthorized = counters.unauthorized + IF c = "unauthorized" THEN 1 ELSE 0
         /\ b.malformed = counters.malformed + IF c = "malformed" THEN 1 ELSE 0
BY DEF RuntimeTypeOK, Counters, Bump

\* A refusal, with its two effects.
LEMMA RefuseMeans ==
  ASSUME RuntimeTypeOK, NEW r \in Request, Refuse(r)
  PROVE  /\ handler' = [handler EXCEPT ![r] = "done"]
         /\ reply' \in [Request -> {None, "response", "refusal", "invalid", "unauthorized"}]
         /\ \A s \in Request : reply'[s] = IF s = r /\ ~gone[r] THEN "invalid" ELSE reply[s]
         /\ counters' \in Counters
         /\ counters'.accepted = counters.accepted /\ counters'.explicit = counters.explicit
         /\ counters'.native = counters.native
         /\ counters'.unauthorized = counters.unauthorized
         /\ counters'.malformed = counters.malformed + 1
<1>1. counters' = Bump("malformed")
  BY DEF Refuse
<1>2. reply \in [Request -> {None, "response", "refusal", "invalid", "unauthorized"}]
  BY DEF RuntimeTypeOK
<1>3. counters \in Counters
  BY DEF RuntimeTypeOK
<1>4. counters.unauthorized \in Nat
  BY <1>3 DEF Counters
<1>5. reply' = [reply EXCEPT ![r] = IF gone[r] THEN @ ELSE "invalid"]
  BY DEF Refuse, Respond
<1> QED BY <1>1, <1>2, <1>4, <1>5, BumpMeans DEF Refuse, Respond

LEMMA TurnedMeans ==
  ASSUME RuntimeTypeOK, NEW r \in Request, Turned(r)
  PROVE  \/ handler' = [handler EXCEPT ![r] = "reading"] /\ UNCHANGED <<reply, counters>>
         \/ /\ handler' = [handler EXCEPT ![r] = "done"]
            /\ reply' \in [Request -> {None, "response", "refusal", "invalid", "unauthorized"}]
            /\ counters' \in Counters
            /\ counters'.accepted = counters.accepted
            /\ counters'.explicit = counters.explicit /\ counters'.native = counters.native
            /\ \/ /\ \A s \in Request :
                       reply'[s] = IF s = r /\ ~gone[r] THEN "invalid" ELSE reply[s]
                  /\ counters'.unauthorized = counters.unauthorized
                  /\ counters'.malformed = counters.malformed + 1
               \/ /\ \A s \in Request :
                       reply'[s] = IF s = r /\ ~gone[r] THEN "unauthorized" ELSE reply[s]
                  /\ counters'.unauthorized = counters.unauthorized + 1
                  /\ counters'.malformed = counters.malformed
<1>1. CASE handler' = [handler EXCEPT ![r] = "reading"] /\ UNCHANGED <<reply, counters>>
  BY <1>1
<1>2. CASE Refuse(r)
  BY <1>2, RefuseMeans
<1>3. CASE Respond(r, "unauthorized") /\ counters' = Bump("unauthorized")
  <2>1. reply \in [Request -> {None, "response", "refusal", "invalid", "unauthorized"}]
    BY DEF RuntimeTypeOK
  <2>2. counters \in Counters
    BY DEF RuntimeTypeOK
  <2>3. counters.malformed \in Nat
    BY <2>2 DEF Counters
  <2>4. /\ handler' = [handler EXCEPT ![r] = "done"]
        /\ reply' = [reply EXCEPT ![r] = IF gone[r] THEN @ ELSE "unauthorized"]
    BY <1>3 DEF Respond
  <2> QED BY <1>3, <2>1, <2>3, <2>4, BumpMeans
<1> QED BY <1>1, <1>2, <1>3 DEF Turned

\* The request is counted under its kind and answered, if the child still listens.
LEMMA ReturnMeans ==
  ASSUME RuntimeTypeOK, CallSound, ReplySound, Return
  PROVE  LET r == call.request
             what == IF call.frame.ending.outcome = "success" THEN "response" ELSE "refusal" IN
         /\ call.stage = "count" /\ AtWork /\ r \in Request /\ handler[r] = "running"
         /\ call.frame \in Frame /\ call.frame.kind = "action"
         /\ handler' = [handler EXCEPT ![r] = "done"]
         /\ reply' \in [Request -> {None, "response", "refusal", "invalid", "unauthorized"}]
         /\ \A s \in Request : reply'[s] = IF s = r /\ ~gone[r] THEN what ELSE reply[s]
         /\ counters' \in Counters
         /\ counters'.accepted = counters.accepted + 1
         /\ counters'.explicit + counters'.native = counters.explicit + counters.native + 1
         /\ counters'.native \in {counters.native, counters.native + 1}
         /\ counters'.unauthorized = counters.unauthorized
         /\ counters'.malformed = counters.malformed
<1> DEFINE r == call.request
           what == IF call.frame.ending.outcome = "success" THEN "response" ELSE "refusal"
<1>1. call.stage = "count" /\ AtWork /\ Accept(r)
  BY DEF Return, WriteCount, AtWork
<1>2. r \in Request /\ call.frame \in Frame
  BY <1>1, CallFacts
<1>3. handler[r] = "running" /\ call.frame.kind = "action"
  BY <1>1, <1>2, FrameFacts DEF CallSound
<1>4. kind[r] \in {"explicit", "native"}
  BY <1>2, <1>3 DEF ReplySound, RuntimeTypeOK, Kind
<1>5. /\ reply \in [Request -> {None, "response", "refusal", "invalid", "unauthorized"}]
      /\ counters \in Counters
  BY DEF RuntimeTypeOK
<1> HIDE DEF what
<1>6. /\ handler' = [handler EXCEPT ![r] = "done"]
      /\ reply' = [reply EXCEPT ![r] = IF gone[r] THEN @ ELSE what]
      /\ counters' = [counters EXCEPT !.accepted = @ + 1, ![kind[r]] = @ + 1]
  BY <1>1 DEF Accept, Respond, what
<1>7. what \in {"response", "refusal"}
  BY DEF what
<1>8. /\ counters' \in Counters
      /\ counters'.accepted = counters.accepted + 1
      /\ counters'.explicit + counters'.native = counters.explicit + counters.native + 1
      /\ counters'.native \in {counters.native, counters.native + 1}
      /\ counters'.unauthorized = counters.unauthorized
      /\ counters'.malformed = counters.malformed
  <2> DEFINE k == kind[r]
  <2> HIDE DEF k
  <2>1. counters' = [counters EXCEPT !.accepted = @ + 1, ![k] = @ + 1]
    BY <1>6 DEF k
  <2>2. k = "explicit" \/ k = "native"
    BY <1>4 DEF k
  <2>3. counters \in [{"accepted", "explicit", "native", "unauthorized", "malformed"} -> Nat]
    BY <1>5 DEF Counters
  <2>4. \A c \in {"accepted", "explicit", "native", "unauthorized", "malformed"} :
          counters'[c] = counters[c] + IF c \in {"accepted", k} THEN 1 ELSE 0
    BY <2>1, <2>2, <2>3
  <2>5. counters' \in [{"accepted", "explicit", "native", "unauthorized", "malformed"} -> Nat]
    BY <2>1, <2>2, <2>3
  <2>6. counters' \in Counters
    BY <2>5 DEF Counters
  <2> QED BY <2>2, <2>3, <2>4, <2>6
<1>9. /\ reply' \in [Request -> {None, "response", "refusal", "invalid", "unauthorized"}]
      /\ \A s \in Request : reply'[s] = IF s = r /\ ~gone[r] THEN what ELSE reply[s]
  BY <1>2, <1>5, <1>6, <1>7
<1> QED BY <1>1, <1>2, <1>3, <1>6, <1>8, <1>9 DEF what

\* Of the gateway's variables only these change when a line is written.
LEMMA LineMeans ==
  ASSUME RuntimeTypeOK, WriteLine
  PROVE  LET f == call.frame
             n == Len(log) + 1 IN
         /\ call.stage = "line" /\ AtWork /\ f \in Frame /\ call.request \in Request
         /\ log' \in Seq(Frame) /\ Len(log') = n /\ log'[n] = f
         /\ \A i \in 1 .. Len(log) : log'[i] = log[i]
         /\ f.kind = "decision" => Decisions' = Decisions \cup {n} /\ Actions' = Actions
         /\ f.kind = "action" => Decisions' = Decisions /\ Actions' = Actions \cup {n}
         /\ manifest' \in Manifest /\ manifest'.frames = manifest.frames + 1
         /\ manifest'.status = manifest.status /\ manifest'.attempts = manifest.attempts
         /\ call' = [stage |-> "manifest", frame |-> f, request |-> call.request]
         /\ AtWork' /\ call'.stage = "manifest"
         /\ UNCHANGED <<chain, open, prior, attempt, held, torn, disk, faults>>
<1> DEFINE f == call.frame
           n == Len(log) + 1
<1>1. /\ call.stage = "line" /\ AtWork /\ log' = Append(log, f)
      /\ manifest' = [manifest EXCEPT !.frames = @ + 1]
      /\ call' = [call EXCEPT !.stage = "manifest"]
      /\ UNCHANGED <<chain, open, prior, attempt, held, torn, disk, faults>>
  BY DEF WriteLine, AtWork
<1>2. /\ f \in Frame /\ call.request \in Request
      /\ call = [stage |-> call.stage, frame |-> f, request |-> call.request]
  BY <1>1, CallFacts
<1>3. /\ log' \in Seq(Frame) /\ Len(log') = n /\ log'[n] = f /\ Len(log) \in Nat
      /\ \A i \in 1 .. Len(log) : log'[i] = log[i]
  BY <1>1, <1>2, LogFacts
<1>4. 1 .. Len(log') = (1 .. Len(log)) \cup {n}
  BY <1>3
<1>5. /\ f.kind = "decision" => Decisions' = Decisions \cup {n} /\ Actions' = Actions
      /\ f.kind = "action" => Decisions' = Decisions /\ Actions' = Actions \cup {n}
  <2>1. Decisions' = {i \in (1 .. Len(log)) \cup {n} : log'[i].kind = "decision"}
    BY <1>4 DEF Decisions
  <2>2. Actions' = {i \in (1 .. Len(log)) \cup {n} : log'[i].kind = "action"}
    BY <1>4 DEF Actions
  <2> HIDE DEF n
  <2> QED BY <1>3, <2>1, <2>2 DEF Decisions, Actions
<1>6. /\ manifest' \in Manifest /\ manifest'.frames = manifest.frames + 1
      /\ manifest'.status = manifest.status /\ manifest'.attempts = manifest.attempts
  <2>1. manifest \in Manifest
    BY DEF RuntimeTypeOK, GatewayTypeOK
  <2> QED BY <1>1, <2>1 DEF Manifest
<1>7. /\ call' = [stage |-> "manifest", frame |-> f, request |-> call.request]
      /\ call'.stage = "manifest" /\ AtWork'
  BY <1>1, <1>2 DEF AtWork
<1> QED BY <1>1, <1>2, <1>3, <1>5, <1>6, <1>7

LEMMA LogStays ==
  ASSUME RuntimeTypeOK, ReplySound, [Next]_vars, ~WriteLine
  PROVE  log' = log
<1>1. CASE \E r \in Request : Turned(r) \/ Prepared(r) \/ CallProvider(r) \/ HangUp(r)
  BY <1>1 DEF Turned, Prepared, PreparedAs, CallProvider, MarkDispatched, HangUp, gatewayVars
<1>2. CASE \E r \in Request, x \in Exchange : Answered(r, x)
  BY <1>2 DEF Answered
<1>3. CASE AdmitAttempt \/ CensorAttempt \/ CountAttempt
  BY <1>3 DEF AdmitAttempt, CensorAttempt, CountAttempt
<1>4. CASE Return \/ \E how \in {"completed", "failed"} : ChildExits(how)
  BY <1>4 DEF Return, WriteCount, ChildExits, gatewayVars
<1>5. CASE Seal \/ Sealed \/ Fail \/ WriteReceipt \/ UNCHANGED vars
  BY <1>5 DEF Seal, Finalize, Sealed, WriteFinal, Fail, WriteFails, WriteReceipt, vars, gatewayVars
<1> QED BY <1>1, <1>2, <1>3, <1>4, <1>5, Steps

\* prepare's attempt is censored: its second frame is built, and sound.
LEMMA CensorMeans ==
  ASSUME RuntimeTypeOK, CallSound, LogSound, CensorAttempt
  PROVE  LET d == call.frame
             f == ActionOf(d, Censoring(CensorOutcome[d.policy])) IN
         /\ call.stage = "manifest" /\ AtWork /\ d \in Decision /\ d.policy # "allowed"
         /\ f \in Action /\ f \in Frame /\ f.kind = "action" /\ FrameSound(f) /\ ~Ended(f)
         /\ f.sequence = chain /\ f.occurrence = d.occurrence
         /\ call.request \in Request
         /\ call' = Line(f, call.request) /\ chain' = chain + 1
         /\ disk' = manifest /\ prior' = prior \cup {d.occurrence}
         /\ UNCHANGED <<manifest, open, attempt, held, log, torn, faults>>
<1> DEFINE d == call.frame
           r == call.request
           f == ActionOf(d, Censoring(CensorOutcome[d.policy]))
<1>1. /\ call.stage = "manifest" /\ AtWork /\ d.kind = "decision" /\ d.policy # "allowed"
      /\ disk' = manifest /\ prior' = prior \cup {d.occurrence} /\ Emit(r, f)
      /\ UNCHANGED <<manifest, open, attempt, held, log, torn, faults>>
  BY DEF CensorAttempt, AtWork
<1>2. d \in Frame /\ r \in Request /\ d \in Decision
  BY <1>1, CallFacts, FrameFacts
<1>3. /\ d.requested \in Pins /\ d.occurrence \in Occurrence
      /\ d.retryOf \in Occurrence \cup {Absent} /\ d.policy \in {"policy", "budget"}
  BY <1>1, <1>2, FrameFacts DEF Policy
<1>4. CensorOutcome[d.policy] \in Censored
  BY <1>3 DEF CensorOutcome, Censored
<1> DEFINE o == CensorOutcome[d.policy]
<1>5. Censoring(o) \in Ending
  BY <1>4 DEF Censoring, Ending
<1>6. chain \in Nat
  BY DEF RuntimeTypeOK, GatewayTypeOK
<1>7. /\ f.kind = "action" /\ f.sequence = chain /\ f.requested = d.requested
      /\ f.occurrence = d.occurrence /\ f.retryOf = d.retryOf /\ f.policy = d.policy
      /\ f.ending = Censoring(o)
  BY DEF ActionOf
<1>8. f \in Action
  BY <1>2, <1>3, <1>5, <1>6, FrameFacts DEF ActionOf, Action
<1>9. FrameSound(d) /\ chain = manifest.frames
  BY <1>1 DEF CallSound, LogSound
<1>10. EndingSound(Censoring(o), d.requested)
  BY <1>4, FrameAssumption DEF EndingSound, Censoring, Censored, Terminal
<1> HIDE DEF f, o
<1>11. FrameSound(f)
  BY <1>7, <1>9, <1>10 DEF FrameSound
<1>12. ~Ended(f)
  BY <1>4, <1>7 DEF Ended, Censoring, o
<1>13. call' = Line(f, r) /\ chain' = chain + 1
  BY <1>1, <1>9, <1>11, EmitMeans DEF InStep
<1> QED BY <1>1, <1>2, <1>7, <1>8, <1>11, <1>12, <1>13 DEF f, Frame

LEMMA OwingFacts ==
  /\ Owing \subseteq Request /\ IsFiniteSet(Owing) /\ Cardinality(Owing) \in Nat
BY LogicalAssumption, FS_Subset, FS_CardinalityType DEF Owing

-----------------------------------------------------------------------------
(* The initial state *)

LEMMA InitSound == Init => IInv
<1> SUFFICES ASSUME Init PROVE IInv
  OBVIOUS
<1>1. /\ chain = 0 /\ open = 0 /\ faults = 0 /\ prior = {} /\ call = Idle /\ torn = FALSE
      /\ manifest = [status |-> "recording", frames |-> 0, attempts |-> 0]
      /\ disk = manifest /\ log = <<>> /\ Len(log) = 0
      /\ attempt = [r \in Request |-> "none"] /\ held = [r \in Request |-> None]
  BY DEF Init, GatewayInit
<1>2. /\ handler = [r \in Request |-> "unsent"] /\ kind = [r \in Request |-> None]
      /\ asked = [r \in Request |-> None] /\ answer = [r \in Request |-> None]
      /\ reply = [r \in Request |-> None] /\ gone = [r \in Request |-> FALSE]
      /\ counters = [accepted |-> 0, explicit |-> 0, native |-> 0, unauthorized |-> 0,
                     malformed |-> 0]
      /\ parent = "waiting" /\ exit = None /\ receipt = None
  BY DEF Init
<1>3. ~AtWork /\ call.stage = "idle"
  BY <1>1 DEF AtWork, Idle
<1>4. Actions = {} /\ Decisions = {}
  BY <1>1 DEF Actions, Decisions
<1>5. Owing = {} /\ Cardinality(Owing) = 0 /\ Uncounted = 0 /\ Pending = 0
  BY <1>1, <1>3, <1>4, FS_EmptySet DEF Owing, Uncounted, Pending
<1>6. RuntimeTypeOK
  <2>1. GatewayTypeOK
    <3>1. torn \in BOOLEAN
      BY <1>1
    <3>2. log \in Seq(Frame)
      <4>1. <<>> \in Seq(Frame)
        OBVIOUS
      <4> QED BY <1>1, <4>1
    <3> QED BY <1>1, <3>1, <3>2 DEF GatewayTypeOK, Manifest, AttemptState
  <2> QED BY <1>2, <2>1 DEF RuntimeTypeOK, Counters
<1>7. CallSound /\ OpenSound /\ AttemptSound /\ LogSound
  BY <1>1, <1>2, <1>3, <1>4, <1>5
     DEF CallSound, OpenSound, AttemptSound, LogSound, Handed, HasAction, HasDecision
<1>8. ParentSound
  BY <1>1, <1>2, <1>3 DEF ParentSound, Over
<1>9. ReplySound /\ ReceiptSound
  <2>1. Cardinality({r \in Request : handler[r] = "done"}) = 0
    <3>1. {r \in Request : handler[r] = "done"} = {}
      BY <1>2
    <3> QED BY <3>1, FS_EmptySet
  <2>2. \A r \in Request : handler[r] = "unsent" /\ reply[r] = None
    BY <1>2
  <2>3. ReceiptSound
    BY <1>2 DEF ReceiptSound
  <2>4. counters.accepted = 0 /\ counters.explicit = 0 /\ counters.native = 0
    BY <1>2
  <2>5. None \notin {"response", "invalid", "unauthorized"}
    BY LogicalAssumption
  <2> QED BY <2>1, <2>2, <2>3, <2>4, <2>5 DEF ReplySound
<1>10. LogWhole
  BY <1>1, <1>3, <1>4 DEF LogWhole, Handed
<1>11. CountsWhole
  <2>1. Recorded = {}
    BY <1>4 DEF Recorded
  <2> QED BY <1>1, <1>2, <1>3, <1>5, <2>1, FS_EmptySet DEF CountsWhole
<1>12. RefusalsWhole
  BY <1>2 DEF RefusalsWhole
<1> QED BY <1>6, <1>7, <1>8, <1>9, <1>10, <1>11, <1>12 DEF IInv

-----------------------------------------------------------------------------
(* Types *)

Replies == {None, "response", "refusal", "invalid", "unauthorized"}
Stages == {"unsent", "reading", "running", "upstream", "done"}

LEMMA LineType ==
  ASSUME NEW f \in Frame, NEW r \in Request
  PROVE  /\ Line(f, r) \in [stage : {"line", "manifest", "count"}, frame : Frame,
                            request : Request]
         /\ Line(f, r).stage = "line" /\ Line(f, r).frame = f /\ Line(f, r).request = r
         /\ Line(f, r) # Idle
BY DEF Line, Idle

\* The frame of an attempt's end.
LEMMA ActionFacts ==
  ASSUME RuntimeTypeOK, NEW i \in Decisions, NEW e \in Ending
  PROVE  LET f == ActionOf(log[i], e) IN
         /\ f \in Frame /\ f.kind = "action" /\ f.sequence = chain /\ f.ending = e
         /\ f.requested = log[i].requested /\ f.occurrence = log[i].occurrence
         /\ f.retryOf = log[i].retryOf /\ f.policy = log[i].policy
<1>1. log[i] \in Frame
  BY LogFacts
<1>2. chain \in Nat
  BY DEF RuntimeTypeOK, GatewayTypeOK
<1> QED BY <1>1, <1>2, FrameFacts DEF ActionOf, Frame, Action

LEMMA GatewayTypeStep ==
  ASSUME RuntimeTypeOK, CallSound, LogSound, OpenSound, ReplySound, [Next]_vars
  PROVE  GatewayTypeOK'
<1>0. GatewayTypeOK
  BY DEF RuntimeTypeOK
<1> USE DEF GatewayTypeOK
<1>1. CASE \E r \in Request : Turned(r)
  BY <1>0, <1>1 DEF Turned
<1>2. CASE \E r \in Request : Prepared(r)
  <2>0. PICK r \in Request, c \in Calls, k \in Kind, f \in Decision : PreparedAs(r, c, k, f)
    BY <1>2 DEF Prepared
  <2>1. /\ call' = Line(f, r) /\ chain' = chain + 1
        /\ UNCHANGED <<manifest, open, prior, attempt, held, log, torn, disk, faults>>
    BY <2>0 DEF PreparedAs
  <2>2. f \in Frame
    BY DEF Frame
  <2> QED BY <1>0, <2>1, <2>2, LineType
<1>3. CASE \E r \in Request : CallProvider(r)
  BY <1>0, <1>3 DEF CallProvider, MarkDispatched, AttemptState
<1>4. CASE \E r \in Request : HangUp(r)
  BY <1>0, <1>4 DEF HangUp, gatewayVars
<1>5. CASE \E r \in Request, x \in Exchange : Answered(r, x)
  <2>1. PICK r \in Request, x \in Exchange : Answered(r, x)
    BY <1>5
  <2>2. attempt' \in [Request -> AttemptState]
    BY <1>0, <2>1 DEF Answered, AttemptState
  <2>3. CASE UNCHANGED call /\ chain' \in {chain, chain + 1}
    BY <1>0, <2>1, <2>2, <2>3 DEF Answered
  <2>4. CASE \E i \in Decisions :
               /\ Accepted(EndingOf(asked[r], x)) /\ chain' = chain + 1
               /\ call' = Line(ActionOf(log[i], EndingOf(asked[r], x)), r)
    <3>1. PICK i \in Decisions :
               /\ Accepted(EndingOf(asked[r], x)) /\ chain' = chain + 1
               /\ call' = Line(ActionOf(log[i], EndingOf(asked[r], x)), r)
      BY <2>4
    <3>2. ActionOf(log[i], EndingOf(asked[r], x)) \in Frame
      BY <3>1, AcceptedEnding, ActionFacts
    <3>3. call' \in [stage : {"line", "manifest", "count"}, frame : Frame, request : Request]
      BY <3>1, <3>2, LineType
    <3> QED BY <1>0, <2>1, <2>2, <3>1, <3>3 DEF Answered
  <2> QED BY <2>1, <2>3, <2>4 DEF Answered
<1>6. CASE WriteLine
  BY <1>0, <1>6, LineMeans
<1>7. CASE AdmitAttempt
  <2>1. call.frame \in Frame /\ call.frame.occurrence \in Occurrence /\ call.request \in Request
    BY <1>7, CallFacts, FrameFacts DEF AdmitAttempt, AtWork
  <2> QED BY <1>0, <1>7, <2>1 DEF AdmitAttempt, AttemptState
<1>8. CASE CensorAttempt
  <2>1. call.frame \in Frame /\ call.frame.occurrence \in Occurrence
    BY <1>8, CallFacts, FrameFacts DEF CensorAttempt, AtWork
  <2> QED BY <1>0, <1>8, <2>1, CensorMeans, LineType
<1>9. CASE CountAttempt
  <2>1. /\ AtWork /\ call.stage = "manifest" /\ call.frame \in Frame /\ call.request \in Request
        /\ call = [stage |-> call.stage, frame |-> call.frame, request |-> call.request]
    BY <1>9, CallFacts DEF CountAttempt, AtWork
  <2>2. OpenAfter(call.frame) \in Nat
    <3>1. call.frame.ending.outcome \notin Censored => open >= 1
      BY <1>0, <1>9, <2>1, OwingFacts DEF CountAttempt, OpenSound, Uncounted, Ended
    <3> QED BY <1>0, <3>1 DEF OpenAfter
  <2>3. call' \in [stage : {"line", "manifest", "count"}, frame : Frame, request : Request]
    BY <1>9, <2>1 DEF CountAttempt
  <2>4. manifest' \in Manifest
    <3>1. manifest \in Manifest
      BY <1>0
    <3> QED BY <1>9, <3>1 DEF CountAttempt, Manifest
  <2>5. /\ open' = OpenAfter(call.frame) /\ disk' = manifest
        /\ UNCHANGED <<chain, prior, attempt, held, log, torn, faults>>
    BY <1>9 DEF CountAttempt
  <2> QED BY <1>0, <2>2, <2>3, <2>4, <2>5
<1>10. CASE Return
  <2>1. call.frame \in Frame /\ call.frame.occurrence \in Occurrence /\ call.request \in Request
    BY <1>10, CallFacts, FrameFacts DEF Return, WriteCount, AtWork
  <2>2. attempt' \in [Request -> AttemptState] /\ held' \in [Request -> Occurrence \cup {None}]
    BY <1>0, <1>10, <2>1 DEF Return, WriteCount, AttemptState
  <2>3. /\ call' = Idle /\ disk' = manifest
        /\ UNCHANGED <<chain, manifest, open, prior, log, torn, faults>>
    BY <1>10 DEF Return, WriteCount
  <2> QED BY <1>0, <2>2, <2>3
<1>11. CASE (\E how \in {"completed", "failed"} : ChildExits(how)) \/ WriteReceipt \/ UNCHANGED vars
  BY <1>0, <1>11 DEF ChildExits, WriteReceipt, vars, gatewayVars
<1>12. CASE Seal
  <2>1. CASE UNCHANGED gatewayVars
    BY <1>0, <2>1 DEF gatewayVars
  <2>2. CASE Finalize
    <3>1. manifest \in Manifest
      BY <1>0
    <3>2. manifest' \in Manifest
      BY <2>2, <3>1 DEF Finalize, Manifest
    <3> QED BY <1>0, <2>2, <3>2 DEF Finalize
  <2> QED BY <1>12, <2>1, <2>2 DEF Seal
<1>13. CASE Sealed
  BY <1>0, <1>13 DEF Sealed, WriteFinal
<1>14. CASE Fail
  <2>1. torn' \in BOOLEAN
    BY <1>0, <1>14 DEF Fail, WriteFails
  <2>2. /\ call' = Idle /\ faults' = faults + 1
        /\ UNCHANGED <<chain, manifest, open, prior, attempt, held, log, disk>>
    BY <1>14 DEF Fail, WriteFails
  <2> QED BY <1>0, <2>1, <2>2
<1> QED BY <1>1, <1>2, <1>3, <1>4, <1>5, <1>6, <1>7, <1>8, <1>9, <1>10, <1>11, <1>12, <1>13, <1>14, Steps

LEMMA TypeStep ==
  ASSUME RuntimeTypeOK, CallSound, LogSound, OpenSound, ParentSound, ReplySound, [Next]_vars
  PROVE  RuntimeTypeOK'
<1>0. /\ handler \in [Request -> Stages] /\ kind \in [Request -> Kind \cup {None}]
      /\ asked \in [Request -> Calls \cup {None}] /\ answer \in [Request -> Exchange \cup {None}]
      /\ reply \in [Request -> Replies] /\ gone \in [Request -> BOOLEAN]
      /\ counters \in Counters
      /\ parent \in {"waiting", "closing", "sealing", "sealed", "returned", "threw"}
      /\ exit \in {None, "completed", "failed"} /\ receipt \in Receipt \cup {None}
  BY DEF RuntimeTypeOK, Stages, Calls, Replies
<1> DEFINE Good ==
      /\ handler \in [Request -> Stages] /\ kind \in [Request -> Kind \cup {None}]
      /\ asked \in [Request -> Calls \cup {None}] /\ answer \in [Request -> Exchange \cup {None}]
      /\ reply \in [Request -> Replies] /\ gone \in [Request -> BOOLEAN]
      /\ counters \in Counters
      /\ parent \in {"waiting", "closing", "sealing", "sealed", "returned", "threw"}
      /\ exit \in {None, "completed", "failed"} /\ receipt \in Receipt \cup {None}
<1> SUFFICES Good'
  BY GatewayTypeStep DEF RuntimeTypeOK, Stages, Calls, Replies
<1>1. CASE \E r \in Request : Turned(r)
  <2>1. PICK r \in Request : Turned(r)
    BY <1>1
  <2>2. handler' \in [Request -> Stages] /\ reply' \in [Request -> Replies] /\ counters' \in Counters
    BY <1>0, <2>1, TurnedMeans DEF Stages, Replies
  <2>3. asked' \in [Request -> Calls \cup {None}] /\ kind' \in [Request -> Kind \cup {None}]
    BY <1>0, <2>1 DEF Turned
  <2> QED BY <1>0, <2>1, <2>2, <2>3 DEF Turned
<1>2. CASE \E r \in Request : Prepared(r)
  <2>0. PICK r \in Request, c \in Calls, k \in Kind, f \in Decision : PreparedAs(r, c, k, f)
    BY <1>2 DEF Prepared
  <2>1. /\ asked' = [asked EXCEPT ![r] = c] /\ kind' = [kind EXCEPT ![r] = k]
        /\ handler' = [handler EXCEPT ![r] = "running"]
        /\ UNCHANGED <<answer, reply, gone, counters, parent, exit, receipt>>
    BY <2>0 DEF PreparedAs
  <2> QED BY <1>0, <2>1 DEF Stages
<1>3. CASE \E r \in Request : CallProvider(r) \/ HangUp(r)
  BY <1>0, <1>3 DEF CallProvider, HangUp, Stages
<1>4. CASE \E r \in Request, x \in Exchange : Answered(r, x)
  <2>1. PICK r \in Request, x \in Exchange : Answered(r, x)
    BY <1>4
  <2>2. answer' \in [Request -> Exchange \cup {None}]
    BY <1>0, <2>1 DEF Answered
  <2>3. handler' \in [Request -> Stages] /\ reply' \in [Request -> Replies] /\ counters' \in Counters
    <3>1. CASE handler' = [handler EXCEPT ![r] = "running"] /\ UNCHANGED <<reply, counters>>
      BY <1>0, <3>1 DEF Stages
    <3>2. CASE Refuse(r)
      BY <1>0, <3>2, RefuseMeans DEF Stages, Replies
    <3> QED BY <2>1, <3>1, <3>2 DEF Answered
  <2> QED BY <1>0, <2>1, <2>2, <2>3 DEF Answered
<1>5. CASE UNCHANGED runtimeVars
  BY <1>0, <1>5 DEF runtimeVars
<1>6. CASE Return
  <2>1. handler' \in [Request -> Stages] /\ reply' \in [Request -> Replies] /\ counters' \in Counters
    BY <1>0, <1>6, ReturnMeans DEF Stages, Replies
  <2> QED BY <1>0, <1>6, <2>1 DEF Return
<1>7. CASE (\E how \in {"completed", "failed"} : ChildExits(how)) \/ Seal \/ Sealed
  BY <1>0, <1>7 DEF ChildExits, Seal, Sealed
<1>8. CASE Fail
  <2>1. CASE call.stage = "final"
    BY <1>0, <1>8, <2>1 DEF Fail
  <2>2. CASE call.stage # "final"
    <3>1. AtWork /\ call.request \in Request
      BY <1>8, <2>2, CallFacts DEF Fail, WriteFails
    <3>2. Refuse(call.request) /\ UNCHANGED <<parent, kind, asked, answer, gone, exit, receipt>>
      BY <1>8, <2>2 DEF Fail
    <3>3. handler' \in [Request -> Stages] /\ reply' \in [Request -> Replies] /\ counters' \in Counters
      BY <1>0, <3>1, <3>2, RefuseMeans DEF Stages, Replies
    <3> QED BY <1>0, <3>2, <3>3
  <2> QED BY <2>1, <2>2
<1>9. CASE WriteReceipt
  <2>1. exit \in {"completed", "failed"} /\ Len(log) \in Nat /\ GatewayVerifies \in BOOLEAN
    BY <1>0, <1>9, LogFacts DEF WriteReceipt, ParentSound, GatewayVerifies
  <2>2. receipt' \in Receipt
    BY <1>0, <1>9, <2>1 DEF WriteReceipt, Receipt
  <2> QED BY <1>0, <1>9, <2>2 DEF WriteReceipt
<1>10. CASE UNCHANGED vars
  BY <1>0, <1>10 DEF vars, runtimeVars
<1> HIDE DEF Good
<1> QED BY <1>1, <1>2, <1>3, <1>4, <1>5, <1>6, <1>7, <1>8, <1>9, <1>10, Steps

-----------------------------------------------------------------------------
(* The frame on its way into the log *)

LEMMA SameLog ==
  ASSUME log' = log
  PROVE  /\ Actions' = Actions /\ Decisions' = Decisions
         /\ \A o : HasAction(o)' <=> HasAction(o)
         /\ \A o : HasDecision(o)' <=> HasDecision(o)
BY DEF Actions, Decisions, HasAction, HasDecision

LEMMA CallKept ==
  ASSUME CallSound, UNCHANGED <<call, handler, log, chain, prior, attempt, asked, answer, held>>
  PROVE  CallSound'
BY DEF CallSound, AtWork, HasAction, Actions, Permitted, Handed, Ended

LEMMA CallStep ==
  ASSUME RuntimeTypeOK, RuntimeTypeOK', CallSound, LogSound, AttemptSound, ReplySound, [Next]_vars
  PROVE  CallSound'
<1>0. call = Idle => ~AtWork
  BY CallFacts
<1>1. CASE call' = Idle \/ call'.stage = "final"
  BY <1>1 DEF CallSound, AtWork, Idle
<1>2. CASE UNCHANGED <<call, handler, log, chain, prior, attempt, asked, answer, held>>
  BY <1>2, CallKept
<1>3. CASE \E r \in Request : Prepared(r)
  <2>0. PICK r \in Request, c \in Calls, k \in Kind, f \in Decision : PreparedAs(r, c, k, f)
    BY <1>3 DEF Prepared
  <2>1. /\ handler[r] = "reading" /\ attempt[r] = "none" /\ InStep
        /\ asked' = [asked EXCEPT ![r] = c] /\ call' = Line(f, r) /\ chain' = chain + 1
        /\ FrameSound(f) /\ f.sequence = chain /\ f.requested = RequestedModel(c)
        /\ f.occurrence \notin prior
        /\ f.policy = "allowed" =>
             \E a \in RoutesOf(c), b \in Routes :
               b.key = <<a.provider, RequestedModel(c)>> /\ f.occurrence[2] <= b.attempts
        /\ f.occurrence[2] > 1 =>
             f.retryOf = <<f.occurrence[1], f.occurrence[2] - 1>> /\ f.retryOf \in prior
        /\ handler' = [handler EXCEPT ![r] = "running"]
        /\ UNCHANGED <<manifest, prior, attempt, held, log, answer>>
    BY <2>0 DEF PreparedAs
  <2>2. f \in Frame /\ f.kind = "decision"
    BY DEF Frame, Decision
  <2>3. call'.stage = "line" /\ call'.frame = f /\ call'.request = r
    BY <2>1, <2>2, LineType
  <2>4. handler'[r] = "running" /\ asked'[r] = c
    BY <2>1 DEF RuntimeTypeOK
  <2>5. f.sequence = Len(log') /\ chain' = Len(log') + 1
    BY <2>1 DEF LogSound, InStep
  <2>6. f.policy = "allowed" => Permitted(r, f.occurrence[2])'
    BY <2>1, <2>4 DEF Permitted
  <2> QED BY <2>1, <2>2, <2>3, <2>4, <2>5, <2>6 DEF CallSound
<1>4. CASE \E r \in Request, x \in Exchange : Answered(r, x)
  <2>1. PICK r \in Request, x \in Exchange : Answered(r, x)
    BY <1>4
  <2> DEFINE e == EndingOf(asked[r], x)
  <2>2. CASE UNCHANGED call
    BY <1>1, <2>1, <2>2 DEF Answered, LoopIsFree
  <2>3. CASE call' # call
    <3>1. PICK i \in Decisions :
            /\ Accepted(e) /\ log[i].occurrence = held[r]
            /\ FrameSound(ActionOf(log[i], e)) /\ InStep
            /\ call' = Line(ActionOf(log[i], e), r) /\ chain' = chain + 1
            /\ handler' = [handler EXCEPT ![r] = "running"]
      BY <2>1, <2>3 DEF Answered
    <3>2. /\ attempt[r] = "dispatched" /\ answer' = [answer EXCEPT ![r] = x]
          /\ attempt' = [attempt EXCEPT ![r] = "closed"]
          /\ UNCHANGED <<manifest, prior, held, log, asked>>
      BY <2>1, <3>1 DEF Answered
    <3> DEFINE f == ActionOf(log[i], e)
    <3>3. e \in Ending /\ e.outcome \notin Censored
      BY <3>1, AcceptedEnding
    <3> HIDE DEF e
    <3>4. /\ f \in Frame /\ f.kind = "action" /\ f.sequence = chain /\ f.ending = e
          /\ f.occurrence = held[r]
      BY <3>1, <3>3, ActionFacts
    <3>5. FrameSound(f) /\ call' = Line(f, r)
      BY <3>1
    <3> HIDE DEF f
    <3>6. call'.stage = "line" /\ call'.frame = f /\ call'.request = r
      BY <3>4, <3>5, LineType
    <3>7. handler'[r] = "running" /\ attempt'[r] = "closed" /\ answer'[r] = x /\ asked'[r] = asked[r]
      BY <3>1, <3>2 DEF RuntimeTypeOK, GatewayTypeOK
    <3>8. f.sequence = Len(log') /\ chain' = Len(log') + 1
      BY <3>1, <3>2, <3>4 DEF LogSound, InStep
    <3>9. held[r] \in prior /\ ~HasAction(held[r])
      BY <3>2 DEF AttemptSound, Handed, HasAction
    <3>10. ~HasAction(held[r])' /\ held'[r] = held[r] /\ prior' = prior
      BY <3>2, <3>9, SameLog
    <3>11. Ended(f)
      BY <3>3, <3>4 DEF Ended
    <3>12. EndingOf(asked'[r], answer'[r]) = f.ending
      BY <3>4, <3>7 DEF e
    <3> QED BY <3>4, <3>5, <3>6, <3>7, <3>8, <3>9, <3>10, <3>11, <3>12 DEF CallSound, Ended
  <2> QED BY <2>2, <2>3
<1>5. CASE WriteLine /\ UNCHANGED runtimeVars
  <2>1. log'[Len(log')] = call.frame /\ chain' = Len(log') /\ log' # <<>>
    <3>1. Len(log') = Len(log) + 1 /\ Len(log) \in Nat /\ log' \in Seq(Frame)
      BY <1>5, LineMeans, LogFacts
    <3> QED BY <1>5, <3>1, LineMeans DEF CallSound
  <2>2. UNCHANGED <<handler, asked, answer, prior, attempt, held>>
    BY <1>5, LineMeans DEF runtimeVars
  <2>3. /\ call'.stage = "manifest" /\ call'.frame = call.frame /\ call'.request = call.request
        /\ AtWork
    BY <1>5, LineMeans
  <2> QED BY <2>1, <2>2, <2>3 DEF CallSound, Permitted, Handed, Ended
<1>6. CASE CensorAttempt /\ UNCHANGED runtimeVars
  <2> DEFINE d == call.frame
             r == call.request
  <2>1. PICK f \in Frame :
        /\ call.stage = "manifest" /\ AtWork /\ d \in Decision
        /\ f.kind = "action" /\ FrameSound(f) /\ ~Ended(f)
        /\ f.sequence = chain /\ f.occurrence = d.occurrence /\ r \in Request
        /\ call' = Line(f, r) /\ chain' = chain + 1
        /\ prior' = prior \cup {d.occurrence}
        /\ UNCHANGED <<attempt, held, log>>
    BY <1>6, CensorMeans
  <2>2. UNCHANGED <<handler, asked, answer>>
    BY <1>6 DEF runtimeVars
  <2>3. d.kind = "decision"
    BY <2>1 DEF Decision
  <2>4. call'.stage = "line" /\ call'.frame = f /\ call'.request = r
    BY <2>1, LineType
  <2>5. /\ handler[r] = "running" /\ attempt[r] = "none" /\ d.occurrence \notin prior
        /\ chain = Len(log)
    BY <2>1, <2>3 DEF CallSound
  <2>6. ~HasAction(f.occurrence)'
    <3>1. ~HasAction(f.occurrence)
      BY <2>1, <2>5 DEF HasAction, LogSound
    <3> QED BY <2>1, <3>1, SameLog
  <2>7. \A s \in Request : Handed(s)' => held'[s] # f.occurrence
    BY <2>1, <2>5 DEF AttemptSound, Handed
  <2> QED BY <2>1, <2>2, <2>4, <2>5, <2>6, <2>7 DEF CallSound, Ended
<1>7. CASE CountAttempt /\ UNCHANGED runtimeVars
  <2>1. /\ call.stage = "manifest" /\ AtWork /\ call.frame.kind = "action"
        /\ call'.stage = "count" /\ call'.frame = call.frame /\ call'.request = call.request
        /\ UNCHANGED <<chain, prior, attempt, held, log>>
    BY <1>7, CallFacts DEF CountAttempt, AtWork
  <2>2. UNCHANGED <<handler, asked, answer>>
    BY <1>7 DEF runtimeVars
  <2> QED BY <2>1, <2>2 DEF CallSound, Permitted, Handed, Ended
<1>8. CASE \E r \in Request : Turned(r) \/ CallProvider(r)
  BY <1>1, <1>8 DEF Turned, CallProvider, MarkDispatched, LoopIsFree
<1>9. CASE \E r \in Request : HangUp(r)
  BY <1>2, <1>9 DEF HangUp, gatewayVars
<1>10. CASE AdmitAttempt \/ Return \/ Sealed \/ Fail
  BY <1>1, <1>10 DEF AdmitAttempt, Return, WriteCount, Sealed, WriteFinal, Fail, WriteFails
<1>11. CASE Seal
  BY <1>1, <1>11 DEF Seal, Finalize, LoopIsFree, gatewayVars
<1>12. CASE (\E how \in {"completed", "failed"} : ChildExits(how)) \/ WriteReceipt \/ UNCHANGED vars
  BY <1>2, <1>12 DEF ChildExits, WriteReceipt, vars, gatewayVars, runtimeVars
<1> QED BY <1>3, <1>4, <1>5, <1>6, <1>7, <1>8, <1>9, <1>10, <1>11, <1>12, Steps

-----------------------------------------------------------------------------
(* The log is one chain *)

LEMMA PriorStays ==
  ASSUME RuntimeTypeOK, ReplySound, [Next]_vars, ~AdmitAttempt, ~CensorAttempt
  PROVE  prior' = prior
<1>1. CASE \E r \in Request : Turned(r) \/ Prepared(r) \/ CallProvider(r) \/ HangUp(r)
  BY <1>1 DEF Turned, Prepared, PreparedAs, CallProvider, MarkDispatched, HangUp, gatewayVars
<1>2. CASE \E r \in Request, x \in Exchange : Answered(r, x)
  BY <1>2 DEF Answered
<1>3. CASE WriteLine \/ CountAttempt
  BY <1>3 DEF WriteLine, CountAttempt
<1>4. CASE Return \/ \E how \in {"completed", "failed"} : ChildExits(how)
  BY <1>4 DEF Return, WriteCount, ChildExits, gatewayVars
<1>5. CASE Seal \/ Sealed \/ Fail \/ WriteReceipt \/ UNCHANGED vars
  BY <1>5 DEF Seal, Finalize, Sealed, WriteFinal, Fail, WriteFails, WriteReceipt, vars, gatewayVars
<1> QED BY <1>1, <1>2, <1>3, <1>4, <1>5, Steps

LEMMA FramesStay ==
  ASSUME RuntimeTypeOK, ReplySound, [Next]_vars, ~WriteLine
  PROVE  manifest'.frames = manifest.frames
<1>0. manifest \in Manifest
  BY DEF RuntimeTypeOK, GatewayTypeOK
<1>1. CASE \E r \in Request : Turned(r) \/ Prepared(r) \/ CallProvider(r) \/ HangUp(r)
  BY <1>1 DEF Turned, Prepared, PreparedAs, CallProvider, MarkDispatched, HangUp, gatewayVars
<1>2. CASE \E r \in Request, x \in Exchange : Answered(r, x)
  BY <1>2 DEF Answered
<1>3. CASE AdmitAttempt \/ CensorAttempt \/ CountAttempt
  BY <1>0, <1>3 DEF AdmitAttempt, CensorAttempt, CountAttempt, Manifest
<1>4. CASE Return \/ \E how \in {"completed", "failed"} : ChildExits(how)
  BY <1>4 DEF Return, WriteCount, ChildExits, gatewayVars
<1>5. CASE Seal \/ Sealed \/ Fail \/ WriteReceipt \/ UNCHANGED vars
  BY <1>0, <1>5 DEF Seal, Finalize, Sealed, WriteFinal, Fail, WriteFails, WriteReceipt, vars,
                    gatewayVars, Manifest
<1> QED BY <1>1, <1>2, <1>3, <1>4, <1>5, Steps

\* A decision whose manifest is being renamed is the last line.
LEMMA DecisionWritten ==
  ASSUME RuntimeTypeOK, CallSound, AdmitAttempt \/ CensorAttempt
  PROVE  LET f == call.frame IN
         /\ f \in Frame /\ f.kind = "decision" /\ AtWork /\ call.stage = "manifest"
         /\ call.request \in Request /\ handler[call.request] = "running"
         /\ attempt[call.request] = "none"
         /\ f.occurrence \notin prior /\ prior' = prior \cup {f.occurrence}
         /\ Len(log) \in Decisions /\ log[Len(log)] = f /\ log' = log
         /\ f.policy = "allowed" => Permitted(call.request, f.occurrence[2])
         /\ f.requested = RequestedModel(asked[call.request])
<1> DEFINE f == call.frame
<1>1. /\ AtWork /\ call.stage = "manifest" /\ f.kind = "decision" /\ log' = log
      /\ prior' = prior \cup {f.occurrence}
  BY DEF AdmitAttempt, CensorAttempt, AtWork
<1>2. f \in Frame /\ call.request \in Request
  BY <1>1, CallFacts
<1>3. log # <<>> /\ log[Len(log)] = f
  BY <1>1 DEF CallSound
<1>4. Len(log) \in 1 .. Len(log)
  BY <1>3, LogFacts
<1>5. Len(log) \in Decisions
  BY <1>1, <1>3, <1>4 DEF Decisions
<1> QED BY <1>1, <1>2, <1>3, <1>5 DEF CallSound

\* LogSound looks at nothing but the log, the known occurrences and the frame count.
LEMMA LogReads ==
  ASSUME log' = log, Decisions' = Decisions, Actions' = Actions,
         \A o : HasDecision(o)' <=> HasDecision(o),
         \A o \in prior' : HasDecision(o)',
         \A i \in Decisions :
           log[i].occurrence[2] > 1 =>
             /\ log[i].retryOf = <<log[i].occurrence[1], log[i].occurrence[2] - 1>>
             /\ HasDecision(log[i].retryOf),
         \A i \in Actions : log[i].occurrence \in prior',
         \A i, j \in Actions : log[i].occurrence = log[j].occurrence => i = j,
         manifest'.frames = Len(log),
         \A i \in 1 .. Len(log) : FrameSound(log[i]) /\ log[i].sequence = i - 1
  PROVE  LogSound'
BY DEF LogSound

LEMMA LogStep ==
  ASSUME RuntimeTypeOK, CallSound, LogSound, ReplySound, [Next]_vars
  PROVE  LogSound'
<1>1. CASE WriteLine
  <2> DEFINE f == call.frame
             n == Len(log) + 1
  <2>1. /\ AtWork /\ call.stage = "line" /\ f \in Frame
        /\ Len(log') = n /\ log'[n] = f /\ \A i \in 1 .. Len(log) : log'[i] = log[i]
        /\ f.kind = "decision" => Decisions' = Decisions \cup {n} /\ Actions' = Actions
        /\ f.kind = "action" => Decisions' = Decisions /\ Actions' = Actions \cup {n}
        /\ manifest'.frames = manifest.frames + 1 /\ prior' = prior
    BY <1>1, LineMeans
  <2>2. Len(log) \in Nat /\ Decisions \subseteq 1 .. Len(log) /\ Actions \subseteq 1 .. Len(log)
    BY LogFacts
  <2>3. f.kind \in {"decision", "action"}
    BY <2>1, FrameFacts
  <2>4. FrameSound(f) /\ f.sequence = Len(log)
    BY <2>1 DEF CallSound
  <2>5. /\ \A i \in Decisions : i \in Decisions' /\ log'[i] = log[i]
        /\ \A i \in Actions : i \in Actions' /\ log'[i] = log[i]
    BY <2>1, <2>2, <2>3
  <2>6. \A o : HasDecision(o) => HasDecision(o)'
    BY <2>5 DEF HasDecision
  <2> HIDE DEF n, f
  <2>7. manifest'.frames = Len(log')
    BY <2>1, <2>2 DEF LogSound, n
  <2>8. \A i \in 1 .. Len(log') : FrameSound(log'[i]) /\ log'[i].sequence = i - 1
    BY <2>1, <2>2, <2>4 DEF LogSound, n
  <2>9. \A i, j \in Actions' : log'[i].occurrence = log'[j].occurrence => i = j
    <3>1. CASE f.kind = "decision"
      BY <2>1, <2>5, <3>1 DEF LogSound
    <3>2. CASE f.kind = "action"
      <4>1. \A i \in Actions : log[i].occurrence # f.occurrence
        BY <2>1, <3>2 DEF CallSound, HasAction, f
      <4> QED BY <2>1, <2>5, <3>2, <4>1 DEF LogSound
    <3> QED BY <2>3, <3>1, <3>2
  <2>10. \A i \in Actions' : log'[i].occurrence \in prior'
    <3>1. f.kind = "action" => f.occurrence \in prior
      BY <2>1 DEF CallSound, f
    <3> QED BY <2>1, <2>3, <2>5, <3>1 DEF LogSound
  <2>11. \A o \in prior' : HasDecision(o)'
    BY <2>1, <2>6 DEF LogSound
  <2>12. ASSUME NEW i \in Decisions', log'[i].occurrence[2] > 1
         PROVE  /\ log'[i].retryOf = <<log'[i].occurrence[1], log'[i].occurrence[2] - 1>>
                /\ \E j \in Decisions' : log'[j].occurrence = log'[i].retryOf
    <3>1. CASE i \in Decisions
      <4>1. /\ log[i].retryOf = <<log[i].occurrence[1], log[i].occurrence[2] - 1>>
            /\ HasDecision(log[i].retryOf)
        BY <2>5, <2>12, <3>1 DEF LogSound
      <4> QED BY <2>5, <3>1, <4>1 DEF HasDecision
    <3>2. CASE i \notin Decisions
      <4>1. f.kind = "decision" /\ i = n /\ log'[i] = f
        BY <2>1, <2>3, <2>12, <3>2
      <4>2. /\ f.retryOf = <<f.occurrence[1], f.occurrence[2] - 1>> /\ f.retryOf \in prior
        BY <2>1, <2>12, <4>1 DEF CallSound, f
      <4>3. HasDecision(f.retryOf)
        BY <4>2 DEF LogSound
      <4> QED BY <2>5, <4>1, <4>2, <4>3 DEF HasDecision
    <3> QED BY <3>1, <3>2
  <2> QED BY <2>7, <2>8, <2>9, <2>10, <2>11, <2>12 DEF LogSound, HasDecision
<1>2. CASE AdmitAttempt \/ CensorAttempt
  <2>1. /\ prior' = prior \cup {call.frame.occurrence} /\ log' = log
        /\ HasDecision(call.frame.occurrence)
    BY <1>2, DecisionWritten DEF HasDecision
  <2>2. manifest'.frames = manifest.frames
    BY <1>2 DEF AdmitAttempt, CensorAttempt
  <2>3. Decisions' = Decisions /\ Actions' = Actions
    BY <2>1 DEF Decisions, Actions
  <2>4. \A o : HasDecision(o)' <=> HasDecision(o)
    BY <2>1, <2>3 DEF HasDecision
  <2>5. \A o \in prior' : HasDecision(o)'
    BY <2>1, <2>4 DEF LogSound
  <2>6. \A i \in Decisions :
          log[i].occurrence[2] > 1 =>
            /\ log[i].retryOf = <<log[i].occurrence[1], log[i].occurrence[2] - 1>>
            /\ HasDecision(log[i].retryOf)
    BY DEF LogSound
  <2>7. /\ \A i \in Actions : log[i].occurrence \in prior'
        /\ \A i, j \in Actions : log[i].occurrence = log[j].occurrence => i = j
        /\ manifest'.frames = Len(log)
        /\ \A i \in 1 .. Len(log) : FrameSound(log[i]) /\ log[i].sequence = i - 1
    BY <2>1, <2>2 DEF LogSound
  <2>8. log' = log
    BY <2>1
  <2> QED BY <2>3, <2>4, <2>5, <2>6, <2>7, <2>8, LogReads
<1>3. CASE ~WriteLine /\ ~AdmitAttempt /\ ~CensorAttempt
  <2>1. prior' = prior /\ log' = log /\ manifest'.frames = manifest.frames
    BY <1>3, PriorStays, LogStays, FramesStay
  <2>2. Decisions' = Decisions /\ Actions' = Actions
    BY <2>1 DEF Decisions, Actions
  <2>3. \A o : HasDecision(o)' <=> HasDecision(o)
    BY <2>1, <2>2 DEF HasDecision
  <2>4. \A o \in prior' : HasDecision(o)'
    BY <2>1, <2>3 DEF LogSound
  <2>5. \A i \in Decisions :
          log[i].occurrence[2] > 1 =>
            /\ log[i].retryOf = <<log[i].occurrence[1], log[i].occurrence[2] - 1>>
            /\ HasDecision(log[i].retryOf)
    BY DEF LogSound
  <2>6. /\ \A i \in Actions : log[i].occurrence \in prior'
        /\ \A i, j \in Actions : log[i].occurrence = log[j].occurrence => i = j
        /\ manifest'.frames = Len(log)
        /\ \A i \in 1 .. Len(log) : FrameSound(log[i]) /\ log[i].sequence = i - 1
    BY <2>1 DEF LogSound
  <2> QED BY <2>1, <2>2, <2>3, <2>4, <2>5, <2>6, LogReads
<1> QED BY <1>1, <1>2, <1>3

-----------------------------------------------------------------------------
(* What is known of each attempt *)

LEMMA AttemptKept ==
  ASSUME RuntimeTypeOK, AttemptSound, UNCHANGED <<attempt, held, asked, answer, log>>,
         prior \subseteq prior',
         \/ handler' = handler
         \/ \E r \in Request : handler[r] = "running" /\ handler' = [handler EXCEPT ![r] = "done"]
  PROVE  AttemptSound'
<1>1. \A r \in Request : \/ handler'[r] = handler[r]
                         \/ handler[r] = "running" /\ handler'[r] = "done"
  BY DEF RuntimeTypeOK
<1>2. Actions' = Actions
  BY DEF Actions
<1>3. \A r \in Request : Handed(r)' <=> Handed(r)
  BY DEF Handed
<1>4. \A n : \A r \in Request : Permitted(r, n)' <=> Permitted(r, n)
  BY DEF Permitted
<1> QED BY <1>1, <1>2, <1>3, <1>4 DEF AttemptSound, Ended

\* A request that holds no attempt, and is not given one.
LEMMA AttemptUntouched ==
  ASSUME RuntimeTypeOK, AttemptSound, NEW r \in Request, attempt[r] = "none",
         UNCHANGED <<attempt, held, answer, log, prior>>,
         \A s \in Request \ {r} : handler'[s] = handler[s] /\ asked'[s] = asked[s],
         answer[r] = None
  PROVE  AttemptSound'
<1>1. Actions' = Actions
  BY DEF Actions
<1>2. \A s \in Request : Handed(s)' <=> Handed(s)
  BY DEF Handed
<1>3. ~Handed(r)
  BY DEF Handed
<1>4. \A n : \A s \in Request \ {r} : Permitted(s, n)' <=> Permitted(s, n)
  BY DEF Permitted
<1> QED BY <1>1, <1>2, <1>3, <1>4 DEF AttemptSound, Ended

LEMMA AttemptStep ==
  ASSUME RuntimeTypeOK, RuntimeTypeOK', CallSound, LogSound, AttemptSound, ReplySound,
         [Next]_vars
  PROVE  AttemptSound'
<1>0. /\ handler \in [Request -> Stages] /\ asked \in [Request -> Calls \cup {None}]
      /\ answer \in [Request -> Exchange \cup {None}] /\ attempt \in [Request -> AttemptState]
      /\ held \in [Request -> Occurrence \cup {None}]
  BY DEF RuntimeTypeOK, GatewayTypeOK, Stages, Calls
<1>1. CASE \E r \in Request : Turned(r)
  <2>1. PICK r \in Request : Turned(r)
    BY <1>1
  <2>2. attempt[r] = "none" /\ answer[r] = None
    BY <2>1 DEF Turned, AttemptSound
  <2>3. UNCHANGED <<attempt, held, answer, log, prior>>
    BY <2>1 DEF Turned
  <2>4. \A s \in Request \ {r} : handler'[s] = handler[s]
    BY <1>0, <2>1, TurnedMeans
  <2>5. \A s \in Request \ {r} : asked'[s] = asked[s]
    BY <1>0, <2>1 DEF Turned
  <2> QED BY <2>2, <2>3, <2>4, <2>5, AttemptUntouched
<1>2. CASE \E r \in Request : Prepared(r)
  <2>0. PICK r \in Request, c \in Calls, k \in Kind, f \in Decision : PreparedAs(r, c, k, f)
    BY <1>2 DEF Prepared
  <2>1. /\ attempt[r] = "none" /\ handler[r] = "reading"
        /\ UNCHANGED <<attempt, held, answer, log, prior>>
        /\ handler' = [handler EXCEPT ![r] = "running"] /\ asked' = [asked EXCEPT ![r] = c]
    BY <2>0 DEF PreparedAs
  <2>2. answer[r] = None
    BY <2>1 DEF AttemptSound
  <2> QED BY <1>0, <2>1, <2>2, AttemptUntouched
<1>3. CASE \E r \in Request : CallProvider(r)
  <2>1. PICK r \in Request :
          /\ attempt[r] = "open" /\ attempt' = [attempt EXCEPT ![r] = "dispatched"]
          /\ handler' = [handler EXCEPT ![r] = "upstream"]
          /\ UNCHANGED <<held, asked, answer, log, prior>>
    BY <1>3 DEF CallProvider, MarkDispatched
  <2>2. Actions' = Actions
    BY <2>1 DEF Actions
  <2>3. \A s \in Request : /\ attempt'[s] = IF s = r THEN "dispatched" ELSE attempt[s]
                           /\ handler'[s] = IF s = r THEN "upstream" ELSE handler[s]
    BY <1>0, <2>1
  <2>4. \A s \in Request : Handed(s)' <=> Handed(s)
    BY <2>1, <2>3 DEF Handed
  <2>5. \A n : \A s \in Request : Permitted(s, n)' <=> Permitted(s, n)
    BY <2>1 DEF Permitted
  <2>6. answer[r] = None
    BY <2>1 DEF AttemptSound
  <2>7. \A i \in Actions : log[i].occurrence # held[r]
    BY <2>1 DEF AttemptSound, Handed
  <2> QED BY <2>1, <2>2, <2>3, <2>4, <2>5, <2>6, <2>7 DEF AttemptSound, Ended
<1>4. CASE \E r \in Request, x \in Exchange : Answered(r, x)
  <2>1. PICK r \in Request, x \in Exchange : Answered(r, x)
    BY <1>4
  <2>2. /\ attempt[r] = "dispatched" /\ handler[r] = "upstream"
        /\ answer' = [answer EXCEPT ![r] = x]
        /\ attempt' = IF Accepted(EndingOf(asked[r], x)) THEN [attempt EXCEPT ![r] = "closed"]
                      ELSE attempt
        /\ UNCHANGED <<held, asked, log, prior>>
    BY <2>1 DEF Answered
  <2>3. \A s \in Request : IF s = r THEN handler'[s] \in {"running", "done"}
                           ELSE handler'[s] = handler[s]
    BY <1>0, <2>1, RefuseMeans DEF Answered
  <2>4. Actions' = Actions
    BY <2>2 DEF Actions
  <2> DEFINE ok == Accepted(EndingOf(asked[r], x))
  <2>5. \A s \in Request :
          /\ answer'[s] = IF s = r THEN x ELSE answer[s]
          /\ attempt'[s] = IF s = r THEN IF ok THEN "closed" ELSE "dispatched" ELSE attempt[s]
    <3> HIDE DEF ok
    <3> QED BY <1>0, <2>2 DEF ok
  <2>6. \A s \in Request : Handed(s)' <=> Handed(s)
    BY <2>2, <2>5 DEF Handed
  <2>7. \A n : \A s \in Request : Permitted(s, n)' <=> Permitted(s, n)
    BY <2>2 DEF Permitted
  <2>8. \A i \in Actions : log[i].occurrence # held[r]
    BY <2>2 DEF AttemptSound, Handed
  <2>9. x # None
    BY LogicalAssumption
  <2>10. ok <=> Accepted(EndingOf(asked'[r], answer'[r]))
    BY <2>2, <2>5
  <2> HIDE DEF ok
  <2> QED BY <2>2, <2>3, <2>4, <2>5, <2>6, <2>7, <2>8, <2>9, <2>10 DEF AttemptSound, Ended
<1>5. CASE WriteLine /\ UNCHANGED runtimeVars
  <2> DEFINE f == call.frame
             n == Len(log) + 1
             q == call.request
  <2>1. /\ AtWork /\ call.stage = "line" /\ f \in Frame /\ q \in Request
        /\ log'[n] = f /\ \A i \in 1 .. Len(log) : log'[i] = log[i]
        /\ f.kind = "decision" => Actions' = Actions
        /\ f.kind = "action" => Actions' = Actions \cup {n}
        /\ UNCHANGED <<prior, attempt, held>>
    BY <1>5, LineMeans
  <2>2. UNCHANGED <<handler, asked, answer>>
    BY <1>5 DEF runtimeVars
  <2>3. \A s \in Request : Handed(s)' <=> Handed(s)
    BY <2>1 DEF Handed
  <2>4. \A m : \A s \in Request : Permitted(s, m)' <=> Permitted(s, m)
    BY <2>2 DEF Permitted
  <2>5. f.kind \in {"decision", "action"} /\ Actions \subseteq 1 .. Len(log)
    BY <2>1, FrameFacts, LogFacts
  <2>6. f.kind = "action" =>
          IF Ended(f) THEN /\ attempt[q] = "closed" /\ f.occurrence = held[q]
                           /\ f.ending = EndingOf(asked[q], answer[q])
          ELSE \A s \in Request : Handed(s) => held[s] # f.occurrence
    BY <2>1 DEF CallSound
  <2> HIDE DEF f, n, q
  <2>7. \A i \in Actions' : \/ i \in Actions /\ log'[i] = log[i]
                            \/ f.kind = "action" /\ i = n /\ log'[i] = f
    BY <2>1, <2>5
  <2>8. ASSUME NEW s \in Request, NEW i \in Actions', Handed(s), log'[i].occurrence = held[s]
        PROVE  attempt[s] = "closed" /\ Ended(log'[i])
               /\ log'[i].ending = EndingOf(asked[s], answer[s])
    <3>1. CASE i \in Actions /\ log'[i] = log[i]
      BY <2>8, <3>1 DEF AttemptSound
    <3>2. CASE f.kind = "action" /\ i = n /\ log'[i] = f
      <4>1. Ended(f)
        BY <2>6, <2>8, <3>2
      <4>2. s = q
        BY <2>1, <2>6, <2>8, <3>2, <4>1 DEF AttemptSound, Handed
      <4> QED BY <2>6, <3>2, <4>1, <4>2
    <3> QED BY <2>7, <3>1, <3>2
  <2>9. ASSUME NEW i \in Actions', Ended(log'[i])
        PROVE  \E s \in Request : attempt[s] = "closed" /\ held[s] = log'[i].occurrence
    BY <2>1, <2>6, <2>7, <2>9 DEF AttemptSound
  <2>10. \A i \in Actions' : Ended(log[i])' <=> Ended(log'[i])
    BY DEF Ended
  <2> QED BY <2>1, <2>2, <2>3, <2>4, <2>8, <2>9, <2>10 DEF AttemptSound
<1>6. CASE AdmitAttempt /\ UNCHANGED runtimeVars
  <2> DEFINE f == call.frame
             q == call.request
  <2>1. /\ q \in Request /\ handler[q] = "running" /\ attempt[q] = "none"
        /\ f.occurrence \notin prior /\ prior' = prior \cup {f.occurrence} /\ log' = log
        /\ f.policy = "allowed" => Permitted(q, f.occurrence[2])
    BY <1>6, DecisionWritten
  <2>2. /\ f.policy = "allowed" /\ attempt' = [attempt EXCEPT ![q] = "open"]
        /\ held' = [held EXCEPT ![q] = f.occurrence]
    BY <1>6 DEF AdmitAttempt
  <2>3. UNCHANGED <<handler, asked, answer>>
    BY <1>6 DEF runtimeVars
  <2> HIDE DEF f, q
  <2>4. \A s \in Request : /\ attempt'[s] = IF s = q THEN "open" ELSE attempt[s]
                           /\ held'[s] = IF s = q THEN f.occurrence ELSE held[s]
    BY <1>0, <2>1, <2>2
  <2>5. \A s \in Request : Handed(s)' <=> s = q \/ Handed(s)
    BY <2>4 DEF Handed
  <2>6. \A n : \A s \in Request : Permitted(s, n)' <=> Permitted(s, n)
    BY <2>3 DEF Permitted
  <2>7. Actions' = Actions /\ \A i \in Actions : log[i].occurrence # f.occurrence
    BY <2>1 DEF Actions, LogSound
  <2>8. \A s \in Request : Handed(s) => held[s] # f.occurrence /\ s # q
    BY <2>1 DEF AttemptSound, Handed
  <2>9. answer[q] = None
    BY <2>1 DEF AttemptSound
  <2> QED BY <2>1, <2>2, <2>3, <2>4, <2>5, <2>6, <2>7, <2>8, <2>9 DEF AttemptSound, Ended
<1>7. CASE CensorAttempt /\ UNCHANGED runtimeVars
  BY <1>7, AttemptKept, CensorMeans DEF runtimeVars
<1>8. CASE CountAttempt /\ UNCHANGED runtimeVars
  BY <1>8, AttemptKept DEF runtimeVars, CountAttempt
<1>9. CASE Return
  <2> DEFINE q == call.request
  <2>1. /\ q \in Request /\ handler[q] = "running" /\ handler' = [handler EXCEPT ![q] = "done"]
        /\ call.stage = "count" /\ AtWork /\ call.frame.kind = "action"
    BY <1>9, ReturnMeans
  <2>2. UNCHANGED <<asked, answer, log, prior>>
    BY <1>9 DEF Return, WriteCount
  <2>3. CASE Ended(call.frame)
    <3>1. UNCHANGED <<attempt, held>>
      BY <1>9, <2>3 DEF Return, WriteCount, Ended
    <3> QED BY <2>1, <2>2, <3>1, AttemptKept
  <2>4. CASE ~Ended(call.frame)
    <3>1. /\ attempt' = [attempt EXCEPT ![q] = "censored"] /\ attempt[q] = "none"
          /\ \A s \in Request \ {q} : held'[s] = held[s]
      BY <1>0, <1>9, <2>1, <2>4 DEF Return, WriteCount, Ended, CallSound
    <3>2. \A s \in Request : /\ attempt'[s] = IF s = q THEN "censored" ELSE attempt[s]
                             /\ handler'[s] = IF s = q THEN "done" ELSE handler[s]
      BY <1>0, <2>1, <3>1
    <3>3. \A s \in Request : (Handed(s)' <=> Handed(s)) /\ (Handed(s) => s # q)
      BY <3>1, <3>2 DEF Handed
    <3>4. \A n : \A s \in Request : Permitted(s, n)' <=> Permitted(s, n)
      BY <2>2 DEF Permitted
    <3>5. Actions' = Actions
      BY <2>2 DEF Actions
    <3> QED BY <2>2, <3>1, <3>2, <3>3, <3>4, <3>5 DEF AttemptSound, Ended
  <2> QED BY <2>3, <2>4
<1>10. CASE \/ \E r \in Request : HangUp(r)
            \/ \E how \in {"completed", "failed"} : ChildExits(how)
            \/ WriteReceipt \/ UNCHANGED vars
  BY <1>10, AttemptKept DEF HangUp, ChildExits, WriteReceipt, vars, gatewayVars, runtimeVars
<1>11. CASE Seal \/ Sealed
  BY <1>11, AttemptKept DEF Seal, Finalize, Sealed, WriteFinal, gatewayVars
<1>12. CASE Fail
  <2>1. UNCHANGED <<attempt, held, asked, answer, log, prior>>
    BY <1>12 DEF Fail, WriteFails
  <2>2. CASE call.stage = "final"
    BY <1>12, <2>1, <2>2, AttemptKept DEF Fail
  <2>3. CASE call.stage # "final"
    <3>1. AtWork /\ call.request \in Request
      BY <1>12, <2>3, CallFacts DEF Fail, WriteFails
    <3>2. handler[call.request] = "running"
      BY <3>1 DEF CallSound
    <3>3. handler' = [handler EXCEPT ![call.request] = "done"]
      BY <1>12, <2>3, <3>1, RefuseMeans DEF Fail
    <3> QED BY <2>1, <3>1, <3>2, <3>3, AttemptKept
  <2> QED BY <2>2, <2>3
<1> QED BY <1>1, <1>2, <1>3, <1>4, <1>5, <1>6, <1>7, <1>8, <1>9, <1>10, <1>11, <1>12, Steps

-----------------------------------------------------------------------------
(* The attempts whose end is not recorded *)

\* A line that ends an attempt takes it out of those that are owed one.
LEMMA EndWritten ==
  ASSUME RuntimeTypeOK, CallSound, LogSound, AttemptSound, WriteLine, Ended(call.frame)
  PROVE  call.request \in Owing /\ Owing' = Owing \ {call.request}
<1> DEFINE f == call.frame
           q == call.request
           n == Len(log) + 1
<1>1. /\ AtWork /\ call.stage = "line" /\ q \in Request /\ f \in Frame /\ f.kind = "action"
      /\ log'[n] = f /\ \A i \in 1 .. Len(log) : log'[i] = log[i]
      /\ Actions' = Actions \cup {n} /\ UNCHANGED <<attempt, held>>
  BY LineMeans DEF Ended
<1>2. ~HasAction(f.occurrence) /\ attempt[q] = "closed" /\ held[q] = f.occurrence
  BY <1>1 DEF CallSound
<1>3. Actions \subseteq 1 .. Len(log)
  BY LogFacts
<1> HIDE DEF f, q, n
<1>4. \A o : HasAction(o)' <=> HasAction(o) \/ o = f.occurrence
  BY <1>1, <1>3 DEF HasAction
<1>5. \A s \in Request : attempt[s] = "closed" /\ held[s] = f.occurrence => s = q
  BY <1>1, <1>2 DEF AttemptSound, Handed
<1>6. ASSUME NEW s \in Request
      PROVE  s \in Owing' <=> s \in Owing /\ s # q
  <2>1. s \in Owing' <=> \/ attempt[s] \in {"open", "dispatched"}
                         \/ attempt[s] = "closed" /\ ~HasAction(held[s])'
    BY <1>1 DEF Owing
  <2>2. HasAction(held[s])' <=> HasAction(held[s]) \/ held[s] = f.occurrence
    BY <1>1, <1>4
  <2> QED BY <1>2, <1>5, <2>1, <2>2 DEF Owing
<1>7. q \in Owing
  BY <1>1, <1>2 DEF Owing
<1> QED BY <1>6, <1>7 DEF Owing, q

\* Any other line leaves them alone.
LEMMA OtherWritten ==
  ASSUME RuntimeTypeOK, CallSound, LogSound, AttemptSound, WriteLine, ~Ended(call.frame)
  PROVE  Owing' = Owing
<1> DEFINE f == call.frame
           n == Len(log) + 1
<1>1. /\ AtWork /\ call.stage = "line" /\ f \in Frame
      /\ log'[n] = f /\ \A i \in 1 .. Len(log) : log'[i] = log[i]
      /\ f.kind = "decision" => Actions' = Actions
      /\ f.kind = "action" => Actions' = Actions \cup {n}
      /\ UNCHANGED <<attempt, held>>
  BY LineMeans
<1>2. f.kind \in {"decision", "action"} /\ Actions \subseteq 1 .. Len(log)
  BY <1>1, FrameFacts, LogFacts
<1>3. f.kind = "action" => \A s \in Request : Handed(s) => held[s] # f.occurrence
  BY <1>1 DEF CallSound
<1> HIDE DEF f, n
<1>4. \A o : HasAction(o)' <=> HasAction(o) \/ (f.kind = "action" /\ o = f.occurrence)
  BY <1>1, <1>2 DEF HasAction
<1>5. ASSUME NEW s \in Request
      PROVE  s \in Owing' <=> s \in Owing
  <2>1. s \in Owing' <=> \/ attempt[s] \in {"open", "dispatched"}
                         \/ attempt[s] = "closed" /\ ~HasAction(held[s])'
    BY <1>1 DEF Owing
  <2>2. HasAction(held[s])' <=> HasAction(held[s]) \/ (f.kind = "action" /\ held[s] = f.occurrence)
    BY <1>1, <1>4
  <2> QED BY <1>3, <2>1, <2>2 DEF Owing, Handed
<1> QED BY <1>5 DEF Owing

\* prepare hands out an attempt.
LEMMA AttemptAdmitted ==
  ASSUME RuntimeTypeOK, CallSound, AdmitAttempt
  PROVE  /\ call.request \in Request \ Owing /\ Owing' = Owing \cup {call.request}
         /\ attempt[call.request] = "none" /\ attempt'[call.request] = "open"
         /\ held'[call.request] = call.frame.occurrence
         /\ \A s \in Request \ {call.request} : attempt'[s] = attempt[s] /\ held'[s] = held[s]
<1> DEFINE q == call.request
           o == call.frame.occurrence
<1>1. q \in Request /\ attempt[q] = "none" /\ log' = log
  BY DecisionWritten
<1>2. attempt' = [attempt EXCEPT ![q] = "open"] /\ held' = [held EXCEPT ![q] = o]
  BY DEF AdmitAttempt
<1> HIDE DEF q, o
<1>3. \A s \in Request : /\ attempt'[s] = IF s = q THEN "open" ELSE attempt[s]
                         /\ held'[s] = IF s = q THEN o ELSE held[s]
  BY <1>1, <1>2 DEF RuntimeTypeOK, GatewayTypeOK
<1>4. ASSUME NEW s \in Request
      PROVE  s \in Owing' <=> s \in Owing \/ s = q
  <2>1. s \in Owing' <=> \/ attempt'[s] \in {"open", "dispatched"}
                         \/ attempt'[s] = "closed" /\ ~HasAction(held'[s])
    BY <1>1, SameLog DEF Owing, HasAction
  <2> QED BY <1>3, <2>1 DEF Owing
<1>5. q \notin Owing
  BY <1>1 DEF Owing
<1>6. Owing' = Owing \cup {q}
  BY <1>1, <1>4 DEF Owing
<1> QED BY <1>1, <1>3, <1>5, <1>6 DEF q, o

\* No other step changes which attempts these are.
LEMMA OwingStays ==
  ASSUME RuntimeTypeOK, RuntimeTypeOK', CallSound, AttemptSound, ReplySound, [Next]_vars,
         ~WriteLine, ~AdmitAttempt
  PROVE  Owing' = Owing
<1>0. /\ attempt \in [Request -> AttemptState] /\ held \in [Request -> Occurrence \cup {None}]
      /\ log' = log /\ \A o : HasAction(o)' <=> HasAction(o)
  BY LogStays, SameLog DEF RuntimeTypeOK, GatewayTypeOK
<1>1. CASE UNCHANGED <<attempt, held>>
  BY <1>0, <1>1 DEF Owing
<1>2. CASE \E r \in Request : CallProvider(r)
  <2>1. PICK r \in Request : /\ attempt[r] = "open" /\ held' = held
                             /\ attempt' = [attempt EXCEPT ![r] = "dispatched"]
    BY <1>2 DEF CallProvider, MarkDispatched
  <2>2. \A s \in Request : attempt'[s] = IF s = r THEN "dispatched" ELSE attempt[s]
    BY <1>0, <2>1
  <2> QED BY <1>0, <2>1, <2>2 DEF Owing
<1>3. CASE \E r \in Request, x \in Exchange : Answered(r, x)
  <2>1. PICK r \in Request, x \in Exchange : Answered(r, x)
    BY <1>3
  <2>2. /\ attempt[r] = "dispatched" /\ held' = held
        /\ \A s \in Request \ {r} : attempt'[s] = attempt[s]
        /\ attempt'[r] \in {"dispatched", "closed"}
    BY <1>0, <2>1 DEF Answered
  <2>3. ~HasAction(held[r])
    BY <2>2 DEF AttemptSound, Handed, HasAction
  <2> QED BY <1>0, <2>2, <2>3 DEF Owing
<1>4. CASE Return /\ ~Ended(call.frame)
  <2> DEFINE q == call.request
  <2>1. /\ q \in Request /\ call.stage = "count" /\ AtWork /\ call.frame.kind = "action"
    BY <1>4, ReturnMeans
  <2>2. /\ attempt' = [attempt EXCEPT ![q] = "censored"] /\ attempt[q] = "none"
        /\ \A s \in Request \ {q} : held'[s] = held[s]
    BY <1>0, <1>4, <2>1 DEF Return, WriteCount, Ended, CallSound
  <2>3. \A s \in Request : attempt'[s] = IF s = q THEN "censored" ELSE attempt[s]
    BY <1>0, <2>1, <2>2
  <2> HIDE DEF q
  <2>4. ASSUME NEW s \in Request
        PROVE  s \in Owing' <=> s \in Owing
    <3>1. s \in Owing' <=> \/ attempt'[s] \in {"open", "dispatched"}
                           \/ attempt'[s] = "closed" /\ ~HasAction(held'[s])
      BY <1>0 DEF Owing, HasAction, Actions
    <3> QED BY <2>1, <2>2, <2>3, <3>1 DEF Owing
  <2> QED BY <2>4 DEF Owing
<1>5. CASE Return /\ Ended(call.frame)
  BY <1>1, <1>5 DEF Return, WriteCount, Ended
<1>6. CASE \E r \in Request : Turned(r) \/ Prepared(r) \/ HangUp(r)
  BY <1>1, <1>6 DEF Turned, Prepared, PreparedAs, HangUp, gatewayVars
<1>7. CASE CensorAttempt \/ CountAttempt
  BY <1>1, <1>7 DEF CensorAttempt, CountAttempt
<1>8. CASE \E how \in {"completed", "failed"} : ChildExits(how)
  BY <1>1, <1>8 DEF ChildExits, gatewayVars
<1>9. CASE Seal \/ Sealed \/ Fail \/ WriteReceipt \/ UNCHANGED vars
  BY <1>1, <1>9 DEF Seal, Finalize, Sealed, WriteFinal, Fail, WriteFails, WriteReceipt, vars,
                    gatewayVars
<1> QED BY <1>2, <1>3, <1>4, <1>5, <1>6, <1>7, <1>8, <1>9, Steps

-----------------------------------------------------------------------------
(* They are counted *)

\* Only a written line brings a call to its manifest.
LEMMA ManifestStage ==
  ASSUME RuntimeTypeOK, CallSound, LogSound, ReplySound, [Next]_vars, ~WriteLine
  PROVE  call'.stage = "manifest" => call' = call
<1>0. \A f, r : Line(f, r).stage = "line"
  BY DEF Line
<1>1. CASE \E r \in Request : Turned(r) \/ Prepared(r) \/ CallProvider(r) \/ HangUp(r)
  BY <1>0, <1>1 DEF Turned, Prepared, PreparedAs, CallProvider, MarkDispatched, HangUp, gatewayVars
<1>2. CASE \E r \in Request, x \in Exchange : Answered(r, x)
  BY <1>0, <1>2 DEF Answered
<1>3. CASE AdmitAttempt \/ Return \/ Sealed \/ Fail
  BY <1>3 DEF AdmitAttempt, Return, WriteCount, Sealed, WriteFinal, Fail, WriteFails, Idle
<1>4. CASE CensorAttempt
  BY <1>0, <1>4, CensorMeans
<1>5. CASE CountAttempt
  <2>1. call = [stage |-> call.stage, frame |-> call.frame, request |-> call.request]
    BY <1>5, CallFacts DEF CountAttempt, AtWork
  <2>2. call'.stage = "count"
    BY <1>5, <2>1 DEF CountAttempt
  <2> QED BY <2>2
<1>6. CASE (\E how \in {"completed", "failed"} : ChildExits(how)) \/ WriteReceipt \/ UNCHANGED vars
  BY <1>6 DEF ChildExits, WriteReceipt, vars, gatewayVars
<1>7. CASE Seal
  BY <1>7 DEF Seal, Finalize, gatewayVars
<1> QED BY <1>1, <1>2, <1>3, <1>4, <1>5, <1>6, <1>7, Steps

LEMMA OpenStays ==
  ASSUME RuntimeTypeOK, ReplySound, [Next]_vars, ~AdmitAttempt, ~CountAttempt
  PROVE  open' = open
<1>1. CASE \E r \in Request : Turned(r) \/ Prepared(r) \/ CallProvider(r) \/ HangUp(r)
  BY <1>1 DEF Turned, Prepared, PreparedAs, CallProvider, MarkDispatched, HangUp, gatewayVars
<1>2. CASE \E r \in Request, x \in Exchange : Answered(r, x)
  BY <1>2 DEF Answered
<1>3. CASE WriteLine \/ CensorAttempt
  BY <1>3 DEF WriteLine, CensorAttempt
<1>4. CASE Return \/ \E how \in {"completed", "failed"} : ChildExits(how)
  BY <1>4 DEF Return, WriteCount, ChildExits, gatewayVars
<1>5. CASE Seal \/ Sealed \/ Fail \/ WriteReceipt \/ UNCHANGED vars
  BY <1>5 DEF Seal, Finalize, Sealed, WriteFinal, Fail, WriteFails, WriteReceipt, vars, gatewayVars
<1> QED BY <1>1, <1>2, <1>3, <1>4, <1>5, Steps

LEMMA OpenStep ==
  ASSUME RuntimeTypeOK, RuntimeTypeOK', CallSound, LogSound, AttemptSound, OpenSound, ReplySound,
         [Next]_vars
  PROVE  OpenSound'
<1>0. /\ open \in Nat /\ open' \in Nat /\ IsFiniteSet(Owing) /\ Cardinality(Owing) \in Nat
      /\ Uncounted \in {0, 1}
  BY OwingFacts DEF RuntimeTypeOK, GatewayTypeOK, Uncounted
<1>1. CASE WriteLine
  <2>1. /\ call.stage = "line" /\ call'.stage = "manifest" /\ call'.frame = call.frame
        /\ open' = open
    BY <1>1, LineMeans
  <2>2. Uncounted = 0 /\ Uncounted' = IF Ended(call.frame) THEN 1 ELSE 0
    BY <2>1 DEF Uncounted, Ended
  <2>3. CASE Ended(call.frame)
    <3>1. call.request \in Owing /\ Owing' = Owing \ {call.request}
      BY <1>1, <2>3, EndWritten
    <3>2. Cardinality(Owing') = Cardinality(Owing) - 1
      BY <1>0, <3>1, FS_RemoveElement
    <3>3. Cardinality(Owing)' = Cardinality(Owing) - 1
      BY <3>2
    <3> QED BY <1>0, <2>1, <2>2, <2>3, <3>3 DEF OpenSound
  <2>4. CASE ~Ended(call.frame)
    BY <1>0, <1>1, <2>1, <2>2, <2>4, OtherWritten DEF OpenSound
  <2> QED BY <2>3, <2>4
<1>2. CASE AdmitAttempt
  <2>1. call.request \notin Owing /\ Owing' = Owing \cup {call.request}
    BY <1>2, AttemptAdmitted
  <2>2. Cardinality(Owing') = Cardinality(Owing) + 1
    BY <1>0, <2>1, FS_AddElement
  <2>3. Cardinality(Owing)' = Cardinality(Owing) + 1
    BY <2>2
  <2>4. Uncounted = 0 /\ Uncounted' = 0 /\ open' = open + 1
    BY <1>2 DEF AdmitAttempt, Uncounted, Ended, Idle
  <2> QED BY <1>0, <2>3, <2>4 DEF OpenSound
<1>3. CASE CountAttempt /\ ~WriteLine /\ ~AdmitAttempt
  <2>1. Owing' = Owing
    BY <1>3, OwingStays
  <2>2. /\ call.stage = "manifest" /\ call'.stage = "count" /\ open' = OpenAfter(call.frame)
        /\ call.frame.kind = "action"
    <3>1. call = [stage |-> call.stage, frame |-> call.frame, request |-> call.request]
      BY <1>3, CallFacts DEF CountAttempt, AtWork
    <3> QED BY <1>3, <3>1 DEF CountAttempt
  <2>3. Uncounted' = 0 /\ open' = open - Uncounted
    BY <1>0, <2>2 DEF Uncounted, OpenAfter, Ended
  <2> QED BY <1>0, <2>1, <2>3 DEF OpenSound
<1>4. CASE ~WriteLine /\ ~AdmitAttempt /\ ~CountAttempt
  <2>1. Owing' = Owing /\ open' = open
    BY <1>4, OwingStays, OpenStays
  <2>2. Uncounted' <= Uncounted
    BY <1>4, ManifestStage DEF Uncounted, Ended
  <2>3. Uncounted' \in {0, 1}
    BY DEF Uncounted
  <2> QED BY <1>0, <2>1, <2>2, <2>3 DEF OpenSound
<1> QED BY <1>1, <1>2, <1>3, <1>4

\* An attempt that reached the provider keeps the recorder open.
LEMMA OwingKeepsOpen ==
  ASSUME RuntimeTypeOK, OpenSound, Owing # {}
  PROVE  open >= 1
<1>1. Cardinality(Owing) # 0
  BY OwingFacts, FS_EmptySet
<1>2. Uncounted \in {0, 1} /\ open \in Nat
  BY DEF Uncounted, RuntimeTypeOK, GatewayTypeOK
<1> QED BY <1>1, <1>2, OwingFacts DEF OpenSound

-----------------------------------------------------------------------------
(* How far the parent is *)

\* While the recorder is in a call that a handler made, the parent has not begun to seal.
LEMMA AtWorkMeans ==
  ASSUME RuntimeTypeOK, CallSound, ParentSound, AtWork
  PROVE  /\ parent \notin {"sealing", "sealed", "returned"} /\ manifest.status # "finalized"
         /\ call.request \in Request /\ handler[call.request] = "running"
         /\ call.stage # "final"
<1>1. call # Idle /\ call.stage # "final" /\ call.request \in Request
  BY CallFacts DEF AtWork
<1> QED BY <1>1 DEF ParentSound, CallSound

\* What the parent relies on does not depend on what a handler's turn changes.
LEMMA ParentKept ==
  ASSUME RuntimeTypeOK, ParentSound,
         UNCHANGED <<parent, exit>>, parent \notin {"sealing", "sealed", "returned"},
         manifest.status # "finalized", manifest'.status = manifest.status,
         disk'.status \in {disk.status, manifest.status}, call'.stage # "final",
         \A r \in Request : \/ handler'[r] \in {handler[r], "done"} \/ gone'[r]
                            \/ ~Over,
         \A r \in Request : gone[r] => gone'[r]
  PROVE  ParentSound'
<1>1. Over' <=> Over
  BY DEF Over
<1> QED BY <1>1 DEF ParentSound

LEMMA ParentStep ==
  ASSUME RuntimeTypeOK, RuntimeTypeOK', CallSound, LogSound, AttemptSound, OpenSound, ParentSound,
         ReplySound, [Next]_vars
  PROVE  ParentSound'
<1>0. /\ handler \in [Request -> Stages] /\ gone \in [Request -> BOOLEAN]
      /\ manifest \in Manifest /\ manifest.status \in {"recording", "finalized"}
  BY DEF RuntimeTypeOK, GatewayTypeOK, Stages, Manifest
<1>1. CASE \E r \in Request : Turned(r)
  <2>1. PICK r \in Request : Turned(r)
    BY <1>1
  <2>2. \A s \in Request : IF s = r THEN handler'[s] \in {"reading", "done"}
                           ELSE handler'[s] = handler[s]
    BY <1>0, <2>1, TurnedMeans
  <2>3. Over => handler[r] = "reading" /\ gone[r]
    BY <2>1 DEF Turned, Over, ParentSound
  <2>4. UNCHANGED <<manifest, disk, open, call, gone, parent, exit>>
    BY <2>1 DEF Turned
  <2>5. (Over' <=> Over) /\ (AtWork' <=> AtWork)
    BY <2>4 DEF Over, AtWork
  <2> QED BY <2>2, <2>3, <2>4, <2>5 DEF ParentSound
<1>2. CASE \E r \in Request : Prepared(r)
  <2>0. PICK r \in Request, c \in Calls, k \in Kind, f \in Decision : PreparedAs(r, c, k, f)
    BY <1>2 DEF Prepared
  <2>1. /\ LoopIsFree /\ handler[r] = "reading" /\ ~gone[r] /\ Recording
        /\ call' = Line(f, r) /\ handler' = [handler EXCEPT ![r] = "running"]
        /\ UNCHANGED <<manifest, disk, open, gone, parent, exit>>
    BY <2>0 DEF PreparedAs
  <2>2. ~Over
    BY <2>1 DEF ParentSound
  <2>3. call'.stage = "line"
    BY <2>1 DEF Line
  <2> QED BY <2>1, <2>2, <2>3, ParentKept DEF Over, Recording
<1>3. CASE \E r \in Request : CallProvider(r)
  <2>1. PICK r \in Request :
          /\ handler[r] = "running" /\ handler' = [handler EXCEPT ![r] = "upstream"]
          /\ UNCHANGED <<manifest, disk, open, call, gone, parent, exit>>
    BY <1>3 DEF CallProvider, MarkDispatched
  <2>2. (Over' <=> Over) /\ (AtWork' <=> AtWork)
    BY <2>1 DEF Over, AtWork
  <2>3. \A s \in Request : handler'[s] = IF s = r THEN "upstream" ELSE handler[s]
    BY <1>0, <2>1
  <2> QED BY <2>1, <2>2, <2>3 DEF ParentSound
<1>4. CASE \E r \in Request : HangUp(r)
  <2>1. PICK r \in Request : gone' = [gone EXCEPT ![r] = TRUE]
                             /\ UNCHANGED <<manifest, disk, open, call, handler, parent, exit>>
    BY <1>4 DEF HangUp, gatewayVars
  <2>2. (Over' <=> Over) /\ (AtWork' <=> AtWork)
    BY <2>1 DEF Over, AtWork
  <2>3. \A s \in Request : gone[s] => gone'[s]
    BY <1>0, <2>1
  <2> QED BY <2>1, <2>2, <2>3 DEF ParentSound
<1>5. CASE \E r \in Request, x \in Exchange : Answered(r, x)
  <2>1. PICK r \in Request, x \in Exchange : Answered(r, x)
    BY <1>5
  <2>2. /\ LoopIsFree /\ handler[r] = "upstream" /\ attempt[r] = "dispatched"
        /\ UNCHANGED <<manifest, disk, gone, parent, exit>>
    BY <2>1 DEF Answered
  <2>3. open >= 1 /\ open # 0
    BY <2>2, OwingKeepsOpen DEF Owing, RuntimeTypeOK, GatewayTypeOK
  <2>4. parent \notin {"sealing", "sealed", "returned"} /\ manifest.status # "finalized"
    BY <2>3 DEF ParentSound
  <2>5. call'.stage # "final"
    BY <2>1 DEF Answered, LoopIsFree, Line, Idle
  <2>6. \A s \in Request : IF s = r THEN handler'[s] \in {"running", "done"}
                           ELSE handler'[s] = handler[s]
    BY <1>0, <2>1, RefuseMeans DEF Answered
  <2>7. Over => gone[r]
    BY <2>2 DEF ParentSound
  <2> QED BY <2>2, <2>4, <2>5, <2>6, <2>7, ParentKept
<1>6. CASE (WriteLine \/ AdmitAttempt \/ CensorAttempt \/ CountAttempt) /\ UNCHANGED runtimeVars
  <2>1. AtWork /\ UNCHANGED <<handler, gone, parent, exit>>
    BY <1>6 DEF WriteLine, AdmitAttempt, CensorAttempt, CountAttempt, AtWork, runtimeVars
  <2>2. manifest'.status = manifest.status /\ (disk' = disk \/ disk' = manifest)
    BY <1>0, <1>6 DEF WriteLine, AdmitAttempt, CensorAttempt, CountAttempt, Manifest
  <2>3. call'.stage # "final"
    <3>1. CASE WriteLine
      BY <3>1, LineMeans
    <3>2. CASE CensorAttempt
      BY <3>2, CensorMeans DEF Line
    <3>3. CASE CountAttempt
      <4>1. call = [stage |-> call.stage, frame |-> call.frame, request |-> call.request]
        BY <2>1, CallFacts
      <4> QED BY <3>3, <4>1 DEF CountAttempt
    <3>4. CASE AdmitAttempt
      BY <3>4 DEF AdmitAttempt, Idle
    <3> QED BY <1>6, <3>1, <3>2, <3>3, <3>4
  <2> QED BY <2>1, <2>2, <2>3, AtWorkMeans, ParentKept
<1>7. CASE Return
  <2>1. /\ AtWork /\ handler' = [handler EXCEPT ![call.request] = "done"]
    BY <1>7, ReturnMeans
  <2>2. UNCHANGED <<manifest, gone, parent, exit>> /\ disk' = manifest /\ call'.stage # "final"
    BY <1>7 DEF Return, WriteCount, Idle
  <2>3. \A s \in Request : handler'[s] \in {handler[s], "done"}
    BY <1>0, <2>1
  <2> QED BY <2>1, <2>2, <2>3, AtWorkMeans, ParentKept
<1>8. CASE \E how \in {"completed", "failed"} : ChildExits(how)
  <2>1. /\ call = Idle /\ parent = "waiting" /\ parent' = "closing" /\ exit' \in {"completed", "failed"}
        /\ UNCHANGED <<manifest, disk, open, call>>
    BY <1>8 DEF ChildExits, LoopIsFree, gatewayVars
  <2>2. manifest.status # "finalized"
    BY <2>1 DEF ParentSound, Over
  <2>3. ~Over' /\ call.stage # "final"
    BY <2>1 DEF Over, Idle
  <2>4. exit' # None
    BY <2>1, LogicalAssumption
  <2> QED BY <2>1, <2>2, <2>3, <2>4 DEF ParentSound, Over
<1>9. CASE Seal
  <2>1. /\ LoopIsFree /\ call = Idle /\ parent = "closing" /\ Closed
        /\ UNCHANGED <<handler, gone, exit>>
    BY <1>9 DEF Seal, LoopIsFree
  <2>2. exit # None /\ manifest.status # "finalized" /\ disk.status # "finalized"
    BY <2>1 DEF ParentSound, Over
  <2>3. CASE Finalize /\ parent' = "sealing"
    <3>1. /\ open = 0 /\ open' = open /\ disk' = disk /\ manifest'.status = "finalized"
          /\ call'.stage = "final"
      BY <1>0, <2>3 DEF Finalize, MayFinalize, NothingOpen, Manifest
    <3>2. Over' /\ ~AtWork'
      BY <2>3, <3>1 DEF Over, AtWork
    <3> QED BY <2>1, <2>2, <2>3, <3>1, <3>2 DEF ParentSound, Closed, LoopIsFree
  <2>4. CASE /\ ~MayFinalize /\ parent' = IF NothingOpen THEN "sealed" ELSE "threw"
             /\ UNCHANGED gatewayVars
    <3>1. UNCHANGED <<open, disk, manifest, call>> /\ call.stage # "final"
      BY <2>1, <2>4 DEF gatewayVars, Idle
    <3>2. Over'
      BY <2>4 DEF Over
    <3>3. parent' = "sealed" => open = 0 /\ manifest.attempts = 0
      BY <1>0, <2>2, <2>4 DEF MayFinalize, NothingOpen, Recording
    <3> QED BY <2>1, <2>2, <2>4, <3>1, <3>2, <3>3 DEF ParentSound, Closed, LoopIsFree
  <2> QED BY <1>9, <2>3, <2>4 DEF Seal
<1>10. CASE Sealed
  <2>1. /\ call.stage = "final" /\ parent' = "sealed" /\ call' = Idle /\ disk' = manifest
        /\ UNCHANGED <<handler, gone, exit, manifest, open>>
    BY <1>10 DEF Sealed, WriteFinal
  <2>2. parent = "sealing" /\ Over /\ Over' /\ call'.stage = "idle" /\ ~AtWork'
    BY <2>1 DEF ParentSound, Over, AtWork, Idle
  <2> QED BY <2>1, <2>2 DEF ParentSound
<1>11. CASE Fail
  <2>1. /\ call # Idle /\ call' = Idle /\ call'.stage = "idle" /\ UNCHANGED <<manifest, disk, open, gone, exit>>
    BY <1>11 DEF Fail, WriteFails, Idle
  <2>2. CASE call.stage = "final"
    <3>1. parent' = "threw" /\ handler' = handler
      BY <1>11, <2>2 DEF Fail
    <3>2. parent = "sealing" /\ Over /\ Over' /\ ~AtWork'
      BY <2>1, <2>2, <3>1 DEF ParentSound, Over, AtWork
    <3> QED BY <2>1, <3>1, <3>2 DEF ParentSound
  <2>3. CASE call.stage # "final"
    <3>1. AtWork /\ call.request \in Request
      BY <2>1, <2>3, CallFacts
    <3>2. handler' = [handler EXCEPT ![call.request] = "done"] /\ parent' = parent
      BY <1>11, <2>3, <3>1, RefuseMeans DEF Fail
    <3>3. \A s \in Request : handler'[s] \in {handler[s], "done"}
      BY <1>0, <3>2
    <3> QED BY <2>1, <3>1, <3>2, <3>3, AtWorkMeans, ParentKept
  <2> QED BY <2>2, <2>3
<1>12. CASE WriteReceipt
  <2>1. /\ parent = "sealed" /\ parent' = "returned"
        /\ UNCHANGED <<handler, gone, exit, manifest, disk, open, call>>
    BY <1>12 DEF WriteReceipt, gatewayVars
  <2>2. Over /\ Over' /\ (AtWork' <=> AtWork) /\ call = Idle /\ call.stage # "final"
    BY <2>1 DEF ParentSound, Over, AtWork, Idle
  <2> QED BY <2>1, <2>2 DEF ParentSound
<1>13. CASE UNCHANGED vars
  <2>1. UNCHANGED <<handler, gone, parent, exit, manifest, disk, open, call>>
    BY <1>13 DEF vars, gatewayVars, runtimeVars
  <2> QED BY <2>1 DEF ParentSound, Over, AtWork
<1> QED BY <1>1, <1>2, <1>3, <1>4, <1>5, <1>6, <1>7, <1>8, <1>9, <1>10, <1>11, <1>12, <1>13, Steps

-----------------------------------------------------------------------------
(* What was replied *)

Finished == {r \in Request : handler[r] = "done"}

\* What is in the log stays there.
LEMMA LogGrows ==
  ASSUME RuntimeTypeOK, ReplySound, [Next]_vars
  PROVE  /\ Actions \subseteq Actions' /\ Decisions \subseteq Decisions'
         /\ \A i \in 1 .. Len(log) : log'[i] = log[i]
<1>1. CASE WriteLine
  <2>1. call.frame.kind \in {"decision", "action"}
    BY <1>1, LineMeans, FrameFacts
  <2> QED BY <1>1, <2>1, LineMeans
<1>2. CASE ~WriteLine
  BY <1>2, LogStays, SameLog
<1> QED BY <1>1, <1>2

\* A request whose handler ended is as it was.
LEMMA DoneStays ==
  ASSUME RuntimeTypeOK, CallSound, ReplySound, [Next]_vars, NEW s \in Request, handler[s] = "done"
  PROVE  /\ handler'[s] = "done" /\ reply'[s] = reply[s] /\ asked'[s] = asked[s]
         /\ answer'[s] = answer[s] /\ attempt'[s] = attempt[s] /\ held'[s] = held[s]
<1>0. /\ handler \in [Request -> Stages] /\ asked \in [Request -> Calls \cup {None}]
      /\ answer \in [Request -> Exchange \cup {None}] /\ attempt \in [Request -> AttemptState]
      /\ held \in [Request -> Occurrence \cup {None}] /\ reply \in [Request -> Replies]
  BY DEF RuntimeTypeOK, GatewayTypeOK, Stages, Calls, Replies
<1>1. CASE \E r \in Request : Turned(r)
  <2>1. PICK r \in Request : Turned(r)
    BY <1>1
  <2>2. s # r /\ UNCHANGED <<answer, attempt, held>>
    BY <2>1 DEF Turned
  <2>3. handler'[s] = handler[s] /\ reply'[s] = reply[s]
    BY <1>0, <2>1, <2>2, TurnedMeans
  <2>4. asked'[s] = asked[s]
    BY <1>0, <2>1, <2>2 DEF Turned
  <2> QED BY <2>2, <2>3, <2>4
<1>2. CASE \E r \in Request : Prepared(r)
  BY <1>0, <1>2 DEF Prepared, PreparedAs
<1>3. CASE \E r \in Request : CallProvider(r)
  BY <1>0, <1>3 DEF CallProvider, MarkDispatched
<1>4. CASE \E r \in Request : HangUp(r)
  BY <1>0, <1>4 DEF HangUp, gatewayVars
<1>5. CASE \E r \in Request, x \in Exchange : Answered(r, x)
  <2>1. PICK r \in Request, x \in Exchange : Answered(r, x)
    BY <1>5
  <2>2. s # r /\ UNCHANGED <<asked, held>> /\ answer'[s] = answer[s]
    BY <1>0, <2>1 DEF Answered
  <2>3. attempt'[s] = attempt[s]
    BY <1>0, <2>1, <2>2 DEF Answered
  <2>4. handler'[s] = handler[s] /\ reply'[s] = reply[s]
    BY <1>0, <2>1, <2>2, RefuseMeans DEF Answered
  <2> QED BY <2>2, <2>3, <2>4
<1>6. CASE (WriteLine \/ CensorAttempt \/ CountAttempt) /\ UNCHANGED runtimeVars
  BY <1>6 DEF WriteLine, CensorAttempt, CountAttempt, runtimeVars
<1>7. CASE AdmitAttempt /\ UNCHANGED runtimeVars
  <2>1. handler[call.request] = "running" /\ call.request \in Request
    BY <1>7, DecisionWritten
  <2>2. s # call.request
    BY <2>1
  <2> QED BY <1>7, <2>2, AttemptAdmitted DEF runtimeVars
<1>8. CASE Return
  <2>1. /\ handler[call.request] = "running" /\ call.request \in Request
        /\ handler' = [handler EXCEPT ![call.request] = "done"]
        /\ \A r \in Request : r # call.request => reply'[r] = reply[r]
    BY <1>8, ReturnMeans
  <2>2. s # call.request /\ UNCHANGED <<asked, answer>>
    BY <1>8, <2>1 DEF Return
  <2>3. attempt'[s] = attempt[s] /\ held'[s] = held[s]
    BY <1>0, <1>8, <2>2 DEF Return, WriteCount
  <2> QED BY <1>0, <2>1, <2>2, <2>3
<1>9. CASE (\E how \in {"completed", "failed"} : ChildExits(how)) \/ WriteReceipt \/ UNCHANGED vars
  BY <1>9 DEF ChildExits, WriteReceipt, vars, gatewayVars, runtimeVars
<1>10. CASE Seal \/ Sealed
  BY <1>10 DEF Seal, Finalize, Sealed, WriteFinal, gatewayVars
<1>11. CASE Fail
  <2>1. UNCHANGED <<asked, answer, attempt, held>>
    BY <1>11 DEF Fail, WriteFails
  <2>2. CASE call.stage = "final"
    BY <1>11, <2>1, <2>2 DEF Fail
  <2>3. CASE call.stage # "final"
    <3>1. AtWork /\ call.request \in Request
      BY <1>11, <2>3, CallFacts DEF Fail, WriteFails
    <3>2. s # call.request
      BY <3>1 DEF CallSound
    <3> QED BY <1>0, <1>11, <2>1, <2>3, <3>1, <3>2, RefuseMeans DEF Fail
  <2> QED BY <2>2, <2>3
<1> QED BY <1>1, <1>2, <1>3, <1>4, <1>5, <1>6, <1>7, <1>8, <1>9, <1>10, <1>11, Steps

\* One more handler ended, or none.
LEMMA FinishedGrows ==
  ASSUME Finished \subseteq Finished'
  PROVE  /\ Cardinality(Finished) \in Nat /\ Cardinality(Finished)' \in Nat
         /\ Cardinality(Finished) <= Cardinality(Finished)'
         /\ Finished # Finished' => Cardinality(Finished) + 1 <= Cardinality(Finished)'
<1>1. IsFiniteSet(Finished') /\ IsFiniteSet(Finished)
  BY LogicalAssumption, FS_Subset DEF Finished
<1>2. Cardinality(Finished) \in Nat /\ Cardinality(Finished') \in Nat
  BY <1>1, FS_CardinalityType
<1>3. Finished \in SUBSET Finished'
  OBVIOUS
<1>4. /\ Cardinality(Finished) <= Cardinality(Finished')
      /\ Cardinality(Finished) = Cardinality(Finished') => Finished = Finished'
  BY <1>1, <1>3, FS_Subset
<1>5. Cardinality(Finished)' = Cardinality(Finished')
  OBVIOUS
<1> QED BY <1>2, <1>4, <1>5

\* A turn that replies to nobody, or only what need not be in the log.
LEMMA ReplyKept ==
  ASSUME RuntimeTypeOK, RuntimeTypeOK', CallSound, ReplySound, [Next]_vars,
         \A s \in Request : handler'[s] \in {"running", "upstream"} => kind'[s] # None,
         \A s \in Request :
           \/ reply'[s] = reply[s]
           \/ /\ handler'[s] = "done" /\ reply'[s] \in {"refusal", "invalid", "unauthorized"}
              /\ reply'[s] = "invalid" => counters'.malformed >= 1
              /\ reply'[s] = "unauthorized" => counters'.unauthorized >= 1
           \/ /\ handler'[s] = "done" /\ reply'[s] = "response" /\ answer'[s] # None
              /\ EndingOf(asked'[s], answer'[s]).outcome = "success"
              /\ RecordedAs(held[s], "success") /\ held'[s] = held[s]
              /\ attempt'[s] \in {"open", "dispatched", "closed"},
         counters'.malformed >= counters.malformed,
         counters'.unauthorized >= counters.unauthorized,
         counters'.accepted = counters'.explicit + counters'.native,
         \/ counters'.native = counters.native
         \/ counters'.native = counters.native + 1 /\ Finished # Finished'
  PROVE  ReplySound'
<1>0. counters \in Counters /\ counters' \in Counters
  BY DEF RuntimeTypeOK
<1>1. /\ counters.malformed \in Nat /\ counters'.malformed \in Nat /\ counters.native \in Nat
      /\ counters.unauthorized \in Nat /\ counters'.unauthorized \in Nat
  BY <1>0 DEF Counters
<1>2. Finished \subseteq Finished'
  BY DoneStays DEF Finished
<1>3. counters'.native <= Cardinality(Finished)'
  BY <1>1, <1>2, FinishedGrows DEF ReplySound, Finished
<1>4. ASSUME NEW s \in Request, reply'[s] # None
      PROVE  handler'[s] = "done"
  BY <1>4, DoneStays DEF ReplySound
<1>5. ASSUME NEW s \in Request, reply'[s] = "response"
      PROVE  /\ answer'[s] # None /\ EndingOf(asked'[s], answer'[s]).outcome = "success"
             /\ RecordedAs(held[s], "success") /\ held'[s] = held[s]
             /\ attempt'[s] \in {"open", "dispatched", "closed"}
  <2>1. CASE reply[s] = "response"
    <3>1. handler[s] = "done" /\ RecordedAs(held[s], "success") /\ Handed(s) /\ answer[s] # None
          /\ EndingOf(asked[s], answer[s]).outcome = "success"
      BY <2>1, LogicalAssumption DEF ReplySound
    <3> QED BY <3>1, DoneStays DEF Handed
  <2>2. CASE reply[s] # "response"
    BY <1>5, <2>2
  <2> QED BY <2>1, <2>2
<1>6. ASSUME NEW s \in Request, reply'[s] = "response"
      PROVE  \E i \in Actions' : log'[i].occurrence = held'[s] /\ log'[i].ending.outcome = "success"
  <2>1. PICK i \in Actions : log[i].occurrence = held[s] /\ log[i].ending.outcome = "success"
    BY <1>5, <1>6 DEF RecordedAs
  <2>2. i \in Actions' /\ log'[i] = log[i] /\ held'[s] = held[s]
    BY <1>5, <1>6, LogGrows, LogFacts
  <2> QED BY <2>1, <2>2
<1>7. \A s \in Request :
        /\ reply'[s] = "invalid" => counters'.malformed >= 1
        /\ reply'[s] = "unauthorized" => counters'.unauthorized >= 1
  BY <1>1 DEF ReplySound
<1> QED BY <1>3, <1>4, <1>5, <1>6, <1>7 DEF ReplySound, RecordedAs, Handed, Finished

LEMMA ReplyStep ==
  ASSUME RuntimeTypeOK, RuntimeTypeOK', CallSound, LogSound, AttemptSound, ReplySound,
         [Next]_vars
  PROVE  ReplySound'
<1>0. /\ handler \in [Request -> Stages] /\ kind \in [Request -> Kind \cup {None}]
      /\ counters \in Counters
      /\ counters.malformed \in Nat /\ counters.unauthorized \in Nat
      /\ counters.accepted = counters.explicit + counters.native
      /\ answer \in [Request -> Exchange \cup {None}]
  BY DEF RuntimeTypeOK, Stages, Counters, ReplySound
<1>1. \A s \in Request : handler[s] \in {"running", "upstream"} => kind[s] # None
  BY DEF ReplySound
<1>2. CASE \E r \in Request : Turned(r)
  <2>1. PICK r \in Request : Turned(r)
    BY <1>2
  <2>2. \A s \in Request : handler'[s] \in {"running", "upstream"} => s # r /\ handler'[s] = handler[s]
    BY <1>0, <2>1, TurnedMeans
  <2>3. \A s \in Request : s # r => kind'[s] = kind[s]
    BY <1>0, <2>1 DEF Turned
  <2>4. CASE handler' = [handler EXCEPT ![r] = "reading"] /\ UNCHANGED <<reply, counters>>
    BY <1>0, <1>1, <2>2, <2>3, <2>4, ReplyKept
  <2>5. CASE handler' # [handler EXCEPT ![r] = "reading"] \/ ~UNCHANGED <<reply, counters>>
    <3>1. handler'[r] = "done"
      BY <1>0, <2>1, <2>5, TurnedMeans
    <3>2. /\ counters'.accepted = counters.accepted /\ counters'.explicit = counters.explicit
          /\ counters'.native = counters.native
          /\ counters'.malformed >= counters.malformed
          /\ counters'.unauthorized >= counters.unauthorized
          /\ \A s \in Request :
               \/ reply'[s] = reply[s]
               \/ s = r /\ reply'[s] = "invalid" /\ counters'.malformed >= 1
               \/ s = r /\ reply'[s] = "unauthorized" /\ counters'.unauthorized >= 1
      BY <1>0, <2>1, <2>5, TurnedMeans
    <3> QED BY <1>0, <1>1, <2>2, <2>3, <3>1, <3>2, ReplyKept
  <2> QED BY <2>4, <2>5
<1>3. CASE \E r \in Request : Prepared(r)
  <2>0. PICK r \in Request, c \in Calls, k \in Kind, f \in Decision : PreparedAs(r, c, k, f)
    BY <1>3 DEF Prepared
  <2>1. /\ kind' = [kind EXCEPT ![r] = k] /\ handler' = [handler EXCEPT ![r] = "running"]
        /\ UNCHANGED <<reply, counters>>
    BY <2>0 DEF PreparedAs
  <2>2. k # None
    BY LogicalAssumption DEF Kind
  <2> QED BY <1>0, <1>1, <2>1, <2>2, ReplyKept
<1>4. CASE \E r \in Request : CallProvider(r)
  BY <1>0, <1>1, <1>4, ReplyKept DEF CallProvider
<1>5. CASE \E r \in Request, x \in Exchange : Answered(r, x)
  <2>1. PICK r \in Request, x \in Exchange : Answered(r, x)
    BY <1>5
  <2>2. handler[r] = "upstream" /\ kind' = kind
    BY <2>1 DEF Answered
  <2>3. CASE handler' = [handler EXCEPT ![r] = "running"] /\ UNCHANGED <<reply, counters>>
    BY <1>0, <1>1, <2>2, <2>3, ReplyKept
  <2>4. CASE Refuse(r)
    BY <1>0, <1>1, <2>2, <2>4, RefuseMeans, ReplyKept
  <2> QED BY <2>1, <2>3, <2>4 DEF Answered
<1>6. CASE UNCHANGED <<handler, kind, reply, counters>>
  BY <1>0, <1>1, <1>6, ReplyKept
<1>7. CASE Return
  <2> DEFINE q == call.request
             f == call.frame
  <2>1. /\ call.stage = "count" /\ AtWork /\ q \in Request /\ handler[q] = "running"
        /\ f.kind = "action"
        /\ handler' = [handler EXCEPT ![q] = "done"]
        /\ counters'.accepted = counters.accepted + 1
        /\ counters'.explicit + counters'.native = counters.explicit + counters.native + 1
        /\ counters'.native \in {counters.native, counters.native + 1}
        /\ counters'.unauthorized = counters.unauthorized
        /\ counters'.malformed = counters.malformed
        /\ \A s \in Request :
             reply'[s] = IF s = q /\ ~gone[q]
                         THEN IF f.ending.outcome = "success" THEN "response" ELSE "refusal"
                         ELSE reply[s]
    BY <1>7, ReturnMeans
  <2>2. UNCHANGED <<kind, asked, answer>>
    BY <1>7 DEF Return
  <2>3. \A s \in Request : handler'[s] = IF s = q THEN "done" ELSE handler[s]
    BY <1>0, <2>1
  <2>4. Finished # Finished'
    BY <2>1, <2>3 DEF Finished
  <2>5. ASSUME f.ending.outcome = "success"
        PROVE  /\ answer[q] # None /\ EndingOf(asked[q], answer[q]).outcome = "success"
               /\ RecordedAs(held[q], "success") /\ held'[q] = held[q]
               /\ attempt'[q] = "closed"
    <3>1. Ended(f)
      BY <2>1, <2>5 DEF Ended, Censored
    <3>2. /\ attempt[q] = "closed" /\ f.occurrence = held[q]
          /\ f.ending = EndingOf(asked[q], answer[q]) /\ log # <<>> /\ log[Len(log)] = f
      BY <2>1, <3>1 DEF CallSound
    <3>3. UNCHANGED <<attempt, held>>
      BY <1>7, <3>1 DEF Return, WriteCount, Ended
    <3>4. Len(log) \in Actions
      BY <2>1, <3>2, LogFacts DEF Actions
    <3> QED BY <2>1, <2>5, <3>2, <3>3, <3>4 DEF RecordedAs, AttemptSound
  <2> HIDE DEF q, f
  <2>6. counters'.accepted = counters'.explicit + counters'.native
    BY <1>0, <2>1
  <2>7. \A s \in Request : handler'[s] \in {"running", "upstream"} => kind'[s] # None
    BY <1>1, <2>2, <2>3
  <2>8. ASSUME NEW s \in Request
        PROVE
           \/ reply'[s] = reply[s]
           \/ /\ handler'[s] = "done" /\ reply'[s] \in {"refusal", "invalid", "unauthorized"}
              /\ reply'[s] = "invalid" => counters'.malformed >= 1
              /\ reply'[s] = "unauthorized" => counters'.unauthorized >= 1
           \/ /\ handler'[s] = "done" /\ reply'[s] = "response" /\ answer'[s] # None
              /\ EndingOf(asked'[s], answer'[s]).outcome = "success"
              /\ RecordedAs(held[s], "success") /\ held'[s] = held[s]
              /\ attempt'[s] \in {"open", "dispatched", "closed"}
    <3>1. CASE s # q \/ gone[q]
      BY <2>1, <3>1
    <3>2. CASE s = q /\ ~gone[q] /\ f.ending.outcome # "success"
      BY <2>1, <2>3, <3>2
    <3>3. CASE s = q /\ ~gone[q] /\ f.ending.outcome = "success"
      BY <2>1, <2>2, <2>3, <2>5, <3>3
    <3> QED BY <3>1, <3>2, <3>3
  <2> QED BY <1>0, <2>1, <2>4, <2>6, <2>7, <2>8, ReplyKept
<1>8. CASE \/ \E r \in Request : HangUp(r)
           \/ UNCHANGED runtimeVars
           \/ \E how \in {"completed", "failed"} : ChildExits(how)
           \/ Seal \/ Sealed \/ WriteReceipt \/ UNCHANGED vars
  BY <1>6, <1>8 DEF HangUp, ChildExits, Seal, Sealed, WriteReceipt, vars, runtimeVars
<1>9. CASE Fail
  <2>1. UNCHANGED kind
    BY <1>9 DEF Fail
  <2>2. CASE call.stage = "final"
    BY <1>6, <1>9, <2>1, <2>2 DEF Fail
  <2>3. CASE call.stage # "final"
    <3>1. AtWork /\ call.request \in Request
      BY <1>9, <2>3, CallFacts DEF Fail, WriteFails
    <3> DEFINE q == call.request
    <3>2. Refuse(q) /\ q \in Request
      BY <1>9, <2>3, <3>1 DEF Fail
    <3> HIDE DEF q
    <3>3. \A s \in Request : handler'[s] \in {"running", "upstream"} => handler'[s] = handler[s]
      BY <1>0, <3>2, RefuseMeans
    <3>4. \A s \in Request : reply'[s] # reply[s] => handler'[s] = "done" /\ reply'[s] = "invalid"
      BY <1>0, <3>2, RefuseMeans
    <3> QED BY <1>0, <1>1, <2>1, <3>2, <3>3, <3>4, RefuseMeans, ReplyKept
  <2> QED BY <2>2, <2>3
<1> QED BY <1>2, <1>3, <1>4, <1>5, <1>7, <1>8, <1>9, Steps

-----------------------------------------------------------------------------
(* The receipt *)

LEMMA VerdictStays ==
  ASSUME UNCHANGED <<log, torn, disk>>
  PROVE  GatewayVerifies' <=> GatewayVerifies
BY DEF GatewayVerifies, FramesSound, PairsComplete, RetriesNamed, ModelsMatch, Actions, Decisions

\* Once the parent has the receipt, only handlers that nobody listens to go on.
LEMMA AfterReturn ==
  ASSUME RuntimeTypeOK, CallSound, OpenSound, ParentSound, ReplySound, [Next]_vars,
         parent = "returned"
  PROVE  /\ UNCHANGED <<log, torn, disk, exit, receipt, parent, reply>>
         /\ counters'.accepted = counters.accepted /\ counters'.explicit = counters.explicit
         /\ counters'.native = counters.native
         /\ counters'.malformed >= counters.malformed
         /\ counters'.unauthorized >= counters.unauthorized
<1>0. /\ counters \in Counters /\ reply \in [Request -> Replies]
      /\ counters.malformed \in Nat /\ counters.unauthorized \in Nat
  BY DEF RuntimeTypeOK, Counters, Replies
<1>1. /\ call = Idle /\ open = 0 /\ ~AtWork /\ Over
      /\ \A r \in Request : handler[r] \in {"unsent", "done"} \/ gone[r]
      /\ \A r \in Request : handler[r] # "running"
  BY CallFacts DEF ParentSound, Over
<1>2. CASE \E r \in Request : Turned(r)
  <2>1. PICK r \in Request : Turned(r)
    BY <1>2
  <2>2. gone[r] /\ UNCHANGED <<log, torn, disk, exit, receipt, parent>>
    BY <1>1, <2>1 DEF Turned
  <2>3. /\ \A s \in Request : reply'[s] = reply[s]
        /\ reply' \in [Request -> Replies]
        /\ counters'.accepted = counters.accepted /\ counters'.explicit = counters.explicit
        /\ counters'.native = counters.native
        /\ counters'.malformed >= counters.malformed
        /\ counters'.unauthorized >= counters.unauthorized
    BY <1>0, <2>1, <2>2, TurnedMeans DEF Replies
  <2>4. reply' = reply
    BY <1>0, <2>3
  <2> QED BY <2>2, <2>3, <2>4
<1>3. CASE \E r \in Request : Prepared(r) \/ CallProvider(r)
  BY <1>1, <1>3 DEF Prepared, PreparedAs, CallProvider
<1>4. CASE \E r \in Request : HangUp(r)
  BY <1>0, <1>4 DEF HangUp, gatewayVars
<1>5. CASE \E r \in Request, x \in Exchange : Answered(r, x)
  <2>1. Owing # {}
    BY <1>5 DEF Answered, Owing
  <2> QED BY <1>1, <2>1, OwingKeepsOpen
<1>6. CASE WriteLine \/ AdmitAttempt \/ CensorAttempt \/ CountAttempt \/ Return
  BY <1>1, <1>6 DEF WriteLine, AdmitAttempt, CensorAttempt, CountAttempt, Return, WriteCount, AtWork
<1>7. CASE (\E how \in {"completed", "failed"} : ChildExits(how)) \/ Seal \/ WriteReceipt
  BY <1>7 DEF ChildExits, Seal, WriteReceipt
<1>8. CASE Sealed \/ Fail
  BY <1>1, <1>8 DEF Sealed, WriteFinal, Fail, WriteFails, Idle
<1>9. CASE UNCHANGED vars
  BY <1>0, <1>9 DEF vars, gatewayVars, runtimeVars
<1> QED BY <1>2, <1>3, <1>4, <1>5, <1>6, <1>7, <1>8, <1>9, Steps

LEMMA ReceiptStays ==
  ASSUME RuntimeTypeOK, ReplySound, [Next]_vars, ~WriteReceipt
  PROVE  receipt' = receipt
<1>1. CASE \E r \in Request : Turned(r) \/ Prepared(r) \/ CallProvider(r) \/ HangUp(r)
  BY <1>1 DEF Turned, Prepared, PreparedAs, CallProvider, HangUp
<1>2. CASE \E r \in Request, x \in Exchange : Answered(r, x)
  BY <1>2 DEF Answered
<1>3. CASE UNCHANGED runtimeVars \/ Return \/ \E how \in {"completed", "failed"} : ChildExits(how)
  BY <1>3 DEF Return, ChildExits, runtimeVars
<1>4. CASE Seal \/ Sealed \/ Fail \/ UNCHANGED vars
  BY <1>4 DEF Seal, Sealed, Fail, vars, runtimeVars
<1> QED BY <1>1, <1>2, <1>3, <1>4, Steps

LEMMA ReceiptStep ==
  ASSUME RuntimeTypeOK, RuntimeTypeOK', CallSound, OpenSound, ParentSound, ReplySound,
         ReceiptSound, [Next]_vars
  PROVE  ReceiptSound'
<1>0. /\ counters.malformed \in Nat /\ counters.unauthorized \in Nat
      /\ counters'.malformed \in Nat /\ counters'.unauthorized \in Nat
  BY DEF RuntimeTypeOK, Counters
<1>1. CASE receipt # None
  <2>1. /\ parent = "returned" /\ receipt \in Receipt
        /\ receipt.counters.malformed \in Nat /\ receipt.counters.unauthorized \in Nat
    BY <1>1 DEF ReceiptSound, RuntimeTypeOK, Receipt, Counters
  <2>2. GatewayVerifies' <=> GatewayVerifies
    BY <2>1, AfterReturn, VerdictStays
  <2>3. receipt.ok = GatewayVerifies'
    <3>1. receipt.ok = GatewayVerifies
      BY <1>1 DEF ReceiptSound
    <3> QED BY <2>2, <3>1 DEF GatewayVerifies
  <2>4. /\ receipt' = receipt /\ Len(log') = Len(log) /\ exit' = exit /\ parent' = parent
        /\ \A r \in Request : reply'[r] = reply[r]
        /\ counters'.accepted = counters.accepted /\ counters'.explicit = counters.explicit
        /\ counters'.native = counters.native
        /\ counters'.malformed >= counters.malformed
        /\ counters'.unauthorized >= counters.unauthorized
    BY <2>1, AfterReturn
  <2> QED BY <1>0, <1>1, <2>1, <2>3, <2>4 DEF ReceiptSound
<1>2. CASE receipt = None /\ WriteReceipt
  <2>1. /\ receipt' = [counters |-> counters, frames |-> Len(log), ok |-> GatewayVerifies,
                       exit |-> exit]
        /\ parent' = "returned"
        /\ UNCHANGED <<log, torn, disk, counters, reply, exit>>
    BY <1>2 DEF WriteReceipt, gatewayVars
  <2>2. GatewayVerifies' <=> GatewayVerifies
    BY <2>1, VerdictStays
  <2>3. /\ receipt'.counters = counters /\ receipt'.frames = Len(log)
        /\ receipt'.ok = GatewayVerifies /\ receipt'.exit = exit
    BY <2>1
  <2>4. receipt'.ok = GatewayVerifies'
    BY <2>2, <2>3 DEF GatewayVerifies
  <2> QED BY <1>0, <2>1, <2>3, <2>4 DEF ReceiptSound, ReplySound
<1>3. CASE receipt = None /\ ~WriteReceipt
  BY <1>3, ReceiptStays DEF ReceiptSound
<1> QED BY <1>1, <1>2, <1>3

-----------------------------------------------------------------------------
(* As long as no write failed *)

LEMMA FaultsStay ==
  ASSUME RuntimeTypeOK, ReplySound, [Next]_vars, ~Fail
  PROVE  faults' = faults /\ torn' = torn
<1>1. CASE \E r \in Request : Turned(r) \/ Prepared(r) \/ CallProvider(r) \/ HangUp(r)
  BY <1>1 DEF Turned, Prepared, PreparedAs, CallProvider, MarkDispatched, HangUp, gatewayVars
<1>2. CASE \E r \in Request, x \in Exchange : Answered(r, x)
  BY <1>2 DEF Answered
<1>3. CASE WriteLine \/ AdmitAttempt \/ CensorAttempt \/ CountAttempt
  BY <1>3 DEF WriteLine, AdmitAttempt, CensorAttempt, CountAttempt
<1>4. CASE Return \/ \E how \in {"completed", "failed"} : ChildExits(how)
  BY <1>4 DEF Return, WriteCount, ChildExits, gatewayVars
<1>5. CASE Seal \/ Sealed \/ WriteReceipt \/ UNCHANGED vars
  BY <1>5 DEF Seal, Finalize, Sealed, WriteFinal, WriteReceipt, vars, gatewayVars
<1> QED BY <1>1, <1>2, <1>3, <1>4, <1>5, Steps

LEMMA NoFault ==
  ASSUME RuntimeTypeOK, ReplySound, [Next]_vars, faults' = 0
  PROVE  faults = 0 /\ ~Fail
<1>1. faults \in Nat
  BY DEF RuntimeTypeOK, GatewayTypeOK
<1>2. ~Fail
  BY <1>1 DEF Fail, WriteFails
<1> QED BY <1>2, FaultsStay

\* An ending that is accepted is recorded: nothing refuses the frame.
LEMMA AnswerGoes ==
  ASSUME RuntimeTypeOK, LogSound, AttemptSound, OpenSound, LogWhole,
         NEW r \in Request, NEW x \in Exchange, Answered(r, x)
  PROVE  LET e == EndingOf(asked[r], x) IN
         \/ /\ Accepted(e) /\ attempt' = [attempt EXCEPT ![r] = "closed"]
            /\ \E i \in Decisions :
                 /\ log[i].occurrence = held[r] /\ log[i].policy = "allowed"
                 /\ call' = Line(ActionOf(log[i], e), r)
            /\ handler' = [handler EXCEPT ![r] = "running"] /\ UNCHANGED <<reply, counters>>
         \/ ~Accepted(e) /\ UNCHANGED <<call, chain, attempt>> /\ Refuse(r)
<1> DEFINE e == EndingOf(asked[r], x)
<1>1. LoopIsFree /\ call = Idle /\ attempt[r] = "dispatched"
  BY DEF Answered, LoopIsFree
<1>2. Closing
  BY <1>1, OwingKeepsOpen DEF Owing, Closing
<1>3. ~AtWork
  BY <1>1, CallFacts
<1>4. InStep
  BY <1>3 DEF LogWhole, LogSound, InStep
<1>5. ASSUME Accepted(e), NEW i \in Decisions, log[i].occurrence = held[r]
      PROVE  FrameSound(ActionOf(log[i], e)) /\ log[i].policy = "allowed"
  <2>1. log[i].requested = RequestedModel(asked[r]) /\ log[i].policy = "allowed"
    BY <1>1, <1>5 DEF LogWhole, Handed
  <2>2. FrameSound(log[i])
    BY <1>5, LogFacts DEF LogSound
  <2>3. e \in Ending
    BY <1>5, AcceptedEnding
  <2>4. RequestedModel(asked[r]) \in Pins
    BY <2>1, <2>2 DEF FrameSound
  <2>5. EndingSound(e, log[i].requested)
    BY <1>5, <2>1, <2>4, AcceptedEnding
  <2> HIDE DEF e
  <2>6. LET f == ActionOf(log[i], e) IN
        /\ f.kind = "action" /\ f.ending = e /\ f.requested = log[i].requested
        /\ f.occurrence = log[i].occurrence /\ f.retryOf = log[i].retryOf
    BY <2>3, ActionFacts
  <2> QED BY <2>1, <2>2, <2>5, <2>6 DEF FrameSound
<1>6. CASE Accepted(e)
  <2>1. PICK i \in Decisions :
          /\ log[i].occurrence = held[r]
          /\ call' = Line(ActionOf(log[i], e), r)
          /\ handler' = [handler EXCEPT ![r] = "running"] /\ UNCHANGED <<reply, counters>>
    BY <1>2, <1>4, <1>5, <1>6 DEF Answered
  <2> QED BY <1>5, <1>6, <2>1 DEF Answered
<1>7. CASE ~Accepted(e)
  BY <1>7 DEF Answered
<1> QED BY <1>6, <1>7

\* Two frames of an attempt, with nothing changed but whose attempts they are.
LEMMA WholeKept ==
  ASSUME RuntimeTypeOK, LogWhole, UNCHANGED <<torn, log>>, prior \subseteq prior', Owing' = Owing,
         ~AtWork' => chain' = Len(log), call' = Idle => disk' = manifest',
         \A i \in Decisions :
           call.stage = "manifest" /\ call.frame.kind = "decision" /\ i = Len(log) =>
             log[i].occurrence \in prior' \/ UNCHANGED call,
         AtWork' /\ call'.frame.kind = "action" =>
           \E i \in Decisions : Matches(log[i], call'.frame),
         \A r \in Request : Handed(r)' =>
           Handed(r) /\ held'[r] = held[r] /\ asked'[r] = asked[r],
         \A r \in Owing : held'[r] = held[r],
         \A i \in Decisions : AtWork /\ call.frame.occurrence = log[i].occurrence =>
           \/ \E j \in Actions : i < j /\ log[i].occurrence = log[j].occurrence
           \/ AtWork' /\ call'.frame.occurrence = log[i].occurrence
  PROVE  LogWhole'
<1>1. Actions' = Actions /\ Decisions' = Decisions /\ Len(log') = Len(log)
  BY SameLog
<1>2. \A i \in Decisions : \/ log[i].occurrence \in prior'
                           \/ /\ call'.stage = "manifest" /\ call'.frame.kind = "decision"
                              /\ i = Len(log)
  BY DEF LogWhole
<1>3. \A r \in Request, i \in Decisions :
        Handed(r)' /\ log[i].occurrence = held'[r] =>
          log[i].requested = RequestedModel(asked'[r]) /\ log[i].policy = "allowed"
  BY DEF LogWhole
<1>4. \A i \in Decisions :
        \/ \E j \in Actions : i < j /\ log[i].occurrence = log[j].occurrence
        \/ \E r \in Owing : held'[r] = log[i].occurrence
        \/ AtWork' /\ call'.frame.occurrence = log[i].occurrence
  BY DEF LogWhole
<1>5. ~torn' /\ (~AtWork' => chain' = Len(log')) /\ (call' = Idle => disk' = manifest')
  BY <1>1 DEF LogWhole
<1>6. \A i, j \in Decisions' : log'[i].occurrence = log'[j].occurrence => i = j
  BY <1>1 DEF LogWhole
<1>7. \A j \in Actions' : \E i \in Decisions' : Matches(log'[i], log'[j])
  BY <1>1 DEF LogWhole
<1> QED BY <1>1, <1>2, <1>3, <1>4, <1>5, <1>6, <1>7 DEF LogWhole, Matches

LEMMA LogWholeStep ==
  ASSUME RuntimeTypeOK, RuntimeTypeOK', CallSound, LogSound, AttemptSound, OpenSound, ReplySound,
         LogWhole, [Next]_vars, faults' = 0
  PROVE  LogWhole'
<1>0. /\ attempt \in [Request -> AttemptState] /\ held \in [Request -> Occurrence \cup {None}]
      /\ asked \in [Request -> Calls \cup {None}]
      /\ ~Fail /\ torn' = torn
  BY NoFault, FaultsStay DEF RuntimeTypeOK, GatewayTypeOK, Calls
<1>1. call = Idle => ~AtWork /\ call.stage = "idle"
  BY CallFacts
<1>2. CASE \E r \in Request : Turned(r)
  <2>1. PICK r \in Request : Turned(r)
    BY <1>2
  <2>2. /\ call = Idle /\ attempt[r] = "none"
        /\ UNCHANGED <<manifest, prior, attempt, held, call, log, disk>>
    BY <2>1 DEF Turned, LoopIsFree, AttemptSound
  <2>3. chain' = chain
    BY <1>1, <2>1, <2>2 DEF Turned, LogWhole, LogSound, InStep
  <2>4. Owing' = Owing
    BY <2>2 DEF Owing, HasAction, Actions
  <2>5. ~AtWork' /\ (call'.stage = "idle")
    BY <1>1, <2>2 DEF AtWork
  <2>6. \A s \in Request : Handed(s)' => Handed(s) /\ s # r
    BY <2>2 DEF Handed
  <2>7. \A s \in Request : s # r => asked'[s] = asked[s]
    BY <1>0, <2>1 DEF Turned
  <2> QED BY <1>0, <1>1, <2>2, <2>3, <2>4, <2>5, <2>6, <2>7, WholeKept DEF LogWhole
<1>3. CASE \E r \in Request : Prepared(r)
  <2>0. PICK r \in Request, c \in Calls, k \in Kind, f \in Decision : PreparedAs(r, c, k, f)
    BY <1>3 DEF Prepared
  <2>1. /\ call = Idle /\ attempt[r] = "none" /\ asked' = [asked EXCEPT ![r] = c]
        /\ call' = Line(f, r)
        /\ UNCHANGED <<manifest, prior, attempt, held, log, disk>>
    BY <2>0 DEF PreparedAs, LoopIsFree
  <2>2. f \in Frame /\ f.kind = "decision"
    BY DEF Frame, Decision
  <2>3. call'.stage = "line" /\ call'.frame = f /\ AtWork' /\ call' # Idle
    BY <2>1, <2>2, LineType DEF AtWork
  <2>4. Owing' = Owing
    BY <2>1 DEF Owing, HasAction, Actions
  <2>5. \A s \in Request : Handed(s)' => Handed(s) /\ s # r
    BY <2>1 DEF Handed
  <2>6. \A s \in Request : s # r => asked'[s] = asked[s]
    BY <1>0, <2>1
  <2> QED BY <1>0, <1>1, <2>1, <2>2, <2>3, <2>4, <2>5, <2>6, WholeKept
<1>4. CASE \E r \in Request : CallProvider(r)
  <2>1. PICK r \in Request :
          /\ call = Idle /\ attempt[r] = "open" /\ attempt' = [attempt EXCEPT ![r] = "dispatched"]
          /\ UNCHANGED <<manifest, chain, prior, held, log, disk, asked, call>>
    BY <1>4 DEF CallProvider, MarkDispatched
  <2>2. Owing' = Owing
    BY <1>4, OwingStays DEF CallProvider, MarkDispatched, WriteLine, AdmitAttempt, Idle
  <2>3. \A s \in Request : Handed(s)' => Handed(s)
    BY <1>0, <2>1 DEF Handed
  <2>4. ~AtWork'
    BY <1>1, <2>1 DEF AtWork
  <2> QED BY <1>0, <1>1, <2>1, <2>2, <2>3, <2>4, WholeKept DEF LogWhole
<1>5. CASE \E r \in Request, x \in Exchange : Answered(r, x)
  <2>1. PICK r \in Request, x \in Exchange : Answered(r, x)
    BY <1>5
  <2> DEFINE e == EndingOf(asked[r], x)
  <2>2. /\ call = Idle /\ attempt[r] = "dispatched"
        /\ UNCHANGED <<manifest, prior, held, log, disk, asked>>
    BY <2>1 DEF Answered, LoopIsFree
  <2>3. Owing' = Owing
    BY <1>1, <2>2, OwingStays DEF WriteLine, AdmitAttempt
  <2>4. CASE ~Accepted(e) /\ UNCHANGED <<call, chain, attempt>>
    <3>1. \A s \in Request : Handed(s)' => Handed(s)
      BY <2>4 DEF Handed
    <3>2. ~AtWork'
      BY <1>1, <2>2, <2>4 DEF AtWork
    <3> QED BY <1>0, <1>1, <2>2, <2>3, <2>4, <3>1, <3>2, WholeKept DEF LogWhole
  <2>5. CASE Accepted(e) /\ attempt' = [attempt EXCEPT ![r] = "closed"]
    <3>1. PICK i \in Decisions : /\ log[i].occurrence = held[r] /\ log[i].policy = "allowed"
                                 /\ call' = Line(ActionOf(log[i], e), r)
      BY <2>1, <2>5, AnswerGoes
    <3> DEFINE f == ActionOf(log[i], e)
    <3>2. e \in Ending /\ e.outcome \notin Censored
      BY <2>5, AcceptedEnding
    <3> HIDE DEF e
    <3>3. /\ f \in Frame /\ f.kind = "action" /\ f.ending = e
          /\ f.requested = log[i].requested /\ f.occurrence = log[i].occurrence
          /\ f.retryOf = log[i].retryOf /\ f.policy = log[i].policy
      BY <3>2, ActionFacts
    <3>4. Matches(log[i], f)
      BY <3>1, <3>2, <3>3 DEF Matches
    <3>5. call'.stage = "line" /\ call'.frame = f /\ AtWork' /\ call' # Idle
      BY <3>1, <3>3, LineType DEF AtWork
    <3>6. \A s \in Request : Handed(s)' => Handed(s)
      BY <1>0, <2>2, <2>5 DEF Handed
    <3> HIDE DEF f
    <3> QED BY <1>0, <1>1, <2>2, <2>3, <3>4, <3>5, <3>6, WholeKept
  <2> QED BY <2>1, <2>4, <2>5, AnswerGoes
<1>6. CASE WriteLine /\ UNCHANGED runtimeVars
  <2> DEFINE f == call.frame
             n == Len(log) + 1
             q == call.request
  <2>1. /\ AtWork /\ call.stage = "line" /\ f \in Frame /\ q \in Request
        /\ Len(log') = n /\ log'[n] = f /\ \A i \in 1 .. Len(log) : log'[i] = log[i]
        /\ f.kind = "decision" => Decisions' = Decisions \cup {n} /\ Actions' = Actions
        /\ f.kind = "action" => Decisions' = Decisions /\ Actions' = Actions \cup {n}
        /\ call'.stage = "manifest" /\ call'.frame = f /\ AtWork'
        /\ call' = [stage |-> "manifest", frame |-> f, request |-> q]
        /\ UNCHANGED <<prior, attempt, held, torn>>
    BY <1>6, LineMeans
  <2>2. UNCHANGED asked /\ call' # Idle
    BY <1>6, <2>1 DEF runtimeVars, Idle
  <2>3. /\ f.kind \in {"decision", "action"} /\ Len(log) \in Nat
        /\ Decisions \subseteq 1 .. Len(log) /\ Actions \subseteq 1 .. Len(log)
    BY <2>1, FrameFacts, LogFacts
  <2>4. \A i \in Decisions : log[i].occurrence \in prior
    BY <2>1 DEF LogWhole
  <2>5. f.kind = "decision" => f.occurrence \notin prior
    BY <2>1 DEF CallSound
  <2>6. \/ Owing' = Owing
        \/ /\ Owing' = Owing \ {q} /\ held[q] = f.occurrence
    <3>1. CASE Ended(f)
      <4>1. held[q] = f.occurrence
        BY <2>1, <3>1 DEF CallSound, Ended
      <4> QED BY <1>6, <3>1, <4>1, EndWritten
    <3>2. CASE ~Ended(f)
      BY <1>6, <3>2, OtherWritten
    <3> QED BY <3>1, <3>2
  <2>7. f.kind = "action" => \E i \in Decisions : Matches(log[i], f)
    BY <2>1 DEF LogWhole
  <2> HIDE DEF f, n, q
  <2>8. /\ \A i \in Decisions : i \in Decisions' /\ log'[i] = log[i]
        /\ \A i \in Actions : i \in Actions' /\ log'[i] = log[i]
        /\ \A i \in Decisions' : \/ i \in Decisions
                                 \/ f.kind = "decision" /\ i = n
        /\ \A i \in Actions' : \/ i \in Actions
                               \/ f.kind = "action" /\ i = n
    BY <2>1, <2>3
  <2>9. \A i, j \in Decisions' : log'[i].occurrence = log'[j].occurrence => i = j
    BY <2>1, <2>4, <2>5, <2>8 DEF LogWhole
  <2>10. \A i \in Decisions' :
          \/ log'[i].occurrence \in prior'
          \/ call'.stage = "manifest" /\ call'.frame.kind = "decision" /\ i = Len(log')
    BY <2>1, <2>4, <2>8
  <2>11. \A j \in Actions' : \E i \in Decisions' : Matches(log'[i], log'[j])
    <3>1. SUFFICES ASSUME NEW j \in Actions' PROVE \E i \in Decisions' : Matches(log'[i], log'[j])
      OBVIOUS
    <3>2. CASE j \in Actions
      <4>1. PICK i \in Decisions : Matches(log[i], log[j])
        BY <3>2 DEF LogWhole
      <4> QED BY <2>8, <3>2, <4>1
    <3>3. CASE f.kind = "action" /\ j = n
      <4>1. PICK i \in Decisions : Matches(log[i], f)
        BY <2>7, <3>3
      <4> QED BY <2>1, <2>8, <3>3, <4>1
    <3> QED BY <2>8, <3>2, <3>3
  <2>12. f.kind = "action" => \E i \in Decisions' : Matches(log'[i], f)
    <3>1. SUFFICES ASSUME f.kind = "action" PROVE \E i \in Decisions' : Matches(log'[i], f)
      OBVIOUS
    <3>2. PICK i \in Decisions : Matches(log[i], f)
      BY <2>7, <3>1
    <3> QED BY <2>8, <3>2
  <2>13. \A s \in Request, i \in Decisions' :
           Handed(s)' /\ log'[i].occurrence = held'[s] =>
             log'[i].requested = RequestedModel(asked'[s]) /\ log'[i].policy = "allowed"
    <3>1. \A s \in Request : Handed(s)' => Handed(s) /\ held[s] \in prior
      BY <2>1 DEF Handed, AttemptSound
    <3> QED BY <2>1, <2>2, <2>5, <2>8, <3>1 DEF LogWhole
  <2>14. \A i \in Decisions' :
           \/ \E j \in Actions' : i < j /\ log'[i].occurrence = log'[j].occurrence
           \/ \E s \in Owing' : held'[s] = log'[i].occurrence
           \/ f.occurrence = log'[i].occurrence
    <3>1. SUFFICES ASSUME NEW i \in Decisions', f.occurrence # log'[i].occurrence
                   PROVE  \/ \E j \in Actions' : i < j /\ log'[i].occurrence = log'[j].occurrence
                          \/ \E s \in Owing' : held'[s] = log'[i].occurrence
      OBVIOUS
    <3>2. i \in Decisions /\ log'[i] = log[i]
      BY <2>1, <2>8, <3>1
    <3>3. CASE \E j \in Actions : i < j /\ log[i].occurrence = log[j].occurrence
      BY <2>8, <3>2, <3>3
    <3>4. CASE \E s \in Owing : held[s] = log[i].occurrence
      BY <2>1, <2>6, <3>1, <3>2, <3>4
    <3> QED BY <3>1, <3>2, <3>3, <3>4 DEF LogWhole, f
  <2>15. ~torn'
    BY <1>0 DEF LogWhole
  <2> QED BY <2>1, <2>2, <2>9, <2>10, <2>11, <2>12, <2>13, <2>14, <2>15 DEF LogWhole, Matches
<1>7. CASE AdmitAttempt /\ UNCHANGED runtimeVars
  <2> DEFINE f == call.frame
             q == call.request
             n == Len(log)
  <2>1. /\ AtWork /\ call.stage = "manifest" /\ f.kind = "decision" /\ q \in Request
        /\ attempt[q] = "none" /\ f.occurrence \notin prior
        /\ prior' = prior \cup {f.occurrence} /\ log' = log
        /\ n \in Decisions /\ log[n] = f /\ f.requested = RequestedModel(asked[q])
    BY <1>7, DecisionWritten
  <2>2. /\ f.policy = "allowed" /\ call' = Idle /\ disk' = manifest
        /\ UNCHANGED <<chain, manifest>>
    BY <1>7 DEF AdmitAttempt
  <2>3. /\ Owing' = Owing \cup {q} /\ held'[q] = f.occurrence /\ attempt'[q] = "open"
        /\ \A s \in Request \ {q} : attempt'[s] = attempt[s] /\ held'[s] = held[s]
    BY <1>7, AttemptAdmitted
  <2>4. chain = Len(log) /\ UNCHANGED asked
    BY <1>7, <2>1 DEF CallSound, runtimeVars
  <2> HIDE DEF f, q, n
  <2>5. Actions' = Actions /\ Decisions' = Decisions
    BY <2>1, SameLog
  <2>6. \A i \in Decisions : log[i].occurrence \in prior'
    <3>1. \A i \in Decisions : log[i].occurrence \in prior \/ i = n
      BY DEF LogWhole, n
    <3> QED BY <2>1, <3>1
  <2>7. ASSUME NEW s \in Request, NEW i \in Decisions, Handed(s)', log[i].occurrence = held'[s]
        PROVE  log[i].requested = RequestedModel(asked[s]) /\ log[i].policy = "allowed"
    <3>1. CASE s = q
      <4>1. i = n
        BY <2>1, <2>3, <2>7, <3>1 DEF LogWhole
      <4> QED BY <2>1, <2>2, <3>1, <4>1
    <3>2. CASE s # q
      <4>1. Handed(s) /\ held'[s] = held[s]
        BY <2>3, <2>7, <3>2 DEF Handed
      <4> QED BY <2>7, <4>1 DEF LogWhole
    <3> QED BY <3>1, <3>2
  <2>8. ASSUME NEW i \in Decisions
        PROVE  \/ \E j \in Actions : i < j /\ log[i].occurrence = log[j].occurrence
               \/ \E s \in Owing' : held'[s] = log[i].occurrence
    <3>1. CASE \E s \in Owing : held[s] = log[i].occurrence
      <4>1. PICK s \in Owing : held[s] = log[i].occurrence
        BY <3>1
      <4>2. s \in Request /\ s # q
        BY <2>1 DEF Owing
      <4> QED BY <2>3, <4>1, <4>2
    <3>2. CASE AtWork /\ call.frame.occurrence = log[i].occurrence
      BY <2>3, <3>2 DEF f
    <3> QED BY <3>1, <3>2 DEF LogWhole
  <2>9. ~AtWork'
    BY <2>2 DEF AtWork, Idle
  <2> QED BY <1>0, <2>1, <2>2, <2>4, <2>5, <2>6, <2>7, <2>8, <2>9 DEF LogWhole
<1>8. CASE CensorAttempt /\ UNCHANGED runtimeVars
  <2> DEFINE d == call.frame
             f == ActionOf(d, Censoring(CensorOutcome[d.policy]))
             q == call.request
             n == Len(log)
  <2>1. /\ call.stage = "manifest" /\ d.policy # "allowed"
        /\ f \in Frame /\ f.kind = "action" /\ f.occurrence = d.occurrence /\ q \in Request
        /\ call' = Line(f, q) /\ prior' = prior \cup {d.occurrence}
        /\ UNCHANGED <<manifest, attempt, held, log>>
    BY <1>8, CensorMeans
  <2>2. n \in Decisions /\ log[n] = d /\ UNCHANGED asked
    BY <1>8, DecisionWritten DEF runtimeVars
  <2>3. call'.stage = "line" /\ call'.frame = f /\ AtWork' /\ call' # Idle
    BY <2>1, LineType DEF AtWork
  <2>4. Matches(d, f)
    BY <2>1 DEF Matches, ActionOf, Censoring
  <2>5. Owing' = Owing
    BY <2>1 DEF Owing, HasAction, Actions
  <2>6. \A s \in Request : Handed(s)' => Handed(s)
    BY <2>1 DEF Handed
  <2>7. log[n].occurrence \in prior'
    BY <2>1, <2>2
  <2> HIDE DEF f, q
  <2>8. \E i \in Decisions : Matches(log[i], f)
    BY <2>2, <2>4
  <2>9. \A i \in Decisions : AtWork /\ d.occurrence = log[i].occurrence =>
          AtWork' /\ call'.frame.occurrence = log[i].occurrence
    BY <2>1, <2>3
  <2>10. \A r \in Owing : held'[r] = held[r]
    BY <2>1
  <2> QED BY <1>0, <2>1, <2>2, <2>3, <2>5, <2>6, <2>7, <2>8, <2>9, <2>10, WholeKept
<1>9. CASE CountAttempt /\ UNCHANGED runtimeVars
  <2>1. call = [stage |-> call.stage, frame |-> call.frame, request |-> call.request]
    BY <1>9, CallFacts DEF CountAttempt, AtWork
  <2>2. /\ call.stage = "manifest" /\ call.frame.kind = "action" /\ AtWork
        /\ call'.stage = "count" /\ call'.frame = call.frame /\ AtWork' /\ call' # Idle
        /\ UNCHANGED <<prior, attempt, held, log>>
    BY <1>9, <2>1 DEF CountAttempt, AtWork, Idle
  <2>3. UNCHANGED asked
    BY <1>9 DEF runtimeVars
  <2>4. Owing' = Owing
    BY <2>2 DEF Owing, HasAction, Actions
  <2>5. \A s \in Request : Handed(s)' => Handed(s)
    BY <2>2 DEF Handed
  <2>6. \E i \in Decisions : Matches(log[i], call.frame)
    BY <2>2 DEF LogWhole
  <2> QED BY <1>0, <2>2, <2>3, <2>4, <2>5, <2>6, WholeKept
<1>10. CASE Return
  <2> DEFINE q == call.request
  <2>1. /\ call.stage = "count" /\ AtWork /\ q \in Request /\ call.frame.kind = "action"
    BY <1>10, ReturnMeans
  <2>2. /\ call' = Idle /\ disk' = manifest /\ UNCHANGED <<manifest, chain, prior, log, asked>>
    BY <1>10 DEF Return, WriteCount
  <2>3. Owing' = Owing
    BY <2>1, OwingStays DEF WriteLine, AdmitAttempt
  <2>4. log # <<>> /\ log[Len(log)] = call.frame /\ chain = Len(log)
    BY <2>1 DEF CallSound
  <2>5. \A s \in Request : Handed(s) => held'[s] = held[s] /\ attempt'[s] = attempt[s]
    <3>1. ~Ended(call.frame) => attempt[q] = "none"
      BY <2>1 DEF CallSound
    <3> QED BY <1>0, <1>10, <2>1, <3>1 DEF Return, WriteCount, Ended, Handed
  <2>6. \A s \in Request : Handed(s)' => Handed(s)
    BY <1>0, <1>10, <2>1 DEF Return, WriteCount, Handed
  <2>7. Len(log) \in Actions /\ \A i \in Decisions : i < Len(log)
    <3>1. Len(log) \in 1 .. Len(log) /\ Decisions \subseteq 1 .. Len(log) /\ Len(log) \in Nat
      BY <2>4, LogFacts
    <3>2. Len(log) \notin Decisions /\ Len(log) \in Actions
      BY <2>1, <2>4, <3>1 DEF Decisions, Actions
    <3> QED BY <3>1, <3>2
  <2>8. ~AtWork'
    BY <2>2 DEF AtWork, Idle
  <2>9. \A s \in Owing : Handed(s) /\ s \in Request
    BY DEF Owing, Handed
  <2>10. \A i \in Decisions : call.frame.occurrence = log[i].occurrence =>
           \E j \in Actions : i < j /\ log[i].occurrence = log[j].occurrence
    BY <2>4, <2>7
  <2> QED BY <1>0, <2>1, <2>2, <2>3, <2>4, <2>5, <2>6, <2>8, <2>9, <2>10, WholeKept
<1>11. CASE UNCHANGED <<manifest, chain, prior, attempt, held, call, log, disk, asked>>
  <2>1. Owing' = Owing
    BY <1>11 DEF Owing, HasAction, Actions
  <2>2. \A s \in Request : Handed(s)' => Handed(s)
    BY <1>11 DEF Handed
  <2>3. AtWork' <=> AtWork
    BY <1>11 DEF AtWork
  <2> QED BY <1>0, <1>11, <2>1, <2>2, <2>3, WholeKept DEF LogWhole
<1>12. CASE Seal /\ Finalize
  <2>1. /\ call = Idle /\ call' # Idle /\ call'.stage = "final" /\ ~AtWork'
        /\ UNCHANGED <<chain, prior, attempt, held, log, asked>>
    BY <1>12 DEF Seal, Finalize, Idle, AtWork
  <2>2. Owing' = Owing
    BY <2>1 DEF Owing, HasAction, Actions
  <2>3. \A s \in Request : Handed(s)' => Handed(s)
    BY <2>1 DEF Handed
  <2> QED BY <1>0, <1>1, <2>1, <2>2, <2>3, WholeKept DEF LogWhole
<1>13. CASE Sealed
  <2>1. /\ call.stage = "final" /\ call' = Idle /\ disk' = manifest /\ ~AtWork /\ ~AtWork'
        /\ UNCHANGED <<manifest, chain, prior, attempt, held, log, asked>>
    BY <1>13 DEF Sealed, WriteFinal, Idle, AtWork
  <2>2. Owing' = Owing
    BY <2>1 DEF Owing, HasAction, Actions
  <2>3. \A s \in Request : Handed(s)' => Handed(s)
    BY <2>1 DEF Handed
  <2> QED BY <1>0, <2>1, <2>2, <2>3, WholeKept DEF LogWhole
<1>14. CASE \/ \E r \in Request : HangUp(r)
            \/ \E how \in {"completed", "failed"} : ChildExits(how)
            \/ (Seal /\ ~Finalize) \/ WriteReceipt \/ UNCHANGED vars
  BY <1>11, <1>14 DEF HangUp, ChildExits, Seal, WriteReceipt, vars, gatewayVars, runtimeVars
<1> QED BY <1>0, <1>2, <1>3, <1>4, <1>5, <1>6, <1>7, <1>8, <1>9, <1>10, <1>12, <1>13, <1>14, Steps

LEMMA CountsKept ==
  ASSUME CountsWhole, log' = log, Owing' = Owing, Pending' = Pending,
         manifest'.attempts = manifest.attempts, counters'.accepted = counters.accepted,
         call'.stage = "manifest" /\ call'.frame.kind = "action" <=>
           call.stage = "manifest" /\ call.frame.kind = "action",
         call'.stage = "count" <=> call.stage = "count"
  PROVE  CountsWhole'
<1>1. Recorded' = Recorded /\ Len(log') = Len(log)
  BY SameLog DEF Recorded
<1>2. Cardinality(Recorded)' = Cardinality(Recorded) /\ Cardinality(Owing)' = Cardinality(Owing)
  BY <1>1
<1> QED BY <1>1, <1>2 DEF CountsWhole

LEMMA CountsStep ==
  ASSUME RuntimeTypeOK, RuntimeTypeOK', CallSound, LogSound, AttemptSound, OpenSound, ReplySound,
         LogWhole, CountsWhole, [Next]_vars, faults' = 0
  PROVE  CountsWhole'
<1>0. /\ ~Fail /\ manifest.attempts \in Nat /\ counters.accepted \in Nat
      /\ Len(log) \in Nat /\ Cardinality(Owing) \in Nat /\ IsFiniteSet(Owing)
      /\ manifest \in Manifest
      /\ IsFiniteSet(Recorded) /\ Cardinality(Recorded) \in Nat
  BY NoFault, OwingFacts, LogFacts, FS_CardinalityType
     DEF RuntimeTypeOK, GatewayTypeOK, Manifest, Counters, CountsWhole
<1>1. call.stage \in {"idle", "final"} => Pending = 0
  BY DEF Pending
<1>2. CASE /\ call.stage \in {"idle", "final"} /\ call'.stage \in {"idle", "final"}
           /\ log' = log /\ Owing' = Owing /\ manifest'.attempts = manifest.attempts
           /\ counters'.accepted = counters.accepted
  <2>1. Pending' = 0
    BY <1>2 DEF Pending
  <2> QED BY <1>1, <1>2, <2>1, CountsKept
<1>3. CASE \E r \in Request : Turned(r)
  <2>1. PICK r \in Request : Turned(r)
    BY <1>3
  <2>2. /\ call = Idle /\ UNCHANGED <<manifest, attempt, held, call, log>>
    BY <2>1 DEF Turned, LoopIsFree
  <2>3. Owing' = Owing
    BY <2>2 DEF Owing, HasAction, Actions
  <2>4. counters'.accepted = counters.accepted
    BY <2>1, TurnedMeans
  <2> QED BY <1>2, <2>2, <2>3, <2>4 DEF Idle
<1>4. CASE \E r \in Request : Prepared(r)
  <2>0. PICK r \in Request, c \in Calls, k \in Kind, f \in Decision : PreparedAs(r, c, k, f)
    BY <1>4 DEF Prepared
  <2>1. /\ call = Idle /\ call' = Line(f, r) /\ UNCHANGED <<manifest, attempt, held, log, counters>>
    BY <2>0 DEF PreparedAs, LoopIsFree
  <2>2. f \in Frame /\ f.kind = "decision"
    BY DEF Frame, Decision
  <2>3. call'.stage = "line" /\ call'.frame = f
    BY <2>1, <2>2, LineType
  <2>4. Owing' = Owing
    BY <2>1 DEF Owing, HasAction, Actions
  <2>5. Pending' = 0 /\ call.stage = "idle"
    BY <2>1, <2>2, <2>3 DEF Pending, Idle
  <2> QED BY <1>1, <2>1, <2>2, <2>3, <2>4, <2>5, CountsKept
<1>5. CASE \E r \in Request : CallProvider(r)
  <2>1. call = Idle /\ UNCHANGED <<manifest, log, call, counters>>
    BY <1>5 DEF CallProvider, MarkDispatched
  <2>2. Owing' = Owing
    BY <2>1, OwingStays DEF WriteLine, AdmitAttempt, Idle
  <2> QED BY <1>2, <2>1, <2>2 DEF Idle
<1>6. CASE \E r \in Request, x \in Exchange : Answered(r, x)
  <2>1. PICK r \in Request, x \in Exchange : Answered(r, x)
    BY <1>6
  <2> DEFINE e == EndingOf(asked[r], x)
  <2>2. call = Idle /\ call.stage = "idle" /\ UNCHANGED <<manifest, log>>
    BY <2>1 DEF Answered, LoopIsFree, Idle
  <2>3. Owing' = Owing
    BY <2>2, OwingStays DEF WriteLine, AdmitAttempt
  <2>4. CASE ~Accepted(e) /\ UNCHANGED call /\ Refuse(r)
    BY <1>2, <2>2, <2>3, <2>4, RefuseMeans
  <2>5. CASE /\ Accepted(e) /\ UNCHANGED counters
             /\ \E i \in Decisions : call' = Line(ActionOf(log[i], e), r)
    <3>1. PICK i \in Decisions : call' = Line(ActionOf(log[i], e), r)
      BY <2>5
    <3> DEFINE f == ActionOf(log[i], e)
    <3>2. e \in Ending /\ e.outcome \notin Censored
      BY <2>5, AcceptedEnding
    <3> HIDE DEF e
    <3>3. f \in Frame /\ f.kind = "action" /\ f.ending = e
      BY <3>2, ActionFacts
    <3>4. call'.stage = "line" /\ call'.frame = f
      BY <3>1, <3>3, LineType
    <3> HIDE DEF f
    <3>5. Pending' = 0
      BY <3>2, <3>3, <3>4 DEF Pending, Ended
    <3> QED BY <1>1, <2>2, <2>3, <2>5, <3>4, <3>5, CountsKept
  <2> QED BY <2>1, <2>4, <2>5, AnswerGoes
<1>7. CASE WriteLine /\ UNCHANGED runtimeVars
  <2> DEFINE f == call.frame
             n == Len(log) + 1
             q == call.request
  <2>1. /\ AtWork /\ call.stage = "line" /\ f \in Frame
        /\ Len(log') = n /\ log'[n] = f /\ \A i \in 1 .. Len(log) : log'[i] = log[i]
        /\ f.kind = "decision" => Decisions' = Decisions \cup {n} /\ Actions' = Actions
        /\ f.kind = "action" => Decisions' = Decisions /\ Actions' = Actions \cup {n}
        /\ manifest'.attempts = manifest.attempts
        /\ call'.stage = "manifest" /\ call'.frame = f
    BY <1>7, LineMeans
  <2>2. f.kind \in {"decision", "action"} /\ Actions \subseteq 1 .. Len(log)
    BY <2>1, FrameFacts, LogFacts
  <2>3. Pending = IF f.kind = "action" /\ ~Ended(f) THEN 1 ELSE 0
    BY <2>1 DEF Pending
  <2>4. Pending' = IF f.kind = "decision" THEN 1 ELSE 2
    BY <2>1 DEF Pending
  <2>5. Cardinality(Owing)' = IF Ended(f) THEN Cardinality(Owing) - 1 ELSE Cardinality(Owing)
    <3>1. CASE Ended(f)
      <4>1. q \in Owing /\ Owing' = Owing \ {q}
        BY <1>7, <3>1, EndWritten
      <4>2. Cardinality(Owing') = Cardinality(Owing) - 1
        BY <1>0, <4>1, FS_RemoveElement
      <4> QED BY <3>1, <4>2
    <3>2. CASE ~Ended(f)
      BY <1>7, <3>2, OtherWritten
    <3> QED BY <3>1, <3>2
  <2>6. f.kind = "action" => ~HasAction(f.occurrence)
    BY <2>1 DEF CallSound
  <2>7. Ended(f) => f.kind = "action"
    BY DEF Ended
  <2>8. counters'.accepted = counters.accepted
    BY <1>7 DEF runtimeVars
  <2> HIDE DEF f, n, q
  <2>9. Len(log') = 2 * manifest'.attempts + Cardinality(Owing)' + Pending'
    BY <1>0, <2>1, <2>2, <2>3, <2>4, <2>5, <2>7 DEF CountsWhole, n
  <2>10. /\ IsFiniteSet(Recorded')
         /\ Cardinality(Recorded') = Cardinality(Recorded) + IF f.kind = "action" THEN 1 ELSE 0
    <3>1. CASE f.kind = "action"
      <4>1. Recorded' = Recorded \cup {f.occurrence}
        BY <2>1, <2>2, <3>1 DEF Recorded
      <4>2. f.occurrence \notin Recorded
        BY <2>6, <3>1 DEF Recorded, HasAction
      <4> QED BY <1>0, <3>1, <4>1, <4>2, FS_AddElement
    <3>2. CASE f.kind = "decision"
      <4>1. Recorded' = Recorded
        BY <2>1, <2>2, <3>2 DEF Recorded
      <4> QED BY <1>0, <3>2, <4>1
    <3> QED BY <2>2, <3>1, <3>2
  <2>11. Cardinality(Recorded) = manifest.attempts /\ manifest.attempts = counters.accepted
    BY <1>0, <2>1 DEF CountsWhole
  <2> QED BY <1>0, <2>1, <2>8, <2>9, <2>10, <2>11 DEF CountsWhole
<1>8. CASE AdmitAttempt /\ UNCHANGED runtimeVars
  <2>1. call.request \notin Owing /\ Owing' = Owing \cup {call.request}
    BY <1>8, AttemptAdmitted
  <2>2. Cardinality(Owing') = Cardinality(Owing) + 1
    BY <1>0, <2>1, FS_AddElement
  <2>3. Cardinality(Owing)' = Cardinality(Owing) + 1
    BY <2>2
  <2>4. /\ call.stage = "manifest" /\ call.frame.kind = "decision" /\ call'.stage = "idle"
        /\ UNCHANGED <<manifest, log, counters>>
    BY <1>8 DEF AdmitAttempt, Idle, runtimeVars
  <2>5. Pending = 1 /\ Pending' = 0
    BY <2>4 DEF Pending
  <2>6. Recorded' = Recorded
    BY <2>4, SameLog DEF Recorded
  <2>7. Len(log) = 2 * manifest.attempts + Cardinality(Owing) + 1
    BY <2>5 DEF CountsWhole
  <2>8. /\ Cardinality(Recorded) = manifest.attempts /\ manifest.attempts = counters.accepted
    BY <1>0, <2>4 DEF CountsWhole
  <2>9. Len(log') = 2 * manifest'.attempts + Cardinality(Owing)' + Pending'
    <3>1. Len(log') = Len(log) /\ manifest'.attempts = manifest.attempts
      BY <2>4
    <3> QED BY <1>0, <2>3, <2>5, <2>7, <3>1
  <2> QED BY <1>0, <2>4, <2>6, <2>8, <2>9 DEF CountsWhole
<1>9. CASE CensorAttempt /\ UNCHANGED runtimeVars
  <2> DEFINE f == ActionOf(call.frame, Censoring(CensorOutcome[call.frame.policy]))
  <2>1. /\ call.stage = "manifest" /\ call.frame \in Decision /\ f \in Frame /\ f.kind = "action"
        /\ ~Ended(f) /\ call.request \in Request /\ call' = Line(f, call.request)
        /\ UNCHANGED <<manifest, attempt, held, log>>
    BY <1>9, CensorMeans
  <2>2. call.frame.kind = "decision" /\ UNCHANGED counters
    BY <1>9, <2>1 DEF Decision, runtimeVars
  <2>3. call'.stage = "line" /\ call'.frame = f
    BY <2>1, LineType
  <2> HIDE DEF f
  <2>4. Pending = 1 /\ Pending' = 1
    BY <2>1, <2>2, <2>3 DEF Pending, Ended
  <2>5. Owing' = Owing
    BY <2>1 DEF Owing, HasAction, Actions
  <2> QED BY <2>1, <2>2, <2>3, <2>4, <2>5, CountsKept
<1>10. CASE CountAttempt /\ UNCHANGED runtimeVars
  <2>1. call = [stage |-> call.stage, frame |-> call.frame, request |-> call.request]
    BY <1>10, CallFacts DEF CountAttempt, AtWork
  <2>2. /\ call.stage = "manifest" /\ call.frame.kind = "action" /\ call'.stage = "count"
        /\ UNCHANGED <<attempt, held, log>>
    BY <1>10, <2>1 DEF CountAttempt
  <2>3. manifest'.attempts = manifest.attempts + 1
    BY <1>0, <1>10 DEF CountAttempt, Manifest
  <2>4. Owing' = Owing /\ Recorded' = Recorded
    BY <2>2 DEF Owing, HasAction, Actions, Recorded
  <2>5. Pending = 2 /\ Pending' = 0 /\ UNCHANGED counters
    BY <1>10, <2>2 DEF Pending, runtimeVars
  <2> QED BY <1>0, <2>2, <2>3, <2>4, <2>5 DEF CountsWhole
<1>11. CASE Return
  <2>1. /\ call.stage = "count" /\ AtWork /\ counters'.accepted = counters.accepted + 1
    BY <1>11, ReturnMeans
  <2>2. call' = Idle /\ call'.stage = "idle" /\ UNCHANGED <<manifest, log>>
    BY <1>11 DEF Return, WriteCount, Idle
  <2>3. Owing' = Owing
    BY <2>1, OwingStays DEF WriteLine, AdmitAttempt
  <2>4. Pending = 0 /\ Pending' = 0
    BY <2>1, <2>2 DEF Pending
  <2>5. Recorded' = Recorded
    BY <2>2, SameLog DEF Recorded
  <2> QED BY <1>0, <2>1, <2>2, <2>3, <2>4, <2>5 DEF CountsWhole
<1>12. CASE UNCHANGED <<manifest, attempt, held, call, log, counters>>
  <2>1. Owing' = Owing
    BY <1>12 DEF Owing, HasAction, Actions
  <2>2. Pending' = Pending
    BY <1>12 DEF Pending, Ended
  <2> QED BY <1>12, <2>1, <2>2, CountsKept
<1>13. CASE Seal /\ Finalize
  <2>1. /\ call.stage = "idle" /\ call'.stage = "final" /\ UNCHANGED <<attempt, held, log, counters>>
    BY <1>13 DEF Seal, Finalize, Idle
  <2>2. manifest'.attempts = manifest.attempts
    BY <1>0, <1>13 DEF Finalize, Manifest
  <2>3. Owing' = Owing
    BY <2>1 DEF Owing, HasAction, Actions
  <2> QED BY <1>2, <2>1, <2>2, <2>3
<1>14. CASE Sealed
  <2>1. /\ call.stage = "final" /\ call'.stage = "idle"
        /\ UNCHANGED <<manifest, attempt, held, log, counters>>
    BY <1>14 DEF Sealed, WriteFinal, Idle
  <2>2. Owing' = Owing
    BY <2>1 DEF Owing, HasAction, Actions
  <2> QED BY <1>2, <2>1, <2>2
<1>15. CASE \/ \E r \in Request : HangUp(r)
            \/ \E how \in {"completed", "failed"} : ChildExits(how)
            \/ (Seal /\ ~Finalize) \/ WriteReceipt \/ UNCHANGED vars
  BY <1>12, <1>15 DEF HangUp, ChildExits, Seal, WriteReceipt, vars, gatewayVars, runtimeVars
<1> QED BY <1>0, <1>3, <1>4, <1>5, <1>6, <1>7, <1>8, <1>9, <1>10, <1>11, <1>13, <1>14, <1>15, Steps

-----------------------------------------------------------------------------
(* Only what is not let through is refused *)

LEMMA RefusalsKept ==
  ASSUME RuntimeTypeOK, RuntimeTypeOK', CallSound, ReplySound, RefusalsWhole, [Next]_vars,
         \/ /\ counters'.malformed = counters.malformed
            /\ counters'.unauthorized = counters.unauthorized
         \/ \E r \in Request : handler'[r] = "done" /\ Bad(r)',
         \/ counters'.accepted >= 1
         \/ /\ counters'.accepted = counters.accepted
            /\ \A r \in Request : handler'[r] = "done" => handler[r] = "done" \/ Bad(r)'
  PROVE  RefusalsWhole'
<1>1. \A r \in Request : handler[r] = "done" => handler'[r] = "done" /\ (Bad(r)' <=> Bad(r))
  BY DoneStays DEF Bad
<1> HIDE DEF Bad
<1> QED BY <1>1 DEF RefusalsWhole

LEMMA RefusalsStep ==
  ASSUME RuntimeTypeOK, RuntimeTypeOK', CallSound, LogSound, AttemptSound, OpenSound, ReplySound,
         LogWhole, RefusalsWhole, [Next]_vars, faults' = 0
  PROVE  RefusalsWhole'
<1>0. /\ ~Fail /\ handler \in [Request -> Stages] /\ answer \in [Request -> Exchange \cup {None}]
      /\ counters.accepted \in Nat /\ None \notin {"response", "refusal", "invalid", "unauthorized"}
  BY NoFault, LogicalAssumption DEF RuntimeTypeOK, Counters, Stages
<1>1. CASE \E r \in Request : Turned(r)
  <2>1. PICK r \in Request : Turned(r)
    BY <1>1
  <2>2. answer[r] = None /\ answer' = answer /\ reply[r] = None
    BY <2>1 DEF Turned, AttemptSound, ReplySound
  <2>3. CASE handler' = [handler EXCEPT ![r] = "reading"] /\ UNCHANGED <<reply, counters>>
    BY <1>0, <2>3, RefusalsKept
  <2>4. CASE /\ handler' = [handler EXCEPT ![r] = "done"]
             /\ counters'.accepted = counters.accepted
             /\ reply'[r] \in {None, "invalid", "unauthorized"}
    <3>1. Bad(r)'
      BY <1>0, <2>2, <2>4 DEF Bad
    <3> QED BY <1>0, <2>4, <3>1, RefusalsKept
  <2>5. \/ handler' = [handler EXCEPT ![r] = "reading"] /\ UNCHANGED <<reply, counters>>
        \/ /\ handler' = [handler EXCEPT ![r] = "done"]
           /\ counters'.accepted = counters.accepted
           /\ reply'[r] \in {None, "invalid", "unauthorized"}
    BY <2>1, <2>2, TurnedMeans
  <2> QED BY <2>3, <2>4, <2>5
<1>2. CASE \E r \in Request : Prepared(r) \/ CallProvider(r) \/ HangUp(r)
  <2>1. \A r \in Request : handler'[r] = "done" => handler[r] = "done"
    BY <1>0, <1>2 DEF Prepared, PreparedAs, CallProvider, HangUp
  <2>2. counters' = counters
    BY <1>2 DEF Prepared, PreparedAs, CallProvider, HangUp
  <2> QED BY <2>1, <2>2, RefusalsKept
<1>3. CASE \E r \in Request, x \in Exchange : Answered(r, x)
  <2>1. PICK r \in Request, x \in Exchange : Answered(r, x)
    BY <1>3
  <2> DEFINE e == EndingOf(asked[r], x)
  <2>2. CASE ~Accepted(e) /\ Refuse(r)
    <3>1. handler[r] = "upstream" /\ answer'[r] = x /\ asked'[r] = asked[r]
      BY <1>0, <2>1 DEF Answered
    <3>2. reply[r] = None
      BY <3>1 DEF ReplySound
    <3>3. /\ handler' = [handler EXCEPT ![r] = "done"] /\ counters'.accepted = counters.accepted
          /\ reply'[r] \in {None, "invalid"}
      BY <2>2, <3>2, RefuseMeans
    <3>4. Outcome(asked'[r], answer'[r]) = "throws"
      BY <2>2, <3>1 DEF Outcome
    <3>5. Bad(r)'
      BY <1>0, <3>3, <3>4 DEF Bad
    <3> QED BY <1>0, <3>3, <3>5, RefusalsKept
  <2>3. CASE handler' = [handler EXCEPT ![r] = "running"] /\ UNCHANGED counters
    BY <1>0, <2>3, RefusalsKept
  <2> QED BY <2>1, <2>2, <2>3, AnswerGoes
<1>4. CASE Return
  BY <1>0, <1>4, ReturnMeans, RefusalsKept
<1>5. CASE UNCHANGED <<handler, counters>>
  BY <1>5, RefusalsKept
<1>6. CASE \/ UNCHANGED runtimeVars \/ \E how \in {"completed", "failed"} : ChildExits(how)
           \/ Seal \/ Sealed \/ WriteReceipt \/ UNCHANGED vars
  BY <1>5, <1>6 DEF ChildExits, Seal, Sealed, WriteReceipt, vars, runtimeVars
<1> QED BY <1>0, <1>1, <1>2, <1>3, <1>4, <1>6, Steps

-----------------------------------------------------------------------------
(* The inductive invariant *)

LEMMA WholeStep ==
  ASSUME IInv, RuntimeTypeOK', [Next]_vars, faults' = 0
  PROVE  LogWhole' /\ CountsWhole' /\ RefusalsWhole'
<1>1. /\ RuntimeTypeOK /\ CallSound /\ LogSound /\ AttemptSound /\ OpenSound /\ ReplySound
      /\ faults = 0 => LogWhole /\ CountsWhole /\ RefusalsWhole
  BY DEF IInv
<1>2. faults = 0
  BY <1>1, NoFault
<1> QED BY <1>1, <1>2, LogWholeStep, CountsStep, RefusalsStep

LEMMA NextSound == IInv /\ [Next]_vars => IInv'
<1> SUFFICES ASSUME IInv, [Next]_vars PROVE IInv'
  OBVIOUS
<1>1. /\ RuntimeTypeOK /\ CallSound /\ LogSound /\ AttemptSound /\ OpenSound /\ ParentSound
      /\ ReplySound /\ ReceiptSound
  BY DEF IInv
<1>2. RuntimeTypeOK'
  BY <1>1, TypeStep
<1>3. CallSound' /\ LogSound' /\ AttemptSound'
  BY <1>1, <1>2, CallStep, LogStep, AttemptStep
<1>4. OpenSound' /\ ParentSound'
  BY <1>1, <1>2, OpenStep, ParentStep
<1>5. ReplySound' /\ ReceiptSound'
  BY <1>1, <1>2, ReplyStep, ReceiptStep
<1>6. faults' = 0 => LogWhole' /\ CountsWhole' /\ RefusalsWhole'
  BY <1>2, WholeStep
<1> QED BY <1>2, <1>3, <1>4, <1>5, <1>6 DEF IInv

\* IInv is an invariant: what is known of each attempt, of the open count, of the parent
\* and of the receipt, and, as long as no write failed, that the two frames of every
\* attempt are there or under way.
THEOREM RuntimeInvariance == Spec => []IInv
<1>1. Init => IInv
  BY InitSound
<1>2. IInv /\ [Next]_vars => IInv'
  BY NextSound
<1> QED BY <1>1, <1>2, PTL DEF Spec

\* Every variable of the runtime and of its recorder stays in its type: open never falls
\* below zero, and a native call's number is always a logical request id.
THEOREM RuntimeTypeCorrect == Spec => []RuntimeTypeOK
<1>1. IInv => RuntimeTypeOK
  BY DEF IInv
<1> QED BY <1>1, RuntimeInvariance, PTL

-----------------------------------------------------------------------------
(* What it tells *)

LEMMA ResponseSafe == IInv => ResponseIsRecorded
<1> SUFFICES ASSUME IInv, NEW r \in Request, reply[r] = "response"
             PROVE  /\ FromProvider(asked[r], answer[r])
                    /\ answer[r].model = RequestedModel(asked[r])
                    /\ RecordedAs(held[r], "success")
  BY DEF ResponseIsRecorded
<1>1. /\ answer[r] # None /\ EndingOf(asked[r], answer[r]).outcome = "success"
      /\ RecordedAs(held[r], "success")
  BY DEF IInv, ReplySound
<1>2. answer[r] \in Exchange
  BY <1>1 DEF IInv, RuntimeTypeOK
<1> QED BY <1>1, <1>2, SuccessMeans

\* What the child is given back came from the url its call was sent to, by the model it
\* asked for, and was recorded first as that model's success, whichever write fails.
THEOREM ResponsesAreRecorded == Spec => []ResponseIsRecorded
BY ResponseSafe, RuntimeInvariance, PTL

\* An attempt that reached the provider is in the log once no attempt is open.
LEMMA NothingOwed ==
  ASSUME IInv, open = 0
  PROVE  /\ Owing = {}
         /\ \A r \in Request : attempt[r] \in {"dispatched", "closed"} =>
              attempt[r] = "closed" /\ HasAction(held[r])
<1>1. Owing = {}
  BY OwingKeepsOpen DEF IInv
<1> QED BY <1>1 DEF Owing

LEMMA SealSafe == IInv => SealHidesNothing
<1> SUFFICES ASSUME IInv, disk.status = "finalized" PROVE SealHidesNothing
  BY DEF SealHidesNothing
<1>1. open = 0
  BY DEF IInv, ParentSound
<1> QED BY <1>1, NothingOwed DEF SealHidesNothing, HasAction

\* A sealed bundle hides no call that reached the provider: finalize is refused while an
\* attempt is open, and an attempt whose frame was lost is never counted as closed.
THEOREM SealsHideNothing == Spec => []SealHidesNothing
BY SealSafe, RuntimeInvariance, PTL

LEMMA AdmittedSafe == IInv => AdmittedIsComplete
<1> SUFFICES ASSUME IInv, Admitted, NEW r \in Request
             PROVE
      /\ attempt[r] \in {"dispatched", "closed"} =>
           /\ answer[r] # None /\ RecordedAs(held[r], Outcome(asked[r], answer[r]))
           /\ \E a \in RoutesOf(asked[r]), b \in Routes :
                b.key = <<a.provider, RequestedModel(asked[r])>> /\ held[r][2] <= b.attempts
      /\ reply[r] \in {None, "response", "refusal"}
  BY DEF AdmittedIsComplete
<1>1. receipt # None /\ receipt.counters.malformed = 0 /\ receipt.counters.unauthorized = 0
  BY DEF Admitted
<1>2. open = 0
  BY <1>1 DEF IInv, ReceiptSound, ParentSound
<1>3. reply[r] \in {None, "response", "refusal"}
  <2>1. reply[r] \in {None, "response", "refusal", "invalid", "unauthorized"}
    BY DEF IInv, RuntimeTypeOK
  <2>2. reply[r] # "invalid" /\ reply[r] # "unauthorized"
    BY <1>1 DEF IInv, ReceiptSound
  <2> QED BY <2>1, <2>2
<1>4. ASSUME attempt[r] \in {"dispatched", "closed"}
      PROVE  /\ answer[r] # None /\ RecordedAs(held[r], Outcome(asked[r], answer[r]))
             /\ Permitted(r, held[r][2])
  <2>1. attempt[r] = "closed" /\ HasAction(held[r])
    BY <1>2, <1>4, NothingOwed
  <2>2. PICK i \in Actions : log[i].occurrence = held[r]
    BY <2>1 DEF HasAction
  <2>3. /\ answer[r] # None /\ Accepted(EndingOf(asked[r], answer[r]))
        /\ log[i].ending = EndingOf(asked[r], answer[r]) /\ Permitted(r, held[r][2])
    BY <2>1, <2>2 DEF IInv, AttemptSound, Handed
  <2> QED BY <2>2, <2>3 DEF RecordedAs, Outcome
<1> QED BY <1>3, <1>4 DEF Permitted

\* An admitted run hides nothing: each call that reached the provider is in the bundle
\* with the outcome it had, under a route policy and configuration share, and every
\* caller that was answered was let through.
THEOREM AdmittedRunsAreComplete == Spec => []AdmittedIsComplete
BY AdmittedSafe, RuntimeInvariance, PTL

LEMMA GoodRunSafe == IInv => GoodRunIsAdmitted
<1> SUFFICES ASSUME IInv, receipt # None, exit = "completed", faults = 0,
                    NEW q \in Request, handler[q] # "unsent",
                    \A r \in Request :
                      handler[r] # "unsent" =>
                        /\ ~Substituted(r)
                        /\ \/ reply[r] \in {"response", "refusal"}
                           \/ answer[r] # None /\ Outcome(asked[r], answer[r]) # "throws",
                    log # <<>> => log[1].identified
             PROVE  Admitted
  BY DEF GoodRunIsAdmitted
<1>1. /\ RuntimeTypeOK /\ CallSound /\ LogSound /\ AttemptSound /\ OpenSound /\ ParentSound
      /\ ReplySound /\ ReceiptSound /\ LogWhole /\ CountsWhole /\ RefusalsWhole
  BY DEF IInv
<1>2. /\ parent = "returned" /\ receipt.exit = exit /\ receipt.frames = Len(log)
      /\ receipt.ok = GatewayVerifies
      /\ receipt.counters.accepted = counters.accepted
      /\ receipt.counters.explicit = counters.explicit
      /\ receipt.counters.native = counters.native
      /\ receipt.counters.unauthorized <= counters.unauthorized
      /\ receipt.counters.malformed <= counters.malformed
  BY <1>1 DEF ReceiptSound
<1>3. /\ call = Idle /\ open = 0 /\ \A r \in Request : handler[r] # "running"
      /\ manifest.status = "finalized" \/ manifest.attempts = 0
  BY <1>1, <1>2 DEF ParentSound
<1>4. Owing = {} /\ Cardinality(Owing) = 0 /\ ~AtWork /\ call.stage = "idle" /\ Pending = 0
  <2>1. Owing = {}
    BY <1>3, NothingOwed
  <2>2. ~AtWork /\ call.stage = "idle"
    BY <1>1, <1>3, CallFacts
  <2> QED BY <2>1, <2>2, FS_EmptySet DEF Pending
<1>5. /\ manifest \in Manifest /\ manifest.attempts \in Nat /\ Len(log) \in Nat
      /\ receipt \in Receipt /\ counters \in Counters
      /\ receipt.counters.unauthorized \in Nat /\ receipt.counters.malformed \in Nat
      /\ counters.unauthorized \in Nat /\ counters.malformed \in Nat
  BY <1>1, LogFacts DEF RuntimeTypeOK, GatewayTypeOK, Manifest, Receipt, Counters
<1>6. \A r \in Request : handler[r] # "unsent" => ~Bad(r)
  BY DEF Bad
<1>7. counters.malformed = 0 /\ counters.unauthorized = 0
  BY <1>1, <1>5, <1>6 DEF RefusalsWhole
<1>8. \A r \in Request : handler[r] # "unsent" => handler[r] = "done"
  BY <1>1, <1>3, LogicalAssumption DEF ReplySound, AttemptSound
<1>9. counters.accepted >= 1
  BY <1>1, <1>6, <1>8 DEF RefusalsWhole
<1>10. /\ Len(log) = 2 * manifest.attempts /\ manifest.attempts = counters.accepted
       /\ Cardinality(Recorded) = manifest.attempts
  <2>1. Len(log) = 2 * manifest.attempts + Cardinality(Owing) + Pending
    BY <1>1 DEF CountsWhole
  <2>2. Cardinality(Recorded) = manifest.attempts + 0 /\ manifest.attempts = counters.accepted + 0
    BY <1>1, <1>4 DEF CountsWhole
  <2>3. counters.accepted \in Nat
    BY <1>5 DEF Counters
  <2>4. Cardinality(Owing) = 0 /\ Pending = 0
    BY <1>4
  <2> QED BY <1>5, <2>1, <2>2, <2>3, <2>4
<1>11. /\ disk = manifest /\ ~torn /\ manifest.frames = Len(log)
       /\ disk.status = "finalized"
  BY <1>1, <1>3, <1>5, <1>9, <1>10 DEF LogWhole, LogSound
<1>12. FramesSound /\ RetriesNamed
  BY <1>1 DEF FramesSound, RetriesNamed, LogSound, LogWhole, HasDecision
<1>13. PairsComplete
  <2>1. \A i \in Decisions : \E j \in Actions : i < j /\ log[i].occurrence = log[j].occurrence
    BY <1>1, <1>4 DEF LogWhole
  <2>2. \A j \in Actions : \E i \in Decisions : Matches(log[i], log[j])
    BY <1>1 DEF LogWhole
  <2> QED BY <2>1, <2>2 DEF PairsComplete, Matches
<1>14. ModelsMatch
  <2>1. SUFFICES ASSUME NEW i \in Actions, log[i].ending.outcome = "identity_mismatch"
                 PROVE  FALSE
    BY DEF ModelsMatch
  <2>2. Ended(log[i])
    BY <2>1, LogFacts, <1>1 DEF Ended, Censored
  <2>3. PICK r \in Request : attempt[r] = "closed" /\ held[r] = log[i].occurrence
    BY <1>1, <2>2 DEF AttemptSound
  <2>4. /\ answer[r] # None /\ log[i].ending = EndingOf(asked[r], answer[r])
        /\ handler[r] # "unsent"
    BY <1>1, <2>3 DEF AttemptSound, Handed
  <2>5. answer[r] \in Exchange
    BY <1>1, <2>4 DEF RuntimeTypeOK
  <2>6. Substituted(r)
    BY <2>1, <2>4, <2>5, SuccessMeans DEF Substituted
  <2> QED BY <2>4, <2>6
<1>15. GatewayVerifies
  <2>1. Recorded = {log[i].occurrence : i \in Actions}
    BY DEF Recorded
  <2>2. Len(log) > 0
    BY <1>5, <1>9, <1>10
  <2> QED BY <1>10, <1>11, <1>12, <1>13, <1>14, <2>1, <2>2 DEF GatewayVerifies
<1>16. receipt.ok /\ receipt.exit = "completed"
  BY <1>2, <1>15
<1>17. /\ 2 * receipt.counters.accepted = Len(log) /\ receipt.counters.accepted >= 1
       /\ receipt.counters.accepted = receipt.counters.explicit + receipt.counters.native
       /\ receipt.counters.unauthorized = 0 /\ receipt.counters.malformed = 0
  BY <1>1, <1>2, <1>5, <1>7, <1>9, <1>10 DEF ReplySound
<1>18. FirstNamesIdentity
  <2>1. 1 \in 1 .. Len(log) /\ log # <<>> /\ log[1] \in Frame
    BY <1>1, <1>5, <1>9, <1>10, LogFacts
  <2>2. log[1].kind # "action"
    <3>1. SUFFICES ASSUME 1 \in Actions PROVE FALSE
      BY <2>1 DEF Actions
    <3>2. PICK i \in Decisions : log[i].occurrence = log[1].occurrence
      BY <1>13, <3>1 DEF PairsComplete
    <3>3. PICK j \in Actions : i < j /\ log[i].occurrence = log[j].occurrence
      BY <1>13, <3>2 DEF PairsComplete
    <3>4. j = 1
      BY <1>1, <3>1, <3>2, <3>3 DEF LogSound
    <3> QED BY <1>1, <3>2, <3>3, <3>4, LogFacts
  <2> QED BY <2>1, <2>2, FrameFacts DEF FirstNamesIdentity
<1> QED BY <1>2, <1>15, <1>16, <1>17, <1>18 DEF Admitted

\* A run is admitted in which the child completed, no write failed, each call was let
\* through or refused by the policy, or got an answer its attempt can end with, by the
\* model it asked for, and the call that was recorded first had passed its identity check:
\* what succeed and fail accept, neither the checks of the frame nor the verifier refuses,
\* and however the handlers overlapped the first frame is a decision and the counters fit.
THEOREM GoodRunsAreAdmitted == Spec => []GoodRunIsAdmitted
BY GoodRunSafe, RuntimeInvariance, PTL

-----------------------------------------------------------------------------
(* The recorder is an evidence ledger *)

\* Whoever holds an attempt that was handed out holds one that prepare let through.
LEMMA OwedArePrior ==
  ASSUME IInv
  PROVE  /\ Owed \subseteq prior /\ Recorded \subseteq prior /\ prior \subseteq Occurrence
         /\ \A s \in Owing : Handed(s)
         /\ \A s, t \in Owing : held[s] = held[t] => s = t
         /\ Owed \cap Recorded = {}
<1>1. \A s \in Owing : s \in Request /\ Handed(s)
  BY DEF Owing, Handed
<1>2. \A r, s \in Request : Handed(r) /\ Handed(s) /\ held[r] = held[s] => r = s
  BY DEF IInv, AttemptSound
<1>3. \A s \in Request : Handed(s) => held[s] \in prior
  BY DEF IInv, AttemptSound
<1>4. Recorded \subseteq prior
  BY DEF IInv, LogSound, Recorded
<1>5. prior \subseteq Occurrence
  BY DEF IInv, RuntimeTypeOK, GatewayTypeOK
<1>6. ASSUME NEW s \in Owing PROVE held[s] \notin Recorded
  <2>1. \A i \in Actions : log[i].occurrence = held[s] => attempt[s] = "closed"
    BY <1>1 DEF IInv, AttemptSound
  <2> QED BY <2>1 DEF Owing, HasAction, Recorded
<1> QED BY <1>1, <1>2, <1>3, <1>4, <1>5, <1>6 DEF Owed

\* What a line adds to the outcomes that are recorded.
LEMMA RecordedGrows ==
  ASSUME RuntimeTypeOK, WriteLine
  PROVE  Recorded' = IF call.frame.kind = "action"
                     THEN Recorded \cup {call.frame.occurrence} ELSE Recorded
<1> DEFINE f == call.frame
           n == Len(log) + 1
<1>1. /\ f \in Frame /\ log'[n] = f /\ \A i \in 1 .. Len(log) : log'[i] = log[i]
      /\ f.kind = "decision" => Actions' = Actions
      /\ f.kind = "action" => Actions' = Actions \cup {n}
  BY LineMeans
<1>2. f.kind \in {"decision", "action"} /\ Actions \subseteq 1 .. Len(log)
  BY <1>1, FrameFacts, LogFacts
<1> HIDE DEF f, n
<1> QED BY <1>1, <1>2 DEF Recorded, f

LEMMA RecordedStays ==
  ASSUME log' = log
  PROVE  Recorded' = Recorded
BY DEF Recorded, Actions

\* A caller whose attempt is owed keeps it until the attempt's outcome is written.
LEMMA OwedStays ==
  ASSUME IInv, IInv', [Next]_vars, ~WriteLine, ~AdmitAttempt
  PROVE  Owed' = Owed
<1>0. held \in [Request -> Occurrence \cup {None}] /\ Owing \subseteq Request
  BY OwingFacts DEF IInv, RuntimeTypeOK, GatewayTypeOK
<1>1. Owing' = Owing
  BY OwingStays DEF IInv
<1>2. \A s \in Owing : held'[s] = held[s]
  <2>1. CASE Return
    <3>1. /\ call.request \in Request /\ AtWork /\ call.stage = "count"
          /\ call.frame.kind = "action"
      BY <2>1, ReturnMeans DEF IInv
    <3>2. CASE Ended(call.frame)
      BY <2>1, <3>2 DEF Return, WriteCount, Ended
    <3>3. CASE ~Ended(call.frame)
      <4>1. /\ attempt[call.request] = "none"
            /\ held' = [held EXCEPT ![call.request] = call.frame.occurrence]
        BY <2>1, <3>1, <3>3 DEF Return, WriteCount, Ended, IInv, CallSound
      <4>2. call.request \notin Owing
        BY <4>1 DEF Owing
      <4> QED BY <1>0, <4>1, <4>2
    <3> QED BY <3>2, <3>3
  <2>2. CASE ~Return
    <3>1. CASE \E r \in Request : Turned(r) \/ Prepared(r) \/ CallProvider(r) \/ HangUp(r)
      BY <3>1 DEF Turned, Prepared, PreparedAs, CallProvider, MarkDispatched, HangUp, gatewayVars
    <3>2. CASE \E r \in Request, x \in Exchange : Answered(r, x)
      BY <3>2 DEF Answered
    <3>3. CASE CensorAttempt \/ CountAttempt
      BY <3>3 DEF CensorAttempt, CountAttempt
    <3>4. CASE \E how \in {"completed", "failed"} : ChildExits(how)
      BY <3>4 DEF ChildExits, gatewayVars
    <3>5. CASE Seal \/ Sealed \/ Fail \/ WriteReceipt \/ UNCHANGED vars
      BY <3>5 DEF Seal, Finalize, Sealed, WriteFinal, Fail, WriteFails, WriteReceipt, vars,
                  gatewayVars
    <3> QED BY <2>2, <3>1, <3>2, <3>3, <3>4, <3>5, Steps DEF IInv
  <2> QED BY <2>1, <2>2
<1> QED BY <1>1, <1>2 DEF Owed

\* While a handler's call is at work the bundle is not final, before or after the step.
LEMMA WorkIsUnsealed ==
  ASSUME IInv, AtWork
  PROVE  manifest.status # "finalized" /\ disk.status # "finalized"
<1>1. manifest.status # "finalized"
  BY AtWorkMeans DEF IInv
<1> QED BY <1>1 DEF IInv, ParentSound

\* Only the last write of finalize makes the bundle final.
LEMMA SealStays ==
  ASSUME IInv, [Next]_vars, ~Sealed
  PROVE  disk'.status = "finalized" <=> disk.status = "finalized"
<1>1. CASE \E r \in Request : Turned(r) \/ Prepared(r) \/ CallProvider(r) \/ HangUp(r)
  BY <1>1 DEF Turned, Prepared, PreparedAs, CallProvider, MarkDispatched, HangUp, gatewayVars
<1>2. CASE \E r \in Request, x \in Exchange : Answered(r, x)
  BY <1>2 DEF Answered
<1>3. CASE WriteLine
  BY <1>3 DEF WriteLine
<1>4. CASE AdmitAttempt \/ CensorAttempt \/ CountAttempt
  <2>1. AtWork /\ disk' = manifest
    BY <1>4 DEF AdmitAttempt, CensorAttempt, CountAttempt, AtWork
  <2> QED BY <2>1, WorkIsUnsealed
<1>5. CASE Return
  <2>1. AtWork /\ disk' = manifest
    BY <1>5 DEF Return, WriteCount, AtWork
  <2> QED BY <2>1, WorkIsUnsealed
<1>6. CASE (\E how \in {"completed", "failed"} : ChildExits(how)) \/ Seal \/ Fail \/ WriteReceipt
            \/ UNCHANGED vars
  BY <1>6 DEF ChildExits, Seal, Finalize, Fail, WriteFails, WriteReceipt, vars, gatewayVars
<1> QED BY <1>1, <1>2, <1>3, <1>4, <1>5, <1>6, Steps DEF IInv

LEMMA LedgerInit == Init => Ledger!Init
<1> SUFFICES ASSUME Init PROVE Ledger!Init
  OBVIOUS
<1>1. Owing = {}
  BY DEF Init, GatewayInit, Owing
<1>2. Recorded = {}
  <2>1. log = <<>>
    BY DEF Init, GatewayInit
  <2>2. Actions = {}
    BY <2>1 DEF Actions
  <2> QED BY <2>2 DEF Recorded
<1>3. disk.status # "finalized"
  BY DEF Init, GatewayInit
<1> QED BY <1>1, <1>2, <1>3 DEF Ledger!Init, Owed

\* prepare hands out an attempt: it is owed from here on.
LEMMA AdmitStep ==
  ASSUME IInv, IInv', [Next]_vars, AdmitAttempt
  PROVE  Ledger!Admit(call.frame.occurrence) /\ call.frame.occurrence \in Occurrence
<1> DEFINE q == call.request
           o == call.frame.occurrence
<1>1. /\ q \in Request /\ Owing' = Owing \cup {q} /\ q \notin Owing /\ held'[q] = o
      /\ \A s \in Request \ {q} : held'[s] = held[s]
  BY AttemptAdmitted DEF IInv
<1>2. AtWork /\ call.frame.kind = "decision" /\ disk' = manifest /\ log' = log
      /\ prior' = prior \cup {o}
  BY DEF AdmitAttempt, AtWork
<1>3. o \notin prior
  BY <1>2 DEF IInv, CallSound
<1>4. Owing \subseteq Request
  BY OwingFacts
<1>5. o \in Occurrence
  BY <1>2 DEF IInv, RuntimeTypeOK, GatewayTypeOK
<1> HIDE DEF q, o
<1>6. Owed' = Owed \cup {o}
  BY <1>1, <1>4 DEF Owed
<1>7. Recorded' = Recorded /\ disk'.status # "finalized" /\ disk.status # "finalized"
  BY <1>2, RecordedStays, WorkIsUnsealed
<1>8. o \notin Owed \cup Recorded
  BY <1>3, OwedArePrior
<1>9. Ledger!Admit(o)
  BY <1>6, <1>7, <1>8 DEF Ledger!Admit
<1> QED BY <1>5, <1>9 DEF o

\* The line of an attempt that ended is its outcome, the line of one that prepare refused
\* is the outcome of an attempt that is handed to nobody, and a decision is neither.
LEMMA LineStep ==
  ASSUME IInv, WriteLine
  PROVE  \/ UNCHANGED Ledger!ledger
         \/ \E o \in Occurrence : Ledger!Censor(o) \/ Ledger!Record(o)
<1> DEFINE f == call.frame
           o == f.occurrence
           q == call.request
<1>1. /\ AtWork /\ call.stage = "line" /\ f \in Frame /\ q \in Request
      /\ UNCHANGED <<held, attempt, disk>>
  BY LineMeans DEF IInv
<1>2. disk.status # "finalized" /\ disk'.status # "finalized"
  BY <1>1, WorkIsUnsealed
<1>3. /\ f.kind \in {"decision", "action"}
      /\ Recorded' = IF f.kind = "action" THEN Recorded \cup {o} ELSE Recorded
  BY <1>1, FrameFacts, RecordedGrows DEF IInv
<1>4. CASE f.kind # "action"
  <2>1. Owing' = Owing
    BY <1>4, OtherWritten DEF IInv, Ended
  <2>2. Owed' = Owed
    BY <1>1, <2>1 DEF Owed
  <2> QED BY <1>2, <1>3, <1>4, <2>2 DEF Ledger!ledger
<1>5. CASE Ended(f)
  <2>1. q \in Owing /\ Owing' = Owing \ {q} /\ f.kind = "action"
    BY <1>5, EndWritten DEF IInv, Ended
  <2>2. o = held[q]
    BY <1>1, <1>5, <2>1 DEF IInv, CallSound
  <2>3. \A s \in Owing : held[s] = o => s = q
    BY <2>1, <2>2, OwedArePrior
  <2>4. Owed' = Owed \ {o} /\ o \in Owed
    <3> HIDE DEF o, q
    <3> QED BY <1>1, <2>1, <2>2, <2>3 DEF Owed
  <2>5. o \in Occurrence
    BY <2>4, OwedArePrior
  <2>6. Recorded' = Recorded \cup {o}
    BY <1>3, <2>1
  <2> HIDE DEF o
  <2>7. Ledger!Record(o)
    BY <1>2, <2>4, <2>6 DEF Ledger!Record
  <2> QED BY <2>5, <2>7
<1>6. CASE f.kind = "action" /\ ~Ended(f)
  <2>1. Owing' = Owing
    BY <1>6, OtherWritten DEF IInv
  <2>2. Owed' = Owed
    BY <1>1, <2>1 DEF Owed
  <2>3. /\ o \in prior /\ ~HasAction(o)
        /\ \A s \in Request : Handed(s) => held[s] # o
    BY <1>1, <1>6 DEF IInv, CallSound
  <2>4. o \notin Recorded
    BY <2>3 DEF Recorded, HasAction
  <2>5. o \notin Owed
    BY <2>3, OwingFacts, OwedArePrior DEF Owed
  <2>6. Recorded' = Recorded \cup {o} /\ o \in Occurrence
    BY <1>3, <1>6, <2>3, OwedArePrior
  <2> HIDE DEF o
  <2>7. Ledger!Censor(o)
    BY <1>2, <2>2, <2>4, <2>5, <2>6 DEF Ledger!Censor
  <2> QED BY <2>6, <2>7
<1> QED BY <1>4, <1>5, <1>6

\* finalize's last write makes the bundle final, with no attempt left open.
LEMMA SealStep ==
  ASSUME IInv, IInv', [Next]_vars, Sealed
  PROVE  Ledger!Seal \/ UNCHANGED Ledger!ledger
<1>1. /\ call.stage = "final" /\ disk' = manifest /\ log' = log /\ held' = held
      /\ attempt' = attempt
  BY DEF Sealed, WriteFinal
<1>2. open = 0
  BY <1>1 DEF IInv, ParentSound
<1>3. Owing = {} /\ Owing' = Owing
  <2>1. \A o : HasAction(o)' <=> HasAction(o)
    BY <1>1 DEF HasAction, Actions
  <2> QED BY <1>1, <1>2, <2>1, NothingOwed DEF Owing
<1>4. Owed = {} /\ Owed' = {}
  BY <1>3 DEF Owed
<1>5. Recorded' = Recorded
  BY <1>1, RecordedStays
<1>6. disk.status = "finalized" => disk'.status = "finalized"
  BY <1>1 DEF IInv, ParentSound
<1> QED BY <1>4, <1>5, <1>6 DEF Ledger!Seal, Ledger!ledger

LEMMA LedgerStep == IInv /\ IInv' /\ [Next]_vars => [Ledger!Next]_(Ledger!ledger)
<1> SUFFICES ASSUME IInv, IInv', [Next]_vars
             PROVE  [Ledger!Next]_(Ledger!ledger)
  OBVIOUS
<1>1. CASE AdmitAttempt
  BY <1>1, AdmitStep DEF Ledger!Next
<1>2. CASE WriteLine
  BY <1>2, LineStep DEF Ledger!Next
<1>3. CASE Sealed
  BY <1>3, SealStep DEF Ledger!Next
<1>4. CASE ~AdmitAttempt /\ ~WriteLine /\ ~Sealed
  <2>1. Owed' = Owed
    BY <1>4, OwedStays
  <2>2. Recorded' = Recorded
    BY <1>4, LogStays, RecordedStays DEF IInv
  <2>3. disk'.status = "finalized" <=> disk.status = "finalized"
    BY <1>4, SealStays
  <2> QED BY <2>1, <2>2, <2>3 DEF Ledger!ledger
<1> QED BY <1>1, <1>2, <1>3, <1>4

\* The recorder behind the server implements the ledger: no attempt is handed out twice
\* or ended twice, none is handed out or recorded once bundle.json is final, and it is
\* final only when every attempt handed out has its outcome in the log, whatever write
\* fails and whoever hangs up.
THEOREM ImplementsLedger == Spec => GatewayLedgerSpec
<1>1. Init => Ledger!Init
  BY LedgerInit
<1>2. IInv /\ IInv' /\ [Next]_vars => [Ledger!Next]_(Ledger!ledger)
  BY LedgerStep
<1> QED BY <1>1, <1>2, RuntimeInvariance, PTL DEF Spec, GatewayLedgerSpec, Ledger!Spec
=============================================================================
