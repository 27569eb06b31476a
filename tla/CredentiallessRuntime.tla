----------------------- MODULE CredentiallessRuntime -----------------------
(***************************************************************************)
(* A child process that holds no provider credential, and the parent that  *)
(* makes its model calls for it: runProviderCredentiallessChild and the    *)
(* loopback server of src/credentialless-runtime.ts, the dispatcher of     *)
(* src/http-egress.ts they share, and the gateway recorder behind it.      *)
(*                                                                         *)
(* The parent is one thread.  Everything between two awaits is one turn,   *)
(* in which no other handler runs: the handler that reads a body prepares  *)
(* its attempt and calls the provider in one turn, and records the answer  *)
(* and replies in another.  What the turns of a handler share with those   *)
(* of another are the recorder and the counters.                           *)
(*                                                                         *)
(* The application, the provider and the network are external: a call may  *)
(* be of any kind, and the answer or the hang-up may come at any time.     *)
(***************************************************************************)
EXTENDS GatewayRecorder, HttpEgress

CONSTANTS
  Name,      \* logical request ids that calls with an explicit envelope choose
  Explicit,  \* calls an explicit envelope makes
  Native,    \* calls a provider's client makes
  Exchange,  \* what the network may make of a call
  Times      \* readings of the clock

\* Native calls are numbered by the server.
ASSUME LogicalAssumption ==
  /\ IsFiniteSet(Request) /\ Logical = Name \cup (1 .. Cardinality(Request))
  /\ \A x \in Exchange : x.bytes \in Nat
  /\ None \notin Exchange
  /\ None \notin {"response", "refusal", "invalid", "unauthorized"}
  /\ None \notin {"completed", "failed", "explicit", "native"}

VARIABLES
  handler,   \* where the server's handler of each request is
  kind,      \* whether the request is an explicit envelope or a native call
  asked,     \* the call dispatch was given
  answer,    \* what the transport met
  reply,     \* what the child was sent
  gone,      \* whether the child hung up
  counters,  \* CredentiallessGatewayCounters
  parent,    \* where runProviderCredentiallessChild is
  exit,      \* how the child ended
  receipt    \* runtime.json

runtimeVars == <<handler, kind, asked, answer, reply, gone, counters, parent, exit, receipt>>
vars == <<gatewayVars, runtimeVars>>

Kind == {"explicit", "native"}
Counters ==
  [accepted : Nat, explicit : Nat, native : Nat, unauthorized : Nat, malformed : Nat]
Receipt ==
  [counters : Counters, frames : Nat, ok : BOOLEAN, exit : {"completed", "failed"}]

RuntimeTypeOK ==
  /\ GatewayTypeOK
  /\ handler \in [Request -> {"unsent", "reading", "running", "upstream", "done"}]
  /\ kind \in [Request -> Kind \cup {None}]
  /\ asked \in [Request -> Explicit \cup {Resolve(m) : m \in Native} \cup {None}]
  /\ answer \in [Request -> Exchange \cup {None}]
  /\ reply \in [Request -> {None, "response", "refusal", "invalid", "unauthorized"}]
  /\ gone \in [Request -> BOOLEAN]
  /\ counters \in Counters
  /\ parent \in {"waiting", "closing", "sealing", "sealed", "returned", "threw"}
  /\ exit \in {None, "completed", "failed"}
  /\ receipt \in Receipt \cup {None}

Init ==
  /\ GatewayInit
  /\ handler = [r \in Request |-> "unsent"]
  /\ kind = [r \in Request |-> None]
  /\ asked = [r \in Request |-> None]
  /\ answer = [r \in Request |-> None]
  /\ reply = [r \in Request |-> None]
  /\ gone = [r \in Request |-> FALSE]
  /\ counters = [accepted |-> 0, explicit |-> 0, native |-> 0, unauthorized |-> 0,
                 malformed |-> 0]
  /\ parent = "waiting" /\ exit = None /\ receipt = None

-----------------------------------------------------------------------------

\* No turn is under way.
LoopIsFree ==
  /\ call = Idle
  /\ \A r \in Request : handler[r] # "running"
  /\ parent \notin {"sealing", "sealed"}

\* The handler ends: it replies, and is heard if the child still listens.
Respond(r, what) ==
  /\ handler' = [handler EXCEPT ![r] = "done"]
  /\ reply' = [reply EXCEPT ![r] = IF gone[r] THEN @ ELSE what]

Bump(c) == [counters EXCEPT ![c] = @ + 1]

\* The handler's catch: whatever was thrown, the request counts as malformed.
Refuse_Uncounted(r) == Respond(r, "invalid") /\ UNCHANGED counters
Refuse(r) == Respond(r, "invalid") /\ counters' = Bump("malformed")

\* A request reaches the server, maybe over a connection that outlives the child.
\* Without the capability, or with a method, path or media type that is not served,
\* it is answered at once.
Receive(r) ==
  /\ LoopIsFree
  /\ parent \in {"waiting", "closing"}
  /\ handler[r] = "unsent"
  /\ \/ handler' = [handler EXCEPT ![r] = "reading"] /\ UNCHANGED <<reply, counters>>
     \/ Respond(r, "unauthorized") /\ counters' = Bump("unauthorized")
     \/ Refuse(r)
  /\ UNCHANGED <<gatewayVars, kind, asked, answer, gone, parent, exit, receipt>>

\* The body ends early, or is not a request the server can map to a route.
ReadFails(r) ==
  /\ LoopIsFree
  /\ handler[r] = "reading"
  /\ Refuse(r)
  /\ UNCHANGED <<gatewayVars, kind, asked, answer, gone, parent, exit, receipt>>

\* The id of a native call is made from the count of those answered so far.
NativeId == counters.native + 1

\* The body is read and dispatch runs up to the transport, or throws on the way: the
\* model is unclear or no exact pin, prepare refuses the attempt, or append the frame.
Dispatch(r, k, c, l, n, retryOf) ==
  /\ LoopIsFree
  /\ handler[r] = "reading" /\ ~gone[r]
  /\ kind' = [kind EXCEPT ![r] = k]
  /\ asked' = [asked EXCEPT ![r] = c]
  /\ IF NamesModel(c) /\ MayPrepare(RequestedModel(c), l, n, retryOf)
     THEN /\ \E at \in Times :
               Prepare(r, RequestedModel(c), l, n, retryOf, Authorize(c, n, at),
                       Identified(c, at))
          /\ IF call' = Idle THEN Refuse(r)
             ELSE handler' = [handler EXCEPT ![r] = "running"] /\ UNCHANGED <<reply, counters>>
     ELSE Refuse(r) /\ UNCHANGED gatewayVars
  /\ UNCHANGED <<answer, gone, parent, exit, receipt>>

\* A path that two routes of the configuration serve is refused: see ReadFails.
DispatchNative(r, m) ==
  /\ NamesModel(m) /\ ~Ambiguous(m)
  /\ Dispatch(r, "native", Resolve(m), NativeId, 1, Absent)

\* The recorder writes on behalf of a handler; nothing else of the handler changes.
Record ==
  /\ WriteLine \/ AdmitAttempt \/ CensorAttempt \/ CountAttempt
  /\ UNCHANGED runtimeVars

\* The attempt is open: it is marked as dispatched and the transport is called.
CallProvider(r) ==
  /\ call = Idle
  /\ handler[r] = "running"
  /\ MarkDispatched(r)
  /\ handler' = [handler EXCEPT ![r] = "upstream"]
  /\ UNCHANGED <<kind, asked, answer, reply, gone, counters, parent, exit, receipt>>

\* The transport settles.  The answer ends the attempt, unless it is not accepted, which
\* leaves the attempt open, or the frame is refused.
Settle(r, x) ==
  /\ LoopIsFree
  /\ handler[r] = "upstream"
  /\ answer' = [answer EXCEPT ![r] = x]
  /\ Finish(r, EndingOf(asked[r], x))
  /\ IF call' = Idle THEN Refuse(r)
     ELSE handler' = [handler EXCEPT ![r] = "running"] /\ UNCHANGED <<reply, counters>>
  /\ UNCHANGED <<kind, asked, gone, parent, exit, receipt>>

\* The result is returned: the request is counted and only a success is passed on.
Accept_Uncounted(r) ==
  /\ counters' = [counters EXCEPT !.accepted = @ + 1]
  /\ Respond(r, IF call.frame.ending.outcome = "success" THEN "response" ELSE "refusal")
Accept(r) ==
  /\ counters' = [counters EXCEPT !.accepted = @ + 1, ![kind[r]] = @ + 1]
  /\ Respond(r, IF call.frame.ending.outcome = "success" THEN "response" ELSE "refusal")

Return ==
  /\ WriteCount
  /\ Accept(call.request)
  /\ UNCHANGED <<kind, asked, answer, gone, parent, exit, receipt>>

-----------------------------------------------------------------------------

HangUp(r) ==
  /\ handler[r] \in {"reading", "upstream"}
  /\ ~gone[r]
  /\ gone' = [gone EXCEPT ![r] = TRUE]
  /\ UNCHANGED <<gatewayVars, handler, kind, asked, answer, reply, counters, parent, exit, receipt>>

\* The child ends and the parent stops listening.
ChildExits(how) ==
  /\ LoopIsFree
  /\ parent = "waiting"
  /\ parent' = "closing"
  /\ exit' = how
  /\ UNCHANGED <<gatewayVars, handler, kind, asked, answer, reply, gone, counters, receipt>>

\* The server is closed once no connection is left, which says nothing of the
\* handlers; then the dispatcher is finalized.  An empty bundle is no error.
Closed == \A r \in Request : handler[r] \in {"unsent", "done"} \/ gone[r]
Seal ==
  /\ LoopIsFree
  /\ parent = "closing"
  /\ Closed
  /\ \/ Finalize /\ parent' = "sealing"
     \/ /\ ~MayFinalize
        /\ parent' = IF NothingOpen THEN "sealed" ELSE "threw"
        /\ UNCHANGED gatewayVars
  /\ UNCHANGED <<handler, kind, asked, answer, reply, gone, counters, exit, receipt>>

Sealed ==
  /\ WriteFinal
  /\ parent' = "sealed"
  /\ UNCHANGED <<handler, kind, asked, answer, reply, gone, counters, exit, receipt>>

\* A failed write throws into the handler or, if it was finalize's, into the parent.
Fail ==
  /\ WriteFails
  /\ IF call.stage = "final"
     THEN parent' = "threw" /\ UNCHANGED <<handler, reply, counters>>
     ELSE Refuse(call.request) /\ UNCHANGED parent
  /\ UNCHANGED <<kind, asked, answer, gone, exit, receipt>>

\* The receipt: the counters and the verdict of the moment.
WriteReceipt ==
  /\ parent = "sealed"
  /\ receipt' = [counters |-> counters, frames |-> Len(log), ok |-> GatewayVerifies,
                 exit |-> exit]
  /\ parent' = "returned"
  /\ UNCHANGED <<gatewayVars, handler, kind, asked, answer, reply, gone, counters, exit>>

Next ==
  \/ \E r \in Request :
       \/ Receive(r)
       \/ ReadFails(r)
       \/ \E c \in Explicit, l \in Name, n \in 1 .. MaxAttempt,
             retryOf \in Occurrence \cup {Absent} :
            Dispatch(r, "explicit", c, l, n, retryOf)
       \/ \E m \in Native : DispatchNative(r, m)
       \/ CallProvider(r)
       \/ \E x \in Exchange : Settle(r, x)
       \/ HangUp(r)
  \/ Record
  \/ Return
  \/ \E how \in {"completed", "failed"} : ChildExits(how)
  \/ Seal
  \/ Sealed
  \/ Fail
  \/ WriteReceipt

Spec == Init /\ [][Next]_vars

-----------------------------------------------------------------------------

\* The first frame of the gateway's log must be a decision whose reasons name the identity
\* the receipt is bound to; those of later frames are not looked at.
FirstNamesIdentity == log[1].kind = "decision" /\ log[1].identified

\* verifyCredentiallessRuntime on what runtime.json and the bundle hold now.  Policy,
\* configuration, boundary and environment are those of one run, so that their digests
\* agree, and the process bundle tells how the child ended.
Admitted ==
  /\ receipt # None
  /\ GatewayVerifies /\ receipt.ok /\ receipt.frames = Len(log)
  /\ FirstNamesIdentity
  /\ receipt.exit = "completed"
  /\ LET c == receipt.counters IN
     /\ 2 * c.accepted = Len(log)
     /\ c.accepted = c.explicit + c.native
     /\ c.accepted >= 1
     /\ c.unauthorized = 0 /\ c.malformed = 0

\* What an answer says of a call: the provider's own, from where the call was sent.
FromProvider(c, x) ==
  /\ x.url = c.url /\ ~x.redirected /\ x.status \in 200 .. 299
  /\ x.json /\ UsageSound(c.provider, x.usage)
  /\ \A a \in RoutesOf(c) : x.bytes \in 1 .. a.bytes

\* What the application is given back came from the very url its call was sent to, by
\* the model it asked for, and was recorded first as that model's success: the response
\* of a substituted model, one met at the end of a redirect, or one whose frame could
\* not be written, is withheld whichever write fails.
ResponseIsRecorded ==
  \A r \in Request : reply[r] = "response" =>
    /\ FromProvider(asked[r], answer[r])
    /\ answer[r].model = RequestedModel(asked[r])
    /\ RecordedAs(held[r], "success")

\* An admitted run hides nothing: whatever reached the provider is in the bundle with
\* the outcome it had there, under a route the policy and the configuration share, and
\* every caller that was answered was let through.
AdmittedIsComplete ==
  Admitted =>
    \A r \in Request :
      /\ attempt[r] \in {"dispatched", "closed"} =>
           /\ answer[r] # None /\ RecordedAs(held[r], Outcome(asked[r], answer[r]))
           /\ \E a \in RoutesOf(asked[r]), b \in Routes :
                b.key = <<a.provider, RequestedModel(asked[r])>> /\ held[r][2] <= b.attempts
      /\ reply[r] \in {None, "response", "refusal"}

\* A sealed bundle hides no call that reached the provider, whether it was answered,
\* is still upstream, lost its frame to a failed write, or was answered by what the
\* dispatcher can not record: finalize is refused then.
SealHidesNothing ==
  disk.status = "finalized" =>
    \A r \in Request :
      attempt[r] \in {"dispatched", "closed"} =>
        \E i \in Actions : log[i].occurrence = held[r]

\* The provider answers for another model than the one it was asked for.
Substituted(r) ==
  /\ answer[r] # None
  /\ FromProvider(asked[r], answer[r])
  /\ answer[r].model \notin {Absent, RequestedModel(asked[r])}

\* A run that went well is admitted: the child completed, no write failed, each of its
\* calls was let through or refused by the policy, or has an answer its attempt can end
\* with, by the model it asked for, and the one that was recorded first, of those that
\* overlapped, had passed its identity check.  What succeed and fail accept, the checks
\* of the frame must not refuse, and the counters must add up to what was recorded.
GoodRunIsAdmitted ==
  /\ receipt # None /\ exit = "completed" /\ faults = 0
  /\ \E r \in Request : handler[r] # "unsent"
  /\ \A r \in Request :
       handler[r] # "unsent" =>
         /\ ~Substituted(r)
         /\ \/ reply[r] \in {"response", "refusal"}
            \/ answer[r] # None /\ Outcome(asked[r], answer[r]) # "throws"
  /\ log # <<>> => log[1].identified
  => Admitted

\* README.md:661, "one application call must correspond to one admitted Guard call":
\* a native call in order, answered by the model it names, is never refused.
NativeCallIsAdmitted ==
  \A r \in Request :
    /\ kind[r] = "native" /\ RequestedModel(asked[r]) \in Pins /\ faults = 0
    /\ answer[r] # None => Outcome(asked[r], answer[r]) # "throws"
    => reply[r] # "invalid"

\* README.md:1091, "A resolved-model mismatch records an identity_mismatch receipt":
\* so it is whenever the provider names another model than the one asked for.
SubstitutionIsRecorded ==
  \A r \in Request :
    Substituted(r) /\ handler[r] = "done" /\ faults = 0 =>
      RecordedAs(held[r], "identity_mismatch")
(***************************************************************************)
(* Why they hold: an inductive invariant.  The recorder's open count is at *)
(* least the number of attempts whose end is not recorded, which is why it *)
(* is never 0 while one of them has reached the provider; what an attempt  *)
(* asked, was answered and ended with does not change once it is in the    *)
(* log; and as long as no write failed the counts are exact.               *)
(***************************************************************************)
AtWork == call.stage \in {"line", "manifest", "count"}
Handed(r) == attempt[r] \in {"open", "dispatched", "closed"}
Ended(f) == f.kind = "action" /\ f.ending.outcome \notin Censored
HasAction(o) == \E i \in Actions : log[i].occurrence = o
HasDecision(o) == \E i \in Decisions : log[i].occurrence = o

\* The policy and the configuration share a route for the n-th attempt of a request.
Permitted(r, n) ==
  \E a \in RoutesOf(asked[r]), b \in Routes :
    b.key = <<a.provider, RequestedModel(asked[r])>> /\ n <= b.attempts

\* The frame on its way into the log, and whose it is.
CallSound ==
  AtWork =>
    LET f == call.frame
        r == call.request IN
    /\ handler[r] = "running" /\ FrameSound(f)
    /\ IF call.stage = "line"
       THEN f.sequence = Len(log) /\ chain = Len(log) + 1
       ELSE log # <<>> /\ log[Len(log)] = f /\ chain = Len(log)
    /\ f.kind = "decision" =>
         /\ call.stage # "count" /\ attempt[r] = "none" /\ f.occurrence \notin prior
         /\ f.policy = "allowed" => Permitted(r, f.occurrence[2])
         /\ f.requested = RequestedModel(asked[r])
         /\ f.occurrence[2] > 1 =>
              f.retryOf = <<f.occurrence[1], f.occurrence[2] - 1>> /\ f.retryOf \in prior
    /\ f.kind = "action" =>
         /\ f.occurrence \in prior
         /\ call.stage = "line" => ~HasAction(f.occurrence)
         /\ IF Ended(f)
            THEN /\ attempt[r] = "closed" /\ f.occurrence = held[r]
                 /\ f.ending = EndingOf(asked[r], answer[r])
            ELSE /\ attempt[r] = "none"
                 /\ \A s \in Request : Handed(s) => held[s] # f.occurrence

\* The log is one chain, whatever failed.
LogSound ==
  /\ manifest.frames = Len(log)
  /\ \A i \in 1 .. Len(log) : FrameSound(log[i]) /\ log[i].sequence = i - 1
  /\ \A i, j \in Actions : log[i].occurrence = log[j].occurrence => i = j
  /\ \A i \in Actions : log[i].occurrence \in prior
  /\ \A o \in prior : HasDecision(o)
  /\ \A i \in Decisions :
       LET o == log[i].occurrence IN
       o[2] > 1 => log[i].retryOf = <<o[1], o[2] - 1>> /\ HasDecision(log[i].retryOf)

\* What is known of each attempt.
AttemptSound ==
  /\ \A r \in Request :
       /\ attempt[r] # "none" => handler[r] \notin {"unsent", "reading"}
       /\ answer[r] # None => handler[r] \in {"running", "done"}
       /\ attempt[r] \in {"none", "open"} => answer[r] = None
       /\ Handed(r) => held[r] \in prior /\ Permitted(r, held[r][2])
       /\ attempt[r] = "closed" => answer[r] # None /\ Accepted(EndingOf(asked[r], answer[r]))
  /\ \A r, s \in Request : Handed(r) /\ Handed(s) /\ held[r] = held[s] => r = s
  /\ \A r \in Request, i \in Actions :
       Handed(r) /\ log[i].occurrence = held[r] =>
         /\ attempt[r] = "closed"
         /\ Ended(log[i]) /\ log[i].ending = EndingOf(asked[r], answer[r])
  /\ \A i \in Actions : Ended(log[i]) =>
       \E r \in Request : attempt[r] = "closed" /\ held[r] = log[i].occurrence

\* Open attempts are counted, and so is what lost its frame.
Owing ==
  {r \in Request : \/ attempt[r] \in {"open", "dispatched"}
                   \/ attempt[r] = "closed" /\ ~HasAction(held[r])}
Uncounted == IF call.stage = "manifest" /\ Ended(call.frame) THEN 1 ELSE 0
OpenSound == Cardinality(Owing) + Uncounted <= open

\* How far the parent is.
Over == parent \in {"sealing", "sealed", "returned", "threw"}
ParentSound ==
  /\ parent # "waiting" => exit # None
  /\ Over => \A r \in Request : handler[r] \in {"unsent", "done"} \/ gone[r]
  /\ parent = "sealing" <=> call.stage = "final"
  /\ parent \in {"sealed", "returned"} => call = Idle
  /\ parent \in {"sealing", "sealed", "returned"} =>
       /\ open = 0 /\ \A r \in Request : handler[r] # "running"
       /\ manifest.status = "finalized" \/ manifest.attempts = 0
  /\ manifest.status = "finalized" => Over /\ open = 0 /\ ~AtWork
  /\ disk.status = "finalized" => manifest.status = "finalized"

\* What the child was sent, and what the server counted.
ReplySound ==
  /\ \A r \in Request :
       /\ handler[r] \in {"running", "upstream"} => kind[r] # None
       /\ reply[r] # None => handler[r] = "done"
       /\ reply[r] = "response" =>
            /\ answer[r] # None /\ EndingOf(asked[r], answer[r]).outcome = "success"
            /\ RecordedAs(held[r], "success") /\ Handed(r)
       /\ reply[r] = "invalid" => counters.malformed >= 1
       /\ reply[r] = "unauthorized" => counters.unauthorized >= 1
  /\ counters.accepted = counters.explicit + counters.native
  /\ counters.native <= Cardinality({r \in Request : handler[r] = "done"})

ReceiptSound ==
  receipt # None =>
    /\ parent = "returned"
    /\ receipt.exit = exit /\ receipt.frames = Len(log) /\ receipt.ok = GatewayVerifies
    /\ receipt.counters.accepted = counters.accepted
    /\ receipt.counters.explicit = counters.explicit
    /\ receipt.counters.native = counters.native
    /\ receipt.counters.unauthorized <= counters.unauthorized
    /\ receipt.counters.malformed <= counters.malformed
    /\ \A r \in Request :
         /\ reply[r] = "invalid" => receipt.counters.malformed >= 1
         /\ reply[r] = "unauthorized" => receipt.counters.unauthorized >= 1

\* As long as no write failed: both frames of an attempt are there, or it is under way;
\* each frame and each call is counted once; only what is not let through is refused.
Matches(d, f) ==
  /\ d.occurrence = f.occurrence
  /\ d.requested = f.requested /\ d.retryOf = f.retryOf /\ d.policy = f.policy
  /\ IF d.policy = "allowed" THEN f.ending.outcome \notin Censored
     ELSE f.ending.outcome = CensorOutcome[d.policy]
Pending ==
  IF call.stage = "manifest" THEN IF call.frame.kind = "decision" THEN 1 ELSE 2
  ELSE IF call.stage = "line" /\ call.frame.kind = "action" /\ ~Ended(call.frame) THEN 1
  ELSE 0
Recorded == {log[i].occurrence : i \in Actions}
LogWhole ==
  /\ ~torn
  /\ ~AtWork => chain = Len(log)
  /\ call = Idle => disk = manifest
  /\ \A i, j \in Decisions : log[i].occurrence = log[j].occurrence => i = j
  /\ \A i \in Decisions :
       \/ log[i].occurrence \in prior
       \/ call.stage = "manifest" /\ call.frame.kind = "decision" /\ i = Len(log)
  /\ \A j \in Actions : \E i \in Decisions : Matches(log[i], log[j])
  /\ AtWork /\ call.frame.kind = "action" =>
       \E i \in Decisions : Matches(log[i], call.frame)
  /\ \A r \in Request, i \in Decisions :
       Handed(r) /\ log[i].occurrence = held[r] =>
         log[i].requested = RequestedModel(asked[r]) /\ log[i].policy = "allowed"
  /\ \A i \in Decisions :
       \/ \E j \in Actions : i < j /\ log[i].occurrence = log[j].occurrence
       \/ \E r \in Owing : held[r] = log[i].occurrence
       \/ AtWork /\ call.frame.occurrence = log[i].occurrence
CountsWhole ==
  /\ Len(log) = 2 * manifest.attempts + Cardinality(Owing) + Pending
  /\ IsFiniteSet(Recorded)
  /\ Cardinality(Recorded) = manifest.attempts +
       IF call.stage = "manifest" /\ call.frame.kind = "action" THEN 1 ELSE 0
  /\ manifest.attempts = counters.accepted + IF call.stage = "count" THEN 1 ELSE 0

Bad(r) ==
  /\ reply[r] \notin {"response", "refusal"}
  /\ answer[r] = None \/ Outcome(asked[r], answer[r]) = "throws"
RefusalsWhole ==
  /\ counters.malformed > 0 \/ counters.unauthorized > 0 =>
       \E r \in Request : handler[r] = "done" /\ Bad(r)
  /\ \A r \in Request : handler[r] = "done" => Bad(r) \/ counters.accepted >= 1

IInv ==
  /\ RuntimeTypeOK /\ CallSound /\ LogSound /\ AttemptSound /\ OpenSound /\ ParentSound
  /\ ReplySound /\ ReceiptSound
  /\ faults = 0 => LogWhole /\ CountsWhole /\ RefusalsWhole

\* The recorder behind this server is an evidence ledger: an attempt that was handed out
\* is owed until its terminal frame is in the log, whatever write fails in between.
Owed == {held[r] : r \in Owing}
Ledger == INSTANCE EvidenceLedger
            WITH Operation <- Occurrence, owed <- Owed, recorded <- Recorded,
                 sealed <- (disk.status = "finalized")

\* GatewayRecorder promises what EvidenceLedger states: no attempt is handed out twice
\* or ended twice, nothing is handed out or written once bundle.json is final, and it is
\* final only when every attempt that was handed out has its outcome in the log.
GatewayLedgerSpec == Ledger!Spec
=============================================================================
