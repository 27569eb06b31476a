---------------------------- MODULE McpStdioProxy ----------------------------
(***************************************************************************)
(* One authenticated MCP stdio session: class AuthenticatedMcpStdioProxy   *)
(* of src/mcp-stdio-proxy.ts with the tool adapter of src/mcp-adapter.ts,  *)
(* over the access journal of McpStdioAccess.  (Configuration v1;       *)
(* McpStdioSession adds what v2 does.)                                     *)
(*                                                                         *)
(* The proxy is one event loop.  Its calls into the recorders are          *)
(* synchronous, and what follows an event (a chunk of output, a timeout,   *)
(* the child's exit) runs to the next await before another event does;     *)
(* only a crash, the child, and a recovery move in between.                *)
(*                                                                         *)
(* The SDK recorder is here the outcome it has recorded per operation; it  *)
(* is the subject of SdkRecorder.  The child is external: it reads whole   *)
(* requests, answers each at most once in one chunk or two, and may exit   *)
(* at any time; what it prints unasked is added by McpStdioSession.        *)
(*                                                                         *)
(* A definition named X_Y is a faulty variant of X, kept to show which     *)
(* property notices it.                                                    *)
(***************************************************************************)
EXTENDS McpStdioAccess

CONSTANT HeedsTerm  \* whether SIGTERM ends the child

ASSUME ProxyAssumption ==
  /\ HeedsTerm \in BOOLEAN
  /\ {"completed", "tool_failure", "blocked"} \subseteq Reported
  /\ None \notin Request

VARIABLES
  queue,     \* tail: accepted invocations, one after the other
  phase,     \* how far each invocation is
  active,    \* activeContext
  written,   \* childStdinWriteCalled of each context
  verdict,   \* how each invocation of the tool ended, for the adapter
  pending,   \* the exchange waiting for a line
  buffer,    \* stdoutBuffer: chunks without a newline so far
  failed,    \* sessionFailure, which only interrupt sets
  closing,   \* how far close is
  exited,    \* whether the exit event was handled
  op,        \* what the SDK recorder knows of each operation
  adapter,   \* the adapter, created by the first invocation
  child,     \* the child process, and the signal it was sent
  stdin,     \* its input, not read yet
  stdout,    \* its output, not read yet
  answers    \* the answers it gave

proxyVars == <<queue, phase, active, written, verdict, pending, buffer, failed,
               closing, exited, op, adapter>>
childVars == <<child, stdin, stdout, answers>>
vars == <<accessVars, proxyVars, childVars>>

Phase == {"new", "queued", "deciding", "authorizing", "waiting", "settling",
          "reporting", "done", "threw"}
Answer == [request : Request \cup {None}, result : {"ok", "error"}]
Chunk == [answer : Answer, part : {"whole", "head", "rest"}]

ProxyTypeOK ==
  /\ TypeOK
  /\ queue \in Seq(Request)
  /\ phase \in [Request -> Phase]
  /\ active \in Request \cup {None}
  /\ written \in [Request -> BOOLEAN]
  /\ verdict \in [Request -> {"none", "completed", "tool_failure"}]
  /\ pending \in {None, active}
  /\ buffer \in Seq(Chunk)
  /\ failed \in BOOLEAN /\ exited \in BOOLEAN
  /\ closing \in {"no", "draining", "terminating", "sdk", "access", "finalizing",
                  "closed", "failed"}
  /\ op \in [Request -> {"none", "censored", "open", "completed", "tool_failure"}]
  /\ adapter \in {"absent", "open", "finalized"}
  /\ child \in {"running", "sigterm", "sigkill", "gone"}
  /\ stdin \in Seq(Request) /\ stdout \in Seq(Chunk)
  /\ answers \subseteq Answer

-----------------------------------------------------------------------------

ProxyInit ==
  /\ Init
  /\ queue = <<>> /\ active = None /\ pending = None /\ buffer = <<>>
  /\ phase = [r \in Request |-> "new"]
  /\ written = [r \in Request |-> FALSE]
  /\ verdict = [r \in Request |-> "none"]
  /\ failed = FALSE /\ closing = "no" /\ exited = FALSE
  /\ op = [r \in Request |-> "none"]
  /\ adapter = "absent"
  /\ child = "running" /\ stdin = <<>> /\ stdout = <<>> /\ answers = {}

\* The event loop is free to take an event, or to resume an awaited call.
Free == Running(Owner) /\ call[Owner] = Idle
AtRest ==
  Free /\ (active # None => phase[active] \in {"deciding", "waiting"})

Signalled(signal) == IF exited \/ child = "gone" THEN child ELSE signal

\* The invocation ends; finally clears the context and the next one may start.
Leave(r, how) ==
  /\ phase' = [phase EXCEPT ![r] = how]
  /\ active' = None

Invoke(r) ==
  /\ AtRest
  /\ phase[r] = "new"
  /\ IF closing = "no"
     THEN queue' = Append(queue, r) /\ phase' = [phase EXCEPT ![r] = "queued"]
     ELSE UNCHANGED queue /\ phase' = [phase EXCEPT ![r] = "threw"]
  /\ UNCHANGED <<accessVars, active, written, verdict, pending, buffer, failed,
                 closing, exited, op, adapter, childVars>>

\* invokeSerial, up to the adapter's wait for the identity.
MayStart == active = None
Start ==
  /\ AtRest
  /\ MayStart
  /\ queue # <<>>
  /\ queue' = Tail(queue)
  /\ LET r == Head(queue) IN
     IF failed \/ exited
     THEN phase' = [phase EXCEPT ![r] = "threw"] /\ UNCHANGED <<active, adapter>>
     ELSE /\ phase' = [phase EXCEPT ![r] = "deciding"]
          /\ active' = r
          /\ adapter' = "open"
  /\ UNCHANGED <<accessVars, written, verdict, pending, buffer, failed, closing,
                 exited, op, childVars>>

\* adapter.invoke refuses a malformed request, or the recorder one it cannot admit.
Refuse ==
  /\ Free
  /\ active # None /\ phase[active] = "deciding"
  /\ Leave(active, "threw")
  /\ UNCHANGED <<accessVars, queue, written, verdict, pending, buffer, failed,
                 closing, exited, op, adapter, childVars>>

\* The policy is evaluated and the operation begun; an allowed one is dispatched,
\* which records its authorization first, and a blocked one recorded at once.
Decide(decision) ==
  /\ Free
  /\ active # None /\ phase[active] = "deciding"
  /\ adapter = "open"
  /\ op' = [op EXCEPT ![active] = IF decision = "allowed" THEN "open" ELSE "censored"]
  /\ phase' = [phase EXCEPT ![active] = "authorizing"]
  /\ Authorize(active, decision)
  /\ UNCHANGED <<queue, active, written, verdict, pending, buffer, failed,
                 closing, exited, adapter, childVars>>

\* The recorder's authorize has returned, or it threw.
Persisted_Anyway(r) == TRUE
Persisted(r) == r \in RequestsIn(memory[Owner])

\* It threw.  The adapter records a transport failure of the dispatch, and the
\* proxy refuses its result because nothing was persisted.
NotPersisted ==
  /\ Free
  /\ active # None /\ phase[active] = "authorizing"
  /\ ~Persisted(active)
  /\ op' = [op EXCEPT ![active] = IF @ = "open" THEN "tool_failure" ELSE @]
  /\ Leave(active, "threw")
  /\ UNCHANGED <<accessVars, queue, written, verdict, pending, buffer, failed,
                 closing, exited, adapter, childVars>>

\* exchange: the request is written to the child.
Dispatch ==
  /\ Free
  /\ active # None /\ phase[active] = "authorizing" /\ op[active] = "open"
  /\ Persisted(active)
  /\ pending = None
  /\ ~exited
  /\ phase' = [phase EXCEPT ![active] = "waiting"]
  /\ pending' = active
  /\ written' = [written EXCEPT ![active] = TRUE]
  /\ stdin' = IF child = "gone" THEN stdin ELSE Append(stdin, active)
  /\ UNCHANGED <<accessVars, queue, active, verdict, buffer, failed, closing,
                 exited, op, adapter, child, stdout, answers>>

\* The arguments are no JSON object, or the child cannot be written to.
NotDispatched ==
  /\ Free
  /\ active # None /\ phase[active] = "authorizing" /\ op[active] = "open"
  /\ Persisted(active)
  /\ phase' = [phase EXCEPT ![active] = "settling"]
  /\ verdict' = [verdict EXCEPT ![active] = "tool_failure"]
  /\ UNCHANGED <<accessVars, queue, active, written, pending, buffer, failed,
                 closing, exited, op, adapter, childVars>>

\* The pending exchange is over; its invocation goes on at once.
Conclude(result) ==
  /\ pending' = None
  /\ phase' = [phase EXCEPT ![pending] = "settling"]
  /\ verdict' = [verdict EXCEPT ![pending] = result]

RejectPending ==
  IF pending = None THEN UNCHANGED <<pending, phase, verdict>>
  ELSE Conclude("tool_failure")

\* The chunks an answer may come in.
Lines(answer) ==
  {<<[answer |-> answer, part |-> "whole"]>>,
   <<[answer |-> answer, part |-> "head"], [answer |-> answer, part |-> "rest"]>>}

\* The line must be one answer, carry the id of the request, and come before any
\* interrupt.
Meaning_AnyId(line) ==
  IF line[1].answer.result = "ok" /\ ~failed THEN "completed" ELSE "tool_failure"
Meaning_Late(line) ==
  IF line \in Lines([request |-> pending, result |-> "ok"])
  THEN "completed" ELSE "tool_failure"
Meaning(line) ==
  IF line \in Lines([request |-> pending, result |-> "ok"]) /\ ~failed
  THEN "completed" ELSE "tool_failure"

\* onStdout.  What the child printed so far may arrive in one event or in several.
\* Output nobody waits for is dropped, and more than a line fails the exchange.
Ends(line) == {i \in DOMAIN line : line[i].part # "head"}

Data ==
  /\ AtRest
  /\ \E n \in 1 .. Len(stdout) :
       LET line == buffer \o SubSeq(stdout, 1, n) IN
       /\ stdout' = SubSeq(stdout, n + 1, Len(stdout))
       /\ IF pending = None THEN UNCHANGED <<buffer, pending, phase, verdict>>
          ELSE IF Ends(line) = {}
               THEN buffer' = line /\ UNCHANGED <<pending, phase, verdict>>
               ELSE /\ buffer' = <<>>
                    /\ Conclude(IF Ends(line) = {Len(line)} THEN Meaning(line)
                                ELSE "tool_failure")
  /\ UNCHANGED <<accessVars, queue, active, written, failed, closing, exited, op,
                 adapter, child, stdin, answers>>

\* The response timeout, or output longer than a line may be.
TimerArmed_Never == FALSE
TimerArmed == pending # None
GiveUp ==
  /\ AtRest
  /\ TimerArmed
  /\ Conclude("tool_failure")
  /\ child' = Signalled("sigkill")
  /\ UNCHANGED <<accessVars, queue, active, written, buffer, failed, closing,
                 exited, op, adapter, stdin, stdout, answers>>

ExitEvent ==
  /\ AtRest
  /\ child = "gone" /\ ~exited
  /\ exited' = TRUE
  /\ RejectPending
  /\ UNCHANGED <<accessVars, queue, active, written, buffer, failed, closing, op,
                 adapter, childVars>>

\* Writing to a child that is gone fails.
StdinError ==
  /\ AtRest
  /\ child = "gone" /\ pending # None
  /\ RejectPending
  /\ UNCHANGED <<accessVars, queue, active, written, buffer, failed, closing,
                 exited, op, adapter, childVars>>

Interrupt ==
  /\ AtRest
  /\ failed' = TRUE
  /\ RejectPending
  /\ child' = Signalled("sigkill")
  /\ UNCHANGED <<accessVars, queue, active, written, buffer, closing, exited, op,
                 adapter, stdin, stdout, answers>>

\* The adapter records the outcome and the proxy the terminal receipt.
WriteFact(r) == IF written[r] THEN "called" ELSE "not_called"
Disposition_Optimistic(r) == IF written[r] THEN "completed" ELSE "tool_failure"
Disposition(r) == verdict[r]

Settle ==
  /\ Free
  /\ active # None /\ phase[active] = "settling"
  /\ op' = [op EXCEPT ![active] = verdict[active]]
  /\ phase' = [phase EXCEPT ![active] = "reporting"]
  /\ Report(active, Disposition(active), WriteFact(active))
  /\ UNCHANGED <<queue, active, written, verdict, pending, buffer, failed, closing,
                 exited, adapter, childVars>>

SettleBlocked ==
  /\ Free
  /\ active # None /\ phase[active] = "authorizing" /\ op[active] = "censored"
  /\ Persisted(active)
  /\ phase' = [phase EXCEPT ![active] = "reporting"]
  /\ Report(active, "blocked", WriteFact(active))
  /\ UNCHANGED <<queue, active, written, verdict, pending, buffer, failed, closing,
                 exited, op, adapter, childVars>>

\* The SDK recorder cannot record the outcome, or the clock went back: the adapter
\* or the terminal call throws and the transaction stays open.
SettleThrows ==
  /\ Free
  /\ active # None /\ phase[active] = "settling"
  /\ faults < MaxFaults
  /\ faults' = faults + 1
  /\ op' \in {op, [op EXCEPT ![active] = verdict[active]]}
  /\ Leave(active, "threw")
  /\ UNCHANGED <<fileVars, life, memory, call, reported, crashes, queue, written,
                 verdict, pending, buffer, failed, closing, exited, adapter, childVars>>

\* The terminal call has returned, or it threw.
Finish ==
  /\ Free
  /\ active # None /\ phase[active] = "reporting"
  /\ Leave(active, IF \E a \in OpenIn(memory[Owner]) : a.request = active
                   THEN "threw" ELSE "done")
  /\ UNCHANGED <<accessVars, queue, written, verdict, pending, buffer, failed,
                 closing, exited, op, adapter, childVars>>

Close ==
  /\ AtRest
  /\ closing = "no"
  /\ closing' = "draining"
  /\ UNCHANGED <<accessVars, queue, phase, active, written, verdict, pending, buffer,
                 failed, exited, op, adapter, childVars>>

\* The last accepted invocation is over: the child is ended.
TailDone_NotAwaited == TRUE
TailDone == queue = <<>> /\ active = None
Drained ==
  /\ AtRest
  /\ closing = "draining"
  /\ TailDone
  /\ closing' = "terminating"
  /\ child' = IF child = "running" THEN Signalled("sigterm") ELSE child
  /\ UNCHANGED <<accessVars, queue, phase, active, written, verdict, pending, buffer,
                 failed, exited, op, adapter, stdin, stdout, answers>>

\* The SDK bundle first: it cannot be finalized with an operation open or without any.
Terminated ==
  /\ AtRest
  /\ closing = "terminating" /\ exited
  /\ IF adapter = "absent" THEN closing' = "access" /\ UNCHANGED adapter
     ELSE IF /\ \A r \in Request : op[r] # "open"
             /\ \E r \in Request : op[r] # "none"
          THEN closing' = "access" /\ adapter' = "finalized"
          ELSE closing' = "failed" /\ UNCHANGED adapter
  /\ UNCHANGED <<accessVars, queue, phase, active, written, verdict, pending, buffer,
                 failed, exited, op, childVars>>

FinalizeAccess ==
  /\ closing = "access"
  /\ closing' = "finalizing"
  /\ Finalize(Owner)
  /\ UNCHANGED <<queue, phase, active, written, verdict, pending, buffer, failed,
                 exited, op, adapter, childVars>>

\* Its finalize throws if a transaction is open, or if it cannot write the bundle.
CloseThrows ==
  /\ Free
  /\ \/ closing = "access" /\ ~NothingOpen(Owner)
     \/ closing = "finalizing"
  /\ closing' = "failed"
  /\ UNCHANGED <<accessVars, queue, phase, active, written, verdict, pending, buffer,
                 failed, exited, op, adapter, childVars>>

Closed ==
  /\ life[Owner] = "done"
  /\ closing = "finalizing"
  /\ closing' = "closed"
  /\ UNCHANGED <<accessVars, queue, phase, active, written, verdict, pending, buffer,
                 failed, exited, op, adapter, childVars>>

-----------------------------------------------------------------------------
\* The child.  (What it does once its owner died leaves no trace in any file.)

ChildLives == child # "gone" /\ Running(Owner)

ChildAnswers ==
  /\ ChildLives
  /\ stdin # <<>>
  /\ stdin' = Tail(stdin)
  /\ \E result \in {"ok", "error"} :
       LET answer == [request |-> Head(stdin), result |-> result]
       IN  /\ \E line \in Lines(answer) : stdout' = stdout \o line
           /\ answers' = answers \cup {answer}
  /\ UNCHANGED <<accessVars, proxyVars, child>>

ChildIgnores ==
  /\ ChildLives
  /\ stdin # <<>>
  /\ stdin' = Tail(stdin)
  /\ UNCHANGED <<accessVars, proxyVars, child, stdout, answers>>

ChildExits ==
  /\ ChildLives
  /\ child' = "gone"
  /\ UNCHANGED <<accessVars, proxyVars, stdin, stdout, answers>>

ChildObeys ==
  /\ child = "sigkill" \/ (child = "sigterm" /\ HeedsTerm)
  /\ ChildExits

-----------------------------------------------------------------------------

ProxyStep ==
  \/ Start \/ Refuse \/ (\E decision \in {"allowed", "blocked"} : Decide(decision))
  \/ NotPersisted \/ Dispatch \/ NotDispatched \/ Settle \/ SettleBlocked
  \/ SettleThrows \/ Finish \/ Data \/ GiveUp \/ ExitEvent \/ StdinError
  \/ Drained \/ Terminated \/ FinalizeAccess \/ CloseThrows \/ Closed

CallerStep == Interrupt \/ Close \/ \E r \in Request : Invoke(r)

ChildStep == ChildAnswers \/ ChildIgnores \/ ChildExits

AccessStep ==
  \/ \E p \in Process : Progress(p) \/ WriteFails(p) \/ Kill(p)
  \/ \E p \in Recoverer : Recovery(p)
  \/ HostCrash

ProxyNext ==
  \/ ProxyStep
  \/ CallerStep
  \/ ChildStep
  \/ AccessStep /\ UNCHANGED <<proxyVars, childVars>>

ProxySpec == ProxyInit /\ [][ProxyNext]_vars

\* The event loop goes on, timers fire, calls into the recorder return, and a signal
\* that can end the child does.
ProxyFairness ==
  /\ WF_vars(ProxyStep)
  /\ WF_vars(ChildObeys)
  /\ WF_vars(Progress(Owner) /\ UNCHANGED <<proxyVars, childVars>>)

FairProxySpec == ProxySpec /\ ProxyFairness

-----------------------------------------------------------------------------

\* No byte reaches the child ahead of the evidence: a request handed to the child's
\* stdin has a durable allowed authorization, which a host crash cannot take back,
\* and a bundle, the proxy's or a recovery's, never says it was not written.
DispatchIsCovered ==
  \A r \in Request : written[r] =>
    /\ \E i \in 1 .. durable :
         [kind |-> "authorization", request |-> r, decision |-> "allowed"]
           \in ReceiptsIn(journal[i])
    /\ bundle # None =>
         \E t \in ReceiptsIn(bundle.receipts) :
           t.kind = "terminal" /\ t.request = r /\ t.written # "not_called"

\* An answer is never credited to another request: what a bundle calls completed the
\* child answered under that request's id, and the SDK recorder knows as completed,
\* though answers may be late, split, unsolicited, or given to a dying session.
CompletedWasAnswered ==
  bundle # None =>
    \A t \in ReceiptsIn(bundle.receipts) :
      t.kind = "terminal" /\ t.disposition = "completed" =>
        /\ [request |-> t.request, result |-> "ok"] \in answers
        /\ op[t.request] = "completed"

\* After a close without failed writes the two bundles tell the same story: each
\* operation of the SDK bundle is a transaction of the access bundle, with its outcome.
BundlesAgree ==
  closing = "closed" /\ faults = 0 =>
    \A r \in Request :
      IF op[r] = "none" THEN r \notin RequestsIn(bundle.receipts)
      ELSE \E t \in ReceiptsIn(bundle.receipts) :
             /\ t.kind = "terminal" /\ t.request = r
             /\ t.disposition = IF op[r] = "censored" THEN "blocked" ELSE op[r]

\* Once the session was interrupted no call completes, though its answer may arrive.
InterruptIsFinal ==
  [][\A r \in Request :
       failed /\ verdict[r] # "completed" => verdict'[r] # "completed"]_vars

\* Every accepted call comes to an end, whatever the child does, and so does close (if
\* SIGTERM ends the child: the code sends nothing stronger).
SessionEnds ==
  /\ \A r \in Request :
       phase[r] = "queued" ~> (phase[r] \in {"done", "threw"} \/ ~Running(Owner))
  /\ closing = "draining" ~> (closing \in {"closed", "failed"} \/ ~Running(Owner))

(***************************************************************************)
(* Why the evidence covers what was dispatched: an inductive invariant.    *)
(* Whatever the owner's recorder holds, or is writing, matches what the    *)
(* SDK recorder knows of the operation and what became of its request; and *)
(* a published bundle extends the owner's list, which then no longer grows *)
(* because the proxy finalizes only with nothing active and nothing queued.*)
(***************************************************************************)

\* The receipts the owner counts, and the one its recorder is writing.
Writing == call[Owner].stage \in {"write", "sync"}
OwnReceipts ==
  ReceiptsIn(memory[Owner]) \cup (IF Writing THEN {call[Owner].receipt} ELSE {})

Allowed(r) == [kind |-> "authorization", request |-> r, decision |-> "allowed"]

OneActive ==
  /\ \A r \in Request :
       phase[r] \in {"deciding", "authorizing", "waiting", "settling", "reporting"}
         <=> active = r
  /\ \A r \in Request : phase[r] = "waiting" <=> pending = r
  /\ Writing => active # None

Queued ==
  /\ \A i \in 1 .. Len(queue) : phase[queue[i]] = "queued"
  /\ \A i, j \in 1 .. Len(queue) : queue[i] = queue[j] => i = j

\* How far an invocation is that may have begun its operation.
Begun == {"authorizing", "waiting", "settling", "reporting", "done", "threw"}

OperationSound ==
  \A r \in Request :
    /\ phase[r] \notin Begun => op[r] = "none" /\ ~written[r]
    /\ phase[r] = "authorizing" => op[r] \in {"open", "censored"} /\ ~written[r]
    /\ phase[r] \in {"waiting", "settling"} => op[r] = "open"
    /\ phase[r] = "settling" => verdict[r] # "none"
    /\ op[r] = "completed" => verdict[r] = "completed"
    /\ verdict[r] = "completed" => [request |-> r, result |-> "ok"] \in answers

ReceiptSound ==
  /\ \A rc \in OwnReceipts :
       /\ rc.kind = "authorization" =>
            /\ op[rc.request] # "none"
            /\ rc.decision = "blocked" <=> op[rc.request] = "censored"
       /\ rc.kind = "terminal" => rc \in reported
  /\ \A t \in reported :
       /\ phase[t.request] \in {"reporting", "done", "threw"}
       /\ op[t.request] \notin {"none", "open"}
       /\ t.disposition = IF op[t.request] = "censored" THEN "blocked" ELSE op[t.request]
       /\ t.written = WriteFact(t.request)
  /\ \A r \in Request : written[r] => Allowed(r) \in ReceiptsIn(memory[Owner])
  /\ faults = 0 /\ life[Owner] \in {"running", "done"} =>
       \A r \in Request : op[r] # "none" => \E rc \in OwnReceipts : rc.request = r

CloseSound ==
  /\ closing \notin {"no", "draining"} => active = None /\ queue = <<>>
  /\ call[Owner].stage \in {"link", "syncdir"} => closing = "finalizing"
  /\ closing = "closed" => life[Owner] = "done"

BundleSound ==
  bundle # None =>
    /\ OpenIn(bundle.receipts) = {}
    /\ ~Overlap =>
         /\ IsPrefix(memory[Owner], bundle.receipts)
         /\ Running(Owner) => closing \notin {"no", "draining"}

ChunksAnswer ==
  /\ \A i \in 1 .. Len(stdout) : stdout[i].answer \in answers
  /\ \A i \in 1 .. Len(buffer) : buffer[i].answer \in answers

ProxyIInv ==
  /\ IInv /\ ProxyTypeOK
  /\ OneActive /\ Queued /\ OperationSound
  /\ ReceiptSound /\ CloseSound /\ BundleSound /\ ChunksAnswer
=============================================================================
