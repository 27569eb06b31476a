--------------------------- MODULE McpStdioSession ---------------------------
(***************************************************************************)
(* The stdio proxy under either version of its configuration.  Version 1   *)
(* is McpStdioProxy as it stands.  Version 2 pins one MCP session: the     *)
(* child is initialized, its tool list is read and compared with the       *)
(* pinned schemas before every call, it may send progress, pings and       *)
(* list_changed, and src/mcp-session-evidence.ts journals each message.    *)
(*                                                                         *)
(* Control messages go through the same exchange as calls, so one is       *)
(* pending at a time.  A tool list is one page here (the code follows up   *)
(* to four cursors, each the same exchange again).  Of the session journal *)
(* only the number of its rows matters: an append of a sealed row is whole *)
(* or throws, and throws once the journal is full.                         *)
(*                                                                         *)
(* A definition named X_Y is a faulty variant of X, kept to show which     *)
(* property notices it.                                                    *)
(***************************************************************************)
EXTENDS McpStdioProxy, SequencesExt

CONSTANTS Versions,  \* the configuration versions considered, 1 and 2
          MaxRows,   \* rows the session journal takes (4096 in the code)
          MaxNoise   \* bound: lines the child prints that answer nothing

ASSUME SessionAssumption ==
  /\ Versions \subseteq {1, 2} /\ MaxRows \in Nat \ {0} /\ MaxNoise \in Nat
  /\ (Request \cup {None}) \cap {"control", "ping", "list_changed", "progress"} = {}

VARIABLES
  version,   \* of the configuration
  stage,     \* "off", "initializing", "listing" or "ready" (sessionReady)
  control,   \* the control call awaited: "none", "checking" its identity, or "sent"
  epoch,     \* catalogEpoch
  listed,    \* the epoch at which the tool list in progress, or the last, was begun
  refreshes, \* refreshesRemaining
  rows,      \* rows of the session journal
  catalog,   \* whether the child's tools are the pinned ones
  vouched,   \* calls during whose listing the child named the pinned tools
  noise      \* lines the child printed that answer nothing

sessionVars == <<version, stage, control, epoch, listed, refreshes, rows, catalog,
                 vouched, noise>>
svars == <<vars, sessionVars>>

SessionInit ==
  /\ ProxyInit
  /\ version \in Versions
  /\ IF version = 1 THEN stage = "off" /\ control = "none" /\ rows = 0
     ELSE stage = "initializing" /\ control = "checking" /\ rows = 1
  /\ epoch = 0 /\ listed = 0 /\ refreshes = 0
  /\ catalog = "pinned" /\ vouched = {} /\ noise = 0

\* The proxy exists for its callers once startAuthenticatedMcpStdioProxy has returned.
Started == stage \in {"off", "ready"}
Discovering == {r \in Request : phase[r] = "discovering"}
Full == rows >= MaxRows

-----------------------------------------------------------------------------
(* Control calls.                                                          *)

\* failSession, with the invocation or the start that it ends.
Killed == child' = Signalled("sigkill")
SessionThrows ==
  /\ failed' = TRUE
  /\ control' = "none"
  /\ phase' = [r \in Request |-> IF r \in Discovering THEN "threw" ELSE phase[r]]
  /\ closing' = IF Started THEN closing ELSE "draining"
  /\ Killed

\* discover is begun, or begun again.
List(remaining) ==
  /\ control' = "checking"
  /\ refreshes' = remaining

\* invokeSerial of version 2: the tool list is read anew for each call.
NeedsListing_WhenTold == epoch # listed
NeedsListing == TRUE
SessionStart ==
  /\ version = 2
  /\ AtRest
  /\ MayStart /\ Discovering = {}
  /\ queue # <<>>
  /\ queue' = Tail(queue)
  /\ LET r == Head(queue) IN
     IF failed
     THEN /\ phase' = [phase EXCEPT ![r] = "threw"]
          /\ UNCHANGED <<active, adapter, control, refreshes, listed>>
     ELSE IF NeedsListing
     THEN /\ phase' = [phase EXCEPT ![r] = "discovering"]
          /\ List(1)
          /\ listed' = epoch
          /\ UNCHANGED <<active, adapter>>
     ELSE /\ phase' = [phase EXCEPT ![r] = IF exited THEN "threw" ELSE "deciding"]
          /\ active' = IF exited THEN None ELSE r
          /\ adapter' = IF exited THEN adapter ELSE "open"
          /\ UNCHANGED <<control, refreshes, listed>>
  /\ UNCHANGED <<accessVars, written, verdict, pending, buffer, failed, closing,
                 exited, op, childVars, version, stage, epoch, rows, catalog, vouched, noise>>

\* control: the identity is checked and the message journalled and written.
ControlSend ==
  /\ AtRest
  /\ control = "checking"
  /\ ~exited /\ ~Full
  /\ control' = "sent"
  /\ pending' = "control"
  /\ rows' = rows + 1
  /\ stdin' = IF child = "gone" THEN stdin ELSE Append(stdin, "control")
  /\ UNCHANGED <<accessVars, queue, phase, active, written, verdict, buffer, failed,
                 closing, exited, op, adapter, child, stdout, answers, version,
                 stage, epoch, listed, refreshes, catalog, vouched, noise>>

\* The identity is refused, the child is gone or the journal full.
ControlRefused ==
  /\ AtRest
  /\ control = "checking"
  /\ SessionThrows
  /\ UNCHANGED <<accessVars, queue, active, written, verdict, pending, buffer, exited,
                 op, adapter, stdin, stdout, answers, version, stage, epoch,
                 listed, refreshes, rows, catalog, vouched, noise>>

\* The response to a control call does not come: a timeout, the exit of the child, a
\* failed write to it, or an interrupt, rejects the exchange.
ControlLost ==
  /\ AtRest
  /\ pending = "control"
  /\ \/ UNCHANGED exited
     \/ child = "gone" /\ ~exited /\ exited' = TRUE
  /\ pending' = None
  /\ SessionThrows
  /\ UNCHANGED <<accessVars, queue, active, written, verdict, buffer, op, adapter,
                 stdin, stdout, answers, version, stage, epoch, listed,
                 refreshes, rows, catalog, vouched, noise>>

-----------------------------------------------------------------------------
(* onSessionStdout.                                                        *)

\* Progress must carry the token of the call in flight.
Token == IF active # None /\ phase[active] = "waiting" THEN active ELSE None

\* The whole lines are handled in their order up to the first that fails the session.
\* Each is a row of the journal, and so is the answer to a ping.  Fails: a line the
\* journal has no row for, progress of no call, and any other message that is not the
\* response awaited, be it a second one.
Event(lines) ==
  LET whole == {i \in DOMAIN lines : lines[i].part # "head"}
      Are(what) == {i \in whole : lines[i].answer.request = what}
      Rows(n) == rows + Cardinality({i \in whole : i <= n})
                      + Cardinality({i \in Are("ping") : i <= n})
      response == IF pending = None THEN {}
                  ELSE {i \in Are(pending) : \A j \in Are(pending) : i <= j}
      failing == {i \in whole :
                    \/ Rows(i - 1) >= MaxRows
                    \/ i \in Are("ping") /\ Rows(i) > MaxRows
                    \/ i \in Are("progress") /\ Token = None
                    \/ i \notin Are("ping") \cup Are("progress") \cup Are("list_changed")
                                 \cup response}
      heeded == {i \in whole : \A j \in failing : i < j}
      needed == rows + Cardinality({i \in whole : \A j \in failing : i <= j})
                     + Cardinality({i \in Are("ping") : \A j \in failing : i <= j})
  IN  [fail |-> failing # {},
       rows |-> IF needed > MaxRows THEN MaxRows ELSE needed,
       epoch |-> epoch + Cardinality(heeded \cap Are("list_changed")),
       got |-> IF heeded \cap response = {} THEN "nothing"
               ELSE lines[CHOOSE i \in response : TRUE].answer.result]

\* A call whose response was among them completes unless the session has failed by the
\* time it resumes; one whose response was not is rejected with the session.
Resumed(e) ==
  IF e.got = "ok" /\ ~e.fail /\ ~failed THEN "completed" ELSE "tool_failure"

SessionCallData(e) ==
  /\ pending' = IF e.fail \/ e.got # "nothing" THEN None ELSE pending
  /\ IF e.got # "nothing" \/ (e.fail /\ pending # None)
     THEN /\ phase' = [phase EXCEPT ![pending] = "settling"]
          /\ verdict' = [verdict EXCEPT ![pending] = Resumed(e)]
     ELSE UNCHANGED <<phase, verdict>>
  /\ IF e.fail THEN failed' = TRUE /\ Killed ELSE UNCHANGED <<failed, child>>
  /\ rows' = e.rows
  /\ UNCHANGED <<active, closing, adapter, stage, control, listed, refreshes>>

\* A control call resumes: initialize is followed by a notification and the first list,
\* a list by another if list_changed came meanwhile, else by what waited for it.
SessionControlData(e) ==
  /\ UNCHANGED verdict
  /\ IF e.got = "nothing" /\ ~e.fail
     THEN /\ rows' = e.rows
          /\ UNCHANGED <<pending, phase, failed, child, active, closing, adapter, stage,
                         control, listed, refreshes>>
     ELSE /\ pending' = None
          /\ \/ /\ \/ e.fail \/ failed \/ e.got = "error"
                   \/ stage = "initializing" /\ e.rows >= MaxRows
                   \/ stage # "initializing" /\ e.epoch # listed /\ refreshes = 0
                /\ SessionThrows
                /\ rows' = e.rows
                /\ UNCHANGED <<active, adapter, stage, listed, refreshes>>
             \/ /\ ~e.fail /\ ~failed /\ e.got = "ok"
                /\ \/ /\ stage = "initializing" /\ e.rows < MaxRows
                      /\ stage' = "listing" /\ rows' = e.rows + 1
                      /\ List(1) /\ listed' = e.epoch
                      /\ UNCHANGED <<phase, active, adapter>>
                   \/ /\ stage # "initializing" /\ e.epoch # listed /\ refreshes > 0
                      /\ List(refreshes - 1) /\ listed' = e.epoch
                      /\ rows' = e.rows
                      /\ UNCHANGED <<phase, active, adapter, stage>>
                   \/ /\ stage # "initializing" /\ e.epoch = listed
                      /\ stage' = "ready" /\ control' = "none" /\ rows' = e.rows
                      /\ IF Discovering = {} THEN UNCHANGED <<phase, active, adapter>>
                         ELSE \E r \in Discovering :
                                /\ phase' = [phase EXCEPT ![r] = "deciding"]
                                /\ active' = r
                                /\ adapter' = "open"
                      /\ UNCHANGED <<listed, refreshes>>
                /\ UNCHANGED <<failed, child, closing>>

SessionData ==
  /\ version = 2
  /\ AtRest
  /\ \E n \in 1 .. Len(stdout) :
       LET lines == buffer \o SubSeq(stdout, 1, n)
           e == Event(lines)
       IN  /\ stdout' = SubSeq(stdout, n + 1, Len(stdout))
           /\ buffer' = IF e.fail \/ lines[Len(lines)].part # "head" THEN <<>>
                        ELSE <<lines[Len(lines)]>>
           /\ epoch' = e.epoch
           /\ IF pending = "control" THEN SessionControlData(e) ELSE SessionCallData(e)
  /\ UNCHANGED <<accessVars, queue, written, exited, op, stdin, answers,
                 version, catalog, vouched, noise>>

-----------------------------------------------------------------------------
(* The other events and calls, in either version.                          *)

SessionDispatch ==
  /\ Dispatch
  /\ IF version = 1 THEN UNCHANGED rows ELSE ~Full /\ rows' = rows + 1
  /\ UNCHANGED <<version, stage, control, epoch, listed, refreshes, catalog, vouched, noise>>

\* interrupt cancels a call in flight if the journal takes the row.
SessionInterrupt ==
  /\ Started
  /\ pending # "control"
  /\ Interrupt
  /\ rows' = IF version = 2 /\ pending # None /\ ~exited /\ ~Full THEN rows + 1 ELSE rows
  /\ UNCHANGED <<version, stage, control, epoch, listed, refreshes, catalog, vouched, noise>>

\* finish appends the last row after both bundles are published, or throws.
SessionClosed ==
  /\ IF version = 1 \/ ~Full
     THEN Closed
     ELSE /\ life[Owner] = "done"
          /\ closing = "finalizing"
          /\ closing' = "failed"
          /\ UNCHANGED <<accessVars, queue, phase, active, written, verdict, pending,
                         buffer, failed, exited, op, adapter, childVars>>
  /\ rows' = IF version = 2 /\ ~Full THEN rows + 1 ELSE rows
  /\ UNCHANGED <<version, stage, control, epoch, listed, refreshes, catalog, vouched, noise>>

\* What version 2 leaves as it is.
CommonStep ==
  \/ version = 1 /\ (Start \/ Data)
  \/ Refuse \/ (\E decision \in {"allowed", "blocked"} : Decide(decision))
  \/ NotPersisted \/ NotDispatched \/ Settle \/ SettleBlocked \/ SettleThrows \/ Finish
  \/ pending # "control" /\ (GiveUp \/ ExitEvent \/ StdinError)
  \/ Discovering = {} /\ control = "none" /\ Drained
  \/ Terminated \/ FinalizeAccess \/ CloseThrows

CommonCall ==
  Started /\ (Close \/ \E r \in Request : Invoke(r))

-----------------------------------------------------------------------------
(* The child.                                                              *)

\* It answers a control message; the pinned tools, when that is what it has, vouch for
\* the call that asked.
ChildControls ==
  /\ ChildLives
  /\ stdin # <<>> /\ Head(stdin) = "control"
  /\ stdin' = Tail(stdin)
  /\ \E result \in {"ok", "error"} :
       /\ result = "ok" => stage = "initializing" \/ catalog = "pinned"
       /\ stdout' = Append(stdout, [answer |-> [request |-> "control", result |-> result],
                                    part |-> "whole"])
       /\ vouched' = IF result = "ok" /\ stage # "initializing" THEN vouched \cup Discovering
                     ELSE vouched
  /\ UNCHANGED <<accessVars, proxyVars, child, answers, version, stage, control,
                 epoch, listed, refreshes, rows, catalog, noise>>

\* It changes its tools.
ChildUpgrades ==
  /\ ChildLives /\ version = 2
  /\ catalog = "pinned"
  /\ catalog' = "other"
  /\ UNCHANGED <<vars, version, stage, control, epoch, listed, refreshes, rows, vouched, noise>>

\* In version 2 a message of the protocol, in either a line that answers no request.
Unasked == IF version = 2 THEN {None, "ping", "list_changed", "progress"} ELSE {None}
ChildNotifies ==
  /\ ChildLives
  /\ noise < MaxNoise
  /\ noise' = noise + 1
  /\ \E what \in Unasked :
       stdout' = Append(stdout, [answer |-> [request |-> what, result |-> "ok"],
                                 part |-> "whole"])
  /\ UNCHANGED <<accessVars, proxyVars, child, stdin, answers, version, stage, control,
                 epoch, listed, refreshes, rows, catalog, vouched>>

ChildReplies == (stdin # <<>> => Head(stdin) # "control") /\ ChildAnswers

-----------------------------------------------------------------------------

SessionStep ==
  \/ CommonStep /\ UNCHANGED sessionVars
  \/ SessionStart \/ ControlSend \/ ControlRefused \/ ControlLost \/ SessionData
  \/ SessionDispatch \/ SessionClosed

SessionNext ==
  \/ SessionStep
  \/ CommonCall /\ UNCHANGED sessionVars
  \/ SessionInterrupt
  \/ (ChildReplies \/ ChildIgnores \/ ChildExits) /\ UNCHANGED sessionVars
  \/ ChildControls \/ ChildUpgrades \/ ChildNotifies
  \/ AccessStep /\ UNCHANGED <<proxyVars, childVars, sessionVars>>

\* As for McpStdioProxy; the check of the identity comes back too.
SessionFairness ==
  /\ WF_svars(SessionStep)
  /\ WF_svars(ChildObeys /\ UNCHANGED sessionVars)
  /\ WF_svars(Progress(Owner) /\ UNCHANGED <<proxyVars, childVars, sessionVars>>)

SessionSpec == SessionInit /\ [][SessionNext]_svars /\ SessionFairness

-----------------------------------------------------------------------------

\* In a version 2 session a call reaches the child only if, since that call's turn came,
\* the child itself named the pinned tools: a change of the tools that is not announced,
\* announced late, or announced between two calls, is noticed before the call.
SessionCallIsPinned ==
  \A r \in Request : version = 2 /\ written[r] => r \in vouched

\* Close fails only if a write failed, an invocation threw, the session could not be
\* opened, or its journal is full: no race with answers, timeouts, the child's exit or
\* an interrupt can leave a session unsealable.
CloseSucceeds ==
  closing = "failed" /\ faults = 0 =>
    \/ \E r \in Request : phase[r] = "threw"
    \/ version = 2 /\ (~Started \/ Full)

(***************************************************************************)
(* Why a call is pinned and a session can be closed: an inductive          *)
(* invariant.  Until the session fails at most one control message is on   *)
(* its way, and only while the proxy waits for it; so the listing a call   *)
(* is let through on was given while that call waited for it.              *)
(***************************************************************************)
Message == {"control", "ping", "list_changed", "progress"}
Line == [answer : [request : Request \cup {None} \cup Message, result : {"ok", "error"}],
         part : {"whole", "head", "rest"}]

InvocationTypeOK ==
  /\ TypeOK
  /\ queue \in Seq(Request)
  /\ phase \in [Request -> Phase \cup {"discovering"}]
  /\ active \in Request \cup {None}
  /\ written \in [Request -> BOOLEAN]
  /\ verdict \in [Request -> {"none", "completed", "tool_failure"}]
  /\ op \in [Request -> {"none", "censored", "open", "completed", "tool_failure"}]

SessionTypeOK ==
  /\ InvocationTypeOK
  /\ pending \in Request \cup {None, "control"}
  /\ failed \in BOOLEAN
  /\ stdin \in Seq(Request \cup {"control"})
  /\ stdout \in Seq(Line) /\ buffer \in Seq(Line)
  /\ version \in {1, 2}
  /\ stage \in {"off", "initializing", "listing", "ready"}
  /\ control \in {"none", "checking", "sent"}
  /\ rows \in Nat

\* Of the lines that answer a call the child gave the answer.
LinesAnswer ==
  /\ \A i \in 1 .. Len(stdout) :
       stdout[i].answer.request \in Request => stdout[i].answer \in answers
  /\ \A i \in 1 .. Len(buffer) :
       buffer[i].answer.request \in Request => buffer[i].answer \in answers

\* A control call is awaited only during the start, or by the one call whose turn it is.
ControlSound ==
  /\ version = 1 <=> stage = "off"
  /\ version = 1 => control = "none"
  /\ pending = "control" <=> control = "sent"
  /\ control # "none" => active = None /\ closing \in {"no", "draining"}
  /\ control # "none" /\ Started <=> Discovering # {}
  /\ \A q, r \in Discovering : q = r
  /\ ~Started => queue = <<>> /\ active = None /\ (closing # "no" => control = "none")

AskedAt == {i \in 1 .. Len(stdin) : stdin[i] = "control"}
ToldAt == {i \in 1 .. Len(stdout) : stdout[i].answer.request = "control"}

OneControl ==
  /\ \A i \in ToldAt : stdout[i].part = "whole"
  /\ version = 2 => \A i \in 1 .. Len(buffer) : buffer[i].part = "head"
  /\ ~failed =>
       /\ AskedAt \cup ToldAt # {} => pending = "control"
       /\ AskedAt = {} \/ ToldAt = {}
       /\ \A i, j \in AskedAt : i = j
       /\ \A i, j \in ToldAt : i = j
       /\ \A i \in ToldAt : stdout[i].answer.result = "ok" /\ stage # "initializing"
                          => Discovering \subseteq vouched

Pinned ==
  version = 2 =>
    \A r \in Request :
      phase[r] \in {"deciding", "authorizing", "waiting"} \/ written[r] => r \in vouched

\* What an invocation leaves behind: only one that threw leaves anything open.
Ended ==
  /\ \A r \in Request :
       /\ phase[r] = "reporting" => r \in RequestsIn(memory[Owner])
       /\ phase[r] = "done" =>
            /\ op[r] \notin {"none", "open"}
            /\ \E t \in ReceiptsIn(memory[Owner]) : t.kind = "terminal" /\ t.request = r
  /\ adapter # "absent" =>
       \E r \in Request : phase[r] \notin {"new", "queued", "discovering"}

\* Without a failed write the owner alone publishes, and its finalize returns.
Sealing ==
  ~Overlap /\ faults = 0 /\ Running(Owner) =>
    /\ bundle = None \/ call[Owner].stage = "syncdir"
    /\ closing = "finalizing" => call[Owner].stage \in {"link", "syncdir"}

\* What holds of the invocations under either version, and of the proxy by itself.
InvocationInv ==
  /\ IInv /\ InvocationTypeOK
  /\ OneActive /\ Queued /\ OperationSound /\ ReceiptSound /\ CloseSound /\ BundleSound

SessionIInv ==
  /\ InvocationInv /\ SessionTypeOK
  /\ LinesAnswer /\ ControlSound /\ OneControl /\ Pinned
  /\ Ended /\ Sealing /\ (~Overlap => CloseSucceeds)
=============================================================================
