---------------------------- MODULE McpHttpProxy ----------------------------
(***************************************************************************)
(* The authenticated MCP HTTP proxy: the request handlers and close of     *)
(* src/mcp-http-proxy.ts, with the tool adapter of src/mcp-adapter.ts,     *)
(* over the access journal of McpHttpAccess.  What a request asks for is   *)
(* read in McpHttpRequest.                                                 *)
(*                                                                         *)
(* The handlers run in one event loop and interleave at their awaits: the  *)
(* body, the check of the identity (without a managed identity the wait is *)
(* short) and the tool.  What happens between two awaits is one turn.  The *)
(* last turn of a handler appends the receipt, counts the request and      *)
(* replies, in this order.                                                 *)
(*                                                                         *)
(* The SDK recorder is here what it has recorded of each operation; it is  *)
(* the subject of SdkRecorder.  Clients, the tool and the network are      *)
(* external: a client may hang up at any time, the tool may never answer.  *)
(*                                                                         *)
(* A definition named X_Y is a faulty variant of X, kept to show which     *)
(* property notices it.                                                    *)
(***************************************************************************)
EXTENDS McpHttpAccess, McpHttpRequest

VARIABLES
  handler,   \* where the handler of each request is
  gone,      \* whether its client hung up
  called,    \* whether invokeTool was called for it
  op,        \* what the SDK recorder has of it
  adapter,   \* adapterRef
  answered,  \* what was sent back
  counters,  \* ProxyCounters
  closing    \* how far close is

proxyVars == <<handler, gone, called, op, adapter, answered, counters, closing>>
vars == <<accessVars, proxyVars>>

Counter == {"accepted", "blocked", "unauthorized", "malformed"}

HttpTypeOK ==
  /\ TypeOK
  /\ handler \in [Request -> {"unsent", "reading", "checking", "upstream", "replying", "done"}]
  /\ gone \in [Request -> BOOLEAN] /\ called \in [Request -> BOOLEAN]
  /\ op \in [Request -> Verdict \cup {"none", "blocked", "open"}]
  /\ adapter \in {"absent", "unusable", "open", "failing", "finalized"}
  /\ answered \in [Request -> Reason \cup {"none"}]
  /\ counters \in [Counter -> Nat]
  /\ closing \in {"no", "draining", "sealing", "closed", "failed"}

Init ==
  /\ AccessInit
  /\ handler = [r \in Request |-> "unsent"]
  /\ gone = [r \in Request |-> FALSE] /\ called = [r \in Request |-> FALSE]
  /\ op = [r \in Request |-> "none"]
  /\ adapter = "absent"
  /\ answered = [r \in Request |-> "none"]
  /\ counters = [c \in Counter |-> 0]
  /\ closing = "no"

-----------------------------------------------------------------------------

\* No turn is under way.
Free ==
  /\ Running(Owner) /\ call[Owner] = Idle
  /\ \A r \in Request : handler[r] # "replying"
  /\ closing # "sealing"

\* persist: the receipt is appended, and the turn goes on with Reply.
Persist(r, reason, kind, invoked, sdk) ==
  /\ AppendReceipt([request |-> r, reason |-> reason, kind |-> kind,
                    invoked |-> invoked, sdk |-> sdk])
  /\ handler' = [handler EXCEPT ![r] = "replying"]

\* The catch of the handler after the adapter threw: what it did is not known.
CatchInvoked_No == "no"
CatchInvoked == "unknown"
PersistFailure(r) == Persist(r, "internal", "call", CatchInvoked, "none")

\* From now on a file operation of the SDK recorder may fail (and after one that did,
\* others are refused): its constructor, or its calls.
SdkFails ==
  /\ Free
  /\ faults < MaxFaults
  /\ faults' = faults + 1
  /\ adapter' = CASE adapter = "absent" -> "unusable"
                  [] adapter = "open" -> "failing"
                  [] OTHER -> adapter
  /\ adapter' # adapter
  /\ UNCHANGED <<journal, durable, bundle, sealed, life, finalized, memory, call, crashes,
                 handler, gone, called, op, answered, counters, closing>>

\* A request arrives, and may be refused at once.
Receive(r) ==
  /\ Free
  /\ closing \in {"no", "draining"}
  /\ handler[r] = "unsent"
  /\ \E reason \in HeadReasons :
       IF reason = "read"
       THEN handler' = [handler EXCEPT ![r] = "reading"] /\ UNCHANGED accessVars
       ELSE Persist(r, reason, Unknown, "no", "none")
  /\ UNCHANGED <<gone, called, op, adapter, answered, counters, closing>>

\* The body has ended, and is answered without the adapter; or it broke off.
AdapterAfter_Eager == "open"
AdapterAfter == adapter
Settled(r) ==
  /\ Free
  /\ handler[r] = "reading"
  /\ IF gone[r] THEN Persist(r, "internal", Unknown, "no", "none")
     ELSE \E o \in MessageOutcomes :
            o.reason # "start" /\ Persist(r, o.reason, o.kind, "no", "none")
  /\ adapter' = AdapterAfter
  /\ UNCHANGED <<gone, called, op, answered, counters, closing>>

\* A tool call, for which the first one creates the adapter.  If it cannot, the adapter
\* throws, and its directory is there: no later call can create it.
StartTool(r) ==
  /\ Free
  /\ handler[r] = "reading" /\ ~gone[r]
  /\ \E o \in MessageOutcomes : o.reason = "start"
  /\ IF adapter = "unusable" THEN PersistFailure(r) /\ UNCHANGED adapter
     ELSE /\ adapter' = IF adapter = "absent" THEN "open" ELSE adapter
          /\ handler' = [handler EXCEPT ![r] = "checking"]
          /\ UNCHANGED accessVars
  /\ UNCHANGED <<gone, called, op, answered, counters, closing>>

\* The identity was checked and the policy evaluated; a blocked call is recorded and
\* the tool is called for an allowed one.
MayBegin_AfterFinalize == TRUE
MayBegin == adapter \in {"open", "failing"}
Block(r) ==
  /\ Free
  /\ handler[r] = "checking"
  /\ MayBegin
  /\ op' = [op EXCEPT ![r] = "blocked"]
  /\ Persist(r, "blocked", "call", "no", "blocked")
  /\ UNCHANGED <<gone, called, adapter, answered, counters, closing>>

CallTool(r) ==
  /\ Free
  /\ handler[r] = "checking"
  /\ MayBegin
  /\ op' = [op EXCEPT ![r] = "open"]
  /\ called' = [called EXCEPT ![r] = TRUE]
  /\ handler' = [handler EXCEPT ![r] = "upstream"]
  /\ UNCHANGED <<accessVars, gone, adapter, answered, counters, closing>>

\* The recorder is finalized, or cannot record: the adapter throws before the tool.
BeginThrows(r) ==
  /\ Free
  /\ handler[r] = "checking"
  /\ \/ ~MayBegin /\ UNCHANGED op
     \/ adapter = "failing" /\ op' \in {op, [op EXCEPT ![r] = "open"]}
  /\ PersistFailure(r)
  /\ UNCHANGED <<gone, called, adapter, answered, counters, closing>>

\* The tool has answered or failed, and its outcome is recorded.
Record(r, verdict) ==
  /\ Free
  /\ handler[r] = "upstream"
  /\ op' = [op EXCEPT ![r] = verdict]
  /\ Persist(r, verdict, "call", "yes", verdict)
  /\ UNCHANGED <<gone, called, adapter, answered, counters, closing>>

\* It cannot be recorded, or not counted: the adapter throws after the tool.
RecordThrows(r, verdict) ==
  /\ Free
  /\ handler[r] = "upstream"
  /\ adapter = "failing"
  /\ op' \in {op, [op EXCEPT ![r] = verdict]}
  /\ PersistFailure(r)
  /\ UNCHANGED <<gone, called, adapter, answered, counters, closing>>

\* The counter of a request, if it has one.
CountersOf(reason) ==
  CASE reason \in {"completed", "tool_error"} -> {"accepted"}
    [] reason \in (Verdict \ {"completed", "tool_error"}) \cup {"blocked", "unlisted"} -> {"blocked"}
    [] reason = "unauthorized" -> {"unauthorized"}
    [] reason \in {"malformed", "internal"} -> {"malformed"}
    [] OTHER -> {}
Count(reason) ==
  counters' = [c \in Counter |-> counters[c] + IF c \in CountersOf(reason) THEN 1 ELSE 0]

\* The append has returned: the request is counted, and answered if the client still
\* listens.  (A result that is no canonical JSON is not: the second receipt, which the
\* catch asks for, is refused.)  If append threw, the connection is destroyed.
Reply(r) ==
  /\ Running(Owner) /\ call[Owner] = Idle
  /\ handler[r] = "replying"
  /\ handler' = [handler EXCEPT ![r] = "done"]
  /\ IF r \in RequestsIn(memory[Owner])
     THEN \E rc \in ReceiptsIn(memory[Owner]) :
            /\ rc.request = r
            /\ Count(rc.reason)
            /\ \/ answered' = [answered EXCEPT ![r] = IF gone[r] THEN @ ELSE rc.reason]
               \/ rc.reason \in {"completed", "tool_error"} /\ UNCHANGED answered
     ELSE UNCHANGED <<answered, counters>>
  /\ UNCHANGED <<accessVars, gone, called, op, adapter, closing>>

HangUp(r) ==
  /\ Running(Owner)
  /\ handler[r] \in {"reading", "checking", "upstream"}
  /\ ~gone[r]
  /\ gone' = [gone EXCEPT ![r] = TRUE]
  /\ UNCHANGED <<accessVars, handler, called, op, adapter, answered, counters, closing>>

-----------------------------------------------------------------------------
(* close *)

Close ==
  /\ Free
  /\ closing = "no"
  /\ closing' = "draining"
  /\ UNCHANGED <<accessVars, handler, gone, called, op, adapter, answered, counters>>

\* The server is closed once no connection is left, which says nothing of the handlers.
ServerClosed ==
  /\ closing = "draining"
  /\ \A r \in Request : handler[r] \in {"unsent", "done"} \/ gone[r]

\* The adapter is finalized, if there is one.  An SDK recorder with an operation open,
\* or without any, throws.
NothingOpen_Unchecked == TRUE
NothingOpen == \A r \in Request : op[r] # "open"
MayFinalizeAdapter ==
  \/ adapter \in {"absent", "unusable"}
  \/ NothingOpen /\ \E r \in Request : op[r] # "none"
AdapterClosed == IF adapter \in {"absent", "unusable"} THEN adapter ELSE "finalized"

Seal ==
  /\ Free
  /\ ServerClosed
  /\ MayFinalizeAdapter
  /\ adapter' = AdapterClosed
  /\ closing' = "sealing"
  /\ Finalize(Owner)
  /\ UNCHANGED <<handler, gone, called, op, answered, counters>>

SealThrows ==
  /\ Free
  /\ ServerClosed
  /\ ~MayFinalizeAdapter \/ adapter = "failing"
  /\ closing' = "failed"
  /\ adapter' \in {adapter, IF MayFinalizeAdapter THEN "finalized" ELSE adapter}
  /\ UNCHANGED <<accessVars, handler, gone, called, op, answered, counters>>

\* The access recorder's finalize has returned or thrown, and so does close.
Closed ==
  /\ Running(Owner) /\ call[Owner] = Idle
  /\ closing = "sealing"
  /\ closing' = IF Owner \in finalized THEN "closed" ELSE "failed"
  /\ UNCHANGED <<accessVars, handler, gone, called, op, adapter, answered, counters>>

-----------------------------------------------------------------------------

Handle(r) ==
  \/ Receive(r) \/ Settled(r) \/ StartTool(r) \/ Block(r) \/ CallTool(r) \/ BeginThrows(r)
  \/ (\E verdict \in Verdict : Record(r, verdict) \/ RecordThrows(r, verdict))
  \/ Reply(r)

Next ==
  \/ \E r \in Request : Handle(r) \/ HangUp(r)
  \/ SdkFails
  \/ Close \/ Seal \/ SealThrows \/ Closed
  \/ AccessStep /\ UNCHANGED proxyVars

Spec == Init /\ [][Next]_vars

-----------------------------------------------------------------------------

\* README.md:399, "Every request that reaches the Node HTTP request listener is appended
\* and fsynced before its response": what was answered has a receipt that says so, no
\* host crash takes it back, and no bundle, the proxy's or a recovery's, lacks it.
ResponseIsDurable ==
  \A r \in Request : answered[r] # "none" =>
    LET Says(list) == \E rc \in ReceiptsIn(list) : rc.request = r /\ rc.reason = answered[r]
    IN  /\ \E i \in 1 .. durable : Says(journal[i])
        /\ bundle # None => Says(bundle.receipts)

\* What a bundle says of the tool is true, whatever failed on the way: a call said not to
\* have reached it has not, one said to have has, and the SDK recorder knows the outcome.
UpstreamIsTrue ==
  bundle # None =>
    \A rc \in ReceiptsIn(bundle.receipts) :
      /\ rc.invoked = "no" => ~called[rc.request]
      /\ rc.invoked = "yes" => called[rc.request]
      /\ rc.sdk # "none" => op[rc.request] = rc.sdk

\* A close that succeeds hides no call of the tool: each is settled in the SDK bundle, if
\* no file operation failed the two bundles tell the same story of every call, and in any
\* case the counters close reports account for each receipt of the access bundle once,
\* where they overlap as the bundle's own do.  (The two divide the calls differently.)
BundlesAgree ==
  closing = "closed" =>
    /\ \A r \in Request :
         /\ called[r] => op[r] \in Verdict
         /\ faults = 0 /\ op[r] # "none" =>
              \E rc \in ReceiptsIn(bundle.receipts) : rc.request = r /\ rc.sdk = op[r]
    /\ LET derived == CountersFor(bundle.receipts) IN
       /\ counters["unauthorized"] = derived.unauthorized
       /\ counters["malformed"] = derived.malformed
       /\ counters["accepted"] >= derived.accepted
       /\ counters["accepted"] + counters["blocked"]
            <= derived.accepted + derived.blocked + derived.failed
       /\ counters["accepted"] + counters["blocked"] + counters["unauthorized"]
            + counters["malformed"] + derived.metadata = Len(bundle.receipts)

\* Only a client that hung up can make close fail (if no file operation fails).
CloseSucceeds ==
  closing = "failed" /\ faults = 0 => \E r \in Request : gone[r]

\* Once the SDK bundle is final, no handler that is still waiting calls the tool.
NoCallAfterClose ==
  [][adapter = "finalized" => called' = called]_vars

\* A published bundle verifies for ever if no write failed, unless it is a recovery's,
\* and the last line that recovery read was never synced and was lost to a host crash
\* (so that its request was never answered).
SealedVerifies ==
  bundle # None /\ faults = 0 =>
    \/ Verifies
    \/ /\ bundle.recovered /\ bundle.receipts # <<>>
       /\ answered[Last(bundle.receipts).request] = "none"

(***************************************************************************)
(* Why they hold: an inductive invariant.  A request has its receipt from  *)
(* the turn in which its handler ends, and nothing about it changes after; *)
(* what the owner counts is the list of a durable line, and a journal that *)
(* can be recovered is one chain; and once sealing began, whoever has not  *)
(* been answered has hung up.                                              *)
(***************************************************************************)
Sealing == closing \in {"sealing", "closed", "failed"}
Says(list, r) == \E rc \in ReceiptsIn(list) : rc.request = r /\ rc.reason = answered[r]
Writing == call[Owner].stage \in {"write", "sync"}

\* Who is at what.
PendingSound ==
  /\ \A p \in Process :
       /\ call[p].stage # "idle" => Running(p)
       /\ call[p].stage \in {"write", "sync"} => p = Owner /\ call[p].receipt \in Receipt
       /\ p # Owner /\ Running(p) => life[Owner] = "dead"
  /\ life[Owner] # "absent"
  /\ call[Owner].stage \in {"link", "syncdir"} => closing = "sealing"
  /\ Writing =>
       /\ handler[call[Owner].receipt.request] = "replying"
       /\ Owner \notin finalized /\ closing # "sealing"
       /\ ListSound(Append(memory[Owner], call[Owner].receipt))
  /\ ListSound(memory[Owner])

\* What was answered is recorded.
Held ==
  /\ call[Owner].stage = "sync" /\ ~ShortWrites =>
       \E i \in 1 .. Len(journal) : journal[i] = Append(memory[Owner], call[Owner].receipt)
  /\ ~ShortWrites => \/ memory[Owner] = <<>>
                     \/ \E i \in 1 .. durable : journal[i] = memory[Owner]
  /\ \A r \in Request : answered[r] # "none" => handler[r] = "done" /\ Says(memory[Owner], r)
  /\ \A p \in Recoverer : Running(p) /\ ~ShortWrites => IsPrefix(memory[Owner], memory[p])
  /\ Sealing => \A r \in Request : handler[r] \in {"unsent", "done"} \/ gone[r]
  /\ bundle # None =>
       /\ Running(Owner) => Sealing
       /\ ~ShortWrites => \A r \in Request : answered[r] # "none" => Says(bundle.receipts, r)

\* A receipt is true, of a request that is over, and of the kind that goes with its reason.
IsTrue(rc) ==
  /\ handler[rc.request] \in {"replying", "done"}
  /\ rc.invoked = "no" => ~called[rc.request]
  /\ rc.invoked = "yes" => called[rc.request]
  /\ rc.sdk # "none" => op[rc.request] = rc.sdk
  /\ rc.reason \in Verdict \cup {"blocked", "unlisted"} => rc.kind = "call"
  /\ rc.reason = "metadata" => rc.kind = "metadata"
AllTrue(list) == \A rc \in ReceiptsIn(list) : IsTrue(rc)
Truth ==
  /\ \A p \in Process : AllTrue(memory[p])
  /\ Writing => IsTrue(call[Owner].receipt)
  /\ \A i \in 1 .. Len(journal) : AllTrue(journal[i])
  /\ bundle # None => AllTrue(bundle.receipts)

\* How far a call of the tool is.
ToolSound ==
  /\ \A r \in Request :
       /\ handler[r] \in {"unsent", "reading", "checking"} => ~called[r] /\ op[r] = "none"
       /\ handler[r] = "upstream" => called[r] /\ op[r] = "open"
       /\ called[r] => op[r] \in Verdict \cup {"open"}
       /\ op[r] # "none" \/ handler[r] = "checking" => adapter \notin {"absent", "unusable"}
  /\ adapter = "finalized" => NothingOpen /\ Sealing /\ \E r \in Request : op[r] # "none"
  /\ closing \in {"sealing", "closed"} => adapter \notin {"open", "failing"}
  /\ faults = 0 =>
       /\ adapter \notin {"unusable", "failing"}
       /\ \A r \in Request : op[r] = "open" => handler[r] = "upstream"
       /\ adapter # "absent" => \E r \in Request : handler[r] = "checking" \/ op[r] # "none"

\* Each outcome the SDK recorder has is in the journal's story.
Story ==
  faults = 0 /\ (Running(Owner) \/ Owner \in finalized) =>
    \A r \in Request : op[r] \notin {"none", "open"} =>
      \/ \E rc \in ReceiptsIn(memory[Owner]) : rc.request = r /\ rc.sdk = op[r]
      \/ Writing /\ call[Owner].receipt.request = r /\ call[Owner].receipt.sdk = op[r]

\* How far the close is.
ClosingSound ==
  /\ Owner \in finalized \/ call[Owner].stage = "syncdir" =>
       bundle # None /\ bundle.receipts = memory[Owner] /\ ~bundle.recovered
  /\ Owner \in finalized => sealed /\ closing \in {"sealing", "closed"}
  /\ closing = "closed" => Owner \in finalized
  /\ closing \in {"sealing", "closed"} =>
       \A rc \in ReceiptsIn(memory[Owner]) : handler[rc.request] = "done"
  /\ faults = 0 /\ Running(Owner) =>
       /\ bundle # None => call[Owner].stage = "syncdir" \/ Owner \in finalized
       /\ closing = "sealing" => call[Owner].stage \in {"link", "syncdir"} \/ Owner \in finalized

\* A request that is over was counted once.
Counted(c) ==
  {rc \in ReceiptsIn(memory[Owner]) : handler[rc.request] = "done" /\ c \in CountersOf(rc.reason)}
CountSound == \A c \in Counter : counters[c] = Cardinality(Counted(c))

\* Without a fault the journal is one chain, but for a partial line at its end.
Line(i) ==
  /\ Len(journal[i]) = i /\ ListSound(journal[i])
  /\ \A k \in 1 .. i : IsPrefix(journal[k], journal[i])
Torn == journal # <<>> /\ Last(journal) = <<>>
LastUnanswered(list) == answered[Last(list).request] = "none"
ChainSound ==
  /\ Torn => ~Running(Owner)
  /\ \A i \in 1 .. Len(journal) : Line(i) \/ (i = Len(journal) /\ Torn)
  /\ durable < Len(journal) =>
       durable = Len(journal) - 1 /\ (Torn \/ LastUnanswered(Last(journal)))
  /\ Running(Owner) =>
       IF call[Owner].stage = "sync"
       THEN /\ journal # <<>> /\ Last(journal) = Append(memory[Owner], call[Owner].receipt)
       ELSE durable = Len(journal) /\ ListOf(journal) = memory[Owner]
  /\ \A p \in Recoverer : Running(p) => ~Torn /\ memory[p] = ListOf(journal)
  /\ bundle # None =>
       /\ ~bundle.recovered => durable = Len(journal)
       /\ bundle.recovered => life[Owner] = "dead"
       /\ \/ ~Torn /\ bundle.receipts = ListOf(journal)
          \/ bundle.recovered /\ bundle.receipts # <<>> /\ LastUnanswered(bundle.receipts)

IInv ==
  /\ HttpTypeOK /\ PendingSound /\ Held /\ Truth /\ ToolSound /\ Story /\ ClosingSound
  /\ CountSound /\ CloseSucceeds
  /\ faults = 0 => ChainSound
=============================================================================
