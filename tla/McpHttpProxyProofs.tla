------------------------- MODULE McpHttpProxyProofs -------------------------
(***************************************************************************)
(* Proofs about McpHttpProxy, for any number of requests, recoverers,      *)
(* faults and crashes, and any configuration of routes.                    *)
(***************************************************************************)
EXTENDS McpHttpProxy, FiniteSetTheorems, TLAPS

-----------------------------------------------------------------------------
(* Lists *)

LEMMA PrefixMeans ==
  ASSUME NEW S, NEW s \in Seq(S), NEW t \in Seq(S)
  PROVE  IsPrefix(s, t) <=> Len(s) <= Len(t) /\ \A i \in 1 .. Len(s) : s[i] = t[i]
<1>1. Len(s) <= Len(t) =>
        (SubSeq(s, 1, Len(s)) = SubSeq(t, 1, Len(s))
           <=> \A i \in 1 .. Len(s) : s[i] = t[i])
  OBVIOUS
<1> QED BY <1>1 DEF IsPrefix

LEMMA PrefixGrows ==
  ASSUME NEW S, NEW s \in Seq(S), NEW t \in Seq(S), NEW e \in S
  PROVE  /\ IsPrefix(s, s)
         /\ IsPrefix(<<>>, s)
         /\ IsPrefix(s, t) => IsPrefix(s, Append(t, e))
<1>1. Append(t, e) \in Seq(S) /\ <<>> \in Seq(S)
  OBVIOUS
<1>2. Len(Append(t, e)) = Len(t) + 1 /\ \A i \in 1 .. Len(t) : Append(t, e)[i] = t[i]
  OBVIOUS
<1>3. IsPrefix(s, t) => IsPrefix(s, Append(t, e))
  <2> SUFFICES ASSUME IsPrefix(s, t) PROVE IsPrefix(s, Append(t, e))
    OBVIOUS
  <2>1. Len(s) <= Len(t) /\ \A i \in 1 .. Len(s) : s[i] = t[i]
    BY PrefixMeans
  <2>2. Len(s) \in Nat /\ Len(t) \in Nat
    OBVIOUS
  <2>3. Len(s) <= Len(Append(t, e)) /\ \A i \in 1 .. Len(s) : s[i] = Append(t, e)[i]
    BY <2>1, <2>2, <1>2
  <2> QED BY <2>3, <1>1, PrefixMeans
<1>4. IsPrefix(s, s)
  BY PrefixMeans
<1>5. IsPrefix(<<>>, s)
  BY <1>1 DEF IsPrefix
<1> QED BY <1>3, <1>4, <1>5

LEMMA InPrefix ==
  ASSUME NEW S, NEW s \in Seq(S), NEW t \in Seq(S), IsPrefix(s, t)
  PROVE  ReceiptsIn(s) \subseteq ReceiptsIn(t)
<1>1. Len(s) <= Len(t) /\ \A i \in 1 .. Len(s) : s[i] = t[i]
  BY PrefixMeans
<1>2. DOMAIN s = 1 .. Len(s) /\ DOMAIN t = 1 .. Len(t) /\ Len(s) \in Nat /\ Len(t) \in Nat
  OBVIOUS
<1> QED BY <1>1, <1>2 DEF ReceiptsIn

LEMMA InAppend ==
  ASSUME NEW list \in Seq(Receipt), NEW rc \in Receipt
  PROVE  /\ Append(list, rc) \in Seq(Receipt)
         /\ Append(list, rc) # <<>> /\ Last(Append(list, rc)) = rc
         /\ Len(Append(list, rc)) = Len(list) + 1
         /\ \A i \in 1 .. Len(list) : Append(list, rc)[i] = list[i]
         /\ Append(list, rc)[Len(list) + 1] = rc
         /\ ReceiptsIn(Append(list, rc)) = ReceiptsIn(list) \cup {rc}
<1> DEFINE longer == Append(list, rc)
<1>1. /\ longer \in Seq(Receipt) /\ Len(list) \in Nat
      /\ Len(longer) = Len(list) + 1 /\ DOMAIN longer = 1 .. Len(list) + 1
      /\ DOMAIN list = 1 .. Len(list)
      /\ \A i \in 1 .. Len(list) : longer[i] = list[i]
      /\ longer[Len(list) + 1] = rc
  OBVIOUS
<1> HIDE DEF longer
<1>2. \A i \in 1 .. Len(list) + 1 : i \in 1 .. Len(list) \/ i = Len(list) + 1
  BY <1>1
<1>3. ReceiptsIn(longer) = ReceiptsIn(list) \cup {rc}
  BY <1>1, <1>2 DEF ReceiptsIn
<1>4. longer # <<>> /\ Last(longer) = rc
  BY <1>1 DEF Last
<1> QED BY <1>1, <1>3, <1>4 DEF longer

LEMMA InList ==
  ASSUME NEW list \in Seq(Receipt)
  PROVE  /\ ReceiptsIn(list) \subseteq Receipt
         /\ Len(list) \in Nat /\ DOMAIN list = 1 .. Len(list)
         /\ list # <<>> => Len(list) > 0 /\ Last(list) \in ReceiptsIn(list)
<1>1. Len(list) \in Nat /\ DOMAIN list = 1 .. Len(list)
  OBVIOUS
<1>2. \A i \in 1 .. Len(list) : list[i] \in Receipt
  OBVIOUS
<1>3. list # <<>> => Len(list) > 0
  OBVIOUS
<1>4. list # <<>> => Last(list) = list[Len(list)] /\ Len(list) \in 1 .. Len(list)
  BY <1>1, <1>3 DEF Last
<1> QED BY <1>1, <1>2, <1>3, <1>4 DEF ReceiptsIn

-----------------------------------------------------------------------------
(* What a request may be answered with before the adapter *)

LEMMA HeadReasonMeans ==
  ASSUME NEW reason \in HeadReasons
  PROVE  reason \in {"unauthorized", "malformed", "internal", "read"}
<1>1. PICK h \in RequestHead : reason = HeadReason(h)
  BY DEF HeadReasons
<1>2. \A failure : Classified(failure) \in {"malformed", "internal"}
  BY DEF Classified
<1> QED BY <1>1, <1>2 DEF HeadReason

KindFits(reason, kind) ==
  /\ reason \in Verdict \cup {"blocked", "unlisted"} => kind = "call"
  /\ reason = "metadata" => kind = "metadata"

LEMMA MessageOutcomeMeans ==
  ASSUME NEW o \in MessageOutcomes
  PROVE  /\ o.reason \in {"malformed", "internal", "metadata", "start", "unlisted"}
         /\ o.kind \in {"call", "metadata", "unknown"}
         /\ KindFits(o.reason, o.kind)
<1>1. PICK server \in Server, m \in Message :
        o = [reason |-> MessageReason(server, m), kind |-> MessageKind(m)]
  BY DEF MessageOutcomes
<1>2. \A failure : Classified(failure) \in {"malformed", "internal"}
  BY DEF Classified
<1>3. KindOf(m.method) \in {"call", "metadata", "unknown"}
  BY DEF KindOf, Unknown
<1>4. m.method \in Method
  BY DEF Message
<1>5. CASE m.form = "null" \/ ~Parsed(m)
  <2>1. ~Parsed(m)
    BY <1>5 DEF Parsed
  <2>2. o.kind = "unknown"
    BY <1>1, <2>1 DEF MessageKind, Unknown
  <2>3. o.reason \in {"malformed", "internal"}
    BY <1>1, <1>2, <2>1 DEF MessageReason
  <2> QED BY <2>2, <2>3 DEF KindFits, Verdict
<1>6. CASE m.form # "null" /\ Parsed(m)
  <2>1. o.kind = KindOf(m.method)
    BY <1>1, <1>6 DEF MessageKind
  <2>2. CASE ~HeadersSound(m) \/ ~EnvelopeSound(m)
    BY <1>1, <1>2, <1>3, <1>6, <2>1, <2>2 DEF MessageReason, KindFits, Verdict
  <2>3. CASE HeadersSound(m) /\ EnvelopeSound(m)
    <3>1. CASE KindOf(m.method) = "metadata"
      BY <1>1, <1>2, <1>6, <2>1, <2>3, <3>1 DEF MessageReason, KindFits, Verdict
    <3>2. CASE KindOf(m.method) # "metadata" /\ m.method = Unknown
      BY <1>1, <1>2, <1>3, <1>6, <2>1, <2>3, <3>2 DEF MessageReason, KindFits, Verdict
    <3>3. CASE KindOf(m.method) # "metadata" /\ m.method # Unknown
      <4>1. o.kind = "call"
        BY <1>4, <2>1, <3>3 DEF KindOf, Method
      <4>2. o.reason \in {"malformed", "internal", "start", "unlisted"}
        BY <1>1, <1>2, <1>6, <2>3, <3>3 DEF MessageReason
      <4> QED BY <4>1, <4>2 DEF KindFits, Verdict
    <3> QED BY <3>1, <3>2, <3>3
  <2> QED BY <2>2, <2>3
<1> QED BY <1>5, <1>6

-----------------------------------------------------------------------------
(* The turns *)

\* A turn of r that ends with the receipt rc.
Recorded(r, rc) ==
  \/ op' = op /\ rc.sdk = "none" /\ handler[r] \in {"unsent", "reading"}
  \/ op' = op /\ rc.sdk = "none" /\ handler[r] = "checking" /\ ~MayBegin
  \/ /\ op' = [op EXCEPT ![r] = rc.sdk]
     /\ \/ handler[r] = "checking" /\ MayBegin /\ rc.sdk = "blocked"
        \/ handler[r] = "upstream" /\ rc.sdk \in Verdict
  \/ /\ adapter = "failing" /\ rc.sdk = "none"
     /\ \/ handler[r] = "checking" /\ op' \in {op, [op EXCEPT ![r] = "open"]}
        \/ /\ handler[r] = "upstream"
           /\ \E verdict \in Verdict : op' \in {op, [op EXCEPT ![r] = verdict]}
Ends(r, rc) ==
  /\ Free
  /\ rc \in Receipt /\ rc.request = r
  /\ OutcomeSound(rc) /\ KindFits(rc.reason, rc.kind)
  /\ handler[r] \in {"unsent", "reading", "checking", "upstream"}
  /\ handler[r] = "unsent" => closing \in {"no", "draining"}
  /\ rc.invoked = "no" => handler[r] # "upstream"
  /\ rc.invoked = "yes" => handler[r] = "upstream"
  /\ AppendReceipt(rc)
  /\ handler' = [handler EXCEPT ![r] = "replying"]
  /\ Recorded(r, rc)
  /\ UNCHANGED <<gone, called, adapter, answered, counters, closing>>

\* A turn that ends without one.
Reads(r) ==
  /\ Free
  /\ closing \in {"no", "draining"}
  /\ handler[r] = "unsent"
  /\ handler' = [handler EXCEPT ![r] = "reading"]
  /\ UNCHANGED <<accessVars, gone, called, op, adapter, answered, counters, closing>>
Checks(r) ==
  /\ Free
  /\ handler[r] = "reading" /\ ~gone[r] /\ adapter # "unusable"
  /\ adapter' = IF adapter = "absent" THEN "open" ELSE adapter
  /\ handler' = [handler EXCEPT ![r] = "checking"]
  /\ UNCHANGED <<accessVars, gone, called, op, answered, counters, closing>>

EndsSome == \E r \in Request : \E rc \in Receipt : Ends(r, rc)

LEMMA EndsBy ==
  ASSUME NEW r \in Request, NEW reason \in Reason, NEW kind \in {"call", "metadata", "unknown"},
         NEW invoked \in {"yes", "no", "unknown"}, NEW sdk \in Verdict \cup {"blocked", "none"},
         Free, Persist(r, reason, kind, invoked, sdk),
         KindFits(reason, kind),
         sdk # "none" => kind = "call",
         invoked = "no" => sdk \in {"none", "blocked"} /\ handler[r] # "upstream",
         invoked = "yes" => handler[r] = "upstream",
         handler[r] \in {"unsent", "reading", "checking", "upstream"},
         handler[r] = "unsent" => closing \in {"no", "draining"},
         \A rc : rc.sdk = sdk => Recorded(r, rc),
         UNCHANGED <<gone, called, adapter, answered, counters, closing>>
  PROVE  EndsSome
<1> DEFINE rc == [request |-> r, reason |-> reason, kind |-> kind,
                  invoked |-> invoked, sdk |-> sdk]
<1>1. rc \in Receipt
  BY DEF Receipt
<1>2. /\ rc.request = r /\ rc.reason = reason /\ rc.kind = kind
      /\ rc.invoked = invoked /\ rc.sdk = sdk
  OBVIOUS
<1>3. AppendReceipt(rc) /\ handler' = [handler EXCEPT ![r] = "replying"]
  BY DEF Persist
<1> HIDE DEF rc
<1>4. Recorded(r, rc)
  BY <1>2
<1>5. OutcomeSound(rc)
  BY <1>2 DEF OutcomeSound
<1>6. Ends(r, rc)
  BY <1>1, <1>2, <1>3, <1>4, <1>5 DEF Ends
<1> QED BY <1>1, <1>6 DEF EndsSome

LEMMA Reasons ==
  /\ Verdict \subseteq Reason /\ "blocked" \notin Verdict /\ "none" \notin Verdict
  /\ {"unauthorized", "malformed", "unlisted", "metadata", "blocked", "internal"} \subseteq Reason
  /\ {"unauthorized", "malformed", "unlisted", "metadata", "blocked", "internal"}
       \cap Verdict = {}
BY DEF Verdict, Reason, Refused

LEMMA ReceiveEnds ==
  ASSUME NEW r \in Request, Receive(r)
  PROVE  EndsSome \/ Reads(r)
<1>1. PICK reason \in HeadReasons :
        IF reason = "read"
        THEN handler' = [handler EXCEPT ![r] = "reading"] /\ UNCHANGED accessVars
        ELSE Persist(r, reason, Unknown, "no", "none")
  BY DEF Receive
<1>2. CASE reason = "read"
  BY <1>1, <1>2 DEF Receive, Reads
<1>3. CASE reason # "read"
  <2>1. reason \in {"unauthorized", "malformed", "internal"}
    BY <1>3, HeadReasonMeans
  <2>2. reason \in Reason /\ KindFits(reason, "unknown")
    BY <2>1, Reasons DEF KindFits
  <2>3. /\ Free /\ closing \in {"no", "draining"} /\ handler[r] = "unsent"
        /\ UNCHANGED <<gone, called, op, adapter, answered, counters, closing>>
    BY DEF Receive
  <2>4. Persist(r, reason, "unknown", "no", "none")
    BY <1>1, <1>3 DEF Unknown
  <2>5. \A rc : rc.sdk = "none" => Recorded(r, rc)
    BY <2>3 DEF Recorded
  <2> QED BY <2>2, <2>3, <2>4, <2>5, EndsBy
<1> QED BY <1>2, <1>3

LEMMA SettledEnds ==
  ASSUME NEW r \in Request, Settled(r)
  PROVE  EndsSome
<1>1. /\ Free /\ handler[r] = "reading"
      /\ UNCHANGED <<gone, called, op, adapter, answered, counters, closing>>
  BY DEF Settled, AdapterAfter
<1>2. \A rc : rc.sdk = "none" => Recorded(r, rc)
  BY <1>1 DEF Recorded
<1>3. CASE gone[r]
  <2>1. Persist(r, "internal", "unknown", "no", "none")
    BY <1>3 DEF Settled, Unknown
  <2>2. "internal" \in Reason /\ KindFits("internal", "unknown")
    BY Reasons DEF KindFits
  <2> QED BY <1>1, <1>2, <2>1, <2>2, EndsBy
<1>4. CASE ~gone[r]
  <2>1. PICK o \in MessageOutcomes :
          o.reason # "start" /\ Persist(r, o.reason, o.kind, "no", "none")
    BY <1>4 DEF Settled
  <2>2. o.reason \in Reason /\ o.kind \in {"call", "metadata", "unknown"}
    BY <2>1, MessageOutcomeMeans, Reasons
  <2>3. KindFits(o.reason, o.kind)
    BY MessageOutcomeMeans
  <2> QED BY <1>1, <1>2, <2>1, <2>2, <2>3, EndsBy
<1> QED BY <1>3, <1>4

LEMMA FailureEnds ==
  ASSUME NEW r \in Request, Free, PersistFailure(r),
         handler[r] \in {"reading", "checking", "upstream"},
         \A rc : rc.sdk = "none" => Recorded(r, rc),
         UNCHANGED <<gone, called, adapter, answered, counters, closing>>
  PROVE  EndsSome
<1>1. Persist(r, "internal", "call", "unknown", "none")
  BY DEF PersistFailure, CatchInvoked
<1>2. "internal" \in Reason /\ KindFits("internal", "call")
  BY Reasons DEF KindFits
<1> QED BY <1>1, <1>2, EndsBy

LEMMA StartEnds ==
  ASSUME NEW r \in Request, StartTool(r)
  PROVE  EndsSome \/ Checks(r)
<1>1. /\ Free /\ handler[r] = "reading"
      /\ UNCHANGED <<gone, called, op, answered, counters, closing>>
  BY DEF StartTool
<1>2. \A rc : rc.sdk = "none" => Recorded(r, rc)
  BY <1>1 DEF Recorded
<1>3. CASE adapter = "unusable"
  <2>1. PersistFailure(r) /\ UNCHANGED adapter
    BY <1>3 DEF StartTool
  <2> QED BY <1>1, <1>2, <2>1, FailureEnds
<1>4. CASE adapter # "unusable"
  BY <1>1, <1>4 DEF StartTool, Checks
<1> QED BY <1>3, <1>4

LEMMA BlockEnds ==
  ASSUME NEW r \in Request, Block(r)
  PROVE  EndsSome
<1>1. /\ Free /\ handler[r] = "checking" /\ MayBegin
      /\ op' = [op EXCEPT ![r] = "blocked"]
      /\ UNCHANGED <<gone, called, adapter, answered, counters, closing>>
  BY DEF Block
<1>2. \A rc : rc.sdk = "blocked" => Recorded(r, rc)
  BY <1>1 DEF Recorded
<1>3. Persist(r, "blocked", "call", "no", "blocked")
  BY DEF Block
<1>4. "blocked" \in Reason /\ KindFits("blocked", "call")
  BY Reasons DEF KindFits
<1> QED BY <1>1, <1>2, <1>3, <1>4, EndsBy

LEMMA BeginThrowsEnds ==
  ASSUME NEW r \in Request, BeginThrows(r)
  PROVE  EndsSome
<1>1. /\ Free /\ handler[r] = "checking" /\ PersistFailure(r)
      /\ UNCHANGED <<gone, called, adapter, answered, counters, closing>>
  BY DEF BeginThrows
<1>2. \A rc : rc.sdk = "none" => Recorded(r, rc)
  BY <1>1 DEF BeginThrows, Recorded
<1> QED BY <1>1, <1>2, FailureEnds

LEMMA RecordEnds ==
  ASSUME NEW r \in Request, NEW verdict \in Verdict, Record(r, verdict)
  PROVE  EndsSome
<1>1. /\ Free /\ handler[r] = "upstream"
      /\ op' = [op EXCEPT ![r] = verdict]
      /\ UNCHANGED <<gone, called, adapter, answered, counters, closing>>
  BY DEF Record
<1>2. \A rc : rc.sdk = verdict => Recorded(r, rc)
  BY <1>1 DEF Recorded
<1>3. Persist(r, verdict, "call", "yes", verdict)
  BY DEF Record
<1>4. verdict \in Reason /\ KindFits(verdict, "call")
  BY Reasons DEF KindFits
<1> QED BY <1>1, <1>2, <1>3, <1>4, EndsBy

LEMMA RecordThrowsEnds ==
  ASSUME NEW r \in Request, NEW verdict \in Verdict, RecordThrows(r, verdict)
  PROVE  EndsSome
<1>1. /\ Free /\ handler[r] = "upstream" /\ PersistFailure(r)
      /\ UNCHANGED <<gone, called, adapter, answered, counters, closing>>
  BY DEF RecordThrows
<1>2. \A rc : rc.sdk = "none" => Recorded(r, rc)
  BY <1>1 DEF RecordThrows, Recorded
<1> QED BY <1>1, <1>2, FailureEnds

LEMMA EndsFiles ==
  ASSUME NEW r, NEW rc, Ends(r, rc)
  PROVE  /\ UNCHANGED <<journal, durable, bundle, sealed, life, finalized, memory, faults, crashes>>
         /\ Running(Owner) /\ call[Owner] = Idle
         /\ \/ call' = call /\ ~MayAppend(rc)
            \/ /\ call' = [call EXCEPT ![Owner] = [stage |-> "write", receipt |-> rc]]
               /\ MayAppend(rc)
BY DEF Ends, AppendReceipt

\* What the rest of a step is: nothing of the files changes in a turn, and nothing of
\* the turns when a file is written.
Waits ==
  \/ \E r \in Request : Reads(r) \/ Checks(r) \/ CallTool(r) \/ HangUp(r)
  \/ Close \/ SealThrows \/ Closed \/ UNCHANGED vars
Writes ==
  \/ Write \/ Sync
  \/ \E p \in Process : Link(p) \/ SyncDirectory(p) \/ WriteFails(p) \/ Kill(p)
  \/ \E p \in Recoverer : Recover(p) \/ Finalize(p)
  \/ HostCrash

LEMMA Steps ==
  ASSUME [Next]_vars
  PROVE  \/ EndsSome
         \/ \E r \in Request : Reply(r)
         \/ Waits \/ SdkFails \/ Seal
         \/ Writes /\ UNCHANGED proxyVars
<1>1. ASSUME NEW r \in Request, Handle(r)
      PROVE  EndsSome \/ Reads(r) \/ Checks(r) \/ CallTool(r) \/ Reply(r)
  BY <1>1, ReceiveEnds, SettledEnds, StartEnds, BlockEnds, BeginThrowsEnds, RecordEnds,
     RecordThrowsEnds DEF Handle
<1> QED BY <1>1 DEF Next, Waits, Writes, AccessStep

\* A turn leaves the files alone.
Turn == EndsSome \/ (\E r \in Request : Reply(r)) \/ Waits \/ SdkFails \/ Seal

LEMMA TurnFiles ==
  ASSUME Turn
  PROVE  UNCHANGED <<journal, durable, bundle, sealed, life, finalized, memory, crashes>>
<1>1. CASE EndsSome
  BY <1>1, EndsFiles DEF EndsSome
<1>2. CASE \E r \in Request : Reply(r)
  BY <1>2 DEF Reply, accessVars
<1>3. CASE Waits
  BY <1>3 DEF Waits, Reads, Checks, CallTool, HangUp, Close, SealThrows, Closed, vars, accessVars
<1>4. CASE SdkFails
  BY <1>4 DEF SdkFails
<1>5. CASE Seal
  BY <1>5 DEF Seal, Finalize
<1> QED BY <1>1, <1>2, <1>3, <1>4, <1>5 DEF Turn

LEMMA WaitsCall ==
  ASSUME Waits \/ \E r \in Request : Reply(r)
  PROVE  UNCHANGED <<call, faults>>
BY DEF Waits, Reads, Checks, CallTool, HangUp, Close, SealThrows, Closed, vars, accessVars, Reply

LEMMA StepIsTurn ==
  ASSUME [Next]_vars
  PROVE  Turn \/ (Writes /\ UNCHANGED proxyVars)
BY Steps DEF Turn

-----------------------------------------------------------------------------
(* Types *)

LEMMA Init_IInv == Init => IInv
<1> SUFFICES ASSUME Init PROVE IInv
  OBVIOUS
<1> USE DEF Init, AccessInit, Running
<1>1. <<>> \in Seq(Receipt) /\ <<>> \in Seq(Seq(Receipt)) /\ Len(<<>>) = 0
  OBVIOUS
<1>2. ReceiptsIn(<<>>) = {} /\ ListSound(<<>>)
  BY DEF ReceiptsIn, ListSound
<1>3. Owner \in Process /\ Owner \notin Recoverer
  BY AccessAssumption DEF Process
<1>4. /\ memory = [p \in Process |-> <<>>] /\ memory[Owner] = <<>>
      /\ call = [p \in Process |-> Idle] /\ call[Owner] = Idle
      /\ \A p \in Process : memory[p] = <<>> /\ call[p] = Idle
  BY <1>3
<1>0. /\ call[Owner].stage = "idle" /\ bundle = None /\ faults = 0 /\ durable = 0
      /\ journal = <<>> /\ Len(journal) = 0 /\ closing = "no"
      /\ \A r \in Request : answered[r] = "none"
      /\ \A p \in Recoverer : ~Running(p)
  BY <1>1, <1>3, <1>4 DEF Idle, Process
<1>5. TypeOK
  <2>1. memory \in [Process -> Seq(Receipt)]
    BY <1>1
  <2>2. call \in [Process -> [stage : Stage, receipt : Receipt \cup {None}]]
    BY <1>4 DEF Idle, Stage
  <2>3. durable \in 0 .. Len(journal)
    BY <1>1
  <2>4. life \in [Process -> {"absent", "running", "dead"}]
    OBVIOUS
  <2> QED BY <1>1, <2>1, <2>2, <2>3, <2>4 DEF TypeOK
<1>6. HttpTypeOK
  BY <1>5 DEF HttpTypeOK
<1>7. PendingSound
  BY <1>2, <1>3, <1>4 DEF PendingSound, Writing, Idle
<1>8. Held
  <2> HIDE DEF Init, AccessInit, Running
  <2> QED BY <1>0, <1>4 DEF Held, Sealing
<1>9. Truth
  BY <1>1, <1>2, <1>4 DEF Truth, AllTrue, Writing, Idle
<1>10. ToolSound
  BY DEF ToolSound
<1>11. Story /\ ClosingSound
  BY <1>2, <1>4 DEF Story, ClosingSound, Idle
<1>12. CountSound
  BY <1>2, <1>4, FS_EmptySet DEF CountSound, Counted
<1>13. ChainSound
  <2> HIDE DEF Init, AccessInit, Running
  <2>1. \A i \in 1 .. Len(journal) : FALSE
    BY <1>0
  <2>2. ListOf(journal) = memory[Owner] /\ ~Torn
    BY <1>0, <1>4 DEF ListOf, Torn
  <2> QED BY <1>0, <2>1, <2>2 DEF ChainSound
<1>14. CloseSucceeds
  BY DEF CloseSucceeds
<1> QED
  BY <1>6, <1>7, <1>8, <1>9, <1>10, <1>11, <1>12, <1>13, <1>14 DEF IInv

LEMMA OwnerFacts ==
  ASSUME HttpTypeOK
  PROVE  /\ Owner \in Process /\ Owner \notin Recoverer /\ Process = Recoverer \cup {Owner}
         /\ memory[Owner] \in Seq(Receipt)
         /\ \A p \in Process : memory[p] \in Seq(Receipt)
         /\ \A p \in Process : /\ call[p] \in [stage : Stage, receipt : Receipt \cup {None}]
                             /\ life[p] \in {"absent", "running", "dead"}
         /\ durable \in Nat /\ Len(journal) \in Nat /\ durable <= Len(journal)
         /\ Idle.stage = "idle" /\ None \notin Receipt
         /\ \A i \in 1 .. Len(journal) : journal[i] \in Seq(Receipt)
         /\ bundle # None => bundle.receipts \in Seq(Receipt) /\ bundle.recovered \in BOOLEAN
<1>1. Owner \in Process /\ Owner \notin Recoverer /\ Process = Recoverer \cup {Owner}
  BY AccessAssumption DEF Process
<1>2. TypeOK
  BY DEF HttpTypeOK
<1>3. journal \in Seq(Seq(Receipt)) /\ durable \in 0 .. Len(journal)
  BY <1>2 DEF TypeOK
<1>4. Len(journal) \in Nat /\ \A i \in 1 .. Len(journal) : journal[i] \in Seq(Receipt)
  BY <1>3
<1>5. None \notin Receipt
  BY AccessAssumption
<1>6. \A p \in Process : memory[p] \in Seq(Receipt)
  BY <1>2 DEF TypeOK
<1>7. \A p \in Process : /\ call[p] \in [stage : Stage, receipt : Receipt \cup {None}]
                       /\ life[p] \in {"absent", "running", "dead"}
  BY <1>2 DEF TypeOK
<1>8. bundle # None => bundle.receipts \in Seq(Receipt) /\ bundle.recovered \in BOOLEAN
  BY <1>2 DEF TypeOK
<1> QED BY <1>1, <1>3, <1>4, <1>5, <1>6, <1>7, <1>8 DEF Idle

LEMMA WritesType ==
  ASSUME HttpTypeOK, PendingSound, Writes
  PROVE  TypeOK'
<1> DEFINE Calls == [stage : Stage, receipt : Receipt \cup {None}]
           Bundles == [receipts : Seq(Receipt), recovered : BOOLEAN] \cup {None}
<1>1. /\ journal \in Seq(Seq(Receipt)) /\ durable \in 0 .. Len(journal)
      /\ <<>> \in Seq(Receipt)
      /\ Len(journal) \in Nat
  BY DEF HttpTypeOK, TypeOK
<1>2. bundle \in Bundles /\ sealed \in BOOLEAN
  BY DEF HttpTypeOK, TypeOK
<1>3. /\ life \in [Process -> {"absent", "running", "dead"}] /\ finalized \subseteq Process
      /\ faults \in Nat /\ crashes \in Nat
  BY DEF HttpTypeOK, TypeOK
<1>4. memory \in [Process -> Seq(Receipt)] /\ call \in [Process -> Calls]
  BY DEF HttpTypeOK, TypeOK
<1>5. Owner \in Process /\ Idle \in Calls /\ Recoverer \subseteq Process
  BY AccessAssumption DEF Process, Idle, Stage
<1> DEFINE Good ==
      /\ journal' \in Seq(Seq(Receipt)) /\ durable' \in 0 .. Len(journal')
      /\ bundle' \in Bundles /\ sealed' \in BOOLEAN
      /\ life' \in [Process -> {"absent", "running", "dead"}]
      /\ finalized' \subseteq Process
      /\ memory' \in [Process -> Seq(Receipt)] /\ call' \in [Process -> Calls]
      /\ faults' \in Nat /\ crashes' \in Nat
<1>6. SUFFICES Good
  BY DEF TypeOK
<1>7. ASSUME NEW p \in Process, NEW c \in Calls
      PROVE  [call EXCEPT ![p] = c] \in [Process -> Calls]
  BY <1>4
<1>8. ASSUME NEW p \in Process, NEW stage \in Stage
      PROVE  [call EXCEPT ![p].stage = stage] \in [Process -> Calls]
  BY <1>4
<1>9. ASSUME NEW line \in Seq(Receipt)
      PROVE  /\ Append(journal, line) \in Seq(Seq(Receipt))
             /\ Len(Append(journal, line)) = Len(journal) + 1
  BY <1>1
<1>10. ASSUME NEW p \in Process, CutShort(p)
       PROVE  journal' \in Seq(Seq(Receipt)) /\ durable \in 0 .. Len(journal')
  <2>1. journal' = journal \/ journal' = Append(journal, <<>>)
    BY <1>10 DEF CutShort
  <2>2. durable \in 0 .. Len(journal) + 1
    BY <1>1
  <2> QED BY <2>1, <2>2, <1>1, <1>9
<1>11. "write" \in Stage /\ "sync" \in Stage /\ "link" \in Stage /\ "syncdir" \in Stage
  BY DEF Stage
<1> HIDE DEF Calls, Bundles
<1>12. CASE Write
  <2>1. call[Owner].receipt \in Receipt
    BY <1>12, <1>5 DEF PendingSound, Write
  <2>2. Append(memory[Owner], call[Owner].receipt) \in Seq(Receipt)
    BY <2>1, <1>4, <1>5
  <2>3. journal' = Append(journal, Append(memory[Owner], call[Owner].receipt))
          \/ journal' = Append(journal, <<>>)
    BY <1>12 DEF Write
  <2>4. faults' \in Nat
    BY <1>3, <1>12 DEF Write
  <2>5. journal' \in Seq(Seq(Receipt)) /\ Len(journal') = Len(journal) + 1
    BY <1>1, <1>9, <2>2, <2>3
  <2>6. durable \in 0 .. Len(journal')
    BY <1>1, <2>5
  <2>7. call' \in [Process -> Calls]
    BY <1>5, <1>8, <1>11, <1>12 DEF Write
  <2> QED BY <1>2, <1>3, <1>4, <1>12, <2>4, <2>5, <2>6, <2>7 DEF Write
<1>13. CASE Sync
  <2>1. call[Owner].receipt \in Receipt
    BY <1>13, <1>5 DEF PendingSound, Sync
  <2>2. Append(memory[Owner], call[Owner].receipt) \in Seq(Receipt)
    BY <2>1, <1>4, <1>5
  <2>3. memory' \in [Process -> Seq(Receipt)]
    BY <2>2, <1>4, <1>13 DEF Sync
  <2>4. durable' \in 0 .. Len(journal')
    BY <1>1, <1>13 DEF Sync, Synced
  <2>5. call' \in [Process -> Calls]
    BY <1>5, <1>7, <1>13 DEF Sync
  <2> QED BY <1>1, <1>2, <1>3, <1>13, <2>3, <2>4, <2>5 DEF Sync
<1>14. ASSUME NEW p \in Process, Link(p) PROVE Good
  <2>1. [receipts |-> memory[p], recovered |-> p # Owner] \in Bundles
    BY <1>4 DEF Bundles
  <2>2. bundle' \in Bundles
    BY <1>2, <1>14, <2>1 DEF Link
  <2>3. call' \in [Process -> Calls]
    BY <1>5, <1>7, <1>8, <1>11, <1>14 DEF Link
  <2> QED BY <1>1, <1>2, <1>3, <1>4, <1>14, <2>2, <2>3 DEF Link
<1>15. ASSUME NEW p \in Process, SyncDirectory(p) PROVE Good
  <2>1. call' \in [Process -> Calls]
    BY <1>5, <1>7, <1>15 DEF SyncDirectory
  <2> QED BY <1>1, <1>2, <1>3, <1>4, <1>15, <2>1 DEF SyncDirectory
<1>16. ASSUME NEW p \in Process, WriteFails(p) PROVE Good
  <2>1. call' \in [Process -> Calls] /\ faults' \in Nat
    BY <1>3, <1>5, <1>7, <1>16 DEF WriteFails
  <2>2. journal' \in Seq(Seq(Receipt)) /\ durable \in 0 .. Len(journal')
    BY <1>10, <1>16 DEF WriteFails
  <2> QED BY <1>1, <1>2, <1>3, <1>4, <1>16, <2>1, <2>2 DEF WriteFails
<1>17. ASSUME NEW p \in Process, Kill(p) PROVE Good
  <2>1. call' \in [Process -> Calls] /\ crashes' \in Nat
    BY <1>3, <1>5, <1>7, <1>17 DEF Kill
  <2>2. journal' \in Seq(Seq(Receipt)) /\ durable \in 0 .. Len(journal')
    BY <1>10, <1>17 DEF Kill
  <2>3. life' \in [Process -> {"absent", "running", "dead"}]
    BY <1>3, <1>17 DEF Kill
  <2> QED BY <1>1, <1>2, <1>3, <1>4, <1>17, <2>1, <2>2, <2>3 DEF Kill
<1>18. ASSUME NEW p \in Recoverer, Recover(p) PROVE Good
  <2>1. ListOf(journal) \in Seq(Receipt)
    BY <1>1 DEF ListOf, Last
  <2>2. memory' \in [Process -> Seq(Receipt)]
    BY <1>4, <1>5, <1>18, <2>1 DEF Recover
  <2>3. life' \in [Process -> {"absent", "running", "dead"}]
    BY <1>3, <1>5, <1>18 DEF Recover
  <2> QED BY <1>1, <1>2, <1>3, <1>4, <1>18, <2>2, <2>3 DEF Recover
<1>19. ASSUME NEW p \in Recoverer, Finalize(p) PROVE Good
  <2>1. call' \in [Process -> Calls]
    BY <1>5, <1>8, <1>11, <1>19 DEF Finalize
  <2> QED BY <1>1, <1>2, <1>3, <1>4, <1>19, <2>1 DEF Finalize
<1>20. CASE HostCrash
  <2>1. PICK kept \in durable .. Len(journal) :
          \/ journal' = SubSeq(journal, 1, kept)
          \/ kept < Len(journal) /\ journal' = Append(SubSeq(journal, 1, kept), <<>>)
    BY <1>20 DEF HostCrash
  <2>2. SubSeq(journal, 1, kept) \in Seq(Seq(Receipt))
    BY <1>1
  <2> DEFINE rest == SubSeq(journal, 1, kept)
  <2>3. Append(rest, <<>>) \in Seq(Seq(Receipt))
    <3> HIDE DEF rest
    <3>1. rest \in Seq(Seq(Receipt))
      BY <2>2 DEF rest
    <3> QED BY <3>1, <1>1
  <2>4. journal' \in Seq(Seq(Receipt))
    BY <2>1, <2>2, <2>3
  <2>5. Len(journal') \in Nat /\ durable' = Len(journal')
    BY <1>20, <2>4 DEF HostCrash
  <2>6. call' \in [Process -> Calls]
    BY <1>5, <1>20 DEF HostCrash
  <2>7. bundle' \in Bundles /\ sealed' \in BOOLEAN
    BY <1>2, <1>20 DEF HostCrash, Bundles
  <2>8. life' \in [Process -> {"absent", "running", "dead"}] /\ crashes' \in Nat
    BY <1>3, <1>20 DEF HostCrash
  <2>9. durable' \in 0 .. Len(journal')
    BY <2>5
  <2> QED BY <1>3, <1>4, <1>20, <2>4, <2>6, <2>7, <2>8, <2>9 DEF HostCrash
<1> QED
  BY <1>12, <1>13, <1>14, <1>15, <1>16, <1>17, <1>18, <1>19, <1>20 DEF Writes

LEMMA TypeStep ==
  ASSUME HttpTypeOK, PendingSound, [Next]_vars
  PROVE  HttpTypeOK'
<1> USE DEF HttpTypeOK, TypeOK
<1>0. /\ Owner \in Process
      /\ Idle \in [stage : Stage, receipt : Receipt \cup {None}]
  BY AccessAssumption DEF Process, Idle, Stage
<1>1. CASE EndsSome
  <2>1. PICK r \in Request, rc \in Receipt : Ends(r, rc)
    BY <1>1 DEF EndsSome
  <2>2. [stage |-> "write", receipt |-> rc] \in [stage : Stage, receipt : Receipt \cup {None}]
    BY DEF Stage
  <2>3. TypeOK'
    <3>1. call' \in [Process -> [stage : Stage, receipt : Receipt \cup {None}]]
      <4> HIDE DEF HttpTypeOK, TypeOK
      <4>1. call \in [Process -> [stage : Stage, receipt : Receipt \cup {None}]]
        BY DEF HttpTypeOK, TypeOK
      <4> QED BY <4>1, <1>0, <2>1, <2>2, EndsFiles
    <3>2. UNCHANGED <<journal, durable, bundle, sealed, life, finalized, memory, faults, crashes>>
      BY <2>1, EndsFiles
    <3> QED BY <3>1, <3>2
  <2>4. op' \in [Request -> Verdict \cup {"none", "blocked", "open"}]
    BY <2>1 DEF Ends, Recorded
  <2>5. handler' \in [Request -> {"unsent", "reading", "checking", "upstream", "replying", "done"}]
    BY <2>1 DEF Ends
  <2>6. UNCHANGED <<gone, called, adapter, answered, counters, closing>>
    BY <2>1 DEF Ends
  <2> QED BY <2>3, <2>4, <2>5, <2>6
<1>2. CASE \E r \in Request : Reply(r)
  <2>1. PICK r \in Request : Reply(r)
    BY <1>2
  <2>2. handler' \in [Request -> {"unsent", "reading", "checking", "upstream", "replying", "done"}]
    BY <2>1 DEF Reply
  <2>3. UNCHANGED <<accessVars, gone, called, op, adapter, closing>>
    BY <2>1 DEF Reply
  <2>4. answered' \in [Request -> Reason \cup {"none"}] /\ counters' \in [Counter -> Nat]
    <3>1. CASE r \in RequestsIn(memory[Owner])
      <4>1. PICK rc \in ReceiptsIn(memory[Owner]) :
              /\ Count(rc.reason)
              /\ \/ answered' = [answered EXCEPT ![r] = IF gone[r] THEN @ ELSE rc.reason]
                 \/ UNCHANGED answered
        BY <2>1, <3>1 DEF Reply
      <4>2. rc \in Receipt
        BY <1>0, InList
      <4>3. rc.reason \in Reason
        BY <4>2 DEF Receipt
      <4>4. \A c \in Counter : counters[c] + (IF c \in CountersOf(rc.reason) THEN 1 ELSE 0) \in Nat
        OBVIOUS
      <4>5. counters' \in [Counter -> Nat]
        BY <4>1, <4>4 DEF Count
      <4> QED BY <4>1, <4>3, <4>5
    <3>2. CASE r \notin RequestsIn(memory[Owner])
      BY <2>1, <3>2 DEF Reply
    <3> QED BY <3>1, <3>2
  <2> QED BY <2>2, <2>3, <2>4 DEF accessVars
<1>3. CASE Waits
  <2>1. TypeOK'
    <3>1. UNCHANGED <<journal, durable, bundle, sealed, life, finalized, memory, crashes, call, faults>>
      BY <1>3, TurnFiles, WaitsCall DEF Turn
    <3> QED BY <3>1
  <2>2. UNCHANGED <<answered, counters>>
    BY <1>3 DEF Waits, Reads, Checks, CallTool, HangUp, Close, SealThrows, Closed, vars, proxyVars
  <2>3. /\ handler' \in [Request -> {"unsent", "reading", "checking", "upstream", "replying", "done"}]
        /\ gone' \in [Request -> BOOLEAN] /\ called' \in [Request -> BOOLEAN]
        /\ op' \in [Request -> Verdict \cup {"none", "blocked", "open"}]
    BY <1>3 DEF Waits, Reads, Checks, CallTool, HangUp, Close, SealThrows, Closed, vars, proxyVars
  <2>4. /\ adapter' \in {"absent", "unusable", "open", "failing", "finalized"}
        /\ closing' \in {"no", "draining", "sealing", "closed", "failed"}
    BY <1>3 DEF Waits, Reads, Checks, CallTool, HangUp, Close, SealThrows, Closed, vars, proxyVars
  <2> QED BY <2>1, <2>2, <2>3, <2>4
<1>4. CASE SdkFails
  BY <1>4 DEF SdkFails
<1>5. CASE Seal
  <2>1. call' \in [Process -> [stage : Stage, receipt : Receipt \cup {None}]]
    BY <1>0, <1>5 DEF Seal, Finalize, Stage
  <2> QED BY <1>5, <2>1 DEF Seal, Finalize, AdapterClosed
<1>6. CASE Writes /\ UNCHANGED proxyVars
  <2> SUFFICES TypeOK'
    BY <1>6 DEF proxyVars
  <2> QED BY <1>6, WritesType
<1> QED BY <1>1, <1>2, <1>3, <1>4, <1>5, <1>6, StepIsTurn DEF Turn

-----------------------------------------------------------------------------
(* What each step does to the process it is of, and to the others *)

Others(p) == \A q \in Process \ {p} : call'[q] = call[q]

LEMMA EndsMeans ==
  ASSUME HttpTypeOK, NEW r \in Request, NEW rc \in Receipt, Ends(r, rc)
  PROVE  /\ call[Owner] = Idle /\ Others(Owner) /\ Running(Owner)
         /\ \/ call'[Owner] = Idle /\ ~MayAppend(rc) /\ call' = call
            \/ /\ call'[Owner].stage = "write" /\ call'[Owner].receipt = rc
               /\ MayAppend(rc)
         /\ handler'[r] = "replying"
         /\ \A q \in Request \ {r} : handler'[q] = handler[q] /\ op'[q] = op[q]
         /\ UNCHANGED <<gone, called, adapter, answered, counters, closing>>
<1>1. Owner \in Process /\ call \in [Process -> [stage : Stage, receipt : Receipt \cup {None}]]
  BY OwnerFacts DEF HttpTypeOK, TypeOK
<1>2. /\ handler' = [handler EXCEPT ![r] = "replying"]
      /\ UNCHANGED <<gone, called, adapter, answered, counters, closing>>
      /\ Recorded(r, rc)
  BY DEF Ends
<1>3. handler'[r] = "replying" /\ \A q \in Request \ {r} : handler'[q] = handler[q]
  BY <1>2 DEF HttpTypeOK
<1>4. \A q \in Request \ {r} : op'[q] = op[q]
  BY <1>2 DEF HttpTypeOK, Recorded
<1>5. call[Owner] = Idle /\ Others(Owner) /\ Running(Owner)
  BY <1>1, EndsFiles DEF Others
<1>6. \/ call'[Owner] = Idle /\ ~MayAppend(rc) /\ call' = call
      \/ call'[Owner].stage = "write" /\ call'[Owner].receipt = rc /\ MayAppend(rc)
  BY <1>1, <1>5, EndsFiles
<1> QED BY <1>2, <1>3, <1>4, <1>5, <1>6

LEMMA SealMeans ==
  ASSUME HttpTypeOK, Seal
  PROVE  /\ call[Owner] = Idle /\ call'[Owner].stage = "link" /\ Others(Owner)
         /\ Owner \notin finalized /\ closing' = "sealing" /\ Running(Owner)
         /\ UNCHANGED <<faults, handler, gone, called, op, answered, counters>>
<1>1. Owner \in Process /\ call \in [Process -> [stage : Stage, receipt : Receipt \cup {None}]]
  BY OwnerFacts DEF HttpTypeOK, TypeOK
<1> QED BY <1>1 DEF Seal, Finalize, Others

LEMMA WriteMeans ==
  ASSUME HttpTypeOK, Write
  PROVE  /\ call[Owner].stage = "write"
         /\ call'[Owner].stage = "sync" /\ call'[Owner].receipt = call[Owner].receipt
         /\ Others(Owner)
<1>1. Owner \in Process /\ call \in [Process -> [stage : Stage, receipt : Receipt \cup {None}]]
  BY OwnerFacts DEF HttpTypeOK, TypeOK
<1> QED BY <1>1 DEF Write, Others

LEMMA SyncMeans ==
  ASSUME HttpTypeOK, Sync
  PROVE  /\ call[Owner].stage = "sync"
         /\ call'[Owner] = Idle /\ Others(Owner)
         /\ memory'[Owner] = Append(memory[Owner], call[Owner].receipt)
         /\ \A q \in Process \ {Owner} : memory'[q] = memory[q]
<1>1. Owner \in Process /\ call \in [Process -> [stage : Stage, receipt : Receipt \cup {None}]]
  BY OwnerFacts DEF HttpTypeOK, TypeOK
<1>2. memory \in [Process -> Seq(Receipt)]
  BY DEF HttpTypeOK, TypeOK
<1> QED BY <1>1, <1>2 DEF Sync, Others

LEMMA LinkMeans ==
  ASSUME HttpTypeOK, NEW p \in Process, Link(p)
  PROVE  /\ call[p].stage = "link" /\ Others(p)
         /\ \/ /\ bundle = None /\ bundle' = [receipts |-> memory[p], recovered |-> p # Owner]
               /\ bundle'.receipts = memory[p] /\ bundle'.recovered = (p # Owner)
               /\ call'[p].stage = "syncdir"
            \/ bundle # None /\ call'[p] = Idle /\ UNCHANGED bundle
         /\ UNCHANGED <<journal, durable, sealed, life, finalized, memory, faults, crashes>>
<1>1. call \in [Process -> [stage : Stage, receipt : Receipt \cup {None}]]
  BY DEF HttpTypeOK, TypeOK
<1>2. CASE bundle = None
  <2>1. bundle' = [receipts |-> memory[p], recovered |-> p # Owner]
    BY <1>2 DEF Link
  <2>2. call' = [call EXCEPT ![p].stage = "syncdir"]
    BY <1>2 DEF Link
  <2>3. call'[p].stage = "syncdir" /\ Others(p)
    BY <1>1, <2>2 DEF Others
  <2> QED BY <1>2, <2>1, <2>3 DEF Link
<1>3. CASE bundle # None
  BY <1>1, <1>3 DEF Link, Others
<1> QED BY <1>2, <1>3

LEMMA SyncDirectoryMeans ==
  ASSUME HttpTypeOK, NEW p \in Process, SyncDirectory(p)
  PROVE  /\ call[p].stage = "syncdir" /\ call'[p] = Idle /\ Others(p)
         /\ sealed' = TRUE /\ finalized' = finalized \cup {p}
         /\ UNCHANGED <<journal, durable, bundle, life, memory, faults, crashes>>
<1>1. call \in [Process -> [stage : Stage, receipt : Receipt \cup {None}]]
  BY DEF HttpTypeOK, TypeOK
<1> QED BY <1>1 DEF SyncDirectory, Others

LEMMA WriteFailsMeans ==
  ASSUME HttpTypeOK, NEW p \in Process, WriteFails(p)
  PROVE  /\ call[p] # Idle /\ call'[p] = Idle /\ Others(p)
         /\ faults' = faults + 1 /\ faults' # 0
         /\ \/ UNCHANGED journal
            \/ call[p].stage = "write" /\ journal' = Append(journal, <<>>)
         /\ UNCHANGED <<durable, bundle, sealed, life, finalized, memory, crashes>>
<1>1. call \in [Process -> [stage : Stage, receipt : Receipt \cup {None}]] /\ faults \in Nat
  BY DEF HttpTypeOK, TypeOK
<1>2. Others(p) /\ call'[p] = Idle /\ call[p] # Idle
  BY <1>1 DEF WriteFails, Others
<1> QED BY <1>1, <1>2 DEF WriteFails, CutShort

LEMMA KillMeans ==
  ASSUME HttpTypeOK, NEW p \in Process, Kill(p)
  PROVE  /\ Running(p) /\ life'[p] = "dead" /\ call'[p] = Idle /\ Others(p)
         /\ \A q \in Process \ {p} : life'[q] = life[q]
         /\ \/ UNCHANGED journal
            \/ call[p].stage = "write" /\ journal' = Append(journal, <<>>)
         /\ UNCHANGED <<durable, bundle, sealed, finalized, memory, faults>>
<1>1. call \in [Process -> [stage : Stage, receipt : Receipt \cup {None}]]
  BY DEF HttpTypeOK, TypeOK
<1>2. life \in [Process -> {"absent", "running", "dead"}]
  BY DEF HttpTypeOK, TypeOK
<1>3. Others(p) /\ call'[p] = Idle
  BY <1>1 DEF Kill, Others
<1>4. life'[p] = "dead" /\ \A q \in Process \ {p} : life'[q] = life[q]
  BY <1>2 DEF Kill
<1> QED BY <1>3, <1>4 DEF Kill, CutShort

LEMMA RecoverMeans ==
  ASSUME HttpTypeOK, NEW p \in Recoverer, Recover(p)
  PROVE  /\ p \in Process /\ p # Owner /\ life[p] = "absent" /\ life[Owner] = "dead"
         /\ life'[p] = "running" /\ \A q \in Process \ {p} : life'[q] = life[q]
         /\ memory'[p] = ListOf(journal) /\ \A q \in Process \ {p} : memory'[q] = memory[q]
         /\ bundle = None /\ Readable
         /\ UNCHANGED <<journal, durable, bundle, sealed, finalized, call, faults, crashes>>
<1>1. p \in Process
  BY DEF Process
<1>2. life \in [Process -> {"absent", "running", "dead"}]
  BY DEF HttpTypeOK, TypeOK
<1>3. memory \in [Process -> Seq(Receipt)]
  BY DEF HttpTypeOK, TypeOK
<1>4. life'[p] = "running" /\ \A q \in Process \ {p} : life'[q] = life[q]
  BY <1>1, <1>2 DEF Recover
<1>5. memory'[p] = ListOf(journal) /\ \A q \in Process \ {p} : memory'[q] = memory[q]
  BY <1>1, <1>3 DEF Recover
<1> QED BY <1>1, <1>4, <1>5 DEF Recover

LEMMA FinalizeMeans ==
  ASSUME HttpTypeOK, NEW p \in Recoverer, Finalize(p)
  PROVE  /\ p \in Process /\ p # Owner /\ Running(p) /\ call[p] = Idle
         /\ call'[p].stage = "link" /\ Others(p)
         /\ UNCHANGED <<journal, durable, bundle, sealed, life, finalized, memory, faults, crashes>>
<1>1. p \in Process /\ p # Owner
  BY AccessAssumption DEF Process
<1>2. call \in [Process -> [stage : Stage, receipt : Receipt \cup {None}]]
  BY DEF HttpTypeOK, TypeOK
<1> QED BY <1>1, <1>2 DEF Finalize, Others

LEMMA HostCrashMeans ==
  ASSUME HttpTypeOK, HostCrash
  PROVE  /\ \A p \in Process : call'[p] = Idle /\ life'[p] # "running"
         /\ \A p \in Process : life'[p] \in {life[p], "dead"}
         /\ \A p \in Process : life[p] = "running" => life'[p] = "dead"
         /\ bundle' = bundle \/ (sealed = FALSE /\ bundle' = None)
         /\ sealed' = (bundle' # None)
         /\ durable' = Len(journal')
         /\ UNCHANGED <<finalized, memory, faults>>
<1>1. life \in [Process -> {"absent", "running", "dead"}] /\ sealed \in BOOLEAN
  BY DEF HttpTypeOK, TypeOK
<1>2. \A p \in Process : call'[p] = Idle /\ life'[p] # "running"
  BY <1>1 DEF HostCrash, Running
<1>3. \A p \in Process : life'[p] \in {life[p], "dead"}
  BY <1>1 DEF HostCrash
<1>4. bundle' = bundle \/ (sealed = FALSE /\ bundle' = None)
  BY <1>1 DEF HostCrash
<1>5. sealed' = (bundle' # None)
  BY Zenon DEF HostCrash
<1>6. durable' = Len(journal') /\ UNCHANGED <<finalized, memory, faults>>
  BY DEF HostCrash
<1>7. \A p \in Process : life[p] = "running" => life'[p] = "dead"
  BY <1>1 DEF HostCrash, Running
<1> QED BY <1>2, <1>3, <1>4, <1>5, <1>6, <1>7

\* What a turn that ends without a receipt does to its request.
LEMMA HandlerMoves ==
  ASSUME HttpTypeOK, NEW r \in Request, NEW stage,
         handler' = [handler EXCEPT ![r] = stage]
  PROVE  handler'[r] = stage /\ \A q \in Request \ {r} : handler'[q] = handler[q]
BY DEF HttpTypeOK

-----------------------------------------------------------------------------
(* Who is at what *)

\* A request that is not over has no receipt.
LEMMA NoReceiptYet ==
  ASSUME HttpTypeOK, PendingSound, Truth, NEW r \in Request, NEW rc \in Receipt, Ends(r, rc)
  PROVE  /\ \A p \in Process : \A other \in ReceiptsIn(memory[p]) : other.request # r
         /\ \A i \in 1 .. Len(journal) :
              \A other \in ReceiptsIn(journal[i]) : other.request # r
         /\ bundle # None => \A other \in ReceiptsIn(bundle.receipts) : other.request # r
         /\ ListSound(Append(memory[Owner], rc))
<1>1. handler[r] \notin {"replying", "done"} /\ rc.request = r /\ OutcomeSound(rc)
  BY DEF Ends
<1>2. \A p \in Process : \A other \in ReceiptsIn(memory[p]) : other.request # r
  BY <1>1 DEF Truth, AllTrue, IsTrue
<1>3. \A i \in 1 .. Len(journal) : \A other \in ReceiptsIn(journal[i]) : other.request # r
  BY <1>1 DEF Truth, AllTrue, IsTrue
<1>4. bundle # None => \A other \in ReceiptsIn(bundle.receipts) : other.request # r
  BY <1>1 DEF Truth, AllTrue, IsTrue
<1>5. ListSound(Append(memory[Owner], rc))
  <2> DEFINE list == memory[Owner]
             longer == Append(memory[Owner], rc)
  <2>1. list \in Seq(Receipt) /\ Owner \in Process
    BY OwnerFacts
  <2> HIDE DEF list
  <2>2. /\ longer \in Seq(Receipt) /\ Len(list) \in Nat /\ Len(longer) = Len(list) + 1
        /\ \A i \in 1 .. Len(list) : longer[i] = list[i]
        /\ longer[Len(list) + 1] = rc
    BY <2>1, InAppend, InList DEF list
  <2> HIDE DEF longer
  <2>3. DOMAIN longer = 1 .. Len(list) + 1 /\ DOMAIN list = 1 .. Len(list)
    BY <2>1, <2>2, InList
  <2>4. ListSound(list)
    BY DEF PendingSound, list
  <2>5. \A i \in 1 .. Len(list) : list[i].request # r
    BY <1>2, <2>1, <2>3 DEF ReceiptsIn, list
  <2>6. \A i \in 1 .. Len(list) + 1 : i \in 1 .. Len(list) \/ i = Len(list) + 1
    BY <2>2
  <2>7. ListSound(longer)
    BY <1>1, <2>2, <2>3, <2>4, <2>5, <2>6 DEF ListSound
  <2> QED BY <2>7 DEF longer
<1> QED BY <1>2, <1>3, <1>4, <1>5

LEMMA PendingStep ==
  ASSUME HttpTypeOK, PendingSound, Truth, ClosingSound, [Next]_vars
  PROVE  PendingSound'
<1>0. /\ Owner \in Process /\ Owner \notin Recoverer /\ Process = Recoverer \cup {Owner}
      /\ Idle.stage = "idle" /\ ListSound(memory[Owner]) /\ life[Owner] # "absent"
  BY OwnerFacts DEF PendingSound
<1>1. CASE EndsSome
  <2>1. PICK r \in Request, rc \in Receipt : Ends(r, rc)
    BY <1>1 DEF EndsSome
  <2>2. UNCHANGED <<life, memory, finalized, closing>>
    BY <2>1, EndsFiles, EndsMeans
  <2>3. rc.request = r /\ Free
    BY <2>1 DEF Ends
  <2>4. ListSound(Append(memory[Owner], rc))
    BY <2>1, NoReceiptYet
  <2>5. Owner \in finalized => ~MayAppend(rc)
    BY DEF MayAppend
  <2>6. closing' # "sealing"
    BY <2>2, <2>3 DEF Free
  <2> QED BY <1>0, <2>1, <2>2, <2>3, <2>4, <2>5, <2>6, EndsMeans
         DEF PendingSound, Others, Writing, Running
<1>2. CASE (\E r \in Request : Reply(r)) \/ Waits \/ SdkFails
  <2>1. UNCHANGED <<life, memory, finalized, call>>
    BY <1>2, TurnFiles, WaitsCall DEF Turn, SdkFails
  <2>2. ~Writing => ~Writing'
    BY <2>1 DEF Writing
  <2>3. CASE ~Writing
    <3>1. call[Owner].stage \in {"link", "syncdir"} => closing' = "sealing"
      BY <1>2, <1>0 DEF PendingSound, Reply, Waits, Reads, Checks, CallTool, HangUp, Close, SealThrows,
         Closed, vars, proxyVars, SdkFails, Free
    <3> QED BY <2>1, <2>2, <2>3, <3>1 DEF PendingSound, Running
  <2>4. CASE Writing
    <3>1. call[Owner] # Idle
      BY <1>0, <2>4 DEF Writing
    <3>2. UNCHANGED <<closing, handler>>
      BY <1>2, <3>1 DEF Reply, Waits, Reads, Checks, CallTool, HangUp, Close, SealThrows,
         Closed, vars, proxyVars, SdkFails, Free
    <3> QED BY <2>1, <3>2 DEF PendingSound, Running, Writing
  <2> QED BY <2>3, <2>4
<1>3. CASE Seal
  <2>1. UNCHANGED <<life, memory>>
    BY <1>3, TurnFiles DEF Turn
  <2> QED BY <1>0, <1>3, <2>1, SealMeans DEF PendingSound, Others, Writing, Running
<1>4. CASE Writes /\ UNCHANGED proxyVars
  <2>1. UNCHANGED <<handler, closing>>
    BY <1>4 DEF proxyVars
  <2>2. CASE Write
    BY <1>0, <2>1, <2>2, WriteMeans DEF PendingSound, Others, Writing, Running, Write
  <2>3. CASE Sync
    <3>1. ListSound(memory'[Owner])
      BY <1>0, <2>3, SyncMeans DEF PendingSound, Writing
    <3> QED BY <1>0, <2>1, <2>3, <3>1, SyncMeans DEF PendingSound, Others, Writing, Running, Sync
  <2>4. ASSUME NEW p \in Process, Link(p) PROVE PendingSound'
    BY <1>0, <2>1, <2>4, LinkMeans DEF PendingSound, Others, Writing, Running
  <2>5. ASSUME NEW p \in Process, SyncDirectory(p) PROVE PendingSound'
    <3>1. UNCHANGED <<life, memory>> /\ call'[p] = Idle /\ Others(p)
      BY <2>5, SyncDirectoryMeans
    <3>2. Owner \in finalized' => Owner \in finalized \/ p = Owner
      BY <2>5, SyncDirectoryMeans
    <3>3. Writing' => Writing /\ p # Owner
      BY <1>0, <3>1 DEF Writing, Others
    <3> QED BY <1>0, <2>1, <3>1, <3>2, <3>3 DEF PendingSound, Others, Writing, Running
  <2>6. ASSUME NEW p \in Process, WriteFails(p) PROVE PendingSound'
    BY <1>0, <2>1, <2>6, WriteFailsMeans DEF PendingSound, Others, Writing, Running
  <2>7. ASSUME NEW p \in Process, Kill(p) PROVE PendingSound'
    BY <1>0, <2>1, <2>7, KillMeans DEF PendingSound, Others, Writing, Running
  <2>8. ASSUME NEW p \in Recoverer, Recover(p) PROVE PendingSound'
    BY <1>0, <2>1, <2>8, RecoverMeans DEF PendingSound, Others, Writing, Running
  <2>9. ASSUME NEW p \in Recoverer, Finalize(p) PROVE PendingSound'
    BY <1>0, <2>1, <2>9, FinalizeMeans DEF PendingSound, Others, Writing, Running
  <2>10. CASE HostCrash
    BY <1>0, <2>1, <2>10, HostCrashMeans DEF PendingSound, Writing, Running
  <2> QED BY <1>4, <2>2, <2>3, <2>4, <2>5, <2>6, <2>7, <2>8, <2>9, <2>10 DEF Writes
<1> QED BY <1>1, <1>2, <1>3, <1>4, StepIsTurn DEF Turn

-----------------------------------------------------------------------------
(* How far a call of the tool is *)

LEMMA FaultsGrow ==
  ASSUME HttpTypeOK, [Next]_vars
  PROVE  faults' = 0 => faults = 0
<1>1. faults \in Nat
  BY DEF HttpTypeOK, TypeOK
<1>2. CASE Turn
  BY <1>1, <1>2, EndsFiles, WaitsCall DEF Turn, EndsSome, SdkFails, Seal, Finalize
<1>3. CASE Writes
  BY <1>1, <1>3 DEF Writes, Write, Sync, Link, SyncDirectory, WriteFails, Kill, Recover, Finalize, HostCrash
<1> QED BY <1>2, <1>3, StepIsTurn

LEMMA VerdictFacts ==
  /\ "none" \notin Verdict /\ "open" \notin Verdict /\ "blocked" \notin Verdict
BY DEF Verdict

LEMMA ToolStep ==
  ASSUME HttpTypeOK, ToolSound, [Next]_vars,
         Sealing => \A r \in Request : handler[r] \in {"unsent", "done"} \/ gone[r]
  PROVE  ToolSound'
<1> USE VerdictFacts
<1> DEFINE Tool(q) ==
      /\ handler[q] \in {"unsent", "reading", "checking"} => ~called[q] /\ op[q] = "none"
      /\ handler[q] = "upstream" => called[q] /\ op[q] = "open"
      /\ called[q] => op[q] \in Verdict \cup {"open"}
      /\ op[q] # "none" \/ handler[q] = "checking" => adapter \notin {"absent", "unusable"}
<1>0. \A q \in Request : Tool(q)
  BY DEF ToolSound
<1>1. CASE EndsSome
  <2>1. PICK r \in Request, rc \in Receipt : Ends(r, rc)
    BY <1>1 DEF EndsSome
  <2>2. /\ UNCHANGED <<called, adapter, closing, faults>>
        /\ handler'[r] = "replying"
        /\ \A q \in Request \ {r} : handler'[q] = handler[q] /\ op'[q] = op[q]
    BY <2>1, EndsMeans, EndsFiles
  <2>3. /\ handler[r] \in {"unsent", "reading", "checking", "upstream"}
        /\ Recorded(r, rc)
    BY <2>1 DEF Ends
  <2>4. \/ op'[r] = op[r] /\ handler[r] # "upstream" /\ (handler[r] = "checking" => ~MayBegin)
        \/ op'[r] = "blocked" /\ handler[r] = "checking" /\ MayBegin
        \/ op'[r] \in Verdict /\ handler[r] = "upstream"
        \/ adapter = "failing" /\ handler[r] = "checking" /\ op'[r] \in {op[r], "open"}
        \/ adapter = "failing" /\ handler[r] = "upstream" /\ op'[r] \in Verdict \cup {op[r]}
    BY <2>3 DEF Recorded, HttpTypeOK
  <2>5. Tool(r)'
    BY <1>0, <2>2, <2>3, <2>4
  <2>6. \A q \in Request \ {r} : Tool(q)'
    BY <1>0, <2>2
  <2>7. (\E q \in Request : op[q] # "none") => \E q \in Request : op'[q] # "none"
    BY <2>2, <2>4
  <2>8. adapter' = "finalized" =>
          NothingOpen' /\ Sealing' /\ \E q \in Request : op'[q] # "none"
    <3> SUFFICES ASSUME adapter = "finalized"
                 PROVE  NothingOpen' /\ Sealing' /\ \E q \in Request : op'[q] # "none"
      BY <2>2
    <3>1. NothingOpen /\ Sealing /\ \E q \in Request : op[q] # "none"
      BY DEF ToolSound
    <3>2. op'[r] # "open"
      BY <2>4, <3>1 DEF NothingOpen
    <3> QED BY <2>2, <2>7, <3>1, <3>2 DEF NothingOpen, Sealing
  <2>9. closing' \in {"sealing", "closed"} => adapter' \notin {"open", "failing"}
    BY <2>2 DEF ToolSound
  <2>10. ASSUME faults = 0
         PROVE  /\ adapter' \notin {"unusable", "failing"}
                /\ \A q \in Request : op'[q] = "open" => handler'[q] = "upstream"
                /\ adapter' # "absent" => \E q \in Request : handler'[q] = "checking" \/ op'[q] # "none"
    <3>1. /\ adapter \notin {"unusable", "failing"}
          /\ \A q \in Request : op[q] = "open" => handler[q] = "upstream"
          /\ adapter # "absent" => \E q \in Request : handler[q] = "checking" \/ op[q] # "none"
      BY <2>10 DEF ToolSound
    <3>2. op'[r] # "open"
      BY <1>0, <2>3, <2>4, <3>1
    <3>3. adapter # "absent" => \E q \in Request : handler'[q] = "checking" \/ op'[q] # "none"
      <4> SUFFICES ASSUME adapter # "absent"
                   PROVE  \E q \in Request : handler'[q] = "checking" \/ op'[q] # "none"
        OBVIOUS
      <4>1. PICK q \in Request : handler[q] = "checking" \/ op[q] # "none"
        BY <3>1
      <4>2. CASE q # r
        BY <2>2, <4>1, <4>2
      <4>3. CASE op[q] # "none"
        BY <2>7, <4>3
      <4>4. CASE q = r /\ handler[r] = "checking" /\ ~MayBegin
        <5>1. adapter = "finalized"
          BY <3>1, <4>4 DEF MayBegin, HttpTypeOK
        <5> QED BY <2>7, <5>1 DEF ToolSound
      <4>5. CASE q = r /\ handler[r] = "checking" /\ MayBegin
        BY <2>4, <3>1, <4>5
      <4> QED BY <4>1, <4>2, <4>3, <4>4, <4>5
    <3> QED BY <2>2, <3>1, <3>2, <3>3
  <2> QED BY <2>2, <2>5, <2>6, <2>8, <2>9, <2>10 DEF ToolSound
<1>2. ASSUME NEW r \in Request, Reply(r) PROVE ToolSound'
  <2>1. handler[r] = "replying" /\ UNCHANGED <<accessVars, gone, called, op, adapter, closing>>
        /\ handler' = [handler EXCEPT ![r] = "done"]
    BY <1>2 DEF Reply
  <2>2. handler'[r] = "done" /\ \A q \in Request \ {r} : handler'[q] = handler[q]
    BY <2>1, HandlerMoves
  <2> QED BY <2>1, <2>2 DEF ToolSound, NothingOpen, Sealing, accessVars
<1>3. ASSUME NEW r \in Request, Reads(r) PROVE ToolSound'
  <2>1. handler[r] = "unsent" /\ UNCHANGED <<accessVars, gone, called, op, adapter, closing>>
        /\ handler' = [handler EXCEPT ![r] = "reading"]
    BY <1>3 DEF Reads
  <2>2. handler'[r] = "reading" /\ \A q \in Request \ {r} : handler'[q] = handler[q]
    BY <2>1, HandlerMoves
  <2> QED BY <2>1, <2>2 DEF ToolSound, NothingOpen, Sealing, accessVars
<1>4. ASSUME NEW r \in Request, Checks(r) PROVE ToolSound'
  <2>1. /\ handler[r] = "reading" /\ ~gone[r] /\ adapter # "unusable"
        /\ adapter' = IF adapter = "absent" THEN "open" ELSE adapter
        /\ UNCHANGED <<accessVars, called, op, closing>>
        /\ handler' = [handler EXCEPT ![r] = "checking"]
    BY <1>4 DEF Checks
  <2>2. handler'[r] = "checking" /\ \A q \in Request \ {r} : handler'[q] = handler[q]
    BY <2>1, HandlerMoves
  <2> QED BY <2>1, <2>2 DEF ToolSound, NothingOpen, Sealing, accessVars
<1>5. ASSUME NEW r \in Request, CallTool(r) PROVE ToolSound'
  <2>1. /\ handler[r] = "checking" /\ MayBegin
        /\ UNCHANGED <<accessVars, adapter, closing>>
        /\ handler' = [handler EXCEPT ![r] = "upstream"]
        /\ op' = [op EXCEPT ![r] = "open"] /\ called' = [called EXCEPT ![r] = TRUE]
    BY <1>5 DEF CallTool
  <2>2. handler'[r] = "upstream" /\ \A q \in Request \ {r} : handler'[q] = handler[q]
    BY <2>1, HandlerMoves
  <2>3. /\ op'[r] = "open" /\ called'[r] = TRUE
        /\ \A q \in Request \ {r} : op'[q] = op[q] /\ called'[q] = called[q]
    BY <2>1 DEF HttpTypeOK
  <2> QED BY <2>1, <2>2, <2>3 DEF ToolSound, NothingOpen, Sealing, accessVars, MayBegin
<1>6. ASSUME UNCHANGED <<handler, called, op, adapter>>,
             Sealing => Sealing',
             closing' \in {"sealing", "closed"} => closing \in {"sealing", "closed"}
      PROVE  ToolSound'
  BY <1>6, FaultsGrow DEF ToolSound, NothingOpen
<1>7. ASSUME NEW r \in Request, HangUp(r) PROVE ToolSound'
  BY <1>6, <1>7 DEF HangUp, Sealing
<1>8. CASE Close \/ Closed \/ UNCHANGED vars
  BY <1>6, <1>8 DEF Close, Closed, Sealing, vars, proxyVars
<1>9. CASE SealThrows
  BY <1>9 DEF SealThrows, ToolSound, NothingOpen, MayFinalizeAdapter, Sealing, accessVars
<1>10. CASE Waits
  BY <1>3, <1>4, <1>5, <1>7, <1>8, <1>9, <1>10 DEF Waits
<1>11. CASE SdkFails
  <2>1. faults' # 0
    BY <1>11 DEF SdkFails, HttpTypeOK, TypeOK
  <2> QED BY <1>11, <2>1 DEF SdkFails, ToolSound, NothingOpen, Sealing
<1>12. CASE Seal
  <2>1. UNCHANGED <<faults, handler, called, op>> /\ closing' = "sealing"
    BY <1>12, SealMeans
  <2>2. adapter' = AdapterClosed /\ MayFinalizeAdapter
    BY <1>12 DEF Seal
  <2> QED BY <2>1, <2>2 DEF ToolSound, NothingOpen, Sealing, AdapterClosed, MayFinalizeAdapter
<1>13. CASE Writes /\ UNCHANGED proxyVars
  BY <1>6, <1>13 DEF proxyVars, Sealing
<1> QED BY <1>1, <1>2, <1>10, <1>11, <1>12, <1>13, Steps

-----------------------------------------------------------------------------
(* The lines of the journal *)

NewLine == Append(memory[Owner], call[Owner].receipt)

LEMMA NewLineFacts ==
  ASSUME HttpTypeOK, PendingSound, Writing
  PROVE  /\ call[Owner].receipt \in Receipt /\ memory[Owner] \in Seq(Receipt)
         /\ NewLine \in Seq(Receipt) /\ NewLine # <<>> /\ Last(NewLine) = call[Owner].receipt
         /\ Len(NewLine) = Len(memory[Owner]) + 1
         /\ \A i \in 1 .. Len(memory[Owner]) : NewLine[i] = memory[Owner][i]
         /\ ReceiptsIn(NewLine) = ReceiptsIn(memory[Owner]) \cup {call[Owner].receipt}
         /\ IsPrefix(memory[Owner], NewLine) /\ ListSound(NewLine)
<1>1. call[Owner].receipt \in Receipt /\ ListSound(NewLine) /\ memory[Owner] \in Seq(Receipt)
  BY OwnerFacts DEF PendingSound, Writing, NewLine
<1>2. IsPrefix(memory[Owner], NewLine)
  BY <1>1, PrefixGrows DEF NewLine
<1> QED BY <1>1, <1>2, InAppend DEF NewLine

\* What a step may make of the journal.
LEMMA JournalMoves ==
  ASSUME HttpTypeOK, [Next]_vars
  PROVE  \/ UNCHANGED journal /\ (durable' = durable \/ durable' = Len(journal))
         \/ Write /\ journal' = Append(journal, NewLine) /\ UNCHANGED <<durable, faults>>
         \/ /\ Write /\ journal' = Append(journal, <<>>) /\ ShortWrites
            /\ faults' # 0 /\ UNCHANGED durable
         \/ /\ \E p \in Process : call[p].stage = "write" /\ call'[p] = Idle
            /\ journal' = Append(journal, <<>>) /\ UNCHANGED durable
         \/ HostCrash
<1>1. faults \in Nat
  BY DEF HttpTypeOK, TypeOK
<1>2. CASE Turn
  BY <1>2, TurnFiles
<1>3. CASE Writes
  <2>1. CASE Write
    BY <1>1, <2>1 DEF Write, NewLine
  <2>2. CASE Sync
    BY <2>2 DEF Sync, Synced
  <2>3. ASSUME NEW p \in Process, Link(p) \/ SyncDirectory(p)
        PROVE  UNCHANGED <<journal, durable>>
    BY <2>3 DEF Link, SyncDirectory
  <2>4. ASSUME NEW p \in Process, WriteFails(p) \/ Kill(p)
        PROVE  /\ UNCHANGED durable
               /\ \/ UNCHANGED journal
                  \/ /\ call[p].stage = "write" /\ call'[p] = Idle
                     /\ journal' = Append(journal, <<>>)
    BY <2>4, WriteFailsMeans, KillMeans
  <2>5. ASSUME NEW p \in Recoverer, Recover(p) \/ Finalize(p)
        PROVE  UNCHANGED <<journal, durable>>
    BY <2>5 DEF Recover, Finalize
  <2> QED BY <1>3, <2>1, <2>2, <2>3, <2>4, <2>5 DEF Writes
<1> QED BY <1>2, <1>3, StepIsTurn

LEMMA CrashLines ==
  ASSUME HttpTypeOK, HostCrash
  PROVE  \E kept \in durable .. Len(journal) :
           /\ kept \in Nat
           /\ \A i \in 1 .. kept : journal'[i] = journal[i]
           /\ \/ Len(journal') = kept
              \/ Len(journal') = kept + 1 /\ journal'[kept + 1] = <<>> /\ kept < Len(journal)
<1>1. /\ journal \in Seq(Seq(Receipt)) /\ Len(journal) \in Nat
      /\ durable \in Nat /\ durable <= Len(journal)
  BY OwnerFacts DEF HttpTypeOK, TypeOK
<1>2. PICK kept \in durable .. Len(journal) :
        \/ journal' = SubSeq(journal, 1, kept)
        \/ kept < Len(journal) /\ journal' = Append(SubSeq(journal, 1, kept), <<>>)
  BY DEF HostCrash
<1> DEFINE rest == SubSeq(journal, 1, kept)
<1>3. /\ rest \in Seq(Seq(Receipt)) /\ Len(rest) = kept /\ kept \in Nat
      /\ \A i \in 1 .. kept : rest[i] = journal[i]
  BY <1>1
<1> HIDE DEF rest
<1>4. /\ Len(Append(rest, <<>>)) = kept + 1 /\ Append(rest, <<>>)[kept + 1] = <<>>
      /\ \A i \in 1 .. kept : Append(rest, <<>>)[i] = rest[i]
  <2>1. <<>> \in Seq(Receipt)
    OBVIOUS
  <2> QED BY <1>3, <2>1
<1>5. journal' = rest \/ (kept < Len(journal) /\ journal' = Append(rest, <<>>))
  BY <1>2 DEF rest
<1>6. CASE journal' = rest
  BY <1>3, <1>6
<1>7. CASE kept < Len(journal) /\ journal' = Append(rest, <<>>)
  BY <1>3, <1>4, <1>7
<1> QED BY <1>5, <1>6, <1>7

LEMMA AppendedLine ==
  ASSUME HttpTypeOK, NEW line \in Seq(Receipt), journal' = Append(journal, line)
  PROVE  /\ Len(journal') = Len(journal) + 1 /\ journal'[Len(journal) + 1] = line
         /\ journal' # <<>> /\ Last(journal') = line
         /\ \A i \in 1 .. Len(journal) : journal'[i] = journal[i]
         /\ \A i \in 1 .. Len(journal) + 1 : i \in 1 .. Len(journal) \/ i = Len(journal) + 1
<1>1. journal \in Seq(Seq(Receipt)) /\ Len(journal) \in Nat
  BY OwnerFacts DEF HttpTypeOK, TypeOK
<1>2. /\ Len(journal') = Len(journal) + 1 /\ journal'[Len(journal) + 1] = line
      /\ journal' # <<>>
      /\ \A i \in 1 .. Len(journal) : journal'[i] = journal[i]
  BY <1>1
<1>3. Last(journal') = line
  BY <1>2 DEF Last
<1> QED BY <1>1, <1>2, <1>3

LEMMA Lines ==
  ASSUME HttpTypeOK, PendingSound, [Next]_vars
  PROVE  /\ \A i \in 1 .. durable : i \in 1 .. durable' /\ journal'[i] = journal[i]
         /\ ~HostCrash => \A i \in 1 .. Len(journal) :
                            i \in 1 .. Len(journal') /\ journal'[i] = journal[i]
         /\ \A i \in 1 .. Len(journal') :
              \/ \E k \in 1 .. Len(journal) : journal'[i] = journal[k]
              \/ journal'[i] = <<>>
              \/ Writing /\ journal'[i] = NewLine
<1>1. Len(journal) \in Nat /\ durable \in Nat /\ durable <= Len(journal)
  BY OwnerFacts
<1>2. CASE HostCrash
  <2>1. PICK kept \in durable .. Len(journal) :
           /\ kept \in Nat
           /\ \A i \in 1 .. kept : journal'[i] = journal[i]
           /\ \/ Len(journal') = kept
              \/ Len(journal') = kept + 1 /\ journal'[kept + 1] = <<>> /\ kept < Len(journal)
    BY <1>2, CrashLines
  <2>2. durable' = Len(journal')
    BY <1>2, HostCrashMeans
  <2> QED BY <1>1, <1>2, <2>1, <2>2
<1>3. CASE UNCHANGED journal /\ (durable' = durable \/ durable' = Len(journal))
  BY <1>1, <1>3
<1>4. ASSUME NEW line \in Seq(Receipt), journal' = Append(journal, line), UNCHANGED durable,
             line = <<>> \/ (Writing /\ line = NewLine)
      PROVE  /\ \A i \in 1 .. durable : i \in 1 .. durable' /\ journal'[i] = journal[i]
             /\ \A i \in 1 .. Len(journal) : i \in 1 .. Len(journal') /\ journal'[i] = journal[i]
             /\ \A i \in 1 .. Len(journal') :
                  \/ \E k \in 1 .. Len(journal) : journal'[i] = journal[k]
                  \/ journal'[i] = <<>>
                  \/ Writing /\ journal'[i] = NewLine
  <2>1. /\ Len(journal') = Len(journal) + 1 /\ journal'[Len(journal) + 1] = line
        /\ \A i \in 1 .. Len(journal) : journal'[i] = journal[i]
        /\ \A i \in 1 .. Len(journal) + 1 : i \in 1 .. Len(journal) \/ i = Len(journal) + 1
    BY <1>4, AppendedLine
  <2> QED BY <1>1, <1>4, <2>1
<1>5. <<>> \in Seq(Receipt)
  OBVIOUS
<1>6. CASE Write /\ journal' = Append(journal, NewLine) /\ UNCHANGED <<durable, faults>>
  <2>1. Writing
    BY <1>6 DEF Write, Writing
  <2>2. NewLine \in Seq(Receipt)
    BY <2>1, NewLineFacts
  <2> QED BY <1>4, <1>6, <2>1, <2>2
<1>7. CASE journal' = Append(journal, <<>>) /\ UNCHANGED durable
  BY <1>4, <1>5, <1>7
<1> QED BY <1>2, <1>3, <1>6, <1>7, JournalMoves

-----------------------------------------------------------------------------
(* What is said of the tool is true *)

\* What a step does to a list that a process or a call holds.
LEMMA MemoryStep ==
  ASSUME HttpTypeOK, [Next]_vars, NEW p \in Process
  PROVE  \/ memory'[p] = memory[p]
         \/ p = Owner /\ Sync /\ call[Owner].stage = "sync" /\ memory'[p] = NewLine
         \/ p \in Recoverer /\ Recover(p) /\ memory'[p] = ListOf(journal)
<1>1. CASE Turn
  BY <1>1, TurnFiles
<1>2. CASE Writes
  <2>1. CASE Sync
    BY <2>1, SyncMeans DEF NewLine
  <2>2. ASSUME NEW q \in Recoverer, Recover(q)
        PROVE  memory'[p] = memory[p] \/ (p = q /\ memory'[p] = ListOf(journal))
    BY <2>2, RecoverMeans
  <2>3. CASE ~Sync /\ ~ \E q \in Recoverer : Recover(q)
    BY <1>2, <2>3 DEF Writes, Write, Link, SyncDirectory, WriteFails, Kill, Finalize, HostCrash
  <2> QED BY <2>1, <2>2, <2>3
<1> QED BY <1>1, <1>2, StepIsTurn

\* The call of the owner: kept, begun, or at its next stage.
LEMMA WritingStep ==
  ASSUME HttpTypeOK, PendingSound, [Next]_vars, Writing'
  PROVE  \/ Writing /\ ~Sync /\ ~HostCrash /\ call'[Owner].receipt = call[Owner].receipt
            /\ (call'[Owner].stage = "sync" => Write \/ call[Owner].stage = "sync")
            /\ (call[Owner].stage = "sync" => call'[Owner].stage = "sync")
            /\ memory'[Owner] = memory[Owner]
         \/ \E r \in Request, rc \in Receipt :
              /\ Ends(r, rc) /\ call'[Owner].stage = "write" /\ call'[Owner].receipt = rc
              /\ memory'[Owner] = memory[Owner]
<1>0. /\ Owner \in Process /\ Owner \notin Recoverer /\ Idle.stage = "idle"
  BY OwnerFacts
<1>1. CASE EndsSome
  <2>1. PICK r \in Request, rc \in Receipt : Ends(r, rc)
    BY <1>1 DEF EndsSome
  <2>2. memory' = memory
    BY <2>1, EndsFiles
  <2>3. call'[Owner].stage = "write" /\ call'[Owner].receipt = rc
    BY <1>0, <2>1, EndsMeans DEF Writing
  <2> QED BY <2>1, <2>2, <2>3
<1>2. CASE call'[Owner] = call[Owner] /\ ~Sync /\ ~HostCrash
  <2>1. memory'[Owner] = memory[Owner]
    BY <1>0, <1>2, MemoryStep
  <2> QED BY <1>2, <2>1 DEF Writing
<1>3. CASE Turn /\ ~EndsSome
  <2>1. call' = call
    BY <1>0, <1>3, WaitsCall, SealMeans DEF Turn, Writing, SdkFails
  <2>2. memory'[Owner] = memory[Owner]
    BY <1>3, TurnFiles
  <2>3. ~Sync /\ ~HostCrash
    BY <1>0, <2>1, SyncMeans, HostCrashMeans DEF Writing
  <2> QED BY <1>2, <2>1, <2>3
<1>4. CASE Writes
  <2>1. CASE Write
    <3>1. ~Sync /\ ~HostCrash
      BY <1>0, <2>1, WriteMeans, SyncMeans, HostCrashMeans DEF Writing
    <3>2. memory'[Owner] = memory[Owner]
      BY <2>1 DEF Write
    <3> QED BY <2>1, <3>1, <3>2, WriteMeans DEF Writing
  <2>2. ~Sync /\ ~HostCrash
    BY <1>0, SyncMeans, HostCrashMeans DEF Writing
  <2>3. ASSUME NEW p \in Process, call'[p] = Idle \/ call'[p].stage \in {"link", "syncdir"}, Others(p)
        PROVE  call'[Owner] = call[Owner]
    BY <1>0, <2>3 DEF Writing, Others
  <2>4. CASE ~Write
    <3>1. call'[Owner] = call[Owner]
      BY <1>4, <2>2, <2>3, <2>4, LinkMeans, SyncDirectoryMeans, WriteFailsMeans, KillMeans,
         RecoverMeans, FinalizeMeans DEF Writes
    <3> QED BY <1>2, <2>2, <3>1
  <2> QED BY <2>1, <2>4
<1> QED BY <1>1, <1>3, <1>4, StepIsTurn

\* The turn that ends tells the truth.
LEMMA EndsTrue ==
  ASSUME HttpTypeOK, ToolSound, NEW r \in Request, NEW rc \in Receipt, Ends(r, rc)
  PROVE  IsTrue(rc)'
<1>1. /\ rc.request = r /\ KindFits(rc.reason, rc.kind)
      /\ handler[r] \in {"unsent", "reading", "checking", "upstream"}
      /\ rc.invoked = "no" => handler[r] # "upstream"
      /\ rc.invoked = "yes" => handler[r] = "upstream"
      /\ Recorded(r, rc)
  BY DEF Ends
<1>2. handler'[r] = "replying" /\ called' = called
  BY EndsMeans
<1>3. rc.sdk # "none" => op'[r] = rc.sdk
  BY <1>1 DEF Recorded, HttpTypeOK
<1>4. rc.invoked = "no" => ~called[r]
  BY <1>1 DEF ToolSound
<1>5. rc.invoked = "yes" => called[r]
  BY <1>1 DEF ToolSound
<1> QED BY <1>1, <1>2, <1>3, <1>4, <1>5 DEF IsTrue, KindFits

LEMMA OverStays ==
  ASSUME HttpTypeOK, [Next]_vars, NEW q \in Request, handler[q] \in {"replying", "done"}
  PROVE  /\ handler'[q] \in {"replying", "done"} /\ called'[q] = called[q] /\ op'[q] = op[q]
         /\ handler[q] = "done" => handler'[q] = "done"
<1>1. CASE EndsSome
  <2>1. PICK r \in Request, rc \in Receipt : Ends(r, rc)
    BY <1>1 DEF EndsSome
  <2>2. q # r
    BY <2>1 DEF Ends
  <2> QED BY <2>1, <2>2, EndsMeans
<1>2. ASSUME NEW r \in Request, Reply(r)
      PROVE  handler'[q] \in {"done", handler[q]} /\ UNCHANGED <<called, op>>
  BY <1>2 DEF Reply, HttpTypeOK
<1>3. CASE Waits
  <2>1. ASSUME NEW r \in Request, Reads(r) \/ Checks(r) \/ CallTool(r)
        PROVE  handler'[q] = handler[q] /\ called'[q] = called[q] /\ op'[q] = op[q]
    BY <2>1 DEF Reads, Checks, CallTool, HttpTypeOK
  <2> QED BY <1>3, <2>1 DEF Waits, HangUp, Close, SealThrows, Closed, vars, proxyVars
<1>4. CASE SdkFails \/ Seal \/ UNCHANGED proxyVars
  BY <1>4 DEF SdkFails, Seal, proxyVars
<1> QED BY <1>1, <1>2, <1>3, <1>4, Steps

LEMMA TrueStays ==
  ASSUME HttpTypeOK, [Next]_vars, NEW CONSTANT rc \in Receipt, IsTrue(rc)
  PROVE  IsTrue(rc)'
<1>1. rc.request \in Request
  BY DEF Receipt
<1> QED BY <1>1, OverStays DEF IsTrue

LEMMA BundleStep ==
  ASSUME HttpTypeOK, [Next]_vars
  PROVE  \/ bundle' = bundle
         \/ bundle' = None /\ HostCrash /\ sealed = FALSE
         \/ \E p \in Process :
              /\ Link(p) /\ call[p].stage = "link" /\ bundle = None
              /\ bundle'.receipts = memory[p] /\ bundle'.recovered = (p # Owner)
              /\ call'[p].stage = "syncdir"
<1>1. CASE Turn
  BY <1>1, TurnFiles
<1>2. CASE Writes
  <2>1. ASSUME NEW p \in Process, Link(p)
        PROVE  \/ bundle' = bundle
               \/ /\ Link(p) /\ call[p].stage = "link" /\ bundle = None
                  /\ bundle'.receipts = memory[p] /\ bundle'.recovered = (p # Owner)
                  /\ call'[p].stage = "syncdir"
    BY <2>1, LinkMeans
  <2>2. CASE HostCrash
    BY <2>2, HostCrashMeans
  <2>3. CASE ~HostCrash /\ ~ \E p \in Process : Link(p)
    BY <1>2, <2>3 DEF Writes, Write, Sync, SyncDirectory, WriteFails, Kill, Recover, Finalize
  <2> QED BY <2>1, <2>2, <2>3
<1> QED BY <1>1, <1>2, StepIsTurn

LEMMA TruthStep ==
  ASSUME HttpTypeOK, PendingSound, ToolSound, Truth, [Next]_vars
  PROVE  Truth'
<1>0. /\ Owner \in Process /\ \A p \in Process : memory[p] \in Seq(Receipt)
      /\ \A i \in 1 .. Len(journal) : journal[i] \in Seq(Receipt)
      /\ bundle # None => bundle.receipts \in Seq(Receipt)
      /\ ReceiptsIn(<<>>) = {}
  BY OwnerFacts DEF ReceiptsIn
<1>1. \A rc \in Receipt : IsTrue(rc) => IsTrue(rc)'
  BY TrueStays
<1>2. ASSUME NEW list \in Seq(Receipt), AllTrue(list)
      PROVE  \A rc \in ReceiptsIn(list) : IsTrue(rc)'
  BY <1>1, <1>2, InList DEF AllTrue
<1>3. Writing => \A rc \in ReceiptsIn(NewLine) : IsTrue(rc)'
  <2> SUFFICES ASSUME Writing PROVE \A rc \in ReceiptsIn(NewLine) : IsTrue(rc)'
    OBVIOUS
  <2>1. IsTrue(call[Owner].receipt) /\ AllTrue(memory[Owner])
    BY <1>0 DEF Truth
  <2>2. \A rc \in ReceiptsIn(NewLine) : IsTrue(rc) /\ rc \in Receipt
    BY <2>1, NewLineFacts, InList DEF AllTrue
  <2> QED BY <1>1, <2>2
<1>4. ASSUME NEW p \in Process PROVE AllTrue(memory[p])'
  <2>1. CASE memory'[p] = memory[p]
    BY <1>0, <1>2, <2>1 DEF Truth, AllTrue
  <2>2. CASE call[Owner].stage = "sync" /\ memory'[p] = NewLine
    BY <1>3, <2>2 DEF Writing, AllTrue
  <2>3. CASE memory'[p] = ListOf(journal)
    <3>1. CASE journal = <<>>
      BY <1>0, <2>3, <3>1 DEF ListOf, AllTrue
    <3>2. CASE journal # <<>>
      <4>1. Len(journal) \in 1 .. Len(journal)
        <5>1. journal \in Seq(Seq(Receipt))
          BY DEF HttpTypeOK, TypeOK
        <5> QED BY <3>2, <5>1
      <4>2. memory'[p] = journal[Len(journal)]
        BY <2>3, <3>2 DEF ListOf, Last
      <4> QED BY <1>0, <1>2, <4>1, <4>2 DEF Truth, AllTrue
    <3> QED BY <3>1, <3>2
  <2> QED BY <2>1, <2>2, <2>3, MemoryStep
<1>5. Writing' => IsTrue(call[Owner].receipt)'
  <2> SUFFICES ASSUME Writing' PROVE IsTrue(call[Owner].receipt)'
    OBVIOUS
  <2>1. CASE Writing /\ call'[Owner].receipt = call[Owner].receipt
    <3>1. call[Owner].receipt \in ReceiptsIn(NewLine)
      BY <2>1, NewLineFacts
    <3>2. \A rc \in ReceiptsIn(NewLine) : IsTrue(rc)'
      BY <1>3, <2>1
    <3> QED BY <2>1, <3>1, <3>2 DEF IsTrue
  <2>2. ASSUME NEW r \in Request, NEW rc \in Receipt, Ends(r, rc), call'[Owner].receipt = rc
        PROVE  IsTrue(call[Owner].receipt)'
    BY <2>2, EndsTrue DEF IsTrue
  <2> QED BY <2>1, <2>2, WritingStep
<1>6. ASSUME NEW i \in 1 .. Len(journal') PROVE AllTrue(journal[i])'
  <2>1. ASSUME NEW k \in 1 .. Len(journal), journal'[i] = journal[k] PROVE AllTrue(journal[i])'
    BY <1>0, <1>2, <2>1 DEF Truth, AllTrue
  <2>2. CASE journal'[i] = <<>>
    BY <1>0, <2>2 DEF AllTrue
  <2>3. CASE Writing /\ journal'[i] = NewLine
    BY <1>3, <2>3 DEF AllTrue
  <2> QED BY <2>1, <2>2, <2>3, Lines
<1>7. ASSUME bundle' # None PROVE AllTrue(bundle.receipts)'
  <2>1. CASE bundle' = bundle
    BY <1>0, <1>2, <1>7, <2>1 DEF Truth, AllTrue
  <2>2. ASSUME NEW p \in Process, bundle'.receipts = memory[p] PROVE AllTrue(bundle.receipts)'
    BY <1>0, <1>2, <2>2 DEF Truth, AllTrue
  <2> QED BY <1>7, <2>1, <2>2, BundleStep
<1> QED BY <1>4, <1>5, <1>6, <1>7 DEF Truth

-----------------------------------------------------------------------------
(* The story of the calls *)

LEMMA LifeStep ==
  ASSUME HttpTypeOK, [Next]_vars
  PROVE  /\ Running(Owner)' => Running(Owner)
         /\ life[Owner] = "dead" => life'[Owner] = "dead"
         /\ ~Running(Owner)' => life'[Owner] = life[Owner] \/ life'[Owner] = "dead"
         /\ Owner \in finalized => Owner \in finalized'
         /\ Owner \in finalized' => Owner \in finalized \/ SyncDirectory(Owner)
<1>0. Owner \in Process /\ Owner \notin Recoverer
  BY OwnerFacts
<1>1. CASE Turn
  BY <1>1, TurnFiles DEF Running
<1>2. CASE Writes
  <2>1. ASSUME UNCHANGED <<life, finalized>>
        PROVE  /\ Running(Owner)' => Running(Owner)
               /\ life[Owner] = "dead" => life'[Owner] = "dead"
               /\ ~Running(Owner)' => life'[Owner] = life[Owner] \/ life'[Owner] = "dead"
               /\ Owner \in finalized => Owner \in finalized'
               /\ Owner \in finalized' => Owner \in finalized
    BY <2>1 DEF Running
  <2>2. CASE Write \/ Sync
    BY <2>1, <2>2 DEF Write, Sync
  <2>3. ASSUME NEW p \in Process, Link(p) \/ WriteFails(p) PROVE UNCHANGED <<life, finalized>>
    BY <2>3 DEF Link, WriteFails
  <2>4. ASSUME NEW p \in Recoverer, Finalize(p) PROVE UNCHANGED <<life, finalized>>
    BY <2>4 DEF Finalize
  <2>5. ASSUME NEW p \in Process, SyncDirectory(p)
        PROVE  /\ UNCHANGED life
               /\ Owner \in finalized => Owner \in finalized'
               /\ Owner \in finalized' => Owner \in finalized \/ SyncDirectory(Owner)
    BY <2>5, SyncDirectoryMeans
  <2>6. ASSUME NEW p \in Process, Kill(p)
        PROVE  /\ Running(Owner)' => Running(Owner)
               /\ life[Owner] = "dead" => life'[Owner] = "dead"
               /\ ~Running(Owner)' => life'[Owner] = life[Owner] \/ life'[Owner] = "dead"
               /\ UNCHANGED finalized
    BY <1>0, <2>6, KillMeans DEF Running
  <2>7. ASSUME NEW p \in Recoverer, Recover(p)
        PROVE  life'[Owner] = life[Owner] /\ UNCHANGED finalized
    BY <1>0, <2>7, RecoverMeans
  <2>8. CASE HostCrash
    <3>1. /\ life'[Owner] # "running" /\ life'[Owner] \in {life[Owner], "dead"}
          /\ UNCHANGED finalized
      BY <1>0, <2>8, HostCrashMeans
    <3> QED BY <3>1 DEF Running
  <2>9. CASE \E p \in Process : SyncDirectory(p)
    BY <2>5, <2>9 DEF Running
  <2>10. CASE \E p \in Recoverer : Recover(p)
    BY <2>7, <2>10 DEF Running
  <2>11. CASE \E p \in Process : Kill(p)
    BY <2>6, <2>11
  <2> QED BY <1>2, <2>1, <2>2, <2>3, <2>4, <2>8, <2>9, <2>10, <2>11 DEF Writes
<1> QED BY <1>1, <1>2, StepIsTurn

LEMMA OpStep ==
  ASSUME HttpTypeOK, [Next]_vars, NEW q \in Request
  PROVE  \/ op'[q] = op[q]
         \/ op'[q] = "open"
         \/ \E rc \in Receipt : Ends(q, rc)
<1>1. CASE EndsSome
  BY <1>1, EndsMeans DEF EndsSome
<1>2. CASE Waits
  <2>1. ASSUME NEW r \in Request, CallTool(r) PROVE op'[q] \in {op[q], "open"}
    BY <2>1 DEF CallTool, HttpTypeOK
  <2> QED BY <1>2, <2>1 DEF Waits, Reads, Checks, HangUp, Close, SealThrows, Closed, vars, proxyVars
<1>3. CASE (\E r \in Request : Reply(r)) \/ SdkFails \/ Seal \/ UNCHANGED proxyVars
  BY <1>3 DEF Reply, SdkFails, Seal, proxyVars
<1> QED BY <1>1, <1>2, <1>3, Steps

LEMMA WritingGoes ==
  ASSUME HttpTypeOK, PendingSound, [Next]_vars, Writing
  PROVE  \/ memory'[Owner] = NewLine
         \/ Writing' /\ call'[Owner].receipt = call[Owner].receipt
         \/ faults' # 0
         \/ ~Running(Owner)' /\ UNCHANGED finalized
<1>0. Owner \in Process /\ Owner \notin Recoverer /\ Idle.stage = "idle"
  BY OwnerFacts
<1>1. CASE Turn
  <2>1. call[Owner] # Idle
    BY <1>0 DEF Writing
  <2>2. ~EndsSome /\ ~Seal
    BY <2>1, EndsMeans, SealMeans DEF EndsSome
  <2>3. call' = call
    BY <1>1, <2>2, WaitsCall DEF Turn, SdkFails
  <2> QED BY <2>3 DEF Writing
<1>2. CASE Writes
  <2>1. CASE Write
    BY <2>1, WriteMeans DEF Writing
  <2>2. CASE Sync
    BY <2>2, SyncMeans DEF NewLine
  <2>3. ASSUME NEW p \in Process, Link(p) \/ SyncDirectory(p) \/ (p \in Recoverer /\ Finalize(p))
        PROVE  call'[Owner] = call[Owner]
    <3>1. p # Owner /\ Others(p)
      BY <1>0, <2>3, LinkMeans, SyncDirectoryMeans, FinalizeMeans DEF Writing
    <3> QED BY <1>0, <3>1 DEF Others
  <2>4. ASSUME NEW p \in Process, WriteFails(p) PROVE faults' # 0
    BY <2>4, WriteFailsMeans
  <2>5. ASSUME NEW p \in Process, Kill(p)
        PROVE  call'[Owner] = call[Owner] \/ (~Running(Owner)' /\ UNCHANGED finalized)
    BY <1>0, <2>5, KillMeans DEF Others, Running
  <2>6. ASSUME NEW p \in Recoverer, Recover(p) PROVE call'[Owner] = call[Owner]
    BY <2>6, RecoverMeans
  <2>7. CASE HostCrash
    BY <1>0, <2>7, HostCrashMeans DEF Running
  <2>8. CASE call'[Owner] = call[Owner]
    BY <2>8 DEF Writing
  <2>9. Recoverer \subseteq Process
    BY DEF Process
  <2> QED BY <1>2, <2>1, <2>2, <2>3, <2>4, <2>5, <2>6, <2>7, <2>8, <2>9 DEF Writes
<1> QED BY <1>1, <1>2, StepIsTurn

LEMMA MemoryGrows ==
  ASSUME HttpTypeOK, PendingSound, [Next]_vars
  PROVE  ReceiptsIn(memory[Owner]) \subseteq ReceiptsIn(memory'[Owner])
<1>1. Owner \in Process /\ Owner \notin Recoverer
  BY OwnerFacts
<1>2. CASE memory'[Owner] = memory[Owner]
  BY <1>2
<1>3. CASE call[Owner].stage = "sync" /\ memory'[Owner] = NewLine
  BY <1>3, NewLineFacts DEF Writing
<1> QED BY <1>1, <1>2, <1>3, MemoryStep

LEMMA StoryStep ==
  ASSUME HttpTypeOK, PendingSound, Truth, ToolSound, ClosingSound, Story, [Next]_vars
  PROVE  Story'
<1> SUFFICES ASSUME faults' = 0, Running(Owner)' \/ Owner \in finalized',
                    NEW q \in Request, op'[q] \notin {"none", "open"}
             PROVE  \/ \E rc \in ReceiptsIn(memory'[Owner]) : rc.request = q /\ rc.sdk = op'[q]
                    \/ /\ Writing' /\ call'[Owner].receipt.request = q
                       /\ call'[Owner].receipt.sdk = op'[q]
  BY DEF Story
<1>0. Owner \in Process /\ faults = 0 /\ Idle.stage = "idle"
  BY OwnerFacts, FaultsGrow
<1>1. Running(Owner) \/ Owner \in finalized
  <2>1. SyncDirectory(Owner) => Running(Owner)
    BY <1>0, SyncDirectoryMeans DEF PendingSound
  <2> QED BY <2>1, LifeStep
<1>2. CASE op'[q] = op[q]
  <2>1. CASE \E rc \in ReceiptsIn(memory[Owner]) : rc.request = q /\ rc.sdk = op[q]
    BY <1>2, <2>1, MemoryGrows
  <2>2. CASE Writing /\ call[Owner].receipt.request = q /\ call[Owner].receipt.sdk = op[q]
    <3>1. Owner \notin finalized
      BY <2>2 DEF PendingSound
    <3>2. ~(~Running(Owner)' /\ UNCHANGED finalized)
      BY <3>1
    <3>3. CASE memory'[Owner] = NewLine
      BY <1>2, <2>2, <3>3, NewLineFacts
    <3> QED BY <1>2, <2>2, <3>2, <3>3, WritingGoes
  <2> QED BY <1>0, <1>1, <1>2, <2>1, <2>2 DEF Story
<1>3. ASSUME NEW rc \in Receipt, Ends(q, rc), op'[q] # op[q]
      PROVE  /\ Writing' /\ call'[Owner].receipt.request = q
             /\ call'[Owner].receipt.sdk = op'[q]
  <2>1. adapter # "failing" /\ rc.request = q /\ Recorded(q, rc)
    BY <1>0, <1>3 DEF ToolSound, Ends
  <2>2. /\ op'[q] = rc.sdk
        /\ handler[q] \in {"checking", "upstream"}
        /\ handler[q] = "checking" => MayBegin
    BY <1>3, <2>1 DEF Recorded, HttpTypeOK
  <2>3. adapter \in {"open", "failing"}
    <3>1. CASE handler[q] = "checking"
      BY <2>2, <3>1 DEF MayBegin
    <3>2. CASE handler[q] = "upstream"
      <4>1. op[q] = "open"
        BY <3>2 DEF ToolSound
      <4>2. adapter \notin {"absent", "unusable", "finalized"}
        BY <4>1 DEF ToolSound, NothingOpen
      <4> QED BY <4>2 DEF HttpTypeOK
    <3> QED BY <2>2, <3>1, <3>2
  <2>4. Owner \notin finalized
    BY <2>3 DEF ToolSound, ClosingSound
  <2>5. MayAppend(rc)
    BY <1>3, <2>4, NoReceiptYet DEF MayAppend
  <2> QED BY <1>3, <2>1, <2>2, <2>5, EndsMeans DEF Writing
<1> QED BY <1>2, <1>3, OpStep

-----------------------------------------------------------------------------
(* How far the close is *)

LEMMA ClosingStep ==
  ASSUME HttpTypeOK, [Next]_vars
  PROVE  \/ closing' = closing
         \/ closing = "no" /\ closing' = "draining"
         \/ Seal /\ closing' = "sealing"
         \/ SealThrows /\ closing = "draining" /\ closing' = "failed"
         \/ /\ Closed /\ closing = "sealing" /\ Running(Owner) /\ call[Owner] = Idle
            /\ \/ Owner \in finalized /\ closing' = "closed"
               \/ Owner \notin finalized /\ closing' = "failed"
<1>1. CASE EndsSome
  BY <1>1, EndsMeans DEF EndsSome
<1>2. CASE Waits
  BY <1>2 DEF Waits, Reads, Checks, CallTool, HangUp, Close, SealThrows, Closed, ServerClosed,
     vars, proxyVars
<1>3. CASE (\E r \in Request : Reply(r)) \/ SdkFails \/ UNCHANGED proxyVars
  BY <1>3 DEF Reply, SdkFails, proxyVars
<1>4. CASE Seal
  BY <1>4, SealMeans
<1> QED BY <1>1, <1>2, <1>3, <1>4, Steps

LEMMA OwnerCall ==
  ASSUME HttpTypeOK, PendingSound, [Next]_vars
  PROVE  \/ call'[Owner] = call[Owner]
         \/ EndsSome /\ call'[Owner].stage = "write"
         \/ Seal
         \/ Write \/ Sync \/ Link(Owner) \/ SyncDirectory(Owner)
         \/ /\ call'[Owner] = Idle
            /\ faults' # 0 \/ ~Running(Owner)'
            /\ UNCHANGED <<finalized, memory>>
<1>0. Owner \in Process /\ Owner \notin Recoverer /\ Recoverer \subseteq Process
  BY OwnerFacts
<1>1. CASE Turn
  <2>1. CASE EndsSome
    <3>1. PICK r \in Request, rc \in Receipt : Ends(r, rc)
      BY <2>1 DEF EndsSome
    <3> QED BY <2>1, <3>1, EndsMeans
  <2>2. CASE ~EndsSome /\ ~Seal
    <3>1. call' = call
      BY <1>1, <2>2, WaitsCall DEF Turn, SdkFails
    <3> QED BY <3>1
  <2> QED BY <2>1, <2>2
<1>2. CASE Writes
  <2>1. ASSUME NEW p \in Process, p # Owner, Others(p) PROVE call'[Owner] = call[Owner]
    BY <1>0, <2>1 DEF Others
  <2>2. ASSUME NEW p \in Process, Link(p) \/ SyncDirectory(p) \/ (p \in Recoverer /\ Finalize(p))
        PROVE  call'[Owner] = call[Owner] \/ Link(Owner) \/ SyncDirectory(Owner)
    BY <1>0, <2>1, <2>2, LinkMeans, SyncDirectoryMeans, FinalizeMeans
  <2>3. ASSUME NEW p \in Process, WriteFails(p)
        PROVE  /\ call'[Owner] = call[Owner] \/ call'[Owner] = Idle
               /\ faults' # 0 /\ UNCHANGED <<finalized, memory>>
    BY <1>0, <2>1, <2>3, WriteFailsMeans
  <2>4. ASSUME NEW p \in Process, Kill(p)
        PROVE  \/ call'[Owner] = call[Owner]
               \/ /\ call'[Owner] = Idle /\ ~Running(Owner)'
                  /\ UNCHANGED <<finalized, memory>>
    BY <1>0, <2>1, <2>4, KillMeans DEF Running
  <2>5. ASSUME NEW p \in Recoverer, Recover(p) PROVE call'[Owner] = call[Owner]
    BY <2>5, RecoverMeans
  <2>6. CASE HostCrash
    BY <1>0, <2>6, HostCrashMeans DEF Running
  <2> QED BY <1>0, <1>2, <2>2, <2>3, <2>4, <2>5, <2>6 DEF Writes
<1> QED BY <1>1, <1>2, StepIsTurn

LEMMA GoneStays ==
  ASSUME HttpTypeOK, [Next]_vars, NEW q \in Request, gone[q]
  PROVE  gone'[q]
<1>1. CASE EndsSome
  BY <1>1, EndsMeans DEF EndsSome
<1>2. ASSUME NEW r \in Request, HangUp(r) PROVE gone'[q]
  BY <1>2 DEF HangUp, HttpTypeOK
<1>3. CASE Waits
  BY <1>2, <1>3 DEF Waits, Reads, Checks, CallTool, Close, SealThrows, Closed, vars, proxyVars
<1>4. CASE (\E r \in Request : Reply(r)) \/ SdkFails \/ Seal \/ UNCHANGED proxyVars
  BY <1>4 DEF Reply, SdkFails, Seal, proxyVars
<1> QED BY <1>1, <1>3, <1>4, Steps

LEMMA SucceedsStep ==
  ASSUME HttpTypeOK, ToolSound, ClosingSound, CloseSucceeds, [Next]_vars
  PROVE  CloseSucceeds'
<1> SUFFICES ASSUME closing' = "failed", faults' = 0 PROVE \E r \in Request : gone'[r]
  BY DEF CloseSucceeds
<1>0. faults = 0 /\ Idle.stage = "idle"
  BY FaultsGrow, OwnerFacts
<1>1. CASE closing' = closing
  BY <1>0, <1>1, GoneStays DEF CloseSucceeds
<1>2. CASE SealThrows
  <2>1. /\ ServerClosed
        /\ ~MayFinalizeAdapter \/ adapter = "failing"
        /\ UNCHANGED gone
    BY <1>2 DEF SealThrows
  <2>2. ~MayFinalizeAdapter
    BY <1>0, <1>2 DEF SealThrows, ToolSound
  <2>3. PICK r \in Request : handler[r] \in {"upstream", "checking"}
    <3>1. CASE ~NothingOpen
      BY <1>0, <3>1 DEF NothingOpen, ToolSound
    <3>2. CASE ~ \E r \in Request : op[r] # "none"
      BY <1>0, <2>2, <3>2 DEF MayFinalizeAdapter, ToolSound
    <3> QED BY <2>2, <3>1, <3>2 DEF MayFinalizeAdapter
  <2>4. gone[r]
    BY <2>3, <1>2 DEF SealThrows, ServerClosed
  <2> QED BY <2>4, GoneStays
<1>3. CASE closing = "sealing" /\ Running(Owner) /\ call[Owner] = Idle /\ Owner \notin finalized
  BY <1>0, <1>3 DEF ClosingSound
<1> QED BY <1>1, <1>2, <1>3, ClosingStep

LEMMA CloseStep ==
  ASSUME HttpTypeOK, PendingSound, Truth, ClosingSound, [Next]_vars
  PROVE  ClosingSound'
<1>0. Owner \in Process /\ Idle.stage = "idle" /\ Owner \notin Recoverer
  BY OwnerFacts
<1>1. Owner \in finalized' => closing \in {"sealing", "closed"}
  <2>1. SyncDirectory(Owner) => closing = "sealing"
    BY <1>0, SyncDirectoryMeans DEF PendingSound
  <2> QED BY <2>1, LifeStep DEF ClosingSound
<1>2. Owner \in finalized \/ call[Owner].stage = "syncdir" => memory'[Owner] = memory[Owner]
  <2>1. Sync => Owner \notin finalized /\ call[Owner].stage # "syncdir"
    BY SyncMeans DEF PendingSound, Writing
  <2> QED BY <1>0, <2>1, MemoryStep
<1>3. Owner \in finalized' \/ call'[Owner].stage = "syncdir" =>
        \/ Owner \in finalized \/ call[Owner].stage = "syncdir"
        \/ Link(Owner) /\ bundle = None
  <2>1. SyncDirectory(Owner) => call[Owner].stage = "syncdir"
    BY <1>0, SyncDirectoryMeans
  <2>2. Link(Owner) /\ bundle # None => call'[Owner].stage = "idle"
    BY <1>0, LinkMeans
  <2>3. Seal => call'[Owner].stage = "link"
    BY SealMeans
  <2>4. /\ Write => call'[Owner].stage = "sync"
        /\ Sync => call'[Owner].stage = "idle"
        /\ SyncDirectory(Owner) => call'[Owner].stage = "idle"
    BY <1>0, WriteMeans, SyncMeans, SyncDirectoryMeans
  <2>5. call'[Owner].stage = "syncdir" =>
          call[Owner].stage = "syncdir" \/ (Link(Owner) /\ bundle = None)
    BY <1>0, <2>2, <2>3, <2>4, OwnerCall
  <2> QED BY <2>1, <2>5, LifeStep
<1>4. Owner \in finalized' \/ call'[Owner].stage = "syncdir" =>
        bundle' # None /\ bundle'.receipts = memory'[Owner] /\ ~bundle'.recovered
  <2>1. CASE Owner \in finalized \/ (call[Owner].stage = "syncdir" /\ ~HostCrash)
    <3>1. bundle # None /\ bundle.receipts = memory[Owner] /\ ~bundle.recovered
      BY <2>1 DEF ClosingSound
    <3>2. HostCrash => sealed
      BY <2>1 DEF ClosingSound
    <3>3. bundle' = bundle
      BY <3>1, <3>2, BundleStep
    <3> QED BY <1>2, <2>1, <3>1, <3>3
  <2>2. CASE Link(Owner) /\ bundle = None
    <3>1. /\ bundle' = [receipts |-> memory[Owner], recovered |-> Owner # Owner]
          /\ UNCHANGED memory
      BY <1>0, <2>2, LinkMeans
    <3>2. bundle'.receipts = memory[Owner] /\ bundle'.recovered = FALSE
      BY <3>1
    <3>3. bundle' # None
      <4>1. memory[Owner] \in Seq(Receipt)
        BY OwnerFacts
      <4>2. [receipts |-> memory[Owner], recovered |-> Owner # Owner]
              \in [receipts : Seq(Receipt), recovered : BOOLEAN]
        BY <4>1
      <4>3. None \notin [receipts : Seq(Receipt), recovered : BOOLEAN]
        BY AccessAssumption
      <4> QED BY <3>1, <4>2, <4>3
    <3> QED BY <3>1, <3>2, <3>3
  <2>3. CASE HostCrash /\ Owner \notin finalized
    BY <1>0, <2>3, HostCrashMeans
  <2> QED BY <1>3, <2>1, <2>2, <2>3
<1>5. Owner \in finalized' => sealed'
  <2>1. CASE SyncDirectory(Owner)
    BY <1>0, <2>1, SyncDirectoryMeans
  <2>2. CASE Owner \in finalized
    <3>1. sealed = TRUE /\ bundle # None
      BY <2>2 DEF ClosingSound, HttpTypeOK, TypeOK
    <3>2. CASE HostCrash
      BY <3>1, <3>2, HostCrashMeans
    <3>3. CASE Turn
      BY <3>1, <3>3, TurnFiles
    <3>4. CASE Writes /\ ~HostCrash
      BY <3>1, <3>4 DEF Writes, Write, Sync, Link, SyncDirectory, WriteFails, Kill, Recover, Finalize
    <3> QED BY <3>2, <3>3, <3>4, StepIsTurn
  <2> QED BY <2>1, <2>2, LifeStep
<1>6. Owner \in finalized' => closing' \in {"sealing", "closed"}
  <2> SUFFICES ASSUME Owner \in finalized' PROVE closing' \in {"sealing", "closed"}
    OBVIOUS
  <2>1. closing \in {"sealing", "closed"}
    BY <1>1
  <2>2. ASSUME Closed PROVE Owner \in finalized
    <3>1. ~SyncDirectory(Owner)
      BY <1>0, <2>2, SyncDirectoryMeans DEF Closed
    <3> QED BY <3>1, LifeStep
  <2> QED BY <2>1, <2>2, ClosingStep
<1>7. closing' = "closed" => Owner \in finalized'
  BY ClosingStep, LifeStep DEF ClosingSound
<1>8. closing' \in {"sealing", "closed"} =>
        \A rc \in ReceiptsIn(memory'[Owner]) : handler'[rc.request] = "done"
  <2> SUFFICES ASSUME closing' \in {"sealing", "closed"},
                      NEW rc \in ReceiptsIn(memory'[Owner])
               PROVE  handler'[rc.request] = "done"
    OBVIOUS
  <2>1. CASE closing \in {"sealing", "closed"}
    <3>1. ~Sync
      BY <2>1, SyncMeans DEF PendingSound, Writing, ClosingSound
    <3>2. memory'[Owner] = memory[Owner]
      BY <1>0, <3>1, MemoryStep
    <3>3. rc.request \in Request /\ handler[rc.request] = "done"
      <4>1. rc \in ReceiptsIn(memory[Owner]) /\ memory[Owner] \in Seq(Receipt)
        BY <3>2, OwnerFacts
      <4>2. rc \in Receipt
        BY <4>1, InList
      <4> QED BY <2>1, <4>1, <4>2 DEF ClosingSound, Receipt
    <3> QED BY <3>3, OverStays
  <2>2. CASE Seal
    <3>1. UNCHANGED <<memory, handler>>
      BY <2>2, SealMeans, TurnFiles DEF Turn
    <3>2. rc \in Receipt /\ rc.request \in Request
      BY <3>1, OwnerFacts, InList DEF Receipt
    <3>3. handler[rc.request] \in {"replying", "done"}
      BY <1>0, <3>1 DEF Truth, AllTrue, IsTrue
    <3> QED BY <2>2, <3>1, <3>2, <3>3 DEF Seal, Free
  <2> QED BY <2>1, <2>2, ClosingStep
<1>9. ASSUME faults' = 0, Running(Owner)'
      PROVE  /\ bundle' # None => call'[Owner].stage = "syncdir" \/ Owner \in finalized'
             /\ closing' = "sealing" =>
                  call'[Owner].stage \in {"link", "syncdir"} \/ Owner \in finalized'
  <2>1. faults = 0 /\ Running(Owner)
    BY <1>9, FaultsGrow, LifeStep
  <2>2. /\ bundle # None => call[Owner].stage = "syncdir" \/ Owner \in finalized
        /\ closing = "sealing" => call[Owner].stage \in {"link", "syncdir"} \/ Owner \in finalized
    BY <2>1 DEF ClosingSound
  <2>3. /\ Write => call[Owner].stage = "write"
        /\ Sync => call[Owner].stage = "sync"
        /\ EndsSome => call[Owner] = Idle
        /\ Seal => call[Owner] = Idle /\ call'[Owner].stage = "link"
        /\ Link(Owner) => call[Owner].stage = "link"
        /\ Link(Owner) /\ bundle = None => call'[Owner].stage = "syncdir"
        /\ SyncDirectory(Owner) => Owner \in finalized'
    BY <1>0, WriteMeans, SyncMeans, EndsMeans, SealMeans, LinkMeans, SyncDirectoryMeans DEF EndsSome
  <2>4. call[Owner].stage = "syncdir" =>
          call'[Owner].stage = "syncdir" \/ Owner \in finalized'
    BY <1>0, <1>9, <2>3, OwnerCall
  <2>5. bundle' # None => bundle # None \/ Link(Owner)
    <3>1. ASSUME NEW p \in Process, call[p].stage = "link" PROVE p = Owner
      BY <2>1, <3>1 DEF PendingSound, Running
    <3> QED BY <3>1, BundleStep
  <2>6. bundle' # None => call'[Owner].stage = "syncdir" \/ Owner \in finalized'
    <3>1. Owner \in finalized => Owner \in finalized'
      BY LifeStep
    <3> QED BY <2>2, <2>3, <2>4, <2>5, <3>1
  <2>7. closing = "sealing" =>
          call'[Owner].stage \in {"link", "syncdir"} \/ Owner \in finalized'
    <3>1. Owner \in finalized => Owner \in finalized'
      BY LifeStep
    <3>2. CASE call[Owner].stage = "link" /\ Owner \notin finalized
      <4>1. bundle = None
        BY <2>2, <3>2
      <4> QED BY <1>0, <1>9, <2>3, <3>2, <4>1, OwnerCall
    <3> QED BY <2>2, <2>4, <3>1, <3>2
  <2>8. closing' = "sealing" => closing = "sealing" \/ Seal
    BY ClosingStep
  <2> QED BY <2>3, <2>6, <2>7, <2>8
<1> QED BY <1>4, <1>5, <1>6, <1>7, <1>8, <1>9 DEF ClosingSound

-----------------------------------------------------------------------------
(* The counters *)

LEMMA ListSize ==
  ASSUME NEW list \in Seq(Receipt)
  PROVE  /\ IsFiniteSet(ReceiptsIn(list))
         /\ ListSound(list) => Cardinality(ReceiptsIn(list)) = Len(list)
<1>1. /\ Len(list) \in Nat /\ DOMAIN list = 1 .. Len(list)
      /\ list \in [1 .. Len(list) -> Receipt]
  OBVIOUS
<1>2. list \in [1 .. Len(list) -> ReceiptsIn(list)]
  BY <1>1 DEF ReceiptsIn
<1>3. list \in Surjection(1 .. Len(list), ReceiptsIn(list))
  BY <1>1, <1>2 DEF Surjection, ReceiptsIn
<1>4. IsFiniteSet(1 .. Len(list)) /\ Cardinality(1 .. Len(list)) = Len(list)
  BY <1>1, FS_Interval
<1>5. ListSound(list) => list \in Injection(1 .. Len(list), ReceiptsIn(list))
  BY <1>1, <1>2 DEF Injection, IsInjective, ListSound
<1>6. /\ IsFiniteSet(ReceiptsIn(list))
      /\ Cardinality(ReceiptsIn(list)) = Cardinality(1 .. Len(list))
            <=> list \in Injection(1 .. Len(list), ReceiptsIn(list))
  BY <1>3, <1>4, FS_Surjection
<1> QED BY <1>4, <1>5, <1>6

LEMMA CountedFinite ==
  ASSUME HttpTypeOK, NEW c
  PROVE  IsFiniteSet(Counted(c))
<1>1. memory[Owner] \in Seq(Receipt)
  BY OwnerFacts
<1>2. IsFiniteSet(ReceiptsIn(memory[Owner]))
  BY <1>1, ListSize
<1>3. Counted(c) \subseteq ReceiptsIn(memory[Owner])
  BY DEF Counted
<1> QED BY <1>2, <1>3, FS_Subset

\* Only a reply counts a request.
LEMMA CountersStay ==
  ASSUME HttpTypeOK, PendingSound, Truth, [Next]_vars, NEW c
  PROVE  \/ counters' = counters /\ Counted(c)' = Counted(c)
         \/ \E r \in Request : Reply(r)
<1> SUFFICES ASSUME ~ \E r \in Request : Reply(r)
             PROVE  counters' = counters /\ Counted(c)' = Counted(c)
  OBVIOUS
<1>0. Owner \in Process /\ Owner \notin Recoverer /\ memory[Owner] \in Seq(Receipt)
  BY OwnerFacts
<1>1. counters' = counters
  <2>1. CASE EndsSome
    BY <2>1, EndsMeans DEF EndsSome
  <2>2. CASE Waits
    BY <2>2 DEF Waits, Reads, Checks, CallTool, HangUp, Close, SealThrows, Closed, vars, proxyVars
  <2>3. CASE SdkFails \/ Seal \/ UNCHANGED proxyVars
    BY <2>3 DEF SdkFails, Seal, proxyVars
  <2> QED BY <2>1, <2>2, <2>3, Steps
<1>2. \A rc \in Receipt :
        handler[rc.request] \in {"replying", "done"} =>
          (handler'[rc.request] = "done" <=> handler[rc.request] = "done")
  <2> SUFFICES ASSUME NEW q \in Request, handler[q] \in {"replying", "done"}
               PROVE  handler'[q] = "done" <=> handler[q] = "done"
    BY DEF Receipt
  <2>1. ASSUME NEW r \in Request, NEW stage \in {"reading", "checking", "upstream"},
               handler[r] \notin {"replying", "done"}, handler' = [handler EXCEPT ![r] = stage]
        PROVE  handler'[q] = handler[q]
    BY <2>1, HandlerMoves
  <2>2. CASE EndsSome
    <3>1. PICK r \in Request, rc \in Receipt : Ends(r, rc)
      BY <2>2 DEF EndsSome
    <3> QED BY <3>1, EndsMeans DEF Ends
  <2>3. CASE Waits
    BY <2>1, <2>3 DEF Waits, Reads, Checks, CallTool, HangUp, Close, SealThrows, Closed, vars, proxyVars
  <2>4. CASE SdkFails \/ Seal \/ UNCHANGED proxyVars
    BY <2>4 DEF SdkFails, Seal, proxyVars
  <2> QED BY <2>2, <2>3, <2>4, Steps
<1>3. \A rc \in ReceiptsIn(memory[Owner]) :
        rc \in Receipt /\ handler[rc.request] \in {"replying", "done"}
  BY <1>0, InList DEF Truth, AllTrue, IsTrue
<1>4. CASE memory'[Owner] = memory[Owner]
  BY <1>1, <1>2, <1>3, <1>4 DEF Counted
<1>5. CASE Sync /\ call[Owner].stage = "sync" /\ memory'[Owner] = NewLine
  <2> DEFINE rc == call[Owner].receipt
  <2>1. Writing
    BY <1>5 DEF Writing
  <2>2. /\ ReceiptsIn(NewLine) = ReceiptsIn(memory[Owner]) \cup {rc}
        /\ rc \in Receipt
    BY <2>1, NewLineFacts
  <2>3. handler[rc.request] = "replying"
    BY <2>1 DEF PendingSound
  <2> HIDE DEF rc
  <2>4. handler'[rc.request] # "done"
    BY <1>2, <2>2, <2>3
  <2> QED BY <1>1, <1>2, <1>3, <1>5, <2>2, <2>4 DEF Counted
<1> QED BY <1>0, <1>1, <1>4, <1>5, MemoryStep

LEMMA CountStep ==
  ASSUME HttpTypeOK, PendingSound, Truth, CountSound, [Next]_vars
  PROVE  CountSound'
<1>1. ASSUME NEW r \in Request, Reply(r), NEW c \in Counter
      PROVE  counters'[c] = Cardinality(Counted(c)')
  <2>0. Owner \in Process /\ memory[Owner] \in Seq(Receipt) /\ ListSound(memory[Owner])
    BY OwnerFacts DEF PendingSound
  <2>1. /\ handler[r] = "replying" /\ memory' = memory
        /\ handler' = [handler EXCEPT ![r] = "done"]
    BY <1>1 DEF Reply, accessVars
  <2>2. handler'[r] = "done" /\ \A q \in Request \ {r} : handler'[q] = handler[q]
    BY <2>1, HandlerMoves
  <2>3. \A rc \in ReceiptsIn(memory[Owner]) : rc \in Receipt /\ rc.request \in Request
    BY <2>0, InList DEF Receipt
  <2>4. counters[c] = Cardinality(Counted(c)) /\ counters[c] \in Nat
    BY DEF CountSound, HttpTypeOK
  <2>5. CASE r \notin RequestsIn(memory[Owner])
    <3>1. counters' = counters
      BY <1>1, <2>5 DEF Reply
    <3>2. \A rc \in ReceiptsIn(memory[Owner]) : rc.request # r
      BY <2>5 DEF RequestsIn
    <3>3. Counted(c)' = Counted(c)
      BY <2>1, <2>2, <2>3, <3>2 DEF Counted
    <3> QED BY <2>4, <3>1, <3>3
  <2>6. CASE r \in RequestsIn(memory[Owner])
    <3>1. PICK rc \in ReceiptsIn(memory[Owner]) : rc.request = r /\ Count(rc.reason)
      BY <1>1, <2>6 DEF Reply
    <3>2. \A other \in ReceiptsIn(memory[Owner]) : other.request = r => other = rc
      BY <2>0, <3>1 DEF ListSound, ReceiptsIn
    <3>3. counters'[c] = counters[c] + IF c \in CountersOf(rc.reason) THEN 1 ELSE 0
      BY <3>1 DEF Count
    <3>4. rc \notin Counted(c)
      BY <2>1, <3>1 DEF Counted
    <3>5. CASE c \in CountersOf(rc.reason)
      <4>1. Counted(c)' = Counted(c) \cup {rc}
        BY <2>1, <2>2, <2>3, <3>1, <3>2, <3>5 DEF Counted
      <4>2. Cardinality(Counted(c) \cup {rc}) = Cardinality(Counted(c)) + 1
        BY <3>4, CountedFinite, FS_AddElement
      <4> QED BY <2>4, <3>3, <3>5, <4>1, <4>2
    <3>6. CASE c \notin CountersOf(rc.reason)
      <4>1. Counted(c)' = Counted(c)
        BY <2>1, <2>2, <2>3, <3>1, <3>2, <3>6 DEF Counted
      <4> QED BY <2>4, <3>3, <3>6, <4>1
    <3> QED BY <3>5, <3>6
  <2> QED BY <2>5, <2>6
<1>2. ASSUME NEW c \in Counter, ~ \E r \in Request : Reply(r)
      PROVE  counters'[c] = Cardinality(Counted(c)')
  <2>1. counters' = counters /\ Counted(c)' = Counted(c)
    BY <1>2, CountersStay
  <2> QED BY <2>1 DEF CountSound
<1> QED BY <1>1, <1>2 DEF CountSound

-----------------------------------------------------------------------------
(* What was answered is recorded *)

LEMMA AnsweredStep ==
  ASSUME HttpTypeOK, [Next]_vars, NEW q \in Request
  PROVE  \/ answered'[q] = answered[q]
         \/ /\ Reply(q) /\ ~gone[q] /\ Running(Owner)
            /\ handler[q] = "replying" /\ handler'[q] = "done"
            /\ \E rc \in ReceiptsIn(memory[Owner]) : rc.request = q /\ rc.reason = answered'[q]
<1>1. CASE EndsSome
  BY <1>1, EndsMeans DEF EndsSome
<1>2. CASE Waits
  BY <1>2 DEF Waits, Reads, Checks, CallTool, HangUp, Close, SealThrows, Closed, vars, proxyVars
<1>3. CASE SdkFails \/ Seal \/ UNCHANGED proxyVars
  BY <1>3 DEF SdkFails, Seal, proxyVars
<1>4. ASSUME NEW r \in Request, Reply(r), answered'[q] # answered[q]
      PROVE  /\ q = r /\ ~gone[q] /\ Running(Owner)
             /\ handler[q] = "replying" /\ handler'[q] = "done"
             /\ \E rc \in ReceiptsIn(memory[Owner]) : rc.request = q /\ rc.reason = answered'[q]
  <2>1. r \in RequestsIn(memory[Owner])
    BY <1>4 DEF Reply
  <2>2. PICK rc \in ReceiptsIn(memory[Owner]) :
          /\ rc.request = r
          /\ \/ answered' = [answered EXCEPT ![r] = IF gone[r] THEN @ ELSE rc.reason]
             \/ UNCHANGED answered
    BY <1>4, <2>1 DEF Reply
  <2>3. answered' = [answered EXCEPT ![r] = IF gone[r] THEN answered[r] ELSE rc.reason]
    BY <1>4, <2>2
  <2>4. q = r /\ ~gone[r] /\ answered'[r] = rc.reason
    BY <1>4, <2>3 DEF HttpTypeOK
  <2>5. Running(Owner) /\ handler[r] = "replying" /\ handler' = [handler EXCEPT ![r] = "done"]
    BY <1>4 DEF Reply
  <2>6. handler'[r] = "done"
    BY <2>5, HandlerMoves
  <2> QED BY <2>2, <2>4, <2>5, <2>6
<1> QED BY <1>1, <1>2, <1>3, <1>4, Steps

\* Once sealing began, no request begins.
LEMMA UnsentStays ==
  ASSUME HttpTypeOK, [Next]_vars, Sealing, NEW q \in Request, handler[q] = "unsent"
  PROVE  handler'[q] = "unsent"
<1>0. closing \notin {"no", "draining"}
  BY DEF Sealing
<1>1. CASE EndsSome
  <2>1. PICK r \in Request, rc \in Receipt : Ends(r, rc)
    BY <1>1 DEF EndsSome
  <2>2. r # q
    BY <1>0, <2>1 DEF Ends
  <2> QED BY <2>1, <2>2, EndsMeans
<1>2. CASE Waits
  <2>1. ASSUME NEW r \in Request, NEW stage, handler[r] # "unsent",
               handler' = [handler EXCEPT ![r] = stage]
        PROVE  handler'[q] = "unsent"
    BY <2>1, HandlerMoves
  <2> QED BY <1>0, <1>2, <2>1
         DEF Waits, Reads, Checks, CallTool, HangUp, Close, SealThrows, Closed, vars, proxyVars
<1>3. ASSUME NEW r \in Request, Reply(r) PROVE handler'[q] = "unsent"
  <2>1. handler[r] = "replying" /\ handler' = [handler EXCEPT ![r] = "done"]
    BY <1>3 DEF Reply
  <2> QED BY <2>1, HandlerMoves
<1>4. CASE SdkFails \/ Seal \/ UNCHANGED proxyVars
  BY <1>4 DEF SdkFails, Seal, proxyVars
<1> QED BY <1>1, <1>2, <1>3, <1>4, Steps

LEMMA SealingStays ==
  ASSUME HttpTypeOK, [Next]_vars, Sealing
  PROVE  Sealing'
BY ClosingStep DEF Sealing

LEMMA DrainedStep ==
  ASSUME HttpTypeOK, [Next]_vars,
         Sealing => \A r \in Request : handler[r] \in {"unsent", "done"} \/ gone[r]
  PROVE  (Sealing => \A r \in Request : handler[r] \in {"unsent", "done"} \/ gone[r])'
<1> SUFFICES ASSUME Sealing', NEW q \in Request
             PROVE  handler'[q] \in {"unsent", "done"} \/ gone'[q]
  OBVIOUS
<1>1. CASE Sealing
  BY <1>1, UnsentStays, OverStays, GoneStays
<1>2. CASE Seal \/ SealThrows
  BY <1>2 DEF Seal, SealThrows, ServerClosed
<1> QED BY <1>1, <1>2, ClosingStep DEF Sealing

\* A list that was recovered has what the owner had.
LEMMA RecoveredHas ==
  ASSUME HttpTypeOK, PendingSound, Held, ~ShortWrites, NEW p \in Recoverer, Recover(p)
  PROVE  IsPrefix(memory[Owner], ListOf(journal))
<1>1. /\ journal \in Seq(Seq(Receipt)) /\ Len(journal) \in Nat
      /\ durable \in Nat /\ durable <= Len(journal) /\ memory[Owner] \in Seq(Receipt)
  BY OwnerFacts DEF HttpTypeOK, TypeOK
<1>2. ListOf(journal) \in Seq(Receipt)
  BY <1>1 DEF ListOf, Last
<1>3. CASE memory[Owner] = <<>>
  BY <1>2, <1>3, PrefixGrows DEF IsPrefix
<1>4. CASE memory[Owner] # <<>>
  <2>1. PICK i \in 1 .. durable : journal[i] = memory[Owner]
    BY <1>4 DEF Held
  <2>2. i \in 1 .. Len(journal) /\ journal # <<>> /\ i \in DOMAIN journal
    BY <1>1, <2>1
  <2>3. Readable
    BY DEF Recover
  <2>4. IsPrefix(journal[i], Last(journal))
    BY <2>2, <2>3 DEF Readable
  <2> QED BY <2>1, <2>2, <2>4 DEF ListOf
<1> QED BY <1>3, <1>4

\* A process runs from the step in which it recovers.
LEMMA RunningBefore ==
  ASSUME HttpTypeOK, [Next]_vars, NEW p \in Process, Running(p)', ~Recover(p)
  PROVE  Running(p)
<1>1. CASE Turn
  BY <1>1, TurnFiles DEF Running
<1>2. CASE Writes
  <2>1. ASSUME NEW q \in Process, Kill(q) PROVE Running(p)
    BY <2>1, KillMeans DEF Running
  <2>2. ASSUME NEW q \in Recoverer, Recover(q) PROVE Running(p)
    BY <2>2, RecoverMeans DEF Running
  <2>3. ~HostCrash
    BY HostCrashMeans DEF Running
  <2>4. ASSUME UNCHANGED life PROVE Running(p)
    BY <2>4 DEF Running
  <2> QED BY <1>2, <2>1, <2>2, <2>3, <2>4
         DEF Writes, Write, Sync, Link, SyncDirectory, WriteFails, Finalize
<1> QED BY <1>1, <1>2, StepIsTurn

LEMMA HeldStep ==
  ASSUME HttpTypeOK, PendingSound, Held, [Next]_vars
  PROVE  Held'
<1>0. /\ Owner \in Process /\ Owner \notin Recoverer /\ Recoverer \subseteq Process
      /\ \A p \in Process : memory[p] \in Seq(Receipt)
      /\ Len(journal) \in Nat
  BY OwnerFacts
<1>1. call'[Owner].stage = "sync" /\ ~ShortWrites =>
        \E i \in 1 .. Len(journal') : journal'[i] = Append(memory'[Owner], call'[Owner].receipt)
  <2> SUFFICES ASSUME call'[Owner].stage = "sync", ~ShortWrites
               PROVE  \E i \in 1 .. Len(journal') :
                        journal'[i] = Append(memory'[Owner], call'[Owner].receipt)
    OBVIOUS
  <2>1. /\ Writing /\ ~HostCrash /\ call'[Owner].receipt = call[Owner].receipt
        /\ Write \/ call[Owner].stage = "sync"
        /\ memory'[Owner] = memory[Owner]
    BY WritingStep DEF Writing
  <2>2. CASE Write
    <3>1. journal' = Append(journal, NewLine)
      BY <2>2 DEF Write, NewLine
    <3>2. Len(journal') = Len(journal) + 1 /\ journal'[Len(journal) + 1] = NewLine
      BY <2>1, <3>1, NewLineFacts, AppendedLine
    <3>3. Len(journal) + 1 \in 1 .. Len(journal')
      BY <1>0, <3>2
    <3> QED BY <2>1, <3>2, <3>3 DEF NewLine
  <2>3. CASE call[Owner].stage = "sync"
    <3>1. PICK i \in 1 .. Len(journal) : journal[i] = Append(memory[Owner], call[Owner].receipt)
      BY <2>3 DEF Held
    <3> QED BY <2>1, <3>1, Lines
  <2> QED BY <2>1, <2>2, <2>3
<1>2. ~ShortWrites => \/ memory'[Owner] = <<>>
                      \/ \E i \in 1 .. durable' : journal'[i] = memory'[Owner]
  <2> SUFFICES ASSUME ~ShortWrites, memory'[Owner] # <<>>
               PROVE  \E i \in 1 .. durable' : journal'[i] = memory'[Owner]
    OBVIOUS
  <2>1. CASE memory'[Owner] = memory[Owner]
    <3>1. PICK i \in 1 .. durable : journal[i] = memory[Owner]
      BY <2>1 DEF Held
    <3> QED BY <2>1, <3>1, Lines
  <2>2. CASE Sync /\ call[Owner].stage = "sync" /\ memory'[Owner] = NewLine
    <3>1. PICK i \in 1 .. Len(journal) : journal[i] = NewLine
      BY <2>2 DEF Held, NewLine
    <3>2. durable' = Len(journal) /\ journal' = journal
      BY <2>2 DEF Sync, Synced
    <3> QED BY <2>2, <3>1, <3>2
  <2> QED BY <1>0, <2>1, <2>2, MemoryStep
<1>3. ASSUME NEW q \in Request, answered'[q] # "none"
      PROVE  handler'[q] = "done" /\ Says(memory[Owner], q)'
  <2>1. CASE answered'[q] = answered[q]
    <3>1. handler[q] = "done" /\ Says(memory[Owner], q)
      BY <1>3, <2>1 DEF Held
    <3>2. handler'[q] = "done"
      BY <3>1, OverStays
    <3> QED BY <2>1, <3>1, <3>2, MemoryGrows DEF Says
  <2>2. CASE /\ Reply(q) /\ handler'[q] = "done"
             /\ \E rc \in ReceiptsIn(memory[Owner]) : rc.request = q /\ rc.reason = answered'[q]
    BY <2>2, MemoryGrows DEF Says
  <2> QED BY <2>1, <2>2, AnsweredStep
<1>4. ASSUME NEW p \in Recoverer, Running(p)', ~ShortWrites
      PROVE  IsPrefix(memory'[Owner], memory'[p])
  <2>1. CASE Recover(p)
    <3>1. memory'[p] = ListOf(journal) /\ memory'[Owner] = memory[Owner]
      BY <1>0, <2>1, RecoverMeans
    <3> QED BY <1>4, <2>1, <3>1, RecoveredHas
  <2>2. CASE ~Recover(p)
    <3>1. Running(p)
      BY <1>0, <1>4, <2>2, RunningBefore
    <3>2. ~Running(Owner)
      BY <1>0, <3>1 DEF PendingSound, Running
    <3>3. ~Sync
      BY <1>0, <3>2, SyncMeans DEF PendingSound
    <3>4. memory'[Owner] = memory[Owner] /\ memory'[p] = memory[p]
      BY <1>0, <2>2, <3>3, MemoryStep
    <3> QED BY <1>4, <3>1, <3>4 DEF Held
  <2> QED BY <2>1, <2>2
<1>5. (Sealing => \A r \in Request : handler[r] \in {"unsent", "done"} \/ gone[r])'
  BY DrainedStep DEF Held
<1>6. bundle' # None /\ Running(Owner)' => Sealing'
  <2> SUFFICES ASSUME bundle' # None, Running(Owner)' PROVE Sealing'
    OBVIOUS
  <2>1. Running(Owner)
    BY LifeStep
  <2>2. CASE bundle' = bundle
    BY <2>1, <2>2, SealingStays DEF Held
  <2>3. ASSUME NEW p \in Process, call[p].stage = "link" PROVE Sealing'
    <3>1. p = Owner
      BY <2>1, <2>3 DEF PendingSound, Running
    <3>2. Sealing
      BY <2>3, <3>1 DEF PendingSound, Sealing
    <3> QED BY <3>2, SealingStays
  <2> QED BY <2>2, <2>3, BundleStep
<1>7. ASSUME bundle' # None, ~ShortWrites, NEW q \in Request, answered'[q] # "none"
      PROVE  Says(bundle.receipts, q)'
  <2>1. ASSUME bundle # None PROVE answered'[q] = answered[q]
    <3>1. Running(Owner) => Sealing
      BY <2>1 DEF Held
    <3>2. handler[q] = "replying" /\ Sealing => gone[q]
      BY DEF Held
    <3> QED BY <3>1, <3>2, AnsweredStep
  <2>2. CASE bundle' = bundle
    BY <1>7, <2>1, <2>2 DEF Held, Says
  <2>3. ASSUME NEW p \in Process, Link(p), bundle'.receipts = memory[p]
        PROVE  Says(bundle.receipts, q)'
    <3>1. answered'[q] = answered[q]
      <4>1. CASE Turn
        BY <1>7, <2>1, <4>1, TurnFiles
      <4> QED BY <4>1, StepIsTurn DEF proxyVars
    <3>2. Says(memory[Owner], q)
      BY <1>7, <3>1 DEF Held
    <3>3. ReceiptsIn(memory[Owner]) \subseteq ReceiptsIn(memory[p])
      <4>1. CASE p = Owner
        BY <4>1
      <4>2. CASE p \in Recoverer
        <5>1. Running(p)
          BY <2>3, LinkMeans DEF PendingSound
        <5>2. IsPrefix(memory[Owner], memory[p])
          BY <1>7, <4>2, <5>1 DEF Held
        <5> QED BY <1>0, <5>2, InPrefix
      <4> QED BY <4>1, <4>2 DEF Process
    <3> QED BY <2>3, <3>1, <3>2, <3>3 DEF Says
  <2> QED BY <1>7, <2>2, <2>3, BundleStep
<1> QED BY <1>1, <1>2, <1>3, <1>4, <1>5, <1>6, <1>7 DEF Held

-----------------------------------------------------------------------------
(* Without a fault the journal is one chain *)

LEMMA JournalFacts ==
  ASSUME HttpTypeOK
  PROVE  /\ journal \in Seq(Seq(Receipt)) /\ Len(journal) \in Nat
         /\ durable \in Nat /\ durable <= Len(journal)
         /\ journal = <<>> <=> Len(journal) = 0
         /\ journal # <<>> => Last(journal) = journal[Len(journal)] /\ Len(journal) \in 1 .. Len(journal)
         /\ ListOf(journal) \in Seq(Receipt)
         /\ ListOf(journal) = IF Len(journal) = 0 THEN <<>> ELSE journal[Len(journal)]
         /\ Torn <=> Len(journal) # 0 /\ journal[Len(journal)] = <<>>
<1>1. /\ journal \in Seq(Seq(Receipt)) /\ Len(journal) \in Nat
      /\ durable \in Nat /\ durable <= Len(journal)
      /\ \A i \in 1 .. Len(journal) : journal[i] \in Seq(Receipt)
  BY OwnerFacts DEF HttpTypeOK, TypeOK
<1>2. journal = <<>> <=> Len(journal) = 0
  BY <1>1
<1>3. journal # <<>> => Last(journal) = journal[Len(journal)] /\ Len(journal) \in 1 .. Len(journal)
  BY <1>1, <1>2 DEF Last
<1>4. <<>> \in Seq(Receipt)
  OBVIOUS
<1> QED BY <1>1, <1>2, <1>3, <1>4 DEF ListOf, Torn

\* Only the owner's running turn answers, and then its journal is durable.
LEMMA UnansweredStays ==
  ASSUME HttpTypeOK, [Next]_vars, ChainSound
  PROVE  /\ ~Running(Owner) => answered' = answered
         /\ durable < Len(journal) => answered' = answered
<1>1. ASSUME NEW r \in Request, Reply(r) PROVE Running(Owner) /\ durable = Len(journal)
  <2>1. Running(Owner) /\ call[Owner].stage = "idle"
    BY <1>1, OwnerFacts DEF Reply
  <2> QED BY <2>1 DEF ChainSound
<1>2. CASE EndsSome
  BY <1>2, EndsMeans DEF EndsSome
<1>3. CASE Waits
  BY <1>3 DEF Waits, Reads, Checks, CallTool, HangUp, Close, SealThrows, Closed, vars, proxyVars
<1>4. CASE SdkFails \/ Seal \/ UNCHANGED proxyVars
  BY <1>4 DEF SdkFails, Seal, proxyVars
<1>5. Len(journal) \in Nat /\ durable \in Nat
  BY JournalFacts
<1> QED BY <1>1, <1>2, <1>3, <1>4, <1>5, Steps

LEMMA NoBundleYet ==
  ASSUME PendingSound, ClosingSound, faults = 0, Writing, Running(Owner)
  PROVE  bundle = None
BY DEF PendingSound, ClosingSound, Writing

LEMMA ChainKept ==
  ASSUME HttpTypeOK, PendingSound, Held, ClosingSound, ChainSound, [Next]_vars,
         faults = 0, faults' = 0,
         UNCHANGED journal, durable' = durable \/ durable' = Len(journal), ~HostCrash
  PROVE  ChainSound'
<1>0. /\ Owner \in Process /\ Owner \notin Recoverer /\ Recoverer \subseteq Process
      /\ Len(journal) \in Nat /\ durable \in Nat /\ durable <= Len(journal)
      /\ Running(Owner)' => Running(Owner)
  BY OwnerFacts, LifeStep
<1>1. (Torn => ~Running(Owner))'
  BY <1>0 DEF ChainSound, Torn
<1>2. (\A i \in 1 .. Len(journal) : Line(i) \/ (i = Len(journal) /\ Torn))'
  BY DEF ChainSound, Torn, Line
<1>3. (durable < Len(journal) =>
         durable = Len(journal) - 1 /\ (Torn \/ LastUnanswered(Last(journal))))'
  <2> SUFFICES ASSUME durable' < Len(journal)
               PROVE  /\ durable' = Len(journal) - 1
                      /\ Torn \/ LastUnanswered(Last(journal))'
    BY DEF Torn, LastUnanswered
  <2>1. durable' = durable /\ durable < Len(journal)
    BY <1>0
  <2>2. answered' = answered
    BY <2>1, UnansweredStays
  <2> QED BY <2>1, <2>2 DEF ChainSound, LastUnanswered
<1>4. (Running(Owner) =>
         IF call[Owner].stage = "sync"
         THEN /\ journal # <<>> /\ Last(journal) = Append(memory[Owner], call[Owner].receipt)
         ELSE durable = Len(journal) /\ ListOf(journal) = memory[Owner])'
  <2> SUFFICES ASSUME Running(Owner)'
               PROVE  IF call'[Owner].stage = "sync"
                      THEN /\ journal # <<>>
                           /\ Last(journal) = Append(memory'[Owner], call'[Owner].receipt)
                      ELSE durable' = Len(journal) /\ ListOf(journal) = memory'[Owner]
    BY DEF ListOf
  <2>1. Running(Owner)
    BY <1>0
  <2>2. CASE call'[Owner].stage = "sync"
    <3>1. /\ Writing /\ call'[Owner].receipt = call[Owner].receipt
          /\ Write \/ call[Owner].stage = "sync"
          /\ memory'[Owner] = memory[Owner]
      BY <2>2, WritingStep DEF Writing
    <3>2. ~Write
      <4> SUFFICES ASSUME Write PROVE FALSE
        OBVIOUS
      <4>1. <<>> \in Seq(Receipt) /\ NewLine \in Seq(Receipt)
        BY <3>1, NewLineFacts
      <4>2. journal' = Append(journal, NewLine) \/ journal' = Append(journal, <<>>)
        BY DEF Write, NewLine
      <4>3. Len(journal') = Len(journal) + 1
        BY <4>1, <4>2, AppendedLine
      <4> QED BY <1>0, <4>3
    <3> QED BY <2>1, <2>2, <3>1, <3>2 DEF ChainSound
  <2>3. CASE call'[Owner].stage # "sync" /\ call[Owner].stage = "sync"
    <3>1. memory'[Owner] = NewLine
      <4>1. Writing /\ call[Owner] # Idle
        BY <2>3, OwnerFacts DEF Writing
      <4>2. ~Writing'
        <5> SUFFICES ASSUME Writing' PROVE FALSE
          OBVIOUS
        <5>1. ASSUME NEW r \in Request, NEW rc \in Receipt, Ends(r, rc) PROVE FALSE
          BY <4>1, <5>1, EndsMeans
        <5> QED BY <2>3, <5>1, WritingStep
      <4> QED BY <4>1, <4>2, WritingGoes
    <3>2. journal # <<>> /\ Last(journal) = NewLine
      BY <2>1, <2>3 DEF ChainSound, NewLine
    <3>3. Sync
      <4>1. NewLine # memory[Owner]
        <5>1. Len(NewLine) = Len(memory[Owner]) + 1 /\ Len(memory[Owner]) \in Nat
          BY <2>3, NewLineFacts, InList DEF Writing
        <5> QED BY <5>1
      <4> QED BY <1>0, <3>1, <4>1, MemoryStep
    <3>4. durable' = Len(journal)
      BY <3>3 DEF Sync, Synced
    <3> QED BY <2>3, <3>1, <3>2, <3>4 DEF ListOf
  <2>4. CASE call'[Owner].stage # "sync" /\ call[Owner].stage # "sync"
    <3>1. memory'[Owner] = memory[Owner]
      BY <1>0, <2>4, MemoryStep
    <3> QED BY <2>1, <2>4, <3>1 DEF ChainSound
  <2> QED BY <2>2, <2>3, <2>4
<1>5. (\A p \in Recoverer : Running(p) => ~Torn /\ memory[p] = ListOf(journal))'
  <2> SUFFICES ASSUME NEW p \in Recoverer, Running(p)'
               PROVE  ~Torn /\ memory'[p] = ListOf(journal)
    BY DEF Torn, ListOf
  <2>1. CASE Recover(p)
    <3>1. memory'[p] = ListOf(journal) /\ Readable
      BY <2>1, RecoverMeans
    <3>2. ~Torn
      <4> SUFFICES ASSUME Torn PROVE FALSE
        OBVIOUS
      <4>1. Len(journal) # 0 /\ Len(journal) \in DOMAIN journal /\ journal[Len(journal)] = <<>>
        BY JournalFacts
      <4>2. Len(journal[Len(journal)]) = Len(journal)
        BY <3>1, <4>1 DEF Readable
      <4> QED BY <4>1, <4>2
    <3> QED BY <3>1, <3>2
  <2>2. CASE ~Recover(p)
    <3>1. Running(p)
      BY <1>0, <2>2, RunningBefore
    <3>2. memory'[p] = memory[p]
      BY <1>0, <2>2, MemoryStep
    <3> QED BY <3>1, <3>2 DEF ChainSound
  <2> QED BY <2>1, <2>2
<1>6. (bundle # None =>
         /\ ~bundle.recovered => durable = Len(journal)
         /\ bundle.recovered => life[Owner] = "dead"
         /\ \/ ~Torn /\ bundle.receipts = ListOf(journal)
            \/ bundle.recovered /\ bundle.receipts # <<>> /\ LastUnanswered(bundle.receipts))'
  <2> SUFFICES ASSUME bundle' # None
               PROVE  /\ ~bundle'.recovered => durable' = Len(journal)
                      /\ bundle'.recovered => life'[Owner] = "dead"
                      /\ \/ ~Torn /\ bundle'.receipts = ListOf(journal)
                         \/ /\ bundle'.recovered /\ bundle'.receipts # <<>>
                            /\ LastUnanswered(bundle.receipts)'
    BY DEF Torn, ListOf, LastUnanswered
  <2>1. CASE bundle' = bundle
    <3>1. /\ ~bundle.recovered => durable = Len(journal)
          /\ bundle.recovered => life[Owner] = "dead"
          /\ \/ ~Torn /\ bundle.receipts = ListOf(journal)
             \/ bundle.recovered /\ bundle.receipts # <<>> /\ LastUnanswered(bundle.receipts)
      BY <2>1 DEF ChainSound
    <3>2. bundle.recovered => life'[Owner] = "dead" /\ answered' = answered
      BY <3>1, LifeStep, UnansweredStays DEF Running
    <3> QED BY <2>1, <3>1, <3>2 DEF LastUnanswered
  <2>2. ASSUME NEW p \in Process, Link(p), call[p].stage = "link", bundle'.receipts = memory[p],
               bundle'.recovered = (p # Owner)
        PROVE  /\ ~bundle'.recovered => durable' = Len(journal)
               /\ bundle'.recovered => life'[Owner] = "dead"
               /\ ~Torn /\ bundle'.receipts = ListOf(journal)
    <3>1. Running(p)
      BY <2>2 DEF PendingSound
    <3>2. CASE p = Owner
      BY <2>2, <3>1, <3>2 DEF ChainSound
    <3>3. CASE p # Owner
      <4>1. p \in Recoverer /\ life[Owner] = "dead"
        BY <3>1, <3>3 DEF Process, PendingSound
      <4> QED BY <2>2, <3>1, <3>3, <4>1, LifeStep DEF ChainSound
    <3> QED BY <3>2, <3>3
  <2> QED BY <2>1, <2>2, BundleStep
<1> QED BY <1>1, <1>2, <1>3, <1>4, <1>5, <1>6 DEF ChainSound

LEMMA LinesAreLines ==
  ASSUME NEW n \in Nat, \A k \in 1 .. n : journal'[k] = journal[k],
         NEW i \in 1 .. n, Line(i)
  PROVE  Line(i)'
<1>1. \A k \in 1 .. i : journal'[k] = journal[k]
  OBVIOUS
<1>2. journal'[i] = journal[i]
  OBVIOUS
<1> QED BY <1>1, <1>2 DEF Line

LEMMA ChainWritten ==
  ASSUME HttpTypeOK, PendingSound, Held, ClosingSound, ChainSound, [Next]_vars,
         faults = 0, Write, journal' = Append(journal, NewLine)
  PROVE  ChainSound'
<1> DEFINE n == Len(journal)
           rc == call[Owner].receipt
<1>0. /\ Owner \in Process /\ Owner \notin Recoverer /\ Recoverer \subseteq Process
      /\ n \in Nat /\ durable \in Nat /\ durable <= n
      /\ memory[Owner] \in Seq(Receipt) /\ Len(memory[Owner]) \in Nat
  BY OwnerFacts, InList
<1>1. Writing /\ Running(Owner) /\ call[Owner].stage = "write"
  BY <1>0, WriteMeans DEF Writing, PendingSound
<1>2. /\ UNCHANGED <<durable, bundle, life, memory>>
      /\ call'[Owner].stage = "sync" /\ call'[Owner].receipt = rc
  BY WriteMeans DEF Write
<1>3. UNCHANGED answered
  <2>1. call[Owner] # Idle
    BY <1>1, OwnerFacts
  <2>2. ASSUME NEW q \in Request PROVE ~Reply(q)
    BY <2>1 DEF Reply
  <2>3. ~EndsSome
    BY <2>1, EndsMeans DEF EndsSome
  <2>4. CASE Waits
    BY <2>4 DEF Waits, Reads, Checks, CallTool, HangUp, Close, SealThrows, Closed, vars, proxyVars
  <2>5. CASE SdkFails \/ Seal \/ UNCHANGED proxyVars
    BY <2>5 DEF SdkFails, Seal, proxyVars
  <2> QED BY <2>2, <2>3, <2>4, <2>5, Steps
<1>4. durable = n /\ ListOf(journal) = memory[Owner] /\ ~Torn
  BY <1>1 DEF ChainSound
<1>5. NewLine \in Seq(Receipt) /\ NewLine # <<>> /\ Last(NewLine) = rc /\ rc \in Receipt
      /\ Len(NewLine) = Len(memory[Owner]) + 1 /\ ListSound(NewLine)
      /\ IsPrefix(memory[Owner], NewLine)
  BY <1>1, NewLineFacts
<1>6. /\ Len(journal') = n + 1 /\ journal'[n + 1] = NewLine
      /\ journal' # <<>> /\ Last(journal') = NewLine
      /\ \A i \in 1 .. n : journal'[i] = journal[i]
      /\ \A i \in 1 .. n + 1 : i \in 1 .. n \/ i = n + 1
  BY <1>5, AppendedLine
<1>7. \A i \in 1 .. n : Line(i)
  BY <1>4 DEF ChainSound
<1>8. Len(memory[Owner]) = n /\ \A i \in 1 .. n : IsPrefix(journal[i], NewLine)
  <2>1. CASE n = 0
    <3>1. memory[Owner] = <<>>
      BY <1>4, <2>1, JournalFacts
    <3> QED BY <2>1, <3>1
  <2>2. CASE n # 0
    <3>1. n \in 1 .. n /\ memory[Owner] = journal[n]
      BY <1>0, <1>4, <2>2, JournalFacts
    <3>2. Len(journal[n]) = n /\ \A i \in 1 .. n : IsPrefix(journal[i], journal[n])
      BY <1>7, <3>1 DEF Line
    <3>3. ASSUME NEW i \in 1 .. n PROVE IsPrefix(journal[i], NewLine)
      <4>1. journal[i] \in Seq(Receipt) /\ IsPrefix(journal[i], memory[Owner])
        BY <3>1, <3>2, OwnerFacts
      <4> QED BY <1>0, <1>5, <4>1, PrefixGrows DEF NewLine
    <3> QED BY <3>1, <3>2, <3>3
  <2> QED BY <2>1, <2>2
<1> HIDE DEF n, rc
<1>9. ASSUME NEW i \in 1 .. n + 1 PROVE Line(i)'
  <2>1. CASE i \in 1 .. n
    BY <1>0, <1>6, <1>7, <2>1, LinesAreLines
  <2>2. CASE i = n + 1
    <3>1. ASSUME NEW k \in 1 .. n + 1 PROVE IsPrefix(journal'[k], NewLine)
      <4>1. IsPrefix(NewLine, NewLine)
        BY <1>5, PrefixGrows
      <4> QED BY <1>6, <1>8, <3>1, <4>1
    <3> QED BY <1>5, <1>6, <1>8, <2>2, <3>1 DEF Line
  <2> QED BY <1>6, <2>1, <2>2
<1>10. ~Torn'
  BY <1>5, <1>6 DEF Torn
<1>11. LastUnanswered(Last(journal))'
  <2>1. handler[rc.request] = "replying" /\ rc.request \in Request
    BY <1>1, <1>5 DEF PendingSound, Receipt, rc
  <2>2. answered[rc.request] = "none"
    BY <2>1 DEF Held
  <2> QED BY <1>3, <1>5, <1>6, <2>2 DEF LastUnanswered
<1>12. bundle' = None
  BY <1>1, <1>2, NoBundleYet
<1>13. \A p \in Recoverer : ~Running(p)'
  BY <1>0, <1>1, <1>2 DEF PendingSound, Running
<1>14. durable' = Len(journal') - 1
  BY <1>0, <1>2, <1>4, <1>6 DEF n
<1>15. Last(journal') = Append(memory'[Owner], call'[Owner].receipt)
  BY <1>2, <1>6 DEF NewLine, rc
<1> QED BY <1>2, <1>6, <1>9, <1>10, <1>11, <1>12, <1>13, <1>14, <1>15 DEF ChainSound

LEMMA ChainTorn ==
  ASSUME HttpTypeOK, PendingSound, ClosingSound, ChainSound, [Next]_vars,
         faults = 0, NEW p \in Process, Kill(p), call[p].stage = "write",
         journal' = Append(journal, <<>>)
  PROVE  ChainSound'
<1> DEFINE n == Len(journal)
<1>0. /\ Owner \in Process /\ Owner \notin Recoverer /\ Recoverer \subseteq Process
      /\ n \in Nat /\ durable \in Nat /\ durable <= n
  BY OwnerFacts
<1>1. p = Owner /\ Writing /\ Running(Owner) /\ call[Owner].stage = "write"
  BY DEF Writing, PendingSound
<1>2. /\ UNCHANGED <<durable, bundle>> /\ ~Running(Owner)'
      /\ \A q \in Recoverer : ~Running(q)'
  BY <1>0, <1>1, KillMeans DEF PendingSound, Running
<1>3. durable = n /\ ~Torn
  BY <1>1 DEF ChainSound
<1>4. <<>> \in Seq(Receipt)
  OBVIOUS
<1>5. /\ Len(journal') = n + 1 /\ journal'[n + 1] = <<>>
      /\ journal' # <<>> /\ Last(journal') = <<>>
      /\ \A i \in 1 .. n : journal'[i] = journal[i]
      /\ \A i \in 1 .. n + 1 : i \in 1 .. n \/ i = n + 1
  BY <1>4, AppendedLine
<1>6. \A i \in 1 .. n : Line(i)
  BY <1>3 DEF ChainSound
<1>7. Torn'
  BY <1>5 DEF Torn
<1>8. \A i \in 1 .. n : Line(i)'
  BY <1>0, <1>5, <1>6, LinesAreLines
<1>9. bundle' = None
  BY <1>1, <1>2, NoBundleYet
<1>10. durable' = Len(journal') - 1
  BY <1>0, <1>2, <1>3, <1>5
<1> HIDE DEF n
<1> QED BY <1>2, <1>5, <1>7, <1>8, <1>9, <1>10 DEF ChainSound

LEMMA ChainCrashed ==
  ASSUME HttpTypeOK, HttpTypeOK', ChainSound, HostCrash, UNCHANGED answered
  PROVE  ChainSound'
<1> DEFINE n == Len(journal)
<1>0. /\ Owner \in Process /\ Recoverer \subseteq Process
      /\ n \in Nat /\ durable \in Nat /\ durable <= n
  BY OwnerFacts
<1>1. /\ \A p \in Process : ~Running(p)'
      /\ life[Owner] = "dead" => life'[Owner] = "dead"
      /\ bundle' = bundle \/ bundle' = None
      /\ durable' = Len(journal')
  BY <1>0, HostCrashMeans DEF Running
<1>2. PICK kept \in durable .. n :
           /\ kept \in Nat
           /\ \A i \in 1 .. kept : journal'[i] = journal[i]
           /\ \/ Len(journal') = kept
              \/ Len(journal') = kept + 1 /\ journal'[kept + 1] = <<>> /\ kept < n
  BY CrashLines
<1>3. /\ Torn <=> n # 0 /\ journal[n] = <<>>
      /\ ListOf(journal) = IF n = 0 THEN <<>> ELSE journal[n]
      /\ n # 0 => Last(journal) = journal[n]
  BY JournalFacts
<1> HIDE DEF n
<1>4. /\ Torn' <=> Len(journal') # 0 /\ journal'[Len(journal')] = <<>>
      /\ ListOf(journal') = IF Len(journal') = 0 THEN <<>> ELSE journal'[Len(journal')]
  <2>1. journal' \in Seq(Seq(Receipt))
    BY DEF HttpTypeOK, TypeOK
  <2>2. journal' = <<>> <=> Len(journal') = 0
    BY <2>1
  <2> QED BY <2>2 DEF Torn, ListOf, Last
<1>5. \A i \in 1 .. n : Line(i) \/ (i = n /\ Torn)
  BY DEF ChainSound, n
<1>6. CASE Len(journal') = kept /\ kept = n
  <2>1. Torn' <=> Torn
    <3>1. n # 0 => n \in 1 .. n
      BY <1>0
    <3> QED BY <1>2, <1>3, <1>4, <1>6, <3>1
  <2>2. ListOf(journal') = ListOf(journal)
    <3>1. n # 0 => n \in 1 .. n
      BY <1>0
    <3> QED BY <1>2, <1>3, <1>4, <1>6, <3>1
  <2>3. \A i \in 1 .. n : Line(i)' \/ (i = n /\ Torn')
    BY <1>0, <1>2, <1>5, <1>6, <2>1, LinesAreLines
  <2>4. bundle' # None =>
          /\ bundle'.recovered => life'[Owner] = "dead"
          /\ \/ ~Torn' /\ bundle'.receipts = ListOf(journal')
             \/ /\ bundle'.recovered /\ bundle'.receipts # <<>>
                /\ LastUnanswered(bundle.receipts)'
    BY <1>1, <2>1, <2>2 DEF ChainSound, LastUnanswered
  <2> QED BY <1>0, <1>1, <1>6, <2>3, <2>4 DEF ChainSound
<1>7. CASE kept < n
  <2>1. durable < n
    BY <1>0, <1>2, <1>7
  <2>2. \A i \in 1 .. kept : Line(i)'
    <3>1. \A i \in 1 .. kept : i \in 1 .. n /\ i # n
      BY <1>0, <1>2, <1>7
    <3> QED BY <1>2, <1>5, <3>1, LinesAreLines
  <2>3. \A i \in 1 .. Len(journal') : Line(i)' \/ (i = Len(journal') /\ Torn')
    <3>1. CASE Len(journal') = kept
      BY <2>2, <3>1
    <3>2. CASE Len(journal') = kept + 1 /\ journal'[kept + 1] = <<>>
      <4>1. Torn'
        BY <1>2, <1>4, <3>2
      <4>2. \A i \in 1 .. kept + 1 : i \in 1 .. kept \/ i = kept + 1
        BY <1>2
      <4> QED BY <2>2, <3>2, <4>1, <4>2
    <3> QED BY <1>2, <3>1, <3>2
  <2>4. bundle' # None =>
          /\ bundle'.recovered /\ life'[Owner] = "dead"
          /\ bundle'.receipts # <<>> /\ LastUnanswered(bundle.receipts)'
    <3> SUFFICES ASSUME bundle' # None
                 PROVE  /\ bundle'.recovered /\ life'[Owner] = "dead"
                        /\ bundle'.receipts # <<>> /\ LastUnanswered(bundle.receipts)'
      OBVIOUS
    <3>1. bundle' = bundle /\ bundle # None
      BY <1>1
    <3>2. bundle.recovered /\ life[Owner] = "dead"
      BY <1>0, <2>1, <3>1 DEF ChainSound, n
    <3>3. bundle.receipts # <<>> /\ LastUnanswered(bundle.receipts)
      <4>1. CASE ~Torn /\ bundle.receipts = ListOf(journal)
        <5>1. LastUnanswered(Last(journal))
          BY <2>1, <4>1 DEF ChainSound, n
        <5>2. n # 0
          BY <1>0, <2>1
        <5> QED BY <1>3, <4>1, <5>1, <5>2
      <4> QED BY <3>1, <4>1 DEF ChainSound
    <3> QED BY <1>1, <3>1, <3>2, <3>3 DEF LastUnanswered
  <2>5. Len(journal') \in Nat
    BY <1>2
  <2> QED BY <1>0, <1>1, <2>3, <2>4, <2>5 DEF ChainSound
<1> QED BY <1>0, <1>2, <1>6, <1>7

LEMMA ChainStep ==
  ASSUME HttpTypeOK, HttpTypeOK', PendingSound, Held, ClosingSound, [Next]_vars,
         faults = 0 => ChainSound
  PROVE  faults' = 0 => ChainSound'
<1> SUFFICES ASSUME faults' = 0 PROVE ChainSound'
  OBVIOUS
<1>0. faults = 0 /\ ChainSound
  BY FaultsGrow
<1>1. CASE HostCrash
  <2>1. CASE Turn
    <3>1. UNCHANGED <<journal, durable, life>>
      BY <2>1, TurnFiles
    <3>2. ~Running(Owner)'
      BY <1>1, HostCrashMeans, OwnerFacts DEF Running
    <3>3. ~Running(Owner)
      BY <3>1, <3>2 DEF Running
    <3>4. UNCHANGED answered
      BY <1>0, <3>3, UnansweredStays
    <3> QED BY <1>0, <1>1, <3>4, ChainCrashed
  <2>2. CASE UNCHANGED proxyVars
    BY <1>0, <1>1, <2>2, ChainCrashed DEF proxyVars
  <2> QED BY <2>1, <2>2, StepIsTurn
<1>2. CASE ~HostCrash /\ UNCHANGED journal /\ (durable' = durable \/ durable' = Len(journal))
  BY <1>0, <1>2, ChainKept
<1>3. CASE Write
  <2>1. journal' = Append(journal, NewLine)
    BY <1>0, <1>3 DEF Write, NewLine
  <2> QED BY <1>0, <1>3, <2>1, ChainWritten
<1>4. CASE ~HostCrash /\ ~UNCHANGED journal /\ ~Write
  <2>1. CASE Turn
    BY <1>4, <2>1, TurnFiles
  <2>2. CASE Writes
    <3>1. ASSUME NEW p \in Process, WriteFails(p) PROVE FALSE
      BY <3>1, WriteFailsMeans
    <3>2. PICK p \in Process : Kill(p)
      BY <1>4, <2>2, <3>1 DEF Writes, Sync, Link, SyncDirectory, Recover, Finalize
    <3> QED BY <1>0, <1>4, <3>2, KillMeans, ChainTorn
  <2> QED BY <2>1, <2>2, StepIsTurn
<1> QED BY <1>1, <1>2, <1>3, <1>4, JournalMoves

-----------------------------------------------------------------------------
(* The theorems *)

LEMMA IInvStep == IInv /\ [Next]_vars => IInv'
<1> SUFFICES ASSUME IInv, [Next]_vars PROVE IInv'
  OBVIOUS
<1>1. /\ HttpTypeOK /\ PendingSound /\ Held /\ Truth /\ ToolSound /\ Story /\ ClosingSound
      /\ CountSound /\ CloseSucceeds
      /\ faults = 0 => ChainSound
  BY DEF IInv
<1>2. HttpTypeOK' /\ PendingSound'
  BY <1>1, TypeStep, PendingStep
<1>3. Held' /\ Truth' /\ Story' /\ ClosingSound' /\ CountSound' /\ CloseSucceeds'
  BY <1>1, HeldStep, TruthStep, StoryStep, CloseStep, CountStep, SucceedsStep
<1>4. ToolSound'
  BY <1>1, ToolStep DEF Held
<1>5. faults' = 0 => ChainSound'
  BY <1>1, <1>2, ChainStep
<1> QED BY <1>2, <1>3, <1>4, <1>5 DEF IInv

\* The inductive invariant holds: what every process of the session is at, how far
\* each request, each call of the tool and the close of the proxy are.
THEOREM HttpInvariance == Spec => []IInv
BY Init_IInv, IInvStep, PTL DEF Spec

\* Whoever was answered is in the journal with that answer, in a line that no host crash
\* takes back, and in any bundle that is published, the proxy's or a recovery's, unless
\* a write may fall short (appendDurableLine does not look at how much was written).
THEOREM ResponsesAreDurable ==
  ASSUME ~ShortWrites
  PROVE  Spec => []ResponseIsDurable
<1>1. IInv => ResponseIsDurable
  <2> SUFFICES ASSUME IInv, NEW r \in Request, answered[r] # "none"
               PROVE  /\ \E i \in 1 .. durable : Says(journal[i], r)
                      /\ bundle # None => Says(bundle.receipts, r)
    BY DEF ResponseIsDurable, Says
  <2>1. Held
    BY DEF IInv
  <2>2. Says(memory[Owner], r)
    BY <2>1 DEF Held
  <2>3. memory[Owner] # <<>>
    BY <2>2 DEF Says, ReceiptsIn
  <2> QED BY <2>1, <2>2, <2>3 DEF Held
<1> QED BY <1>1, HttpInvariance, PTL

\* What a bundle says of the tool is true, whatever failed on the way.
THEOREM UpstreamReportsAreTrue == Spec => []UpstreamIsTrue
<1>1. IInv => UpstreamIsTrue
  BY DEF IInv, Truth, AllTrue, IsTrue, UpstreamIsTrue
<1> QED BY <1>1, HttpInvariance, PTL

\* Without a fault close fails only for a client that hung up.
THEOREM CloseFailsForClients == Spec => []CloseSucceeds
<1>1. IInv => CloseSucceeds
  BY DEF IInv
<1> QED BY <1>1, HttpInvariance, PTL

\* A published bundle verifies for ever, but for a recovery's whose last line was lost.
THEOREM BundlesVerify == Spec => []SealedVerifies
<1>1. IInv => SealedVerifies
  <2> SUFFICES ASSUME IInv, bundle # None, faults = 0,
                      ~(/\ bundle.recovered /\ bundle.receipts # <<>>
                        /\ answered[Last(bundle.receipts).request] = "none")
               PROVE  Verifies
    BY DEF SealedVerifies
  <2>1. ChainSound /\ HttpTypeOK
    BY DEF IInv
  <2>2. ~Torn /\ bundle.receipts = ListOf(journal)
    BY <2>1 DEF ChainSound, LastUnanswered
  <2>3. \A i \in 1 .. Len(journal) : Line(i)
    BY <2>1, <2>2 DEF ChainSound
  <2>4. DOMAIN journal = 1 .. Len(journal) /\ Len(journal) \in Nat
    BY <2>1, JournalFacts
  <2>5. Readable
    <3>1. CASE journal = <<>>
      BY <2>4, <3>1, JournalFacts, <2>1 DEF Readable, ListOf, ListSound
    <3>2. CASE journal # <<>>
      <4>1. Last(journal) = journal[Len(journal)] /\ Len(journal) \in 1 .. Len(journal)
        BY <2>1, <3>2, JournalFacts
      <4>2. Line(Len(journal)) /\ ListOf(journal) = journal[Len(journal)]
        BY <2>3, <3>2, <4>1 DEF ListOf
      <4> QED BY <2>3, <2>4, <4>1, <4>2 DEF Line, Readable
    <3> QED BY <3>1, <3>2
  <2> QED BY <2>2, <2>5 DEF Verifies
<1> QED BY <1>1, HttpInvariance, PTL

\* A turn that calls the tool finds the SDK recorder open.
THEOREM ClosedCallsNothing == Spec => NoCallAfterClose
<1>1. IInv /\ [Next]_vars => [adapter = "finalized" => called' = called]_vars
  <2> SUFFICES ASSUME IInv, [Next]_vars, adapter = "finalized" PROVE called' = called
    OBVIOUS
  <2>1. CASE EndsSome
    BY <2>1, EndsMeans DEF EndsSome, IInv
  <2>2. CASE Waits
    <3>1. \A r \in Request : ~CallTool(r)
      BY DEF CallTool, MayBegin
    <3> QED BY <2>2, <3>1 DEF Waits, Reads, Checks, HangUp, Close, SealThrows, Closed, vars, proxyVars
  <2>3. CASE (\E r \in Request : Reply(r)) \/ SdkFails \/ Seal \/ UNCHANGED proxyVars
    BY <2>3 DEF Reply, SdkFails, Seal, proxyVars
  <2> QED BY <2>1, <2>2, <2>3, Steps
<1> QED BY <1>1, HttpInvariance, PTL DEF Spec, NoCallAfterClose

LEMMA Disjoint ==
  ASSUME NEW S, NEW T, IsFiniteSet(S), IsFiniteSet(T), S \cap T = {}
  PROVE  /\ IsFiniteSet(S \cup T)
         /\ Cardinality(S \cup T) = Cardinality(S) + Cardinality(T)
<1>1. Cardinality(S) \in Nat /\ Cardinality(T) \in Nat /\ Cardinality(S \cap T) = 0
  BY FS_CardinalityType, FS_EmptySet
<1>2. /\ IsFiniteSet(S \cup T)
      /\ Cardinality(S \cup T) = Cardinality(S) + Cardinality(T) - Cardinality(S \cap T)
  BY FS_Union
<1>3. \A m, n \in Nat : m + n - 0 = m + n
  OBVIOUS
<1>4. Cardinality(S \cup T) = Cardinality(S) + Cardinality(T) - 0
  BY <1>1, <1>2, Zenon
<1>5. Cardinality(S) + Cardinality(T) - 0 = Cardinality(S) + Cardinality(T)
  BY <1>1, <1>3, Zenon
<1> QED BY <1>2, <1>4, <1>5, Zenon

LEMMA AtMostSum ==
  ASSUME NEW S, NEW T, IsFiniteSet(S), IsFiniteSet(T)
  PROVE  Cardinality(S \cup T) <= Cardinality(S) + Cardinality(T)
<1>1. IsFiniteSet(S \cap T)
  BY FS_Subset
<1>2. /\ Cardinality(S) \in Nat /\ Cardinality(T) \in Nat /\ Cardinality(S \cap T) \in Nat
      /\ Cardinality(S \cup T) = Cardinality(S) + Cardinality(T) - Cardinality(S \cap T)
  BY <1>1, FS_CardinalityType, FS_Union
<1> QED BY <1>2

LEMMA ReasonCounters ==
  ASSUME NEW reason \in Reason
  PROVE  /\ ("accepted" \in CountersOf(reason)) = (reason \in {"completed", "tool_error"})
         /\ ("blocked" \in CountersOf(reason))
              = (reason \in (Verdict \ {"completed", "tool_error"}) \cup {"blocked", "unlisted"})
         /\ ("unauthorized" \in CountersOf(reason)) = (reason = "unauthorized")
         /\ ("malformed" \in CountersOf(reason)) = (reason \in {"malformed", "internal"})
BY DEF Reason, Verdict, Refused, CountersOf

LEMMA ReasonDisposition ==
  ASSUME NEW reason \in Reason
  PROVE  /\ (Disposition(reason) = "completed") = (reason \in {"completed", "metadata"})
         /\ Disposition(reason) \in {"completed", "refused", "failed"}
BY DEF Reason, Verdict, Refused, Disposition

\* The counters close reports against those that the bundle's receipts make.
LEMMA ClosedCounters ==
  ASSUME IInv, closing = "closed"
  PROVE  LET derived == CountersFor(bundle.receipts) IN
         /\ counters["unauthorized"] = derived.unauthorized
         /\ counters["malformed"] = derived.malformed
         /\ counters["accepted"] >= derived.accepted
         /\ counters["accepted"] + counters["blocked"]
              <= derived.accepted + derived.blocked + derived.failed
         /\ counters["accepted"] + counters["blocked"] + counters["unauthorized"]
              + counters["malformed"] + derived.metadata = Len(bundle.receipts)
<1> DEFINE L == memory[Owner]
           R == ReceiptsIn(L)
           By(reasons) == {rc \in R : rc.reason \in reasons}
           Calls(disposition) ==
             {rc \in R : rc.kind = "call" /\ Disposition(rc.reason) = disposition}
           A == By({"completed", "tool_error"})
           B == By((Verdict \ {"completed", "tool_error"}) \cup {"blocked", "unlisted"})
           U == By({"unauthorized"})
           M == By({"malformed", "internal"})
           D == {rc \in R : rc.kind = "metadata" /\ Disposition(rc.reason) = "completed"}
<1>1. /\ bundle.receipts = L
      /\ \A rc \in R : handler[rc.request] = "done"
  BY DEF IInv, ClosingSound
<1>2. L \in Seq(Receipt) /\ ListSound(L)
  BY OwnerFacts DEF IInv, PendingSound
<1>3. IsFiniteSet(R) /\ Cardinality(R) = Len(L)
  BY <1>2, ListSize
<1>4. \A rc \in R : rc \in Receipt /\ rc.reason \in Reason
  BY <1>2, InList DEF Receipt
<1>5. \A rc \in R :
        /\ rc.reason \in Verdict \cup {"blocked", "unlisted"} => rc.kind = "call"
        /\ rc.reason = "metadata" => rc.kind = "metadata"
  BY OwnerFacts DEF IInv, Truth, AllTrue, IsTrue
<1>6. /\ Counted("accepted") = A
      /\ Counted("blocked") = B
      /\ Counted("unauthorized") = U
      /\ Counted("malformed") = M
  BY <1>1, <1>4, ReasonCounters DEF Counted
<1>7. /\ counters["accepted"] = Cardinality(A)
      /\ counters["blocked"] = Cardinality(B)
      /\ counters["unauthorized"] = Cardinality(U)
      /\ counters["malformed"] = Cardinality(M)
  BY <1>6 DEF IInv, CountSound, Counter
<1>8. \A S \in SUBSET R : IsFiniteSet(S) /\ Cardinality(S) \in Nat
  BY <1>3, FS_Subset, FS_CardinalityType
<1>9. /\ A \in SUBSET R
      /\ B \in SUBSET R
      /\ U \in SUBSET R
      /\ M \in SUBSET R
      /\ D \in SUBSET R
      /\ Calls("completed") \in SUBSET R
      /\ Calls("refused") \in SUBSET R
      /\ Calls("failed") \in SUBSET R
  OBVIOUS
<1>10. D = By({"metadata"})
  BY <1>4, <1>5, ReasonDisposition DEF Verdict
<1>11. Calls("completed") \subseteq A
  BY <1>4, <1>5, ReasonDisposition
<1>12. A \cup B \subseteq (Calls("completed") \cup Calls("refused")) \cup Calls("failed")
  BY <1>4, <1>5, ReasonDisposition DEF Verdict
<1>13. /\ A \cap B = {}
       /\ (A \cup B) \cap U = {}
       /\ ((A \cup B) \cup U) \cap M = {}
       /\ (((A \cup B) \cup U) \cup M) \cap D = {}
       /\ (((A \cup B) \cup U) \cup M) \cup D = R
  BY <1>4, <1>10 DEF Reason, Verdict, Refused
<1> HIDE DEF R, A, B, U, M, D, Calls
<1>14. Cardinality(A \cup B) = Cardinality(A) + Cardinality(B)
  BY <1>8, <1>9, <1>13, Disjoint
<1>15. Cardinality((A \cup B) \cup U) = Cardinality(A) + Cardinality(B) + Cardinality(U)
  <2>1. IsFiniteSet(A \cup B)
    BY <1>8, <1>9
  <2> QED BY <2>1, <1>8, <1>9, <1>13, <1>14, Disjoint
<1>16. Cardinality(((A \cup B) \cup U) \cup M)
         = Cardinality(A) + Cardinality(B) + Cardinality(U) + Cardinality(M)
  <2>1. IsFiniteSet((A \cup B) \cup U)
    BY <1>8, <1>9
  <2> QED BY <2>1, <1>8, <1>9, <1>13, <1>15, Disjoint
<1>17. Cardinality(R)
         = Cardinality(A) + Cardinality(B) + Cardinality(U) + Cardinality(M) + Cardinality(D)
  <2>1. IsFiniteSet(((A \cup B) \cup U) \cup M)
    BY <1>8, <1>9
  <2> QED BY <2>1, <1>8, <1>9, <1>13, <1>16, Disjoint
<1>18. Cardinality(Calls("completed")) <= Cardinality(A)
  BY <1>8, <1>9, <1>11, FS_Subset
<1>19. Cardinality(A) + Cardinality(B)
         <= Cardinality(Calls("completed")) + Cardinality(Calls("refused"))
              + Cardinality(Calls("failed"))
  <2> DEFINE X == Calls("completed") \cup Calls("refused")
             Y == X \cup Calls("failed")
  <2>1. /\ IsFiniteSet(X) /\ Cardinality(X) \in Nat
        /\ IsFiniteSet(Y) /\ Cardinality(Y) \in Nat
    BY <1>8, <1>9
  <2>2. Cardinality(X) <= Cardinality(Calls("completed")) + Cardinality(Calls("refused"))
    BY <1>8, <1>9, AtMostSum
  <2>3. Cardinality(Y) <= Cardinality(X) + Cardinality(Calls("failed"))
    BY <1>8, <1>9, <2>1, AtMostSum
  <2>4. Cardinality(A \cup B) <= Cardinality(Y)
    BY <1>12, <2>1, FS_Subset
  <2>5. /\ Cardinality(A) \in Nat /\ Cardinality(B) \in Nat
        /\ Cardinality(Calls("completed")) \in Nat /\ Cardinality(Calls("refused")) \in Nat
        /\ Cardinality(Calls("failed")) \in Nat
    BY <1>8, <1>9
  <2> HIDE DEF X, Y
  <2> QED BY <2>1, <2>2, <2>3, <2>4, <2>5, <1>14
<1>20. /\ CountersFor(L).metadata = Cardinality(D)
       /\ CountersFor(L).accepted = Cardinality(Calls("completed"))
       /\ CountersFor(L).blocked = Cardinality(Calls("refused"))
       /\ CountersFor(L).failed = Cardinality(Calls("failed"))
       /\ CountersFor(L).unauthorized = Cardinality(U)
       /\ CountersFor(L).malformed = Cardinality(M)
  BY DEF CountersFor, R, D, Calls, U, M
<1>21. /\ Cardinality(A) \in Nat /\ Cardinality(Calls("completed")) \in Nat
       /\ Cardinality(D) \in Nat /\ Cardinality(B) \in Nat
       /\ Cardinality(U) \in Nat /\ Cardinality(M) \in Nat
  BY <1>8, <1>9
<1> HIDE DEF L
<1> QED BY <1>1, <1>3, <1>7, <1>17, <1>18, <1>19, <1>20, <1>21

\* A close that succeeds hides no call of the tool: each is settled in the SDK bundle,
\* without a fault the two bundles tell the same of every call, and the counters that
\* close reports account for each receipt once.
THEOREM ClosedBundlesAgree == Spec => []BundlesAgree
<1>1. IInv => BundlesAgree
  <2> SUFFICES ASSUME IInv, closing = "closed" PROVE BundlesAgree
    BY DEF BundlesAgree
  <2>1. \A r \in Request : op[r] # "open"
    BY DEF IInv, ToolSound, NothingOpen, HttpTypeOK
  <2>2. \A r \in Request : called[r] => op[r] \in Verdict
    BY <2>1 DEF IInv, ToolSound
  <2>3. Owner \in finalized /\ ~Writing /\ bundle.receipts = memory[Owner]
    BY DEF IInv, ClosingSound, PendingSound
  <2>4. \A r \in Request : faults = 0 /\ op[r] # "none" =>
          \E rc \in ReceiptsIn(bundle.receipts) : rc.request = r /\ rc.sdk = op[r]
    BY <2>1, <2>3 DEF IInv, Story
  <2> QED BY <2>2, <2>4, ClosedCounters DEF BundlesAgree
<1> QED BY <1>1, HttpInvariance, PTL
=============================================================================
