----------------------- MODULE LangChainCallbackProofs -----------------------
(***************************************************************************)
(* Proofs about LangChainCallback and the Python recorder under it, for    *)
(* any application, any runs of the framework, any number of faults and    *)
(* any behaviour of the wall clock: the inductive invariant, that the      *)
(* verdict tells of every call of the framework, that the recorder         *)
(* implements the evidence ledger, and that what is sealed without a fault *)
(* verifies.                                                               *)
(*                                                                         *)
(* The argument is the one of SdkRecorderProofs.  It is made again because *)
(* it is another recorder: a line may reach the log that is not counted,   *)
(* and a manifest left aside stops every later write.                      *)
(***************************************************************************)
EXTENDS LangChainCallback, FiniteSetTheorems, TLAPS

LEMMA LiveFinite ==
  /\ IsFiniteSet(Live)
  /\ Live \subseteq Occurrence
<1>1. IsFiniteSet(Attempt)
  BY FS_Interval, VerifierAssumption DEF Attempt
<1>2. IsFiniteSet(Occurrence)
  BY <1>1, FS_Product, VerifierAssumption DEF Occurrence
<1> QED
  BY <1>2, FS_Subset DEF Live

LEMMA FrameKinds ==
  ASSUME NEW f \in Frame
  PROVE  /\ f.occurrence \in Occurrence
         /\ f.kind = "decision" => f \in Decision
         /\ f.kind # "decision" => f.kind = "action" /\ f \in Action
BY DEF Frame, Decision, Action

LEMMA ReadingTyped == ASSUME NEW r \in Time PROVE Reading(r) \subseteq Time
BY DEF Reading

LEMMA RunsAreNamed ==
  ASSUME NEW r \in Run
  PROVE  /\ r \in Logical /\ r # None
         /\ Of(r) \in Occurrence
         /\ \A q \in Run : Of(q) = Of(r) => q = r
         /\ \A o \in (Logical \ Run) \X Attempt : o \in Occurrence /\ o # Of(r)
<1>1. 1 \in Attempt
  BY CallbackAssumption, VerifierAssumption DEF Attempt
<1> QED
  BY <1>1, CallbackAssumption DEF Of, Occurrence

\* The actions of the log with one frame more.
LEMMA ActionsGrow ==
  ASSUME NEW l \in Seq(Frame), NEW f \in Frame
  PROVE  /\ Actions(Append(l, f)) =
              Actions(l) \cup (IF f.kind = "action" THEN {Len(l) + 1} ELSE {})
         /\ Append(l, f)[Len(l) + 1] = f
         /\ \A i \in Actions(l) : Append(l, f)[i] = l[i]
<1> DEFINE m == Append(l, f)
<1>1. /\ Len(l) \in Nat /\ m[Len(l) + 1] = f
      /\ DOMAIN l = 1 .. Len(l) /\ DOMAIN m = 1 .. (Len(l) + 1)
      /\ \A i \in 1 .. Len(l) : m[i] = l[i]
  OBVIOUS
<1> HIDE DEF m
<1>2. Actions(m) = Actions(l) \cup (IF f.kind = "action" THEN {Len(l) + 1} ELSE {})
  BY <1>1 DEF Actions
<1>3. \A i \in Actions(l) : m[i] = l[i]
  BY <1>1 DEF Actions
<1> QED
  BY <1>1, <1>2, <1>3 DEF m

LEMMA RecordedGrow ==
  ASSUME NEW l \in Seq(Frame), NEW f \in Frame
  PROVE  RecordedIn(Append(l, f)) =
           RecordedIn(l) \cup (IF f.kind = "action" THEN {f.occurrence} ELSE {})
<1> DEFINE m == Append(l, f)
<1>1. /\ Actions(m) = Actions(l) \cup (IF f.kind = "action" THEN {Len(l) + 1} ELSE {})
      /\ m[Len(l) + 1] = f
      /\ \A i \in Actions(l) : m[i] = l[i]
  BY ActionsGrow
<1> HIDE DEF m
<1>2. RecordedIn(m) \subseteq
        RecordedIn(l) \cup (IF f.kind = "action" THEN {f.occurrence} ELSE {})
  BY <1>1 DEF RecordedIn
<1>3. RecordedIn(l) \subseteq RecordedIn(m)
  BY <1>1 DEF RecordedIn
<1>4. f.kind = "action" => f.occurrence \in RecordedIn(m)
  BY <1>1 DEF RecordedIn
<1> QED
  BY <1>2, <1>3, <1>4 DEF m

-----------------------------------------------------------------------------
(***************************************************************************)
(* What each action of the recorder does to the frame being written, and   *)
(* that it keeps the types.                                                *)
(***************************************************************************)
Stages == {"idle", "line", "manifest", "count", "final"}

\* The call in progress has the type the recorder gives it.
CallTyped ==
  /\ call \in [stage : Stages, frame : Frame \cup {None}]
  /\ call.stage \in {"line", "manifest", "count"} => call.frame \in Frame

LEMMA NewCallTyped ==
  /\ \A f \in Frame : call' = [stage |-> "line", frame |-> f] => CallTyped'
  /\ call' = Idle => CallTyped' /\ call'.stage = "idle" /\ call'.frame = None
BY DEF CallTyped, Stages, Idle

LEMMA BeginTyped ==
  ASSUME RecorderTypeOK, NEW l \in Logical, NEW n \in Attempt, NEW c \in Context,
         NEW retryOf \in Occurrence \cup {None}, NEW parent \in Occurrence \cup {None},
         NEW policy \in Policy, Begin(l, n, c, retryOf, parent, policy)
  PROVE  /\ RecorderTypeOK'
         /\ call'.stage = "line" /\ call'.frame.kind = "decision"
         /\ call'.frame.occurrence = <<l, n>>
<1>1. PICK evaluated \in Reading(clock) : \E observed \in Reading(evaluated) :
        /\ clock' = observed
        /\ call' = [stage |-> "line",
                    frame |-> [kind |-> "decision", sequence |-> manifest.frames,
                               occurrence |-> <<l, n>>, context |-> c, retryOf |-> retryOf,
                               parent |-> parent, policy |-> policy,
                               evaluated |-> evaluated, observed |-> observed]]
  BY DEF Begin
<1>2. PICK observed \in Reading(evaluated) :
        /\ clock' = observed
        /\ call' = [stage |-> "line",
                    frame |-> [kind |-> "decision", sequence |-> manifest.frames,
                               occurrence |-> <<l, n>>, context |-> c, retryOf |-> retryOf,
                               parent |-> parent, policy |-> policy,
                               evaluated |-> evaluated, observed |-> observed]]
  BY <1>1
<1> DEFINE f == [kind |-> "decision", sequence |-> manifest.frames,
                 occurrence |-> <<l, n>>, context |-> c, retryOf |-> retryOf,
                 parent |-> parent, policy |-> policy,
                 evaluated |-> evaluated, observed |-> observed]
<1>3. evaluated \in Time /\ observed \in Time
  BY ReadingTyped DEF RecorderTypeOK
<1>4. f \in Frame /\ f.kind = "decision" /\ f.occurrence = <<l, n>>
  BY <1>3 DEF RecorderTypeOK, Manifest, Frame, Decision, Occurrence
<1>5. call' = [stage |-> "line", frame |-> f] /\ clock' \in Time
  BY <1>2, <1>3
<1> HIDE DEF f
<1>6. CallTyped' /\ call'.stage = "line" /\ call'.frame = f
  BY <1>4, <1>5, NewCallTyped
<1> QED
  BY <1>4, <1>5, <1>6 DEF RecorderTypeOK, CallTyped, Stages, Begin, fileVars

LEMMA WriteLineTyped == ASSUME RecorderTypeOK, WriteLine PROVE RecorderTypeOK'
<1>1. call.frame \in Frame
  BY DEF RecorderTypeOK, WriteLine
<1>2. log' \in Seq(Frame)
  BY <1>1 DEF RecorderTypeOK, WriteLine
<1>3. manifest' \in Manifest
  <2>1. manifest \in Manifest /\ manifest' = [manifest EXCEPT !.frames = @ + 1]
    BY DEF RecorderTypeOK, WriteLine
  <2> QED BY <2>1 DEF Manifest
<1>4. CallTyped'
  BY <1>1 DEF RecorderTypeOK, WriteLine, CallTyped, Stages
<1> QED
  BY <1>2, <1>3, <1>4 DEF RecorderTypeOK, CallTyped, Stages, WriteLine

\* The action frame of a refused operation.
LEMMA RefusalTyped ==
  ASSUME RecorderTypeOK, Admit, call.frame.policy # "allowed"
  PROVE  /\ CallTyped' /\ clock' \in Time
         /\ call'.stage = "line" /\ call'.frame.kind = "action"
         /\ call'.frame.occurrence = call.frame.occurrence
         /\ call'.frame.outcome \in Censored
<1>1. call.frame \in Decision /\ call.frame.policy \in Policy
  BY FrameKinds DEF RecorderTypeOK, Admit, Decision
<1>2. PICK observed \in Reading(clock) :
        /\ clock' = observed
        /\ call' = [stage |-> "line",
                    frame |-> ActionOf(call.frame, manifest.frames,
                                       CensorOutcome[call.frame.policy],
                                       NoTime, NoTime, observed)]
  BY DEF Admit
<1>3. observed \in Time
  BY ReadingTyped DEF RecorderTypeOK
<1>4. CensorOutcome[call.frame.policy] \in Censored
  <2>1. call.frame.policy \in {"policy", "budget", "authority"}
    BY <1>1, VerifierAssumption
  <2>2. /\ CensorOutcome["policy"] = "policy_censored"
        /\ CensorOutcome["budget"] = "budget_censored"
        /\ CensorOutcome["authority"] = "authority_censored"
    BY DEF CensorOutcome
  <2> QED BY <2>1, <2>2 DEF Censored
<1> DEFINE f == ActionOf(call.frame, manifest.frames, CensorOutcome[call.frame.policy],
                         NoTime, NoTime, observed)
<1>5. manifest.frames \in Nat
  BY DEF RecorderTypeOK, Manifest
<1>6. /\ f \in Frame /\ f.kind = "action" /\ f.occurrence = call.frame.occurrence
      /\ f.outcome \in Censored
  <2>1. CensorOutcome[call.frame.policy] \in Terminal \cup Censored
    BY <1>4
  <2>2. /\ f \in Frame /\ f.kind = "action" /\ f.occurrence = call.frame.occurrence
        /\ f.outcome = CensorOutcome[call.frame.policy]
    BY <1>1, <1>3, <1>5, <2>1 DEF ActionOf, Frame, Action, Decision
  <2> QED
    BY <1>4, <2>2
<1>7. call' = [stage |-> "line", frame |-> f]
  BY <1>2
<1> HIDE DEF f
<1>8. CallTyped' /\ call'.stage = "line" /\ call'.frame = f
  BY <1>6, <1>7, NewCallTyped
<1> QED
  BY <1>2, <1>3, <1>6, <1>8

LEMMA AdmitTyped == ASSUME RecorderTypeOK, Admit PROVE RecorderTypeOK'
<1>1. call.frame \in Decision /\ call.frame.occurrence \in Occurrence
  BY FrameKinds DEF RecorderTypeOK, Admit
<1>2. admitted' \subseteq Decision /\ disk' \in Manifest
  BY <1>1 DEF RecorderTypeOK, Admit, WriteManifest
<1>3. CASE call.frame.policy = "allowed"
  <2>1. call' = Idle /\ clock' = clock /\ open' = open + 1
    BY <1>3 DEF Admit
  <2>2. handle' \in [Occurrence -> {"none", "censored", "open", "dispatched", "closed"}]
    BY <1>1, <1>3 DEF RecorderTypeOK, Admit
  <2>3. CallTyped'
    BY <2>1, NewCallTyped
  <2> QED
    BY <1>2, <2>1, <2>2, <2>3 DEF RecorderTypeOK, CallTyped, Stages, Admit
<1>4. CASE call.frame.policy # "allowed"
  <2>1. CallTyped' /\ clock' \in Time
    BY <1>4, RefusalTyped
  <2>2. UNCHANGED <<open, handle>>
    BY <1>4 DEF Admit
  <2> QED
    BY <1>2, <2>1, <2>2 DEF RecorderTypeOK, CallTyped, Stages, Admit
<1> QED
  BY <1>3, <1>4

LEMMA OpenCounted ==
  ASSUME RecorderTypeOK, Accounting
  PROVE  /\ Cardinality(Live) \in Nat
         /\ call.stage = "manifest" /\ UncensoredAction(call.frame) => open - 1 \in Nat
<1>1. Cardinality(Live) \in Nat
  BY LiveFinite, FS_CardinalityType
<1> QED
  BY <1>1 DEF RecorderTypeOK, Accounting

LEMMA CountActionTyped ==
  ASSUME RecorderTypeOK, Accounting, CountAction PROVE RecorderTypeOK'
<1>1. call.frame \in Frame
  BY DEF RecorderTypeOK, CountAction
<1>2. open' \in Nat
  BY OpenCounted DEF RecorderTypeOK, CountAction, OpenAfter, UncensoredAction
<1>3. manifest' \in Manifest /\ disk' \in Manifest
  BY DEF RecorderTypeOK, CountAction, WriteManifest, Manifest
<1>4. CallTyped'
  BY <1>1 DEF RecorderTypeOK, CountAction, CallTyped, Stages
<1> QED
  BY <1>2, <1>3, <1>4 DEF RecorderTypeOK, CallTyped, Stages, CountAction

LEMMA WriteCountTyped == ASSUME RecorderTypeOK, WriteCount PROVE RecorderTypeOK'
<1>1. call.frame.occurrence \in Occurrence
  BY FrameKinds DEF RecorderTypeOK, WriteCount
<1>2. handle' \in [Occurrence -> {"none", "censored", "open", "dispatched", "closed"}]
  BY <1>1 DEF RecorderTypeOK, WriteCount
<1>3. CallTyped'
  BY NewCallTyped DEF WriteCount
<1> QED
  BY <1>2, <1>3 DEF RecorderTypeOK, CallTyped, Stages, WriteCount, WriteManifest

LEMMA MarkDispatchedTyped ==
  ASSUME RecorderTypeOK, NEW o \in Occurrence, MarkDispatched(o)
  PROVE  RecorderTypeOK'
<1>1. clock' \in Time /\ started' \in [Occurrence -> Time \cup {NoTime}]
  BY ReadingTyped DEF RecorderTypeOK, MarkDispatched
<1>2. handle' \in [Occurrence -> {"none", "censored", "open", "dispatched", "closed"}]
  BY DEF RecorderTypeOK, MarkDispatched
<1> QED
  BY <1>1, <1>2 DEF RecorderTypeOK, MarkDispatched, fileVars

LEMMA CloseTyped ==
  ASSUME RecorderTypeOK, NEW o \in Occurrence, NEW outcome \in Terminal, Close(o, outcome)
  PROVE  /\ RecorderTypeOK'
         /\ call'.stage = "line" /\ call'.frame.kind = "action"
         /\ call'.frame.occurrence = o /\ call'.frame.outcome = outcome
<1>1. PICK d \in admitted, ended \in Reading(clock) : \E observed \in Reading(ended) :
        /\ d.occurrence = o
        /\ clock' = observed
        /\ call' = [stage |-> "line",
                    frame |-> ActionOf(d, manifest.frames, outcome, started[o], ended, observed)]
  BY DEF Close
<1>2. PICK observed \in Reading(ended) :
        /\ d.occurrence = o
        /\ clock' = observed
        /\ call' = [stage |-> "line",
                    frame |-> ActionOf(d, manifest.frames, outcome, started[o], ended, observed)]
  BY <1>1
<1> DEFINE f == ActionOf(d, manifest.frames, outcome, started[o], ended, observed)
<1>3. ended \in Time /\ observed \in Time /\ d \in Decision
  BY ReadingTyped DEF RecorderTypeOK
<1>4. manifest.frames \in Nat /\ started[o] \in Time \cup {NoTime}
  BY DEF RecorderTypeOK, Manifest
<1>5. f \in Frame /\ f.kind = "action" /\ f.occurrence = o /\ f.outcome = outcome
  <2>1. d.occurrence = o /\ outcome \in Terminal \cup Censored
    BY <1>2
  <2>2. /\ f \in Frame /\ f.kind = "action" /\ f.occurrence = d.occurrence
        /\ f.outcome = outcome
    BY <1>3, <1>4, <2>1 DEF ActionOf, Frame, Action, Decision
  <2> QED
    BY <2>1, <2>2
<1>6. call' = [stage |-> "line", frame |-> f] /\ clock' \in Time
  BY <1>2, <1>3
<1> HIDE DEF f
<1>7. CallTyped' /\ call'.stage = "line" /\ call'.frame = f
  BY <1>5, <1>6, NewCallTyped
<1>8. handle' \in [Occurrence -> {"none", "censored", "open", "dispatched", "closed"}]
  BY DEF RecorderTypeOK, Close
<1> QED
  BY <1>5, <1>6, <1>7, <1>8 DEF RecorderTypeOK, CallTyped, Stages, Close, fileVars

LEMMA CloseRaisesTyped ==
  ASSUME RecorderTypeOK, NEW o \in Occurrence, CloseRaises(o)
  PROVE  RecorderTypeOK'
<1>1. clock' \in Time
  BY ReadingTyped DEF RecorderTypeOK, CloseRaises
<1>2. handle' \in [Occurrence -> {"none", "censored", "open", "dispatched", "closed"}]
  BY DEF RecorderTypeOK, CloseRaises
<1> QED
  BY <1>1, <1>2 DEF RecorderTypeOK, CloseRaises, fileVars

LEMMA SealTyped ==
  ASSUME RecorderTypeOK, Finalize \/ WriteFinal PROVE RecorderTypeOK'
<1>1. CASE Finalize
  <2>1. clock' \in Time /\ manifest' \in Manifest
    BY <1>1, ReadingTyped DEF RecorderTypeOK, Finalize, Manifest
  <2>2. CallTyped'
    BY <1>1 DEF Finalize, CallTyped, Stages
  <2> QED
    BY <1>1, <2>1, <2>2 DEF RecorderTypeOK, CallTyped, Stages, Finalize, fileVars
<1>2. CASE WriteFinal
  <2>1. CallTyped'
    BY <1>2, NewCallTyped DEF WriteFinal
  <2> QED
    BY <1>2, <2>1 DEF RecorderTypeOK, CallTyped, Stages, WriteFinal, WriteManifest
<1> QED
  BY <1>1, <1>2

\* A call that raises may leave its whole line behind.
LEMMA FaultView ==
  ASSUME RecorderTypeOK, HostFails \/ TemporaryExists
  PROVE  /\ \/ log' = log
            \/ call.stage = "line" /\ log' = Append(log, call.frame)
         /\ torn' \in BOOLEAN /\ temporary' \in BOOLEAN /\ faults' \in Nat
         /\ call' = Idle
         /\ UNCHANGED <<manifest, open, admitted, handle, started, clock, disk>>
<1>1. CASE HostFails
  <2>1. faults' \in Nat
    BY <1>1 DEF RecorderTypeOK, HostFails
  <2>2. CASE call.stage = "line"
    BY <1>1, <2>1, <2>2, Zenon DEF RecorderTypeOK, HostFails
  <2>3. CASE call.stage = "idle"
    BY <1>1, <2>1, <2>3, Zenon DEF RecorderTypeOK, HostFails
  <2>4. CASE call.stage \notin {"line", "idle"}
    BY <1>1, <2>1, <2>4, Zenon DEF RecorderTypeOK, HostFails
  <2> QED
    BY <2>2, <2>3, <2>4
<1>2. CASE TemporaryExists
  BY <1>2 DEF RecorderTypeOK, TemporaryExists, fileVars
<1> QED
  BY <1>1, <1>2

LEMMA FaultTyped ==
  ASSUME RecorderTypeOK, HostFails \/ TemporaryExists
  PROVE  RecorderTypeOK'
<1>1. log' \in Seq(Frame)
  BY FaultView DEF RecorderTypeOK
<1>2. CallTyped'
  BY FaultView, NewCallTyped
<1> QED
  BY <1>1, <1>2, FaultView DEF RecorderTypeOK, CallTyped, Stages

-----------------------------------------------------------------------------
(***************************************************************************)
(* What each action does to what the ledger sees: the live operations, the *)
(* recorded ones, and the ones the recorder knows.                         *)
(***************************************************************************)
SameView == Live' = Live /\ Recorded' = Recorded /\ Known' = Known

LEMMA ViewKept ==
  ASSUME UNCHANGED <<log, handle, admitted>>
  PROVE  SameView
BY DEF SameView, Live, Recorded, Known

\* The frame being written reaches the log, counted or not.
LEMMA LineView ==
  ASSUME RecorderTypeOK, call.stage = "line", log' = Append(log, call.frame),
         UNCHANGED <<handle, admitted>>
  PROVE  /\ Known' = Known
         /\ call.frame \in Frame
         /\ call.frame.kind = "decision" => SameView
         /\ call.frame.kind = "action" =>
              /\ Recorded' = Recorded \cup {call.frame.occurrence}
              /\ Live' = Live \ {call.frame.occurrence}
         /\ \A i \in Actions(log)' :
              \/ i \in Actions(log) /\ log'[i] = log[i]
              \/ log'[i] = call.frame /\ call.frame.kind = "action"
<1>1. log \in Seq(Frame) /\ call.frame \in Frame
  BY DEF RecorderTypeOK
<1>2. Recorded' = Recorded \cup
        (IF call.frame.kind = "action" THEN {call.frame.occurrence} ELSE {})
  <2>1. RecordedIn(log') = RecordedIn(log) \cup
          (IF call.frame.kind = "action" THEN {call.frame.occurrence} ELSE {})
    BY <1>1, RecordedGrow
  <2> QED
    BY <2>1 DEF Recorded
<1>3. Known' = Known
  BY DEF Known
<1>4. \A i \in Actions(log)' :
        \/ i \in Actions(log) /\ log'[i] = log[i]
        \/ log'[i] = call.frame /\ call.frame.kind = "action"
  <2>1. \A i \in Actions(log') :
          (i \in Actions(log) /\ log'[i] = log[i])
            \/ (log'[i] = call.frame /\ call.frame.kind = "action")
    <3>1. /\ Actions(log') = Actions(log) \cup
               (IF call.frame.kind = "action" THEN {Len(log) + 1} ELSE {})
          /\ log'[Len(log) + 1] = call.frame
          /\ \A i \in Actions(log) : log'[i] = log[i]
      BY <1>1, ActionsGrow
    <3> QED
      BY <3>1
  <2> QED
    BY <2>1
<1>5. call.frame.kind = "decision" => SameView
  BY <1>2, <1>3 DEF SameView, Live
<1>6. call.frame.kind = "action" =>
        /\ Recorded' = Recorded \cup {call.frame.occurrence}
        /\ Live' = Live \ {call.frame.occurrence}
  BY <1>2 DEF Live
<1> QED
  BY <1>1, <1>3, <1>4, <1>5, <1>6

LEMMA HandleView ==
  ASSUME RecorderTypeOK, NEW o \in Occurrence, NEW new \in {"dispatched", "closed"},
         handle[o] \in {"open", "dispatched"}, handle' = [handle EXCEPT ![o] = new],
         UNCHANGED <<log, admitted>>
  PROVE  SameView
<1>1. /\ handle'[o] = new
      /\ \A x \in Occurrence \ {o} : handle'[x] = handle[x]
  BY DEF RecorderTypeOK
<1> QED
  BY <1>1 DEF SameView, Live, Recorded, Known

LEMMA AdmitView ==
  ASSUME RecorderTypeOK, CallSound, HandlesSound, Admit
  PROVE  LET o == call.frame.occurrence IN
         /\ o \in Occurrence /\ o \notin Known /\ o \notin Recorded /\ o \notin Live
         /\ handle[o] = "none"
         /\ Known' = Known \cup {o} /\ Recorded' = Recorded
         /\ call.frame.policy # "allowed" => Live' = Live
         /\ call.frame.policy = "allowed" => Live' = Live \cup {o}
<1> DEFINE o == call.frame.occurrence
<1>1. o \in Occurrence
  BY FrameKinds DEF RecorderTypeOK, Admit
<1>2. o \notin Known
  BY DEF CallSound, Admit
<1>3. o \notin Recorded /\ handle[o] = "none"
  BY <1>1, <1>2 DEF HandlesSound
<1>4. Known' = Known \cup {o} /\ Recorded' = Recorded
  BY DEF Admit, Known, Recorded
<1>5. CASE call.frame.policy = "allowed"
  <2>1. /\ handle'[o] = "open"
        /\ \A x \in Occurrence \ {o} : handle'[x] = handle[x]
    BY <1>1, <1>5 DEF RecorderTypeOK, Admit
  <2> HIDE DEF o
  <2> QED
    BY <1>1, <1>2, <1>3, <1>4, <1>5, <2>1 DEF Live, o
<1>6. CASE call.frame.policy # "allowed"
  <2>1. handle' = handle
    BY <1>6 DEF Admit
  <2> QED
    BY <1>1, <1>2, <1>3, <1>4, <1>6, <2>1 DEF Live
<1> QED
  BY <1>5, <1>6

LEMMA WriteCountView ==
  ASSUME RecorderTypeOK, CallSound, WriteCount
  PROVE  LET o == call.frame.occurrence IN
         /\ o \in Occurrence /\ o \in Known
         /\ SameView
         /\ \A x \in Occurrence \ {o} : handle'[x] = handle[x]
         /\ handle[o] = IF call.frame.outcome \in Censored THEN "none" ELSE "closed"
         /\ handle'[o] = IF call.frame.outcome \in Censored THEN "censored" ELSE "closed"
<1> DEFINE o == call.frame.occurrence
<1>1. o \in Occurrence
  BY FrameKinds DEF RecorderTypeOK, WriteCount
<1>2. /\ handle[o] = IF call.frame.outcome \in Censored THEN "none" ELSE "closed"
      /\ o \in Known
  BY DEF CallSound, WriteCount
<1>3. /\ handle'[o] = IF call.frame.outcome \in Censored THEN "censored" ELSE "closed"
      /\ \A x \in Occurrence \ {o} : handle'[x] = handle[x]
  BY <1>1, <1>2 DEF RecorderTypeOK, WriteCount
<1>4. Recorded' = Recorded /\ Known' = Known
  BY DEF WriteCount, Recorded, Known
<1>5. Live' = Live
  <2> HIDE DEF o
  <2> QED
    BY <1>1, <1>2, <1>3, <1>4 DEF Live
<1> QED
  BY <1>1, <1>2, <1>3, <1>4, <1>5 DEF SameView

-----------------------------------------------------------------------------
(***************************************************************************)
(* Sound is kept, action by action.                                        *)
(***************************************************************************)

\* A handle that is open or dispatched is live, so there is none once the manifest is final.
LEMMA UnclosedIsLive ==
  ASSUME Sound, NEW o \in Occurrence, handle[o] \in {"open", "dispatched"}
  PROVE  o \in Live /\ o \notin Recorded /\ o \in Known /\ manifest.status # "finalized"
BY DEF Sound, HandlesSound, SealSound, Live

LEMMA LoggedIsRecorded ==
  ASSUME RecorderTypeOK, NEW i \in Actions(log)
  PROVE  /\ log[i] \in Frame /\ log[i].kind = "action"
         /\ log[i].occurrence \in Occurrence /\ log[i].occurrence \in Recorded
<1>1. i \in DOMAIN log /\ log[i] \in Frame /\ log[i].kind = "action"
  BY DEF RecorderTypeOK, Actions
<1>2. log[i].occurrence \in Recorded
  BY DEF Recorded, RecordedIn
<1> QED
  BY <1>1, <1>2, FrameKinds

LEMMA LiveCounted ==
  ASSUME RecorderTypeOK, Accounting
  PROVE  Cardinality(Live) \in Nat /\ open \in Nat /\ Cardinality(Live) <= open
<1>1. Cardinality(Live) \in Nat /\ open \in Nat
  BY LiveFinite, FS_CardinalityType DEF RecorderTypeOK
<1> QED
  BY <1>1 DEF Accounting

LEMMA BeginSound ==
  ASSUME RecorderTypeOK, Sound, NEW l \in Logical, NEW n \in Attempt, NEW c \in Context,
         NEW retryOf \in Occurrence \cup {None}, NEW parent \in Occurrence \cup {None},
         NEW policy \in Policy, Begin(l, n, c, retryOf, parent, policy)
  PROVE  Sound'
<1>1. UNCHANGED <<manifest, open, handle, admitted, log, disk>> /\ call = Idle
  BY DEF Begin, fileVars
<1>2. SameView
  BY <1>1, ViewKept
<1>3. /\ call'.stage = "line" /\ call'.frame.kind = "decision"
      /\ call'.frame.occurrence \notin Known
  BY BeginTyped DEF Begin, LineageKnown
<1>4. manifest.status = "recording"
  BY DEF Begin, Recording
<1>5. Accounting'
  BY <1>1, <1>2, <1>3, LiveCounted DEF Sound, Accounting, SameView
<1>6. HandlesSound'
  BY <1>1, <1>2 DEF Sound, HandlesSound, SameView
<1>7. CallSound'
  BY <1>1, <1>2, <1>3 DEF Sound, CallSound, SameView
<1>8. SealSound'
  BY <1>1, <1>3, <1>4 DEF Sound, SealSound
<1> QED
  BY <1>5, <1>6, <1>7, <1>8 DEF Sound

\* An action whose line reaches the log is no longer live.
LEMMA LineCounted ==
  ASSUME RecorderTypeOK, Sound, call.stage = "line", log' = Append(log, call.frame),
         UNCHANGED <<handle, admitted, open>>, call.frame.kind = "action"
  PROVE  LET o == call.frame.occurrence IN
         /\ o \in Occurrence /\ o \in Known /\ o \notin Recorded
         /\ call.frame.outcome \in Censored => handle[o] = "none" /\ Live' = Live
         /\ call.frame.outcome \notin Censored =>
              handle[o] = "closed" /\ o \in Live /\ Cardinality(Live') + 1 <= open
<1> DEFINE f == call.frame
           o == f.occurrence
<1>1. f \in Frame /\ o \in Occurrence /\ Live' = Live \ {o}
  BY LineView, FrameKinds
<1>2. /\ o \in Known /\ o \notin Recorded
      /\ handle[o] = IF f.outcome \in Censored THEN "none" ELSE "closed"
  BY DEF Sound, CallSound
<1>3. CASE f.outcome \in Censored
  <2>1. o \notin Live
    BY <1>2, <1>3 DEF Live
  <2> QED
    BY <1>1, <1>2, <1>3, <2>1
<1>4. CASE f.outcome \notin Censored
  <2>1. o \in Live
    BY <1>1, <1>2, <1>4 DEF Live
  <2>2. Cardinality(Live') = Cardinality(Live) - 1
    BY <1>1, <2>1, LiveFinite, FS_RemoveElement
  <2>3. Cardinality(Live) \in Nat /\ open \in Nat /\ Cardinality(Live) <= open
    BY LiveCounted DEF Sound
  <2>4. Cardinality(Live') + 1 <= open
    BY <2>2, <2>3
  <2> QED
    BY <1>1, <1>2, <1>4, <2>1, <2>4
<1> QED
  BY <1>3, <1>4

LEMMA WriteLineSound == ASSUME RecorderTypeOK, Sound, WriteLine PROVE Sound'
<1> DEFINE f == call.frame
           o == f.occurrence
<1>1. /\ call.stage = "line" /\ log' = Append(log, f)
      /\ call'.stage = "manifest" /\ call'.frame = f
      /\ UNCHANGED <<open, handle, disk, admitted>>
      /\ manifest'.status = manifest.status
  BY DEF RecorderTypeOK, WriteLine, Manifest
<1>2. f \in Frame /\ f.kind \in {"decision", "action"}
  BY <1>1, LineView, FrameKinds
<1>3. SealSound'
  BY <1>1 DEF Sound, SealSound
<1>4. Known' = Known
  BY <1>1, LineView
<1>5. CASE f.kind = "decision"
  <2>1. SameView
    BY <1>1, <1>5, LineView
  <2>2. Accounting'
    BY <1>1, <1>5, <2>1 DEF Sound, Accounting, SameView, UncensoredAction
  <2>3. HandlesSound'
    BY <1>1, <2>1 DEF Sound, HandlesSound, SameView
  <2>4. \A i \in Actions(log)' : i \in Actions(log) /\ log'[i] = log[i]
    BY <1>1, <1>5, LineView
  <2>5. CallSound'
    BY <1>1, <1>2, <1>5, <2>1, <2>4 DEF Sound, CallSound, SameView
  <2> QED
    BY <1>3, <2>2, <2>3, <2>5 DEF Sound
<1>6. CASE f.kind = "action"
  <2>1. /\ o \in Occurrence /\ o \in Known /\ o \notin Recorded
        /\ f.outcome \in Censored => handle[o] = "none" /\ Live' = Live
        /\ f.outcome \notin Censored =>
             handle[o] = "closed" /\ o \in Live /\ Cardinality(Live') + 1 <= open
    BY <1>1, <1>6, LineCounted
  <2>2. Recorded' = Recorded \cup {o}
    BY <1>1, <1>6, LineView
  <2>3. Accounting'
    <3>1. CASE f.outcome \in Censored
      BY <1>1, <2>1, <3>1, LiveCounted DEF Sound, Accounting, UncensoredAction
    <3>2. CASE f.outcome \notin Censored
      BY <1>1, <1>6, <2>1, <3>2 DEF Accounting, UncensoredAction
    <3> QED
      BY <3>1, <3>2
  <2>4. HandlesSound'
    BY <1>1, <1>4, <2>1, <2>2 DEF Sound, HandlesSound
  <2>5. \A i \in Actions(log)' :
          (i \in Actions(log) /\ log'[i] = log[i]) \/ log'[i] = f
    BY <1>1, LineView
  <2>6. \A i \in Actions(log)' : handle'[log'[i].occurrence] \in HandleOf(log'[i])
    <3>1. handle[o] \in HandleOf(f)
      BY <2>1 DEF HandleOf
    <3> QED
      BY <1>1, <2>5, <3>1 DEF Sound, CallSound
  <2>7. CallSound'
    BY <1>1, <1>2, <1>4, <1>6, <2>1, <2>2, <2>6 DEF CallSound
  <2> QED
    BY <1>3, <2>3, <2>4, <2>7 DEF Sound
<1> QED
  BY <1>2, <1>5, <1>6

LEMMA AdmitSound == ASSUME RecorderTypeOK, Sound, Admit PROVE Sound'
<1> DEFINE o == call.frame.occurrence
<1>1. /\ o \in Occurrence /\ o \notin Known /\ o \notin Recorded /\ o \notin Live
      /\ handle[o] = "none"
      /\ Known' = Known \cup {o} /\ Recorded' = Recorded
      /\ call.frame.policy # "allowed" => Live' = Live
      /\ call.frame.policy = "allowed" => Live' = Live \cup {o}
  BY AdmitView DEF Sound
<1>2. /\ call.stage = "manifest" /\ UNCHANGED <<manifest, log>> /\ disk' = manifest
      /\ call.frame.kind = "decision"
  BY DEF Admit, WriteManifest
<1>3. manifest.status # "finalized"
  BY <1>2 DEF Sound, SealSound
<1>4. /\ Cardinality(Live) \in Nat /\ open \in Nat /\ Cardinality(Live) <= open
      /\ Recorded \subseteq Known
  BY LiveCounted DEF Sound, HandlesSound
<1>5. CASE call.frame.policy = "allowed"
  <2>1. call'.stage = "idle" /\ call'.frame = None /\ open' = open + 1
    BY <1>5 DEF Admit, Idle
  <2>2. handle'[o] = "open" /\ \A x \in Occurrence \ {o} : handle'[x] = handle[x]
    BY <1>1, <1>5 DEF RecorderTypeOK, Admit
  <2> HIDE DEF o
  <2>3. Accounting'
    <3>1. Cardinality(Live') = Cardinality(Live) + 1
      BY <1>1, <1>5, LiveFinite, FS_AddElement
    <3> QED
      BY <1>4, <2>1, <3>1 DEF Accounting
  <2>4. HandlesSound'
    BY <1>1, <2>2 DEF Sound, HandlesSound
  <2>5. \A i \in Actions(log)' : handle'[log'[i].occurrence] \in HandleOf(log'[i])
    <3>1. \A i \in Actions(log) : log[i].occurrence \in Occurrence \ {o}
      BY <1>1, LoggedIsRecorded
    <3> QED
      BY <1>2, <2>2, <3>1 DEF Sound, CallSound
  <2>6. CallSound'
    BY <2>1, <2>5 DEF CallSound
  <2>7. SealSound'
    BY <1>2, <1>3, <2>1 DEF SealSound
  <2> QED
    BY <2>3, <2>4, <2>6, <2>7 DEF Sound
<1>6. CASE call.frame.policy # "allowed"
  <2>1. /\ call'.stage = "line" /\ call'.frame.kind = "action"
        /\ call'.frame.occurrence = o /\ call'.frame.outcome \in Censored
    BY <1>6, RefusalTyped
  <2>2. UNCHANGED <<open, handle>>
    BY <1>6 DEF Admit
  <2> HIDE DEF o
  <2>3. Accounting'
    BY <1>1, <1>4, <1>6, <2>1, <2>2 DEF Accounting
  <2>4. HandlesSound'
    BY <1>1, <2>2 DEF Sound, HandlesSound
  <2>5. CallSound'
    BY <1>1, <1>2, <2>1, <2>2 DEF Sound, CallSound
  <2>6. SealSound'
    BY <1>2, <1>3, <2>1 DEF SealSound
  <2> QED
    BY <2>3, <2>4, <2>5, <2>6 DEF Sound
<1> QED
  BY <1>5, <1>6

LEMMA CountActionSound == ASSUME RecorderTypeOK, Sound, CountAction PROVE Sound'
<1>1. /\ call.stage = "manifest" /\ call.frame.kind = "action"
      /\ call'.stage = "count" /\ call'.frame = call.frame
      /\ UNCHANGED <<handle, admitted, log>> /\ disk' = manifest
      /\ manifest'.status = manifest.status
      /\ open' = IF call.frame.outcome \in Censored THEN open ELSE open - 1
  BY DEF RecorderTypeOK, Manifest, CountAction, OpenAfter, WriteManifest
<1>2. SameView
  BY <1>1, ViewKept
<1>3. manifest.status # "finalized"
  BY <1>1 DEF Sound, SealSound
<1>4. Accounting'
  <2>1. Cardinality(Live) \in Nat /\ open \in Nat
    BY LiveCounted DEF Sound
  <2> QED
    BY <1>1, <1>2, <2>1 DEF Sound, Accounting, UncensoredAction, SameView
<1>5. HandlesSound' /\ CallSound'
  BY <1>1, <1>2 DEF Sound, HandlesSound, CallSound, SameView
<1>6. SealSound'
  BY <1>1, <1>3 DEF SealSound
<1> QED
  BY <1>4, <1>5, <1>6 DEF Sound

LEMMA WriteCountSound == ASSUME RecorderTypeOK, Sound, WriteCount PROVE Sound'
<1> DEFINE o == call.frame.occurrence
           refused == call.frame.outcome \in Censored
<1>1. /\ o \in Occurrence /\ o \in Known /\ SameView
      /\ \A x \in Occurrence \ {o} : handle'[x] = handle[x]
      /\ handle[o] = IF refused THEN "none" ELSE "closed"
      /\ handle'[o] = IF refused THEN "censored" ELSE "closed"
  BY WriteCountView DEF Sound
<1>2. /\ call.stage = "count" /\ call'.stage = "idle" /\ call'.frame = None
      /\ UNCHANGED <<manifest, open, log>> /\ disk' = manifest
  BY DEF WriteCount, WriteManifest, Idle
<1>3. manifest.status # "finalized"
  BY <1>2 DEF Sound, SealSound
<1> HIDE DEF o, refused
<1>4. Accounting'
  BY <1>1, <1>2, LiveCounted DEF Sound, Accounting, SameView
<1>5. HandlesSound'
  BY <1>1 DEF Sound, HandlesSound, SameView
<1>6. ASSUME NEW i \in Actions(log)
      PROVE  handle'[log[i].occurrence] \in HandleOf(log[i])
  <2>1. log[i].occurrence \in Occurrence /\ handle[log[i].occurrence] \in HandleOf(log[i])
    BY LoggedIsRecorded DEF Sound, CallSound
  <2>2. CASE log[i].occurrence = o
    BY <1>1, <2>1, <2>2 DEF HandleOf
  <2>3. CASE log[i].occurrence # o
    BY <1>1, <2>1, <2>3
  <2> QED
    BY <2>2, <2>3
<1>7. CallSound'
  BY <1>2, <1>6 DEF CallSound
<1>8. SealSound'
  BY <1>2, <1>3 DEF SealSound
<1> QED
  BY <1>4, <1>5, <1>7, <1>8 DEF Sound

\* The application moves a handle on between two calls.
LEMMA HandleMoves ==
  ASSUME RecorderTypeOK, Sound, NEW o \in Occurrence, NEW new \in {"dispatched", "closed"},
         handle[o] \in {"open", "dispatched"}, handle' = [handle EXCEPT ![o] = new],
         UNCHANGED <<manifest, open, admitted, log, disk>>, call = Idle,
         \/ call' = call
         \/ /\ new = "closed"
            /\ call'.stage = "line" /\ call'.frame.kind = "action"
            /\ call'.frame.occurrence = o /\ call'.frame.outcome \notin Censored
  PROVE  Sound'
<1>1. SameView
  BY HandleView
<1>2. o \notin Recorded /\ o \in Known /\ manifest.status # "finalized"
  BY UnclosedIsLive
<1>3. handle'[o] = new /\ \A x \in Occurrence \ {o} : handle'[x] = handle[x]
  BY DEF RecorderTypeOK
<1>4. Accounting'
  BY <1>1, LiveCounted DEF Sound, Accounting, SameView, Idle
<1>5. HandlesSound'
  BY <1>1, <1>2, <1>3 DEF Sound, HandlesSound, SameView
<1>6. ASSUME NEW i \in Actions(log)
      PROVE  handle'[log[i].occurrence] \in HandleOf(log[i])
  <2>1. log[i].occurrence \in Occurrence \ {o}
    BY <1>2, LoggedIsRecorded
  <2> QED
    BY <1>3, <2>1 DEF Sound, CallSound
<1>7. CallSound'
  BY <1>1, <1>2, <1>3, <1>6 DEF CallSound, SameView, Idle
<1>8. SealSound'
  BY <1>1, <1>2 DEF Sound, SealSound, SameView, Idle
<1> QED
  BY <1>4, <1>5, <1>7, <1>8 DEF Sound

LEMMA MarkDispatchedSound ==
  ASSUME RecorderTypeOK, Sound, NEW o \in Occurrence, MarkDispatched(o)
  PROVE  Sound'
BY HandleMoves DEF MarkDispatched, fileVars

LEMMA CloseSound ==
  ASSUME RecorderTypeOK, Sound, NEW o \in Occurrence, NEW outcome \in Terminal,
         Close(o, outcome)
  PROVE  Sound'
<1>1. /\ call'.stage = "line" /\ call'.frame.kind = "action"
      /\ call'.frame.occurrence = o /\ call'.frame.outcome = outcome
  BY CloseTyped
<1>2. outcome \notin Censored
  BY DEF Terminal, Censored
<1> QED
  BY <1>1, <1>2, HandleMoves DEF Close, fileVars

LEMMA CloseRaisesSound ==
  ASSUME RecorderTypeOK, Sound, NEW o \in Occurrence, CloseRaises(o)
  PROVE  Sound'
BY HandleMoves DEF CloseRaises, fileVars

LEMMA FinalizeSound == ASSUME RecorderTypeOK, Sound, Finalize PROVE Sound'
<1>1. /\ call = Idle /\ call'.stage = "final" /\ call'.frame = None
      /\ manifest.status = "recording" /\ manifest'.status = "finalized" /\ open = 0
      /\ UNCHANGED <<open, handle, admitted, log, disk>>
  BY DEF RecorderTypeOK, Manifest, Finalize, Recording, NothingOpen, fileVars
<1>2. SameView
  BY <1>1, ViewKept
<1>3. Live = {}
  <2>1. Cardinality(Live) = 0
    BY <1>1, LiveCounted DEF Sound
  <2> QED
    BY <2>1, LiveFinite, FS_EmptySet
<1>4. disk.status = "recording"
  BY <1>1 DEF Sound, SealSound, RecorderTypeOK, Manifest
<1>5. Accounting'
  BY <1>1, <1>2, LiveCounted DEF Sound, Accounting, SameView
<1>6. HandlesSound' /\ CallSound'
  BY <1>1, <1>2 DEF Sound, HandlesSound, CallSound, SameView
<1>7. SealSound'
  BY <1>1, <1>2, <1>3, <1>4 DEF SealSound, SameView
<1> QED
  BY <1>5, <1>6, <1>7 DEF Sound

LEMMA WriteFinalSound == ASSUME RecorderTypeOK, Sound, WriteFinal PROVE Sound'
<1>1. /\ call.stage = "final" /\ call'.stage = "idle" /\ call'.frame = None
      /\ UNCHANGED <<manifest, open, handle, admitted, log>> /\ disk' = manifest
  BY DEF WriteFinal, WriteManifest, Idle
<1>2. SameView
  BY <1>1, ViewKept
<1>3. Accounting'
  BY <1>1, <1>2, LiveCounted DEF Sound, Accounting, SameView
<1>4. HandlesSound' /\ CallSound'
  BY <1>1, <1>2 DEF Sound, HandlesSound, CallSound, SameView
<1>5. SealSound'
  BY <1>1, <1>2 DEF Sound, SealSound, SameView
<1> QED
  BY <1>3, <1>4, <1>5 DEF Sound

LEMMA FaultSound ==
  ASSUME RecorderTypeOK, Sound, HostFails \/ TemporaryExists PROVE Sound'
<1>1. /\ call'.stage = "idle" /\ call'.frame = None
      /\ UNCHANGED <<manifest, open, handle, admitted, disk>>
  BY FaultView DEF Idle
<1>2. SealSound' <=> (manifest.status = "finalized" => Live' = {})
  BY <1>1 DEF Sound, SealSound
<1>3. CASE log' = log \/ call.frame.kind # "action"
  <2>1. SameView
    <3>1. CASE log' = log
      BY <1>1, <3>1, ViewKept
    <3>2. CASE log' # log
      BY <1>1, <1>3, <3>2, FaultView, LineView, FrameKinds
    <3> QED
      BY <3>1, <3>2
  <2>2. \A i \in Actions(log') : i \in Actions(log) /\ log'[i] = log[i]
    <3>1. CASE log' = log
      BY <3>1
    <3>2. CASE log' # log
      BY <1>1, <1>3, <3>2, FaultView, LineView
    <3> QED
      BY <3>1, <3>2
  <2>3. Accounting'
    BY <1>1, <2>1, LiveCounted DEF Sound, Accounting, SameView
  <2>4. HandlesSound'
    BY <1>1, <2>1 DEF Sound, HandlesSound, SameView
  <2>5. CallSound'
    BY <1>1, <2>2 DEF Sound, CallSound
  <2>6. SealSound'
    BY <1>2, <2>1 DEF Sound, SealSound, SameView
  <2> QED
    BY <2>3, <2>4, <2>5, <2>6 DEF Sound
<1>4. CASE log' # log /\ call.frame.kind = "action"
  <2> DEFINE f == call.frame
             o == f.occurrence
  <2>1. call.stage = "line" /\ log' = Append(log, f)
    BY <1>4, FaultView
  <2>2. /\ o \in Occurrence /\ o \in Known /\ o \notin Recorded
        /\ f.outcome \in Censored => handle[o] = "none" /\ Live' = Live
        /\ f.outcome \notin Censored =>
             handle[o] = "closed" /\ o \in Live /\ Cardinality(Live') + 1 <= open
    BY <1>1, <1>4, <2>1, LineCounted
  <2>3. Recorded' = Recorded \cup {o} /\ Known' = Known
    BY <1>1, <1>4, <2>1, LineView
  <2>4. Cardinality(Live') \in Nat
    <3>1. IsFiniteSet(Live')
      <4>1. Live' = Live \ {o}
        BY <1>1, <1>4, <2>1, LineView
      <4> QED
        BY <4>1, LiveFinite, FS_Subset
    <3> QED
      BY <3>1, FS_CardinalityType
  <2>5. Accounting'
    <3>1. CASE f.outcome \in Censored
      BY <1>1, <2>2, <3>1, LiveCounted DEF Sound, Accounting
    <3>2. CASE f.outcome \notin Censored
      BY <1>1, <2>2, <2>4, <3>2, LiveCounted DEF Sound, Accounting
    <3> QED
      BY <3>1, <3>2
  <2>6. HandlesSound'
    BY <1>1, <2>2, <2>3 DEF Sound, HandlesSound
  <2>7. \A i \in Actions(log') : handle'[log'[i].occurrence] \in HandleOf(log'[i])
    <3>1. handle[o] \in HandleOf(f)
      BY <2>2 DEF HandleOf
    <3>2. \A i \in Actions(log') :
            (i \in Actions(log) /\ log'[i] = log[i]) \/ log'[i] = f
      BY <1>1, <2>1, LineView
    <3> QED
      BY <1>1, <3>1, <3>2 DEF Sound, CallSound
  <2>8. CallSound'
    BY <1>1, <2>7 DEF CallSound
  <2>9. SealSound'
    BY <1>2, <2>1 DEF Sound, SealSound
  <2> QED
    BY <2>5, <2>6, <2>8, <2>9 DEF Sound
<1> QED
  BY <1>3, <1>4

LEMMA InitSound == ASSUME RecorderInit PROVE RecorderTypeOK /\ Sound
<1>1. /\ log = <<>> /\ open = 0 /\ call.stage = "idle" /\ call.frame = None
      /\ \A o \in Occurrence : handle[o] = "none"
      /\ manifest.status = "recording" /\ disk.status = "recording"
  BY DEF RecorderInit, Idle
<1>2. Recorded = {} /\ Live = {}
  BY <1>1 DEF Recorded, RecordedIn, Actions, Live
<1>3. Accounting
  BY <1>1, <1>2, FS_EmptySet DEF Accounting
<1>4. HandlesSound /\ CallSound /\ SealSound
  BY <1>1, <1>2 DEF HandlesSound, CallSound, SealSound, Actions
<1>5. manifest \in Manifest /\ disk \in Manifest
  BY DEF RecorderInit, Manifest
<1>6. RecorderTypeOK
  <2>1. /\ handle \in [Occurrence -> {"none", "censored", "open", "dispatched", "closed"}]
        /\ started \in [Occurrence -> Time \cup {NoTime}]
        /\ log \in Seq(Frame) /\ open \in Nat /\ faults \in Nat
    BY DEF RecorderInit
  <2>2. torn \in BOOLEAN /\ temporary \in BOOLEAN
    BY Zenon DEF RecorderInit
  <2>3. CallTyped
    BY DEF RecorderInit, CallTyped, Stages, Idle
  <2> QED
    BY <1>5, <2>1, <2>2, <2>3 DEF RecorderInit, RecorderTypeOK, CallTyped, Stages
<1> QED
  BY <1>3, <1>4, <1>6 DEF Sound

LEMMA StutterSound ==
  ASSUME RecorderTypeOK, Sound, UNCHANGED recorderVars
  PROVE  RecorderTypeOK' /\ Sound'
<1>1. UNCHANGED <<manifest, open, admitted, handle, started, call, clock,
                  log, torn, disk, temporary, faults>>
  BY DEF recorderVars, fileVars
<1>2. RecorderTypeOK'
  BY <1>1 DEF RecorderTypeOK
<1>3. SameView
  BY <1>1, ViewKept
<1>4. Accounting'
  BY <1>1, <1>3 DEF Sound, Accounting, SameView
<1>5. HandlesSound' /\ CallSound'
  BY <1>1, <1>3 DEF Sound, HandlesSound, CallSound, SameView
<1>6. SealSound'
  BY <1>1, <1>3 DEF Sound, SealSound, SameView
<1> QED
  BY <1>2, <1>4, <1>5, <1>6 DEF Sound

-----------------------------------------------------------------------------
(***************************************************************************)
(* The callback: where each run is, against the handle of its operation    *)
(* and the frame being written.                                            *)
(***************************************************************************)
CallbackTyped ==
  /\ run \in [Run -> {"idle", "starting", "refused", "called", "taken", "closing", "done"}]
  /\ told \in [Run -> {"success", "failure", None}]
  /\ lock \in Run \cup {None}
  /\ operations \subseteq Run /\ occurrences \subseteq Run

LEMMA IdleWritesNothing ==
  ASSUME call = Idle PROVE \A r \in Run : ~Writes(r)
BY DEF Idle, Writes

\* A run that no step concerns stays sound.
LEMMA RunUndisturbed ==
  ASSUME NEW r \in Run, RunSound(r), handle'[Of(r)] = handle[Of(r)],
         Writes(r)' <=> Writes(r), Of(r) \in Known' => Of(r) \in Known,
         run'[r] = run[r], run[r] = "starting" => lock' = lock
  PROVE  RunSound(r)'
BY DEF RunSound

LEMMA RunMoves ==
  ASSUME CallbackTyped, NEW q \in Run,
         NEW where \in {"idle", "starting", "refused", "called", "taken", "closing", "done"},
         Moves(q, where)
  PROVE  /\ run' \in [Run -> {"idle", "starting", "refused", "called", "taken",
                              "closing", "done"}]
         /\ run'[q] = where
         /\ \A r \in Run \ {q} : run'[r] = run[r]
BY DEF Moves, CallbackTyped

LEMMA RunHandleChanged ==
  ASSUME RecorderTypeOK, NEW q \in Run,
         NEW new, handle' = [handle EXCEPT ![Of(q)] = new]
  PROVE  handle'[Of(q)] = new /\ \A r \in Run \ {q} : handle'[Of(r)] = handle[Of(r)]
<1>1. Of(q) \in Occurrence /\ \A r \in Run \ {q} : Of(r) \in Occurrence /\ Of(r) # Of(q)
  BY RunsAreNamed
<1>2. handle'[Of(q)] = new /\ \A x \in Occurrence \ {Of(q)} : handle'[x] = handle[x]
  BY <1>1 DEF RecorderTypeOK
<1> QED
  BY <1>1, <1>2

LEMMA OnStartKeeps ==
  ASSUME IInv, NEW q \in Run, NEW c \in Context, NEW parent \in (Run \ {q}) \cup {None},
         NEW policy \in Policy, OnStart(q, c, parent, policy)
  PROVE  IInv'
<1> DEFINE p == IF parent \in occurrences THEN Of(parent) ELSE None
<1>1. Begin(q, 1, c, None, p, policy)
  BY DEF OnStart
<1>2. q \in Logical /\ 1 \in Attempt /\ p \in Occurrence \cup {None} /\ Of(q) = <<q, 1>>
  BY RunsAreNamed, CallbackAssumption, VerifierAssumption
  DEF IInv, TypeOK, Attempt, Of
<1> HIDE DEF p
<1>3. /\ RecorderTypeOK' /\ Sound'
      /\ call'.stage = "line" /\ call'.frame.kind = "decision"
      /\ call'.frame.occurrence = Of(q)
  BY <1>1, <1>2, BeginTyped, BeginSound DEF IInv, TypeOK
<1>4. /\ lock = None /\ lock' = q /\ run[q] = "idle" /\ call = Idle
      /\ Moves(q, "starting")
      /\ UNCHANGED <<told, operations, occurrences, handle, admitted, log>>
  BY <1>1 DEF OnStart, Begin, fileVars
<1>5. CallbackTyped
  BY DEF IInv, TypeOK, CallbackTyped
<1>6. /\ run'[q] = "starting" /\ \A r \in Run \ {q} : run'[r] = run[r]
      /\ CallbackTyped'
  BY <1>4, <1>5, RunMoves DEF CallbackTyped
<1>7. \A r \in Run : Writes(r)' <=> r = q
  BY <1>3, RunsAreNamed DEF Writes
<1>8. \A r \in Run : ~Writes(r) /\ RunSound(r)
  BY <1>4, IdleWritesNothing DEF IInv, CallbackSound
<1>9. ASSUME NEW r \in Run PROVE RunSound(r)'
  <2>1. CASE r = q
    BY <1>4, <1>6, <1>7, <1>8, <2>1 DEF RunSound
  <2>2. CASE r # q
    <3>1. run[r] # "starting"
      BY <1>4, <1>8, RunsAreNamed DEF RunSound
    <3> QED
      BY <1>4, <1>6, <1>7, <1>8, <2>2, <3>1, RunUndisturbed DEF Known
  <2> QED
    BY <2>1, <2>2
<1>10. CallbackSound'
  <2>1. \A r \in Run : lock' = r => run'[r] = "starting"
    BY <1>4, <1>6
  <2>2. /\ \A r \in Run : run'[r] = "called" => r \in operations'
        /\ \A r \in Run : run'[r] \in {"taken", "closing"} => told'[r] \in {"success", "failure"}
    BY <1>4, <1>6 DEF IInv, CallbackSound
  <2> QED
    BY <1>9, <2>1, <2>2 DEF CallbackSound
<1>11. ToldSound'
  BY <1>3, <1>4 DEF IInv, ToldSound
<1> QED
  BY <1>3, <1>6, <1>10, <1>11 DEF IInv, TypeOK, CallbackTyped

LEMMA StartRaisesKeeps ==
  ASSUME IInv, NEW q \in Run, StartRaises(q)
  PROVE  IInv'
<1>1. /\ run[q] = "idle" /\ Moves(q, "refused")
      /\ UNCHANGED <<recorderVars, told, lock, operations, occurrences>>
  BY DEF StartRaises
<1>2. /\ RecorderTypeOK' /\ Sound'
      /\ UNCHANGED <<handle, admitted, log, call>>
  BY <1>1, StutterSound DEF IInv, TypeOK, recorderVars, fileVars
<1>3. CallbackTyped
  BY DEF IInv, TypeOK, CallbackTyped
<1>4. /\ run'[q] = "refused" /\ \A r \in Run \ {q} : run'[r] = run[r]
      /\ CallbackTyped'
  BY <1>1, <1>3, RunMoves DEF CallbackTyped
<1>5. \A r \in Run : RunSound(r) /\ (Writes(r)' <=> Writes(r))
  BY <1>2 DEF IInv, CallbackSound, Writes
<1>6. ASSUME NEW r \in Run PROVE RunSound(r)'
  <2>1. CASE r = q
    BY <1>1, <1>2, <1>4, <1>5, <2>1 DEF RunSound
  <2>2. CASE r # q
    BY <1>1, <1>2, <1>4, <1>5, <2>2, RunUndisturbed DEF Known
  <2> QED
    BY <2>1, <2>2
<1>7. CallbackSound'
  BY <1>1, <1>4, <1>6 DEF IInv, CallbackSound
<1>8. ToldSound'
  BY <1>1, <1>2, <1>5 DEF IInv, ToldSound
<1> QED
  BY <1>2, <1>4, <1>7, <1>8 DEF IInv, TypeOK, CallbackTyped

LEMMA RememberKeeps ==
  ASSUME IInv, NEW q \in Run, Remember(q)
  PROVE  IInv'
<1> DEFINE where == IF Returned(q) THEN "called" ELSE "refused"
<1>1. /\ lock = q /\ lock' = None /\ call = Idle
      /\ operations' = operations \cup {q} /\ occurrences' = occurrences \cup {q}
      /\ Moves(q, where) /\ told' = told
  BY DEF Remember
<1>2. ~Writes(q) /\ run[q] = "starting" /\ handle[Of(q)] \in {"open", "censored"}
  BY <1>1, IdleWritesNothing DEF IInv, CallbackSound, RunSound
<1>3. /\ RecorderTypeOK' /\ Sound' /\ UNCHANGED <<admitted, log, call>>
      /\ handle'[Of(q)] = IF where = "called" THEN "dispatched" ELSE "censored"
      /\ \A r \in Run \ {q} : handle'[Of(r)] = handle[Of(r)]
  <2>1. CASE handle[Of(q)] = "open"
    <3>1. MarkDispatched(Of(q)) /\ where = "called"
      BY <2>1 DEF Remember, Returned
    <3>2. RecorderTypeOK' /\ Sound'
      BY <3>1, RunsAreNamed, MarkDispatchedTyped, MarkDispatchedSound DEF IInv, TypeOK
    <3>3. /\ handle' = [handle EXCEPT ![Of(q)] = "dispatched"]
          /\ UNCHANGED <<admitted, log, call>>
      BY <3>1 DEF MarkDispatched, fileVars
    <3>4. /\ handle'[Of(q)] = "dispatched"
          /\ \A r \in Run \ {q} : handle'[Of(r)] = handle[Of(r)]
      BY <3>3, RunHandleChanged DEF IInv, TypeOK
    <3> QED
      BY <3>1, <3>2, <3>3, <3>4
  <2>2. CASE handle[Of(q)] = "censored"
    <3>1. UNCHANGED recorderVars /\ where = "refused"
      BY <2>2 DEF Remember, Returned
    <3> QED
      BY <2>2, <3>1, StutterSound DEF IInv, TypeOK, recorderVars, fileVars
  <2> QED
    BY <1>2, <2>1, <2>2
<1>4. CallbackTyped
  BY DEF IInv, TypeOK, CallbackTyped
<1>5. where \in {"called", "refused"}
  OBVIOUS
<1> HIDE DEF where
<1>6. /\ run'[q] = where /\ \A r \in Run \ {q} : run'[r] = run[r]
      /\ CallbackTyped'
  BY <1>1, <1>4, <1>5, RunMoves DEF CallbackTyped
<1>7. \A r \in Run : RunSound(r) /\ ~Writes(r) /\ ~Writes(r)'
  BY <1>1, <1>3, IdleWritesNothing DEF IInv, CallbackSound, Writes
<1>8. ASSUME NEW r \in Run PROVE RunSound(r)'
  <2>1. CASE r = q
    BY <1>3, <1>5, <1>6, <1>7, <2>1 DEF RunSound
  <2>2. CASE r # q
    <3>1. run[r] # "starting"
      BY <1>1, <1>7, <2>2 DEF RunSound
    <3> QED
      BY <1>3, <1>6, <1>7, <2>2, <3>1, RunUndisturbed DEF Known
  <2> QED
    BY <2>1, <2>2
<1>9. CallbackSound'
  <2>1. \A r \in Run : lock' # r
    BY <1>1, RunsAreNamed
  <2>2. /\ \A r \in Run : run'[r] = "called" => r \in operations'
        /\ \A r \in Run : run'[r] \in {"taken", "closing"} => told'[r] \in {"success", "failure"}
    BY <1>1, <1>5, <1>6 DEF IInv, CallbackSound
  <2> QED
    BY <1>8, <2>1, <2>2 DEF CallbackSound
<1>10. ToldSound'
  BY <1>1, <1>3, <1>7 DEF IInv, ToldSound
<1> QED
  BY <1>3, <1>6, <1>9, <1>10 DEF IInv, TypeOK, CallbackTyped

LEMMA TakeKeeps ==
  ASSUME IInv, NEW q \in Run, NEW how \in {"success", "failure"}, Take(q, how)
  PROVE  IInv'
<1>1. /\ run[q] = "called" /\ told' = [told EXCEPT ![q] = how]
      /\ operations' = operations \ {q}
      /\ UNCHANGED <<recorderVars, lock, occurrences>>
  BY DEF Take
<1>2. /\ handle[Of(q)] = "dispatched" /\ ~Writes(q) /\ lock # q
  BY <1>1 DEF IInv, CallbackSound, RunSound
<1>3. PICK where \in {"taken", "done"} : Moves(q, where)
  BY DEF Take
<1>4. /\ RecorderTypeOK' /\ Sound'
      /\ UNCHANGED <<handle, admitted, log, call>>
  BY <1>1, StutterSound DEF IInv, TypeOK, recorderVars, fileVars
<1>5. CallbackTyped
  BY DEF IInv, TypeOK, CallbackTyped
<1>6. /\ run'[q] = where /\ \A r \in Run \ {q} : run'[r] = run[r]
      /\ told'[q] = how /\ \A r \in Run \ {q} : told'[r] = told[r]
      /\ CallbackTyped'
  <2>1. /\ run'[q] = where /\ \A r \in Run \ {q} : run'[r] = run[r]
        /\ run' \in [Run -> {"idle", "starting", "refused", "called", "taken",
                             "closing", "done"}]
    BY <1>3, <1>5, RunMoves
  <2>2. /\ told'[q] = how /\ \A r \in Run \ {q} : told'[r] = told[r]
        /\ told' \in [Run -> {"success", "failure", None}]
    BY <1>1, <1>5 DEF CallbackTyped
  <2> QED
    BY <1>1, <1>5, <2>1, <2>2 DEF CallbackTyped
<1>7. \A r \in Run : RunSound(r) /\ (Writes(r)' <=> Writes(r))
  BY <1>4 DEF IInv, CallbackSound, Writes
<1>8. ASSUME NEW r \in Run PROVE RunSound(r)'
  <2>1. CASE r = q
    BY <1>2, <1>4, <1>6, <1>7, <2>1 DEF RunSound
  <2>2. CASE r # q
    BY <1>1, <1>4, <1>6, <1>7, <2>2, RunUndisturbed DEF Known
  <2> QED
    BY <2>1, <2>2
<1>9. CallbackSound'
  <2>1. \A r \in Run : lock' = r => run'[r] = "starting"
    BY <1>1, <1>2, <1>6 DEF IInv, CallbackSound
  <2>2. \A r \in Run : run'[r] = "called" => r \in operations'
    BY <1>1, <1>6 DEF IInv, CallbackSound
  <2>3. \A r \in Run : run'[r] \in {"taken", "closing"} => told'[r] \in {"success", "failure"}
    BY <1>6 DEF IInv, CallbackSound
  <2> QED
    BY <1>8, <2>1, <2>2, <2>3 DEF CallbackSound
<1>10. ToldSound'
  <2>1. Of(q) \notin Recorded
    BY <1>2, RunsAreNamed DEF IInv, Sound, HandlesSound
  <2>2. \A i \in Actions(log) : log[i].occurrence # Of(q)
    BY <2>1, LoggedIsRecorded DEF IInv, TypeOK
  <2>3. \A r \in Run \ {q} :
          /\ \A i \in Actions(log) :
               log[i].occurrence = Of(r) => log[i].outcome \in Censored \cup {told'[r]}
          /\ Writes(r) /\ call.frame.kind = "action" =>
               call.frame.outcome \in Censored \cup {told'[r]}
    BY <1>6 DEF IInv, ToldSound
  <2> QED
    BY <1>2, <1>4, <1>7, <2>2, <2>3 DEF ToldSound
<1> QED
  BY <1>4, <1>6, <1>9, <1>10 DEF IInv, TypeOK, CallbackTyped

LEMMA SettleKeeps ==
  ASSUME IInv, NEW q \in Run, Settle(q)
  PROVE  IInv'
<1>1. /\ run[q] = "taken" /\ Close(Of(q), told[q]) /\ Moves(q, "closing")
      /\ UNCHANGED <<told, lock, operations, occurrences>>
  BY DEF Settle, Told
<1>2. /\ handle[Of(q)] = "dispatched" /\ told[q] \in {"success", "failure"} /\ lock # q
  BY <1>1 DEF IInv, CallbackSound, RunSound
<1>3. told[q] \in Terminal
  BY <1>2 DEF Terminal
<1>4. /\ RecorderTypeOK' /\ Sound'
      /\ call'.stage = "line" /\ call'.frame.kind = "action"
      /\ call'.frame.occurrence = Of(q) /\ call'.frame.outcome = told[q]
  BY <1>1, <1>3, RunsAreNamed, CloseTyped, CloseSound DEF IInv, TypeOK
<1>5. /\ call = Idle /\ UNCHANGED <<admitted, log>>
      /\ handle' = [handle EXCEPT ![Of(q)] = "closed"]
  BY <1>1 DEF Close, fileVars
<1>6. /\ handle'[Of(q)] = "closed"
      /\ \A r \in Run \ {q} : handle'[Of(r)] = handle[Of(r)]
  BY <1>5, RunHandleChanged DEF IInv, TypeOK
<1>7. CallbackTyped
  BY DEF IInv, TypeOK, CallbackTyped
<1>8. /\ run'[q] = "closing" /\ \A r \in Run \ {q} : run'[r] = run[r]
      /\ CallbackTyped'
  BY <1>1, <1>7, RunMoves DEF CallbackTyped
<1>9. \A r \in Run : /\ RunSound(r) /\ ~Writes(r)
                     /\ Writes(r)' <=> r = q
  BY <1>4, <1>5, RunsAreNamed, IdleWritesNothing DEF IInv, CallbackSound, Writes
<1>10. ASSUME NEW r \in Run PROVE RunSound(r)'
  <2>1. CASE r = q
    BY <1>6, <1>8, <2>1 DEF RunSound
  <2>2. CASE r # q
    BY <1>1, <1>5, <1>6, <1>8, <1>9, <2>2, RunUndisturbed DEF Known
  <2> QED
    BY <2>1, <2>2
<1>11. CallbackSound'
  BY <1>1, <1>2, <1>8, <1>10 DEF IInv, CallbackSound
<1>12. ToldSound'
  BY <1>1, <1>4, <1>5, <1>9 DEF IInv, ToldSound
<1> QED
  BY <1>4, <1>8, <1>11, <1>12 DEF IInv, TypeOK, CallbackTyped

LEMMA EndRaisesKeeps ==
  ASSUME IInv, NEW q \in Run, EndRaises(q)
  PROVE  IInv'
<1>1. /\ run[q] = "taken" /\ Moves(q, "done")
      /\ UNCHANGED <<recorderVars, told, lock, operations, occurrences>>
  BY DEF EndRaises
<1>2. /\ RecorderTypeOK' /\ Sound'
      /\ UNCHANGED <<handle, admitted, log, call>>
  BY <1>1, StutterSound DEF IInv, TypeOK, recorderVars, fileVars
<1>3. CallbackTyped
  BY DEF IInv, TypeOK, CallbackTyped
<1>4. /\ run'[q] = "done" /\ \A r \in Run \ {q} : run'[r] = run[r]
      /\ CallbackTyped'
  BY <1>1, <1>3, RunMoves DEF CallbackTyped
<1>5. \A r \in Run : RunSound(r) /\ (Writes(r)' <=> Writes(r))
  BY <1>2 DEF IInv, CallbackSound, Writes
<1>6. ASSUME NEW r \in Run PROVE RunSound(r)'
  <2>1. CASE r = q
    BY <1>1, <1>2, <1>4, <1>5, <2>1 DEF RunSound
  <2>2. CASE r # q
    BY <1>1, <1>2, <1>4, <1>5, <2>2, RunUndisturbed DEF Known
  <2> QED
    BY <2>1, <2>2
<1>7. CallbackSound'
  BY <1>1, <1>4, <1>6 DEF IInv, CallbackSound
<1>8. ToldSound'
  BY <1>1, <1>2, <1>5 DEF IInv, ToldSound
<1> QED
  BY <1>2, <1>4, <1>7, <1>8 DEF IInv, TypeOK, CallbackTyped

LEMMA RaisesKeeps ==
  ASSUME IInv, Raises
  PROVE  IInv'
<1>1. /\ \/ log' = log
         \/ call.stage = "line" /\ log' = Append(log, call.frame)
      /\ call' = Idle
      /\ UNCHANGED <<admitted, handle>>
      /\ RecorderTypeOK' /\ Sound'
  BY FaultView, FaultTyped, FaultSound DEF Raises, IInv, TypeOK
<1>2. UNCHANGED <<told, operations, occurrences>>
  BY DEF Raises
<1>3. \A r \in Run : RunSound(r) /\ ~Writes(r)'
  BY <1>1 DEF IInv, CallbackSound, Writes, Idle
<1>4. CallbackTyped
  BY DEF IInv, TypeOK, CallbackTyped
<1>5. /\ CallbackTyped'
      /\ \A r \in Run : RunSound(r)'
      /\ \A r \in Run : lock' = r => run'[r] = "starting"
      /\ \A r \in Run : run'[r] \in {run[r], "refused"}
  <2>1. CASE lock \in Run /\ Writes(lock)
    <3>1. Moves(lock, "refused") /\ lock' = None
      BY <2>1, CallbackAssumption DEF Raises
    <3>2. /\ run'[lock] = "refused" /\ \A r \in Run \ {lock} : run'[r] = run[r]
          /\ CallbackTyped'
      BY <1>2, <1>4, <2>1, <3>1, RunMoves DEF CallbackTyped
    <3>3. run[lock] = "starting" /\ handle[Of(lock)] = "none"
      BY <1>3, <2>1 DEF IInv, CallbackSound, RunSound
    <3>4. ASSUME NEW r \in Run PROVE RunSound(r)'
      <4>1. CASE r = lock
        BY <1>1, <1>3, <3>2, <3>3, <4>1 DEF RunSound
      <4>2. CASE r # lock
        <5>1. run[r] # "starting"
          BY <1>3, <4>2 DEF RunSound
        <5> QED
          BY <1>1, <1>3, <3>2, <4>2, <5>1 DEF RunSound, Known
      <4> QED
        BY <4>1, <4>2
    <3>5. \A r \in Run : lock' # r
      BY <3>1, RunsAreNamed
    <3> QED
      BY <3>2, <3>4, <3>5
  <2>2. CASE ~(lock \in Run /\ Writes(lock))
    <3>1. UNCHANGED <<run, lock>>
      BY <1>4, <2>2 DEF Raises, CallbackTyped
    <3>2. CallbackTyped'
      BY <1>2, <1>4, <3>1 DEF CallbackTyped
    <3>3. ASSUME NEW r \in Run PROVE RunSound(r)'
      <4>1. run[r] = "starting" => ~Writes(r)
        BY <1>3, <2>2 DEF RunSound
      <4> QED
        BY <1>1, <1>3, <3>1, <4>1 DEF RunSound, Known
    <3> QED
      BY <3>1, <3>2, <3>3 DEF IInv, CallbackSound
  <2> QED
    BY <2>1, <2>2
<1>6. CallbackSound'
  BY <1>2, <1>5 DEF IInv, CallbackSound
<1>7. ASSUME NEW r \in Run, NEW i \in Actions(log'), log'[i].occurrence = Of(r)
      PROVE  log'[i].outcome \in Censored \cup {told[r]}
  <2>1. CASE i \in Actions(log) /\ log'[i] = log[i]
    BY <1>7, <2>1 DEF IInv, ToldSound
  <2>2. CASE ~(i \in Actions(log) /\ log'[i] = log[i])
    <3>1. log' # log /\ call.stage = "line" /\ log' = Append(log, call.frame)
      BY <1>1, <1>7, <2>2
    <3>2. log'[i] = call.frame /\ call.frame.kind = "action"
      BY <1>1, <2>2, <3>1, LineView DEF IInv, TypeOK
    <3>3. Writes(r)
      BY <1>7, <3>1, <3>2 DEF Writes
    <3> QED
      BY <3>2, <3>3 DEF IInv, ToldSound
  <2> QED
    BY <2>1, <2>2
<1>8. ToldSound'
  BY <1>2, <1>3, <1>7 DEF ToldSound
<1> QED
  BY <1>1, <1>5, <1>6, <1>8 DEF IInv, TypeOK, CallbackTyped

(***************************************************************************)
(* The writes of the recorder, and what the application does beside the    *)
(* callback, leave the runs where they are.                                *)
(***************************************************************************)
LEMMA CallbackKept ==
  ASSUME IInv, UNCHANGED callbackVars, RecorderTypeOK', Sound',
         \A r \in Run : RunSound(r)', ToldSound'
  PROVE  IInv'
<1>1. UNCHANGED <<run, told, lock, operations, occurrences>>
  BY DEF callbackVars
<1>2. CallbackTyped'
  BY <1>1 DEF IInv, TypeOK, CallbackTyped
<1>3. CallbackSound'
  BY <1>1 DEF IInv, CallbackSound
<1> QED
  BY <1>2, <1>3 DEF IInv, TypeOK, CallbackTyped

LEMMA WriteLineKeeps ==
  ASSUME IInv, WriteLine, UNCHANGED callbackVars
  PROVE  IInv'
<1>1. RecorderTypeOK' /\ Sound'
  BY WriteLineTyped, WriteLineSound DEF IInv, TypeOK
<1>2. /\ call.stage = "line" /\ call'.stage = "manifest" /\ call'.frame = call.frame
      /\ UNCHANGED <<handle, admitted>> /\ log' = Append(log, call.frame)
  BY DEF IInv, TypeOK, RecorderTypeOK, WriteLine
<1>3. UNCHANGED <<run, told, lock>>
  BY DEF callbackVars
<1>4. \A r \in Run : RunSound(r) /\ (Writes(r)' <=> Writes(r))
  BY <1>2 DEF IInv, CallbackSound, Writes
<1>5. \A r \in Run : RunSound(r)'
  BY <1>2, <1>3, <1>4, RunUndisturbed DEF Known
<1>6. ASSUME NEW r \in Run, NEW i \in Actions(log'), log'[i].occurrence = Of(r)
      PROVE  log'[i].outcome \in Censored \cup {told[r]}
  <2>1. CASE i \in Actions(log) /\ log'[i] = log[i]
    BY <1>6, <2>1 DEF IInv, ToldSound
  <2>2. CASE log'[i] = call.frame /\ call.frame.kind = "action"
    <3>1. Writes(r)
      BY <1>2, <1>6, <2>2 DEF Writes
    <3> QED
      BY <2>2, <3>1 DEF IInv, ToldSound
  <2> QED
    BY <1>2, <2>1, <2>2, LineView DEF IInv, TypeOK
<1>7. ToldSound'
  BY <1>2, <1>3, <1>4, <1>6 DEF IInv, ToldSound
<1> QED
  BY <1>1, <1>5, <1>7, CallbackKept

LEMMA AdmitKeeps ==
  ASSUME IInv, Admit, UNCHANGED callbackVars
  PROVE  IInv'
<1> DEFINE o == call.frame.occurrence
<1>1. RecorderTypeOK' /\ Sound'
  BY AdmitTyped, AdmitSound DEF IInv, TypeOK
<1>2. /\ call.stage = "manifest" /\ call.frame.kind = "decision" /\ log' = log
  BY DEF Admit
<1>3. /\ o \in Occurrence /\ handle[o] = "none" /\ Known' = Known \cup {o}
  BY AdmitView DEF IInv, TypeOK, Sound
<1>4. UNCHANGED <<run, told, lock>>
  BY DEF callbackVars
<1>5. \A r \in Run : RunSound(r) /\ (Writes(r) <=> o = Of(r))
  BY <1>2 DEF IInv, CallbackSound, Writes
<1>6. CASE call.frame.policy = "allowed"
  <2>1. call' = Idle /\ handle' = [handle EXCEPT ![o] = "open"]
    BY <1>6 DEF Admit
  <2>2. \A r \in Run : ~Writes(r)'
    BY <2>1 DEF Writes, Idle
  <2>3. handle'[o] = "open" /\ \A x \in Occurrence \ {o} : handle'[x] = handle[x]
    BY <1>3, <2>1 DEF IInv, TypeOK, RecorderTypeOK
  <2> HIDE DEF o
  <2>4. ASSUME NEW r \in Run PROVE RunSound(r)'
    <3>1. CASE o = Of(r)
      <4>1. run[r] = "starting"
        BY <1>3, <1>5, <3>1 DEF IInv, TypeOK, RunSound
      <4> QED
        BY <1>4, <1>5, <2>2, <2>3, <3>1, <4>1 DEF RunSound
    <3>2. CASE o # Of(r)
      <4>1. handle'[Of(r)] = handle[Of(r)] /\ (Of(r) \in Known' => Of(r) \in Known)
        BY <1>3, <2>3, <3>2, RunsAreNamed
      <4> QED
        BY <1>4, <1>5, <2>2, <3>2, <4>1, RunUndisturbed
    <3> QED
      BY <3>1, <3>2
  <2>5. ToldSound'
    BY <1>2, <1>4, <2>2 DEF IInv, ToldSound
  <2> QED
    BY <1>1, <2>4, <2>5, CallbackKept
<1>7. CASE call.frame.policy # "allowed"
  <2>1. /\ call'.stage = "line" /\ call'.frame.kind = "action"
        /\ call'.frame.occurrence = o /\ call'.frame.outcome \in Censored
    BY <1>7, RefusalTyped DEF IInv, TypeOK
  <2>2. handle' = handle
    BY <1>7 DEF Admit
  <2>3. \A r \in Run : Writes(r)' <=> Writes(r)
    BY <1>5, <2>1 DEF Writes
  <2> HIDE DEF o
  <2>4. ASSUME NEW r \in Run PROVE RunSound(r)'
    <3>1. CASE o = Of(r)
      BY <1>4, <1>5, <2>2, <2>3, <3>1 DEF RunSound
    <3>2. CASE o # Of(r)
      BY <1>3, <1>4, <1>5, <2>2, <2>3, <3>2, RunUndisturbed
    <3> QED
      BY <3>1, <3>2
  <2>5. ToldSound'
    BY <1>2, <1>4, <2>1 DEF IInv, ToldSound
  <2> QED
    BY <1>1, <2>4, <2>5, CallbackKept
<1> QED
  BY <1>6, <1>7

LEMMA CountActionKeeps ==
  ASSUME IInv, CountAction, UNCHANGED callbackVars
  PROVE  IInv'
<1>1. RecorderTypeOK' /\ Sound'
  BY CountActionTyped, CountActionSound DEF IInv, TypeOK, Sound
<1>2. /\ call.stage = "manifest" /\ call'.stage = "count" /\ call'.frame = call.frame
      /\ UNCHANGED <<handle, admitted, log>>
  BY DEF IInv, TypeOK, RecorderTypeOK, CountAction
<1>3. UNCHANGED <<run, told, lock>>
  BY DEF callbackVars
<1>4. \A r \in Run : RunSound(r) /\ (Writes(r)' <=> Writes(r))
  BY <1>2 DEF IInv, CallbackSound, Writes
<1>5. \A r \in Run : RunSound(r)'
  BY <1>2, <1>3, <1>4, RunUndisturbed DEF Known
<1>6. ToldSound'
  BY <1>2, <1>3, <1>4 DEF IInv, ToldSound
<1> QED
  BY <1>1, <1>5, <1>6, CallbackKept

LEMMA WriteCountKeeps ==
  ASSUME IInv, WriteCount, UNCHANGED callbackVars
  PROVE  IInv'
<1> DEFINE o == call.frame.occurrence
           refused == call.frame.outcome \in Censored
<1>1. RecorderTypeOK' /\ Sound'
  BY WriteCountTyped, WriteCountSound DEF IInv, TypeOK
<1>2. /\ o \in Occurrence
      /\ \A x \in Occurrence \ {o} : handle'[x] = handle[x]
      /\ handle[o] = IF refused THEN "none" ELSE "closed"
      /\ handle'[o] = IF refused THEN "censored" ELSE "closed"
  BY WriteCountView DEF IInv, TypeOK, Sound
<1>3. /\ call.stage = "count" /\ call' = Idle /\ UNCHANGED <<admitted, log>>
  BY DEF WriteCount
<1>4. UNCHANGED <<run, told, lock>>
  BY DEF callbackVars
<1>5. \A r \in Run : RunSound(r) /\ ~Writes(r)' /\ (Writes(r) <=> o = Of(r))
  BY <1>3 DEF IInv, CallbackSound, Writes, Idle
<1> HIDE DEF o, refused
<1>6. ASSUME NEW r \in Run PROVE RunSound(r)'
  <2>1. CASE o = Of(r)
    <3>1. run[r] \in {"starting", "closing"}
      BY <1>5, <2>1 DEF IInv, TypeOK, RunSound
    <3> QED
      BY <1>2, <1>4, <1>5, <2>1, <3>1 DEF RunSound
  <2>2. CASE o # Of(r)
    <3>1. handle'[Of(r)] = handle[Of(r)]
      BY <1>2, <2>2, RunsAreNamed
    <3> QED
      BY <1>3, <1>4, <1>5, <2>2, <3>1, RunUndisturbed DEF Known
  <2> QED
    BY <2>1, <2>2
<1>7. ToldSound'
  BY <1>3, <1>4, <1>5 DEF IInv, ToldSound
<1> QED
  BY <1>1, <1>6, <1>7, CallbackKept

\* A step that concerns no run.
LEMMA BesideKeeps ==
  ASSUME IInv, UNCHANGED callbackVars, RecorderTypeOK', Sound',
         UNCHANGED <<admitted, log>>,
         \A r \in Run : handle'[Of(r)] = handle[Of(r)] /\ ~Writes(r) /\ ~Writes(r)'
  PROVE  IInv'
<1>1. UNCHANGED <<run, told, lock>>
  BY DEF callbackVars
<1>2. \A r \in Run : RunSound(r)'
  BY <1>1, RunUndisturbed DEF IInv, CallbackSound, Known
<1>3. ToldSound'
  BY <1>1 DEF IInv, ToldSound
<1> QED
  BY <1>2, <1>3, CallbackKept

LEMMA SealKeeps ==
  ASSUME IInv, Finalize \/ WriteFinal, UNCHANGED callbackVars
  PROVE  IInv'
<1>1. RecorderTypeOK' /\ Sound'
  BY SealTyped, FinalizeSound, WriteFinalSound DEF IInv, TypeOK
<1>2. UNCHANGED <<handle, admitted, log>>
  BY DEF Finalize, WriteFinal, fileVars
<1>3. call.stage \in {"idle", "final"} /\ call'.stage \in {"idle", "final"}
  <2>1. CASE Finalize
    BY <2>1 DEF Finalize, Idle
  <2>2. CASE WriteFinal
    BY <2>2 DEF WriteFinal, Idle
  <2> QED
    BY <2>1, <2>2
<1>4. \A r \in Run : ~Writes(r) /\ ~Writes(r)'
  BY <1>3 DEF Writes
<1> QED
  BY <1>1, <1>2, <1>4, BesideKeeps

LEMMA ApplicationKeeps ==
  ASSUME IInv, Application
  PROVE  IInv'
<1>1. UNCHANGED callbackVars
  BY DEF Application
<1>2. RecorderTypeOK /\ Sound
  BY DEF IInv, TypeOK
<1>3. ASSUME NEW l \in Logical \ Run, NEW n \in Attempt, NEW c \in Context,
             NEW retryOf \in Occurrence \cup {None}, NEW parent \in Known \cup {None},
             NEW policy \in Policy, Begin(l, n, c, retryOf, parent, policy)
      PROVE  IInv'
  <2>1. parent \in Occurrence \cup {None} /\ l \in Logical
    BY <1>2 DEF RecorderTypeOK, Known, Decision
  <2>2. /\ RecorderTypeOK' /\ Sound' /\ call'.frame.occurrence = <<l, n>>
    BY <1>2, <1>3, <2>1, BeginTyped, BeginSound
  <2>3. call = Idle /\ UNCHANGED <<handle, admitted, log>>
    BY <1>3 DEF Begin, fileVars
  <2>4. \A r \in Run : Of(r) # <<l, n>>
    BY DEF Of
  <2>5. \A r \in Run : ~Writes(r) /\ ~Writes(r)'
    BY <2>2, <2>3, <2>4, IdleWritesNothing DEF Writes
  <2> QED
    BY <1>1, <2>2, <2>3, <2>5, BesideKeeps
<1>4. ASSUME NEW o \in (Logical \ Run) \X Attempt,
             MarkDispatched(o) \/ (\E outcome \in Terminal : Close(o, outcome)) \/ CloseRaises(o)
      PROVE  IInv'
  <2>1. o \in Occurrence /\ \A r \in Run : Of(r) \in Occurrence \ {o}
    <3>1. o \in Occurrence
      BY DEF Occurrence
    <3> QED
      BY <3>1, RunsAreNamed
  <2>2. /\ RecorderTypeOK' /\ Sound'
        /\ call' = call \/ call'.frame.occurrence = o
    <3>1. CASE MarkDispatched(o)
      BY <1>2, <2>1, <3>1, MarkDispatchedTyped, MarkDispatchedSound DEF MarkDispatched
    <3>2. CASE \E outcome \in Terminal : Close(o, outcome)
      BY <1>2, <2>1, <3>2, CloseTyped, CloseSound
    <3>3. CASE CloseRaises(o)
      BY <1>2, <2>1, <3>3, CloseRaisesTyped, CloseRaisesSound DEF CloseRaises
    <3> QED
      BY <1>4, <3>1, <3>2, <3>3
  <2>3. /\ call = Idle /\ UNCHANGED <<admitted, log>>
        /\ \E new \in {"dispatched", "closed"} : handle' = [handle EXCEPT ![o] = new]
    BY <1>4 DEF MarkDispatched, Close, CloseRaises, fileVars
  <2>4. \A r \in Run : handle'[Of(r)] = handle[Of(r)]
    BY <1>2, <2>1, <2>3 DEF RecorderTypeOK
  <2>5. \A r \in Run : ~Writes(r) /\ ~Writes(r)'
    <3>1. \A r \in Run : ~Writes(r)
      BY <2>3, IdleWritesNothing
    <3>2. CASE call' = call
      BY <3>1, <3>2 DEF Writes
    <3>3. CASE call'.frame.occurrence = o
      BY <2>1, <3>1, <3>3 DEF Writes
    <3> QED
      BY <2>2, <3>2, <3>3
  <2> QED
    BY <1>1, <2>2, <2>3, <2>4, <2>5, BesideKeeps
<1>5. CASE Finalize
  BY <1>1, <1>5, SealKeeps
<1> QED
  BY <1>3, <1>4, <1>5 DEF Application

-----------------------------------------------------------------------------
(***************************************************************************)
(* IInv is inductive.                                                      *)
(***************************************************************************)
LEMMA InitKeeps == Init => IInv
<1> SUFFICES ASSUME Init PROVE IInv
  OBVIOUS
<1>1. RecorderInit /\ RecorderTypeOK /\ Sound
  BY InitSound DEF Init
<1>2. CallbackTyped
  BY DEF Init, CallbackTyped
<1>3. log = <<>> /\ call = Idle /\ admitted = {} /\ \A o \in Occurrence : handle[o] = "none"
  BY <1>1 DEF RecorderInit
<1>4. \A r \in Run : run[r] = "idle" /\ lock # r /\ ~Writes(r)
  BY <1>3, IdleWritesNothing, RunsAreNamed DEF Init
<1>5. CallbackSound
  BY <1>3, <1>4, RunsAreNamed DEF CallbackSound, RunSound, Known
<1>6. ToldSound
  BY <1>3, <1>4 DEF ToldSound, Actions
<1> QED
  BY <1>1, <1>2, <1>5, <1>6 DEF IInv, TypeOK, CallbackTyped

LEMMA StepKeeps == IInv /\ [Next]_vars => IInv'
<1> SUFFICES ASSUME IInv, [Next]_vars PROVE IInv'
  OBVIOUS
<1>1. ASSUME NEW r \in Run, NEW c \in Context, NEW parent \in (Run \ {r}) \cup {None},
             NEW policy \in Policy, OnStart(r, c, parent, policy)
      PROVE  IInv'
  BY <1>1, OnStartKeeps
<1>2. ASSUME NEW r \in Run, StartRaises(r) PROVE IInv'
  BY <1>2, StartRaisesKeeps
<1>3. ASSUME NEW r \in Run, Remember(r) PROVE IInv'
  BY <1>3, RememberKeeps
<1>4. ASSUME NEW r \in Run, NEW how \in {"success", "failure"}, Take(r, how) PROVE IInv'
  BY <1>4, TakeKeeps
<1>5. ASSUME NEW r \in Run, Settle(r) PROVE IInv'
  BY <1>5, SettleKeeps
<1>6. ASSUME NEW r \in Run, EndRaises(r) PROVE IInv'
  BY <1>6, EndRaisesKeeps
<1>7. CASE Raises
  BY <1>7, RaisesKeeps
<1>8. CASE Record
  BY <1>8, WriteLineKeeps, AdmitKeeps, CountActionKeeps, WriteCountKeeps, SealKeeps DEF Record
<1>9. CASE Application
  BY <1>9, ApplicationKeeps
<1>10. CASE UNCHANGED vars
  <2>1. UNCHANGED callbackVars /\ UNCHANGED recorderVars
    BY <1>10 DEF vars
  <2>2. RecorderTypeOK' /\ Sound'
    BY <2>1, StutterSound DEF IInv, TypeOK
  <2>3. UNCHANGED <<run, told, lock, operations, occurrences, handle, admitted, log, call>>
    BY <2>1 DEF callbackVars, recorderVars, fileVars
  <2>4. \A r \in Run : RunSound(r)'
    BY <2>3 DEF IInv, CallbackSound, RunSound, Writes, Known
  <2>5. ToldSound'
    BY <2>3 DEF IInv, ToldSound, Writes
  <2> QED
    BY <2>1, <2>2, <2>4, <2>5, CallbackKept
<1> QED
  BY <1>1, <1>2, <1>3, <1>4, <1>5, <1>6, <1>7, <1>8, <1>9, <1>10 DEF Next

\* The inductive invariant of the callback over the Python recorder.
THEOREM Invariance == Spec => []IInv
BY InitKeeps, StepKeeps, PTL DEF Spec

\* The variables keep their types: the recorder's open count never goes negative, and
\* no lock, operation or occurrence is held for what is no run of the framework.
THEOREM TypeCorrect == Spec => []TypeOK
<1>1. IInv => TypeOK
  BY DEF IInv
<1> QED
  BY <1>1, Invariance, PTL

(***************************************************************************)
(* A bundle that verifies holds the end of every call the framework        *)
(* performed, as LangChain told it, and none of a call that was refused:   *)
(* a call that is under way or whose end callback raised keeps the         *)
(* recorder from ever being finalized.                                     *)
(***************************************************************************)
THEOREM VerdictsTellCalls == Spec => []VerdictTellsCalls
<1>1. IInv => VerdictTellsCalls
  <2> SUFFICES ASSUME IInv, Verifies, NEW r \in Run
               PROVE  /\ Called(r) => \E i \in Actions(log) :
                           log[i].occurrence = Of(r) /\ log[i].outcome = told[r]
                      /\ run[r] = "refused" => \A i \in Actions(log) :
                           log[i].occurrence = Of(r) => log[i].outcome \in Censored
    BY DEF VerdictTellsCalls
  <2>1. Of(r) \in Occurrence /\ RunSound(r)
    BY RunsAreNamed DEF IInv, CallbackSound
  <2>2. \A i \in Actions(log) : log[i].occurrence = Of(r) =>
          handle[Of(r)] \in HandleOf(log[i]) /\ log[i].outcome \in Censored \cup {told[r]}
    BY DEF IInv, Sound, CallSound, ToldSound
  <2>3. ASSUME Called(r)
        PROVE  \E i \in Actions(log) :
                 log[i].occurrence = Of(r) /\ log[i].outcome = told[r]
    <3>1. handle[Of(r)] \in {"dispatched", "closed"}
      BY <2>1, <2>3 DEF Called, RunSound
    <3>2. Live = {}
      BY DEF Verifies, BundleVerifies, ManifestSound, IInv, Sound, SealSound
    <3>3. Of(r) \in Recorded
      BY <2>1, <3>1, <3>2 DEF Live
    <3>4. handle[Of(r)] = "closed"
      BY <2>1, <3>1, <3>3 DEF IInv, Sound, HandlesSound
    <3>5. PICK i \in Actions(log) : log[i].occurrence = Of(r)
      BY <3>3 DEF Recorded, RecordedIn
    <3> QED
      BY <2>2, <3>4, <3>5 DEF HandleOf
  <2>4. ASSUME run[r] = "refused", NEW i \in Actions(log), log[i].occurrence = Of(r)
        PROVE  log[i].outcome \in Censored
    <3>1. handle[Of(r)] # "closed"
      BY <2>1, <2>4 DEF RunSound
    <3> QED
      BY <2>2, <2>4, <3>1 DEF HandleOf
  <2> QED
    BY <2>3, <2>4
<1> QED
  BY <1>1, Invariance, PTL

-----------------------------------------------------------------------------
(***************************************************************************)
(* The Python recorder implements the ledger as the other one does.  A     *)
(* fault can record an outcome too: the line reached the log and only its  *)
(* sync failed.                                                            *)
(***************************************************************************)
LEMMA LedgerInit == RecorderInit => Ledger!Init
<1> SUFFICES ASSUME RecorderInit PROVE Ledger!Init
  OBVIOUS
<1>1. log = <<>> /\ disk.status = "recording" /\ handle = [o \in Occurrence |-> "none"]
  BY DEF RecorderInit
<1>2. Recorded = {} /\ Live = {}
  BY <1>1 DEF Recorded, RecordedIn, Actions, Live
<1> QED
  BY <1>1, <1>2 DEF Ledger!Init

LEMMA LedgerSame ==
  ASSUME SameView, (disk.status = "finalized")' = (disk.status = "finalized")
  PROVE  UNCHANGED Ledger!ledger
BY DEF SameView, Ledger!ledger

\* A line that reaches the log records the outcome it tells, if it tells one.
LEMMA LedgerLine ==
  ASSUME RecorderTypeOK, Sound, call.stage = "line", log' = Append(log, call.frame),
         UNCHANGED <<handle, admitted, open, disk>>
  PROVE  [Ledger!Next]_(Ledger!ledger)
<1> DEFINE o == call.frame.occurrence
<1>1. disk.status # "finalized" /\ call.frame.kind \in {"decision", "action"}
  BY LineView, FrameKinds DEF Sound, SealSound
<1>2. CASE call.frame.kind = "decision"
  BY <1>2, LineView, LedgerSame
<1>3. CASE call.frame.kind = "action"
  <2>1. /\ o \in Occurrence /\ o \notin Recorded
        /\ call.frame.outcome \in Censored => handle[o] = "none" /\ Live' = Live
        /\ call.frame.outcome \notin Censored => o \in Live
    BY <1>3, LineCounted
  <2>2. Recorded' = Recorded \cup {o} /\ Live' = Live \ {o}
    BY <1>3, LineView
  <2>3. CASE call.frame.outcome \in Censored
    <3>1. o \notin Live
      BY <2>1, <2>3 DEF Live
    <3> QED
      BY <1>1, <2>1, <2>2, <2>3, <3>1 DEF Ledger!Next, Ledger!Censor
  <2>4. CASE call.frame.outcome \notin Censored
    BY <1>1, <2>1, <2>2, <2>4 DEF Ledger!Next, Ledger!Record
  <2> QED
    BY <2>3, <2>4
<1> QED
  BY <1>1, <1>2, <1>3

LEMMA LedgerMoves ==
  ASSUME RecorderTypeOK, Sound, NEW o \in Occurrence,
         MarkDispatched(o) \/ (\E outcome \in Terminal : Close(o, outcome)) \/ CloseRaises(o)
  PROVE  UNCHANGED Ledger!ledger
<1>1. /\ handle[o] \in {"open", "dispatched"} /\ UNCHANGED <<admitted, log, disk>>
      /\ \E new \in {"dispatched", "closed"} : handle' = [handle EXCEPT ![o] = new]
  BY DEF MarkDispatched, Close, CloseRaises, fileVars
<1>2. SameView
  BY <1>1, HandleView
<1> QED
  BY <1>1, <1>2, LedgerSame

LEMMA LedgerBegin ==
  ASSUME NEW l, NEW n, NEW c, NEW retryOf, NEW parent, NEW policy,
         Begin(l, n, c, retryOf, parent, policy)
  PROVE  UNCHANGED Ledger!ledger
<1>1. UNCHANGED <<handle, admitted, log, disk>>
  BY DEF Begin, fileVars
<1> QED
  BY <1>1, ViewKept, LedgerSame

LEMMA LedgerRecord ==
  ASSUME RecorderTypeOK, Sound, Record
  PROVE  [Ledger!Next]_(Ledger!ledger)
<1>1. CASE WriteLine
  BY <1>1, LedgerLine DEF WriteLine
<1>2. ASSUME call.stage \in {"manifest", "count"}, disk' = manifest
      PROVE  disk.status # "finalized" /\ disk'.status # "finalized"
  BY <1>2 DEF Sound, SealSound
<1>3. CASE Admit
  <2> DEFINE o == call.frame.occurrence
  <2>1. disk.status # "finalized" /\ disk'.status # "finalized"
    BY <1>2, <1>3 DEF Admit, WriteManifest
  <2>2. /\ o \in Occurrence /\ o \notin Recorded /\ o \notin Live /\ Recorded' = Recorded
        /\ call.frame.policy # "allowed" => Live' = Live
        /\ call.frame.policy = "allowed" => Live' = Live \cup {o}
    BY <1>3, AdmitView DEF Sound
  <2>3. CASE call.frame.policy = "allowed"
    BY <2>1, <2>2, <2>3 DEF Ledger!Next, Ledger!Admit
  <2>4. CASE call.frame.policy # "allowed"
    BY <2>1, <2>2, <2>4 DEF Ledger!ledger
  <2> QED
    BY <2>3, <2>4
<1>4. CASE CountAction
  <2>1. disk.status # "finalized" /\ disk'.status # "finalized"
    BY <1>2, <1>4 DEF CountAction, WriteManifest
  <2>2. SameView
    BY <1>4, ViewKept DEF CountAction
  <2> QED
    BY <2>1, <2>2, LedgerSame
<1>5. CASE WriteCount
  <2>1. disk.status # "finalized" /\ disk'.status # "finalized"
    BY <1>2, <1>5 DEF WriteCount, WriteManifest
  <2>2. SameView
    BY <1>5, WriteCountView DEF Sound
  <2> QED
    BY <2>1, <2>2, LedgerSame
<1>6. CASE WriteFinal
  <2>1. disk.status = "recording" /\ disk'.status = "finalized" /\ Live = {}
    BY <1>6 DEF WriteFinal, WriteManifest, Sound, SealSound
  <2>2. SameView
    BY <1>6, ViewKept DEF WriteFinal
  <2> QED
    BY <2>1, <2>2 DEF SameView, Ledger!Next, Ledger!Seal
<1> QED
  BY <1>1, <1>3, <1>4, <1>5, <1>6 DEF Record

LEMMA LedgerStep ==
  ASSUME IInv, [Next]_vars
  PROVE  [Ledger!Next]_(Ledger!ledger)
<1>1. RecorderTypeOK /\ Sound
  BY DEF IInv, TypeOK
<1>2. CASE UNCHANGED recorderVars
  BY <1>2, ViewKept, LedgerSame DEF recorderVars, fileVars
<1>3. ASSUME NEW r \in Run, NEW c \in Context, NEW parent \in (Run \ {r}) \cup {None},
             NEW policy \in Policy, OnStart(r, c, parent, policy)
      PROVE  [Ledger!Next]_(Ledger!ledger)
  BY <1>3, LedgerBegin DEF OnStart
<1>4. ASSUME NEW r \in Run, Remember(r)
      PROVE  [Ledger!Next]_(Ledger!ledger)
  BY <1>1, <1>2, <1>4, RunsAreNamed, LedgerMoves DEF Remember
<1>5. ASSUME NEW r \in Run, Settle(r)
      PROVE  [Ledger!Next]_(Ledger!ledger)
  <2>1. Close(Of(r), told[r]) /\ told[r] \in Terminal
    BY <1>5 DEF Settle, Told, Terminal, IInv, CallbackSound
  <2> QED
    BY <1>1, <2>1, RunsAreNamed, LedgerMoves
<1>6. ASSUME NEW r \in Run, NEW how,
             StartRaises(r) \/ Take(r, how) \/ EndRaises(r)
      PROVE  [Ledger!Next]_(Ledger!ledger)
  BY <1>2, <1>6 DEF StartRaises, Take, EndRaises
<1>7. CASE Raises
  <2>1. /\ \/ log' = log
           \/ call.stage = "line" /\ log' = Append(log, call.frame)
        /\ UNCHANGED <<open, admitted, handle, disk>>
    BY <1>1, <1>7, FaultView DEF Raises
  <2>2. CASE log' = log
    BY <2>1, <2>2, ViewKept, LedgerSame
  <2>3. CASE log' # log
    BY <1>1, <2>1, <2>3, LedgerLine
  <2> QED
    BY <2>2, <2>3
<1>8. CASE Record
  BY <1>1, <1>8, LedgerRecord
<1>9. CASE Application
  <2>1. ASSUME NEW o \in (Logical \ Run) \X Attempt,
               MarkDispatched(o) \/ (\E outcome \in Terminal : Close(o, outcome))
                 \/ CloseRaises(o)
        PROVE  [Ledger!Next]_(Ledger!ledger)
    <3>1. o \in Occurrence
      BY DEF Occurrence
    <3> QED
      BY <1>1, <2>1, <3>1, LedgerMoves
  <2>2. CASE Finalize
    BY <2>2, ViewKept, LedgerSame DEF Finalize, fileVars
  <2> QED
    BY <1>9, <2>1, <2>2, LedgerBegin DEF Application
<1>10. CASE UNCHANGED vars
  BY <1>2, <1>10 DEF vars
<1> QED
  BY <1>3, <1>4, <1>5, <1>6, <1>7, <1>8, <1>9, <1>10 DEF Next

THEOREM ImplementsLedger == Spec => PythonLedgerSpec
<1>1. IInv /\ [Next]_vars => [Ledger!Next]_(Ledger!ledger)
  BY LedgerStep
<1>2. Init => Ledger!Init
  BY LedgerInit DEF Init
<1> QED
  BY <1>1, <1>2, Invariance, PTL DEF Spec, PythonLedgerSpec, Ledger!Spec

(***************************************************************************)
(* Once the manifest on disk is final no operation is live, so no handle   *)
(* can still write, and no new one is made; the late end of a run that was *)
(* handed out does not exist.                                              *)
(***************************************************************************)
LEMMA SealedIsStable ==
  ASSUME IInv, [Next]_vars, disk.status = "finalized"
  PROVE  UNCHANGED <<log, torn, disk>>
<1>1. /\ RecorderTypeOK /\ Sound /\ call = Idle
      /\ manifest.status = "finalized" /\ call.stage = "idle"
  <2>1. RecorderTypeOK /\ Sound
    BY DEF IInv, TypeOK
  <2>2. manifest.status = "finalized" /\ call.stage = "idle" /\ call.frame = None
    BY <2>1 DEF Sound, SealSound, CallSound
  <2>3. call = Idle
    BY <2>1, <2>2 DEF RecorderTypeOK, Idle
  <2> QED BY <2>1, <2>2, <2>3
<1>2. \A o \in Occurrence : handle[o] \notin {"open", "dispatched"}
  BY <1>1, UnclosedIsLive
<1>3. ASSUME NEW l, NEW n, NEW c, NEW retryOf, NEW parent, NEW policy,
             Begin(l, n, c, retryOf, parent, policy)
      PROVE  FALSE
  BY <1>1, <1>3 DEF Begin, Recording
<1>4. ASSUME NEW o \in Occurrence, NEW outcome,
             MarkDispatched(o) \/ Close(o, outcome) \/ CloseRaises(o)
      PROVE  FALSE
  BY <1>2, <1>4 DEF MarkDispatched, Close, CloseRaises
<1>5. ~WriteLine /\ ~Admit /\ ~CountAction /\ ~WriteCount /\ ~WriteFinal /\ ~Finalize
  BY <1>1 DEF WriteLine, Admit, CountAction, WriteCount, WriteFinal, Finalize, Recording
<1>6. CASE UNCHANGED recorderVars
  BY <1>6 DEF recorderVars, fileVars
<1>7. CASE Raises
  BY <1>1, <1>7 DEF Raises, HostFails, TemporaryExists, fileVars
<1>8. ASSUME NEW r \in Run, Remember(r) PROVE UNCHANGED <<log, torn, disk>>
  BY <1>4, <1>6, <1>8, RunsAreNamed DEF Remember
<1>9. ASSUME NEW r \in Run, Settle(r) PROVE FALSE
  BY <1>4, <1>9, RunsAreNamed DEF Settle
<1>10. CASE Application
  <2>1. (Logical \ Run) \X Attempt \subseteq Occurrence
    BY DEF Occurrence
  <2> QED BY <1>3, <1>4, <1>5, <1>10, <2>1 DEF Application
<1>11. ASSUME NEW r \in Run, NEW how, StartRaises(r) \/ Take(r, how) \/ EndRaises(r)
       PROVE  UNCHANGED <<log, torn, disk>>
  BY <1>6, <1>11 DEF StartRaises, Take, EndRaises
<1>12. ~Record
  BY <1>5 DEF Record
<1>13. ASSUME NEW r \in Run, NEW c, NEW parent, NEW policy, OnStart(r, c, parent, policy)
       PROVE  FALSE
  BY <1>3, <1>13 DEF OnStart
<1>14. CASE UNCHANGED vars
  BY <1>6, <1>14 DEF vars
<1> QED
  BY <1>7, <1>8, <1>9, <1>10, <1>11, <1>12, <1>13, <1>14 DEF Next

\* The verdict on a bundle of the Python recorder is as final as on one of the other.
THEOREM VerdictIsStable == Spec => VerdictStable
<1>1. IInv /\ [Next]_vars => [Verifies => UNCHANGED <<log, torn, disk>>]_vars
  <2> SUFFICES ASSUME IInv, [Next]_vars, Verifies PROVE UNCHANGED <<log, torn, disk>>
    OBVIOUS
  <2>1. disk.status = "finalized"
    BY DEF Verifies, BundleVerifies, ManifestSound
  <2> QED
    BY <2>1, SealedIsStable
<1> QED
  BY <1>1, Invariance, PTL DEF Spec, VerdictStable

-----------------------------------------------------------------------------
(***************************************************************************)
(* What is sealed without a fault verifies.  The argument is again the one *)
(* of SdkRecorderProofs, and so are the lemmas about a log that grows by a *)
(* decision or by the action of a decision it holds.                       *)
(***************************************************************************)
LEMMA Appended ==
  ASSUME NEW l \in Seq(Frame), NEW f \in Frame, NEW m, m = Append(l, f)
  PROVE  /\ m \in Seq(Frame)
         /\ Len(l) \in Nat /\ Len(m) = Len(l) + 1
         /\ DOMAIN l = 1 .. Len(l) /\ DOMAIN m = 1 .. (Len(l) + 1)
         /\ m[Len(l) + 1] = f
         /\ \A i \in 1 .. Len(l) : m[i] = l[i]
OBVIOUS

LEMMA FramesKept ==
  ASSUME NEW l \in Seq(Frame), NEW f \in Frame, NEW m, m = Append(l, f)
  PROVE  /\ DOMAIN m = DOMAIN l \cup {Len(l) + 1} /\ m[Len(l) + 1] = f
         /\ \A i \in DOMAIN l : m[i] = l[i]
<1>1. /\ Len(l) \in Nat /\ m[Len(l) + 1] = f
      /\ DOMAIN l = 1 .. Len(l) /\ DOMAIN m = 1 .. (Len(l) + 1)
      /\ \A i \in 1 .. Len(l) : m[i] = l[i]
  BY Appended
<1>2. DOMAIN m = DOMAIN l \cup {Len(l) + 1}
  BY <1>1
<1> QED
  BY <1>1, <1>2

LEMMA AppendedDecision ==
  ASSUME NEW l \in Seq(Frame), NEW f \in Frame, NEW m, m = Append(l, f),
         f.kind = "decision"
  PROVE  Decisions(m) = Decisions(l) \cup {Len(l) + 1} /\ Actions(m) = Actions(l)
<1>1. /\ DOMAIN m = DOMAIN l \cup {Len(l) + 1} /\ m[Len(l) + 1] = f
      /\ \A i \in DOMAIN l : m[i] = l[i]
  BY FramesKept
<1> QED
  BY <1>1 DEF Decisions, Actions

LEMMA AppendedAction ==
  ASSUME NEW l \in Seq(Frame), NEW f \in Frame, NEW m, m = Append(l, f),
         f.kind = "action"
  PROVE  Actions(m) = Actions(l) \cup {Len(l) + 1} /\ Decisions(m) = Decisions(l)
<1>1. /\ DOMAIN m = DOMAIN l \cup {Len(l) + 1} /\ m[Len(l) + 1] = f
      /\ \A i \in DOMAIN l : m[i] = l[i]
  BY FramesKept
<1> QED
  BY <1>1 DEF Decisions, Actions

LEMMA ChainAppended ==
  ASSUME NEW l \in Seq(Frame), NEW f \in Frame, ChainSound(l),
         FrameSound(f), f.sequence = Len(l),
         \A i \in DOMAIN l : l[i].observed <= f.observed
  PROVE  ChainSound(Append(l, f))
<1> DEFINE m == Append(l, f)
<1>1. /\ Len(l) \in Nat /\ m[Len(l) + 1] = f
      /\ DOMAIN l = 1 .. Len(l) /\ DOMAIN m = 1 .. (Len(l) + 1)
      /\ \A i \in 1 .. Len(l) : m[i] = l[i]
  BY Appended
<1> HIDE DEF m
<1>2. SUFFICES ASSUME NEW i \in DOMAIN m
               PROVE  /\ FrameSound(m[i])
                      /\ m[i].sequence = i - 1
                      /\ i > 1 => m[i - 1].observed <= m[i].observed
  BY DEF ChainSound, m
<1>3. CASE i \in 1 .. Len(l)
  <2>1. m[i] = l[i] /\ i \in DOMAIN l /\ (i > 1 => m[i - 1] = l[i - 1])
    BY <1>1, <1>3
  <2> QED
    BY <2>1 DEF ChainSound
<1>4. CASE i = Len(l) + 1
  <2>1. m[i] = f /\ i - 1 = Len(l)
    BY <1>1, <1>4
  <2>2. ASSUME i > 1 PROVE m[i - 1].observed <= f.observed
    <3>1. i - 1 \in DOMAIN l /\ m[i - 1] = l[i - 1]
      BY <1>1, <1>4, <2>2
    <3> QED
      BY <3>1
  <2> QED
    BY <2>1, <2>2
<1> QED
  BY <1>1, <1>3, <1>4

\* Frames of one kind stay told apart by their occurrence.
LEMMA DistinctAppended ==
  ASSUME NEW l \in Seq(Frame), NEW f \in Frame, LogWhole(l),
         \A i \in DOMAIN l : l[i].kind = f.kind => l[i].occurrence # f.occurrence
  PROVE  LET m == Append(l, f) IN
         \A i, j \in DOMAIN m :
           m[i].kind = m[j].kind /\ m[i].occurrence = m[j].occurrence => i = j
<1> DEFINE m == Append(l, f)
<1>1. /\ Len(l) \in Nat /\ m[Len(l) + 1] = f
      /\ DOMAIN l = 1 .. Len(l) /\ DOMAIN m = 1 .. (Len(l) + 1)
      /\ \A i \in 1 .. Len(l) : m[i] = l[i]
  BY Appended
<1>2. \A i, j \in DOMAIN l :
        l[i].kind = l[j].kind /\ l[i].occurrence = l[j].occurrence => i = j
  BY DEF LogWhole
<1> HIDE DEF m
<1>3. \A i \in DOMAIN m : i \in DOMAIN l \/ i = Len(l) + 1
  BY <1>1
<1>4. \A i, j \in DOMAIN m :
        m[i].kind = m[j].kind /\ m[i].occurrence = m[j].occurrence => i = j
  <2> SUFFICES ASSUME NEW i \in DOMAIN m, NEW j \in DOMAIN m,
                      m[i].kind = m[j].kind, m[i].occurrence = m[j].occurrence
               PROVE  i = j
    OBVIOUS
  <2>1. CASE i \in DOMAIN l /\ j \in DOMAIN l
    BY <1>1, <1>2, <2>1
  <2>2. CASE i \in DOMAIN l /\ j = Len(l) + 1
    BY <1>1, <2>2
  <2>3. CASE i = Len(l) + 1 /\ j \in DOMAIN l
    BY <1>1, <2>3
  <2> QED
    BY <1>3, <2>1, <2>2, <2>3
<1> QED
  BY <1>4 DEF m

LEMMA LineageByIndex ==
  ASSUME NEW l,
         \A i \in Decisions(l) :
           /\ l[i].parent # None =>
                \E p \in Decisions(l) : p < i /\ l[p].occurrence = l[i].parent
           /\ l[i].occurrence[2] > 1 =>
                \E p \in Decisions(l) :
                  /\ l[p].occurrence = <<l[i].occurrence[1], l[i].occurrence[2] - 1>>
                  /\ l[i].retryOf = l[p].occurrence
                  /\ l[i].context = l[p].context
  PROVE  LineageSound(l)
BY DEF LineageSound

\* A decision whose parent and whose earlier attempt the log holds keeps it whole.
LEMMA DecisionAppended ==
  ASSUME NEW l \in Seq(Frame), LogWhole(l), NEW f \in Decision,
         FrameSound(f), f.sequence = Len(l),
         \A i \in DOMAIN l : l[i].observed <= f.observed,
         \A i \in Decisions(l) : l[i].occurrence # f.occurrence,
         f.parent # None => \E p \in Decisions(l) : l[p].occurrence = f.parent,
         f.occurrence[2] > 1 =>
           \E p \in Decisions(l) :
             /\ l[p].occurrence = <<f.occurrence[1], f.occurrence[2] - 1>>
             /\ f.retryOf = l[p].occurrence
             /\ f.context = l[p].context
  PROVE  LogWhole(Append(l, f))
<1> DEFINE m == Append(l, f)
<1>0. f \in Frame /\ f.kind = "decision"
  BY DEF Frame, Decision
<1>a. m = Append(l, f)
  OBVIOUS
<1> HIDE DEF m
<1>b. /\ Len(l) \in Nat /\ m[Len(l) + 1] = f
      /\ DOMAIN l = 1 .. Len(l)
      /\ \A i \in 1 .. Len(l) : m[i] = l[i]
  BY <1>0, <1>a, Appended
<1>1. /\ Decisions(m) = Decisions(l) \cup {Len(l) + 1}
      /\ Actions(m) = Actions(l)
      /\ \A i \in Decisions(l) : i \in 1 .. Len(l) /\ m[i] = l[i]
      /\ \A i \in Actions(l) : i \in 1 .. Len(l) /\ m[i] = l[i]
  <2>1. /\ \A i \in Decisions(l) : i \in 1 .. Len(l) /\ m[i] = l[i]
        /\ \A i \in Actions(l) : i \in 1 .. Len(l) /\ m[i] = l[i]
    BY <1>b DEF Decisions, Actions
  <2>2. Decisions(m) = Decisions(l) \cup {Len(l) + 1} /\ Actions(m) = Actions(l)
    BY <1>0, <1>a, AppendedDecision
  <2> QED
    BY <2>1, <2>2
<1>2. ChainSound(m)
  BY <1>0, <1>a, ChainAppended DEF LogWhole
<1>3. \A i \in DOMAIN l : l[i].kind = f.kind => l[i].occurrence # f.occurrence
  BY <1>0 DEF Decisions
<1>4. \A i, j \in DOMAIN m :
        m[i].kind = m[j].kind /\ m[i].occurrence = m[j].occurrence => i = j
  BY <1>0, <1>a, <1>3, DistinctAppended
<1>5. \A j \in Actions(m) : \E i \in Decisions(m) :
        i < j /\ m[i].occurrence = m[j].occurrence /\ Agree(m[i], m[j])
  BY <1>1 DEF LogWhole
<1>6. LineageSound(m)
  <2>1. ASSUME NEW i \in Decisions(l)
        PROVE  /\ m[i].parent # None =>
                    \E p \in Decisions(m) : p < i /\ m[p].occurrence = m[i].parent
               /\ m[i].occurrence[2] > 1 =>
                    \E p \in Decisions(m) :
                      /\ m[p].occurrence = <<m[i].occurrence[1], m[i].occurrence[2] - 1>>
                      /\ m[i].retryOf = m[p].occurrence
                      /\ m[i].context = m[p].context
    <3>1. m[i] = l[i] /\ i \in Decisions(l) /\ LineageSound(l)
      BY <1>1 DEF LogWhole
    <3>2. \A p \in Decisions(l) : p \in Decisions(m) /\ m[p] = l[p]
      BY <1>1
    <3>3. /\ l[i].parent # None =>
               \E p \in Decisions(l) : p < i /\ l[p].occurrence = l[i].parent
          /\ l[i].occurrence[2] > 1 =>
               \E p \in Decisions(l) :
                 /\ l[p].occurrence = <<l[i].occurrence[1], l[i].occurrence[2] - 1>>
                 /\ l[i].retryOf = l[p].occurrence
                 /\ l[i].context = l[p].context
      BY <3>1 DEF LineageSound
    <3> QED
      BY <3>1, <3>2, <3>3
  <2>2. /\ f.parent # None =>
             \E p \in Decisions(m) : p < Len(l) + 1 /\ m[p].occurrence = f.parent
        /\ f.occurrence[2] > 1 =>
             \E p \in Decisions(m) :
               /\ m[p].occurrence = <<f.occurrence[1], f.occurrence[2] - 1>>
               /\ f.retryOf = m[p].occurrence
               /\ f.context = m[p].context
    <3>1. \A p \in Decisions(l) : p < Len(l) + 1 /\ p \in Decisions(m) /\ m[p] = l[p]
      BY <1>1, <1>b
    <3> QED
      BY <3>1
  <2>3. ASSUME NEW i \in Decisions(m)
        PROVE  /\ m[i].parent # None =>
                    \E p \in Decisions(m) : p < i /\ m[p].occurrence = m[i].parent
               /\ m[i].occurrence[2] > 1 =>
                    \E p \in Decisions(m) :
                      /\ m[p].occurrence = <<m[i].occurrence[1], m[i].occurrence[2] - 1>>
                      /\ m[i].retryOf = m[p].occurrence
                      /\ m[i].context = m[p].context
    <3>1. i \in Decisions(l) \/ i = Len(l) + 1
      BY <1>1
    <3>2. CASE i \in Decisions(l)
      BY <2>1, <3>2
    <3>3. CASE i = Len(l) + 1
      BY <1>b, <2>2, <3>3
    <3> QED
      BY <3>1, <3>2, <3>3
  <2> QED
    BY <2>3, LineageByIndex
<1> QED
  BY <1>2, <1>4, <1>5, <1>6 DEF LogWhole, m

\* So does the one action of a decision the log holds.
LEMMA ActionAppended ==
  ASSUME NEW l \in Seq(Frame), LogWhole(l), NEW f \in Action,
         DispatchTimely(f), f.sequence = Len(l),
         \A i \in DOMAIN l : l[i].observed <= f.observed,
         f.occurrence \notin RecordedIn(l),
         NEW d \in Decisions(l), l[d].occurrence = f.occurrence, Agree(l[d], f)
  PROVE  LogWhole(Append(l, f))
<1> DEFINE m == Append(l, f)
<1>0. f \in Frame /\ f.kind = "action"
  BY DEF Frame, Action
<1>a. m = Append(l, f)
  OBVIOUS
<1> HIDE DEF m
<1>b. /\ Len(l) \in Nat /\ m[Len(l) + 1] = f
      /\ DOMAIN l = 1 .. Len(l)
      /\ \A i \in 1 .. Len(l) : m[i] = l[i]
  BY <1>0, <1>a, Appended
<1>1. /\ Decisions(m) = Decisions(l)
      /\ Actions(m) = Actions(l) \cup {Len(l) + 1}
      /\ \A i \in Decisions(l) : i \in 1 .. Len(l) /\ m[i] = l[i]
      /\ \A i \in Actions(l) : i \in 1 .. Len(l) /\ m[i] = l[i]
  <2>1. /\ \A i \in Decisions(l) : i \in 1 .. Len(l) /\ m[i] = l[i]
        /\ \A i \in Actions(l) : i \in 1 .. Len(l) /\ m[i] = l[i]
    BY <1>b DEF Decisions, Actions
  <2>2. Actions(m) = Actions(l) \cup {Len(l) + 1} /\ Decisions(m) = Decisions(l)
    BY <1>0, <1>a, AppendedAction
  <2> QED
    BY <2>1, <2>2
<1>2. FrameSound(f)
  <2>1. FrameSound(l[d]) /\ l[d].retryOf = f.retryOf
    BY DEF LogWhole, ChainSound, Decisions, Agree
  <2> QED
    BY <1>0, <2>1 DEF FrameSound
<1>3. ChainSound(m)
  BY <1>0, <1>2, <1>a, ChainAppended DEF LogWhole
<1>4. \A i \in DOMAIN l : l[i].kind = f.kind => l[i].occurrence # f.occurrence
  BY <1>0 DEF RecordedIn, Actions
<1>5. \A i, j \in DOMAIN m :
        m[i].kind = m[j].kind /\ m[i].occurrence = m[j].occurrence => i = j
  BY <1>0, <1>a, <1>4, DistinctAppended
<1>6. LineageSound(m)
  <2>1. Decisions(m) = Decisions(l) /\ \A p \in Decisions(l) : m[p] = l[p]
    BY <1>1
  <2>2. ASSUME NEW i \in Decisions(m)
        PROVE  /\ m[i].parent # None =>
                    \E p \in Decisions(m) : p < i /\ m[p].occurrence = m[i].parent
               /\ m[i].occurrence[2] > 1 =>
                    \E p \in Decisions(m) :
                      /\ m[p].occurrence = <<m[i].occurrence[1], m[i].occurrence[2] - 1>>
                      /\ m[i].retryOf = m[p].occurrence
                      /\ m[i].context = m[p].context
    <3>1. /\ l[i].parent # None =>
               \E p \in Decisions(l) : p < i /\ l[p].occurrence = l[i].parent
          /\ l[i].occurrence[2] > 1 =>
               \E p \in Decisions(l) :
                 /\ l[p].occurrence = <<l[i].occurrence[1], l[i].occurrence[2] - 1>>
                 /\ l[i].retryOf = l[p].occurrence
                 /\ l[i].context = l[p].context
      BY <2>1 DEF LogWhole, LineageSound
    <3> QED
      BY <2>1, <3>1
  <2> QED
    BY <2>2, LineageByIndex
<1>7. \A j \in Actions(m) : \E i \in Decisions(m) :
        i < j /\ m[i].occurrence = m[j].occurrence /\ Agree(m[i], m[j])
  <2>1. \A j \in Actions(l) : \E i \in Decisions(m) :
          i < j /\ m[i].occurrence = m[j].occurrence /\ Agree(m[i], m[j])
    BY <1>1 DEF LogWhole
  <2>2. d < Len(l) + 1 /\ m[d] = l[d] /\ d \in Decisions(m)
    BY <1>1, <1>b
  <2> QED
    BY <1>1, <1>b, <2>1, <2>2
<1> QED
  BY <1>3, <1>5, <1>6, <1>7 DEF LogWhole, m

(***************************************************************************)
(* The parts of Faultless that most steps leave alone, and what a new line *)
(* does to them.                                                           *)
(***************************************************************************)
LEMMA TimeIsNatural == Time \subseteq Nat /\ NoTime \notin Time
BY VerifierAssumption DEF Time, NoTime

LEMMA WholeTyped ==
  ASSUME RecorderTypeOK
  PROVE  /\ Whole \in Seq(Frame)
         /\ call.stage # "line" => Whole = log
BY DEF RecorderTypeOK, Whole

LEMMA CountsFinite ==
  ASSUME RecorderTypeOK
  PROVE  /\ IsFiniteSet(Live) /\ Cardinality(Live) \in Nat
         /\ IsFiniteSet(Recorded) /\ Cardinality(Recorded) \in Nat
<1>1. IsFiniteSet(Attempt)
  BY FS_Interval, VerifierAssumption DEF Attempt
<1>2. IsFiniteSet(Occurrence)
  BY <1>1, FS_Product, VerifierAssumption DEF Occurrence
<1>3. Recorded \subseteq Occurrence
  BY FrameKinds DEF RecorderTypeOK, Recorded, RecordedIn, Actions
<1>4. IsFiniteSet(Live) /\ IsFiniteSet(Recorded)
  BY <1>2, <1>3, LiveFinite, FS_Subset
<1> QED
  BY <1>4, FS_CardinalityType

\* Nothing of a call is left between calls.
LEMMA IdleCall ==
  ASSUME call = Idle
  PROVE  /\ call.stage = "idle" /\ call.frame = None
         /\ Whole = log /\ Deciding = {}
BY DEF Idle, Whole, Deciding

\* A decision the recorder admitted, or is about to, is in the log, and dated.
LEMMA DecidedIsWhole ==
  ASSUME RecorderTypeOK, Faultless, NEW d \in admitted \cup Deciding
  PROVE  \E i \in Decisions(Whole) :
           /\ Whole[i] = d
           /\ d.kind = "decision" /\ FrameSound(d)
           /\ d.evaluated <= clock
<1>1. PICK i \in Decisions(Whole) : Whole[i] = d
  BY DEF Faultless, AdmittedWhole
<1>2. i \in DOMAIN Whole /\ d.kind = "decision" /\ d \in Frame
  BY <1>1, WholeTyped DEF Decisions
<1>3. FrameSound(d) /\ d.observed <= clock
  BY <1>1, <1>2 DEF Faultless, LogWhole, ChainSound, TimesSound
<1>4. d \in Decision
  BY <1>2, FrameKinds
<1>5. d.evaluated \in Nat /\ d.observed \in Nat /\ clock \in Nat
  BY <1>4, TimeIsNatural DEF RecorderTypeOK, Decision
<1>6. d.evaluated <= clock
  BY <1>2, <1>3, <1>5 DEF FrameSound, PolicyTimely
<1> QED
  BY <1>1, <1>2, <1>3, <1>6

\* Without a fault what is counted is what is in the log, so a new line has the next number.
LEMMA LineBegun ==
  ASSUME RecorderTypeOK, CountsExact, call.stage # "line",
         NEW f \in Frame, f.sequence = manifest.frames,
         call' = [stage |-> "line", frame |-> f],
         UNCHANGED <<log, manifest, torn, temporary>>
  PROVE  /\ call'.stage = "line" /\ call'.frame = f /\ call' # Idle
         /\ Whole = log /\ f.sequence = Len(log)
         /\ Whole' = Append(log, f)
         /\ manifest'.frames = Len(log') /\ ~torn' /\ ~temporary'
BY DEF Whole, CountsExact, Idle

\* TimesSound for its part about the frames, when one more of them is written.
LEMMA FramesDated ==
  ASSUME RecorderTypeOK, RecorderTypeOK', TimesSound, NEW f \in Frame, Whole' = Append(Whole, f),
         clock <= clock', f.observed = clock', UNCHANGED manifest
  PROVE  /\ \A i \in DOMAIN Whole' :
              manifest'.created <= Whole'[i].observed /\ Whole'[i].observed <= clock'
         /\ manifest'.created <= clock'
         /\ \A i \in DOMAIN Whole : Whole[i].observed <= f.observed
<1> DEFINE w == Whole
           m == Whole'
<1>1. /\ Len(w) \in Nat /\ m[Len(w) + 1] = f
      /\ DOMAIN w = 1 .. Len(w) /\ DOMAIN m = 1 .. (Len(w) + 1)
      /\ \A i \in 1 .. Len(w) : m[i] = w[i]
  BY WholeTyped, Appended
<1>2. clock \in Nat /\ clock' \in Nat /\ manifest.created \in Nat
  BY TimeIsNatural DEF RecorderTypeOK, Manifest
<1>3. \A i \in DOMAIN w : w[i].observed \in Nat
  <2>1. \A i \in DOMAIN w : w[i] \in Frame
    BY WholeTyped
  <2> QED
    BY <2>1, TimeIsNatural DEF Frame, Decision, Action
<1>4. \A i \in DOMAIN w : manifest.created <= w[i].observed /\ w[i].observed <= clock
  BY DEF TimesSound
<1>5. manifest.created <= clock
  BY DEF TimesSound
<1> HIDE DEF w, m
<1>6. \A i \in DOMAIN w : w[i].observed <= clock'
  BY <1>2, <1>3, <1>4
<1>7. manifest.created <= clock'
  BY <1>2, <1>5
<1>8. \A i \in DOMAIN m : manifest.created <= m[i].observed /\ m[i].observed <= clock'
  <2> SUFFICES ASSUME NEW i \in DOMAIN m
               PROVE  manifest.created <= m[i].observed /\ m[i].observed <= clock'
    OBVIOUS
  <2>1. CASE i \in DOMAIN w
    BY <1>1, <1>4, <1>6, <2>1
  <2>2. CASE i = Len(w) + 1
    BY <1>1, <1>2, <1>7, <2>2
  <2> QED
    BY <1>1, <2>1, <2>2
<1> QED
  BY <1>6, <1>7, <1>8 DEF w, m

\* The same when the clock moves and no frame is written.
LEMMA ClockDated ==
  ASSUME RecorderTypeOK, RecorderTypeOK', TimesSound, Whole' = Whole,
         clock <= clock', manifest'.created = manifest.created
  PROVE  /\ \A i \in DOMAIN Whole' :
              manifest'.created <= Whole'[i].observed /\ Whole'[i].observed <= clock'
         /\ manifest'.created <= clock'
<1>1. clock \in Nat /\ clock' \in Nat /\ manifest.created \in Nat
  BY TimeIsNatural DEF RecorderTypeOK, Manifest
<1>2. \A i \in DOMAIN Whole : Whole[i].observed \in Nat
  <2>1. \A i \in DOMAIN Whole : Whole[i] \in Frame
    BY WholeTyped
  <2> QED
    BY <2>1, TimeIsNatural DEF Frame, Decision, Action
<1> QED
  BY <1>1, <1>2 DEF TimesSound

\* Dispatch times stay in the past.
LEMMA StartedDated ==
  ASSUME RecorderTypeOK, RecorderTypeOK', TimesSound, clock <= clock', UNCHANGED started
  PROVE  \A o \in Occurrence : started'[o] <= clock'
<1>1. clock \in Nat /\ clock' \in Nat
  BY TimeIsNatural DEF RecorderTypeOK
<1>2. \A o \in Occurrence : started[o] \in Int /\ started[o] <= clock
  <2>1. Time \cup {NoTime} \subseteq Int
    BY TimeIsNatural DEF NoTime
  <2> QED
    BY <2>1 DEF RecorderTypeOK, TimesSound
<1> QED
  BY <1>1, <1>2

-----------------------------------------------------------------------------
(***************************************************************************)
(* Faultless, action by action.                                            *)
(***************************************************************************)
LEMMA InitWhole == RecorderInit => Faultless
<1> SUFFICES ASSUME RecorderInit PROVE Faultless
  OBVIOUS
<1>1. /\ log = <<>> /\ open = 0 /\ admitted = {} /\ ~torn /\ ~temporary /\ call = Idle
      /\ manifest.frames = 0 /\ manifest.operations = 0 /\ manifest.created = clock
      /\ manifest.status = "recording" /\ disk = manifest /\ clock \in Time
      /\ \A o \in Occurrence : handle[o] = "none" /\ started[o] = NoTime
  BY DEF RecorderInit
<1>2. Whole = <<>> /\ Deciding = {} /\ call.stage = "idle"
  BY <1>1, IdleCall
<1>3. Live = {} /\ Recorded = {}
  BY <1>1 DEF Live, Recorded, RecordedIn, Actions
<1>4. CountsExact
  BY <1>1, <1>2, <1>3, FS_EmptySet DEF CountsExact
<1>5. LogWhole(Whole)
  BY <1>2 DEF LogWhole, ChainSound, LineageSound, Decisions, Actions
<1>6. TimesSound
  BY <1>1, <1>2, TimeIsNatural DEF TimesSound, NoTime
<1>7. AdmittedWhole
  BY <1>1, <1>2 DEF AdmittedWhole, Decisions
<1> QED
  BY <1>4, <1>5, <1>6, <1>7 DEF Faultless

LEMMA BeginWhole ==
  ASSUME RecorderTypeOK, Sound, RecorderTypeOK', faults = 0, Faultless,
         NEW l \in Logical, NEW n \in Attempt, NEW c \in Context,
         NEW retryOf \in Occurrence \cup {None}, NEW parent \in Occurrence \cup {None},
         NEW policy \in Policy, Begin(l, n, c, retryOf, parent, policy)
  PROVE  Faultless'
<1>1. PICK evaluated \in Reading(clock) : \E observed \in Reading(evaluated) :
        /\ clock' = observed
        /\ call' = [stage |-> "line",
                    frame |-> [kind |-> "decision", sequence |-> manifest.frames,
                               occurrence |-> <<l, n>>, context |-> c, retryOf |-> retryOf,
                               parent |-> parent, policy |-> policy,
                               evaluated |-> evaluated, observed |-> observed]]
  BY DEF Begin
<1>2. PICK observed \in Reading(evaluated) :
        /\ clock' = observed
        /\ call' = [stage |-> "line",
                    frame |-> [kind |-> "decision", sequence |-> manifest.frames,
                               occurrence |-> <<l, n>>, context |-> c, retryOf |-> retryOf,
                               parent |-> parent, policy |-> policy,
                               evaluated |-> evaluated, observed |-> observed]]
  BY <1>1
<1> DEFINE f == [kind |-> "decision", sequence |-> manifest.frames, occurrence |-> <<l, n>>,
                 context |-> c, retryOf |-> retryOf, parent |-> parent,
                 policy |-> policy, evaluated |-> evaluated, observed |-> observed]
<1>3. /\ evaluated \in Time /\ observed \in Time
      /\ clock <= evaluated /\ evaluated <= observed
  BY DEF RecorderTypeOK, Reading
<1>4. /\ f \in Decision /\ f \in Frame /\ f.sequence = manifest.frames /\ f.kind = "decision"
      /\ f.occurrence = <<l, n>> /\ f.occurrence[1] = l /\ f.occurrence[2] = n
      /\ f.parent = parent /\ f.retryOf = retryOf /\ f.context = c
      /\ f.observed = observed /\ f.evaluated = evaluated
  BY <1>3 DEF RecorderTypeOK, Manifest, Frame, Decision, Occurrence
<1>5. call' = [stage |-> "line", frame |-> f] /\ clock' = f.observed
  BY <1>2
<1> HIDE DEF f
<1>6. /\ call = Idle
      /\ UNCHANGED <<manifest, open, admitted, handle, started, log, torn, disk, temporary>>
      /\ Recording /\ LineageKnown(l, n, c, retryOf, parent)
  BY DEF Begin, fileVars
<1>7. /\ call.stage = "idle" /\ Whole = log /\ Deciding = {} /\ log \in Seq(Frame)
      /\ CountsExact /\ TimesSound /\ AdmittedWhole /\ LogWhole(log)
  BY <1>6, IdleCall DEF Faultless, RecorderTypeOK
<1>8. /\ call'.stage = "line" /\ call'.frame = f /\ call' # Idle
      /\ f.sequence = Len(log) /\ Whole' = Append(log, f)
      /\ manifest'.frames = Len(log') /\ ~torn' /\ ~temporary'
  BY <1>4, <1>5, <1>6, <1>7, LineBegun
<1>9. clock \in Nat /\ evaluated \in Nat /\ observed \in Nat /\ clock <= clock'
  <2>1. clock \in Nat /\ evaluated \in Nat /\ observed \in Nat /\ clock' = observed
    BY <1>3, <1>4, <1>5, TimeIsNatural DEF RecorderTypeOK
  <2> QED
    BY <1>3, <2>1
<1>10. CountsExact'
  <2>1. Live' = Live /\ Recorded' = Recorded
    BY <1>6 DEF Live, Recorded
  <2> QED
    BY <1>6, <1>7, <1>8, <2>1 DEF CountsExact
<1>11. /\ \A i \in DOMAIN Whole' :
            manifest'.created <= Whole'[i].observed /\ Whole'[i].observed <= clock'
       /\ manifest'.created <= clock'
       /\ \A i \in DOMAIN log : log[i].observed <= f.observed
  BY <1>4, <1>5, <1>6, <1>7, <1>8, <1>9, FramesDated
<1>12. TimesSound'
  <2>1. \A o \in Occurrence : started'[o] <= clock'
    BY <1>6, <1>7, <1>9, StartedDated
  <2>2. manifest'.status # "finalized"
    BY <1>6 DEF Recording
  <2> QED
    BY <1>6, <1>7, <1>11, <2>1, <2>2 DEF TimesSound
<1>13. {log[i] : i \in Decisions(log)} = admitted
  BY <1>7 DEF AdmittedWhole
<1>14. LogWhole(Whole')
  <2>1. FrameSound(f)
    <3>1. (n = 1) <=> (retryOf = None)
      <4>1. \A p \in admitted : p.occurrence \in Occurrence
        BY DEF RecorderTypeOK, Decision
      <4>2. n # 1 => retryOf \in Occurrence
        BY <1>6, <4>1 DEF LineageKnown
      <4>3. n = 1 => retryOf = None
        BY <1>6 DEF LineageKnown
      <4> QED
        BY <4>2, <4>3, VerifierAssumption
    <3> QED
      BY <1>3, <1>4, <3>1 DEF FrameSound, PolicyTimely
  <2>2. \A i \in Decisions(log) : log[i].occurrence # f.occurrence
    BY <1>4, <1>6, <1>13 DEF LineageKnown, Known
  <2>3. f.parent # None => \E p \in Decisions(log) : log[p].occurrence = f.parent
    BY <1>4, <1>6, <1>13 DEF LineageKnown, Known
  <2>4. f.occurrence[2] > 1 =>
          \E p \in Decisions(log) :
            /\ log[p].occurrence = <<f.occurrence[1], f.occurrence[2] - 1>>
            /\ f.retryOf = log[p].occurrence
            /\ f.context = log[p].context
    <3> SUFFICES ASSUME n > 1
                 PROVE  \E p \in Decisions(log) :
                          /\ log[p].occurrence = <<l, n - 1>>
                          /\ retryOf = log[p].occurrence
                          /\ c = log[p].context
      BY <1>4
    <3>1. n # 1
      OBVIOUS
    <3>2. PICK d \in admitted :
            d.occurrence = <<l, n - 1>> /\ d.occurrence = retryOf /\ d.context = c
      BY <1>6, <3>1 DEF LineageKnown
    <3> QED
      BY <1>13, <3>2
  <2> QED
    BY <1>4, <1>7, <1>8, <1>11, <2>1, <2>2, <2>3, <2>4, DecisionAppended
<1>15. AdmittedWhole'
  <2>1. Deciding' = {f}
    BY <1>4, <1>8 DEF Deciding
  <2>2. /\ Decisions(Whole') = Decisions(log) \cup {Len(log) + 1}
        /\ \A i \in Decisions(log) : Whole'[i] = log[i]
        /\ Whole'[Len(log) + 1] = f
        /\ Actions(Whole') = Actions(log)
        /\ \A i \in Actions(log) : Whole'[i] = log[i]
    <3>1. Whole'[Len(log) + 1] = f /\ \A i \in DOMAIN log : Whole'[i] = log[i]
      BY <1>4, <1>7, <1>8, FramesKept
    <3>2. Decisions(Whole') = Decisions(log) \cup {Len(log) + 1} /\ Actions(Whole') = Actions(log)
      BY <1>4, <1>7, <1>8, AppendedDecision
    <3> QED
      BY <3>1, <3>2 DEF Decisions, Actions
  <2>3. {Whole'[i] : i \in Decisions(Whole')} = admitted' \cup Deciding'
    BY <1>6, <1>13, <2>1, <2>2
  <2>4. RecordedIn(Whole') = RecordedIn(Whole) /\ Live' = Live
    BY <1>6, <1>7, <2>2 DEF RecordedIn, Live, Recorded
  <2> QED
    BY <1>6, <1>7, <2>3, <2>4 DEF AdmittedWhole
<1> QED
  BY <1>10, <1>12, <1>14, <1>15 DEF Faultless

LEMMA WriteLineWhole ==
  ASSUME RecorderTypeOK, Sound, RecorderTypeOK', faults = 0, Faultless, WriteLine
  PROVE  Faultless'
<1> DEFINE f == call.frame
<1>1. /\ call.stage = "line" /\ call'.stage = "manifest" /\ call'.frame = f
      /\ f \in Frame /\ log' = Append(log, f) /\ f.kind \in {"decision", "action"}
      /\ UNCHANGED <<open, admitted, handle, started, clock, torn, disk, temporary>>
  BY FrameKinds DEF RecorderTypeOK, WriteLine
<1>2. /\ manifest.status # "finalized" /\ manifest'.frames = manifest.frames + 1
      /\ UNCHANGED <<manifest.status, manifest.operations, manifest.created>>
  BY <1>1 DEF RecorderTypeOK, Manifest, WriteLine, Sound, SealSound
<1>3. Whole = log' /\ Whole' = log' /\ call' # Idle
  BY <1>1 DEF Whole, Idle
<1>4. Len(log') = Len(log) + 1 /\ Len(log) \in Nat
  BY <1>1 DEF RecorderTypeOK
<1>5. /\ \A o \in RecordedIn(Whole) : o \in RecordedIn(Whole')
      /\ \A o \in Live \ Live' : o \in RecordedIn(Whole')
  <2>1. Live \ Live' \subseteq Recorded'
    BY <1>1 DEF Live
  <2> QED
    BY <1>3, <2>1 DEF Recorded
<1>6. CountsExact'
  <2>1. Cardinality(Recorded') =
          Cardinality(Recorded) + (IF f.kind = "action" THEN 1 ELSE 0)
    <3>1. CASE f.kind = "action"
      <4>1. f.occurrence \notin Recorded /\ Recorded' = Recorded \cup {f.occurrence}
        BY <1>1, <3>1, LineView DEF Sound, CallSound
      <4> HIDE DEF f
      <4> QED
        BY <3>1, <4>1, CountsFinite, FS_AddElement
    <3>2. CASE f.kind # "action"
      <4>1. Recorded' = Recorded
        BY <1>1, <3>2, LineView DEF SameView
      <4> HIDE DEF f
      <4> QED
        BY <3>2, <4>1, CountsFinite
    <3> QED
      BY <3>1, <3>2
  <2>2. Cardinality(Live) =
          Cardinality(Live') + (IF UncensoredAction(f) THEN 1 ELSE 0)
    <3>1. CASE UncensoredAction(f)
      <4>1. f.occurrence \in Live /\ Live' = Live \ {f.occurrence}
        BY <1>1, <3>1, LineView, LineCounted DEF UncensoredAction
      <4>2. Cardinality(Live') = Cardinality(Live) - 1
        <5> HIDE DEF f
        <5> QED
          BY <4>1, CountsFinite, FS_RemoveElement
      <4> QED
        BY <3>1, <4>2, CountsFinite
    <3>2. CASE ~UncensoredAction(f)
      <4>1. Live' = Live
        BY <1>1, <3>2, LineView, LineCounted DEF UncensoredAction, SameView
      <4> HIDE DEF f
      <4> QED
        BY <3>2, <4>1, CountsFinite
    <3> QED
      BY <3>1, <3>2
  <2>3. open = Cardinality(Live) /\ Cardinality(Recorded) = manifest.operations
    BY <1>1, CountsFinite DEF Faultless, CountsExact, RecorderTypeOK, Manifest
  <2>4. manifest'.frames = Len(log') /\ ~torn' /\ ~temporary'
    BY <1>1, <1>2, <1>4 DEF Faultless, CountsExact
  <2>5. manifest'.operations = manifest.operations /\ open' = open
    BY <1>1, <1>2
  <2> QED
    BY <1>1, <1>3, <2>1, <2>2, <2>3, <2>4, <2>5 DEF CountsExact
<1>7. LogWhole(Whole')
  BY <1>3 DEF Faultless
<1>8. TimesSound'
  BY <1>1, <1>2, <1>3 DEF Faultless, TimesSound
<1>9. AdmittedWhole'
  <2>1. Deciding' = Deciding
    BY <1>1 DEF Deciding
  <2>2. {Whole'[i] : i \in Decisions(Whole')} = admitted' \cup Deciding'
    BY <1>1, <1>3, <2>1 DEF Faultless, AdmittedWhole
  <2>3. \A d \in admitted' :
          \/ d.occurrence \in RecordedIn(Whole')
          \/ d.occurrence \in Live' /\ d.policy = "allowed"
    BY <1>1, <1>5 DEF Faultless, AdmittedWhole
  <2> QED
    BY <2>2, <2>3 DEF AdmittedWhole
<1> QED
  BY <1>6, <1>7, <1>8, <1>9 DEF Faultless

LEMMA AdmitAllowedWhole ==
  ASSUME RecorderTypeOK, Sound, RecorderTypeOK', faults = 0, Faultless, Admit,
         call.frame.policy = "allowed"
  PROVE  Faultless'
<1> DEFINE f == call.frame
           o == f.occurrence
<1>1. /\ call.stage = "manifest" /\ call' = Idle /\ disk' = manifest
      /\ f \in Frame /\ f.kind = "decision" /\ o \in Occurrence
      /\ admitted' = admitted \cup {f} /\ open' = open + 1
      /\ UNCHANGED <<manifest, started, clock, log, torn, temporary>>
  BY FrameKinds DEF RecorderTypeOK, Admit, WriteManifest
<1>2. /\ handle[o] = "none" /\ started[o] = NoTime
      /\ o \notin Live /\ Live' = Live \cup {o} /\ Recorded' = Recorded
  <2>1. /\ handle[o] = "none" /\ o \notin Live /\ Live' = Live \cup {o}
        /\ Recorded' = Recorded
    BY AdmitView DEF Sound
  <2>2. started[o] = NoTime
    BY <1>1, <2>1 DEF Faultless, TimesSound
  <2> QED
    BY <2>1, <2>2
<1>3. handle'[o] = "open" /\ \A x \in Occurrence \ {o} : handle'[x] = handle[x]
  BY <1>1 DEF RecorderTypeOK, Admit
<1>4. /\ call'.stage = "idle" /\ Whole' = log /\ Deciding' = {}
      /\ Whole = log /\ Deciding = {f}
  <2>1. Whole = log /\ Deciding = {f}
    BY <1>1 DEF Whole, Deciding
  <2>2. call'.stage = "idle" /\ Whole' = log' /\ Deciding' = {}
    BY <1>1 DEF Idle, Whole, Deciding
  <2> QED
    BY <1>1, <2>1, <2>2
<1>5. CountsExact'
  <2>1. Cardinality(Live') = Cardinality(Live) + 1
    <3> HIDE DEF o
    <3> QED BY <1>2, CountsFinite, FS_AddElement
  <2>2. open = Cardinality(Live) /\ Cardinality(Recorded) = manifest.operations
    BY <1>1, CountsFinite DEF Faultless, CountsExact, UncensoredAction, RecorderTypeOK, Manifest
  <2>3. manifest'.frames = Len(log') /\ ~torn' /\ ~temporary' /\ disk' = manifest'
    BY <1>1 DEF Faultless, CountsExact
  <2>4. Cardinality(Live) \in Nat /\ manifest'.operations \in Nat
    BY <1>1, CountsFinite DEF RecorderTypeOK, Manifest
  <2> HIDE DEF f, o
  <2> QED
    BY <1>1, <1>2, <1>4, <2>1, <2>2, <2>3, <2>4 DEF CountsExact
<1>6. LogWhole(Whole')
  BY <1>4 DEF Faultless
<1>7. TimesSound'
  <2>1. \A x \in Occurrence :
          /\ handle'[x] = "dispatched" => started[x] # NoTime
          /\ handle'[x] \in {"none", "censored", "open"} => started[x] = NoTime
    <3> HIDE DEF f, o
    <3> QED
      BY <1>2, <1>3 DEF Faultless, TimesSound
  <2>2. \A x \in admitted' : started[x.occurrence] # NoTime =>
                               x.evaluated <= started[x.occurrence]
    BY <1>1, <1>2 DEF Faultless, TimesSound
  <2> HIDE DEF f, o
  <2> QED
    BY <1>1, <1>4, <2>1, <2>2 DEF Faultless, TimesSound
<1>8. AdmittedWhole'
  <2>1. {Whole'[i] : i \in Decisions(Whole')} = admitted' \cup Deciding'
    BY <1>1, <1>4 DEF Faultless, AdmittedWhole
  <2>2. \A d \in admitted :
          \/ d.occurrence \in RecordedIn(Whole)
          \/ d.occurrence \in Live /\ d.policy = "allowed"
    BY DEF Faultless, AdmittedWhole
  <2>3. \A d \in admitted' :
          \/ d.occurrence \in RecordedIn(Whole')
          \/ d.occurrence \in Live' /\ d.policy = "allowed"
    BY <1>1, <1>2, <1>4, <2>2
  <2> QED
    BY <2>1, <2>3 DEF AdmittedWhole
<1> QED
  BY <1>5, <1>6, <1>7, <1>8 DEF Faultless

LEMMA AdmitCensoredWhole ==
  ASSUME RecorderTypeOK, Sound, RecorderTypeOK', faults = 0, Faultless, Admit,
         call.frame.policy # "allowed"
  PROVE  Faultless'
<1> DEFINE d == call.frame
           o == d.occurrence
<1>1. /\ call.stage = "manifest" /\ d \in Frame /\ d.kind = "decision" /\ d \in Decision
      /\ d.policy \in Policy /\ o \in Occurrence
      /\ admitted' = admitted \cup {d}
      /\ UNCHANGED <<manifest, open, handle, started, log, torn, temporary>>
  BY FrameKinds DEF RecorderTypeOK, Admit, Decision
<1>2. /\ handle[o] = "none" /\ started[o] = NoTime /\ o \notin Recorded
      /\ Live' = Live /\ Recorded' = Recorded
  <2>1. handle[o] = "none" /\ o \notin Recorded /\ Live' = Live /\ Recorded' = Recorded
    BY AdmitView DEF Sound
  <2>2. started[o] = NoTime
    BY <1>1, <2>1 DEF Faultless, TimesSound
  <2> QED
    BY <2>1, <2>2
<1>3. /\ Whole = log /\ Deciding = {d} /\ LogWhole(log) /\ log \in Seq(Frame)
      /\ CountsExact /\ TimesSound /\ AdmittedWhole
  BY <1>1 DEF Whole, Deciding, Faultless, RecorderTypeOK
<1>4. PICK observed \in Reading(clock) :
        /\ clock' = observed
        /\ call' = [stage |-> "line",
                    frame |-> ActionOf(d, manifest.frames, CensorOutcome[d.policy],
                                       NoTime, NoTime, observed)]
  BY DEF Admit
<1> DEFINE f == ActionOf(d, manifest.frames, CensorOutcome[d.policy], NoTime, NoTime, observed)
<1>5. observed \in Time /\ clock <= observed
  BY DEF RecorderTypeOK, Reading
<1>6. CensorOutcome[d.policy] \in Censored
  <2>1. d.policy \in {"policy", "budget", "authority"}
    BY <1>1, VerifierAssumption
  <2>2. /\ CensorOutcome["policy"] = "policy_censored"
        /\ CensorOutcome["budget"] = "budget_censored"
        /\ CensorOutcome["authority"] = "authority_censored"
    BY DEF CensorOutcome
  <2> HIDE DEF d
  <2> QED BY <2>1, <2>2 DEF Censored
<1>7. /\ f \in Action /\ f \in Frame /\ f.kind = "action" /\ f.sequence = manifest.frames
      /\ f.occurrence = o /\ f.outcome = CensorOutcome[d.policy]
      /\ f.context = d.context /\ f.retryOf = d.retryOf /\ f.parent = d.parent
      /\ f.started = NoTime /\ f.ended = NoTime /\ f.observed = observed
  <2>1. f \in Action /\ f.kind = "action"
    <3>1. manifest.frames \in Nat /\ CensorOutcome[d.policy] \in Terminal \cup Censored
      BY <1>6 DEF RecorderTypeOK, Manifest
    <3> QED BY <1>1, <1>5, <3>1 DEF ActionOf, Action, Decision
  <2>2. f \in Frame
    BY <2>1 DEF Frame
  <2> QED
    BY <2>1, <2>2 DEF ActionOf
<1>8. call' = [stage |-> "line", frame |-> f] /\ clock' = f.observed
  BY <1>4, <1>7
<1> HIDE DEF f
<1>9. /\ call'.stage = "line" /\ call'.frame = f /\ call' # Idle
      /\ f.sequence = Len(log) /\ Whole' = Append(log, f)
      /\ manifest'.frames = Len(log') /\ ~torn' /\ ~temporary'
  BY <1>1, <1>3, <1>7, <1>8, LineBegun
<1>10. clock <= clock'
  BY <1>5, <1>7, <1>8
<1>11. CountsExact'
  <2>1. ~UncensoredAction(call.frame)
    BY <1>1 DEF UncensoredAction
  <2> QED
    BY <1>1, <1>2, <1>3, <1>9, <2>1 DEF CountsExact
<1>12. /\ \A i \in DOMAIN Whole' :
            manifest'.created <= Whole'[i].observed /\ Whole'[i].observed <= clock'
       /\ manifest'.created <= clock'
       /\ \A i \in DOMAIN log : log[i].observed <= f.observed
  BY <1>1, <1>3, <1>7, <1>8, <1>9, <1>10, FramesDated
<1>13. TimesSound'
  <2>1. \A x \in Occurrence : started'[x] <= clock'
    BY <1>1, <1>3, <1>10, StartedDated
  <2>2. manifest'.status # "finalized"
    BY <1>1 DEF Sound, SealSound
  <2>3. \A x \in admitted' :
          started'[x.occurrence] # NoTime => x.evaluated <= started'[x.occurrence]
    BY <1>1, <1>2, <1>3 DEF TimesSound
  <2>4. \A x \in Occurrence :
          /\ handle'[x] = "dispatched" => started'[x] # NoTime
          /\ handle'[x] \in {"none", "censored", "open"} => started'[x] = NoTime
    BY <1>1, <1>3 DEF TimesSound
  <2> QED
    BY <1>12, <2>1, <2>2, <2>3, <2>4 DEF TimesSound
<1>14. {log[i] : i \in Decisions(log)} = admitted \cup {d}
  BY <1>3 DEF AdmittedWhole
<1>15. LogWhole(Whole')
  <2>1. PICK i \in Decisions(log) : log[i] = d
    BY <1>14
  <2>2. Agree(log[i], f)
    <3>1. d.policy # "allowed"
      OBVIOUS
    <3> HIDE DEF d
    <3> QED
      BY <1>7, <2>1, <3>1 DEF Agree
  <2>3. DispatchTimely(f)
    BY <1>6, <1>7 DEF DispatchTimely
  <2>4. f.occurrence \notin RecordedIn(log) /\ log[i].occurrence = f.occurrence
    BY <1>2, <1>7, <2>1 DEF Recorded
  <2> HIDE DEF d
  <2> QED
    BY <1>3, <1>7, <1>9, <1>12, <2>2, <2>3, <2>4, ActionAppended
<1>16. AdmittedWhole'
  <2>1. Deciding' = {}
    BY <1>7, <1>9 DEF Deciding
  <2>2. Decisions(Whole') = Decisions(log) /\ \A i \in Decisions(log) : Whole'[i] = log[i]
    <3>1. Decisions(Whole') = Decisions(log)
      BY <1>3, <1>7, <1>9, AppendedAction
    <3>2. \A i \in DOMAIN log : Whole'[i] = log[i]
      BY <1>3, <1>7, <1>9, FramesKept
    <3> QED
      BY <3>1, <3>2 DEF Decisions
  <2>3. {Whole'[i] : i \in Decisions(Whole')} = admitted' \cup Deciding'
    BY <1>1, <1>14, <2>1, <2>2
  <2>4. RecordedIn(Whole') = RecordedIn(Whole) \cup {o}
    <3>1. RecordedIn(Whole') = RecordedIn(log) \cup {f.occurrence}
      BY <1>3, <1>7, <1>9, RecordedGrow
    <3> QED
      BY <1>3, <1>7, <3>1
  <2>5. \A x \in admitted :
          \/ x.occurrence \in RecordedIn(Whole)
          \/ x.occurrence \in Live /\ x.policy = "allowed"
    BY <1>3 DEF AdmittedWhole
  <2>6. \A x \in admitted' :
          \/ x.occurrence \in RecordedIn(Whole')
          \/ x.occurrence \in Live' /\ x.policy = "allowed"
    BY <1>1, <1>2, <2>4, <2>5
  <2> QED
    BY <2>3, <2>6 DEF AdmittedWhole
<1> QED
  BY <1>11, <1>13, <1>15, <1>16 DEF Faultless

LEMMA CountActionWhole ==
  ASSUME RecorderTypeOK, Sound, RecorderTypeOK', faults = 0, Faultless, CountAction
  PROVE  Faultless'
<1>1. /\ call.stage = "manifest" /\ call.frame.kind = "action" /\ call'.stage = "count"
      /\ open' = OpenAfter(call.frame)
      /\ UNCHANGED <<admitted, handle, started, clock, log, torn, temporary>>
  BY DEF RecorderTypeOK, CountAction
<1>2. /\ manifest'.operations = manifest.operations + 1 /\ manifest'.frames = manifest.frames
      /\ manifest'.status = manifest.status /\ manifest'.created = manifest.created
      /\ manifest.status # "finalized" /\ manifest.operations \in Nat
  BY <1>1 DEF RecorderTypeOK, Manifest, CountAction, Sound, SealSound
<1>3. Whole = log /\ Whole' = log /\ Deciding = {} /\ Deciding' = {}
  BY <1>1 DEF Whole, Deciding
<1>4. Live' = Live /\ Recorded' = Recorded
  BY <1>1 DEF Live, Recorded
<1>5. CountsExact'
  <2>1. open' = Cardinality(Live')
    BY <1>1, <1>4, CountsFinite DEF Faultless, CountsExact, OpenAfter, UncensoredAction
  <2>2. Cardinality(Recorded') = manifest'.operations
    BY <1>1, <1>2, <1>4 DEF Faultless, CountsExact
  <2>3. manifest'.frames = Len(log') /\ ~torn' /\ ~temporary'
    BY <1>1, <1>2, <1>3 DEF Faultless, CountsExact
  <2>4. Cardinality(Live') \in Nat /\ manifest'.operations \in Nat /\ call' # Idle
    BY <1>1, <1>2, <1>4, CountsFinite DEF Idle
  <2> QED
    BY <1>1, <2>1, <2>2, <2>3, <2>4 DEF CountsExact
<1>6. LogWhole(Whole')
  BY <1>3 DEF Faultless
<1>7. TimesSound'
  BY <1>1, <1>2, <1>3 DEF Faultless, TimesSound
<1>8. AdmittedWhole'
  BY <1>1, <1>3, <1>4 DEF Faultless, AdmittedWhole
<1> QED
  BY <1>5, <1>6, <1>7, <1>8 DEF Faultless

LEMMA WriteCountWhole ==
  ASSUME RecorderTypeOK, Sound, RecorderTypeOK', faults = 0, Faultless, WriteCount
  PROVE  Faultless'
<1> DEFINE o == call.frame.occurrence
<1>1. /\ call.stage = "count" /\ call' = Idle /\ disk' = manifest
      /\ UNCHANGED <<manifest, open, admitted, started, clock, log, torn, temporary>>
  BY DEF WriteCount, WriteManifest
<1>2. \A x \in Occurrence :
        \/ handle'[x] = handle[x]
        \/ handle[x] = "none" /\ handle'[x] = "censored"
  <2>1. /\ o \in Occurrence
        /\ \A x \in Occurrence \ {o} : handle'[x] = handle[x]
        /\ handle[o] = IF call.frame.outcome \in Censored THEN "none" ELSE "closed"
        /\ handle'[o] = IF call.frame.outcome \in Censored THEN "censored" ELSE "closed"
    BY WriteCountView DEF Sound
  <2> HIDE DEF o
  <2> QED
    BY <2>1
<1>3. /\ Whole = log /\ Whole' = log' /\ Deciding = {} /\ Deciding' = {}
      /\ call'.stage = "idle"
  BY <1>1 DEF Whole, Deciding, Idle
<1>4. Live' = Live /\ Recorded' = Recorded
  BY WriteCountView DEF Sound, SameView
<1> HIDE DEF o
<1>5. CountsExact'
  BY <1>1, <1>3, <1>4 DEF Faultless, CountsExact
<1>6. LogWhole(Whole')
  BY <1>1, <1>3 DEF Faultless
<1>7. TimesSound'
  <2>1. \A x \in Occurrence :
          /\ handle'[x] = "dispatched" => started[x] # NoTime
          /\ handle'[x] \in {"none", "censored", "open"} => started[x] = NoTime
    BY <1>2 DEF Faultless, TimesSound
  <2> QED
    BY <1>1, <1>3, <2>1 DEF Faultless, TimesSound
<1>8. AdmittedWhole'
  BY <1>1, <1>3, <1>4 DEF Faultless, AdmittedWhole
<1> QED
  BY <1>5, <1>6, <1>7, <1>8 DEF Faultless

LEMMA MarkDispatchedWhole ==
  ASSUME RecorderTypeOK, Sound, RecorderTypeOK', faults = 0, Faultless,
         NEW o \in Occurrence, MarkDispatched(o)
  PROVE  Faultless'
<1>1. /\ call = Idle /\ handle[o] = "open" /\ handle'[o] = "dispatched"
      /\ \A x \in Occurrence \ {o} : handle'[x] = handle[x] /\ started'[x] = started[x]
      /\ UNCHANGED <<manifest, open, admitted, call, log, torn, disk, temporary>>
  BY DEF RecorderTypeOK, MarkDispatched, fileVars
<1>2. started'[o] = clock' /\ clock' \in Time /\ clock <= clock'
  <2>1. PICK t \in Reading(clock) : clock' = t /\ started' = [started EXCEPT ![o] = t]
    BY DEF MarkDispatched
  <2> QED
    BY <2>1, ReadingTyped DEF RecorderTypeOK, Reading
<1>3. clock \in Nat /\ clock' \in Nat /\ Time \cup {NoTime} \subseteq Int
  BY TimeIsNatural DEF RecorderTypeOK, NoTime
<1>4. /\ Whole = log /\ Whole' = log' /\ Deciding = {} /\ Deciding' = {}
      /\ call.stage = "idle"
  BY <1>1, IdleCall DEF Whole, Deciding
<1>5. Live' = Live /\ Recorded' = Recorded
  BY <1>1, HandleView DEF SameView, MarkDispatched
<1>6. CountsExact'
  BY <1>1, <1>4, <1>5 DEF Faultless, CountsExact
<1>7. LogWhole(Whole')
  BY <1>1, <1>4 DEF Faultless
<1>8. TimesSound'
  <2>1. /\ \A i \in DOMAIN Whole' :
             manifest'.created <= Whole'[i].observed /\ Whole'[i].observed <= clock'
        /\ manifest'.created <= clock'
    BY <1>1, <1>2, <1>4, ClockDated DEF Faultless
  <2>2. \A x \in Occurrence : started'[x] <= clock'
    <3>1. \A x \in Occurrence : started[x] \in Int /\ started[x] <= clock
      BY <1>3 DEF RecorderTypeOK, Faultless, TimesSound
    <3> QED
      BY <1>1, <1>2, <1>3, <3>1
  <2>3. \A x \in Occurrence :
          /\ handle'[x] = "dispatched" => started'[x] # NoTime
          /\ handle'[x] \in {"none", "censored", "open"} => started'[x] = NoTime
    BY <1>1, <1>2, TimeIsNatural DEF Faultless, TimesSound
  <2>4. ASSUME NEW d \in admitted', started'[d.occurrence] # NoTime
        PROVE  d.evaluated <= started'[d.occurrence]
    <3>1. d \in admitted /\ d.occurrence \in Occurrence /\ d.evaluated \in Nat
      BY <1>1, TimeIsNatural DEF RecorderTypeOK, Decision
    <3>2. CASE d.occurrence = o
      <4>1. d.evaluated <= clock
        BY <3>1, DecidedIsWhole
      <4> QED
        BY <1>2, <1>3, <3>1, <3>2, <4>1
    <3>3. CASE d.occurrence # o
      BY <1>1, <2>4, <3>1, <3>3 DEF Faultless, TimesSound
    <3> QED BY <3>2, <3>3
  <2>5. manifest'.status = "finalized" =>
          /\ manifest'.operations # 0
          /\ \A i \in DOMAIN log' : log'[i].observed <= manifest'.finalized
    BY <1>1 DEF Faultless, TimesSound
  <2> QED
    BY <2>1, <2>2, <2>3, <2>4, <2>5 DEF TimesSound
<1>9. AdmittedWhole'
  BY <1>1, <1>4, <1>5 DEF Faultless, AdmittedWhole
<1> QED
  BY <1>6, <1>7, <1>8, <1>9 DEF Faultless

LEMMA CloseWhole ==
  ASSUME RecorderTypeOK, Sound, RecorderTypeOK', faults = 0, Faultless,
         NEW o \in Occurrence, NEW outcome \in Terminal, Close(o, outcome)
  PROVE  Faultless'
<1>1. /\ call = Idle /\ handle[o] = "dispatched" /\ handle'[o] = "closed"
      /\ \A x \in Occurrence \ {o} : handle'[x] = handle[x]
      /\ UNCHANGED <<manifest, open, admitted, started, log, torn, disk, temporary>>
  BY DEF RecorderTypeOK, Close, fileVars
<1>2. /\ Whole = log /\ Deciding = {} /\ call.stage = "idle" /\ LogWhole(log)
      /\ CountsExact /\ TimesSound /\ AdmittedWhole /\ log \in Seq(Frame)
  BY <1>1, IdleCall DEF Faultless, RecorderTypeOK
<1>3. PICK d \in admitted, ended \in Reading(clock) : \E observed \in Reading(ended) :
        /\ d.occurrence = o
        /\ clock' = observed
        /\ call' = [stage |-> "line",
                    frame |-> ActionOf(d, manifest.frames, outcome, started[o], ended, observed)]
  BY DEF Close
<1>4. PICK observed \in Reading(ended) :
        /\ d.occurrence = o
        /\ clock' = observed
        /\ call' = [stage |-> "line",
                    frame |-> ActionOf(d, manifest.frames, outcome, started[o], ended, observed)]
  BY <1>3
<1> DEFINE f == ActionOf(d, manifest.frames, outcome, started[o], ended, observed)
<1>5. /\ d \in Decision /\ d.occurrence = o
      /\ ended \in Time /\ observed \in Time /\ clock <= ended /\ ended <= observed
  BY <1>4 DEF RecorderTypeOK, Reading
<1>6. /\ clock \in Nat /\ ended \in Nat /\ observed \in Nat /\ clock <= observed
      /\ started[o] \in Int /\ started[o] <= clock /\ started[o] # NoTime
  <2>1. clock \in Nat /\ ended \in Nat /\ observed \in Nat /\ Time \cup {NoTime} \subseteq Int
    BY <1>5, TimeIsNatural DEF RecorderTypeOK, NoTime
  <2>2. started[o] \in Int /\ started[o] <= clock /\ started[o] # NoTime
    BY <1>1, <1>2, <2>1 DEF RecorderTypeOK, TimesSound
  <2> QED
    BY <1>5, <2>1, <2>2
<1>7. /\ f \in Action /\ f \in Frame /\ f.kind = "action" /\ f.sequence = manifest.frames
      /\ f.occurrence = o /\ f.outcome = outcome
      /\ f.context = d.context /\ f.retryOf = d.retryOf /\ f.parent = d.parent
      /\ f.started = started[o] /\ f.ended = ended /\ f.observed = observed
  <2>1. manifest.frames \in Nat /\ started[o] \in Time \cup {NoTime}
    BY DEF RecorderTypeOK, Manifest
  <2>2. f \in Action
    BY <1>5, <2>1 DEF ActionOf, Action, Decision
  <2>3. f \in Frame
    BY <2>2 DEF Frame
  <2> QED
    BY <1>5, <2>2, <2>3 DEF ActionOf
<1>8. outcome \notin Censored
  BY DEF Terminal, Censored
<1>9. DispatchTimely(f)
  <2>1. started[o] <= ended
    BY <1>5, <1>6
  <2> HIDE DEF f
  <2> QED
    BY <1>5, <1>6, <1>7, <1>8, <2>1 DEF DispatchTimely
<1>10. call' = [stage |-> "line", frame |-> f] /\ clock' = f.observed
  BY <1>4, <1>7
<1> HIDE DEF f
<1>11. Live' = Live /\ Recorded' = Recorded /\ o \in Live /\ o \notin Recorded
  <2>1. Live' = Live /\ Recorded' = Recorded
    BY <1>1, HandleView DEF SameView, Close
  <2>2. o \in Live /\ o \notin Recorded
    BY <1>1 DEF Sound, HandlesSound, Live
  <2> QED
    BY <2>1, <2>2
<1>12. /\ call'.stage = "line" /\ call'.frame = f /\ call' # Idle
       /\ f.sequence = Len(log) /\ Whole' = Append(log, f)
       /\ manifest'.frames = Len(log') /\ ~torn' /\ ~temporary'
  BY <1>1, <1>2, <1>7, <1>10, LineBegun
<1>13. CountsExact'
  BY <1>1, <1>2, <1>11, <1>12 DEF CountsExact
<1>14. clock <= clock'
  BY <1>6, <1>7, <1>10
<1>15. /\ \A i \in DOMAIN Whole' :
            manifest'.created <= Whole'[i].observed /\ Whole'[i].observed <= clock'
       /\ manifest'.created <= clock'
       /\ \A i \in DOMAIN log : log[i].observed <= f.observed
  BY <1>1, <1>2, <1>7, <1>10, <1>12, <1>14, FramesDated
<1>16. TimesSound'
  <2>1. \A x \in Occurrence : started'[x] <= clock'
    BY <1>1, <1>2, <1>14, StartedDated
  <2>2. manifest'.status # "finalized"
    BY <1>1, <1>11 DEF Sound, SealSound
  <2>3. \A x \in Occurrence :
          /\ handle'[x] = "dispatched" => started'[x] # NoTime
          /\ handle'[x] \in {"none", "censored", "open"} => started'[x] = NoTime
    BY <1>1, <1>2 DEF TimesSound
  <2> QED
    BY <1>1, <1>2, <1>15, <2>1, <2>2, <2>3 DEF TimesSound
<1>17. {log[i] : i \in Decisions(log)} = admitted
  BY <1>2 DEF AdmittedWhole
<1>18. f.occurrence \notin RecordedIn(log)
  BY <1>7, <1>11 DEF Recorded
<1>19. LogWhole(Whole')
  <2>1. PICK i \in Decisions(log) : log[i] = d
    BY <1>17
  <2>2. d.policy = "allowed"
    BY <1>2, <1>5, <1>7, <1>18 DEF AdmittedWhole
  <2>3. d.evaluated <= f.started
    BY <1>2, <1>5, <1>6, <1>7 DEF TimesSound
  <2>4. Agree(log[i], f)
    BY <1>7, <1>8, <2>1, <2>2, <2>3 DEF Agree
  <2>5. log[i].occurrence = f.occurrence
    BY <1>5, <1>7, <2>1
  <2> QED
    BY <1>2, <1>7, <1>9, <1>12, <1>15, <1>18, <2>4, <2>5, ActionAppended
<1>20. AdmittedWhole'
  <2>1. Deciding' = {}
    BY <1>7, <1>12 DEF Deciding
  <2>2. Decisions(Whole') = Decisions(log) /\ \A i \in Decisions(log) : Whole'[i] = log[i]
    <3>1. Decisions(Whole') = Decisions(log)
      BY <1>2, <1>7, <1>12, AppendedAction
    <3>2. \A i \in DOMAIN log : Whole'[i] = log[i]
      BY <1>2, <1>7, <1>12, FramesKept
    <3> QED
      BY <3>1, <3>2 DEF Decisions
  <2>3. {Whole'[i] : i \in Decisions(Whole')} = admitted' \cup Deciding'
    BY <1>1, <1>17, <2>1, <2>2
  <2>4. RecordedIn(Whole') = RecordedIn(Whole) \cup {o}
    <3>1. RecordedIn(Whole') = RecordedIn(log) \cup {f.occurrence}
      BY <1>2, <1>7, <1>12, RecordedGrow
    <3> QED
      BY <1>2, <1>7, <3>1
  <2>5. \A x \in admitted' :
          \/ x.occurrence \in RecordedIn(Whole')
          \/ x.occurrence \in Live' /\ x.policy = "allowed"
    BY <1>1, <1>2, <1>11, <2>4 DEF AdmittedWhole
  <2> QED
    BY <2>3, <2>5 DEF AdmittedWhole
<1> QED
  BY <1>13, <1>16, <1>19, <1>20 DEF Faultless

\* A refused output: nothing is written, and the operation stays live for good.
LEMMA CloseRaisesWhole ==
  ASSUME RecorderTypeOK, Sound, RecorderTypeOK', faults = 0, Faultless,
         NEW o \in Occurrence, CloseRaises(o)
  PROVE  Faultless'
<1>1. /\ call = Idle /\ handle[o] = "dispatched" /\ handle'[o] = "closed"
      /\ \A x \in Occurrence \ {o} : handle'[x] = handle[x]
      /\ UNCHANGED <<manifest, open, admitted, started, call, log, torn, disk, temporary>>
      /\ clock <= clock'
  BY DEF RecorderTypeOK, CloseRaises, fileVars, Reading
<1>2. /\ Whole = log /\ Whole' = log' /\ Deciding = {} /\ Deciding' = {}
      /\ call.stage = "idle"
  BY <1>1, IdleCall DEF Whole, Deciding
<1>3. Live' = Live /\ Recorded' = Recorded
  BY <1>1, HandleView DEF SameView, CloseRaises
<1>4. CountsExact'
  BY <1>1, <1>2, <1>3 DEF Faultless, CountsExact
<1>5. LogWhole(Whole')
  BY <1>1, <1>2 DEF Faultless
<1>6. TimesSound'
  <2>1. TimesSound
    BY DEF Faultless
  <2>2. /\ \A i \in DOMAIN Whole' :
             manifest'.created <= Whole'[i].observed /\ Whole'[i].observed <= clock'
        /\ manifest'.created <= clock'
    BY <1>1, <1>2, <2>1, ClockDated
  <2>3. \A x \in Occurrence : started'[x] <= clock'
    BY <1>1, <2>1, StartedDated
  <2>4. \A x \in Occurrence :
          /\ handle'[x] = "dispatched" => started'[x] # NoTime
          /\ handle'[x] \in {"none", "censored", "open"} => started'[x] = NoTime
    BY <1>1, <2>1 DEF TimesSound
  <2> QED
    BY <1>1, <2>1, <2>2, <2>3, <2>4 DEF TimesSound
<1>7. AdmittedWhole'
  BY <1>1, <1>2, <1>3 DEF Faultless, AdmittedWhole
<1> QED
  BY <1>4, <1>5, <1>6, <1>7 DEF Faultless

LEMMA FinalizeWhole ==
  ASSUME RecorderTypeOK, Sound, RecorderTypeOK', faults = 0, Faultless, Finalize
  PROVE  Faultless'
<1>1. /\ call = Idle /\ call' = [stage |-> "final", frame |-> None]
      /\ manifest.operations # 0
      /\ UNCHANGED <<open, admitted, handle, started, log, torn, disk, temporary>>
  BY DEF Finalize, fileVars
<1>2. PICK t \in Reading(clock) :
        /\ clock' = t
        /\ manifest' = [manifest EXCEPT !.status = "finalized", !.finalized = t]
  BY DEF Finalize
<1>3. /\ manifest'.created = manifest.created /\ manifest'.frames = manifest.frames
      /\ manifest'.operations = manifest.operations /\ manifest'.finalized = clock'
  BY <1>2 DEF RecorderTypeOK, Manifest
<1>4. clock <= clock'
  BY <1>2 DEF Reading
<1>5. /\ Whole = log /\ Whole' = log' /\ Deciding = {} /\ Deciding' = {}
      /\ call.stage = "idle" /\ call'.stage = "final" /\ call' # Idle
  BY <1>1, IdleCall DEF Whole, Deciding, Idle
<1>6. Live' = Live /\ Recorded' = Recorded
  BY <1>1 DEF Live, Recorded
<1>7. CountsExact'
  BY <1>1, <1>3, <1>5, <1>6 DEF Faultless, CountsExact
<1>8. LogWhole(Whole')
  BY <1>1, <1>5 DEF Faultless
<1>9. TimesSound'
  <2>1. TimesSound
    BY DEF Faultless
  <2>2. /\ \A i \in DOMAIN Whole' :
             manifest'.created <= Whole'[i].observed /\ Whole'[i].observed <= clock'
        /\ manifest'.created <= clock'
    BY <1>1, <1>3, <1>4, <1>5, <2>1, ClockDated
  <2>3. \A x \in Occurrence : started'[x] <= clock'
    BY <1>1, <1>4, <2>1, StartedDated
  <2>4. \A i \in DOMAIN log' : log'[i].observed <= manifest'.finalized
    BY <1>3, <1>5, <2>2
  <2> QED
    BY <1>1, <1>3, <2>1, <2>2, <2>3, <2>4 DEF TimesSound
<1>10. AdmittedWhole'
  BY <1>1, <1>5, <1>6 DEF Faultless, AdmittedWhole
<1> QED
  BY <1>7, <1>8, <1>9, <1>10 DEF Faultless

LEMMA WriteFinalWhole ==
  ASSUME Faultless, WriteFinal
  PROVE  Faultless'
<1>1. /\ call.stage = "final" /\ call' = Idle /\ disk' = manifest
      /\ UNCHANGED <<manifest, open, admitted, handle, started, clock, log, torn, temporary>>
  BY DEF WriteFinal, WriteManifest
<1>2. /\ Whole = log /\ Whole' = log' /\ Deciding = {} /\ Deciding' = {}
      /\ call'.stage = "idle"
  BY <1>1 DEF Whole, Deciding, Idle
<1>3. Live' = Live /\ Recorded' = Recorded
  BY <1>1 DEF Live, Recorded
<1>4. CountsExact'
  BY <1>1, <1>2, <1>3 DEF Faultless, CountsExact
<1>5. LogWhole(Whole') /\ TimesSound'
  BY <1>1, <1>2 DEF Faultless, TimesSound
<1>6. AdmittedWhole'
  BY <1>1, <1>2, <1>3 DEF Faultless, AdmittedWhole
<1> QED
  BY <1>4, <1>5, <1>6 DEF Faultless

LEMMA StutterWhole == ASSUME Faultless, UNCHANGED recorderVars PROVE Faultless'
<1>1. UNCHANGED <<manifest, open, admitted, handle, started, call, clock,
                  log, torn, disk, temporary>>
  BY DEF recorderVars, fileVars
<1>2. Whole' = Whole /\ Deciding' = Deciding /\ Live' = Live /\ Recorded' = Recorded
  BY <1>1 DEF Whole, Deciding, Live, Recorded
<1>3. CountsExact'
  BY <1>1, <1>2 DEF Faultless, CountsExact
<1>4. LogWhole(Whole') /\ TimesSound'
  BY <1>1, <1>2 DEF Faultless, TimesSound
<1>5. AdmittedWhole'
  BY <1>1, <1>2 DEF Faultless, AdmittedWhole
<1> QED
  BY <1>3, <1>4, <1>5 DEF Faultless

LEMMA RecordWhole ==
  ASSUME RecorderTypeOK, Sound, RecorderTypeOK', faults = 0, Faultless, Record
  PROVE  Faultless'
<1>1. CASE WriteLine
  BY <1>1, WriteLineWhole
<1>2. CASE Admit
  BY <1>2, AdmitAllowedWhole, AdmitCensoredWhole
<1>3. CASE CountAction
  BY <1>3, CountActionWhole
<1>4. CASE WriteCount
  BY <1>4, WriteCountWhole
<1>5. CASE WriteFinal
  BY <1>5, WriteFinalWhole
<1> QED
  BY <1>1, <1>2, <1>3, <1>4, <1>5 DEF Record

LEMMA ApplicationWhole ==
  ASSUME RecorderTypeOK, Sound, RecorderTypeOK', faults = 0, Faultless, Application
  PROVE  Faultless'
<1>1. ASSUME NEW l \in Logical \ Run, NEW n \in Attempt, NEW c \in Context,
             NEW retryOf \in Occurrence \cup {None}, NEW parent \in Known \cup {None},
             NEW policy \in Policy, Begin(l, n, c, retryOf, parent, policy)
      PROVE  Faultless'
  <2>1. parent \in Occurrence \cup {None} /\ l \in Logical
    BY DEF RecorderTypeOK, Known, Decision
  <2> QED
    BY <1>1, <2>1, BeginWhole
<1>2. ASSUME NEW o \in (Logical \ Run) \X Attempt,
             MarkDispatched(o) \/ (\E outcome \in Terminal : Close(o, outcome)) \/ CloseRaises(o)
      PROVE  Faultless'
  <2>1. o \in Occurrence
    BY DEF Occurrence
  <2> QED
    BY <1>2, <2>1, MarkDispatchedWhole, CloseWhole, CloseRaisesWhole
<1>3. CASE Finalize
  BY <1>3, FinalizeWhole
<1> QED
  BY <1>1, <1>2, <1>3 DEF Application

\* A step that follows a fault, or is one, has nothing to keep.
LEMMA StepWhole ==
  ASSUME IInv, IInv', WholeInv, [Next]_vars
  PROVE  WholeInv'
<1>1. RecorderTypeOK /\ Sound /\ RecorderTypeOK'
  BY DEF IInv, TypeOK
<1>2. SUFFICES ASSUME faults' = 0 PROVE Faultless'
  BY DEF WholeInv
<1>3. CASE UNCHANGED recorderVars
  BY <1>2, <1>3, StutterWhole DEF WholeInv, recorderVars
<1>4. ASSUME NEW r \in Run, NEW c \in Context, NEW parent \in (Run \ {r}) \cup {None},
             NEW policy \in Policy, OnStart(r, c, parent, policy)
      PROVE  Faultless'
  <2> DEFINE p == IF parent \in occurrences THEN Of(parent) ELSE None
  <2>1. Begin(r, 1, c, None, p, policy)
    BY <1>4 DEF OnStart
  <2>2. p \in Occurrence \cup {None} /\ r \in Logical /\ 1 \in Attempt
    <3>1. 1 \in Attempt
      BY CallbackAssumption, VerifierAssumption DEF Attempt
    <3>2. occurrences \subseteq Run
      BY DEF IInv, TypeOK
    <3> QED
      BY <3>1, <3>2, RunsAreNamed
  <2>3. faults = 0
    BY <1>2, <2>1 DEF Begin
  <2> HIDE DEF p
  <2> QED
    BY <1>1, <2>1, <2>2, <2>3, BeginWhole DEF WholeInv
<1>5. ASSUME NEW r \in Run, Remember(r)
      PROVE  Faultless'
  <2>1. CASE MarkDispatched(Of(r))
    <3>1. faults = 0
      BY <1>2, <2>1 DEF MarkDispatched
    <3> QED
      BY <1>1, <2>1, <3>1, RunsAreNamed, MarkDispatchedWhole DEF WholeInv
  <2> QED
    BY <1>3, <1>5, <2>1 DEF Remember
<1>6. ASSUME NEW r \in Run, Settle(r)
      PROVE  Faultless'
  <2>1. Close(Of(r), told[r]) /\ told[r] \in Terminal
    BY <1>6 DEF Settle, Told, Terminal, IInv, CallbackSound
  <2>2. faults = 0
    BY <1>2, <2>1 DEF Close
  <2> QED
    BY <1>1, <2>1, <2>2, RunsAreNamed, CloseWhole DEF WholeInv
<1>7. ASSUME NEW r \in Run, NEW how,
             StartRaises(r) \/ Take(r, how) \/ EndRaises(r)
      PROVE  Faultless'
  BY <1>3, <1>7 DEF StartRaises, Take, EndRaises
<1>8. CASE Raises
  <2>1. CASE HostFails
    BY <1>1, <1>2, <2>1 DEF RecorderTypeOK, HostFails
  <2>2. CASE TemporaryExists
    BY <1>2, <2>2 DEF TemporaryExists, WholeInv, Faultless, CountsExact
  <2> QED
    BY <1>8, <2>1, <2>2 DEF Raises
<1>9. CASE Record
  <2>1. faults' = faults
    BY <1>9 DEF Record, WriteLine, Admit, CountAction, WriteCount, WriteFinal
  <2> QED
    BY <1>1, <1>2, <1>9, <2>1, RecordWhole DEF WholeInv
<1>10. CASE Application
  <2>1. faults' = faults
    BY <1>10 DEF Application, Begin, MarkDispatched, Close, CloseRaises, Finalize
  <2> QED
    BY <1>1, <1>2, <1>10, <2>1, ApplicationWhole DEF WholeInv
<1>11. CASE UNCHANGED vars
  BY <1>3, <1>11 DEF vars
<1> QED
  BY <1>4, <1>5, <1>6, <1>7, <1>8, <1>9, <1>10, <1>11 DEF Next

THEOREM WholeInvariance == Spec => []WholeInv
<1>1. Init => WholeInv
  BY InitWhole DEF Init, WholeInv
<1>2. IInv /\ IInv' /\ WholeInv /\ [Next]_vars => WholeInv'
  BY StepWhole
<1> QED
  BY <1>1, <1>2, Invariance, PTL DEF Spec

\* What the verifier says of a log that is whole and owes nothing.
LEMMA WholeVerifies ==
  ASSUME RecorderTypeOK, Sound, Faultless, disk.status = "finalized",
         \A i \in Actions(log) : log[i].outcome # "identity_mismatch"
  PROVE  Verifies
<1>1. manifest.status = "finalized" /\ Live = {} /\ call.stage = "idle" /\ call.frame = None
  BY DEF Sound, SealSound, CallSound
<1>2. call = Idle
  BY <1>1 DEF RecorderTypeOK, Idle
<1>3. /\ CountsExact /\ LogWhole(log) /\ TimesSound /\ AdmittedWhole
      /\ Whole = log /\ Deciding = {} /\ log \in Seq(Frame) /\ ~torn /\ disk = manifest
  BY <1>2, IdleCall DEF Faultless, RecorderTypeOK, CountsExact
<1>4. Cardinality(Recorded) = manifest.operations /\ manifest.operations # 0
  BY <1>1, <1>3 DEF CountsExact, TimesSound, RecorderTypeOK, Manifest
<1>5. log # <<>>
  <2>1. Recorded # {}
    BY <1>4, FS_EmptySet
  <2> QED
    BY <2>1 DEF Recorded, RecordedIn, Actions
<1>6. ManifestSound(log, disk)
  <2>1. Len(log) \in Nat /\ Len(log) # 0 /\ DOMAIN log = 1 .. Len(log)
    BY <1>3, <1>5
  <2>2. 1 \in DOMAIN log /\ Len(log) \in DOMAIN log
    BY <2>1
  <2>3. disk.created <= log[1].observed /\ log[Len(log)].observed <= disk.finalized
    BY <1>1, <1>3, <2>2 DEF TimesSound
  <2>4. disk.frames = Len(log) /\ disk.operations = Cardinality(RecordedIn(log))
    BY <1>3, <1>4 DEF CountsExact, Recorded
  <2> QED
    BY <1>5, <2>3, <2>4 DEF ManifestSound
<1>7. \A i, j \in DOMAIN log :
        log[i].kind = log[j].kind /\ log[i].occurrence = log[j].occurrence => i = j
  BY <1>3 DEF LogWhole
<1>8. \A j \in Actions(log) : \E i \in Decisions(log) :
        i < j /\ log[i].occurrence = log[j].occurrence /\ Agree(log[i], log[j])
  BY <1>3 DEF LogWhole
<1>9. ASSUME NEW i \in Decisions(log)
      PROVE  \E j \in Actions(log) :
               log[j].occurrence = log[i].occurrence /\ PairSound(log, i, j)
  <2>1. log[i] \in admitted
    BY <1>3 DEF AdmittedWhole
  <2>2. log[i].occurrence \in RecordedIn(log)
    BY <1>1, <1>3, <2>1 DEF AdmittedWhole
  <2>3. PICK j \in Actions(log) : log[j].occurrence = log[i].occurrence
    BY <2>2 DEF RecordedIn
  <2>4. PICK k \in Decisions(log) :
          k < j /\ log[k].occurrence = log[j].occurrence /\ Agree(log[k], log[j])
    BY <1>8
  <2>5. k = i
    BY <1>7, <2>3, <2>4 DEF Decisions
  <2>6. PairSound(log, i, j)
    BY <2>4, <2>5 DEF PairSound, Agree
  <2> QED
    BY <2>3, <2>6
<1>10. RecordedIn(log) \subseteq {log[i].occurrence : i \in Decisions(log)}
  BY <1>8 DEF RecordedIn
<1>11. PairsSound(log)
  BY <1>7, <1>9, <1>10 DEF PairsSound
<1> QED
  BY <1>3, <1>6, <1>11 DEF Verifies, BundleVerifies, LogWhole

(***************************************************************************)
(* Completeness of the verdict over any callbacks and application: when    *)
(* the host works and no output was refused, between calls the open count  *)
(* is that of the operations still open, so nothing but them keeps the     *)
(* recorder from being finalized, and what is then sealed passes every     *)
(* check of the verifier, unless an identity mismatch is in it.            *)
(***************************************************************************)
THEOREM GoodSessionsVerify == Spec => []GoodSessionVerifies
<1>1. IInv /\ WholeInv => GoodSessionVerifies
  <2> SUFFICES ASSUME IInv, WholeInv, faults = 0, call = Idle,
                      \A o \in Occurrence : ~Lost(o)
               PROVE  /\ open = Cardinality({o \in Occurrence :
                                               handle[o] \in {"open", "dispatched"}})
                      /\ disk.status = "finalized"
                           /\ (\A i \in Actions(log) : log[i].outcome # "identity_mismatch")
                         => Verifies
    BY DEF GoodSessionVerifies
  <2>1. RecorderTypeOK /\ Sound /\ Faultless
    BY DEF IInv, TypeOK, WholeInv
  <2>2. Live = {o \in Occurrence : handle[o] \in {"open", "dispatched"}}
    <3>1. \A o \in Occurrence : handle[o] = "closed" => o \in Recorded
      BY DEF Lost
    <3>2. \A o \in Occurrence : handle[o] \in {"open", "dispatched"} => o \notin Recorded
      BY <2>1 DEF Sound, HandlesSound
    <3> QED
      BY <2>1, <3>1, <3>2 DEF Live, RecorderTypeOK
  <2>3. open = Cardinality(Live)
    BY <2>1, IdleCall, CountsFinite DEF Faultless, CountsExact
  <2> QED
    BY <2>1, <2>2, <2>3, WholeVerifies
<1> QED
  BY <1>1, Invariance, WholeInvariance, PTL
=============================================================================
