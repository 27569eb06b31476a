------------------------- MODULE SdkRecorderProofs -------------------------
(***************************************************************************)
(* Proofs about the SDK recorder, for any application, any number of       *)
(* attempts and of failed writes, and any behaviour of the wall clock:     *)
(* the invariants of SdkRecorder, the soundness, the permanence and the    *)
(* completeness of the verdict, that the recorder implements the evidence  *)
(* ledger, that the readers of SdkReader see one bundle, and that the      *)
(* actor graph of that bundle is the application's.                        *)
(***************************************************************************)
EXTENDS SdkReader, FiniteSetTheorems, TLAPS

(***************************************************************************)
(* Occurrences are finite in number, so the live ones can be counted.      *)
(***************************************************************************)
LEMMA LiveFinite ==
  /\ IsFiniteSet(Occurrence)
  /\ IsFiniteSet(Live)
  /\ Live \subseteq Occurrence
<1>1. IsFiniteSet(Attempt)
  BY FS_Interval, VerifierAssumption DEF Attempt
<1>2. IsFiniteSet(Occurrence)
  BY <1>1, FS_Product, VerifierAssumption DEF Occurrence
<1> QED
  BY <1>2, FS_Subset DEF Live

(***************************************************************************)
(* Appending a frame records its occurrence exactly if it is an action.    *)
(***************************************************************************)
LEMMA RecordedAppend ==
  ASSUME NEW l \in Seq(Frame), NEW f \in Frame
  PROVE  RecordedIn(Append(l, f)) =
           RecordedIn(l) \cup (IF f.kind = "action" THEN {f.occurrence} ELSE {})
<1> DEFINE m == Append(l, f)
<1>1. /\ DOMAIN l = 1 .. Len(l) /\ Len(l) \in Nat
      /\ DOMAIN m = 1 .. (Len(l) + 1)
      /\ \A i \in 1 .. Len(l) : m[i] = l[i]
      /\ m[Len(l) + 1] = f
  OBVIOUS
<1>2. Actions(m) = Actions(l) \cup (IF f.kind = "action" THEN {Len(l) + 1} ELSE {})
  <2> HIDE DEF m
  <2> QED BY <1>1 DEF Actions
<1> HIDE DEF m
<1>3. \A i \in Actions(l) : m[i] = l[i]
  BY <1>1 DEF Actions
<1>4. RecordedIn(m) \subseteq
        RecordedIn(l) \cup (IF f.kind = "action" THEN {f.occurrence} ELSE {})
  BY <1>1, <1>2, <1>3 DEF RecordedIn
<1>5. RecordedIn(l) \subseteq RecordedIn(m)
  BY <1>2, <1>3 DEF RecordedIn
<1>6. f.kind = "action" => f.occurrence \in RecordedIn(m)
  BY <1>1, <1>2 DEF RecordedIn
<1> QED
  BY <1>4, <1>5, <1>6 DEF m

(***************************************************************************)
(* The frames that reach the log are well formed.                          *)
(***************************************************************************)
LEMMA ActionOfTyped ==
  ASSUME NEW d \in Decision, NEW n \in Nat, NEW outcome \in Terminal \cup Censored,
         NEW s \in Time \cup {NoTime}, NEW e \in Time \cup {NoTime}, NEW t \in Time
  PROVE  /\ ActionOf(d, n, outcome, s, e, t) \in Action
         /\ ActionOf(d, n, outcome, s, e, t).kind = "action"
BY DEF ActionOf, Action, Decision

LEMMA FrameKinds ==
  ASSUME NEW f \in Frame
  PROVE  /\ f.occurrence \in Occurrence
         /\ f.kind = "decision" => f \in Decision
         /\ f.kind # "decision" => f.kind = "action" /\ f \in Action
BY DEF Frame, Decision, Action

LEMMA IdleTyped == Idle \in [stage : Stage, frame : Frame \cup {None}] /\ Idle.stage = "idle"
BY DEF Idle, Stage

LEMMA ReadingTyped == ASSUME NEW r \in Time PROVE Reading(r) \subseteq Time
BY DEF Reading

(***************************************************************************)
(* The type invariant: every variable of the recorder and of its files     *)
(* keeps its type whatever call is made and whatever write fails.          *)
(* Accounting is needed for the open count to stay a natural number.       *)
(***************************************************************************)
LEMMA InitTyped == Init => TypeOK
<1> SUFFICES ASSUME Init PROVE TypeOK
  OBVIOUS
<1>1. manifest \in Manifest /\ disk \in Manifest
  BY DEF Init, Manifest, Status
<1>2. call \in [stage : Stage, frame : Frame \cup {None}] /\ call.stage = "idle"
  BY IdleTyped DEF Init
<1>3. log \in Seq(Frame)
  BY DEF Init
<1> QED
  BY <1>1, <1>2, <1>3 DEF Init, TypeOK, HandleState

LEMMA EmitTyped ==
  ASSUME TypeOK, NEW f \in Frame, Emit(f)
  PROVE  /\ chain' \in Nat
         /\ call' \in [stage : Stage, frame : Frame \cup {None}]
         /\ call'.stage \in {"line", "manifest", "count"} => call'.frame \in Frame
BY IdleTyped DEF TypeOK, Emit, Stage

LEMMA OpenCounted ==
  ASSUME TypeOK, Accounting
  PROVE  /\ Cardinality(Live) \in Nat
         /\ call.stage = "manifest" /\ UncensoredAction(call.frame) => open - 1 \in Nat
<1>1. Cardinality(Live) \in Nat
  BY LiveFinite, FS_CardinalityType
<1> QED
  BY <1>1 DEF TypeOK, Accounting

(***************************************************************************)
(* One step of the recorder keeps the types, action by action.             *)
(***************************************************************************)
LEMMA BeginTyped ==
  ASSUME TypeOK, NEW l \in Logical, NEW n \in Attempt, NEW c \in Context,
         NEW retryOf \in Occurrence \cup {None}, NEW parent \in Occurrence \cup {None},
         NEW policy \in Policy, Begin(l, n, c, retryOf, parent, policy)
  PROVE  TypeOK'
<1>1. PICK evaluated \in Reading(clock) : \E observed \in Reading(evaluated) :
        /\ clock' = observed
        /\ Emit([kind |-> "decision", sequence |-> chain, occurrence |-> <<l, n>>,
                 context |-> c, retryOf |-> retryOf, parent |-> parent,
                 policy |-> policy, evaluated |-> evaluated, observed |-> observed])
  BY DEF Begin
<1>2. PICK observed \in Reading(evaluated) :
        /\ clock' = observed
        /\ Emit([kind |-> "decision", sequence |-> chain, occurrence |-> <<l, n>>,
                 context |-> c, retryOf |-> retryOf, parent |-> parent,
                 policy |-> policy, evaluated |-> evaluated, observed |-> observed])
  BY <1>1
<1> DEFINE f == [kind |-> "decision", sequence |-> chain, occurrence |-> <<l, n>>,
                 context |-> c, retryOf |-> retryOf, parent |-> parent,
                 policy |-> policy, evaluated |-> evaluated, observed |-> observed]
<1>3. evaluated \in Time /\ observed \in Time
  BY ReadingTyped DEF TypeOK
<1>4. f \in Frame
  BY <1>3 DEF TypeOK, Frame, Decision, Occurrence
<1>5. Emit(f) /\ clock' \in Time
  BY <1>2, <1>3
<1> HIDE DEF f
<1>6. /\ chain' \in Nat
      /\ call' \in [stage : Stage, frame : Frame \cup {None}]
      /\ call'.stage \in {"line", "manifest", "count"} => call'.frame \in Frame
  BY <1>4, <1>5, EmitTyped
<1> QED
  BY <1>5, <1>6 DEF TypeOK, Begin, diskVars

LEMMA WriteLineTyped == ASSUME TypeOK, WriteLine PROVE TypeOK'
<1>1. call.frame \in Frame
  BY DEF TypeOK, WriteLine
<1>2. log' \in Seq(Frame)
  BY <1>1 DEF TypeOK, WriteLine
<1>3. manifest' \in Manifest
  <2>1. manifest \in Manifest /\ manifest' = [manifest EXCEPT !.frames = @ + 1]
    BY DEF TypeOK, WriteLine
  <2> QED BY <2>1 DEF Manifest
<1>4. call' \in [stage : Stage, frame : Frame \cup {None}] /\ call'.frame \in Frame
  BY <1>1 DEF TypeOK, WriteLine, Stage
<1> QED
  BY <1>2, <1>3, <1>4 DEF TypeOK, WriteLine

LEMMA AdmitAllowedTyped == ASSUME TypeOK, AdmitAllowed PROVE TypeOK'
<1>1. call.frame \in Decision /\ call.frame.occurrence \in Occurrence
  BY FrameKinds DEF TypeOK, AdmitAllowed
<1>2. handle' \in [Occurrence -> HandleState]
  BY <1>1 DEF TypeOK, AdmitAllowed, HandleState
<1>3. admitted' \subseteq Decision
  BY <1>1 DEF TypeOK, AdmitAllowed
<1> QED
  BY <1>2, <1>3, IdleTyped DEF TypeOK, AdmitAllowed

LEMMA AdmitCensoredTyped == ASSUME TypeOK, AdmitCensored PROVE TypeOK'
<1>1. call.frame \in Decision /\ call.frame.policy \in Policy /\ call.frame.policy # "allowed"
  BY FrameKinds DEF TypeOK, AdmitCensored, Decision
<1>2. PICK observed \in Reading(clock) :
        /\ clock' = observed
        /\ Emit(ActionOf(call.frame, chain, CensorOutcome[call.frame.policy],
                         NoTime, NoTime, observed))
  BY DEF AdmitCensored
<1>3. observed \in Time
  BY ReadingTyped DEF TypeOK
<1>4. CensorOutcome[call.frame.policy] \in Censored
  <2>1. call.frame.policy \in {"policy", "budget", "authority"}
    BY <1>1, VerifierAssumption
  <2>2. /\ CensorOutcome["policy"] = "policy_censored"
        /\ CensorOutcome["budget"] = "budget_censored"
        /\ CensorOutcome["authority"] = "authority_censored"
    BY DEF CensorOutcome
  <2> QED BY <2>1, <2>2 DEF Censored
<1> DEFINE f == ActionOf(call.frame, chain, CensorOutcome[call.frame.policy],
                         NoTime, NoTime, observed)
<1>5. f \in Frame
  <2>1. f \in Action
    BY <1>1, <1>3, <1>4, ActionOfTyped DEF TypeOK
  <2> QED BY <2>1 DEF Frame
<1>6. Emit(f)
  BY <1>2
<1> HIDE DEF f
<1>7. /\ chain' \in Nat
      /\ call' \in [stage : Stage, frame : Frame \cup {None}]
      /\ call'.stage \in {"line", "manifest", "count"} => call'.frame \in Frame
  BY <1>5, <1>6, EmitTyped
<1>8. admitted' \subseteq Decision
  BY <1>1 DEF TypeOK, AdmitCensored
<1> QED
  BY <1>2, <1>3, <1>7, <1>8 DEF TypeOK, AdmitCensored

LEMMA CountActionTyped == ASSUME TypeOK, Accounting, CountAction PROVE TypeOK'
<1>1. call.frame \in Frame
  BY DEF TypeOK, CountAction
<1>2. open' \in Nat
  BY OpenCounted DEF TypeOK, CountAction, OpenAfter, UncensoredAction
<1>3. manifest' \in Manifest
  BY DEF TypeOK, CountAction, Manifest
<1>4. call' \in [stage : Stage, frame : Frame \cup {None}] /\ call'.frame \in Frame
  BY <1>1 DEF TypeOK, CountAction, Stage
<1> QED
  BY <1>2, <1>3, <1>4 DEF TypeOK, CountAction

LEMMA WriteCountTyped == ASSUME TypeOK, WriteCount PROVE TypeOK'
<1>1. call.frame.occurrence \in Occurrence
  BY FrameKinds DEF TypeOK, WriteCount
<1>2. handle' \in [Occurrence -> HandleState]
  BY <1>1 DEF TypeOK, WriteCount, HandleState
<1> QED
  BY <1>2, IdleTyped DEF TypeOK, WriteCount

LEMMA MarkDispatchedTyped ==
  ASSUME TypeOK, NEW o \in Occurrence, MarkDispatched(o)
  PROVE  TypeOK'
<1>1. clock' \in Time /\ started' \in [Occurrence -> Time \cup {NoTime}]
  BY ReadingTyped DEF TypeOK, MarkDispatched
<1>2. handle' \in [Occurrence -> HandleState]
  BY DEF TypeOK, MarkDispatched, HandleState
<1> QED
  BY <1>1, <1>2 DEF TypeOK, MarkDispatched, diskVars

LEMMA CloseTyped ==
  ASSUME TypeOK, NEW o \in Occurrence, NEW outcome \in Terminal, Close(o, outcome)
  PROVE  TypeOK'
<1>1. PICK d \in admitted, ended \in Reading(clock) : \E observed \in Reading(ended) :
        LET f == ActionOf(d, chain, outcome, started[o], ended, observed)
        IN  /\ clock' = observed
            /\ \/ UNCHANGED call /\ chain' \in {chain, chain + 1}
               \/ Emit(f)
  BY DEF Close
<1>2. PICK observed \in Reading(ended) :
        LET f == ActionOf(d, chain, outcome, started[o], ended, observed)
        IN  /\ clock' = observed
            /\ \/ UNCHANGED call /\ chain' \in {chain, chain + 1}
               \/ Emit(f)
  BY <1>1
<1> DEFINE f == ActionOf(d, chain, outcome, started[o], ended, observed)
<1>3. ended \in Time /\ observed \in Time /\ d \in Decision
  BY ReadingTyped DEF TypeOK
<1>4. f \in Frame
  <2>1. f \in Action
    BY <1>3, ActionOfTyped DEF TypeOK
  <2> QED BY <2>1 DEF Frame
<1>5. clock' \in Time /\ ((UNCHANGED call /\ chain' \in {chain, chain + 1}) \/ Emit(f))
  BY <1>2, <1>3
<1> HIDE DEF f
<1>6. /\ chain' \in Nat
      /\ call' \in [stage : Stage, frame : Frame \cup {None}]
      /\ call'.stage \in {"line", "manifest", "count"} => call'.frame \in Frame
  BY <1>4, <1>5, EmitTyped DEF TypeOK
<1>7. handle' \in [Occurrence -> HandleState]
  BY DEF TypeOK, Close, HandleState
<1> QED
  BY <1>5, <1>6, <1>7 DEF TypeOK, Close, diskVars

LEMMA SealTyped == ASSUME TypeOK, Finalize \/ WriteFinal \/ HostFails PROVE TypeOK'
<1>1. CASE Finalize
  <2>1. clock' \in Time /\ manifest' \in Manifest
    BY <1>1, ReadingTyped DEF TypeOK, Finalize, Manifest, Status
  <2>2. call' \in [stage : Stage, frame : Frame \cup {None}] /\ call'.stage = "final"
    BY <1>1 DEF Finalize, Stage
  <2> QED
    BY <1>1, <2>1, <2>2 DEF TypeOK, Finalize, diskVars
<1>2. CASE WriteFinal
  BY <1>2, IdleTyped DEF TypeOK, WriteFinal
<1>3. CASE HostFails
  <2>2. torn' \in BOOLEAN
    BY <1>3, Zenon DEF TypeOK, HostFails
  <2>3. faults' \in Nat /\ call' = Idle
    BY <1>3 DEF TypeOK, HostFails
  <2> QED
    BY <1>3, <2>2, <2>3, IdleTyped DEF TypeOK, HostFails
<1> QED
  BY <1>1, <1>2, <1>3

-----------------------------------------------------------------------------
(***************************************************************************)
(* What each action does to what the ledger sees: the live operations, the *)
(* recorded ones, and the ones the recorder knows.                         *)
(***************************************************************************)
SameView == Live' = Live /\ Recorded' = Recorded /\ Known' = Known

LEMMA BeginView ==
  ASSUME NEW l, NEW n, NEW c, NEW retryOf, NEW parent, NEW policy,
         Begin(l, n, c, retryOf, parent, policy)
  PROVE  SameView
BY DEF Begin, SameView, Live, Recorded, Known, diskVars

LEMMA WriteLineView ==
  ASSUME TypeOK, WriteLine
  PROVE  /\ Known' = Known
         /\ call.frame.kind = "decision" => SameView
         /\ call.frame.kind = "action" =>
              /\ Recorded' = Recorded \cup {call.frame.occurrence}
              /\ Live' = Live \ {call.frame.occurrence}
<1>1. log \in Seq(Frame) /\ call.frame \in Frame /\ log' = Append(log, call.frame)
  BY DEF TypeOK, WriteLine
<1>2. Recorded' = Recorded \cup
        (IF call.frame.kind = "action" THEN {call.frame.occurrence} ELSE {})
  BY <1>1, RecordedAppend DEF Recorded
<1>3. Known' = Known /\ handle' = handle
  BY DEF WriteLine, Known
<1> QED
  BY <1>2, <1>3 DEF SameView, Live

LEMMA AdmitAllowedView ==
  ASSUME TypeOK, CallSound, HandlesSound, AdmitAllowed
  PROVE  LET o == call.frame.occurrence IN
         /\ o \in Occurrence /\ o \notin Live /\ o \notin Recorded
         /\ Known' = Known \cup {o}
         /\ Recorded' = Recorded
         /\ Live' = Live \cup {o}
<1> DEFINE o == call.frame.occurrence
<1>1. o \in Occurrence
  BY FrameKinds DEF TypeOK, AdmitAllowed
<1>2. o \notin Known
  BY DEF CallSound, AdmitAllowed
<1>3. o \notin Recorded /\ handle[o] = "none"
  BY <1>1, <1>2 DEF HandlesSound
<1>4. Known' = Known \cup {o} /\ Recorded' = Recorded
  BY DEF AdmitAllowed, Known, Recorded
<1>5. /\ handle'[o] = "open"
      /\ \A x \in Occurrence \ {o} : handle'[x] = handle[x]
  BY <1>1 DEF TypeOK, AdmitAllowed
<1>6. o \notin Live /\ Live' = Live \cup {o}
  <2> HIDE DEF o
  <2> QED BY <1>1, <1>3, <1>4, <1>5 DEF Live
<1> QED
  BY <1>1, <1>3, <1>4, <1>6

LEMMA AdmitCensoredView ==
  ASSUME AdmitCensored
  PROVE  /\ Known' = Known \cup {call.frame.occurrence}
         /\ Recorded' = Recorded
         /\ Live' = Live
BY DEF AdmitCensored, Known, Recorded, Live

LEMMA CountActionView == ASSUME CountAction PROVE SameView
BY DEF CountAction, SameView, Known, Recorded, Live

LEMMA WriteCountView ==
  ASSUME TypeOK, CallSound, WriteCount
  PROVE  SameView
<1>1. CASE call.frame.outcome \in Censored
  <2> DEFINE o == call.frame.occurrence
  <2>1. o \in Occurrence
    BY FrameKinds DEF TypeOK, WriteCount
  <2>2. handle[o] = "none"
    BY <1>1 DEF CallSound, WriteCount
  <2>3. /\ handle'[o] = "censored"
        /\ \A x \in Occurrence \ {o} : handle'[x] = handle[x]
    BY <1>1, <2>1 DEF TypeOK, WriteCount
  <2>4. Recorded' = Recorded /\ Known' = Known
    BY DEF WriteCount, Recorded, Known
  <2> HIDE DEF o
  <2> QED
    BY <2>1, <2>2, <2>3, <2>4 DEF SameView, Live
<1>2. CASE call.frame.outcome \notin Censored
  BY <1>2 DEF WriteCount, SameView, Live, Recorded, Known
<1> QED
  BY <1>1, <1>2

LEMMA HandleView ==
  ASSUME TypeOK, NEW o \in Occurrence, NEW old \in {"open", "dispatched"},
         NEW new \in {"dispatched", "closed"},
         handle[o] = old, handle' = [handle EXCEPT ![o] = new],
         UNCHANGED <<log, admitted>>
  PROVE  SameView
<1>1. /\ handle'[o] = new
      /\ \A x \in Occurrence \ {o} : handle'[x] = handle[x]
  BY DEF TypeOK
<1> QED
  BY <1>1 DEF SameView, Live, Recorded, Known

LEMMA MarkDispatchedView ==
  ASSUME TypeOK, NEW o \in Occurrence, MarkDispatched(o)
  PROVE  SameView
BY HandleView DEF MarkDispatched, MayDispatch, diskVars

LEMMA CloseView ==
  ASSUME TypeOK, NEW o \in Occurrence, NEW outcome, Close(o, outcome)
  PROVE  SameView
BY HandleView DEF Close, diskVars

LEMMA SealView ==
  ASSUME Finalize \/ WriteFinal \/ HostFails
  PROVE  SameView
BY DEF Finalize, WriteFinal, HostFails, SameView, Live, Recorded, Known, diskVars

-----------------------------------------------------------------------------
(***************************************************************************)
(* The inductive invariant, action by action: Sound, its part beyond the   *)
(* types.                                                                  *)
(***************************************************************************)
LEMMA BeginSound ==
  ASSUME TypeOK, Sound, NEW l \in Logical, NEW n \in Attempt, NEW c \in Context,
         NEW retryOf, NEW parent, NEW policy, Begin(l, n, c, retryOf, parent, policy)
  PROVE  Sound'
<1>1. SameView
  BY BeginView
<1>2. UNCHANGED <<manifest, open, handle, started, log, disk>> /\ call = Idle
  BY DEF Begin, diskVars
<1>3. \/ call' = Idle
      \/ /\ call'.stage = "line"
         /\ call'.frame.kind = "decision"
         /\ call'.frame.occurrence \notin Known
  BY DEF Begin, Emit, LineageKnown
<1>4. manifest.status = "recording"
  BY DEF Begin, Recording
<1>5. Accounting'
  BY <1>1, <1>2, <1>3 DEF Sound, Accounting, SameView, Idle, UncensoredAction
<1>6. HandlesSound'
  BY <1>1, <1>2 DEF Sound, HandlesSound, SameView
<1>7. CallSound'
  BY <1>1, <1>2, <1>3 DEF Sound, CallSound, SameView, Idle
<1>8. StartedSound'
  BY <1>2 DEF Sound, StartedSound
<1>9. SealSound'
  BY <1>1, <1>2, <1>3, <1>4 DEF Sound, SealSound, SameView, Idle
<1> QED
  BY <1>5, <1>6, <1>7, <1>8, <1>9 DEF Sound

LEMMA WriteLineSound == ASSUME TypeOK, Sound, WriteLine PROVE Sound'
<1> DEFINE f == call.frame
           o == f.occurrence
<1>1. /\ f \in Frame /\ o \in Occurrence /\ f.kind \in {"decision", "action"}
      /\ call'.stage = "manifest" /\ call'.frame = f /\ call.stage = "line"
  BY FrameKinds DEF TypeOK, WriteLine
<1>2. UNCHANGED <<open, handle, started, disk, admitted>> /\ log' = Append(log, f)
  BY DEF WriteLine
<1>3. manifest'.status = manifest.status /\ manifest.status # "finalized"
  BY DEF TypeOK, Manifest, WriteLine, Sound, SealSound
<1>4. Known' = Known
  BY WriteLineView
<1>5. CASE f.kind = "decision"
  <2>1. SameView
    BY <1>5, WriteLineView
  <2>2. Accounting'
    BY <1>1, <1>2, <1>5, <2>1 DEF Sound, Accounting, SameView, UncensoredAction
  <2>3. HandlesSound' /\ CallSound'
    BY <1>1, <1>2, <1>5, <2>1 DEF Sound, HandlesSound, CallSound, SameView
  <2>4. \A i \in Actions(log)' : i \in Actions(log) /\ log'[i] = log[i]
    BY <1>1, <1>2, <1>5 DEF TypeOK, Actions
  <2>5. StartedSound'
    BY <1>2, <2>4 DEF Sound, StartedSound
  <2>6. SealSound'
    BY <1>1, <1>2, <1>3, <2>1 DEF Sound, SealSound, SameView
  <2> QED
    BY <2>2, <2>3, <2>5, <2>6 DEF Sound
<1>6. CASE f.kind = "action"
  <2>1. /\ Recorded' = Recorded \cup {o}
        /\ Live' = Live \ {o}
    BY <1>6, WriteLineView
  <2>2. /\ o \in Known /\ o \notin Recorded
        /\ handle[o] = IF f.outcome \in Censored THEN "none" ELSE "closed"
        /\ f.started = started[o]
    BY <1>1, <1>6 DEF Sound, CallSound
  <2>3. Accounting'
    <3>1. CASE f.outcome \in Censored
      <4>1. Live' = Live
        BY <2>1, <2>2, <3>1 DEF Live
      <4> QED
        BY <1>1, <1>2, <3>1, <4>1 DEF Sound, Accounting, UncensoredAction
    <3>2. CASE f.outcome \notin Censored
      <4>1. o \in Live
        BY <1>1, <2>2, <3>2 DEF Live
      <4>2. Cardinality(Live') = Cardinality(Live) - 1
        BY <2>1, <4>1, LiveFinite, FS_RemoveElement
      <4>3. Cardinality(Live) \in Nat /\ open \in Nat
        BY LiveFinite, FS_CardinalityType DEF TypeOK
      <4>4. Cardinality(Live) <= open
        BY <1>1, <4>3 DEF Sound, Accounting
      <4>5. Accounting' <=> Cardinality(Live') + 1 <= open
        BY <1>1, <1>2, <1>6, <3>2 DEF Accounting, UncensoredAction
      <4> QED
        BY <4>2, <4>3, <4>4, <4>5
    <3> QED
      BY <3>1, <3>2
  <2>4. HandlesSound'
    BY <1>1, <1>2, <1>4, <2>1, <2>2 DEF Sound, HandlesSound
  <2>5. CallSound'
    BY <1>1, <1>2, <1>4, <1>6, <2>1, <2>2 DEF CallSound
  <2>6. \A i \in Actions(log)' : \/ i \in Actions(log) /\ log'[i] = log[i]
                                \/ log'[i] = f
    BY <1>1, <1>2 DEF TypeOK, Actions
  <2>7. StartedSound'
    BY <1>2, <2>2, <2>6 DEF Sound, StartedSound
  <2>8. SealSound'
    BY <1>1, <1>2, <1>3 DEF Sound, SealSound
  <2> QED
    BY <2>3, <2>4, <2>5, <2>7, <2>8 DEF Sound
<1> QED
  BY <1>1, <1>5, <1>6

LEMMA AdmitAllowedSound == ASSUME TypeOK, Sound, AdmitAllowed PROVE Sound'
<1> DEFINE o == call.frame.occurrence
<1>1. /\ o \in Occurrence /\ o \notin Live /\ o \notin Recorded
      /\ Known' = Known \cup {o} /\ Recorded' = Recorded /\ Live' = Live \cup {o}
  BY AdmitAllowedView DEF Sound
<1>2. /\ call.stage = "manifest" /\ call'.stage = "idle" /\ call'.frame = None
      /\ UNCHANGED <<manifest, started, log>> /\ disk' = manifest /\ open' = open + 1
  BY DEF AdmitAllowed, Idle
<1>3. /\ handle'[o] = "open"
      /\ \A x \in Occurrence \ {o} : handle'[x] = handle[x]
  BY <1>1 DEF TypeOK, AdmitAllowed
<1>4. handle[o] = "none"
  BY <1>1 DEF Sound, HandlesSound, CallSound, AdmitAllowed
<1>5. manifest.status # "finalized"
  BY <1>2 DEF Sound, SealSound
<1>6. Accounting'
  <2>1. Cardinality(Live') = Cardinality(Live) + 1
    BY <1>1, LiveFinite, FS_AddElement
  <2>2. Cardinality(Live) <= open /\ Cardinality(Live) \in Nat /\ open \in Nat
    BY LiveFinite, FS_CardinalityType DEF AdmitAllowed, Sound, Accounting, UncensoredAction, TypeOK
  <2> QED
    BY <1>2, <2>1, <2>2 DEF Accounting
<1> HIDE DEF o
<1>7. HandlesSound'
  BY <1>1, <1>3 DEF Sound, HandlesSound
<1>8. CallSound'
  BY <1>2 DEF CallSound
<1>9. StartedSound'
  BY <1>2, <1>3, <1>4 DEF Sound, StartedSound
<1>10. SealSound'
  BY <1>2, <1>5 DEF Sound, SealSound
<1> QED
  BY <1>6, <1>7, <1>8, <1>9, <1>10 DEF Sound

LEMMA AdmitCensoredSound == ASSUME TypeOK, Sound, AdmitCensored PROVE Sound'
<1> DEFINE o == call.frame.occurrence
<1>1. Known' = Known \cup {o} /\ Recorded' = Recorded /\ Live' = Live
  BY AdmitCensoredView
<1>2. /\ call.stage = "manifest" /\ call.frame.kind = "decision"
      /\ UNCHANGED <<manifest, open, handle, started, log>> /\ disk' = manifest
  BY DEF AdmitCensored
<1>3. o \in Occurrence /\ o \notin Known /\ o \notin Recorded /\ handle[o] = "none"
  BY <1>2, FrameKinds DEF TypeOK, Sound, HandlesSound, CallSound
<1>4. CensorOutcome[call.frame.policy] \in Censored
  <2>1. call.frame.policy \in {"policy", "budget", "authority"}
    BY <1>2, FrameKinds, VerifierAssumption DEF TypeOK, AdmitCensored, Decision
  <2> QED BY <2>1 DEF CensorOutcome, Censored
<1>5. \/ call' = Idle
      \/ /\ call'.stage = "line" /\ call'.frame.kind = "action"
         /\ call'.frame.occurrence = o /\ call'.frame.outcome \in Censored
         /\ call'.frame.started = NoTime
  BY <1>4 DEF AdmitCensored, Emit, ActionOf
<1>6. started[o] = NoTime
  BY <1>3 DEF Sound, StartedSound
<1>7. manifest.status # "finalized"
  BY <1>2 DEF Sound, SealSound
<1> HIDE DEF o
<1>8. Accounting'
  BY <1>1, <1>2, <1>5 DEF Sound, Accounting, UncensoredAction, Idle
<1>9. HandlesSound'
  BY <1>1, <1>2 DEF Sound, HandlesSound
<1>10. CallSound'
  BY <1>1, <1>2, <1>3, <1>5, <1>6 DEF CallSound, Idle
<1>11. StartedSound'
  BY <1>2 DEF Sound, StartedSound
<1>12. SealSound'
  BY <1>2, <1>5, <1>7 DEF SealSound, Idle
<1> QED
  BY <1>8, <1>9, <1>10, <1>11, <1>12 DEF Sound

LEMMA CountActionSound == ASSUME TypeOK, Sound, CountAction PROVE Sound'
<1>1. SameView
  BY CountActionView
<1>2. /\ call.stage = "manifest" /\ call.frame.kind = "action"
      /\ call'.stage = "count" /\ call'.frame = call.frame
      /\ UNCHANGED <<handle, started, log>> /\ disk' = manifest
      /\ manifest'.status = manifest.status
      /\ open' = IF call.frame.outcome \in Censored THEN open ELSE open - 1
  BY DEF TypeOK, Manifest, CountAction, OpenAfter
<1>3. manifest.status # "finalized"
  BY <1>2 DEF Sound, SealSound
<1>4. Accounting'
  <2>1. Cardinality(Live) \in Nat /\ open \in Nat
    BY LiveFinite, FS_CardinalityType DEF TypeOK
  <2> QED
    BY <1>1, <1>2, <2>1 DEF Sound, Accounting, UncensoredAction, SameView
<1>5. HandlesSound' /\ CallSound'
  BY <1>1, <1>2 DEF Sound, HandlesSound, CallSound, SameView
<1>6. StartedSound'
  BY <1>2 DEF Sound, StartedSound
<1>7. SealSound'
  BY <1>2, <1>3 DEF SealSound
<1> QED
  BY <1>4, <1>5, <1>6, <1>7 DEF Sound

LEMMA WriteCountSound == ASSUME TypeOK, Sound, WriteCount PROVE Sound'
<1> DEFINE o == call.frame.occurrence
<1>1. SameView
  BY WriteCountView DEF Sound
<1>2. /\ call.stage = "count" /\ call'.stage = "idle" /\ call'.frame = None
      /\ UNCHANGED <<manifest, open, started, log>> /\ disk' = manifest
  BY DEF WriteCount, Idle
<1>3. o \in Occurrence /\ o \in Known
  BY <1>2, FrameKinds DEF TypeOK, Sound, CallSound
<1>4. /\ handle'[o] = IF call.frame.outcome \in Censored THEN "censored" ELSE handle[o]
      /\ \A x \in Occurrence \ {o} : handle'[x] = handle[x]
  BY <1>3 DEF TypeOK, WriteCount
<1>5. call.frame.outcome \in Censored => handle[o] = "none"
  BY <1>2 DEF Sound, CallSound
<1>6. manifest.status # "finalized"
  BY <1>2 DEF Sound, SealSound
<1> HIDE DEF o
<1>7. Accounting'
  BY <1>1, <1>2 DEF Sound, Accounting, SameView
<1>8. HandlesSound'
  BY <1>1, <1>3, <1>4 DEF Sound, HandlesSound, SameView
<1>9. CallSound'
  BY <1>2 DEF CallSound
<1>10. StartedSound'
  BY <1>2, <1>4, <1>5 DEF Sound, StartedSound
<1>11. SealSound'
  BY <1>2, <1>6 DEF SealSound
<1> QED
  BY <1>7, <1>8, <1>9, <1>10, <1>11 DEF Sound

(***************************************************************************)
(* A handle that is open or dispatched is live, so there is none once the  *)
(* manifest is final.                                                      *)
(***************************************************************************)
LEMMA UnclosedIsLive ==
  ASSUME Sound, NEW o \in Occurrence, handle[o] \in {"open", "dispatched"}
  PROVE  o \in Live /\ o \notin Recorded /\ manifest.status # "finalized"
BY DEF Sound, HandlesSound, SealSound, Live

LEMMA MarkDispatchedSound ==
  ASSUME TypeOK, Sound, NEW o \in Occurrence, MarkDispatched(o)
  PROVE  Sound'
<1>1. SameView
  BY MarkDispatchedView
<1>2. /\ handle[o] = "open" /\ handle'[o] = "dispatched"
      /\ \A x \in Occurrence \ {o} : handle'[x] = handle[x] /\ started'[x] = started[x]
      /\ UNCHANGED <<manifest, open, call, log, disk>> /\ call = Idle
  BY DEF TypeOK, MarkDispatched, MayDispatch, diskVars
<1>3. o \notin Recorded /\ o \in Known
  BY <1>2, UnclosedIsLive DEF Sound, HandlesSound
<1>4. Accounting'
  BY <1>1, <1>2 DEF Sound, Accounting, SameView
<1>5. HandlesSound'
  BY <1>1, <1>2, <1>3 DEF Sound, HandlesSound, SameView
<1>6. CallSound'
  BY <1>2 DEF Sound, CallSound, Idle
<1>7. StartedSound'
  <2>1. \A i \in Actions(log) : log[i].occurrence # o /\ log[i].occurrence \in Occurrence
    BY <1>3, FrameKinds DEF TypeOK, Recorded, RecordedIn, Actions
  <2> QED
    BY <1>2, <2>1 DEF Sound, StartedSound
<1>8. SealSound'
  BY <1>1, <1>2 DEF Sound, SealSound, SameView
<1> QED
  BY <1>4, <1>5, <1>6, <1>7, <1>8 DEF Sound

LEMMA CloseSound ==
  ASSUME TypeOK, Sound, NEW o \in Occurrence, NEW outcome \in Terminal, Close(o, outcome)
  PROVE  Sound'
<1>1. SameView
  BY CloseView
<1>2. /\ handle[o] = "dispatched" /\ handle'[o] = "closed"
      /\ \A x \in Occurrence \ {o} : handle'[x] = handle[x]
      /\ UNCHANGED <<manifest, open, started, log, disk>> /\ call = Idle
  BY DEF TypeOK, Close, diskVars
<1>3. o \notin Recorded /\ o \in Known /\ manifest.status # "finalized"
  BY <1>2, UnclosedIsLive DEF Sound, HandlesSound
<1>4. outcome \notin Censored
  BY DEF Terminal, Censored
<1>5. \/ call' = Idle
      \/ /\ call'.stage = "line" /\ call'.frame.kind = "action"
         /\ call'.frame.occurrence = o /\ call'.frame.outcome = outcome
         /\ call'.frame.started = started[o]
  BY <1>2 DEF Close, Emit, ActionOf
<1>6. Accounting'
  BY <1>1, <1>2, <1>5 DEF Sound, Accounting, SameView, Idle
<1>7. HandlesSound'
  BY <1>1, <1>2, <1>3 DEF Sound, HandlesSound, SameView
<1>8. CallSound'
  BY <1>1, <1>2, <1>3, <1>4, <1>5 DEF CallSound, SameView, Idle
<1>9. StartedSound'
  BY <1>2 DEF Sound, StartedSound
<1>10. SealSound'
  BY <1>1, <1>2, <1>3, <1>5 DEF Sound, SealSound, SameView, Idle
<1> QED
  BY <1>6, <1>7, <1>8, <1>9, <1>10 DEF Sound

LEMMA FinalizeSound == ASSUME TypeOK, Sound, Finalize PROVE Sound'
<1>1. SameView
  BY SealView
<1>2. /\ call = Idle /\ call'.stage = "final" /\ call'.frame = None
      /\ manifest.status = "recording" /\ manifest'.status = "finalized" /\ open = 0
      /\ UNCHANGED <<open, handle, started, log, disk>>
  BY DEF TypeOK, Manifest, Finalize, Recording, NothingOpen, diskVars
<1>3. Live = {}
  <2>1. Cardinality(Live) \in Nat
    BY LiveFinite, FS_CardinalityType
  <2>2. Cardinality(Live) = 0
    BY <1>2, <2>1 DEF Sound, Accounting, Idle
  <2> QED
    BY <2>2, LiveFinite, FS_EmptySet
<1>4. disk.status = "recording"
  BY <1>2 DEF Sound, SealSound, TypeOK, Manifest, Status
<1>5. Accounting'
  BY <1>1, <1>2 DEF Sound, Accounting, SameView, Idle
<1>6. HandlesSound' /\ CallSound'
  BY <1>1, <1>2 DEF Sound, HandlesSound, CallSound, SameView
<1>7. StartedSound'
  BY <1>2 DEF Sound, StartedSound
<1>8. SealSound'
  BY <1>1, <1>2, <1>3, <1>4 DEF SealSound, SameView
<1> QED
  BY <1>5, <1>6, <1>7, <1>8 DEF Sound

LEMMA WriteEndSound == ASSUME TypeOK, Sound, WriteFinal \/ HostFails PROVE Sound'
<1>1. SameView
  BY SealView
<1>2. /\ call'.stage = "idle" /\ call'.frame = None
      /\ UNCHANGED <<manifest, open, handle, started, log>>
      /\ \/ disk' = disk
         \/ call.stage = "final" /\ disk' = manifest
  BY DEF WriteFinal, HostFails, Idle
<1>3. Accounting'
  <2>1. Cardinality(Live) \in Nat /\ open \in Nat
    BY LiveFinite, FS_CardinalityType DEF TypeOK
  <2>2. Cardinality(Live) <= open
    BY <2>1 DEF Sound, Accounting
  <2> QED
    BY <1>1, <1>2, <2>1, <2>2 DEF Accounting, SameView
<1>4. HandlesSound' /\ CallSound'
  BY <1>1, <1>2 DEF Sound, HandlesSound, CallSound, SameView
<1>5. StartedSound'
  BY <1>2 DEF Sound, StartedSound
<1>6. SealSound'
  BY <1>1, <1>2 DEF Sound, SealSound, SameView
<1> QED
  BY <1>3, <1>4, <1>5, <1>6 DEF Sound

-----------------------------------------------------------------------------
(***************************************************************************)
(* IInv is inductive.                                                      *)
(***************************************************************************)
LEMMA InitSound == Init => Sound
<1> SUFFICES ASSUME Init PROVE Sound
  OBVIOUS
<1>1. /\ log = <<>> /\ open = 0 /\ call.stage = "idle" /\ call.frame = None
      /\ \A o \in Occurrence : handle[o] = "none" /\ started[o] = NoTime
      /\ manifest.status = "recording" /\ disk.status = "recording"
  BY DEF Init, Idle
<1>2. Recorded = {} /\ Live = {}
  BY <1>1 DEF Recorded, RecordedIn, Actions, Live
<1>3. Accounting
  BY <1>1, <1>2, FS_EmptySet DEF Accounting
<1>4. HandlesSound /\ CallSound /\ SealSound
  BY <1>1, <1>2 DEF HandlesSound, CallSound, SealSound
<1>5. StartedSound
  BY <1>1 DEF StartedSound, Actions
<1> QED
  BY <1>3, <1>4, <1>5 DEF Sound

LEMMA StutterSound == ASSUME TypeOK, Sound, UNCHANGED vars PROVE TypeOK' /\ Sound'
<1>1. UNCHANGED <<chain, manifest, open, admitted, handle, started, call, clock,
                  log, torn, disk, faults>>
  BY DEF vars, recorderVars, diskVars
<1>2. TypeOK'
  BY <1>1 DEF TypeOK
<1>3. SameView
  BY <1>1 DEF SameView, Live, Recorded, Known
<1>4. Accounting'
  BY <1>1, <1>3 DEF Sound, Accounting, SameView
<1>5. HandlesSound' /\ CallSound'
  BY <1>1, <1>3 DEF Sound, HandlesSound, CallSound, SameView
<1>6. StartedSound' /\ SealSound'
  BY <1>1, <1>3 DEF Sound, StartedSound, SealSound, SameView
<1> QED
  BY <1>2, <1>4, <1>5, <1>6 DEF Sound

LEMMA StepSound == ASSUME TypeOK, Sound, [Next]_vars PROVE TypeOK' /\ Sound'
<1>1. ASSUME NEW l \in Logical, NEW n \in Attempt, NEW c \in Context,
             NEW retryOf \in Occurrence \cup {None},
             NEW parent \in Occurrence \cup {None}, NEW policy \in Policy,
             Begin(l, n, c, retryOf, parent, policy)
      PROVE  TypeOK' /\ Sound'
  BY <1>1, BeginTyped, BeginSound
<1>2. CASE WriteLine
  BY <1>2, WriteLineTyped, WriteLineSound
<1>3. CASE AdmitAllowed
  BY <1>3, AdmitAllowedTyped, AdmitAllowedSound
<1>4. CASE AdmitCensored
  BY <1>4, AdmitCensoredTyped, AdmitCensoredSound
<1>5. CASE CountAction
  BY <1>5, CountActionTyped, CountActionSound DEF Sound
<1>6. CASE WriteCount
  BY <1>6, WriteCountTyped, WriteCountSound
<1>7. ASSUME NEW o \in Occurrence, MarkDispatched(o)
      PROVE  TypeOK' /\ Sound'
  BY <1>7, MarkDispatchedTyped, MarkDispatchedSound
<1>8. ASSUME NEW o \in Occurrence, NEW outcome \in Terminal, Close(o, outcome)
      PROVE  TypeOK' /\ Sound'
  BY <1>8, CloseTyped, CloseSound
<1>9. CASE Finalize
  BY <1>9, SealTyped, FinalizeSound
<1>10. CASE WriteFinal \/ HostFails
  BY <1>10, SealTyped, WriteEndSound
<1>11. CASE UNCHANGED vars
  BY <1>11, StutterSound
<1> QED
  BY <1>1, <1>2, <1>3, <1>4, <1>5, <1>6, <1>7, <1>8, <1>9, <1>10, <1>11 DEF Next

THEOREM Invariance == Spec => []IInv
<1>1. Init => IInv
  BY InitTyped, InitSound DEF IInv
<1>2. IInv /\ [Next]_vars => IInv'
  BY StepSound DEF IInv
<1> QED
  BY <1>1, <1>2, PTL DEF Spec

\* The variables keep their types: the recorder's open count never goes negative.
THEOREM TypeCorrect == Spec => []TypeOK
<1>1. IInv => TypeOK
  BY DEF IInv
<1> QED
  BY <1>1, Invariance, PTL

-----------------------------------------------------------------------------
(***************************************************************************)
(* Whenever the files verify, the outcome of every operation the           *)
(* application was handed is among them, with its own dispatch time:       *)
(* neither a failed write, nor a clock set back, nor an operation closed   *)
(* but refused by the chain can be hidden from the verifier.               *)
(***************************************************************************)
LEMMA SealedIsComplete ==
  ASSUME TypeOK, Sound
  PROVE  VerifiedIsComplete
<1> SUFFICES ASSUME Verifies, NEW o \in Occurrence,
                    handle[o] \in {"open", "dispatched", "closed"}
             PROVE  \E i \in Actions(log) :
                      log[i].occurrence = o /\ log[i].started = started[o]
  BY DEF VerifiedIsComplete
<1>1. Live = {}
  BY DEF Verifies, BundleVerifies, ManifestSound, Sound, SealSound
<1>2. o \in Recorded
  BY <1>1 DEF Live
<1> QED
  BY <1>2 DEF Recorded, RecordedIn, Sound, StartedSound

THEOREM VerdictSound == Spec => []VerifiedIsComplete
<1>1. IInv => VerifiedIsComplete
  BY SealedIsComplete DEF IInv
<1> QED
  BY <1>1, Invariance, PTL

(***************************************************************************)
(* Once the manifest on disk is final no step touches the files: a verdict *)
(* cannot be taken back by anything the application still calls.           *)
(***************************************************************************)
LEMMA SealedIsStable ==
  ASSUME TypeOK, Sound, [Next]_vars, disk.status = "finalized"
  PROVE  UNCHANGED diskVars /\ UNCHANGED <<admitted, handle, started>>
<1>1. manifest.status = "finalized" /\ Live = {} /\ call.stage = "idle"
  BY DEF Sound, SealSound
<1>2. \A o \in Occurrence : handle[o] \notin {"open", "dispatched"}
  BY <1>1, UnclosedIsLive
<1>3. ASSUME NEW l \in Logical, NEW n \in Attempt, NEW c \in Context,
             NEW retryOf \in Occurrence \cup {None},
             NEW parent \in Occurrence \cup {None}, NEW policy \in Policy,
             Begin(l, n, c, retryOf, parent, policy)
      PROVE  FALSE
  BY <1>1, <1>3 DEF Begin, Recording
<1>4. ~WriteLine /\ ~AdmitAllowed /\ ~AdmitCensored /\ ~CountAction /\ ~WriteCount
  BY <1>1 DEF WriteLine, AdmitAllowed, AdmitCensored, CountAction, WriteCount
<1>5. ~Finalize /\ ~WriteFinal
  BY <1>1 DEF Finalize, Recording, WriteFinal
<1>6. ASSUME NEW o \in Occurrence, MarkDispatched(o) PROVE FALSE
  BY <1>2, <1>6 DEF MarkDispatched, MayDispatch
<1>7. ASSUME NEW o \in Occurrence, NEW outcome \in Terminal, Close(o, outcome) PROVE FALSE
  BY <1>2, <1>7 DEF Close
<1>8. CASE HostFails
  BY <1>1, <1>8 DEF HostFails, diskVars
<1>9. CASE UNCHANGED vars
  BY <1>9 DEF vars, recorderVars, diskVars
<1> QED
  BY <1>3, <1>4, <1>5, <1>6, <1>7, <1>8, <1>9 DEF Next

THEOREM VerdictIsStable == Spec => VerdictStable
<1>1. IInv /\ [Next]_vars => [Verifies => UNCHANGED diskVars]_vars
  <2> SUFFICES ASSUME TypeOK, Sound, [Next]_vars, Verifies PROVE UNCHANGED diskVars
    BY DEF IInv
  <2>1. disk.status = "finalized"
    BY DEF Verifies, BundleVerifies, ManifestSound
  <2> QED
    BY <2>1, SealedIsStable
<1> QED
  BY <1>1, Invariance, PTL DEF Spec, VerdictStable

(***************************************************************************)
(* The recorder implements the ledger: an operation is owed from the       *)
(* moment its handle leaves begin until its action frame is in the log,    *)
(* and the evidence is sealed by the rename of the final manifest.         *)
(***************************************************************************)
LEMMA LedgerInit == Init => Ledger!Init
<1> SUFFICES ASSUME Init PROVE Ledger!Init
  OBVIOUS
<1>1. log = <<>> /\ disk.status = "recording" /\ handle = [o \in Occurrence |-> "none"]
  BY DEF Init
<1>2. Recorded = {} /\ Live = {}
  BY <1>1 DEF Recorded, RecordedIn, Actions, Live
<1> QED
  BY <1>1, <1>2 DEF Ledger!Init

LEMMA LedgerStep ==
  ASSUME TypeOK, Sound, [Next]_vars
  PROVE  [Ledger!Next]_(Ledger!ledger)
<1> DEFINE sealed == disk.status = "finalized"
<1>1. ASSUME SameView, UNCHANGED sealed
      PROVE  [Ledger!Next]_(Ledger!ledger)
  BY <1>1 DEF SameView, Ledger!ledger
<1>2. ASSUME disk' = manifest, call.stage \in {"line", "manifest", "count"}
      PROVE  UNCHANGED sealed /\ ~sealed
  BY <1>2 DEF Sound, SealSound
<1>3. ASSUME NEW l \in Logical, NEW n \in Attempt, NEW c \in Context,
             NEW retryOf \in Occurrence \cup {None},
             NEW parent \in Occurrence \cup {None}, NEW policy \in Policy,
             Begin(l, n, c, retryOf, parent, policy)
      PROVE  [Ledger!Next]_(Ledger!ledger)
  <2>1. disk' = disk
    BY <1>3 DEF Begin, diskVars
  <2> QED BY <2>1, <1>1, <1>3, BeginView
<1>4. CASE WriteLine
  <2> DEFINE o == call.frame.occurrence
  <2>1. /\ disk' = disk /\ call.stage = "line" /\ ~sealed
        /\ o \in Occurrence /\ call.frame.kind \in {"decision", "action"}
    BY <1>4, FrameKinds DEF TypeOK, WriteLine, Sound, SealSound
  <2>2. CASE call.frame.kind = "decision"
    BY <1>1, <1>4, <2>1, <2>2, WriteLineView
  <2>3. CASE call.frame.kind = "action"
    <3>1. Recorded' = Recorded \cup {o} /\ Live' = Live \ {o} /\ o \notin Recorded
      BY <1>4, <2>1, <2>3, WriteLineView DEF Sound, CallSound
    <3>2. CASE call.frame.outcome \in Censored
      <4>1. o \notin Live
        BY <2>1, <2>3, <3>2 DEF Sound, CallSound, Live
      <4> QED
        BY <2>1, <3>1, <4>1 DEF Ledger!Next, Ledger!Censor
    <3>3. CASE call.frame.outcome \notin Censored
      <4>1. o \in Live
        BY <2>1, <2>3, <3>1, <3>3 DEF Sound, CallSound, Live
      <4> QED
        BY <2>1, <3>1, <4>1 DEF Ledger!Next, Ledger!Record
    <3> QED BY <3>2, <3>3
  <2> QED BY <2>1, <2>2, <2>3
<1>5. CASE AdmitAllowed
  <2>1. UNCHANGED sealed /\ ~sealed
    BY <1>2, <1>5 DEF AdmitAllowed
  <2> QED
    BY <1>5, <2>1, AdmitAllowedView DEF Sound, Ledger!Next, Ledger!Admit
<1>6. CASE AdmitCensored
  <2>1. UNCHANGED sealed /\ Recorded' = Recorded /\ Live' = Live
    BY <1>2, <1>6, AdmitCensoredView DEF AdmitCensored
  <2> QED
    BY <2>1 DEF Ledger!ledger
<1>7. CASE CountAction
  BY <1>1, <1>2, <1>7, CountActionView DEF CountAction
<1>8. CASE WriteCount
  BY <1>1, <1>2, <1>8, WriteCountView DEF WriteCount, Sound
<1>9. ASSUME NEW o \in Occurrence, MarkDispatched(o)
      PROVE  [Ledger!Next]_(Ledger!ledger)
  <2>1. disk' = disk
    BY <1>9 DEF MarkDispatched, diskVars
  <2> QED BY <2>1, <1>1, <1>9, MarkDispatchedView
<1>10. ASSUME NEW o \in Occurrence, NEW outcome \in Terminal, Close(o, outcome)
       PROVE  [Ledger!Next]_(Ledger!ledger)
  <2>1. disk' = disk
    BY <1>10 DEF Close, diskVars
  <2> QED BY <2>1, <1>1, <1>10, CloseView
<1>11. CASE Finalize \/ HostFails
  <2>1. disk' = disk
    BY <1>11 DEF Finalize, HostFails, diskVars
  <2> QED BY <2>1, <1>1, <1>11, SealView
<1>12. CASE WriteFinal
  <2>1. /\ disk.status = "recording" /\ disk'.status = "finalized" /\ Live = {}
    BY <1>12 DEF WriteFinal, Sound, SealSound
  <2>2. SameView
    BY <1>12, SealView
  <2> QED
    BY <2>1, <2>2 DEF SameView, Ledger!Next, Ledger!Seal
<1>13. CASE UNCHANGED vars
  <2>1. SameView /\ disk' = disk
    BY <1>13 DEF vars, recorderVars, diskVars, SameView, Live, Recorded, Known
  <2> QED BY <2>1, <1>1
<1> QED
  BY <1>3, <1>4, <1>5, <1>6, <1>7, <1>8, <1>9, <1>10, <1>11, <1>12, <1>13 DEF Next

THEOREM ImplementsLedger == Spec => LedgerSpec
<1>1. IInv /\ [Next]_vars => [Ledger!Next]_(Ledger!ledger)
  BY LedgerStep DEF IInv
<1> QED
  BY <1>1, LedgerInit, Invariance, PTL DEF Spec, LedgerSpec, Ledger!Spec
-----------------------------------------------------------------------------
(***************************************************************************)
(* What is sealed without a fault verifies.  The log together with the     *)
(* line being written grows only at its end, by a decision or by the       *)
(* action of a decision it holds: first, that both keep it whole.          *)
(***************************************************************************)
LEMMA Appended ==
  ASSUME NEW l \in Seq(Frame), NEW f \in Frame, NEW m, m = Append(l, f)
  PROVE  /\ m \in Seq(Frame)
         /\ Len(l) \in Nat /\ Len(m) = Len(l) + 1
         /\ DOMAIN l = 1 .. Len(l) /\ DOMAIN m = 1 .. (Len(l) + 1)
         /\ m[Len(l) + 1] = f
         /\ \A i \in 1 .. Len(l) : m[i] = l[i]
OBVIOUS

LEMMA FramesKept ==
  ASSUME NEW l \in Seq(Frame), NEW f \in Frame, NEW m, m = Append(l, f)
  PROVE  /\ DOMAIN m = DOMAIN l \cup {Len(l) + 1} /\ m[Len(l) + 1] = f
         /\ \A i \in DOMAIN l : m[i] = l[i]
<1>1. /\ Len(l) \in Nat /\ m[Len(l) + 1] = f
      /\ DOMAIN l = 1 .. Len(l) /\ DOMAIN m = 1 .. (Len(l) + 1)
      /\ \A i \in 1 .. Len(l) : m[i] = l[i]
  BY Appended
<1>2. DOMAIN m = DOMAIN l \cup {Len(l) + 1}
  BY <1>1
<1> QED
  BY <1>1, <1>2

LEMMA AppendedDecision ==
  ASSUME NEW l \in Seq(Frame), NEW f \in Frame, NEW m, m = Append(l, f),
         f.kind = "decision"
  PROVE  Decisions(m) = Decisions(l) \cup {Len(l) + 1} /\ Actions(m) = Actions(l)
<1>1. /\ DOMAIN m = DOMAIN l \cup {Len(l) + 1} /\ m[Len(l) + 1] = f
      /\ \A i \in DOMAIN l : m[i] = l[i]
  BY FramesKept
<1> QED
  BY <1>1 DEF Decisions, Actions

LEMMA AppendedAction ==
  ASSUME NEW l \in Seq(Frame), NEW f \in Frame, NEW m, m = Append(l, f),
         f.kind = "action"
  PROVE  Actions(m) = Actions(l) \cup {Len(l) + 1} /\ Decisions(m) = Decisions(l)
<1>1. /\ DOMAIN m = DOMAIN l \cup {Len(l) + 1} /\ m[Len(l) + 1] = f
      /\ \A i \in DOMAIN l : m[i] = l[i]
  BY FramesKept
<1> QED
  BY <1>1 DEF Decisions, Actions

LEMMA ChainAppended ==
  ASSUME NEW l \in Seq(Frame), NEW f \in Frame, ChainSound(l),
         FrameSound(f), f.sequence = Len(l),
         \A i \in DOMAIN l : l[i].observed <= f.observed
  PROVE  ChainSound(Append(l, f))
<1> DEFINE m == Append(l, f)
<1>1. /\ Len(l) \in Nat /\ m[Len(l) + 1] = f
      /\ DOMAIN l = 1 .. Len(l) /\ DOMAIN m = 1 .. (Len(l) + 1)
      /\ \A i \in 1 .. Len(l) : m[i] = l[i]
  BY Appended
<1> HIDE DEF m
<1>2. SUFFICES ASSUME NEW i \in DOMAIN m
               PROVE  /\ FrameSound(m[i])
                      /\ m[i].sequence = i - 1
                      /\ i > 1 => m[i - 1].observed <= m[i].observed
  BY DEF ChainSound, m
<1>3. CASE i \in 1 .. Len(l)
  <2>1. m[i] = l[i] /\ i \in DOMAIN l /\ (i > 1 => m[i - 1] = l[i - 1])
    BY <1>1, <1>3
  <2> QED
    BY <2>1 DEF ChainSound
<1>4. CASE i = Len(l) + 1
  <2>1. m[i] = f /\ i - 1 = Len(l)
    BY <1>1, <1>4
  <2>2. ASSUME i > 1 PROVE m[i - 1].observed <= f.observed
    <3>1. i - 1 \in DOMAIN l /\ m[i - 1] = l[i - 1]
      BY <1>1, <1>4, <2>2
    <3> QED
      BY <3>1
  <2> QED
    BY <2>1, <2>2
<1> QED
  BY <1>1, <1>3, <1>4

\* Frames of one kind stay told apart by their occurrence.
LEMMA DistinctAppended ==
  ASSUME NEW l \in Seq(Frame), NEW f \in Frame, LogWhole(l),
         \A i \in DOMAIN l : l[i].kind = f.kind => l[i].occurrence # f.occurrence
  PROVE  LET m == Append(l, f) IN
         \A i, j \in DOMAIN m :
           m[i].kind = m[j].kind /\ m[i].occurrence = m[j].occurrence => i = j
<1> DEFINE m == Append(l, f)
<1>1. /\ Len(l) \in Nat /\ m[Len(l) + 1] = f
      /\ DOMAIN l = 1 .. Len(l) /\ DOMAIN m = 1 .. (Len(l) + 1)
      /\ \A i \in 1 .. Len(l) : m[i] = l[i]
  BY Appended
<1>2. \A i, j \in DOMAIN l :
        l[i].kind = l[j].kind /\ l[i].occurrence = l[j].occurrence => i = j
  BY DEF LogWhole
<1> HIDE DEF m
<1>3. \A i \in DOMAIN m : i \in DOMAIN l \/ i = Len(l) + 1
  BY <1>1
<1>4. \A i, j \in DOMAIN m :
        m[i].kind = m[j].kind /\ m[i].occurrence = m[j].occurrence => i = j
  <2> SUFFICES ASSUME NEW i \in DOMAIN m, NEW j \in DOMAIN m,
                      m[i].kind = m[j].kind, m[i].occurrence = m[j].occurrence
               PROVE  i = j
    OBVIOUS
  <2>1. CASE i \in DOMAIN l /\ j \in DOMAIN l
    BY <1>1, <1>2, <2>1
  <2>2. CASE i \in DOMAIN l /\ j = Len(l) + 1
    BY <1>1, <2>2
  <2>3. CASE i = Len(l) + 1 /\ j \in DOMAIN l
    BY <1>1, <2>3
  <2> QED
    BY <1>3, <2>1, <2>2, <2>3
<1> QED
  BY <1>4 DEF m

LEMMA LineageByIndex ==
  ASSUME NEW l,
         \A i \in Decisions(l) :
           /\ l[i].parent # None =>
                \E p \in Decisions(l) : p < i /\ l[p].occurrence = l[i].parent
           /\ l[i].occurrence[2] > 1 =>
                \E p \in Decisions(l) :
                  /\ l[p].occurrence = <<l[i].occurrence[1], l[i].occurrence[2] - 1>>
                  /\ l[i].retryOf = l[p].occurrence
                  /\ l[i].context = l[p].context
  PROVE  LineageSound(l)
BY DEF LineageSound

\* A decision whose parent and whose earlier attempt the log holds keeps it whole.
LEMMA DecisionAppended ==
  ASSUME NEW l \in Seq(Frame), LogWhole(l), NEW f \in Decision,
         FrameSound(f), f.sequence = Len(l),
         \A i \in DOMAIN l : l[i].observed <= f.observed,
         \A i \in Decisions(l) : l[i].occurrence # f.occurrence,
         f.parent # None => \E p \in Decisions(l) : l[p].occurrence = f.parent,
         f.occurrence[2] > 1 =>
           \E p \in Decisions(l) :
             /\ l[p].occurrence = <<f.occurrence[1], f.occurrence[2] - 1>>
             /\ f.retryOf = l[p].occurrence
             /\ f.context = l[p].context
  PROVE  LogWhole(Append(l, f))
<1> DEFINE m == Append(l, f)
<1>0. f \in Frame /\ f.kind = "decision"
  BY DEF Frame, Decision
<1>a. m = Append(l, f)
  OBVIOUS
<1> HIDE DEF m
<1>b. /\ Len(l) \in Nat /\ m[Len(l) + 1] = f
      /\ DOMAIN l = 1 .. Len(l)
      /\ \A i \in 1 .. Len(l) : m[i] = l[i]
  BY <1>0, <1>a, Appended
<1>1. /\ Decisions(m) = Decisions(l) \cup {Len(l) + 1}
      /\ Actions(m) = Actions(l)
      /\ \A i \in Decisions(l) : i \in 1 .. Len(l) /\ m[i] = l[i]
      /\ \A i \in Actions(l) : i \in 1 .. Len(l) /\ m[i] = l[i]
  <2>1. /\ \A i \in Decisions(l) : i \in 1 .. Len(l) /\ m[i] = l[i]
        /\ \A i \in Actions(l) : i \in 1 .. Len(l) /\ m[i] = l[i]
    BY <1>b DEF Decisions, Actions
  <2>2. Decisions(m) = Decisions(l) \cup {Len(l) + 1} /\ Actions(m) = Actions(l)
    BY <1>0, <1>a, AppendedDecision
  <2> QED
    BY <2>1, <2>2
<1>2. ChainSound(m)
  BY <1>0, <1>a, ChainAppended DEF LogWhole
<1>3. \A i \in DOMAIN l : l[i].kind = f.kind => l[i].occurrence # f.occurrence
  BY <1>0 DEF Decisions
<1>4. \A i, j \in DOMAIN m :
        m[i].kind = m[j].kind /\ m[i].occurrence = m[j].occurrence => i = j
  BY <1>0, <1>a, <1>3, DistinctAppended
<1>5. \A j \in Actions(m) : \E i \in Decisions(m) :
        i < j /\ m[i].occurrence = m[j].occurrence /\ Agree(m[i], m[j])
  BY <1>1 DEF LogWhole
<1>6. LineageSound(m)
  <2>1. ASSUME NEW i \in Decisions(l)
        PROVE  /\ m[i].parent # None =>
                    \E p \in Decisions(m) : p < i /\ m[p].occurrence = m[i].parent
               /\ m[i].occurrence[2] > 1 =>
                    \E p \in Decisions(m) :
                      /\ m[p].occurrence = <<m[i].occurrence[1], m[i].occurrence[2] - 1>>
                      /\ m[i].retryOf = m[p].occurrence
                      /\ m[i].context = m[p].context
    <3>1. m[i] = l[i] /\ i \in Decisions(l) /\ LineageSound(l)
      BY <1>1 DEF LogWhole
    <3>2. \A p \in Decisions(l) : p \in Decisions(m) /\ m[p] = l[p]
      BY <1>1
    <3>3. /\ l[i].parent # None =>
               \E p \in Decisions(l) : p < i /\ l[p].occurrence = l[i].parent
          /\ l[i].occurrence[2] > 1 =>
               \E p \in Decisions(l) :
                 /\ l[p].occurrence = <<l[i].occurrence[1], l[i].occurrence[2] - 1>>
                 /\ l[i].retryOf = l[p].occurrence
                 /\ l[i].context = l[p].context
      BY <3>1 DEF LineageSound
    <3> QED
      BY <3>1, <3>2, <3>3
  <2>2. /\ f.parent # None =>
             \E p \in Decisions(m) : p < Len(l) + 1 /\ m[p].occurrence = f.parent
        /\ f.occurrence[2] > 1 =>
             \E p \in Decisions(m) :
               /\ m[p].occurrence = <<f.occurrence[1], f.occurrence[2] - 1>>
               /\ f.retryOf = m[p].occurrence
               /\ f.context = m[p].context
    <3>1. \A p \in Decisions(l) : p < Len(l) + 1 /\ p \in Decisions(m) /\ m[p] = l[p]
      BY <1>1, <1>b
    <3> QED
      BY <3>1
  <2>3. ASSUME NEW i \in Decisions(m)
        PROVE  /\ m[i].parent # None =>
                    \E p \in Decisions(m) : p < i /\ m[p].occurrence = m[i].parent
               /\ m[i].occurrence[2] > 1 =>
                    \E p \in Decisions(m) :
                      /\ m[p].occurrence = <<m[i].occurrence[1], m[i].occurrence[2] - 1>>
                      /\ m[i].retryOf = m[p].occurrence
                      /\ m[i].context = m[p].context
    <3>1. i \in Decisions(l) \/ i = Len(l) + 1
      BY <1>1
    <3>2. CASE i \in Decisions(l)
      BY <2>1, <3>2
    <3>3. CASE i = Len(l) + 1
      BY <1>b, <2>2, <3>3
    <3> QED
      BY <3>1, <3>2, <3>3
  <2> QED
    BY <2>3, LineageByIndex
<1> QED
  BY <1>2, <1>4, <1>5, <1>6 DEF LogWhole, m

\* So does the one action of a decision the log holds.
LEMMA ActionAppended ==
  ASSUME NEW l \in Seq(Frame), LogWhole(l), NEW f \in Action,
         DispatchTimely(f), f.sequence = Len(l),
         \A i \in DOMAIN l : l[i].observed <= f.observed,
         f.occurrence \notin RecordedIn(l),
         NEW d \in Decisions(l), l[d].occurrence = f.occurrence, Agree(l[d], f)
  PROVE  LogWhole(Append(l, f))
<1> DEFINE m == Append(l, f)
<1>0. f \in Frame /\ f.kind = "action"
  BY DEF Frame, Action
<1>a. m = Append(l, f)
  OBVIOUS
<1> HIDE DEF m
<1>b. /\ Len(l) \in Nat /\ m[Len(l) + 1] = f
      /\ DOMAIN l = 1 .. Len(l)
      /\ \A i \in 1 .. Len(l) : m[i] = l[i]
  BY <1>0, <1>a, Appended
<1>1. /\ Decisions(m) = Decisions(l)
      /\ Actions(m) = Actions(l) \cup {Len(l) + 1}
      /\ \A i \in Decisions(l) : i \in 1 .. Len(l) /\ m[i] = l[i]
      /\ \A i \in Actions(l) : i \in 1 .. Len(l) /\ m[i] = l[i]
  <2>1. /\ \A i \in Decisions(l) : i \in 1 .. Len(l) /\ m[i] = l[i]
        /\ \A i \in Actions(l) : i \in 1 .. Len(l) /\ m[i] = l[i]
    BY <1>b DEF Decisions, Actions
  <2>2. Actions(m) = Actions(l) \cup {Len(l) + 1} /\ Decisions(m) = Decisions(l)
    BY <1>0, <1>a, AppendedAction
  <2> QED
    BY <2>1, <2>2
<1>2. FrameSound(f)
  <2>1. FrameSound(l[d]) /\ l[d].retryOf = f.retryOf
    BY DEF LogWhole, ChainSound, Decisions, Agree
  <2> QED
    BY <1>0, <2>1 DEF FrameSound
<1>3. ChainSound(m)
  BY <1>0, <1>2, <1>a, ChainAppended DEF LogWhole
<1>4. \A i \in DOMAIN l : l[i].kind = f.kind => l[i].occurrence # f.occurrence
  BY <1>0 DEF RecordedIn, Actions
<1>5. \A i, j \in DOMAIN m :
        m[i].kind = m[j].kind /\ m[i].occurrence = m[j].occurrence => i = j
  BY <1>0, <1>a, <1>4, DistinctAppended
<1>6. LineageSound(m)
  <2>1. Decisions(m) = Decisions(l) /\ \A p \in Decisions(l) : m[p] = l[p]
    BY <1>1
  <2>2. ASSUME NEW i \in Decisions(m)
        PROVE  /\ m[i].parent # None =>
                    \E p \in Decisions(m) : p < i /\ m[p].occurrence = m[i].parent
               /\ m[i].occurrence[2] > 1 =>
                    \E p \in Decisions(m) :
                      /\ m[p].occurrence = <<m[i].occurrence[1], m[i].occurrence[2] - 1>>
                      /\ m[i].retryOf = m[p].occurrence
                      /\ m[i].context = m[p].context
    <3>1. /\ l[i].parent # None =>
               \E p \in Decisions(l) : p < i /\ l[p].occurrence = l[i].parent
          /\ l[i].occurrence[2] > 1 =>
               \E p \in Decisions(l) :
                 /\ l[p].occurrence = <<l[i].occurrence[1], l[i].occurrence[2] - 1>>
                 /\ l[i].retryOf = l[p].occurrence
                 /\ l[i].context = l[p].context
      BY <2>1 DEF LogWhole, LineageSound
    <3> QED
      BY <2>1, <3>1
  <2> QED
    BY <2>2, LineageByIndex
<1>7. \A j \in Actions(m) : \E i \in Decisions(m) :
        i < j /\ m[i].occurrence = m[j].occurrence /\ Agree(m[i], m[j])
  <2>1. \A j \in Actions(l) : \E i \in Decisions(m) :
          i < j /\ m[i].occurrence = m[j].occurrence /\ Agree(m[i], m[j])
    BY <1>1 DEF LogWhole
  <2>2. d < Len(l) + 1 /\ m[d] = l[d] /\ d \in Decisions(m)
    BY <1>1, <1>b
  <2> QED
    BY <1>1, <1>b, <2>1, <2>2
<1> QED
  BY <1>3, <1>5, <1>6, <1>7 DEF LogWhole, m

(***************************************************************************)
(* The parts of Faultless that most steps leave alone, and what a frame    *)
(* does to them when it leaves the chain.                                  *)
(***************************************************************************)
LEMMA TimeIsNatural == Time \subseteq Nat /\ NoTime \notin Time
BY VerifierAssumption DEF Time, NoTime

LEMMA WholeTyped ==
  ASSUME TypeOK
  PROVE  /\ Whole \in Seq(Frame)
         /\ call.stage # "line" => Whole = log
BY DEF TypeOK, Whole

LEMMA CountsFinite ==
  ASSUME TypeOK
  PROVE  /\ IsFiniteSet(Unclosed) /\ Cardinality(Unclosed) \in Nat
         /\ IsFiniteSet(Recorded) /\ Cardinality(Recorded) \in Nat
<1>1. Recorded \subseteq Occurrence
  BY FrameKinds DEF TypeOK, Recorded, RecordedIn, Actions
<1>2. Unclosed \subseteq Occurrence
  BY DEF Unclosed
<1>3. IsFiniteSet(Unclosed) /\ IsFiniteSet(Recorded)
  BY <1>1, <1>2, LiveFinite, FS_Subset
<1> QED
  BY <1>3, FS_CardinalityType

\* Nothing of a call is left between calls.
LEMMA IdleCall ==
  ASSUME call = Idle
  PROVE  /\ call.stage = "idle" /\ call.frame = None
         /\ Whole = log /\ Deciding = {}
BY DEF Idle, Whole, Deciding

\* A decision the recorder admitted, or is about to, is in the log, and dated.
LEMMA DecidedIsWhole ==
  ASSUME TypeOK, Faultless, NEW d \in admitted \cup Deciding
  PROVE  \E i \in Decisions(Whole) :
           /\ Whole[i] = d
           /\ d.kind = "decision" /\ FrameSound(d)
           /\ d.evaluated <= clock
<1>1. PICK i \in Decisions(Whole) : Whole[i] = d
  BY DEF Faultless, AdmittedWhole
<1>2. i \in DOMAIN Whole /\ d.kind = "decision" /\ d \in Frame
  BY <1>1, WholeTyped DEF Decisions
<1>3. FrameSound(d) /\ d.observed <= clock
  BY <1>1, <1>2 DEF Faultless, LogWhole, ChainSound, TimesSound
<1>4. d \in Decision
  BY <1>2, FrameKinds
<1>5. d.evaluated \in Nat /\ d.observed \in Nat /\ clock \in Nat
  BY <1>4, TimeIsNatural DEF TypeOK, Decision
<1>6. d.evaluated <= clock
  BY <1>2, <1>3, <1>5 DEF FrameSound, PolicyTimely
<1> QED
  BY <1>1, <1>2, <1>3, <1>6

\* Without a fault a frame always goes from the chain to the log.
LEMMA EmitGrows ==
  ASSUME TypeOK, CountsExact, call.stage # "line", NEW f \in Frame, f.sequence = chain,
         Emit(f), UNCHANGED <<log, manifest, torn>>
  PROVE  /\ call'.stage = "line" /\ call'.frame = f /\ call' # Idle
         /\ Whole = log /\ f.sequence = Len(log)
         /\ Whole' = Append(log, f)
         /\ chain' = Len(Whole') /\ manifest'.frames = Len(log') /\ ~torn'
<1>1. Whole = log /\ log \in Seq(Frame)
  BY DEF Whole, TypeOK
<1>2. f.sequence = Len(log) /\ manifest.frames = Len(log) /\ ~torn
  BY <1>1 DEF CountsExact
<1>3. call' = [stage |-> "line", frame |-> f] /\ chain' = Len(log) + 1
  BY <1>2 DEF Emit, CountsExact
<1>4. Whole' = Append(log, f)
  BY <1>3 DEF Whole
<1>5. Len(Append(log, f)) = Len(log) + 1
  BY <1>1
<1> QED
  BY <1>1, <1>2, <1>3, <1>4, <1>5 DEF Idle

\* TimesSound for its part about the frames, when one more of them is written.
LEMMA FramesDated ==
  ASSUME TypeOK, TypeOK', TimesSound, NEW f \in Frame, Whole' = Append(Whole, f),
         clock <= clock', f.observed = clock', UNCHANGED manifest
  PROVE  /\ \A i \in DOMAIN Whole' :
              manifest'.created <= Whole'[i].observed /\ Whole'[i].observed <= clock'
         /\ manifest'.created <= clock'
         /\ \A i \in DOMAIN Whole : Whole[i].observed <= f.observed
<1> DEFINE w == Whole
           m == Whole'
<1>1. /\ Len(w) \in Nat /\ m[Len(w) + 1] = f
      /\ DOMAIN w = 1 .. Len(w) /\ DOMAIN m = 1 .. (Len(w) + 1)
      /\ \A i \in 1 .. Len(w) : m[i] = w[i]
  BY WholeTyped, Appended
<1>2. clock \in Nat /\ clock' \in Nat /\ manifest.created \in Nat
  BY TimeIsNatural DEF TypeOK, Manifest
<1>3. \A i \in DOMAIN w : w[i].observed \in Nat
  <2>1. \A i \in DOMAIN w : w[i] \in Frame
    BY WholeTyped
  <2> QED
    BY <2>1, TimeIsNatural DEF Frame, Decision, Action
<1>4. \A i \in DOMAIN w : manifest.created <= w[i].observed /\ w[i].observed <= clock
  BY DEF TimesSound
<1>5. manifest.created <= clock
  BY DEF TimesSound
<1> HIDE DEF w, m
<1>6. \A i \in DOMAIN w : w[i].observed <= clock'
  BY <1>2, <1>3, <1>4
<1>7. manifest.created <= clock'
  BY <1>2, <1>5
<1>8. \A i \in DOMAIN m : manifest.created <= m[i].observed /\ m[i].observed <= clock'
  <2> SUFFICES ASSUME NEW i \in DOMAIN m
               PROVE  manifest.created <= m[i].observed /\ m[i].observed <= clock'
    OBVIOUS
  <2>1. CASE i \in DOMAIN w
    BY <1>1, <1>4, <1>6, <2>1
  <2>2. CASE i = Len(w) + 1
    BY <1>1, <1>2, <1>7, <2>2
  <2> QED
    BY <1>1, <2>1, <2>2
<1> QED
  BY <1>6, <1>7, <1>8 DEF w, m

\* The same when the clock moves and no frame is written.
LEMMA ClockDated ==
  ASSUME TypeOK, TypeOK', TimesSound, Whole' = Whole,
         clock <= clock', manifest'.created = manifest.created
  PROVE  /\ \A i \in DOMAIN Whole' :
              manifest'.created <= Whole'[i].observed /\ Whole'[i].observed <= clock'
         /\ manifest'.created <= clock'
<1>1. clock \in Nat /\ clock' \in Nat /\ manifest.created \in Nat
  BY TimeIsNatural DEF TypeOK, Manifest
<1>2. \A i \in DOMAIN Whole : Whole[i].observed \in Nat
  <2>1. \A i \in DOMAIN Whole : Whole[i] \in Frame
    BY WholeTyped
  <2> QED
    BY <2>1, TimeIsNatural DEF Frame, Decision, Action
<1> QED
  BY <1>1, <1>2 DEF TimesSound

\* Dispatch times stay in the past.
LEMMA StartedDated ==
  ASSUME TypeOK, TypeOK', TimesSound, clock <= clock', UNCHANGED started
  PROVE  \A o \in Occurrence : started'[o] <= clock'
<1>1. clock \in Nat /\ clock' \in Nat
  BY TimeIsNatural DEF TypeOK
<1>2. \A o \in Occurrence : started[o] \in Int /\ started[o] <= clock
  <2>1. Time \cup {NoTime} \subseteq Int
    BY TimeIsNatural DEF NoTime
  <2> QED
    BY <2>1 DEF TypeOK, TimesSound
<1> QED
  BY <1>1, <1>2

-----------------------------------------------------------------------------
(***************************************************************************)
(* Faultless, action by action.                                            *)
(***************************************************************************)
LEMMA InitWhole == Init => Faultless
<1> SUFFICES ASSUME Init PROVE Faultless
  OBVIOUS
<1>1. /\ log = <<>> /\ open = 0 /\ chain = 0 /\ admitted = {} /\ ~torn /\ call = Idle
      /\ manifest.frames = 0 /\ manifest.operations = 0 /\ manifest.created = clock
      /\ manifest.status = "recording" /\ disk = manifest /\ clock \in Time
      /\ \A o \in Occurrence : handle[o] = "none" /\ started[o] = NoTime
  BY DEF Init
<1>2. Whole = <<>> /\ Deciding = {} /\ call.stage = "idle"
  BY <1>1, IdleCall
<1>3. Unclosed = {} /\ Recorded = {}
  BY <1>1 DEF Unclosed, Recorded, RecordedIn, Actions
<1>4. CountsExact
  BY <1>1, <1>2, <1>3, FS_EmptySet DEF CountsExact
<1>5. LogWhole(Whole)
  BY <1>2 DEF LogWhole, ChainSound, LineageSound, Decisions, Actions
<1>6. TimesSound
  BY <1>1, <1>2, TimeIsNatural DEF TimesSound, NoTime
<1>7. AdmittedWhole
  BY <1>1, <1>2 DEF AdmittedWhole, Decisions
<1> QED
  BY <1>4, <1>5, <1>6, <1>7 DEF Faultless

LEMMA BeginWhole ==
  ASSUME TypeOK, Sound, TypeOK', faults = 0, Faultless,
         NEW l \in Logical, NEW n \in Attempt, NEW c \in Context,
         NEW retryOf \in Occurrence \cup {None}, NEW parent \in Occurrence \cup {None},
         NEW policy \in Policy, Begin(l, n, c, retryOf, parent, policy)
  PROVE  Faultless'
<1>1. PICK evaluated \in Reading(clock), observed \in Time :
        /\ observed \in Reading(evaluated) /\ evaluated <= observed /\ clock' = observed
        /\ Emit([kind |-> "decision", sequence |-> chain, occurrence |-> <<l, n>>,
                 context |-> c, retryOf |-> retryOf, parent |-> parent,
                 policy |-> policy, evaluated |-> evaluated, observed |-> observed])
  BY ReadingTyped DEF Begin, TypeOK
<1> DEFINE f == [kind |-> "decision", sequence |-> chain, occurrence |-> <<l, n>>,
                 context |-> c, retryOf |-> retryOf, parent |-> parent,
                 policy |-> policy, evaluated |-> evaluated, observed |-> observed]
<1>2. evaluated \in Time /\ clock <= evaluated
  BY ReadingTyped DEF TypeOK, Reading
<1>3. /\ f \in Decision /\ f \in Frame /\ f.sequence = chain /\ f.kind = "decision"
      /\ f.occurrence = <<l, n>> /\ f.occurrence[1] = l /\ f.occurrence[2] = n
      /\ f.parent = parent /\ f.retryOf = retryOf /\ f.context = c
      /\ f.observed = observed /\ f.evaluated = evaluated
  BY <1>2 DEF TypeOK, Frame, Decision, Occurrence
<1>4. Emit(f) /\ clock' = f.observed
  BY <1>1
<1> HIDE DEF f
<1>5. /\ call = Idle /\ UNCHANGED <<manifest, open, admitted, handle, started, log, torn, disk>>
      /\ Recording /\ LineageKnown(l, n, c, retryOf, parent)
  BY DEF Begin, diskVars
<1>6. /\ call.stage = "idle" /\ Whole = log /\ Deciding = {}
      /\ CountsExact /\ TimesSound /\ AdmittedWhole /\ LogWhole(log)
  BY <1>5, IdleCall DEF Faultless
<1>7. /\ call'.stage = "line" /\ call'.frame = f /\ call' # Idle
      /\ f.sequence = Len(log) /\ Whole' = Append(log, f)
      /\ chain' = Len(Whole') /\ manifest'.frames = Len(log') /\ ~torn'
  BY <1>3, <1>4, <1>5, <1>6, EmitGrows
<1>8. clock \in Nat /\ evaluated \in Nat /\ observed \in Nat /\ clock <= clock'
  BY <1>1, <1>2, TimeIsNatural DEF TypeOK
<1>9. CountsExact'
  <2>1. Unclosed' = Unclosed /\ Recorded' = Recorded
    BY <1>5 DEF Unclosed, Recorded
  <2> QED
    BY <1>3, <1>5, <1>6, <1>7, <2>1 DEF CountsExact, UncensoredAction
<1>10. /\ \A i \in DOMAIN Whole' :
            manifest'.created <= Whole'[i].observed /\ Whole'[i].observed <= clock'
       /\ manifest'.created <= clock'
       /\ \A i \in DOMAIN log : log[i].observed <= f.observed
  BY <1>3, <1>4, <1>5, <1>6, <1>7, <1>8, FramesDated
<1>11. TimesSound'
  <2>1. \A o \in Occurrence : started'[o] <= clock'
    BY <1>5, <1>6, <1>8, StartedDated
  <2>2. manifest'.status # "finalized"
    BY <1>5 DEF Recording
  <2> QED
    BY <1>5, <1>6, <1>10, <2>1, <2>2 DEF TimesSound
<1>12. {log[i] : i \in Decisions(log)} = admitted
  BY <1>6 DEF AdmittedWhole
<1>13. LogWhole(Whole')
  <2>1. FrameSound(f)
    <3>1. (n = 1) <=> (retryOf = None)
      <4>1. \A p \in admitted : p.occurrence \in Occurrence
        BY DEF TypeOK, Decision
      <4>2. n # 1 => retryOf \in Occurrence
        BY <1>5, <4>1 DEF LineageKnown
      <4>3. n = 1 => retryOf = None
        BY <1>5 DEF LineageKnown
      <4> QED
        BY <4>2, <4>3, VerifierAssumption
    <3> QED
      BY <1>1, <1>3, <3>1 DEF FrameSound, PolicyTimely
  <2>2. \A i \in Decisions(log) : log[i].occurrence # f.occurrence
    BY <1>3, <1>5, <1>12 DEF LineageKnown, Known
  <2>3. f.parent # None => \E p \in Decisions(log) : log[p].occurrence = f.parent
    BY <1>3, <1>5, <1>12 DEF LineageKnown, Known
  <2>4. f.occurrence[2] > 1 =>
          \E p \in Decisions(log) :
            /\ log[p].occurrence = <<f.occurrence[1], f.occurrence[2] - 1>>
            /\ f.retryOf = log[p].occurrence
            /\ f.context = log[p].context
    <3> SUFFICES ASSUME n > 1
                 PROVE  \E p \in Decisions(log) :
                          /\ log[p].occurrence = <<l, n - 1>>
                          /\ retryOf = log[p].occurrence
                          /\ c = log[p].context
      BY <1>3
    <3>1. n # 1
      OBVIOUS
    <3>2. PICK d \in admitted :
            d.occurrence = <<l, n - 1>> /\ d.occurrence = retryOf /\ d.context = c
      BY <1>5, <3>1 DEF LineageKnown
    <3> QED
      BY <1>12, <3>2
  <2>5. log \in Seq(Frame)
    BY DEF TypeOK
  <2> QED
    BY <1>3, <1>6, <1>7, <1>10, <2>1, <2>2, <2>3, <2>4, <2>5, DecisionAppended
<1>14. AdmittedWhole'
  <2>1. Deciding' = {f}
    BY <1>3, <1>7 DEF Deciding
  <2>2. /\ Decisions(Whole') = Decisions(log) \cup {Len(log) + 1}
        /\ \A i \in Decisions(log) : Whole'[i] = log[i]
        /\ Whole'[Len(log) + 1] = f
        /\ Actions(Whole') = Actions(log)
        /\ \A i \in Actions(log) : Whole'[i] = log[i]
    <3>1. log \in Seq(Frame)
      BY DEF TypeOK
    <3>2. Whole'[Len(log) + 1] = f /\ \A i \in DOMAIN log : Whole'[i] = log[i]
      BY <1>3, <1>7, <3>1, FramesKept
    <3>3. Decisions(Whole') = Decisions(log) \cup {Len(log) + 1} /\ Actions(Whole') = Actions(log)
      BY <1>3, <1>7, <3>1, AppendedDecision
    <3> QED
      BY <3>2, <3>3 DEF Decisions, Actions
  <2>3. {Whole'[i] : i \in Decisions(Whole')} = admitted' \cup Deciding'
    BY <1>5, <1>12, <2>1, <2>2
  <2>4. RecordedIn(Whole') = RecordedIn(Whole) /\ Unclosed' = Unclosed
    BY <1>5, <1>6, <2>2 DEF RecordedIn, Unclosed
  <2> QED
    BY <1>5, <1>6, <2>3, <2>4 DEF AdmittedWhole
<1> QED
  BY <1>9, <1>11, <1>13, <1>14 DEF Faultless

LEMMA WriteLineWhole ==
  ASSUME TypeOK, Sound, TypeOK', faults = 0, Faultless, WriteLine
  PROVE  Faultless'
<1> DEFINE f == call.frame
<1>1. /\ call.stage = "line" /\ call'.stage = "manifest" /\ call'.frame = f
      /\ f \in Frame /\ log' = Append(log, f)
      /\ UNCHANGED <<chain, open, admitted, handle, started, clock, torn, disk>>
  BY DEF TypeOK, WriteLine
<1>2. /\ manifest.status # "finalized" /\ manifest'.frames = manifest.frames + 1
      /\ UNCHANGED <<manifest.status, manifest.operations, manifest.created>>
  BY <1>1 DEF TypeOK, Manifest, WriteLine, Sound, SealSound
<1>3. Whole = log' /\ Whole' = log' /\ call' # Idle
  BY <1>1 DEF Whole, Idle
<1>4. Len(log') = Len(log) + 1 /\ Len(log) \in Nat
  BY <1>1 DEF TypeOK
<1>5. CountsExact'
  <2>1. Unclosed' = Unclosed
    BY <1>1 DEF Unclosed
  <2>2. Cardinality(Recorded') =
          Cardinality(Recorded) + (IF f.kind = "action" THEN 1 ELSE 0)
    <3>1. Recorded' = Recorded \cup (IF f.kind = "action" THEN {f.occurrence} ELSE {})
      BY <1>1, RecordedAppend DEF TypeOK, Recorded
    <3>2. CASE f.kind = "action"
      <4>1. f.occurrence \notin Recorded
        BY <1>1, <3>2 DEF Sound, CallSound
      <4> HIDE DEF f
      <4> QED
        BY <3>1, <3>2, <4>1, CountsFinite, FS_AddElement
    <3>3. CASE f.kind # "action"
      <4>1. Recorded' = Recorded
        BY <3>1, <3>3
      <4> HIDE DEF f
      <4> QED
        BY <3>3, <4>1, CountsFinite
    <3> QED BY <3>2, <3>3
  <2>3. Cardinality(Recorded) = manifest.operations
    BY <1>1 DEF Faultless, CountsExact, TypeOK, Manifest
  <2>4. chain' = Len(Whole') /\ manifest'.frames = Len(log') /\ ~torn'
    BY <1>1, <1>2, <1>3, <1>4 DEF Faultless, CountsExact
  <2>5. open' = Cardinality(Unclosed')
                  + (IF call'.stage \in {"line", "manifest"} /\ UncensoredAction(call'.frame)
                     THEN 1 ELSE 0)
    BY <1>1, <2>1 DEF Faultless, CountsExact
  <2>6. manifest'.operations = manifest.operations
    BY <1>2
  <2> QED
    BY <1>1, <1>3, <2>2, <2>3, <2>4, <2>5, <2>6 DEF CountsExact
<1>6. LogWhole(Whole')
  BY <1>3 DEF Faultless
<1>7. TimesSound'
  BY <1>1, <1>2, <1>3 DEF Faultless, TimesSound
<1>8. AdmittedWhole'
  <2>1. Deciding' = Deciding
    BY <1>1 DEF Deciding
  <2> QED
    BY <1>1, <1>3, <2>1 DEF Faultless, AdmittedWhole, Unclosed
<1> QED
  BY <1>5, <1>6, <1>7, <1>8 DEF Faultless

LEMMA AdmitAllowedWhole ==
  ASSUME TypeOK, Sound, TypeOK', faults = 0, Faultless, AdmitAllowed
  PROVE  Faultless'
<1> DEFINE f == call.frame
           o == f.occurrence
<1>1. /\ call.stage = "manifest" /\ call' = Idle /\ disk' = manifest
      /\ f \in Frame /\ f.kind = "decision" /\ f.policy = "allowed" /\ o \in Occurrence
      /\ admitted' = admitted \cup {f} /\ open' = open + 1
      /\ UNCHANGED <<chain, manifest, started, clock, log, torn>>
  BY FrameKinds DEF TypeOK, AdmitAllowed
<1>2. handle[o] = "none" /\ started[o] = NoTime
  <2>1. o \notin Known
    BY <1>1 DEF Sound, CallSound
  <2> QED
    BY <1>1, <2>1 DEF Sound, HandlesSound, StartedSound
<1>3. handle'[o] = "open" /\ \A x \in Occurrence \ {o} : handle'[x] = handle[x]
  BY <1>1 DEF TypeOK, AdmitAllowed
<1>4. /\ call'.stage = "idle" /\ Whole' = log /\ Deciding' = {}
      /\ Whole = log /\ Deciding = {f}
  <2>1. Whole = log /\ Deciding = {f}
    BY <1>1 DEF Whole, Deciding
  <2>2. call'.stage = "idle" /\ Whole' = log' /\ Deciding' = {}
    BY <1>1 DEF Idle, Whole, Deciding
  <2> QED
    BY <1>1, <2>1, <2>2
<1>5. Unclosed' = Unclosed \cup {o} /\ o \notin Unclosed
  <2> HIDE DEF o
  <2> QED BY <1>1, <1>2, <1>3 DEF Unclosed
<1>6. CountsExact'
  <2>1. Cardinality(Unclosed') = Cardinality(Unclosed) + 1
    <3> HIDE DEF o
    <3> QED BY <1>5, CountsFinite, FS_AddElement
  <2>2. open = Cardinality(Unclosed) /\ Cardinality(Recorded) = manifest.operations
    BY <1>1, CountsFinite DEF Faultless, CountsExact, UncensoredAction, TypeOK, Manifest
  <2>3. Recorded' = Recorded
    BY <1>1 DEF Recorded
  <2>4. chain' = Len(Whole') /\ manifest'.frames = Len(log') /\ ~torn'
    BY <1>1, <1>4 DEF Faultless, CountsExact
  <2>5. Cardinality(Unclosed) \in Nat /\ manifest'.operations \in Nat /\ open' = open + 1
    BY <1>1, CountsFinite DEF TypeOK, Manifest
  <2> HIDE DEF f, o
  <2> QED
    BY <1>1, <1>4, <2>1, <2>2, <2>3, <2>4, <2>5 DEF CountsExact
<1>7. LogWhole(Whole')
  BY <1>4 DEF Faultless
<1>8. TimesSound'
  <2>1. \A x \in Occurrence : handle'[x] = "dispatched" => handle[x] = "dispatched"
    BY <1>1, <1>3
  <2> HIDE DEF f, o
  <2> QED
    BY <1>1, <1>2, <1>4, <2>1 DEF Faultless, TimesSound, o
<1>9. AdmittedWhole'
  <2>1. {Whole'[i] : i \in Decisions(Whole')} = admitted' \cup Deciding'
    BY <1>1, <1>4 DEF Faultless, AdmittedWhole
  <2>2. \A d \in admitted :
          \/ d.occurrence \in RecordedIn(Whole)
          \/ d.occurrence \in Unclosed /\ d.policy = "allowed"
    BY DEF Faultless, AdmittedWhole
  <2>3. \A d \in admitted' :
          \/ d.occurrence \in RecordedIn(Whole')
          \/ d.occurrence \in Unclosed' /\ d.policy = "allowed"
    BY <1>1, <1>4, <1>5, <2>2
  <2> QED
    BY <2>1, <2>3 DEF AdmittedWhole
<1> QED
  BY <1>6, <1>7, <1>8, <1>9 DEF Faultless

LEMMA AdmitCensoredWhole ==
  ASSUME TypeOK, Sound, TypeOK', faults = 0, Faultless, AdmitCensored
  PROVE  Faultless'
<1> DEFINE d == call.frame
           o == d.occurrence
<1>1. /\ call.stage = "manifest" /\ d \in Frame /\ d.kind = "decision" /\ d \in Decision
      /\ d.policy # "allowed" /\ d.policy \in Policy /\ o \in Occurrence
      /\ admitted' = admitted \cup {d}
      /\ UNCHANGED <<manifest, open, handle, started, log, torn>>
  BY FrameKinds DEF TypeOK, AdmitCensored, Decision
<1>2. handle[o] = "none" /\ started[o] = NoTime /\ o \notin Recorded
  <2>1. o \notin Known
    BY <1>1 DEF Sound, CallSound
  <2> QED
    BY <1>1, <2>1 DEF Sound, HandlesSound, StartedSound
<1>3. /\ Whole = log /\ Deciding = {d} /\ LogWhole(log) /\ log \in Seq(Frame)
      /\ CountsExact /\ TimesSound /\ AdmittedWhole
  BY <1>1 DEF Whole, Deciding, Faultless, TypeOK
<1>4. PICK observed \in Reading(clock) :
        /\ clock' = observed
        /\ Emit(ActionOf(d, chain, CensorOutcome[d.policy], NoTime, NoTime, observed))
  BY DEF AdmitCensored
<1> DEFINE f == ActionOf(d, chain, CensorOutcome[d.policy], NoTime, NoTime, observed)
<1>5. observed \in Time /\ clock <= observed
  BY ReadingTyped DEF TypeOK, Reading
<1>6. CensorOutcome[d.policy] \in Censored
  <2>1. d.policy \in {"policy", "budget", "authority"}
    BY <1>1, VerifierAssumption
  <2>2. /\ CensorOutcome["policy"] = "policy_censored"
        /\ CensorOutcome["budget"] = "budget_censored"
        /\ CensorOutcome["authority"] = "authority_censored"
    BY DEF CensorOutcome
  <2> HIDE DEF d
  <2> QED BY <2>1, <2>2 DEF Censored
<1>7. /\ f \in Action /\ f \in Frame /\ f.kind = "action" /\ f.sequence = chain
      /\ f.occurrence = o /\ f.outcome = CensorOutcome[d.policy]
      /\ f.context = d.context /\ f.retryOf = d.retryOf /\ f.parent = d.parent
      /\ f.started = NoTime /\ f.ended = NoTime /\ f.observed = observed
  <2>1. f \in Action /\ f.kind = "action"
    <3>1. chain \in Nat /\ CensorOutcome[d.policy] \in Terminal \cup Censored
      BY <1>6 DEF TypeOK
    <3> QED BY <1>1, <1>5, <3>1, ActionOfTyped
  <2>2. f \in Frame
    BY <2>1 DEF Frame
  <2> QED
    BY <2>1, <2>2 DEF ActionOf
<1>8. Emit(f) /\ clock' = f.observed
  BY <1>4, <1>7
<1> HIDE DEF f
<1>9. /\ call'.stage = "line" /\ call'.frame = f /\ call' # Idle
      /\ f.sequence = Len(log) /\ Whole' = Append(log, f)
      /\ chain' = Len(Whole') /\ manifest'.frames = Len(log') /\ ~torn'
  BY <1>1, <1>3, <1>7, <1>8, EmitGrows
<1>10. clock \in Nat /\ observed \in Nat /\ clock <= clock'
  BY <1>5, <1>7, <1>8, TimeIsNatural DEF TypeOK
<1>11. CountsExact'
  <2>1. Unclosed' = Unclosed /\ Recorded' = Recorded
    BY <1>1 DEF Unclosed, Recorded
  <2>2. ~UncensoredAction(call'.frame) /\ ~UncensoredAction(call.frame)
    BY <1>1, <1>6, <1>7, <1>9 DEF UncensoredAction
  <2> QED
    BY <1>1, <1>3, <1>9, <2>1, <2>2 DEF CountsExact
<1>12. /\ \A i \in DOMAIN Whole' :
            manifest'.created <= Whole'[i].observed /\ Whole'[i].observed <= clock'
       /\ manifest'.created <= clock'
       /\ \A i \in DOMAIN log : log[i].observed <= f.observed
  BY <1>1, <1>3, <1>7, <1>8, <1>9, <1>10, FramesDated
<1>13. TimesSound'
  <2>1. \A x \in Occurrence : started'[x] <= clock'
    BY <1>1, <1>3, <1>10, StartedDated
  <2>2. manifest'.status # "finalized"
    BY <1>1 DEF Sound, SealSound
  <2>3. \A x \in admitted' :
          started'[x.occurrence] # NoTime => x.evaluated <= started'[x.occurrence]
    BY <1>1, <1>2, <1>3 DEF TimesSound
  <2>4. \A x \in Occurrence : handle'[x] = "dispatched" => started'[x] # NoTime
    BY <1>1, <1>3 DEF TimesSound
  <2> QED
    BY <1>12, <2>1, <2>2, <2>3, <2>4 DEF TimesSound
<1>14. {log[i] : i \in Decisions(log)} = admitted \cup {d}
  BY <1>3 DEF AdmittedWhole
<1>15. LogWhole(Whole')
  <2>1. PICK i \in Decisions(log) : log[i] = d
    BY <1>14
  <2>2. Agree(log[i], f)
    <3> HIDE DEF d
    <3> QED
      BY <1>1, <1>7, <2>1 DEF Agree
  <2>3. DispatchTimely(f)
    BY <1>6, <1>7 DEF DispatchTimely
  <2>4. f.occurrence \notin RecordedIn(log) /\ log[i].occurrence = f.occurrence
    BY <1>2, <1>7, <2>1 DEF Recorded
  <2> HIDE DEF d
  <2> QED
    BY <1>3, <1>7, <1>9, <1>12, <2>2, <2>3, <2>4, ActionAppended
<1>16. AdmittedWhole'
  <2>1. Deciding' = {}
    BY <1>7, <1>9 DEF Deciding
  <2>2. Decisions(Whole') = Decisions(log) /\ \A i \in Decisions(log) : Whole'[i] = log[i]
    <3>1. Decisions(Whole') = Decisions(log)
      BY <1>3, <1>7, <1>9, AppendedAction
    <3>2. \A i \in DOMAIN log : Whole'[i] = log[i]
      BY <1>3, <1>7, <1>9, FramesKept
    <3> QED
      BY <3>1, <3>2 DEF Decisions
  <2>3. {Whole'[i] : i \in Decisions(Whole')} = admitted' \cup Deciding'
    BY <1>1, <1>14, <2>1, <2>2
  <2>4. RecordedIn(Whole') = RecordedIn(Whole) \cup {o} /\ Unclosed' = Unclosed
    <3>1. RecordedIn(Whole') = RecordedIn(log) \cup {f.occurrence}
      BY <1>3, <1>7, <1>9, RecordedAppend
    <3> QED
      BY <1>1, <1>3, <1>7, <3>1 DEF Unclosed
  <2>5. \A x \in admitted :
          \/ x.occurrence \in RecordedIn(Whole)
          \/ x.occurrence \in Unclosed /\ x.policy = "allowed"
    BY <1>3 DEF AdmittedWhole
  <2>6. \A x \in admitted' :
          \/ x.occurrence \in RecordedIn(Whole')
          \/ x.occurrence \in Unclosed' /\ x.policy = "allowed"
    BY <1>1, <2>4, <2>5
  <2> QED
    BY <2>3, <2>6 DEF AdmittedWhole
<1> QED
  BY <1>11, <1>13, <1>15, <1>16 DEF Faultless

LEMMA CountActionWhole ==
  ASSUME TypeOK, Sound, TypeOK', faults = 0, Faultless, CountAction
  PROVE  Faultless'
<1>1. /\ call.stage = "manifest" /\ call.frame.kind = "action" /\ call'.stage = "count"
      /\ open' = OpenAfter(call.frame)
      /\ UNCHANGED <<chain, admitted, handle, started, clock, log, torn>>
  BY DEF TypeOK, CountAction
<1>2. /\ manifest'.operations = manifest.operations + 1 /\ manifest'.frames = manifest.frames
      /\ manifest'.status = manifest.status /\ manifest'.created = manifest.created
      /\ manifest.status # "finalized" /\ manifest.operations \in Nat
  BY <1>1 DEF TypeOK, Manifest, CountAction, Sound, SealSound
<1>3. Whole = log /\ Whole' = log /\ Deciding = {} /\ Deciding' = {}
  BY <1>1 DEF Whole, Deciding
<1>4. Unclosed' = Unclosed /\ Recorded' = Recorded
  BY <1>1 DEF Unclosed, Recorded
<1>5. CountsExact'
  <2>1. open' = Cardinality(Unclosed')
    BY <1>1, <1>4, CountsFinite DEF Faultless, CountsExact, OpenAfter, UncensoredAction
  <2>2. Cardinality(Recorded') = manifest'.operations
    BY <1>1, <1>2, <1>4 DEF Faultless, CountsExact
  <2>3. chain' = Len(Whole') /\ manifest'.frames = Len(log') /\ ~torn'
    BY <1>1, <1>2, <1>3 DEF Faultless, CountsExact
  <2>4. Cardinality(Unclosed') \in Nat /\ manifest'.operations \in Nat /\ call' # Idle
    BY <1>1, <1>2, <1>4, CountsFinite DEF Idle
  <2> QED
    BY <1>1, <2>1, <2>2, <2>3, <2>4 DEF CountsExact
<1>6. LogWhole(Whole')
  BY <1>3 DEF Faultless
<1>7. TimesSound'
  BY <1>1, <1>2, <1>3 DEF Faultless, TimesSound
<1>8. AdmittedWhole'
  BY <1>1, <1>3, <1>4 DEF Faultless, AdmittedWhole
<1> QED
  BY <1>5, <1>6, <1>7, <1>8 DEF Faultless

LEMMA WriteCountWhole ==
  ASSUME TypeOK, Sound, TypeOK', faults = 0, Faultless, WriteCount
  PROVE  Faultless'
<1> DEFINE o == call.frame.occurrence
<1>1. /\ call.stage = "count" /\ call' = Idle /\ disk' = manifest /\ o \in Occurrence
      /\ UNCHANGED <<chain, manifest, open, admitted, started, clock, log, torn>>
  BY FrameKinds DEF TypeOK, WriteCount
<1>2. \A x \in Occurrence :
        \/ handle'[x] = handle[x]
        \/ handle[x] = "none" /\ handle'[x] = "censored"
  <2>1. CASE call.frame.outcome \in Censored
    <3>1. handle[o] = "none"
      BY <1>1, <2>1 DEF Sound, CallSound
    <3>2. handle'[o] = "censored" /\ \A x \in Occurrence \ {o} : handle'[x] = handle[x]
      BY <1>1, <2>1 DEF TypeOK, WriteCount
    <3> HIDE DEF o
    <3> QED BY <3>1, <3>2
  <2>2. CASE call.frame.outcome \notin Censored
    BY <2>2 DEF WriteCount
  <2> QED BY <2>1, <2>2
<1>3. /\ Whole = log /\ Whole' = log' /\ Deciding = {} /\ Deciding' = {}
      /\ call'.stage = "idle"
  BY <1>1 DEF Whole, Deciding, Idle
<1>4. Unclosed' = Unclosed /\ Recorded' = Recorded
  BY <1>1, <1>2 DEF Unclosed, Recorded
<1> HIDE DEF o
<1>5. CountsExact'
  BY <1>1, <1>3, <1>4 DEF Faultless, CountsExact
<1>6. LogWhole(Whole')
  BY <1>1, <1>3 DEF Faultless
<1>7. TimesSound'
  <2>1. \A x \in Occurrence : handle'[x] = "dispatched" => handle[x] = "dispatched"
    BY <1>2
  <2> QED
    BY <1>1, <1>3, <2>1 DEF Faultless, TimesSound
<1>8. AdmittedWhole'
  BY <1>1, <1>3, <1>4 DEF Faultless, AdmittedWhole
<1> QED
  BY <1>5, <1>6, <1>7, <1>8 DEF Faultless

LEMMA MarkDispatchedWhole ==
  ASSUME TypeOK, Sound, TypeOK', faults = 0, Faultless,
         NEW o \in Occurrence, MarkDispatched(o)
  PROVE  Faultless'
<1>1. /\ call = Idle /\ handle[o] = "open" /\ handle'[o] = "dispatched"
      /\ \A x \in Occurrence \ {o} : handle'[x] = handle[x] /\ started'[x] = started[x]
      /\ UNCHANGED <<chain, manifest, open, admitted, call, log, torn, disk>>
  BY DEF TypeOK, MarkDispatched, MayDispatch, diskVars
<1>2. started'[o] = clock' /\ clock' \in Time /\ clock <= clock'
  <2>1. PICK t \in Reading(clock) : clock' = t /\ started' = [started EXCEPT ![o] = t]
    BY DEF MarkDispatched
  <2> QED
    BY <2>1, ReadingTyped DEF TypeOK, Reading
<1>3. clock \in Nat /\ clock' \in Nat /\ Time \cup {NoTime} \subseteq Int
  BY TimeIsNatural DEF TypeOK, NoTime
<1>4. /\ Whole = log /\ Whole' = log' /\ Deciding = {} /\ Deciding' = {}
      /\ call.stage = "idle"
  BY <1>1, IdleCall DEF Whole, Deciding
<1>5. Unclosed' = Unclosed /\ Recorded' = Recorded
  BY <1>1 DEF Unclosed, Recorded
<1>6. CountsExact'
  BY <1>1, <1>4, <1>5 DEF Faultless, CountsExact
<1>7. LogWhole(Whole')
  BY <1>1, <1>4 DEF Faultless
<1>8. TimesSound'
  <2>1. /\ \A i \in DOMAIN Whole' :
             manifest'.created <= Whole'[i].observed /\ Whole'[i].observed <= clock'
        /\ manifest'.created <= clock'
    BY <1>1, <1>2, <1>4, ClockDated DEF Faultless
  <2>2. \A x \in Occurrence : started'[x] <= clock'
    <3>1. \A x \in Occurrence : started[x] \in Int /\ started[x] <= clock
      BY <1>3 DEF TypeOK, Faultless, TimesSound
    <3> QED
      BY <1>1, <1>2, <1>3, <3>1
  <2>3. \A x \in Occurrence : handle'[x] = "dispatched" => started'[x] # NoTime
    BY <1>1, <1>2, TimeIsNatural DEF Faultless, TimesSound
  <2>4. ASSUME NEW d \in admitted', started'[d.occurrence] # NoTime
        PROVE  d.evaluated <= started'[d.occurrence]
    <3>1. d \in admitted /\ d.occurrence \in Occurrence /\ d.evaluated \in Nat
      BY <1>1, TimeIsNatural DEF TypeOK, Decision
    <3>2. CASE d.occurrence = o
      <4>1. d.evaluated <= clock
        BY <3>1, DecidedIsWhole
      <4> QED
        BY <1>2, <1>3, <3>1, <3>2, <4>1
    <3>3. CASE d.occurrence # o
      BY <1>1, <2>4, <3>1, <3>3 DEF Faultless, TimesSound
    <3> QED BY <3>2, <3>3
  <2>5. manifest'.status = "finalized" =>
          /\ manifest'.operations # 0
          /\ \A i \in DOMAIN log' : log'[i].observed <= manifest'.finalized
    BY <1>1 DEF Faultless, TimesSound
  <2> QED
    BY <2>1, <2>2, <2>3, <2>4, <2>5 DEF TimesSound
<1>9. AdmittedWhole'
  BY <1>1, <1>4, <1>5 DEF Faultless, AdmittedWhole
<1> QED
  BY <1>6, <1>7, <1>8, <1>9 DEF Faultless

LEMMA CloseWhole ==
  ASSUME TypeOK, Sound, TypeOK', faults = 0, Faultless,
         NEW o \in Occurrence, NEW outcome \in Terminal, Close(o, outcome)
  PROVE  Faultless'
<1>1. /\ call = Idle /\ handle[o] = "dispatched" /\ handle'[o] = "closed"
      /\ \A x \in Occurrence \ {o} : handle'[x] = handle[x]
      /\ UNCHANGED <<manifest, open, admitted, started, log, torn, disk>>
  BY DEF TypeOK, Close, diskVars
<1>2. /\ Whole = log /\ Deciding = {} /\ call.stage = "idle" /\ LogWhole(log)
      /\ CountsExact /\ TimesSound /\ AdmittedWhole /\ log \in Seq(Frame)
  BY <1>1, IdleCall DEF Faultless, TypeOK
<1>3. PICK d \in admitted, ended \in Reading(clock) : \E observed \in Reading(ended) :
        LET f == ActionOf(d, chain, outcome, started[o], ended, observed)
        IN  /\ d.occurrence = o
            /\ clock' = observed
            /\ IF ~DispatchTimely(f) THEN UNCHANGED <<chain, call>>
               ELSE IF open < 1 THEN chain' = chain + 1 /\ UNCHANGED call
               ELSE Emit(f)
  BY DEF Close
<1>4. PICK observed \in Reading(ended) :
        LET f == ActionOf(d, chain, outcome, started[o], ended, observed)
        IN  /\ d.occurrence = o
            /\ clock' = observed
            /\ IF ~DispatchTimely(f) THEN UNCHANGED <<chain, call>>
               ELSE IF open < 1 THEN chain' = chain + 1 /\ UNCHANGED call
               ELSE Emit(f)
  BY <1>3
<1> DEFINE f == ActionOf(d, chain, outcome, started[o], ended, observed)
<1>5. /\ d \in Decision /\ d.occurrence = o
      /\ ended \in Time /\ observed \in Time /\ clock <= ended /\ ended <= observed
  BY <1>4, ReadingTyped DEF TypeOK, Reading
<1>6. /\ clock \in Nat /\ ended \in Nat /\ observed \in Nat /\ clock <= observed
      /\ started[o] \in Int /\ started[o] <= clock /\ started[o] # NoTime
  <2>1. clock \in Nat /\ ended \in Nat /\ observed \in Nat /\ Time \cup {NoTime} \subseteq Int
    BY <1>5, TimeIsNatural DEF TypeOK, NoTime
  <2>2. started[o] \in Int /\ started[o] <= clock /\ started[o] # NoTime
    BY <1>1, <1>2, <2>1 DEF TypeOK, TimesSound
  <2> QED
    BY <1>5, <2>1, <2>2
<1>7. /\ f \in Action /\ f \in Frame /\ f.kind = "action" /\ f.sequence = chain
      /\ f.occurrence = o /\ f.outcome = outcome
      /\ f.context = d.context /\ f.retryOf = d.retryOf /\ f.parent = d.parent
      /\ f.started = started[o] /\ f.ended = ended /\ f.observed = observed
  <2>1. chain \in Nat /\ started[o] \in Time \cup {NoTime}
    BY DEF TypeOK
  <2>2. f \in Action
    BY <1>5, <2>1, ActionOfTyped
  <2>3. f \in Frame
    BY <2>2 DEF Frame
  <2> QED
    BY <1>5, <2>2, <2>3 DEF ActionOf
<1>8. outcome \notin Censored
  BY DEF Terminal, Censored
<1>9. DispatchTimely(f)
  <2>1. started[o] <= ended
    BY <1>5, <1>6
  <2> HIDE DEF f
  <2> QED
    BY <1>5, <1>6, <1>7, <1>8, <2>1 DEF DispatchTimely
<1>10. /\ o \in Unclosed /\ Unclosed' = Unclosed \ {o}
       /\ Cardinality(Unclosed') = Cardinality(Unclosed) - 1 /\ Unclosed' # Unclosed
       /\ open = Cardinality(Unclosed) /\ open >= 1
  <2>1. o \in Unclosed /\ Unclosed' = Unclosed \ {o}
    BY <1>1 DEF Unclosed
  <2>2. Cardinality(Unclosed') = Cardinality(Unclosed) - 1
    BY <2>1, CountsFinite, FS_RemoveElement
  <2>3. open = Cardinality(Unclosed)
    BY <1>2, CountsFinite DEF CountsExact
  <2>4. Cardinality(Unclosed) # 0
    BY <2>1, CountsFinite, FS_EmptySet
  <2> QED
    BY <2>1, <2>2, <2>3, <2>4, CountsFinite
<1>11. Emit(f) /\ clock' = f.observed
  <2>1. ~(open < 1)
    BY <1>10 DEF TypeOK
  <2> QED
    BY <1>4, <1>7, <1>9, <2>1
<1> HIDE DEF f
<1>12. /\ call'.stage = "line" /\ call'.frame = f /\ call' # Idle
       /\ f.sequence = Len(log) /\ Whole' = Append(log, f)
       /\ chain' = Len(Whole') /\ manifest'.frames = Len(log') /\ ~torn'
  BY <1>1, <1>2, <1>7, <1>11, EmitGrows
<1>13. CountsExact'
  <2>1. Recorded' = Recorded /\ Cardinality(Recorded) = manifest.operations
    BY <1>1, <1>2 DEF Recorded, CountsExact, TypeOK, Manifest
  <2>2. UncensoredAction(call'.frame)
    BY <1>7, <1>8, <1>12 DEF UncensoredAction
  <2>3. open' = Cardinality(Unclosed') + 1
    BY <1>1, <1>10, CountsFinite
  <2>4. manifest' = manifest /\ manifest.operations \in Nat
    BY <1>1 DEF TypeOK, Manifest
  <2> QED
    BY <1>12, <2>1, <2>2, <2>3, <2>4 DEF CountsExact
<1>14. clock <= clock'
  BY <1>6, <1>7, <1>11
<1>15. /\ \A i \in DOMAIN Whole' :
            manifest'.created <= Whole'[i].observed /\ Whole'[i].observed <= clock'
       /\ manifest'.created <= clock'
       /\ \A i \in DOMAIN log : log[i].observed <= f.observed
  BY <1>1, <1>2, <1>7, <1>11, <1>12, <1>14, FramesDated
<1>16. TimesSound'
  <2>1. \A x \in Occurrence : started'[x] <= clock'
    BY <1>1, <1>2, <1>14, StartedDated
  <2>2. manifest'.status # "finalized"
    BY <1>1, UnclosedIsLive DEF Sound, SealSound
  <2>3. \A x \in Occurrence : handle'[x] = "dispatched" => started'[x] # NoTime
    BY <1>1, <1>2 DEF TimesSound
  <2> QED
    BY <1>1, <1>2, <1>15, <2>1, <2>2, <2>3 DEF TimesSound
<1>17. {log[i] : i \in Decisions(log)} = admitted
  BY <1>2 DEF AdmittedWhole
<1>18. f.occurrence \notin RecordedIn(log)
  BY <1>1, <1>7 DEF Sound, HandlesSound, Recorded
<1>19. LogWhole(Whole')
  <2>1. PICK i \in Decisions(log) : log[i] = d
    BY <1>17
  <2>2. d.policy = "allowed"
    BY <1>2, <1>5, <1>7, <1>18 DEF AdmittedWhole
  <2>3. d.evaluated <= f.started
    BY <1>2, <1>5, <1>6, <1>7 DEF TimesSound
  <2>4. Agree(log[i], f)
    BY <1>7, <1>8, <2>1, <2>2, <2>3 DEF Agree
  <2>5. log[i].occurrence = f.occurrence
    BY <1>5, <1>7, <2>1
  <2> QED
    BY <1>2, <1>7, <1>9, <1>12, <1>15, <1>18, <2>4, <2>5, ActionAppended
<1>20. AdmittedWhole'
  <2>1. Deciding' = {}
    BY <1>7, <1>12 DEF Deciding
  <2>2. Decisions(Whole') = Decisions(log) /\ \A i \in Decisions(log) : Whole'[i] = log[i]
    <3>1. Decisions(Whole') = Decisions(log)
      BY <1>2, <1>7, <1>12, AppendedAction
    <3>2. \A i \in DOMAIN log : Whole'[i] = log[i]
      BY <1>2, <1>7, <1>12, FramesKept
    <3> QED
      BY <3>1, <3>2 DEF Decisions
  <2>3. {Whole'[i] : i \in Decisions(Whole')} = admitted' \cup Deciding'
    BY <1>1, <1>17, <2>1, <2>2
  <2>4. RecordedIn(Whole') = RecordedIn(Whole) \cup {o}
    <3>1. RecordedIn(Whole') = RecordedIn(log) \cup {f.occurrence}
      BY <1>2, <1>7, <1>12, RecordedAppend
    <3> QED
      BY <1>2, <1>7, <3>1
  <2>5. \A x \in admitted :
          \/ x.occurrence \in RecordedIn(Whole)
          \/ x.occurrence \in Unclosed /\ x.policy = "allowed"
    BY <1>2 DEF AdmittedWhole
  <2>6. \A x \in admitted' :
          \/ x.occurrence \in RecordedIn(Whole')
          \/ x.occurrence \in Unclosed' /\ x.policy = "allowed"
    BY <1>1, <1>10, <2>4, <2>5
  <2> QED
    BY <2>3, <2>6 DEF AdmittedWhole
<1> QED
  BY <1>13, <1>16, <1>19, <1>20 DEF Faultless

LEMMA FinalizeWhole ==
  ASSUME TypeOK, Sound, TypeOK', faults = 0, Faultless, Finalize
  PROVE  Faultless'
<1>1. /\ call = Idle /\ call' = [stage |-> "final", frame |-> None]
      /\ manifest.operations # 0
      /\ UNCHANGED <<chain, open, admitted, handle, started, log, torn, disk>>
  BY DEF Finalize, diskVars
<1>2. PICK t \in Reading(clock) :
        /\ clock' = t
        /\ manifest' = [manifest EXCEPT !.status = "finalized", !.finalized = t]
  BY DEF Finalize
<1>3. /\ manifest'.created = manifest.created /\ manifest'.frames = manifest.frames
      /\ manifest'.operations = manifest.operations /\ manifest'.finalized = clock'
  BY <1>2 DEF TypeOK, Manifest
<1>4. clock <= clock'
  BY <1>2 DEF Reading
<1>5. /\ Whole = log /\ Whole' = log' /\ Deciding = {} /\ Deciding' = {}
      /\ call.stage = "idle" /\ call'.stage = "final" /\ call' # Idle
  BY <1>1, IdleCall DEF Whole, Deciding, Idle
<1>6. Unclosed' = Unclosed /\ Recorded' = Recorded
  BY <1>1 DEF Unclosed, Recorded
<1>7. CountsExact'
  BY <1>1, <1>3, <1>5, <1>6 DEF Faultless, CountsExact
<1>8. LogWhole(Whole')
  BY <1>1, <1>5 DEF Faultless
<1>9. TimesSound'
  <2>1. TimesSound
    BY DEF Faultless
  <2>2. /\ \A i \in DOMAIN Whole' :
             manifest'.created <= Whole'[i].observed /\ Whole'[i].observed <= clock'
        /\ manifest'.created <= clock'
    BY <1>1, <1>3, <1>4, <1>5, <2>1, ClockDated
  <2>3. \A x \in Occurrence : started'[x] <= clock'
    BY <1>1, <1>4, <2>1, StartedDated
  <2>4. \A i \in DOMAIN log' : log'[i].observed <= manifest'.finalized
    BY <1>3, <1>5, <2>2
  <2> QED
    BY <1>1, <1>3, <2>1, <2>2, <2>3, <2>4 DEF TimesSound
<1>10. AdmittedWhole'
  BY <1>1, <1>5, <1>6 DEF Faultless, AdmittedWhole
<1> QED
  BY <1>7, <1>8, <1>9, <1>10 DEF Faultless

LEMMA WriteFinalWhole ==
  ASSUME Faultless, WriteFinal
  PROVE  Faultless'
<1>1. /\ call.stage = "final" /\ call' = Idle /\ disk' = manifest
      /\ UNCHANGED <<chain, manifest, open, admitted, handle, started, clock, log, torn>>
  BY DEF WriteFinal
<1>2. /\ Whole = log /\ Whole' = log' /\ Deciding = {} /\ Deciding' = {}
      /\ call'.stage = "idle"
  BY <1>1 DEF Whole, Deciding, Idle
<1>3. Unclosed' = Unclosed /\ Recorded' = Recorded
  BY <1>1 DEF Unclosed, Recorded
<1>4. CountsExact'
  BY <1>1, <1>2, <1>3 DEF Faultless, CountsExact
<1>5. LogWhole(Whole') /\ TimesSound'
  BY <1>1, <1>2 DEF Faultless, TimesSound
<1>6. AdmittedWhole'
  BY <1>1, <1>2, <1>3 DEF Faultless, AdmittedWhole
<1> QED
  BY <1>4, <1>5, <1>6 DEF Faultless

LEMMA StutterWhole == ASSUME Faultless, UNCHANGED vars PROVE Faultless'
<1>1. UNCHANGED <<chain, manifest, open, admitted, handle, started, call, clock,
                  log, torn, disk>>
  BY DEF vars, recorderVars, diskVars
<1>2. Whole' = Whole /\ Deciding' = Deciding /\ Unclosed' = Unclosed /\ Recorded' = Recorded
  BY <1>1 DEF Whole, Deciding, Unclosed, Recorded
<1>3. CountsExact'
  BY <1>1, <1>2 DEF Faultless, CountsExact
<1>4. LogWhole(Whole') /\ TimesSound'
  BY <1>1, <1>2 DEF Faultless, TimesSound
<1>5. AdmittedWhole'
  BY <1>1, <1>2 DEF Faultless, AdmittedWhole
<1> QED
  BY <1>3, <1>4, <1>5 DEF Faultless

\* A step that follows a fault, or is one, has nothing to keep.
LEMMA StepWhole ==
  ASSUME TypeOK, Sound, TypeOK', WholeInv, [Next]_vars
  PROVE  WholeInv'
<1> SUFFICES ASSUME faults' = 0 PROVE Faultless'
  BY DEF WholeInv
<1>1. CASE HostFails
  BY <1>1 DEF TypeOK, HostFails
<1>2. ASSUME ~HostFails PROVE faults = 0 /\ Faultless
  <2>1. faults' = faults
    BY <1>2 DEF Next, Begin, WriteLine, AdmitAllowed, AdmitCensored, CountAction,
                WriteCount, MarkDispatched, Close, Finalize, WriteFinal, vars
  <2> QED
    BY <2>1 DEF WholeInv
<1>3. ASSUME faults = 0, Faultless, ~HostFails PROVE Faultless'
  <2>1. ASSUME NEW l \in Logical, NEW n \in Attempt, NEW c \in Context,
               NEW retryOf \in Occurrence \cup {None},
               NEW parent \in Occurrence \cup {None}, NEW policy \in Policy,
               Begin(l, n, c, retryOf, parent, policy)
        PROVE  Faultless'
    BY <1>3, <2>1, BeginWhole
  <2>2. CASE WriteLine
    BY <1>3, <2>2, WriteLineWhole
  <2>3. CASE AdmitAllowed
    BY <1>3, <2>3, AdmitAllowedWhole
  <2>4. CASE AdmitCensored
    BY <1>3, <2>4, AdmitCensoredWhole
  <2>5. CASE CountAction
    BY <1>3, <2>5, CountActionWhole
  <2>6. CASE WriteCount
    BY <1>3, <2>6, WriteCountWhole
  <2>7. ASSUME NEW o \in Occurrence, MarkDispatched(o) PROVE Faultless'
    BY <1>3, <2>7, MarkDispatchedWhole
  <2>8. ASSUME NEW o \in Occurrence, NEW outcome \in Terminal, Close(o, outcome)
        PROVE  Faultless'
    BY <1>3, <2>8, CloseWhole
  <2>9. CASE Finalize
    BY <1>3, <2>9, FinalizeWhole
  <2>10. CASE WriteFinal
    BY <1>3, <2>10, WriteFinalWhole
  <2>11. CASE UNCHANGED vars
    BY <1>3, <2>11, StutterWhole
  <2> QED
    BY <1>3, <2>1, <2>2, <2>3, <2>4, <2>5, <2>6, <2>7, <2>8, <2>9, <2>10, <2>11 DEF Next
<1> QED
  BY <1>1, <1>2, <1>3

THEOREM WholeInvariance == Spec => []WholeInv
<1>1. Init => WholeInv
  BY InitWhole DEF WholeInv
<1>2. IInv /\ IInv' /\ WholeInv /\ [Next]_vars => WholeInv'
  BY StepWhole DEF IInv
<1> QED
  BY <1>1, <1>2, Invariance, PTL DEF Spec

(***************************************************************************)
(* Completeness of the verdict: a bundle finalized without a fault of the  *)
(* host, none of whose operations ended in an identity mismatch, passes    *)
(* every check of the verifier, whatever the application recorded and in   *)
(* whatever order it closed its operations.                                *)
(***************************************************************************)
LEMMA WholeVerifies ==
  ASSUME TypeOK, Sound, WholeInv
  PROVE  FinalizedVerifies
<1> SUFFICES ASSUME disk.status = "finalized", faults = 0,
                    \A i \in Actions(log) : log[i].outcome # "identity_mismatch"
             PROVE  Verifies
  BY DEF FinalizedVerifies
<1>1. manifest.status = "finalized" /\ Live = {} /\ call.stage = "idle" /\ call.frame = None
  BY DEF Sound, SealSound, CallSound
<1>2. call = Idle
  BY <1>1 DEF TypeOK, Idle
<1>3. /\ CountsExact /\ LogWhole(log) /\ TimesSound /\ AdmittedWhole
      /\ Whole = log /\ Deciding = {} /\ log \in Seq(Frame) /\ ~torn /\ disk = manifest
  BY <1>2, IdleCall DEF WholeInv, Faultless, TypeOK, CountsExact
<1>4. Unclosed = {}
  BY <1>1, UnclosedIsLive DEF Unclosed
<1>5. Cardinality(Recorded) = manifest.operations /\ manifest.operations # 0
  BY <1>1, <1>3 DEF CountsExact, TimesSound, TypeOK, Manifest
<1>6. log # <<>>
  <2>1. Recorded # {}
    BY <1>5, FS_EmptySet
  <2> QED
    BY <2>1 DEF Recorded, RecordedIn, Actions
<1>7. ManifestSound(log, disk)
  <2>1. Len(log) \in Nat /\ Len(log) # 0 /\ DOMAIN log = 1 .. Len(log)
    BY <1>3, <1>6
  <2>2. 1 \in DOMAIN log /\ Len(log) \in DOMAIN log
    BY <2>1
  <2>3. disk.created <= log[1].observed /\ log[Len(log)].observed <= disk.finalized
    BY <1>1, <1>3, <2>2 DEF TimesSound
  <2>4. disk.frames = Len(log) /\ disk.operations = Cardinality(RecordedIn(log))
    BY <1>3, <1>5 DEF CountsExact, Recorded
  <2> QED
    BY <1>6, <2>3, <2>4 DEF ManifestSound
<1>8. \A i, j \in DOMAIN log :
        log[i].kind = log[j].kind /\ log[i].occurrence = log[j].occurrence => i = j
  BY <1>3 DEF LogWhole
<1>9. \A j \in Actions(log) : \E i \in Decisions(log) :
        i < j /\ log[i].occurrence = log[j].occurrence /\ Agree(log[i], log[j])
  BY <1>3 DEF LogWhole
<1>10. ASSUME NEW i \in Decisions(log)
       PROVE  \E j \in Actions(log) :
                log[j].occurrence = log[i].occurrence /\ PairSound(log, i, j)
  <2>1. log[i] \in admitted
    BY <1>3 DEF AdmittedWhole
  <2>2. log[i].occurrence \in RecordedIn(log)
    BY <1>3, <1>4, <2>1 DEF AdmittedWhole
  <2>3. PICK j \in Actions(log) : log[j].occurrence = log[i].occurrence
    BY <2>2 DEF RecordedIn
  <2>4. PICK k \in Decisions(log) :
          k < j /\ log[k].occurrence = log[j].occurrence /\ Agree(log[k], log[j])
    BY <1>9
  <2>5. k = i
    BY <1>8, <2>3, <2>4 DEF Decisions
  <2>6. PairSound(log, i, j)
    BY <2>4, <2>5 DEF PairSound, Agree
  <2> QED
    BY <2>3, <2>6
<1>11. RecordedIn(log) \subseteq {log[i].occurrence : i \in Decisions(log)}
  BY <1>9 DEF RecordedIn
<1>12. PairsSound(log)
  BY <1>8, <1>10, <1>11 DEF PairsSound
<1> QED
  BY <1>3, <1>7, <1>12 DEF Verifies, BundleVerifies, LogWhole

THEOREM VerdictComplete == Spec => []FinalizedVerifies
<1>1. IInv /\ WholeInv => FinalizedVerifies
  BY WholeVerifies DEF IInv
<1> QED
  BY <1>1, Invariance, WholeInvariance, PTL

(***************************************************************************)
(* Without a fault of the host the open count between calls is that of the *)
(* handles the application still holds unclosed: closing them all is       *)
(* enough for finalize to go through.                                      *)
(***************************************************************************)
THEOREM NoneIsStranded == Spec => []NothingStranded
<1>1. TypeOK /\ WholeInv => NothingStranded
  <2> SUFFICES ASSUME TypeOK, WholeInv, faults = 0, call = Idle
               PROVE  open = Cardinality(Unclosed)
    BY DEF NothingStranded, Unclosed
  <2> QED
    BY IdleCall, CountsFinite DEF WholeInv, Faultless, CountsExact
<1> QED
  BY <1>1, TypeCorrect, WholeInvariance, PTL

-----------------------------------------------------------------------------
(***************************************************************************)
(* What the application was handed is in the log, whatever fails, and a    *)
(* log that verifies holds nothing else.                                   *)
(***************************************************************************)
LEMMA LoggedKept ==
  ASSUME Logged, UNCHANGED <<admitted, handle, started, log>>,
         call' = call \/ call'.stage # "manifest"
  PROVE  Logged'
BY DEF Logged

LEMMA EmitIsLine ==
  ASSUME NEW f, Emit(f) PROVE call'.stage # "manifest"
BY DEF Emit, Idle

LEMMA LoggedStep ==
  ASSUME TypeOK, Sound, Logged, [Next]_vars
  PROVE  Logged'
<1>0. /\ log \in Seq(Frame) /\ handle \in [Occurrence -> HandleState]
      /\ started \in [Occurrence -> Time \cup {NoTime}] /\ Idle.stage = "idle"
  BY IdleTyped DEF TypeOK
<1>1. ASSUME NEW l \in Logical, NEW n \in Attempt, NEW c \in Context,
             NEW retryOf \in Occurrence \cup {None},
             NEW parent \in Occurrence \cup {None}, NEW policy \in Policy,
             Begin(l, n, c, retryOf, parent, policy)
      PROVE  Logged'
  BY <1>1, EmitIsLine, LoggedKept DEF Begin, diskVars
<1>2. CASE WriteLine
  <2>1. /\ call.frame \in Frame /\ log' = Append(log, call.frame)
        /\ call'.stage = "manifest" /\ call'.frame = call.frame
        /\ UNCHANGED <<admitted, handle, started>>
    BY <1>2 DEF WriteLine, TypeOK
  <2>2. /\ DOMAIN log' = DOMAIN log \cup {Len(log) + 1} /\ log'[Len(log) + 1] = call.frame
        /\ \A i \in DOMAIN log : log'[i] = log[i]
    BY <1>0, <2>1, FramesKept
  <2>3. \A i \in Decisions(log) : i \in Decisions(log') /\ log'[i] = log[i]
    BY <2>2 DEF Decisions
  <2>4. call.frame.kind = "decision" => Len(log) + 1 \in Decisions(log')
    BY <2>2 DEF Decisions
  <2>5. \A x : (\E i \in Decisions(log) : log[i] = x) =>
                 \E i \in Decisions(log') : log'[i] = x
    BY <2>3
  <2>6. \A x \in admitted' : \E i \in Decisions(log') : log'[i] = x
    BY <2>1, <2>5 DEF Logged
  <2>7. call'.frame.kind = "decision" => \E i \in Decisions(log') : log'[i] = call'.frame
    BY <2>1, <2>2, <2>4
  <2> QED BY <2>1, <2>6, <2>7 DEF Logged
<1>3. CASE AdmitAllowed
  <2>1. /\ admitted' = admitted \cup {call.frame} /\ UNCHANGED <<started, log>>
        /\ handle' = [handle EXCEPT ![call.frame.occurrence] = "open"]
        /\ call' = Idle /\ call.stage = "manifest" /\ call.frame.kind = "decision"
    BY <1>3 DEF AdmitAllowed
  <2>2. \A o \in Occurrence : handle'[o] \in {handle[o], "open"}
    BY <1>0, <2>1
  <2> QED BY <1>0, <2>1, <2>2 DEF Logged
<1>4. CASE AdmitCensored
  <2>1. /\ admitted' = admitted \cup {call.frame} /\ UNCHANGED <<started, log, handle>>
        /\ call.stage = "manifest" /\ call.frame.kind = "decision"
        /\ call'.stage # "manifest"
    BY <1>4, EmitIsLine DEF AdmitCensored
  <2> QED BY <2>1 DEF Logged
<1>5. CASE CountAction
  BY <1>5, LoggedKept DEF CountAction
<1>6. CASE WriteCount
  <2>1. /\ UNCHANGED <<admitted, started, log>> /\ call' = Idle
        /\ handle' \in {handle, [handle EXCEPT ![call.frame.occurrence] = "censored"]}
    BY <1>6 DEF WriteCount
  <2>2. \A o \in Occurrence : handle'[o] \in {handle[o], "censored"}
    BY <1>0, <2>1
  <2> QED BY <1>0, <2>1, <2>2 DEF Logged
<1>7. ASSUME NEW o \in Occurrence, MarkDispatched(o) PROVE Logged'
  <2>1. PICK t \in Time : started' = [started EXCEPT ![o] = t]
    BY <1>7, ReadingTyped DEF MarkDispatched, TypeOK
  <2>2. UNCHANGED <<admitted, call, log>> /\ handle' = [handle EXCEPT ![o] = "dispatched"]
    BY <1>7 DEF MarkDispatched, diskVars
  <2>3. \A x \in Occurrence : handle'[x] \in {"dispatched", "closed"} => started'[x] # NoTime
    BY <1>0, <2>1, <2>2, TimeIsNatural DEF Logged
  <2> QED BY <2>2, <2>3 DEF Logged
<1>8. ASSUME NEW o \in Occurrence, NEW outcome \in Terminal, Close(o, outcome) PROVE Logged'
  <2>1. /\ UNCHANGED <<admitted, started, log>> /\ handle[o] = "dispatched"
        /\ handle' = [handle EXCEPT ![o] = "closed"]
        /\ call' = call \/ call'.stage # "manifest"
    BY <1>8, EmitIsLine DEF Close, diskVars
  <2>2. \A x \in Occurrence : handle'[x] \in {"dispatched", "closed"} => started'[x] # NoTime
    BY <1>0, <2>1 DEF Logged
  <2> QED BY <2>1, <2>2 DEF Logged
<1>9. CASE Finalize \/ WriteFinal \/ HostFails
  <2>1. UNCHANGED <<admitted, handle, started, log>> /\ call'.stage # "manifest"
    <3>1. CASE Finalize
      BY <3>1 DEF Finalize, diskVars
    <3>2. CASE WriteFinal
      BY <1>0, <3>2 DEF WriteFinal
    <3>3. CASE HostFails
      BY <1>0, <3>3 DEF HostFails
    <3> QED BY <1>9, <3>1, <3>2, <3>3
  <2> QED BY <2>1, LoggedKept
<1>10. CASE UNCHANGED vars
  BY <1>10, LoggedKept DEF vars, recorderVars, diskVars
<1> QED
  BY <1>1, <1>2, <1>3, <1>4, <1>5, <1>6, <1>7, <1>8, <1>9, <1>10 DEF Next

LEMMA LoggedHolds == Spec => []Logged
<1>1. Init => Logged
  BY DEF Init, Logged, Idle
<1> QED
  BY <1>1, LoggedStep, Invariance, PTL DEF Spec, IInv

LEMMA AdmittedIsLogged ==
  ASSUME TypeOK, Sound, Logged, Verifies
  PROVE  admitted = {log[i] : i \in Decisions(log)}
<1>1. \A i, j \in DOMAIN log :
        log[i].kind = log[j].kind /\ log[i].occurrence = log[j].occurrence => i = j
  BY DEF Verifies, BundleVerifies, PairsSound
<1>2. ASSUME NEW i \in Decisions(log) PROVE log[i] \in admitted
  <2>1. log[i].occurrence \in Recorded
    BY DEF Verifies, BundleVerifies, PairsSound, Recorded, RecordedIn
  <2>2. PICK d \in admitted : d.occurrence = log[i].occurrence
    BY <2>1 DEF Sound, HandlesSound, Known
  <2>3. PICK j \in Decisions(log) : log[j] = d
    BY DEF Logged
  <2>4. i = j
    BY <1>1, <2>2, <2>3 DEF Decisions
  <2> QED BY <2>3, <2>4
<1> QED
  BY <1>2 DEF Logged

-----------------------------------------------------------------------------
(***************************************************************************)
(* One visit of the actor graph.  In a log that verifies, the decisions    *)
(* met so far become those up to the next one; its own action, and its     *)
(* parent with its action and its depth, are there.                        *)
(***************************************************************************)
LEMMA CountEffect ==
  ASSUME NEW rows \in [Context -> ActorRow], NEW c \in Context,
         NEW field \in {"operations", "dispatched", "roots", "inbound", "outbound"}
  PROVE  LET n == Count(rows, c, field) IN
         /\ n \in [Context -> ActorRow]
         /\ \A x \in Context :
              /\ n[x].operations = rows[x].operations + (IF x = c /\ field = "operations" THEN 1 ELSE 0)
              /\ n[x].dispatched = rows[x].dispatched + (IF x = c /\ field = "dispatched" THEN 1 ELSE 0)
              /\ n[x].roots = rows[x].roots + (IF x = c /\ field = "roots" THEN 1 ELSE 0)
              /\ n[x].inbound = rows[x].inbound + (IF x = c /\ field = "inbound" THEN 1 ELSE 0)
              /\ n[x].outbound = rows[x].outbound + (IF x = c /\ field = "outbound" THEN 1 ELSE 0)
<1>1. CASE field = "operations"
  BY <1>1 DEF Count, ActorRow
<1>2. CASE field = "dispatched"
  BY <1>2 DEF Count, ActorRow
<1>3. CASE field = "roots"
  BY <1>3 DEF Count, ActorRow
<1>4. CASE field = "inbound"
  BY <1>4 DEF Count, ActorRow
<1>5. CASE field = "outbound"
  BY <1>5 DEF Count, ActorRow
<1> QED
  BY <1>1, <1>2, <1>3, <1>4, <1>5

\* What the visit of the next decision finds.
LEMMA NextMet ==
  ASSUME NEW l \in Seq(Frame), PairsSound(l), LineageSound(l), NEW s,
         \A j \in Actions(l) : l[j].started = s[l[j].occurrence],
         NEW at \in Nat, NEW i \in NextDecision(l, at)
  PROVE  LET d == l[i] IN
         /\ i \in Nat /\ d \in Decision
         /\ Met(l, i) = Met(l, at) \cup {d}
         /\ \A x \in Met(l, at) : x \in Decision /\ x.occurrence # d.occurrence
         /\ ActionsOf(l, d.occurrence) # {}
         /\ (\E j \in ActionsOf(l, d.occurrence) : l[j].started # NoTime)
              <=> s[d.occurrence] # NoTime
         /\ d.parent # None =>
              /\ d.parent \in {x.occurrence : x \in Met(l, at)}
              /\ ActionsOf(l, d.parent) # {}
              /\ l[DecisionOf(l, d.parent)].context \in Context
<1> DEFINE d == l[i]
<1>1. /\ i \in DOMAIN l /\ i \in Nat /\ i > at /\ d \in Decision /\ d.kind = "decision"
      /\ \A j \in Decisions(l) : j > at => i <= j
      /\ \A j \in Decisions(l) : j \in Nat /\ j \in DOMAIN l /\ l[j] \in Decision
      /\ Decisions(l) \subseteq Nat
  <2>1. DOMAIN l \subseteq Nat /\ \A j \in DOMAIN l : l[j] \in Frame
    OBVIOUS
  <2> QED BY <2>1, FrameKinds DEF NextDecision, Decisions
<1>2. \A j, k \in DOMAIN l :
        l[j].kind = l[k].kind /\ l[j].occurrence = l[k].occurrence => j = k
  BY DEF PairsSound
<1>3. \A j \in Decisions(l) : j <= i <=> j <= at \/ j = i
  BY <1>1
<1>4. Met(l, i) = Met(l, at) \cup {d}
  BY <1>1, <1>3 DEF Met, NextDecision
<1>5. \A x \in Met(l, at) : x \in Decision /\ x.occurrence # d.occurrence
  BY <1>1, <1>2 DEF Met, Decisions
<1>6. ASSUME NEW k \in Decisions(l) PROVE ActionsOf(l, l[k].occurrence) # {}
  BY DEF PairsSound, ActionsOf, Actions
<1>7. i \in Decisions(l)
  BY DEF NextDecision
<1>8. ActionsOf(l, d.occurrence) # {}
  BY <1>6, <1>7
<1>9. \A j \in ActionsOf(l, d.occurrence) : l[j].started = s[d.occurrence]
  BY DEF ActionsOf, Actions
<1>10. ASSUME d.parent # None
       PROVE  /\ d.parent \in {x.occurrence : x \in Met(l, at)}
              /\ ActionsOf(l, d.parent) # {}
              /\ l[DecisionOf(l, d.parent)].context \in Context
  <2>1. PICK p \in Decisions(l) : p < i /\ l[p].occurrence = d.parent
    BY <1>7, <1>10 DEF LineageSound
  <2>2. p <= at /\ l[p] \in Met(l, at)
    BY <1>1, <2>1 DEF Met
  <2>3. DecisionOf(l, d.parent) \in Decisions(l)
    BY <2>1 DEF DecisionOf, Decisions
  <2>4. l[DecisionOf(l, d.parent)] \in Decision
    BY <1>1, <2>3
  <2> QED BY <1>6, <2>1, <2>2, <2>4 DEF Decision
<1> QED
  BY <1>1, <1>4, <1>5, <1>8, <1>9, <1>10

\* What a row gains when one more decision is met, and maybe one more edge between two
\* actors; and so every row.
RowGrown(s, g, h, d, e, c) ==
  /\ h.rows[c].operations = g.rows[c].operations + (IF c = d.context THEN 1 ELSE 0)
  /\ h.rows[c].dispatched = g.rows[c].dispatched
       + (IF c = d.context /\ s[d.occurrence] # NoTime THEN 1 ELSE 0)
  /\ h.rows[c].roots = g.rows[c].roots + (IF c = d.context /\ d.parent = None THEN 1 ELSE 0)
  /\ h.rows[c].inbound = g.rows[c].inbound
       + (IF e \in h.edges /\ Crosses(e) /\ c = e.target THEN 1 ELSE 0)
  /\ h.rows[c].outbound = g.rows[c].outbound
       + (IF e \in h.edges /\ Crosses(e) /\ c = e.source THEN 1 ELSE 0)

RowsGrown(s, g, h, d, e) == \A c \in Context : RowGrown(s, g, h, d, e, c)

LEMMA RowVisited ==
  ASSUME NEW A, IsFiniteSet(A), NEW d, d \notin A, NEW s,
         NEW g, IsFiniteSet(g.edges), RowsSound(s, g, A),
         NEW e, e \notin g.edges,
         NEW h, h.edges = g.edges \/ h.edges = g.edges \cup {e},
         RowsGrown(s, g, h, d, e)
  PROVE  RowsSound(s, h, A \cup {d})
<1> DEFINE Of(m, c) == {x \in m : x.context = c}
           Dispatched(m, c) == {x \in Of(m, c) : s[x.occurrence] # NoTime}
           Roots(m, c) == {x \in Of(m, c) : x.parent = None}
           Across(m) == {x \in m : Crosses(x)}
           In(m, c) == {x \in Across(m) : x.target = c}
           Out(m, c) == {x \in Across(m) : x.source = c}
           N == A \cup {d}
           E == g.edges
<1> SUFFICES ASSUME NEW c \in Context
             PROVE  LET row == h.rows[c] IN
                    /\ row.operations = Cardinality(Of(N, c))
                    /\ row.dispatched = Cardinality(Dispatched(N, c))
                    /\ row.roots = Cardinality(Roots(N, c))
                    /\ row.inbound = Cardinality(In(h.edges, c))
                    /\ row.outbound = Cardinality(Out(h.edges, c))
  BY DEF RowsSound
<1>2. /\ g.rows[c].operations = Cardinality(Of(A, c))
      /\ g.rows[c].dispatched = Cardinality(Dispatched(A, c))
      /\ g.rows[c].roots = Cardinality(Roots(A, c))
      /\ g.rows[c].inbound = Cardinality(In(E, c))
      /\ g.rows[c].outbound = Cardinality(Out(E, c))
  BY DEF RowsSound
<1>3. h.rows[c].operations = Cardinality(Of(N, c))
  <2> DEFINE P == c = d.context
             T == Of(A, c)
             U == Of(N, c)
  <2>1. T \subseteq A /\ U = IF P THEN T \cup {d} ELSE T
    OBVIOUS
  <2>2. h.rows[c].operations = Cardinality(T) + (IF P THEN 1 ELSE 0)
    BY <1>2 DEF RowsGrown, RowGrown
  <2> HIDE DEF P, T, U
  <2>3. IsFiniteSet(T) /\ d \notin T
    BY <2>1, FS_Subset
  <2>4. Cardinality(T \cup {d}) = Cardinality(T) + 1 /\ Cardinality(T) \in Nat
    BY <2>3, FS_AddElement, FS_CardinalityType
  <2>5. Cardinality(U) = Cardinality(T) + (IF P THEN 1 ELSE 0)
    BY <2>1, <2>4
  <2> QED BY <2>2, <2>5 DEF U
<1>4. h.rows[c].dispatched = Cardinality(Dispatched(N, c))
  <2> DEFINE P == c = d.context /\ s[d.occurrence] # NoTime
             T == Dispatched(A, c)
             U == Dispatched(N, c)
  <2>1. T \subseteq A /\ U = IF P THEN T \cup {d} ELSE T
    OBVIOUS
  <2>2. h.rows[c].dispatched = Cardinality(T) + (IF P THEN 1 ELSE 0)
    BY <1>2 DEF RowsGrown, RowGrown
  <2> HIDE DEF P, T, U
  <2>3. IsFiniteSet(T) /\ d \notin T
    BY <2>1, FS_Subset
  <2>4. Cardinality(T \cup {d}) = Cardinality(T) + 1 /\ Cardinality(T) \in Nat
    BY <2>3, FS_AddElement, FS_CardinalityType
  <2>5. Cardinality(U) = Cardinality(T) + (IF P THEN 1 ELSE 0)
    BY <2>1, <2>4
  <2> QED BY <2>2, <2>5 DEF U
<1>5. h.rows[c].roots = Cardinality(Roots(N, c))
  <2> DEFINE P == c = d.context /\ d.parent = None
             T == Roots(A, c)
             U == Roots(N, c)
  <2>1. T \subseteq A /\ U = IF P THEN T \cup {d} ELSE T
    OBVIOUS
  <2>2. h.rows[c].roots = Cardinality(T) + (IF P THEN 1 ELSE 0)
    BY <1>2 DEF RowsGrown, RowGrown
  <2> HIDE DEF P, T, U
  <2>3. IsFiniteSet(T) /\ d \notin T
    BY <2>1, FS_Subset
  <2>4. Cardinality(T \cup {d}) = Cardinality(T) + 1 /\ Cardinality(T) \in Nat
    BY <2>3, FS_AddElement, FS_CardinalityType
  <2>5. Cardinality(U) = Cardinality(T) + (IF P THEN 1 ELSE 0)
    BY <2>1, <2>4
  <2> QED BY <2>2, <2>5 DEF U
<1>6. h.rows[c].inbound = Cardinality(In(h.edges, c))
  <2> DEFINE P == e \in h.edges /\ Crosses(e) /\ c = e.target
             T == In(E, c)
             U == In(h.edges, c)
  <2>1. T \subseteq E /\ U = IF P THEN T \cup {e} ELSE T
    OBVIOUS
  <2>2. h.rows[c].inbound = Cardinality(T) + (IF P THEN 1 ELSE 0)
    BY <1>2 DEF RowsGrown, RowGrown
  <2> HIDE DEF P, T, U
  <2>3. IsFiniteSet(T) /\ e \notin T
    BY <2>1, FS_Subset
  <2>4. Cardinality(T \cup {e}) = Cardinality(T) + 1 /\ Cardinality(T) \in Nat
    BY <2>3, FS_AddElement, FS_CardinalityType
  <2>5. Cardinality(U) = Cardinality(T) + (IF P THEN 1 ELSE 0)
    BY <2>1, <2>4
  <2> QED BY <2>2, <2>5 DEF U
<1>7. h.rows[c].outbound = Cardinality(Out(h.edges, c))
  <2> DEFINE P == e \in h.edges /\ Crosses(e) /\ c = e.source
             T == Out(E, c)
             U == Out(h.edges, c)
  <2>1. T \subseteq E /\ U = IF P THEN T \cup {e} ELSE T
    OBVIOUS
  <2>2. h.rows[c].outbound = Cardinality(T) + (IF P THEN 1 ELSE 0)
    BY <1>2 DEF RowsGrown, RowGrown
  <2> HIDE DEF P, T, U
  <2>3. IsFiniteSet(T) /\ e \notin T
    BY <2>1, FS_Subset
  <2>4. Cardinality(T \cup {e}) = Cardinality(T) + 1 /\ Cardinality(T) \in Nat
    BY <2>3, FS_AddElement, FS_CardinalityType
  <2>5. Cardinality(U) = Cardinality(T) + (IF P THEN 1 ELSE 0)
    BY <2>1, <2>4
  <2> QED BY <2>2, <2>5 DEF U
<1> QED
  BY <1>3, <1>4, <1>5, <1>6, <1>7

\* Both rows of a decision: one more operation, and one dispatched if it was.
LEMMA OperationCounted ==
  ASSUME NEW rows \in [Context -> ActorRow], NEW c \in Context, NEW b \in BOOLEAN
  PROVE  LET first == Count(rows, c, "operations")
             n == IF b THEN Count(first, c, "dispatched") ELSE first
         IN
         /\ n \in [Context -> ActorRow]
         /\ \A x \in Context :
              /\ n[x].operations = rows[x].operations + (IF x = c THEN 1 ELSE 0)
              /\ n[x].dispatched = rows[x].dispatched + (IF x = c /\ b THEN 1 ELSE 0)
              /\ n[x].roots = rows[x].roots
              /\ n[x].inbound = rows[x].inbound
              /\ n[x].outbound = rows[x].outbound
<1> DEFINE first == Count(rows, c, "operations")
           n == IF b THEN Count(first, c, "dispatched") ELSE first
<1>1. \A x \in Context : rows[x] \in ActorRow
  OBVIOUS
<1>2. /\ first \in [Context -> ActorRow]
      /\ \A x \in Context :
           /\ first[x].operations = rows[x].operations + (IF x = c THEN 1 ELSE 0)
           /\ first[x].dispatched = rows[x].dispatched + 0
           /\ first[x].roots = rows[x].roots + 0
           /\ first[x].inbound = rows[x].inbound + 0
           /\ first[x].outbound = rows[x].outbound + 0
  BY CountEffect
<1> HIDE DEF first
<1>3. \A x \in Context : first[x] \in ActorRow
  BY <1>2
<1>4. CASE b
  <2>1. n = Count(first, c, "dispatched")
    BY <1>4
  <2> HIDE DEF n
  <2>2. /\ n \in [Context -> ActorRow]
        /\ \A x \in Context :
             /\ n[x].operations = first[x].operations + 0
             /\ n[x].dispatched = first[x].dispatched + (IF x = c THEN 1 ELSE 0)
             /\ n[x].roots = first[x].roots + 0
             /\ n[x].inbound = first[x].inbound + 0
             /\ n[x].outbound = first[x].outbound + 0
    BY <1>2, <2>1, CountEffect
  <2>3. \A x \in Context :
          /\ n[x].operations = rows[x].operations + (IF x = c THEN 1 ELSE 0)
          /\ n[x].dispatched = rows[x].dispatched + (IF x = c /\ b THEN 1 ELSE 0)
          /\ n[x].roots = rows[x].roots
          /\ n[x].inbound = rows[x].inbound
          /\ n[x].outbound = rows[x].outbound
    BY <1>1, <1>2, <1>3, <1>4, <2>2 DEF ActorRow
  <2> QED BY <2>2, <2>3 DEF n, first
<1>5. CASE ~b
  <2>1. n = first
    BY <1>5
  <2> HIDE DEF n
  <2>2. \A x \in Context :
          /\ n[x].operations = rows[x].operations + (IF x = c THEN 1 ELSE 0)
          /\ n[x].dispatched = rows[x].dispatched + (IF x = c /\ b THEN 1 ELSE 0)
          /\ n[x].roots = rows[x].roots
          /\ n[x].inbound = rows[x].inbound
          /\ n[x].outbound = rows[x].outbound
    BY <1>1, <1>2, <1>3, <1>5, <2>1 DEF ActorRow
  <2> QED BY <1>2, <2>1, <2>2 DEF n, first
<1> QED
  BY <1>4, <1>5

\* The rows of a root, and those at the ends of an edge.
LEMMA RootCounted ==
  ASSUME NEW rows \in [Context -> ActorRow], NEW c \in Context
  PROVE  LET n == Count(rows, c, "roots") IN
         /\ n \in [Context -> ActorRow]
         /\ \A x \in Context :
              /\ n[x].operations = rows[x].operations
              /\ n[x].dispatched = rows[x].dispatched
              /\ n[x].roots = rows[x].roots + (IF x = c THEN 1 ELSE 0)
              /\ n[x].inbound = rows[x].inbound
              /\ n[x].outbound = rows[x].outbound
<1> DEFINE n == Count(rows, c, "roots")
<1>1. \A x \in Context : rows[x] \in ActorRow
  OBVIOUS
<1>2. /\ n \in [Context -> ActorRow]
      /\ \A x \in Context :
           /\ n[x].operations = rows[x].operations + 0
           /\ n[x].dispatched = rows[x].dispatched + 0
           /\ n[x].roots = rows[x].roots + (IF x = c THEN 1 ELSE 0)
           /\ n[x].inbound = rows[x].inbound + 0
           /\ n[x].outbound = rows[x].outbound + 0
  BY CountEffect
<1> HIDE DEF n
<1>3. \A x \in Context :
        /\ n[x].operations = rows[x].operations
        /\ n[x].dispatched = rows[x].dispatched
        /\ n[x].roots = rows[x].roots + (IF x = c THEN 1 ELSE 0)
        /\ n[x].inbound = rows[x].inbound
        /\ n[x].outbound = rows[x].outbound
  BY <1>1, <1>2 DEF ActorRow
<1> QED
  BY <1>2, <1>3 DEF n

LEMMA EdgeCounted ==
  ASSUME NEW rows \in [Context -> ActorRow], NEW from \in Context, NEW to \in Context,
         NEW b \in BOOLEAN
  PROVE  LET n == IF b THEN Count(Count(rows, from, "outbound"), to, "inbound") ELSE rows IN
         /\ n \in [Context -> ActorRow]
         /\ \A x \in Context :
              /\ n[x].operations = rows[x].operations
              /\ n[x].dispatched = rows[x].dispatched
              /\ n[x].roots = rows[x].roots
              /\ n[x].inbound = rows[x].inbound + (IF b /\ x = to THEN 1 ELSE 0)
              /\ n[x].outbound = rows[x].outbound + (IF b /\ x = from THEN 1 ELSE 0)
<1> DEFINE first == Count(rows, from, "outbound")
           n == IF b THEN Count(first, to, "inbound") ELSE rows
<1>1. \A x \in Context : rows[x] \in ActorRow
  OBVIOUS
<1>2. CASE b
  <2>1. /\ first \in [Context -> ActorRow]
        /\ \A x \in Context :
             /\ first[x].operations = rows[x].operations + 0
             /\ first[x].dispatched = rows[x].dispatched + 0
             /\ first[x].roots = rows[x].roots + 0
             /\ first[x].inbound = rows[x].inbound + 0
             /\ first[x].outbound = rows[x].outbound + (IF x = from THEN 1 ELSE 0)
    BY CountEffect
  <2>2. n = Count(first, to, "inbound")
    BY <1>2
  <2> HIDE DEF first, n
  <2>3. \A x \in Context : first[x] \in ActorRow
    BY <2>1
  <2>4. /\ n \in [Context -> ActorRow]
        /\ \A x \in Context :
             /\ n[x].operations = first[x].operations + 0
             /\ n[x].dispatched = first[x].dispatched + 0
             /\ n[x].roots = first[x].roots + 0
             /\ n[x].inbound = first[x].inbound + (IF x = to THEN 1 ELSE 0)
             /\ n[x].outbound = first[x].outbound + 0
    BY <2>1, <2>2, CountEffect
  <2>5. \A x \in Context :
          /\ n[x].operations = rows[x].operations
          /\ n[x].dispatched = rows[x].dispatched
          /\ n[x].roots = rows[x].roots
          /\ n[x].inbound = rows[x].inbound + (IF b /\ x = to THEN 1 ELSE 0)
          /\ n[x].outbound = rows[x].outbound + (IF b /\ x = from THEN 1 ELSE 0)
    BY <1>1, <1>2, <2>1, <2>3, <2>4 DEF ActorRow
  <2> QED BY <2>4, <2>5 DEF n, first
<1>3. CASE ~b
  <2>1. n = rows
    BY <1>3
  <2> HIDE DEF n
  <2>2. \A x \in Context :
          /\ n[x].operations = rows[x].operations
          /\ n[x].dispatched = rows[x].dispatched
          /\ n[x].roots = rows[x].roots
          /\ n[x].inbound = rows[x].inbound + (IF b /\ x = to THEN 1 ELSE 0)
          /\ n[x].outbound = rows[x].outbound + (IF b /\ x = from THEN 1 ELSE 0)
    BY <1>1, <1>3, <2>1 DEF ActorRow
  <2> QED BY <2>1, <2>2 DEF n, first
<1> QED
  BY <1>2, <1>3

\* The depths, when one more decision is met.
LEMMA Deepened ==
  ASSUME NEW A, NEW d, \A x \in A : x.occurrence # d.occurrence,
         NEW depth \in [{x.occurrence : x \in A} -> Nat],
         \A x \in A : x.parent # None =>
           x.parent \in DOMAIN depth /\ depth[x.occurrence] = depth[x.parent] + 1,
         NEW n \in Nat,
         d.parent # None => d.parent \in DOMAIN depth /\ n = depth[d.parent] + 1
  PROVE  LET deep == [o \in DOMAIN depth \cup {d.occurrence} |->
                        IF o = d.occurrence THEN n ELSE depth[o]]
         IN
         /\ deep \in [{x.occurrence : x \in A \cup {d}} -> Nat]
         /\ \A x \in A \cup {d} : x.parent # None =>
              x.parent \in DOMAIN deep /\ deep[x.occurrence] = deep[x.parent] + 1
<1> DEFINE old == {x.occurrence : x \in A}
           deep == [o \in old \cup {d.occurrence} |-> IF o = d.occurrence THEN n ELSE depth[o]]
<1>1. DOMAIN depth = old /\ d.occurrence \notin old /\ \A x \in A : x.occurrence \in old
  OBVIOUS
<1>2. {x.occurrence : x \in A \cup {d}} = old \cup {d.occurrence}
  OBVIOUS
<1>3. deep \in [old \cup {d.occurrence} -> Nat]
  BY <1>1
<1>4. deep[d.occurrence] = n /\ \A o \in old : deep[o] = depth[o]
  BY <1>1
<1>5. DOMAIN deep = old \cup {d.occurrence}
  OBVIOUS
<1> HIDE DEF deep, old
<1>6. \A x \in A \cup {d} : x.parent # None =>
        x.parent \in DOMAIN deep /\ deep[x.occurrence] = deep[x.parent] + 1
  BY <1>1, <1>4, <1>5
<1> QED
  BY <1>1, <1>2, <1>3, <1>6 DEF deep

LEMMA VisitSound ==
  ASSUME NEW l \in Seq(Frame), PairsSound(l), LineageSound(l), NEW s,
         \A j \in Actions(l) : l[j].started = s[l[j].occurrence],
         NEW at \in Nat, NEW i \in NextDecision(l, at),
         NEW g, GraphSound(l, s, g, Met(l, at))
  PROVE  GraphSound(l, s, Visit(l, g, l[i]), Met(l, i))
<1> DEFINE d == l[i]
           A == Met(l, at)
           e == EdgeTo(l, d)
           Dispatched == \E j \in ActionsOf(l, d.occurrence) : l[j].started # NoTime
           first == Count(g.rows, d.context, "operations")
           rows == IF Dispatched THEN Count(first, d.context, "dispatched") ELSE first
           Deep(n) == [o \in DOMAIN g.depth \cup {d.occurrence} |->
                         IF o = d.occurrence THEN n ELSE g.depth[o]]
           h == Visit(l, g, d)
<1>1. /\ d \in Decision /\ Met(l, i) = A \cup {d}
      /\ \A x \in A : x.occurrence # d.occurrence
      /\ ActionsOf(l, d.occurrence) # {}
      /\ Dispatched <=> s[d.occurrence] # NoTime
      /\ d.parent # None =>
           /\ d.parent \in {x.occurrence : x \in A}
           /\ ActionsOf(l, d.parent) # {}
           /\ l[DecisionOf(l, d.parent)].context \in Context
  BY NextMet
<1> HIDE DEF d
<1>2. d.context \in Context /\ d \notin A
  BY <1>1 DEF Decision
<1>3. /\ g = [edges |-> g.edges, depth |-> g.depth, rows |-> g.rows, threw |-> FALSE]
      /\ IsFiniteSet(A) /\ IsFiniteSet(g.edges)
      /\ g.edges = {EdgeTo(l, x) : x \in {y \in A : y.parent # None}}
      /\ g.depth \in [{x.occurrence : x \in A} -> Nat]
      /\ \A x \in A : x.parent # None =>
           x.parent \in DOMAIN g.depth /\ g.depth[x.occurrence] = g.depth[x.parent] + 1
      /\ g.rows \in [Context -> ActorRow]
      /\ RowsSound(s, g, A)
  BY DEF GraphSound
<1> HIDE DEF A
<1>4. IsFiniteSet(A \cup {d}) /\ IsFiniteSet(g.edges \cup {e})
  BY <1>3, FS_AddElement
<1>5. /\ e.child = d.occurrence /\ e.target = d.context
      /\ e.source = l[DecisionOf(l, d.parent)].context
      /\ \A x \in A : EdgeTo(l, x).child = x.occurrence
  BY DEF EdgeTo, Edge
<1>6. e \notin g.edges
  BY <1>1, <1>3, <1>5
<1>7. /\ rows \in [Context -> ActorRow]
      /\ \A c \in Context :
           /\ rows[c].operations = g.rows[c].operations + (IF c = d.context THEN 1 ELSE 0)
           /\ rows[c].dispatched = g.rows[c].dispatched
                + (IF c = d.context /\ Dispatched THEN 1 ELSE 0)
           /\ rows[c].roots = g.rows[c].roots
           /\ rows[c].inbound = g.rows[c].inbound
           /\ rows[c].outbound = g.rows[c].outbound
  <2> HIDE DEF Dispatched
  <2>1. Dispatched \in BOOLEAN
    BY DEF Dispatched
  <2> QED BY <1>2, <1>3, <2>1, OperationCounted
<1>8. \A c \in Context : g.rows[c] \in ActorRow
  BY <1>3
<1>9. CASE d.parent = None
  <2> DEFINE r == Count(rows, d.context, "roots")
             deep == Deep(0)
  <2>1. h = [g EXCEPT !.rows = r, !.depth = deep]
    BY <1>1, <1>9 DEF Visit
  <2> HIDE DEF h, rows, e, Dispatched
  <2>2. /\ r \in [Context -> ActorRow]
        /\ \A c \in Context :
             /\ r[c].operations = rows[c].operations
             /\ r[c].dispatched = rows[c].dispatched
             /\ r[c].roots = rows[c].roots + (IF c = d.context THEN 1 ELSE 0)
             /\ r[c].inbound = rows[c].inbound
             /\ r[c].outbound = rows[c].outbound
    BY <1>2, <1>7, RootCounted
  <2>3. /\ deep \in [{x.occurrence : x \in A \cup {d}} -> Nat]
        /\ \A x \in A \cup {d} : x.parent # None =>
             x.parent \in DOMAIN deep /\ deep[x.occurrence] = deep[x.parent] + 1
    <3>1. /\ g.depth \in [{x.occurrence : x \in A} -> Nat] /\ 0 \in Nat
          /\ \A x \in A : x.occurrence # d.occurrence
          /\ \A x \in A : x.parent # None =>
               x.parent \in DOMAIN g.depth /\ g.depth[x.occurrence] = g.depth[x.parent] + 1
          /\ d.parent # None => d.parent \in DOMAIN g.depth /\ 0 = g.depth[d.parent] + 1
      BY <1>1, <1>3, <1>9
    <3> QED BY ONLY <3>1, Deepened
  <2> HIDE DEF r, deep
  <2>4. h = [edges |-> g.edges, depth |-> deep, rows |-> r, threw |-> FALSE]
    <3> DEFINE ge == g.edges
               gd == g.depth
               gr == g.rows
    <3>1. g = [edges |-> ge, depth |-> gd, rows |-> gr, threw |-> FALSE]
      BY <1>3
    <3> HIDE DEF ge, gd, gr
    <3>2. h = [edges |-> ge, depth |-> deep, rows |-> r, threw |-> FALSE]
      BY ONLY <2>1, <3>1
    <3> QED BY <3>2 DEF ge
  <2>5. h.rows = r /\ h.edges = g.edges /\ h.depth = deep
    BY <2>4
  <2>6. RowsSound(s, h, A \cup {d})
    <3>1. RowsGrown(s, g, h, d, e)
      <4> SUFFICES ASSUME NEW c \in Context
                   PROVE  RowGrown(s, g, h, d, e, c)
        BY DEF RowsGrown
      <4>1. g.rows[c] \in ActorRow /\ h.rows[c] = r[c]
        BY <1>8, <2>5
      <4>2. /\ rows[c].operations = g.rows[c].operations + (IF c = d.context THEN 1 ELSE 0)
            /\ rows[c].dispatched = g.rows[c].dispatched
                 + (IF c = d.context /\ s[d.occurrence] # NoTime THEN 1 ELSE 0)
            /\ rows[c].roots = g.rows[c].roots /\ rows[c].inbound = g.rows[c].inbound
            /\ rows[c].outbound = g.rows[c].outbound
        BY <1>1, <1>7
      <4> QED BY <1>9, <1>6, <2>2, <2>5, <4>1, <4>2 DEF RowGrown, ActorRow
    <3>2. /\ IsFiniteSet(A) /\ d \notin A /\ IsFiniteSet(g.edges) /\ RowsSound(s, g, A)
          /\ e \notin g.edges /\ h.edges = g.edges
      BY <1>2, <1>3, <1>6, <2>5
    <3> HIDE DEF Deep
    <3> QED BY ONLY <3>1, <3>2, RowVisited
  <2>7. h.edges = {EdgeTo(l, x) : x \in {y \in A \cup {d} : y.parent # None}}
    BY <1>3, <1>9, <2>5
  <2>8. GraphSound(l, s, h, A \cup {d})
    BY <1>3, <1>4, <2>2, <2>3, <2>4, <2>5, <2>6, <2>7 DEF GraphSound
  <2> QED BY <1>1, <2>8 DEF h, d
<1>10. CASE d.parent # None
  <2> DEFINE n == g.depth[d.parent] + 1
             r == IF Crosses(e) THEN Count(Count(rows, e.source, "outbound"), e.target, "inbound")
                  ELSE rows
             deep == Deep(n)
  <2>1. d.parent \in DOMAIN g.depth /\ n \in Nat
    BY <1>1, <1>3, <1>10
  <2>2. h = [g EXCEPT !.edges = @ \cup {e}, !.depth = deep, !.rows = r]
    BY <1>1, <1>10, <2>1 DEF Visit, ParentMet, EdgeTo
  <2>3. e.source \in Context /\ e.target \in Context
    BY <1>1, <1>2, <1>5, <1>10
  <2>4. Crosses(e) \in BOOLEAN
    BY DEF Crosses
  <2> HIDE DEF h, rows, e, Dispatched
  <2>5. /\ r \in [Context -> ActorRow]
        /\ \A c \in Context :
             /\ r[c].operations = rows[c].operations
             /\ r[c].dispatched = rows[c].dispatched
             /\ r[c].roots = rows[c].roots
             /\ r[c].inbound = rows[c].inbound + (IF Crosses(e) /\ c = e.target THEN 1 ELSE 0)
             /\ r[c].outbound = rows[c].outbound + (IF Crosses(e) /\ c = e.source THEN 1 ELSE 0)
    BY <1>7, <2>3, <2>4, EdgeCounted
  <2>6. d.parent \in DOMAIN g.depth /\ n = g.depth[d.parent] + 1
    BY <2>1
  <2> HIDE DEF n
  <2>7. /\ deep \in [{x.occurrence : x \in A \cup {d}} -> Nat]
        /\ \A x \in A \cup {d} : x.parent # None =>
             x.parent \in DOMAIN deep /\ deep[x.occurrence] = deep[x.parent] + 1
    <3>1. /\ g.depth \in [{x.occurrence : x \in A} -> Nat] /\ n \in Nat
          /\ \A x \in A : x.occurrence # d.occurrence
          /\ \A x \in A : x.parent # None =>
               x.parent \in DOMAIN g.depth /\ g.depth[x.occurrence] = g.depth[x.parent] + 1
          /\ d.parent # None => d.parent \in DOMAIN g.depth /\ n = g.depth[d.parent] + 1
      BY <1>1, <1>3, <2>1, <2>6
    <3> QED BY ONLY <3>1, Deepened
  <2> HIDE DEF r, deep
  <2>8. h = [edges |-> g.edges \cup {e}, depth |-> deep, rows |-> r, threw |-> FALSE]
    <3> DEFINE ge == g.edges
               gd == g.depth
               gr == g.rows
    <3>1. g = [edges |-> ge, depth |-> gd, rows |-> gr, threw |-> FALSE]
      BY <1>3
    <3> HIDE DEF ge, gd, gr
    <3>2. h = [edges |-> ge \cup {e}, depth |-> deep, rows |-> r, threw |-> FALSE]
      BY ONLY <2>2, <3>1
    <3> QED BY <3>2 DEF ge
  <2>9. h.rows = r /\ h.edges = g.edges \cup {e} /\ h.depth = deep /\ e \in h.edges
    BY <2>8
  <2>10. RowsSound(s, h, A \cup {d})
    <3>1. RowsGrown(s, g, h, d, e)
      <4> SUFFICES ASSUME NEW c \in Context
                   PROVE  RowGrown(s, g, h, d, e, c)
        BY DEF RowsGrown
      <4>1. g.rows[c] \in ActorRow /\ h.rows[c] = r[c]
        BY <1>8, <2>9
      <4>2. /\ rows[c].operations = g.rows[c].operations + (IF c = d.context THEN 1 ELSE 0)
            /\ rows[c].dispatched = g.rows[c].dispatched
                 + (IF c = d.context /\ s[d.occurrence] # NoTime THEN 1 ELSE 0)
            /\ rows[c].roots = g.rows[c].roots /\ rows[c].inbound = g.rows[c].inbound
            /\ rows[c].outbound = g.rows[c].outbound
        BY <1>1, <1>7
      <4> QED BY <1>10, <2>5, <2>9, <4>1, <4>2 DEF RowGrown, ActorRow
    <3>2. /\ IsFiniteSet(A) /\ d \notin A /\ IsFiniteSet(g.edges) /\ RowsSound(s, g, A)
          /\ e \notin g.edges /\ h.edges = g.edges \cup {e}
      BY <1>2, <1>3, <1>6, <2>9
    <3> HIDE DEF Deep
    <3> QED BY ONLY <3>1, <3>2, RowVisited
  <2>11. h.edges = {EdgeTo(l, x) : x \in {y \in A \cup {d} : y.parent # None}}
    BY <1>3, <1>10, <2>9 DEF e
  <2>12. GraphSound(l, s, h, A \cup {d})
    BY <1>3, <1>4, <2>5, <2>7, <2>8, <2>9, <2>10, <2>11 DEF GraphSound
  <2> QED BY <1>1, <2>12 DEF h, d
<1> QED
  BY <1>9, <1>10

-----------------------------------------------------------------------------
(***************************************************************************)
(* A reader takes no lock.  Each of its steps leaves the recorder alone,   *)
(* so what holds of the recorder holds beside a reader.                    *)
(***************************************************************************)
LEMMA ReaderLeavesRecorder == ReaderSpec => Spec
<1>1. ReaderInit => Init
  BY DEF ReaderInit
<1>2. [ReaderNext]_<<vars, readerVars>> => [Next]_vars
  BY DEF ReaderNext, ReaderStep, ReadManifest, ReadLog, Analyze, Walk, ReportGraph,
         Assess, BeginUpload, Upload
<1> QED
  BY <1>1, <1>2, PTL DEF ReaderSpec, Spec

\* Once the reader has read a final manifest, a step of the recorder changes nothing
\* the reader still reads, and nothing its graph is judged by.
LEMMA RecorderLeavesReader ==
  ASSUME TypeOK, Sound, ReaderInv, [Next]_vars, UNCHANGED readerVars
  PROVE  ReaderInv'
<1>1. reader' = reader /\ seen' = seen /\ report' = report
  BY DEF readerVars
<1>2. CASE reader = "idle"
  BY <1>1, <1>2 DEF ReaderInv, SeenSound, ReportSound
<1>3. CASE reader # "idle"
  <2>1. disk.status = "finalized"
    BY <1>3 DEF ReaderInv
  <2>2. disk' = disk /\ log' = log /\ torn' = torn /\ admitted' = admitted /\ started' = started
    BY <2>1, SealedIsStable DEF diskVars
  <2>3. GraphSound(log, started, report.graph, admitted)' =
          GraphSound(log, started, report.graph, admitted)
    BY <1>1, <2>2
  <2>4. GraphSound(log, started, report.graph, Met(log, report.at))' =
          GraphSound(log, started, report.graph, Met(log, report.at))
    BY <1>1, <2>2
  <2> QED
    BY <1>1, <2>2, <2>3, <2>4 DEF ReaderInv, SeenSound, ReportSound, Verifies
<1> QED
  BY <1>2, <1>3

\* Nothing has been met when the walk begins.
LEMMA UnvisitedSound ==
  ASSUME NEW l \in Seq(Frame), NEW s
  PROVE  GraphSound(l, s, Unvisited, Met(l, 0))
<1>1. Met(l, 0) = {}
  BY DEF Met, Decisions
<1>2. /\ Unvisited.edges = {} /\ Unvisited.depth = <<>>
      /\ Unvisited.rows = [c \in Context |-> Row] /\ Unvisited.threw = FALSE
      /\ Unvisited = [edges |-> Unvisited.edges, depth |-> Unvisited.depth,
                      rows |-> Unvisited.rows, threw |-> FALSE]
  BY DEF Unvisited
<1>3. /\ IsFiniteSet({}) /\ Cardinality({}) = 0
  BY FS_EmptySet
<1>4. Unvisited.depth \in [{d.occurrence : d \in {}} -> Nat]
  BY <1>2
<1>5. Row \in ActorRow
  BY DEF Row, ActorRow
<1>6. Unvisited.rows \in [Context -> ActorRow]
  BY <1>2, <1>5
<1>7. RowsSound(s, Unvisited, {})
  <2> DEFINE g == Unvisited
  <2>1. g.edges = {} /\ \A c \in Context : g.rows[c] = Row
    BY <1>2
  <2> HIDE DEF g
  <2>2. ASSUME NEW c \in Context
        PROVE  /\ {d \in {} : d.context = c} = {}
               /\ {d \in {d \in {} : d.context = c} : s[d.occurrence] # NoTime} = {}
               /\ {d \in {d \in {} : d.context = c} : d.parent = None} = {}
               /\ {e \in {e \in g.edges : Crosses(e)} : e.target = c} = {}
               /\ {e \in {e \in g.edges : Crosses(e)} : e.source = c} = {}
    BY <2>1
  <2>3. RowsSound(s, g, {})
    BY <1>3, <2>1, <2>2 DEF RowsSound, Row
  <2> QED BY <2>3 DEF g
<1>8. {EdgeTo(l, d) : d \in {x \in {} : x.parent # None}} = {}
  OBVIOUS
<1>9. GraphSound(l, s, Unvisited, {})
  BY <1>2, <1>3, <1>4, <1>6, <1>7, <1>8 DEF GraphSound
<1> QED
  BY <1>1, <1>9

LEMMA ReaderStepSound ==
  ASSUME TypeOK, Sound, Logged, ReaderInv, ReaderStep
  PROVE  ReaderInv'
<1>1. UNCHANGED <<log, torn, disk, admitted, started>>
  BY DEF ReaderStep, ReadManifest, ReadLog, Analyze, Walk, ReportGraph, Assess, BeginUpload,
         Upload, vars, recorderVars, diskVars
<1>2. Verifies' = Verifies
  BY <1>1 DEF Verifies
<1>3. CASE ReadManifest
  <2>1. seen' = [manifest |-> disk, log |-> <<>>]
    BY <1>3 DEF ReadManifest, ReaderInv, SeenSound, NotRead
  <2> QED
    BY <1>1, <1>3, <2>1 DEF ReadManifest, ReaderInv, SeenSound, ReportSound
<1>4. CASE ReadLog
  <2>1. seen = [manifest |-> disk, log |-> <<>>] /\ disk.status = "finalized"
    BY <1>4 DEF ReadLog, ReaderInv, SeenSound
  <2>2. CASE Verifies
    <3>1. reader' = "verified" /\ seen' = [manifest |-> disk, log |-> log]
      BY <1>4, <2>1, <2>2 DEF ReadLog, Verifies
    <3> QED
      BY <1>1, <1>2, <1>4, <2>1, <2>2, <3>1 DEF ReadLog, ReaderInv, SeenSound, ReportSound
  <2>3. CASE ~Verifies
    <3>1. reader' = "idle" /\ seen' = NotRead
      BY <1>4, <2>1, <2>3 DEF ReadLog, Verifies
    <3> QED
      BY <1>1, <1>4, <3>1 DEF ReadLog, ReaderInv, SeenSound, ReportSound
  <2> QED BY <2>2, <2>3
<1>5. CASE Analyze
  <2>1. seen = [manifest |-> disk, log |-> log] /\ Verifies /\ disk.status = "finalized"
    BY <1>5 DEF Analyze, ReaderInv, SeenSound
  <2>2. /\ reader' = "walking" /\ seen' = seen
        /\ report' = [kind |-> "walk", graph |-> Unvisited, at |-> 0]
    BY <1>5, <2>1 DEF Analyze, SameSnapshot, Verifies, BundleVerifies
  <2>3. log \in Seq(Frame) /\ 0 \in 0 .. Len(log)
    BY DEF TypeOK
  <2>4. GraphSound(log, started, Unvisited, Met(log, 0))
    BY <2>3, UnvisitedSound
  <2>5. report'.graph = Unvisited /\ report'.at = 0
    BY <2>2
  <2>6. GraphSound(log, started, report.graph, Met(log, report.at))'
    BY <1>1, <2>4, <2>5
  <2>7. ReportSound'
    BY <1>1, <2>2, <2>3, <2>5, <2>6 DEF ReportSound
  <2> QED
    BY <1>1, <1>2, <2>1, <2>2, <2>7 DEF ReaderInv, SeenSound
<1>6. CASE Walk
  <2>1. /\ seen = [manifest |-> disk, log |-> log] /\ Verifies /\ disk.status = "finalized"
        /\ report.at \in 0 .. Len(log)
        /\ GraphSound(log, started, report.graph, Met(log, report.at))
        /\ reader = "walking" /\ reader' = reader /\ seen' = seen
    BY <1>6 DEF Walk, ReaderInv, SeenSound, ReportSound
  <2>2. PICK i \in NextDecision(log, report.at) :
          report' = [kind |-> "walk", graph |-> Visit(log, report.graph, log[i]), at |-> i]
    BY <1>6, <2>1 DEF Walk
  <2>3. /\ log \in Seq(Frame) /\ PairsSound(log) /\ LineageSound(log)
        /\ \A j \in Actions(log) : log[j].started = started[log[j].occurrence]
    BY <2>1 DEF TypeOK, Verifies, BundleVerifies, Sound, StartedSound
  <2>4. report.at \in Nat /\ i \in 0 .. Len(log)
    BY <2>1, <2>3 DEF NextDecision, Decisions
  <2>5. GraphSound(log, started, Visit(log, report.graph, log[i]), Met(log, i))
    BY <2>1, <2>2, <2>3, <2>4, VisitSound
  <2>6. report'.graph = Visit(log, report.graph, log[i]) /\ report'.at = i
    BY <2>2
  <2>7. GraphSound(log, started, report.graph, Met(log, report.at))'
    BY <1>1, <2>5, <2>6
  <2>8. report' = [kind |-> "walk", graph |-> report'.graph, at |-> report'.at]
    BY <2>2, <2>6
  <2>9. ReportSound'
    BY <1>1, <2>1, <2>4, <2>6, <2>7, <2>8 DEF ReportSound
  <2> QED
    BY <1>1, <1>2, <2>1, <2>9 DEF ReaderInv, SeenSound
<1>7. CASE ReportGraph
  <2>1. /\ seen = [manifest |-> disk, log |-> log] /\ Verifies /\ disk.status = "finalized"
        /\ GraphSound(log, started, report.graph, Met(log, report.at))
        /\ reader' = "done" /\ seen' = seen
        /\ report' = [kind |-> "graph", graph |-> report.graph]
    BY <1>7 DEF ReportGraph, ReaderInv, SeenSound, ReportSound
  <2>2. ~report.graph.threw
    <3> DEFINE ge == report.graph.edges
               gd == report.graph.depth
               gr == report.graph.rows
    <3>1. report.graph = [edges |-> ge, depth |-> gd, rows |-> gr, threw |-> FALSE]
      BY <2>1 DEF GraphSound
    <3> HIDE DEF ge, gd, gr
    <3> QED BY <3>1
  <2>3. \A i \in Decisions(log) : i <= report.at
    BY <1>7, <2>1, <2>2 DEF ReportGraph
  <2>4. Met(log, report.at) = admitted
    BY <2>1, <2>3, AdmittedIsLogged DEF Met
  <2>5. report'.graph = report.graph /\ report'.kind = "graph"
    BY <2>1
  <2>6. GraphSound(log, started, report.graph, admitted)'
    BY <1>1, <2>1, <2>4, <2>5
  <2>7. ReportSound'
    BY <2>1, <2>5, <2>6 DEF ReportSound
  <2> QED
    BY <1>1, <1>2, <2>1, <2>7 DEF ReaderInv, SeenSound
<1>8. CASE Assess
  BY <1>1, <1>2, <1>8 DEF Assess, ReaderInv, SeenSound, ReportSound
<1>9. CASE BeginUpload
  BY <1>1, <1>2, <1>9 DEF BeginUpload, ReaderInv, SeenSound, ReportSound
<1>10. CASE Upload
  <2>1. report' = [kind |-> "upload", manifest |-> disk, log |-> log]
    BY <1>10 DEF Upload, ReaderInv, ReportSound
  <2> QED
    BY <1>1, <1>2, <1>10, <2>1 DEF Upload, ReaderInv, SeenSound, ReportSound
<1> QED
  BY <1>3, <1>4, <1>5, <1>6, <1>7, <1>8, <1>9, <1>10 DEF ReaderStep

LEMMA ReaderInvHolds == ReaderSpec => [](IInv /\ Logged /\ ReaderInv)
<1>1. ReaderInit => ReaderInv
  BY DEF ReaderInit, ReaderInv, SeenSound, ReportSound
<1>2. IInv /\ Logged /\ ReaderInv /\ [ReaderNext]_<<vars, readerVars>> => ReaderInv'
  <2> SUFFICES ASSUME TypeOK, Sound, Logged, ReaderInv, [ReaderNext]_<<vars, readerVars>>
               PROVE  ReaderInv'
    BY DEF IInv
  <2>1. CASE Next /\ UNCHANGED readerVars
    BY <2>1, RecorderLeavesReader
  <2>2. CASE ReaderStep
    BY <2>2, ReaderStepSound
  <2>3. CASE UNCHANGED <<vars, readerVars>>
    BY <2>3, RecorderLeavesReader
  <2> QED BY <2>1, <2>2, <2>3 DEF ReaderNext
<1> QED
  BY <1>1, <1>2, Invariance, LoggedHolds, ReaderLeavesRecorder, PTL DEF ReaderSpec

(***************************************************************************)
(* The verifier's two reads, and what reads the files a third time on the  *)
(* strength of its verdict, see one bundle: the upload sends a manifest    *)
(* and a log that verify together, readiness is claimed only for a bundle  *)
(* that owes nothing, and the graph is that of the log that was judged.    *)
(***************************************************************************)
THEOREM ReadersAreConsistent == ReaderSpec => []ReaderIsConsistent
<1>1. IInv /\ ReaderInv => ReaderIsConsistent
  <2> SUFFICES ASSUME TypeOK, Sound, ReaderInv PROVE ReaderIsConsistent
    BY DEF IInv
  <2>1. ASSUME reader \in {"verified", "walking", "uploading", "done"}
        PROVE  /\ seen = [manifest |-> disk, log |-> log] /\ Verifies /\ ~torn
               /\ Live = {}
    BY <2>1 DEF ReaderInv, SeenSound, Verifies, BundleVerifies, Sound, SealSound
  <2>2. ASSUME reader = "done", report.kind = "upload"
        PROVE  BundleVerifies(report.log, FALSE, report.manifest)
    <3>1. report = [kind |-> "upload", manifest |-> disk, log |-> log]
      BY <2>2 DEF ReaderInv, ReportSound
    <3>2. BundleVerifies(log, FALSE, disk)
      BY <2>1, <2>2 DEF Verifies, BundleVerifies
    <3> QED BY <3>1, <3>2
  <2>3. ASSUME reader = "done", report.kind = "readiness"
        PROVE  /\ report.manifest = seen.manifest
               /\ \A q \in Requirement :
                    report.status[q] = "evidence_ready" => Live = {} /\ ~q.isolation
    <3>1. report = [kind |-> "readiness", manifest |-> disk, status |-> Readiness]
      BY <2>3 DEF ReaderInv, ReportSound
    <3>2. ASSUME NEW q \in Requirement, Readiness[q] = "evidence_ready"
          PROVE  ~q.isolation
      BY <3>2 DEF Readiness, AssessRequirement, SdkCoverage
    <3> QED BY <2>1, <2>3, <3>1, <3>2
  <2>4. reader = "done" => SameSnapshot(log) /\ ~torn
    BY <2>1 DEF SameSnapshot
  <2>5. reader \in {"verified", "walking", "uploading"} =>
          seen.manifest = disk /\ seen.log = log /\ ~torn
    BY <2>1
  <2> QED
    BY <2>2, <2>3, <2>4, <2>5, Zenon DEF ReaderIsConsistent
<1> QED
  BY <1>1, ReaderInvHolds, PTL

(***************************************************************************)
(* A bundle that verified has an actor graph, made one decision at a time  *)
(* while the recorder's process lives on, and the graph says of the        *)
(* application what the application did, not only what its log says:       *)
(* every operation it was handed or refused is one of its actor's, and one *)
(* of the dispatched if it was dispatched; every parent is an edge, one    *)
(* deeper; an edge between two actors is one of both their counts.         *)
(***************************************************************************)
THEOREM GraphsAreFaithful == ReaderSpec => []GraphIsFaithful
<1>1. IInv /\ Logged /\ ReaderInv => GraphIsFaithful
  <2> SUFFICES ASSUME TypeOK, Sound, Logged, ReaderInv, report.kind = "graph"
               PROVE  GraphIsFaithful
    BY DEF IInv, GraphIsFaithful
  <2> DEFINE g == report.graph
  <2>1. Verifies /\ GraphSound(log, started, g, admitted)
    BY DEF ReaderInv, SeenSound, ReportSound
  <2> HIDE DEF g
  <2>2. ~g.threw
    <3> DEFINE ge == g.edges
               gd == g.depth
               gr == g.rows
    <3>1. g = [edges |-> ge, depth |-> gd, rows |-> gr, threw |-> FALSE]
      BY <2>1 DEF GraphSound
    <3> HIDE DEF ge, gd, gr
    <3> QED BY <3>1
  <2>3. /\ g.edges = {EdgeTo(log, d) : d \in {x \in admitted : x.parent # None}}
        /\ \A d \in admitted : d.parent # None =>
             d.parent \in DOMAIN g.depth /\ g.depth[d.occurrence] = g.depth[d.parent] + 1
        /\ DOMAIN g.depth = Known
        /\ RowsSound(started, g, admitted)
    BY <2>1 DEF GraphSound, Known
  <2>4. ASSUME NEW e \in g.edges
        PROVE  \E d \in admitted : d.parent # None /\ e = EdgeTo(log, d)
    BY <2>3
  <2>5. \A d : EdgeTo(log, d).parent = d.parent /\ EdgeTo(log, d).child = d.occurrence
    BY DEF EdgeTo, Edge
  <2>6. {<<e.parent, e.child>> : e \in g.edges} =
          {<<d.parent, d.occurrence>> : d \in {x \in admitted : x.parent # None}}
    BY <2>3, <2>5
  <2>7. \A e \in g.edges : g.depth[e.child] = g.depth[e.parent] + 1
    BY <2>3, <2>4, <2>5
  <2>8. ASSUME NEW e \in g.edges PROVE e.dispatched <=> handle[e.parent] = "closed"
    <3>1. PICK d \in admitted : d.parent # None /\ e = EdgeTo(log, d)
      BY <2>4
    <3> DEFINE o == d.parent
               j == CHOOSE j \in ActionsOf(log, o) : TRUE
    <3>2. o \in Known
      BY <2>3, <3>1
    <3>3. PICK x \in admitted : x.occurrence = o
      BY <3>2 DEF Known
    <3>4. o \in Occurrence
      BY <3>3 DEF TypeOK, Decision
    <3>5. PICK k \in Decisions(log) : log[k] = x
      BY DEF Logged
    <3>6. ActionsOf(log, o) # {}
      BY <2>1, <3>3, <3>5 DEF Verifies, BundleVerifies, PairsSound, ActionsOf, Actions
    <3>7. j \in Actions(log) /\ log[j].occurrence = o
      BY <3>6 DEF ActionsOf, Actions
    <3>8. e.dispatched <=> log[j].started # NoTime
      BY <3>1 DEF EdgeTo, Edge
    <3>9. e.parent = o
      BY <2>5, <3>1
    <3> HIDE DEF j, o
    <3>10. log[j].started = started[o] /\ o \in Recorded
      BY <3>7 DEF Sound, StartedSound, Recorded, RecordedIn
    <3>11. handle[o] \in HandleState
      BY <3>4 DEF TypeOK
    <3>12. handle[o] # "dispatched"
      BY <3>4, <3>10 DEF Sound, HandlesSound
    <3>13. handle[o] = "closed" => started[o] # NoTime
      BY <3>4 DEF Logged
    <3>14. handle[o] \in {"none", "censored", "open"} => started[o] = NoTime
      BY <3>4 DEF Sound, StartedSound
    <3> QED
      BY <3>8, <3>9, <3>10, <3>11, <3>12, <3>13, <3>14 DEF HandleState
  <2> QED
    BY <2>2, <2>3, <2>6, <2>7, <2>8 DEF GraphIsFaithful, RowsSound, g
<1> QED
  BY <1>1, ReaderInvHolds, PTL
=============================================================================
