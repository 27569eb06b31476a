---------------------------- MODULE SdkRecorder ----------------------------
(***************************************************************************)
(* The evidence recorder an application embeds: class SdkRecorder of       *)
(* src/sdk.ts, the frame chain it owns and the operation handles it hands  *)
(* out, and the two files it writes: frames.ndjson and bundle.json.        *)
(*                                                                         *)
(* A call into the recorder is synchronous and nothing else of the process *)
(* runs meanwhile, but it writes its files one after the other: each write *)
(* is a step of its own, the call in progress is in the variable call, and *)
(* any write may fail, which makes the call throw where it stands.  A      *)
(* process that dies in a call leaves the files as after some write, so a  *)
(* crash is a behaviour that takes no further step.                        *)
(*                                                                         *)
(* The wall clock is read anew for every timestamp.  It runs forward only, *)
(* until a fault of the host: an adjustment of the clock may move it back. *)
(*                                                                         *)
(* A definition named X_Y is a faulty variant of X, kept to show which     *)
(* property notices it.                                                    *)
(***************************************************************************)
EXTENDS SdkVerifier

CONSTANTS MaxFaults,      \* bound: faults of the host
          MaxOperations,  \* bound: operations recorded
          MaxChain        \* bound: frames the chain builds

ASSUME RecorderAssumption ==
  MaxFaults \in Nat /\ MaxOperations \in Nat /\ MaxChain \in Nat

VARIABLES
  chain,     \* SdkFrameChain: frames built so far, so also the number of the next
  manifest,  \* the recorder's manifest, in memory
  open,      \* openOperations
  admitted,  \* logicalOccurrences and knownOccurrences: the decisions recorded
  handle,    \* the operation objects the application holds, by occurrence
  started,   \* dispatchStartedAt of each operation object
  call,      \* the call in progress and the frame it is writing
  clock,     \* the last instant the wall clock showed
  log,       \* frames.ndjson: the complete lines
  torn,      \* frames.ndjson ends in a partial line
  disk,      \* bundle.json
  faults     \* writes that have failed

recorderVars == <<chain, manifest, open, admitted, handle, started, call, clock>>
diskVars == <<log, torn, disk>>
vars == <<recorderVars, diskVars, faults>>

Status == {"recording", "finalized"}
Manifest ==
  [status : Status, frames : Nat, operations : Nat, created : Time,
   finalized : Time \cup {NoTime}]
HandleState == {"none", "censored", "open", "dispatched", "closed"}
Stage == {"idle", "line", "manifest", "count", "final"}

Idle == [stage |-> "idle", frame |-> None]
Known == {d.occurrence : d \in admitted}

TypeOK ==
  /\ chain \in Nat
  /\ manifest \in Manifest
  /\ open \in Nat
  /\ admitted \subseteq Decision
  /\ handle \in [Occurrence -> HandleState]
  /\ started \in [Occurrence -> Time \cup {NoTime}]
  /\ call \in [stage : Stage, frame : Frame \cup {None}]
  /\ call.stage \in {"line", "manifest", "count"} => call.frame \in Frame
  /\ clock \in Time
  /\ log \in Seq(Frame)
  /\ torn \in BOOLEAN
  /\ disk \in Manifest
  /\ faults \in Nat

-----------------------------------------------------------------------------

\* The constructor creates both files, or throws and there is no recorder.
Init ==
  /\ clock \in Time
  /\ manifest = [status |-> "recording", frames |-> 0, operations |-> 0,
                 created |-> clock, finalized |-> NoTime]
  /\ disk = manifest
  /\ chain = 0 /\ open = 0 /\ admitted = {} /\ faults = 0
  /\ handle = [o \in Occurrence |-> "none"]
  /\ started = [o \in Occurrence |-> NoTime]
  /\ call = Idle
  /\ log = <<>> /\ torn = FALSE

\* A reading of the wall clock that follows the reading r.
Reading(r) == IF faults > 0 THEN Time ELSE {t \in Time : r <= t}

\* A frame leaves the chain and reaches the recorder's append: the chain counts it
\* even when append refuses it because an earlier frame never reached the log.
Emit(f) ==
  /\ chain' = chain + 1
  /\ call' = IF f.sequence = manifest.frames
             THEN [stage |-> "line", frame |-> f]
             ELSE Idle

Recording_Always == TRUE
Recording == manifest.status = "recording"

\* prepareCommon: the parent is known, the attempt is new, and a retry names the
\* attempt just before it and repeats its context.
LineageKnown_AnyContext(l, n, c, retryOf, parent) ==
  /\ parent = None \/ parent \in Known
  /\ <<l, n>> \notin Known
  /\ IF n = 1 THEN retryOf = None
     ELSE \E p \in admitted : p.occurrence = <<l, n - 1>> /\ p.occurrence = retryOf

LineageKnown(l, n, c, retryOf, parent) ==
  /\ parent = None \/ parent \in Known
  /\ <<l, n>> \notin Known
  /\ IF n = 1
     THEN retryOf = None
     ELSE \E p \in admitted :
            p.occurrence = <<l, n - 1>> /\ p.occurrence = retryOf /\ p.context = c

\* beginApplicationDecision, beginRegisteredToolCall: prepareCommon's checks, the
\* policy receipt and the decision frame.  A receipt dated after its frame makes
\* the chain throw before anything changed.
Begin(l, n, c, retryOf, parent, policy) ==
  /\ call = Idle
  /\ chain < MaxChain /\ Cardinality(admitted) < MaxOperations
  /\ Recording
  /\ LineageKnown(l, n, c, retryOf, parent)
  /\ \E evaluated \in Reading(clock) : \E observed \in Reading(evaluated) :
       /\ evaluated <= observed
       /\ clock' = observed
       /\ Emit([kind |-> "decision", sequence |-> chain, occurrence |-> <<l, n>>,
                context |-> c, retryOf |-> retryOf, parent |-> parent,
                policy |-> policy, evaluated |-> evaluated, observed |-> observed])
  /\ UNCHANGED <<manifest, open, admitted, handle, started, diskVars, faults>>

\* append: the line is written and counted.
WriteLine ==
  /\ call.stage = "line"
  /\ log' = Append(log, call.frame)
  /\ manifest' = [manifest EXCEPT !.frames = @ + 1]
  /\ call' = [call EXCEPT !.stage = "manifest"]
  /\ UNCHANGED <<chain, open, admitted, handle, started, clock, torn, disk, faults>>

\* append's manifest is renamed into place and admitDecision hands out the handle.
AdmitAllowed ==
  /\ call.stage = "manifest"
  /\ call.frame.kind = "decision"
  /\ call.frame.policy = "allowed"
  /\ disk' = manifest
  /\ admitted' = admitted \cup {call.frame}
  /\ open' = open + 1
  /\ handle' = [handle EXCEPT ![call.frame.occurrence] = "open"]
  /\ call' = Idle
  /\ UNCHANGED <<chain, manifest, started, clock, log, torn, faults>>

\* The same for a refused operation: its action frame follows at once.
AdmitCensored ==
  /\ call.stage = "manifest"
  /\ call.frame.kind = "decision"
  /\ call.frame.policy # "allowed"
  /\ disk' = manifest
  /\ admitted' = admitted \cup {call.frame}
  /\ \E observed \in Reading(clock) :
       /\ clock' = observed
       /\ Emit(ActionOf(call.frame, chain, CensorOutcome[call.frame.policy],
                        NoTime, NoTime, observed))
  /\ UNCHANGED <<manifest, open, handle, started, log, torn, faults>>

\* closeOperation counts an operation that was handed out as open no more.
OpenAfter_Mismatch(f) ==
  IF f.outcome \in Censored \cup {"identity_mismatch"} THEN open ELSE open - 1
OpenAfter(f) == IF f.outcome \in Censored THEN open ELSE open - 1

\* append's manifest is renamed after an action frame; the operation is counted,
\* and if it was handed out it is no longer open.
CountAction ==
  /\ call.stage = "manifest"
  /\ call.frame.kind = "action"
  /\ disk' = manifest
  /\ open' = OpenAfter(call.frame)
  /\ manifest' = [manifest EXCEPT !.operations = @ + 1]
  /\ call' = [call EXCEPT !.stage = "count"]
  /\ UNCHANGED <<chain, admitted, handle, started, clock, log, torn, faults>>

\* The manifest with the new count is renamed and the call returns; begin returns
\* the handle of a refused operation closed.
WriteCount ==
  /\ call.stage = "count"
  /\ disk' = manifest
  /\ handle' = IF call.frame.outcome \in Censored
               THEN [handle EXCEPT ![call.frame.occurrence] = "censored"]
               ELSE handle
  /\ call' = Idle
  /\ UNCHANGED <<chain, manifest, open, admitted, started, clock, log, torn, faults>>

\* markDispatched refuses a handle that is closed, censored or dispatched already.
MayDispatch_Closed(o) == handle[o] \in {"open", "closed"}
MayDispatch(o) == handle[o] = "open"

MarkDispatched(o) ==
  /\ call = Idle
  /\ MayDispatch(o)
  /\ handle' = [handle EXCEPT ![o] = "dispatched"]
  /\ \E t \in Reading(clock) :
       /\ clock' = t
       /\ started' = [started EXCEPT ![o] = t]
  /\ UNCHANGED <<chain, manifest, open, admitted, call, diskVars, faults>>

\* succeed, fail: the handle closes before anything can throw.  Timestamps out of
\* order stop the frame in the chain; a wrong open count stops it behind the chain.
Close(o, outcome) ==
  /\ call = Idle
  /\ handle[o] = "dispatched"
  /\ handle' = [handle EXCEPT ![o] = "closed"]
  /\ \E d \in admitted, ended \in Reading(clock) : \E observed \in Reading(ended) :
       LET f == ActionOf(d, chain, outcome, started[o], ended, observed)
       IN  /\ d.occurrence = o
           /\ clock' = observed
           /\ IF ~DispatchTimely(f) THEN UNCHANGED <<chain, call>>
              ELSE IF open < 1 THEN chain' = chain + 1 /\ UNCHANGED call
              ELSE Emit(f)
  /\ UNCHANGED <<manifest, open, admitted, started, diskVars, faults>>

\* finalize refuses to leave an operation open.
NothingOpen_Unchecked == TRUE
NothingOpen == open = 0

\* finalize: the manifest in memory is final before it is written.
Finalize ==
  /\ call = Idle
  /\ Recording
  /\ NothingOpen
  /\ manifest.operations # 0
  /\ \E t \in Reading(clock) :
       /\ clock' = t
       /\ manifest' = [manifest EXCEPT !.status = "finalized", !.finalized = t]
  /\ call' = [stage |-> "final", frame |-> None]
  /\ UNCHANGED <<chain, open, admitted, handle, started, diskVars, faults>>

WriteFinal ==
  /\ call.stage = "final"
  /\ disk' = manifest
  /\ call' = Idle
  /\ UNCHANGED <<chain, manifest, open, admitted, handle, started, clock, log, torn, faults>>

\* A fault of the host.  A write fails and the call in progress throws (only the log
\* can be left half written: the manifest is written aside and renamed); or, between
\* calls, the clock is adjusted.
HostFails ==
  /\ faults < MaxFaults
  /\ faults' = faults + 1
  /\ \/ UNCHANGED torn
     \/ call.stage = "line" /\ torn' = TRUE
  /\ call' = Idle
  /\ UNCHANGED <<chain, manifest, open, admitted, handle, started, clock, log, disk>>

Next ==
  \/ \E l \in Logical, n \in Attempt, c \in Context, retryOf \in Occurrence \cup {None},
        parent \in Occurrence \cup {None}, policy \in Policy :
       Begin(l, n, c, retryOf, parent, policy)
  \/ WriteLine
  \/ AdmitAllowed
  \/ AdmitCensored
  \/ CountAction
  \/ WriteCount
  \/ \E o \in Occurrence : MarkDispatched(o)
  \/ \E o \in Occurrence, outcome \in Terminal : Close(o, outcome)
  \/ Finalize
  \/ WriteFinal
  \/ HostFails

Spec == Init /\ [][Next]_vars

-----------------------------------------------------------------------------

Verifies == BundleVerifies(log, torn, disk)

Recorded == RecordedIn(log)

\* Operations the application was handed and whose outcome is not in the log.
Live == {o \in Occurrence : handle[o] \notin {"none", "censored"} /\ o \notin Recorded}

\* Soundness of the verdict, at every instant a verifier may read the files: a
\* bundle that verifies holds the outcome of every operation the application was
\* ever handed, dated with the dispatch the application made.
VerifiedIsComplete ==
  Verifies =>
    \A o \in Occurrence :
      handle[o] \in {"open", "dispatched", "closed"} =>
        \E i \in Actions(log) :
          log[i].occurrence = o /\ log[i].started = started[o]

\* Completeness of the verdict: what finalize sealed without a fault of the host
\* and without an identity mismatch is accepted by the verifier.
FinalizedVerifies ==
  /\ disk.status = "finalized"
  /\ faults = 0
  /\ \A i \in Actions(log) : log[i].outcome # "identity_mismatch"
  => Verifies

\* No operation keeps a recorder from being finalized once the application has
\* closed it: between calls the open count is that of the unclosed handles.
\* (A clock set back, or a failed write, can strand one: see the README.)
NothingStranded ==
  faults = 0 /\ call = Idle =>
    open = Cardinality({o \in Occurrence : handle[o] \in {"open", "dispatched"}})

\* A verdict is for good: no later call changes the files of a bundle that verifies.
VerdictStable == [][Verifies => UNCHANGED diskVars]_vars

(***************************************************************************)
(* Why these hold: an inductive invariant.  Its core is Accounting, an     *)
(* inequality: a call that throws may leave the open count too high (and   *)
(* the bundle unsealable), but never below the number of live operations.  *)
(***************************************************************************)
UncensoredAction(f) == f.kind = "action" /\ f.outcome \notin Censored

\* An action on its way through CountAction is in the log and still counted open.
Accounting ==
  Cardinality(Live)
    + (IF call.stage = "manifest" /\ UncensoredAction(call.frame) THEN 1 ELSE 0) <= open

HandlesSound ==
  /\ \A o \in Occurrence : handle[o] # "none" => o \in Known
  /\ \A o \in Occurrence : handle[o] \in {"open", "dispatched"} => o \notin Recorded
  /\ Recorded \subseteq Known

CallSound ==
  /\ call.stage \in {"idle", "final"} => call.frame = None
  /\ call.stage \in {"line", "manifest", "count"} =>
       LET f == call.frame IN
       IF f.kind = "decision"
       THEN call.stage # "count" /\ f.occurrence \notin Known
       ELSE /\ f.occurrence \in Known
            /\ (f.occurrence \in Recorded) <=> (call.stage # "line")
            /\ handle[f.occurrence] = IF f.outcome \in Censored THEN "none" ELSE "closed"
            /\ f.started = started[f.occurrence]

StartedSound ==
  /\ \A i \in Actions(log) : log[i].started = started[log[i].occurrence]
  /\ \A o \in Occurrence :
       handle[o] \in {"none", "censored", "open"} => started[o] = NoTime

SealSound ==
  /\ disk.status = "finalized" => manifest.status = "finalized"
  /\ manifest.status = "finalized" => Live = {} /\ call.stage \in {"idle", "final"}
  /\ call.stage = "final" => manifest.status = "finalized" /\ disk.status = "recording"

Sound == Accounting /\ HandlesSound /\ CallSound /\ StartedSound /\ SealSound

IInv == TypeOK /\ Sound

(***************************************************************************)
(* Why what is sealed verifies.  Without a fault the counts are exact, and *)
(* the log with the line being written is, at every instant, all a         *)
(* verifier asks for except that operations still open lack their action.  *)
(***************************************************************************)
Whole == IF call.stage = "line" THEN Append(log, call.frame) ELSE log

Unclosed == {o \in Occurrence : handle[o] \in {"open", "dispatched"}}

CountsExact ==
  /\ open = Cardinality(Unclosed)
              + (IF call.stage \in {"line", "manifest"} /\ UncensoredAction(call.frame)
                 THEN 1 ELSE 0)
  /\ chain = Len(Whole) /\ manifest.frames = Len(log)
  /\ Cardinality(Recorded) =
       manifest.operations
         + (IF call.stage = "manifest" /\ call.frame.kind = "action" THEN 1 ELSE 0)
  /\ call = Idle => disk = manifest
  /\ ~torn

TimesSound ==
  /\ \A i \in DOMAIN Whole :
       manifest.created <= Whole[i].observed /\ Whole[i].observed <= clock
  /\ manifest.created <= clock
  /\ \A o \in Occurrence :
       started[o] <= clock /\ (handle[o] = "dispatched" => started[o] # NoTime)
  /\ \A d \in admitted : started[d.occurrence] # NoTime => d.evaluated <= started[d.occurrence]
  /\ manifest.status = "finalized" =>
       /\ manifest.operations # 0
       /\ \A i \in DOMAIN log : log[i].observed <= manifest.finalized

\* The decision on its way to being admitted.
Deciding ==
  IF call.stage \in {"line", "manifest"} /\ call.frame.kind = "decision"
  THEN {call.frame} ELSE {}

AdmittedWhole ==
  /\ {Whole[i] : i \in Decisions(Whole)} = admitted \cup Deciding
  /\ \A d \in admitted :
       LET o == d.occurrence IN
       \/ o \in RecordedIn(Whole)
       \/ o \in Unclosed /\ d.policy = "allowed"

Faultless == CountsExact /\ LogWhole(Whole) /\ TimesSound /\ AdmittedWhole

WholeInv == faults = 0 => Faultless

\* The recorder keeps the promises of the ledger, whatever fails.
Ledger == INSTANCE EvidenceLedger
            WITH Operation <- Occurrence, owed <- Live, recorded <- Recorded,
                 sealed <- (disk.status = "finalized")
LedgerSpec == Ledger!Spec
=============================================================================
