-------------------------- MODULE GatewayRecorder --------------------------
(***************************************************************************)
(* The recorder of model calls: class GatewayRecorder of src/gateway.ts,   *)
(* the frame chain it owns, the attempts it hands out, its two files       *)
(* (frames.ndjson and bundle.json) and the verdict of verifyGatewayBundle  *)
(* on them.                                                                *)
(*                                                                         *)
(* A frame is named by its number in the chain, which stands for its       *)
(* digest.  An occurrence is named by its logical request and the number   *)
(* of the attempt: at most one body is recorded under the two, and a       *)
(* digest of any other body is a value retryOf may have by mistake.        *)
(*                                                                         *)
(* A call is synchronous and every write of it is a step, as in            *)
(* SdkRecorder; a write that fails makes the call throw where it stands.   *)
(* Timestamps are left out: they run forward here.                         *)
(*                                                                         *)
(* A definition named X_Y is a faulty variant of X, kept to show which     *)
(* property notices it.                                                    *)
(***************************************************************************)
EXTENDS GatewayFrame, Sequences, FiniteSets

CONSTANTS Request,     \* the callers of the recorder, one attempt each
          Logical,     \* logical request ids
          MaxAttempt,  \* bound: the highest attempt number
          MaxFaults,   \* bound: writes that fail
          None


VARIABLES
  chain,     \* GatewayFrameChain: frames built, so also the number of the next
  manifest,  \* the manifest in memory
  open,      \* openAttempts
  prior,     \* logicalOccurrences
  attempt,   \* the GatewayAttempt each caller holds
  held,      \* its occurrence
  call,      \* the call in progress, its caller and the frame it writes
  log,       \* frames.ndjson: the complete lines
  torn,      \* frames.ndjson ends in a partial line
  disk,      \* bundle.json
  faults     \* writes that have failed

gatewayVars == <<chain, manifest, open, prior, attempt, held, call, log, torn, disk, faults>>

Occurrence == Logical \X (1 .. MaxAttempt)

ASSUME GatewayAssumption ==
  MaxAttempt \in Nat \ {0} /\ MaxFaults \in Nat /\ Absent \notin Occurrence

Policy == {"allowed", "policy", "budget"}
CensorOutcome == [policy |-> "policy_censored", budget |-> "budget_censored"]

Ending ==
  [outcome : Censored \cup Terminal, dispatched : BOOLEAN, resolved : Pins \cup {Absent},
   response : BOOLEAN, usage : Usage \cup {Absent}, status : (100 .. 599) \cup {Absent},
   failure : {"reason", "mismatch", Absent}]
Decision ==
  [kind : {"decision"}, sequence : Nat, requested : Pins, occurrence : Occurrence,
   retryOf : Occurrence \cup {Absent}, policy : Policy,
   identified : BOOLEAN]  \* whether its reasons name the identity of the caller
Action ==
  [kind : {"action"}, sequence : Nat, requested : Pins, occurrence : Occurrence,
   retryOf : Occurrence \cup {Absent}, policy : Policy, ending : Ending]
Frame == Decision \cup Action
Manifest == [status : {"recording", "finalized"}, frames : Nat, attempts : Nat]

AttemptState == {"none", "censored", "open", "dispatched", "closed"}
Idle == [stage |-> "idle", frame |-> None, request |-> None]

GatewayTypeOK ==
  /\ chain \in Nat /\ open \in Nat /\ faults \in Nat
  /\ manifest \in Manifest /\ disk \in Manifest
  /\ prior \subseteq Occurrence
  /\ attempt \in [Request -> AttemptState]
  /\ held \in [Request -> Occurrence \cup {None}]
  /\ \/ call = Idle
     \/ call \in [stage : {"line", "manifest", "count"}, frame : Frame, request : Request]
     \/ call = [stage |-> "final", frame |-> None, request |-> None]
  /\ log \in Seq(Frame)
  /\ torn \in BOOLEAN

-----------------------------------------------------------------------------

GatewayInit ==
  /\ chain = 0 /\ open = 0 /\ faults = 0
  /\ manifest = [status |-> "recording", frames |-> 0, attempts |-> 0]
  /\ disk = manifest
  /\ prior = {}
  /\ attempt = [r \in Request |-> "none"]
  /\ held = [r \in Request |-> None]
  /\ call = Idle
  /\ log = <<>> /\ torn = FALSE

Recording == manifest.status = "recording"

\* The chain is where the log is: if not, append refuses every frame it is given.
InStep == chain = manifest.frames

\* The chain builds a frame and, if it is sound, counts it whether or not append takes it.
Emit(r, f) ==
  IF FrameSound(f)
  THEN /\ chain' = chain + 1
       /\ call' = IF InStep THEN [stage |-> "line", frame |-> f, request |-> r] ELSE Idle
  ELSE /\ call' = Idle /\ UNCHANGED chain

\* prepare's checks: the model is a pin, the attempt is new and names the one before it.
MayPrepare(m, l, n, retryOf) ==
  /\ Recording
  /\ m \in Pins
  /\ <<l, n>> \notin prior
  /\ IF n = 1 THEN retryOf = Absent ELSE retryOf = <<l, n - 1>> /\ retryOf \in prior

Prepare(r, m, l, n, retryOf, policy, identified) ==
  /\ call = Idle
  /\ attempt[r] = "none"
  /\ MayPrepare(m, l, n, retryOf)
  /\ Emit(r, [kind |-> "decision", sequence |-> chain, requested |-> m,
              occurrence |-> <<l, n>>, retryOf |-> retryOf, policy |-> policy,
              identified |-> identified])
  /\ UNCHANGED <<manifest, open, prior, attempt, held, log, torn, disk, faults>>

\* append: the line is written and counted.
WriteLine ==
  /\ call.stage = "line"
  /\ log' = Append(log, call.frame)
  /\ manifest' = [manifest EXCEPT !.frames = @ + 1]
  /\ call' = [call EXCEPT !.stage = "manifest"]
  /\ UNCHANGED <<chain, open, prior, attempt, held, torn, disk, faults>>

\* append renames the manifest and prepare returns an open attempt.
AdmitAttempt ==
  /\ call.stage = "manifest"
  /\ call.frame.kind = "decision"
  /\ call.frame.policy = "allowed"
  /\ disk' = manifest
  /\ prior' = prior \cup {call.frame.occurrence}
  /\ open' = open + 1
  /\ attempt' = [attempt EXCEPT ![call.request] = "open"]
  /\ held' = [held EXCEPT ![call.request] = call.frame.occurrence]
  /\ call' = Idle
  /\ UNCHANGED <<chain, manifest, log, torn, faults>>

ActionOf(d, ending) ==
  [kind |-> "action", sequence |-> chain, requested |-> d.requested,
   occurrence |-> d.occurrence, retryOf |-> d.retryOf, policy |-> d.policy,
   ending |-> ending]

\* The same for a refused attempt: the frame of its outcome follows at once.
CensorAttempt ==
  /\ call.stage = "manifest"
  /\ call.frame.kind = "decision"
  /\ call.frame.policy # "allowed"
  /\ disk' = manifest
  /\ prior' = prior \cup {call.frame.occurrence}
  /\ Emit(call.request, ActionOf(call.frame, Censoring(CensorOutcome[call.frame.policy])))
  /\ UNCHANGED <<manifest, open, attempt, held, log, torn, faults>>

\* closeAttempt counts an attempt that was handed out as open no more.
OpenAfter(f) == IF f.ending.outcome \in Censored THEN open ELSE open - 1

\* append renames the manifest after a terminal frame; the attempt is counted.
CountAttempt ==
  /\ call.stage = "manifest"
  /\ call.frame.kind = "action"
  /\ disk' = manifest
  /\ open' = OpenAfter(call.frame)
  /\ manifest' = [manifest EXCEPT !.attempts = @ + 1]
  /\ call' = [call EXCEPT !.stage = "count"]
  /\ UNCHANGED <<chain, prior, attempt, held, log, torn, faults>>

\* The manifest with the new count is renamed and the call returns.
WriteCount ==
  /\ call.stage = "count"
  /\ disk' = manifest
  /\ IF call.frame.ending.outcome \in Censored
     THEN /\ attempt' = [attempt EXCEPT ![call.request] = "censored"]
          /\ held' = [held EXCEPT ![call.request] = call.frame.occurrence]
     ELSE UNCHANGED <<attempt, held>>
  /\ call' = Idle
  /\ UNCHANGED <<chain, manifest, open, prior, log, torn, faults>>

MarkDispatched(r) ==
  /\ call = Idle
  /\ attempt[r] = "open"
  /\ attempt' = [attempt EXCEPT ![r] = "dispatched"]
  /\ UNCHANGED <<chain, manifest, open, prior, held, call, log, torn, disk, faults>>

\* succeed or fail, then finish and closeAttempt: an ending that is not accepted leaves
\* the attempt open; otherwise it is closed before anything else can throw.
Closing == open >= 1
Finish(r, ending) ==
  /\ call = Idle
  /\ attempt[r] = "dispatched"
  /\ IF Accepted(ending)
     THEN /\ attempt' = [attempt EXCEPT ![r] = "closed"]
          /\ \E i \in 1 .. Len(log) :
               /\ log[i].kind = "decision" /\ log[i].occurrence = held[r]
               /\ IF Closing THEN Emit(r, ActionOf(log[i], ending))
                  ELSE UNCHANGED <<chain, call>>
     ELSE UNCHANGED <<attempt, chain, call>>
  /\ UNCHANGED <<manifest, open, prior, held, log, torn, disk, faults>>

\* finalize refuses open attempts and an empty bundle, and is silent once final.
NothingOpen_Unchecked == TRUE
NothingOpen == open = 0
MayFinalize == Recording /\ NothingOpen /\ manifest.attempts # 0

Finalize ==
  /\ call = Idle
  /\ MayFinalize
  /\ manifest' = [manifest EXCEPT !.status = "finalized"]
  /\ call' = [stage |-> "final", frame |-> None, request |-> None]
  /\ UNCHANGED <<chain, open, prior, attempt, held, log, torn, disk, faults>>

WriteFinal ==
  /\ call.stage = "final"
  /\ disk' = manifest
  /\ call' = Idle
  /\ UNCHANGED <<chain, manifest, open, prior, attempt, held, log, torn, faults>>

\* A write fails and the call throws; only the log can be left half written.
WriteFails ==
  /\ call # Idle
  /\ faults < MaxFaults
  /\ faults' = faults + 1
  /\ \/ UNCHANGED torn
     \/ call.stage = "line" /\ torn' = TRUE
  /\ call' = Idle
  /\ UNCHANGED <<chain, manifest, open, prior, attempt, held, log, disk>>

-----------------------------------------------------------------------------

Decisions == {i \in 1 .. Len(log) : log[i].kind = "decision"}
Actions == {i \in 1 .. Len(log) : log[i].kind = "action"}
RecordedAs(o, outcome) == \E i \in Actions : log[i].occurrence = o /\ log[i].ending.outcome = outcome

\* gatewayFrameBlockers and the frame loop: numbers, and no occurrence twice.
FramesSound ==
  /\ \A i \in 1 .. Len(log) : FrameSound(log[i]) /\ log[i].sequence = i - 1
  /\ \A i, j \in Decisions : log[i].occurrence = log[j].occurrence => i = j
  /\ \A i, j \in Actions : log[i].occurrence = log[j].occurrence => i = j

\* The two frames of an attempt: both there, in order, and of one mind.
PairsComplete ==
  /\ \A i \in Decisions : \E j \in Actions : i < j /\ log[i].occurrence = log[j].occurrence
  /\ \A j \in Actions : \E i \in Decisions :
       /\ log[i].occurrence = log[j].occurrence
       /\ log[i].requested = log[j].requested
       /\ log[i].retryOf = log[j].retryOf /\ log[i].policy = log[j].policy
       /\ IF log[i].policy = "allowed" THEN log[j].ending.outcome \notin Censored
          ELSE log[j].ending.outcome = CensorOutcome[log[i].policy]

RetriesNamed ==
  \A i \in Decisions :
    LET o == log[i].occurrence IN
    o[2] > 1 => /\ log[i].retryOf = <<o[1], o[2] - 1>>
                /\ \E j \in Decisions : log[j].occurrence = log[i].retryOf

ModelsMatch == \A i \in Actions : log[i].ending.outcome # "identity_mismatch"

\* The verdict of verifyGatewayBundle on the two files.
GatewayVerifies ==
  /\ disk.status = "finalized"
  /\ ~torn
  /\ Len(log) > 0
  /\ disk.frames = Len(log)
  /\ disk.attempts = Cardinality({log[i].occurrence : i \in Actions})
  /\ FramesSound /\ PairsComplete /\ RetriesNamed /\ ModelsMatch
=============================================================================
