--------------------------- MODULE PythonRecorder ---------------------------
(***************************************************************************)
(* The Python counterpart of the SDK recorder: GuardRecorder and Operation *)
(* of python/src/gradia_guard/core.py.  It writes the same files, which    *)
(* verify.py judges as SdkVerifier says, but not in the same way:          *)
(*                                                                         *)
(*   - a frame is numbered when it is built and the number is only used up *)
(*     when append has synced its line;                                    *)
(*   - nothing of a frame is checked before it is written, its times least *)
(*     of all, and an operation is closed before its output is looked at;  *)
(*   - the manifest is written to a new file, which a failing write leaves *)
(*     behind: no later write of the manifest succeeds then.               *)
(*                                                                         *)
(* Threads share a recorder.  A lock makes a call one turn, but each write *)
(* of it is a step, and may fail.                                          *)
(***************************************************************************)
EXTENDS SdkVerifier

CONSTANTS MaxFaults,      \* bound: faults of the host
          MaxOperations,  \* bound: operations begun
          MaxFrames       \* bound: frames in the log when one is begun

ASSUME PythonAssumption == MaxFaults \in Nat /\ MaxOperations \in Nat /\ MaxFrames \in Nat

VARIABLES
  manifest,   \* the manifest in memory; it also holds _sequence and _operation_count
  open,       \* _open_operations
  admitted,   \* _logical_occurrences and _known_occurrences
  handle,     \* the operations handed out, by occurrence
  started,    \* _dispatch_started_at of each
  call,       \* the call that holds the lock and the frame it is writing
  clock,      \* the last instant the wall clock showed
  log,        \* frames.ndjson: the complete lines
  torn,       \* there is a partial line in frames.ndjson
  disk,       \* bundle.json
  temporary,  \* bundle.json.tmp exists
  faults      \* faults of the host so far

fileVars == <<log, torn, disk, temporary>>
recorderVars == <<manifest, open, admitted, handle, started, call, clock, fileVars, faults>>

Manifest ==
  [status : {"recording", "finalized"}, frames : Nat, operations : Nat, created : Time,
   finalized : Time \cup {NoTime}]
Idle == [stage |-> "idle", frame |-> None]
Known == {d.occurrence : d \in admitted}

RecorderTypeOK ==
  /\ manifest \in Manifest /\ disk \in Manifest
  /\ open \in Nat /\ faults \in Nat
  /\ admitted \subseteq Decision
  /\ handle \in [Occurrence -> {"none", "censored", "open", "dispatched", "closed"}]
  /\ started \in [Occurrence -> Time \cup {NoTime}]
  /\ call \in [stage : {"idle", "line", "manifest", "count", "final"}, frame : Frame \cup {None}]
  /\ call.stage \in {"line", "manifest", "count"} => call.frame \in Frame
  /\ clock \in Time
  /\ log \in Seq(Frame)
  /\ torn \in BOOLEAN /\ temporary \in BOOLEAN

-----------------------------------------------------------------------------

RecorderInit ==
  /\ clock \in Time
  /\ manifest = [status |-> "recording", frames |-> 0, operations |-> 0,
                 created |-> clock, finalized |-> NoTime]
  /\ disk = manifest
  /\ open = 0 /\ admitted = {} /\ faults = 0
  /\ handle = [o \in Occurrence |-> "none"]
  /\ started = [o \in Occurrence |-> NoTime]
  /\ call = Idle
  /\ log = <<>> /\ torn = FALSE /\ temporary = FALSE

\* A reading of the wall clock that follows the reading r.
Reading(r) == IF faults > 0 THEN Time ELSE {t \in Time : r <= t}

Recording == manifest.status = "recording"

\* _begin's checks of an occurrence: its parent, its number and its predecessor.
LineageKnown(l, n, c, retryOf, parent) ==
  /\ parent = None \/ parent \in Known
  /\ <<l, n>> \notin Known
  /\ IF n = 1 THEN retryOf = None
     ELSE \E d \in admitted :
            d.occurrence = <<l, n - 1>> /\ d.occurrence = retryOf /\ d.context = c

\* _begin up to the write of the decision.
Begin(l, n, c, retryOf, parent, policy) ==
  /\ call = Idle
  /\ Cardinality(admitted) < MaxOperations /\ Len(log) < MaxFrames
  /\ Recording
  /\ LineageKnown(l, n, c, retryOf, parent)
  /\ \E evaluated \in Reading(clock) : \E observed \in Reading(evaluated) :
       /\ clock' = observed
       /\ call' = [stage |-> "line",
                   frame |-> [kind |-> "decision", sequence |-> manifest.frames,
                              occurrence |-> <<l, n>>, context |-> c, retryOf |-> retryOf,
                              parent |-> parent, policy |-> policy,
                              evaluated |-> evaluated, observed |-> observed]]
  /\ UNCHANGED <<manifest, open, admitted, handle, started, fileVars, faults>>

\* _append: the line is written, synced and counted.
WriteLine ==
  /\ call.stage = "line"
  /\ log' = Append(log, call.frame)
  /\ manifest' = [manifest EXCEPT !.frames = @ + 1]
  /\ call' = [call EXCEPT !.stage = "manifest"]
  /\ UNCHANGED <<open, admitted, handle, started, clock, torn, disk, temporary, faults>>

\* _write_manifest
WriteManifest == ~temporary /\ disk' = manifest

\* The decision is in place: the operation is handed out, or its refusal is recorded.
Admit ==
  /\ call.stage = "manifest" /\ call.frame.kind = "decision"
  /\ WriteManifest
  /\ admitted' = admitted \cup {call.frame}
  /\ IF call.frame.policy = "allowed"
     THEN /\ open' = open + 1
          /\ handle' = [handle EXCEPT ![call.frame.occurrence] = "open"]
          /\ call' = Idle
          /\ UNCHANGED clock
     ELSE /\ \E observed \in Reading(clock) :
               /\ clock' = observed
               /\ call' = [stage |-> "line",
                           frame |-> ActionOf(call.frame, manifest.frames,
                                              CensorOutcome[call.frame.policy],
                                              NoTime, NoTime, observed)]
          /\ UNCHANGED <<open, handle>>
  /\ UNCHANGED <<manifest, started, log, torn, temporary, faults>>

\* The rest of _close_operation: the operation is counted ...
OpenAfter_Kept(f) == open
OpenAfter(f) == IF f.outcome \in Censored THEN open ELSE open - 1
CountAction ==
  /\ call.stage = "manifest" /\ call.frame.kind = "action"
  /\ WriteManifest
  /\ open' = OpenAfter(call.frame)
  /\ manifest' = [manifest EXCEPT !.operations = @ + 1]
  /\ call' = [call EXCEPT !.stage = "count"]
  /\ UNCHANGED <<admitted, handle, started, clock, log, torn, temporary, faults>>

\* ... and the count written.
WriteCount ==
  /\ call.stage = "count"
  /\ WriteManifest
  /\ handle' = IF call.frame.outcome \in Censored
               THEN [handle EXCEPT ![call.frame.occurrence] = "censored"] ELSE handle
  /\ call' = Idle
  /\ UNCHANGED <<manifest, open, admitted, started, clock, log, torn, temporary, faults>>

MarkDispatched(o) ==
  /\ call = Idle
  /\ handle[o] = "open"
  /\ handle' = [handle EXCEPT ![o] = "dispatched"]
  /\ \E t \in Reading(clock) : clock' = t /\ started' = [started EXCEPT ![o] = t]
  /\ UNCHANGED <<manifest, open, admitted, call, fileVars, faults>>

\* succeed, fail: _terminal closes the operation, and then an output that is no content
\* makes the call raise.
Close(o, outcome) ==
  /\ call = Idle
  /\ handle[o] = "dispatched"
  /\ handle' = [handle EXCEPT ![o] = "closed"]
  /\ \E d \in admitted, ended \in Reading(clock) : \E observed \in Reading(ended) :
       /\ d.occurrence = o
       /\ clock' = observed
       /\ call' = [stage |-> "line",
                   frame |-> ActionOf(d, manifest.frames, outcome, started[o], ended, observed)]
  /\ UNCHANGED <<manifest, open, admitted, started, fileVars, faults>>

CloseRaises(o) ==
  /\ call = Idle
  /\ handle[o] = "dispatched"
  /\ handle' = [handle EXCEPT ![o] = "closed"]
  /\ clock' \in Reading(clock)
  /\ UNCHANGED <<manifest, open, admitted, started, call, fileVars, faults>>

NothingOpen_Unchecked == TRUE
NothingOpen == open = 0

\* finalize
Finalize ==
  /\ call = Idle
  /\ Recording /\ NothingOpen /\ manifest.operations # 0
  /\ \E t \in Reading(clock) :
       /\ clock' = t
       /\ manifest' = [manifest EXCEPT !.status = "finalized", !.finalized = t]
  /\ call' = [stage |-> "final", frame |-> None]
  /\ UNCHANGED <<open, admitted, handle, started, fileVars, faults>>

WriteFinal ==
  /\ call.stage = "final"
  /\ WriteManifest
  /\ call' = Idle
  /\ UNCHANGED <<manifest, open, admitted, handle, started, clock, log, torn, temporary, faults>>

\* A fault of the host.  The call in progress raises: nothing of its line is written, or
\* part of it, or all of it and the sync fails; or the new manifest is left aside.
\* Between calls the clock is adjusted.
HostFails ==
  /\ faults < MaxFaults
  /\ faults' = faults + 1
  /\ CASE call.stage = "line" ->
            /\ \/ UNCHANGED <<log, torn>>
               \/ torn' = TRUE /\ UNCHANGED log
               \/ log' = Append(log, call.frame) /\ UNCHANGED torn
            /\ UNCHANGED temporary
       [] call.stage = "idle" -> UNCHANGED <<log, torn, temporary>>
       [] OTHER -> temporary' \in BOOLEAN /\ (temporary => temporary') /\ UNCHANGED <<log, torn>>
  /\ call' = Idle
  /\ UNCHANGED <<manifest, open, admitted, handle, started, clock, disk>>

\* The manifest can not be written beside one that was left behind.
TemporaryExists ==
  /\ call.stage \in {"manifest", "count", "final"}
  /\ temporary
  /\ call' = Idle
  /\ UNCHANGED <<manifest, open, admitted, handle, started, clock, fileVars, faults>>

-----------------------------------------------------------------------------

\* verify_bundle
Verifies == BundleVerifies(log, torn, disk)

Recorded == RecordedIn(log)

\* Operations handed out whose outcome is not in the log.
Live == {o \in Occurrence : handle[o] \notin {"none", "censored"} /\ o \notin Recorded}

(***************************************************************************)
(* Why its promises hold: an inductive invariant, as for the other         *)
(* recorder.  A call that raises may leave the open count too high, even   *)
(* with its action in the log, but never below the number of live          *)
(* operations.                                                             *)
(***************************************************************************)
UncensoredAction(f) == f.kind = "action" /\ f.outcome \notin Censored

Accounting ==
  Cardinality(Live)
    + (IF call.stage = "manifest" /\ UncensoredAction(call.frame) THEN 1 ELSE 0) <= open

HandlesSound ==
  /\ \A o \in Occurrence : handle[o] # "none" => o \in Known
  /\ \A o \in Occurrence : handle[o] \in {"open", "dispatched"} => o \notin Recorded
  /\ Recorded \subseteq Known

\* Where the handle of an operation is once its action is in the log.
HandleOf(f) == IF f.outcome \in Censored THEN {"none", "censored"} ELSE {"closed"}

CallSound ==
  /\ call.stage \in {"idle", "final"} => call.frame = None
  /\ call.stage \in {"line", "manifest", "count"} =>
       LET f == call.frame IN
       IF f.kind = "decision"
       THEN call.stage # "count" /\ f.occurrence \notin Known
       ELSE /\ f.occurrence \in Known
            /\ (f.occurrence \in Recorded) <=> (call.stage # "line")
            /\ handle[f.occurrence] = IF f.outcome \in Censored THEN "none" ELSE "closed"
  /\ \A i \in Actions(log) : handle[log[i].occurrence] \in HandleOf(log[i])

SealSound ==
  /\ disk.status = "finalized" => manifest.status = "finalized"
  /\ manifest.status = "finalized" => Live = {} /\ call.stage \in {"idle", "final"}
  /\ call.stage = "final" => manifest.status = "finalized" /\ disk.status = "recording"

Sound == Accounting /\ HandlesSound /\ CallSound /\ SealSound

(***************************************************************************)
(* Why what is sealed verifies.  Without a fault the open count is exact:  *)
(* it still counts an operation whose output was refused, which therefore  *)
(* keeps the recorder from being finalized; and the log with the line      *)
(* being written is whole at every instant.                                *)
(***************************************************************************)
Whole == IF call.stage = "line" THEN Append(log, call.frame) ELSE log

CountsExact ==
  /\ open = Cardinality(Live)
              + (IF call.stage = "manifest" /\ UncensoredAction(call.frame) THEN 1 ELSE 0)
  /\ manifest.frames = Len(log)
  /\ call.stage = "line" => call.frame.sequence = Len(log)
  /\ Cardinality(Recorded) =
       manifest.operations
         + (IF call.stage = "manifest" /\ call.frame.kind = "action" THEN 1 ELSE 0)
  /\ call = Idle => disk = manifest
  /\ ~torn /\ ~temporary

TimesSound ==
  /\ \A i \in DOMAIN Whole :
       manifest.created <= Whole[i].observed /\ Whole[i].observed <= clock
  /\ manifest.created <= clock
  /\ \A o \in Occurrence :
       /\ started[o] <= clock
       /\ handle[o] = "dispatched" => started[o] # NoTime
       /\ handle[o] \in {"none", "censored", "open"} => started[o] = NoTime
  /\ \A d \in admitted : started[d.occurrence] # NoTime => d.evaluated <= started[d.occurrence]
  /\ manifest.status = "finalized" =>
       /\ manifest.operations # 0
       /\ \A i \in DOMAIN log : log[i].observed <= manifest.finalized

\* The decision on its way to being admitted.
Deciding ==
  IF call.stage \in {"line", "manifest"} /\ call.frame.kind = "decision"
  THEN {call.frame} ELSE {}

AdmittedWhole ==
  /\ {Whole[i] : i \in Decisions(Whole)} = admitted \cup Deciding
  /\ \A d \in admitted :
       LET o == d.occurrence IN
       \/ o \in RecordedIn(Whole)
       \/ o \in Live /\ d.policy = "allowed"

Faultless == CountsExact /\ LogWhole(Whole) /\ TimesSound /\ AdmittedWhole

WholeInv == faults = 0 => Faultless

\* The Python recorder keeps the promises of the same ledger as the other one, although
\* it checks less and numbers its frames later.
Ledger == INSTANCE EvidenceLedger
            WITH Operation <- Occurrence, owed <- Live, recorded <- Recorded,
                 sealed <- (disk.status = "finalized")
PythonLedgerSpec == Ledger!Spec
=============================================================================
