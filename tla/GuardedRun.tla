----------------------------- MODULE GuardedRun -----------------------------
(***************************************************************************)
(* A child process under guard: runGuardedProcess of src/run.ts, with the  *)
(* frame chain of src/frames.ts, the spool of src/spool.ts that holds its  *)
(* evidence (frames.ndjson, payloads, bundle.json) and the verdict of      *)
(* verifyBundle in src/verify.ts on it.                                    *)
(*                                                                         *)
(* The guard's listeners run one at a time and their writes one after the  *)
(* other; the child, and whoever inherited its pipes, writes, is signalled *)
(* and ends at any time.  A chunk of output is known by its channel and    *)
(* its number there.  A listener that throws ends the guard (an uncaught   *)
(* exception), and so does a signal nobody listens for.  A guard that is   *)
(* killed leaves its files as after some write, so that is a behaviour     *)
(* that takes no further step.                                             *)
(*                                                                         *)
(* A definition named X_Y is a faulty variant of X, kept to show which     *)
(* property notices it.                                                    *)
(***************************************************************************)
EXTENDS Integers, Sequences, FiniteSets

CONSTANTS Channel,    \* stdout and stderr
          Signal,     \* the signals the guard forwards
          MaxChunks,  \* bound: chunks per channel
          MaxFaults,  \* bound: writes that fail, clocks that are set back
          None

ASSUME RunAssumption == MaxChunks \in Nat /\ MaxFaults \in Nat /\ None \notin Channel \cup Nat

VARIABLES
  encrypted,  \* the capture mode keeps payloads
  chain,      \* FrameChain: frames built, so also the number of the next
  manifest,   \* the manifest in memory
  call,       \* the call in progress: the write it is at, and its frame
  alive,      \* the guard runs
  settled,    \* error or close was handled
  armed,      \* signals with a listener
  killed,     \* child.killed
  result,     \* what the run resolved to
  log, torn,  \* frames.ndjson: complete lines; whether a partial one follows
  stored,     \* payloads: the chunks kept
  disk,       \* bundle.json
  child,      \* "none", "unborn" (spawn will report an error), "running" or "exited"
  fate,       \* how it exited
  held,       \* another process holds its pipes
  wrote,      \* chunks written, by channel
  seen,       \* chunks the guard received and relayed
  faults

fileVars == <<log, torn, stored, disk>>
childVars == <<child, fate, held, wrote>>
guardVars == <<encrypted, chain, manifest, call, alive, settled, armed, killed, result, seen>>
vars == <<fileVars, childVars, guardVars, faults>>

Fate == {"completed", "failed", "signaled"}
Ending == {"process_terminal", "wrapper_failure"}
Idle == [stage |-> "idle", frame |-> None]

\* A frame; back says that the clock went back before it.
FrameOf(kind, channel, number, disposition, back) ==
  [sequence |-> chain, kind |-> kind, channel |-> channel, number |-> number,
   disposition |-> disposition, back |-> back]

\* frameBlockers: what a frame of this kind may say.
FrameSound(f) ==
  /\ f.kind \in {"decision", "process_started", "chunk"} \cup Ending
  /\ f.kind \in {"process_started", "chunk"} => f.disposition = "running"
  /\ f.kind = "process_terminal" => f.disposition \in Fate
  /\ f.kind = "wrapper_failure" => f.disposition = "failed"

\* The clock only goes back after a fault of the host.
Regressed == IF faults > 0 THEN BOOLEAN ELSE {FALSE}

\* The spool exists; the decision to run the command is being appended.
Init ==
  /\ encrypted \in BOOLEAN
  /\ manifest = [status |-> "recording", frames |-> 0, disposition |-> None, back |-> FALSE]
  /\ disk = manifest
  /\ chain = 1
  /\ call = [stage |-> "line",
             frame |-> [sequence |-> 0, kind |-> "decision", channel |-> None, number |-> 0,
                        disposition |-> None, back |-> FALSE]]
  /\ alive = TRUE /\ settled = FALSE /\ armed = {} /\ killed = FALSE /\ result = None
  /\ log = <<>> /\ torn = FALSE /\ stored = {}
  /\ child = "none" /\ fate = None /\ held = FALSE
  /\ wrote = [c \in Channel |-> 0]
  /\ seen = [c \in Channel |-> 0]
  /\ faults = 0

-----------------------------------------------------------------------------
(* The writes of a call.                                                   *)

\* capture keeps a payload before the frame that refers to it; append refuses a sealed
\* spool, which ends the guard.
HasPayload(kind) == encrypted /\ kind \in {"chunk", "wrapper_failure"}
Appending == manifest.status = "recording"
Emit(f) ==
  IF Appending
  THEN /\ chain' = chain + 1
       /\ call' = [stage |-> IF HasPayload(f.kind) THEN "payload" ELSE "line", frame |-> f]
       /\ UNCHANGED alive
  ELSE /\ alive' = FALSE
       /\ chain' = chain + 1
       /\ UNCHANGED call

StorePayload ==
  /\ alive
  /\ call.stage = "payload"
  /\ stored' = stored \cup {<<call.frame.channel, call.frame.number>>}
  /\ call' = [call EXCEPT !.stage = "line"]
  /\ UNCHANGED <<encrypted, chain, manifest, alive, settled, armed, killed, result, seen,
                 log, torn, disk, childVars, faults>>

WriteLine ==
  /\ alive
  /\ call.stage = "line"
  /\ log' = Append(log, call.frame)
  /\ manifest' = [manifest EXCEPT !.frames = @ + 1]
  /\ call' = [call EXCEPT !.stage = "manifest"]
  /\ UNCHANGED <<encrypted, chain, alive, settled, armed, killed, result, seen,
                 torn, stored, disk, childVars, faults>>

\* finalize's status and disposition for a last frame.
StatusFor(f) == IF f.kind = "wrapper_failure" THEN "aborted" ELSE "finalized"
EndFor_Exit(f) == IF f.disposition = "completed" THEN "completed" ELSE "failed"
EndFor(f) == IF f.kind = "wrapper_failure" THEN "wrapper_failure" ELSE f.disposition

\* The manifest is renamed into place.  The decision is followed by the spawn, the start
\* by the listeners, a last frame by finalize, which changes the manifest in memory first.
WriteManifest ==
  /\ alive
  /\ call.stage = "manifest"
  /\ disk' = manifest
  /\ \/ /\ call.frame.kind = "decision"
        /\ call' = [stage |-> "spawn", frame |-> None]
        /\ UNCHANGED <<manifest, armed>>
     \/ /\ call.frame.kind \in {"process_started", "chunk"}
        /\ call' = Idle
        /\ armed' = IF call.frame.kind = "process_started" THEN Signal ELSE armed
        /\ UNCHANGED manifest
     \/ /\ call.frame.kind \in Ending
        /\ call' = [call EXCEPT !.stage = "final"]
        /\ \E back \in Regressed :
             manifest' = [manifest EXCEPT !.status = StatusFor(call.frame),
                                          !.disposition = EndFor(call.frame), !.back = back]
        /\ UNCHANGED armed
  /\ UNCHANGED <<encrypted, chain, alive, settled, killed, result, seen,
                 log, torn, stored, childVars, faults>>

\* finalize's manifest is in place and the run resolves.
WriteFinal ==
  /\ alive
  /\ call.stage = "final"
  /\ disk' = manifest
  /\ result' = manifest.disposition
  /\ call' = Idle
  /\ UNCHANGED <<encrypted, chain, manifest, alive, settled, armed, killed, seen,
                 log, torn, stored, childVars, faults>>

\* A write fails and its caller throws: nothing catches that.
WriteFails ==
  /\ alive
  /\ call.stage \in {"payload", "line", "manifest", "final"}
  /\ faults < MaxFaults
  /\ faults' = faults + 1
  /\ alive' = FALSE
  /\ \/ UNCHANGED torn
     \/ call.stage = "line" /\ torn' = TRUE
  /\ UNCHANGED <<encrypted, chain, manifest, call, settled, armed, killed, result, seen,
                 log, stored, disk, childVars>>

\* The host's clock is adjusted.
ClockIsSet ==
  /\ faults < MaxFaults
  /\ faults' = faults + 1
  /\ UNCHANGED <<fileVars, childVars, guardVars>>

-----------------------------------------------------------------------------
(* The child.                                                              *)

\* spawn throws: that is the last frame, and there is no child.
SpawnThrows ==
  /\ alive
  /\ call.stage = "spawn"
  /\ \E back \in Regressed : Emit(FrameOf("wrapper_failure", None, 0, "failed", back))
  /\ UNCHANGED <<encrypted, manifest, settled, armed, killed, result, seen,
                 fileVars, childVars, faults>>

\* spawn returns, with a child or with an error to be reported later; either way the
\* child counts as started.
Spawn ==
  /\ alive
  /\ call.stage = "spawn"
  /\ child' \in {"unborn", "running"}
  /\ \E back \in Regressed : Emit(FrameOf("process_started", None, 0, "running", back))
  /\ UNCHANGED <<encrypted, manifest, settled, armed, killed, result, seen,
                 fileVars, fate, held, wrote, faults>>

\* The child, or who holds its pipes, writes.
ChildWrites(c) ==
  /\ child = "running" \/ held
  /\ wrote[c] < MaxChunks
  /\ wrote' = [wrote EXCEPT ![c] = @ + 1]
  /\ UNCHANGED <<child, fate, held, fileVars, guardVars, faults>>

ChildExits(how) ==
  /\ child = "running"
  /\ child' = "exited"
  /\ fate' = how
  /\ held' \in BOOLEAN
  /\ UNCHANGED <<wrote, fileVars, guardVars, faults>>

PipesReleased ==
  /\ held
  /\ held' = FALSE
  /\ UNCHANGED <<child, fate, wrote, fileVars, guardVars, faults>>

-----------------------------------------------------------------------------
(* The listeners.                                                          *)

Listening == alive /\ call = Idle

\* A chunk is relayed, then recorded.
Data(c) ==
  /\ Listening
  /\ seen[c] < wrote[c]
  /\ seen' = [seen EXCEPT ![c] = @ + 1]
  /\ \E back \in Regressed : Emit(FrameOf("chunk", c, seen'[c], "running", back))
  /\ UNCHANGED <<encrypted, manifest, settled, armed, killed, result,
                 fileVars, childVars, faults>>

\* The first of error and close ends the run; the signals lose their listeners.
Settle(f) ==
  /\ ~settled
  /\ settled' = TRUE
  /\ armed' = {}
  /\ Emit(f)
  /\ UNCHANGED <<encrypted, manifest, result, seen, fileVars, childVars, faults>>

\* error: the command could not be run.
ErrorReported_Unheard == FALSE
ErrorReported == child = "unborn"
SpawnFails ==
  /\ Listening
  /\ ErrorReported
  /\ \E back \in Regressed : Settle(FrameOf("wrapper_failure", None, 0, "failed", back))
  /\ UNCHANGED killed

\* close: the child exited and both its pipes were read to their end.
AllRead_Exit == TRUE
AllRead == ~held /\ seen = wrote
Close ==
  /\ Listening
  /\ child = "exited"
  /\ AllRead
  /\ \E back \in Regressed : Settle(FrameOf("process_terminal", None, 0, fate, back))
  /\ UNCHANGED killed

\* A signal with a listener is passed on, once, and no other after it.
Forward(g) ==
  /\ Listening
  /\ g \in armed
  /\ armed' = armed \ {g}
  /\ killed' = (killed \/ child = "running")
  /\ UNCHANGED <<encrypted, chain, manifest, call, alive, settled, result, seen,
                 fileVars, childVars, faults>>

\* Passing it on is not permitted: the child object emits error while the child lives.
ForwardFails(g) ==
  /\ Listening
  /\ g \in armed /\ ~killed
  /\ child = "running"
  /\ \E back \in Regressed : Settle(FrameOf("wrapper_failure", None, 0, "failed", back))
  /\ UNCHANGED killed

\* A signal without a listener ends the guard, between two writes.
SignalKills(g) ==
  /\ alive
  /\ g \notin armed
  /\ alive' = FALSE
  /\ UNCHANGED <<encrypted, chain, manifest, call, settled, armed, killed, result, seen,
                 fileVars, childVars, faults>>

Next ==
  \/ StorePayload \/ WriteLine \/ WriteManifest \/ WriteFinal
  \/ WriteFails \/ ClockIsSet
  \/ SpawnThrows \/ Spawn
  \/ \E c \in Channel : ChildWrites(c) \/ Data(c)
  \/ \E how \in Fate : ChildExits(how)
  \/ PipesReleased
  \/ SpawnFails \/ Close
  \/ \E g \in Signal : Forward(g) \/ ForwardFails(g) \/ SignalKills(g)

Spec == Init /\ [][Next]_vars

\* The guard's calls and listeners run.  Nothing is assumed of the child.
Fairness ==
  /\ WF_vars(StorePayload \/ WriteLine \/ WriteManifest \/ WriteFinal)
  /\ WF_vars(Spawn \/ SpawnThrows)
  /\ \A c \in Channel : WF_vars(Data(c))
  /\ WF_vars(SpawnFails)
  /\ WF_vars(Close)

FairSpec == Spec /\ Fairness

-----------------------------------------------------------------------------
(* verifyBundle                                                            *)

Last(s) == s[Len(s)]
Chunks(c) == {i \in 1 .. Len(log) : log[i].kind = "chunk" /\ log[i].channel = c}

\* The frames are one chain in time order, and one of them, the last, ends the run.
FramesSound ==
  /\ \A i \in 1 .. Len(log) : FrameSound(log[i]) /\ log[i].sequence = i - 1 /\ ~log[i].back
  /\ \A i \in 1 .. Len(log) : (log[i].kind \in Ending) <=> (i = Len(log))

\* verifyContent: the payloads that frames refer to are there.
PayloadsSound ==
  \A i \in 1 .. Len(log) :
    HasPayload(log[i].kind) => <<log[i].channel, log[i].number>> \in stored

\* The disposition and status that the last frame demands of the manifest.
EndingSound ==
  LET last == Last(log) IN
  /\ disk.disposition = IF last.kind = "wrapper_failure" THEN last.kind ELSE last.disposition
  /\ disk.status = "aborted" <=> last.kind = "wrapper_failure"

Verifies ==
  /\ ~torn /\ log # <<>>
  /\ FramesSound /\ PayloadsSound
  /\ disk.status # "recording" /\ disk.frames = Len(log) /\ ~disk.back
  /\ EndingSound

\* The chunks of a channel are in the log, up to the n-th, in the order of the channel.
RecordedUpTo(c, n) ==
  /\ {log[i].number : i \in Chunks(c)} = 1 .. n
  /\ \A i, j \in Chunks(c) : i < j => log[i].number < log[j].number

\* Evidence that verifies is the whole run: a finalized bundle holds every chunk that was
\* ever written, each channel in order, and how the child really ended; an aborted one
\* holds the output up to the error, and no chunk out of order.
VerifiedRunIsWhole ==
  Verifies =>
    /\ disk.status = "finalized" =>
         /\ child = "exited" /\ disk.disposition = fate
         /\ \A c \in Channel : RecordedUpTo(c, wrote[c])
    /\ disk.status = "aborted" =>
         \A c \in Channel : RecordedUpTo(c, Cardinality(Chunks(c)))

\* A run that resolved without a fault of the host verifies, whatever the child, the
\* signals and the order of error, output and close were.
ResolvedRunVerifies == result # None /\ faults = 0 => Verifies

\* When the child is gone and nobody holds its pipes the run resolves, unless the guard
\* itself was ended.
RunEnds ==
  (child = "unborn" \/ (child = "exited" /\ ~held)) ~> (~alive \/ result # None)

(***************************************************************************)
(* Why evidence that verifies is whole: an inductive invariant.  A frame   *)
(* that ends the run is the last one built, since the manifest refuses     *)
(* more once that frame is in it; until then what a channel delivered is   *)
(* in the log but for the chunk being written; and close comes only when   *)
(* nobody is left to write.                                                *)
(***************************************************************************)
Emitting == call.stage \in {"payload", "line"}

Frame ==
  [sequence : Nat, kind : {"decision", "process_started", "chunk"} \cup Ending,
   channel : Channel \cup {None}, number : Nat, back : BOOLEAN,
   disposition : Fate \cup {"running", None}]
Manifest ==
  [status : {"recording", "finalized", "aborted"}, frames : Nat, back : BOOLEAN,
   disposition : Fate \cup {"running", "wrapper_failure", None}]

TypeOK ==
  /\ encrypted \in BOOLEAN /\ alive \in BOOLEAN /\ torn \in BOOLEAN /\ held \in BOOLEAN
  /\ chain \in Nat /\ faults \in Nat
  /\ manifest \in Manifest /\ disk \in Manifest
  /\ call.stage \in {"idle", "payload", "line", "manifest", "final", "spawn"}
  /\ call \in [stage : {call.stage}, frame : Frame \cup {None}]
  /\ call.stage \in {"payload", "line", "manifest", "final"} => call.frame \in Frame
  /\ log \in Seq(Frame)
  /\ child \in {"none", "unborn", "running", "exited"}
  /\ wrote \in [Channel -> Nat] /\ seen \in [Channel -> Nat]

LogSound ==
  /\ \A i \in 1 .. Len(log) : FrameSound(log[i]) /\ log[i].sequence = i - 1
  /\ Emitting => FrameSound(call.frame)
  /\ alive => /\ chain = Len(log) + (IF Emitting THEN 1 ELSE 0)
              /\ Emitting => call.frame.sequence = Len(log)
  /\ call.stage \in {"manifest", "final"} => log # <<>> /\ call.frame = Last(log)
  /\ \A i \in 1 .. Len(log) : log[i].kind \in Ending =>
       i = Len(log) /\ ~Emitting /\ (call.stage = "manifest" \/ manifest.status # "recording")

FaultSound ==
  faults = 0 =>
    /\ \A i \in 1 .. Len(log) : ~log[i].back
    /\ Emitting => ~call.frame.back
    /\ ~manifest.back /\ ~torn

ManifestSound ==
  /\ manifest.frames = Len(log)
  /\ manifest.status # "recording" =>
       /\ call.stage \in {"final", "idle"}
       /\ log # <<>> /\ Last(log).kind \in Ending
       /\ manifest.status = StatusFor(Last(log)) /\ manifest.disposition = EndFor(Last(log))
  /\ call.stage = "final" => manifest.status # "recording"
  /\ disk.status # "recording" => disk = manifest /\ call.stage = "idle"
  /\ result # None => disk.status # "recording"

PayloadKept ==
  /\ PayloadsSound
  /\ call.stage = "line" /\ HasPayload(call.frame.kind) =>
       <<call.frame.channel, call.frame.number>> \in stored

BeingWritten(c) == Emitting /\ call.frame.kind = "chunk" /\ call.frame.channel = c
Ended ==
  \/ \E i \in 1 .. Len(log) : log[i].kind \in Ending
  \/ Emitting /\ call.frame.kind \in Ending

ChunkSound ==
  \A c \in Channel :
    /\ RecordedUpTo(c, Cardinality(Chunks(c)))
    /\ BeingWritten(c) => call.frame.number = Cardinality(Chunks(c)) + 1
    /\ alive /\ ~Ended => seen[c] = Cardinality(Chunks(c)) + IF BeingWritten(c) THEN 1 ELSE 0

WholeBy(f) ==
  f.kind = "process_terminal" =>
    /\ child = "exited" /\ ~held /\ f.disposition = fate
    /\ \A c \in Channel : seen[c] = wrote[c] /\ Cardinality(Chunks(c)) = wrote[c]

EndSound ==
  /\ \A i \in 1 .. Len(log) : WholeBy(log[i])
  /\ Emitting => WholeBy(call.frame)
  /\ child = "exited" => fate \in Fate
  /\ child # "exited" => ~held
  /\ call.stage = "spawn" \/ (call.stage # "idle" /\ call.frame.kind = "decision") =>
       child = "none"

IInv ==
  /\ TypeOK /\ LogSound /\ FaultSound /\ ManifestSound
  /\ PayloadKept /\ ChunkSound /\ EndSound
=============================================================================
