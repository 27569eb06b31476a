-------------------------- MODULE GuardedRunProofs --------------------------
(***************************************************************************)
(* Proofs about GuardedRun, for any number of channels, chunks, signals    *)
(* and faults.                                                             *)
(***************************************************************************)
EXTENDS GuardedRun, FiniteSetTheorems, TLAPS

-----------------------------------------------------------------------------
(* What the actions are, for the evidence *)

\* A frame is built and its write begins.
Builds(f) ==
  /\ alive /\ alive' /\ Appending /\ call.stage \in {"idle", "spawn"}
  /\ f \in Frame /\ FrameSound(f) /\ f.sequence = chain /\ (faults = 0 => ~f.back)
  /\ chain' = chain + 1
  /\ call' = [stage |-> IF HasPayload(f.kind) THEN "payload" ELSE "line", frame |-> f]
  /\ UNCHANGED <<encrypted, manifest, result, fileVars, faults>>

BuildsChunk(f) ==
  /\ Builds(f) /\ f.kind = "chunk" /\ call.stage = "idle"
  /\ f.channel \in Channel /\ f.number = seen[f.channel] + 1
  /\ seen[f.channel] < wrote[f.channel]
  /\ seen' = [seen EXCEPT ![f.channel] = @ + 1]
  /\ UNCHANGED childVars

BuildsStart(f) ==
  /\ Builds(f) /\ f.kind = "process_started" /\ call.stage = "spawn"
  /\ child' \in {"unborn", "running"}
  /\ UNCHANGED <<seen, fate, held, wrote>>

BuildsEnd(f) ==
  /\ Builds(f) /\ f.kind \in Ending
  /\ f.kind = "process_terminal" => child = "exited" /\ AllRead /\ f.disposition = fate
  /\ UNCHANGED <<seen, childVars>>

ChildMoves ==
  (\E c \in Channel : ChildWrites(c)) \/ (\E how \in Fate : ChildExits(how)) \/ PipesReleased

\* Nothing of the evidence changes; a guard that is refused a frame ends.
Quiet ==
  /\ UNCHANGED <<encrypted, call, fileVars, manifest, result>>
  /\ faults' \in {faults, faults + 1} /\ chain' \in {chain, chain + 1} /\ alive' \in BOOLEAN
  /\ alive' => alive /\ chain' = chain /\ seen' = seen
  /\ \/ seen' = seen
     \/ \E c \in Channel : seen[c] < wrote[c] /\ seen' = [seen EXCEPT ![c] = @ + 1]
  /\ \/ UNCHANGED childVars
     \/ ChildMoves /\ seen' = seen

LEMMA FrameOfMeans ==
  ASSUME TypeOK, NEW kind, NEW channel, NEW number, NEW disposition, NEW back,
         kind \in {"decision", "process_started", "chunk"} \cup Ending,
         channel \in Channel \cup {None}, number \in Nat,
         disposition \in Fate \cup {"running", None}, back \in BOOLEAN
  PROVE  LET f == FrameOf(kind, channel, number, disposition, back) IN
         /\ f \in Frame
         /\ f.kind = kind /\ f.channel = channel /\ f.number = number
         /\ f.disposition = disposition /\ f.back = back /\ f.sequence = chain
BY DEF FrameOf, Frame, TypeOK

\* Emit either builds the frame, or the guard ends.
LEMMA EmitMeans ==
  ASSUME TypeOK, ManifestSound, NEW f, f \in Frame, FrameSound(f), f.sequence = chain,
         faults = 0 => ~f.back, alive, call.stage \in {"idle", "spawn"}, Emit(f),
         UNCHANGED <<encrypted, manifest, result, fileVars, faults>>
  PROVE  \/ Builds(f)
         \/ ~alive' /\ chain' = chain + 1 /\ UNCHANGED call /\ call.stage = "idle"
BY DEF Emit, Appending, Builds, ManifestSound

LEMMA StepCases ==
  ASSUME TypeOK, ManifestSound, EndSound, [Next]_vars
  PROVE  \/ StorePayload \/ WriteLine \/ WriteManifest \/ WriteFinal \/ WriteFails
         \/ \E f \in Frame : BuildsChunk(f) \/ BuildsStart(f) \/ BuildsEnd(f)
         \/ Quiet
<1> DEFINE Goal == \/ StorePayload \/ WriteLine \/ WriteManifest \/ WriteFinal \/ WriteFails
                   \/ \E f \in Frame : BuildsChunk(f) \/ BuildsStart(f) \/ BuildsEnd(f)
                   \/ Quiet
<1>0. /\ None \notin Channel /\ chain \in Nat /\ faults \in Nat /\ alive \in BOOLEAN
      /\ wrote \in [Channel -> Nat] /\ seen \in [Channel -> Nat]
      /\ \A back \in Regressed : back \in BOOLEAN /\ (faults = 0 => ~back)
  <2>1. faults \in Nat /\ (faults = 0 => ~(faults > 0))
    BY DEF TypeOK
  <2>2. \A back \in Regressed : back \in BOOLEAN /\ (faults = 0 => ~back)
    BY <2>1, Zenon DEF Regressed
  <2> QED BY <2>1, <2>2, RunAssumption DEF TypeOK
<1>1. ASSUME SpawnThrows PROVE Goal
  <2>1. PICK back \in Regressed : Emit(FrameOf("wrapper_failure", None, 0, "failed", back))
    BY <1>1 DEF SpawnThrows
  <2> DEFINE f == FrameOf("wrapper_failure", None, 0, "failed", back)
  <2>2. f \in Frame /\ f.kind = "wrapper_failure" /\ f.disposition = "failed"
        /\ f.sequence = chain /\ f.back = back
    BY <1>0, FrameOfMeans DEF Ending, Fate
  <2> HIDE DEF f
  <2>3. FrameSound(f)
    BY <2>2 DEF FrameSound, Ending
  <2>4. Builds(f)
    BY <1>0, <1>1, <2>1, <2>2, <2>3, EmitMeans DEF SpawnThrows, f
  <2> QED BY <1>1, <2>2, <2>4 DEF SpawnThrows, BuildsEnd, Ending
<1>2. ASSUME Spawn PROVE Goal
  <2>1. PICK back \in Regressed : Emit(FrameOf("process_started", None, 0, "running", back))
    BY <1>2 DEF Spawn
  <2> DEFINE f == FrameOf("process_started", None, 0, "running", back)
  <2>2. f \in Frame /\ f.kind = "process_started" /\ f.disposition = "running"
        /\ f.sequence = chain /\ f.back = back
    BY <1>0, FrameOfMeans
  <2> HIDE DEF f
  <2>3. FrameSound(f)
    BY <2>2 DEF FrameSound, Ending
  <2>4. Builds(f)
    BY <1>0, <1>2, <2>1, <2>2, <2>3, EmitMeans DEF Spawn, f
  <2> QED BY <1>2, <2>2, <2>4 DEF Spawn, BuildsStart
<1>3. ASSUME NEW c \in Channel, Data(c) PROVE Goal
  <2>0. seen[c] + 1 \in Nat /\ seen' = [seen EXCEPT ![c] = @ + 1] /\ seen'[c] = seen[c] + 1
    BY <1>0, <1>3 DEF Data
  <2>1. PICK back \in Regressed : Emit(FrameOf("chunk", c, seen[c] + 1, "running", back))
    BY <1>3, <2>0 DEF Data
  <2> DEFINE f == FrameOf("chunk", c, seen[c] + 1, "running", back)
  <2>2. f \in Frame /\ f.kind = "chunk" /\ f.disposition = "running" /\ f.channel = c
        /\ f.sequence = chain /\ f.back = back /\ f.number = seen[c] + 1
    BY <1>0, <2>0, FrameOfMeans
  <2> HIDE DEF f
  <2>3. FrameSound(f)
    BY <2>2 DEF FrameSound, Ending
  <2>4. call.stage = "idle" /\ alive /\ seen[c] < wrote[c]
        /\ UNCHANGED <<encrypted, manifest, result, fileVars, childVars, faults>>
    BY <1>3 DEF Data, Listening, Idle
  <2>5. CASE Builds(f)
    BY <2>0, <2>2, <2>4, <2>5 DEF BuildsChunk
  <2>6. CASE ~Builds(f)
    <3>1. ~alive' /\ chain' = chain + 1 /\ UNCHANGED call
      BY <1>0, <2>1, <2>2, <2>3, <2>4, <2>6, EmitMeans DEF f
    <3>2. alive' \in BOOLEAN
      BY <1>0, <2>1, <2>4 DEF Emit
    <3> QED BY <2>0, <2>4, <3>1, <3>2 DEF Quiet
  <2> QED BY <2>5, <2>6
<1>4. ASSUME NEW f \in Frame, f.kind \in Ending, FrameSound(f), f.sequence = chain,
             faults = 0 => ~f.back, Listening, Settle(f),
             f.kind = "process_terminal" => child = "exited" /\ AllRead /\ f.disposition = fate
      PROVE  Goal
  <2>1. call.stage = "idle" /\ alive /\ Emit(f)
        /\ UNCHANGED <<encrypted, manifest, result, seen, fileVars, childVars, faults>>
    BY <1>4 DEF Settle, Listening, Idle
  <2>2. CASE Builds(f)
    BY <1>4, <2>1, <2>2 DEF BuildsEnd
  <2>3. CASE ~Builds(f)
    <3>1. ~alive' /\ chain' = chain + 1 /\ UNCHANGED call
      BY <1>0, <1>4, <2>1, <2>3, EmitMeans
    <3>2. alive' \in BOOLEAN
      BY <1>0, <2>1 DEF Emit
    <3> QED BY <2>1, <3>1, <3>2 DEF Quiet
  <2> QED BY <2>2, <2>3
<1>5. ASSUME NEW back \in Regressed, Listening,
             Settle(FrameOf("wrapper_failure", None, 0, "failed", back))
      PROVE  Goal
  <2> DEFINE f == FrameOf("wrapper_failure", None, 0, "failed", back)
  <2>2. f \in Frame /\ f.kind = "wrapper_failure" /\ f.disposition = "failed"
        /\ f.sequence = chain /\ f.back = back
    BY <1>0, FrameOfMeans DEF Ending, Fate
  <2>3. Settle(f)
    BY <1>5
  <2> HIDE DEF f
  <2> QED BY <1>0, <1>4, <1>5, <2>2, <2>3 DEF FrameSound, Ending
<1>6. ASSUME Close PROVE Goal
  <2>1. PICK back \in Regressed : Settle(FrameOf("process_terminal", None, 0, fate, back))
    BY <1>6 DEF Close
  <2>2. fate \in Fate /\ child = "exited" /\ AllRead /\ Listening
    BY <1>6 DEF Close, EndSound
  <2> DEFINE f == FrameOf("process_terminal", None, 0, fate, back)
  <2>3. f \in Frame /\ f.kind = "process_terminal" /\ f.disposition = fate
        /\ f.sequence = chain /\ f.back = back
    BY <1>0, <2>2, FrameOfMeans DEF Ending
  <2>4. Settle(f)
    BY <2>1
  <2> HIDE DEF f
  <2> QED BY <1>0, <1>4, <2>2, <2>3, <2>4 DEF FrameSound, Ending
<1> HIDE DEF Goal
<1>7. ASSUME SpawnFails \/ (\E g \in Signal : ForwardFails(g)) PROVE Goal
  BY <1>5, <1>7 DEF SpawnFails, ForwardFails
<1>8. ASSUME ClockIsSet \/ UNCHANGED vars PROVE Quiet
  BY <1>0, <1>8 DEF Quiet, ClockIsSet, vars, fileVars, childVars, guardVars
<1>9. ASSUME ChildMoves PROVE Quiet
  <2>1. UNCHANGED <<fileVars, guardVars, faults>>
    BY <1>9 DEF ChildMoves, ChildWrites, ChildExits, PipesReleased
  <2> QED BY <1>0, <1>9, <2>1 DEF Quiet, guardVars
<1>10. ASSUME NEW g \in Signal, Forward(g) \/ SignalKills(g) PROVE Quiet
  <2>1. /\ UNCHANGED <<encrypted, call, fileVars, manifest, result, faults, chain, seen, childVars>>
    BY <1>10 DEF Forward, SignalKills, childVars
  <2>2. alive' \in BOOLEAN /\ (alive' => alive)
    <3>1. CASE Forward(g)
      BY <1>0, <3>1, Zenon DEF Forward, Listening
    <3>2. CASE SignalKills(g)
      BY <3>2, Zenon DEF SignalKills
    <3> QED BY <1>10, <3>1, <3>2
  <2> QED BY <1>0, <2>1, <2>2 DEF Quiet
<1>11. Goal
  BY <1>1, <1>2, <1>3, <1>6, <1>7, <1>8, <1>9, <1>10 DEF Next, ChildMoves, Goal
<1> QED BY <1>11 DEF Goal

-----------------------------------------------------------------------------
(* The inductive invariant, conjunct by conjunct *)

\* What the log is after a line was written.
LEMMA LineMeans ==
  ASSUME TypeOK, WriteLine
  PROVE  /\ log' \in Seq(Frame) /\ Len(log') = Len(log) + 1 /\ Len(log) \in Nat
         /\ \A i \in 1 .. Len(log) : log'[i] = log[i]
         /\ log'[Len(log) + 1] = call.frame /\ call.frame \in Frame
         /\ \A i \in 1 .. Len(log') : i \in 1 .. Len(log) \/ i = Len(log) + 1
         /\ log' # <<>> /\ Last(log') = call.frame
         /\ call'.stage = "manifest" /\ call'.frame = call.frame /\ call.stage = "line"
<1>1. call.stage = "line" /\ log' = Append(log, call.frame) /\ call.frame \in Frame
      /\ call'.stage = "manifest" /\ call'.frame = call.frame
  BY DEF WriteLine, TypeOK
<1>2. /\ log' \in Seq(Frame) /\ Len(log') = Len(log) + 1 /\ Len(log) \in Nat
      /\ \A i \in 1 .. Len(log) : log'[i] = log[i]
      /\ log'[Len(log) + 1] = call.frame
  BY <1>1 DEF TypeOK
<1>3. \A i \in 1 .. Len(log') : i \in 1 .. Len(log) \/ i = Len(log) + 1
  BY <1>2
<1>4. log' # <<>> /\ Last(log') = call.frame
  BY <1>2 DEF Last
<1> QED BY <1>1, <1>2, <1>3, <1>4

\* What the guard goes on to after the manifest was written.
LEMMA ManifestMeans ==
  ASSUME TypeOK, WriteManifest
  PROVE  /\ alive /\ call.stage = "manifest" /\ call.frame \in Frame /\ disk' = manifest
         /\ UNCHANGED <<encrypted, chain, alive, result, seen, log, torn, stored, childVars, faults>>
         /\ call' \in [stage : {call'.stage}, frame : Frame \cup {None}]
         /\ \/ /\ call.frame.kind = "decision"
               /\ call'.stage = "spawn" /\ manifest' = manifest
            \/ /\ call.frame.kind \in {"process_started", "chunk"}
               /\ call'.stage = "idle" /\ manifest' = manifest
            \/ /\ call.frame.kind \in Ending
               /\ call'.stage = "final" /\ call'.frame = call.frame
               /\ manifest' \in Manifest /\ manifest'.frames = manifest.frames
               /\ manifest'.status = StatusFor(call.frame)
               /\ manifest'.disposition = EndFor(call.frame)
               /\ faults = 0 => ~manifest'.back
<1>1. /\ alive /\ call.stage = "manifest" /\ call.frame \in Frame /\ disk' = manifest
      /\ UNCHANGED <<encrypted, chain, alive, result, seen, log, torn, stored, childVars, faults>>
  BY DEF WriteManifest, TypeOK
<1>2. CASE call.frame.kind = "decision" /\ call' = [stage |-> "spawn", frame |-> None]
           /\ UNCHANGED manifest
  BY <1>1, <1>2
<1>3. CASE call.frame.kind \in {"process_started", "chunk"} /\ call' = Idle /\ UNCHANGED manifest
  BY <1>1, <1>3 DEF Idle
<1>4. ASSUME call.frame.kind \in Ending, call' = [call EXCEPT !.stage = "final"],
             NEW back \in Regressed,
             manifest' = [manifest EXCEPT !.status = StatusFor(call.frame),
                                          !.disposition = EndFor(call.frame), !.back = back]
      PROVE  /\ call'.stage = "final" /\ call'.frame = call.frame
             /\ call' \in [stage : {call'.stage}, frame : Frame \cup {None}]
             /\ manifest' \in Manifest /\ manifest'.frames = manifest.frames
             /\ manifest'.status = StatusFor(call.frame)
             /\ manifest'.disposition = EndFor(call.frame)
             /\ faults = 0 => ~manifest'.back
  <2>1. EndFor(call.frame) \in Fate \cup {"running", "wrapper_failure", None}
        /\ StatusFor(call.frame) \in {"finalized", "aborted"}
    BY <1>1 DEF EndFor, StatusFor, Frame
  <2>2. faults = 0 => ~(faults > 0)
    OBVIOUS
  <2>3. back \in BOOLEAN /\ (faults = 0 => ~back)
    BY <2>2, Zenon DEF Regressed
  <2>4. manifest \in Manifest /\ call \in [stage : {call.stage}, frame : Frame \cup {None}]
    BY DEF TypeOK
  <2>5. /\ manifest' \in Manifest /\ manifest'.frames = manifest.frames
        /\ manifest'.status = StatusFor(call.frame)
        /\ manifest'.disposition = EndFor(call.frame) /\ manifest'.back = back
    BY <1>4, <2>1, <2>3, <2>4 DEF Manifest
  <2>6. /\ call'.stage = "final" /\ call'.frame = call.frame
        /\ call' \in [stage : {call'.stage}, frame : Frame \cup {None}]
    BY <1>4, <2>4
  <2>7. faults = 0 => ~manifest'.back
    BY <2>3, <2>5
  <2> QED BY <2>5, <2>6, <2>7
<1> QED BY <1>1, <1>2, <1>3, <1>4 DEF WriteManifest

LEMMA TypeStep ==
  ASSUME TypeOK, ManifestSound, EndSound, [Next]_vars
  PROVE  TypeOK'
<1> USE DEF TypeOK
<1>1. ASSUME StorePayload PROVE TypeOK'
  BY <1>1 DEF StorePayload, childVars
<1>2. ASSUME WriteLine PROVE TypeOK'
  <2>1. manifest' \in Manifest
    <3>1. manifest \in Manifest /\ manifest' = [manifest EXCEPT !.frames = @ + 1]
      BY <1>2 DEF WriteLine
    <3>2. manifest.frames + 1 \in Nat
      BY <3>1 DEF Manifest
    <3> HIDE DEF TypeOK
    <3> QED BY <3>1, <3>2 DEF Manifest
  <2>2. call' \in [stage : {"manifest"}, frame : Frame]
    BY <1>2 DEF WriteLine
  <2> QED BY <1>2, <2>1, <2>2, LineMeans DEF WriteLine, childVars
<1>3. ASSUME WriteManifest PROVE TypeOK'
  <2>1. UNCHANGED <<child, held, wrote>>
    BY <1>3, ManifestMeans DEF childVars
  <2> QED BY <1>3, <2>1, ManifestMeans
<1>4. ASSUME WriteFinal PROVE TypeOK'
  BY <1>4 DEF WriteFinal, Idle, childVars
<1>5. ASSUME WriteFails PROVE TypeOK'
  <2>1. UNCHANGED <<encrypted, chain, manifest, call, seen, log, disk, childVars>>
        /\ alive' = FALSE /\ faults' = faults + 1
    BY <1>5 DEF WriteFails
  <2>2. torn' \in BOOLEAN
    BY <1>5 DEF WriteFails
  <2>3. UNCHANGED <<child, held, wrote>>
    BY <2>1 DEF childVars
  <2>4. faults' \in Nat
    BY <2>1
  <2>5. alive' \in BOOLEAN
    BY <2>1, Zenon
  <2> QED BY <2>1, <2>2, <2>3, <2>4, <2>5
<1>6. ASSUME NEW f \in Frame, BuildsChunk(f) \/ BuildsStart(f) \/ BuildsEnd(f) PROVE TypeOK'
  <2>1. /\ call' \in [stage : {call'.stage}, frame : Frame]
        /\ call'.stage \in {"line", "payload"}
    BY <1>6 DEF BuildsChunk, BuildsStart, BuildsEnd, Builds
  <2>2. seen' \in [Channel -> Nat] /\ child' \in {"none", "unborn", "running", "exited"}
        /\ wrote' = wrote /\ held' = held
    BY <1>6 DEF BuildsChunk, BuildsStart, BuildsEnd, childVars
  <2>3. /\ UNCHANGED <<encrypted, manifest, result, fileVars, faults>>
        /\ chain' = chain + 1 /\ alive'
    BY <1>6 DEF BuildsChunk, BuildsStart, BuildsEnd, Builds
  <2> QED BY <2>1, <2>2, <2>3 DEF fileVars
<1>7. ASSUME Quiet PROVE TypeOK'
  <2>1. seen' \in [Channel -> Nat]
    BY <1>7 DEF Quiet
  <2>2. wrote' \in [Channel -> Nat] /\ child' \in {"none", "unborn", "running", "exited"}
        /\ held' \in BOOLEAN
    <3>1. CASE UNCHANGED childVars
      BY <3>1 DEF childVars
    <3>2. ASSUME NEW c \in Channel, ChildWrites(c)
          PROVE  UNCHANGED <<child, held>> /\ wrote' \in [Channel -> Nat]
      BY <3>2 DEF ChildWrites
    <3>3. ASSUME NEW how \in Fate, ChildExits(how)
          PROVE  UNCHANGED wrote /\ child' = "exited" /\ held' \in BOOLEAN
      BY <3>3 DEF ChildExits
    <3>4. CASE PipesReleased
      BY <3>4 DEF PipesReleased
    <3> QED BY <1>7, <3>1, <3>2, <3>3, <3>4 DEF Quiet, ChildMoves
  <2> QED BY <1>7, <2>1, <2>2 DEF Quiet, fileVars
<1> QED BY <1>1, <1>2, <1>3, <1>4, <1>5, <1>6, <1>7, StepCases

\* The frames are numbered in the order they are built, and one that ends the run is the
\* last.
LEMMA LogStep ==
  ASSUME TypeOK, LogSound, ManifestSound, EndSound, [Next]_vars
  PROVE  LogSound'
<1> USE DEF LogSound, Emitting
<1>0. Len(log) \in Nat /\ DOMAIN log = 1 .. Len(log) /\ alive \in BOOLEAN
  BY DEF TypeOK
<1>1. ASSUME StorePayload PROVE LogSound'
  BY <1>1 DEF StorePayload, TypeOK
<1>2. ASSUME WriteLine PROVE LogSound'
  <2>1. UNCHANGED <<chain, alive>> /\ manifest'.status = manifest.status
    BY <1>2 DEF WriteLine, TypeOK, Manifest
  <2>2. \A i \in 1 .. Len(log) : log[i].kind \notin Ending
    BY <1>2 DEF WriteLine
  <2>3. alive /\ call.stage = "line" /\ chain = Len(log) + 1 /\ FrameSound(call.frame)
        /\ call.frame.sequence = Len(log)
    BY <1>2 DEF WriteLine
  <2>4. ASSUME NEW i \in 1 .. Len(log')
        PROVE  /\ FrameSound(log'[i]) /\ log'[i].sequence = i - 1
               /\ log'[i].kind \in Ending => i = Len(log')
    <3>1. CASE i \in 1 .. Len(log)
      BY <1>2, <2>2, <3>1, LineMeans
    <3>2. CASE i = Len(log) + 1
      BY <1>0, <1>2, <2>3, <3>2, LineMeans
    <3> QED BY <1>2, <3>1, <3>2, LineMeans
  <2>5. call'.stage = "manifest" /\ call'.frame = Last(log') /\ log' # <<>>
        /\ Len(log') = Len(log) + 1
    BY <1>2, LineMeans
  <2> HIDE DEF LogSound
  <2>6. alive' => chain' = Len(log')
    BY <2>1, <2>3, <2>5
  <2>7. ~Emitting'
    BY <2>5
  <2> HIDE DEF Emitting
  <2>8. alive' => chain' = Len(log') + (IF Emitting' THEN 1 ELSE 0)
    BY <2>5, <2>6, <2>7, <1>0
  <2> QED BY <2>4, <2>5, <2>7, <2>8 DEF LogSound
<1>3. ASSUME WriteManifest PROVE LogSound'
  <2>1. UNCHANGED <<chain, alive, log>> /\ alive /\ call.stage = "manifest"
        /\ (call'.stage \in {"idle", "spawn"} => call.frame.kind \notin Ending)
        /\ (call'.stage \notin {"idle", "spawn"} =>
              call'.stage = "final" /\ call'.frame = call.frame
              /\ manifest'.status # "recording")
        /\ call'.stage \notin {"payload", "line", "manifest"}
    BY <1>3, ManifestMeans DEF Ending, StatusFor
  <2>2. call.frame = log[Len(log)] /\ Len(log) \in 1 .. Len(log)
    BY <1>0, <2>1 DEF Last
  <2>3. call'.stage \in {"idle", "spawn"} => \A i \in 1 .. Len(log) : log[i].kind \notin Ending
    BY <2>1, <2>2
  <2> QED BY <1>0, <2>1, <2>3
<1>4. ASSUME WriteFinal PROVE LogSound'
  BY <1>4 DEF WriteFinal, Idle, ManifestSound
<1>5. ASSUME WriteFails PROVE LogSound'
  BY <1>5 DEF WriteFails
<1>6. ASSUME NEW f \in Frame, Builds(f) PROVE LogSound'
  <2>1. /\ call'.stage \in {"payload", "line"} /\ call'.frame = f
        /\ UNCHANGED <<log, manifest>> /\ alive /\ chain' = chain + 1
        /\ f.sequence = chain /\ FrameSound(f)
        /\ call.stage \in {"idle", "spawn"} /\ manifest.status = "recording"
    BY <1>6 DEF Builds, fileVars, Appending
  <2>2. \A i \in 1 .. Len(log) : log[i].kind \notin Ending
    BY <2>1
  <2>3. chain = Len(log)
    <3>1. chain = Len(log) + (IF Emitting THEN 1 ELSE 0) /\ ~Emitting
      BY <2>1
    <3> HIDE DEF Emitting, LogSound
    <3> QED BY <1>0, <3>1
  <2> QED BY <1>0, <2>1, <2>2, <2>3
<1>7. ASSUME Quiet PROVE LogSound'
  BY <1>7 DEF Quiet, fileVars
<1> QED
  BY <1>1, <1>2, <1>3, <1>4, <1>5, <1>6, <1>7, StepCases DEF BuildsChunk, BuildsStart, BuildsEnd

\* Without a fault of the host nothing is dated back and no line is torn.
LEMMA FaultStep ==
  ASSUME TypeOK, ManifestSound, EndSound, FaultSound, [Next]_vars
  PROVE  FaultSound'
<1> USE DEF FaultSound, Emitting
<1>0. faults \in Nat /\ Len(log) \in Nat
  BY DEF TypeOK
<1>1. ASSUME StorePayload \/ WriteFinal PROVE FaultSound'
  BY <1>1 DEF StorePayload, WriteFinal, TypeOK, Idle
<1>2. ASSUME WriteLine PROVE FaultSound'
  <2>1. UNCHANGED <<faults, torn>> /\ manifest'.back = manifest.back
    BY <1>2 DEF WriteLine, TypeOK, Manifest
  <2> QED BY <1>0, <1>2, <2>1, LineMeans
<1>3. ASSUME WriteManifest PROVE FaultSound'
  BY <1>3, ManifestMeans
<1>4. ASSUME WriteFails PROVE FaultSound'
  BY <1>0, <1>4 DEF WriteFails
<1>5. ASSUME NEW f \in Frame, Builds(f) PROVE FaultSound'
  BY <1>5 DEF Builds, fileVars
<1>6. ASSUME Quiet PROVE FaultSound'
  BY <1>0, <1>6 DEF Quiet, fileVars
<1> QED
  BY <1>1, <1>2, <1>3, <1>4, <1>5, <1>6, StepCases DEF BuildsChunk, BuildsStart, BuildsEnd

\* The manifest in memory is the log's, and the one on disk is it once the run ended.
LEMMA ManifestStep ==
  ASSUME TypeOK, LogSound, ManifestSound, EndSound, [Next]_vars
  PROVE  ManifestSound'
<1> USE DEF ManifestSound
<1>0. Len(log) \in Nat /\ manifest \in Manifest
  BY DEF TypeOK
<1>1. ASSUME StorePayload PROVE ManifestSound'
  BY <1>1 DEF StorePayload
<1>2. ASSUME WriteLine PROVE ManifestSound'
  <2>1. /\ manifest'.frames = manifest.frames + 1 /\ manifest'.status = manifest.status
        /\ UNCHANGED <<disk, result>> /\ call.stage = "line"
    BY <1>0, <1>2 DEF WriteLine, Manifest
  <2>2. manifest.status = "recording" /\ disk.status = "recording" /\ result = None
    BY <2>1
  <2> QED BY <1>2, <2>1, <2>2, LineMeans
<1>3. ASSUME WriteManifest PROVE ManifestSound'
  <2>1. call.stage = "manifest" /\ manifest.status = "recording" /\ result = None
    BY <1>3 DEF WriteManifest
  <2>2. call.frame = Last(log) /\ log # <<>>
    BY <2>1 DEF LogSound
  <2>3. disk' = manifest /\ log' = log /\ result' = None
    BY <1>3, <2>1, ManifestMeans
  <2>4. /\ manifest'.frames = manifest.frames
        /\ manifest'.status # "recording" => call'.stage = "final"
        /\ call'.stage = "final" => manifest'.status # "recording"
        /\ manifest'.status # "recording" =>
             /\ Last(log).kind \in Ending
             /\ manifest'.status = StatusFor(Last(log)) /\ manifest'.disposition = EndFor(Last(log))
    BY <1>3, <2>1, <2>2, ManifestMeans DEF StatusFor
  <2> QED BY <2>1, <2>2, <2>3, <2>4 DEF Last
<1>4. ASSUME WriteFinal PROVE ManifestSound'
  BY <1>4 DEF WriteFinal, Idle, Last
<1>5. ASSUME WriteFails PROVE ManifestSound'
  BY <1>5 DEF WriteFails, Last
<1>6. ASSUME NEW f \in Frame, Builds(f) PROVE ManifestSound'
  BY <1>6 DEF Builds, fileVars, Appending
<1>7. ASSUME Quiet PROVE ManifestSound'
  BY <1>7 DEF Quiet, fileVars, Last
<1> QED
  BY <1>1, <1>2, <1>3, <1>4, <1>5, <1>6, <1>7, StepCases DEF BuildsChunk, BuildsStart, BuildsEnd

\* A payload is there before the frame that refers to it.
LEMMA PayloadStep ==
  ASSUME TypeOK, ManifestSound, EndSound, PayloadKept, [Next]_vars
  PROVE  PayloadKept'
<1> USE DEF PayloadKept, PayloadsSound, HasPayload
<1>1. ASSUME StorePayload PROVE PayloadKept'
  BY <1>1 DEF StorePayload, TypeOK
<1>2. ASSUME WriteLine PROVE PayloadKept'
  <2>1. UNCHANGED <<encrypted, stored>> /\ call.stage = "line" /\ call'.stage = "manifest"
    BY <1>2, LineMeans DEF WriteLine
  <2>2. ASSUME NEW i \in 1 .. Len(log'), HasPayload(log'[i].kind)
        PROVE  <<log'[i].channel, log'[i].number>> \in stored
    <3>1. CASE i \in 1 .. Len(log)
      BY <1>2, <2>2, <3>1, LineMeans
    <3>2. CASE i = Len(log) + 1
      BY <1>2, <2>1, <2>2, <3>2, LineMeans
    <3> QED BY <1>2, <3>1, <3>2, LineMeans
  <2> QED BY <2>1, <2>2
<1>3. ASSUME WriteManifest PROVE PayloadKept'
  BY <1>3, ManifestMeans
<1>4. ASSUME WriteFinal PROVE PayloadKept'
  BY <1>4 DEF WriteFinal, Idle
<1>5. ASSUME WriteFails PROVE PayloadKept'
  BY <1>5 DEF WriteFails
<1>6. ASSUME NEW f \in Frame, Builds(f) PROVE PayloadKept'
  BY <1>6 DEF Builds, fileVars
<1>7. ASSUME Quiet PROVE PayloadKept'
  BY <1>7 DEF Quiet, fileVars
<1> QED
  BY <1>1, <1>2, <1>3, <1>4, <1>5, <1>6, <1>7, StepCases DEF BuildsChunk, BuildsStart, BuildsEnd

-----------------------------------------------------------------------------
(* The chunks of a channel *)

LEMMA ChunksAreCounted ==
  ASSUME TypeOK, NEW c
  PROVE  /\ Chunks(c) \subseteq 1 .. Len(log) /\ Len(log) \in Nat
         /\ IsFiniteSet(Chunks(c)) /\ Cardinality(Chunks(c)) \in Nat
<1>1. Len(log) \in Nat /\ Chunks(c) \subseteq 1 .. Len(log)
  BY DEF TypeOK, Chunks
<1>2. IsFiniteSet(1 .. Len(log))
  BY <1>1, FS_Interval
<1> QED BY <1>1, <1>2, FS_Subset, FS_CardinalityType

Adds(c) == call.frame.kind = "chunk" /\ call.frame.channel = c

LEMMA ChunksGrow ==
  ASSUME TypeOK, WriteLine, NEW c
  PROVE  /\ Adds(c) => /\ Chunks(c)' = Chunks(c) \cup {Len(log) + 1}
                       /\ Cardinality(Chunks(c)') = Cardinality(Chunks(c)) + 1
         /\ ~Adds(c) => Chunks(c)' = Chunks(c)
<1>1. /\ Len(log) \in Nat /\ Len(log') = Len(log) + 1
      /\ \A i \in 1 .. Len(log) : log'[i] = log[i]
      /\ log'[Len(log) + 1] = call.frame
  BY LineMeans
<1>2. Adds(c) => Chunks(c)' = Chunks(c) \cup {Len(log) + 1}
  BY <1>1 DEF Adds, Chunks
<1>3. ~Adds(c) => Chunks(c)' = Chunks(c)
  BY <1>1 DEF Adds, Chunks
<1>4. IsFiniteSet(Chunks(c)) /\ Len(log) + 1 \notin Chunks(c)
  BY <1>1, ChunksAreCounted
<1>5. Cardinality(Chunks(c) \cup {Len(log) + 1}) = Cardinality(Chunks(c)) + 1
  BY <1>4, FS_AddElement
<1> QED BY <1>2, <1>3, <1>5

\* What a step that leaves the log alone leaves of its chunks.
LEMMA ChunksStay ==
  ASSUME log' = log, NEW c
  PROVE  /\ Chunks(c)' = Chunks(c) /\ Cardinality(Chunks(c))' = Cardinality(Chunks(c))
         /\ RecordedUpTo(c, Cardinality(Chunks(c))) =>
              RecordedUpTo(c, Cardinality(Chunks(c)))'
<1>1. Chunks(c)' = Chunks(c)
  BY DEF Chunks
<1> QED BY <1>1 DEF RecordedUpTo

\* The next chunk of a channel continues what is recorded of it.
LEMMA RecordedGrows ==
  ASSUME TypeOK, WriteLine, NEW c, RecordedUpTo(c, Cardinality(Chunks(c))),
         Adds(c) => call.frame.number = Cardinality(Chunks(c)) + 1
  PROVE  RecordedUpTo(c, Cardinality(Chunks(c)))'
<1> DEFINE n == Cardinality(Chunks(c))
           Numbers == {log[i].number : i \in Chunks(c)}
<1>0. n \in Nat /\ Len(log) \in Nat /\ Chunks(c) \subseteq 1 .. Len(log)
  BY ChunksAreCounted
<1>1. /\ \A i \in 1 .. Len(log) : log'[i] = log[i]
      /\ log'[Len(log) + 1] = call.frame
  BY LineMeans
<1>2. Numbers = 1 .. n /\ \A i, j \in Chunks(c) : i < j => log[i].number < log[j].number
  BY DEF RecordedUpTo
<1>3. CASE ~Adds(c)
  <2>1. Chunks(c)' = Chunks(c) /\ \A i \in Chunks(c) : log'[i] = log[i]
    BY <1>0, <1>1, <1>3, ChunksGrow
  <2> QED BY <2>1, <1>2 DEF RecordedUpTo
<1>4. CASE Adds(c)
  <2>1. /\ Chunks(c)' = Chunks(c) \cup {Len(log) + 1}
        /\ Cardinality(Chunks(c))' = n + 1 /\ call.frame.number = n + 1
    BY <1>4, ChunksGrow
  <2>2. /\ \A i \in Chunks(c) : log'[i].number = log[i].number /\ i < Len(log) + 1
        /\ log'[Len(log) + 1].number = n + 1
    BY <1>0, <1>1, <2>1
  <2>3. {log'[i].number : i \in Chunks(c)'} = Numbers \cup {n + 1}
    BY <2>1, <2>2
  <2>4. Numbers \cup {n + 1} = 1 .. (n + 1)
    BY <1>0, <1>2
  <2>5. \A i \in Chunks(c) : log[i].number \in 1 .. n
    BY <1>2
  <2>6. ASSUME NEW i \in Chunks(c)', NEW j \in Chunks(c)', i < j
        PROVE  log'[i].number < log'[j].number
    <3>1. CASE j \in Chunks(c)
      <4>1. i \in Chunks(c)
        BY <1>0, <2>1, <2>6, <3>1
      <4> QED BY <1>2, <2>2, <2>6, <3>1, <4>1
    <3>2. CASE j = Len(log) + 1
      <4>1. i \in Chunks(c)
        BY <1>0, <2>1, <2>6, <3>2
      <4> QED BY <1>0, <2>2, <2>5, <3>2, <4>1
    <3> QED BY <2>1, <3>1, <3>2
  <2> HIDE DEF n, Numbers
  <2> QED BY <2>1, <2>3, <2>4, <2>6 DEF RecordedUpTo
<1> QED BY <1>3, <1>4

\* What a channel delivered is in the log, in its order.
LEMMA ChunkStep ==
  ASSUME TypeOK, LogSound, ManifestSound, ChunkSound, EndSound, [Next]_vars
  PROVE  ChunkSound'
<1>0. /\ Len(log) \in Nat /\ seen \in [Channel -> Nat] /\ None \notin Channel
      /\ \A c \in Channel : Cardinality(Chunks(c)) \in Nat /\ seen[c] \in Nat
  BY ChunksAreCounted, RunAssumption DEF TypeOK
<1> DEFINE Stays(c) ==
      /\ RecordedUpTo(c, Cardinality(Chunks(c)))'
      /\ Cardinality(Chunks(c))' = Cardinality(Chunks(c))
<1>1. ASSUME log' = log, NEW c \in Channel PROVE Stays(c)
  BY <1>1, ChunksStay DEF ChunkSound
<1> HIDE DEF Stays
\* Steps that leave the log, and whatever is being written, alone.
<1>2. ASSUME log' = log, seen' = seen, Emitting' = Emitting, Emitting => call'.frame = call.frame,
             alive' => alive
      PROVE  ChunkSound'
  <2>1. Ended' = Ended /\ \A c : BeingWritten(c)' = BeingWritten(c)
    BY <1>2 DEF Ended, BeingWritten
  <2>2. \A c \in Channel : BeingWritten(c) => call'.frame = call.frame
    BY <1>2 DEF BeingWritten
  <2> QED BY <1>1, <1>2, <2>1, <2>2, SMT DEF ChunkSound, Stays
<1>3. ASSUME StorePayload PROVE ChunkSound'
  <2>1. log' = log /\ seen' = seen /\ alive' = alive /\ call.stage = "payload"
        /\ call'.stage = "line" /\ call'.frame = call.frame
    BY <1>3 DEF StorePayload, TypeOK
  <2> QED BY <1>2, <2>1 DEF Emitting
<1>4. ASSUME WriteManifest PROVE ChunkSound'
  <2>1. log' = log /\ seen' = seen /\ alive' = alive /\ call.stage = "manifest"
        /\ call'.stage \in {"spawn", "idle", "final"}
    BY <1>4, ManifestMeans
  <2> QED BY <1>2, <2>1 DEF Emitting
<1>5. ASSUME WriteFinal PROVE ChunkSound'
  BY <1>2, <1>5 DEF WriteFinal, Idle, Emitting
<1>6. ASSUME WriteFails PROVE ChunkSound'
  <2>1. log' = log /\ seen' = seen /\ call' = call /\ alive
    BY <1>6 DEF WriteFails
  <2> QED BY <1>2, <2>1 DEF Emitting
<1>7. ASSUME WriteLine PROVE ChunkSound'
  <2>1. Emitting /\ ~Emitting' /\ seen' = seen /\ alive' = alive
    BY <1>7, LineMeans DEF Emitting, WriteLine
  <2>2. Ended => Ended'
    <3>1. ASSUME NEW i \in 1 .. Len(log), log[i].kind \in Ending PROVE Ended'
      BY <1>0, <1>7, <3>1, LineMeans DEF Ended
    <3>2. CASE call.frame.kind \in Ending
      <4>1. Len(log) + 1 \in 1 .. Len(log') /\ log'[Len(log) + 1].kind \in Ending
        BY <1>0, <1>7, <3>2, LineMeans
      <4> QED BY <4>1 DEF Ended
    <3> QED BY <3>1, <3>2 DEF Ended
  <2>3. \A c \in Channel : ~BeingWritten(c)' /\ (BeingWritten(c) <=> Adds(c))
    BY <2>1 DEF BeingWritten, Adds
  <2>4. ASSUME NEW c \in Channel
        PROVE  /\ RecordedUpTo(c, Cardinality(Chunks(c)))'
               /\ Cardinality(Chunks(c))' = Cardinality(Chunks(c)) + IF Adds(c) THEN 1 ELSE 0
    <3>1. RecordedUpTo(c, Cardinality(Chunks(c)))
          /\ (Adds(c) => call.frame.number = Cardinality(Chunks(c)) + 1)
      BY <2>3 DEF ChunkSound
    <3> QED BY <1>0, <1>7, <3>1, ChunksGrow, RecordedGrows
  <2>5. ASSUME NEW c \in Channel, alive', ~Ended'
        PROVE  seen'[c] = Cardinality(Chunks(c))'
    <3>1. seen[c] = Cardinality(Chunks(c)) + IF BeingWritten(c) THEN 1 ELSE 0
      BY <2>1, <2>2, <2>5 DEF ChunkSound
    <3> QED BY <2>1, <2>3, <2>4, <3>1
  <2> QED BY <1>0, <2>3, <2>4, <2>5, ChunksAreCounted DEF ChunkSound
<1>8. ASSUME NEW f \in Frame, Builds(f) PROVE ~Emitting /\ Emitting' /\ call'.frame = f /\ alive
                                           /\ log' = log /\ ~Ended
  <2>1. /\ call'.stage \in {"payload", "line"} /\ call'.frame = f /\ log' = log /\ alive
        /\ call.stage \in {"idle", "spawn"} /\ manifest.status = "recording"
    BY <1>8 DEF Builds, fileVars, Appending
  <2> QED BY <2>1 DEF Emitting, Ended, LogSound
<1>9. ASSUME NEW f \in Frame, BuildsChunk(f) PROVE ChunkSound'
  <2>1. /\ f.kind = "chunk" /\ f.channel \in Channel /\ f.number = seen[f.channel] + 1
        /\ seen' = [seen EXCEPT ![f.channel] = @ + 1]
    BY <1>9 DEF BuildsChunk
  <2>2. ~Emitting /\ Emitting' /\ call'.frame = f /\ alive /\ log' = log /\ ~Ended
    BY <1>8, <1>9 DEF BuildsChunk
  <2>3. \A c \in Channel : BeingWritten(c)' <=> c = f.channel
    BY <2>1, <2>2 DEF BeingWritten
  <2>4. \A c \in Channel : seen[c] = Cardinality(Chunks(c))
    <3>1. \A c \in Channel : ~BeingWritten(c)
      BY <2>2 DEF BeingWritten
    <3> QED BY <1>0, <2>2, <3>1 DEF ChunkSound
  <2>5. \A c \in Channel : Stays(c)
    BY <1>1, <2>2
  <2>6. \A c \in Channel : seen'[c] = seen[c] + IF c = f.channel THEN 1 ELSE 0
    BY <1>0, <2>1
  <2> QED BY <1>0, <2>1, <2>2, <2>3, <2>4, <2>5, <2>6, SMT DEF ChunkSound, Stays
<1>10. ASSUME NEW f \in Frame, BuildsStart(f) \/ BuildsEnd(f) PROVE ChunkSound'
  <2>1. f.kind # "chunk" /\ seen' = seen
    BY <1>10 DEF BuildsStart, BuildsEnd, Ending
  <2>2. ~Emitting /\ Emitting' /\ call'.frame = f /\ alive /\ log' = log /\ ~Ended
    BY <1>8, <1>10 DEF BuildsStart, BuildsEnd
  <2>3. \A c \in Channel : ~BeingWritten(c) /\ ~BeingWritten(c)'
    BY <2>1, <2>2 DEF BeingWritten
  <2>4. \A c \in Channel : Stays(c)
    BY <1>1, <2>2
  <2> QED BY <1>0, <2>1, <2>2, <2>3, <2>4, SMT DEF ChunkSound, Stays
<1>11. ASSUME Quiet PROVE ChunkSound'
  <2>1. log' = log /\ call' = call /\ (alive' => alive /\ seen' = seen)
    BY <1>11 DEF Quiet, fileVars
  <2>2. Ended' = Ended /\ \A c : BeingWritten(c)' = BeingWritten(c)
    BY <2>1 DEF Ended, BeingWritten, Emitting
  <2> QED BY <1>1, <2>1, <2>2, SMT DEF ChunkSound, Stays
<1> QED BY <1>3, <1>4, <1>5, <1>6, <1>7, <1>9, <1>10, <1>11, StepCases

-----------------------------------------------------------------------------
(* The end *)

\* Once the child's end is being recorded nobody is left to write, and nothing is relayed.
LEMMA EndStep ==
  ASSUME TypeOK, LogSound, ManifestSound, ChunkSound, EndSound, [Next]_vars
  PROVE  EndSound'
<1>0. /\ Len(log) \in Nat /\ seen \in [Channel -> Nat] /\ wrote \in [Channel -> Nat]
      /\ held \in BOOLEAN
      /\ \A c \in Channel : Cardinality(Chunks(c)) \in Nat /\ seen[c] \in Nat
  BY ChunksAreCounted DEF TypeOK
<1> DEFINE Past == \A i \in 1 .. Len(log) : WholeBy(log[i])
           Now == Emitting => WholeBy(call.frame)
           Child == /\ child = "exited" => fate \in Fate
                    /\ child # "exited" => ~held
           Early == (call.stage = "spawn" \/ (call.stage # "idle" /\ call.frame.kind = "decision"))
                      => child = "none"
<1>1. ASSUME Past', Now', Child', Early' PROVE EndSound'
  BY <1>1 DEF EndSound
<1>2. Past /\ Now /\ Child /\ Early
  BY DEF EndSound
<1>3. ASSUME log' = log, UNCHANGED <<seen, childVars>>, NEW f, WholeBy(f) PROVE WholeBy(f)'
  <2>1. \A c \in Channel : Cardinality(Chunks(c))' = Cardinality(Chunks(c))
    BY <1>3, ChunksStay
  <2> QED BY <1>3, <2>1 DEF WholeBy, childVars
<1>4. ASSUME log' = log, UNCHANGED <<seen, childVars>> PROVE Past' /\ Child'
  BY <1>2, <1>3, <1>4 DEF childVars
<1>5. ASSUME call' = call, log' = log, UNCHANGED <<seen, childVars>> PROVE Now' /\ Early'
  BY <1>2, <1>3, <1>5 DEF childVars, Emitting
<1> HIDE DEF Past, Now, Child, Early
<1>6. ASSUME StorePayload PROVE EndSound'
  <2>1. /\ log' = log /\ UNCHANGED <<seen, childVars>> /\ call.stage = "payload"
        /\ call'.stage = "line" /\ call'.frame = call.frame
    BY <1>6 DEF StorePayload, TypeOK
  <2>2. Now' /\ Early'
    BY <1>2, <1>3, <2>1 DEF Now, Early, Emitting, childVars
  <2> QED BY <1>1, <1>4, <2>1, <2>2
<1>7. ASSUME WriteLine PROVE EndSound'
  <2>1. UNCHANGED <<seen, childVars>> /\ Emitting
    BY <1>7 DEF WriteLine, Emitting
  <2>2. Now' /\ Early'
    BY <1>2, <1>7, <2>1, LineMeans DEF Now, Early, Emitting, childVars
  <2>3. \A i \in 1 .. Len(log) : log[i].kind # "process_terminal"
    BY <2>1 DEF LogSound, Ending
  <2>4. WholeBy(call.frame)'
    <3>1. CASE call.frame.kind = "process_terminal"
      <4>1. \A c \in Channel : Cardinality(Chunks(c))' = Cardinality(Chunks(c))
        <5>1. ASSUME NEW c \in Channel PROVE Chunks(c)' = Chunks(c)
          BY <1>7, <3>1, ChunksGrow DEF Adds
        <5> QED BY <5>1
      <4>2. WholeBy(call.frame) /\ call'.frame = call.frame
        BY <1>2, <1>7, <2>1, LineMeans DEF Now
      <4> QED BY <2>1, <4>1, <4>2 DEF WholeBy, childVars
    <3>2. CASE call.frame.kind # "process_terminal"
      BY <1>7, <3>2, LineMeans DEF WholeBy
    <3> QED BY <3>1, <3>2
  <2>5. Past'
    <3>1. ASSUME NEW i \in 1 .. Len(log') PROVE WholeBy(log[i])'
      <4>1. CASE i \in 1 .. Len(log)
        BY <1>7, <2>3, <4>1, LineMeans DEF WholeBy
      <4>2. CASE i = Len(log) + 1
        <5>1. log'[i] = call'.frame
          BY <1>7, <4>2, LineMeans
        <5> QED BY <2>4, <5>1 DEF WholeBy
      <4> QED BY <1>7, <4>1, <4>2, LineMeans
    <3> QED BY <3>1 DEF Past
  <2>6. Child'
    BY <1>2, <2>1 DEF Child, childVars
  <2> QED BY <1>1, <2>2, <2>5, <2>6
<1>8. ASSUME WriteManifest PROVE EndSound'
  <2>1. /\ log' = log /\ UNCHANGED <<seen, childVars>> /\ call.stage = "manifest" /\ ~Emitting'
    BY <1>8, ManifestMeans DEF Emitting
  <2>2. Early'
    BY <1>2, <1>8, ManifestMeans DEF Early, childVars, Ending
  <2> QED BY <1>1, <1>4, <2>1, <2>2 DEF Now
<1>9. ASSUME WriteFinal PROVE EndSound'
  BY <1>1, <1>4, <1>9 DEF WriteFinal, Idle, Now, Early, Emitting
<1>10. ASSUME WriteFails PROVE EndSound'
  BY <1>1, <1>4, <1>5, <1>10 DEF WriteFails
<1>11. ASSUME NEW f \in Frame, Builds(f)
       PROVE  /\ ~Emitting /\ call'.frame = f /\ log' = log /\ ~Ended /\ alive
              /\ call'.stage \in {"payload", "line"}
              /\ \A i \in 1 .. Len(log) : log[i].kind # "process_terminal"
  <2>1. /\ call'.stage \in {"payload", "line"} /\ call'.frame = f /\ log' = log /\ alive
        /\ call.stage \in {"idle", "spawn"} /\ manifest.status = "recording"
    BY <1>11 DEF Builds, fileVars, Appending
  <2> QED BY <2>1 DEF Emitting, Ended, LogSound, Ending
<1>12. ASSUME NEW f \in Frame, BuildsChunk(f) \/ BuildsStart(f) PROVE EndSound'
  <2>1. /\ call'.frame = f /\ log' = log /\ f.kind \in {"chunk", "process_started"}
        /\ call'.stage \in {"payload", "line"}
        /\ \A i \in 1 .. Len(log) : log[i].kind # "process_terminal"
    BY <1>11, <1>12 DEF BuildsChunk, BuildsStart
  <2>2. Past' /\ Now' /\ Early'
    BY <2>1 DEF Past, Now, Early, WholeBy
  <2>3. Child'
    <3>1. CASE BuildsChunk(f)
      BY <1>2, <3>1 DEF BuildsChunk, Child, childVars
    <3>2. CASE BuildsStart(f)
      <4>1. child = "none" /\ child' # "exited" /\ held' = held
        BY <1>2, <3>2 DEF BuildsStart, Early
      <4> QED BY <1>2, <4>1 DEF Child
    <3> QED BY <1>12, <3>1, <3>2
  <2> QED BY <1>1, <2>2, <2>3
<1>13. ASSUME NEW f \in Frame, BuildsEnd(f) PROVE EndSound'
  <2>1. /\ log' = log /\ f.kind \in Ending /\ UNCHANGED <<seen, childVars>> /\ call'.frame = f
        /\ ~Emitting /\ ~Ended /\ alive
    BY <1>11, <1>13 DEF BuildsEnd
  <2>2. WholeBy(f)
    <3>1. \A c \in Channel : seen[c] = Cardinality(Chunks(c))
      <4>1. \A c \in Channel : ~BeingWritten(c)
        BY <2>1 DEF BeingWritten
      <4> QED BY <1>0, <2>1, <4>1 DEF ChunkSound
    <3> QED BY <1>0, <1>13, <3>1 DEF BuildsEnd, AllRead, WholeBy
  <2>3. WholeBy(f)'
    BY <1>3, <2>1, <2>2
  <2>4. Now' /\ Early'
    BY <2>1, <2>3, <1>11, <1>13 DEF BuildsEnd, Now, Early, Ending, WholeBy
  <2> QED BY <1>1, <1>4, <2>1, <2>4
<1>14. ASSUME Quiet PROVE EndSound'
  <2>1. call' = call /\ log' = log
    BY <1>14 DEF Quiet, fileVars
  <2>2. \A c \in Channel : Cardinality(Chunks(c))' = Cardinality(Chunks(c))
    BY <2>1, ChunksStay
  <2>3. ASSUME NEW f, WholeBy(f) PROVE WholeBy(f)'
    <3>1. CASE f.kind = "process_terminal"
      <4>1. child = "exited" /\ ~held /\ \A c \in Channel : ~(seen[c] < wrote[c])
        BY <1>0, <2>3, <3>1 DEF WholeBy
      <4>2. ~ChildMoves
        BY <4>1 DEF ChildMoves, ChildWrites, ChildExits, PipesReleased
      <4>3. UNCHANGED <<seen, childVars>>
        BY <1>14, <4>1, <4>2 DEF Quiet
      <4> QED BY <1>3, <2>1, <2>3, <4>3
    <3>2. CASE f.kind # "process_terminal"
      BY <3>2 DEF WholeBy
    <3> QED BY <3>1, <3>2
  <2>4. Past' /\ Now'
    BY <1>2, <2>1, <2>3 DEF Past, Now, Emitting
  <2>5. Child' /\ Early'
    <3>1. CASE UNCHANGED childVars
      BY <1>2, <2>1, <3>1 DEF Child, Early, childVars
    <3>2. ASSUME NEW c \in Channel, ChildWrites(c) PROVE Child' /\ Early'
      BY <1>2, <2>1, <3>2 DEF ChildWrites, Child, Early
    <3>3. ASSUME NEW how \in Fate, ChildExits(how) PROVE Child' /\ Early'
      BY <1>2, <2>1, <3>3 DEF ChildExits, Child, Early
    <3>4. CASE PipesReleased
      BY <1>2, <2>1, <3>4 DEF PipesReleased, Child, Early
    <3> QED BY <1>14, <3>1, <3>2, <3>3, <3>4 DEF Quiet, ChildMoves
  <2> QED BY <1>1, <2>4, <2>5
<1> QED
  BY <1>6, <1>7, <1>8, <1>9, <1>10, <1>12, <1>13, <1>14, StepCases

-----------------------------------------------------------------------------
(* The theorems *)

LEMMA InitSound ==
  ASSUME Init
  PROVE  IInv
<1>1. /\ call.stage = "line" /\ log = <<>> /\ chain = 1 /\ Len(log) = 0 /\ faults = 0
      /\ call.frame = [sequence |-> 0, kind |-> "decision", channel |-> None, number |-> 0,
                       disposition |-> None, back |-> FALSE]
      /\ manifest = [status |-> "recording", frames |-> 0, disposition |-> None, back |-> FALSE]
      /\ disk = manifest /\ child = "none" /\ ~held /\ ~torn /\ result = None
      /\ call = [stage |-> "line", frame |-> call.frame] /\ alive
      /\ seen = [c \in Channel |-> 0]
  BY DEF Init
<1>2. call.frame \in Frame /\ manifest \in Manifest
  BY <1>1 DEF Frame, Manifest
<1>3. TypeOK
  <2>1. call \in [stage : {call.stage}, frame : Frame \cup {None}]
    BY <1>1, <1>2
  <2>2. wrote \in [Channel -> Nat] /\ seen \in [Channel -> Nat] /\ log \in Seq(Frame)
    BY <1>1 DEF Init
  <2>3. encrypted \in BOOLEAN /\ alive \in BOOLEAN /\ torn \in BOOLEAN /\ held \in BOOLEAN
    BY Zenon DEF Init
  <2> QED BY <1>1, <1>2, <2>1, <2>2, <2>3 DEF TypeOK
<1>4. LogSound /\ FaultSound /\ ManifestSound /\ PayloadKept
  BY <1>1 DEF LogSound, FaultSound, ManifestSound, PayloadKept, PayloadsSound, HasPayload,
              FrameSound, Emitting, Ending
<1>5. \A c : Chunks(c) = {} /\ Cardinality(Chunks(c)) = 0
  BY <1>1, FS_EmptySet DEF Chunks
<1>6. ChunkSound
  <2>1. \A c : RecordedUpTo(c, 0) /\ ~BeingWritten(c)
    BY <1>1, <1>5 DEF RecordedUpTo, BeingWritten
  <2> QED BY <1>1, <1>5, <2>1 DEF ChunkSound
<1>7. EndSound
  BY <1>1 DEF EndSound, WholeBy
<1> QED BY <1>3, <1>4, <1>6, <1>7 DEF IInv

\* The invariant below is kept by every step.
THEOREM RunInvariance == Spec => []IInv
<1>1. Init => IInv
  BY InitSound
<1>2. IInv /\ [Next]_vars => IInv'
  BY TypeStep, LogStep, FaultStep, ManifestStep, PayloadStep, ChunkStep, EndStep DEF IInv
<1> QED BY <1>1, <1>2, PTL DEF Spec

\* Evidence that verifies is the whole run: what verifyBundle accepts holds every chunk the
\* child ever wrote, in order, and how it really ended, or the output up to the error.
THEOREM VerifiedRunsAreWhole == Spec => []VerifiedRunIsWhole
<1>1. ASSUME IInv, Verifies PROVE VerifiedRunIsWhole
  <2>1. /\ disk = manifest /\ log # <<>> /\ Last(log).kind \in Ending
        /\ disk.status = StatusFor(Last(log)) /\ disk.disposition = EndFor(Last(log))
    BY <1>1 DEF IInv, ManifestSound, Verifies
  <2>2. \A c \in Channel : RecordedUpTo(c, Cardinality(Chunks(c)))
    BY <1>1 DEF IInv, ChunkSound
  <2>3. ASSUME disk.status = "finalized"
        PROVE  /\ child = "exited" /\ disk.disposition = fate
               /\ \A c \in Channel : RecordedUpTo(c, wrote[c])
    <3>1. Last(log).kind = "process_terminal"
      BY <2>1, <2>3 DEF StatusFor, Ending
    <3>2. WholeBy(Last(log))
      <4>1. Len(log) \in 1 .. Len(log)
        BY <1>1, <2>1 DEF IInv, TypeOK
      <4> QED BY <1>1, <4>1 DEF IInv, EndSound, Last
    <3> QED BY <2>1, <2>2, <3>1, <3>2 DEF WholeBy, EndFor
  <2> QED BY <2>2, <2>3 DEF VerifiedRunIsWhole
<1>2. IInv => VerifiedRunIsWhole
  BY <1>1 DEF VerifiedRunIsWhole
<1> QED BY <1>2, RunInvariance, PTL

\* A run that resolved without a fault of the host left evidence that verifyBundle accepts.
THEOREM ResolvedRunsVerify == Spec => []ResolvedRunVerifies
<1>1. ASSUME IInv, result # None, faults = 0 PROVE Verifies
  <2>1. /\ disk.status # "recording" /\ disk = manifest /\ call.stage = "idle"
        /\ disk.frames = Len(log) /\ log # <<>> /\ Last(log).kind \in Ending
        /\ disk.status = StatusFor(Last(log)) /\ disk.disposition = EndFor(Last(log))
    BY <1>1 DEF IInv, ManifestSound
  <2>2. ~torn /\ ~disk.back /\ \A i \in 1 .. Len(log) : ~log[i].back
    BY <1>1, <2>1 DEF IInv, FaultSound
  <2>3. FramesSound
    <3>1. \A i \in 1 .. Len(log) : (log[i].kind \in Ending) <=> (i = Len(log))
      BY <1>1, <2>1 DEF IInv, LogSound, Last
    <3> QED BY <1>1, <2>2, <3>1 DEF IInv, LogSound, FramesSound
  <2>4. PayloadsSound
    BY <1>1 DEF IInv, PayloadKept
  <2>5. EndingSound
    BY <2>1 DEF EndingSound, StatusFor, EndFor, Ending
  <2> QED BY <2>1, <2>2, <2>3, <2>4, <2>5 DEF Verifies
<1>2. IInv => ResolvedRunVerifies
  BY <1>1 DEF ResolvedRunVerifies
<1> QED BY <1>2, RunInvariance, PTL
=============================================================================
