----------------------------- MODULE SdkReader -----------------------------
(***************************************************************************)
(* A reader of an SDK evidence bundle in another process than its          *)
(* recorder's: the verifier (src/sdk-verify.ts), and what acts on its      *)
(* verdict: the actor graph (src/actor-graph.ts), inspection and evidence  *)
(* readiness (src/inspect.ts, src/evidence-readiness.ts) and the upload    *)
(* (src/upload.ts).                                                        *)
(*                                                                         *)
(* Nothing is locked.  The verifier reads bundle.json and then             *)
(* frames.ndjson, and each of the others reads the files once more after   *)
(* it, so the recorder may write between any two of these reads.           *)
(*                                                                         *)
(* A context names one actor here, and distinct contexts distinct actors.  *)
(*                                                                         *)
(* A definition named X_Y is a faulty variant of X, kept to show which     *)
(* property notices it.                                                    *)
(***************************************************************************)
EXTENDS SdkRecorder

CONSTANT Requirement  \* of an evidence profile: [surfaces, isolation, visibility, world]

VARIABLES
  reader,  \* where the reader is
  seen,    \* the manifest it read, and then the log it verified with it
  report   \* what it reports in the end, of what kind

readerVars == <<reader, seen, report>>

NotRead == [manifest |-> None, log |-> <<>>]

ReaderInit ==
  /\ Init
  /\ reader = "idle" /\ seen = NotRead
  /\ report = [kind |-> "none"]

-----------------------------------------------------------------------------
(* The actor graph of a log: one pass over its decisions.                  *)

DecisionOf(frames, o) ==
  CHOOSE i \in DOMAIN frames : frames[i].kind = "decision" /\ frames[i].occurrence = o
ActionsOf(frames, o) ==
  {i \in DOMAIN frames : frames[i].kind = "action" /\ frames[i].occurrence = o}

Edge(frames, d, i, j) ==
  [parent |-> d.parent, child |-> d.occurrence,
   source |-> frames[i].context, target |-> d.context,
   dispatched |-> frames[j].started # NoTime, outcome |-> frames[j].outcome,
   preceded |-> j < DecisionOf(frames, d.occurrence)]

Crosses(e) == e.source # e.target

Row == [operations |-> 0, dispatched |-> 0, roots |-> 0, inbound |-> 0, outbound |-> 0]
Unvisited == [edges |-> {}, depth |-> <<>>, rows |-> [c \in Context |-> Row], threw |-> FALSE]
Throws == [Unvisited EXCEPT !.threw = TRUE]

\* One more of something in the row of an actor.
Count(rows, c, field) == [rows EXCEPT ![c][field] = @ + 1]

\* A parent must have been met by the time its child is.
ParentMet(g, d) == d.parent \in DOMAIN g.depth

\* What the decision d adds to the graph, or that it stops the analysis.
Visit(frames, g, d) ==
  LET own == ActionsOf(frames, d.occurrence)
      above == ActionsOf(frames, d.parent)
      counted == Count(g.rows, d.context, "operations")
      rows == IF \E j \in own : frames[j].started # NoTime
              THEN Count(counted, d.context, "dispatched") ELSE counted
      Deep(n) == [o \in DOMAIN g.depth \cup {d.occurrence} |->
                    IF o = d.occurrence THEN n ELSE g.depth[o]]
  IN  IF own = {} THEN Throws
      ELSE IF d.parent = None
      THEN [g EXCEPT !.rows = Count(rows, d.context, "roots"), !.depth = Deep(0)]
      ELSE IF ~ParentMet(g, d) \/ above = {} THEN Throws
      ELSE LET e == Edge(frames, d, DecisionOf(frames, d.parent), CHOOSE j \in above : TRUE)
           IN [g EXCEPT !.edges = @ \cup {e},
                        !.depth = Deep(g.depth[d.parent] + 1),
                        !.rows = IF Crosses(e)
                                 THEN Count(Count(rows, e.source, "outbound"), e.target, "inbound")
                                 ELSE rows]

\* The decision to visit next, in a log visited up to some frame.
NextDecision_Latest(frames, at) ==
  {i \in Decisions(frames) : i > at /\ \A j \in Decisions(frames) : j > at => i >= j}
NextDecision(frames, at) ==
  {i \in Decisions(frames) : i > at /\ \A j \in Decisions(frames) : j > at => i <= j}

-----------------------------------------------------------------------------
(* Inspection and readiness.                                               *)

\* sdkCoverage, which every SDK manifest carries and every frame repeats.
SdkCoverage ==
  [surfaces |-> {"application.state_root.identity", "decision.identity", "decision.input",
                 "decision.output", "policy.receipt", "tool.identity", "tool.request",
                 "tool.result"},
   isolation |-> FALSE, visibility |-> FALSE, world |-> FALSE]

\* A requirement against the inspection of a bundle that verified.  (Against one that
\* did not, each is indeterminate: the reader tries again here instead.)
AssessRequirement(q, inspection) ==
  LET met == /\ q.surfaces \subseteq inspection.surfaces
             /\ q.isolation => inspection.isolation
             /\ q.visibility => inspection.visibility
             /\ q.world => inspection.world
  IN  IF met THEN "evidence_ready"
      ELSE IF q.surfaces \cap inspection.surfaces # {} THEN "partial" ELSE "missing"

Readiness == [q \in Requirement |-> AssessRequirement(q, SdkCoverage)]

-----------------------------------------------------------------------------
(* The reader's steps.                                                     *)

\* verifySdkBundle reads bundle.json.  (If that is not final it refuses the bundle
\* whatever it reads next, and the reader may try again: such a reading is left out.)
ReadManifest ==
  /\ reader = "idle"
  /\ disk.status = "finalized"
  /\ reader' = "manifest"
  /\ seen' = [seen EXCEPT !.manifest = disk]
  /\ UNCHANGED <<vars, report>>

\* Then frames.ndjson.
ReadLog ==
  /\ reader = "manifest"
  /\ IF BundleVerifies(log, torn, seen.manifest)
     THEN reader' = "verified" /\ seen' = [seen EXCEPT !.log = log]
     ELSE reader' = "idle" /\ seen' = NotRead
  /\ UNCHANGED <<vars, report>>

\* assertFrameSnapshotMatchesVerification: the frames read again are one chain of the
\* verified length and head.
SameSnapshot(frames) == frames = seen.log

\* analyzeSdkActorGraph reads the frames again, for the last time.
Analyze ==
  /\ reader = "verified"
  /\ IF SameSnapshot(log) /\ ~torn
     THEN reader' = "walking" /\ report' = [kind |-> "walk", graph |-> Unvisited, at |-> 0]
     ELSE reader' = "done" /\ report' = [kind |-> "graph", graph |-> Throws]
  /\ UNCHANGED <<vars, seen>>

\* Its loop over the decisions, while the recorder's process goes on.
Walk ==
  /\ reader = "walking" /\ ~report.graph.threw
  /\ \E i \in NextDecision(seen.log, report.at) :
       report' = [kind |-> "walk", graph |-> Visit(seen.log, report.graph, seen.log[i]),
                  at |-> i]
  /\ UNCHANGED <<vars, reader, seen>>

ReportGraph ==
  /\ reader = "walking"
  /\ report.graph.threw \/ \A i \in Decisions(seen.log) : i <= report.at
  /\ reader' = "done"
  /\ report' = [kind |-> "graph", graph |-> report.graph]
  /\ UNCHANGED <<vars, seen>>

\* inspectBundle reads the manifest again, whose coverage it takes for that of the
\* verified bundle; the readiness report is made from it.
Assess ==
  /\ reader = "verified"
  /\ reader' = "done"
  /\ report' = [kind |-> "readiness", manifest |-> disk, status |-> Readiness]
  /\ UNCHANGED <<vars, seen>>

\* uploadEvidenceBundle reads the manifest again, then the frames, and sends both
\* without another look.
BeginUpload ==
  /\ reader = "verified"
  /\ reader' = "uploading"
  /\ report' = [kind |-> "upload", manifest |-> disk, log |-> <<>>]
  /\ UNCHANGED <<vars, seen>>

Upload ==
  /\ reader = "uploading"
  /\ reader' = "done"
  /\ report' = [report EXCEPT !.log = log]
  /\ UNCHANGED <<vars, seen>>

ReaderStep ==
  \/ ReadManifest \/ ReadLog
  \/ Analyze \/ Walk \/ ReportGraph
  \/ Assess \/ BeginUpload \/ Upload

ReaderNext == (Next /\ UNCHANGED readerVars) \/ ReaderStep

ReaderSpec == ReaderInit /\ [][ReaderNext]_<<vars, readerVars>>

-----------------------------------------------------------------------------

\* Two reads and no lock are enough: a bundle a reader accepted was one whole bundle,
\* and what any report reads again later is still what was accepted, although the
\* recorder is alive and its files were replaced and appended to under the reader.
ReaderIsConsistent ==
  /\ reader \in {"verified", "walking", "uploading"} =>
       seen.manifest = disk /\ seen.log = log /\ ~torn
  /\ reader = "done" =>
       /\ report.kind = "upload" => BundleVerifies(report.log, FALSE, report.manifest)
       /\ report.kind = "readiness" =>
            /\ report.manifest = seen.manifest
            /\ \A q \in Requirement :
                 report.status[q] = "evidence_ready" => Live = {} /\ ~q.isolation
       /\ report.kind = "graph" => SameSnapshot(log) /\ ~torn

\* A bundle that verified has an actor graph, and it says of the application what the
\* application did: each operation it was handed, or refused, is counted under its actor,
\* dispatched if it was; each parent it named is an edge, one deeper; an edge between
\* two actors is counted with both.
GraphIsFaithful ==
  report.kind = "graph" =>
    LET g == report.graph
        Of(c) == {d \in admitted : d.context = c}
    IN  /\ ~g.threw
        /\ {<<e.parent, e.child>> : e \in g.edges} =
             {<<d.parent, d.occurrence>> : d \in {x \in admitted : x.parent # None}}
        /\ \A e \in g.edges : g.depth[e.child] = g.depth[e.parent] + 1
        /\ \A e \in g.edges :
             e.dispatched <=> handle[e.parent] = "closed"
        /\ \A c \in Context :
             /\ g.rows[c].operations = Cardinality(Of(c))
             /\ g.rows[c].dispatched =
                  Cardinality({d \in Of(c) : started[d.occurrence] # NoTime})
             /\ g.rows[c].roots = Cardinality({d \in Of(c) : d.parent = None})
             /\ g.rows[c].inbound =
                  Cardinality({e \in g.edges : Crosses(e) /\ e.target = c})
             /\ g.rows[c].outbound =
                  Cardinality({e \in g.edges : Crosses(e) /\ e.source = c})

(***************************************************************************)
(* Why a reader is consistent: an inductive invariant, relative to the     *)
(* recorder's.  The first read sees a final manifest, after which the      *)
(* recorder touches neither file (SealSound), so each later read agrees.   *)
(***************************************************************************)
SeenSound ==
  /\ reader = "idle" => seen = NotRead
  /\ reader = "manifest" => seen = [manifest |-> disk, log |-> <<>>]
  /\ reader \in {"verified", "walking", "uploading", "done"} =>
       seen = [manifest |-> disk, log |-> log] /\ Verifies

\* What the application was handed is in the log, and what it dispatched is dated.
Logged ==
  /\ \A d \in admitted : \E i \in Decisions(log) : log[i] = d
  /\ call.stage = "manifest" /\ call.frame.kind = "decision" =>
       \E i \in Decisions(log) : log[i] = call.frame
  /\ \A o \in Occurrence : handle[o] \in {"dispatched", "closed"} => started[o] # NoTime

\* The decisions of a log up to a frame, and the graph of a set of decisions.
Met(l, at) == {l[i] : i \in {j \in Decisions(l) : j <= at}}

EdgeTo(l, d) ==
  Edge(l, d, DecisionOf(l, d.parent), CHOOSE j \in ActionsOf(l, d.parent) : TRUE)

ActorRow == [operations : Nat, dispatched : Nat, roots : Nat, inbound : Nat, outbound : Nat]

RowsSound(s, g, met) ==
  \A c \in Context :
    LET row == g.rows[c]
        Of == {d \in met : d.context = c}
        Across == {e \in g.edges : Crosses(e)}
    IN  /\ row.operations = Cardinality(Of)
        /\ row.dispatched = Cardinality({d \in Of : s[d.occurrence] # NoTime})
        /\ row.roots = Cardinality({d \in Of : d.parent = None})
        /\ row.inbound = Cardinality({e \in Across : e.target = c})
        /\ row.outbound = Cardinality({e \in Across : e.source = c})

GraphSound(l, s, g, met) ==
  /\ g = [edges |-> g.edges, depth |-> g.depth, rows |-> g.rows, threw |-> FALSE]
  /\ IsFiniteSet(met) /\ IsFiniteSet(g.edges)
  /\ g.edges = {EdgeTo(l, d) : d \in {x \in met : x.parent # None}}
  /\ g.depth \in [{d.occurrence : d \in met} -> Nat]
  /\ \A d \in met : d.parent # None =>
       d.parent \in DOMAIN g.depth /\ g.depth[d.occurrence] = g.depth[d.parent] + 1
  /\ g.rows \in [Context -> ActorRow]
  /\ RowsSound(s, g, met)

ReportSound ==
  /\ reader \in {"idle", "manifest", "verified"} => report = [kind |-> "none"]
  /\ reader = "walking" =>
       /\ report = [kind |-> "walk", graph |-> report.graph, at |-> report.at]
       /\ report.at \in 0 .. Len(log)
       /\ GraphSound(log, started, report.graph, Met(log, report.at))
  /\ reader = "uploading" => report = [kind |-> "upload", manifest |-> disk, log |-> <<>>]
  /\ reader = "done" =>
       \/ /\ report.kind = "graph" /\ report = [kind |-> "graph", graph |-> report.graph]
          /\ GraphSound(log, started, report.graph, admitted)
       \/ report = [kind |-> "readiness", manifest |-> disk, status |-> Readiness]
       \/ report = [kind |-> "upload", manifest |-> disk, log |-> log]

ReaderInv ==
  /\ reader \in {"idle", "manifest", "verified", "walking", "uploading", "done"}
  /\ reader # "idle" => disk.status = "finalized"
  /\ SeenSound /\ ReportSound
=============================================================================
