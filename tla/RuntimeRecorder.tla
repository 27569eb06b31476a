-------------------------- MODULE RuntimeRecorder --------------------------
(***************************************************************************)
(* DurableRuntimeEvidenceRecorder of src/runtime-recorder.ts: one process  *)
(* creates a journal of runtime receipts, any other may recover it, and    *)
(* whoever holds it appends, ends and finalizes it; then                   *)
(* composeRuntimeEvidence of src/runtime-composition.ts binds the bundle   *)
(* on disk to the receipts of a credentialless runtime and of a measured   *)
(* container.                                                              *)
(*                                                                         *)
(* An append is the write of a line and its fsync; finalize is a rename    *)
(* and the fsync of the directory.  Processes interleave between them, and *)
(* may end there, alone or with the host.  Nothing tells a recoverer that  *)
(* the process it replaces is gone.  mishaps remembers what went wrong so  *)
(* far, for the properties to say which of it each promise survives.       *)
(*                                                                         *)
(* A definition named X_Y is a faulty variant of X, kept to show which     *)
(* property notices it.                                                    *)
(***************************************************************************)
EXTENDS RuntimeEvidence, ContainerEnforcement, SequencesExt

CONSTANTS Process,
          Occurrence,   \* occurrence ids callers use
          Stamps,       \* bound: what callers pass as <<timestamp, logical time>>
          Ends,         \* what callers of terminalize pass as <<status, crash recovery>>
          Times,        \* bound: the times of finalize
          Overlap,      \* a process may recover the journal of one that has not ended
          MaxReceipts,  \* bound: receipts of one holder
          MaxFaults,    \* bound: failed or short writes, failed fsyncs
          Header,       \* the header the options of the constructor describe
          Bodies,       \* bodies the callers of append offer, side effects apart
          Runtimes,     \* receipts of credentialless runtimes (runtime.json), each verified
          Inspections   \* what was measured of containers

ASSUME RecorderAssumption ==
  /\ Times \subseteq Nat /\ Stamps \subseteq Nat \X Nat /\ MaxReceipts \in Nat \ {0} /\ MaxFaults \in Nat
  /\ Header.created_at \in Nat /\ Overlap \in BOOLEAN
  /\ \A x \in Inspections :
       {x.agent, x.gateway} \subseteq Container(x.agent.networks \cup x.gateway.networks)

VARIABLES
  journal,   \* receipts.ndjson: its lines, a line that does not parse being None
  cut,       \* the last line has no newline yet
  synced,    \* lines a crash of the host leaves
  entry,     \* the journal's directory entry: "absent", "volatile", "durable" or "lost"
  bundle,    \* bundle.json, None when there is none
  kept,      \* the entry of bundle.json is durable
  holder,    \* by process: the recorder it holds
  counted,   \* receipts append or terminalize has returned
  composed,  \* the sources of a composition receipt, None when there is none
  mishaps, faults

fileVars == <<journal, cut, synced, entry, bundle, kept>>
vars == <<fileVars, holder, counted, composed, mishaps, faults>>

\* No recorder yet, a recorder between calls, within a call, finalized, or ended.
Recorder(stage, receipts, candidate) ==
  [stage |-> stage, receipts |-> receipts, candidate |-> candidate]
Live == {p \in Process : holder[p].stage \notin {"none", "finalized", "gone"}}

Init ==
  /\ journal = <<>> /\ cut = FALSE /\ synced = 0 /\ entry = "absent"
  /\ bundle = None /\ kept = FALSE
  /\ holder = [p \in Process |-> Recorder("none", <<>>, <<>>)]
  /\ counted = {} /\ composed = None /\ mishaps = {} /\ faults = 0

-----------------------------------------------------------------------------
(* Creating and recovering.                                                *)

\* The constructor refuses a directory that exists; the header is durable before the
\* empty journal is made, whose own entry nothing syncs.  It may end between the two.
Construct(p) ==
  /\ holder[p].stage = "none"
  /\ entry = "absent"
  /\ \/ entry' = "volatile" /\ holder' = [holder EXCEPT ![p].stage = "idle"]
     \/ entry' = "lost" /\ holder' = [holder EXCEPT ![p].stage = "gone"]
  /\ UNCHANGED <<journal, cut, synced, bundle, kept, counted, composed, mishaps, faults>>

\* recover: the directory is not finalized and the journal is readable, whole and lawful.
\* It does not look for the process it replaces.
Unfinalized_Ignored == TRUE
Unfinalized == bundle = None
Recover(p) ==
  /\ holder[p].stage = "none"
  /\ Overlap \/ Live = {}
  /\ entry # "absent"
  /\ Unfinalized
  /\ entry # "lost"
  /\ ~cut
  /\ \A i \in DOMAIN journal : journal[i] # None
  /\ PrefixVerifies(Header, journal, FALSE)
  /\ holder' = [holder EXCEPT ![p] = Recorder("idle", journal, <<>>)]
  /\ mishaps' = mishaps \cup (IF Live = {} THEN {} ELSE {"overlap"})
  /\ UNCHANGED <<fileVars, counted, composed, faults>>

-----------------------------------------------------------------------------
(* append and terminalize.                                                 *)

SideEffect(source) ==
  [kind |-> "side_effect", source |-> source, outcome |-> "success", response |-> TRUE,
   changed |-> TRUE]
Terminal(receipts, status, recovery) ==
  [kind |-> "terminal", status |-> status, crash_recovery |-> recovery,
   count |-> Len(receipts), head |-> HeadOf(receipts)]

Offers(receipts) ==
  Bodies \cup {SideEffect(r) : r \in ToSet(receipts)}
         \cup {Terminal(receipts, e[1], e[2]) : e \in Ends}

\* buildReceipt
Receipt(receipts, body, stamp, occurrence) ==
  [header |-> Header, sequence |-> Len(receipts), observed_at |-> stamp[1],
   logical_time |-> stamp[2], occurrence_id |-> occurrence, previous |-> HeadOf(receipts), body |-> body]

\* A line that follows an unfinished one joins it, and neither parses.
WithLine(r) == IF cut THEN [journal EXCEPT ![Len(journal)] = None] ELSE Append(journal, r)

\* admitAndPersist: what is verified before a receipt is persisted.
Admissible_Alone(candidate) == ReceiptLawful(HeadOf(candidate))
Admissible(candidate) == PrefixVerifies(Header, candidate, IsTerminal(HeadOf(candidate)))

\* The receipt is built, the chain it would make is verified, and its line is written; the
\* length written is not looked at.  A refusal changes nothing.
Write(p) ==
  LET rs == holder[p].receipts IN
  /\ holder[p].stage = "idle"
  /\ rs # <<>> => ~IsTerminal(HeadOf(rs))
  /\ Len(rs) < MaxReceipts
  /\ \E body \in Offers(rs), stamp \in Stamps, o \in Occurrence :
       LET r == Receipt(rs, body, stamp, o)
           candidate == Append(rs, r)
       IN  /\ Admissible(candidate)
           /\ holder' = [holder EXCEPT ![p].stage = "written", ![p].candidate = candidate]
           /\ journal' = WithLine(r)
  /\ \/ cut' = FALSE /\ UNCHANGED <<mishaps, faults>>
     \/ /\ faults < MaxFaults
        /\ cut' = TRUE
        /\ mishaps' = mishaps \cup {"short write"}
        /\ faults' = faults + 1
  /\ UNCHANGED <<synced, entry, bundle, kept, counted, composed>>

\* fsync of the journal: only then does the recorder count the receipt.  When it fails
\* the call throws and the line stays in the file.
Flushed_Never(p) == synced
Flushed(p) == Len(journal)
Sync(p) ==
  /\ holder[p].stage = "written"
  /\ \/ /\ synced' = Flushed(p)
        /\ holder' = [holder EXCEPT ![p] = Recorder("idle", @.candidate, <<>>)]
        /\ counted' = counted \cup {HeadOf(holder[p].candidate)}
        /\ UNCHANGED <<mishaps, faults>>
     \/ /\ faults < MaxFaults
        /\ faults' = faults + 1
        /\ mishaps' = mishaps \cup {"failed sync"}
        /\ holder' = [holder EXCEPT ![p].stage = "idle", ![p].candidate = <<>>]
        /\ UNCHANGED <<synced, counted>>
  /\ UNCHANGED <<journal, cut, entry, bundle, kept, composed>>

-----------------------------------------------------------------------------
(* finalize.                                                               *)

Finalization(rs, at) ==
  [session_id |-> Header.session_id, header |-> Header, finalized_at |-> at,
   receipt_count |-> Len(rs), chain_head |-> HeadOf(rs), terminal_receipt |-> HeadOf(rs),
   terminal_status |-> HeadOf(rs).body.status]
BundleOf(rs, at) ==
  LET f == Finalization(rs, at) IN
  [header |-> Header, receipts |-> rs, finalization |-> f,
   anchor |-> [sequence |-> 0, previous |-> Genesis, anchored_at |-> at,
               statement |-> StatementOf(f)]]

\* A bundle that does not verify is refused; the rename replaces a bundle that is there.
Finalize(p) ==
  LET rs == holder[p].receipts IN
  /\ holder[p].stage = "idle"
  /\ rs # <<>> /\ IsTerminal(HeadOf(rs))
  /\ \E at \in Times :
       /\ BundleVerifies(BundleOf(rs, at))
       /\ bundle' = BundleOf(rs, at)
  /\ kept' = FALSE
  /\ holder' = [holder EXCEPT ![p].stage = "renamed"]
  /\ UNCHANGED <<journal, cut, synced, entry, counted, composed, mishaps, faults>>

\* fsync of the directory, which also keeps the journal's entry.  When it fails, finalize
\* throws and may be called again.
SyncDirectory(p) ==
  /\ holder[p].stage = "renamed"
  /\ \/ /\ holder' = [holder EXCEPT ![p].stage = "finalized"]
        /\ kept' = TRUE
        /\ entry' = "durable"
        /\ UNCHANGED <<mishaps, faults>>
     \/ /\ faults < MaxFaults
        /\ faults' = faults + 1
        /\ mishaps' = mishaps \cup {"failed directory sync"}
        /\ holder' = [holder EXCEPT ![p].stage = "idle"]
        /\ UNCHANGED <<kept, entry>>
  /\ UNCHANGED <<journal, cut, synced, bundle, counted, composed>>

-----------------------------------------------------------------------------
(* Crashes.                                                                *)

Crash(p) ==
  /\ p \in Live
  /\ holder' = [holder EXCEPT ![p] = Recorder("gone", <<>>, <<>>)]
  /\ UNCHANGED <<fileVars, counted, composed, mishaps, faults>>

\* The host loses power: lines not synced yet remain, vanish or remain in part; entries
\* not synced yet remain or vanish.  (The bundle that a lost rename replaced is not
\* brought back: there is one only after another mishap.)
HostCrash ==
  /\ Live # {}
  /\ holder' = [p \in Process |-> IF holder[p].stage = "none" THEN holder[p]
                                  ELSE Recorder("gone", <<>>, <<>>)]
  /\ \/ /\ entry' = IF entry = "volatile" THEN "durable" ELSE entry
        /\ \E n \in synced..Len(journal) :
             /\ journal' = SubSeq(journal, 1, n)
             /\ synced' = n
             /\ \/ cut' = (cut /\ n = Len(journal))
                \/ n > synced /\ cut' = TRUE
        /\ UNCHANGED mishaps
     \/ /\ entry = "volatile" /\ entry' = "lost"
        /\ journal' = <<>> /\ cut' = FALSE /\ synced' = 0
        /\ UNCHANGED mishaps
  /\ kept' = (bundle # None)
  /\ UNCHANGED <<bundle, counted, composed, faults>>

\* The same, and the rename of the bundle is lost too.
HostCrashLosesBundle ==
  /\ Live # {}
  /\ bundle # None /\ ~kept
  /\ holder' = [p \in Process |-> IF holder[p].stage = "none" THEN holder[p]
                                  ELSE Recorder("gone", <<>>, <<>>)]
  /\ bundle' = None
  /\ entry' = IF entry = "volatile" THEN "durable" ELSE entry
  /\ mishaps' = mishaps \cup {"lost rename"}
  /\ UNCHANGED <<journal, cut, synced, kept, counted, composed, faults>>

-----------------------------------------------------------------------------
(* Composition.                                                            *)

\* The parts verify and name one runtime, policy, configuration and workload.
SourcesAgree(c, k, b) ==
  /\ ContainerVerifies(k)
  /\ BundleVerifies(b)
  /\ k.runtime_id = c.runtime_id /\ b.header.runtime_identity = c.runtime_id
  /\ k.policy = c.policy /\ b.header.policy = c.policy
  /\ k.configuration = c.configuration
  /\ k.workload = c.workload

CompositionReceipt(c, k, b) ==
  [runtime_id |-> c.runtime_id, session_id |-> b.header.session_id, policy |-> c.policy,
   configuration |-> c.configuration, workload |-> c.workload,
   credential_policy |-> b.header.credential_policy, runtime |-> c, container |-> k,
   bundle |-> b, terminal_status |-> b.finalization.terminal_status]

Compose ==
  /\ composed = None
  /\ bundle # None
  /\ \E c \in Runtimes, x \in Inspections :
       /\ Collectable(x)
       /\ SourcesAgree(c, ContainerReceiptOf(x), bundle)
       /\ composed' = CompositionReceipt(c, ContainerReceiptOf(x), bundle)
  /\ UNCHANGED <<fileVars, holder, counted, mishaps, faults>>

\* verifyRuntimeCompositionReceipt, with the bundle on disk as the source.
CompositionVerifies(r) ==
  /\ bundle # None
  /\ SourcesAgree(r.runtime, r.container, bundle)
  /\ r = CompositionReceipt(r.runtime, r.container, bundle)

-----------------------------------------------------------------------------
Next ==
  \/ \E p \in Process :
       \/ Construct(p) \/ Recover(p) \/ Write(p) \/ Sync(p)
       \/ Finalize(p) \/ SyncDirectory(p) \/ Crash(p)
  \/ HostCrash \/ HostCrashLosesBundle
  \/ Compose

Spec == Init /\ [][Next]_vars

-----------------------------------------------------------------------------
(* Properties.                                                             *)

\* The published bundle lacks no receipt that append or terminalize returned, through any
\* crash, lost entry, short write or failed fsync: only a recoverer that did not wait for
\* the process it replaces can publish without some.
CountedIsPublished ==
  "overlap" \notin mishaps /\ bundle # None => counted \subseteq ToSet(bundle.receipts)

\* What a crash of the process or of the host leaves is a journal that recover accepts up to
\* a last unfinished line, and that holds every receipt a call returned; unless two
\* processes held it, a write was short or an fsync failed, or its entry was lost.
JournalIsRecoverable ==
  /\ mishaps \cap {"overlap", "short write", "failed sync"} = {}
  /\ entry \in {"volatile", "durable"}
  => LET whole == IF cut THEN Front(journal) ELSE journal IN
     PrefixVerifies(Header, whole, FALSE) /\ counted \subseteq ToSet(whole)

\* Once made, a composition receipt verifies against the bundle on disk from then on,
\* whoever recovers the journal and finalizes, unless two processes held the journal or the
\* directory entry of the bundle was not synced: nothing else lets it be published again.
CompositionHolds ==
  composed # None /\ mishaps \cap {"overlap", "failed directory sync", "lost rename"} = {} =>
    CompositionVerifies(composed)

(***************************************************************************)
(* Why no published bundle lacks a receipt: an inductive invariant.  The   *)
(* one process that holds the journal has every counted receipt in memory, *)
(* and a journal that recover would take is what it wrote, in its order: a *)
(* line that joined another or that repeats a number leaves a journal that *)
(* is refused.  So whoever holds the journal next has them too.            *)
(***************************************************************************)
IsSequence(s) == s \in Seq(ToSet(s))

TypeOK ==
  /\ IsSequence(journal) /\ synced \in 0 .. Len(journal)
  /\ cut \in BOOLEAN /\ (cut => journal # <<>>)
  /\ entry \in {"absent", "volatile", "durable", "lost"}
  /\ DOMAIN holder = Process
  /\ \A p \in Process :
       /\ holder[p] = Recorder(holder[p].stage, holder[p].receipts, holder[p].candidate)
       /\ holder[p].stage \in {"none", "idle", "written", "renamed", "finalized", "gone"}
       /\ IsSequence(holder[p].receipts) /\ IsSequence(holder[p].candidate)

Once == "overlap" \notin mishaps
Sure == mishaps \cap {"overlap", "short write", "failed sync"} = {}

\* What recover asks of the lines of a journal.
Clean(lines) == (\A i \in DOMAIN lines : lines[i] # None) /\ PrefixVerifies(Header, lines, FALSE)
Durable == SubSeq(journal, 1, synced)
Whole == IF cut THEN Front(journal) ELSE journal

OneHolder ==
  /\ Once => \A p, q \in Live : p = q
  /\ entry \in {"absent", "lost"} => Live = {}
  /\ entry = "absent" =>
       /\ counted = {} /\ bundle = None /\ journal = <<>> /\ ~cut
       /\ \A p \in Process : holder[p] = Recorder("none", <<>>, <<>>)

\* What the process that holds the journal knows of it.
Holds(p) ==
  LET rs == holder[p].receipts IN
  /\ counted \subseteq ToSet(rs)
  /\ Sure => ~cut /\ PrefixVerifies(Header, journal, FALSE)
  /\ holder[p].stage = "written" =>
       /\ holder[p].candidate = Append(rs, HeadOf(holder[p].candidate))
       /\ Sure \/ Clean(journal) => journal = holder[p].candidate
  /\ holder[p].stage # "written" =>
       /\ Sure => journal = rs
       /\ Clean(journal) =>
            Len(rs) \leq Len(journal) /\ \A i \in DOMAIN rs : rs[i] = journal[i]
  /\ bundle # None =>
       /\ rs # <<>> /\ IsTerminal(HeadOf(rs)) /\ holder[p].stage \in {"idle", "renamed"}
       /\ "failed directory sync" \notin mishaps => holder[p].stage = "renamed"

FileSound ==
  /\ Sure \/ Clean(Durable) => counted \subseteq ToSet(Durable)
  /\ Sure => PrefixVerifies(Header, Whole, FALSE) /\ counted \subseteq ToSet(Whole)

IInv ==
  /\ TypeOK /\ OneHolder
  /\ Once => \A p \in Live : Holds(p)
  /\ Once /\ entry # "lost" => FileSound
  /\ CountedIsPublished /\ CompositionHolds
=============================================================================
