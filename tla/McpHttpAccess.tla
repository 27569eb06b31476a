---------------------------- MODULE McpHttpAccess ----------------------------
(***************************************************************************)
(* The access journal of the MCP HTTP proxy: class McpHttpAccessRecorder   *)
(* of src/mcp-http-evidence.ts, used by the proxy that owns the session    *)
(* and by the processes that recover it once the owner is dead, and the    *)
(* verdict of verifyMcpHttpAccessBundleDirectory on the two files.         *)
(*                                                                         *)
(* It differs from the journal of McpStdioAccess: a request has one        *)
(* receipt, so that nothing is ever open; recovery appends nothing, and    *)
(* publishes the journal as it reads it; and a line is given to the file   *)
(* by one write, whose length is not looked at.                            *)
(*                                                                         *)
(* As there, a line stands for the whole list it ends, <<>> is a partial   *)
(* line, and a write and its fsync are two steps.  Timestamps are left     *)
(* out: one that runs backwards makes a call throw before it changes       *)
(* anything.                                                               *)
(*                                                                         *)
(* A definition named X_Y is a faulty variant of X, kept to show which     *)
(* property notices it.                                                    *)
(***************************************************************************)
EXTENDS Naturals, SequencesExt

CONSTANTS Request,      \* request ids
          Owner,        \* the process of the proxy
          Recoverer,    \* the processes that run McpHttpAccessRecorder.recover
          ShortWrites,  \* whether a write may take only part of a line, as on a full disk
          MaxFaults,    \* bound: writes and fsyncs that fail or fall short
          MaxCrashes,   \* bound: deaths of a process and of the host
          None

Process == Recoverer \cup {Owner}

\* reason_code, as far as the outcome depends on it.  (origin_not_allowed and
\* authorization_refused are unauthorized; the refusals before a tool is looked up
\* are malformed.  A tool failure may come with a response or without.)
Verdict == {"completed", "tool_error", "transport_failure", "protocol_failure",
            "identity_mismatch"}
Refused == {"unauthorized", "malformed", "unlisted"}
Reason == Verdict \cup Refused \cup {"metadata", "blocked", "internal"}

Receipt ==
  [request : Request, reason : Reason,
   kind : {"call", "metadata", "unknown"},        \* request_kind
   invoked : {"yes", "no", "unknown"},            \* upstream_invoked
   sdk : Verdict \cup {"blocked", "none"}]        \* sdk_disposition, and its occurrence

ASSUME AccessAssumption ==
  /\ Owner \notin Recoverer
  /\ ShortWrites \in BOOLEAN
  /\ MaxFaults \in Nat /\ MaxCrashes \in Nat
  /\ None \notin Receipt \cup [receipts : Seq(Receipt), recovered : BOOLEAN]

VARIABLES
  journal,    \* receipts.ndjson
  durable,    \* the lines of it that a host crash cannot lose
  bundle,     \* bundle.json
  sealed,     \* whether a host crash cannot lose bundle.json
  life,       \* each process; only the owner is running at first
  finalized,  \* the processes whose finalize has returned
  memory,     \* receiptList of each process, kept when it dies
  call,       \* the call in progress in each process
  faults,     \* writes and fsyncs that have failed
  crashes     \* deaths so far

accessVars ==
  <<journal, durable, bundle, sealed, life, finalized, memory, call, faults, crashes>>

Idle == [stage |-> "idle", receipt |-> None]
Stage == {"idle", "write", "sync", "link", "syncdir"}

TypeOK ==
  /\ journal \in Seq(Seq(Receipt))
  /\ durable \in 0 .. Len(journal)
  /\ bundle \in [receipts : Seq(Receipt), recovered : BOOLEAN] \cup {None}
  /\ sealed \in BOOLEAN
  /\ life \in [Process -> {"absent", "running", "dead"}]
  /\ finalized \subseteq Process
  /\ memory \in [Process -> Seq(Receipt)]
  /\ call \in [Process -> [stage : Stage, receipt : Receipt \cup {None}]]
  /\ faults \in Nat /\ crashes \in Nat

-----------------------------------------------------------------------------

ReceiptsIn(list) == {list[i] : i \in DOMAIN list}
RequestsIn(list) == {rc.request : rc \in ReceiptsIn(list)}

\* receiptChainBlockers and outcomeBlockers: no request id twice, an SDK disposition
\* only for a tool, and not that of a tool that ran if upstream was not invoked.
OutcomeSound(rc) ==
  /\ rc.sdk # "none" => rc.kind = "call"
  /\ rc.invoked = "no" => rc.sdk \in {"none", "blocked"}
ListSound(list) ==
  /\ \A i, j \in DOMAIN list : list[i].request = list[j].request => i = j
  /\ \A i \in DOMAIN list : OutcomeSound(list[i])

\* readMcpHttpAccessPrefixDirectory: whole lines, each the next of one chain.
ListOf(file) == IF file = <<>> THEN <<>> ELSE Last(file)
Readable ==
  /\ \A i \in DOMAIN journal : Len(journal[i]) = i /\ IsPrefix(journal[i], Last(journal))
  /\ ListSound(ListOf(journal))

\* verifyMcpHttpAccessBundleDirectory: the bundle is what the journal says.
Verifies == bundle # None /\ Readable /\ bundle.receipts = ListOf(journal)

\* accessOutcome, accessOutcomeForAdapter: the disposition that goes with a reason.
Disposition(reason) ==
  CASE reason \in {"completed", "metadata"} -> "completed"
    [] reason \in Refused \cup {"blocked"} -> "refused"
    [] OTHER -> "failed"

\* countersFor.  A malformed call of a tool is counted twice.
CountersFor(list) ==
  LET Calls(disposition) ==
        {rc \in ReceiptsIn(list) : rc.kind = "call" /\ Disposition(rc.reason) = disposition}
      With(reasons) == {rc \in ReceiptsIn(list) : rc.reason \in reasons}
      Metadata ==
        {rc \in ReceiptsIn(list) : rc.kind = "metadata" /\ Disposition(rc.reason) = "completed"}
  IN  [metadata |-> Cardinality(Metadata),
       accepted |-> Cardinality(Calls("completed")),
       blocked |-> Cardinality(Calls("refused")),
       failed |-> Cardinality(Calls("failed")),
       unauthorized |-> Cardinality(With({"unauthorized"})),
       malformed |-> Cardinality(With({"malformed", "internal"}))]

Running(p) == life[p] = "running"

AccessInit ==
  /\ journal = <<>> /\ durable = 0
  /\ bundle = None /\ sealed = FALSE
  /\ life = [p \in Process |-> IF p = Owner THEN "running" ELSE "absent"]
  /\ finalized = {}
  /\ memory = [p \in Process |-> <<>>]
  /\ call = [p \in Process |-> Idle]
  /\ faults = 0 /\ crashes = 0

\* append's checks, before anything is written.
MayAppend_Late(rc) == ListSound(Append(memory[Owner], rc))
MayAppend(rc) ==
  /\ Owner \notin finalized
  /\ ListSound(Append(memory[Owner], rc))

AppendReceipt(rc) ==
  /\ Running(Owner) /\ call[Owner] = Idle
  /\ call' = IF MayAppend(rc)
             THEN [call EXCEPT ![Owner] = [stage |-> "write", receipt |-> rc]]
             ELSE call
  /\ UNCHANGED <<journal, durable, bundle, sealed, life, finalized, memory, faults, crashes>>

\* appendDurableLine's writeSync has returned.
Write ==
  /\ call[Owner].stage = "write"
  /\ \/ /\ journal' = Append(journal, Append(memory[Owner], call[Owner].receipt))
        /\ UNCHANGED faults
     \/ /\ ShortWrites /\ faults < MaxFaults
        /\ faults' = faults + 1
        /\ journal' = Append(journal, <<>>)
  /\ call' = [call EXCEPT ![Owner].stage = "sync"]
  /\ UNCHANGED <<durable, bundle, sealed, life, finalized, memory, crashes>>

\* Its fsyncSync returns, and the receipt is counted.
Synced_NoFsync == durable
Synced == Len(journal)
Sync ==
  /\ call[Owner].stage = "sync"
  /\ durable' = Synced
  /\ memory' = [memory EXCEPT ![Owner] = Append(@, call[Owner].receipt)]
  /\ call' = [call EXCEPT ![Owner] = Idle]
  /\ UNCHANGED <<journal, bundle, sealed, life, finalized, faults, crashes>>

\* recover, once the owner is dead (which nothing in the code enforces).
Recover(p) ==
  /\ p # Owner
  /\ life[p] = "absent" /\ life[Owner] = "dead"
  /\ bundle = None
  /\ Readable
  /\ life' = [life EXCEPT ![p] = "running"]
  /\ memory' = [memory EXCEPT ![p] = ListOf(journal)]
  /\ UNCHANGED <<journal, durable, bundle, sealed, finalized, call, faults, crashes>>

Finalize(p) ==
  /\ Running(p) /\ call[p] = Idle
  /\ p \notin finalized
  /\ call' = [call EXCEPT ![p].stage = "link"]
  /\ UNCHANGED <<journal, durable, bundle, sealed, life, finalized, memory, faults, crashes>>

\* writeDurableCanonicalExclusive links the finished file, or throws if there is one.
\* (A short write of that file, which ShortWrites could mean too, is left out.)
Link(p) ==
  /\ call[p].stage = "link"
  /\ IF bundle = None
     THEN /\ bundle' = [receipts |-> memory[p], recovered |-> p # Owner]
          /\ call' = [call EXCEPT ![p].stage = "syncdir"]
     ELSE call' = [call EXCEPT ![p] = Idle] /\ UNCHANGED bundle
  /\ UNCHANGED <<journal, durable, sealed, life, finalized, memory, faults, crashes>>

\* The directory is synced and finalize returns.
SyncDirectory(p) ==
  /\ call[p].stage = "syncdir"
  /\ sealed' = TRUE
  /\ finalized' = finalized \cup {p}
  /\ call' = [call EXCEPT ![p] = Idle]
  /\ UNCHANGED <<journal, durable, bundle, life, memory, faults, crashes>>

\* A line that was being written may be left partial.
CutShort(p) ==
  \/ UNCHANGED journal
  \/ call[p].stage = "write" /\ journal' = Append(journal, <<>>)

\* The write or the fsync a call is at fails, and the call throws.
WriteFails(p) ==
  /\ call[p] # Idle
  /\ faults < MaxFaults
  /\ faults' = faults + 1
  /\ CutShort(p)
  /\ call' = [call EXCEPT ![p] = Idle]
  /\ UNCHANGED <<durable, bundle, sealed, life, finalized, memory, crashes>>

Kill(p) ==
  /\ Running(p)
  /\ crashes < MaxCrashes
  /\ crashes' = crashes + 1
  /\ CutShort(p)
  /\ call' = [call EXCEPT ![p] = Idle]
  /\ life' = [life EXCEPT ![p] = "dead"]
  /\ UNCHANGED <<durable, bundle, sealed, finalized, memory, faults>>

\* Every process dies.  The journal keeps what was synced and any part of the rest;
\* a bundle whose directory was not synced may be gone.  The journal's own entry in the
\* directory is not synced when it is made, and is taken to be durable all the same.
HostCrash ==
  /\ crashes < MaxCrashes
  /\ crashes' = crashes + 1
  /\ \E kept \in durable .. Len(journal) :
       \/ journal' = SubSeq(journal, 1, kept)
       \/ kept < Len(journal) /\ journal' = Append(SubSeq(journal, 1, kept), <<>>)
  /\ durable' = Len(journal')
  /\ bundle' \in IF sealed THEN {bundle} ELSE {bundle, None}
  /\ sealed' = (bundle' # None)
  /\ life' = [p \in Process |-> IF Running(p) THEN "dead" ELSE life[p]]
  /\ call' = [p \in Process |-> Idle]
  /\ UNCHANGED <<finalized, memory, faults>>

\* What a process does by itself, and what befalls it.
AccessStep ==
  \/ Write \/ Sync
  \/ \E p \in Process : Link(p) \/ SyncDirectory(p) \/ WriteFails(p) \/ Kill(p)
  \/ \E p \in Recoverer : Recover(p) \/ Finalize(p)
  \/ HostCrash
=============================================================================
