--------------------------- MODULE McpStdioAccess ---------------------------
(***************************************************************************)
(* The durable access journal of one MCP stdio session: the class          *)
(* DurableMcpStdioAccessRecorder of src/mcp-stdio-evidence.ts, used by the *)
(* process that owns the session and by the processes that later recover   *)
(* an interrupted one, and their directory: receipts.ndjson, bundle.json.  *)
(*                                                                         *)
(* A write and the fsync that makes it durable are two steps: between them *)
(* another process may read the file, the process may die (the file keeps  *)
(* what was written) or the host may crash (the file keeps at least what   *)
(* was synced).  A call whose append throws leaves the recorder's memory   *)
(* as it was, whatever reached the file.                                   *)
(*                                                                         *)
(* A receipt chains to the digest of the one before it, so a line of the   *)
(* journal stands for the whole list it ends; <<>> is a partial line.      *)
(* Timestamps are left out: one that runs backwards makes a call throw     *)
(* before it changes anything.                                             *)
(*                                                                         *)
(* A definition named X_Y is a faulty variant of X, kept to show which     *)
(* property notices it.                                                    *)
(***************************************************************************)
EXTENDS Naturals, SequencesExt

CONSTANTS Request,    \* request ids
          Owner,      \* the process that created the recorder
          Recoverer,  \* the processes that run recoverInterruptedMcpStdioAccess
          Overlap,    \* whether recovery may begin beside another process
          Reported,   \* the dispositions the owner reports
          MaxFaults,  \* bound: writes and fsyncs that fail
          MaxCrashes, \* bound: deaths of a process and of the host
          None

Failure == {"tool_failure", "protocol_failure", "identity_mismatch"}

Process == Recoverer \cup {Owner}

Authorization ==
  [kind : {"authorization"}, request : Request, decision : {"allowed", "blocked"}]
Terminal ==
  [kind : {"terminal"}, request : Request,
   disposition : Reported \cup {"interrupted_unknown"},
   written : {"called", "not_called", "unknown"}]
Receipt == Authorization \cup Terminal

ASSUME AccessAssumption ==
  /\ Owner \notin Recoverer
  /\ Overlap \in BOOLEAN
  /\ MaxFaults \in Nat /\ MaxCrashes \in Nat
  /\ Reported \subseteq {"completed", "blocked"} \cup Failure
  /\ None \notin [receipts : Seq(Receipt), recovered : BOOLEAN]

Interrupted(r) ==
  [kind |-> "terminal", request |-> r,
   disposition |-> "interrupted_unknown", written |-> "unknown"]

VARIABLES
  journal,   \* receipts.ndjson
  durable,   \* the lines of it that a host crash cannot lose
  bundle,    \* bundle.json
  sealed,    \* whether a host crash cannot lose bundle.json
  life,      \* each process; only the owner is running at first
  memory,    \* receiptList of each process, kept when it ends
  call,      \* the call in progress in each process
  reported,  \* the terminal receipts the owner asked for
  faults,    \* writes and fsyncs that have failed
  crashes    \* deaths so far

fileVars == <<journal, durable, bundle, sealed>>
accessVars == <<fileVars, life, memory, call, reported, faults, crashes>>

Idle == [stage |-> "idle", receipt |-> None]
Stage == {"idle", "write", "sync", "link", "syncdir"}

TypeOK ==
  /\ journal \in Seq(Seq(Receipt))
  /\ durable \in 0 .. Len(journal)
  /\ bundle \in [receipts : Seq(Receipt), recovered : BOOLEAN] \cup {None}
  /\ sealed \in BOOLEAN
  /\ life \in [Process -> {"absent", "running", "done", "dead"}]
  /\ memory \in [Process -> Seq(Receipt)]
  /\ call \in [Process -> [stage : Stage, receipt : Receipt \cup {None}]]
  /\ reported \subseteq Terminal
  /\ faults \in Nat /\ crashes \in Nat

-----------------------------------------------------------------------------

ReceiptsIn(list) == {list[i] : i \in DOMAIN list}
RequestsIn(list) == {rc.request : rc \in ReceiptsIn(list)}

\* openTransactions: authorizations without a terminal receipt.
OpenIn(list) ==
  {a \in ReceiptsIn(list) :
     a.kind = "authorization"
     /\ \A t \in ReceiptsIn(list) : t.kind = "terminal" => t.request # a.request}

\* prefixBlockers: what a terminal receipt may say of its authorization.
Consistent(a, t) ==
  /\ a.decision = "allowed" => t.disposition # "blocked"
  /\ a.decision = "blocked" =>
       t.disposition \in {"blocked", "interrupted_unknown"} /\ t.written # "called"
  /\ t.disposition \in {"completed", "identity_mismatch"} => t.written = "called"
  /\ t.disposition = "interrupted_unknown" <=> t.written = "unknown"

\* prefixBlockers: a receipt that may follow a list without blockers.
Follows(list, rc) ==
  IF rc.kind = "authorization"
  THEN rc.request \notin RequestsIn(list)
  ELSE \E a \in OpenIn(list) : a.request = rc.request /\ Consistent(a, rc)

WellFormed(list) ==
  \A i \in DOMAIN list : Follows(SubSeq(list, 1, i - 1), list[i])

\* readPrefix: whole lines, each the next of one chain.
Chained(file) ==
  \A i \in DOMAIN file : Len(file[i]) = i /\ IsPrefix(file[i], Last(file))

ListOf(file) == IF file = <<>> THEN <<>> ELSE Last(file)

Readable == Chained(journal) /\ WellFormed(ListOf(journal))

\* verifyMcpStdioAccessBundle: only a recovery may have made up an outcome.
BundleVerifies ==
  /\ WellFormed(bundle.receipts) /\ OpenIn(bundle.receipts) = {}
  /\ bundle.recovered \/
     \A t \in ReceiptsIn(bundle.receipts) :
       t.kind = "terminal" => t.disposition # "interrupted_unknown"

Running(p) == life[p] = "running"

-----------------------------------------------------------------------------

Init ==
  /\ journal = <<>> /\ durable = 0
  /\ bundle = None /\ sealed = FALSE
  /\ life = [p \in Process |-> IF p = Owner THEN "running" ELSE "absent"]
  /\ memory = [p \in Process |-> <<>>]
  /\ call = [p \in Process |-> Idle]
  /\ reported = {}
  /\ faults = 0 /\ crashes = 0

\* appendReceipt: the candidate list is checked before anything is written.
Propose(p, rc) ==
  /\ Running(p)
  /\ call[p] = Idle
  /\ Follows(memory[p], rc)
  /\ call' = [call EXCEPT ![p] = [stage |-> "write", receipt |-> rc]]
  /\ UNCHANGED <<fileVars, life, memory, faults, crashes>>

Authorize(r, decision) ==
  /\ Propose(Owner, [kind |-> "authorization", request |-> r, decision |-> decision])
  /\ UNCHANGED reported

Report(r, disposition, written) ==
  LET t == [kind |-> "terminal", request |-> r,
            disposition |-> disposition, written |-> written]
  IN  /\ \E a \in OpenIn(memory[Owner]) :
           a.request = r /\ (a.decision = "blocked" <=> disposition = "blocked")
      /\ Propose(Owner, t)
      /\ reported' = reported \cup {t}

\* appendDurableLine has written the whole line.
Write(p) ==
  /\ call[p].stage = "write"
  /\ journal' = Append(journal, Append(memory[p], call[p].receipt))
  /\ call' = [call EXCEPT ![p].stage = "sync"]
  /\ UNCHANGED <<durable, bundle, sealed, life, memory, reported, faults, crashes>>

\* Its fsync returns: only now does the recorder count the receipt.
SyncedLines_NoFsync == durable
SyncedLines == Len(journal)
Counting_Forgotten(list, rc) == list
Counting(list, rc) == Append(list, rc)

Sync(p) ==
  /\ call[p].stage = "sync"
  /\ durable' = SyncedLines
  /\ memory' = [memory EXCEPT ![p] = Counting(@, call[p].receipt)]
  /\ call' = [call EXCEPT ![p] = Idle]
  /\ UNCHANGED <<journal, bundle, sealed, life, reported, faults, crashes>>

\* recover: the receipts of the journal are the recorder's list.
Recover(p) ==
  /\ life[p] = "absent"
  /\ Overlap \/ \A q \in Process : ~Running(q)
  /\ bundle = None
  /\ Readable
  /\ life' = [life EXCEPT ![p] = "running"]
  /\ memory' = [memory EXCEPT ![p] = ListOf(journal)]
  /\ UNCHANGED <<fileVars, call, reported, faults, crashes>>

\* finalize of a recovered recorder closes what was open.
\* (The code goes by request id, which the model does not order.)
Outcome_Invented(r) ==
  [Interrupted(r) EXCEPT !.disposition = "tool_failure", !.written = "not_called"]
Outcome(r) == Interrupted(r)
Synthesize(p, r) ==
  /\ p # Owner
  /\ \E a \in OpenIn(memory[p]) : a.request = r
  /\ Propose(p, Outcome(r))
  /\ UNCHANGED reported

NothingOpen(p) == OpenIn(memory[p]) = {}

Finalize(p) ==
  /\ Running(p)
  /\ call[p] = Idle
  /\ NothingOpen(p)
  /\ call' = [call EXCEPT ![p].stage = "link"]
  /\ UNCHANGED <<fileVars, life, memory, reported, faults, crashes>>

\* writeDurableCanonicalExclusive links the finished file, unless one is there.
MayLink == bundle = None
Link(p) ==
  /\ call[p].stage = "link"
  /\ MayLink
  /\ bundle' = [receipts |-> memory[p], recovered |-> p # Owner]
  /\ sealed' = FALSE
  /\ call' = [call EXCEPT ![p].stage = "syncdir"]
  /\ UNCHANGED <<journal, durable, life, memory, reported, faults, crashes>>

\* A call that throws ends a recovery; the owner keeps its recorder.
AfterThrow(p) == IF p = Owner THEN life ELSE [life EXCEPT ![p] = "dead"]

LinkRefused(p) ==
  /\ call[p].stage = "link"
  /\ ~MayLink
  /\ call' = [call EXCEPT ![p] = Idle]
  /\ life' = AfterThrow(p)
  /\ UNCHANGED <<fileVars, memory, reported, faults, crashes>>

\* The directory is synced and finalize returns.
SyncDirectory(p) ==
  /\ call[p].stage = "syncdir"
  /\ sealed' = (bundle # None)
  /\ call' = [call EXCEPT ![p] = Idle]
  /\ life' = [life EXCEPT ![p] = "done"]
  /\ UNCHANGED <<journal, durable, bundle, memory, reported, faults, crashes>>

\* A line that was being written may be left partial.
CutShort(p) ==
  \/ UNCHANGED journal
  \/ call[p].stage = "write" /\ journal' = Append(journal, <<>>)

\* The write or the fsync a call is at fails, and the call throws.
WriteFails(p) ==
  /\ call[p] # Idle
  /\ faults < MaxFaults
  /\ faults' = faults + 1
  /\ CutShort(p)
  /\ call' = [call EXCEPT ![p] = Idle]
  /\ life' = AfterThrow(p)
  /\ UNCHANGED <<durable, bundle, sealed, memory, reported, crashes>>

Kill(p) ==
  /\ Running(p)
  /\ crashes < MaxCrashes
  /\ crashes' = crashes + 1
  /\ CutShort(p)
  /\ call' = [call EXCEPT ![p] = Idle]
  /\ life' = [life EXCEPT ![p] = "dead"]
  /\ UNCHANGED <<durable, bundle, sealed, memory, reported, faults>>

\* Every process dies.  The journal keeps what was synced and any part of the rest;
\* a bundle whose directory was not synced may be gone.
HostCrash ==
  /\ \E p \in Process : Running(p)
  /\ crashes < MaxCrashes
  /\ crashes' = crashes + 1
  /\ \E kept \in durable .. Len(journal) :
       \/ journal' = SubSeq(journal, 1, kept)
       \/ kept < Len(journal) /\ journal' = Append(SubSeq(journal, 1, kept), <<>>)
  /\ durable' = Len(journal')
  /\ bundle' \in IF sealed THEN {bundle} ELSE {bundle, None}
  /\ sealed' = (bundle' # None)
  /\ life' = [p \in Process |-> IF Running(p) THEN "dead" ELSE life[p]]
  /\ call' = [p \in Process |-> Idle]
  /\ UNCHANGED <<memory, reported, faults>>

\* The steps of a call in progress, of a recovery, and what befalls a process.
Progress(p) ==
  Write(p) \/ Sync(p) \/ Link(p) \/ LinkRefused(p) \/ SyncDirectory(p)

Recovery(p) ==
  \/ Recover(p)
  \/ \E r \in Request : Synthesize(p, r)
  \/ Finalize(p)

Next ==
  \/ \E r \in Request, decision \in {"allowed", "blocked"} : Authorize(r, decision)
  \/ \E r \in Request, disposition \in Reported, written \in {"called", "not_called"} :
       Report(r, disposition, written)
  \/ \E p \in Process : Progress(p) \/ WriteFails(p) \/ Kill(p)
  \/ Finalize(Owner)
  \/ \E p \in Recoverer : Recovery(p)
  \/ HostCrash

Spec == Init /\ [][Next]_accessVars

-----------------------------------------------------------------------------

\* When a bundle is published, by whom and after whatever crashes, it holds what the
\* owner recorded as it was recorded, and leaves nothing of it open: everything an
\* authorize or terminal call returned for.  (Recovery must wait until the session's
\* processes have ended; nothing in the code enforces that.)
BundleComplete ==
  [][~Overlap /\ bundle' \notin {bundle, None} =>
       IsPrefix(memory[Owner], bundle'.receipts) /\ OpenIn(bundle'.receipts) = {}]_accessVars

\* A process whose finalize returned finds its own list in the bundle for ever,
\* though processes race to publish and the host may crash.
PublishedIsKept ==
  \A p \in Process : life[p] = "done" => bundle # None /\ bundle.receipts = memory[p]

\* Recovery never invents an outcome: a bundle's outcomes other than
\* interrupted_unknown are those the owner reported.
NothingInvented ==
  bundle # None =>
    \A t \in ReceiptsIn(bundle.receipts) :
      t.kind = "terminal" /\ t.disposition # "interrupted_unknown" => t \in reported

\* A session whose processes ended without a failed write has a bundle that the verifier
\* accepts or can be recovered to one, however often it was interrupted, unless its last
\* line is partial.
Recoverable ==
  /\ ~Overlap /\ faults = 0
  /\ \A p \in Process : ~Running(p)
  => IF bundle # None THEN BundleVerifies ELSE Readable \/ Last(journal) = <<>>

(***************************************************************************)
(* Why a bundle is complete: an inductive invariant.  What the owner       *)
(* counts is the list of a durable line; a readable journal is one chain,  *)
(* so its last line extends that list; and a recovery only appends to what *)
(* it read.                                                                *)
(***************************************************************************)
CallSound ==
  \A p \in Process :
    /\ call[p].stage # "idle" => Running(p)
    /\ call[p].stage \in {"write", "sync"} => call[p].receipt \in Receipt
    /\ call[p].stage = "link" => OpenIn(memory[p]) = {}

Durable ==
  /\ \A p \in Process : call[p].stage = "sync" =>
       \E i \in 1 .. Len(journal) : journal[i] = Append(memory[p], call[p].receipt)
  /\ memory[Owner] = <<>> \/ \E i \in 1 .. durable : journal[i] = memory[Owner]

Inherited ==
  /\ life[Owner] # "absent"
  /\ ~Overlap =>
       /\ \A p, q \in Process : Running(p) /\ Running(q) => p = q
       /\ \A p \in Process : Running(p) => IsPrefix(memory[Owner], memory[p])

Published ==
  \A p \in Process : call[p].stage = "syncdir" \/ life[p] = "done" =>
    /\ bundle # None
    /\ bundle.receipts = memory[p]
    /\ life[p] = "done" => sealed

Honest(list, told) ==
  \A t \in ReceiptsIn(list) :
    t.kind = "terminal" => t \in told \/ t = Interrupted(t.request)

AllHonest ==
  /\ \A p \in Process : Honest(memory[p], reported)
  /\ \A p \in Process : call[p].stage \in {"write", "sync"} =>
      Honest(<<call[p].receipt>>, reported)
  /\ \A i \in 1 .. Len(journal) : Honest(journal[i], reported)
  /\ bundle # None => Honest(bundle.receipts, reported)

IInv ==
  TypeOK /\ CallSound /\ Durable /\ Inherited /\ Published /\ AllHonest

(***************************************************************************)
(* Why a session can be recovered.  Without a failed write the journal is  *)
(* one well-formed chain that ends in what its only holder counts, unless  *)
(* a death tore its last line, and then nobody holds it any more.          *)
(***************************************************************************)
\* The list a process has in the journal: what it counts and the line it is syncing.
ListHeld(p) ==
  IF call[p].stage = "sync" THEN Append(memory[p], call[p].receipt) ELSE memory[p]

JournalSound ==
  \/ /\ Readable
     /\ \A p \in Process : Running(p) =>
          /\ ListOf(journal) = ListHeld(p)
          /\ call[p].stage = "write" => Follows(memory[p], call[p].receipt)
  \/ /\ journal # <<>> /\ Last(journal) = <<>>
     /\ \A p \in Process : ~Running(p)

\* Only a recovery says that an outcome is unknown.
OwnerKnows ==
  /\ \A t \in reported : t.disposition # "interrupted_unknown"
  /\ \A t \in ReceiptsIn(memory[Owner]) : t.kind = "terminal" => t \in reported
  /\ call[Owner].stage \in {"write", "sync"} /\ call[Owner].receipt.kind = "terminal" =>
       call[Owner].receipt \in reported

RecoveryInv ==
  /\ OwnerKnows
  /\ ~Overlap /\ faults = 0 => JournalSound /\ (bundle # None => BundleVerifies)
=============================================================================
