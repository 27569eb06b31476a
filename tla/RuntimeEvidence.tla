-------------------------- MODULE RuntimeEvidence --------------------------
(***************************************************************************)
(* The portable runtime evidence of src/runtime-evidence.ts: the bodies a  *)
(* receipt may carry and what their parsers refuse, the verifier of a      *)
(* journal prefix and the verifier of a finalized bundle.                  *)
(*                                                                         *)
(* A digest stands for the bytes it was taken of, so a receipt is its own  *)
(* digest and two digests are equal when the records are.  Content is      *)
(* known by whether it is there, whether it changed and its length; times  *)
(* are numbers.                                                            *)
(***************************************************************************)
EXTENDS Integers, Sequences, FiniteSets

CONSTANTS None, Genesis

TerminalStatus == {"completed", "failed", "crashed", "cancelled"}

-----------------------------------------------------------------------------
(* Bodies.                                                                 *)

FileBody ==
  [kind : {"file"}, operation : {"read", "write", "create", "delete", "rename", "stat"},
   outcome : {"success", "failed", "blocked"}, target : BOOLEAN, changed : BOOLEAN,
   bytes : 0..1]
FileLawful(b) ==
  /\ b \in FileBody
  /\ (b.operation = "rename") = b.target
  /\ b.outcome = "blocked" => b.bytes = 0 /\ ~b.changed
  /\ b.operation \in {"read", "stat"} => ~b.changed

ProcessBody ==
  [kind : {"process"}, operation : {"spawn", "terminal", "signal"},
   outcome : {"running", "completed", "failed", "signaled", "blocked"},
   exit : {"none", "zero", "nonzero"}, signal : BOOLEAN]
ProcessLawful(b) ==
  /\ b \in ProcessBody
  /\ b.outcome \in {"running", "blocked"} => b.exit = "none" /\ ~b.signal
  /\ b.outcome = "completed" => b.exit = "zero" /\ ~b.signal
  /\ b.outcome = "failed" => b.exit = "nonzero" /\ ~b.signal
  /\ b.outcome = "signaled" => b.exit = "none" /\ b.signal
  /\ b.operation = "spawn" => b.outcome \in {"running", "blocked"}
  /\ b.operation = "terminal" => b.outcome \notin {"running", "blocked"}

\* length is that of the payload, -1 when there is none.
NetworkBody ==
  [kind : {"network"}, operation : {"connect", "send", "receive", "close"},
   outcome : {"success", "failed", "blocked"}, length : -1..1, bytes : 0..1]
NetworkLawful(b) ==
  /\ b \in NetworkBody
  /\ b.operation \in {"connect", "close"} => b.length = -1 /\ b.bytes = 0
  /\ b.length # -1 => b.bytes = b.length
  /\ b.length = -1 /\ b.operation \in {"send", "receive"} => b.bytes = 0

CredentialLawful(b) ==
  /\ b.decision \in {"allowed", "blocked"}
  /\ b.delivery \in {"none", "root_only_file", "broker_handle"}
  /\ b.decision = "allowed" =>
       b.requested # {} /\ b.resolved # {} /\ b.slots /\ b.delivery # "none"
  /\ b.decision = "blocked" => b.resolved = {} /\ ~b.slots /\ b.delivery = "none"

SideEffectLawful(b) ==
  /\ b.outcome \in {"success", "failed", "blocked"}
  /\ b.outcome = "blocked" => ~b.response /\ ~b.changed

TerminalLawful(b) ==
  /\ b.status \in TerminalStatus
  /\ b.crash_recovery => b.status = "crashed"

BodyLawful(b) ==
  \/ b.kind = "file" /\ FileLawful(b)
  \/ b.kind = "process" /\ ProcessLawful(b)
  \/ b.kind = "network" /\ NetworkLawful(b)
  \/ b.kind = "credential_scope" /\ CredentialLawful(b)
  \/ b.kind = "side_effect" /\ SideEffectLawful(b)
  \/ b.kind = "terminal" /\ TerminalLawful(b)

-----------------------------------------------------------------------------
(* Receipts, finalization and anchor, each by itself.                      *)

ReceiptLawful(r) ==
  r.sequence \in Nat /\ r.logical_time \in Nat /\ BodyLawful(r.body)

FinalizationLawful(f) ==
  f.receipt_count \in Nat \ {0} /\ f.terminal_status \in TerminalStatus

AnchorLawful(a) ==
  a.sequence \in Nat /\ a.statement.receipt_count \in Nat \ {0}

-----------------------------------------------------------------------------
(* The chain of receipts.                                                  *)

HeadOf(rs) == IF rs = <<>> THEN Genesis ELSE rs[Len(rs)]
IsTerminal(r) == r.body.kind = "terminal"

\* What receipt i of rs must say of the ones before it.
ReceiptFollows(h, rs, i) ==
  LET r == rs[i]
      before == SubSeq(rs, 1, i - 1)
      earlier == {before[j] : j \in DOMAIN before}
  IN  /\ r.header = h
      /\ r.sequence = i - 1
      /\ r.previous = HeadOf(before)
      /\ r.observed_at >= IF i = 1 THEN h.created_at ELSE rs[i - 1].observed_at
      /\ i > 1 => r.logical_time >= rs[i - 1].logical_time
      /\ \A e \in earlier : e.occurrence_id # r.occurrence_id /\ ~IsTerminal(e)
      /\ ReceiptLawful(r)
      /\ r.body.kind = "credential_scope" =>
           /\ r.body.policy = h.credential_policy
           /\ r.body.resolved \subseteq r.body.requested \cap h.scopes
      /\ r.body.kind = "side_effect" => r.body.source \in earlier
      /\ IsTerminal(r) => r.body.count = i - 1 /\ r.body.head = HeadOf(before)

\* verifyRuntimeEvidencePrefix
PrefixVerifies(h, rs, requireTerminal) ==
  /\ \A i \in DOMAIN rs : ReceiptFollows(h, rs, i)
  /\ requireTerminal => \E i \in DOMAIN rs : IsTerminal(rs[i])

\* The statement the anchor of a finalization must carry.
StatementOf(f) ==
  [session_id |-> f.session_id, header |-> f.header, finalization |-> f,
   receipt_count |-> f.receipt_count, chain_head |-> f.chain_head]

\* verifyRuntimeEvidenceBundle
BundleVerifies(b) ==
  LET f == b.finalization
      last == HeadOf(b.receipts)
      a == b.anchor
  IN  /\ FinalizationLawful(f) /\ AnchorLawful(a)
      /\ PrefixVerifies(b.header, b.receipts, TRUE)
      /\ f.session_id = b.header.session_id /\ f.header = b.header
      /\ f.receipt_count = Len(b.receipts)
      /\ f.chain_head = last
      /\ IsTerminal(last)
      /\ f.terminal_receipt = last
      /\ f.terminal_status = last.body.status
      /\ f.finalized_at >= last.observed_at
      /\ a.statement = StatementOf(f)
      /\ a.anchored_at >= f.finalized_at
      /\ a.sequence = 0 /\ a.previous = Genesis
=============================================================================
