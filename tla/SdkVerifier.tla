---------------------------- MODULE SdkVerifier ----------------------------
(***************************************************************************)
(* The frames of an SDK evidence bundle (src/sdk.ts) and the verdict of    *)
(* the bundle verifier on them (src/sdk-verify.ts).                        *)
(*                                                                         *)
(* The digest of a frame is collision free and a frame chain numbers every *)
(* frame it builds, so the number of a frame stands for its digest and the *)
(* digest of its predecessor is the number below it.  An occurrence digest *)
(* stands for the logical operation and the attempt it names.  Everything  *)
(* else an operation is bound to (its kind, actor, principal, authority    *)
(* scopes and exact identity) is one value of Context.                     *)
(***************************************************************************)
EXTENDS Integers, Sequences, FiniteSets

CONSTANTS Logical,      \* logical operation ids the application uses
          MaxAttempts,  \* bound: attempts of one logical operation
          Context,      \* kind, actor, principal, scopes and identity, as one value
          Policy,       \* policy decisions in use: allowed, or blocked by a censor kind
          MaxTime,      \* bound: the last instant the wall clock shows
          None          \* no parent, no retry predecessor

Attempt == 1 .. MaxAttempts
Occurrence == Logical \X Attempt
Time == 0 .. MaxTime
NoTime == -1

\* The outcome a refused operation is recorded with, by the kind of its censor.
CensorOutcome ==
  [policy |-> "policy_censored", budget |-> "budget_censored",
   authority |-> "authority_censored"]
Censored == {"policy_censored", "budget_censored", "authority_censored"}

ASSUME VerifierAssumption ==
  /\ IsFiniteSet(Logical)
  /\ MaxAttempts \in Nat
  /\ MaxTime \in Nat
  /\ Policy \subseteq {"allowed", "policy", "budget", "authority"}
  /\ None \notin Occurrence

\* "failure" stands for decision_failure, tool_failure and protocol_failure.
Terminal == {"success", "failure", "identity_mismatch"}

Decision ==
  [kind : {"decision"}, sequence : Nat, occurrence : Occurrence, context : Context,
   retryOf : Occurrence \cup {None}, parent : Occurrence \cup {None},
   policy : Policy, evaluated : Time, observed : Time]

Action ==
  [kind : {"action"}, sequence : Nat, occurrence : Occurrence, context : Context,
   retryOf : Occurrence \cup {None}, parent : Occurrence \cup {None},
   outcome : Terminal \cup Censored, started : Time \cup {NoTime},
   ended : Time \cup {NoTime}, observed : Time]

Frame == Decision \cup Action

\* The action frame a chain builds for a decision: everything the decision bound
\* is carried over.
ActionOf(d, sequence, outcome, started, ended, observed) ==
  [kind |-> "action", sequence |-> sequence, occurrence |-> d.occurrence,
   context |-> d.context, retryOf |-> d.retryOf, parent |-> d.parent,
   outcome |-> outcome, started |-> started, ended |-> ended, observed |-> observed]

-----------------------------------------------------------------------------
(* The blockers of one frame that its builder checks as well as its reader. *)

PolicyTimely(f) == f.evaluated <= f.observed

DispatchTimely(f) ==
  IF f.outcome \in Censored
  THEN f.started = NoTime /\ f.ended = NoTime
  ELSE /\ f.started # NoTime
       /\ f.started <= f.ended
       /\ f.ended <= f.observed

FrameSound(f) ==
  /\ IF f.kind = "decision" THEN PolicyTimely(f) ELSE DispatchTimely(f)
  /\ (f.occurrence[2] = 1) <=> (f.retryOf = None)

-----------------------------------------------------------------------------
(* The verdict on a whole bundle. *)

Decisions(log) == {i \in DOMAIN log : log[i].kind = "decision"}
Actions(log) == {i \in DOMAIN log : log[i].kind = "action"}
RecordedIn(log) == {log[i].occurrence : i \in Actions(log)}

\* The log is one unbroken chain, observed in the order it was written.
ChainSound(log) ==
  \A i \in DOMAIN log :
    /\ FrameSound(log[i])
    /\ log[i].sequence = i - 1
    /\ i > 1 => log[i - 1].observed <= log[i].observed

\* Decision i and action j of one occurrence agree.
PairSound(log, i, j) ==
  LET d == log[i]
      a == log[j]
  IN  /\ i < j
      /\ d.context = a.context /\ d.retryOf = a.retryOf /\ d.parent = a.parent
      /\ IF d.policy = "allowed"
         THEN a.outcome \notin Censored
         ELSE a.outcome = CensorOutcome[d.policy]
      /\ a.outcome # "identity_mismatch"
      /\ a.started # NoTime => d.evaluated <= a.started

\* Every occurrence has exactly one decision and exactly one action, and they agree.
PairsSound(log) ==
  /\ \A i \in Decisions(log) :
       \E j \in Actions(log) :
         log[j].occurrence = log[i].occurrence /\ PairSound(log, i, j)
  /\ RecordedIn(log) \subseteq {log[i].occurrence : i \in Decisions(log)}
  /\ \A i, j \in DOMAIN log :
       log[i].kind = log[j].kind /\ log[i].occurrence = log[j].occurrence => i = j

\* Parents were decided earlier, and a retry names the attempt just before it,
\* made in the same context.
LineageSound(log) ==
  \A i \in Decisions(log) :
    LET d == log[i]
    IN  /\ d.parent # None =>
             \E p \in Decisions(log) : p < i /\ log[p].occurrence = d.parent
        /\ d.occurrence[2] > 1 =>
             \E p \in Decisions(log) :
               /\ log[p].occurrence = <<d.occurrence[1], d.occurrence[2] - 1>>
               /\ d.retryOf = log[p].occurrence
               /\ d.context = log[p].context

ManifestSound(log, m) ==
  /\ m.status = "finalized"
  /\ log # <<>>
  /\ m.frames = Len(log)
  /\ m.operations = Cardinality(RecordedIn(log))
  /\ m.created <= log[1].observed
  /\ log[Len(log)].observed <= m.finalized

\* verifySdkBundle: no blocker is found in the log and the manifest on disk.
BundleVerifies(log, torn, m) ==
  /\ ~torn
  /\ ManifestSound(log, m)
  /\ ChainSound(log)
  /\ PairsSound(log)
  /\ LineageSound(log)

-----------------------------------------------------------------------------
(***************************************************************************)
(* What a recorder keeps true of the log it is still writing, for the      *)
(* proofs that what it seals verifies: all that the verdict asks for,      *)
(* except that an operation still open has a decision and no action yet.   *)
(***************************************************************************)

\* PairSound for two frames, but for an identity mismatch.
Agree(d, a) ==
  /\ d.context = a.context /\ d.retryOf = a.retryOf /\ d.parent = a.parent
  /\ IF d.policy = "allowed" THEN a.outcome \notin Censored
     ELSE a.outcome = CensorOutcome[d.policy]
  /\ a.started # NoTime => d.evaluated <= a.started

LogWhole(l) ==
  /\ ChainSound(l) /\ LineageSound(l)
  /\ \A i, j \in DOMAIN l :
       l[i].kind = l[j].kind /\ l[i].occurrence = l[j].occurrence => i = j
  /\ \A j \in Actions(l) : \E i \in Decisions(l) :
       i < j /\ l[i].occurrence = l[j].occurrence /\ Agree(l[i], l[j])
=============================================================================
