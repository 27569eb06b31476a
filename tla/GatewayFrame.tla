---------------------------- MODULE GatewayFrame ----------------------------
(***************************************************************************)
(* How an attempt of src/gateway.ts may end, and the two places that judge *)
(* it: succeed and fail of GatewayAttempt, before the attempt is closed,   *)
(* and gatewayFrameBlockers, after it, when the chain builds the frame.    *)
(*                                                                         *)
(* An ending is what an action frame says beyond its decision: the         *)
(* outcome, whether the provider was called, the model that answered,      *)
(* whether there is a response, the tokens used, the status and the code   *)
(* of the failure.  A field that is null is Absent.                        *)
(***************************************************************************)
EXTENDS Integers

CONSTANTS Pins,      \* names of models that are exact pins: assertModelPin
          MaxCount,  \* the largest safe integer
          Absent     \* a field that is null or missing

Usage ==
  [input : 0 .. MaxCount, output : 0 .. MaxCount, total : (0 .. MaxCount) \cup {Absent}]

\* null is no value a field has otherwise.
ASSUME FrameAssumption ==
  /\ MaxCount \in Nat
  /\ Absent \notin Pins \cup Usage \cup {"reason", "mismatch"} \cup 100 .. 599

Censored == {"policy_censored", "budget_censored"}
Terminal ==
  {"success", "identity_mismatch", "provider_failure", "transport_failure", "protocol_failure"}

\* validateUsage
UsageValid(u) ==
  /\ u.input \in 0 .. MaxCount /\ u.output \in 0 .. MaxCount
  /\ u.total # Absent => u.total \in 0 .. MaxCount /\ u.total >= u.input + u.output

\* assertHttpStatus
StatusValid(status) == status \in 100 .. 599
Fine(status) == status \in 200 .. 299

\* The refusal of prepare, which has nothing to tell of a provider.
Censoring(outcome) ==
  [outcome |-> outcome, dispatched |-> FALSE, resolved |-> Absent, response |-> FALSE,
   usage |-> Absent, status |-> Absent, failure |-> "reason"]

\* fail, as the dispatcher calls it: it names no model and counts no tokens.
Failure(outcome, response, status) ==
  [outcome |-> outcome, dispatched |-> TRUE, resolved |-> Absent, response |-> response,
   usage |-> Absent, status |-> status, failure |-> "reason"]

FailureAccepted(e) ==
  /\ e.outcome \in {"provider_failure", "transport_failure", "protocol_failure"}
  /\ e.status # Absent => StatusValid(e.status)
  /\ IF e.outcome = "transport_failure" THEN ~e.response /\ e.status = Absent
     ELSE e.response /\ e.status # Absent
  /\ e.outcome = "provider_failure" => e.status >= 400

\* succeed: a model that is not the one asked for is a mismatch of identities.
Success(requested, resolved, usage, status) ==
  [outcome |-> IF resolved = requested THEN "success" ELSE "identity_mismatch",
   dispatched |-> TRUE, resolved |-> resolved, response |-> TRUE, usage |-> usage,
   status |-> status, failure |-> IF resolved = requested THEN Absent ELSE "mismatch"]

SuccessAccepted(e) == e.resolved \in Pins /\ UsageValid(e.usage) /\ Fine(e.status)

\* succeed or fail, whichever makes such an ending, does not throw.
Accepted(e) ==
  IF e.outcome \in {"success", "identity_mismatch"} THEN SuccessAccepted(e)
  ELSE FailureAccepted(e)

\* gatewayActionBlockers, for a frame that names the model asked for.
EndingSound(e, requested) ==
  /\ e.outcome \in Censored \cup Terminal
  /\ e.resolved # Absent => e.resolved \in Pins
  /\ e.usage # Absent => UsageValid(e.usage)
  /\ e.status # Absent => StatusValid(e.status)
  /\ e.resolved \notin {Absent, requested} => e.outcome = "identity_mismatch"
  /\ e.dispatched <=> e.outcome \notin Censored
  /\ e.failure # Absent <=> e.outcome # "success"
  /\ \/ /\ e.outcome \in Censored \cup {"transport_failure"}
        /\ e.resolved = Absent /\ ~e.response /\ e.usage = Absent /\ e.status = Absent
     \/ /\ e.outcome \in {"success", "identity_mismatch"}
        /\ e.response /\ e.usage # Absent /\ e.status # Absent /\ Fine(e.status)
        /\ IF e.outcome = "success" THEN e.resolved = requested
           ELSE e.resolved \notin {Absent, requested} /\ e.failure = "mismatch"
     \/ /\ e.outcome \in {"provider_failure", "protocol_failure"}
        /\ e.response /\ e.status # Absent
        /\ e.outcome = "provider_failure" => e.status >= 400

\* gatewayFrameBlockers and gatewayPolicyBlockers: an attempt is counted from one and
\* names another before it unless it is the first, and an action tells how it ended.
FrameSound(f) ==
  /\ f.requested \in Pins
  /\ f.occurrence[2] >= 1
  /\ f.occurrence[2] = 1 <=> f.retryOf = Absent
  /\ f.kind = "decision" => f.policy \in {"allowed", "policy", "budget"}
  /\ f.kind = "action" => EndingSound(f.ending, f.requested)
=============================================================================
