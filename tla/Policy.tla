------------------------------- MODULE Policy -------------------------------
(***************************************************************************)
(* The decisions of src/policy.ts.  A sealed policy blocks whatever no     *)
(* route of it allows.  A route is found by its key: provider and model    *)
(* for a model route, the four parts of the tool identity for a tool       *)
(* route.  The digest that seals a policy is not modelled: a policy is     *)
(* used as it was sealed, or verifyPolicy throws.                          *)
(***************************************************************************)
EXTENDS Integers, FiniteSets

\* validatePolicyBody: routes have distinct keys, scopes, and limits of at least 1.
PolicySound(routes) ==
  /\ \A a, b \in routes : a.key = b.key => a = b
  /\ \A a \in routes : a.scopes # {} /\ a.bytes >= 1 /\ a.attempts >= 1

\* What speaks against a request: its scopes, its size and the number of its attempt
\* are only looked at when a route has its key.
Reasons(routes, request) ==
  LET matching == {a \in routes : a.key = request.key}
  IN  {why \in {"route", "scope", "bytes", "attempts"} :
         \/ why = "route" /\ matching = {}
         \/ \E a \in matching :
              \/ why = "scope" /\ ~(request.scopes \subseteq a.scopes)
              \/ why = "bytes" /\ request.bytes > a.bytes
              \/ why = "attempts" /\ request.attempt > a.attempts}

\* evaluateModelPolicy: the censor kind of a blocked model call is always "policy".
ModelDecision(routes, request) ==
  IF Reasons(routes, request) = {} THEN "allowed" ELSE "policy"

\* evaluateToolPolicy: a tool call without the authority is censored as such.
ToolDecision(routes, request) ==
  CASE Reasons(routes, request) = {} -> "allowed"
    [] "scope" \in Reasons(routes, request) -> "authority"
    [] OTHER -> "policy"
=============================================================================
