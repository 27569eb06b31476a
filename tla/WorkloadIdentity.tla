-------------------------- MODULE WorkloadIdentity --------------------------
(***************************************************************************)
(* When src/workload-identity.ts accepts an identity.  An identity is the  *)
(* record of the claims a decision depends on; genuine stands for its      *)
(* digest, key, signature and the ten names and digests that must equal    *)
(* the expected ones.  Times are seconds.                                  *)
(***************************************************************************)
EXTENDS Integers

\* validateClaims
ClaimsSound(id) == id.issued <= id.notBefore /\ id.notBefore < id.expires /\ id.scopes # {}

\* verifyTime
TimeAccepted(id, at, maxLifetime, skew) ==
  /\ id.expires - id.issued <= maxLifetime
  /\ at + skew >= id.notBefore
  /\ at - skew < id.expires

\* verifyExpectation: the names agree and the required scopes are offered.
ExpectationMet(id, required) == id.genuine /\ required \subseteq id.scopes

\* verifyWorkloadIdentity
IdentityAccepted(id, at, maxLifetime, skew, required) ==
  /\ ClaimsSound(id)
  /\ TimeAccepted(id, at, maxLifetime, skew)
  /\ ExpectationMet(id, required)
=============================================================================
