------------------------ MODULE AuthenticatedGateway ------------------------
(***************************************************************************)
(* Model calls under a workload identity that is renewed and re-checked:   *)
(* class AuthenticatedProviderGateway of src/authenticated-gateway.ts over *)
(* class ManagedWorkloadIdentityClient of src/managed-workload-identity.ts.*)
(*                                                                         *)
(* Callers run concurrently and interleave at their awaits.  They share    *)
(* the client's identity, its one pending exchange and its failure.  The   *)
(* trust service, the application's token source and the provider are      *)
(* outside the code: they answer late, refuse, or do not answer.  A fetch  *)
(* gives up after Timeout; the token source has no such limit.             *)
(*                                                                         *)
(* The recorder's calls are synchronous and no write fails here, so it is  *)
(* taken as the abstract ledger (the recorder itself is GatewayRecorder).  *)
(* One clock in seconds is read by everyone.  A definition named X_Y is a  *)
(* faulty variant of X, kept to show which property notices it.            *)
(***************************************************************************)
EXTENDS Policy, WorkloadIdentity, Sequences

CONSTANTS
  Caller,
  Input,        \* what callers ask for: [key, scopes, bytes, attempt]
  Routes,       \* the model routes of the sealed policy
  Offered,      \* the authority scopes the service puts into an identity
  Lifetime,     \* seconds from the issue of an identity to its expiry
  MaxLifetime,  \* 300: the longest lifetime the client accepts
  Margin,       \* 30: an identity is renewed this long before its expiry
  Window,       \* 5: how long a trust attestation may be valid
  Timeout,      \* 5: AbortSignal.timeout of the client's requests
  MaxTime,      \* bound: the clock
  None

ASSUME GatewayAssumption ==
  /\ {Lifetime, MaxLifetime, Margin, Window, Timeout, MaxTime} \subseteq Nat \ {0}
  /\ PolicySound(Routes) /\ Offered # {}
  /\ None \notin Input \cup Nat /\ None # "expired"

VARIABLES
  now,        \* the clock
  revoked,    \* when the service withdrew its trust in the workload, or None
  issued,     \* what the service issued, in order: identities with their request
  current,    \* the client's identity and issuanceId: an index of issued, or 0
  renewal,    \* the number of the next exchange request
  failure,    \* the client's failure is set
  exchange,   \* the pending exchange, if any
  stage,      \* where each call to dispatch stands
  input,      \* what it asks for
  holds,      \* the identity it was given
  check,      \* its pending check, then the attestation
  why,        \* why it was not let through
  sent,       \* when its request went to the provider
  finalized,  \* the gateway's flag; the recorder is sealed
  owed, recorded  \* the ledger: attempts admitted, attempts recorded

clientVars == <<issued, current, renewal, failure, exchange>>
callVars == <<stage, input, holds, check, why, sent>>
ledgerVars == <<owed, recorded, finalized>>
vars == <<now, revoked, clientVars, callVars, ledgerVars>>

Ledger == INSTANCE EvidenceLedger WITH Operation <- Caller, sealed <- finalized

NoExchange == [stage |-> "none", deadline |-> None]
NoCheck == [stage |-> "none", deadline |-> None, expires |-> None]

Init ==
  /\ now = 0 /\ revoked = None
  /\ issued = <<>> /\ current = 0 /\ renewal = 0 /\ failure = FALSE
  /\ exchange = NoExchange
  /\ stage = [c \in Caller |-> "idle"]
  /\ input = [c \in Caller |-> None]
  /\ holds = [c \in Caller |-> 0]
  /\ check = [c \in Caller |-> NoCheck]
  /\ why = [c \in Caller |-> None]
  /\ sent = [c \in Caller |-> None]
  /\ Ledger!Init

-----------------------------------------------------------------------------
(* identity: the failure first, then an identity that is not due for       *)
(* renewal, then the exchange that is pending, then a new one.             *)

Fresh_UntilExpiry == current # 0 /\ issued[current].expires > now
Fresh == current # 0 /\ issued[current].expires > now + Margin
Pending == exchange.stage # "none"

\* dispatch, as far as the first await that does not settle at once.
Dispatch(c, in) ==
  /\ stage[c] = "idle"
  /\ ~finalized
  /\ input' = [input EXCEPT ![c] = in]
  /\ \/ /\ failure
        /\ stage' = [stage EXCEPT ![c] = "refused"]
        /\ why' = [why EXCEPT ![c] = "failure"]
        /\ UNCHANGED <<holds, exchange>>
     \/ /\ ~failure /\ Fresh
        /\ stage' = [stage EXCEPT ![c] = "granted"]
        /\ holds' = [holds EXCEPT ![c] = current]
        /\ UNCHANGED <<why, exchange>>
     \/ /\ ~failure /\ ~Fresh
        /\ stage' = [stage EXCEPT ![c] = "identity"]
        /\ exchange' = IF Pending THEN exchange ELSE [stage |-> "token", deadline |-> None]
        /\ UNCHANGED <<why, holds>>
  /\ UNCHANGED <<now, revoked, issued, current, renewal, failure, check, sent, ledgerVars>>

\* The token source answers and the exchange is posted.
PostExchange ==
  /\ exchange.stage = "token"
  /\ exchange' = [stage |-> "posted", deadline |-> now + Timeout]
  /\ UNCHANGED <<now, revoked, issued, current, renewal, failure, callVars, ledgerVars>>

\* The service issues an identity, with the request id and predecessor it was sent.
ServiceIssues ==
  /\ exchange.stage = "posted"
  /\ revoked = None
  /\ issued' = Append(issued,
       [request |-> renewal, renewalOf |-> current, issued |-> now, notBefore |-> now,
        expires |-> now + Lifetime, scopes |-> Offered, genuine |-> TRUE])
  /\ exchange' = [exchange EXCEPT !.stage = "answered"]
  /\ UNCHANGED <<now, revoked, current, renewal, failure, callVars, ledgerVars>>

AcceptedByClient(i) == IdentityAccepted(issued[i], now, MaxLifetime, 0, {})

\* Everyone who awaits the exchange goes on as told.
Waiting_Alone == {c \in Caller : stage[c] = "identity" /\ \A d \in Caller \ {c} : stage[d] # "identity"}
Waiting == {c \in Caller : stage[c] = "identity"}

\* exchange returns in time: the identity is verified, kept, and handed to all who wait.
ExchangeReturns ==
  /\ exchange.stage = "answered"
  /\ now <= exchange.deadline
  /\ AcceptedByClient(Len(issued))
  /\ current' = Len(issued)
  /\ renewal' = renewal + 1
  /\ exchange' = NoExchange
  /\ stage' = [c \in Caller |-> IF c \in Waiting THEN "granted" ELSE stage[c]]
  /\ holds' = [c \in Caller |-> IF c \in Waiting THEN current' ELSE holds[c]]
  /\ UNCHANGED <<now, revoked, issued, failure, input, check, why, sent, ledgerVars>>

\* exchange throws, whatever the reason (the token source fails, the service refuses or
\* cannot be reached, its answer is lost, late or does not bind): it is not retried.
Sticky_Retry == FALSE
Sticky == TRUE
ExchangeFails ==
  /\ Pending
  /\ failure' = Sticky
  /\ exchange' = NoExchange
  /\ stage' = [c \in Caller |-> IF c \in Waiting THEN "refused" ELSE stage[c]]
  /\ why' = [c \in Caller |-> IF c \in Waiting THEN "failure" ELSE why[c]]
  /\ UNCHANGED <<now, revoked, issued, current, renewal, input, holds, check, sent, ledgerVars>>

-----------------------------------------------------------------------------
(* check: the identity is verified anew, then the service is asked.        *)

StartCheck(c) ==
  /\ stage[c] = "granted"
  /\ IF AcceptedByClient(holds[c])
     THEN /\ stage' = [stage EXCEPT ![c] = "check"]
          /\ check' = [check EXCEPT ![c] =
               [stage |-> "posted", deadline |-> now + Timeout, expires |-> None]]
          /\ UNCHANGED why
     ELSE /\ stage' = [stage EXCEPT ![c] = "refused"]
          /\ why' = [why EXCEPT ![c] = "expired"]
          /\ UNCHANGED check
  /\ UNCHANGED <<now, revoked, clientVars, input, holds, sent, ledgerVars>>

\* The service attests that it trusts this identity now.
ServiceAttests(c) ==
  /\ stage[c] = "check"
  /\ check[c].stage = "posted"
  /\ revoked = None
  /\ check' = [check EXCEPT ![c] =
       [stage |-> "attested", deadline |-> check[c].deadline, expires |-> now + Window]]
  /\ UNCHANGED <<now, revoked, clientVars, stage, input, holds, why, sent, ledgerVars>>

\* check throws: the service refuses, is not reached in time, or its answer does not bind.
CheckFails(c) ==
  /\ stage[c] = "check"
  /\ stage' = [stage EXCEPT ![c] = "refused"]
  /\ why' = [why EXCEPT ![c] = "unattested"]
  /\ UNCHANGED <<now, revoked, clientVars, input, holds, check, sent, ledgerVars>>

AttestationHolds_Unchecked(c) == check[c].stage = "attested"
AttestationHolds(c) == check[c].stage = "attested" /\ now < check[c].expires

\* authorize after its last await: the gateway's own verification, with the scopes of
\* the request, and the policy; the reason why not, if there is one.
Verdict(c) ==
  IF ~IdentityAccepted(issued[holds[c]], now, MaxLifetime, 0, {}) THEN "expired"
  ELSE IF ~IdentityAccepted(issued[holds[c]], now, MaxLifetime, 0, input[c].scopes) THEN "scope"
  ELSE ModelDecision(Routes, input[c])

\* check returns within its deadline; authorize, prepare and markDispatched follow
\* without an await, and the request goes to the provider.
MayPrepare == ~finalized
CheckReturns(c) ==
  /\ stage[c] = "check"
  /\ AttestationHolds(c)
  /\ now <= check[c].deadline
  /\ IF Verdict(c) # "allowed"
     THEN /\ stage' = [stage EXCEPT ![c] = "refused"]
          /\ why' = [why EXCEPT ![c] = Verdict(c)]
          /\ UNCHANGED <<sent, ledgerVars>>
     ELSE IF MayPrepare
     THEN /\ stage' = [stage EXCEPT ![c] = "upstream"]
          /\ sent' = [sent EXCEPT ![c] = now]
          /\ owed' = owed \cup {c}
          /\ UNCHANGED <<why, recorded, finalized>>
     ELSE /\ stage' = [stage EXCEPT ![c] = "thrown"]
          /\ UNCHANGED <<why, sent, ledgerVars>>
  /\ UNCHANGED <<now, revoked, clientVars, input, holds, check>>

\* A call that is not let through is recorded as censored; a sealed recorder throws.
Block(c) ==
  /\ stage[c] = "refused"
  /\ \/ Ledger!Censor(c) /\ stage' = [stage EXCEPT ![c] = "blocked"]
     \/ finalized /\ stage' = [stage EXCEPT ![c] = "thrown"] /\ UNCHANGED ledgerVars
  /\ UNCHANGED <<now, revoked, clientVars, input, holds, check, why, sent>>

\* The provider answers or cannot be reached: the outcome is recorded.
UpstreamAnswers(c) ==
  /\ stage[c] = "upstream"
  /\ Ledger!Record(c)
  /\ stage' = [stage EXCEPT ![c] = "done"]
  /\ UNCHANGED <<now, revoked, clientVars, input, holds, check, why, sent>>

\* It answers for a model without an exact pin: succeed throws, the attempt stays open.
UpstreamUnpinned(c) ==
  /\ stage[c] = "upstream"
  /\ stage' = [stage EXCEPT ![c] = "thrown"]
  /\ UNCHANGED <<now, revoked, clientVars, input, holds, check, why, sent, ledgerVars>>

\* finalize: the recorder seals if nothing is open and something is recorded, or throws.
Finalize ==
  /\ recorded # {}
  /\ Ledger!Seal
  /\ UNCHANGED <<now, revoked, clientVars, callVars>>

\* The service withdraws its trust.
Revoke ==
  /\ revoked = None
  /\ revoked' = now
  /\ UNCHANGED <<now, clientVars, callVars, ledgerVars>>

\* A second passes.  What has settled is run before.
Tick ==
  /\ now < MaxTime
  /\ \A c \in Caller : stage[c] \notin {"granted", "refused"}
  /\ now' = now + 1
  /\ UNCHANGED <<revoked, clientVars, callVars, ledgerVars>>

Next ==
  \/ \E c \in Caller, in \in Input : Dispatch(c, in)
  \/ PostExchange
  \/ ServiceIssues
  \/ ExchangeReturns
  \/ ExchangeFails
  \/ \E c \in Caller : StartCheck(c)
  \/ \E c \in Caller : ServiceAttests(c)
  \/ \E c \in Caller : CheckFails(c)
  \/ \E c \in Caller : CheckReturns(c)
  \/ \E c \in Caller : Block(c)
  \/ \E c \in Caller : UpstreamAnswers(c)
  \/ \E c \in Caller : UpstreamUnpinned(c)
  \/ Finalize
  \/ Revoke
  \/ Tick

Spec == Init /\ [][Next]_vars

\* What has settled runs; a fetch that is due is aborted.  The clock that TLC sees
\* stops at MaxTime, so everything is due then.
Due(deadline) == now >= deadline \/ now = MaxTime
AbortExchange == exchange.stage \in {"posted", "answered"} /\ Due(exchange.deadline) /\ ExchangeFails
AbortCheck(c) == stage[c] = "check" /\ Due(check[c].deadline) /\ CheckFails(c)

Fairness ==
  /\ WF_vars(Tick)
  /\ WF_vars(AbortExchange)
  /\ \A c \in Caller :
       /\ WF_vars(StartCheck(c))
       /\ WF_vars(Block(c))
       /\ WF_vars(AbortCheck(c))

FairSpec == Spec /\ Fairness

-----------------------------------------------------------------------------

\* Whatever a renewal, a slow service or other callers do meanwhile, a request goes to
\* the provider only under an identity that has not expired and was trusted less than
\* Window seconds before, with scopes that both identity and route hold, and never
\* beside sealed evidence.
DispatchIsTrusted ==
  \A c \in Caller : sent[c] # None =>
    /\ sent[c] < issued[holds[c]].expires
    /\ revoked # None => sent[c] < revoked + Window
    /\ input[c].scopes \subseteq issued[holds[c]].scopes
    /\ \E a \in Routes : a.key = input[c].key /\ input[c].scopes \subseteq a.scopes
    /\ finalized => c \in recorded

\* Process doc of the client: an ambiguous exchange is not retried.  The service never
\* issues twice for one request id, and each identity renews the one before it.
IssuanceIsLinear ==
  \A i \in 1 .. Len(issued) : issued[i].request = i - 1 /\ issued[i].renewalOf = i - 1

\* The margin of the renewal covers the check: no call is refused because the identity
\* it was given expired while its trust was checked.
NeverExpiresInFlight ==
  Lifetime > 2 * Timeout /\ Lifetime <= MaxLifetime /\ Margin >= Timeout =>
    \A c \in Caller : why[c] # "expired"

\* A call gets past its identity and its check, unless the application's token source
\* does not answer: the callers that share an exchange all go on when it ends.
CallsEnd ==
  \A c \in Caller :
    (stage[c] \in {"identity", "granted", "check", "refused"} /\ exchange.stage # "token")
      ~> (stage[c] \in {"blocked", "upstream", "thrown", "done"} \/ exchange.stage = "token")

(***************************************************************************)
(* Why a dispatch is trusted: an inductive invariant.  The client renews   *)
(* one identity at a time, and nothing more once it failed; an identity    *)
(* that was handed out outlives the deadline of its check; an attestation  *)
(* is younger than Window where it is used; and what was let through is    *)
(* recorded before the evidence is sealed.                                 *)
(***************************************************************************)
Identity ==
  [request : Nat, renewalOf : Nat, issued : Nat, notBefore : Nat, expires : Nat,
   scopes : {Offered}, genuine : {TRUE}]
Reason == {None, "failure", "expired", "unattested", "scope", "policy"}

TypeOK ==
  /\ now \in Nat /\ revoked \in Nat \cup {None}
  /\ issued \in Seq(Identity) /\ current \in 0 .. Len(issued) /\ renewal \in Nat
  /\ failure \in BOOLEAN
  /\ exchange \in [stage : {"none", "token", "posted", "answered"}, deadline : Nat \cup {None}]
  /\ stage \in [Caller -> {"idle", "identity", "granted", "check", "refused", "blocked",
                           "upstream", "thrown", "done"}]
  /\ input \in [Caller -> Input \cup {None}]
  /\ holds \in [Caller -> 0 .. Len(issued)]
  /\ check \in [Caller -> [stage : {"none", "posted", "attested"},
                           deadline : Nat \cup {None}, expires : Nat \cup {None}]]
  /\ why \in [Caller -> Reason]
  /\ sent \in [Caller -> Nat \cup {None}]
  /\ owed \subseteq Caller /\ recorded \subseteq Caller /\ finalized \in BOOLEAN

IssueSound ==
  /\ IssuanceIsLinear
  /\ \A i \in 1 .. Len(issued) :
       /\ issued[i].issued <= now
       /\ issued[i].notBefore = issued[i].issued
       /\ issued[i].expires = issued[i].issued + Lifetime

ExchangeSound ==
  /\ renewal = current
  /\ failure => ~Pending
  /\ ~failure => Len(issued) = IF exchange.stage = "answered" THEN current + 1 ELSE current
  /\ exchange.stage = "posted" => exchange.deadline \in Nat /\ exchange.deadline <= now + Timeout
  /\ exchange.stage = "answered" =>
       /\ exchange.deadline \in Nat
       /\ exchange.deadline <= issued[Len(issued)].issued + Timeout

CallSound ==
  \A c \in Caller :
    /\ stage[c] \in {"granted", "check", "upstream"} => holds[c] # 0
    /\ stage[c] = "check" => check[c].stage # "none" /\ check[c].deadline \in Nat
    /\ check[c].stage = "attested" =>
         /\ check[c].expires \in Nat
         /\ check[c].expires <= (IF revoked = None THEN now ELSE revoked) + Window
    /\ stage[c] \in {"idle", "identity", "granted", "check", "refused", "blocked"} =>
         sent[c] = None

SentSound ==
  /\ \A c \in Caller : sent[c] # None =>
       /\ holds[c] # 0 /\ sent[c] <= now
       /\ c \in owed \cup recorded
  /\ \A c \in owed \cup recorded : stage[c] \in {"blocked", "upstream", "thrown", "done"}
  /\ finalized => owed = {}
  /\ DispatchIsTrusted

\* The identity a call was given outlives the check of it.
Outlives ==
  Lifetime > 2 * Timeout /\ Lifetime <= MaxLifetime /\ Margin >= Timeout =>
    \A c \in Caller :
      /\ stage[c] = "granted" => now + Timeout < issued[holds[c]].expires
      /\ stage[c] = "check" => check[c].deadline < issued[holds[c]].expires
      /\ why[c] # "expired"

IInv == TypeOK /\ IssueSound /\ ExchangeSound /\ CallSound /\ SentSound /\ Outlives
=============================================================================
