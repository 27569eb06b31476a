--------------------- MODULE AuthenticatedGatewayProofs ---------------------
(***************************************************************************)
(* Proofs about AuthenticatedGateway, for any number of callers, any       *)
(* sealed policy, any lifetime, margin and timeouts, and a clock of any    *)
(* range.                                                                  *)
(***************************************************************************)
EXTENDS AuthenticatedGateway, TLAPS

-----------------------------------------------------------------------------
(* What the actions are *)

\* Steps of one caller that leave the client, its exchange and the clock alone.
CallStep(c) ==
  \/ StartCheck(c) \/ ServiceAttests(c) \/ CheckFails(c) \/ CheckReturns(c) \/ Block(c)
  \/ UpstreamAnswers(c) \/ UpstreamUnpinned(c)

LEMMA StepCases ==
  ASSUME [Next]_vars
  PROVE  \/ \E c \in Caller, in \in Input : Dispatch(c, in)
         \/ PostExchange \/ ServiceIssues \/ ExchangeReturns \/ ExchangeFails
         \/ \E c \in Caller : CallStep(c)
         \/ Finalize \/ Revoke \/ Tick \/ UNCHANGED vars
BY DEF Next, CallStep

LEMMA CallFrame ==
  ASSUME NEW c \in Caller, CallStep(c)
  PROVE  UNCHANGED <<now, revoked, issued, current, renewal, failure, exchange, input, holds>>
BY DEF CallStep, StartCheck, ServiceAttests, CheckFails, CheckReturns, Block,
       UpstreamAnswers, UpstreamUnpinned, clientVars

\* An identity the service issues now.
Issue == [request |-> renewal, renewalOf |-> current, issued |-> now, notBefore |-> now,
          expires |-> now + Lifetime, scopes |-> Offered, genuine |-> TRUE]

\* The list of identities only grows, by one whose claims are those of Issue.
LEMMA IssuedStep ==
  ASSUME TypeOK, [Next]_vars
  PROVE  \/ issued' = issued
         \/ /\ ServiceIssues
            /\ issued' \in Seq(Identity) /\ Len(issued') = Len(issued) + 1
            /\ \A i \in 1 .. Len(issued) : issued'[i] = issued[i]
            /\ issued'[Len(issued) + 1] = Issue
<1>1. ASSUME ServiceIssues
      PROVE  /\ issued' \in Seq(Identity) /\ Len(issued') = Len(issued) + 1
             /\ \A i \in 1 .. Len(issued) : issued'[i] = issued[i]
             /\ issued'[Len(issued) + 1] = Issue
  <2>1. issued' = Append(issued, Issue) /\ issued \in Seq(Identity)
    BY <1>1 DEF ServiceIssues, Issue, TypeOK
  <2>2. Lifetime \in Nat /\ now \in Nat /\ current \in Nat /\ renewal \in Nat
    BY GatewayAssumption DEF TypeOK
  <2>3. Issue \in Identity
    BY <2>2 DEF Issue, Identity
  <2> HIDE DEF Issue
  <2> QED BY <2>1, <2>3
<1>2. CASE \E c \in Caller : CallStep(c)
  BY <1>2, CallFrame
<1> QED
  BY <1>1, <1>2, StepCases
     DEF Dispatch, PostExchange, ExchangeReturns, ExchangeFails, Finalize, Revoke, Tick,
         clientVars, vars

LEMMA IssuedTypes ==
  ASSUME TypeOK
  PROVE  \A i \in 1 .. Len(issued) :
           issued[i].issued \in Nat /\ issued[i].expires \in Nat /\ issued[i].scopes = Offered
<1>1. \A i \in 1 .. Len(issued) : issued[i] \in Identity
  BY DEF TypeOK
<1> QED BY <1>1 DEF Identity

-----------------------------------------------------------------------------
(* The inductive invariant, conjunct by conjunct *)

LEMMA TypeStep ==
  ASSUME TypeOK, [Next]_vars
  PROVE  TypeOK'
<1> USE DEF TypeOK, Identity, Reason
<1>0. Timeout \in Nat /\ Window \in Nat
  BY GatewayAssumption
<1>1. /\ Len(issued) \in Nat /\ issued' \in Seq(Identity) /\ Len(issued') \in Nat
      /\ Len(issued) <= Len(issued')
  BY IssuedStep
<1>2. ASSUME NEW c \in Caller, NEW in \in Input, Dispatch(c, in) PROVE TypeOK'
  <2>1. UNCHANGED <<now, revoked, issued, current, renewal, failure, check, sent, ledgerVars>>
    BY <1>2 DEF Dispatch
  <2>2. stage' \in [Caller -> {"idle", "identity", "granted", "check", "refused", "blocked",
                              "upstream", "thrown", "done"}]
    BY <1>2 DEF Dispatch
  <2>3. /\ input' = [input EXCEPT ![c] = in]
        /\ holds' = holds \/ holds' = [holds EXCEPT ![c] = current]
    BY <1>2 DEF Dispatch
  <2>4. exchange' \in [stage : {"none", "token", "posted", "answered"},
                       deadline : Nat \cup {None}]
    BY <1>2 DEF Dispatch
  <2>5. why' = why \/ why' = [why EXCEPT ![c] = "failure"]
    BY <1>2 DEF Dispatch
  <2>6. input' \in [Caller -> Input \cup {None}] /\ holds' \in [Caller -> 0 .. Len(issued)]
    BY <2>3
  <2>7. why' \in [Caller -> Reason]
    BY <2>5
  <2> QED BY <2>1, <2>2, <2>4, <2>6, <2>7 DEF ledgerVars
<1>3. ASSUME PostExchange PROVE TypeOK'
  BY <1>0, <1>3 DEF PostExchange, callVars, ledgerVars
<1>4. ASSUME ServiceIssues PROVE TypeOK'
  <2>1. current' \in 0 .. Len(issued') /\ holds' \in [Caller -> 0 .. Len(issued')]
    BY <1>1, <1>4 DEF ServiceIssues, callVars
  <2> QED BY <1>1, <1>4, <2>1 DEF ServiceIssues, callVars, ledgerVars
<1>5. ASSUME ExchangeReturns PROVE TypeOK'
  BY <1>1, <1>5 DEF ExchangeReturns, NoExchange, ledgerVars
<1>6. ASSUME ExchangeFails PROVE TypeOK'
  BY <1>6 DEF ExchangeFails, NoExchange, Sticky, ledgerVars
<1>7. ASSUME NEW c \in Caller, StartCheck(c) PROVE TypeOK'
  <2>1. UNCHANGED <<now, revoked, clientVars, input, holds, sent, ledgerVars>>
    BY <1>7 DEF StartCheck
  <2>2. stage' = [stage EXCEPT ![c] = "check"] \/ stage' = [stage EXCEPT ![c] = "refused"]
    BY <1>7 DEF StartCheck
  <2> DEFINE posted == [stage |-> "posted", deadline |-> now + Timeout, expires |-> None]
  <2>3. posted \in [stage : {"none", "posted", "attested"},
                    deadline : Nat \cup {None}, expires : Nat \cup {None}]
    BY <1>0
  <2>4. why' = why \/ why' = [why EXCEPT ![c] = "expired"]
    BY <1>7 DEF StartCheck
  <2>5. check' \in {check, [check EXCEPT ![c] = posted]}
    BY <1>7 DEF StartCheck
  <2> HIDE DEF posted
  <2>6. check' \in [Caller -> [stage : {"none", "posted", "attested"},
                              deadline : Nat \cup {None}, expires : Nat \cup {None}]]
    BY <2>3, <2>5
  <2> QED BY <2>1, <2>2, <2>4, <2>6 DEF clientVars, ledgerVars
<1>8. ASSUME NEW c \in Caller, ServiceAttests(c) PROVE TypeOK'
  BY <1>0, <1>8 DEF ServiceAttests, clientVars, ledgerVars
<1>9. ASSUME NEW c \in Caller, CheckFails(c) \/ UpstreamUnpinned(c) PROVE TypeOK'
  BY <1>9 DEF CheckFails, UpstreamUnpinned, clientVars, ledgerVars
<1>10. ASSUME NEW c \in Caller, CheckReturns(c) PROVE TypeOK'
  <2>1. UNCHANGED <<now, revoked, clientVars, input, holds, check, recorded, finalized>>
    BY <1>10 DEF CheckReturns, ledgerVars
  <2>2. stage' \in [Caller -> {"idle", "identity", "granted", "check", "refused", "blocked",
                              "upstream", "thrown", "done"}]
    <3>1. stage' \in {[stage EXCEPT ![c] = s] : s \in {"refused", "upstream", "thrown"}}
      BY <1>10 DEF CheckReturns
    <3> QED BY <3>1
  <2>3. sent' \in [Caller -> Nat \cup {None}] /\ owed' \subseteq Caller
    BY <1>10 DEF CheckReturns, ledgerVars
  <2>4. Verdict(c) \in {"expired", "scope", "policy", "allowed"}
    BY DEF Verdict, ModelDecision
  <2>5. why' \in [Caller -> Reason]
    BY <1>10, <2>4 DEF CheckReturns
  <2> QED BY <2>1, <2>2, <2>3, <2>5 DEF clientVars
<1>11. ASSUME NEW c \in Caller, Block(c) PROVE TypeOK'
  BY <1>11 DEF Block, Ledger!Censor, clientVars, ledgerVars
<1>12. ASSUME NEW c \in Caller, UpstreamAnswers(c) PROVE TypeOK'
  BY <1>12 DEF UpstreamAnswers, Ledger!Record, clientVars
<1>13. ASSUME Finalize PROVE TypeOK'
  BY <1>13 DEF Finalize, Ledger!Seal, clientVars, callVars
<1>14. ASSUME Revoke PROVE TypeOK'
  BY <1>14 DEF Revoke, clientVars, callVars, ledgerVars
<1>15. ASSUME Tick PROVE TypeOK'
  BY <1>15 DEF Tick, clientVars, callVars, ledgerVars
<1>16. ASSUME UNCHANGED vars PROVE TypeOK'
  BY <1>16 DEF vars, clientVars, callVars, ledgerVars
<1> QED
  BY <1>2, <1>3, <1>4, <1>5, <1>6, <1>7, <1>8, <1>9, <1>10, <1>11, <1>12, <1>13, <1>14,
     <1>15, <1>16, StepCases DEF CallStep

\* What was issued carries consecutive request ids and the clock of its issue.
LEMMA IssueStep ==
  ASSUME TypeOK, IssueSound, ExchangeSound, [Next]_vars
  PROVE  IssueSound'
<1>1. now \in Nat /\ now' \in Nat /\ now <= now' /\ Lifetime \in Nat /\ Len(issued) \in Nat
  <2>1. CASE \E c \in Caller : CallStep(c)
    BY <2>1, CallFrame, GatewayAssumption DEF TypeOK
  <2> QED
    BY <2>1, StepCases, GatewayAssumption
       DEF TypeOK, Dispatch, PostExchange, ServiceIssues, ExchangeReturns, ExchangeFails,
           Finalize, Revoke, Tick, vars
<1>2. CASE issued' = issued
  <2>1. \A i \in 1 .. Len(issued) : issued[i].issued \in Nat
    BY IssuedTypes
  <2> QED BY <1>1, <1>2, <2>1 DEF IssueSound, IssuanceIsLinear
<1>3. CASE ServiceIssues
  <2>1. /\ Len(issued') = Len(issued) + 1
        /\ \A i \in 1 .. Len(issued) : issued'[i] = issued[i]
        /\ issued'[Len(issued) + 1] = Issue
        /\ now' = now
    BY <1>3, IssuedStep DEF ServiceIssues
  <2>2. renewal = Len(issued) /\ current = Len(issued)
    BY <1>3 DEF ServiceIssues, ExchangeSound, Pending
  <2>3. /\ Issue.request = Len(issued) /\ Issue.renewalOf = Len(issued)
        /\ Issue.issued = now /\ Issue.notBefore = now /\ Issue.expires = now + Lifetime
    BY <2>2 DEF Issue
  <2> HIDE DEF Issue
  <2>4. \A i \in 1 .. Len(issued') : i \in 1 .. Len(issued) \/ i = Len(issued) + 1
    BY <1>1, <2>1
  <2>5. ASSUME NEW i \in 1 .. Len(issued')
        PROVE  /\ issued'[i].request = i - 1 /\ issued'[i].renewalOf = i - 1
               /\ issued'[i].issued <= now'
               /\ issued'[i].notBefore = issued'[i].issued
               /\ issued'[i].expires = issued'[i].issued + Lifetime
    <3>1. CASE i \in 1 .. Len(issued)
      BY <2>1, <3>1 DEF IssueSound, IssuanceIsLinear
    <3>2. CASE i = Len(issued) + 1
      BY <1>1, <2>1, <2>3, <3>2
    <3> QED BY <2>4, <3>1, <3>2
  <2> QED BY <2>5 DEF IssueSound, IssuanceIsLinear
<1> QED BY <1>2, <1>3, IssuedStep

\* One exchange at a time, none after a failure; its answer is no older than its post.
LEMMA ExchangeStep ==
  ASSUME TypeOK, IssueSound, ExchangeSound, [Next]_vars
  PROVE  ExchangeSound'
<1> USE DEF ExchangeSound, Pending
<1>0. /\ now \in Nat /\ Timeout \in Nat /\ Len(issued) \in Nat /\ current \in Nat
      /\ None \notin Nat
  BY GatewayAssumption DEF TypeOK
<1>1. ASSUME NEW c \in Caller, NEW in \in Input, Dispatch(c, in) PROVE ExchangeSound'
  <2>1. /\ UNCHANGED <<now, issued, current, renewal, failure>>
        /\ \/ exchange' = exchange
           \/ ~failure /\ ~Pending /\ exchange' = [stage |-> "token", deadline |-> None]
    BY <1>1 DEF Dispatch
  <2> QED BY <1>0, <2>1
<1>2. ASSUME PostExchange PROVE ExchangeSound'
  BY <1>0, <1>2 DEF PostExchange
<1>3. ASSUME ServiceIssues PROVE ExchangeSound'
  <2>1. /\ UNCHANGED <<now, current, renewal, failure>>
        /\ exchange.stage = "posted"
        /\ exchange'.stage = "answered" /\ exchange'.deadline = exchange.deadline
    BY <1>3 DEF ServiceIssues, TypeOK
  <2>2. Len(issued') = Len(issued) + 1 /\ issued'[Len(issued) + 1].issued = now
    <3>1. issued' = Append(issued, Issue)
      BY <1>3 DEF ServiceIssues, Issue
    <3>2. Len(issued') = Len(issued) + 1 /\ issued'[Len(issued) + 1] = Issue
      BY <1>0, <3>1 DEF TypeOK
    <3> QED BY <3>2 DEF Issue
  <2> QED BY <1>0, <2>1, <2>2
<1>4. ASSUME ExchangeReturns \/ ExchangeFails PROVE ExchangeSound'
  BY <1>0, <1>4 DEF ExchangeReturns, ExchangeFails, NoExchange, Sticky
<1>5. ASSUME Tick PROVE ExchangeSound'
  BY <1>0, <1>5 DEF Tick, clientVars
<1>6. ASSUME UNCHANGED <<now, clientVars>> PROVE ExchangeSound'
  BY <1>6 DEF clientVars
<1>7. ASSUME \E c \in Caller : CallStep(c) PROVE ExchangeSound'
  BY <1>6, <1>7, CallFrame DEF clientVars
<1>8. ASSUME Finalize \/ Revoke \/ UNCHANGED vars PROVE ExchangeSound'
  BY <1>6, <1>8 DEF Finalize, Revoke, vars
<1> QED BY <1>1, <1>2, <1>3, <1>4, <1>5, <1>7, <1>8, StepCases

\* Where each call stands: with an identity from the grant on, with a deadline during its
\* check, with an attestation no older than the clock or the withdrawal of trust.
LEMMA CallSoundStep ==
  ASSUME TypeOK, IssueSound, ExchangeSound, CallSound, [Next]_vars
  PROVE  CallSound'
<1> USE DEF CallSound
<1>0. /\ now \in Nat /\ Timeout \in Nat /\ Window \in Nat /\ Len(issued) \in Nat
      /\ current \in Nat /\ None \notin Nat
      /\ now + Timeout \in Nat /\ now + Window \in Nat
  BY GatewayAssumption DEF TypeOK
<1> USE DEF TypeOK
<1>1. ASSUME NEW c \in Caller, NEW in \in Input, Dispatch(c, in) PROVE CallSound'
  <2>1. stage[c] = "idle" /\ UNCHANGED <<now, revoked, check, sent>>
    BY <1>1 DEF Dispatch
  <2>2. \A d \in Caller \ {c} : stage'[d] = stage[d] /\ holds'[d] = holds[d]
    BY <1>1 DEF Dispatch
  <2>3. /\ stage'[c] \in {"refused", "granted", "identity"}
        /\ stage'[c] = "granted" => holds'[c] # 0
    BY <1>0, <1>1 DEF Dispatch, Fresh
  <2> QED BY <1>0, <2>1, <2>2, <2>3
<1>2. ASSUME PostExchange \/ ServiceIssues \/ Finalize \/ UNCHANGED vars PROVE CallSound'
  BY <1>2 DEF PostExchange, ServiceIssues, Finalize, callVars, vars
<1>3. ASSUME ExchangeReturns PROVE CallSound'
  <2>1. Len(issued) # 0 /\ current' = Len(issued)
    BY <1>0, <1>3 DEF ExchangeReturns, ExchangeSound, Pending
  <2> QED BY <1>3, <2>1 DEF ExchangeReturns, Waiting
<1>4. ASSUME ExchangeFails PROVE CallSound'
  BY <1>4 DEF ExchangeFails, Waiting
<1>5. ASSUME NEW c \in Caller, StartCheck(c) PROVE CallSound'
  BY <1>0, <1>5 DEF StartCheck
<1>6. ASSUME NEW c \in Caller, ServiceAttests(c) PROVE CallSound'
  BY <1>0, <1>6 DEF ServiceAttests
<1>7. ASSUME NEW c \in Caller, CheckReturns(c) PROVE CallSound'
  BY <1>0, <1>7 DEF CheckReturns
<1>8. ASSUME NEW c \in Caller,
             CheckFails(c) \/ Block(c) \/ UpstreamAnswers(c) \/ UpstreamUnpinned(c)
      PROVE  CallSound'
  BY <1>8 DEF CheckFails, Block, UpstreamAnswers, UpstreamUnpinned
<1>9. ASSUME Revoke PROVE CallSound'
  BY <1>0, <1>9 DEF Revoke, callVars
<1>10. ASSUME Tick PROVE CallSound'
  BY <1>0, <1>10 DEF Tick, callVars
<1> QED
  BY <1>1, <1>2, <1>3, <1>4, <1>5, <1>6, <1>7, <1>8, <1>9, <1>10, StepCases DEF CallStep

\* What a verdict of allowed says of the identity and of the policy.
LEMMA AllowedMeans ==
  ASSUME TypeOK, NEW c \in Caller, holds[c] # 0, Verdict(c) = "allowed"
  PROVE  /\ now < issued[holds[c]].expires
         /\ input[c].scopes \subseteq issued[holds[c]].scopes
         /\ \E a \in Routes : a.key = input[c].key /\ input[c].scopes \subseteq a.scopes
<1>1. /\ IdentityAccepted(issued[holds[c]], now, MaxLifetime, 0, input[c].scopes)
      /\ ModelDecision(Routes, input[c]) = "allowed"
  BY DEF Verdict
<1>2. now - 0 = now
  BY DEF TypeOK
<1>3. Reasons(Routes, input[c]) = {}
  BY <1>1 DEF ModelDecision
<1>4. PICK a \in Routes : a.key = input[c].key
  BY <1>3 DEF Reasons
<1>5. input[c].scopes \subseteq a.scopes
  BY <1>3, <1>4 DEF Reasons
<1> QED BY <1>1, <1>2, <1>4, <1>5 DEF IdentityAccepted, TimeAccepted, ExpectationMet

\* What was sent stays as it was sent, unless it is sent now.
LEMMA SentFrame ==
  ASSUME TypeOK, CallSound, SentSound, [Next]_vars,
         NEW c \in Caller, sent'[c] # None, ~CheckReturns(c)
  PROVE  /\ sent[c] # None /\ sent'[c] = sent[c]
         /\ holds'[c] = holds[c] /\ input'[c] = input[c]
         /\ issued'[holds[c]] = issued[holds[c]]
         /\ now <= now'
         /\ revoked' = revoked \/ revoked' = now
         /\ recorded \subseteq recorded' /\ owed \subseteq owed' \cup recorded'
         /\ finalized' => finalized \/ owed = {}
<1> USE DEF TypeOK
<1>1. /\ now \in Nat /\ sent[c] # None => holds[c] \in 1 .. Len(issued)
      /\ issued' = issued \/ \A i \in 1 .. Len(issued) : issued'[i] = issued[i]
  BY IssuedStep DEF SentSound
<1>2. sent[c] # None /\ sent'[c] = sent[c]
  <2>1. CASE \E d \in Caller : CallStep(d)
    BY <2>1 DEF CallStep, StartCheck, ServiceAttests, CheckFails, CheckReturns, Block,
       UpstreamAnswers, UpstreamUnpinned
  <2> QED
    BY <2>1, StepCases
       DEF Dispatch, PostExchange, ServiceIssues, ExchangeReturns, ExchangeFails,
           Finalize, Revoke, Tick, vars, callVars
<1>3. stage[c] \notin {"idle", "identity"}
  BY <1>2 DEF CallSound
<1>4. /\ holds'[c] = holds[c] /\ input'[c] = input[c]
      /\ now <= now'
      /\ revoked' = revoked \/ revoked' = now
  <2>1. CASE \E d \in Caller : CallStep(d)
    BY <1>1, <2>1, CallFrame
  <2> QED
    BY <1>1, <1>3, <2>1, StepCases
       DEF Dispatch, PostExchange, ServiceIssues, ExchangeReturns, ExchangeFails, Waiting,
           Finalize, Revoke, Tick, vars, callVars
<1>5. /\ recorded \subseteq recorded' /\ owed \subseteq owed' \cup recorded'
      /\ finalized' => finalized \/ owed = {}
  <2>1. CASE \E d \in Caller : CallStep(d)
    BY <2>1 DEF CallStep, StartCheck, ServiceAttests, CheckFails, CheckReturns, Block,
       UpstreamAnswers, UpstreamUnpinned, ledgerVars, Ledger!Censor, Ledger!Record
  <2>2. CASE ~\E d \in Caller : CallStep(d)
    <3>1. UNCHANGED ledgerVars \/ Finalize
      BY <2>2, StepCases
         DEF Dispatch, PostExchange, ServiceIssues, ExchangeReturns, ExchangeFails,
             Revoke, Tick, vars
    <3> QED BY <3>1 DEF ledgerVars, Finalize, Ledger!Seal
  <2> QED BY <2>1, <2>2
<1> QED BY <1>1, <1>2, <1>4, <1>5

\* Who is in the ledger has gone as far as that.
LEMMA LedgerStep ==
  ASSUME TypeOK, SentSound, [Next]_vars
  PROVE  /\ \A c \in owed' \cup recorded' : stage'[c] \in {"blocked", "upstream", "thrown", "done"}
         /\ finalized' => owed' = {}
<1> DEFINE Goal == /\ \A d \in owed' \cup recorded' :
                        stage'[d] \in {"blocked", "upstream", "thrown", "done"}
                   /\ finalized' => owed' = {}
<1>0. /\ owed \subseteq Caller /\ recorded \subseteq Caller
      /\ \A d \in owed \cup recorded : stage[d] \in {"blocked", "upstream", "thrown", "done"}
      /\ finalized => owed = {}
      /\ DOMAIN stage = Caller
  BY DEF TypeOK, SentSound
<1>1. ASSUME NEW c \in Caller, NEW in \in Input, Dispatch(c, in) PROVE Goal
  BY <1>0, <1>1 DEF Dispatch, ledgerVars
<1>2. ASSUME ExchangeReturns \/ ExchangeFails PROVE Goal
  <2>1. /\ UNCHANGED ledgerVars
        /\ \A d \in Caller : stage[d] # "identity" => stage'[d] = stage[d]
    BY <1>2 DEF ExchangeReturns, ExchangeFails, Waiting
  <2> QED BY <1>0, <2>1 DEF ledgerVars
<1>3. ASSUME PostExchange \/ ServiceIssues \/ Finalize \/ Revoke \/ Tick \/ UNCHANGED vars
      PROVE  Goal
  BY <1>0, <1>3 DEF PostExchange, ServiceIssues, Finalize, Revoke, Tick, vars, callVars,
     ledgerVars, Ledger!Seal
<1>4. ASSUME NEW c \in Caller,
             StartCheck(c) \/ ServiceAttests(c) \/ CheckFails(c) \/ UpstreamUnpinned(c)
      PROVE  Goal
  <2>1. /\ UNCHANGED ledgerVars
        /\ stage[c] \in {"granted", "check", "upstream"}
        /\ \/ stage' = stage
           \/ \E s \in {"check", "refused"} :
                stage[c] \in {"granted", "check"} /\ stage' = [stage EXCEPT ![c] = s]
           \/ stage' = [stage EXCEPT ![c] = "thrown"]
    BY <1>4 DEF StartCheck, ServiceAttests, CheckFails, UpstreamUnpinned
  <2> QED BY <1>0, <2>1 DEF ledgerVars
<1>5. ASSUME NEW c \in Caller, CheckReturns(c) PROVE Goal
  BY <1>0, <1>5 DEF CheckReturns, MayPrepare, ledgerVars
<1>6. ASSUME NEW c \in Caller, Block(c) \/ UpstreamAnswers(c) PROVE Goal
  BY <1>0, <1>6 DEF Block, UpstreamAnswers, ledgerVars, Ledger!Censor, Ledger!Record
<1> HIDE DEF Goal
<1>7. Goal
  BY <1>1, <1>2, <1>3, <1>4, <1>5, <1>6, StepCases DEF CallStep
<1> QED BY <1>7 DEF Goal

\* A request goes out under a verdict and an attestation of the same instant.
LEMMA SentStep ==
  ASSUME TypeOK, IssueSound, CallSound, SentSound, [Next]_vars
  PROVE  SentSound'
<1> DEFINE Trusted(c) == sent[c] # None =>
      /\ sent[c] < issued[holds[c]].expires
      /\ revoked # None => sent[c] < revoked + Window
      /\ input[c].scopes \subseteq issued[holds[c]].scopes
      /\ \E a \in Routes : a.key = input[c].key /\ input[c].scopes \subseteq a.scopes
      /\ finalized => c \in recorded
           Sound(c) == sent[c] # None =>
      holds[c] # 0 /\ sent[c] <= now /\ c \in owed \cup recorded
<1>0. /\ now \in Nat /\ now' \in Nat /\ Window \in Nat \ {0} /\ None \notin Nat
      /\ revoked \in Nat \cup {None}
      /\ \A c \in Caller : sent[c] \in Nat \cup {None}
      /\ \A c \in Caller : holds[c] # 0 => issued[holds[c]].expires \in Nat
      /\ \A c \in Caller : Trusted(c) /\ Sound(c)
  <2>1. now' \in Nat
    BY TypeStep DEF TypeOK
  <2>2. \A c \in Caller : holds[c] # 0 => holds[c] \in 1 .. Len(issued)
    BY DEF TypeOK
  <2>3. \A c \in Caller : Trusted(c) /\ Sound(c)
    BY DEF SentSound, DispatchIsTrusted
  <2> QED BY <2>1, <2>2, <2>3, IssuedTypes, GatewayAssumption DEF TypeOK
<1>1. ASSUME NEW c \in Caller, ~CheckReturns(c) PROVE Trusted(c)' /\ Sound(c)'
  <2>1. SUFFICES ASSUME sent'[c] # None PROVE Trusted(c)' /\ Sound(c)'
    OBVIOUS
  <2> USE SentFrame
  <2>2. Sound(c)'
    BY <1>0, <1>1, <2>1
  <2>3. revoked' # None => sent'[c] < revoked' + Window
    BY <1>0, <1>1, <2>1
  <2>4. finalized' => c \in recorded'
    BY <1>0, <1>1, <2>1
  <2> QED BY <1>0, <1>1, <2>1, <2>2, <2>3, <2>4
<1>2. ASSUME NEW c \in Caller, CheckReturns(c) PROVE Trusted(c)' /\ Sound(c)'
  <2>1. SUFFICES ASSUME sent'[c] # None PROVE Trusted(c)' /\ Sound(c)'
    OBVIOUS
  <2>2. stage[c] = "check" /\ sent[c] = None /\ holds[c] # 0
    BY <1>2 DEF CheckReturns, CallSound
  <2>3. /\ Verdict(c) = "allowed" /\ ~finalized
        /\ sent'[c] = now /\ owed' = owed \cup {c}
        /\ UNCHANGED <<now, revoked, issued, holds, input, finalized, recorded>>
    BY <1>2, <2>1, <2>2 DEF CheckReturns, MayPrepare, TypeOK, clientVars
  <2>4. now < issued[holds[c]].expires
        /\ input[c].scopes \subseteq issued[holds[c]].scopes
        /\ \E a \in Routes : a.key = input[c].key /\ input[c].scopes \subseteq a.scopes
    BY <2>2, <2>3, AllowedMeans
  <2>5. revoked # None => now < revoked + Window
    BY <1>0, <1>2 DEF CheckReturns, AttestationHolds, CallSound
  <2>6. Sound(c)'
    BY <1>0, <2>2, <2>3
  <2> QED BY <2>3, <2>4, <2>5, <2>6
<1>3. \A c \in Caller : Trusted(c)' /\ Sound(c)'
  BY <1>1, <1>2
<1> QED BY <1>3, LedgerStep DEF SentSound, DispatchIsTrusted

\* Before it expires, an identity of a lifetime the client accepts is accepted.
LEMMA StillAccepted ==
  ASSUME TypeOK, IssueSound, Lifetime <= MaxLifetime, NEW i \in 1 .. Len(issued),
         now < issued[i].expires
  PROVE  AcceptedByClient(i)
<1>1. /\ now \in Nat /\ Lifetime \in Nat \ {0} /\ Offered # {} /\ MaxLifetime \in Nat
      /\ issued[i].issued \in Nat
  BY IssuedTypes, GatewayAssumption DEF TypeOK
<1>2. /\ issued[i].issued <= now /\ issued[i].notBefore = issued[i].issued
      /\ issued[i].expires = issued[i].issued + Lifetime
  BY DEF IssueSound
<1>3. issued[i].scopes # {} /\ issued[i].genuine
  <2>1. issued[i] \in Identity
    BY DEF TypeOK
  <2> QED BY <1>1, <2>1 DEF Identity
<1>4. ClaimsSound(issued[i]) /\ TimeAccepted(issued[i], now, MaxLifetime, 0)
  BY <1>1, <1>2, <1>3 DEF ClaimsSound, TimeAccepted
<1> QED BY <1>3, <1>4 DEF AcceptedByClient, IdentityAccepted, ExpectationMet

\* An identity that was granted outlives the deadline of the check that follows.
LEMMA OutlivesStep ==
  ASSUME TypeOK, IssueSound, ExchangeSound, CallSound, Outlives, [Next]_vars
  PROVE  Outlives'
<1> DEFINE Sure == Lifetime > 2 * Timeout /\ Lifetime <= MaxLifetime /\ Margin >= Timeout
           Safe(c) == /\ stage[c] = "granted" => now + Timeout < issued[holds[c]].expires
                      /\ stage[c] = "check" => check[c].deadline < issued[holds[c]].expires
                      /\ why[c] # "expired"
<1>1. SUFFICES ASSUME Sure, NEW c \in Caller PROVE Safe(c)'
  BY DEF Outlives
<1>0. /\ now \in Nat /\ Timeout \in Nat /\ Margin \in Nat /\ Lifetime \in Nat
      /\ MaxLifetime \in Nat
      /\ Len(issued) \in Nat /\ Offered # {}
      /\ "expired" \notin {None}
      /\ stage \in [Caller -> {"idle", "identity", "granted", "check", "refused", "blocked",
                               "upstream", "thrown", "done"}]
  BY GatewayAssumption DEF TypeOK
<1>2. Safe(c)
  BY <1>1 DEF Outlives
<1>3. \A d \in Caller : stage[d] \in {"granted", "check"} =>
        /\ holds[d] \in 1 .. Len(issued)
        /\ issued[holds[d]].expires \in Nat
        /\ issued'[holds[d]] = issued[holds[d]]
  <2>1. \A d \in Caller : stage[d] \in {"granted", "check"} => holds[d] \in 1 .. Len(issued)
    BY DEF TypeOK, CallSound
  <2>2. \A i \in 1 .. Len(issued) : issued'[i] = issued[i]
    BY IssuedStep
  <2> QED BY <2>1, <2>2, IssuedTypes
<1>4. ASSUME UNCHANGED <<now, stage, holds, check, why>> PROVE Safe(c)'
  BY <1>2, <1>3, <1>4
<1>5. ASSUME NEW d \in Caller, NEW in \in Input, Dispatch(d, in) PROVE Safe(c)'
  <2>1. CASE d # c
    <3>1. UNCHANGED <<now, issued, check>> /\ stage'[c] = stage[c]
          /\ holds'[c] = holds[c] /\ why'[c] = why[c]
      BY <1>5, <2>1 DEF Dispatch, TypeOK
    <3> QED BY <1>2, <3>1
  <2>2. CASE d = c
    <3>1. \/ stage'[c] = "granted" /\ Fresh /\ holds'[c] = current /\ why' = why
          \/ stage'[c] = "refused" /\ why'[c] = "failure"
          \/ stage'[c] = "identity" /\ why' = why
      BY <1>5, <2>2 DEF Dispatch, TypeOK
    <3>2. UNCHANGED <<now, issued>>
      BY <1>5 DEF Dispatch
    <3>3. Fresh => now + Timeout < issued[current].expires
      <4>1. current # 0 => current \in 1 .. Len(issued)
        BY DEF TypeOK
      <4> QED BY <1>0, <1>1, <4>1, IssuedTypes DEF Fresh
    <3>4. why'[c] # "expired"
      BY <1>2, <1>5, <3>1
    <3> QED BY <3>1, <3>2, <3>3, <3>4
  <2> QED BY <2>1, <2>2
<1>6. CASE ExchangeReturns
  <2>1. /\ exchange.deadline \in Nat /\ now <= exchange.deadline
        /\ exchange.deadline <= issued[Len(issued)].issued + Timeout
        /\ current' = Len(issued) /\ Len(issued) \in 1 .. Len(issued)
    BY <1>0, <1>6 DEF ExchangeReturns, ExchangeSound, Pending, TypeOK
  <2>2. issued[Len(issued)].expires = issued[Len(issued)].issued + Lifetime
    BY <2>1 DEF IssueSound
  <2>3. now + Timeout < issued[Len(issued)].expires
    BY <1>0, <1>1, <2>1, <2>2, IssuedTypes
  <2> QED BY <1>2, <1>6, <2>1, <2>3 DEF ExchangeReturns, Waiting
<1>7. CASE ExchangeFails
  BY <1>2, <1>7 DEF ExchangeFails, Waiting
<1>8. ASSUME NEW d \in Caller, StartCheck(d) PROVE Safe(c)'
  <2>1. stage[d] = "granted" /\ now + Timeout < issued[holds[d]].expires
    BY <1>1, <1>8 DEF Outlives, StartCheck
  <2>2. AcceptedByClient(holds[d])
    BY <1>0, <1>1, <1>3, <2>1, StillAccepted
  <2>3. /\ UNCHANGED <<now, issued, holds, why>>
        /\ stage' = [stage EXCEPT ![d] = "check"]
        /\ check'[d].deadline = now + Timeout /\ (c # d => check'[c] = check[c])
    BY <1>8, <2>2 DEF StartCheck, clientVars, TypeOK
  <2> QED BY <1>0, <1>2, <2>1, <2>3
<1>9. ASSUME NEW d \in Caller, ServiceAttests(d) \/ CheckFails(d) PROVE Safe(c)'
  <2>0. DOMAIN stage = Caller /\ DOMAIN why = Caller /\ DOMAIN check = Caller
    BY DEF TypeOK
  <2>1. /\ UNCHANGED <<now, issued, holds>>
        /\ check'[c].deadline = check[c].deadline
        /\ stage'[c] = stage[c] \/ stage'[c] = "refused"
        /\ why'[c] = why[c] \/ why'[c] = "unattested"
    BY <1>9, <2>0 DEF ServiceAttests, CheckFails, clientVars
  <2> QED BY <1>2, <2>1
<1>10. ASSUME NEW d \in Caller, CheckReturns(d) PROVE Safe(c)'
  <2>1. stage[d] = "check" /\ now <= check[d].deadline
        /\ check[d].deadline < issued[holds[d]].expires /\ check[d].deadline \in Nat
    BY <1>1, <1>10 DEF CheckReturns, Outlives, CallSound
  <2>2. AcceptedByClient(holds[d])
    BY <1>0, <1>1, <1>3, <2>1, StillAccepted
  <2>3. ModelDecision(Routes, input[d]) # "expired"
    BY DEF ModelDecision
  <2>4. Verdict(d) # "expired"
    BY <2>2, <2>3 DEF Verdict, AcceptedByClient
  <2>5. /\ UNCHANGED <<now, issued, holds, check>>
        /\ stage'[c] = stage[c] \/ stage'[c] \in {"refused", "upstream", "thrown"}
        /\ why'[c] = why[c] \/ why'[c] = Verdict(d)
    BY <1>10 DEF CheckReturns, clientVars, TypeOK
  <2> QED BY <1>2, <2>4, <2>5
<1>11. ASSUME NEW d \in Caller, Block(d) \/ UpstreamAnswers(d) \/ UpstreamUnpinned(d)
       PROVE  Safe(c)'
  BY <1>0, <1>2, <1>3, <1>11 DEF Block, UpstreamAnswers, UpstreamUnpinned
<1>12. CASE Tick
  BY <1>0, <1>2, <1>12 DEF Tick, clientVars, callVars
<1>13. CASE PostExchange \/ ServiceIssues \/ Finalize \/ Revoke \/ UNCHANGED vars
  BY <1>4, <1>13 DEF PostExchange, ServiceIssues, Finalize, Revoke, vars, callVars
<1> QED
  BY <1>5, <1>6, <1>7, <1>8, <1>9, <1>10, <1>11, <1>12, <1>13, StepCases DEF CallStep

-----------------------------------------------------------------------------
(* Theorems *)

LEMMA Init_IInv == Init => IInv
<1> SUFFICES ASSUME Init PROVE IInv
  OBVIOUS
<1>1. TypeOK
  <2>1. <<>> \in Seq(Identity) /\ Len(<<>>) = 0
    OBVIOUS
  <2>2. NoCheck \in [stage : {"none", "posted", "attested"},
                    deadline : Nat \cup {None}, expires : Nat \cup {None}]
    BY DEF NoCheck
  <2>3. NoExchange \in [stage : {"none", "token", "posted", "answered"},
                       deadline : Nat \cup {None}]
    BY DEF NoExchange
  <2>4. 0 \in 0 .. Len(issued) /\ None \in Reason
    BY <2>1 DEF Init, Reason
  <2>5. /\ holds \in [Caller -> 0 .. Len(issued)] /\ why \in [Caller -> Reason]
        /\ input \in [Caller -> Input \cup {None}] /\ sent \in [Caller -> Nat \cup {None}]
        /\ check \in [Caller -> [stage : {"none", "posted", "attested"},
                                deadline : Nat \cup {None}, expires : Nat \cup {None}]]
    BY <2>2, <2>4 DEF Init
  <2> HIDE DEF Reason
  <2> QED BY <2>1, <2>3, <2>4, <2>5 DEF Init, TypeOK, Ledger!Init
<1>2. IssueSound
  BY DEF Init, IssueSound, IssuanceIsLinear
<1>3. ExchangeSound
  BY DEF Init, ExchangeSound, Pending, NoExchange
<1>4. CallSound /\ SentSound
  BY DEF Init, CallSound, SentSound, DispatchIsTrusted, NoCheck, Ledger!Init
<1>5. Outlives
  BY GatewayAssumption DEF Init, Outlives
<1> QED BY <1>1, <1>2, <1>3, <1>4, <1>5 DEF IInv

\* The conjunction is inductive, however the callers, the service and the clock
\* interleave.
THEOREM GatewayInvariance == Spec => []IInv
<1>1. Init => IInv
  BY Init_IInv
<1>2. IInv /\ [Next]_vars => IInv'
  BY TypeStep, IssueStep, ExchangeStep, CallSoundStep, SentStep, OutlivesStep DEF IInv
<1> QED BY <1>1, <1>2, PTL DEF Spec

\* A request goes to the provider only under an unexpired identity that was trusted less
\* than Window before, with scopes that it and the route hold, and is in the evidence
\* once that is sealed.
THEOREM DispatchesAreTrusted == Spec => []DispatchIsTrusted
<1>1. IInv => DispatchIsTrusted
  BY DEF IInv, SentSound
<1> QED BY <1>1, GatewayInvariance, PTL

\* The service issues at most once per request id, each identity renewing the last.
THEOREM IssuanceStaysLinear == Spec => []IssuanceIsLinear
<1>1. IInv => IssuanceIsLinear
  BY DEF IInv, IssueSound
<1> QED BY <1>1, GatewayInvariance, PTL

\* When the margin is no less than the time limit of a request, and a lifetime more than
\* twice that limit, no call is refused for an identity that expired during its check.
THEOREM ChecksEndInTime == Spec => []NeverExpiresInFlight
<1>1. IInv => NeverExpiresInFlight
  BY DEF IInv, Outlives, NeverExpiresInFlight
<1> QED BY <1>1, GatewayInvariance, PTL

\* The gateway implements the evidence ledger: an attempt is admitted at most once, and
\* nothing is admitted or recorded beside sealed evidence.
THEOREM ImplementsLedger == Spec => Ledger!Spec
<1> USE DEF Ledger!ledger
<1>1. Init => Ledger!Init
  BY DEF Init
<1>2. IInv /\ [Next]_vars => [Ledger!Next]_(Ledger!ledger)
  <2> SUFFICES ASSUME IInv, [Next]_vars PROVE [Ledger!Next]_(Ledger!ledger)
    OBVIOUS
  <2>1. ASSUME NEW c \in Caller, CheckReturns(c) PROVE Ledger!Admit(c) \/ UNCHANGED ledgerVars
    BY <2>1 DEF CheckReturns, MayPrepare, Ledger!Admit, IInv, SentSound, ledgerVars
  <2>2. ASSUME NEW c \in Caller, Block(c) \/ UpstreamAnswers(c)
        PROVE  Ledger!Censor(c) \/ Ledger!Record(c) \/ UNCHANGED ledgerVars
    BY <2>2 DEF Block, UpstreamAnswers
  <2>3. CASE Finalize
    BY <2>3 DEF Finalize, Ledger!Next
  <2>4. ASSUME NEW c \in Caller,
               StartCheck(c) \/ ServiceAttests(c) \/ CheckFails(c) \/ UpstreamUnpinned(c)
        PROVE  UNCHANGED ledgerVars
    BY <2>4 DEF StartCheck, ServiceAttests, CheckFails, UpstreamUnpinned
  <2>5. \/ UNCHANGED ledgerVars
        \/ \E c \in Caller : Ledger!Admit(c) \/ Ledger!Censor(c) \/ Ledger!Record(c)
        \/ Finalize
    BY <2>1, <2>2, <2>4, StepCases
       DEF CallStep, Dispatch, PostExchange, ServiceIssues, ExchangeReturns, ExchangeFails,
           Revoke, Tick, vars
  <2> QED BY <2>3, <2>5 DEF Ledger!Next, ledgerVars
<1> QED BY <1>1, <1>2, GatewayInvariance, PTL DEF Spec, Ledger!Spec
=============================================================================
