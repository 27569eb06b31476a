----------------------------- MODULE HttpEgress -----------------------------
(***************************************************************************)
(* What the dispatcher of src/http-egress.ts makes of a request and of     *)
(* what the network does with it: which requests it lets through, what its *)
(* transport hands back, and the outcome src/provider-adapters.ts finds.   *)
(* All of it is synchronous between the awaits of dispatch.                *)
(*                                                                         *)
(* A request names its provider, its url, the model its body names, the    *)
(* model its url names, its size and its scopes.  A url is a scheme, a     *)
(* host, a path and whether there is nothing else to it.                   *)
(***************************************************************************)
EXTENDS Policy, WorkloadIdentity, GatewayFrame

CONSTANTS
  Routes,       \* the policy's model routes; the key of a route is <<provider, model>>
  Egress,       \* the configuration's model routes: [provider, url, bytes]
  Identity,     \* the workload identity of the parent
  MaxLifetime, Skew

\* validateExactTargetUrl
ExactTarget(url) ==
  /\ url.scheme = "https" \/ (url.scheme = "http" /\ url.host = "loopback")
  /\ url.exact

\* validateConfigurationBody and validateHttpRoute
ConfigurationSound ==
  /\ \A a, b \in Egress : a.provider = b.provider /\ a.url = b.url => a = b
  /\ \A a \in Egress : ExactTarget(a.url) /\ a.bytes >= 1

ASSUME EgressAssumption ==
  /\ PolicySound(Routes) /\ ConfigurationSound /\ ClaimsSound(Identity)
  /\ \A a \in Egress : a.bytes \in Nat
  /\ \A a \in Routes : a.attempts \in Nat

-----------------------------------------------------------------------------
(* The request.                                                            *)

\* requestedModelFromProviderRequest: Gemini names the model in the url only, the others
\* in the body, and in the url not differently.
NamesModel(c) ==
  IF c.provider = "gemini"
  THEN c.bodyModel = Absent /\ c.urlModel # Absent
  ELSE c.bodyModel # Absent /\ c.urlModel \in {Absent, c.bodyModel}
RequestedModel(c) == IF c.provider = "gemini" THEN c.urlModel ELSE c.bodyModel

RoutesOf(c) == {a \in Egress : a.provider = c.provider /\ a.url = c.url}

\* authorize: the parent's identity holds the scopes the call asks for and has not run out,
\* or else the reasons of the decision do not name it.
Identified(c, at) == IdentityAccepted(Identity, at, MaxLifetime, Skew, c.scopes)

\* authorize: the identity, the configuration and the policy must all agree.
Authorize(c, attempt, at) ==
  IF /\ Identified(c, at)
     /\ RoutesOf(c) # {}
     /\ ModelDecision(Routes, [key |-> <<c.provider, RequestedModel(c)>>, scopes |-> c.scopes,
                               bytes |-> c.bytes, attempt |-> attempt]) = "allowed"
  THEN "allowed" ELSE "policy"

\* resolveNativeProviderRoute: a native call of a provider's own client names a path and
\* no scopes; it is sent where the configuration sends that path, or nowhere, and asks
\* for the scopes of the policy's route, or for all the parent has.
Configured(m) == {a \in Egress : a.provider = m.provider /\ a.url.path = m.path}
Ambiguous(m) == \E a, b \in Configured(m) : a # b
Resolve(m) ==
  LET governing == {a \in Routes : a.key = <<m.provider, RequestedModel(m)>>}
      nowhere == [scheme |-> "https", host |-> "blocked", path |-> m.path, exact |-> TRUE]
  IN  [provider |-> m.provider, bodyModel |-> m.bodyModel, urlModel |-> m.urlModel,
       bytes |-> m.bytes,
       url |-> IF Configured(m) = {} THEN nowhere ELSE (CHOOSE a \in Configured(m) : TRUE).url,
       scopes |-> IF governing = {} THEN Identity.scopes
                  ELSE (CHOOSE a \in governing : TRUE).scopes]

-----------------------------------------------------------------------------
(* The exchange: what the network, or a transport of the embedding         *)
(* application, makes of a request.                                        *)

\* safeTransportHeaders: the embedding application supplies the one header in which the
\* provider expects its credential, once, and nothing else.
CredentialHeader ==
  [anthropic |-> "x-api-key", gemini |-> "x-goog-api-key", openai |-> "authorization",
   xai |-> "authorization"]
HeadersSafe(provider, headers) == headers = <<CredentialHeader[provider]>>

\* readLimitedBody
BodyRead(x, maximum) == x.bytes \in 1 .. maximum

\* createNoRedirectFetchTransport, if that is the transport: the response comes before the
\* timer aborts the call.
Fetched(c, x, maximum) ==
  /\ HeadersSafe(c.provider, x.headers)
  /\ x.arrives
  /\ x.url # Absent
  /\ BodyRead(x, maximum)
Transported(c, x, maximum) == IF x.fetch THEN Fetched(c, x, maximum) ELSE x.arrives

\* validateTransportResponse
ResponseSound(x) == x.bytes >= 1 /\ StatusValid(x.status) /\ ExactTarget(x.url)

\* The redirect checks of dispatch.
Elsewhere_Unchecked(x, c) == FALSE
Elsewhere(x, c) == x.redirected \/ x.status \in 300 .. 399 \/ x.url # c.url

\* parseSuccessfulResponse: the tokens put out are counted, or for Gemini what is left of
\* the total, or else the candidates and the thoughts.
OutputTokens(provider, u) ==
  IF provider # "gemini" THEN u.output
  ELSE IF u.total # Absent THEN u.total - u.input
  ELSE IF u.output # Absent THEN u.output + u.thoughts ELSE Absent

\* checkedUsage; only OpenAI, xAI and Gemini report a total.
UsageSound(provider, u) ==
  /\ u.input # Absent
  /\ LET output == OutputTokens(provider, u) IN
     /\ output # Absent
     /\ output >= 0
     /\ provider # "anthropic" /\ u.total # Absent => u.total >= u.input + output

Parses(provider, x) == x.json /\ x.model # Absent /\ UsageSound(provider, x.usage)

\* completeProviderAttempt
Completion(c, x) ==
  IF ~Fine(x.status) THEN Failure("provider_failure", TRUE, x.status)
  ELSE IF ~Parses(c.provider, x) THEN Failure("protocol_failure", TRUE, x.status)
  ELSE Success(RequestedModel(c), x.model,
               [input |-> x.usage.input, output |-> OutputTokens(c.provider, x.usage),
                total |-> IF c.provider = "anthropic" THEN Absent ELSE x.usage.total],
               x.status)

\* dispatch, once the transport has settled.
EndingOf(c, x) ==
  LET maximum == (CHOOSE a \in RoutesOf(c) : TRUE).bytes IN
  IF ~Transported(c, x, maximum) \/ ~ResponseSound(x)
  THEN Failure("transport_failure", FALSE, Absent)
  ELSE IF Elsewhere(x, c) \/ x.bytes > maximum
  THEN Failure("protocol_failure", TRUE, x.status)
  ELSE Completion(c, x)

\* It throws, and leaves the attempt open, when it is given what it can not end an attempt
\* with: a status below 200, which fail takes for no failure, a model that is no exact
\* pin, or counts of tokens whose sum is no safe integer.
Outcome(c, x) == IF Accepted(EndingOf(c, x)) THEN EndingOf(c, x).outcome ELSE "throws"
=============================================================================
