---------------------- MODULE MCCredentiallessRuntime ----------------------
(* A small instance of CredentiallessRuntime: requests are interchangeable.  *)
EXTENDS CredentiallessRuntime, TLC

MCLogical == Name \cup (1 .. Cardinality(Request))
Symmetry == Permutations(Request)

Url(host, path) == [scheme |-> "https", host |-> host, path |-> path, exact |-> TRUE]
MCPins == {"gpt-5", "gemini-2", "o3"}
MCIdentity ==
  [genuine |-> TRUE, issued |-> 0, notBefore |-> 0, expires |-> 2, scopes |-> {"call"}]
MCRoutes ==
  {[key |-> <<"openai", "gpt-5">>, scopes |-> {"call"}, bytes |-> 2, attempts |-> 1],
   [key |-> <<"gemini", "gemini-2">>, scopes |-> {"call", "tune"}, bytes |-> 2, attempts |-> 2]}
MCEgress ==
  {[provider |-> "openai", url |-> Url("openai", "responses"), bytes |-> 2],
   [provider |-> "gemini", url |-> Url("gemini", "generate"), bytes |-> 1]}

\* A call of each provider, and one for a model that the policy does not know.
Openai(model) ==
  [provider |-> "openai", bodyModel |-> model, urlModel |-> Absent, bytes |-> 1,
   url |-> Url("openai", "responses"), scopes |-> {"call"}]
MCExplicit ==
  {Openai("o3"),
   [Openai(Absent) EXCEPT !.provider = "gemini", !.urlModel = "gemini-2",
                          !.url = Url("gemini", "generate")]}
\* The client of OpenAI, with an exact pin or an alias, and that of Gemini, whose policy
\* route needs a scope the parent does not have.
MCNative ==
  {[provider |-> "openai", path |-> "responses", bodyModel |-> "gpt-5", urlModel |-> Absent,
    bytes |-> 2],
   [provider |-> "openai", path |-> "responses", bodyModel |-> "gpt-latest",
    urlModel |-> Absent, bytes |-> 1],
   [provider |-> "gemini", path |-> "generate", bodyModel |-> Absent,
    urlModel |-> "gemini-2", bytes |-> 1]}

\* Answers of each provider, and what may go wrong with them.
Tokens == [input |-> 2, output |-> 1, thoughts |-> 0, total |-> Absent]
Answer(header, url, model) ==
  [fetch |-> TRUE, headers |-> <<header>>, arrives |-> TRUE, url |-> url,
   redirected |-> FALSE, status |-> 200, bytes |-> 1, json |-> TRUE, model |-> model,
   usage |-> Tokens]
FromOpenai == Answer("authorization", Url("openai", "responses"), "gpt-5")
FromGemini == Answer("x-goog-api-key", Url("gemini", "generate"), "gemini-2")
MCExchange ==
  {FromOpenai, FromGemini,
   [FromOpenai EXCEPT !.model = "o3"],
   [FromOpenai EXCEPT !.model = "gpt-latest"],
   [FromOpenai EXCEPT !.arrives = FALSE],
   [FromOpenai EXCEPT !.status = 302],
   [FromOpenai EXCEPT !.status = 500],
   [FromOpenai EXCEPT !.status = 103, !.fetch = FALSE],
   [FromOpenai EXCEPT !.url = Url("elsewhere", "responses")],
   [FromOpenai EXCEPT !.usage.total = 2],
   [FromGemini EXCEPT !.bytes = 2, !.fetch = FALSE],
   [FromGemini EXCEPT !.usage.total = 1],
   [FromGemini EXCEPT !.usage = [input |-> 0, output |-> 3, thoughts |-> 1, total |-> Absent]]}
=============================================================================
