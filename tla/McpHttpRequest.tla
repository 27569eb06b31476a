--------------------------- MODULE McpHttpRequest ---------------------------
(***************************************************************************)
(* How the handler of src/mcp-http-proxy.ts reads a request, up to the     *)
(* point where it knows the answer or has a call for the adapter: a        *)
(* request is refused at its head, or read, parsed and checked in a fixed  *)
(* order, and the first check that throws decides what the receipt says.   *)
(*                                                                         *)
(* A field says what the checks tell apart: whether a text has the form    *)
(* asked for, and which of the names that matter it is.  What the error    *)
(* message of a check contains (classifyRequestFailure) is in the reason   *)
(* given here; the reasons that everything treats alike are one,           *)
(* "malformed".                                                            *)
(***************************************************************************)
EXTENDS FiniteSets

CONSTANTS Routes,  \* tool_routes of the configuration
          Granted  \* tool_routes of the policy: [key, scopes]

\* validateConfigurationBody and verifyRoutesAgainstPolicy: the proxy starts only if
\* names are distinct and each route is the policy's, with the same scopes.
ConfigurationSound ==
  /\ Routes # {}
  /\ \A a, b \in Routes : a.server = b.server /\ a.tool = b.tool => a = b
  /\ \A a \in Routes :
       /\ a.key.registry = a.server /\ a.key.tool = a.tool
       /\ a.scopes # {}
       /\ \E p \in Granted : p.key = a.key /\ p.scopes = a.scopes

ASSUME ConfigurationAssumption == ConfigurationSound

Server == {a.server : a \in Routes}
Unknown == "unknown"  \* a server, tool or method that is not configured
Missing == "missing"  \* a name or a header that is absent or no string
Method == {"server/discover", "tools/list", "tools/call", Unknown}
Illformed == "illformed"  \* a name that is no stable id
Name == {a.tool : a \in Routes} \cup {Unknown, Illformed, Missing}

\* The request line and headers that are looked at before the body is.
RequestHead ==
  [origin : BOOLEAN, bearer : BOOLEAN,
   post : BOOLEAN,                            \* a POST of application/json
   target : Server \cup {Unknown, "no_url"}]  \* of /mcp/<server>; "no_url" cannot be parsed

\* The body, and the headers that repeat what it says.
Message ==
  [form : {"unread", "no_json", "null", "object"},  \* "unread": empty or too large
   rpc : BOOLEAN,                                   \* the members of JSON-RPC
   method : Method, methodHeader : Method \cup {Missing},
   name : Name, nameHeader : Name,
   version : BOOLEAN,                               \* the header names the protocol's
   meta : {"absent", "other", "current"},           \* and so does params._meta
   exact : BOOLEAN,                                 \* params has the keys it should
   arguments : {"object", "infinite", "other"}]     \* an object, or one with 1e999 in it

\* requestKindFor; the two kinds of metadata are one.
KindOf(method) ==
  CASE method = "tools/call" -> "call"
    [] method \in {"server/discover", "tools/list"} -> "metadata"
    [] OTHER -> Unknown

\* classifyRequestFailure goes by the message of the error: those of the checks here
\* have a class each, and any other is the proxy's own failure.
Checked == {"http", "target", "body", "protocol", "method"}
Classified(failure) == IF failure \in Checked THEN "malformed" ELSE "internal"

\* The checks before the body is read.  new URL throws a TypeError.
HeadReason(h) ==
  IF h.origin \/ ~h.bearer THEN "unauthorized"
  ELSE IF ~h.post THEN Classified("http")
  ELSE IF h.target = "no_url" THEN Classified("TypeError")
  ELSE IF h.target \notin Server THEN Classified("target")
  ELSE "read"

\* parseJsonRpcRequest
Parsed(m) == m.form = "object" /\ m.rpc

\* verifyModernMcpHeaders: headers that come more than once are absent.
HeadersSound(m) ==
  /\ m.version
  /\ m.methodHeader = m.method
  /\ m.nameHeader = IF m.method = "tools/call" THEN m.name ELSE Missing

\* verifyModernRequestEnvelope
EnvelopeSound(m) == m.meta = "current"

\* parseToolCall, up to the point where the arguments are written canonically.
CallSound(m) == m.exact /\ m.name \notin {Missing, Illformed} /\ m.arguments # "other"

\* What a message to a server is answered with before the adapter, if not "start".
MessageReason(server, m) ==
  IF m.form = "null" THEN Classified("TypeError")  \* of Object.keys
  ELSE IF ~Parsed(m) THEN Classified("body")
  ELSE IF ~HeadersSound(m) \/ ~EnvelopeSound(m) THEN Classified("protocol")
  ELSE IF KindOf(m.method) = "metadata"
       THEN IF m.exact THEN "metadata" ELSE Classified("body")
  ELSE IF m.method = Unknown THEN Classified("method")
  ELSE IF ~CallSound(m) THEN Classified("body")
  ELSE IF m.arguments = "infinite" THEN Classified("TypeError")  \* of canonicalJson
  ELSE IF \E a \in Routes : a.server = server /\ a.tool = m.name THEN "start"
  ELSE "unlisted"

\* The kind is known once the body is parsed.
MessageKind(m) == IF Parsed(m) THEN KindOf(m.method) ELSE Unknown

HeadReasons == {HeadReason(h) : h \in RequestHead}
MessageOutcomes ==
  {[reason |-> MessageReason(server, m), kind |-> MessageKind(m)] :
     server \in Server, m \in Message}
=============================================================================
