--------------------------- MODULE McpConnection ---------------------------
(***************************************************************************)
(* A connection of the cluster to one server, answer by answer             *)
(* (compose/src/runtime/cluster.ts): the protocol that is selected, the     *)
(* requests of the stateless client and what is made of an answer, and the  *)
(* errors callers are given.  The headers of a request are read by the      *)
(* platform's own rules, HeaderRules.                                       *)
(*                                                                         *)
(* Texts and the values of a body are written as in HeaderRules, a path as  *)
(* the sequence of its segments, a field that may be absent as << >> or     *)
(* <<value>>.                                                               *)
(***************************************************************************)
EXTENDS Integers, Sequences, SequencesExt

CONSTANTS Names,         \* texts of names and URIs
          UnsafeNames,   \* those of them that may not travel as a field value
          ToolArguments, \* arguments of tool calls, as values of a body
          Annotations,   \* per tool: the parameters its schema wants mirrored
          HeaderCase,    \* their header names in lower case
          PathSegments, MaxSegments  \* the paths of URLs, and a bound on their length

ASSUME NamesAssumption ==
    /\ \A n \in Names : n \in Seq(Range(n)) /\ n # << >>
    /\ \A a \in ToolArguments : a.type = "object"
    /\ \A m \in Annotations : m \in Seq(Range(m))
    /\ MaxSegments \in Nat

VARIABLE link

Platform == INSTANCE HeaderRules
    WITH UnsafeTexts <- UnsafeNames, Numerals <- << >>, MaxSafe <- 0, TokenNames <- {}, LowerCase <- HeaderCase

StatelessVersion == <<"2026-07-28">>

----------------------------------------------------------------------------
(* What the stateless client sends.                                         *)

Text(text) == [type |-> "string", text |-> text]

\* mcpNameFor()
McpNameFor(method, params) ==
    IF method = "tools/call" /\ "name" \in DOMAIN params THEN <<params["name"].text>>
    ELSE IF method = "resources/read" /\ "uri" \in DOMAIN params THEN <<params["uri"].text>>
    ELSE << >>

\* Faulty: a name is sent as it is when it is ASCII, a sentinel included.
EncodeMcpHeaderValuePlain(value) ==
    IF Platform!HeaderSafe(value) THEN value ELSE Platform!Wrap(value)

\* encodeMcpHeaderValue(), a copy of the platform's rule.
EncodeMcpHeaderValue(value) ==
    IF Platform!HeaderSafe(value) /\ ~Platform!IsWrapped(value) THEN value ELSE Platform!Wrap(value)

\* withStatelessMetadata() and the headers of a request: no Mcp-Param among them.
Sent(method, params) ==
    [method |-> method, params |-> params, version |-> StatelessVersion,
     headers |-> LET name == McpNameFor(method, params)
                     standard == {Platform!VersionHeader, Platform!MethodHeader}
                 IN  [h \in standard \cup (IF name = << >> THEN {} ELSE {Platform!NameHeader}) |->
                        IF h = Platform!VersionHeader THEN StatelessVersion
                        ELSE IF h = Platform!MethodHeader THEN <<method>>
                        ELSE EncodeMcpHeaderValue(name[1])]]

\* What an operation of a connection asks for.
Operation(kind, name, args) ==
    IF kind = "tool-call" THEN Sent("tools/call", [name |-> Text(name), arguments |-> args])
    ELSE IF kind = "resource-read" THEN Sent("resources/read", [uri |-> Text(name)])
    ELSE IF kind = "tool-list" THEN Sent("tools/list", << >>)
    ELSE IF kind = "resource-list" THEN Sent("resources/list", << >>)
    ELSE Sent("server/discover", << >>)

----------------------------------------------------------------------------
(* What comes back: [net, status, body, id, error, result].  The network     *)
(* answers, refuses, or is silent until the timer, before or within the body.*)

Failed(status, code, timedOut) ==
    [ok |-> FALSE, status |-> status, code |-> code, timedOut |-> timedOut, result |-> << >>]

\* isRequestTimeout()
TimedOut(r) == r.net \in {"silent", "cut"}

\* StatelessMcpClient.request(), readJsonRpcPayload() and jsonRpcError().
Outcome(r) ==
    IF r.net # "answered" THEN Failed(0, 0, TimedOut(r))
    ELSE IF r.body # "message" \/ r.id # "own" THEN Failed(r.status, 0, FALSE)
    ELSE IF r.error # << >> THEN Failed(r.status, r.error[1], FALSE)
    ELSE IF r.status # 200 \/ r.result = << >> THEN Failed(r.status, 0, FALSE)
    ELSE [ok |-> TRUE, status |-> 200, code |-> 0, timedOut |-> FALSE, result |-> r.result]

----------------------------------------------------------------------------
(* Selecting a protocol.                                                    *)

NotAdvertised == -32022
MethodNotFound == -32601

\* The outcome of server/discover, once its result has been looked at.
Discovery(r) ==
    LET o == Outcome(r) IN IF o.ok /\ o.result # <<"versions">> THEN Failed(0, NotAdvertised, FALSE) ELSE o

\* shouldFallbackToStreamable()
ShouldFallback(o) == o.status = 404 \/ o.code \in {NotAdvertised, MethodNotFound}

\* createMcpConnection(): the protocol spoken, or "none".
SelectedProtocol(protocol, r, initializes) ==
    LET streamable == IF initializes THEN "streamable" ELSE "none" IN
    IF protocol = "streamable-http" THEN streamable
    ELSE IF Discovery(r).ok THEN "stateless"
    ELSE IF protocol = "auto" /\ ShouldFallback(Discovery(r)) THEN streamable ELSE "none"

----------------------------------------------------------------------------
(* The operations.                                                          *)

Kinds == {"tool-call", "resource-read", "tool-list", "resource-list"}

\* requestErrorCode(), which makes a code of the operation and of how it ended.
ErrorCode(kind, timedOut) == <<kind, IF timedOut THEN "TIMEOUT" ELSE "FAILED">>
NoError == <<"none">>

\* requestError()
Settlement(kind, o) ==
    IF o.ok THEN [result |-> o.result, error |-> NoError]
    ELSE [result |-> << >>, error |-> ErrorCode(kind, o.timedOut)]

\* The official SDK waits on when an answer is not to its request.
SdkOutcome(r) ==
    IF r.net = "answered" /\ r.status = 200 /\ r.body = "message" /\ r.id # "own" THEN Failed(0, 0, TRUE) ELSE Outcome(r)

StatelessPerforms(kind, r) == Settlement(kind, Outcome(r))
StreamablePerforms(kind, r) == Settlement(kind, SdkOutcome(r))

\* callTool(), readResource(), listTools() and listResources() of the cluster.
Performed(kind, speaks, r) ==
    IF speaks = "none" THEN [result |-> << >>, error |-> ErrorCode(kind, FALSE)]
    ELSE IF speaks = "stateless" THEN StatelessPerforms(kind, r) ELSE StreamablePerforms(kind, r)

----------------------------------------------------------------------------
(* URLs.                                                                    *)

\* Without the slashes at the end.
Trimmed(path) ==
    LET kept == {n \in 0..Len(path) : n = 0 \/ path[n] # ""}
    IN  SubSeq(path, 1, CHOOSE n \in kept : \A m \in kept : m <= n)

EndsIn(path, segment) == path # << >> /\ Last(path) = segment

\* mcpEndpointUrl()
Endpoint(path) == IF EndsIn(Trimmed(path), "mcp") THEN Trimmed(path) ELSE Append(Trimmed(path), "mcp")

\* normalizeBaseUrl(), one more slash at the end dropped from what it prints.
BaseUrl(path) ==
    LET base == IF EndsIn(Trimmed(path), "mcp") THEN Front(Trimmed(path)) ELSE Trimmed(path)
    IN  IF EndsIn(base, "") THEN Front(base) ELSE base

----------------------------------------------------------------------------
PossibleAnswers ==
    [net : {"refused", "silent", "cut"}, status : {0}, body : {"none"}, id : {"none"}, error : {<< >>}, result : {<< >>}]
    \cup [net : {"answered"}, status : {200, 400, 404, 500}, body : {"empty", "malformed"}, id : {"none"},
          error : {<< >>}, result : {<< >>}]
    \cup [net : {"answered"}, status : {200, 400, 404, 500}, body : {"message"}, id : {"own", "null", "other"},
          error : {<< >>, <<NotAdvertised>>, <<MethodNotFound>>, <<-32000>>}, result : {<< >>, <<"other">>, <<"versions">>}]

\* What the two kinds of server say to server/discover, and what can become of it.
SaysStateless(r) == r.net = "answered" /\ r.status = 200 /\ r.body = "message" /\ r.id = "own"
                    /\ r.error = << >> /\ r.result = <<"versions">>
SaysUnknown(r) == /\ r.net = "answered" /\ r.result = << >>
                  /\ \/ r.status = 404
                     \/ r.body = "message" /\ r.id = "own" /\ r.error = <<MethodNotFound>>
Disturbed(r) == \/ r.net # "answered"
                \/ r.status = 500 /\ r.error \in {<< >>, <<-32000>>}
                \/ r.status = 200 /\ (r.body # "message" \/ r.id # "own")

\* A path as people write it: slashes are doubled at its end only, "mcp" is there once.
Ordinary(path) ==
    \A i, j \in DOMAIN path : i < j => (path[i] = "" => path[j] = "") /\ ~(path[i] = "mcp" /\ path[j] = "mcp")

UrlPaths == {path \in UNION {[1..n -> PathSegments] : n \in 0..MaxSegments} : Ordinary(path)}

LinkInit ==
    \/ link \in [case : {"connect"}, protocol : {"auto", "stateless-2026-07-28", "streamable-http"}, answer : PossibleAnswers,
                 initializes : BOOLEAN]
    \/ link \in [case : {"operation"}, kind : Kinds, speaks : {"none", "stateless", "streamable"}, answer : PossibleAnswers]
    \/ link \in [case : {"headers"}, kind : Kinds \cup {"discover"}, name : Names, args : ToolArguments, mirrored : Annotations]
    \/ link \in [case : {"url"}, path : UrlPaths]

LinkNext == UNCHANGED link

\* SpokenTo: a stateless server is never spoken to in sessions, whatever becomes
\* of the answer to its discovery, and an older one that does not know the
\* method always is (cluster.ts:544); a protocol that was pinned is kept.  An
\* operation returns what the answer to it said, and an error says of which
\* operation it is and whether the timer ended it (cluster.ts:983).  The URL of
\* a server may be given with or without its endpoint.
SpokenTo ==
    /\ link.case = "connect" =>
         LET spoken == SelectedProtocol(link.protocol, link.answer, link.initializes) IN
         /\ link.protocol = "stateless-2026-07-28" => spoken # "streamable"
         /\ link.protocol = "streamable-http" => spoken # "stateless"
         /\ link.protocol # "streamable-http" /\ SaysStateless(link.answer) => spoken = "stateless"
         /\ link.protocol # "streamable-http" /\ Disturbed(link.answer) => spoken = "none"
         /\ link.protocol = "auto" /\ SaysUnknown(link.answer) => (spoken = "streamable" <=> link.initializes)
    /\ link.case = "operation" =>
         LET r == link.answer
             p == Performed(link.kind, link.speaks, r)
         IN  /\ p.result # << >> => r.id = "own" /\ r.error = << >> /\ p.result = r.result /\ p.error = NoError
             /\ p.result = << >> => \E timedOut \in BOOLEAN : p.error = ErrorCode(link.kind, timedOut)
             /\ p.error = ErrorCode(link.kind, TRUE) <=>
                  \/ link.speaks # "none" /\ TimedOut(r)
                  \/ link.speaks = "streamable" /\ r.status = 200 /\ r.body = "message" /\ r.id # "own"
    /\ link.case = "url" => /\ Endpoint(BaseUrl(link.path)) = Endpoint(link.path)
                            /\ BaseUrl(BaseUrl(link.path)) = BaseUrl(link.path)

\* The parameters to be mirrored that are there.
Present(mirrored, args) ==
    {i \in DOMAIN mirrored : ~Platform!IsAbsent(Platform!ReadAtPath(args, mirrored[i].path))}

\* Understood: whatever the name of the tool or the URI, the platform reads in
\* the headers of a request of the stateless client what the body says
\* (cluster.ts:882), and accepts it - unless it is a call with an argument that
\* the schema of its tool wants mirrored: the client mirrors none, and the call
\* is refused for the header that is missing.
Understood ==
    link.case = "headers" =>
        LET sent == Operation(link.kind, link.name, link.args)
            mirrored == IF link.kind = "tool-call" THEN link.mirrored ELSE << >>
            fault == Platform!ValidateRequestHeaders(sent.headers, sent.method, sent.params, sent.version, mirrored)
        IN  IF Present(mirrored, link.args) = {} THEN fault = Platform!None
            ELSE \E i \in Present(mirrored, link.args) :
                   fault = Platform!Fault("missing_header", Platform!ParamHeader(mirrored[i]))
=============================================================================
