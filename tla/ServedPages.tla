----------------------------- MODULE ServedPages -----------------------------
(* The resource server of packages/bridge, request by request: the routes, the  *)
(* files of the App directories, the ui:// proxy, the headers of a page, the    *)
(* routing of a message of the page to the host and to the MCP backend, and the *)
(* check of Telegram's initData.  A path is the sequence of its segments, where *)
(* "empty" is the empty one; a header or an option is << >> or <<a value>>.     *)
EXTENDS Integers, Sequences, SequencesExt

CONSTANTS
  Directories,   \* assetDirectories: server name -> path
  Files,         \* the paths of the files there are
  HtmlNames,     \* the names that end in .html
  UiPath,        \* config.uiPath, << >> when the route is disabled
  AllowedOrigins,\* a sequence
  SessionLimit,      \* MAX_SESSIONS
  BotToken,
  OtherTokens,   \* with which anybody can sign
  Issued,        \* the fields the bot has signed
  MaxAge, Skew   \* of auth_date: 86400 s and 60 s

VARIABLE served

-----------------------------------------------------------------------------
\* ui:// URIs, [server, path, query], and the HTTP URLs that stand for them.

\* parseResourceUri(): no path is "/", one empty segment.
ParsedUri(raw) == [server |-> raw.server, path |-> IF raw.path = <<>> THEN <<"empty">> ELSE raw.path, raw |-> raw]

\* resolveToHttp(): [path, uri], the uri parameter of a query URL.
ResolveToHttp(raw, mode) ==
  LET uri == ParsedUri(raw) IN
  IF mode = "query" THEN [path |-> IF UiPath = <<>> THEN <<"ui">> ELSE UiPath, uri |-> <<raw>>]
  ELSE [path |-> <<"app", uri.server>> \o uri.path, uri |-> <<>>]

\* A path one segment further: dots are resolved, and some segments are dropped.
Enter(entered, s, dropped) ==
  IF s = ".." THEN (IF entered = <<>> THEN <<>> ELSE Front(entered))
  ELSE IF s \in dropped THEN entered ELSE Append(entered, s)

Resolved(p, dropped) ==
  LET entered[n \in 0..Len(p)] == IF n = 0 THEN <<>> ELSE Enter(entered[n - 1], p[n], dropped)
  IN  entered[Len(p)]

\* normalizePath(), which leaves no empty segment.
NormalizePath(p) == Resolved(p, {".", "empty"})

\* new URL() keeps them, and puts one behind dots at the end.
UrlPath(p) ==
  IF p # <<>> /\ Last(p) \in {".", ".."} THEN Append(Resolved(p, {"."}), "empty") ELSE Resolved(p, {"."})

-----------------------------------------------------------------------------
\* The headers.

\* corsHeaders()
AllowedOrigin(origin) ==
  IF "*" \in Range(AllowedOrigins) THEN "*"
  ELSE IF origin # <<>> /\ origin[1] \in Range(AllowedOrigins) THEN origin[1] ELSE AllowedOrigins[1]

\* mergeCspOptions() and mergeStringLists(): [sources, allowInline].
MergedCsp(base, override) ==
  [sources |-> base.sources \cup override.sources,
   allowInline |-> IF override.allowInline # <<>> THEN override.allowInline ELSE base.allowInline]

\* buildCspHeader(): inline content is allowed unless refused.
CspHeader(options) == [sources |-> {"'self'"} \cup options.sources, inline |-> options.allowInline # <<FALSE>>]

\* injectBridgeScript() and buildBridgeScriptUrl(), with the session just created.
Page(content, csp, notes, auth) ==
  [status |-> 200, kind |-> "page", content |-> content, csp |-> CspHeader(csp), notes |-> notes,
   script |-> [session |-> "new", auth |-> auth]]

Plain(status, kind) == [status |-> status, kind |-> kind, content |-> <<>>]

-----------------------------------------------------------------------------
\* The routes.  c is the configuration [auth, csp, custom, read], where custom is
\* what onHttpRequest says and read what backend.readResource says, if there is one.

\* Faulty: what follows the name of the server is taken as it is.
AssetAsAsked(p) == p

\* The file asked for; none is index.html.
AssetPath(p) == IF p = <<"empty">> THEN <<"index.html">> ELSE p

\* A proper part of the directory, which the directory itself is not.
Inside(dir, file) == IsStrictPrefix(dir, file)

\* serveAppAsset(): mimeType() looks at the name as it was asked for.
ServeAppAsset(p, c) ==
  IF Len(p) < 2 THEN Plain(400, "asset")
  ELSE IF p[1] \notin DOMAIN Directories THEN Plain(404, "asset")
  ELSE LET dir == NormalizePath(Directories[p[1]])
           asked == AssetPath(Tail(p))
           file == NormalizePath(dir \o asked)
       IN  IF ~Inside(dir, file) THEN Plain(403, "asset")
           ELSE IF file \notin Files THEN Plain(404, "asset")
           ELSE IF Last(asked) \in HtmlNames THEN Page(file, c.csp, <<>>, c.auth)
           ELSE [status |-> 200, kind |-> "file", content |-> file]

\* serveProxiedHtml(): the stored tool result of ?ref= goes first.
ProxiedHtml(html, req, c, override) ==
  Page(html.html, MergedCsp(c.csp, override), (IF req.ref = <<>> THEN <<>> ELSE <<"tool-result">>) \o html.notes, c.auth)

NoCsp == [sources |-> {}, allowInline |-> <<>>]

\* What the backend reads for a URI.
UriText(u) == <<"ui:", u.server>> \o u.path

\* serveBackendUiResource()
ServeUi(req, c) ==
  IF c.read = <<>> THEN Plain(404, "ui")
  ELSE IF req.uri = <<>> THEN Plain(400, "ui")
  ELSE IF c.read[1] = "fails" THEN Plain(502, "ui")
  ELSE IF c.read[1] = "nothing" THEN Plain(404, "ui")
  ELSE ProxiedHtml([html |-> UriText(req.uri[1]), notes |-> <<>>], req, c, c.override)

\* The gate of the WebSocket bridge.
ServeBridge(req) ==
  IF req.session = <<>> THEN Plain(400, "bridge")
  ELSE IF req.session # <<"known">> THEN Plain(403, "bridge")
  ELSE IF ~req.upgrade THEN Plain(426, "bridge") ELSE Plain(101, "bridge")

\* onHttpRequest and the ui route, in that order.
ServeRest(req, c) ==
  IF c.custom = "response" THEN Plain(200, "custom")
  ELSE IF c.custom = "html" THEN ProxiedHtml([html |-> <<"custom">>, notes |-> <<"note">>], req, c, NoCsp)
  ELSE IF UiPath # <<>> /\ req.path = UiPath /\ req.method = "GET" THEN ServeUi(req, c)
  ELSE Plain(404, "none")

\* handleRequest()
HandleRequest(req, c) ==
  IF req.method = "OPTIONS" THEN Plain(204, "preflight")
  ELSE IF req.path = <<"health">> THEN Plain(200, "health")
  ELSE IF req.path = <<"bridge.js">> THEN Plain(200, "script")
  ELSE IF req.path = <<"session">> /\ req.method = "POST"
  THEN IF req.pages >= SessionLimit THEN Plain(429, "session") ELSE Plain(200, "session")
  ELSE IF req.path = <<"bridge">> THEN ServeBridge(req)
  ELSE IF Len(req.path) >= 2 /\ req.path[1] = "app" THEN ServeAppAsset(Tail(req.path), c)
  ELSE ServeRest(req, c)

-----------------------------------------------------------------------------
\* A JSON-RPC message of the page, [id, method]: << >> or <<the reply>>.

Reply(m, what) == <<[id |-> m.id, what |-> what]>>
IsRequest(m) == m.method /\ m.id # <<>>

\* JsonRpcMcpBackend.handleMessage()
BackendReply(m, http) ==
  IF ~m.method THEN <<>>
  ELSE IF http = "ok" THEN (IF m.id = <<>> THEN <<>> ELSE Reply(m, "result"))
  ELSE IF m.id = <<>> THEN <<>> ELSE Reply(m, "error")

\* routeMessage() and the catch around it: the host, the backend, or an error.
RouteMessage(m, host, http) ==
  IF host = "answers" THEN Reply(m, "host")
  ELSE IF host = "throws" THEN IF IsRequest(m) THEN Reply(m, "error") ELSE <<>>
  ELSE IF http # "none" /\ BackendReply(m, http) # <<>> THEN BackendReply(m, http)
  ELSE IF IsRequest(m) THEN Reply(m, "unhandled") ELSE <<>>

\* A message as the page's MessageRouter sees it: the fields it has, its id (0 is
\* null).  isSuccessResponse() and isErrorResponseMsg():
IsSuccess(m) == {"result", "id"} \subseteq m.has /\ "method" \notin m.has
IsFailure(m) == {"error", "id"} \subseteq m.has /\ "method" \notin m.has

\* successResponse() and errorResponse(): << >> or the message sent back.
RouterReply(m, handler) ==
  IF handler = "returns" THEN <<[has |-> {"id", "result"}, id |-> m.id]>> ELSE <<[has |-> {"id", "error"}, id |-> m.id]>>

\* handleMessage(): the pending requests it settles, and the reply; handler is
\* what is registered for the method: "none", or one that returns or throws.
HandleMessage(m, pending, handler) ==
  IF IsSuccess(m) THEN [resolved |-> pending \cap {m.id}, rejected |-> {}, reply |-> <<>>]
  ELSE IF IsFailure(m) THEN [resolved |-> {}, rejected |-> (pending \cap {m.id}) \ {0}, reply |-> <<>>]
  ELSE [resolved |-> {}, rejected |-> {}, reply |-> IF {"method", "id"} \subseteq m.has THEN RouterReply(m, handler) ELSE <<>>]

-----------------------------------------------------------------------------
\* Telegram's initData: [fields, hash], fields a sequence of [key, value, more] and
\* the hash << >>, or what it was computed from.  A value may go on in further
\* lines, each of which reads as a pair of its own; value is the first one.

\* URLSearchParams.get(): << >> or <<the first field>>.
First(fields, key) ==
  LET at == {k \in DOMAIN fields : fields[k].key = key}
  IN  IF at = {} THEN <<>> ELSE <<fields[CHOOSE k \in at : \A j \in at : k <= j]>>

\* The pairs joined by newlines, the lines of the values among them.  The order,
\* in which the pairs are sorted, is left out: more texts are the same here.
CheckString(fields) ==
  UNION {{[key |-> f.key, value |-> f.value]} \cup Range(f.more) : f \in Range(fields)}

Signature(token, fields) == [token |-> token, lines |-> CheckString(fields)]

\* parseUserData(): JSON with anything behind it is no user.
ParsedUser(users) == IF users # <<>> /\ users[1].more = <<>> THEN <<users[1].value>> ELSE <<>>

\* validateTelegramInitData(): [valid, user]
ValidateInitData(data, now) ==
  LET dates == First(data.fields, "auth_date") IN
  IF data.hash = <<>> \/ dates = <<>> \/ data.hash # <<Signature(BotToken, data.fields)>>
     \/ now - dates[1].value > MaxAge \/ now - dates[1].value < -Skew
  THEN [valid |-> FALSE, user |-> <<>>]
  ELSE [valid |-> TRUE, user |-> ParsedUser(First(data.fields, "user"))]

-----------------------------------------------------------------------------
CONSTANTS
  UiUris,        \* [server, path]
  Forms,         \* fields that are presented, whoever made them up
  Nows           \* clock values, in seconds

IsPath(p) == p \in Seq(Range(p))
Named(p) == \A n \in DOMAIN p : p[n] \notin {"..", ".", "empty"}

\* A URI whose dots stay below its server: no step of its path leaves where it
\* begins, and only its end may be empty.
Within(p) == \A n \in DOMAIN p : /\ p[n] = ".." => NormalizePath(SubSeq(p, 1, n - 1)) # <<>>
                                 /\ p[n] = "empty" => n = Len(p)
Below(u) == Named(<<u.server>>) /\ Within(u.path)

\* Fields as Telegram signs them: every key once, and no value of several lines.
AsSigned(fields) ==
  /\ \A n \in DOMAIN fields : fields[n].more = <<>>
  /\ \A m, n \in DOMAIN fields : fields[m].key = fields[n].key => m = n

\* Fields in a sequence, whose dates are numbers.
Dated(fields) == IsPath(fields) /\ \A n \in DOMAIN fields : fields[n].key = "auth_date" => fields[n].value \in Int

\* Directories are given in full; the ui route is not one of /app, which are for
\* the directories; only the bot has its token.
ASSUME PagesAssumption ==
  /\ IsPath(AllowedOrigins) /\ AllowedOrigins # <<>>
  /\ MaxAge \in Int /\ Skew \in Int /\ Nows \subseteq Int
  /\ \A s \in DOMAIN Directories : IsPath(Directories[s]) /\ Named(Directories[s])
  /\ UiPath # <<>> => IsPath(UiPath) /\ Named(UiPath) /\ UiPath[1] # "app"
  /\ HtmlNames \cap {"..", ".", "empty"} = {}
  /\ \A u \in UiUris : IsPath(u.path) /\ u.server # "empty"
  /\ \A f \in Forms \cup Issued : Dated(f)
  /\ \A f \in Issued : AsSigned(f)
  /\ BotToken \notin OtherTokens

Configs == [auth : BOOLEAN, csp : {NoCsp, [sources |-> {"cdn"}, allowInline |-> <<FALSE>>]}, custom : {"null", "response", "html"},
            read : {<<>>, <<"fails">>, <<"nothing">>, <<"html">>},
            override : {NoCsp, [sources |-> {"api"}, allowInline |-> <<TRUE>>]}]
Paths == {<<"health">>, <<"bridge.js">>, <<"session">>, <<"bridge">>, <<"app">>, <<"ui">>, <<"other">>}
Request == [method |-> "GET", path |-> <<"other">>, uri |-> <<>>, session |-> <<>>, upgrade |-> FALSE, ref |-> <<>>,
            pages |-> 0, origin |-> <<>>]
Of(u, mode) == LET url == ResolveToHttp(u, mode) IN [Request EXCEPT !.path = UrlPath(url.path), !.uri = url.uri]
\* The bot's signatures are those it gave; anybody can make one of any other token.
Hashes == {Signature(BotToken, f) : f \in Issued} \cup {Signature(t, f) : t \in OtherTokens, f \in Forms}
Presented == [fields : Forms, hash : {<<>>} \cup {<<h>> : h \in Hashes}]

ServedInit ==
  \/ \E c \in Configs, u \in UiUris, mode \in {"app", "query"}, r \in {<<>>, <<"ref">>} :
       served = [case |-> "uri", mode |-> mode, uri |-> u, req |-> [Of(u, mode) EXCEPT !.ref = r], config |-> c]
  \/ \E p \in Paths, m \in {"GET", "POST", "OPTIONS"}, s \in {<<>>, <<"known">>, <<"lost">>}, up \in BOOLEAN, n \in {0, SessionLimit},
        o \in {<<>>, <<"o1">>, <<"o2">>}, c \in {x \in Configs : x.csp = NoCsp /\ x.override = NoCsp} :
       served = [case |-> "request", config |-> c,
                 req |-> [Request EXCEPT !.method = m, !.path = p, !.session = s, !.upgrade = up, !.pages = n, !.origin = o]]
  \/ \E id \in {<<>>, <<1>>}, m \in BOOLEAN, h \in {"null", "answers", "throws"}, b \in {"none", "ok", "fails"} :
       served = [case |-> "message", message |-> [id |-> id, method |-> m], host |-> h, http |-> b]
  \/ \E has \in SUBSET {"id", "method", "result", "error"}, id \in 0..2, open \in SUBSET (1..2), h \in {"none", "returns", "throws"} :
       served = [case |-> "router", message |-> [has |-> has, id |-> id], pending |-> open, handler |-> h]
  \/ \E d \in Presented, n \in Nows : served = [case |-> "initData", data |-> d, now |-> n]

ServedNext == UNCHANGED served

\* What a ui:// URI that stays below its server names, if it is there, and what
\* it is served as, by the last segment of the URI.
Wanted(u) ==
  IF u.server \notin DOMAIN Directories THEN <<>>
  ELSE LET path == NormalizePath(u.path)
           file == Directories[u.server] \o (IF path = <<>> THEN <<"index.html">> ELSE path)
       IN  IF file \in Files THEN file ELSE <<>>
WantedKind(u) ==
  IF (IF NormalizePath(u.path) = <<>> THEN "index.html" ELSE Last(u.path)) \in HtmlNames THEN "page" ELSE "file"

\* A file in the directory of some App.
OfAnApp(file) == file \in Files /\ \E s \in DOMAIN Directories : IsStrictPrefix(Directories[s], file)

\* The URL that resolveToHttp() gives for a ui:// URI is answered by the server
\* with that resource and no other: the file of the App's own directory, dots in
\* the path resolved, or what the backend reads for that very URI.  A URI that
\* leaves its server by its dots, which nothing refuses, may get a file of another
\* App or a page of the application, but nothing from outside of the Apps.  Every
\* page carries the bridge script of a session of its own, asks for authentication
\* exactly where the server does, allows no source that neither the server nor
\* the resource named, and begins with the tool result it was opened for.
ResolvedIsServed ==
  served.case \in {"uri", "request"} =>
    LET r == HandleRequest(served.req, served.config)
        c == served.config
    IN  /\ r.kind = "page" =>
             /\ r.script = [session |-> "new", auth |-> c.auth]
             /\ r.csp.sources \subseteq {"'self'"} \cup c.csp.sources \cup c.override.sources
             /\ served.req.ref # <<>> /\ served.req.path[1] # "app" => Head(r.notes) = "tool-result"
        /\ AllowedOrigin(served.req.origin) \in Range(AllowedOrigins)
        /\ served.case = "uri" /\ served.mode = "app" =>
             /\ Below(served.uri) => /\ r.status \in {200, 404} /\ r.content = Wanted(served.uri)
                                     /\ r.status = 200 => r.kind = WantedKind(served.uri)
             /\ r.kind \in {"page", "file"} => OfAnApp(r.content) \/ r.content = <<"custom">>
        /\ served.case = "uri" /\ served.mode = "query" /\ r.kind = "page" /\ r.content # <<"custom">>
             => r.content = UriText(served.uri)

\* A request of the page is answered, with its own id, whoever fails on the way;
\* a notification or an answer draws no error.  The router of the page settles
\* with an answer the one request that waits for it, answers requests only, and
\* what it sends back is in its turn an answer: two routers never keep answering
\* each other, and the request of the one is settled by the reply of the other.
Replied ==
  /\ served.case = "message" =>
       LET m == served.message
           r == RouteMessage(m, served.host, served.http)
       IN  /\ IsRequest(m) => Len(r) = 1 /\ r[1].id = m.id
           /\ ~IsRequest(m) => r = <<>> \/ r[1].what = "host"
  /\ served.case = "router" =>
       LET m == served.message
           r == HandleMessage(m, served.pending, served.handler)
       IN  /\ r.resolved \cup r.rejected \subseteq {m.id} /\ r.resolved \cap r.rejected = {}
           /\ r.reply # <<>> => /\ r.resolved \cup r.rejected = {} /\ "id" \in m.has
                                /\ LET back == HandleMessage(r.reply[1], {1, 2}, "returns") IN
                                     back.reply = <<>> /\ back.resolved \cup back.rejected = {m.id} \ {0}

\* A Telegram page is let in only by data the bot once signed, however its lines
\* are cut into fields: the date that is in time and the user the page acts for,
\* if any, are those of one and the same data.  What the bot signed lets its user
\* in, as it is, for as long as its date says, clock skew included.
SignedOnly ==
  served.case = "initData" =>
    LET d == served.data
        r == ValidateInitData(d, served.now)
        InTime(f) == f.key = "auth_date" /\ served.now - f.value \in (-Skew)..MaxAge
    IN  /\ r.valid => \E s \in Issued :
                         /\ \E f \in Range(s) : InTime(f)
                         /\ r.user # <<>> => \E f \in Range(s) : f.key = "user" /\ r.user = <<f.value>>
        /\ d.fields \in Issued /\ d.hash = <<Signature(BotToken, d.fields)>> /\ (\E f \in Range(d.fields) : InTime(f))
             => r.valid /\ \A f \in Range(d.fields) : f.key = "user" => r.user = <<f.value>>

\* Only a page the bot signed is let in, and a page is what its URI names
\* (telegram-auth.ts, server.ts).
PagesTrue == SignedOnly /\ ResolvedIsServed
=============================================================================
