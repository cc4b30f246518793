------------------------------ MODULE HostPage ------------------------------
(***************************************************************************)
(* The dashboard page at run time (host/renderer/js/event-bus.ts): frames   *)
(* and page talk by postMessage, in order each way; the page answers the    *)
(* handshake of each frame, routes compose events, tells the frames of a    *)
(* new size, and relays requests to the local proxy of their panel          *)
(* (runtime/host-dashboard.ts).                                             *)
(*                                                                         *)
(* The documents in the frames are Apps written with the SDK of             *)
(* sdk/compose-events.ts.  A frame may be reloaded, or navigate to a        *)
(* document of another origin that speaks the protocol too.  A second part  *)
(* decides, case by case, what the listener of a panel serves.              *)
(***************************************************************************)
EXTENDS ComposeRules, Integers

CONSTANTS Frames,       \* the slots, a sequence
          Requested,    \* slotConfigs: the surface asked for, or Absent
          Catalogs,     \* what the App of each slot may advertise; Absent stands for an invalid one
          Panel,        \* the proxy of each slot: [tools, resource]
          Requests,     \* what the Apps may ask the proxy
          Rules, PortRules,
          Sizes,        \* of the panels, one for all
          MaxSends      \* bound on resizes, events and requests together

VARIABLES doc,          \* per slot the document in the frame
          toPage, toFrame,  \* messages under way
          responded,    \* initializationResponded
          delivered,    \* initialResultsDelivered
          catalogs,     \* componentCatalogs
          lastContext,  \* lastHostContexts
          size, resizing,   \* the layout, and whether its resize event is to come
          relays,       \* relayMcpRequest() calls that wait for the proxy
          asked,        \* what a proxy last asked of its source server
          sends

pageVars == <<doc, toPage, toFrame, responded, delivered, catalogs, lastContext, size,
              resizing, relays, asked, sends>>

SlotSet == Range(Frames)

\* What the log of a document keeps: all but events and answers of the proxy.
Told == {"response", "context", "result"}

Loaded(n, own) == [load |-> n, own |-> own, state |-> "loaded", context |-> Absent, log |-> << >>]

PageInit ==
    /\ doc = [s \in SlotSet |-> Loaded(0, TRUE)]
    /\ toPage = [s \in SlotSet |-> << >>]
    /\ toFrame = [s \in SlotSet |-> << >>]
    /\ responded = {} /\ delivered = {}
    /\ catalogs = [s \in SlotSet |-> Absent]
    /\ lastContext = [s \in SlotSet |-> Absent]
    /\ size \in Sizes /\ resizing = FALSE
    /\ relays = {} /\ asked = Absent /\ sends = 0

page == <<responded, delivered, catalogs, lastContext, relays, asked>>

----------------------------------------------------------------------------
(* The documents.                                                           *)

\* postMessage(): a message records the origin it was posted from.
Post(s, message) == toPage' = [toPage EXCEPT ![s] = Append(@, message)]

Handshakes(s, catalog) ==
    /\ doc[s].state = "loaded"
    /\ doc' = [doc EXCEPT ![s].state = "asked"]
    /\ Post(s, [kind |-> "initialize", catalog |-> catalog, own |-> doc[s].own])
    /\ UNCHANGED <<toFrame, size, resizing, sends, page>>

Emits(s, event) ==
    /\ sends < MaxSends /\ doc[s].state = "ready"
    /\ sends' = sends + 1
    /\ Post(s, [kind |-> "event", event |-> event, own |-> doc[s].own])
    /\ UNCHANGED <<doc, toFrame, size, resizing, page>>

\* A document of another origin is not answered, and does not wait for it.
Asks(s, request) ==
    /\ sends < MaxSends
    /\ doc[s].state = "ready" \/ ~doc[s].own
    /\ sends' = sends + 1
    /\ Post(s, [kind |-> "request", request |-> request, own |-> doc[s].own])
    /\ UNCHANGED <<doc, toFrame, size, resizing, page>>

\* A message for the panel's origin does not reach a document of another.
Receives(s) ==
    LET message == Head(toFrame[s])
        answers == message.kind = "response" /\ doc[s].state = "asked"
    IN  /\ toFrame[s] # << >>
        /\ toFrame' = [toFrame EXCEPT ![s] = Tail(@)]
        /\ doc' = IF ~doc[s].own THEN doc ELSE
             [doc EXCEPT ![s].log = IF message.kind \in Told THEN Append(@, message.kind) ELSE @,
                         ![s].state = IF answers THEN "answered" ELSE @,
                         ![s].context = IF message.kind \in {"response", "context"} THEN message.context ELSE @]
        /\ UNCHANGED <<toPage, size, resizing, sends, page>>

\* The App has accepted the response and registered its handlers.
Confirms(s) ==
    /\ doc[s].state = "answered"
    /\ doc' = [doc EXCEPT ![s].state = "ready"]
    /\ Post(s, [kind |-> "initialized", own |-> doc[s].own])
    /\ UNCHANGED <<toFrame, size, resizing, sends, page>>

\* A reload or a navigation: the messages for the old document are lost, those it
\* sent are not.
Replaces(s, own) ==
    /\ \A t \in SlotSet : doc[t].load = 0     \* bound: one frame is replaced, once
    /\ doc' = [doc EXCEPT ![s] = Loaded(1, own)]
    /\ toFrame' = [toFrame EXCEPT ![s] = << >>]
    /\ UNCHANGED <<toPage, size, resizing, sends, page>>

----------------------------------------------------------------------------
(* The page.                                                                *)

Context(s, cs) == [size |-> size, surface |-> SurfaceStatus(cs[s], Requested[s])]
Send(s, message) == toFrame' = [toFrame EXCEPT ![s] = Append(@, message)]

Emitted == [s \in SlotSet |-> ActivePorts(catalogs[s], Requested[s], "emits")]
Accepted == [s \in SlotSet |-> ActivePorts(catalogs[s], Requested[s], "accepts")]

\* A route ends in the queues of the frames it reaches.  The posts of one event to
\* one frame follow each other there; they are one message.
Delivers(from, event) ==
    LET posts == Route(Rules, PortRules, Frames, Emitted, Accepted, from, event)
        reached == {posts[k][1] : k \in DOMAIN posts}
    IN  toFrame' = [s \in SlotSet |-> IF s \in reached THEN Append(toFrame[s], [kind |-> "event"]) ELSE toFrame[s]]

OnInitialize(s, message) ==
    LET known == IF message.catalog = Absent THEN catalogs ELSE [catalogs EXCEPT ![s] = message.catalog] IN
    /\ catalogs' = known
    /\ lastContext' = [lastContext EXCEPT ![s] = Context(s, known)]
    /\ responded' = responded \cup {s}
    /\ Send(s, [kind |-> "response", context |-> Context(s, known)])
    /\ UNCHANGED <<delivered, relays, asked>>

OnInitialized(s) ==
    /\ IF s \in responded /\ s \notin delivered
       THEN delivered' = delivered \cup {s} /\ Send(s, [kind |-> "result"])
       ELSE UNCHANGED <<delivered, toFrame>>
    /\ UNCHANGED <<responded, catalogs, lastContext, relays, asked>>

OnRequest(s, message) ==
    /\ relays' = relays \cup {[slot |-> s, request |-> message.request, own |-> message.own]}
    /\ UNCHANGED <<toFrame, responded, delivered, catalogs, lastContext, asked>>

OnEvent(s, event) ==
    /\ Delivers(s, event)
    /\ UNCHANGED page

\* A WindowProxy outlives the document: its slot's origin is compared as well.
Accepts(message) == message.own

Handles(s) ==
    LET message == Head(toPage[s]) IN
    /\ toPage[s] # << >>
    /\ toPage' = [toPage EXCEPT ![s] = Tail(@)]
    /\ IF ~Accepts(message) THEN UNCHANGED <<toFrame, page>>
       ELSE \/ message.kind = "initialize" /\ OnInitialize(s, message)
            \/ message.kind = "initialized" /\ OnInitialized(s)
            \/ message.kind = "request" /\ OnRequest(s, message)
            \/ message.kind = "event" /\ OnEvent(s, message.event)
    /\ UNCHANGED <<doc, size, resizing, sends>>

\* The proxy decides, asks the source server if it may, and answers in any case.
ProxyAnswers(relay) ==
    LET forwarded == Forwards(Panel[relay.slot], relay.request) IN
    /\ relay \in relays
    /\ relays' = relays \ {relay}
    /\ asked' = IF forwarded = Absent THEN asked ELSE [slot |-> relay.slot, request |-> forwarded]
    /\ Send(relay.slot, [kind |-> "answer"])
    /\ UNCHANGED <<doc, toPage, responded, delivered, catalogs, lastContext, size, resizing, sends>>

Resizes(n) ==
    /\ sends < MaxSends /\ n # size
    /\ sends' = sends + 1
    /\ size' = n /\ resizing' = TRUE
    /\ UNCHANGED <<doc, toPage, toFrame, page>>

\* Faulty: the context sent with a change is not remembered.
RememberedAtInitialize(told) == lastContext

Remembered(told) == [s \in SlotSet |-> IF s \in told THEN Context(s, catalogs) ELSE lastContext[s]]

\* The resize event: every frame that was answered hears of what is new to it.
Resized ==
    LET told == {s \in responded : Context(s, catalogs) # lastContext[s]} IN
    /\ resizing /\ resizing' = FALSE
    /\ toFrame' = [s \in SlotSet |-> IF s \in told
                     THEN Append(toFrame[s], [kind |-> "context", context |-> Context(s, catalogs)]) ELSE toFrame[s]]
    /\ lastContext' = Remembered(told)
    /\ UNCHANGED <<doc, toPage, responded, delivered, catalogs, size, relays, asked, sends>>

PageNext ==
    \/ \E s \in SlotSet :
         \/ \E c \in Catalogs[s] : Handshakes(s, c)
         \/ \E own \in BOOLEAN : Replaces(s, own)
         \/ \E rule \in Range(Rules) \cup Range(PortRules) : Emits(s, rule.event)
         \/ \E r \in Requests : Asks(s, r)
         \/ Receives(s) \/ Confirms(s) \/ Handles(s)
    \/ \E relay \in relays : ProxyAnswers(relay)
    \/ \E n \in Sizes : Resizes(n)
    \/ Resized

PageSpec == PageInit /\ [][PageNext]_pageVars

----------------------------------------------------------------------------
(* What one panel gets from its source server (runtime/host-dashboard.ts):  *)
(* its document with the policy it is loaded under, and the answers of the  *)
(* local proxy, case by case.  The source may return anything, other        *)
(* resources and endless pages included.                                    *)
CONSTANTS Own, Foreign,   \* the URI of the panel's resource, and another
          Granted,        \* allowedToolNames, a sequence
          MaxPages        \* MAX_LIST_PAGES

ASSUME PanelAssumption == MaxPages \in Nat \ {0} /\ Own # Foreign

VARIABLE panelCase

----------------------------------------------------------------------------
(* JSON-RPC: a payload is [json, version, id, method, params], the id << >>  *)
(* when it is missing; a reply [id, code, result], code 0 for a result.  The *)
(* empty string is written "empty".                                          *)

RpcResult(id, result) == [id |-> id, code |-> 0, result |-> result]
RpcError(id, code) == [id |-> id, code |-> code, result |-> << >>]

\* parseJsonRpcRequest(): << >> for a request, or the error.
ParseError(p) ==
    IF ~p.json THEN <<RpcError(<<"null">>, -32700)>>
    ELSE IF ~p.version \/ p.id \in {<< >>, <<"object">>} \/ p.method \in {"empty", "none"} THEN <<RpcError(<<"null">>, -32600)>>
    ELSE IF p.params = "text" THEN <<RpcError(p.id, -32602)>>
    ELSE << >>

----------------------------------------------------------------------------
(* The source server.  An entry is [uri, tag]; its pages are a sequence of   *)
(* [resources, next], the last of them returned again and again.             *)

PageOf(source, n) == source.pages[IF n <= Len(source.pages) THEN n ELSE Len(source.pages)]

\* The entries that are of the panel's resource.
OwnOf(entries) == Kept(entries, {r \in Range(entries) : r.uri = Own})

\* listAllowedResources(): << >> when there are too many pages.
ListAllowedResources(source) ==
    LET ends == {n \in 1..MaxPages : ~PageOf(source, n).next} IN
    IF ends = {} THEN << >>
    ELSE LET end == CHOOSE n \in ends : \A m \in ends : n <= m
         IN  <<FlattenSeq([n \in 1..end |-> OwnOf(PageOf(source, n).resources)])>>

\* restrictReadResource(): << >> when the source returned none of it.
RestrictReadResource(contents) == IF OwnOf(contents) = << >> THEN << >> ELSE <<OwnOf(contents)>>

\* A source that fails, or whose answer is not usable, is an internal error.
Passed(id, result) == IF result = << >> THEN RpcError(id, -32603) ELSE RpcResult(id, result[1])

\* proxyToolCall(), the result of a call being marked by the tool.
ProxyToolCall(p, source) ==
    IF p.name = "empty" THEN RpcError(p.id, -32602)
    ELSE IF p.name \notin Range(Granted) THEN RpcError(p.id, -32601)
    ELSE IF p.params = "badArguments" THEN RpcError(p.id, -32602)
    ELSE Passed(p.id, IF source.fails THEN << >> ELSE <<<<[uri |-> Own, tag |-> p.name]>>>>)

\* proxyToolList() and listAllowedTools(): the grants of the manifest.
ProxyToolList(p) ==
    IF p.params = "cursor" THEN RpcError(p.id, -32602)
    ELSE RpcResult(p.id, [k \in DOMAIN Granted |-> [uri |-> Own, tag |-> Granted[k]]])

ProxyResourceRead(p, source) ==
    IF p.name # Own THEN RpcError(p.id, -32601)
    ELSE Passed(p.id, IF source.fails THEN << >> ELSE RestrictReadResource(source.contents))

ProxyResourceList(p, source) ==
    IF p.params = "cursor" THEN RpcError(p.id, -32602)
    ELSE Passed(p.id, IF source.fails THEN << >> ELSE ListAllowedResources(source))

\* handlePanelProxy()
HandlePanelProxy(p, source) ==
    IF ParseError(p) # << >> THEN ParseError(p)[1]
    ELSE IF p.method = "tools/call" THEN ProxyToolCall(p, source)
    ELSE IF p.method = "tools/list" THEN ProxyToolList(p)
    ELSE IF p.method = "resources/read" THEN ProxyResourceRead(p, source)
    ELSE IF p.method = "resources/list" THEN ProxyResourceList(p, source)
    ELSE RpcError(p.id, -32601)

----------------------------------------------------------------------------
(* The policy of a document: [resource, connect, frame, base], each << >> or *)
(* <<a set of origins>>.  A domain is [scheme, host, bare, star]: bare when  *)
(* nothing but an origin is given, star where a wildcard is.                 *)

Directives == {"resource", "connect", "frame", "base"}

\* normalizeCspDomain()
ValidDomain(d) == d.scheme \in {"http", "https"} /\ d.bare /\ d.host # "empty" /\ d.star # "inside"
Origin(d) == <<d.scheme, d.star, d.host>>

\* validateCspDomains()
ValidateDomains(domains) == {Origin(d) : d \in {x \in domains : ValidDomain(x)}}
ValidateCsp(csp) == [k \in Directives |-> IF csp[k] = << >> THEN << >> ELSE <<ValidateDomains(csp[k][1])>>]

\* extractResourceCsp(): a list with an entry that is no string is no list.
ExtractResourceCsp(meta) ==
    [k \in Directives |-> IF meta[k].is = "list" THEN <<meta[k].domains>> ELSE << >>]

\* intersectDomains(): a declaration that is missing restricts nothing.
IntersectDomains(left, right) ==
    IF left = << >> THEN right ELSE IF right = << >> THEN left ELSE <<left[1] \cap right[1]>>

IntersectCsp(tool, resource) ==
    [k \in Directives |-> IntersectDomains(ValidateCsp(tool)[k], ValidateCsp(resource)[k])]

Self == <<"'self'">>

\* childCsp(): no declaration is no external source; a frame needs one.
ChildCsp(ancestors, csp) ==
    LET sources(k) == IF csp[k] = << >> THEN {} ELSE csp[k][1] IN
    [resource |-> {Self} \cup sources("resource"), connect |-> {Self} \cup sources("connect"),
     frame |-> IF sources("frame") = {} THEN {} ELSE {Self} \cup sources("frame"),
     base |-> {Self} \cup sources("base"), ancestors |-> ancestors]

\* Where the first entry with the panel's URI is: there is one, or none.
FirstOwn(contents) == {k \in DOMAIN contents : contents[k].uri = Own /\ \A j \in 1..k-1 : contents[j].uri # Own}

\* extractHtmlResource(): that entry, if it is HTML.
ExtractHtml(contents) ==
    LET html == {k \in FirstOwn(contents) : contents[k].text # << >> /\ contents[k].mime = "html"}
    IN  IF html = {} THEN << >> ELSE <<contents[CHOOSE k \in html : TRUE]>>

\* servePanelResource(): a document, or a page that says it could not be loaded.
ServePanel(request, contents, fails, toolCsp, ancestors) ==
    IF request.method # "GET" \/ request.path \notin {"/", "/ui"} THEN [status |-> 404, text |-> << >>, csp |-> << >>]
    ELSE IF fails \/ ExtractHtml(contents) = << >>
    THEN [status |-> 502, text |-> << >>, csp |-> <<ChildCsp(ancestors, [k \in Directives |-> << >>])>>]
    ELSE LET document == ExtractHtml(contents)[1]
         IN  [status |-> 200, text |-> document.text,
              csp |-> <<ChildCsp(ancestors, IntersectCsp(toolCsp, ExtractResourceCsp(document.meta)))>>]

\* serveComposedDashboard(): options.frameAncestors, and who may frame a panel.
Embedders(frameAncestors) == IF frameAncestors = << >> THEN {} ELSE ValidateDomains(frameAncestors[1])
Dashboard == <<"http", "none", "dashboard">>
AncestorOrigins(frameAncestors) == {Dashboard} \cup Embedders(frameAncestors)

\* dashboardCsp(): the page frames its panels, and is framed by valid origins only.
DashboardCsp(panels, frameAncestors) == [frame |-> panels, ancestors |-> Embedders(frameAncestors)]

----------------------------------------------------------------------------
Entries == {[uri |-> u, tag |-> t] : u \in {Own, Foreign}, t \in {"x"}}
Lists == {<< >>} \cup {<<e>> : e \in Entries} \cup {<<d, e>> : d, e \in Entries}
Payload == [json |-> TRUE, version |-> TRUE, id |-> <<"7">>, method |-> "tools/list", params |-> "none", name |-> "empty"]
SourceAnswers == [fails : BOOLEAN, contents : Lists,
            pages : {<<[resources |-> l, next |-> n]>> : l \in Lists, n \in BOOLEAN}
                    \cup {<<[resources |-> l, next |-> TRUE], [resources |-> <<e>>, next |-> n]>> : l \in Lists, e \in Entries, n \in BOOLEAN}]
Quiet == [fails |-> FALSE, contents |-> << >>, pages |-> <<[resources |-> << >>, next |-> FALSE]>>]

Good(h) == [scheme |-> "https", host |-> h, bare |-> TRUE, star |-> "none"]
Bad == {[scheme |-> "data", host |-> "a", bare |-> TRUE, star |-> "none"], [Good("a") EXCEPT !.bare = FALSE],
        [Good("a") EXCEPT !.star = "inside"]}
DomainSets == {{}, {Good("a")}, {Good("a"), Good("b")}} \cup {{d} : d \in Bad}
Only(k, value, none) == [j \in Directives |-> IF j = k THEN value ELSE none]
Unset == [is |-> "none", domains |-> {}]
Metas == {Only(k, [is |-> i, domains |-> s], Unset) : k \in {"resource", "frame"}, i \in {"list", "malformed"}, s \in DomainSets}
ToolCsps == {Only(k, o, << >>) : k \in {"resource", "frame"}, o \in {<< >>} \cup {<<s>> : s \in DomainSets}}
Documents == {[uri |-> u, text |-> t, mime |-> m, meta |-> meta] :
                u \in {Own, Foreign}, t \in {<< >>, <<"html">>}, m \in {"html", "other"}, meta \in Metas}
Plain == [uri |-> Own, text |-> <<"html">>, mime |-> "html", meta |-> [k \in Directives |-> Unset]]

PanelInit ==
    \/ \E j, v \in BOOLEAN, i \in {<< >>, <<"null">>, <<"7">>, <<"object">>}, m \in {"empty", "none", "tools/list", "ping"}, a \in {"none", "text", "cursor"} :
         panelCase = [case |-> "rpc", source |-> Quiet,
                      payload |-> [Payload EXCEPT !.json = j, !.version = v, !.id = i, !.method = m, !.params = a]]
    \/ \E m \in {"tools/call", "tools/list", "resources/read", "resources/list"}, a \in {"none", "cursor", "badArguments"},
          n \in {"empty", Own, Foreign, "save", "drop"}, s \in {x \in SourceAnswers : x.contents = << >> \/ Len(x.pages) = 1} :
         panelCase = [case |-> "rpc", source |-> s, payload |-> [Payload EXCEPT !.method = m, !.params = a, !.name = n]]
    \/ \E d \in Documents, second \in {<< >>, <<Plain>>}, c \in ToolCsps, p \in {"/ui", "/other"},
          f \in BOOLEAN, o \in {<< >>, <<{Good("shell")} \cup Bad>>} :
         panelCase = [case |-> "document", request |-> [method |-> "GET", path |-> p], contents |-> <<d>> \o second,
                      fails |-> f, tool |-> c, options |-> o]

PanelNext == UNCHANGED panelCase

\* The origins a field of a declaration names that may count at all.
Named(field) == IF field = << >> THEN {} ELSE ValidateDomains(field[1])

----------------------------------------------------------------------------
(* HandshakeOrder: the first document of a frame hears the answer to its      *)
(* ui/initialize before any result or change of context, and its first result *)
(* once, after it said that it is initialized (event-bus.ts:515).             *)
HandshakeOrder ==
    \A s \in SlotSet : doc[s].load = 0 =>
        LET log == doc[s].log IN
        /\ log # << >> => log[1] = "response"
        /\ Cardinality({k \in DOMAIN log : log[k] = "response"}) <= 1
        /\ Cardinality({k \in DOMAIN log : log[k] = "result"}) <= 1
        /\ "result" \in Range(log) => doc[s].state = "ready"

(* ContextCurrent: when nothing is under way to it, the first document of a   *)
(* frame that is ready knows the size and the surface the page would tell it  *)
(* now (event-bus.ts:310).                                                    *)
ContextCurrent ==
    \A s \in SlotSet :
        doc[s].load = 0 /\ doc[s].state = "ready" /\ toFrame[s] = << >> /\ ~resizing
            => doc[s].context = Context(s, catalogs)

(* ProxyConfined: the proxy works for documents of the panel's own origin      *)
(* only, and asks the source server for nothing but the tools and the resource  *)
(* of the panel (event-bus.ts:480, host-dashboard.ts:284).                      *)
ProxyConfined ==
    /\ \A r \in relays : r.own
    /\ asked # Absent =>
         \/ asked.request.method = "tools/call" /\ asked.request.target \in Panel[asked.slot].tools
         \/ asked.request.method # "tools/call" /\ asked.request.target = Panel[asked.slot].resource

(* PanelsInformed: each panel is spoken to in order, knows its surroundings,   *)
(* and reaches no further than its grants (event-bus.ts).                      *)
PanelsInformed == HandshakeOrder /\ ContextCurrent /\ ProxyConfined

\* The places of the entries of some pages.
Entered(pages) == UNION {{n} \X DOMAIN pages[n].resources : n \in DOMAIN pages}

\* PanelConfined: whatever the source returns, a panel is told of its own
\* resource only, and of all of it or of a failure; of the tools it was granted
\* and no others; every request is answered under its own id, and no listing
\* goes on for ever.  Its document loads from an origin only if every
\* declaration there is of that directive names it (host-dashboard.ts:560), and
\* may be framed wherever the dashboard around it may.
PanelConfined ==
    /\ panelCase.case = "rpc" =>
         LET p == panelCase.payload
             s == panelCase.source
             r == HandlePanelProxy(p, s)
             pages == s.pages
         IN  /\ (r.id = p.id \/ (r.id = <<"null">> /\ r.code \in {-32700, -32600}))
             /\ r.code # 0 => r.result = << >>
             /\ \A k \in DOMAIN r.result : r.result[k].uri = Own
             /\ r.code = 0 /\ p.method = "tools/call" => p.name \in Range(Granted)
             /\ r.code = 0 /\ p.method = "resources/read" => r.result # << >>
             /\ r.code = 0 /\ p.method = "resources/list" =>
                  /\ ~Last(pages).next
                  /\ Len(r.result) = Cardinality({at \in Entered(pages) : pages[at[1]].resources[at[2]].uri = Own})
    /\ panelCase.case = "document" =>
         LET r == ServePanel(panelCase.request, panelCase.contents, panelCase.fails, panelCase.tool, AncestorOrigins(panelCase.options))
             contents == panelCase.contents
             policy == r.csp[1]
         IN  /\ r.status = 200 => \E n \in DOMAIN contents :
                  LET c == contents[n] IN
                  /\ c.uri = Own /\ c.mime = "html" /\ r.text = c.text
                  /\ \A m \in 1..n-1 : contents[m].uri # Own
                  /\ \A k \in Directives : \A o \in policy[k] \ {Self} :
                       LET declared == ExtractResourceCsp(c.meta)[k]
                           tool == panelCase.tool[k]
                       IN  /\ declared # << >> => o \in Named(declared)
                           /\ tool # << >> => o \in Named(tool)
                           /\ declared # << >> \/ tool # << >>
             /\ r.status # 404 => policy.ancestors = {Dashboard} \cup DashboardCsp({}, panelCase.options).ancestors
             /\ r.status # 404 => \A o \in policy.ancestors : o[1] \in {"http", "https"}
             /\ r.status = 502 => \A k \in Directives : policy[k] \subseteq {Self}
=============================================================================
