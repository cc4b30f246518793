----------------------------- MODULE AppBridge -----------------------------
(* A page in a platform webview and the resource server that serves it:        *)
(* client/bridge.js with its WebSocket, authentication, early notifications    *)
(* and pending requests, and resource-server/server.ts with its session store, *)
(* tool-result store and WebSocket registry.  One page, hence one session; its *)
(* sockets are numbered in the order it opens them.                            *)
EXTENDS Naturals, Sequences, FiniteSets

CONSTANTS
  Requests,      \* ids of the requests the app makes
  MaxSockets,    \* bound: sockets the page opens
  MaxReconnect,  \* MAX_RECONNECT
  AuthRequired,  \* the server has an auth handler
  Extras,        \* how many notifications onHttpRequest or the backend adds to the page
  NoSocket

Sockets == 1..MaxSockets

ASSUME BridgeAssumption ==
  /\ MaxSockets \in Nat \ {0} /\ MaxReconnect \in Nat /\ Extras \in Nat
  /\ AuthRequired \in BOOLEAN /\ NoSocket \notin Sockets

VARIABLES
  session,    \* the page's session object, and whether the store still has it
  toolResult, \* the stored tool result the page's ref names
  entry,      \* wsConnections.get(session)
  socket,     \* per socket: both ends, auth handler at work
  toServer, toPage,  \* frames in flight
  page,       \* bridge.js
  request,    \* per request: pending entry and frames
  answers,    \* history: responses dispatched to the app, per request
  seen        \* history: what the app was given besides responses

bridgeVars == <<session, toolResult, entry, socket, toServer, toPage, page, request, answers, seen>>

Used == {s \in Sockets : socket[s].page # "none"}

BridgeInit ==
  /\ session = [stored |-> FALSE, old |-> FALSE, authenticated |-> FALSE, pending |-> <<>>]
  /\ toolResult \in {"none", "stored"}
  /\ entry = NoSocket
  /\ socket = [s \in Sockets |-> [page |-> "none", server |-> "none", dropped |-> FALSE, checking |-> FALSE]]
  /\ toServer = [s \in Sockets |-> <<>>] /\ toPage = [s \in Sockets |-> <<>>]
  /\ page = [loaded |-> FALSE, ws |-> NoSocket, attempts |-> 0, timer |-> FALSE,
             authenticated |-> ~AuthRequired, initialized |-> FALSE, early |-> <<>>]
  /\ request = [r \in Requests |-> [pending |-> FALSE, at |-> NoSocket]]
  /\ answers = [r \in Requests |-> 0]
  /\ seen = <<>>

-----------------------------------------------------------------------------
(* The resource server. *)

\* The page is served: a session is made, the tool result of its ref is consumed
\* and heads the notifications buffered on the session, which are numbered in their
\* order, the tool result 0; bridge.js connects.
PageLoads ==
  /\ ~page.loaded
  /\ session' = [session EXCEPT !.stored = TRUE,
       !.pending = LET first == IF toolResult = "stored" THEN 0 ELSE 1
                   IN  [i \in 1..(Extras + 1 - first) |-> first + i - 1]]
  /\ toolResult' = "none"
  /\ page' = [page EXCEPT !.loaded = TRUE, !.timer = TRUE]
  /\ UNCHANGED <<entry, socket, toServer, toPage, request, answers, seen>>

ToolResultExpires ==
  /\ toolResult = "stored"
  /\ toolResult' = "none"
  /\ UNCHANGED <<session, entry, socket, toServer, toPage, page, request, answers, seen>>

\* Thirty minutes without a message of the page.
SessionAges ==
  /\ session.stored /\ ~session.old
  /\ session' = [session EXCEPT !.old = TRUE]
  /\ UNCHANGED <<toolResult, entry, socket, toServer, toPage, page, request, answers, seen>>

Touched == [session EXCEPT !.old = IF session.stored THEN FALSE ELSE @]
Shut(s) == [socket EXCEPT ![s].server = IF @ = "open" THEN "closing" ELSE @]

\* The cleanup interval: expired sessions go, and with them the registered socket.
Cleanup ==
  /\ session.stored /\ session.old
  /\ session' = [session EXCEPT !.stored = FALSE]
  /\ entry' = NoSocket
  /\ socket' = IF entry \in Sockets THEN Shut(entry) ELSE socket
  /\ UNCHANGED <<toolResult, toServer, toPage, page, request, answers, seen>>

\* stop(): registered sockets are closed, sessions and tool results dropped.
ServerStops ==
  /\ page.loaded /\ session.stored
  /\ session' = [session EXCEPT !.stored = FALSE]
  /\ toolResult' = "none"
  /\ entry' = NoSocket
  /\ socket' = IF entry \in Sockets THEN Shut(entry) ELSE socket
  /\ UNCHANGED <<toServer, toPage, page, request, answers, seen>>

\* GET /bridge: without a live session the upgrade is refused; get() also drops
\* an expired one.
Upgrade(s) ==
  /\ socket[s].page = "connecting" /\ socket[s].server = "none"
  /\ IF session.stored /\ ~session.old
     THEN socket' = [socket EXCEPT ![s].server = "accepted"] /\ UNCHANGED session
     ELSE socket' = [socket EXCEPT ![s].server = "closed"] /\ session' = [session EXCEPT !.stored = FALSE]
  /\ UNCHANGED <<toolResult, entry, toServer, toPage, page, request, answers, seen>>

\* onopen: registered, and the buffered notifications are sent.
ServerOpens(s) ==
  /\ socket[s].server = "accepted"
  /\ socket' = [socket EXCEPT ![s].server = "open"]
  /\ entry' = s
  /\ session' = [Touched EXCEPT !.pending = <<>>]
  /\ toPage' = [toPage EXCEPT ![s] = @ \o [i \in 1..Len(session.pending) |-> <<"note", session.pending[i]>>]]
  /\ UNCHANGED <<toolResult, toServer, page, request, answers, seen>>

\* onmessage: while the session is not authenticated only an auth message is let
\* through, to the auth handler, and any other closes the socket; afterwards an
\* auth message is no JSON-RPC and is ignored, a request goes to the backend.
ServerReceives(s) ==
  /\ socket[s].server = "open" /\ toServer[s] # <<>>
  /\ toServer' = [toServer EXCEPT ![s] = Tail(@)]
  /\ session' = Touched
  /\ LET frame == Head(toServer[s]) IN
     IF AuthRequired /\ ~session.authenticated
     THEN IF frame[1] = "auth"
          THEN socket' = [socket EXCEPT ![s].checking = TRUE] /\ UNCHANGED <<toPage, request>>
          ELSE /\ socket' = Shut(s)
               /\ toPage' = [toPage EXCEPT ![s] = Append(@, <<"auth_error">>)]
               /\ UNCHANGED request
     ELSE /\ request' = IF frame[1] = "request" THEN [request EXCEPT ![frame[2]].at = s] ELSE request
          /\ UNCHANGED <<socket, toPage>>
  /\ UNCHANGED <<toolResult, entry, page, answers, seen>>

\* The auth handler settles; its answer is sent if the socket is still open.
AuthSettles(s) ==
  /\ socket[s].checking
  /\ \/ \* valid
        /\ session' = [session EXCEPT !.authenticated = TRUE]
        /\ toPage' = IF socket[s].server = "open" THEN [toPage EXCEPT ![s] = Append(@, <<"auth_ok">>)] ELSE toPage
        /\ socket' = [socket EXCEPT ![s].checking = FALSE]
     \/ \* not valid, or the handler throws
        /\ toPage' = IF socket[s].server = "open" THEN [toPage EXCEPT ![s] = Append(@, <<"auth_error">>)] ELSE toPage
        /\ socket' = [Shut(s) EXCEPT ![s].checking = FALSE]
        /\ UNCHANGED session
  /\ UNCHANGED <<toolResult, entry, toServer, page, request, answers, seen>>

\* routeMessage settles, with a response or an error; it is sent over the socket
\* the request came by, or dropped if that one is no longer open.
BackendAnswers(r) ==
  /\ request[r].at \in Sockets
  /\ request' = [request EXCEPT ![r].at = NoSocket]
  /\ LET s == request[r].at IN
     toPage' = IF socket[s].server = "open" THEN [toPage EXCEPT ![s] = Append(@, <<"response", r>>)] ELSE toPage
  /\ UNCHANGED <<session, toolResult, entry, socket, toServer, page, answers, seen>>

\* onclose: whatever socket is registered for the session is forgotten.
ServerSocketCloses(s) ==
  /\ socket[s].server \in {"accepted", "open", "closing"}
  /\ socket[s].dropped \/ socket[s].page = "closed"
  /\ socket' = [socket EXCEPT ![s].server = "closed"]
  /\ entry' = NoSocket
  /\ toServer' = [toServer EXCEPT ![s] = <<>>]
  /\ UNCHANGED <<session, toolResult, toPage, page, request, answers, seen>>

-----------------------------------------------------------------------------
(* bridge.js. *)

\* connectWs.
PageConnects ==
  /\ page.timer
  /\ Cardinality(Used) < MaxSockets
  /\ LET s == Cardinality(Used) + 1 IN
     /\ page' = [page EXCEPT !.timer = FALSE, !.ws = s]
     /\ socket' = [socket EXCEPT ![s].page = "connecting"]
  /\ UNCHANGED <<session, toolResult, entry, toServer, toPage, request, answers, seen>>

\* onopen: the attempts start anew, and with authentication required the auth
\* message goes out, if the platform has a payload for it.
PageOpens(s) ==
  /\ socket[s].page = "connecting" /\ socket[s].server \in {"accepted", "open", "closing"} /\ ~socket[s].dropped
  /\ socket' = [socket EXCEPT ![s].page = "open"]
  /\ page' = [page EXCEPT !.attempts = 0, !.authenticated = ~AuthRequired]
  /\ \/ AuthRequired /\ toServer' = [toServer EXCEPT ![s] = Append(@, <<"auth">>)]
     \/ UNCHANGED toServer
  /\ UNCHANGED <<session, toolResult, entry, toPage, request, answers, seen>>

\* Faulty: the pending entry stays.
AnswerKept(r) ==
  /\ answers' = [answers EXCEPT ![r] = @ + 1]
  /\ UNCHANGED request

\* The entry is taken out, and the promise's reaction gives the app its response.
Answer(r) ==
  /\ request' = [request EXCEPT ![r].pending = FALSE]
  /\ answers' = [answers EXCEPT ![r] = @ + 1]

\* onmessage: authentication, a response to a pending request, or a notification,
\* which waits until the app has initialized.
PageReceives(s) ==
  /\ socket[s].page = "open" /\ toPage[s] # <<>>
  /\ toPage' = [toPage EXCEPT ![s] = Tail(@)]
  /\ LET frame == Head(toPage[s]) IN
     /\ page' = IF frame[1] = "auth_ok" THEN [page EXCEPT !.authenticated = TRUE]
                ELSE IF frame[1] = "note" /\ ~page.initialized THEN [page EXCEPT !.early = Append(@, frame)]
                ELSE page
     /\ seen' = IF frame[1] = "note" /\ page.initialized THEN Append(seen, frame) ELSE seen
     /\ IF frame[1] = "response" /\ request[frame[2]].pending THEN Answer(frame[2])
        ELSE UNCHANGED <<request, answers>>
  /\ UNCHANGED <<session, toolResult, entry, socket, toServer>>

\* onclose: reconnect, a bounded number of times in a row.
PageSocketCloses(s) ==
  /\ socket[s].page \in {"connecting", "open"}
  /\ \/ socket[s].dropped
     \/ socket[s].server \in {"closing", "closed"} /\ toPage[s] = <<>>
  /\ socket' = [socket EXCEPT ![s].page = "closed"]
  /\ toPage' = [toPage EXCEPT ![s] = <<>>]
  /\ page' = [page EXCEPT !.ws = NoSocket, !.authenticated = FALSE,
                          !.timer = @ \/ page.attempts < MaxReconnect,
                          !.attempts = IF @ < MaxReconnect THEN @ + 1 ELSE @]
  /\ UNCHANGED <<session, toolResult, entry, toServer, request, answers, seen>>

Initialized == <<"initialized", 0>>
Context == <<"context", 0>>

\* ui/initialize is answered here; the notifications that came early follow.
AppInitializes ==
  /\ page.loaded /\ ~page.initialized
  /\ page' = [page EXCEPT !.initialized = TRUE, !.early = <<>>]
  /\ seen' = <<Initialized>> \o page.early
  /\ UNCHANGED <<session, toolResult, entry, socket, toServer, toPage, request, answers>>

\* A theme or viewport event of the platform (once, as a bound).
HostContextChanges ==
  /\ page.loaded
  /\ \A i \in 1..Len(seen) : seen[i] # Context
  /\ \A i \in 1..Len(page.early) : page.early[i] # Context
  /\ IF page.initialized THEN seen' = Append(seen, Context) /\ UNCHANGED page
     ELSE page' = [page EXCEPT !.early = Append(@, Context)] /\ UNCHANGED seen
  /\ UNCHANGED <<session, toolResult, entry, socket, toServer, toPage, request, answers>>

\* sendToServer drops a message for which this is not so.
CanSend == page.ws # NoSocket /\ socket[page.ws].page = "open" /\ (AuthRequired => page.authenticated)

\* A request of the app: sent if the socket is open and authenticated, dropped
\* otherwise, and pending either way.
AppRequests(r) ==
  /\ page.loaded /\ ~request[r].pending /\ answers[r] = 0
  /\ request' = [request EXCEPT ![r].pending = TRUE]
  /\ toServer' = IF CanSend THEN [toServer EXCEPT ![page.ws] = Append(@, <<"request", r>>)] ELSE toServer
  /\ UNCHANGED <<session, toolResult, entry, socket, toPage, page, answers, seen>>

RequestExpires(r) ==
  /\ request[r].pending
  /\ Answer(r)
  /\ UNCHANGED <<session, toolResult, entry, socket, toServer, toPage, page, seen>>

\* The network drops a socket; the frames in flight are lost.
SocketDrops(s) ==
  /\ socket[s].page \in {"connecting", "open"} /\ socket[s].server \in {"accepted", "open", "closing"}
  /\ ~socket[s].dropped
  /\ socket' = [socket EXCEPT ![s].dropped = TRUE]
  /\ toServer' = [toServer EXCEPT ![s] = <<>>] /\ toPage' = [toPage EXCEPT ![s] = <<>>]
  /\ UNCHANGED <<session, toolResult, entry, page, request, answers, seen>>

-----------------------------------------------------------------------------
BridgeNext ==
  \/ PageLoads \/ ToolResultExpires \/ SessionAges \/ Cleanup \/ ServerStops \/ PageConnects \/ AppInitializes
  \/ HostContextChanges
  \/ \E s \in Sockets :
       \/ Upgrade(s) \/ ServerOpens(s) \/ ServerReceives(s) \/ AuthSettles(s) \/ ServerSocketCloses(s)
       \/ PageOpens(s) \/ PageReceives(s) \/ PageSocketCloses(s) \/ SocketDrops(s)
  \/ \E r \in Requests : BackendAnswers(r) \/ AppRequests(r) \/ RequestExpires(r)

-----------------------------------------------------------------------------
(* Properties. *)

\* The notifications of the server in a sequence of what is told, by position.
NotesIn(q) == {i \in 1..Len(q) : q[i][1] = "note"}

\* They ascend, and none is left out.
Consecutive(q) ==
  \A i \in NotesIn(q) :
    /\ q[i][2] \in 0..Extras
    /\ \A j \in NotesIn(q) : j < i => q[j][2] < q[i][2]
    /\ q[i][2] > 1 => \E j \in NotesIn(q) : j < i /\ q[j][2] = q[i][2] - 1

\* What the app was told, and what it will be when it has initialized.
Heard == seen \o page.early

\* The app gets the notifications the server buffered in their order, each at
\* most once whatever reconnects in between, and none before the response to its
\* ui/initialize.
InOrder ==
  /\ seen # <<>> => page.initialized /\ Head(seen) = Initialized
  /\ Consecutive(Heard)

\* A request of the app is answered once, by the answer or by its timeout.
RequestsAnsweredOnce == \A r \in Requests : answers[r] <= 1 /\ (request[r].pending => answers[r] = 0)

\* bridge.js sends no request that the server would answer by closing the socket:
\* what it takes for authenticated, the session is.
NeverRefused ==
  \A s \in Sockets : \A i \in DOMAIN toServer[s] :
    AuthRequired /\ toServer[s][i][1] = "request" => session.authenticated

\* After a reconnect the page is authenticated again: no open socket, with nothing
\* under way, of an authenticated session, leaves bridge.js dropping messages.
ReconnectRestores ==
  \A s \in Sockets :
    /\ socket[s].page = "open" /\ socket[s].server = "open" /\ ~socket[s].dropped /\ ~socket[s].checking
    /\ toServer[s] = <<>> /\ toPage[s] = <<>>
    /\ session.authenticated
    => page.authenticated
=============================================================================
