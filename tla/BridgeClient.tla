---------------------------- MODULE BridgeClient ----------------------------
(* BridgeClient of packages/bridge/src/core, the bridge as a class: start() and *)
(* destroy() over a platform adapter and a WebSocketTransport, the interception *)
(* of postMessage, and the MessageRouter that pairs answers with requests.      *)
(* Each start() makes one socket of the transport.                              *)
EXTENDS Naturals, FiniteSets

CONSTANTS
  Posts,      \* requests the app posts, each with its own id
  MaxStarts,  \* bound: calls of start()
  NoLink

Starts == 1..MaxStarts
ASSUME ClientAssumption == MaxStarts \in Nat /\ NoLink \notin Starts

VARIABLES
  starting,   \* per start(): where it is
  started,
  link,       \* WebSocketTransport.ws
  wire,       \* per socket: open, closing or gone
  listeners,  \* transport.messageHandlers, platform lifecycle handlers
  routed,     \* the router has its request handlers
  intercepts, \* originalPostMessage is saved
  post,       \* per post: tracked by the router, answer under way
  replies     \* history: answers dispatched to the app, per post

clientVars == <<starting, started, link, wire, listeners, routed, intercepts, post, replies>>

ClientInit ==
  /\ starting = [i \in Starts |-> "no"] /\ started = FALSE
  /\ link = NoLink /\ wire = [i \in Starts |-> "none"]
  /\ listeners = [messages |-> 0, lifecycle |-> 0]
  /\ routed = FALSE /\ intercepts = FALSE
  /\ post = [p \in Posts |-> [tracked |-> FALSE, on |-> NoLink]]
  /\ replies = [p \in Posts |-> 0]

\* start() throws when started, else the platform is initialized.
StartCalled(i) ==
  /\ starting[i] = "no" /\ ~started
  /\ \A j \in Starts : j < i => starting[j] # "no"
  /\ starting' = [starting EXCEPT ![i] = "platform"]
  /\ UNCHANGED <<started, link, wire, listeners, routed, intercepts, post, replies>>

PlatformReady(i) ==
  /\ starting[i] = "platform"
  /\ starting' = [starting EXCEPT ![i] = "connecting"]
  /\ wire' = [wire EXCEPT ![i] = "connecting"]
  /\ UNCHANGED <<started, link, listeners, routed, intercepts, post, replies>>

\* onopen, and the rest of start(): handlers are registered, which throws if
\* another start() did before, postMessage is intercepted.
LinkOpens(i) ==
  /\ wire[i] = "connecting"
  /\ wire' = [wire EXCEPT ![i] = "open"]
  /\ link' = i
  /\ IF routed
     THEN /\ starting' = [starting EXCEPT ![i] = "failed"]
          /\ listeners' = [listeners EXCEPT !.messages = @ + 1]
          /\ UNCHANGED <<started, routed, intercepts>>
     ELSE /\ starting' = [starting EXCEPT ![i] = "done"]
          /\ listeners' = [messages |-> listeners.messages + 1, lifecycle |-> listeners.lifecycle + 1]
          /\ started' = TRUE /\ routed' = TRUE /\ intercepts' = TRUE
  /\ UNCHANGED <<post, replies>>

LinkFails(i) ==
  /\ wire[i] = "connecting"
  /\ wire' = [wire EXCEPT ![i] = "gone"]
  /\ starting' = [starting EXCEPT ![i] = "failed"]
  /\ link' = NoLink
  /\ UNCHANGED <<started, listeners, routed, intercepts, post, replies>>

\* onclose of any socket clears the transport's, whichever that is by now.
LinkCloses(i) ==
  /\ wire[i] \in {"open", "closing"}
  /\ wire' = [wire EXCEPT ![i] = "gone"]
  /\ link' = NoLink
  /\ post' = [p \in Posts |-> IF post[p].on = i THEN [post[p] EXCEPT !.on = NoLink] ELSE post[p]]
  /\ UNCHANGED <<starting, started, listeners, routed, intercepts, replies>>

Tracked == {p \in Posts : post[p].tracked}

\* destroy(), by the host or by a teardown event of the platform: postMessage is
\* restored, the socket closed, and the router rejects what it tracks.
Destroy ==
  /\ started \/ link # NoLink \/ \E i \in Starts : starting[i] \in {"platform", "connecting"}
  /\ intercepts' = FALSE /\ routed' = FALSE /\ started' = FALSE
  /\ wire' = [i \in Starts |-> IF i = link /\ wire[i] = "open" THEN "closing" ELSE wire[i]]
  /\ link' = NoLink
  /\ post' = [p \in Posts |-> [post[p] EXCEPT !.tracked = FALSE]]
  /\ replies' = [p \in Posts |-> IF p \in Tracked THEN replies[p] + 1 ELSE replies[p]]
  /\ UNCHANGED <<starting, listeners>>

\* A request the router does not handle itself: sent and tracked, or, with no
\* open socket, thrown away by the exception of send().
AppPosts(p) ==
  /\ intercepts
  /\ replies[p] = 0 /\ ~post[p].tracked
  /\ link # NoLink /\ wire[link] = "open"
  /\ post' = [post EXCEPT ![p] = [tracked |-> TRUE, on |-> link]]
  /\ UNCHANGED <<starting, started, link, wire, listeners, routed, intercepts, replies>>

Settle(p) ==
  /\ post' = [post EXCEPT ![p] = [@ EXCEPT !.tracked = FALSE]]
  /\ replies' = [replies EXCEPT ![p] = @ + 1]

\* ui/initialize and ui/open-link are answered by the router's own handlers.
AppAsksBridge(p) ==
  /\ intercepts /\ routed
  /\ replies[p] = 0 /\ ~post[p].tracked
  /\ replies' = [replies EXCEPT ![p] = @ + 1]
  /\ UNCHANGED <<starting, started, link, wire, listeners, routed, intercepts, post>>

\* An answer comes in: every message handler gives it to the router, which
\* settles the request with the first and ignores the others, as it ignores an
\* answer to a request that timed out.
AnswerArrives(p) ==
  /\ post[p].on # NoLink
  /\ wire[post[p].on] \in {"open", "closing"}
  /\ IF post[p].tracked /\ listeners.messages > 0
     THEN /\ post' = [post EXCEPT ![p] = [tracked |-> FALSE, on |-> NoLink]]
          /\ replies' = [replies EXCEPT ![p] = @ + 1]
     ELSE /\ post' = [post EXCEPT ![p] = [@ EXCEPT !.on = NoLink]]
          /\ UNCHANGED replies
  /\ UNCHANGED <<starting, started, link, wire, listeners, routed, intercepts>>

PostExpires(p) ==
  /\ post[p].tracked
  /\ Settle(p)
  /\ UNCHANGED <<starting, started, link, wire, listeners, routed, intercepts>>

ClientNext ==
  \/ Destroy
  \/ \E i \in Starts : StartCalled(i) \/ PlatformReady(i) \/ LinkOpens(i) \/ LinkFails(i) \/ LinkCloses(i)
  \/ \E p \in Posts : AppPosts(p) \/ AppAsksBridge(p) \/ AnswerArrives(p) \/ PostExpires(p)

-----------------------------------------------------------------------------
\* An id the app chose is answered once, by the answer, the timeout or destroy().
PostsAnsweredOnce == \A p \in Posts : replies[p] <= 1 /\ (post[p].tracked => replies[p] = 0)
=============================================================================
