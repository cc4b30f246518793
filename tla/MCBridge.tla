------------------------------ MODULE MCBridge ------------------------------
(* The bridge for TLC.  The tunnel, the served page, the bridge class and the  *)
(* requests of the resource server share no state: a behaviour is one of them,  *)
(* chosen at the start.                                                         *)
EXTENDS NetworkTunnel, AppBridge, BridgeClient, ServedPages, TLC

VARIABLE part

AppDirectories == ("srv" :> <<"dist", "srv">>) @@ ("other" :> <<"dist", "other">>)
AppFiles == {<<"dist", "srv", "index.html">>, <<"dist", "srv", "app.js">>, <<"dist", "other", "index.html">>, <<"dist", "secret.html">>}
PageNames == {"index.html", "secret.html"}
Uri(s, p) == [server |-> s, path |-> p]
\* The first line stays below its server; the second leaves it, or asks for what no name is.
SomeUiUris == {Uri("srv", <<>>), Uri("srv", <<"empty">>), Uri("srv", <<"a", "..", "app.js">>), Uri("srv", <<"index.html", "empty">>),
               Uri("srv", <<"missing">>), Uri("other", <<".">>), Uri("unknown", <<"index.html">>),
               Uri("srv", <<"..", "other", "index.html">>), Uri("srv", <<"..", "..", "health">>), Uri("..", <<"ui">>),
               Uri("srv", <<"empty", "empty">>), Uri("srv", <<"..", "..", "dist", "secret.html">>), Uri("srv", <<"a", "empty", "..", "app.js">>)}
Field(k, v) == [key |-> k, value |-> v, more |-> <<>>]
Date(n) == Field("auth_date", n)
User(u) == Field("user", u)
BotSigned == {<<User("ann"), Date(100)>>, <<Date(100)>>, <<User("bob"), Date(40)>>}
\* As signed, in another order, exchanged, given twice, cut differently, without a date.
SomeForms == BotSigned \cup {<<Date(100), User("ann")>>, <<User("bob"), Date(100)>>, <<User("bob"), User("ann"), Date(100)>>,
                             <<[Date(100) EXCEPT !.more = <<[key |-> "user", value |-> "ann"]>>]>>, <<User("ann")>>}
UiRoute == <<"ui">>
OneOrigin == <<"o1">>
ClockValues == {39, 40, 100, 200, 201}

Init ==
  /\ TunnelInit /\ BridgeInit /\ ClientInit
  /\ \/ part \in {"tunnel", "page", "class"} /\ served = [case |-> "none"]
     \/ part = "pages" /\ ServedInit
  /\ toolResult = "stored" => part = "page"
Next ==
  \/ part = "tunnel" /\ TunnelNext /\ UNCHANGED <<bridgeVars, clientVars, served, part>>
  \/ part = "page" /\ BridgeNext /\ UNCHANGED <<tunnelVars, clientVars, served, part>>
  \/ part = "class" /\ ClientNext /\ UNCHANGED <<tunnelVars, bridgeVars, served, part>>
  \/ part = "pages" /\ ServedNext /\ UNCHANGED <<tunnelVars, bridgeVars, clientVars, part>>
Spec == Init /\ [][Next]_<<tunnelVars, bridgeVars, clientVars, served, part>>

\* Calls are alike.
Alike == Permutations(Calls)

\* A request of the app is answered at most once, by bridge.js and by the bridge
\* class alike: by the answer, the timeout or the teardown, whichever comes first;
\* and the server that routes it does answer it.
AnsweredOnce == Replied /\ RequestsAnsweredOnce /\ PostsAnsweredOnce

\* What a page and its server exchange over a reconnecting socket: one answer to
\* each request, notifications in order, nothing the other end will refuse
\* (bridge.js, client.ts, message-router.ts, server.ts).
PageServed == AnsweredOnce /\ InOrder /\ NeverRefused
=============================================================================
