------------------------------ MODULE Cluster ------------------------------
(***************************************************************************)
(* composeAndServeDashboard() and composeDashboard() over a cluster of MCP  *)
(* servers (compose/src/runtime/cluster.ts, compose.ts, host-dashboard.ts): *)
(* start every server of the template or none, call its tools, number the   *)
(* panels, serve them on loopback listeners, and give everything back.      *)
(*                                                                         *)
(* The caller is one process with a phase; the servers boot, are called and *)
(* are closed in parallel.  A child process may exit at any moment.         *)
(***************************************************************************)
EXTENDS ComposeRules

CONSTANTS Servers,      \* manifests
          Spawned,      \* those with the stdio transport: child processes we own
          Protocol,     \* transport.protocol of each manifest
          Sources,      \* template.sources: a sequence of servers
          CallsOf,      \* how many tool calls each source makes
          MaxRequests   \* bound on the requests of the browser

ASSUME ClusterAssumption ==
    /\ Spawned \subseteq Servers
    /\ Protocol \in [Servers -> {"auto", "stateless", "streamable"}]
    /\ Sources \in Seq(Servers)
    /\ CallsOf \in [DOMAIN Sources -> Nat]
    /\ MaxRequests \in Nat

VARIABLES phase,      \* where the caller's promise is
          boot,       \* startServer / connectHttp of each server
          proc,       \* the child process
          session,    \* the server-side Streamable HTTP session
          conns,      \* connections: the Map of the cluster
          closing,    \* close() of each connection
          outcomes,   \* what the calls of each source returned, in order
          panels,     \* the panels; the slot of a panel is its index less one
          listeners,  \* loopback servers: 0 is the dashboard, k the k-th panel
          inflight,   \* requests a listener is answering through the cluster
          requests,   \* requests made so far
          verdict     \* how the promise of the caller will settle

clusterVars == <<phase, boot, proc, session, conns, closing, outcomes, panels,
                 listeners, inflight, requests, verdict>>

Used == Range(Sources)
Connected == {"stateless", "streamable"}
BootOver == Connected \cup {"failed"}
Settled == {"rejected", "returned", "down"}
ListenerIds == 0..Len(panels)

ClusterInit ==
    /\ phase = "starting"
    /\ boot = [s \in Servers |-> "idle"]
    /\ proc = [s \in Servers |-> "none"]
    /\ session = [s \in Servers |-> "none"]
    /\ conns = {}
    /\ closing = [s \in Servers |-> "no"]
    /\ outcomes = [i \in DOMAIN Sources |-> << >>]
    /\ panels = << >>
    /\ listeners = << >>
    /\ inflight = << >>
    /\ requests = 0
    /\ verdict = "none"

serving == <<phase, conns, closing, outcomes, panels, listeners, inflight, requests, verdict>>

----------------------------------------------------------------------------
(* Starting one server.                                                     *)

Boots(s, next) == boot' = [boot EXCEPT ![s] = next]

\* The protocol a connection attempt starts with.
FirstProtocol(s) == IF Protocol[s] = "streamable" THEN "initialize" ELSE "discover"

\* Faulty: the process of a failed attempt is forgotten.
AfterFailureForgotten(s) == IF s \in Spawned /\ boot[s] = "detect" THEN "stopping" ELSE "failed"

\* A connection attempt that failed: an owned process is stopped first.
AfterFailure(s) == IF s \in Spawned THEN "stopping" ELSE "failed"

\* An HTTP server is somebody else's and always there; our own may be dead.
Reachable(s) == s \in Spawned => proc[s] = "live"

SpawnFails(s) ==
    /\ boot[s] = "idle" /\ s \in Used \cap Spawned
    /\ Boots(s, "failed")
    /\ UNCHANGED <<proc, session, serving>>

Starts(s) ==
    /\ boot[s] = "idle" /\ s \in Used
    /\ Boots(s, IF s \in Spawned THEN "detect" ELSE FirstProtocol(s))
    /\ proc' = [proc EXCEPT ![s] = IF s \in Spawned THEN "live" ELSE @]
    /\ UNCHANGED <<session, serving>>

\* detectListenUrl() reads chunks: a line cut by a chunk boundary matches the
\* pattern too, and gives a port nobody listens on ("lost").
Announces(s) ==
    /\ boot[s] = "detect" /\ proc[s] = "live"
    /\ \E url \in {FirstProtocol(s), "lost"} : Boots(s, url)
    /\ UNCHANGED <<proc, session, serving>>

\* Faulty: without the timer.
DetectFailsAtExit(s) ==
    /\ boot[s] = "detect" /\ proc[s] # "live"
    /\ Boots(s, AfterFailure(s))
    /\ UNCHANGED <<proc, session, serving>>

\* The timer fires, or stderr ends without a URL.
DetectFails(s) ==
    /\ boot[s] = "detect"
    /\ Boots(s, AfterFailure(s))
    /\ UNCHANGED <<proc, session, serving>>

Discovers(s) ==
    /\ boot[s] = "discover" /\ Reachable(s)
    /\ Boots(s, "stateless")
    /\ UNCHANGED <<proc, session, serving>>

\* 404, -32022, -32601, or a discovery without the version we speak.
FallsBack(s) ==
    /\ boot[s] = "discover" /\ Reachable(s) /\ Protocol[s] = "auto"
    /\ Boots(s, "initialize")
    /\ UNCHANGED <<proc, session, serving>>

\* initialize is answered: notifications/initialized is on its way.
Initializes(s) ==
    /\ boot[s] = "initialize" /\ Reachable(s)
    /\ Boots(s, "confirming")
    /\ UNCHANGED <<proc, session, serving>>

Confirmed(s) ==
    /\ boot[s] = "confirming" /\ Reachable(s)
    /\ Boots(s, "streamable")
    /\ session' = [session EXCEPT ![s] = "open"]
    /\ UNCHANGED <<proc, serving>>

\* A handshake that fails half way may leave a session on the server: the client
\* closes without DELETE.
ConnectionFails(s) ==
    /\ boot[s] \in {"discover", "initialize", "confirming", "lost"}
    /\ Boots(s, AfterFailure(s))
    /\ \E left \in IF boot[s] \in {"initialize", "confirming"} /\ Reachable(s) THEN {"none", "stranded"} ELSE {"none"} :
         session' = [session EXCEPT ![s] = left]
    /\ UNCHANGED <<proc, serving>>

\* stopProcess(): SIGTERM, then wait for the exit.
StopEnds(s) ==
    /\ boot[s] = "stopping"
    /\ proc' = [proc EXCEPT ![s] = "exited"]
    /\ Boots(s, "failed")
    /\ UNCHANGED <<session, serving>>

\* The environment: a child process exits by itself.
Exits(s) ==
    /\ proc[s] = "live"
    /\ proc' = [proc EXCEPT ![s] = "exited"]
    /\ UNCHANGED <<boot, session, serving>>

Booting(s) ==
    \/ SpawnFails(s) \/ Starts(s) \/ Announces(s) \/ DetectFails(s) \/ Discovers(s)
    \/ FallsBack(s) \/ Initializes(s) \/ Confirmed(s) \/ ConnectionFails(s) \/ StopEnds(s)

----------------------------------------------------------------------------
(* close() of a connection, all of them in parallel.                        *)

\* The first step of close(): terminate the session, kill the process, or nothing.
CloseBegun(s) == IF boot[s] = "streamable" THEN "terminate"
                 ELSE IF s \in Spawned THEN "kill" ELSE "done"

Closing(cs) == closing' = [s \in Servers |-> IF s \in cs THEN CloseBegun(s) ELSE closing[s]]

\* DELETE: refused or accepted, the local close and the kill come all the same.
Terminates(s) ==
    /\ closing[s] = "terminate"
    /\ closing' = [closing EXCEPT ![s] = IF s \in Spawned THEN "kill" ELSE "done"]
    /\ \E left \in {"none", "stranded"} : session' = [session EXCEPT ![s] = left]
    /\ UNCHANGED <<phase, boot, proc, conns, outcomes, panels, listeners, inflight, requests, verdict>>

Kills(s) ==
    /\ closing[s] = "kill"
    /\ proc' = [proc EXCEPT ![s] = "exited"]
    /\ closing' = [closing EXCEPT ![s] = "done"]
    /\ UNCHANGED <<phase, boot, session, conns, outcomes, panels, listeners, inflight, requests, verdict>>

----------------------------------------------------------------------------
(* startAll(), the calls and stopAll().                                     *)

Ready == {s \in Used : boot[s] \in Connected}

\* Promise.allSettled over the distinct servers: all connected, or all given back.
AllStarted ==
    /\ phase = "starting" /\ \A s \in Used : boot[s] \in BootOver
    /\ conns' = Ready
    /\ IF Ready = Used
       THEN phase' = "calling" /\ UNCHANGED <<closing, verdict>>
       ELSE phase' = "closing" /\ verdict' = "rejected" /\ Closing(Ready)
    /\ UNCHANGED <<boot, proc, session, outcomes, panels, listeners, inflight, requests>>

\* Sources are called in parallel, the calls of one source in order.  An answer
\* has a resource URI or not; an error becomes a warning.
CallSettles(i) ==
    /\ phase = "calling" /\ Len(outcomes[i]) < CallsOf[i]
    /\ \E o \in IF Reachable(Sources[i]) THEN {"ui", "plain", "error"} ELSE {"error"} :
         outcomes' = [outcomes EXCEPT ![i] = Append(@, o)]
    /\ UNCHANGED <<phase, boot, proc, session, conns, closing, panels, listeners, inflight, requests, verdict>>

\* The collector numbers the answers with a resource in template order.
Collected ==
    LET calls == [i \in DOMAIN Sources |-> [j \in DOMAIN outcomes[i] |-> <<i, j>>]]
    IN  Kept(FlattenSeq(calls), {c \in Range(FlattenSeq(calls)) : outcomes[c[1]][c[2]] = "ui"})

\* finally: the cluster outlives composeDashboard() only if it is to be served.
Composes(keepAlive, rendered) ==
    /\ phase = "calling" /\ \A i \in DOMAIN Sources : Len(outcomes[i]) = CallsOf[i]
    /\ panels' = Collected
    /\ IF keepAlive /\ rendered
       THEN phase' = "binding" /\ UNCHANGED <<closing, verdict>>
       ELSE /\ phase' = "closing" /\ Closing(conns)
            /\ verdict' = IF rendered THEN "returned" ELSE "rejected"
    /\ UNCHANGED <<boot, proc, session, conns, outcomes, listeners, inflight, requests>>

\* stopAll() and the rollback of startAll() end when every close() has ended.
AllClosed ==
    /\ phase = "closing" /\ \A s \in conns : closing[s] = "done"
    /\ conns' = {}
    /\ phase' = verdict
    /\ UNCHANGED <<boot, proc, session, closing, outcomes, panels, listeners, inflight, requests, verdict>>

----------------------------------------------------------------------------
(* serveComposedDashboard().                                                *)

Port(k) == k + 1          \* listeners is a sequence; port 0 is its first element
Bound == Len(listeners)

\* The dashboard first, then one listener for each panel.
Binds ==
    /\ phase = "binding" /\ Bound <= Len(panels)
    /\ listeners' = Append(listeners, "open")
    /\ inflight' = Append(inflight, 0)
    /\ UNCHANGED <<phase, boot, proc, session, conns, closing, outcomes, panels, requests, verdict>>

Drained == [k \in DOMAIN listeners |-> "draining"]

\* A port that cannot be bound, or a render that throws: all listeners go down.
ServeFails ==
    /\ phase = "binding"
    /\ phase' = "unbinding" /\ verdict' = "rejected"
    /\ listeners' = Drained
    /\ UNCHANGED <<boot, proc, session, conns, closing, outcomes, panels, inflight, requests>>

\* Everything is bound; the browser is opened first, if it is wanted.
Serves(opens) ==
    /\ phase = "binding" /\ Bound = Len(panels) + 1
    /\ phase' = IF opens THEN "opening" ELSE "up"
    /\ UNCHANGED <<boot, proc, session, conns, closing, outcomes, panels, listeners, inflight, requests, verdict>>

\* openBrowser(): the opener has exited, or could not be spawned.
Opened ==
    /\ phase = "opening"
    /\ phase' = "up"
    /\ UNCHANGED <<boot, proc, session, conns, closing, outcomes, panels, listeners, inflight, requests, verdict>>

\* A panel is loaded from its own listener; the proxy calls of all of them go
\* through the dashboard, which answers 503 until all is bound.
Request(k) ==
    /\ requests < MaxRequests
    /\ Port(k) \in DOMAIN listeners /\ listeners[Port(k)] = "open" /\ panels # << >>
    /\ k = 0 => phase \in {"opening", "up"}
    /\ requests' = requests + 1
    /\ inflight' = [inflight EXCEPT ![Port(k)] = @ + 1]
    /\ UNCHANGED <<phase, boot, proc, session, conns, closing, outcomes, panels, listeners, verdict>>

Answered(k) ==
    /\ Port(k) \in DOMAIN inflight /\ inflight[Port(k)] > 0
    /\ inflight' = [inflight EXCEPT ![Port(k)] = @ - 1]
    /\ UNCHANGED <<phase, boot, proc, session, conns, closing, outcomes, panels, listeners, requests, verdict>>

\* shutdown(): the second call finds the promise of the first.
Shutdown ==
    /\ phase = "up"
    /\ phase' = "unbinding" /\ verdict' = "down"
    /\ listeners' = Drained
    /\ UNCHANGED <<boot, proc, session, conns, closing, outcomes, panels, inflight, requests>>

\* server.shutdown() of Deno waits for the requests it is answering.
ListenerCloses(k) ==
    /\ Port(k) \in DOMAIN listeners
    /\ listeners[Port(k)] = "draining" /\ inflight[Port(k)] = 0
    /\ listeners' = [listeners EXCEPT ![Port(k)] = "closed"]
    /\ UNCHANGED <<phase, boot, proc, session, conns, closing, outcomes, panels, inflight, requests, verdict>>

\* Only then the cluster is stopped.
ListenersDown == \A k \in DOMAIN listeners : listeners[k] = "closed"

Unbound ==
    /\ phase = "unbinding" /\ ListenersDown
    /\ phase' = "closing" /\ Closing(conns)
    /\ UNCHANGED <<boot, proc, session, conns, outcomes, panels, listeners, inflight, requests, verdict>>

----------------------------------------------------------------------------
Caller ==
    \/ AllStarted \/ AllClosed \/ Binds \/ ServeFails \/ Unbound
    \/ \E opens \in BOOLEAN : Serves(opens)
    \/ \E keepAlive, rendered \in BOOLEAN : Composes(keepAlive, rendered)
    \/ \E i \in DOMAIN Sources : CallSettles(i)

Closes == \E s \in Servers : Terminates(s) \/ Kills(s)
Answers == \E k \in ListenerIds : Answered(k) \/ ListenerCloses(k)

ClusterNext ==
    \/ \E s \in Servers : Booting(s) \/ Exits(s)
    \/ Caller \/ Opened \/ Closes \/ Answers \/ Shutdown
    \/ \E k \in ListenerIds : Request(k)

\* What the code does by itself, whatever a server does or does not say: its
\* timers are those of detectListenUrl, of server/discover and of initialize.
Unaided(s) == Starts(s) \/ DetectFails(s) \/ (boot[s] # "confirming" /\ ConnectionFails(s))

\* Waits without a timer: for the opener of the browser, the answers to
\* notifications/initialized and to DELETE, and the exit after a SIGTERM.
Untimed ==
    \/ phase = "opening"
    \/ \E s \in Servers : boot[s] \in {"confirming", "stopping"} \/ closing[s] \in {"terminate", "kill"}

\* Calls and proxied requests have timers of their own, and a browser sends or
\* drops what it began.  Nothing is assumed of the untimed waits, of shutdown(),
\* of what a server answers or of crashes.
ClusterFairness ==
    /\ \A s \in Servers : WF_clusterVars(Unaided(s))
    /\ WF_clusterVars(Caller) /\ WF_clusterVars(Answers)

ClusterSpec == ClusterInit /\ [][ClusterNext]_clusterVars /\ ClusterFairness

----------------------------------------------------------------------------
(* NothingLeftRunning: when the promise of the caller has settled, however it *)
(* settled, no child process runs, no connection is kept, no listener is open *)
(* and no session is left that we could still have ended (cluster.ts:19).     *)
NothingLeftRunning ==
    phase \in Settled =>
        /\ conns = {}
        /\ \A s \in Servers : proc[s] # "live" /\ session[s] # "open"
        /\ \A k \in DOMAIN listeners : listeners[k] = "closed" /\ inflight[k] = 0

(* NoRequestCutOff: while a request of the browser is being answered, its     *)
(* connections are neither closing nor gone: the listeners go down first      *)
(* (host-dashboard.ts:710).                                                   *)
NoRequestCutOff ==
    (\E k \in DOMAIN inflight : inflight[k] > 0)
        => conns = Used /\ \A s \in Used : closing[s] = "no"

(* SlotsFollowTemplate: the slot of a panel is the number of answers with a   *)
(* resource that come before it in the template, whatever the order in which  *)
(* the servers answered (compose.ts:84).                                      *)
Before(c, d) == c[1] < d[1] \/ (c[1] = d[1] /\ c[2] < d[2])
WithResource == UNION {{<<i, j>> : j \in {n \in DOMAIN outcomes[i] : outcomes[i][n] = "ui"}} : i \in DOMAIN Sources}

SlotsFollowTemplate ==
    phase \notin {"starting", "calling"} /\ panels # << >> =>
        /\ Range(panels) = WithResource
        /\ \A k \in DOMAIN panels : k = Cardinality({c \in WithResource : Before(c, panels[k])}) + 1

(* CompositionSettles: a composition and a shutdown come to an end though      *)
(* servers crash, refuse and say nothing, unless one of the four untimed waits  *)
(* never ends: no other await of the code can hold them up for ever            *)
(* (cluster.ts:405, :558, :584, :950; host-dashboard.ts:728).                  *)
CompositionSettles ==
    (phase \notin Settled \cup {"up"}) ~> (phase \in Settled \cup {"up"} \/ Untimed)

(* StopsClean: a composition that stops or fails leaves nothing behind, and    *)
(* cuts no request off (cluster.ts, host-dashboard.ts).                        *)
StopsClean == NothingLeftRunning /\ NoRequestCutOff
=============================================================================
