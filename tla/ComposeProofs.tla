--------------------------- MODULE ComposeProofs ---------------------------
(***************************************************************************)
(* Theorems about what packages/compose starts and stops.                  *)
(*                                                                         *)
(* Cluster: for any set of servers, any template and any number of         *)
(* listeners, however a composition ends - a boot that fails, a page that  *)
(* cannot be rendered, a listener that cannot bind, a shutdown - no        *)
(* process, session or request is left, and no server is closed under a    *)
(* request that is still being answered.  The invariant says where         *)
(* processes and sessions can be: only behind a boot that leads to a       *)
(* connection or to a stop, so that closing the connections closes all.    *)
(*                                                                         *)
(* HostPage: for any frames, the first document in each is told things in  *)
(* order and knows its surroundings.  The invariant follows the messages:  *)
(* which can be under way, in which order, in each state of a handshake,   *)
(* and that the last context under way is the one the page remembers.  And *)
(* for any source, what it lists, reads or fails with: a panel is shown    *)
(* its own resource and calls its own tools, under the policy declared.    *)
(*                                                                         *)
(* McpConnection: for any answers, names and paths, the protocol of a      *)
(* connection is the one its server speaks, and what it is sent is what    *)
(* the platform reads out of it.                                           *)
(*                                                                         *)
(* ComposeRules: for any template, tools, rules and ports, an event goes   *)
(* where the rules say, as often as they say, a name stands for one panel, *)
(* and a composition that is found valid is one whose ports are routed.    *)
(* The loops of the code are filters and flattenings of sequences; what    *)
(* they do is said by counting: how often a thing is in a sequence, and    *)
(* which places come before its own.                                       *)
(***************************************************************************)
EXTENDS MCCompose, LoopFacts, FunctionTheorems, FiniteSetTheorems, SequenceTheorems, TLAPS

Phases == {"starting", "calling", "binding", "opening", "up", "unbinding", "closing"} \cup Settled
BootStates == {"idle", "detect", "discover", "initialize", "confirming", "lost", "stopping"} \cup BootOver
Served == {"calling", "binding", "opening", "up", "unbinding"}

ClusterTypes ==
  /\ phase \in Phases
  /\ boot \in [Servers -> BootStates]
  /\ proc \in [Servers -> {"none", "live", "exited"}]
  /\ session \in [Servers -> {"none", "open", "stranded"}]
  /\ conns \subseteq Servers
  /\ closing \in [Servers -> {"no", "terminate", "kill", "done"}]
  /\ listeners \in Seq({"open", "draining", "closed"})
  /\ inflight \in Seq(Nat) /\ Len(inflight) = Len(listeners)

\* A process runs, and a session is open, only where a boot leads to a connection
\* or to a stop; and a boot that is over stays over.
ServersOK ==
  /\ \A s \in Servers : /\ s \notin Used => boot[s] = "idle"
                        /\ proc[s] = "live" => s \in Spawned /\ boot[s] \notin {"idle", "failed"}
                        /\ session[s] = "open" => boot[s] = "streamable"
  /\ phase # "starting" => \A s \in Used : boot[s] \in BootOver

PhaseOK ==
  /\ phase = "starting" => conns = {}
  /\ phase \in Served => conns = Used /\ Ready = Used
  /\ phase = "closing" => conns = Ready /\ verdict \in Settled
  /\ phase = "unbinding" => verdict \in Settled
  /\ phase \in Settled => conns = {} /\ \A s \in Servers : proc[s] # "live" /\ session[s] # "open"

ClosingOK ==
  /\ phase \notin {"closing"} \cup Settled => \A s \in Servers : closing[s] = "no"
  /\ phase = "closing" => \A s \in Servers : closing[s] # "no" <=> s \in conns
  /\ phase \in Settled => \A s \in Servers : closing[s] \in {"no", "done"}
  /\ \A s \in Servers : /\ closing[s] # "no" => s \in Used
                        /\ closing[s] \in {"kill", "done"} => session[s] # "open"
                        /\ closing[s] = "done" => proc[s] # "live"

ListenersOK ==
  /\ phase \in {"starting", "calling"} => listeners = << >>
  /\ phase \in {"closing"} \cup Settled => ListenersDown
  /\ \A k \in DOMAIN listeners : listeners[k] = "closed" => inflight[k] = 0

ClusterInv == ClusterTypes /\ ServersOK /\ PhaseOK /\ ClosingOK /\ ListenersOK

\* The servers a template uses are servers, and those that are ready are used ones with a connection.
LEMMA UsedServers == Used \subseteq Servers /\ Ready \subseteq Used /\ (\A s \in Used : s \in Ready <=> boot[s] \in Connected)
<1>1. Used \subseteq Servers
  BY ClusterAssumption DEF Used, Range
<1>2. QED
  BY <1>1 DEF Ready

\* Before anything starts there is neither a process nor a listener.
LEMMA ClusterStarts == ClusterInit => ClusterInv
<1> SUFFICES ASSUME ClusterInit PROVE ClusterInv
  OBVIOUS
<1>1. ClusterTypes
  BY DEF ClusterInit, ClusterTypes, Phases, BootStates
<1>2. ServersOK /\ PhaseOK /\ ClosingOK
  BY DEF ClusterInit, ServersOK, PhaseOK, ClosingOK, Settled, Served
<1>3. ListenersOK
  BY DEF ClusterInit, ListenersOK, Settled
<1>4. QED
  BY <1>1, <1>2, <1>3 DEF ClusterInv

\* A step of a boot that is not over can only happen while the cluster is starting.
LEMMA BootKeeps ==
  ASSUME ClusterInv, NEW s \in Servers, s \in Used, boot[s] \notin BootOver,
         NEW b \in BootStates, b # "idle", boot' = [boot EXCEPT ![s] = b],
         NEW p \in {"none", "live", "exited"}, p = "live" => s \in Spawned /\ b # "failed", proc' = [proc EXCEPT ![s] = p],
         NEW x \in {"none", "open", "stranded"}, x = "open" => b = "streamable", session' = [session EXCEPT ![s] = x],
         UNCHANGED serving
  PROVE  ClusterInv'
<1>0. /\ phase' = phase /\ conns' = conns /\ closing' = closing /\ listeners' = listeners /\ inflight' = inflight
      /\ verdict' = verdict /\ Used' = Used
  BY DEF serving, Used
<1>1. phase = "starting"
  BY DEF ClusterInv, ServersOK
<1>2. ClusterTypes'
  BY <1>0 DEF ClusterInv, ClusterTypes
<1>3. \A t \in Servers : /\ boot'[t] = (IF t = s THEN b ELSE boot[t]) /\ proc'[t] = (IF t = s THEN p ELSE proc[t])
                         /\ session'[t] = (IF t = s THEN x ELSE session[t])
  BY DEF ClusterInv, ClusterTypes
<1>4. ServersOK'
  BY <1>0, <1>1, <1>3 DEF ClusterInv, ServersOK
<1>5. PhaseOK'
  BY <1>0, <1>1 DEF ClusterInv, PhaseOK, Served, Settled
<1>6. ClosingOK'
  <2>1. \A t \in Servers : closing[t] = "no"
    BY <1>1 DEF ClusterInv, ClosingOK, Settled
  <2>2. QED
    BY <1>0, <1>1, <2>1 DEF ClosingOK, Settled
<1>7. ListenersOK'
  BY <1>0 DEF ClusterInv, ListenersOK, ListenersDown
<1>8. QED
  BY <1>2, <1>4, <1>5, <1>6, <1>7 DEF ClusterInv

\* Every step of bootServer is one of the moves BootKeeps allows.
LEMMA BootingKeeps ==
  ASSUME ClusterInv, NEW s \in Servers, Booting(s)
  PROVE  ClusterInv'
<1>0. /\ boot \in [Servers -> BootStates] /\ proc \in [Servers -> {"none", "live", "exited"}]
      /\ session \in [Servers -> {"none", "open", "stranded"}]
      /\ s \notin Used => boot[s] = "idle"
      /\ proc[s] = "live" => s \in Spawned /\ boot[s] \notin {"idle", "failed"}
      /\ session[s] = "open" => boot[s] = "streamable"
  BY DEF ClusterInv, ClusterTypes, ServersOK
<1>1. /\ proc[s] \in {"none", "live", "exited"} /\ session[s] \in {"none", "open", "stranded"}
      /\ proc = [proc EXCEPT ![s] = proc[s]] /\ session = [session EXCEPT ![s] = session[s]]
  BY <1>0
<1>2. s \in Used /\ boot[s] \notin BootOver
  BY <1>0 DEF Booting, SpawnFails, Starts, Announces, DetectFails, Discovers, FallsBack, Initializes, Confirmed,
              ConnectionFails, StopEnds, BootOver, Connected
<1>3. boot[s] \notin {"failed", "streamable"}
  BY <1>2 DEF BootOver, Connected
<1>4. CASE SpawnFails(s)
  <2>1. UNCHANGED <<proc, session>> /\ UNCHANGED serving /\ boot' = [boot EXCEPT ![s] = "failed"] /\ proc[s] # "live"
    BY <1>0, <1>4 DEF SpawnFails, Boots
  <2>2. QED
    BY <1>1, <1>2, <1>3, <1>0, <2>1, BootKeeps DEF BootStates, BootOver
<1>5. CASE Starts(s)
  <2>1. PICK b \in {"detect", "discover", "initialize"} :
          boot' = [boot EXCEPT ![s] = b] /\ (s \in Spawned => b = "detect")
    BY <1>5 DEF Starts, Boots, FirstProtocol
  <2>2. PICK p \in {"none", "live", "exited"} : proc' = [proc EXCEPT ![s] = p] /\ (p = "live" => s \in Spawned)
    BY <1>0, <1>1, <1>5 DEF Starts
  <2>3. UNCHANGED session /\ UNCHANGED serving
    BY <1>5 DEF Starts
  <2>4. QED
    BY <1>0, <1>1, <1>2, <1>3, <2>1, <2>2, <2>3, BootKeeps DEF BootStates
<1>6. CASE Announces(s) \/ Discovers(s) \/ FallsBack(s) \/ Initializes(s)
  <2>1. PICK b \in {"discover", "initialize", "confirming", "lost", "stateless"} : boot' = [boot EXCEPT ![s] = b]
    BY <1>6 DEF Announces, Discovers, FallsBack, Initializes, Boots, FirstProtocol
  <2>2. UNCHANGED <<proc, session>> /\ UNCHANGED serving
    BY <1>6 DEF Announces, Discovers, FallsBack, Initializes
  <2>3. QED
    BY <1>0, <1>1, <1>2, <1>3, <2>1, <2>2, BootKeeps DEF BootStates, BootOver, Connected
<1>7. CASE DetectFails(s) \/ ConnectionFails(s)
  <2>1. PICK b \in {"stopping", "failed"} : boot' = [boot EXCEPT ![s] = b] /\ (s \in Spawned => b = "stopping")
    BY <1>7 DEF DetectFails, ConnectionFails, Boots, AfterFailure
  <2>2. PICK x \in {"none", "open", "stranded"} : session' = [session EXCEPT ![s] = x] /\ x # "open"
    BY <1>0, <1>1, <1>3, <1>7 DEF DetectFails, ConnectionFails
  <2>3. UNCHANGED proc /\ UNCHANGED serving
    BY <1>7 DEF DetectFails, ConnectionFails
  <2>4. QED
    BY <1>0, <1>1, <1>2, <2>1, <2>2, <2>3, BootKeeps DEF BootStates, BootOver, Connected
<1>8. CASE Confirmed(s)
  BY <1>0, <1>1, <1>2, <1>3, <1>8, BootKeeps DEF Confirmed, Boots, BootStates, BootOver, Connected
<1>9. CASE StopEnds(s)
  BY <1>0, <1>1, <1>2, <1>3, <1>9, BootKeeps DEF StopEnds, Boots, BootStates, BootOver
<1>10. QED
  BY <1>4, <1>5, <1>6, <1>7, <1>8, <1>9 DEF Booting

\* Once the boots are over, what they led to stays, and processes only end.
LEMMA ExitsKeeps ==
  ASSUME ClusterInv, NEW s \in Servers, Exits(s)
  PROVE  ClusterInv'
<1>0. /\ phase' = phase /\ conns' = conns /\ closing' = closing /\ listeners' = listeners /\ inflight' = inflight
      /\ verdict' = verdict /\ boot' = boot /\ session' = session /\ Used' = Used /\ Ready' = Ready
      /\ proc' = [proc EXCEPT ![s] = "exited"]
  BY DEF Exits, serving, Used, Ready
<1>1. ClusterTypes'
  BY <1>0 DEF ClusterInv, ClusterTypes
<1>2. \A t \in Servers : proc'[t] = "live" => proc[t] = "live"
  BY <1>0 DEF ClusterInv, ClusterTypes
<1>3. ServersOK' /\ PhaseOK' /\ ClosingOK'
  BY <1>0, <1>2 DEF ClusterInv, ServersOK, PhaseOK, ClosingOK
<1>4. ListenersOK'
  BY <1>0 DEF ClusterInv, ListenersOK, ListenersDown
<1>5. QED
  BY <1>1, <1>3, <1>4 DEF ClusterInv

\* A connection's close() ends its session first, and its process last.
LEMMA ClosesKeeps ==
  ASSUME ClusterInv, NEW s \in Servers, Terminates(s) \/ Kills(s)
  PROVE  ClusterInv'
<1>0. /\ phase' = phase /\ conns' = conns /\ listeners' = listeners /\ inflight' = inflight
      /\ verdict' = verdict /\ boot' = boot /\ Used' = Used /\ Ready' = Ready
  BY DEF Terminates, Kills, Used, Ready
<1>1. phase = "closing" /\ s \in Used
  BY DEF ClusterInv, ClosingOK, Terminates, Kills
<1>2. PICK c \in {"kill", "done"}, p \in {"none", "live", "exited"}, x \in {"none", "open", "stranded"} :
        /\ closing' = [closing EXCEPT ![s] = c] /\ proc' = [proc EXCEPT ![s] = p] /\ session' = [session EXCEPT ![s] = x]
        /\ x # "open" /\ (c = "done" => p # "live") /\ (p = "live" => proc[s] = "live")
  <2>1. /\ proc \in [Servers -> {"none", "live", "exited"}] /\ session \in [Servers -> {"none", "open", "stranded"}]
        /\ proc = [proc EXCEPT ![s] = proc[s]] /\ session = [session EXCEPT ![s] = session[s]]
        /\ proc[s] = "live" => s \in Spawned
        /\ closing[s] = "kill" => session[s] # "open"
    BY DEF ClusterInv, ClusterTypes, ServersOK, ClosingOK
  <2>2. CASE Terminates(s)
    <3>1. PICK x \in {"none", "stranded"} : session' = [session EXCEPT ![s] = x]
      BY <2>2 DEF Terminates
    <3>2. PICK c \in {"kill", "done"} : closing' = [closing EXCEPT ![s] = c] /\ (c = "done" => s \notin Spawned)
      BY <2>2 DEF Terminates
    <3>3. proc' = [proc EXCEPT ![s] = proc[s]] /\ proc[s] \in {"none", "live", "exited"}
      BY <2>1, <2>2 DEF Terminates
    <3>4. QED
      BY <2>1, <3>1, <3>2, <3>3
  <2>3. CASE Kills(s)
    <3>1. /\ closing' = [closing EXCEPT ![s] = "done"] /\ proc' = [proc EXCEPT ![s] = "exited"]
          /\ session' = [session EXCEPT ![s] = session[s]] /\ session[s] # "open"
          /\ session[s] \in {"none", "open", "stranded"}
      BY <2>1, <2>3 DEF Kills
    <3>2. QED
      BY <3>1
  <2>4. QED
    BY <2>2, <2>3
<1>3. ClusterTypes'
  BY <1>0, <1>2 DEF ClusterInv, ClusterTypes
<1>4. \A t \in Servers : /\ closing'[t] = (IF t = s THEN c ELSE closing[t]) /\ proc'[t] = (IF t = s THEN p ELSE proc[t])
                         /\ session'[t] = (IF t = s THEN x ELSE session[t])
  BY <1>2 DEF ClusterInv, ClusterTypes
<1>5. ServersOK'
  BY <1>0, <1>1, <1>2, <1>4 DEF ClusterInv, ServersOK
<1>6. PhaseOK'
  BY <1>0, <1>1 DEF ClusterInv, PhaseOK, Served, Settled
<1>7. ClosingOK'
  <2>1. closing[s] # "no"
    BY DEF Terminates, Kills
  <2>2. phase # "rejected" /\ phase # "returned" /\ phase # "down"
    BY <1>1
  <2>3. \A t \in Servers : (closing'[t] # "no" <=> closing[t] # "no")
    BY <1>4, <2>1
  <2>4. QED
    BY <1>0, <1>1, <1>2, <1>4, <2>2, <2>3 DEF ClusterInv, ClosingOK, Settled
<1>8. ListenersOK'
  BY <1>0 DEF ClusterInv, ListenersOK, ListenersDown
<1>9. QED
  BY <1>3, <1>5, <1>6, <1>7, <1>8 DEF ClusterInv

\* When close() begins, whoever is not connected has neither a process nor a session.
LEMMA ClosingBegins ==
  ASSUME ClusterInv, \A s \in Used : boot[s] \in BootOver, \A s \in Servers : closing[s] = "no",
         Closing(Ready), conns' = Ready, phase' = "closing", verdict' \in Settled,
         UNCHANGED <<boot, proc, session, listeners, inflight>>, ListenersDown
  PROVE  ClusterInv'
<1>0. /\ boot' = boot /\ proc' = proc /\ session' = session /\ listeners' = listeners /\ inflight' = inflight
      /\ Used' = Used /\ Ready' = Ready
  BY DEF Used, Ready
<1>1. \A s \in Servers : closing'[s] = (IF s \in Ready THEN CloseBegun(s) ELSE "no")
  BY DEF Closing
<1>2. \A s \in Servers : CloseBegun(s) \in {"terminate", "kill", "done"}
  BY DEF CloseBegun
<1>3. closing' \in [Servers -> {"no", "terminate", "kill", "done"}]
  BY <1>2 DEF Closing, ClusterInv, ClusterTypes
<1>4. ClusterTypes'
  BY <1>0, <1>3, UsedServers DEF ClusterInv, ClusterTypes, Phases
<1>5. ServersOK'
  BY <1>0 DEF ClusterInv, ServersOK
<1>6. PhaseOK'
  BY <1>0 DEF PhaseOK, Served, Settled
<1>7. ClosingOK'
  <2>1. ASSUME NEW s \in Servers, CloseBegun(s) \in {"kill", "done"}
        PROVE  session[s] # "open" /\ (CloseBegun(s) = "done" => proc[s] # "live")
    BY <2>1 DEF CloseBegun, ClusterInv, ServersOK
  <2>2. \A s \in Ready : s \in Used
    BY UsedServers
  <2>3. QED
    BY <1>0, <1>1, <1>2, <2>1, <2>2 DEF ClosingOK, Settled
<1>8. ListenersOK'
  BY <1>0 DEF ClusterInv, ListenersOK, ListenersDown, Settled
<1>9. QED
  BY <1>4, <1>5, <1>6, <1>7, <1>8 DEF ClusterInv

\* From the calls to the last answer no server is being closed, and the connections are those that came up.
LEMMA NotClosing ==
  ASSUME ClusterInv
  PROVE  /\ phase \in Served \cup {"starting"} => \A s \in Servers : closing[s] = "no"
         /\ phase \in Served => conns = Ready /\ \A s \in Used : boot[s] \in BootOver
<1>1. phase \in Served \cup {"starting"} => phase \notin {"closing"} \cup Settled
  BY DEF Served, Settled
<1>2. phase \in Served => phase # "starting"
  BY DEF Served
<1>3. QED
  BY <1>1, <1>2 DEF ClusterInv, ClosingOK, PhaseOK, ServersOK

\* Promise.all over the boots: on to the calls if all came up, else the others are closed.
LEMMA AllStartedKeeps == ASSUME ClusterInv, AllStarted PROVE ClusterInv'
<1>1. phase = "starting" /\ (\A s \in Used : boot[s] \in BootOver) /\ conns' = Ready /\ listeners = << >>
  BY DEF AllStarted, ClusterInv, ListenersOK
<1>2. \A s \in Servers : closing[s] = "no"
  BY <1>1, NotClosing
<1>3. /\ boot' = boot /\ proc' = proc /\ session' = session /\ listeners' = listeners /\ inflight' = inflight
      /\ Used' = Used /\ Ready' = Ready
  BY DEF AllStarted, Used, Ready
<1>4. CASE Ready # Used
  <2>1. ListenersDown
    BY <1>1 DEF ListenersDown
  <2>2. phase' = "closing" /\ verdict' \in Settled /\ Closing(Ready)
    BY <1>4 DEF AllStarted, Settled
  <2>3. UNCHANGED <<boot, proc, session, listeners, inflight>>
    BY <1>3
  <2>4. QED
    BY <1>1, <1>2, <2>1, <2>2, <2>3, ClosingBegins
<1>5. CASE Ready = Used
  <2>1. phase' = "calling" /\ closing' = closing
    BY <1>5 DEF AllStarted
  <2>2. ClusterTypes'
    BY <1>1, <1>3, <2>1, UsedServers DEF ClusterInv, ClusterTypes, Phases
  <2>3. ServersOK'
    BY <1>1, <1>3 DEF ClusterInv, ServersOK
  <2>4. PhaseOK'
    BY <1>1, <1>3, <1>5, <2>1 DEF PhaseOK, Served, Settled
  <2>5. ClosingOK'
    BY <1>2, <2>1 DEF ClosingOK, Settled
  <2>6. ListenersOK'
    BY <1>1, <1>3, <2>1 DEF ListenersOK, Settled
  <2>7. QED
    BY <2>2, <2>3, <2>4, <2>5, <2>6 DEF ClusterInv
<1>6. QED
  BY <1>4, <1>5

\* The steps between the two ends of the cluster keep the connections as they are.
LEMMA ServedKeeps ==
  ASSUME ClusterInv, phase \in Served, phase' \in Served,
         UNCHANGED <<boot, proc, session, conns, closing>>, phase' = "unbinding" => verdict' \in Settled,
         listeners' \in Seq({"open", "draining", "closed"}), inflight' \in Seq(Nat), Len(inflight') = Len(listeners'),
         phase' = "calling" => listeners' = << >>,
         \A k \in DOMAIN listeners' : listeners'[k] = "closed" => inflight'[k] = 0
  PROVE  ClusterInv'
<1>0. /\ boot' = boot /\ proc' = proc /\ session' = session /\ conns' = conns /\ closing' = closing
      /\ Used' = Used /\ Ready' = Ready
  BY DEF Used, Ready
<1>1. phase' \in Phases /\ phase' \notin {"starting", "closing"} \cup Settled
  BY DEF Served, Phases, Settled
<1>2. ClusterTypes'
  BY <1>0, <1>1 DEF ClusterInv, ClusterTypes
<1>3. ServersOK'
  BY <1>0, <1>1, NotClosing DEF ClusterInv, ServersOK
<1>4. PhaseOK'
  BY <1>0, <1>1 DEF ClusterInv, PhaseOK
<1>5. ClosingOK'
  <2>1. \A s \in Servers : closing'[s] = "no"
    BY <1>0, NotClosing
  <2>2. phase' # "closing" /\ phase' \notin Settled
    BY <1>1
  <2>3. QED
    BY <2>1, <2>2 DEF ClosingOK
<1>6. ListenersOK'
  BY <1>1 DEF ListenersOK
<1>7. QED
  BY <1>2, <1>3, <1>4, <1>5, <1>6 DEF ClusterInv

\* The listeners and their requests are two sequences of the same length.
LEMMA ListenerTypes ==
  ASSUME ClusterInv
  PROVE  /\ listeners \in Seq({"open", "draining", "closed"}) /\ inflight \in Seq(Nat) /\ Len(inflight) = Len(listeners)
         /\ DOMAIN listeners = 1 .. Len(listeners) /\ DOMAIN inflight = DOMAIN listeners /\ Len(listeners) \in Nat
         /\ \A k \in DOMAIN listeners : listeners[k] = "closed" => inflight[k] = 0
         /\ phase = "calling" => listeners = << >>
BY DEF ClusterInv, ClusterTypes, ListenersOK

\* A call that is answered or fails touches no process.
LEMMA CallSettlesKeeps == ASSUME ClusterInv, NEW i \in DOMAIN Sources, CallSettles(i) PROVE ClusterInv'
<1>1. phase = "calling" /\ UNCHANGED <<phase, boot, proc, session, conns, closing, listeners, inflight, verdict>>
  BY DEF CallSettles
<1>2. QED
  BY <1>1, ListenerTypes, ServedKeeps DEF Served

\* The page is served if it is to stay and could be rendered, else the cluster closes.
LEMMA ComposesKeeps ==
  ASSUME ClusterInv, NEW keepAlive, NEW rendered, Composes(keepAlive, rendered)
  PROVE  ClusterInv'
<1>1. /\ phase = "calling" /\ UNCHANGED <<boot, proc, session, conns, listeners, inflight>> /\ listeners = << >>
      /\ conns = Ready
  BY ListenerTypes, NotClosing DEF Composes, Served
<1>2. CASE keepAlive /\ rendered
  <2>1. phase' = "binding" /\ closing' = closing
    BY <1>2 DEF Composes
  <2>2. UNCHANGED <<boot, proc, session, conns, closing>>
    BY <1>1, <2>1
  <2>3. QED
    BY <1>1, <2>1, <2>2, ListenerTypes, ServedKeeps DEF Served
<1>3. CASE ~(keepAlive /\ rendered)
  <2>1. phase' = "closing" /\ Closing(conns) /\ verdict' \in Settled
    BY <1>3 DEF Composes, Settled
  <2>2. Closing(Ready) /\ conns' = Ready
    BY <1>1, <2>1
  <2>3. (\A s \in Used : boot[s] \in BootOver) /\ (\A s \in Servers : closing[s] = "no")
    BY <1>1, NotClosing DEF Served
  <2>4. ListenersDown
    BY <1>1 DEF ListenersDown
  <2>5. UNCHANGED <<boot, proc, session, listeners, inflight>>
    BY <1>1
  <2>6. QED
    BY <2>1, <2>2, <2>3, <2>4, <2>5, ClosingBegins
<1>4. QED
  BY <1>2, <1>3

\* close() is over once every connection is: whoever never connected has nothing left to close.
LEMMA AllClosedKeeps == ASSUME ClusterInv, AllClosed PROVE ClusterInv'
<1>1. /\ phase = "closing" /\ conns = Ready /\ (\A s \in Ready : closing[s] = "done") /\ phase' \in Settled /\ conns' = {}
      /\ boot' = boot /\ proc' = proc /\ session' = session /\ closing' = closing /\ listeners' = listeners
      /\ inflight' = inflight /\ Used' = Used /\ Ready' = Ready
  BY DEF AllClosed, ClusterInv, PhaseOK, Used, Ready
<1>2. phase' \notin {"starting", "closing", "calling", "unbinding"} \cup Served /\ phase' \in Phases
  BY <1>1 DEF Settled, Served, Phases
<1>3. ClusterTypes'
  BY <1>1, <1>2 DEF ClusterInv, ClusterTypes
<1>4. ServersOK'
  BY <1>1 DEF ClusterInv, ServersOK
<1>5. ASSUME NEW s \in Servers PROVE proc[s] # "live" /\ session[s] # "open" /\ closing[s] \in {"no", "done"}
  <2>1. CASE s \in Ready
    BY <1>1, <2>1 DEF ClusterInv, ClosingOK
  <2>2. CASE s \notin Ready
    <3>1. boot[s] \in {"idle", "failed"}
      BY <1>1, <2>2, UsedServers DEF ClusterInv, ServersOK, BootOver
    <3>2. QED
      BY <1>1, <2>2, <3>1 DEF ClusterInv, ServersOK, ClosingOK
  <2>3. QED
    BY <2>1, <2>2
<1>6. PhaseOK'
  BY <1>1, <1>2, <1>5 DEF PhaseOK
<1>7. ClosingOK'
  BY <1>1, <1>2, <1>5 DEF ClusterInv, ClosingOK
<1>8. ListenersOK'
  BY <1>1, <1>2 DEF ClusterInv, ListenersOK, ListenersDown
<1>9. QED
  BY <1>3, <1>4, <1>6, <1>7, <1>8 DEF ClusterInv

\* A listener that binds opens with no request.
LEMMA BindsKeeps == ASSUME ClusterInv, Binds PROVE ClusterInv'
<1>1. /\ phase = "binding" /\ phase' = phase /\ UNCHANGED <<boot, proc, session, conns, closing>>
      /\ listeners' = Append(listeners, "open") /\ inflight' = Append(inflight, 0)
  BY DEF Binds
<1>2. /\ listeners' \in Seq({"open", "draining", "closed"}) /\ inflight' \in Seq(Nat) /\ Len(inflight') = Len(listeners')
      /\ \A k \in DOMAIN listeners' : listeners'[k] = "closed" => inflight'[k] = 0
  BY <1>1, ListenerTypes
<1>3. QED
  BY <1>1, <1>2, ServedKeeps DEF Served

\* shutdown() takes no new request anywhere, and closes no server yet.
LEMMA DrainKeeps ==
  ASSUME ClusterInv, phase \in {"binding", "up"}, phase' = "unbinding", verdict' \in Settled, listeners' = Drained,
         UNCHANGED <<boot, proc, session, conns, closing, inflight>>
  PROVE  ClusterInv'
<1>1. Drained = [k \in 1 .. Len(listeners) |-> "draining"]
  BY ListenerTypes DEF Drained
<1>2. Drained \in Seq({"open", "draining", "closed"}) /\ Len(Drained) = Len(listeners)
  BY <1>1, ListenerTypes
<1>3. /\ listeners' \in Seq({"open", "draining", "closed"}) /\ inflight' \in Seq(Nat) /\ Len(inflight') = Len(listeners')
      /\ \A k \in DOMAIN listeners' : listeners'[k] = "draining"
  BY <1>1, <1>2, ListenerTypes
<1>4. UNCHANGED <<boot, proc, session, conns, closing>>
  OBVIOUS
<1>5. QED
  BY <1>3, <1>4, ServedKeeps DEF Served

\* With all listeners bound, and the browser opened, the dashboard is up.
LEMMA ServesKeeps == ASSUME ClusterInv, (\E opens \in BOOLEAN : Serves(opens)) \/ Opened PROVE ClusterInv'
<1>1. /\ phase \in {"binding", "opening"} /\ phase' \in {"opening", "up"} /\ UNCHANGED <<boot, proc, session, conns, closing>>
      /\ listeners' = listeners /\ inflight' = inflight
  BY DEF Serves, Opened
<1>2. QED
  BY <1>1, ListenerTypes, ServedKeeps DEF Served

\* Only when every listener is down do the servers start to close.
LEMMA UnboundKeeps == ASSUME ClusterInv, Unbound PROVE ClusterInv'
<1>1. /\ phase = "unbinding" /\ ListenersDown /\ phase' = "closing" /\ Closing(conns) /\ conns' = conns /\ verdict' = verdict
      /\ UNCHANGED <<boot, proc, session, listeners, inflight>>
  BY DEF Unbound
<1>2. conns = Ready /\ (\A s \in Used : boot[s] \in BootOver) /\ (\A s \in Servers : closing[s] = "no")
  BY <1>1, NotClosing DEF Served
<1>3. verdict \in Settled
  BY <1>1 DEF ClusterInv, PhaseOK
<1>4. Closing(Ready) /\ conns' = Ready /\ verdict' \in Settled
  BY <1>1, <1>2, <1>3
<1>5. QED
  BY <1>1, <1>2, <1>4, ClosingBegins

\* Requests and answers: a closed listener takes no request, and has none.
LEMMA TrafficKeeps ==
  ASSUME ClusterInv, NEW k, Request(k) \/ Answered(k) \/ ListenerCloses(k)
  PROVE  ClusterInv'
<1>0. /\ phase' = phase /\ boot' = boot /\ proc' = proc /\ session' = session /\ conns' = conns /\ closing' = closing
      /\ verdict' = verdict /\ Used' = Used /\ Ready' = Ready
  BY DEF Request, Answered, ListenerCloses, Used, Ready
<1>1. PICK j \in DOMAIN listeners : j = Port(k)
  BY ListenerTypes DEF Request, Answered, ListenerCloses
<1>2. /\ listeners' \in Seq({"open", "draining", "closed"}) /\ inflight' \in Seq(Nat) /\ Len(inflight') = Len(listeners')
      /\ DOMAIN listeners' = DOMAIN listeners
      /\ \A i \in DOMAIN listeners' : listeners'[i] = "closed" => inflight'[i] = 0
      /\ \A i \in DOMAIN listeners' : listeners[i] = "closed" => listeners'[i] = "closed"
  <2>1. CASE Request(k)
    <3>1. listeners' = listeners /\ listeners[j] = "open" /\ inflight' = [inflight EXCEPT ![j] = @ + 1]
      BY <2>1, <1>1 DEF Request
    <3>2. QED
      BY <3>1, ListenerTypes
  <2>2. CASE Answered(k)
    <3>1. listeners' = listeners /\ inflight[j] > 0 /\ inflight' = [inflight EXCEPT ![j] = @ - 1]
      BY <2>2, <1>1 DEF Answered
    <3>2. QED
      BY <3>1, ListenerTypes
  <2>3. CASE ListenerCloses(k)
    <3>1. inflight' = inflight /\ inflight[j] = 0 /\ listeners' = [listeners EXCEPT ![j] = "closed"]
      BY <2>3, <1>1 DEF ListenerCloses
    <3>2. QED
      BY <3>1, ListenerTypes
  <2>4. QED
    BY <2>1, <2>2, <2>3
<1>3. phase \notin {"starting", "calling"}
  BY <1>1, ListenerTypes DEF ClusterInv, ListenersOK
<1>4. ClusterTypes'
  BY <1>0, <1>2 DEF ClusterInv, ClusterTypes
<1>5. ServersOK' /\ PhaseOK' /\ ClosingOK'
  BY <1>0 DEF ClusterInv, ServersOK, PhaseOK, ClosingOK
<1>6. ListenersOK'
  <2>1. ListenersDown => ListenersDown'
    BY <1>2 DEF ListenersDown
  <2>2. phase \in {"closing"} \cup Settled => ListenersDown
    BY DEF ClusterInv, ListenersOK
  <2>3. \A i \in DOMAIN listeners' : listeners'[i] = "closed" => inflight'[i] = 0
    BY <1>2
  <2>4. phase' \in {"closing"} \cup Settled => ListenersDown'
    BY <1>0, <2>1, <2>2
  <2>5. QED
    BY <1>0, <1>3, <2>3, <2>4 DEF ListenersOK
<1>7. QED
  BY <1>4, <1>5, <1>6 DEF ClusterInv

\* Every step of the cluster, of its servers and of the requests keeps the invariant.
LEMMA ClusterStep == ClusterInv /\ [ClusterNext]_clusterVars => ClusterInv'
<1> SUFFICES ASSUME ClusterInv, [ClusterNext]_clusterVars PROVE ClusterInv'
  OBVIOUS
<1>1. CASE UNCHANGED clusterVars
  BY <1>1 DEF clusterVars, ClusterInv, ClusterTypes, ServersOK, PhaseOK, ClosingOK, ListenersOK, ListenersDown, Used, Ready
<1>2. ASSUME NEW s \in Servers, Booting(s) \/ Exits(s) PROVE ClusterInv'
  BY <1>2, BootingKeeps, ExitsKeeps
<1>3. CASE ServeFails
  <2>1. /\ phase \in {"binding", "up"} /\ phase' = "unbinding" /\ verdict' \in Settled /\ listeners' = Drained
        /\ UNCHANGED <<boot, proc, session, conns, closing, inflight>>
    BY <1>3 DEF ServeFails, Settled
  <2>2. QED
    BY <2>1, DrainKeeps
<1>4. CASE Shutdown
  <2>1. /\ phase \in {"binding", "up"} /\ phase' = "unbinding" /\ verdict' \in Settled /\ listeners' = Drained
        /\ UNCHANGED <<boot, proc, session, conns, closing, inflight>>
    BY <1>4 DEF Shutdown, Settled
  <2>2. QED
    BY <2>1, DrainKeeps
<1>5. CASE Caller
  BY <1>5, <1>3, AllStartedKeeps, AllClosedKeeps, BindsKeeps, ServesKeeps, UnboundKeeps, ComposesKeeps, CallSettlesKeeps
     DEF Caller
<1>6. CASE Closes
  BY <1>6, ClosesKeeps DEF Closes
<1>7. ASSUME NEW k, Request(k) \/ Answered(k) \/ ListenerCloses(k) PROVE ClusterInv'
  BY <1>7, TrafficKeeps
<1>8. CASE Opened
  BY <1>8, ServesKeeps
<1>9. QED
  BY <1>1, <1>2, <1>4, <1>5, <1>6, <1>7, <1>8 DEF ClusterNext, Answers

\* The invariant implies both halves of StopsClean.
LEMMA ClusterHolds == ClusterInv => NothingLeftRunning /\ NoRequestCutOff
<1> SUFFICES ASSUME ClusterInv PROVE NothingLeftRunning /\ NoRequestCutOff
  OBVIOUS
<1>1. NothingLeftRunning
  <2>1. ASSUME phase \in Settled
        PROVE  conns = {} /\ \A s \in Servers : proc[s] # "live" /\ session[s] # "open"
    BY <2>1 DEF ClusterInv, PhaseOK
  <2>2. ASSUME phase \in Settled, NEW k \in DOMAIN listeners PROVE listeners[k] = "closed" /\ inflight[k] = 0
    <3>1. ListenersDown
      BY <2>2 DEF ClusterInv, ListenersOK
    <3>2. QED
      BY <3>1 DEF ClusterInv, ListenersOK, ListenersDown
  <2>3. QED
    BY <2>1, <2>2 DEF NothingLeftRunning
<1>2. NoRequestCutOff
  <2> SUFFICES ASSUME NEW k \in DOMAIN inflight, inflight[k] > 0
               PROVE  conns = Used /\ \A s \in Used : closing[s] = "no"
    BY DEF NoRequestCutOff
  <2>1. k \in DOMAIN listeners /\ listeners[k] # "closed" /\ listeners # << >>
    BY ListenerTypes
  <2>2. phase \in Served
    BY <2>1 DEF ClusterInv, ClusterTypes, ListenersOK, ListenersDown, Phases, Served
  <2>3. QED
    BY <2>2, NotClosing, UsedServers DEF ClusterInv, PhaseOK
<1>3. QED
  BY <1>1, <1>2

\* However a composition ends, it leaves nothing running, and no request is cut off by its end.
THEOREM ClusterClean == ClusterSpec => []StopsClean
<1>1. ClusterInv => StopsClean
  BY ClusterHolds DEF StopsClean
<1>2. QED
  BY <1>1, ClusterStarts, ClusterStep, PTL DEF ClusterSpec

----------------------------------------------------------------------------
(* The dashboard page (HostPage).  The invariant says, for the first document *)
(* of each frame, what is on its way to the page (SaidOK) and to it (HeardOK) *)
(* in each state of its handshake.  R are the slots that were answered, D     *)
(* those whose result was sent.                                               *)

Contexts == [size : Sizes, surface : {"legacy", "unresolved", "ready"}]
AnyCatalog == {Absent} \cup UNION {Catalogs[s] : s \in SlotSet}
Document == [load : {0, 1}, own : BOOLEAN, state : {"loaded", "asked", "answered", "ready"},
             context : Contexts \cup {Absent}, log : Seq(Told)]
Plainly == [kind : {"result", "answer", "event"}]
Telling == [kind : {"response", "context"}, context : Contexts]
FrameMessage == Plainly \cup Telling
AnyEventOf == {rule.event : rule \in Range(Rules) \cup Range(PortRules)}
PageMessage == [kind : {"initialize"}, catalog : AnyCatalog, own : BOOLEAN]
          \cup [kind : {"event"}, event : AnyEventOf, own : BOOLEAN]
          \cup [kind : {"request"}, request : Requests, own : BOOLEAN]
          \cup [kind : {"initialized"}, own : BOOLEAN]

PageTypes ==
  /\ doc \in [SlotSet -> Document]
  /\ toPage \in [SlotSet -> Seq(PageMessage)]
  /\ toFrame \in [SlotSet -> Seq(FrameMessage)]
  /\ catalogs \in [SlotSet -> AnyCatalog]
  /\ lastContext \in [SlotSet -> Contexts \cup {Absent}]
  /\ size \in Sizes /\ resizing \in BOOLEAN
  /\ sends \in Nat

HasKind(q, k) == \E i \in DOMAIN q : q[i].kind = k
Tells(q) == \E i \in DOMAIN q : q[i].kind \in {"response", "context"}

\* No kind of message is in the log of a document and on its way twice.
Once(k, lg, q) ==
  /\ \A i, j \in DOMAIN lg : lg[i] = k /\ lg[j] = k => i = j
  /\ \A i, j \in DOMAIN q : q[i].kind = k /\ q[j].kind = k => i = j
  /\ \A i \in DOMAIN lg, j \in DOMAIN q : ~(lg[i] = k /\ q[j].kind = k)
Never(k, lg, q) == (\A i \in DOMAIN lg : lg[i] # k) /\ (\A i \in DOMAIN q : q[i].kind # k)

\* The response is in the log, or under way before anything else told.
ResponseFirst(lg, q) ==
  /\ lg # << >> => lg[1] = "response"
  /\ \A i \in DOMAIN q : q[i].kind \in Told => lg # << >> \/ \E j \in 1..i : q[j].kind = "response"

\* The last context under way is ctx, or the one known if there is none.
Knows(dc, q, ctx) ==
  /\ ~Tells(q) => dc = ctx
  /\ \A i \in DOMAIN q :
       /\ q[i].kind \in {"response", "context"}
       /\ \A j \in DOMAIN q : j > i => q[j].kind \notin {"response", "context"}
       => q[i].context = ctx

\* What a document said to the page, which answered it (s \in R) or has not yet.
SaidOK(st, p, s, R) ==
  /\ st = "loaded" => p = << >>
  /\ \A i \in DOMAIN p : p[i].kind = "initialize" => st = "asked" /\ s \notin R /\ Len(p) = 1
  /\ \A i \in DOMAIN p : p[i].kind = "initialized" => st = "ready"

\* What it heard, and is to hear.
HeardOK(st, lg, dc, q, s, R, D, ctx) ==
  /\ s \in R => st # "loaded"
  /\ s \notin R => /\ st \in {"loaded", "asked"} /\ lg = << >>
              /\ \A i \in DOMAIN q : q[i].kind \notin Told
  /\ st \in {"loaded", "asked"} => lg = << >>
  /\ Once("response", lg, q) /\ Once("result", lg, q)
  /\ ResponseFirst(lg, q)
  /\ s \in R => lg # << >> \/ HasKind(q, "response")
  /\ s \notin D => Never("result", lg, q)
  /\ s \in D => st = "ready"
  /\ s \in R => Knows(dc, q, ctx)

FirstOK(s) ==
  doc[s].load = 0 =>
    /\ doc[s].own
    /\ SaidOK(doc[s].state, toPage[s], s, responded)
    /\ HeardOK(doc[s].state, doc[s].log, doc[s].context, toFrame[s], s, responded, delivered, lastContext[s])
FirstDocuments == \A s \in SlotSet : FirstOK(s)

Remembers == ~resizing => \A s \in responded : lastContext[s] = Context(s, catalogs)

\* What waits for the proxy is of a panel, and as confined as the proxy.
RelaysConfined == ProxyConfined /\ \A r \in relays : r.slot \in SlotSet

PageInv == PageTypes /\ FirstDocuments /\ Remembers /\ responded \subseteq SlotSet /\ RelaysConfined

\* r is q with m behind it.
Longer(r, q, m) ==
  /\ DOMAIN q = 1..Len(q) /\ Len(q) \in Nat
  /\ DOMAIN r = 1..(Len(q) + 1)
  /\ \A i \in DOMAIN q : r[i] = q[i]
  /\ r[Len(q) + 1] = m

\* r is what is left of q behind its first element m.
Shorter(r, q, m) ==
  /\ Len(q) \in Nat /\ Len(q) > 0
  /\ DOMAIN q = 1..Len(q) /\ DOMAIN r = 1..(Len(q) - 1)
  /\ \A i \in DOMAIN r : r[i] = q[i + 1]
  /\ q[1] = m

\* A message appended is behind the others.
LEMMA AppendLonger ==
  ASSUME NEW S, NEW q \in Seq(S), NEW m \in S
  PROVE  Longer(Append(q, m), q, m)
  BY DEF Longer

\* A message taken from the head leaves the others.
LEMMA TailShorter ==
  ASSUME NEW S, NEW q \in Seq(S), q # << >>
  PROVE  Shorter(Tail(q), q, Head(q))
  BY DEF Shorter

\* Once the response is in the log or under way, whatever follows is behind it.
LEMMA StillFirst ==
  ASSUME NEW lg, NEW q, NEW r, NEW m, Longer(r, q, m),
         ResponseFirst(lg, q), lg # << >> \/ HasKind(q, "response")
  PROVE  ResponseFirst(lg, r)
<1>1. \A i \in DOMAIN q : i \in DOMAIN r /\ r[i] = q[i]
  BY DEF Longer
<1>2. ASSUME NEW i \in DOMAIN r, r[i].kind \in Told, lg = << >>
      PROVE  \E j \in 1..i : r[j].kind = "response"
  <2>1. CASE i \in DOMAIN q
    <3>1. PICK j \in 1..i : q[j].kind = "response"
      BY <2>1, <1>2, <1>1 DEF ResponseFirst
    <3>2. j \in DOMAIN q
      BY <2>1 DEF Longer
    <3> QED
      BY <3>1, <3>2, <1>1
  <2>2. CASE i \notin DOMAIN q
    <3>1. PICK j \in DOMAIN q : q[j].kind = "response"
      BY <1>2 DEF HasKind
    <3>2. j \in 1..i /\ r[j] = q[j]
      BY <2>2 DEF Longer
    <3> QED
      BY <3>1, <3>2
  <2> QED
    BY <2>1, <2>2
<1> QED
  BY <1>2 DEF ResponseFirst

\* A message that is not told, put into a queue, tells nothing.
LEMMA HearsQuiet ==
  ASSUME NEW st, NEW lg, NEW dc, NEW q, NEW r, NEW m, NEW s, NEW R, NEW D, NEW ctx,
         HeardOK(st, lg, dc, q, s, R, D, ctx), Longer(r, q, m), m.kind \notin Told
  PROVE  HeardOK(st, lg, dc, r, s, R, D, ctx)
<1>1. \A i \in DOMAIN r : r[i].kind \in Told => i \in DOMAIN q /\ r[i] = q[i]
  BY DEF Longer
<1>2. \A i \in DOMAIN q : i \in DOMAIN r /\ r[i] = q[i]
  BY DEF Longer
<1>3. Once("response", lg, r) /\ Once("result", lg, r)
  BY <1>1 DEF HeardOK, Once, Told
<1>4. ResponseFirst(lg, r)
  <2>1. ASSUME NEW i \in DOMAIN r, r[i].kind \in Told, lg = << >>
        PROVE  \E j \in 1..i : r[j].kind = "response"
    <3>1. i \in DOMAIN q /\ q[i].kind \in Told
      BY <1>1, <2>1
    <3>2. PICK j \in 1..i : q[j].kind = "response"
      BY <3>1, <2>1 DEF HeardOK, ResponseFirst
    <3>3. j \in DOMAIN q
      BY <3>1 DEF Longer
    <3> QED
      BY <3>2, <3>3, <1>2
  <2> QED
    BY <2>1 DEF HeardOK, ResponseFirst
<1>5. s \in R => lg # << >> \/ HasKind(r, "response")
  BY <1>2 DEF HeardOK, HasKind
<1>6. s \notin D => Never("result", lg, r)
  BY <1>1 DEF HeardOK, Never, Told
<1>7. s \in R => Knows(dc, r, ctx)
  <2>1. Tells(q) => Tells(r)
    BY <1>2 DEF Tells
  <2> QED
    BY <1>1, <1>2, <2>1 DEF HeardOK, Knows, Told
<1>8. s \notin R => \A i \in DOMAIN r : r[i].kind \notin Told
  BY <1>1 DEF HeardOK
<1> QED
  BY <1>3, <1>4, <1>5, <1>6, <1>7, <1>8 DEF HeardOK

\* The context that is sent last is the one the document will know.
LEMMA KnowsLast ==
  ASSUME NEW dc, NEW q, NEW r, NEW m, Longer(r, q, m), m.kind \in {"response", "context"}
  PROVE  Knows(dc, r, m.context)
<1>1. Len(q) + 1 \in DOMAIN r /\ r[Len(q) + 1] = m
  BY DEF Longer
<1>2. Tells(r)
  BY <1>1 DEF Tells
<1>3. \A i \in DOMAIN r : i = Len(q) + 1 \/ Len(q) + 1 > i
  BY DEF Longer
<1> QED
  BY <1>1, <1>2, <1>3 DEF Knows

\* A document that was answered is told of a context.
LEMMA HearsContext ==
  ASSUME NEW st, NEW lg, NEW dc, NEW q, NEW r, NEW m, NEW s, NEW R, NEW D, NEW ctx,
         HeardOK(st, lg, dc, q, s, R, D, ctx), Longer(r, q, m), m.kind = "context", s \in R
  PROVE  HeardOK(st, lg, dc, r, s, R, D, m.context)
<1>1. \A i \in DOMAIN r : r[i].kind \in {"response", "result"} => i \in DOMAIN q /\ r[i] = q[i]
  BY DEF Longer
<1>2. \A i \in DOMAIN q : i \in DOMAIN r /\ r[i] = q[i]
  BY DEF Longer
<1>3. Once("response", lg, r) /\ Once("result", lg, r)
  BY <1>1 DEF HeardOK, Once
<1>4. ResponseFirst(lg, r)
  BY StillFirst DEF HeardOK
<1>5. s \in R => lg # << >> \/ HasKind(r, "response")
  BY <1>2 DEF HeardOK, HasKind
<1>6. s \notin D => Never("result", lg, r)
  BY <1>1 DEF HeardOK, Never
<1>7. Knows(dc, r, m.context)
  BY KnowsLast
<1> QED
  BY <1>3, <1>4, <1>5, <1>6, <1>7 DEF HeardOK

\* A document that asks is answered, for the first time.
LEMMA HearsResponse ==
  ASSUME NEW st, NEW lg, NEW dc, NEW q, NEW r, NEW m, NEW s, NEW R, NEW R2, NEW D, NEW ctx,
         HeardOK(st, lg, dc, q, s, R, D, ctx), s \notin R, s \in R2,
         Longer(r, q, m), m.kind = "response", st = "asked"
  PROVE  HeardOK(st, lg, dc, r, s, R2, D, m.context)
<1>1. lg = << >> /\ \A i \in DOMAIN q : q[i].kind \notin Told
  BY DEF HeardOK
<1>2. \A i \in DOMAIN r : r[i].kind \in Told => i = Len(q) + 1
  BY <1>1 DEF Longer
<1>3. Len(q) + 1 \in DOMAIN r /\ r[Len(q) + 1] = m /\ Len(q) + 1 \in 1..(Len(q) + 1)
  BY DEF Longer
<1>4. Once("response", lg, r) /\ Once("result", lg, r)
  BY <1>1, <1>2 DEF Once, Told
<1>5. ResponseFirst(lg, r)
  BY <1>1, <1>2, <1>3 DEF ResponseFirst
<1>6. HasKind(r, "response")
  BY <1>3 DEF HasKind
<1>7. Never("result", lg, r)
  BY <1>1, <1>2, <1>3 DEF Never, Told
<1>8. Knows(dc, r, m.context)
  BY KnowsLast
<1> QED
  BY <1>1, <1>4, <1>5, <1>6, <1>7, <1>8 DEF HeardOK

\* A document that is ready gets its result, for the first time.
LEMMA HearsResult ==
  ASSUME NEW st, NEW lg, NEW dc, NEW q, NEW r, NEW m, NEW s, NEW R, NEW D, NEW D2, NEW ctx,
         HeardOK(st, lg, dc, q, s, R, D, ctx), s \in R, s \notin D, s \in D2,
         Longer(r, q, m), m.kind = "result", st = "ready"
  PROVE  HeardOK(st, lg, dc, r, s, R, D2, ctx)
<1>1. \A i \in DOMAIN r : r[i].kind \in {"response", "context"} => i \in DOMAIN q /\ r[i] = q[i]
  BY DEF Longer
<1>2. \A i \in DOMAIN q : i \in DOMAIN r /\ r[i] = q[i]
  BY DEF Longer
<1>3. Never("result", lg, q)
  BY DEF HeardOK
<1>4. Once("response", lg, r)
  BY <1>1 DEF HeardOK, Once
<1>5. Once("result", lg, r)
  <2>1. \A i \in DOMAIN r : r[i].kind = "result" => i = Len(q) + 1
    BY <1>3 DEF Never, Longer
  <2> QED
    BY <2>1, <1>3 DEF Never, Once
<1>6. ResponseFirst(lg, r)
  BY StillFirst DEF HeardOK
<1>7. s \in R => lg # << >> \/ HasKind(r, "response")
  BY <1>2 DEF HeardOK, HasKind
<1>8. Knows(dc, r, ctx)
  <2>1. Tells(q) => Tells(r)
    BY <1>2 DEF Tells
  <2> QED
    BY <1>1, <1>2, <2>1 DEF HeardOK, Knows
<1> QED
  BY <1>4, <1>5, <1>6, <1>7, <1>8 DEF HeardOK

\* What is left of a queue has the messages it had.
LEMMA LeftOver ==
  ASSUME NEW q, NEW r, NEW m, Shorter(r, q, m)
  PROVE  /\ \A i \in DOMAIN r : i + 1 \in DOMAIN q /\ r[i] = q[i + 1]
         /\ 1 \in DOMAIN q /\ q[1] = m
         /\ \A j \in DOMAIN q : j = 1 \/ (j - 1 \in DOMAIN r /\ r[j - 1] = q[j])
BY DEF Shorter

\* A message that is not a context leaves what is known, or to be known, as it was.
LEMMA KnowsBehind ==
  ASSUME NEW dc, NEW q, NEW r, NEW m, NEW ctx, Shorter(r, q, m), Knows(dc, q, ctx)
  PROVE  Knows(IF m.kind \in {"response", "context"} THEN m.context ELSE dc, r, ctx)
<1>1. \A i \in DOMAIN r : i \in Nat /\ i + 1 \in DOMAIN q /\ r[i] = q[i + 1]
  BY DEF Shorter
<1>2. \A j \in DOMAIN q : j \in Nat /\ (j = 1 \/ (j - 1 \in DOMAIN r /\ r[j - 1] = q[j]))
  BY DEF Shorter
<1>3. 1 \in DOMAIN q /\ q[1] = m
  BY LeftOver
<1>4. ASSUME ~Tells(r)
      PROVE  (IF m.kind \in {"response", "context"} THEN m.context ELSE dc) = ctx
  <2>1. \A j \in DOMAIN q : q[j].kind \in {"response", "context"} => j = 1
    BY <1>2, <1>4 DEF Tells
  <2>2. CASE m.kind \in {"response", "context"}
    <3>1. \A j \in DOMAIN q : j > 1 => q[j].kind \notin {"response", "context"}
      BY <2>1
    <3> QED
      BY <3>1, <2>2, <1>3 DEF Knows
  <2>3. CASE m.kind \notin {"response", "context"}
    <3>1. ~Tells(q)
      BY <2>1, <2>3, <1>3 DEF Tells
    <3> QED
      BY <3>1, <2>3 DEF Knows
  <2> QED
    BY <2>2, <2>3
<1>5. ASSUME NEW i \in DOMAIN r, r[i].kind \in {"response", "context"},
             \A j \in DOMAIN r : j > i => r[j].kind \notin {"response", "context"}
      PROVE  r[i].context = ctx
  <2>1. i \in Nat /\ i + 1 \in DOMAIN q /\ q[i + 1] = r[i]
    BY <1>1
  <2>2. ASSUME NEW j \in DOMAIN q, j > i + 1
        PROVE  q[j].kind \notin {"response", "context"}
    <3>1. j - 1 \in DOMAIN r /\ r[j - 1] = q[j] /\ j - 1 > i
      BY <1>2, <2>1, <2>2
    <3> QED
      BY <3>1, <1>5
  <2> QED
    BY <2>1, <2>2, <1>5 DEF Knows
<1> QED
  BY <1>4, <1>5 DEF Knows

\* A message that is not told, taken from a queue, told nothing.
LEMMA HeardNothing ==
  ASSUME NEW st, NEW lg, NEW dc, NEW q, NEW r, NEW m, NEW s, NEW R, NEW D, NEW ctx,
         HeardOK(st, lg, dc, q, s, R, D, ctx), Shorter(r, q, m), m.kind \notin Told
  PROVE  HeardOK(st, lg, dc, r, s, R, D, ctx)
<1>1. \A i \in DOMAIN r : i \in Nat /\ i + 1 \in DOMAIN q /\ r[i] = q[i + 1]
  BY DEF Shorter
<1>2. \A j \in DOMAIN q : j \in Nat /\ (q[j].kind \in Told => j - 1 \in DOMAIN r /\ r[j - 1] = q[j])
  BY LeftOver DEF Shorter
<1>3. Once("response", lg, r) /\ Once("result", lg, r)
  BY <1>1 DEF HeardOK, Once
<1>4. ResponseFirst(lg, r)
  <2>1. ASSUME NEW i \in DOMAIN r, r[i].kind \in Told, lg = << >>
        PROVE  \E j \in 1..i : r[j].kind = "response"
    <3>1. PICK j \in 1..(i + 1) : q[j].kind = "response"
      BY <1>1, <2>1 DEF HeardOK, ResponseFirst
    <3>2. j \in DOMAIN q
      BY <1>1 DEF Shorter
    <3>3. j - 1 \in DOMAIN r /\ r[j - 1] = q[j]
      BY <3>1, <3>2, <1>2 DEF Told
    <3>4. j - 1 \in 1..i
      BY <1>1, <3>1, <3>3 DEF Shorter
    <3> QED
      BY <3>1, <3>3, <3>4
  <2> QED
    BY <2>1 DEF HeardOK, ResponseFirst
<1>5. s \in R => lg # << >> \/ HasKind(r, "response")
  BY <1>2 DEF HeardOK, HasKind, Told
<1>6. s \notin D => Never("result", lg, r)
  BY <1>1 DEF HeardOK, Never
<1>7. s \in R => Knows(dc, r, ctx)
  BY KnowsBehind DEF HeardOK, Told
<1>8. s \notin R => \A i \in DOMAIN r : r[i].kind \notin Told
  BY <1>1 DEF HeardOK
<1> QED
  BY <1>3, <1>4, <1>5, <1>6, <1>7, <1>8 DEF HeardOK

\* A message that is told: the first of them is the response, which answers.
LEMMA HeardTold ==
  ASSUME NEW st, NEW lg, NEW lg2, NEW dc, NEW q, NEW r, NEW m, NEW s, NEW R, NEW D, NEW ctx,
         HeardOK(st, lg, dc, q, s, R, D, ctx), Shorter(r, q, m), m.kind \in Told,
         lg \in Seq(Told), Longer(lg2, lg, m.kind)
  PROVE  HeardOK(IF m.kind = "response" /\ st = "asked" THEN "answered" ELSE st, lg2,
                 IF m.kind \in {"response", "context"} THEN m.context ELSE dc, r, s, R, D, ctx)
<1>1. \A i \in DOMAIN r : i \in Nat /\ i + 1 \in DOMAIN q /\ r[i] = q[i + 1]
  BY DEF Shorter
<1>2. 1 \in DOMAIN q /\ q[1] = m
  BY LeftOver
<1>3. s \in R
  BY <1>2 DEF HeardOK
<1>4. st # "loaded"
  BY <1>3 DEF HeardOK
<1>5. lg = << >> => m.kind = "response"
  <2>1. lg = << >> => \E j \in 1..1 : q[j].kind = "response"
    BY <1>2 DEF HeardOK, ResponseFirst
  <2> QED
    BY <2>1, <1>2
<1>6. lg2 # << >> /\ lg2[1] = "response"
  <2>1. CASE lg = << >>
    BY <2>1, <1>5 DEF Longer
  <2>2. CASE lg # << >>
    <3>1. 1 \in DOMAIN lg /\ lg[1] = "response"
      BY <2>2 DEF HeardOK, ResponseFirst
    <3> QED
      BY <3>1 DEF Longer
  <2> QED
    BY <2>1, <2>2
<1>7. ASSUME NEW k, Once(k, lg, q)
      PROVE  Once(k, lg2, r)
  <2>1. \A i \in DOMAIN lg2 : (i \in DOMAIN lg /\ lg2[i] = lg[i]) \/ (i = Len(lg) + 1 /\ lg2[i] = q[1].kind)
    BY <1>2 DEF Longer
  <2>2. \A i \in DOMAIN r : i + 1 # 1
    BY DEF Shorter
  <2>3. \A i, j \in DOMAIN r : r[i].kind = k /\ r[j].kind = k => i = j
    BY <1>1, <1>7 DEF Once
  <2>4. \A i, j \in DOMAIN lg2 : lg2[i] = k /\ lg2[j] = k => i = j
    BY <2>1, <1>2, <1>7 DEF Once
  <2>5. \A i \in DOMAIN lg2, j \in DOMAIN r : ~(lg2[i] = k /\ r[j].kind = k)
    BY <2>1, <2>2, <1>1, <1>2, <1>7 DEF Once
  <2> QED
    BY <2>3, <2>4, <2>5 DEF Once
<1>8. Once("response", lg2, r) /\ Once("result", lg2, r)
  BY <1>7 DEF HeardOK
<1>9. ResponseFirst(lg2, r)
  BY <1>6 DEF ResponseFirst
<1>10. s \notin D => Never("result", lg2, r)
  BY <1>1, <1>2 DEF HeardOK, Never, Longer
<1>11. Knows(IF m.kind \in {"response", "context"} THEN m.context ELSE dc, r, ctx)
  BY KnowsBehind, <1>3 DEF HeardOK
<1>12. st = "asked" => lg = << >>
  BY DEF HeardOK
<1>13. s \in D => st = "ready"
  BY DEF HeardOK
<1> QED
  BY <1>3, <1>4, <1>5, <1>6, <1>8, <1>9, <1>10, <1>11, <1>12, <1>13 DEF HeardOK

\* A document that has not asked is not answered.
LEMMA HearsAsked ==
  ASSUME NEW lg, NEW dc, NEW q, NEW s, NEW R, NEW D, NEW ctx,
         HeardOK("loaded", lg, dc, q, s, R, D, ctx)
  PROVE  HeardOK("asked", lg, dc, q, s, R, D, ctx) /\ s \notin R
BY DEF HeardOK

\* A document has its answer before it confirms it.
LEMMA HearsConfirmed ==
  ASSUME NEW lg, NEW dc, NEW q, NEW s, NEW R, NEW D, NEW ctx,
         HeardOK("answered", lg, dc, q, s, R, D, ctx)
  PROVE  HeardOK("ready", lg, dc, q, s, R, D, ctx) /\ s \in R
BY DEF HeardOK

----------------------------------------------------------------------------
\* What a document says once it is ready is no handshake.
LEMMA SaysMore ==
  ASSUME NEW st, NEW p, NEW r, NEW m, NEW s, NEW R, SaidOK(st, p, s, R), Longer(r, p, m),
         st = "ready", m.kind # "initialize"
  PROVE  SaidOK(st, r, s, R)
BY DEF SaidOK, Longer

\* The first thing a document says is that it initializes.
LEMMA SaysInitialize ==
  ASSUME NEW p, NEW r, NEW m, NEW S, p \in Seq(S), r = Append(p, m), m \in S, NEW s, NEW R,
         SaidOK("loaded", p, s, R), s \notin R, m.kind = "initialize"
  PROVE  SaidOK("asked", r, s, R)
BY DEF SaidOK

\* A document says that it is initialized, and is ready then.
LEMMA SaysInitialized ==
  ASSUME NEW p, NEW r, NEW m, NEW s, NEW R, SaidOK("answered", p, s, R), Longer(r, p, m), m.kind = "initialized"
  PROVE  SaidOK("ready", r, s, R)
<1>1. \A i \in DOMAIN p : p[i].kind # "initialize"
  BY DEF SaidOK
<1> QED
  BY <1>1 DEF SaidOK, Longer

\* The messages of a document are handled in order; one that initializes is alone.
LEMMA SaidBefore ==
  ASSUME NEW S, NEW st, NEW p \in Seq(S), NEW s, NEW R, SaidOK(st, p, s, R), p # << >>
  PROVE  /\ SaidOK(st, Tail(p), s, R)
         /\ Head(p).kind = "initialize" => st = "asked" /\ s \notin R /\ \A R2 : SaidOK(st, Tail(p), s, R2)
         /\ Head(p).kind = "initialized" => st = "ready"
<1>1. Shorter(Tail(p), p, Head(p))
  BY TailShorter
<1>2. 1 \in DOMAIN p /\ p[1] = Head(p) /\ (Len(p) = 1 => Tail(p) = << >>) /\ st # "loaded"
  BY DEF SaidOK
<1>3. \A i \in DOMAIN Tail(p) : i + 1 \in DOMAIN p /\ Tail(p)[i] = p[i + 1] /\ Len(p) # 1
  BY <1>1 DEF Shorter
<1>4. SaidOK(st, Tail(p), s, R)
  BY <1>2, <1>3 DEF SaidOK
<1>5. Head(p).kind = "initialize" => st = "asked" /\ s \notin R /\ Tail(p) = << >>
  BY <1>2 DEF SaidOK
<1>6. \A R2 : SaidOK("asked", << >>, s, R2)
  BY DEF SaidOK
<1>7. Head(p).kind = "initialized" => st = "ready"
  BY <1>2 DEF SaidOK
<1> QED
  BY <1>4, <1>5, <1>6, <1>7

\* A document that was answered has nothing of its handshake under way.
LEMMA SaidAnswered ==
  ASSUME NEW p, NEW s, NEW R, SaidOK("asked", p, s, R), s \in R
  PROVE  SaidOK("answered", p, s, R)
BY DEF SaidOK

----------------------------------------------------------------------------
\* What the page did for other frames makes no difference to one.
LEMMA SameAnswered ==
  ASSUME NEW st, NEW lg, NEW dc, NEW p, NEW q, NEW s, NEW R, NEW R2, NEW D, NEW D2, NEW ctx,
         s \in R <=> s \in R2, s \in D <=> s \in D2
  PROVE  /\ SaidOK(st, p, s, R) => SaidOK(st, p, s, R2)
         /\ HeardOK(st, lg, dc, q, s, R, D, ctx) => HeardOK(st, lg, dc, q, s, R2, D2, ctx)
BY DEF SaidOK, HeardOK

\* A frame an action does not touch stays as it was.
LEMMA Untouched ==
  ASSUME NEW s, FirstOK(s), doc'[s] = doc[s], toPage'[s] = toPage[s], toFrame'[s] = toFrame[s],
         lastContext'[s] = lastContext[s],
         s \in responded <=> s \in responded', s \in delivered <=> s \in delivered'
  PROVE  FirstOK(s)'
BY SameAnswered DEF FirstOK

\* An action of the documents leaves what the page remembers alone.
LEMMA PageStill ==
  ASSUME PageInv, UNCHANGED <<page, size, resizing>>
  PROVE  /\ Remembers' /\ RelaysConfined' /\ responded' \subseteq SlotSet
         /\ UNCHANGED <<responded, delivered, catalogs, lastContext>>
BY DEF PageInv, page, Remembers, Context, ProxyConfined, RelaysConfined

\* A post is behind what its document posted before.
LEMMA Posted ==
  ASSUME PageTypes, NEW s \in SlotSet, NEW m \in PageMessage, Post(s, m)
  PROVE  /\ toPage' \in [SlotSet -> Seq(PageMessage)]
         /\ Longer(toPage'[s], toPage[s], m)
         /\ toPage'[s] = Append(toPage[s], m) /\ toPage[s] \in Seq(PageMessage)
         /\ \A t \in SlotSet : t # s => toPage'[t] = toPage[t]
<1>1. toPage \in [SlotSet -> Seq(PageMessage)]
  BY DEF PageTypes
<1>2. toPage[s] \in Seq(PageMessage)
  BY <1>1
<1>3. Append(toPage[s], m) \in Seq(PageMessage)
  BY <1>2
<1>4. Longer(Append(toPage[s], m), toPage[s], m)
  BY <1>2, AppendLonger
<1> HIDE DEF PageMessage
<1> QED
  BY <1>1, <1>2, <1>3, <1>4 DEF Post

\* A message to a frame is behind what was sent to it before.
LEMMA AnswerSent ==
  ASSUME PageTypes, NEW s \in SlotSet, NEW m \in FrameMessage, Send(s, m)
  PROVE  /\ toFrame' \in [SlotSet -> Seq(FrameMessage)]
         /\ Longer(toFrame'[s], toFrame[s], m)
         /\ \A t \in SlotSet : t # s => toFrame'[t] = toFrame[t]
<1>1. toFrame \in [SlotSet -> Seq(FrameMessage)]
  BY DEF PageTypes
<1>2. toFrame[s] \in Seq(FrameMessage)
  BY <1>1
<1>3. Append(toFrame[s], m) \in Seq(FrameMessage)
  BY <1>2
<1>4. Longer(Append(toFrame[s], m), toFrame[s], m)
  BY <1>2, AppendLonger
<1> QED
  BY <1>1, <1>3, <1>4 DEF Send

\* The first ui/initialize of a document.
LEMMA HandshakesStep ==
  ASSUME PageInv, NEW s \in SlotSet, NEW c \in Catalogs[s], Handshakes(s, c)
  PROVE  PageInv'
<1> DEFINE m == [kind |-> "initialize", catalog |-> c, own |-> doc[s].own]
<1>1. doc \in [SlotSet -> Document] /\ doc[s] \in Document
  BY DEF PageInv, PageTypes
<1>2. m \in PageMessage
  BY <1>1 DEF PageMessage, AnyCatalog, Document
<1>3. /\ toPage' \in [SlotSet -> Seq(PageMessage)]
      /\ toPage'[s] = Append(toPage[s], m) /\ toPage[s] \in Seq(PageMessage)
      /\ \A t \in SlotSet : t # s => toPage'[t] = toPage[t]
  BY <1>2, Posted DEF Handshakes, PageInv
<1>4. /\ doc' \in [SlotSet -> Document]
      /\ \A t \in SlotSet : t # s => doc'[t] = doc[t]
      /\ doc[s].state = "loaded" /\ doc'[s].state = "asked" /\ doc'[s].load = doc[s].load /\ doc'[s].own = doc[s].own
      /\ doc'[s].log = doc[s].log /\ doc'[s].context = doc[s].context
  BY <1>1 DEF Handshakes, Document
<1>5. toFrame' = toFrame /\ UNCHANGED <<page, size, resizing, sends>>
  BY DEF Handshakes
<1>6. /\ Remembers' /\ RelaysConfined' /\ responded' \subseteq SlotSet
      /\ UNCHANGED <<responded, delivered, catalogs, lastContext>>
  BY <1>5, PageStill
<1>7. PageTypes'
  BY <1>3, <1>4, <1>5, <1>6 DEF PageInv, PageTypes
<1>8. ASSUME NEW t \in SlotSet, t # s
      PROVE  FirstOK(t)'
  BY <1>3, <1>4, <1>5, <1>6, <1>8, Untouched DEF PageInv, FirstDocuments
<1>9. FirstOK(s)'
  <2>1. SUFFICES ASSUME doc[s].load = 0
                 PROVE  /\ doc[s].own
                        /\ SaidOK("asked", toPage'[s], s, responded)
                        /\ HeardOK("asked", doc[s].log, doc[s].context, toFrame[s], s, responded, delivered, lastContext[s])
    BY <1>4, <1>5, <1>6 DEF FirstOK
  <2>2. /\ doc[s].own
        /\ SaidOK("loaded", toPage[s], s, responded)
        /\ HeardOK("loaded", doc[s].log, doc[s].context, toFrame[s], s, responded, delivered, lastContext[s])
    BY <1>4, <2>1 DEF PageInv, FirstDocuments, FirstOK
  <2>3. HeardOK("asked", doc[s].log, doc[s].context, toFrame[s], s, responded, delivered, lastContext[s]) /\ s \notin responded
    BY <2>2, HearsAsked
  <2>4. m.kind = "initialize"
    OBVIOUS
  <2>5. SaidOK("asked", toPage'[s], s, responded)
    <3> HIDE DEF m
    <3> QED
      BY <1>2, <1>3, <2>2, <2>3, <2>4, SaysInitialize
  <2> QED
    BY <2>2, <2>3, <2>5
<1> QED
  BY <1>6, <1>7, <1>8, <1>9 DEF PageInv, FirstDocuments

\* Of the first documents only one that is ready emits or asks.
LEMMA SpeaksStep ==
  ASSUME PageInv, NEW s \in SlotSet, NEW m \in PageMessage, m.kind # "initialize",
         doc[s].state = "ready" \/ ~doc[s].own, Post(s, m),
         UNCHANGED <<doc, toFrame, size, resizing, page>>, sends' \in Nat
  PROVE  PageInv'
<1>1. /\ toPage' \in [SlotSet -> Seq(PageMessage)]
      /\ Longer(toPage'[s], toPage[s], m)
      /\ \A t \in SlotSet : t # s => toPage'[t] = toPage[t]
  BY Posted DEF PageInv
<1>2. /\ Remembers' /\ RelaysConfined' /\ responded' \subseteq SlotSet
      /\ UNCHANGED <<responded, delivered, catalogs, lastContext>>
  BY PageStill
<1>3. PageTypes'
  BY <1>1, <1>2 DEF PageInv, PageTypes
<1>4. ASSUME NEW t \in SlotSet, t # s
      PROVE  FirstOK(t)'
  BY <1>1, <1>2, <1>4, Untouched DEF PageInv, FirstDocuments
<1>5. FirstOK(s)'
  <2>1. SUFFICES ASSUME doc[s].load = 0
                 PROVE  /\ doc[s].own
                        /\ SaidOK(doc[s].state, toPage'[s], s, responded)
                        /\ HeardOK(doc[s].state, doc[s].log, doc[s].context, toFrame[s], s, responded, delivered, lastContext[s])
    BY <1>2 DEF FirstOK
  <2>2. /\ doc[s].own
        /\ SaidOK(doc[s].state, toPage[s], s, responded)
        /\ HeardOK(doc[s].state, doc[s].log, doc[s].context, toFrame[s], s, responded, delivered, lastContext[s])
    BY <2>1 DEF PageInv, FirstDocuments, FirstOK
  <2> QED
    BY <1>1, <2>2, SaysMore
<1> QED
  BY <1>2, <1>3, <1>4, <1>5 DEF PageInv, FirstDocuments

\* An event is a message of a document that is ready.
LEMMA EmitsStep ==
  ASSUME PageInv, NEW s \in SlotSet, NEW rule \in Range(Rules) \cup Range(PortRules), Emits(s, rule.event)
  PROVE  PageInv'
<1> DEFINE m == [kind |-> "event", event |-> rule.event, own |-> doc[s].own]
<1>1. doc[s].own \in BOOLEAN
  BY DEF PageInv, PageTypes, Document
<1>2. m \in PageMessage /\ m.kind # "initialize"
  BY <1>1 DEF PageMessage, AnyEventOf
<1>3. sends' \in Nat
  BY DEF Emits, PageInv, PageTypes
<1> QED
  BY <1>2, <1>3, SpeaksStep DEF Emits

\* A request is a message of a document that is ready, or of another origin.
LEMMA AsksStep ==
  ASSUME PageInv, NEW s \in SlotSet, NEW request \in Requests, Asks(s, request)
  PROVE  PageInv'
<1> DEFINE m == [kind |-> "request", request |-> request, own |-> doc[s].own]
<1>1. doc[s].own \in BOOLEAN
  BY DEF PageInv, PageTypes, Document
<1>2. m \in PageMessage /\ m.kind # "initialize"
  BY <1>1 DEF PageMessage
<1>3. sends' \in Nat
  BY DEF Asks, PageInv, PageTypes
<1> QED
  BY <1>2, <1>3, SpeaksStep DEF Asks

\* A document that was answered says so, and is ready.
LEMMA ConfirmsStep ==
  ASSUME PageInv, NEW s \in SlotSet, Confirms(s)
  PROVE  PageInv'
<1> DEFINE m == [kind |-> "initialized", own |-> doc[s].own]
<1>1. doc \in [SlotSet -> Document] /\ doc[s] \in Document
  BY DEF PageInv, PageTypes
<1>2. m \in PageMessage /\ m.kind = "initialized"
  BY <1>1 DEF PageMessage, Document
<1>3. /\ toPage' \in [SlotSet -> Seq(PageMessage)]
      /\ Longer(toPage'[s], toPage[s], m)
      /\ \A t \in SlotSet : t # s => toPage'[t] = toPage[t]
  BY <1>2, Posted DEF Confirms, PageInv
<1>4. /\ doc' \in [SlotSet -> Document]
      /\ \A t \in SlotSet : t # s => doc'[t] = doc[t]
      /\ doc[s].state = "answered" /\ doc'[s].state = "ready" /\ doc'[s].load = doc[s].load /\ doc'[s].own = doc[s].own
      /\ doc'[s].log = doc[s].log /\ doc'[s].context = doc[s].context
  BY <1>1 DEF Confirms, Document
<1>5. toFrame' = toFrame /\ UNCHANGED <<page, size, resizing, sends>>
  BY DEF Confirms
<1>6. /\ Remembers' /\ RelaysConfined' /\ responded' \subseteq SlotSet
      /\ UNCHANGED <<responded, delivered, catalogs, lastContext>>
  BY <1>5, PageStill
<1>7. PageTypes'
  BY <1>3, <1>4, <1>5, <1>6 DEF PageInv, PageTypes
<1>8. ASSUME NEW t \in SlotSet, t # s
      PROVE  FirstOK(t)'
  BY <1>3, <1>4, <1>5, <1>6, <1>8, Untouched DEF PageInv, FirstDocuments
<1>9. FirstOK(s)'
  <2>1. SUFFICES ASSUME doc[s].load = 0
                 PROVE  /\ doc[s].own
                        /\ SaidOK("ready", toPage'[s], s, responded)
                        /\ HeardOK("ready", doc[s].log, doc[s].context, toFrame[s], s, responded, delivered, lastContext[s])
    BY <1>4, <1>5, <1>6 DEF FirstOK
  <2>2. /\ doc[s].own
        /\ SaidOK("answered", toPage[s], s, responded)
        /\ HeardOK("answered", doc[s].log, doc[s].context, toFrame[s], s, responded, delivered, lastContext[s])
    BY <1>4, <2>1 DEF PageInv, FirstDocuments, FirstOK
  <2>3. HeardOK("ready", doc[s].log, doc[s].context, toFrame[s], s, responded, delivered, lastContext[s])
    BY <2>2, HearsConfirmed
  <2>4. SaidOK("ready", toPage'[s], s, responded)
    <3> HIDE DEF m
    <3> QED
      BY <1>2, <1>3, <2>2, SaysInitialized
  <2> QED
    BY <2>2, <2>3, <2>4
<1> QED
  BY <1>6, <1>7, <1>8, <1>9 DEF PageInv, FirstDocuments

\* A frame that was replaced is no first document any more.
LEMMA ReplacesStep ==
  ASSUME PageInv, NEW s \in SlotSet, NEW own \in BOOLEAN, Replaces(s, own)
  PROVE  PageInv'
<1>1. doc \in [SlotSet -> Document] /\ toFrame \in [SlotSet -> Seq(FrameMessage)]
  BY DEF PageInv, PageTypes
<1>2. Loaded(1, own) \in Document /\ Loaded(1, own).load = 1
  BY DEF Loaded, Document
<1>3. /\ doc' \in [SlotSet -> Document] /\ doc'[s].load = 1
      /\ \A t \in SlotSet : t # s => doc'[t] = doc[t]
  BY <1>1, <1>2 DEF Replaces
<1>4. /\ toFrame' \in [SlotSet -> Seq(FrameMessage)]
      /\ \A t \in SlotSet : t # s => toFrame'[t] = toFrame[t]
  BY <1>1 DEF Replaces
<1>5. UNCHANGED <<toPage, size, resizing, sends, page>>
  BY DEF Replaces
<1>6. /\ Remembers' /\ RelaysConfined' /\ responded' \subseteq SlotSet
      /\ UNCHANGED <<responded, delivered, catalogs, lastContext>>
  BY <1>5, PageStill
<1>7. PageTypes'
  BY <1>3, <1>4, <1>5, <1>6 DEF PageInv, PageTypes
<1>8. ASSUME NEW t \in SlotSet, t # s
      PROVE  FirstOK(t)'
  BY <1>3, <1>4, <1>5, <1>6, <1>8, Untouched DEF PageInv, FirstDocuments
<1>9. FirstOK(s)'
  BY <1>3 DEF FirstOK
<1> QED
  BY <1>6, <1>7, <1>8, <1>9 DEF PageInv, FirstDocuments

\* A document receives the next message, if it is of the origin meant.
LEMMA ReceivesStep ==
  ASSUME PageInv, NEW s \in SlotSet, Receives(s)
  PROVE  PageInv'
<1>1. /\ doc \in [SlotSet -> Document] /\ doc[s] \in Document
      /\ toFrame \in [SlotSet -> Seq(FrameMessage)] /\ toFrame[s] \in Seq(FrameMessage) /\ toFrame[s] # << >>
  BY DEF PageInv, PageTypes, Receives
<1>2. Tail(toFrame[s]) \in Seq(FrameMessage) /\ Shorter(Tail(toFrame[s]), toFrame[s], Head(toFrame[s]))
  BY <1>1, TailShorter
<1>3. PICK m \in FrameMessage : m = Head(toFrame[s])
  BY <1>1
<1>4. /\ toFrame' \in [SlotSet -> Seq(FrameMessage)] /\ Shorter(toFrame'[s], toFrame[s], m)
      /\ \A t \in SlotSet : t # s => toFrame'[t] = toFrame[t]
  BY <1>1, <1>2, <1>3 DEF Receives
<1>5. UNCHANGED <<toPage, size, resizing, sends, page>>
  BY DEF Receives
<1>6. /\ Remembers' /\ RelaysConfined' /\ responded' \subseteq SlotSet
      /\ UNCHANGED <<responded, delivered, catalogs, lastContext>>
  BY <1>5, PageStill
<1> DEFINE log == IF m.kind \in Told THEN Append(doc[s].log, m.kind) ELSE doc[s].log
           state == IF m.kind = "response" /\ doc[s].state = "asked" THEN "answered" ELSE doc[s].state
           context == IF m.kind \in {"response", "context"} THEN m.context ELSE doc[s].context
<1>7. log \in Seq(Told)
  BY <1>1 DEF Document
<1>8. context \in Contexts \cup {Absent}
  BY <1>1 DEF Document, FrameMessage, Plainly, Telling
<1>9. state \in {"loaded", "asked", "answered", "ready"}
  BY <1>1 DEF Document
<1>10. doc' = IF ~doc[s].own THEN doc ELSE
                [doc EXCEPT ![s].log = log, ![s].state = state, ![s].context = context]
  BY <1>3 DEF Receives
<1>11. /\ doc' \in [SlotSet -> Document]
       /\ \A t \in SlotSet : t # s => doc'[t] = doc[t]
       /\ doc'[s].load = doc[s].load /\ doc'[s].own = doc[s].own
       /\ doc[s].own => doc'[s].log = log /\ doc'[s].state = state /\ doc'[s].context = context
  <2> HIDE DEF log, state, context
  <2> QED
    BY <1>1, <1>7, <1>8, <1>9, <1>10 DEF Document
<1>12. PageTypes'
  BY <1>4, <1>5, <1>6, <1>11 DEF PageInv, PageTypes
<1>13. ASSUME NEW t \in SlotSet, t # s
       PROVE  FirstOK(t)'
  BY <1>4, <1>5, <1>6, <1>11, <1>13, Untouched DEF PageInv, FirstDocuments
<1>14. FirstOK(s)'
  <2>1. SUFFICES ASSUME doc[s].load = 0, doc[s].own
                 PROVE  /\ SaidOK(state, toPage[s], s, responded)
                        /\ HeardOK(state, log, context, toFrame'[s], s, responded, delivered, lastContext[s])
    <3> HIDE DEF log, state, context
    <3>1. doc[s].load = 0 => doc[s].own
      BY DEF PageInv, FirstDocuments, FirstOK
    <3> QED
      BY <3>1, <1>5, <1>6, <1>11 DEF FirstOK
  <2>2. /\ SaidOK(doc[s].state, toPage[s], s, responded)
        /\ HeardOK(doc[s].state, doc[s].log, doc[s].context, toFrame[s], s, responded, delivered, lastContext[s])
    BY <2>1 DEF PageInv, FirstDocuments, FirstOK
  <2>3. CASE m.kind \notin Told
    <3>1. log = doc[s].log /\ state = doc[s].state /\ context = doc[s].context
      BY <2>3 DEF Told
    <3> QED
      BY <2>2, <2>3, <3>1, <1>4, HeardNothing
  <2>4. CASE m.kind \in Told
    <3>1. doc[s].log \in Seq(Told)
      BY <1>1 DEF Document
    <3>2. Longer(log, doc[s].log, m.kind)
      BY <2>4, <3>1, AppendLonger
    <3>3. HeardOK(state, log, context, toFrame'[s], s, responded, delivered, lastContext[s])
      <4> HIDE DEF log
      <4> QED
        BY <2>2, <2>4, <3>1, <3>2, <1>4, HeardTold
    <3>4. m.kind = "response" /\ doc[s].state = "asked" => s \in responded
      <4>1. 1 \in DOMAIN toFrame[s] /\ toFrame[s][1] = m
        BY <1>4, LeftOver
      <4> QED
        BY <4>1, <2>2, <2>4 DEF HeardOK
    <3>5. SaidOK(state, toPage[s], s, responded)
      BY <2>2, <3>4, SaidAnswered
    <3> QED
      BY <3>3, <3>5
  <2> QED
    BY <2>3, <2>4
<1> QED
  BY <1>6, <1>12, <1>13, <1>14 DEF PageInv, FirstDocuments

----------------------------------------------------------------------------
\* A context is a size and the status of a surface.
LEMMA ContextTyped ==
  ASSUME size \in Sizes, NEW s, NEW cs
  PROVE  Context(s, cs) \in Contexts
<1>1. SurfaceStatus(cs[s], Requested[s]) \in {"legacy", "unresolved", "ready"}
  BY DEF SurfaceStatus
<1> QED
  BY <1>1 DEF Context, Contexts

\* The page takes the next message of a document, and changes no document.
LEMMA Handled ==
  ASSUME PageInv, NEW s \in SlotSet, Handles(s)
  PROVE  /\ Head(toPage[s]) \in PageMessage /\ toPage[s] # << >> /\ toPage[s] \in Seq(PageMessage)
         /\ toPage' \in [SlotSet -> Seq(PageMessage)] /\ toPage'[s] = Tail(toPage[s])
         /\ \A t \in SlotSet : t # s => toPage'[t] = toPage[t]
         /\ UNCHANGED <<doc, size, resizing, sends>>
<1>1. toPage \in [SlotSet -> Seq(PageMessage)] /\ toPage[s] \in Seq(PageMessage) /\ toPage[s] # << >>
  BY DEF PageInv, PageTypes, Handles
<1>2. Head(toPage[s]) \in PageMessage /\ Tail(toPage[s]) \in Seq(PageMessage)
  BY <1>1
<1> QED
  BY <1>1, <1>2 DEF Handles

\* A message that has no effect leaves the rest as it was.
LEMMA HandlesRefused ==
  ASSUME PageInv, NEW s \in SlotSet, Handles(s), UNCHANGED <<toFrame, page>>
  PROVE  PageInv'
<1>1. /\ toPage[s] # << >> /\ toPage[s] \in Seq(PageMessage)
      /\ toPage' \in [SlotSet -> Seq(PageMessage)] /\ toPage'[s] = Tail(toPage[s])
      /\ \A t \in SlotSet : t # s => toPage'[t] = toPage[t]
      /\ UNCHANGED <<doc, size, resizing, sends>>
  BY Handled
<1>2. /\ Remembers' /\ RelaysConfined' /\ responded' \subseteq SlotSet
      /\ UNCHANGED <<responded, delivered, catalogs, lastContext>>
  BY <1>1, PageStill
<1>3. PageTypes'
  BY <1>1, <1>2 DEF PageInv, PageTypes
<1>4. ASSUME NEW t \in SlotSet, t # s
      PROVE  FirstOK(t)'
  BY <1>1, <1>2, <1>4, Untouched DEF PageInv, FirstDocuments
<1>5. FirstOK(s)
  BY DEF PageInv, FirstDocuments
<1>6. FirstOK(s)'
  BY <1>1, <1>2, <1>5, SaidBefore DEF FirstOK
<1> QED
  BY <1>2, <1>3, <1>4, <1>6 DEF PageInv, FirstDocuments

\* The page answers a document and remembers what it told it.
LEMMA HandlesInitialize ==
  ASSUME PageInv, NEW s \in SlotSet, Handles(s), NEW m, m = Head(toPage[s]),
         m.kind = "initialize", OnInitialize(s, m)
  PROVE  PageInv'
<1>1. /\ toPage[s] # << >> /\ toPage[s] \in Seq(PageMessage) /\ m \in PageMessage
      /\ toPage' \in [SlotSet -> Seq(PageMessage)] /\ toPage'[s] = Tail(toPage[s])
      /\ \A t \in SlotSet : t # s => toPage'[t] = toPage[t]
      /\ UNCHANGED <<doc, size, resizing, sends>>
  BY Handled
<1>2. m.catalog \in AnyCatalog
  BY <1>1 DEF PageMessage
<1>3. catalogs \in [SlotSet -> AnyCatalog] /\ lastContext \in [SlotSet -> Contexts \cup {Absent}] /\ size \in Sizes
  BY DEF PageInv, PageTypes
<1>4. catalogs' \in [SlotSet -> AnyCatalog] /\ \A t \in SlotSet : t # s => catalogs'[t] = catalogs[t]
  BY <1>2, <1>3 DEF OnInitialize
<1>5. PICK c \in Contexts : c = Context(s, catalogs')
  BY <1>3, ContextTyped
<1>6. /\ lastContext' = [lastContext EXCEPT ![s] = c]
      /\ responded' = responded \cup {s}
      /\ Send(s, [kind |-> "response", context |-> c])
      /\ UNCHANGED <<delivered, relays, asked>>
  BY <1>5 DEF OnInitialize
<1>7. /\ lastContext' \in [SlotSet -> Contexts \cup {Absent}] /\ lastContext'[s] = c
      /\ \A t \in SlotSet : t # s => lastContext'[t] = lastContext[t]
  BY <1>3, <1>6
<1>8. PICK r \in FrameMessage : r = [kind |-> "response", context |-> c]
  BY DEF FrameMessage, Telling
<1>9. /\ toFrame' \in [SlotSet -> Seq(FrameMessage)]
      /\ Longer(toFrame'[s], toFrame[s], r)
      /\ \A t \in SlotSet : t # s => toFrame'[t] = toFrame[t]
  BY <1>6, <1>8, AnswerSent DEF PageInv
<1>10. PageTypes'
  BY <1>1, <1>4, <1>7, <1>9 DEF PageInv, PageTypes
<1>11. responded' \subseteq SlotSet /\ RelaysConfined'
  BY <1>6 DEF PageInv, RelaysConfined, ProxyConfined
<1>12. Remembers'
  <2>1. ASSUME ~resizing, NEW t \in responded'
        PROVE  lastContext'[t] = Context(t, catalogs)'
    <3>1. CASE t = s
      BY <3>1, <1>1, <1>5, <1>7 DEF Context
    <3>2. CASE t # s
      <4>1. t \in responded /\ t \in SlotSet
        BY <2>1, <3>2, <1>6 DEF PageInv
      <4>2. lastContext[t] = Context(t, catalogs)
        BY <4>1, <2>1 DEF PageInv, Remembers
      <4> QED
        BY <4>1, <4>2, <3>2, <1>1, <1>4, <1>7 DEF Context
    <3> QED
      BY <3>1, <3>2
  <2> QED
    BY <2>1, <1>1 DEF Remembers
<1>13. ASSUME NEW t \in SlotSet, t # s
       PROVE  FirstOK(t)'
  <2>1. (t \in responded <=> t \in responded') /\ (t \in delivered <=> t \in delivered')
    BY <1>6, <1>13
  <2>2. FirstOK(t)
    BY DEF PageInv, FirstDocuments
  <2> QED
    BY <2>1, <2>2, <1>1, <1>7, <1>9, <1>13, Untouched
<1>14. FirstOK(s)'
  <2>1. SUFFICES ASSUME doc[s].load = 0
                 PROVE  /\ doc[s].own
                        /\ SaidOK(doc[s].state, toPage'[s], s, responded')
                        /\ HeardOK(doc[s].state, doc[s].log, doc[s].context, toFrame'[s], s, responded', delivered, c)
    BY <1>1, <1>6, <1>7 DEF FirstOK
  <2>2. /\ doc[s].own
        /\ SaidOK(doc[s].state, toPage[s], s, responded)
        /\ HeardOK(doc[s].state, doc[s].log, doc[s].context, toFrame[s], s, responded, delivered, lastContext[s])
    BY <2>1 DEF PageInv, FirstDocuments, FirstOK
  <2>3. doc[s].state = "asked" /\ s \notin responded /\ SaidOK(doc[s].state, toPage'[s], s, responded')
    <3>1. SaidOK(doc[s].state, toPage[s], s, responded) /\ Head(toPage[s]).kind = "initialize"
      BY <2>2
    <3>2. doc[s].state = "asked" /\ s \notin responded /\ \A R2 : SaidOK(doc[s].state, Tail(toPage[s]), s, R2)
      BY <3>1, <1>1, SaidBefore, Zenon
    <3> QED
      BY <3>2, <1>1, Zenon
  <2>4. s \in responded' /\ r.kind = "response" /\ r.context = c
    BY <1>6, <1>8
  <2>5. HeardOK(doc[s].state, doc[s].log, doc[s].context, toFrame'[s], s, responded', delivered, c)
    BY <2>2, <2>3, <2>4, <1>9, HearsResponse
  <2> QED
    BY <2>2, <2>3, <2>5
<1> QED
  BY <1>10, <1>11, <1>12, <1>13, <1>14 DEF PageInv, FirstDocuments

\* The page sends the result of a frame once.
LEMMA HandlesInitialized ==
  ASSUME PageInv, NEW s \in SlotSet, Handles(s), Head(toPage[s]).kind = "initialized",
         s \in responded, s \notin delivered, delivered' = delivered \cup {s}, Send(s, [kind |-> "result"]),
         UNCHANGED <<responded, catalogs, lastContext, relays, asked>>
  PROVE  PageInv'
<1>1. /\ toPage[s] # << >> /\ toPage[s] \in Seq(PageMessage)
      /\ toPage' \in [SlotSet -> Seq(PageMessage)] /\ toPage'[s] = Tail(toPage[s])
      /\ \A t \in SlotSet : t # s => toPage'[t] = toPage[t]
      /\ UNCHANGED <<doc, size, resizing, sends>>
  BY Handled
<1>2. PICK m \in FrameMessage : m = [kind |-> "result"]
  BY DEF FrameMessage, Plainly
<1>3. /\ toFrame' \in [SlotSet -> Seq(FrameMessage)]
      /\ Longer(toFrame'[s], toFrame[s], m)
      /\ \A t \in SlotSet : t # s => toFrame'[t] = toFrame[t]
  BY <1>2, AnswerSent DEF PageInv
<1>4. PageTypes'
  BY <1>1, <1>3 DEF PageInv, PageTypes
<1>5. responded' \subseteq SlotSet /\ RelaysConfined' /\ Remembers'
  BY <1>1 DEF PageInv, RelaysConfined, ProxyConfined, Remembers, Context
<1>6. ASSUME NEW t \in SlotSet, t # s
      PROVE  FirstOK(t)'
  <2>1. (t \in responded <=> t \in responded') /\ (t \in delivered <=> t \in delivered')
    BY <1>6
  <2>2. FirstOK(t)
    BY DEF PageInv, FirstDocuments
  <2> QED
    BY <2>1, <2>2, <1>1, <1>3, <1>6, Untouched
<1>7. FirstOK(s)'
  <2>1. SUFFICES ASSUME doc[s].load = 0
                 PROVE  /\ doc[s].own
                        /\ SaidOK(doc[s].state, toPage'[s], s, responded)
                        /\ HeardOK(doc[s].state, doc[s].log, doc[s].context, toFrame'[s], s, responded, delivered', lastContext[s])
    BY <1>1 DEF FirstOK
  <2>2. /\ doc[s].own
        /\ SaidOK(doc[s].state, toPage[s], s, responded)
        /\ HeardOK(doc[s].state, doc[s].log, doc[s].context, toFrame[s], s, responded, delivered, lastContext[s])
    BY <2>1 DEF PageInv, FirstDocuments, FirstOK
  <2>3. doc[s].state = "ready" /\ SaidOK(doc[s].state, toPage'[s], s, responded)
    <3>1. SaidOK(doc[s].state, toPage[s], s, responded) /\ Head(toPage[s]).kind = "initialized"
      BY <2>2
    <3>2. doc[s].state = "ready" /\ SaidOK(doc[s].state, Tail(toPage[s]), s, responded)
      BY <3>1, <1>1, SaidBefore, Zenon
    <3> QED
      BY <3>2, <1>1, Zenon
  <2>4. s \in delivered' /\ m.kind = "result"
    BY <1>2
  <2>5. HeardOK(doc[s].state, doc[s].log, doc[s].context, toFrame'[s], s, responded, delivered', lastContext[s])
    BY <2>2, <2>3, <2>4, <1>3, HearsResult
  <2> QED
    BY <2>2, <2>3, <2>5
<1> QED
  BY <1>4, <1>5, <1>6, <1>7 DEF PageInv, FirstDocuments

\* A relay that waits is of the panel the message came from.
LEMMA HandlesRequest ==
  ASSUME PageInv, NEW s \in SlotSet, Handles(s), NEW m, m.own, OnRequest(s, m)
  PROVE  PageInv'
<1>1. /\ toPage[s] # << >> /\ toPage[s] \in Seq(PageMessage)
      /\ toPage' \in [SlotSet -> Seq(PageMessage)] /\ toPage'[s] = Tail(toPage[s])
      /\ \A t \in SlotSet : t # s => toPage'[t] = toPage[t]
      /\ UNCHANGED <<doc, size, resizing, sends>>
  BY Handled
<1>2. UNCHANGED <<toFrame, responded, delivered, catalogs, lastContext, asked>>
  BY DEF OnRequest
<1>3. RelaysConfined'
  BY <1>2 DEF PageInv, RelaysConfined, ProxyConfined, OnRequest
<1>4. responded' \subseteq SlotSet /\ Remembers'
  BY <1>1, <1>2 DEF PageInv, Remembers, Context
<1>5. PageTypes'
  BY <1>1, <1>2 DEF PageInv, PageTypes
<1>6. ASSUME NEW t \in SlotSet, t # s
      PROVE  FirstOK(t)'
  BY <1>1, <1>2, <1>6, Untouched DEF PageInv, FirstDocuments
<1>7. FirstOK(s)
  BY DEF PageInv, FirstDocuments
<1>8. FirstOK(s)'
  BY <1>1, <1>2, <1>7, SaidBefore DEF FirstOK
<1> QED
  BY <1>3, <1>4, <1>5, <1>6, <1>8 DEF PageInv, FirstDocuments

\* An event reaches some frames; none of them learns of a context by it.
LEMMA HandlesEvent ==
  ASSUME PageInv, NEW s \in SlotSet, Handles(s), NEW event, OnEvent(s, event)
  PROVE  PageInv'
<1>1. /\ toPage[s] # << >> /\ toPage[s] \in Seq(PageMessage)
      /\ toPage' \in [SlotSet -> Seq(PageMessage)] /\ toPage'[s] = Tail(toPage[s])
      /\ \A t \in SlotSet : t # s => toPage'[t] = toPage[t]
      /\ UNCHANGED <<doc, size, resizing, sends>>
  BY Handled
<1>2. PICK m \in FrameMessage : m = [kind |-> "event"]
  BY DEF FrameMessage, Plainly
<1>3. PICK reached : toFrame' = [t \in SlotSet |-> IF t \in reached THEN Append(toFrame[t], m) ELSE toFrame[t]]
  BY <1>2 DEF OnEvent, Delivers
<1>4. toFrame \in [SlotSet -> Seq(FrameMessage)]
  BY DEF PageInv, PageTypes
<1>5. ASSUME NEW t \in SlotSet
      PROVE  Append(toFrame[t], m) \in Seq(FrameMessage) /\ Longer(Append(toFrame[t], m), toFrame[t], m)
  <2>1. toFrame[t] \in Seq(FrameMessage)
    BY <1>4
  <2> QED
    BY <2>1, AppendLonger
<1>6. toFrame' \in [SlotSet -> Seq(FrameMessage)]
  BY <1>3, <1>4, <1>5
<1>7. \A t \in SlotSet : toFrame'[t] = toFrame[t] \/ Longer(toFrame'[t], toFrame[t], m)
  BY <1>3, <1>5
<1>8. /\ Remembers' /\ RelaysConfined' /\ responded' \subseteq SlotSet
      /\ UNCHANGED <<responded, delivered, catalogs, lastContext>>
  BY <1>1, PageStill DEF OnEvent
<1>9. PageTypes'
  BY <1>1, <1>6, <1>8 DEF PageInv, PageTypes
<1>10. ASSUME NEW t \in SlotSet
       PROVE  FirstOK(t)'
  <2>1. SUFFICES ASSUME doc[t].load = 0
                 PROVE  /\ doc[t].own
                        /\ SaidOK(doc[t].state, toPage'[t], t, responded)
                        /\ HeardOK(doc[t].state, doc[t].log, doc[t].context, toFrame'[t], t, responded, delivered, lastContext[t])
    BY <1>1, <1>8 DEF FirstOK
  <2>2. /\ doc[t].own
        /\ SaidOK(doc[t].state, toPage[t], t, responded)
        /\ HeardOK(doc[t].state, doc[t].log, doc[t].context, toFrame[t], t, responded, delivered, lastContext[t])
    BY <2>1 DEF PageInv, FirstDocuments, FirstOK
  <2>3. SaidOK(doc[t].state, toPage'[t], t, responded)
    <3>1. CASE t = s
      <4>1. SaidOK(doc[s].state, toPage[s], s, responded)
        BY <2>2, <3>1
      <4>2. SaidOK(doc[s].state, Tail(toPage[s]), s, responded)
        BY <4>1, <1>1, SaidBefore, Zenon
      <4> QED
        BY <4>2, <3>1, <1>1, Zenon
    <3>2. CASE t # s
      BY <2>2, <3>2, <1>1
    <3> QED
      BY <3>1, <3>2
  <2>4. m.kind \notin Told
    BY <1>2 DEF Told
  <2>5. HeardOK(doc[t].state, doc[t].log, doc[t].context, toFrame'[t], t, responded, delivered, lastContext[t])
    BY <2>2, <2>4, <1>7, HearsQuiet
  <2> QED
    BY <2>2, <2>3, <2>5
<1> QED
  BY <1>8, <1>9, <1>10 DEF PageInv, FirstDocuments

\* The page handles one message, of whatever kind.
LEMMA HandlesStep ==
  ASSUME PageInv, NEW s \in SlotSet, Handles(s)
  PROVE  PageInv'
<1>1. PICK m : m = Head(toPage[s])
  OBVIOUS
<1>2. CASE ~m.own
  <2>1. UNCHANGED <<toFrame, page>>
    BY <1>1, <1>2 DEF Handles, Accepts
  <2> QED
    BY <2>1, HandlesRefused
<1>3. CASE m.own
  <2>1. \/ m.kind = "initialize" /\ OnInitialize(s, m)
        \/ m.kind = "initialized" /\ OnInitialized(s)
        \/ m.kind = "request" /\ OnRequest(s, m)
        \/ m.kind = "event" /\ OnEvent(s, m.event)
    BY <1>1, <1>3 DEF Handles, Accepts
  <2>2. CASE m.kind = "initialize" /\ OnInitialize(s, m)
    BY <2>2, <1>1, HandlesInitialize
  <2>3. CASE m.kind = "initialized" /\ OnInitialized(s)
    <3>1. CASE s \in responded /\ s \notin delivered
      BY <2>3, <3>1, <1>1, HandlesInitialized DEF OnInitialized
    <3>2. CASE ~(s \in responded /\ s \notin delivered)
      <4>1. UNCHANGED <<toFrame, page>>
        BY <2>3, <3>2 DEF OnInitialized, page
      <4> QED
        BY <4>1, HandlesRefused
    <3> QED
      BY <3>1, <3>2
  <2>4. CASE m.kind = "request" /\ OnRequest(s, m)
    BY <2>4, <1>3, HandlesRequest
  <2>5. CASE m.kind = "event" /\ OnEvent(s, m.event)
    BY <2>5, HandlesEvent
  <2> QED
    BY <2>1, <2>2, <2>3, <2>4, <2>5
<1> QED
  BY <1>2, <1>3

----------------------------------------------------------------------------
\* The proxy asks for nothing the panel was not granted, and answers.
LEMMA ProxyAnswersStep ==
  ASSUME PageInv, NEW relay \in relays, ProxyAnswers(relay)
  PROVE  PageInv'
<1> DEFINE s == relay.slot
<1>1. s \in SlotSet
  BY DEF PageInv, RelaysConfined
<1>2. PICK m \in FrameMessage : m = [kind |-> "answer"]
  BY DEF FrameMessage, Plainly
<1>3. /\ toFrame' \in [SlotSet -> Seq(FrameMessage)]
      /\ Longer(toFrame'[s], toFrame[s], m)
      /\ \A t \in SlotSet : t # s => toFrame'[t] = toFrame[t]
  BY <1>1, <1>2, AnswerSent DEF PageInv, ProxyAnswers
<1>4. /\ UNCHANGED <<doc, toPage, responded, delivered, catalogs, lastContext, size, resizing, sends>>
      /\ relays' \subseteq relays
  BY DEF ProxyAnswers
<1>5. PICK f : f = Forwards(Panel[s], relay.request)
  OBVIOUS
<1>6. f = Absent \/ (f.method = "tools/call" /\ f.target \in Panel[s].tools)
                \/ (f.method # "tools/call" /\ f.target = Panel[s].resource)
  BY <1>5 DEF Forwards
<1>7. asked' = IF f = Absent THEN asked ELSE [slot |-> s, request |-> f]
  BY <1>5 DEF ProxyAnswers
<1>8. RelaysConfined'
  <2>1. CASE f = Absent
    BY <2>1, <1>4, <1>7 DEF PageInv, RelaysConfined, ProxyConfined
  <2>2. CASE f # Absent
    <3>1. asked'.slot = s /\ asked'.request = f
      BY <2>2, <1>7
    <3> QED
      BY <2>2, <3>1, <1>4, <1>6 DEF PageInv, RelaysConfined, ProxyConfined
  <2> QED
    BY <2>1, <2>2
<1>9. PageTypes'
  BY <1>3, <1>4 DEF PageInv, PageTypes
<1>10. responded' \subseteq SlotSet /\ Remembers'
  BY <1>4 DEF PageInv, Remembers, Context
<1>11. ASSUME NEW t \in SlotSet, t # s
       PROVE  FirstOK(t)'
  BY <1>3, <1>4, <1>11, Untouched DEF PageInv, FirstDocuments
<1>12. FirstOK(s)'
  <2>1. FirstOK(s)
    BY <1>1 DEF PageInv, FirstDocuments
  <2>2. m.kind \notin Told
    BY <1>2 DEF Told
  <2> QED
    BY <2>1, <2>2, <1>3, <1>4, HearsQuiet DEF FirstOK
<1> QED
  BY <1>8, <1>9, <1>10, <1>11, <1>12 DEF PageInv, FirstDocuments

\* Until its resize event, a new size is known to nobody.
LEMMA ResizesStep ==
  ASSUME PageInv, NEW n \in Sizes, Resizes(n)
  PROVE  PageInv'
<1>1. /\ size' = n /\ resizing' = TRUE /\ sends' = sends + 1
      /\ UNCHANGED <<doc, toPage, toFrame, responded, delivered, catalogs, lastContext, relays, asked>>
  BY DEF Resizes, page
<1>2. PageTypes'
  BY <1>1 DEF PageInv, PageTypes
<1>3. RelaysConfined' /\ Remembers' /\ responded' \subseteq SlotSet
  BY <1>1 DEF PageInv, RelaysConfined, ProxyConfined, Remembers
<1>4. ASSUME NEW t \in SlotSet
      PROVE  FirstOK(t)'
  BY <1>1, Untouched DEF PageInv, FirstDocuments
<1> QED
  BY <1>2, <1>3, <1>4 DEF PageInv, FirstDocuments

\* Whoever was answered hears of what is new, and the page remembers it.
LEMMA ResizedStep ==
  ASSUME PageInv, Resized
  PROVE  PageInv'
<1> DEFINE m(s) == [kind |-> "context", context |-> Context(s, catalogs)]
<1>1. PICK told : told = {s \in responded : Context(s, catalogs) # lastContext[s]}
  OBVIOUS
<1>2. /\ toFrame' = [s \in SlotSet |-> IF s \in told THEN Append(toFrame[s], m(s)) ELSE toFrame[s]]
      /\ lastContext' = [s \in SlotSet |-> IF s \in told THEN Context(s, catalogs) ELSE lastContext[s]]
      /\ resizing' = FALSE
      /\ UNCHANGED <<doc, toPage, responded, delivered, catalogs, size, relays, asked, sends>>
  BY <1>1 DEF Resized, Remembered
<1>3. toFrame \in [SlotSet -> Seq(FrameMessage)] /\ lastContext \in [SlotSet -> Contexts \cup {Absent}] /\ size \in Sizes
  BY DEF PageInv, PageTypes
<1>4. ASSUME NEW s \in SlotSet
      PROVE  /\ Context(s, catalogs) \in Contexts /\ m(s) \in FrameMessage
             /\ Append(toFrame[s], m(s)) \in Seq(FrameMessage) /\ Longer(Append(toFrame[s], m(s)), toFrame[s], m(s))
  <2>1. Context(s, catalogs) \in Contexts
    BY <1>3, ContextTyped
  <2>2. m(s) \in FrameMessage
    BY <2>1 DEF FrameMessage, Telling
  <2>3. toFrame[s] \in Seq(FrameMessage)
    BY <1>3
  <2> HIDE DEF m
  <2> QED
    BY <2>1, <2>2, <2>3, AppendLonger
<1>5. \A s : m(s).kind = "context" /\ m(s).context = Context(s, catalogs)
  OBVIOUS
<1> HIDE DEF m
<1>6. PageTypes'
  <2>1. toFrame' \in [SlotSet -> Seq(FrameMessage)]
    BY <1>2, <1>3, <1>4
  <2>2. lastContext' \in [SlotSet -> Contexts \cup {Absent}]
    BY <1>2, <1>3, <1>4
  <2> QED
    BY <2>1, <2>2, <1>2 DEF PageInv, PageTypes
<1>7. RelaysConfined' /\ responded' \subseteq SlotSet
  BY <1>2 DEF PageInv, RelaysConfined, ProxyConfined
<1>8. Remembers'
  <2>1. ASSUME NEW s \in responded
        PROVE  lastContext'[s] = Context(s, catalogs)
    <3>1. s \in SlotSet
      BY DEF PageInv
    <3> QED
      BY <3>1, <1>1, <1>2
  <2> QED
    BY <2>1, <1>2 DEF Remembers, Context
<1>9. ASSUME NEW t \in SlotSet
      PROVE  FirstOK(t)'
  <2>1. FirstOK(t)
    BY DEF PageInv, FirstDocuments
  <2>2. CASE t \notin told
    <3>1. toFrame'[t] = toFrame[t] /\ lastContext'[t] = lastContext[t]
      BY <2>2, <1>2
    <3> QED
      BY <2>1, <3>1, <1>2, Untouched
  <2>3. CASE t \in told
    <3>1. t \in responded /\ lastContext'[t] = m(t).context /\ Longer(toFrame'[t], toFrame[t], m(t)) /\ m(t).kind = "context"
      BY <2>3, <1>1, <1>2, <1>4, <1>5
    <3> QED
      BY <2>1, <3>1, <1>2, HearsContext DEF FirstOK
  <2> QED
    BY <2>2, <2>3
<1> QED
  BY <1>6, <1>7, <1>8, <1>9 DEF PageInv, FirstDocuments

\* The invariant holds at first: every frame has a document that said nothing.
LEMMA PageInvInit == PageInit => PageInv
<1> SUFFICES ASSUME PageInit PROVE PageInv
  OBVIOUS
<1>1. Loaded(0, TRUE) \in Document
  BY DEF Loaded, Document
<1>2. PageTypes
  <2>1. doc \in [SlotSet -> Document]
    BY <1>1 DEF PageInit
  <2>2. << >> \in Seq(PageMessage) /\ << >> \in Seq(FrameMessage)
    OBVIOUS
  <2>3. toPage \in [SlotSet -> Seq(PageMessage)] /\ toFrame \in [SlotSet -> Seq(FrameMessage)]
    BY <2>2 DEF PageInit
  <2>4. catalogs \in [SlotSet -> AnyCatalog] /\ lastContext \in [SlotSet -> Contexts \cup {Absent}]
    BY DEF PageInit, AnyCatalog
  <2> QED
    BY <2>1, <2>3, <2>4 DEF PageInit, PageTypes
<1>3. RelaysConfined /\ responded \subseteq SlotSet /\ Remembers
  BY DEF PageInit, RelaysConfined, ProxyConfined, Remembers
<1>4. ASSUME NEW s \in SlotSet
      PROVE  FirstOK(s)
  <2>1. doc[s] = Loaded(0, TRUE) /\ toPage[s] = << >> /\ toFrame[s] = << >> /\ responded = {} /\ delivered = {}
    BY DEF PageInit
  <2>2. DOMAIN << >> = {}
    OBVIOUS
  <2>3. SaidOK("loaded", << >>, s, {})
    BY <2>2 DEF SaidOK
  <2>4. HeardOK("loaded", << >>, Absent, << >>, s, {}, {}, lastContext[s])
    BY <2>2 DEF HeardOK, Once, Never, ResponseFirst
  <2> QED
    BY <2>1, <2>3, <2>4 DEF FirstOK, Loaded
<1> QED
  BY <1>2, <1>3, <1>4 DEF PageInv, FirstDocuments

\* Every step of the page and its documents preserves the invariant.
LEMMA PageInvNext == PageInv /\ [PageNext]_pageVars => PageInv'
<1> SUFFICES ASSUME PageInv, [PageNext]_pageVars PROVE PageInv'
  OBVIOUS
<1>1. CASE UNCHANGED pageVars
  <2>1. UNCHANGED pageVars => PageTypes' /\ RelaysConfined' /\ Remembers' /\ responded' \subseteq SlotSet
    BY DEF pageVars, PageInv, PageTypes, RelaysConfined, ProxyConfined, Remembers, Context
  <2>2. ASSUME NEW t \in SlotSet
        PROVE  FirstOK(t)'
    BY <1>1, Untouched DEF pageVars, PageInv, FirstDocuments
  <2> QED
    BY <1>1, <2>1, <2>2 DEF PageInv, FirstDocuments
<1>2. CASE PageNext
  BY <1>2, HandshakesStep, ReplacesStep, EmitsStep, AsksStep, ReceivesStep, ConfirmsStep, HandlesStep,
     ProxyAnswersStep, ResizesStep, ResizedStep, Zenon DEF PageNext
<1> QED
  BY <1>1, <1>2

\* A set in which no two elements differ has one at most.
LEMMA AtMostOne ==
  ASSUME NEW S, \A i, j \in S : i = j
  PROVE  Cardinality(S) <= 1
<1>1. CASE S = {}
  BY <1>1, FS_EmptySet
<1>2. CASE S # {}
  <2>1. PICK e \in S : S = {e}
    BY <1>2
  <2> QED
    BY <2>1, FS_Singleton
<1> QED
  BY <1>1, <1>2

\* The invariant says what each panel is told.
LEMMA PageInvImplies == PageInv => PanelsInformed
<1> SUFFICES ASSUME PageInv PROVE PanelsInformed
  OBVIOUS
<1>1. ASSUME NEW s \in SlotSet, doc[s].load = 0
      PROVE  HeardOK(doc[s].state, doc[s].log, doc[s].context, toFrame[s], s, responded, delivered, lastContext[s])
  BY <1>1 DEF PageInv, FirstDocuments, FirstOK
<1>2. HandshakeOrder
  <2>1. ASSUME NEW s \in SlotSet, doc[s].load = 0
        PROVE  /\ doc[s].log # << >> => doc[s].log[1] = "response"
               /\ Cardinality({k \in DOMAIN doc[s].log : doc[s].log[k] = "response"}) <= 1
               /\ Cardinality({k \in DOMAIN doc[s].log : doc[s].log[k] = "result"}) <= 1
               /\ "result" \in Range(doc[s].log) => doc[s].state = "ready"
    <3>1. doc[s].log # << >> => doc[s].log[1] = "response"
      BY <1>1, <2>1 DEF HeardOK, ResponseFirst
    <3>2. Once("response", doc[s].log, toFrame[s]) /\ Once("result", doc[s].log, toFrame[s])
      BY <1>1, <2>1 DEF HeardOK
    <3>3. ASSUME NEW x, Once(x, doc[s].log, toFrame[s])
          PROVE  Cardinality({k \in DOMAIN doc[s].log : doc[s].log[k] = x}) <= 1
      <4>1. \A i, j \in {k \in DOMAIN doc[s].log : doc[s].log[k] = x} : i = j
        BY <3>3 DEF Once
      <4> QED
        BY <4>1, AtMostOne
    <3>4. "result" \in Range(doc[s].log) => doc[s].state = "ready"
      BY <1>1, <2>1 DEF HeardOK, Never, Range
    <3> QED
      BY <3>1, <3>2, <3>3, <3>4
  <2> QED
    BY <2>1 DEF HandshakeOrder
<1>3. ContextCurrent
  <2>1. ASSUME NEW s \in SlotSet, doc[s].load = 0, doc[s].state = "ready", toFrame[s] = << >>, ~resizing
        PROVE  doc[s].context = Context(s, catalogs)
    <3>1. s \in responded /\ Knows(doc[s].context, toFrame[s], lastContext[s])
      BY <1>1, <2>1 DEF HeardOK
    <3>2. ~Tells(toFrame[s])
      BY <2>1 DEF Tells
    <3> QED
      BY <2>1, <3>1, <3>2 DEF Knows, PageInv, Remembers
  <2> QED
    BY <2>1 DEF ContextCurrent
<1> QED
  BY <1>2, <1>3 DEF PageInv, RelaysConfined, PanelsInformed

(* PanelsKnow: for any slots, catalogs, requests and rules, however often the   *)
(* page is resized and whatever a document of another origin sends, the first   *)
(* document of each frame hears the answer to its handshake first and once, its *)
(* result once and when it is ready, knows the size and the surface it has when *)
(* nothing is under way, and its proxy asks for nothing it was not granted      *)
(* (event-bus.ts:480, 515).                                                     *)
THEOREM PanelsKnow == PageSpec => []PanelsInformed
<1>1. PageSpec => []PageInv
  BY PageInvInit, PageInvNext, PTL DEF PageSpec
<1> QED
  BY <1>1, PageInvImplies, PTL

-----------------------------------------------------------------------------
(* Sequences: what is in one, how often, and in which order.                *)

\* The places of what is in T, and their number.
Places(s, T) == {n \in 1..Len(s) : s[n] \in T}
Occurs(s, T) == Cardinality(Places(s, T))

\* The places of a sequence are finite in number, and so are those of what is in T.
LEMMA PlacesFinite ==
  ASSUME NEW E, NEW s \in Seq(E), NEW T
  PROVE  IsFiniteSet(Places(s, T)) /\ Occurs(s, T) \in Nat /\ (Occurs(s, T) = 0 <=> Places(s, T) = {})
<1>1. Len(s) \in Nat
  BY LenProperties
<1>2. IsFiniteSet(1..Len(s)) /\ Places(s, T) \in SUBSET (1..Len(s))
  BY <1>1, FS_Interval DEF Places
<1>3. IsFiniteSet(Places(s, T))
  BY <1>2, FS_Subset
<1> QED
  BY <1>3, FS_CardinalityType, FS_EmptySet DEF Occurs

\* The numbers after a bound are as many as those from the start.
LEMMA ShiftedCount ==
  ASSUME NEW m \in Nat, NEW P, P \subseteq Nat, IsFiniteSet(P), NEW Q, Q = {m + n : n \in P}
  PROVE  IsFiniteSet(Q) /\ Cardinality(Q) = Cardinality(P)
<1> DEFINE f == [n \in P |-> m + n]
<1>1. f \in [P -> Q] /\ \A a, b \in P : f[a] = f[b] => a = b
  <2>1. \A a, b \in P : a \in Nat /\ b \in Nat
    OBVIOUS
  <2>2. \A a, b \in Nat : m + a = m + b => a = b
    OBVIOUS
  <2>3. f \in [P -> Q] /\ \A a \in P : f[a] = m + a
    OBVIOUS
  <2> HIDE DEF f
  <2> QED
    BY <2>1, <2>2, <2>3
<1>2. \A q \in Q : \E n \in P : f[n] = q
  OBVIOUS
<1>3. f \in Bijection(P, Q)
  <2> HIDE DEF f
  <2> QED
    BY <1>1, <1>2, Fun_IsBij
<1>4. ExistsBijection(P, Q)
  <2> HIDE DEF f
  <2> QED
    BY <1>3, Fun_ExistsBij
<1> QED
  BY <1>4, FS_Bijection

\* What is in two sequences, one after the other.
LEMMA OccursConcat ==
  ASSUME NEW E, NEW s \in Seq(E), NEW t \in Seq(E), NEW T
  PROVE  Occurs(s \o t, T) = Occurs(s, T) + Occurs(t, T)
<1> DEFINE m == Len(s)
           k == Len(t)
           A == Places(s, T)
           B == Places(t, T)
           C == {m + n : n \in B}
<1>1. m \in Nat /\ k \in Nat
  BY LenProperties
<1>2. Len(s \o t) = m + k /\ \A i \in 1 .. Len(s) + Len(t) : (s \o t)[i] = IF i <= Len(s) THEN s[i] ELSE t[i - Len(s)]
  BY ConcatProperties
<1>3. IsFiniteSet(A) /\ IsFiniteSet(B) /\ Occurs(s, T) \in Nat /\ Occurs(t, T) \in Nat
  BY PlacesFinite
<1>4. IsFiniteSet(C) /\ Cardinality(C) = Cardinality(B)
  <2>1. B \subseteq Nat
    BY DEF Places
  <2> HIDE DEF m, B, C
  <2> QED
    BY <1>1, <1>3, <2>1, ShiftedCount DEF C
<1>5. A \cap C = {}
  <2>1. ASSUME NEW a \in A, NEW n \in B, a = m + n PROVE FALSE
    <3>1. a \in 1..m /\ n \in 1..k
      BY DEF Places
    <3> HIDE DEF m, k
    <3> QED
      BY <1>1, <2>1, <3>1
  <2> HIDE DEF A, B
  <2> QED
    BY <2>1
<1>6. Places(s \o t, T) = A \cup C
  <2>1. ASSUME NEW i \in 1..(m + k) PROVE i \in Places(s \o t, T) <=> i \in A \cup C
    <3>1. CASE i <= m
      <4>1. i \in 1..m /\ (s \o t)[i] = s[i]
        <5>1. i \in 1..m
          BY <1>1, <3>1
        <5> QED
          BY <1>2, <2>1, <3>1, <5>1
      <4>2. i \notin C
        <5>1. \A n \in B : n \in 1..k
          BY DEF Places
        <5> HIDE DEF m, k, B
        <5> QED
          BY <1>1, <3>1, <5>1
      <4>3. i \in Places(s \o t, T) <=> (s \o t)[i] \in T
        BY <1>2, <2>1 DEF Places
      <4>4. i \in A <=> s[i] \in T
        BY <4>1 DEF Places
      <4> QED
        BY <4>1, <4>2, <4>3, <4>4
    <3>2. CASE ~(i <= m)
      <4> DEFINE j == i - m
      <4>1. j \in 1..k /\ i = m + j /\ (s \o t)[i] = t[j]
        <5>1. j \in 1..k /\ i = m + j
          <6> HIDE DEF m, k
          <6> QED
            BY <1>1, <3>2
        <5> QED
          BY <1>2, <2>1, <3>2, <5>1
      <4>2. i \in Places(s \o t, T) <=> (s \o t)[i] \in T
        BY <1>2, <2>1 DEF Places
      <4>3. j \in B <=> t[j] \in T
        BY <4>1 DEF Places
      <4>4. i \notin A
        BY <3>2, <1>1 DEF Places
      <4>5. i \in C <=> j \in B
        <5>1. \A n \in B : n \in 1..k
          BY DEF Places
        <5>2. \A n \in 1..k : m + n = m + j => n = j
          <6> HIDE DEF m, k, j
          <6> QED
            BY <1>1, <4>1
        <5> HIDE DEF B, j, m, k
        <5> QED
          BY <4>1, <5>1, <5>2
      <4> QED
        BY <4>1, <4>2, <4>3, <4>4, <4>5
    <3> QED
      BY <3>1, <3>2
  <2>2. \A i \in Places(s \o t, T) : i \in 1..(m + k)
    BY <1>2 DEF Places
  <2>3. \A i \in A \cup C : i \in 1..(m + k)
    <3>1. \A a \in A : a \in 1..m
      BY DEF Places
    <3>2. \A n \in B : n \in 1..k
      BY DEF Places
    <3>3. \A a \in 1..m : a \in 1..(m + k)
      <4> HIDE DEF m, k
      <4> QED
        BY <1>1
    <3>4. \A n \in 1..k : m + n \in 1..(m + k)
      <4> HIDE DEF m, k
      <4> QED
        BY <1>1
    <3> HIDE DEF A, B, m, k
    <3> QED
      BY <3>1, <3>2, <3>3, <3>4
  <2> HIDE DEF A, C, m, k
  <2> QED
    BY <2>1, <2>2, <2>3
<1> QED
  <2>1. Cardinality(A \cup C) = Cardinality(A) + Cardinality(C) - Cardinality(A \cap C)
    <3> HIDE DEF A, C
    <3> QED
      BY <1>3, <1>4, FS_Union
  <2>2. Cardinality(A \cap C) = 0
    BY <1>5, FS_EmptySet
  <2>3. Cardinality(A) \in Nat /\ Cardinality(B) \in Nat
    BY <1>3, FS_CardinalityType
  <2>4. Occurs(s \o t, T) = Cardinality(A \cup C)
    BY <1>6 DEF Occurs
  <2> HIDE DEF A, B, C
  <2>5. Occurs(s \o t, T) = Cardinality(A) + Cardinality(B)
    BY <1>4, <2>1, <2>2, <2>3, <2>4
  <2> QED
    BY <2>5 DEF Occurs, A, B

\* What is in a sequence of one, or of none.
LEMMA OccursFew ==
  ASSUME NEW T, NEW x
  PROVE  Occurs(<< >>, T) = 0 /\ Occurs(<< x >>, T) = IF x \in T THEN 1 ELSE 0
<1>1. Places(<< >>, T) = {}
  BY DEF Places
<1>2. Places(<< x >>, T) = IF x \in T THEN {1} ELSE {}
  BY DEF Places
<1> QED
  BY <1>1, <1>2, FS_EmptySet, FS_Singleton DEF Occurs

\* What is in a sequence with one more at its end.
LEMMA OccursAppend ==
  ASSUME NEW E, NEW s \in Seq(E), NEW x \in E, NEW T
  PROVE  Occurs(Append(s, x), T) = Occurs(s, T) + IF x \in T THEN 1 ELSE 0
<1>1. << x >> \in Seq(E) /\ Append(s, x) = s \o << x >>
  OBVIOUS
<1>2. Occurs(s \o << x >>, T) = Occurs(s, T) + Occurs(<< x >>, T)
  BY <1>1, OccursConcat
<1> QED
  BY <1>1, <1>2, OccursFew

-----------------------------------------------------------------------------
\* The loop of a filter.
IsKept(kept, e, S) ==
  kept = [n \in 0..Len(e) |->
            IF n = 0 THEN << >> ELSE IF e[n] \in S THEN Append(kept[n - 1], e[n]) ELSE kept[n - 1]]

\* Kept() is a loop that runs over the entries.
LEMMA KeptRuns ==
  ASSUME NEW E, NEW e \in Seq(E), NEW S
  PROVE  \E kept \in [0..Len(e) -> Seq(E)] : IsKept(kept, e, S) /\ Kept(e, S) = kept[Len(e)]
<1> DEFINE N == Len(e)
           A == Seq(E)
           Met(a, n) == IF e[n] \in S THEN Append(a, e[n]) ELSE a
           step == [x \in A \X (1..N) |-> Met(x[1], x[2])]
<1>1. N \in Nat /\ << >> \in A /\ \A n \in 1..N : e[n] \in E
  BY LenProperties, ElementOfSeq, EmptySeq
<1>2. ASSUME NEW a \in A, NEW n \in 1..N PROVE step[<<a, n>>] = Met(a, n) /\ Met(a, n) \in A
  <2>1. <<a, n>> \in A \X (1..N) /\ <<a, n>>[1] = a /\ <<a, n>>[2] = n
    OBVIOUS
  <2>2. step[<<a, n>>] = Met(<<a, n>>[1], <<a, n>>[2])
    BY <2>1
  <2>3. Met(a, n) \in A
    BY <1>1
  <2> QED
    BY <2>1, <2>2, <2>3
<1>3. PICK u \in [0..N -> A] : IsLoop(u, N, << >>, step)
  <2>1. \A a \in A, n \in 1..N : step[<<a, n>>] \in A
    <3> HIDE DEF A, step, Met
    <3> QED
      BY <1>2
  <2> HIDE DEF A, step, N
  <2> QED
    BY <1>1, <2>1, LoopRuns
<1>4. \A n \in 0..N : u[n] = IF n = 0 THEN << >> ELSE Met(u[n - 1], n)
  <2>1. ASSUME NEW n \in 0..N PROVE u[n] = IF n = 0 THEN << >> ELSE Met(u[n - 1], n)
    <3>1. CASE n = 0
      BY <3>1, <1>3 DEF IsLoop
    <3>2. CASE n # 0
      <4>1. n \in 1..N /\ n - 1 \in 0..N
        BY <1>1, <3>2
      <4>2. u[n - 1] \in A
        BY <1>3, <4>1
      <4>3. u[n] = step[<<u[n - 1], n>>]
        <5> HIDE DEF step, A
        <5> QED
          BY <3>2, <1>3 DEF IsLoop
      <4> HIDE DEF step, Met, A
      <4> QED
        BY <1>2, <3>2, <4>1, <4>2, <4>3
    <3> QED
      BY <3>1, <3>2
  <2> QED
    BY <2>1
<1>5. IsKept(u, e, S)
  <2> HIDE DEF A
  <2> QED
    BY <1>3, <1>4 DEF IsKept
<1> DEFINE w == CHOOSE kept : IsKept(kept, e, S)
<1>6. IsKept(w, e, S)
  BY <1>5
<1>7. w = u
  <2>1. \A n \in 1..N : n \in 0..N /\ n # 0
    BY <1>1
  <2>2. 0 \in 0..N
    BY <1>1
  <2> HIDE DEF w
  <2>3. \A n \in 0..N : w[n] = IF n = 0 THEN << >> ELSE Met(w[n - 1], n)
    BY <1>6 DEF IsKept
  <2>4. w[0] = u[0]
    BY <1>4, <2>2, <2>3
  <2>5. \A n \in 1..N : w[n - 1] = u[n - 1] => w[n] = u[n]
    <3> HIDE DEF Met, A
    <3> QED
      BY <1>4, <2>1, <2>3
  <2>6. \A n \in 0..N : w[n] = u[n]
    <3> DEFINE T == {n \in 0..N : w[n] = u[n]}
    <3> HIDE DEF N, A, w
    <3>1. 0 \in T /\ \A n \in 1..N : n - 1 \in T => n \in T
      BY <2>1, <2>2, <2>4, <2>5
    <3>2. \A n \in 0..N : n \in T
      <4> HIDE DEF T
      <4> QED
        BY <1>1, <3>1, UpToInduction
    <3> QED
      BY <3>2
  <2>7. w = [n \in 0..N |-> w[n]] /\ u = [n \in 0..N |-> u[n]]
    BY <1>5, <1>6 DEF IsKept
  <2> QED
    BY <2>6, <2>7
<1>8. Kept(e, S) = w[N]
  BY Zenon DEF Kept, IsKept
<1> QED
  <2> HIDE DEF w, A
  <2> QED
    BY <1>3, <1>5, <1>7, <1>8 DEF A

\* The steps of the loop.
LEMMA KeptSteps ==
  ASSUME NEW E, NEW e \in Seq(E), NEW S, NEW kept \in [0..Len(e) -> Seq(E)], IsKept(kept, e, S)
  PROVE  /\ kept[0] = << >>
         /\ \A n \in 1..Len(e) : /\ kept[n - 1] \in Seq(E) /\ e[n] \in E /\ n - 1 \in 0..Len(e)
                                 /\ e[n] \in S => kept[n] = Append(kept[n - 1], e[n])
                                 /\ e[n] \notin S => kept[n] = kept[n - 1]
<1>1. Len(e) \in Nat /\ \A n \in 1..Len(e) : e[n] \in E
  BY LenProperties, ElementOfSeq
<1>2. \A n \in 1..Len(e) : n \in 0..Len(e) /\ n # 0 /\ n - 1 \in 0..Len(e)
  BY <1>1
<1>3. 0 \in 0..Len(e)
  BY <1>1
<1>4. \A n \in 0..Len(e) :
        kept[n] = IF n = 0 THEN << >> ELSE IF e[n] \in S THEN Append(kept[n - 1], e[n]) ELSE kept[n - 1]
  BY DEF IsKept
<1> QED
  BY <1>1, <1>2, <1>3, <1>4

\* How often a filter keeps something.
LEMMA KeptOccurs ==
  ASSUME NEW E, NEW e \in Seq(E), NEW S, NEW T
  PROVE  Kept(e, S) \in Seq(E) /\ Occurs(Kept(e, S), T) = Occurs(e, S \cap T)
<1> DEFINE N == Len(e)
<1>1. N \in Nat
  BY LenProperties
<1>2. PICK kept \in [0..N -> Seq(E)] : IsKept(kept, e, S) /\ Kept(e, S) = kept[N]
  BY KeptRuns
<1> DEFINE P(n) == {k \in 1..n : e[k] \in S \cap T}
           Right == {n \in 0..N : Occurs(kept[n], T) = Cardinality(P(n))}
<1>3. 0 \in Right
  <2>1. kept[0] = << >> /\ P(0) = {}
    BY <1>2, KeptSteps
  <2> QED
    BY <1>1, <2>1, OccursFew, FS_EmptySet
<1>4. ASSUME NEW n \in 1..N, n - 1 \in Right PROVE n \in Right
  <2>1. /\ kept[n - 1] \in Seq(E) /\ e[n] \in E
        /\ e[n] \in S => kept[n] = Append(kept[n - 1], e[n])
        /\ e[n] \notin S => kept[n] = kept[n - 1]
    BY <1>2, KeptSteps
  <2>2. IsFiniteSet(P(n - 1)) /\ n \notin P(n - 1)
    <3>0. n \in Int /\ n - 1 \in Int /\ n \notin 1..n-1
      <4> HIDE DEF N
      <4> QED
        BY <1>1
    <3>1. IsFiniteSet(1..n-1)
      BY <3>0, FS_Interval
    <3>2. n \notin 1..n-1 /\ P(n - 1) \in SUBSET (1..n-1)
      BY <3>0
    <3> QED
      BY <3>1, <3>2, FS_Subset
  <2>3. P(n) = P(n - 1) \cup (IF e[n] \in S \cap T THEN {n} ELSE {})
    <3>1. \A k : k \in 1..n <=> k \in 1..n-1 \/ k = n
      OBVIOUS
    <3> QED
      BY <3>1
  <2>4. Cardinality(P(n)) = Cardinality(P(n - 1)) + IF e[n] \in S \cap T THEN 1 ELSE 0
    <3>1. Cardinality(P(n - 1)) \in Nat
      BY <2>2, FS_CardinalityType
    <3>2. CASE e[n] \in S \cap T
      <4>1. P(n) = P(n - 1) \cup {n}
        BY <2>3, <3>2
      <4>2. Cardinality(P(n - 1) \cup {n}) = Cardinality(P(n - 1)) + 1
        <5> HIDE DEF P
        <5> QED
          BY <2>2, FS_AddElement
      <4> HIDE DEF P
      <4> QED
        BY <3>2, <4>1, <4>2
    <3>3. CASE e[n] \notin S \cap T
      <4>1. P(n) = P(n - 1)
        BY <2>3, <3>3
      <4> HIDE DEF P
      <4> QED
        BY <3>1, <3>3, <4>1
    <3> QED
      BY <3>2, <3>3
  <2>5. Occurs(kept[n], T) = Occurs(kept[n - 1], T) + IF e[n] \in S \cap T THEN 1 ELSE 0
    <3>1. Occurs(Append(kept[n - 1], e[n]), T) = Occurs(kept[n - 1], T) + IF e[n] \in T THEN 1 ELSE 0
      BY <2>1, OccursAppend
    <3>2. Occurs(kept[n - 1], T) \in Nat
      BY <2>1, PlacesFinite
    <3>3. CASE e[n] \in S
      BY <2>1, <3>1, <3>3
    <3>4. CASE e[n] \notin S
      BY <2>1, <3>2, <3>4
    <3> QED
      BY <3>3, <3>4
  <2>6. Occurs(kept[n - 1], T) = Cardinality(P(n - 1)) /\ n \in 0..N
    BY <1>4, <1>1
  <2> HIDE DEF P
  <2> QED
    BY <2>4, <2>5, <2>6
<1>5. N \in Right
  <2>1. \A n \in 0..N : n \in Right
    <3> HIDE DEF Right, N
    <3> QED
      BY <1>1, <1>3, <1>4, UpToInduction
  <2> QED
    BY <1>1, <2>1
<1>6. P(N) = Places(e, S \cap T)
  BY DEF Places
<1>7. kept[N] \in Seq(E)
  BY <1>1, <1>2
<1> QED
  <2> HIDE DEF P
  <2> QED
    BY <1>2, <1>5, <1>6, <1>7 DEF Occurs

\* What a filter keeps, without a number.
LEMMA KeptIn ==
  ASSUME NEW E, NEW e \in Seq(E), NEW S
  PROVE  /\ Kept(e, S) \in Seq(E)
         /\ \A n \in 1..Len(Kept(e, S)) : Kept(e, S)[n] \in S /\ \E k \in 1..Len(e) : e[k] = Kept(e, S)[n]
         /\ \A k \in 1..Len(e) : e[k] \in S => \E n \in 1..Len(Kept(e, S)) : Kept(e, S)[n] = e[k]
         /\ Range(Kept(e, S)) = Range(e) \cap S
<1> DEFINE f == Kept(e, S)
<1>1. f \in Seq(E) /\ \A T : Occurs(f, T) = Occurs(e, S \cap T)
  <2>1. ASSUME NEW T PROVE f \in Seq(E) /\ Occurs(f, T) = Occurs(e, S \cap T)
    BY KeptOccurs
  <2> HIDE DEF f
  <2> QED
    BY <2>1
<1>2. \A T : (Places(f, T) = {} <=> Places(e, S \cap T) = {})
  <2> HIDE DEF f
  <2> QED
    BY <1>1, PlacesFinite
<1>3. ASSUME NEW n \in 1..Len(f) PROVE f[n] \in S /\ \E k \in 1..Len(e) : e[k] = f[n]
  <2>1. n \in Places(f, {f[n]})
    BY DEF Places
  <2>2. Places(e, S \cap {f[n]}) # {}
    BY <1>2, <2>1
  <2> QED
    BY <2>2 DEF Places
<1>4. ASSUME NEW k \in 1..Len(e), e[k] \in S PROVE \E n \in 1..Len(f) : f[n] = e[k]
  <2>1. k \in Places(e, S \cap {e[k]})
    BY <1>4 DEF Places
  <2>2. Places(f, {e[k]}) # {}
    BY <1>2, <2>1
  <2> QED
    BY <2>2 DEF Places
<1>5. DOMAIN f = 1..Len(f) /\ DOMAIN e = 1..Len(e)
  <2> HIDE DEF f
  <2> QED
    BY <1>1, LenProperties
<1>6. Range(f) = Range(e) \cap S
  <2> HIDE DEF f
  <2>1. Range(f) = {f[n] : n \in 1..Len(f)} /\ Range(e) = {e[k] : k \in 1..Len(e)}
    BY <1>5 DEF Range
  <2> QED
    BY <1>3, <1>4, <2>1
<1> QED
  BY <1>1, <1>3, <1>4, <1>6

-----------------------------------------------------------------------------
\* The loop of flat(), and the sequences it has joined before each turn.
IsFlattened(f, ss) == f = [i \in 1..Len(ss) |-> IF i = 1 THEN ss[i] ELSE f[i - 1] \o ss[i]]

\* FlattenSeq() is a loop that runs over the sequences.
LEMMA FlattenRuns ==
  ASSUME NEW E, NEW ss \in Seq(Seq(E))
  PROVE  \E flat \in [0..Len(ss) -> Seq(E)] :
           /\ flat[0] = << >> /\ \A n \in 1..Len(ss) : flat[n] = flat[n - 1] \o ss[n]
           /\ FlattenSeq(ss) = flat[Len(ss)]
<1> DEFINE N == Len(ss)
           A == Seq(E)
           step == [x \in A \X (1..N) |-> x[1] \o ss[x[2]]]
<1>1. N \in Nat /\ << >> \in A /\ \A n \in 1..N : ss[n] \in A
  BY LenProperties, ElementOfSeq, EmptySeq
<1>2. ASSUME NEW a \in A, NEW n \in 1..N PROVE step[<<a, n>>] = a \o ss[n] /\ a \o ss[n] \in A
  <2>1. <<a, n>> \in A \X (1..N) /\ <<a, n>>[1] = a /\ <<a, n>>[2] = n
    OBVIOUS
  <2>2. step[<<a, n>>] = <<a, n>>[1] \o ss[<<a, n>>[2]]
    BY <2>1
  <2>3. a \o ss[n] \in A
    <3>1. ss[n] \in Seq(E) /\ a \in Seq(E)
      BY <1>1
    <3> QED
      BY <3>1, ConcatProperties
  <2> QED
    BY <2>1, <2>2, <2>3
<1>3. PICK u \in [0..N -> A] : IsLoop(u, N, << >>, step)
  <2>1. \A a \in A, n \in 1..N : step[<<a, n>>] \in A
    <3> HIDE DEF A, step
    <3> QED
      BY <1>2
  <2> HIDE DEF A, step, N
  <2> QED
    BY <1>1, <2>1, LoopRuns
<1>4. u[0] = << >>
  BY <1>1, <1>3 DEF IsLoop
<1>5. ASSUME NEW n \in 1..N PROVE u[n] = u[n - 1] \o ss[n]
  <2>1. n \in 0..N /\ n # 0 /\ n - 1 \in 0..N
    BY <1>1
  <2>2. u[n - 1] \in A
    BY <1>3, <2>1
  <2>3. u[n] = step[<<u[n - 1], n>>]
    <3> HIDE DEF step, A
    <3> QED
      BY <2>1, <1>3 DEF IsLoop
  <2> HIDE DEF step, A
  <2> QED
    BY <1>2, <2>2, <2>3
<1>6. FlattenSeq(ss) = u[N]
  <2>1. CASE N = 0
    <3>1. ss = << >>
      <4>1. ss = << >> \/ Len(ss) \in Nat \ {0}
        BY EmptySeq
      <4> QED
        BY <2>1, <4>1
    <3>2. FlattenSeq(ss) = ss
      BY <2>1 DEF FlattenSeq
    <3> QED
      BY <1>4, <2>1, <3>1, <3>2
  <2>2. CASE N # 0
    <3> DEFINE v == [i \in 1..N |-> u[i]]
               w == CHOOSE f : IsFlattened(f, ss)
    <3>1. 1 \in 1..N /\ N \in 1..N /\ \A n \in 1..N : n # 1 => n - 1 \in 1..N
      BY <1>1, <2>2
    <3>2. u[1] = ss[1]
      <4>1. u[1] = u[0] \o ss[1]
        <5>1. 1 - 1 = 0
          OBVIOUS
        <5>2. u[1] = u[1 - 1] \o ss[1]
          <6> HIDE DEF N
          <6> QED
            BY <1>5, <3>1
        <5> QED
          BY <5>1, <5>2
      <4>2. ss[1] \in Seq(E)
        BY <1>1, <3>1
      <4> QED
        BY <1>4, <4>1, <4>2, ConcatEmptySeq
    <3>3. ASSUME NEW n \in 1..N PROVE v[n] = IF n = 1 THEN ss[n] ELSE v[n - 1] \o ss[n]
      BY <1>5, <3>1, <3>2
    <3>4. IsFlattened(v, ss)
      <4>1. v = [n \in 1..N |-> v[n]]
        OBVIOUS
      <4> HIDE DEF v
      <4> QED
        BY <3>3, <4>1 DEF IsFlattened
    <3>5. IsFlattened(w, ss)
      <4> HIDE DEF v
      <4> QED
        BY <3>4
    <3>6. \A n \in 1..N : w[n] = IF n = 1 THEN ss[n] ELSE w[n - 1] \o ss[n]
      <4> HIDE DEF w
      <4> QED
        BY <3>5 DEF IsFlattened
    <3>7. \A n \in 0..N : n \in {k \in 0..N : k = 0 \/ w[k] = u[k]}
      <4> DEFINE T == {k \in 0..N : k = 0 \/ w[k] = u[k]}
      <4> HIDE DEF w
      <4>1. 0 \in T
        BY <1>1
      <4>2. ASSUME NEW n \in 1..N, n - 1 \in T PROVE n \in T
        <5>1. n \in 0..N
          BY <1>1
        <5>2. CASE n = 1
          BY <3>2, <3>6, <5>1, <5>2
        <5>3. CASE n # 1
          <6>1. w[n - 1] = u[n - 1]
            <7>1. n - 1 # 0
              BY <5>3
            <7> QED
              BY <4>2, <7>1
          <6> QED
            BY <1>5, <3>6, <5>1, <5>3, <6>1
        <5> QED
          BY <5>2, <5>3
      <4> HIDE DEF T, N
      <4>3. \A n \in 0..N : n \in T
        BY <1>1, <4>1, <4>2, UpToInduction
      <4> QED
        BY <4>3 DEF T
    <3>8. FlattenSeq(ss) = w[N]
      <4> DEFINE joined == CHOOSE f : IsFlattened(f, ss)
      <4>1. FlattenSeq(ss) = joined[Len(ss)]
        BY Zenon, <2>2 DEF FlattenSeq, IsFlattened
      <4> QED
        BY <4>1
    <3> HIDE DEF w
    <3> QED
      BY <1>1, <2>2, <3>7, <3>8
  <2> QED
    BY <2>1, <2>2
<1> QED
  <2> HIDE DEF A
  <2> QED
    BY <1>3, <1>4, <1>5, <1>6 DEF A

\* The places of a sequence with its number are as many.
LEMMA TaggedCount ==
  ASSUME NEW m, NEW P, IsFiniteSet(P), NEW Q, Q = {m} \X P
  PROVE  IsFiniteSet(Q) /\ Cardinality(Q) = Cardinality(P)
<1> DEFINE f == [n \in P |-> <<m, n>>]
<1>1. f \in [P -> Q] /\ \A a, b \in P : f[a] = f[b] => a = b
  <2>1. \A a, b : <<m, a>> = <<m, b>> => a = b
    OBVIOUS
  <2>2. f \in [P -> Q] /\ \A a \in P : f[a] = <<m, a>>
    OBVIOUS
  <2> HIDE DEF f
  <2> QED
    BY <2>1, <2>2
<1>2. \A q \in Q : \E n \in P : f[n] = q
  OBVIOUS
<1>3. f \in Bijection(P, Q)
  <2> HIDE DEF f
  <2> QED
    BY <1>1, <1>2, Fun_IsBij
<1>4. ExistsBijection(P, Q)
  <2> HIDE DEF f
  <2> QED
    BY <1>3, Fun_ExistsBij
<1> QED
  BY <1>4, FS_Bijection

\* The places in several sequences, up to the n-th.
PlacesUpTo(ss, n, T) == UNION {{i} \X Places(ss[i], T) : i \in 1..n}

\* How often something is in what several sequences make together.
LEMMA FlattenOccurs ==
  ASSUME NEW E, NEW ss \in Seq(Seq(E)), NEW T
  PROVE  /\ FlattenSeq(ss) \in Seq(E) /\ IsFiniteSet(PlacesUpTo(ss, Len(ss), T))
         /\ Occurs(FlattenSeq(ss), T) = Cardinality(PlacesUpTo(ss, Len(ss), T))
<1> DEFINE N == Len(ss)
<1>1. N \in Nat /\ \A n \in 1..N : ss[n] \in Seq(E)
  BY LenProperties, ElementOfSeq
<1>2. PICK flat \in [0..N -> Seq(E)] : /\ flat[0] = << >> /\ \A n \in 1..N : flat[n] = flat[n - 1] \o ss[n]
                                       /\ FlattenSeq(ss) = flat[N]
  BY FlattenRuns
<1> DEFINE U(n) == PlacesUpTo(ss, n, T)
           Right == {n \in 0..N : IsFiniteSet(U(n)) /\ Occurs(flat[n], T) = Cardinality(U(n))}
<1>3. 0 \in Right
  <2>1. U(0) = {}
    BY DEF PlacesUpTo
  <2> QED
    BY <1>1, <1>2, <2>1, OccursFew, FS_EmptySet
<1>4. ASSUME NEW n \in 1..N, n - 1 \in Right PROVE n \in Right
  <2>0. n - 1 \in 0..N /\ n \in 0..N
    BY <1>1
  <2>1. flat[n] = flat[n - 1] \o ss[n] /\ flat[n - 1] \in Seq(E) /\ ss[n] \in Seq(E)
    BY <1>1, <1>2, <2>0
  <2>2. Occurs(flat[n], T) = Occurs(flat[n - 1], T) + Occurs(ss[n], T)
    BY <2>1, OccursConcat
  <2> DEFINE Q == {n} \X Places(ss[n], T)
  <2>3. IsFiniteSet(Q) /\ Cardinality(Q) = Occurs(ss[n], T)
    <3>1. IsFiniteSet(Places(ss[n], T))
      BY <2>1, PlacesFinite
    <3> QED
      BY <3>1, TaggedCount DEF Occurs
  <2>4. U(n) = U(n - 1) \cup Q
    <3>1. \A i : i \in 1..n <=> i \in 1..n-1 \/ i = n
      <4> HIDE DEF N
      <4> QED
        BY <1>1
    <3> QED
      BY <3>1 DEF PlacesUpTo
  <2>5. U(n - 1) \cap Q = {}
    <3>1. n \notin 1..n-1
      <4> HIDE DEF N
      <4> QED
        BY <1>1
    <3>2. \A p \in U(n - 1) : p[1] \in 1..n-1
      BY DEF PlacesUpTo
    <3>3. \A p \in Q : p[1] = n
      OBVIOUS
    <3> HIDE DEF U, Q
    <3> QED
      BY <3>1, <3>2, <3>3
  <2>6. IsFiniteSet(U(n - 1)) /\ Occurs(flat[n - 1], T) = Cardinality(U(n - 1))
    BY <1>4
  <2> HIDE DEF U, Q
  <2>7. IsFiniteSet(U(n - 1) \cup Q) /\ Cardinality(U(n - 1) \cup Q) = Cardinality(U(n - 1)) + Cardinality(Q) - Cardinality(U(n - 1) \cap Q)
    BY <2>3, <2>6, FS_Union
  <2>8. Cardinality(U(n - 1) \cap Q) = 0 /\ Cardinality(U(n - 1)) \in Nat /\ Cardinality(Q) \in Nat
    BY <2>3, <2>5, <2>6, FS_EmptySet, FS_CardinalityType
  <2>9. IsFiniteSet(U(n)) /\ Cardinality(U(n)) = Cardinality(U(n - 1)) + Cardinality(Q)
    BY <2>4, <2>7, <2>8
  <2>10. Occurs(flat[n], T) = Cardinality(U(n))
    BY <2>2, <2>3, <2>6, <2>9
  <2> QED
    BY <2>0, <2>9, <2>10
<1>5. N \in Right
  <2>1. \A n \in 0..N : n \in Right
    <3> HIDE DEF Right, N
    <3> QED
      BY <1>1, <1>3, <1>4, UpToInduction
  <2> QED
    BY <1>1, <2>1
<1>6. flat[N] \in Seq(E)
  BY <1>1, <1>2
<1> QED
  BY <1>2, <1>5, <1>6

\* What is in it, without a number.
LEMMA FlattenIn ==
  ASSUME NEW E, NEW ss \in Seq(Seq(E))
  PROVE  /\ FlattenSeq(ss) \in Seq(E)
         /\ \A x : x \in Range(FlattenSeq(ss)) <=> \E i \in 1..Len(ss) : \E k \in 1..Len(ss[i]) : ss[i][k] = x
<1> DEFINE f == FlattenSeq(ss)
<1>1. f \in Seq(E)
  BY FlattenOccurs
<1>2. ASSUME NEW x PROVE x \in Range(f) <=> \E i \in 1..Len(ss) : \E k \in 1..Len(ss[i]) : ss[i][k] = x
  <2>1. DOMAIN f = 1..Len(f)
    <3> HIDE DEF f
    <3> QED
      BY <1>1, LenProperties
  <2>2. x \in Range(f) <=> Places(f, {x}) # {}
    <3> HIDE DEF f
    <3> QED
      BY <2>1 DEF Range, Places
  <2> DEFINE U == PlacesUpTo(ss, Len(ss), {x})
  <2>3. Occurs(f, {x}) = Cardinality(U)
    BY FlattenOccurs
  <2>4. U = {} <=> Places(f, {x}) = {}
    <3>1. IsFiniteSet(U)
      BY FlattenOccurs
    <3> HIDE DEF U, f
    <3> QED
      BY <1>1, <2>3, <3>1, PlacesFinite, FS_EmptySet
  <2>5. U # {} <=> \E i \in 1..Len(ss) : \E k \in 1..Len(ss[i]) : ss[i][k] = x
    <3>1. ASSUME NEW q \in U PROVE \E i \in 1..Len(ss) : Places(ss[i], {x}) # {}
      <4>1. PICK i \in 1..Len(ss) : q \in {i} \X Places(ss[i], {x})
        BY DEF PlacesUpTo
      <4>2. q[2] \in Places(ss[i], {x})
        BY <4>1
      <4> QED
        BY <4>2
    <3>2. ASSUME NEW i \in 1..Len(ss), NEW k \in Places(ss[i], {x}) PROVE U # {}
      <4>1. <<i, k>> \in {i} \X Places(ss[i], {x})
        OBVIOUS
      <4> QED
        BY <4>1 DEF PlacesUpTo
    <3> HIDE DEF U
    <3> QED
      BY <3>1, <3>2 DEF Places
  <2> HIDE DEF U, f
  <2> QED
    BY <2>2, <2>4, <2>5
<1> QED
  BY <1>1, <1>2

-----------------------------------------------------------------------------
\* Each entry of a sequence comes before each later one.
Ordered(s, R) == \A m, n \in 1..Len(s) : m < n => <<s[m], s[n]>> \in R

\* Two sequences, one after the other.
LEMMA OrderedConcat ==
  ASSUME NEW E, NEW s \in Seq(E), NEW t \in Seq(E), NEW R, Ordered(s, R), Ordered(t, R),
         \A m \in 1..Len(s), n \in 1..Len(t) : <<s[m], t[n]>> \in R
  PROVE  Ordered(s \o t, R)
<1> DEFINE p == Len(s)
           q == Len(t)
           c == s \o t
<1>1. p \in Nat /\ q \in Nat
  BY LenProperties
<1>2. Len(c) = p + q /\ \A i \in 1 .. Len(s) + Len(t) : c[i] = IF i <= Len(s) THEN s[i] ELSE t[i - Len(s)]
  BY ConcatProperties
<1>3. ASSUME NEW m \in 1..(p + q), NEW n \in 1..(p + q), m < n PROVE <<c[m], c[n]>> \in R
  <2> HIDE DEF c
  <2>1. CASE n <= p
    <3>1. m \in 1..p /\ n \in 1..p
      <4> HIDE DEF p, q
      <4> QED
        BY <1>1, <1>3, <2>1
    <3>2. m <= p /\ n <= p
      <4> HIDE DEF p, q
      <4> QED
        BY <1>1, <3>1
    <3>3. c[m] = s[m] /\ c[n] = s[n]
      BY <1>2, <1>3, <3>2
    <3> QED
      BY <1>3, <3>1, <3>3 DEF Ordered
  <2>2. CASE m <= p /\ ~(n <= p)
    <3>1. m \in 1..p /\ n - p \in 1..q
      <4> HIDE DEF p, q
      <4> QED
        BY <1>1, <1>3, <2>2
    <3>2. c[m] = s[m] /\ c[n] = t[n - p]
      BY <1>2, <1>3, <2>2
    <3> QED
      BY <3>1, <3>2
  <2>3. CASE ~(m <= p) /\ ~(n <= p)
    <3>1. m - p \in 1..q /\ n - p \in 1..q /\ m - p < n - p
      <4> HIDE DEF p, q
      <4> QED
        BY <1>1, <1>3, <2>3
    <3>2. c[m] = t[m - p] /\ c[n] = t[n - p]
      BY <1>2, <1>3, <2>3
    <3> QED
      BY <3>1, <3>2 DEF Ordered
  <2>4. m <= p \/ ~(n <= p)
    <3> HIDE DEF p, q
    <3> QED
      BY <1>1, <1>3
  <2> QED
    BY <2>1, <2>2, <2>3, <2>4
<1> QED
  <2> HIDE DEF c
  <2> QED
    BY <1>2, <1>3 DEF Ordered, c

\* A filter keeps the order.
LEMMA KeptOrdered ==
  ASSUME NEW E, NEW e \in Seq(E), NEW S, NEW R, Ordered(e, R)
  PROVE  Ordered(Kept(e, S), R)
<1> DEFINE N == Len(e)
<1>1. N \in Nat
  BY LenProperties
<1>2. PICK kept \in [0..N -> Seq(E)] : IsKept(kept, e, S) /\ Kept(e, S) = kept[N]
  BY KeptRuns
<1> DEFINE Right == {n \in 0..N : /\ Ordered(kept[n], R)
                                 /\ \A m \in 1..Len(kept[n]) : \E k \in 1..n : kept[n][m] = e[k]}
<1>3. 0 \in Right
  <2>1. kept[0] = << >>
    BY <1>2, KeptSteps
  <2>2. Ordered(<< >>, R)
    BY DEF Ordered
  <2>3. \A m \in 1..Len(<< >>) : \E k \in 1..0 : << >>[m] = e[k]
    OBVIOUS
  <2> QED
    BY <1>1, <2>1, <2>2, <2>3
<1>4. ASSUME NEW n \in 1..N, n - 1 \in Right PROVE n \in Right
  <2>1. /\ kept[n - 1] \in Seq(E) /\ e[n] \in E
        /\ e[n] \in S => kept[n] = Append(kept[n - 1], e[n])
        /\ e[n] \notin S => kept[n] = kept[n - 1]
    BY <1>2, KeptSteps
  <2>2. Ordered(kept[n - 1], R) /\ \A m \in 1..Len(kept[n - 1]) : \E k \in 1..n-1 : kept[n - 1][m] = e[k]
    BY <1>4
  <2>3. n \in 0..N /\ \A k \in 1..n-1 : k \in 1..n /\ k \in 1..N /\ k < n
    <3> HIDE DEF N
    <3> QED
      BY <1>1
  <2>4. CASE e[n] \notin S
    <3>1. \A m \in 1..Len(kept[n]) : \E k \in 1..n : kept[n][m] = e[k]
      BY <2>1, <2>2, <2>3, <2>4
    <3> QED
      BY <2>1, <2>2, <2>3, <2>4, <3>1
  <2>5. CASE e[n] \in S
    <3> DEFINE a == kept[n - 1]
               one == << e[n] >>
    <3>1. kept[n] = a \o one /\ one \in Seq(E) /\ Len(one) = 1 /\ one[1] = e[n]
      BY <2>1, <2>5
    <3>2. ASSUME NEW m \in 1..Len(a) PROVE <<a[m], e[n]>> \in R
      <4>1. PICK k \in 1..n-1 : a[m] = e[k]
        BY <2>2
      <4> QED
        BY <2>3, <4>1 DEF Ordered
    <3>3. Ordered(one, R)
      BY DEF Ordered
    <3>4. Ordered(a \o one, R)
      <4>1. \A m \in 1..Len(a), i \in 1..Len(one) : <<a[m], one[i]>> \in R
        <5>1. \A i \in 1..Len(one) : one[i] = e[n]
          OBVIOUS
        <5> HIDE DEF one, a
        <5> QED
          BY <3>2, <5>1
      <4> HIDE DEF one, a
      <4> QED
        BY <2>1, <2>2, <3>1, <3>3, <4>1, OrderedConcat DEF a
    <3>5. ASSUME NEW m \in 1..Len(kept[n]) PROVE \E k \in 1..n : kept[n][m] = e[k]
      <4>1. kept[n] = Append(a, e[n]) /\ a \in Seq(E)
        BY <2>1, <2>5
      <4>2. \/ m \in 1..Len(a) /\ kept[n][m] = a[m]
            \/ kept[n][m] = e[n]
        <5> HIDE DEF a
        <5> QED
          BY <4>1, <2>1
      <4>3. n \in 1..n
        OBVIOUS
      <4> QED
        BY <2>2, <2>3, <4>2, <4>3
    <3> HIDE DEF a, one
    <3> QED
      BY <2>3, <3>1, <3>4, <3>5
  <2> QED
    BY <2>4, <2>5
<1>5. N \in Right
  <2>1. \A n \in 0..N : n \in Right
    <3> HIDE DEF Right, N
    <3> QED
      BY <1>1, <1>3, <1>4, UpToInduction
  <2> QED
    BY <1>1, <2>1
<1> QED
  BY <1>2, <1>5

\* So do sequences that are joined in order.
LEMMA FlattenOrdered ==
  ASSUME NEW E, NEW ss \in Seq(Seq(E)), NEW R, \A i \in 1..Len(ss) : Ordered(ss[i], R),
         \A i, j \in 1..Len(ss) : i < j => \A m \in 1..Len(ss[i]), n \in 1..Len(ss[j]) : <<ss[i][m], ss[j][n]>> \in R
  PROVE  Ordered(FlattenSeq(ss), R)
<1> DEFINE N == Len(ss)
<1>1. N \in Nat /\ \A n \in 1..N : ss[n] \in Seq(E)
  BY LenProperties, ElementOfSeq
<1>2. PICK flat \in [0..N -> Seq(E)] : /\ flat[0] = << >> /\ \A n \in 1..N : flat[n] = flat[n - 1] \o ss[n]
                                       /\ FlattenSeq(ss) = flat[N]
  BY FlattenRuns
<1> DEFINE From(x, n) == \E i \in 1..n : \E k \in 1..Len(ss[i]) : x = ss[i][k]
           Right == {n \in 0..N : Ordered(flat[n], R) /\ \A m \in 1..Len(flat[n]) : From(flat[n][m], n)}
<1>3. 0 \in Right
  <2>1. Ordered(<< >>, R)
    BY DEF Ordered
  <2>2. \A m \in 1..Len(<< >>) : From(<< >>[m], 0)
    OBVIOUS
  <2> QED
    BY <1>1, <1>2, <2>1, <2>2
<1>4. ASSUME NEW n \in 1..N, n - 1 \in Right PROVE n \in Right
  <2> DEFINE a == flat[n - 1]
             b == ss[n]
  <2>0. n - 1 \in 0..N /\ n \in 0..N /\ n \in 1..n /\ \A i \in 1..n-1 : i \in 1..n /\ i \in 1..N /\ i < n
    <3> HIDE DEF N
    <3> QED
      BY <1>1
  <2>1. flat[n] = a \o b /\ a \in Seq(E) /\ b \in Seq(E)
    BY <1>1, <1>2, <2>0
  <2>2. Ordered(a, R) /\ \A m \in 1..Len(a) : From(a[m], n - 1)
    BY <1>4
  <2>3. ASSUME NEW m \in 1..Len(a), NEW k \in 1..Len(b) PROVE <<a[m], b[k]>> \in R
    <3>1. PICK i \in 1..n-1 : \E h \in 1..Len(ss[i]) : a[m] = ss[i][h]
      BY <2>2
    <3>2. PICK h \in 1..Len(ss[i]) : a[m] = ss[i][h]
      BY <3>1
    <3>3. i \in 1..N /\ i < n
      BY <2>0
    <3> QED
      BY <3>2, <3>3
  <2>4. Ordered(flat[n], R)
    <3> HIDE DEF a, b
    <3> QED
      BY <2>1, <2>2, <2>3, OrderedConcat DEF b
  <2>5. ASSUME NEW m \in 1..Len(flat[n]) PROVE From(flat[n][m], n)
    <3>1. Len(a \o b) = Len(a) + Len(b) /\ \A i \in 1 .. Len(a) + Len(b) : (a \o b)[i] = IF i <= Len(a) THEN a[i] ELSE b[i - Len(a)]
      <4> HIDE DEF a, b
      <4> QED
        BY <2>1, ConcatProperties
    <3>2. Len(a) \in Nat /\ Len(b) \in Nat
      <4> HIDE DEF a, b
      <4> QED
        BY <2>1, LenProperties
    <3> HIDE DEF a, b
    <3>3. m \in 1..(Len(a) + Len(b))
      BY <2>1, <3>1
    <3>4. CASE m <= Len(a)
      <4>1. m \in 1..Len(a) /\ flat[n][m] = a[m]
        BY <2>1, <3>1, <3>2, <3>3, <3>4
      <4> QED
        BY <2>0, <2>2, <4>1
    <3>5. CASE ~(m <= Len(a))
      <4>1. m - Len(a) \in 1..Len(b) /\ flat[n][m] = b[m - Len(a)]
        BY <2>1, <3>1, <3>2, <3>3, <3>5
      <4> QED
        BY <2>0, <4>1 DEF b
    <3> QED
      BY <3>4, <3>5
  <2> HIDE DEF From
  <2> QED
    BY <2>0, <2>4, <2>5
<1>5. N \in Right
  <2>1. \A n \in 0..N : n \in Right
    <3> HIDE DEF Right, N
    <3> QED
      BY <1>1, <1>3, <1>4, UpToInduction
  <2>2. N \in 0..N
    <3> HIDE DEF N
    <3> QED
      BY <1>1
  <2> HIDE DEF Right
  <2> QED
    BY <2>1, <2>2
<1> QED
  BY <1>2, <1>5

-----------------------------------------------------------------------------
(* McpConnection: the protocol that is spoken, and what callers are told.   *)

\* An outcome that failed in this way.
FailedSo(o, status, code) == ~o.ok /\ o.status = status /\ o.code = code

\* What becomes of an answer.
LEMMA Outcomes ==
    ASSUME NEW r
    PROVE  /\ r.net # "answered" => FailedSo(Outcome(r), 0, 0) /\ (Outcome(r).timedOut <=> TimedOut(r))
           /\ r.net = "answered" => (Outcome(r).timedOut <=> FALSE)
           /\ r.net = "answered" /\ (r.body # "message" \/ r.id # "own") => FailedSo(Outcome(r), r.status, 0)
           /\ r.net = "answered" /\ r.body = "message" /\ r.id = "own" /\ r.error # << >> => FailedSo(Outcome(r), r.status, r.error[1])
           /\ r.net = "answered" /\ r.body = "message" /\ r.id = "own" /\ r.error = << >> /\ (r.status # 200 \/ r.result = << >>)
                => FailedSo(Outcome(r), r.status, 0)
           /\ r.net = "answered" /\ r.body = "message" /\ r.id = "own" /\ r.error = << >> /\ r.status = 200 /\ r.result # << >>
                => Outcome(r).ok /\ Outcome(r).result = r.result
BY DEF Outcome, Failed, FailedSo

\* A server that answers for the stateless protocol is found out.
LEMMA DiscoveredStateless == \A r : SaysStateless(r) => Discovery(r).ok
BY DEF SaysStateless, Discovery, Outcome, Failed

\* A failure is what discovery ends in.
LEMMA DiscoveryFails == \A r : ~Outcome(r).ok => Discovery(r) = Outcome(r)
BY DEF Discovery

\* What was disturbed on the way is no answer of either kind.
LEMMA DisturbedIsNeither == \A r : Disturbed(r) => ~Discovery(r).ok /\ ~ShouldFallback(Discovery(r))
<1> SUFFICES ASSUME NEW r, Disturbed(r) PROVE ~Discovery(r).ok /\ ~ShouldFallback(Discovery(r))
  OBVIOUS
<1>1. ~Outcome(r).ok /\ Outcome(r).status \in {0, 500, 200} /\ Outcome(r).code \in {0, -32000}
  <2>1. CASE r.net # "answered"
    BY <2>1, Outcomes DEF FailedSo
  <2>2. CASE r.net = "answered" /\ r.status = 500 /\ r.error = << >>
    BY <2>2, Outcomes DEF FailedSo
  <2>3. CASE r.net = "answered" /\ r.status = 500 /\ r.error = << -32000 >>
    <3>1. r.error # << >> /\ r.error[1] = -32000
      BY <2>3
    <3> QED BY <2>3, <3>1, Outcomes DEF FailedSo
  <2>4. CASE r.net = "answered" /\ r.status = 200 /\ (r.body # "message" \/ r.id # "own")
    BY <2>4, Outcomes DEF FailedSo
  <2> QED BY <2>1, <2>2, <2>3, <2>4 DEF Disturbed
<1>2. Discovery(r) = Outcome(r)
  BY <1>1, DiscoveryFails
<1> QED BY <1>1, <1>2 DEF ShouldFallback, NotAdvertised, MethodNotFound

\* An older server is one that does not know the method.
LEMMA UnknownFallsBack == \A r : SaysUnknown(r) => ~Discovery(r).ok /\ ShouldFallback(Discovery(r))
<1> SUFFICES ASSUME NEW r, SaysUnknown(r) PROVE ~Discovery(r).ok /\ ShouldFallback(Discovery(r))
  OBVIOUS
<1>1. ~Outcome(r).ok /\ (Outcome(r).status = 404 \/ Outcome(r).code = MethodNotFound)
  <2>1. CASE r.status = 404
    BY <2>1, Outcomes DEF FailedSo, SaysUnknown
  <2>2. CASE r.body = "message" /\ r.id = "own" /\ r.error = << MethodNotFound >>
    <3>1. r.error # << >> /\ r.error[1] = MethodNotFound
      BY <2>2
    <3> QED BY <2>2, <3>1, Outcomes DEF FailedSo, SaysUnknown
  <2> QED BY <2>1, <2>2 DEF SaysUnknown
<1>2. Discovery(r) = Outcome(r)
  BY <1>1, DiscoveryFails
<1> QED BY <1>1, <1>2 DEF ShouldFallback

\* The protocol, for any answer.
LEMMA ConnectSpeaks ==
    ASSUME NEW protocol \in {"auto", "stateless-2026-07-28", "streamable-http"}, NEW r, NEW initializes \in BOOLEAN,
           NEW spoken, spoken = SelectedProtocol(protocol, r, initializes)
    PROVE  /\ protocol = "stateless-2026-07-28" => spoken # "streamable"
           /\ protocol = "streamable-http" => spoken # "stateless"
           /\ protocol # "streamable-http" /\ SaysStateless(r) => spoken = "stateless"
           /\ protocol # "streamable-http" /\ Disturbed(r) => spoken = "none"
           /\ protocol = "auto" /\ SaysUnknown(r) => (spoken = "streamable" <=> initializes)
BY DiscoveredStateless, DisturbedIsNeither, UnknownFallsBack DEF SelectedProtocol

\* What a possible answer says goes together.
LEMMA AnswersSay ==
    \A r \in PossibleAnswers : r.net = "answered" \/ r.status = 0
BY DEF PossibleAnswers

\* What a caller is given of an outcome.
LEMMA GivenOf ==
    ASSUME NEW kind, NEW o
    PROVE  /\ o.ok => Settlement(kind, o).result = o.result /\ Settlement(kind, o).error = NoError
           /\ ~o.ok => /\ Settlement(kind, o).result = << >>
                       /\ Settlement(kind, o).error = IF o.timedOut THEN << kind, "TIMEOUT" >> ELSE << kind, "FAILED" >>
BY DEF Settlement, ErrorCode

\* What a caller is told is what the answer said.
Honest(kind, speaks, r, p) ==
    /\ p.result # << >> => r.id = "own" /\ r.error = << >> /\ p.result = r.result /\ p.error = NoError
    /\ p.result = << >> => \E timedOut \in BOOLEAN : p.error = ErrorCode(kind, timedOut)
    /\ p.error = ErrorCode(kind, TRUE) <=>
         \/ speaks # "none" /\ TimedOut(r)
         \/ speaks = "streamable" /\ r.status = 200 /\ r.body = "message" /\ r.id # "own"

\* An operation, for any answer: its result is the answer's, its error names it.
LEMMA OperationSays ==
    ASSUME NEW kind \in Kinds, NEW speaks \in {"none", "stateless", "streamable"}, NEW r \in PossibleAnswers
    PROVE  Honest(kind, speaks, r, Performed(kind, speaks, r))
<1> DEFINE p == Performed(kind, speaks, r)
           Late == << kind, "TIMEOUT" >>
           Wrong == << kind, "FAILED" >>
           good == r.net = "answered" /\ r.body = "message" /\ r.id = "own" /\ r.error = << >> /\ r.status = 200 /\ r.result # << >>
<1>1. Late # Wrong /\ Late # NoError /\ Wrong # NoError
  BY DEF NoError
<1>2. ErrorCode(kind, TRUE) = Late /\ ErrorCode(kind, FALSE) = Wrong
  BY DEF ErrorCode
<1>3. TimedOut(r) => r.net # "answered"
  BY DEF TimedOut
<1>4. (good => Outcome(r).ok /\ Outcome(r).result = r.result) /\ (~good => ~Outcome(r).ok /\ (Outcome(r).timedOut <=> TimedOut(r)))
  BY <1>3, Outcomes DEF FailedSo, TimedOut
<1>5. CASE speaks = "none"
  BY <1>1, <1>2, <1>5 DEF Performed, Honest
<1>6. ASSUME p = Settlement(kind, Outcome(r))
      PROVE  /\ good => p.result = r.result /\ p.error = NoError
             /\ ~good => p.result = << >> /\ p.error = (IF TimedOut(r) THEN Late ELSE Wrong)
  BY <1>4, <1>6, GivenOf
<1>7. CASE speaks = "stateless"
  <2>1. p = Settlement(kind, Outcome(r))
    BY <1>7 DEF Performed, StatelessPerforms
  <2> QED BY <1>1, <1>2, <1>3, <1>6, <1>7, <2>1 DEF Honest
<1>8. CASE speaks = "streamable"
  <2>1. p = Settlement(kind, SdkOutcome(r))
    BY <1>8 DEF Performed, StreamablePerforms
  <2>2. CASE r.net = "answered" /\ r.status = 200 /\ r.body = "message" /\ r.id # "own"
    <3>1. ~SdkOutcome(r).ok /\ SdkOutcome(r).timedOut = TRUE
      BY <2>2 DEF SdkOutcome, Failed
    <3>2. p.result = << >> /\ p.error = Late
      BY <2>1, <3>1, GivenOf
    <3> QED BY <1>1, <1>2, <1>8, <2>2, <3>2 DEF Honest
  <2>3. CASE ~(r.net = "answered" /\ r.status = 200 /\ r.body = "message" /\ r.id # "own")
    <3>1. SdkOutcome(r) = Outcome(r)
      BY <2>3 DEF SdkOutcome
    <3>2. ~(r.status = 200 /\ r.body = "message" /\ r.id # "own")
      BY <2>3, AnswersSay
    <3> QED BY <1>1, <1>2, <1>3, <1>6, <1>8, <2>1, <3>1, <3>2 DEF Honest
  <2> QED BY <2>2, <2>3
<1> QED BY <1>5, <1>7, <1>8

-----------------------------------------------------------------------------
(* McpConnection: its headers, read by the platform.                        *)

\* An encoded text passes, and decodes to itself.
LEMMA EncodedName ==
    ASSUME NEW t, t \in Seq(Range(t)), t # << >>
    PROVE  LET raw == EncodeMcpHeaderValue(t) IN
           /\ Platform!DecodeHeaderValue(raw) = t
           /\ Platform!IsWrapped(raw) \/ Platform!HeaderSafe(raw)
<1> DEFINE S == Range(t) \cup {"b64"}
           w == << "b64" >>
<1>1. w \in Seq(S) /\ t \in Seq(S)
  <2>1. Range(t) \subseteq S
    OBVIOUS
  <2>2. t \in Seq(S)
    <3> HIDE DEF S
    <3> QED BY <2>1, SeqMonotonic
  <2> QED BY <2>2
<1>2. Len(w) = 1 /\ w[1] = "b64"
  OBVIOUS
<1>3. Head(w \o t) = "b64" /\ Tail(w \o t) = t
  <2> HIDE DEF w, S
  <2>1. /\ w \o t \in Seq(S) /\ Len(w \o t) = Len(w) + Len(t)
        /\ \A i \in 1 .. Len(w) + Len(t) : (w \o t)[i] = IF i <= Len(w) THEN w[i] ELSE t[i - Len(w)]
    BY <1>1, ConcatProperties
  <2>2. w \o t \in Seq(S) /\ Len(w \o t) = 1 + Len(t) /\ Len(t) \in Nat
        /\ \A i \in 1 .. 1 + Len(t) : (w \o t)[i] = IF i <= 1 THEN w[i] ELSE t[i - 1]
    BY <1>1, <1>2, <2>1, LenProperties
  <2>3. Head(w \o t) = "b64" /\ w \o t # << >>
    BY <1>2, <2>2
  <2>4. Tail(w \o t) \in Seq(S) /\ Len(Tail(w \o t)) = Len(t) /\ \A i \in 1..Len(t) : Tail(w \o t)[i] = (w \o t)[i + 1]
    BY <2>2, <2>3, HeadTailProperties
  <2>5. \A i \in 1..Len(t) : Tail(w \o t)[i] = t[i]
    <3>1. \A i \in 1..Len(t) : i + 1 \in 1 .. 1 + Len(t) /\ ~(i + 1 <= 1) /\ (i + 1) - 1 = i
      BY <2>2
    <3> QED BY <2>2, <2>4, <3>1
  <2>6. Tail(w \o t) = t
    BY <1>1, <2>4, <2>5, SeqEqual
  <2> QED BY <2>3, <2>6
<1>4. CASE Platform!HeaderSafe(t) /\ ~Platform!IsWrapped(t)
  BY <1>4 DEF EncodeMcpHeaderValue, Platform!DecodeHeaderValue
<1>5. CASE ~(Platform!HeaderSafe(t) /\ ~Platform!IsWrapped(t))
  <2>1. EncodeMcpHeaderValue(t) = w \o t
    BY <1>5 DEF EncodeMcpHeaderValue, Platform!Wrap
  <2> HIDE DEF w
  <2> QED BY <1>3, <2>1 DEF Platform!DecodeHeaderValue, Platform!IsWrapped
<1> QED BY <1>4, <1>5

\* Of rules that find nothing and others, the first that finds something is one of the others.
LEMMA FirstOfOthers ==
    ASSUME NEW n \in Nat, NEW E, NEW g \in [1..n -> E]
    PROVE  IF \A i \in 1..n : g[i] = Platform!None
           THEN Platform!FirstFault(<< Platform!None, Platform!None, Platform!None >> \o g) = Platform!None
           ELSE \E i \in 1..n : /\ g[i] # Platform!None
                                /\ Platform!FirstFault(<< Platform!None, Platform!None, Platform!None >> \o g) = g[i]
<1> DEFINE s == << Platform!None, Platform!None, Platform!None >>
           S == {Platform!None} \cup E
           all == s \o g
<1>1. s \in Seq(S) /\ Len(s) = 3 /\ \A i \in 1..3 : s[i] = Platform!None
  OBVIOUS
<1>2. g \in Seq(S) /\ Len(g) = n
  <2> HIDE DEF s
  <2>1. g \in Seq(S)
    BY SeqDef
  <2> HIDE DEF S
  <2> QED BY <2>1, LenProperties
<1>3. /\ all \in Seq(S) /\ Len(all) = 3 + n
      /\ \A i \in 1 .. 3 + n : all[i] = IF i <= 3 THEN s[i] ELSE g[i - 3]
  <2> HIDE DEF s, S
  <2>1. /\ s \o g \in Seq(S) /\ Len(s \o g) = Len(s) + Len(g)
        /\ \A i \in 1 .. Len(s) + Len(g) : (s \o g)[i] = IF i <= Len(s) THEN s[i] ELSE g[i - Len(s)]
    BY <1>1, <1>2, ConcatProperties
  <2> QED BY <1>1, <1>2, <2>1
<1>4. DOMAIN all = 1 .. 3 + n
  <2> HIDE DEF s, S, all
  <2> QED BY <1>3, LenProperties
<1>5. /\ \A i \in 1..3 : all[i] = Platform!None
      /\ \A i \in 1..n : i + 3 \in 1 .. 3 + n /\ all[i + 3] = g[i]
  <2>1. \A i \in 1..3 : i \in 1 .. 3 + n /\ i <= 3
    OBVIOUS
  <2>2. \A i \in 1..n : i + 3 \in 1 .. 3 + n /\ ~(i + 3 <= 3) /\ (i + 3) - 3 = i
    OBVIOUS
  <2> HIDE DEF s, S, all
  <2> QED BY <1>1, <1>3, <2>1, <2>2
<1>6. \A i \in 1 .. 3 + n : i \in 1..3 \/ \E j \in 1..n : i = j + 3
  <2> SUFFICES ASSUME NEW i \in 1 .. 3 + n, i \notin 1..3 PROVE \E j \in 1..n : i = j + 3
    OBVIOUS
  <2>1. i - 3 \in 1..n /\ i = (i - 3) + 3
    OBVIOUS
  <2> QED BY <2>1
<1> HIDE DEF s, S, all
<1>7. CASE \A i \in 1..n : g[i] = Platform!None
  <2>1. \A i \in DOMAIN all : all[i] = Platform!None
    BY <1>4, <1>5, <1>6, <1>7
  <2>2. Platform!FirstFault(all) = Platform!None
    BY <2>1 DEF Platform!FirstFault
  <2> QED BY <1>7, <2>2 DEF all, s
<1>8. CASE ~(\A i \in 1..n : g[i] = Platform!None)
  <2> DEFINE bad == {i \in 1 .. 3 + n : all[i] # Platform!None}
             least(i) == i \in DOMAIN all /\ all[i] # Platform!None /\ \A j \in 1..i-1 : all[j] = Platform!None
  <2>1. bad # {} /\ bad \subseteq Nat
    BY <1>5, <1>8
  <2>2. PICK i \in bad : \A j \in bad : i <= j
    <3> HIDE DEF bad
    <3> QED BY <2>1, LeastElement
  <2>3. least(i)
    <3>1. i \in 1 .. 3 + n /\ all[i] # Platform!None
      OBVIOUS
    <3>2. ASSUME NEW j \in 1..i-1, all[j] # Platform!None PROVE FALSE
      <4>1. j \in 1 .. 3 + n /\ ~(i <= j)
        BY <3>1
      <4> QED BY <2>2, <3>2, <4>1
    <3> QED BY <1>4, <3>1, <3>2
  <2>4. ~(\A j \in DOMAIN all : all[j] = Platform!None)
    BY <1>4, <2>2
  <2>5. /\ Platform!FirstFault(all) = all[CHOOSE k \in DOMAIN all : all[k] # Platform!None /\ \A j \in 1..k-1 : all[j] = Platform!None]
    BY <2>4 DEF Platform!FirstFault
  <2>6. \E k \in DOMAIN all : all[k] # Platform!None /\ Platform!FirstFault(all) = all[k]
    BY <2>3, <2>5
  <2>7. PICK k \in 1 .. 3 + n : all[k] # Platform!None /\ Platform!FirstFault(all) = all[k]
    BY <1>4, <2>6
  <2>8. PICK j \in 1..n : k = j + 3
    BY <1>5, <1>6, <2>7
  <2>9. g[j] # Platform!None /\ Platform!FirstFault(all) = g[j]
    BY <1>5, <2>7, <2>8
  <2> QED BY <1>8, <2>9 DEF all, s
<1> QED BY <1>7, <1>8

\* The platform's verdict on a request that mirrors nothing.
Verdict(mirrored, args, fault) ==
    IF Present(mirrored, args) = {} THEN fault = Platform!None
    ELSE \E i \in Present(mirrored, args) : fault = Platform!Fault("missing_header", Platform!ParamHeader(mirrored[i]))

\* The arguments the platform looks the parameters up in.
ArgumentsRead(params) ==
    IF "arguments" \in DOMAIN params /\ Platform!IsRecord(params["arguments"])
    THEN params["arguments"] ELSE [type |-> "object", fields |-> << >>]

\* The rules of version, method and name find nothing, and no header mirrors a parameter.
StandardOnly(headers, method, params, version) ==
    /\ Platform!PlainFault(headers, Platform!VersionHeader, version) = Platform!None
    /\ Platform!PlainFault(headers, Platform!MethodHeader, << method >>) = Platform!None
    /\ Platform!NameFault(headers, method, params) = Platform!None
    /\ \A param : Platform!ParamHeader(param) \notin DOMAIN headers

\* Such a request is refused for a parameter that is there, and else accepted.
LEMMA VerdictOnStandard ==
    ASSUME NEW headers, NEW method, NEW params, NEW version, StandardOnly(headers, method, params, version),
           NEW mirrored, NEW n \in Nat, DOMAIN mirrored = 1..n
    PROVE  Verdict(mirrored, ArgumentsRead(params), Platform!ValidateRequestHeaders(headers, method, params, version, mirrored))
<1> DEFINE args == ArgumentsRead(params)
           fault(i) == Platform!ParamFault(headers, mirrored[i], args)
           missing(i) == Platform!Fault("missing_header", Platform!ParamHeader(mirrored[i]))
           g == [i \in 1..n |-> fault(i)]
           E == {fault(i) : i \in 1..n}
           first == Platform!FirstFault(<< Platform!None, Platform!None, Platform!None >> \o g)
<1>1. Platform!ValidateRequestHeaders(headers, method, params, version, mirrored) = first
  <2>1. Platform!ValidateRequestHeaders(headers, method, params, version, mirrored) =
          Platform!FirstFault(<< Platform!PlainFault(headers, Platform!VersionHeader, version),
                                 Platform!PlainFault(headers, Platform!MethodHeader, << method >>),
                                 Platform!NameFault(headers, method, params) >> \o [i \in DOMAIN mirrored |-> fault(i)])
    BY DEF Platform!ValidateRequestHeaders, ArgumentsRead
  <2>2. [i \in DOMAIN mirrored |-> fault(i)] = g
    <3> HIDE DEF fault
    <3> QED OBVIOUS
  <2> HIDE DEF fault, g
  <2> QED BY <2>1, <2>2 DEF StandardOnly
<1>2. \A i \in 1..n : IF i \in Present(mirrored, args) THEN fault(i) = missing(i) /\ missing(i) # Platform!None ELSE fault(i) = Platform!None
  <2> SUFFICES ASSUME NEW i \in 1..n
               PROVE  IF i \in Present(mirrored, args) THEN fault(i) = missing(i) /\ missing(i) # Platform!None ELSE fault(i) = Platform!None
    OBVIOUS
  <2> DEFINE header == Platform!ParamHeader(mirrored[i])
  <2>1. header \notin DOMAIN headers
    BY DEF StandardOnly
  <2>2. i \in Present(mirrored, args) <=> ~Platform!IsAbsent(Platform!ReadAtPath(args, mirrored[i].path))
    BY DEF Present
  <2>3. missing(i) # Platform!None
    BY DEF Platform!Fault, Platform!None
  <2>4. Platform!EncodingFault(headers, header) = missing(i)
    BY <2>1 DEF Platform!EncodingFault
  <2> HIDE DEF header, args, missing
  <2>5. fault(i) = IF Platform!IsAbsent(Platform!ReadAtPath(args, mirrored[i].path)) THEN Platform!None ELSE missing(i)
    BY <2>1, <2>3, <2>4 DEF Platform!ParamFault, header
  <2> HIDE DEF fault
  <2> QED BY <2>2, <2>3, <2>5
<1>3. Present(mirrored, args) \subseteq 1..n
  BY DEF Present
<1>4. g \in [1..n -> E] /\ \A i \in 1..n : g[i] = fault(i)
  <2> HIDE DEF fault
  <2> QED OBVIOUS
<1>5. IF \A i \in 1..n : g[i] = Platform!None THEN first = Platform!None ELSE \E i \in 1..n : g[i] # Platform!None /\ first = g[i]
  <2> HIDE DEF g, E
  <2> QED BY <1>4, FirstOfOthers
<1> HIDE DEF args, fault, missing, g, first
<1>6. IF Present(mirrored, args) = {} THEN first = Platform!None ELSE \E i \in Present(mirrored, args) : first = missing(i)
  BY <1>2, <1>3, <1>4, <1>5
<1> QED BY <1>1, <1>6 DEF Verdict, args, missing

\* No header for a parameter is one of the others.
LEMMA ParamApart ==
    \A param : Platform!ParamHeader(param) \notin {Platform!VersionHeader, Platform!MethodHeader, Platform!NameHeader}
BY DEF Platform!ParamHeader, Platform!VersionHeader, Platform!MethodHeader, Platform!NameHeader

\* A request of the client with a name in its body.
LEMMA NamedStandard ==
    ASSUME NEW method, NEW field, NEW name, name \in Seq(Range(name)), name # << >>,
           NEW params, field \in DOMAIN params, params[field] = Text(name),
           \/ method = "tools/call" /\ field = "name"
           \/ method = "resources/read" /\ field = "uri"
    PROVE  LET sent == Sent(method, params)
           IN  /\ sent.method = method /\ sent.params = params
               /\ StandardOnly(sent.headers, method, params, sent.version)
<1> DEFINE sent == Sent(method, params)
           headers == sent.headers
           raw == EncodeMcpHeaderValue(name)
<1>1. sent.method = method /\ sent.version = StatelessVersion /\ sent.params = params
  BY DEF Sent
<1>0. params[field].type = "string" /\ params[field].text = name
  BY DEF Text
<1>2. McpNameFor(method, params) = << name >>
  BY <1>0 DEF McpNameFor
<1>3. Platform!VersionHeader # Platform!MethodHeader /\ Platform!VersionHeader # Platform!NameHeader /\ Platform!MethodHeader # Platform!NameHeader
  BY DEF Platform!VersionHeader, Platform!MethodHeader, Platform!NameHeader
<1>4. headers = [h \in {Platform!VersionHeader, Platform!MethodHeader} \cup {Platform!NameHeader} |->
                   IF h = Platform!VersionHeader THEN StatelessVersion
                   ELSE IF h = Platform!MethodHeader THEN << method >> ELSE raw]
  <2> DEFINE standard == {Platform!VersionHeader, Platform!MethodHeader}
             named(m) == [h \in standard \cup (IF m = << >> THEN {} ELSE {Platform!NameHeader}) |->
                            IF h = Platform!VersionHeader THEN StatelessVersion
                            ELSE IF h = Platform!MethodHeader THEN << method >> ELSE EncodeMcpHeaderValue(m[1])]
  <2>1. headers = named(McpNameFor(method, params))
    BY DEF Sent
  <2>2. << name >> # << >> /\ << name >>[1] = name
    OBVIOUS
  <2>3. headers = named(<< name >>)
    <3> HIDE DEF named, headers
    <3> QED BY <1>2, <2>1
  <2>4. (IF << name >> = << >> THEN {} ELSE {Platform!NameHeader}) = {Platform!NameHeader}
    BY <2>2
  <2>5. EncodeMcpHeaderValue(<< name >>[1]) = raw
    BY <2>2
  <2> HIDE DEF headers, raw, standard
  <2> QED BY <2>3, <2>4, <2>5 DEF standard
<1>5. /\ DOMAIN headers = {Platform!VersionHeader, Platform!MethodHeader, Platform!NameHeader}
      /\ headers[Platform!VersionHeader] = StatelessVersion /\ headers[Platform!MethodHeader] = << method >>
      /\ headers[Platform!NameHeader] = raw
  <2> HIDE DEF headers, raw
  <2> QED BY <1>3, <1>4
<1>7. Platform!PlainFault(headers, Platform!VersionHeader, StatelessVersion) = Platform!None
      /\ Platform!PlainFault(headers, Platform!MethodHeader, << method >>) = Platform!None
  <2> HIDE DEF headers
  <2> QED BY <1>5 DEF Platform!PlainFault
<1>8. Platform!NameFault(headers, method, params) = Platform!None
  <2>1. Platform!NameSource(method) = field /\ field # "none"
    BY DEF Platform!NameSource
  <2>3. Platform!DecodeHeaderValue(raw) = name /\ (Platform!IsWrapped(raw) \/ Platform!HeaderSafe(raw))
    BY EncodedName
  <2>4. Platform!EncodingFault(headers, Platform!NameHeader) = Platform!None
    <3> HIDE DEF headers, raw
    <3> QED BY <1>5, <2>3 DEF Platform!EncodingFault, Platform!None
  <2> HIDE DEF headers, raw
  <2> QED BY <1>0, <1>5, <2>1, <2>3, <2>4 DEF Platform!NameFault
<1>9. \A param : Platform!ParamHeader(param) \notin DOMAIN headers
  <2> HIDE DEF headers
  <2> QED BY <1>5, ParamApart
<1>10. StandardOnly(headers, method, params, StatelessVersion)
  <2> HIDE DEF headers
  <2> QED BY <1>7, <1>8, <1>9 DEF StandardOnly
<1> QED
  <2> HIDE DEF headers
  <2>1. StandardOnly(headers, method, params, sent.version)
    BY <1>1, <1>10
  <2> QED BY <1>1, <2>1 DEF headers

\* A request that has no name to mirror.
LEMMA PlainStandard ==
    ASSUME NEW method \in {"tools/list", "resources/list", "server/discover"}
    PROVE  LET sent == Sent(method, << >>)
           IN  /\ sent.method = method /\ sent.params = << >>
               /\ StandardOnly(sent.headers, method, << >>, sent.version)
<1> DEFINE sent == Sent(method, << >>)
           headers == sent.headers
           params == << >>
<1>1. sent.method = method /\ sent.version = StatelessVersion /\ sent.params = << >>
  BY DEF Sent
<1>2. McpNameFor(method, << >>) = << >>
  BY DEF McpNameFor
<1>3. Platform!VersionHeader # Platform!MethodHeader
  BY DEF Platform!VersionHeader, Platform!MethodHeader
<1>4. headers = [h \in {Platform!VersionHeader, Platform!MethodHeader} \cup {} |->
                   IF h = Platform!VersionHeader THEN StatelessVersion
                   ELSE IF h = Platform!MethodHeader THEN << method >> ELSE EncodeMcpHeaderValue(McpNameFor(method, << >>)[1])]
  BY <1>2 DEF Sent
<1>5. /\ DOMAIN headers = {Platform!VersionHeader, Platform!MethodHeader}
      /\ headers[Platform!VersionHeader] = StatelessVersion /\ headers[Platform!MethodHeader] = << method >>
  <2> HIDE DEF headers
  <2> QED BY <1>3, <1>4
<1>6. Platform!PlainFault(headers, Platform!VersionHeader, StatelessVersion) = Platform!None
      /\ Platform!PlainFault(headers, Platform!MethodHeader, << method >>) = Platform!None
  <2> HIDE DEF headers
  <2> QED BY <1>5 DEF Platform!PlainFault
<1>7. Platform!NameFault(headers, method, params) = Platform!None
  <2>1. Platform!NameSource(method) = "none"
    BY DEF Platform!NameSource
  <2> HIDE DEF headers, params
  <2> QED BY <2>1 DEF Platform!NameFault
<1>8. \A param : Platform!ParamHeader(param) \notin DOMAIN headers
  <2> HIDE DEF headers
  <2> QED BY <1>5, ParamApart
<1>9. StandardOnly(headers, method, << >>, StatelessVersion)
  <2>1. Platform!NameFault(headers, method, << >>) = Platform!None
    BY <1>7
  <2> HIDE DEF headers
  <2> QED BY <1>6, <1>8, <2>1 DEF StandardOnly
<1> QED
  <2> HIDE DEF headers
  <2>1. StandardOnly(headers, method, << >>, sent.version)
    BY <1>1, <1>9
  <2> QED BY <1>1, <2>1 DEF headers

-----------------------------------------------------------------------------
(* McpConnection: the URL of a server.                                      *)

Segments == PathSegments \cup {"", "mcp"}

\* A number above another is not below it.
LEMMA AboveIt ==
  ASSUME NEW a \in Nat, NEW b \in 0..a, NEW c \in b+1..a
  PROVE  c \in 0..a /\ ~(c <= b)
OBVIOUS

\* The greatest of some numbers up to a bound.
LEMMA GreatestElement ==
  ASSUME NEW N \in Nat, NEW K, K \subseteq 0..N, K # {}
  PROVE  \E n \in K : (\A m \in K : m <= n) /\ (CHOOSE k \in K : \A m \in K : m <= k) = n
<1> DEFINE below == {d \in 0..N : N - d \in K}
<1>1. below \subseteq Nat /\ below # {}
  <2>1. PICK k \in K : TRUE
    OBVIOUS
  <2>2. k \in 0..N /\ N - k \in 0..N /\ N - (N - k) = k
    OBVIOUS
  <2>3. N - k \in below
    BY <2>2
  <2>4. below \subseteq Nat
    OBVIOUS
  <2> HIDE DEF below
  <2> QED
    BY <2>3, <2>4
<1>2. PICK d \in below : \A e \in below : d <= e
  <2> HIDE DEF below
  <2> QED
    BY <1>1, LeastElement
<1>3. PICK n \in K : n = N - d
  BY <1>2
<1>4. d \in 0..N /\ n \in 0..N /\ d = N - n
  <2>1. d \in 0..N /\ n \in 0..N
    BY <1>2
  <2> QED
    BY <1>3, <2>1
<1>5. ASSUME NEW m \in K PROVE m <= n
  <2>1. m \in 0..N /\ N - m \in 0..N /\ N - (N - m) = m
    OBVIOUS
  <2>2. N - m \in below
    BY <2>1
  <2>3. d <= N - m
    BY <1>2, <2>2
  <2> QED
    BY <1>4, <2>1, <2>3
<1>6. ASSUME NEW k \in K, \A m \in K : m <= k PROVE k = n
  <2>1. n <= k /\ k <= n /\ k \in 0..N
    BY <1>5, <1>6
  <2> QED
    BY <1>4, <2>1
<1> QED
  BY <1>5, <1>6

\* What is left of a path without the slashes at its end.
LEMMA TrimmedOf ==
  ASSUME NEW p \in Seq(Segments), NEW N, N = Len(p)
  PROVE  \E n \in 0..N : /\ Trimmed(p) = SubSeq(p, 1, n)
                         /\ n = 0 \/ p[n] # ""
                         /\ \A m \in n+1..N : p[m] = ""
<1> DEFINE kept == {n \in 0..Len(p) : n = 0 \/ p[n] # ""}
<1>0. N \in Nat
  OBVIOUS
<1>1. kept \subseteq 0..N /\ kept # {} /\ \A m \in 0..N : p[m] # "" => m \in kept
  <2>1. 0 \in kept
    BY <1>0
  <2> QED
    BY <2>1
<1>2. PICK n \in kept : (\A m \in kept : m <= n) /\ (CHOOSE k \in kept : \A m \in kept : m <= k) = n
  <2> HIDE DEF kept
  <2> QED
    BY <1>0, <1>1, GreatestElement
<1>3. n \in 0..N /\ (n = 0 \/ p[n] # "")
  BY <1>2
<1>4. Trimmed(p) = SubSeq(p, 1, n)
  BY <1>2 DEF Trimmed
<1>5. ASSUME NEW m \in n+1..N, p[m] # "" PROVE FALSE
  <2>1. m \in 0..N /\ ~(m <= n)
    <3> HIDE DEF kept
    <3> QED
      BY <1>0, <1>3, AboveIt
  <2> HIDE DEF kept
  <2> QED
    BY <1>1, <1>2, <1>5, <2>1
<1> QED
  BY <1>3, <1>4, <1>5

\* A path without a doubled or a trailing slash.
Clean(q) == q \in Seq(Segments) /\ \A i \in 1..Len(q) : q[i] # ""

\* There is nothing to trim of it, and nothing to drop.
LEMMA CleanStays ==
  ASSUME NEW q, Clean(q)
  PROVE  Trimmed(q) = q /\ ~EndsIn(q, "")
<1>0. q \in Seq(Segments) /\ Len(q) \in Nat
  <2>1. q \in Seq(Segments)
    BY Zenon DEF Clean
  <2> QED
    BY <2>1
<1>1. PICK n \in 0..Len(q) : /\ Trimmed(q) = SubSeq(q, 1, n)
                             /\ \A m \in n+1..Len(q) : q[m] = ""
  BY <1>0, TrimmedOf
<1>2. n = Len(q)
  <2>1. ASSUME n # Len(q) PROVE FALSE
    <3>1. Len(q) \in n+1..Len(q) /\ Len(q) \in 1..Len(q)
      BY <1>0, <2>1
    <3> QED
      BY <1>1, <3>1 DEF Clean
  <2> QED
    BY <2>1
<1>3. Trimmed(q) = q
  BY <1>0, <1>1, <1>2, SubSeqFull
<1>4. q # << >> => Len(q) \in 1..Len(q)
  BY <1>0, EmptySeq
<1> QED
  BY <1>3, <1>4 DEF EndsIn, Last, Clean

\* What is trimmed of an ordinary path is clean, and "mcp" is in it once.
LEMMA OrdinaryTrims ==
  ASSUME NEW p \in Seq(Segments), Ordinary(p)
  PROVE  Clean(Trimmed(p)) /\ \A i, j \in 1..Len(Trimmed(p)) : i < j => ~(Trimmed(p)[i] = "mcp" /\ Trimmed(p)[j] = "mcp")
<1>0. Len(p) \in Nat /\ DOMAIN p = 1..Len(p) /\ \A i \in 1..Len(p) : p[i] \in Segments
  BY LenProperties, ElementOfSeq
<1>1. PICK n \in 0..Len(p) : Trimmed(p) = SubSeq(p, 1, n) /\ (n = 0 \/ p[n] # "")
  BY TrimmedOf
<1>2. \A i \in 1..n : i \in 1..Len(p) /\ p[i] \in Segments
  BY <1>0
<1>3. Trimmed(p) \in Seq(Segments) /\ Len(Trimmed(p)) = n /\ \A i \in 1..n : Trimmed(p)[i] = p[i]
  <2>1. /\ SubSeq(p, 1, n) \in Seq(Segments) /\ Len(SubSeq(p, 1, n)) = IF 1 <= n THEN n - 1 + 1 ELSE 0
        /\ \A i \in 1 .. n - 1 + 1 : SubSeq(p, 1, n)[i] = p[1 + i - 1]
    <3> HIDE DEF Segments
    <3> QED
      BY <1>2, SubSeqProperties
  <2>2. n - 1 + 1 = n /\ (IF 1 <= n THEN n - 1 + 1 ELSE 0) = n /\ \A i \in 1..n : 1 + i - 1 = i
    BY <1>0
  <2> QED
    BY <1>1, <2>1, <2>2
<1>4. ASSUME NEW i \in 1..n, p[i] = "" PROVE FALSE
  <2>0. n \in 1..Len(p) /\ i \in 1..Len(p) /\ i <= n
    BY <1>0, <1>2
  <2>3. n # 0
    BY <1>0, <2>0
  <2>4. p[n] # ""
    BY <1>1, <2>3
  <2>1. p[n] # "" /\ n # i /\ n # 0
    BY <1>4, <2>3, <2>4
  <2>5. i \in DOMAIN p /\ n \in DOMAIN p
    BY <1>0, <2>0
  <2>6. \A a, b \in 1..Len(p) : a <= b /\ a # b => a < b
    BY <1>0
  <2>2. i < n /\ i \in DOMAIN p /\ n \in DOMAIN p
    BY <2>0, <2>1, <2>5, <2>6
  <2> QED
    BY <1>4, <2>1, <2>2 DEF Ordinary
<1>5. \A i, j \in 1..n : i < j => ~(p[i] = "mcp" /\ p[j] = "mcp")
  BY <1>0, <1>2 DEF Ordinary
<1> QED
  BY <1>3, <1>4, <1>5 DEF Clean

\* A path may be given with or without its endpoint, and is brought to one form.
LEMMA UrlsAgree ==
  ASSUME NEW p \in Seq(Segments), Ordinary(p)
  PROVE  Endpoint(BaseUrl(p)) = Endpoint(p) /\ BaseUrl(BaseUrl(p)) = BaseUrl(p)
<1> DEFINE t == Trimmed(p)
<1>1. Clean(t) /\ \A i, j \in 1..Len(t) : i < j => ~(t[i] = "mcp" /\ t[j] = "mcp")
  BY OrdinaryTrims
<1>2. t \in Seq(Segments) /\ Len(t) \in Nat /\ \A i \in 1..Len(t) : t[i] \in Segments
  <2>1. t \in Seq(Segments)
    BY <1>1 DEF Clean
  <2> HIDE DEF t, Segments
  <2> QED
    BY <2>1, LenProperties, ElementOfSeq
<1>3. CASE EndsIn(t, "mcp")
  <2> DEFINE f == Front(t)
  <2>1. Len(t) # 0 /\ t[Len(t)] = "mcp" /\ Len(t) \in 1..Len(t)
    <3>1. Len(t) # 0
      BY <1>2, <1>3, EmptySeq DEF EndsIn
    <3> QED
      BY <1>2, <1>3, <3>1 DEF EndsIn, Last
  <2>2. f \in Seq(Segments) /\ Len(f) = Len(t) - 1 /\ \A i \in 1..Len(t) - 1 : f[i] = t[i]
    <3> DEFINE m == Len(t) - 1
    <3>1. m \in Int /\ \A i \in 1..m : t[i] \in Segments
      BY <1>2, <2>1
    <3>2. /\ SubSeq(t, 1, m) \in Seq(Segments) /\ Len(SubSeq(t, 1, m)) = IF 1 <= m THEN m - 1 + 1 ELSE 0
          /\ \A i \in 1 .. m - 1 + 1 : SubSeq(t, 1, m)[i] = t[1 + i - 1]
      <4> HIDE DEF Segments, m, t
      <4> QED
        BY <3>1, SubSeqProperties
    <3>3. m - 1 + 1 = m /\ (IF 1 <= m THEN m - 1 + 1 ELSE 0) = m /\ \A i \in 1..m : 1 + i - 1 = i
      <4>1. m \in Nat
        BY <1>2, <2>1
      <4> HIDE DEF m
      <4> QED
        BY <4>1
    <3> HIDE DEF t
    <3> QED
      BY <3>2, <3>3 DEF Front
  <2>3. Clean(f) /\ ~EndsIn(f, "mcp")
    <3>1. \A i \in 1..Len(f) : i \in 1..Len(t) /\ i < Len(t) /\ f[i] = t[i]
      BY <1>2, <2>1, <2>2
    <3>2. \A i \in 1..Len(f) : f[i] # "mcp" /\ f[i] # ""
      BY <1>1, <2>1, <3>1 DEF Clean
    <3>3. f # << >> => Len(f) \in 1..Len(f)
      BY <2>2, EmptySeq
    <3> HIDE DEF f
    <3> QED
      BY <2>2, <3>2, <3>3 DEF Clean, EndsIn, Last
  <2>4. Trimmed(f) = f /\ ~EndsIn(f, "")
    BY <2>3, CleanStays
  <2>5. BaseUrl(p) = f /\ Endpoint(p) = t
    <3> HIDE DEF f
    <3> QED
      BY <1>3, <2>4 DEF BaseUrl, Endpoint, f
  <2>6. Append(f, "mcp") = t
    <3>1. Append(f, "mcp") \in Seq(Segments) /\ Len(Append(f, "mcp")) = Len(t)
          /\ \A i \in 1..Len(t) : Append(f, "mcp")[i] = t[i]
      <4>1. "mcp" \in Segments
        BY DEF Segments
      <4>2. Append(f, "mcp") \in Seq(Segments) /\ Len(Append(f, "mcp")) = Len(f) + 1
            /\ \A i \in 1..Len(f) : Append(f, "mcp")[i] = f[i]
            /\ Append(f, "mcp")[Len(f) + 1] = "mcp"
        <5> HIDE DEF f
        <5> QED
          BY <2>2, <4>1
      <4>3. Len(f) + 1 = Len(t) /\ \A i \in 1..Len(t) : i \in 1..Len(f) \/ i = Len(f) + 1
        <5> HIDE DEF f, t
        <5> QED
          BY <1>2, <2>1, <2>2
      <4> HIDE DEF f, t
      <4> QED
        BY <1>2, <2>1, <2>2, <4>2, <4>3
    <3> HIDE DEF f, t
    <3> QED
      BY <1>2, <3>1, SeqEqual
  <2> HIDE DEF f, t
  <2> QED
    BY <2>3, <2>4, <2>5, <2>6 DEF BaseUrl, Endpoint
<1>4. CASE ~EndsIn(t, "mcp")
  <2>1. Trimmed(t) = t /\ ~EndsIn(t, "")
    BY <1>1, CleanStays
  <2>2. BaseUrl(p) = t /\ Endpoint(p) = Append(t, "mcp")
    BY <1>4, <2>1 DEF BaseUrl, Endpoint
  <2> HIDE DEF t
  <2> QED
    BY <1>4, <2>1, <2>2 DEF BaseUrl, Endpoint
<1> QED
  BY <1>3, <1>4

\* The paths that are looked at.
LEMMA UrlsAreOrdinary == \A path \in UrlPaths : path \in Seq(Segments) /\ Ordinary(path)
<1> SUFFICES ASSUME NEW path \in UrlPaths PROVE path \in Seq(Segments) /\ Ordinary(path)
  OBVIOUS
<1>1. Ordinary(path) /\ \E n \in 0..MaxSegments : path \in [1..n -> PathSegments]
  BY DEF UrlPaths
<1>2. PICK n \in 0..MaxSegments : path \in [1..n -> PathSegments]
  BY <1>1
<1>3. n \in Nat
  BY NamesAssumption
<1>4. path \in [1..n -> Segments]
  BY <1>2 DEF Segments
<1> QED
  BY <1>1, <1>3, <1>4, SeqDef

\* A request of any kind is read as it is meant.
OperationJudged(kind, name, args, mirrored) ==
  LET sent == Operation(kind, name, args)
  IN  Verdict(mirrored, args, Platform!ValidateRequestHeaders(sent.headers, sent.method, sent.params, sent.version, mirrored))

\* With nothing to mirror the verdict does not depend on the arguments.
LEMMA NothingPresent == ASSUME NEW a, NEW b, NEW fault, Verdict(<< >>, a, fault) PROVE Verdict(<< >>, b, fault)
BY DEF Verdict, Present

\* A call is refused for an argument it should mirror, and for nothing else; other requests are accepted.
LEMMA OperationUnderstood ==
  ASSUME NEW kind \in Kinds \cup {"discover"}, NEW name \in Names, NEW args \in ToolArguments, NEW mirrored \in Annotations
  PROVE  OperationJudged(kind, name, args, IF kind = "tool-call" THEN mirrored ELSE << >>)
<1>0. name \in Seq(Range(name)) /\ name # << >> /\ args.type = "object"
  BY NamesAssumption
<1>1. CASE kind = "tool-call"
  <2> DEFINE params == [name |-> Text(name), arguments |-> args]
             sent == Sent("tools/call", params)
  <2>1. Operation(kind, name, args) = sent
    BY <1>1 DEF Operation
  <2>2. "name" \in DOMAIN params /\ params["name"] = Text(name) /\ "arguments" \in DOMAIN params /\ params["arguments"] = args
    OBVIOUS
  <2>3. ArgumentsRead(params) = args
    <3> HIDE DEF params
    <3> QED
      BY <1>0, <2>2 DEF ArgumentsRead, Platform!IsRecord
  <2>4. sent.method = "tools/call" /\ sent.params = params /\ StandardOnly(sent.headers, "tools/call", params, sent.version)
    <3> HIDE DEF params
    <3> QED
      BY <1>0, <2>2, NamedStandard
  <2>5. PICK n \in Nat : DOMAIN mirrored = 1..n
    <3>1. mirrored \in Seq(Range(mirrored))
      BY NamesAssumption
    <3> QED
      BY <3>1, LenProperties
  <2> HIDE DEF params, sent
  <2>6. Verdict(mirrored, args, Platform!ValidateRequestHeaders(sent.headers, "tools/call", params, sent.version, mirrored))
    BY <2>3, <2>4, <2>5, VerdictOnStandard
  <2> QED
    BY <1>1, <2>1, <2>4, <2>6 DEF OperationJudged
<1>2. ASSUME NEW method, NEW params, kind # "tool-call", Operation(kind, name, args) = Sent(method, params),
             LET sent == Sent(method, params)
             IN  sent.method = method /\ sent.params = params /\ StandardOnly(sent.headers, method, params, sent.version)
      PROVE  OperationJudged(kind, name, args, IF kind = "tool-call" THEN mirrored ELSE << >>)
  <2> DEFINE sent == Sent(method, params)
             fault == Platform!ValidateRequestHeaders(sent.headers, method, params, sent.version, << >>)
  <2>1. 0 \in Nat /\ DOMAIN << >> = 1..0
    OBVIOUS
  <2>2. sent.method = method /\ sent.params = params /\ StandardOnly(sent.headers, method, params, sent.version)
    BY <1>2
  <2> HIDE DEF sent
  <2>3. Verdict(<< >>, ArgumentsRead(params), fault)
    BY <2>1, <2>2, VerdictOnStandard
  <2> HIDE DEF fault
  <2>4. Verdict(<< >>, args, fault)
    BY <2>3, NothingPresent
  <2> QED
    BY <1>2, <2>2, <2>4 DEF OperationJudged, sent, fault
<1>3. CASE kind = "resource-read"
  <2> DEFINE params == [uri |-> Text(name)]
  <2>1. Operation(kind, name, args) = Sent("resources/read", params)
    BY <1>3 DEF Operation
  <2>2. "uri" \in DOMAIN params /\ params["uri"] = Text(name)
    OBVIOUS
  <2> HIDE DEF params
  <2> QED
    BY <1>0, <1>2, <1>3, <2>1, <2>2, NamedStandard
<1>4. CASE kind \notin {"tool-call", "resource-read"}
  <2>1. PICK method \in {"tools/list", "resources/list", "server/discover"} : Operation(kind, name, args) = Sent(method, << >>)
    BY <1>4 DEF Operation
  <2>2. LET sent == Sent(method, << >>)
        IN  sent.method = method /\ sent.params = << >> /\ StandardOnly(sent.headers, method, << >>, sent.version)
    BY PlainStandard
  <2> QED
    BY Zenon, <1>2, <1>4, <2>1, <2>2
<1> QED
  BY <1>1, <1>3, <1>4

\* A connection is as it should be, in each of its cases and in none.
LEMMA LinkMeans ==
  ASSUME LinkInit \/ link = [case |-> "none"]
  PROVE  SpokenTo /\ Understood
<1>1. CASE link \in [case : {"connect"}, protocol : {"auto", "stateless-2026-07-28", "streamable-http"}, answer : PossibleAnswers,
                     initializes : BOOLEAN]
  <2>1. link.case = "connect" /\ link.protocol \in {"auto", "stateless-2026-07-28", "streamable-http"} /\ link.initializes \in BOOLEAN
    BY <1>1
  <2>2. SpokenTo
    BY <2>1, ConnectSpeaks DEF SpokenTo
  <2> QED
    BY <2>1, <2>2 DEF Understood
<1>2. CASE link \in [case : {"operation"}, kind : Kinds, speaks : {"none", "stateless", "streamable"}, answer : PossibleAnswers]
  <2>1. /\ link.case = "operation" /\ link.kind \in Kinds /\ link.speaks \in {"none", "stateless", "streamable"}
        /\ link.answer \in PossibleAnswers
    BY <1>2
  <2>3. Honest(link.kind, link.speaks, link.answer, Performed(link.kind, link.speaks, link.answer))
    BY <2>1, OperationSays
  <2>4. link.case # "connect" /\ link.case # "url"
    BY <2>1
  <2>2. SpokenTo
    BY Zenon, <2>3, <2>4 DEF SpokenTo, Honest
  <2> QED
    BY <2>1, <2>2 DEF Understood
<1>3. CASE link \in [case : {"headers"}, kind : Kinds \cup {"discover"}, name : Names, args : ToolArguments, mirrored : Annotations]
  <2>1. /\ link.case = "headers" /\ link.kind \in Kinds \cup {"discover"} /\ link.name \in Names
        /\ link.args \in ToolArguments /\ link.mirrored \in Annotations
    BY <1>3
  <2>3. OperationJudged(link.kind, link.name, link.args, IF link.kind = "tool-call" THEN link.mirrored ELSE << >>)
    BY <2>1, OperationUnderstood
  <2>2. Understood
    BY Zenon, <2>3 DEF Understood, OperationJudged, Verdict
  <2> QED
    BY <2>1, <2>2 DEF SpokenTo
<1>4. CASE link \in [case : {"url"}, path : UrlPaths]
  <2>1. link.case = "url" /\ link.path \in UrlPaths
    BY <1>4
  <2>2. link.path \in Seq(Segments) /\ Ordinary(link.path)
    BY <2>1, UrlsAreOrdinary
  <2>3. Endpoint(BaseUrl(link.path)) = Endpoint(link.path) /\ BaseUrl(BaseUrl(link.path)) = BaseUrl(link.path)
    BY <2>2, UrlsAgree
  <2> QED
    BY <2>1, <2>3 DEF SpokenTo, Understood
<1>5. CASE link = [case |-> "none"]
  BY <1>5 DEF SpokenTo, Understood
<1> QED
  BY <1>1, <1>2, <1>3, <1>4, <1>5 DEF LinkInit

-----------------------------------------------------------------------------
(* Sets counted together, each with its place.                              *)

\* N sets against as many, each as large as the other; and what is in them, with where.
AsMany(F, G, N) == \A i \in 1..N : IsFiniteSet(F[i]) /\ IsFiniteSet(G[i]) /\ Cardinality(F[i]) = Cardinality(G[i])
Tagged(F, N) == UNION {{i} \X F[i] : i \in 1..N}

\* Sets that are as many one by one are as many together.
LEMMA TaggedUnions ==
  ASSUME NEW N \in Nat, NEW F, NEW G, AsMany(F, G, N)
  PROVE  IsFiniteSet(Tagged(F, N)) /\ IsFiniteSet(Tagged(G, N)) /\ Cardinality(Tagged(F, N)) = Cardinality(Tagged(G, N))
<1> DEFINE U(X, n) == UNION {{i} \X X[i] : i \in 1..n}
           Right == {n \in 0..N : IsFiniteSet(U(F, n)) /\ IsFiniteSet(U(G, n)) /\ Cardinality(U(F, n)) = Cardinality(U(G, n))}
<1>0. \A i \in 1..N : IsFiniteSet(F[i]) /\ IsFiniteSet(G[i]) /\ Cardinality(F[i]) = Cardinality(G[i])
  BY DEF AsMany
<1>1. 0 \in Right
  <2>1. \A X : U(X, 0) = {}
    OBVIOUS
  <2> HIDE DEF U
  <2> QED
    BY <2>1, FS_EmptySet
<1>2. ASSUME NEW n \in 1..N, n - 1 \in Right PROVE n \in Right
  <2>1. ASSUME NEW X, IsFiniteSet(X[n]), IsFiniteSet(U(X, n - 1))
        PROVE  IsFiniteSet(U(X, n)) /\ Cardinality(U(X, n)) = Cardinality(U(X, n - 1)) + Cardinality(X[n])
    <3> DEFINE Q == {n} \X X[n]
    <3>1. IsFiniteSet(Q) /\ Cardinality(Q) = Cardinality(X[n])
      <4> DEFINE P == X[n]
      <4>1. IsFiniteSet(P) /\ Q = {n} \X P
        BY <2>1
      <4> HIDE DEF P, Q
      <4>2. \A m, Y : IsFiniteSet(Y) => IsFiniteSet({m} \X Y) /\ Cardinality({m} \X Y) = Cardinality(Y)
        BY TaggedCount
      <4>3. IsFiniteSet(Q) /\ Cardinality(Q) = Cardinality(P)
        BY <4>1, <4>2
      <4> QED
        BY <4>3 DEF P
    <3>2. U(X, n) = U(X, n - 1) \cup Q
      <4>1. \A i : i \in 1..n <=> i \in 1..n-1 \/ i = n
        OBVIOUS
      <4> QED
        BY <4>1
    <3>3. U(X, n - 1) \cap Q = {}
      <4>1. n \notin 1..n-1
        OBVIOUS
      <4>2. \A p \in U(X, n - 1) : p[1] \in 1..n-1
        OBVIOUS
      <4>3. \A p \in Q : p[1] = n
        OBVIOUS
      <4> HIDE DEF U, Q
      <4> QED
        BY <4>1, <4>2, <4>3
    <3> HIDE DEF U, Q
    <3>4. IsFiniteSet(U(X, n - 1) \cup Q)
          /\ Cardinality(U(X, n - 1) \cup Q) = Cardinality(U(X, n - 1)) + Cardinality(Q) - Cardinality(U(X, n - 1) \cap Q)
      BY <2>1, <3>1, FS_Union
    <3>5. Cardinality(U(X, n - 1) \cap Q) = 0 /\ Cardinality(U(X, n - 1)) \in Nat /\ Cardinality(Q) \in Nat
      BY <2>1, <3>1, <3>3, FS_EmptySet, FS_CardinalityType
    <3> QED
      BY <3>1, <3>2, <3>4, <3>5
  <2>2. n \in 0..N
    OBVIOUS
  <2>3. IsFiniteSet(U(F, n - 1)) /\ IsFiniteSet(U(G, n - 1)) /\ Cardinality(U(F, n - 1)) = Cardinality(U(G, n - 1))
    <3> HIDE DEF U
    <3> QED
      BY <1>2
  <2>4. IsFiniteSet(F[n]) /\ IsFiniteSet(G[n]) /\ Cardinality(F[n]) = Cardinality(G[n])
    BY <1>0
  <2> HIDE DEF U
  <2>5. IsFiniteSet(U(F, n)) /\ Cardinality(U(F, n)) = Cardinality(U(F, n - 1)) + Cardinality(F[n])
    BY <2>1, <2>3, <2>4
  <2>6. IsFiniteSet(U(G, n)) /\ Cardinality(U(G, n)) = Cardinality(U(G, n - 1)) + Cardinality(G[n])
    BY <2>1, <2>3, <2>4
  <2> QED
    BY <2>2, <2>3, <2>4, <2>5, <2>6
<1>3. N \in Right
  <2>1. \A n \in 0..N : n \in Right
    <3> HIDE DEF Right
    <3> QED
      BY <1>1, <1>2, UpToInduction
  <2> HIDE DEF Right
  <2> QED
    BY <2>1
<1>4. IsFiniteSet(U(F, N)) /\ IsFiniteSet(U(G, N)) /\ Cardinality(U(F, N)) = Cardinality(U(G, N))
  <2> HIDE DEF U
  <2> QED
    BY <1>3
<1> QED
  BY <1>4 DEF Tagged

-----------------------------------------------------------------------------
(* HostPage: what one panel gets from its source.                           *)

\* The entries that are of the panel's own resource: of it only, and all of them.
LEMMA OwnEntries ==
  ASSUME NEW E, NEW e \in Seq(E)
  PROVE  /\ OwnOf(e) \in Seq(E)
         /\ \A n \in 1..Len(OwnOf(e)) : OwnOf(e)[n].uri = Own
         /\ \A T : Occurs(OwnOf(e), T) = Cardinality({k \in 1..Len(e) : e[k].uri = Own /\ e[k] \in T})
<1> DEFINE S == {r \in Range(e) : r.uri = Own}
           f == Kept(e, S)
<1>1. f = OwnOf(e)
  BY DEF OwnOf
<1>2. f \in Seq(E) /\ \A n \in 1..Len(f) : f[n] \in S
  BY KeptIn
<1>3. ASSUME NEW T PROVE Occurs(f, T) = Cardinality({k \in 1..Len(e) : e[k].uri = Own /\ e[k] \in T})
  <2>1. Occurs(f, T) = Occurs(e, S \cap T)
    BY KeptOccurs
  <2>2. DOMAIN e = 1..Len(e)
    BY LenProperties
  <2>3. \A k \in 1..Len(e) : e[k] \in Range(e)
    BY <2>2 DEF Range
  <2>4. Places(e, S \cap T) = {k \in 1..Len(e) : e[k].uri = Own /\ e[k] \in T}
    BY <2>3 DEF Places
  <2> HIDE DEF f, S
  <2> QED
    BY <2>1, <2>4 DEF Occurs
<1>4. \A n \in 1..Len(f) : f[n].uri = Own
  BY <1>2
<1> QED
  <2> HIDE DEF f
  <2> QED
    BY <1>1, <1>2, <1>3, <1>4

\* A sequence is as long as what occurs in it.
LEMMA OccursAll ==
  ASSUME NEW E, NEW s \in Seq(E)
  PROVE  Occurs(s, E) = Len(s)
<1>1. Len(s) \in Nat /\ \A n \in 1..Len(s) : s[n] \in E
  BY LenProperties, ElementOfSeq
<1>2. Places(s, E) = 1..Len(s)
  BY <1>1 DEF Places
<1>3. Cardinality(1..Len(s)) = Len(s)
  <2>1. Cardinality(1..Len(s)) = IF 1 > Len(s) THEN 0 ELSE Len(s) - 1 + 1
    BY <1>1, FS_Interval
  <2> QED
    BY <1>1, <2>1
<1> QED
  BY <1>2, <1>3 DEF Occurs

\* The pages of a source: all but the last say that there are more.
Paged(source, E) ==
  /\ source.pages \in Seq([resources : Seq(E), next : BOOLEAN]) /\ source.pages # << >>
  /\ \A n \in 1..Len(source.pages) : n < Len(source.pages) => source.pages[n].next

\* What is gathered from them is all that is the panel's, and nothing else.
Gathers(given, pages) ==
  /\ ~Last(pages).next
  /\ \A n \in DOMAIN given : given[n].uri = Own
  /\ Len(given) = Cardinality({at \in Entered(pages) : pages[at[1]].resources[at[2]].uri = Own})
\* What is listed for a panel is its own resource, once for each time its source lists it.
LEMMA ListsOwn ==
  ASSUME NEW E, NEW source, Paged(source, E), ListAllowedResources(source) # << >>,
         NEW given, given = ListAllowedResources(source)[1], NEW pages, pages = source.pages
  PROVE  Gathers(given, pages)
<1> DEFINE L == Len(pages)
           ends == {n \in 1..MaxPages : ~PageOf(source, n).next}
           end == CHOOSE n \in ends : \A m \in ends : n <= m
           ss == [n \in 1..end |-> OwnOf(PageOf(source, n).resources)]
<1>0. /\ pages \in Seq([resources : Seq(E), next : BOOLEAN]) /\ pages # << >>
      /\ \A n \in 1..L : n < L => pages[n].next
  BY DEF Paged
<1>1. L \in Nat \ {0} /\ DOMAIN pages = 1..L /\ \A n \in 1..L : pages[n] \in [resources : Seq(E), next : BOOLEAN]
  BY <1>0, LenProperties, EmptySeq, ElementOfSeq
<1>2. ends # {} /\ given = FlattenSeq(ss)
  <2>1. ends # {}
    BY DEF ListAllowedResources
  <2>2. ListAllowedResources(source) = << FlattenSeq(ss) >>
    BY <2>1 DEF ListAllowedResources
  <2> HIDE DEF ss, ends
  <2> QED
    BY <2>1, <2>2
<1>3. end \in ends /\ \A m \in ends : end <= m
  <2>1. ends \subseteq Nat
    OBVIOUS
  <2>2. \E n \in ends : \A m \in ends : n <= m
    <3> HIDE DEF ends
    <3> QED
      BY <1>2, <2>1, LeastElement
  <2> HIDE DEF ends
  <2> QED
    BY <2>2
<1>4. \A n \in Nat : PageOf(source, n) = IF n <= L THEN pages[n] ELSE pages[L]
  BY DEF PageOf
<1>5. end \in 1..MaxPages /\ end \in Nat /\ MaxPages \in Nat
  <2> HIDE DEF end
  <2> QED
    BY <1>3, PanelAssumption
<1> HIDE DEF end
<1>6. ~(end < L)
  <2>1. ASSUME end < L PROVE FALSE
    <3>1. end \in 1..L /\ end <= L
      <4> HIDE DEF L
      <4> QED
        BY <1>1, <1>5, <2>1
    <3>2. PageOf(source, end) = pages[end] /\ pages[end].next
      BY <1>0, <1>4, <1>5, <2>1, <3>1
    <3> QED
      BY <1>3, <3>2
  <2> QED
    BY <2>1
<1>7. PageOf(source, end) = pages[L] /\ ~pages[L].next
  <2>1. PageOf(source, end) = pages[L]
    <3>1. end <= L => end = L
      <4> HIDE DEF L
      <4> QED
        BY <1>1, <1>5, <1>6
    <3> QED
      BY <1>4, <1>5, <3>1
  <2> QED
    BY <1>3, <2>1
<1>8. end = L
  <2>1. L \in 1..MaxPages /\ L \in Nat
    <3> HIDE DEF L
    <3> QED
      BY <1>1, <1>5, <1>6
  <2>2. PageOf(source, L) = pages[L]
    <3>1. L <= L
      <4> HIDE DEF L
      <4> QED
        BY <1>1
    <3> QED
      BY <1>4, <2>1, <3>1
  <2>3. L \in ends
    BY <1>7, <2>1, <2>2
  <2>4. end <= L
    BY <1>3, <2>3
  <2> HIDE DEF L
  <2> QED
    BY <1>1, <1>5, <1>6, <2>4
<1>9. ss = [n \in 1..L |-> OwnOf(pages[n].resources)]
  <2>1. \A n \in 1..L : PageOf(source, n) = pages[n]
    <3>1. \A n \in 1..L : n \in Nat /\ n <= L
      OBVIOUS
    <3> QED
      BY <1>4, <3>1
  <2> QED
    BY <1>8, <2>1
<1>10. \A n \in 1..L : pages[n].resources \in Seq(E)
  BY <1>1
<1>11. /\ ss \in Seq(Seq(E)) /\ Len(ss) = L
       /\ \A n \in 1..L : ss[n] = OwnOf(pages[n].resources) /\ ss[n] \in Seq(E)
  <2>1. \A n \in 1..L : OwnOf(pages[n].resources) \in Seq(E)
    BY <1>10, OwnEntries
  <2>2. L \in Nat
    BY <1>1
  <2> HIDE DEF L
  <2>3. ss \in [1..L -> Seq(E)] /\ \A n \in 1..L : ss[n] = OwnOf(pages[n].resources)
    BY <1>9, <2>1
  <2> HIDE DEF ss
  <2>4. ss \in Seq(Seq(E))
    BY <2>2, <2>3, SeqDef
  <2>5. Len(ss) = L
    BY <2>2, <2>3, <2>4, LenProperties
  <2> QED
    BY <2>1, <2>3, <2>4, <2>5
<1>12. given \in Seq(E) /\ \A n \in 1..Len(given) : given[n].uri = Own
  <2> HIDE DEF ss
  <2>1. given \in Seq(E) /\ \A x : x \in Range(given) <=> \E i \in 1..Len(ss) : \E k \in 1..Len(ss[i]) : ss[i][k] = x
    <3>1. ss \in Seq(Seq(E))
      BY <1>11
    <3>2. given = FlattenSeq(ss)
      BY <1>2
    <3> QED
      BY ONLY <3>1, <3>2, FlattenIn
  <2>2. \A n \in 1..Len(given) : given[n] \in Range(given)
    <3>1. DOMAIN given = 1..Len(given)
      BY <2>1, LenProperties
    <3> QED
      BY <3>1 DEF Range
  <2>3. \A i \in 1..L : \A k \in 1..Len(ss[i]) : ss[i][k].uri = Own
    BY <1>10, <1>11, OwnEntries
  <2>4. ASSUME NEW n \in 1..Len(given) PROVE given[n].uri = Own
    <3>1. PICK i \in 1..Len(ss) : \E k \in 1..Len(ss[i]) : ss[i][k] = given[n]
      BY <2>1, <2>2
    <3> QED
      BY <1>11, <2>3, <3>1
  <2> QED
    BY <2>1, <2>4
<1> DEFINE F == [i \in 1..L |-> Places(ss[i], E)]
           G == [i \in 1..L |-> {k \in 1..Len(pages[i].resources) : pages[i].resources[k].uri = Own}]
           A == Tagged(F, L)
           B == Tagged(G, L)
<1>13. Len(given) = Cardinality(A)
  <2> HIDE DEF ss
  <2>1. Occurs(given, E) = Cardinality(PlacesUpTo(ss, L, E))
    BY <1>2, <1>11, FlattenOccurs
  <2>2. PlacesUpTo(ss, L, E) = A
    BY DEF PlacesUpTo, Tagged
  <2>3. Occurs(given, E) = Len(given)
    BY <1>12, OccursAll
  <2> HIDE DEF A
  <2> QED
    BY <2>1, <2>2, <2>3
<1>14. Cardinality(A) = Cardinality(B)
  <2>1. ASSUME NEW i \in 1..L PROVE IsFiniteSet(F[i]) /\ IsFiniteSet(G[i]) /\ Cardinality(F[i]) = Cardinality(G[i])
    <3> DEFINE e == pages[i].resources
               g == {k \in 1..Len(e) : e[k].uri = Own}
    <3>1. e \in Seq(E) /\ ss[i] = OwnOf(e) /\ ss[i] \in Seq(E)
      BY <1>10, <1>11
    <3>2. Len(e) \in Nat /\ \A k \in 1..Len(e) : e[k] \in E
      <4> HIDE DEF e
      <4> QED
        BY <3>1, LenProperties, ElementOfSeq
    <3>3. IsFiniteSet(g)
      <4>0. g \in SUBSET (1..Len(e))
        OBVIOUS
      <4>1. IsFiniteSet(1..Len(e)) /\ g \in SUBSET (1..Len(e))
        <5> HIDE DEF e, g
        <5> QED
          BY <3>2, <4>0, FS_Interval
      <4> HIDE DEF g
      <4> QED
        BY <4>1, FS_Subset
    <3>4. g = {k \in 1..Len(e) : e[k].uri = Own /\ e[k] \in E}
      BY <3>2
    <3>5. Occurs(OwnOf(e), E) = Cardinality(g)
      <4>1. Occurs(OwnOf(e), E) = Cardinality({k \in 1..Len(e) : e[k].uri = Own /\ e[k] \in E})
        <5> HIDE DEF e
        <5> QED
          BY <3>1, OwnEntries
      <4> HIDE DEF g, e
      <4> QED
        BY <3>4, <4>1
    <3>6. F[i] = Places(ss[i], E) /\ G[i] = g
      OBVIOUS
    <3>7. IsFiniteSet(Places(ss[i], E)) /\ Occurs(ss[i], E) = Cardinality(Places(ss[i], E))
      <4> HIDE DEF ss
      <4> QED
        BY <3>1, PlacesFinite DEF Occurs
    <3> HIDE DEF F, G, g, e, ss
    <3> QED
      BY <3>1, <3>3, <3>5, <3>6, <3>7
  <2>2. L \in Nat
    BY <1>1
  <2>3. AsMany(F, G, L)
    <3> HIDE DEF F, G, L
    <3> QED
      BY <2>1 DEF AsMany
  <2> HIDE DEF F, G, L
  <2> QED
    BY <2>2, <2>3, TaggedUnions
<1>15. B = {at \in Entered(pages) : pages[at[1]].resources[at[2]].uri = Own}
  <2>1. \A i \in 1..L : DOMAIN pages[i].resources = 1..Len(pages[i].resources)
    BY <1>10, LenProperties
  <2>2. Entered(pages) = UNION {{i} \X (1..Len(pages[i].resources)) : i \in 1..L}
    BY <1>1, <2>1 DEF Entered
  <2> DEFINE D(i) == 1..Len(pages[i].resources)
  <2>3. ASSUME NEW p PROVE p \in B <=> p \in Entered(pages) /\ pages[p[1]].resources[p[2]].uri = Own
    <3>1. \A i \in 1..L : p \in {i} \X G[i] <=> p \in {i} \X D(i) /\ pages[p[1]].resources[p[2]].uri = Own
      OBVIOUS
    <3> HIDE DEF G, D
    <3> QED
      BY <2>2, <3>1 DEF D, Tagged
  <2> HIDE DEF B
  <2> QED
    BY <2>3
<1>16. ~Last(pages).next
  BY <1>7 DEF Last
<1>17. DOMAIN given = 1..Len(given)
  BY <1>12, LenProperties
<1> QED
  <2> HIDE DEF A, B
  <2> QED
    BY <1>12, <1>13, <1>14, <1>15, <1>16, <1>17 DEF Gathers

\* What PanelConfined says of one reply, and of one document.
ReplyConfined(p, s) ==
    LET r == HandlePanelProxy(p, s)
        pages == s.pages
    IN  /\ (r.id = p.id \/ (r.id = <<"null">> /\ r.code \in {-32700, -32600}))
        /\ r.code # 0 => r.result = << >>
        /\ \A k \in DOMAIN r.result : r.result[k].uri = Own
        /\ r.code = 0 /\ p.method = "tools/call" => p.name \in Range(Granted)
        /\ r.code = 0 /\ p.method = "resources/read" => r.result # << >>
        /\ r.code = 0 /\ p.method = "resources/list" =>
             /\ ~Last(pages).next
             /\ Len(r.result) = Cardinality({at \in Entered(pages) : pages[at[1]].resources[at[2]].uri = Own})

\* A reply that refuses, under the id of the request or none.
Refuses(r, p) == r.code # 0 /\ r.result = << >> /\ (r.id = p.id \/ (r.id = <<"null">> /\ r.code \in {-32700, -32600}))

\* An error tells nothing.
LEMMA ErrorsConfined ==
  ASSUME NEW p, NEW s, Refuses(HandlePanelProxy(p, s), p)
  PROVE  ReplyConfined(p, s)
<1> DEFINE r == HandlePanelProxy(p, s)
<1>1. DOMAIN << >> = {}
  OBVIOUS
<1>2. r.code # 0 /\ r.result = << >> /\ (r.id = p.id \/ (r.id = <<"null">> /\ r.code \in {-32700, -32600}))
  BY DEF Refuses
<1>3. \A k \in DOMAIN r.result : r.result[k].uri = Own
  BY <1>1, <1>2
<1> QED
  BY <1>2, <1>3 DEF ReplyConfined

\* A payload that is no request is refused.
LEMMA ParseErrors ==
  ASSUME NEW p, ParseError(p) # << >>
  PROVE  Refuses(ParseError(p)[1], p)
<1>1. ASSUME NEW id, NEW code, id = p.id \/ (id = <<"null">> /\ code \in {-32700, -32600}), code # 0
      PROVE  Refuses(<< RpcError(id, code) >>[1], p)
  <2>1. << RpcError(id, code) >>[1] = [id |-> id, code |-> code, result |-> << >>]
    BY DEF RpcError
  <2> QED
    BY <1>1, <2>1 DEF Refuses
<1>2. CASE ~p.json
  BY <1>1, <1>2 DEF ParseError
<1>3. CASE p.json /\ (~p.version \/ p.id \in {<< >>, <<"object">>} \/ p.method \in {"empty", "none"})
  <2>1. ParseError(p) = << RpcError(<<"null">>, -32600) >>
    BY <1>3 DEF ParseError
  <2>2. Refuses(<< RpcError(<<"null">>, -32600) >>[1], p)
    BY <1>1
  <2> QED
    BY <2>1, <2>2
<1>4. CASE p.json /\ ~(~p.version \/ p.id \in {<< >>, <<"object">>} \/ p.method \in {"empty", "none"})
  <2>1. ParseError(p) = << RpcError(p.id, -32602) >>
    BY <1>4 DEF ParseError
  <2>2. Refuses(<< RpcError(p.id, -32602) >>[1], p)
    BY <1>1
  <2> QED
    BY <2>1, <2>2
<1> QED
  BY <1>2, <1>3, <1>4

\* Whatever the source answers, so much of it reaches the panel.
LEMMA RepliesConfined ==
  ASSUME NEW E, NEW p, NEW s, Paged(s, E), s.contents \in Seq(E)
  PROVE  ReplyConfined(p, s)
<1> DEFINE r == HandlePanelProxy(p, s)
<1>1. \A id, code : RpcError(id, code).id = id /\ RpcError(id, code).code = code /\ RpcError(id, code).result = << >>
  BY DEF RpcError
<1>2. \A id, x : RpcResult(id, x).id = id /\ RpcResult(id, x).code = 0 /\ RpcResult(id, x).result = x
  BY DEF RpcResult
<1>3. \A id, x : Passed(id, x) = IF x = << >> THEN RpcError(id, -32603) ELSE RpcResult(id, x[1])
  BY DEF Passed
<1>4. ASSUME NEW code \in {-32601, -32602, -32603}, r = RpcError(p.id, code) PROVE ReplyConfined(p, s)
  <2>1. Refuses(r, p)
    BY <1>1, <1>4 DEF Refuses
  <2> QED
    BY <2>1, ErrorsConfined
<1>5. CASE ParseError(p) # << >>
  <2>1. r = ParseError(p)[1]
    BY <1>5 DEF HandlePanelProxy
  <2>2. Refuses(r, p)
    BY <1>5, <2>1, ParseErrors
  <2> QED
    BY <2>2, ErrorsConfined
<1>6. CASE ParseError(p) = << >> /\ p.method = "tools/call"
  <2>1. r = ProxyToolCall(p, s)
    BY <1>6 DEF HandlePanelProxy
  <2> DEFINE x == <<[uri |-> Own, tag |-> p.name]>>
  <2>2. \/ \E code \in {-32601, -32602, -32603} : r = RpcError(p.id, code)
        \/ p.name \in Range(Granted) /\ r = RpcResult(p.id, x)
    <3>1. Passed(p.id, << >>) = RpcError(p.id, -32603) /\ Passed(p.id, << x >>) = RpcResult(p.id, x)
      <4>1. << x >> # << >> /\ << x >>[1] = x
        OBVIOUS
      <4> HIDE DEF x
      <4> QED
        BY <1>3, <4>1
    <3>2. \/ r \in {RpcError(p.id, -32602), RpcError(p.id, -32601)}
          \/ p.name \in Range(Granted) /\ r \in {Passed(p.id, << >>), Passed(p.id, << x >>)}
      <4>1. ProxyToolCall(p, s) \in {RpcError(p.id, -32602), RpcError(p.id, -32601)}
            \/ (p.name \in Range(Granted) /\ ProxyToolCall(p, s) = Passed(p.id, IF s.fails THEN << >> ELSE << x >>))
        <5>1. CASE p.name = "empty"
          BY <5>1 DEF ProxyToolCall
        <5>2. CASE p.name # "empty" /\ p.name \notin Range(Granted)
          BY <5>2 DEF ProxyToolCall
        <5>3. CASE p.name # "empty" /\ p.name \in Range(Granted) /\ p.params = "badArguments"
          BY <5>3 DEF ProxyToolCall
        <5>4. CASE p.name # "empty" /\ p.name \in Range(Granted) /\ p.params # "badArguments"
          <6>1. ProxyToolCall(p, s) = Passed(p.id, IF s.fails THEN << >> ELSE << x >>)
            BY <5>4 DEF ProxyToolCall
          <6> QED
            BY <5>4, <6>1
        <5> QED
          BY <5>1, <5>2, <5>3, <5>4
      <4> HIDE DEF x, r
      <4> QED
        BY <2>1, <4>1
    <3> HIDE DEF x, r
    <3> QED
      BY <3>1, <3>2
  <2>3. CASE \E code \in {-32601, -32602, -32603} : r = RpcError(p.id, code)
    BY <1>4, <2>3
  <2>4. CASE p.name \in Range(Granted) /\ r = RpcResult(p.id, x)
    <3>1. r.id = p.id /\ r.code = 0 /\ r.result = x
      BY <1>2, <2>4
    <3>2. \A k \in DOMAIN x : x[k].uri = Own
      OBVIOUS
    <3> HIDE DEF x
    <3> QED
      BY <1>6, <2>4, <3>1, <3>2 DEF ReplyConfined
  <2> QED
    BY <2>2, <2>3, <2>4
<1>7. CASE ParseError(p) = << >> /\ p.method = "tools/list"
  <2> DEFINE x == [k \in DOMAIN Granted |-> [uri |-> Own, tag |-> Granted[k]]]
  <2>1. r = ProxyToolList(p)
    BY <1>7 DEF HandlePanelProxy
  <2>2. r = RpcError(p.id, -32602) \/ r = RpcResult(p.id, x)
    BY <2>1 DEF ProxyToolList
  <2>3. CASE r = RpcError(p.id, -32602)
    BY <1>4, <2>3
  <2>4. CASE r = RpcResult(p.id, x)
    <3>1. r.id = p.id /\ r.code = 0 /\ r.result = x
      BY <1>2, <2>4
    <3>2. \A k \in DOMAIN x : x[k].uri = Own
      OBVIOUS
    <3> HIDE DEF x
    <3> QED
      BY <1>7, <2>4, <3>1, <3>2 DEF ReplyConfined
  <2> QED
    BY <2>2, <2>3, <2>4
<1>8. CASE ParseError(p) = << >> /\ p.method = "resources/read"
  <2> DEFINE x == OwnOf(s.contents)
  <2>1. r = ProxyResourceRead(p, s)
    BY <1>8 DEF HandlePanelProxy
  <2>2. \/ \E code \in {-32601, -32602, -32603} : r = RpcError(p.id, code)
        \/ x # << >> /\ r = RpcResult(p.id, x)
    <3>1. Passed(p.id, << >>) = RpcError(p.id, -32603) /\ Passed(p.id, << x >>) = RpcResult(p.id, x)
      <4>1. << x >> # << >> /\ << x >>[1] = x
        OBVIOUS
      <4> HIDE DEF x
      <4> QED
        BY <1>3, <4>1
    <3>2. \/ r = RpcError(p.id, -32601)
          \/ r = Passed(p.id, << >>) \/ (x # << >> /\ r = Passed(p.id, << x >>))
      BY <2>1 DEF ProxyResourceRead, RestrictReadResource
    <3> HIDE DEF x, r
    <3> QED
      BY <3>1, <3>2
  <2>3. CASE \E code \in {-32601, -32602, -32603} : r = RpcError(p.id, code)
    BY <1>4, <2>3
  <2>4. CASE x # << >> /\ r = RpcResult(p.id, x)
    <3>1. r.id = p.id /\ r.code = 0 /\ r.result = x
      BY <1>2, <2>4
    <3>2. x \in Seq(E) /\ \A k \in 1..Len(x) : x[k].uri = Own
      BY OwnEntries
    <3>3. DOMAIN x = 1..Len(x)
      BY <3>2, LenProperties
    <3> HIDE DEF x
    <3> QED
      BY <1>8, <2>4, <3>1, <3>2, <3>3 DEF ReplyConfined
  <2> QED
    BY <2>2, <2>3, <2>4
<1>9. CASE ParseError(p) = << >> /\ p.method = "resources/list"
  <2> DEFINE l == ListAllowedResources(s)
             x == l[1]
  <2>1. r = ProxyResourceList(p, s)
    BY <1>9 DEF HandlePanelProxy
  <2>2. \/ \E code \in {-32601, -32602, -32603} : r = RpcError(p.id, code)
        \/ l # << >> /\ r = RpcResult(p.id, x)
    <3>1. Passed(p.id, << >>) = RpcError(p.id, -32603) /\ Passed(p.id, l) = IF l = << >> THEN RpcError(p.id, -32603) ELSE RpcResult(p.id, x)
      BY <1>3
    <3>2. r = RpcError(p.id, -32602) \/ r = Passed(p.id, << >>) \/ r = Passed(p.id, l)
      BY <2>1 DEF ProxyResourceList
    <3> HIDE DEF l, x, r
    <3> QED
      BY <3>1, <3>2
  <2>3. CASE \E code \in {-32601, -32602, -32603} : r = RpcError(p.id, code)
    BY <1>4, <2>3
  <2>4. CASE l # << >> /\ r = RpcResult(p.id, x)
    <3> DEFINE pages == s.pages
    <3>1. r.id = p.id /\ r.code = 0 /\ r.result = x
      BY <1>2, <2>4
    <3>2. Gathers(x, pages)
      <4>1. ListAllowedResources(s) # << >> /\ x = ListAllowedResources(s)[1] /\ pages = s.pages
        BY <2>4
      <4> HIDE DEF x, pages, l
      <4> QED
        BY <4>1, ListsOwn
    <3>3. p.method # "tools/call" /\ p.method # "resources/read"
      BY <1>9
    <3>4. /\ ~Last(s.pages).next
          /\ Len(r.result) = Cardinality({at \in Entered(s.pages) : s.pages[at[1]].resources[at[2]].uri = Own})
      <4> HIDE DEF x, l
      <4> QED
        BY <3>1, <3>2 DEF Gathers
    <3>5. \A k \in DOMAIN r.result : r.result[k].uri = Own
      <4> HIDE DEF x, l
      <4> QED
        BY <3>1, <3>2 DEF Gathers
    <3> DEFINE listed == /\ ~Last(s.pages).next
                         /\ Len(r.result) = Cardinality({at \in Entered(s.pages) : s.pages[at[1]].resources[at[2]].uri = Own})
    <3>6. listed
      BY <3>4
    <3>7. /\ (r.id = p.id \/ (r.id = <<"null">> /\ r.code \in {-32700, -32600}))
          /\ r.code # 0 => r.result = << >>
          /\ \A k \in DOMAIN r.result : r.result[k].uri = Own
          /\ r.code = 0 /\ p.method = "tools/call" => p.name \in Range(Granted)
          /\ r.code = 0 /\ p.method = "resources/read" => r.result # << >>
          /\ r.code = 0 /\ p.method = "resources/list" => listed
      <4> HIDE DEF x, l, r, listed
      <4> QED
        BY <3>1, <3>3, <3>5, <3>6
    <3> HIDE DEF x, l
    <3> QED
      BY <3>7 DEF ReplyConfined
  <2> QED
    BY <2>2, <2>3, <2>4
<1>10. CASE ParseError(p) = << >> /\ p.method \notin {"tools/call", "tools/list", "resources/read", "resources/list"}
  <2>1. r = RpcError(p.id, -32601)
    BY <1>10 DEF HandlePanelProxy
  <2> QED
    BY <1>4, <2>1
<1> QED
  BY <1>5, <1>6, <1>7, <1>8, <1>9, <1>10

\* What PanelConfined says of one document.
DocumentConfined(request, contents, fails, toolCsp, options) ==
    LET r == ServePanel(request, contents, fails, toolCsp, AncestorOrigins(options))
        policy == r.csp[1]
    IN  /\ r.status = 200 => \E n \in DOMAIN contents :
             LET c == contents[n] IN
             /\ c.uri = Own /\ c.mime = "html" /\ r.text = c.text
             /\ \A m \in 1..n-1 : contents[m].uri # Own
             /\ \A k \in Directives : \A o \in policy[k] \ {Self} :
                  LET declared == ExtractResourceCsp(c.meta)[k]
                      tool == toolCsp[k]
                  IN  /\ declared # << >> => o \in Named(declared)
                      /\ tool # << >> => o \in Named(tool)
                      /\ declared # << >> \/ tool # << >>
        /\ r.status # 404 => policy.ancestors = {Dashboard} \cup DashboardCsp({}, options).ancestors
        /\ r.status # 404 => \A o \in policy.ancestors : o[1] \in {"http", "https"}
        /\ r.status = 502 => \A k \in Directives : policy[k] \subseteq {Self}

\* An origin that is in a policy is in each declaration there is.
LEMMA PolicyDeclared ==
  ASSUME NEW ancestors, NEW t, NEW d, NEW k \in Directives,
         NEW o \in ChildCsp(ancestors, IntersectCsp(t, d))[k] \ {Self}
  PROVE  /\ d[k] # << >> => o \in Named(d[k])
         /\ t[k] # << >> => o \in Named(t[k])
         /\ d[k] # << >> \/ t[k] # << >>
<1> DEFINE csp == IntersectCsp(t, d)
           a == ValidateCsp(t)[k]
           b == ValidateCsp(d)[k]
<1>1. csp[k] # << >> /\ o \in csp[k][1]
  <2> HIDE DEF csp
  <2>1. o \in ChildCsp(ancestors, csp)[k] \ {Self}
    BY DEF csp
  <2>2. k \in {"resource", "connect", "frame", "base"}
    BY DEF Directives
  <2> QED
    BY <2>1, <2>2 DEF ChildCsp
<1>2. csp[k] = IF a = << >> THEN b ELSE IF b = << >> THEN a ELSE << a[1] \cap b[1] >>
  BY DEF IntersectCsp, IntersectDomains
<1>3. /\ a = IF t[k] = << >> THEN << >> ELSE << ValidateDomains(t[k][1]) >>
      /\ b = IF d[k] = << >> THEN << >> ELSE << ValidateDomains(d[k][1]) >>
  BY DEF ValidateCsp
<1>4. \A x : << x >> # << >> /\ << x >>[1] = x
  OBVIOUS
<1>5. /\ Named(t[k]) = IF t[k] = << >> THEN {} ELSE ValidateDomains(t[k][1])
      /\ Named(d[k]) = IF d[k] = << >> THEN {} ELSE ValidateDomains(d[k][1])
  BY DEF Named
<1> HIDE DEF csp, a, b
<1>6. CASE t[k] = << >>
  BY <1>1, <1>2, <1>3, <1>4, <1>5, <1>6
<1>7. CASE t[k] # << >> /\ d[k] = << >>
  BY <1>1, <1>2, <1>3, <1>4, <1>5, <1>7
<1>8. CASE t[k] # << >> /\ d[k] # << >>
  <2>1. csp[k] = << ValidateDomains(t[k][1]) \cap ValidateDomains(d[k][1]) >>
    BY <1>2, <1>3, <1>4, <1>8
  <2> QED
    BY <1>1, <1>4, <1>5, <1>8, <2>1
<1> QED
  BY <1>6, <1>7, <1>8

\* The document of a panel is the first that is its own, under a policy all agree to.
LEMMA DocumentsConfined ==
  ASSUME NEW request, NEW contents, NEW fails, NEW toolCsp, NEW options
  PROVE  DocumentConfined(request, contents, fails, toolCsp, options)
<1> DEFINE anc == AncestorOrigins(options)
           r == ServePanel(request, contents, fails, toolCsp, anc)
           html == {k \in FirstOwn(contents) : contents[k].text # << >> /\ contents[k].mime = "html"}
           n == CHOOSE k \in html : TRUE
           c == contents[n]
           none == [k \in Directives |-> << >>]
           failed == [status |-> 502, text |-> << >>, csp |-> << ChildCsp(anc, none) >>]
           served == [status |-> 200, text |-> c.text,
                      csp |-> << ChildCsp(anc, IntersectCsp(toolCsp, ExtractResourceCsp(c.meta))) >>]
<1>1. \/ r.status = 404 \/ r = failed \/ (html # {} /\ r = served)
  <2>1. ExtractHtml(contents) = IF html = {} THEN << >> ELSE << c >>
    BY DEF ExtractHtml
  <2>2. \A x : << x >> # << >> /\ << x >>[1] = x
    OBVIOUS
  <2>3. CASE html = {}
    <3>1. ExtractHtml(contents) = << >>
      BY <2>1, <2>3
    <3> QED
      BY <3>1 DEF ServePanel
  <2>4. CASE html # {}
    <3>1. ExtractHtml(contents) # << >> /\ ExtractHtml(contents)[1] = c
      <4> HIDE DEF html, c
      <4> QED
        BY <2>1, <2>2, <2>4
    <3> HIDE DEF html, c
    <3> QED
      BY <2>4, <3>1 DEF ServePanel
  <2> QED
    BY <2>3, <2>4
<1>2. anc = {Dashboard} \cup DashboardCsp({}, options).ancestors
  BY DEF AncestorOrigins, DashboardCsp
<1>3. \A o \in anc : o[1] \in {"http", "https"}
  <2>1. Dashboard[1] = "http"
    BY DEF Dashboard
  <2>2. ASSUME NEW o \in Embedders(options) PROVE o[1] \in {"http", "https"}
    <3>1. PICK d : ValidDomain(d) /\ o = Origin(d)
      BY <2>2 DEF Embedders, ValidateDomains
    <3>2. d.scheme \in {"http", "https"}
      BY <3>1 DEF ValidDomain
    <3> QED
      BY <3>1, <3>2 DEF Origin
  <2> QED
    BY <2>1, <2>2 DEF AncestorOrigins
<1>4. \A csp : ChildCsp(anc, csp).ancestors = anc
  BY DEF ChildCsp
<1>5. CASE r.status = 404
  <2>1. r.status # 200 /\ r.status # 502
    BY <1>5
  <2> QED
    BY <1>5, <2>1 DEF DocumentConfined
<1>6. CASE r = failed
  <2>1. r.status = 502 /\ r.csp[1] = ChildCsp(anc, none)
    <3> HIDE DEF none, anc
    <3> QED
      BY <1>6
  <2>2. \A k \in Directives : ChildCsp(anc, none)[k] \subseteq {Self}
    <3>1. \A k \in {"resource", "connect", "frame", "base"} : none[k] = << >>
      BY DEF Directives
    <3> HIDE DEF none
    <3> QED
      BY <3>1 DEF ChildCsp, Directives
  <2>3. r.status # 200
    BY <2>1
  <2>4. r.csp[1].ancestors = anc
    BY <1>4, <2>1
  <2> DEFINE policy == r.csp[1]
  <2>5. /\ policy.ancestors = {Dashboard} \cup DashboardCsp({}, options).ancestors
        /\ \A o \in policy.ancestors : o[1] \in {"http", "https"}
        /\ \A k \in Directives : policy[k] \subseteq {Self}
    <3> HIDE DEF r, anc, none
    <3> QED
      BY <1>2, <1>3, <2>1, <2>2, <2>4
  <2> QED
    BY ONLY <2>3, <2>5 DEF DocumentConfined
<1>7. CASE html # {} /\ r = served
  <2> DEFINE declared == ExtractResourceCsp(c.meta)
             policy == ChildCsp(anc, IntersectCsp(toolCsp, declared))
  <2>1. r.status = 200 /\ r.text = c.text /\ r.csp[1] = policy
    <3> HIDE DEF anc, c
    <3> QED
      BY <1>7
  <2>2. n \in html
    <3> HIDE DEF html
    <3> QED
      BY <1>7
  <2>3. n \in DOMAIN contents /\ c.uri = Own /\ c.mime = "html" /\ \A m \in 1..n-1 : contents[m].uri # Own
    <3> HIDE DEF n
    <3> QED
      BY <2>2 DEF FirstOwn
  <2>4. \A k \in Directives : \A o \in policy[k] \ {Self} :
          /\ declared[k] # << >> => o \in Named(declared[k])
          /\ toolCsp[k] # << >> => o \in Named(toolCsp[k])
          /\ declared[k] # << >> \/ toolCsp[k] # << >>
    <3> HIDE DEF declared, anc
    <3> QED
      BY PolicyDeclared
  <2>5. policy.ancestors = anc
    BY <1>4
  <2>6. r.status # 502
    BY <2>1
  <2> DEFINE given == r.csp[1]
             Agreed(x) == /\ x.uri = Own /\ x.mime = "html" /\ r.text = x.text
                          /\ \A k \in Directives : \A o \in given[k] \ {Self} :
                               LET d == ExtractResourceCsp(x.meta)[k]
                                   tool == toolCsp[k]
                               IN  /\ d # << >> => o \in Named(d)
                                   /\ tool # << >> => o \in Named(tool)
                                   /\ d # << >> \/ tool # << >>
  <2>7. /\ given.ancestors = {Dashboard} \cup DashboardCsp({}, options).ancestors
        /\ \A o \in given.ancestors : o[1] \in {"http", "https"}
    <3> HIDE DEF r, anc, policy
    <3> QED
      BY <1>2, <1>3, <2>1, <2>5
  <2>8. Agreed(c)
    <3> HIDE DEF r, c
    <3> QED
      BY <2>1, <2>3, <2>4 DEF r
  <2>9. \E m \in DOMAIN contents : Agreed(contents[m]) /\ \A j \in 1..m-1 : contents[j].uri # Own
    <3> HIDE DEF Agreed, r, n
    <3> QED
      BY <2>3, <2>8
  <2> QED
    BY ONLY <2>6, <2>7, <2>9 DEF DocumentConfined
<1> QED
  BY <1>1, <1>5, <1>6, <1>7

\* The sources that are tried return lists of entries, in pages.
LEMMA SourcesPaged ==
  ASSUME NEW s, s = Quiet \/ s \in SourceAnswers
  PROVE  Paged(s, Entries) /\ s.contents \in Seq(Entries)
<1> DEFINE P == [resources : Seq(Entries), next : BOOLEAN]
<1>1. \A l \in Lists : l \in Seq(Entries)
  <2> HIDE DEF Entries
  <2>1. ASSUME NEW d \in Entries, NEW e \in Entries PROVE << e >> \in Seq(Entries) /\ << d, e >> \in Seq(Entries)
    OBVIOUS
  <2>2. << >> \in Seq(Entries)
    OBVIOUS
  <2>3. ASSUME NEW l \in Lists PROVE l = << >> \/ (\E e \in Entries : l = << e >>) \/ (\E d, e \in Entries : l = << d, e >>)
    BY <2>3, SMT DEF Lists
  <2> QED
    BY <2>1, <2>2, <2>3
<1>2. \A e \in Entries : << e >> \in Seq(Entries)
  <2> HIDE DEF Entries
  <2> QED
    OBVIOUS
<1>3. << >> \in Seq(Entries)
  OBVIOUS
<1>4. ASSUME NEW l \in Seq(Entries), NEW n \in BOOLEAN, NEW t, t = << [resources |-> l, next |-> n] >>
      PROVE  t \in Seq(P) /\ t # << >> /\ \A m \in 1..Len(t) : m < Len(t) => t[m].next
  <2>1. [resources |-> l, next |-> n] \in P
    OBVIOUS
  <2> DEFINE a == [resources |-> l, next |-> n]
  <2> HIDE DEF P, a
  <2>2. << a >> \in Seq(P) /\ << a >> # << >> /\ Len(<< a >>) = 1
    BY <2>1 DEF a
  <2> QED
    BY <1>4, <2>2 DEF a
<1>5. ASSUME NEW l \in Seq(Entries), NEW q \in Seq(Entries), NEW n \in BOOLEAN,
             NEW t, t = << [resources |-> l, next |-> TRUE], [resources |-> q, next |-> n] >>
      PROVE  t \in Seq(P) /\ t # << >> /\ \A m \in 1..Len(t) : m < Len(t) => t[m].next
  <2> DEFINE a == [resources |-> l, next |-> TRUE]
             b == [resources |-> q, next |-> n]
  <2>1. a \in P /\ b \in P /\ a.next
    OBVIOUS
  <2>2. t = << a, b >>
    BY <1>5
  <2> HIDE DEF P, a, b
  <2>3. t \in Seq(P) /\ t # << >> /\ Len(t) = 2 /\ t[1] = a
    BY <2>1, <2>2
  <2>4. \A m \in 1..2 : m < 2 => m = 1
    OBVIOUS
  <2> QED
    BY <2>1, <2>3, <2>4
<1>6. CASE s = Quiet
  <2>1. s.contents = << >> /\ s.pages = << [resources |-> << >>, next |-> FALSE] >>
    BY <1>6 DEF Quiet
  <2> HIDE DEF P
  <2> QED
    BY <1>3, <1>4, <2>1 DEF Paged, P
<1>7. CASE s \in SourceAnswers
  <2>1. /\ s.contents \in Lists
        /\ \/ \E l \in Lists, n \in BOOLEAN : s.pages = << [resources |-> l, next |-> n] >>
           \/ \E l \in Lists, e \in Entries, n \in BOOLEAN :
                s.pages = << [resources |-> l, next |-> TRUE], [resources |-> << e >>, next |-> n] >>
    BY <1>7 DEF SourceAnswers
  <2>2. s.pages \in Seq(P) /\ s.pages # << >> /\ \A m \in 1..Len(s.pages) : m < Len(s.pages) => s.pages[m].next
    <3>1. CASE \E l \in Lists, n \in BOOLEAN : s.pages = << [resources |-> l, next |-> n] >>
      <4> HIDE DEF P
      <4> QED
        BY <1>1, <1>4, <3>1
    <3>2. CASE \E l \in Lists, e \in Entries, n \in BOOLEAN :
                s.pages = << [resources |-> l, next |-> TRUE], [resources |-> << e >>, next |-> n] >>
      <4> HIDE DEF P
      <4> QED
        BY <1>1, <1>2, <1>5, <3>2
    <3> QED
      BY <2>1, <3>1, <3>2
  <2> QED
    BY <1>1, <2>1, <2>2 DEF Paged
<1> QED
  BY <1>6, <1>7

\* A panel is asked something, by a source that is quiet or answers, or shows a document.
PanelShape ==
  \/ panelCase.case = "rpc" /\ (panelCase.source = Quiet \/ panelCase.source \in SourceAnswers)
  \/ panelCase.case = "document"

\* The panels that are tried have that shape.
LEMMA PanelsShaped == PanelInit => PanelShape
<1> SUFFICES ASSUME PanelInit PROVE PanelShape
  OBVIOUS
<1>1. CASE \E j, v \in BOOLEAN, i \in {<< >>, <<"null">>, <<"7">>, <<"object">>}, m \in {"empty", "none", "tools/list", "ping"}, a \in {"none", "text", "cursor"} :
             panelCase = [case |-> "rpc", source |-> Quiet,
               payload |-> [Payload EXCEPT !.json = j, !.version = v, !.id = i, !.method = m, !.params = a]]
  <2>1. \E q : panelCase = [case |-> "rpc", source |-> Quiet, payload |-> q]
    BY Zenon, <1>1
  <2> QED
    BY <2>1 DEF PanelShape
<1>2. CASE \E m \in {"tools/call", "tools/list", "resources/read", "resources/list"}, a \in {"none", "cursor", "badArguments"},
              n \in {"empty", Own, Foreign, "save", "drop"}, s \in {x \in SourceAnswers : x.contents = << >> \/ Len(x.pages) = 1} :
             panelCase = [case |-> "rpc", source |-> s, payload |-> [Payload EXCEPT !.method = m, !.params = a, !.name = n]]
  <2>1. \E q : \E s \in SourceAnswers : panelCase = [case |-> "rpc", source |-> s, payload |-> q]
    BY Zenon, <1>2
  <2> QED
    BY <2>1 DEF PanelShape
<1>3. CASE \E d \in Documents, second \in {<< >>, <<Plain>>}, c \in ToolCsps, p \in {"/ui", "/other"},
              f \in BOOLEAN, o \in {<< >>, <<{Good("shell")} \cup Bad>>} :
             panelCase = [case |-> "document", request |-> [method |-> "GET", path |-> p], contents |-> <<d>> \o second,
                          fails |-> f, tool |-> c, options |-> o]
  <2>1. \E a, b, c, d, e : panelCase = [case |-> "document", request |-> a, contents |-> b, fails |-> c, tool |-> d, options |-> e]
    BY Zenon, <1>3
  <2> QED
    BY <2>1 DEF PanelShape
<1> QED
  BY Zenon, <1>1, <1>2, <1>3 DEF PanelInit, PanelShape

\* What a panel is asked, and what it shows, keeps to what is the panel's.
LEMMA PanelMeans ==
  ASSUME PanelShape \/ panelCase = [case |-> "none"]
  PROVE  PanelConfined
<1>1. CASE panelCase = [case |-> "none"]
  <2>1. panelCase.case = "none"
    BY <1>1
  <2> QED
    BY <2>1 DEF PanelConfined
<1>2. ASSUME panelCase.case = "rpc", ReplyConfined(panelCase.payload, panelCase.source) PROVE PanelConfined
  BY <1>2 DEF PanelConfined, ReplyConfined
<1>3. ASSUME panelCase.case = "document",
             DocumentConfined(panelCase.request, panelCase.contents, panelCase.fails, panelCase.tool, panelCase.options)
      PROVE  PanelConfined
  BY <1>3 DEF PanelConfined, DocumentConfined
<1>4. CASE PanelShape
  <2>1. CASE panelCase.case = "rpc" /\ (panelCase.source = Quiet \/ panelCase.source \in SourceAnswers)
    BY <1>2, <2>1, SourcesPaged, RepliesConfined
  <2>2. CASE panelCase.case = "document"
    BY <1>3, <2>2, DocumentsConfined
  <2> QED
    BY <1>4, <2>1, <2>2 DEF PanelShape
<1> QED
  BY <1>1, <1>4

-----------------------------------------------------------------------------
(* Templates: the order of their calls.                                     *)

\* A strict order, and what comes before a place of a sequence.
StrictOn(R, E) ==
  /\ \A c \in E : <<c, c>> \notin R
  /\ \A c, d \in E : <<c, d>> \in R => <<d, c>> \notin R
Preceding(s, k, R) == {c \in Range(s) : <<c, s[k]>> \in R}

\* In a sequence that is in order, a place is one more than what comes before.
LEMMA PlaceCounts ==
  ASSUME NEW E, NEW s \in Seq(E), NEW R, Ordered(s, R), StrictOn(R, E), NEW k \in 1..Len(s)
  PROVE  IsFiniteSet(Preceding(s, k, R)) /\ k = Cardinality(Preceding(s, k, R)) + 1
<1> DEFINE B == Preceding(s, k, R)
           N == Len(s)
           A == 1..k-1
           f == [m \in A |-> s[m]]
<1>1. N \in Nat /\ DOMAIN s = 1..N /\ (\A n \in 1..N : s[n] \in E) /\ (\A m, n \in 1..N : m < n => <<s[m], s[n]>> \in R)
  BY LenProperties, ElementOfSeq DEF Ordered
<1>2. k \in 1..N
  OBVIOUS
<1>0. /\ \A c \in E : <<c, c>> \notin R
      /\ \A c, d \in E : <<c, d>> \in R => <<d, c>> \notin R
      /\ B = {c \in Range(s) : <<c, s[k]>> \in R}
  BY DEF StrictOn, Preceding
<1> HIDE DEF N, B
<1>3. k \in Nat /\ \A m \in A : m \in 1..N /\ m < k
  BY <1>1, <1>2
<1>4. \A m \in 1..N : <<s[m], s[k]>> \in R <=> m \in A
  <2>1. ASSUME NEW m \in 1..N, m \in A PROVE <<s[m], s[k]>> \in R
    BY <1>1, <1>2, <1>3, <2>1
  <2>2. ASSUME NEW m \in 1..N, m \notin A PROVE <<s[m], s[k]>> \notin R
    <3>1. m = k \/ k < m
      BY <1>1, <1>2, <2>2
    <3>2. m = k => <<s[m], s[k]>> \notin R
      BY <1>0, <1>1, <1>2
    <3>3. k < m => <<s[k], s[m]>> \in R
      BY <1>1, <1>2
    <3>4. s[k] \in E /\ s[m] \in E
      BY <1>1, <1>2
    <3> QED
      BY <1>0, <3>1, <3>2, <3>3, <3>4
  <2> QED
    BY <2>1, <2>2
<1>5. B = {s[m] : m \in A}
  <2>1. ASSUME NEW c \in B PROVE \E m \in A : c = s[m]
    <3>1. PICK m \in 1..N : s[m] = c
      BY <1>0, <1>1 DEF Range
    <3>2. <<s[m], s[k]>> \in R
      BY <1>0, <3>1
    <3> QED
      BY <1>4, <3>1, <3>2
  <2>2. ASSUME NEW m \in A PROVE s[m] \in B
    <3>1. m \in 1..N /\ s[m] \in Range(s)
      BY <1>1, <1>3 DEF Range
    <3>2. <<s[m], s[k]>> \in R
      BY <1>4, <3>1
    <3> QED
      BY <1>0, <3>1, <3>2
  <2> HIDE DEF A
  <2> QED
    BY <2>1, <2>2
<1>6. f \in Bijection(A, B)
  <2>1. f \in [A -> B] /\ (\A m \in A : f[m] = s[m]) /\ \A c \in B : \E m \in A : f[m] = c
    <3> HIDE DEF A
    <3> QED
      BY <1>5
  <2>2. ASSUME NEW m \in A, NEW n \in A, s[m] = s[n] PROVE m = n
    <3>1. m \in 1..N /\ n \in 1..N /\ s[m] \in E /\ m \in Nat /\ n \in Nat
      BY <1>1, <1>3
    <3>2. ~(m < n) /\ ~(n < m)
      BY <1>0, <1>1, <2>2, <3>1
    <3> QED
      BY <3>1, <3>2
  <2>3. \A m, n \in A : f[m] = f[n] => m = n
    BY <2>1, <2>2
  <2> HIDE DEF f, A
  <2> QED
    BY <2>1, <2>3, Fun_IsBij
<1>7. ExistsBijection(A, B)
  <2> HIDE DEF f, A
  <2> QED
    BY <1>6, Fun_ExistsBij
<1>8. IsFiniteSet(A) /\ Cardinality(A) = k - 1
  <2>1. IsFiniteSet(A) /\ Cardinality(A) = IF 1 > k - 1 THEN 0 ELSE k - 1 - 1 + 1
    BY <1>3, FS_Interval
  <2>2. k >= 1
    BY <1>2, <1>1
  <2> HIDE DEF A
  <2> QED
    BY <1>3, <2>1, <2>2
<1>9. IsFiniteSet(B) /\ Cardinality(A) = Cardinality(B)
  <2> HIDE DEF A
  <2> QED
    BY <1>7, <1>8, FS_Bijection
<1> QED
  <2> HIDE DEF A
  <2> QED
    BY <1>3, <1>8, <1>9 DEF B

\* The order of a template: of two calls, as tuples of source and place.
InTemplate == {p \in (Nat \X Nat) \X (Nat \X Nat) : Before(p[1], p[2])}

\* It is a strict order.
LEMMA TemplateOrder == StrictOn(InTemplate, Nat \X Nat)
<1>1. \A c, d \in Nat \X Nat : <<c, d>> \in InTemplate <=> (c[1] < d[1] \/ (c[1] = d[1] /\ c[2] < d[2]))
  BY DEF InTemplate, Before
<1>2. \A c \in Nat \X Nat : c[1] \in Nat /\ c[2] \in Nat
  OBVIOUS
<1>3. /\ \A c \in Nat \X Nat : <<c, c>> \notin InTemplate
      /\ \A c, d \in Nat \X Nat : <<c, d>> \in InTemplate => <<d, c>> \notin InTemplate
  BY <1>1, <1>2
<1> QED
  BY <1>3 DEF StrictOn

\* The calls of N sources that make len[i] each; they are listed in template order.
CallsBySource(N, len) == [i \in 1..N |-> [j \in 1..len[i] |-> <<i, j>>]]
ListsCalls(s, N, len) ==
  /\ s \in Seq(Nat \X Nat) /\ Ordered(s, InTemplate)
  /\ \A x : x \in Range(s) <=> \E i \in 1..N : \E j \in 1..len[i] : x = <<i, j>>

\* Put one after the other, they are.
LEMMA CallsInOrder ==
  ASSUME NEW N \in Nat, NEW len, \A i \in 1..N : len[i] \in Nat
  PROVE  ListsCalls(FlattenSeq(CallsBySource(N, len)), N, len)
<1> DEFINE E == Nat \X Nat
           ss == CallsBySource(N, len)
<1>0. ss = [i \in 1..N |-> [j \in 1..len[i] |-> <<i, j>>]]
  BY DEF CallsBySource
<1> HIDE DEF ss
<1>1. ASSUME NEW i \in 1..N
      PROVE  /\ [j \in 1..len[i] |-> <<i, j>>] \in Seq(E) /\ Len([j \in 1..len[i] |-> <<i, j>>]) = len[i]
  <2> DEFINE s == [j \in 1..len[i] |-> <<i, j>>]
             m == len[i]
  <2>1. m \in Nat
    OBVIOUS
  <2>2. s = [j \in 1..m |-> <<i, j>>] /\ i \in Nat
    OBVIOUS
  <2> HIDE DEF m, s
  <2>3. s \in [1..m -> E]
    BY <2>2
  <2>4. s \in Seq(E)
    <3> HIDE DEF E
    <3> QED
      BY <2>1, <2>3, SeqDef
  <2>5. Len(s) = m
    BY <2>1, <2>3, <2>4, LenProperties
  <2> QED
    BY <2>4, <2>5 DEF s, m
<1>2. \A i \in 1..N : ss[i] \in Seq(E) /\ Len(ss[i]) = len[i] /\ \A j \in 1..len[i] : ss[i][j] = <<i, j>>
  <2>1. \A i \in 1..N : ss[i] = [j \in 1..len[i] |-> <<i, j>>]
    BY <1>0
  <2>2. \A i \in 1..N : ss[i] \in Seq(E) /\ Len(ss[i]) = len[i]
    BY <1>1, <2>1
  <2> QED
    BY <2>1, <2>2
<1>3. ss \in Seq(Seq(E)) /\ Len(ss) = N
  <2>1. ss \in [1..N -> Seq(E)]
    BY <1>0, <1>1
  <2> HIDE DEF E
  <2>2. ss \in Seq(Seq(E))
    BY <2>1, SeqDef
  <2> QED
    BY <2>1, <2>2, LenProperties
<1>4. \A i \in 1..N : \A j \in 1..len[i] : i \in Nat /\ j \in Nat /\ <<i, j>> \in E /\ <<i, j>>[1] = i /\ <<i, j>>[2] = j
  OBVIOUS
<1>5. \A c, d \in E : <<c, d>> \in InTemplate <=> (c[1] < d[1] \/ (c[1] = d[1] /\ c[2] < d[2]))
  BY DEF InTemplate, Before
<1>6. ASSUME NEW i \in 1..Len(ss) PROVE Ordered(ss[i], InTemplate)
  <2>1. i \in 1..N
    BY <1>3
  <2>2. ASSUME NEW m \in 1..Len(ss[i]), NEW n \in 1..Len(ss[i]), m < n PROVE <<ss[i][m], ss[i][n]>> \in InTemplate
    <3>1. m \in 1..len[i] /\ n \in 1..len[i] /\ ss[i][m] = <<i, m>> /\ ss[i][n] = <<i, n>>
      BY <1>2, <2>1
    <3> HIDE DEF E
    <3> QED
      BY <1>4, <1>5, <2>1, <2>2, <3>1
  <2> QED
    BY <2>2 DEF Ordered
<1>7. ASSUME NEW i \in 1..Len(ss), NEW j \in 1..Len(ss), i < j, NEW m \in 1..Len(ss[i]), NEW n \in 1..Len(ss[j])
      PROVE  <<ss[i][m], ss[j][n]>> \in InTemplate
  <2>1. i \in 1..N /\ j \in 1..N
    BY <1>3
  <2>2. m \in 1..len[i] /\ n \in 1..len[j] /\ ss[i][m] = <<i, m>> /\ ss[j][n] = <<j, n>>
    BY <1>2, <2>1
  <2> HIDE DEF E
  <2> QED
    BY <1>4, <1>5, <1>7, <2>1, <2>2
<1>8. Ordered(FlattenSeq(ss), InTemplate)
  <2> HIDE DEF E
  <2> QED
    BY <1>3, <1>6, <1>7, FlattenOrdered
<1>9. /\ FlattenSeq(ss) \in Seq(E)
      /\ \A x : x \in Range(FlattenSeq(ss)) <=> \E i \in 1..Len(ss) : \E k \in 1..Len(ss[i]) : ss[i][k] = x
  <2> HIDE DEF E
  <2> QED
    BY ONLY <1>3, FlattenIn
<1>10. ASSUME NEW x PROVE x \in Range(FlattenSeq(ss)) <=> \E i \in 1..N : \E j \in 1..len[i] : x = <<i, j>>
  <2>1. ASSUME NEW i \in 1..N PROVE (\E k \in 1..Len(ss[i]) : ss[i][k] = x) <=> \E j \in 1..len[i] : x = <<i, j>>
    BY <1>2
  <2>2. \A i \in 1..N : (\E k \in 1..Len(ss[i]) : ss[i][k] = x) <=> \E j \in 1..len[i] : x = <<i, j>>
    BY <2>1
  <2>3. x \in Range(FlattenSeq(ss)) <=> \E i \in 1..Len(ss) : \E k \in 1..Len(ss[i]) : ss[i][k] = x
    BY <1>9
  <2>4. Len(ss) = N
    BY <1>3
  <2>5. x \in Range(FlattenSeq(ss)) <=> \E i \in 1..N : \E k \in 1..Len(ss[i]) : ss[i][k] = x
    BY ONLY <2>3, <2>4
  <2> QED
    BY ONLY <2>2, <2>5
<1> QED
  BY <1>8, <1>9, <1>10 DEF ListsCalls, ss

-----------------------------------------------------------------------------
(* Cluster: the slots of a composition.                                     *)

CallOutcome == {"ui", "plain", "error"}

\* The panels are collected once, when all calls are over.
SlotsInv ==
  /\ outcomes \in [DOMAIN Sources -> Seq(CallOutcome)]
  /\ verdict \in {"none"} \cup Settled
  /\ phase \in {"starting", "calling"} => panels = << >>
  /\ panels = << >> \/ panels = Collected

\* A composition begins with no answer and no panel.
LEMMA SlotsStart == ClusterInit => SlotsInv
<1> SUFFICES ASSUME ClusterInit PROVE SlotsInv
  OBVIOUS
<1>1. panels = << >> /\ verdict = "none" /\ outcomes = [i \in DOMAIN Sources |-> << >>]
  BY DEF ClusterInit
<1>2. outcomes \in [DOMAIN Sources -> Seq(CallOutcome)]
  BY <1>1
<1> QED
  BY <1>1, <1>2 DEF SlotsInv

\* Nothing happens to the slots where no answer comes in and no panel is made.
LEMMA SlotsStay ==
  ASSUME SlotsInv, UNCHANGED <<outcomes, panels>>, verdict' \in {"none"} \cup Settled,
         phase' \in {"starting", "calling"} => phase \in {"starting", "calling"}
  PROVE  SlotsInv'
<1>1. Collected' = Collected
  BY DEF Collected
<1>2. panels' = panels /\ outcomes' = outcomes
  OBVIOUS
<1> HIDE DEF Collected
<1> QED
  BY <1>1, <1>2 DEF SlotsInv, Settled

\* Each step of the cluster keeps the invariant of the slots.
LEMMA SlotsStep == SlotsInv /\ [ClusterNext]_clusterVars => SlotsInv'
<1> SUFFICES ASSUME SlotsInv, [ClusterNext]_clusterVars PROVE SlotsInv'
  OBVIOUS
<1>0. verdict \in {"none"} \cup Settled
  BY DEF SlotsInv
<1>1. CASE UNCHANGED clusterVars
  BY <1>0, <1>1, SlotsStay DEF clusterVars
<1>2. ASSUME NEW s \in Servers, Booting(s) \/ Exits(s) PROVE SlotsInv'
  BY <1>0, <1>2, SlotsStay DEF Booting, SpawnFails, Starts, Announces, DetectFails, Discovers, FallsBack, Initializes,
     Confirmed, ConnectionFails, StopEnds, Exits, serving
<1>3. CASE Closes
  BY <1>0, <1>3, SlotsStay DEF Closes, Terminates, Kills
<1>4. CASE Answers
  BY <1>0, <1>4, SlotsStay DEF Answers, Answered, ListenerCloses
<1>5. CASE Shutdown
  BY <1>5, SlotsStay DEF Shutdown, Settled
<1>6. ASSUME NEW k \in ListenerIds, Request(k) PROVE SlotsInv'
  BY <1>0, <1>6, SlotsStay DEF Request
<1>7. CASE Caller
  <2>1. CASE AllStarted
    <3>1. /\ UNCHANGED <<outcomes, panels>> /\ phase \in {"starting", "calling"}
          /\ verdict' \in {"none"} \cup Settled
      BY <1>0, <2>1 DEF AllStarted, Settled
    <3> QED
      BY <3>1, SlotsStay
  <2>2. CASE AllClosed
    <3>1. UNCHANGED <<outcomes, panels, verdict>> /\ phase' = verdict
      BY <2>2 DEF AllClosed
    <3>2. phase' \notin {"starting", "calling"}
      BY <1>0, <3>1 DEF Settled
    <3> QED
      BY <1>0, <3>1, <3>2, SlotsStay
  <2>3. CASE Binds
    BY <1>0, <2>3, SlotsStay DEF Binds
  <2>4. CASE ServeFails
    BY <2>4, SlotsStay DEF ServeFails, Settled
  <2>5. CASE \E opens \in BOOLEAN : Serves(opens)
    BY <1>0, <2>5, SlotsStay DEF Serves
  <2>6. CASE Unbound
    BY <1>0, <2>6, SlotsStay DEF Unbound
  <2>7. ASSUME NEW keepAlive \in BOOLEAN, NEW rendered \in BOOLEAN, Composes(keepAlive, rendered) PROVE SlotsInv'
    <3>1. /\ panels' = Collected /\ outcomes' = outcomes /\ phase' \in {"binding", "closing"}
          /\ verdict' = verdict \/ verdict' \in {"returned", "rejected"}
      BY <2>7 DEF Composes
    <3>2. Collected' = Collected
      BY <3>1 DEF Collected
    <3>3. verdict' \in {"none"} \cup Settled
      BY <1>0, <3>1 DEF Settled
    <3> HIDE DEF Collected
    <3> QED
      BY <3>1, <3>2, <3>3 DEF SlotsInv, Settled
  <2>8. ASSUME NEW i \in DOMAIN Sources, CallSettles(i) PROVE SlotsInv'
    <3>1. /\ phase = "calling" /\ UNCHANGED <<phase, panels, verdict>>
          /\ \E o \in CallOutcome : outcomes' = [outcomes EXCEPT ![i] = Append(@, o)]
      BY <2>8 DEF CallSettles, CallOutcome
    <3>2. outcomes' \in [DOMAIN Sources -> Seq(CallOutcome)]
      BY <3>1 DEF SlotsInv
    <3> QED
      BY <3>1, <3>2 DEF SlotsInv, Settled
  <2> QED
    BY <1>7, <2>1, <2>2, <2>3, <2>4, <2>5, <2>6, <2>7, <2>8 DEF Caller
<1>8. CASE Opened
  BY <1>0, <1>8, SlotsStay DEF Opened
<1> QED
  BY <1>1, <1>2, <1>3, <1>4, <1>5, <1>6, <1>7, <1>8 DEF ClusterNext

\* What is collected stands in template order, each panel at its place.
LEMMA CollectedPlaces ==
  ASSUME outcomes \in [DOMAIN Sources -> Seq(CallOutcome)]
  PROVE  /\ Range(Collected) = WithResource
         /\ \A k \in DOMAIN Collected : k = Cardinality({c \in WithResource : Before(c, Collected[k])}) + 1
<1> DEFINE N == Len(Sources)
           E == Nat \X Nat
           len == [i \in 1..N |-> Len(outcomes[i])]
           ss == [i \in DOMAIN Sources |-> [j \in DOMAIN outcomes[i] |-> <<i, j>>]]
           flat == FlattenSeq(ss)
           S == {c \in Range(flat) : outcomes[c[1]][c[2]] = "ui"}
           f == Kept(flat, S)
<1>1. N \in Nat /\ DOMAIN Sources = 1..N
  BY ClusterAssumption, LenProperties
<1>2. \A i \in 1..N : outcomes[i] \in Seq(CallOutcome) /\ DOMAIN outcomes[i] = 1..Len(outcomes[i]) /\ Len(outcomes[i]) \in Nat
  <2>1. \A i \in 1..N : outcomes[i] \in Seq(CallOutcome)
    BY <1>1
  <2> QED
    BY <2>1, LenProperties
<1>3. ss = [i \in 1..N |-> [j \in 1..len[i] |-> <<i, j>>]] /\ \A i \in 1..N : len[i] \in Nat /\ len[i] = Len(outcomes[i])
  <2> HIDE DEF N
  <2> QED
    BY <1>1, <1>2
<1>4. /\ flat \in Seq(E) /\ Ordered(flat, InTemplate)
      /\ \A x : x \in Range(flat) <=> \E i \in 1..N : \E j \in 1..len[i] : x = <<i, j>>
  <2>1. ss = CallsBySource(N, len)
    BY <1>3 DEF CallsBySource
  <2> HIDE DEF N, len, ss
  <2>2. ListsCalls(FlattenSeq(ss), N, len)
    BY <1>1, <1>3, <2>1, CallsInOrder
  <2> QED
    BY <2>2 DEF ListsCalls
<1>5. f = Collected
  BY DEF Collected
<1>6. f \in Seq(E) /\ Ordered(f, InTemplate) /\ Range(f) = Range(flat) \cap S
  <2> HIDE DEF E, flat, S
  <2> QED
    BY <1>4, KeptIn, KeptOrdered
<1>7. Range(f) = WithResource
  <2>1. \A i \in 1..N : \A j : <<i, j>>[1] = i /\ <<i, j>>[2] = j
    OBVIOUS
  <2>2. ASSUME NEW x PROVE x \in Range(flat) \cap S <=> x \in WithResource
    <3>1. x \in Range(flat) \cap S <=> \E i \in 1..N : \E j \in 1..len[i] : x = <<i, j>> /\ outcomes[i][j] = "ui"
      <4> HIDE DEF flat, N, len
      <4> QED
        BY <1>4, <2>1
    <3>2. x \in WithResource <=> \E i \in 1..N : \E j \in 1..len[i] : x = <<i, j>> /\ outcomes[i][j] = "ui"
      <4>1. x \in WithResource <=> \E i \in DOMAIN Sources : \E j \in DOMAIN outcomes[i] : x = <<i, j>> /\ outcomes[i][j] = "ui"
        BY DEF WithResource
      <4>2. \A i \in 1..N : DOMAIN outcomes[i] = 1..len[i]
        BY <1>2, <1>3
      <4> HIDE DEF N, len
      <4> QED
        BY <1>1, <4>1, <4>2
    <3> QED
      BY <3>1, <3>2
  <2> HIDE DEF flat, S, f
  <2> QED
    BY <1>6, <2>2
<1>8. ASSUME NEW k \in DOMAIN f PROVE k = Cardinality({c \in WithResource : Before(c, f[k])}) + 1
  <2>1. k \in 1..Len(f) /\ f[k] \in E /\ \A c \in Range(f) : c \in E
    <3> HIDE DEF f, E
    <3>1. DOMAIN f = 1..Len(f) /\ \A n \in 1..Len(f) : f[n] \in E
      BY <1>6, LenProperties, ElementOfSeq
    <3> QED
      BY <3>1 DEF Range
  <2> DEFINE B == {c \in Range(f) : <<c, f[k]>> \in InTemplate}
  <2>2. B = {c \in WithResource : Before(c, f[k])}
    <3>1. ASSUME NEW c \in Range(f) PROVE <<c, f[k]>> \in InTemplate <=> Before(c, f[k])
      <4>1. c \in E /\ f[k] \in E
        BY <2>1
      <4> HIDE DEF f
      <4> QED
        BY <4>1 DEF InTemplate
    <3> HIDE DEF f
    <3> QED
      BY <1>7, <3>1
  <2>3. k = Cardinality(B) + 1
    <3>1. StrictOn(InTemplate, E)
      BY TemplateOrder
    <3>2. B = Preceding(f, k, InTemplate)
      BY DEF Preceding
    <3> HIDE DEF f, E, B
    <3> QED
      BY <1>6, <2>1, <3>1, <3>2, PlaceCounts
  <2> QED
    BY <2>2, <2>3
<1> QED
  <2> HIDE DEF f
  <2> QED
    BY <1>5, <1>7, <1>8

\* The slots of a composition follow its template.
LEMMA SlotsHold == SlotsInv => SlotsFollowTemplate
<1> SUFFICES ASSUME SlotsInv, panels # << >>
             PROVE  /\ Range(panels) = WithResource
                    /\ \A k \in DOMAIN panels : k = Cardinality({c \in WithResource : Before(c, panels[k])}) + 1
  BY DEF SlotsFollowTemplate
<1>1. panels = Collected /\ outcomes \in [DOMAIN Sources -> Seq(CallOutcome)]
  BY DEF SlotsInv
<1> QED
  BY <1>1, CollectedPlaces

-----------------------------------------------------------------------------
(* ComposeRules: what a name stands for.                                    *)

\* What is enumerated up to a length is a sequence.
LEMMA UpToSequences ==
  ASSUME NEW S, NEW n \in Nat, NEW s \in UpTo(S, n)
  PROVE  s \in Seq(S) /\ Len(s) \in Nat /\ DOMAIN s = 1..Len(s) /\ \A k \in 1..Len(s) : s[k] \in S
<1>1. PICK m \in 0..n : s \in [1..m -> S]
  BY DEF UpTo
<1>2. m \in Nat
  OBVIOUS
<1>3. s \in Seq(S)
  BY <1>1, <1>2, SeqDef
<1> QED
  BY <1>3, LenProperties, ElementOfSeq

\* A template that is tried: sources with their calls.
Shaped(template) ==
  /\ DOMAIN template = 1..Len(template) /\ Len(template) \in Nat
  /\ \A i \in 1..Len(template) : DOMAIN template[i].calls = 1..Len(template[i].calls) /\ Len(template[i].calls) \in Nat

\* The templates that are tried have that shape.
LEMMA TemplatesShaped == \A template \in Templates : Shaped(template)
<1> DEFINE calls == [tool : TemplateTools, id : CallIds \cup {Absent}]
           sources == [manifest : Manifests, id : SourceIds \cup {Absent}, calls : UpTo(calls, MaxCalls) \ {<< >>}]
<1> SUFFICES ASSUME NEW template \in UpTo(sources, MaxSources) PROVE Shaped(template)
  BY DEF Templates
<1>1. Len(template) \in Nat /\ DOMAIN template = 1..Len(template) /\ \A i \in 1..Len(template) : template[i] \in sources
  <2> HIDE DEF sources
  <2> QED
    BY UpToSequences, CasesAssumption
<1>2. ASSUME NEW i \in 1..Len(template) PROVE DOMAIN template[i].calls = 1..Len(template[i].calls) /\ Len(template[i].calls) \in Nat
  <2>1. template[i].calls \in UpTo(calls, MaxCalls)
    BY <1>1
  <2> HIDE DEF calls
  <2> QED
    BY <2>1, UpToSequences
<1> QED
  BY <1>1, <1>2 DEF Shaped

\* The panels of a template are those of the calls that answered, each with its name.
LEMMA CollectedPanels ==
  ASSUME NEW template, Shaped(template), NEW answered \in SUBSET Calls(template),
         NEW panelsOf, panelsOf = Collect(template, answered)
  PROVE  \E kept \in Seq(Nat \X Nat) :
           /\ Range(kept) = answered /\ DOMAIN panelsOf = DOMAIN kept /\ DOMAIN kept = 1..Len(kept)
           /\ \A k \in DOMAIN kept : /\ panelsOf[k].component = IdOf(template, kept[k]) /\ panelsOf[k].call = kept[k]
                                     /\ Len(panelsOf[k].source) = 2
<1> DEFINE N == Len(template)
           len == [i \in 1..N |-> Len(template[i].calls)]
           ss == [i \in DOMAIN template |-> [j \in DOMAIN template[i].calls |-> <<i, j>>]]
           ordered == FlattenSeq(ss)
           kept == Kept(ordered, answered)
           E == Nat \X Nat
<1>1. /\ N \in Nat /\ DOMAIN template = 1..N
      /\ \A i \in 1..N : DOMAIN template[i].calls = 1..len[i] /\ len[i] \in Nat
  BY DEF Shaped
<1>2. ss = CallsBySource(N, len)
  <2> HIDE DEF N, len
  <2> QED
    BY <1>1 DEF CallsBySource
<1>3. ListsCalls(ordered, N, len)
  <2> HIDE DEF N, len, ss
  <2> QED
    BY <1>1, <1>2, CallsInOrder
<1>4. kept \in Seq(E) /\ Range(kept) = Range(ordered) \cap answered
  <2>1. ordered \in Seq(E)
    BY <1>3 DEF ListsCalls
  <2> HIDE DEF ordered, E
  <2> QED
    BY <2>1, KeptIn
<1>5. Range(kept) = answered
  <2>1. ASSUME NEW x \in answered PROVE x \in Range(ordered)
    <3>1. PICK i \in DOMAIN template : \E j \in DOMAIN template[i].calls : x = <<i, j>>
      BY DEF Calls
    <3> HIDE DEF N, len, ordered
    <3> QED
      BY <1>1, <1>3, <3>1 DEF ListsCalls
  <2> HIDE DEF kept, ordered
  <2> QED
    BY <1>4, <2>1
<1>6. panelsOf = [k \in DOMAIN kept |->
            [component |-> IdOf(template, kept[k]),
             source |-> <<template[kept[k][1]].manifest, template[kept[k][1]].calls[kept[k][2]].tool>>,
             call |-> kept[k]]]
  BY Zenon DEF Collect
<1>7. DOMAIN kept = 1..Len(kept)
  <2> HIDE DEF kept, E
  <2> QED
    BY <1>4, LenProperties
<1>8. DOMAIN panelsOf = DOMAIN kept
  <2> HIDE DEF kept
  <2> QED
    BY <1>6
<1>9. ASSUME NEW k \in DOMAIN kept
      PROVE  /\ panelsOf[k].component = IdOf(template, kept[k]) /\ panelsOf[k].call = kept[k]
             /\ Len(panelsOf[k].source) = 2
  <2> DEFINE a == template[kept[k][1]].manifest
             b == template[kept[k][1]].calls[kept[k][2]].tool
  <2>1. panelsOf[k] = [component |-> IdOf(template, kept[k]), source |-> <<a, b>>, call |-> kept[k]]
    <3> HIDE DEF kept
    <3> QED
      BY <1>6
  <2>2. Len(<<a, b>>) = 2
    OBVIOUS
  <2> HIDE DEF kept, a, b
  <2> QED
    BY <2>1, <2>2
<1> HIDE DEF kept, E
<1> QED
  BY <1>4, <1>5, <1>7, <1>8, <1>9 DEF E

\* The greatest of some places, where there are any, and of one place.
LEMMA GreatestPlace ==
  ASSUME NEW N \in Nat, NEW K, K \subseteq 1..N
  PROVE  /\ K # {} => Greatest(K) \in K
         /\ \A k : K = {k} => Greatest(K) = k
<1>1. ASSUME K # {} PROVE Greatest(K) \in K
  <2>1. K \subseteq 0..N
    OBVIOUS
  <2> QED
    BY <1>1, <2>1, GreatestElement DEF Greatest
<1>2. ASSUME NEW k, K = {k} PROVE Greatest(K) = k
  BY <1>1, <1>2
<1> QED
  BY <1>1, <1>2

\* A name of its own stands for its panel, or for none.
LEMMA TemplateMeans ==
  ASSUME case \in [template : Templates]
  PROVE  StableReference
<1> DEFINE template == case.template
<1> SUFFICES ASSUME ValidTemplate(template, Offered), NEW answered \in SUBSET Calls(template), NEW c \in Calls(template),
                    Len(IdOf(template, c)) # 2
             PROVE  LET collected == Collect(template, answered)
                        slot == ResolveReference(IdOf(template, c), collected)
                    IN  IF c \in answered THEN slot # Absent /\ collected[slot].call = c ELSE slot = Absent
  BY Zenon DEF StableReference
<1> DEFINE name == IdOf(template, c)
           collected == Collect(template, answered)
           slot == ResolveReference(name, collected)
           byComponent == {k \in DOMAIN collected : collected[k].component = name}
           byTool == {k \in DOMAIN collected : collected[k].source = name}
<1>1. Shaped(template)
  BY TemplatesShaped
<1>2. PICK kept \in Seq(Nat \X Nat) :
           /\ Range(kept) = answered /\ DOMAIN collected = DOMAIN kept /\ DOMAIN kept = 1..Len(kept)
           /\ \A k \in DOMAIN kept : /\ collected[k].component = IdOf(template, kept[k]) /\ collected[k].call = kept[k]
                                     /\ Len(collected[k].source) = 2
  <2> HIDE DEF template
  <2> QED
    BY <1>1, CollectedPanels
<1> HIDE DEF collected
<1>3. \A d \in Calls(template) : IdOf(template, d) = name => d = c
  BY DEF ValidTemplate, DuplicateId
<1>4. \A k \in DOMAIN kept : kept[k] \in answered /\ kept[k] \in Calls(template)
  BY <1>2 DEF Range
<1>5. byComponent = {k \in DOMAIN kept : kept[k] = c}
  <2>1. \A k \in DOMAIN kept : collected[k].component = name <=> kept[k] = c
    <3> HIDE DEF template
    <3> QED
      BY <1>2, <1>3, <1>4
  <2> HIDE DEF name
  <2> QED
    BY <1>2, <2>1
<1>6. byTool = {}
  BY <1>2
<1>7. slot = IF byComponent # {} THEN Greatest(byComponent) ELSE IF Cardinality(byTool) = 1 THEN Greatest(byTool) ELSE Absent
  BY DEF ResolveReference
<1> HIDE DEF byComponent, byTool, slot, name, template
<1>8. Cardinality(byTool) # 1
  BY <1>6, FS_EmptySet
<1>9. CASE c \in answered
  <2>1. byComponent # {}
    BY <1>2, <1>5, <1>9 DEF Range
  <2>2. byComponent \subseteq 1..Len(kept) /\ Len(kept) \in Nat
    BY <1>2, <1>5, LenProperties
  <2>3. slot \in byComponent
    BY <1>7, <2>1, <2>2, GreatestPlace
  <2>4. slot \in DOMAIN kept /\ kept[slot] = c
    BY <1>5, <2>3
  <2>5. slot # Absent
    BY <2>2, <2>3, CasesAssumption
  <2>6. collected[slot].call = c
    BY <1>2, <2>4
  <2> QED
    BY <1>9, <2>5, <2>6 DEF slot, name, collected
<1>10. CASE c \notin answered
  <2>1. byComponent = {}
    BY <1>4, <1>5, <1>10
  <2>2. slot = Absent
    BY <1>7, <1>8, <2>1
  <2> QED
    BY <1>10, <2>2 DEF slot, name, collected
<1> QED
  BY <1>9, <1>10

-----------------------------------------------------------------------------
(* ComposeRules: where an event goes.                                       *)

\* A filter that everything passes changes nothing.
LEMMA KeptAll ==
  ASSUME NEW E, NEW e \in Seq(E), NEW S, \A n \in 1..Len(e) : e[n] \in S
  PROVE  Kept(e, S) = e
<1> DEFINE N == Len(e)
<1>1. N \in Nat
  BY LenProperties
<1>2. PICK kept \in [0..N -> Seq(E)] : IsKept(kept, e, S) /\ Kept(e, S) = kept[N]
  BY KeptRuns
<1>3. kept[0] = << >> /\ \A n \in 1..N : kept[n - 1] \in Seq(E) /\ e[n] \in E /\ kept[n] = Append(kept[n - 1], e[n])
  BY <1>2, KeptSteps
<1> DEFINE Right == {n \in 0..N : Len(kept[n]) = n /\ \A m \in 1..n : kept[n][m] = e[m]}
<1>4. 0 \in Right
  BY <1>1, <1>3
<1>5. ASSUME NEW n \in 1..N, n - 1 \in Right PROVE n \in Right
  <2>1. Len(kept[n - 1]) = n - 1 /\ \A m \in 1..n-1 : kept[n - 1][m] = e[m]
    BY <1>5
  <2>2. n \in 0..N /\ n \in Nat
    <3> HIDE DEF N
    <3> QED
      BY <1>1
  <2>3. Len(kept[n]) = n - 1 + 1 /\ \A m \in 1..n : kept[n][m] = IF m <= n - 1 THEN kept[n - 1][m] ELSE e[n]
    <3> DEFINE q == kept[n - 1]
               x == e[n]
    <3>1. q \in Seq(E) /\ x \in E /\ kept[n] = Append(q, x) /\ Len(q) = n - 1
      BY <1>3, <2>1
    <3> HIDE DEF q, x
    <3>2. Len(Append(q, x)) = Len(q) + 1 /\ \A m \in 1..Len(q) + 1 : Append(q, x)[m] = IF m <= Len(q) THEN q[m] ELSE x
      BY <3>1, AppendProperties
    <3>3. \A m \in 1..n : m \in 1..(n - 1) + 1
      OBVIOUS
    <3> QED
      BY <3>1, <3>2, <3>3 DEF q, x
  <2>4. \A m \in 1..n : m \in 1..n-1 \/ m = n
    BY <2>2
  <2>5. \A m \in 1..n : kept[n][m] = e[m]
    BY <2>1, <2>2, <2>3, <2>4
  <2>6. Len(kept[n]) = n
    BY <2>2, <2>3
  <2> QED
    BY <2>2, <2>5, <2>6
<1>6. N \in Right
  <2>1. \A n \in 0..N : n \in Right
    <3> HIDE DEF Right, N
    <3> QED
      BY <1>1, <1>4, <1>5, UpToInduction
  <2> HIDE DEF Right, N
  <2> QED
    BY <1>1, <2>1
<1>7. kept[N] \in Seq(E) /\ Len(kept[N]) = N /\ \A m \in 1..N : kept[N][m] = e[m]
  <2>1. N \in 0..N
    <3> HIDE DEF N
    <3> QED
      BY <1>1
  <2> QED
    BY <1>2, <1>6, <2>1
<1>8. kept[N] = e
  BY <1>7, SeqEqual
<1> QED
  BY <1>2, <1>8

-----------------------------------------------------------------------------
\* How often something was delivered, after n chances of which those in H count:
\* once at most, and not again where it was delivered before.
Counts(c, b, H, n) ==
  /\ b # 0 => c = b
  /\ b = 0 /\ H \cap (1..n) # {} => c = 1
  /\ b = 0 /\ H \cap (1..n) = {} => c = 0

\* One more chance.
LEMMA CountsMore ==
  ASSUME NEW b \in Nat, NEW c \in Nat, NEW d, NEW H, NEW n \in Nat, n # 0, Counts(c, b, H, n - 1),
         n \in H => d = IF c = 0 THEN 1 ELSE c, n \notin H => d = c
  PROVE  Counts(d, b, H, n)
<1>1. \A m : m \in 1..n <=> m \in 1..n-1 \/ m = n
  OBVIOUS
<1>2. n \in H => H \cap (1..n) # {}
  OBVIOUS
<1>3. n \notin H => H \cap (1..n) = H \cap (1..n-1)
  BY <1>1
<1>4. H \cap (1..n-1) # {} => H \cap (1..n) # {}
  BY <1>1
<1>5. CASE n \in H
  BY <1>2, <1>5 DEF Counts
<1>6. CASE n \notin H
  BY <1>3, <1>6 DEF Counts
<1> QED
  BY <1>5, <1>6

\* A delivery that was made is not made again.
OnceMore(r, posts, x, y) ==
  /\ x = y /\ Occurs(posts, {y}) = 0 => Occurs(r, {y}) = 1
  /\ x = y /\ Occurs(posts, {y}) # 0 => Occurs(r, {y}) = Occurs(posts, {y})
  /\ x # y => Occurs(r, {y}) = Occurs(posts, {y})

\* One port rule adds what it leads to, unless it is there.
LEMMA AddedOnce ==
  ASSUME NEW P, NEW posts \in Seq(P), NEW x \in P, NEW y
  PROVE  AddPost(posts, x) \in Seq(P) /\ OnceMore(AddPost(posts, x), posts, x, y)
<1>1. Occurs(posts, {y}) \in Nat /\ (Occurs(posts, {y}) = 0 <=> Places(posts, {y}) = {})
  BY PlacesFinite
<1>2. DOMAIN posts = 1..Len(posts)
  BY LenProperties
<1>3. y \in Range(posts) <=> Places(posts, {y}) # {}
  BY <1>2 DEF Range, Places
<1>4. CASE x \in Range(posts)
  <2>1. AddPost(posts, x) = posts
    BY <1>4 DEF AddPost
  <2> QED
    BY <1>1, <1>3, <1>4, <2>1 DEF OnceMore
<1>5. CASE x \notin Range(posts)
  <2>1. AddPost(posts, x) = Append(posts, x)
    BY <1>5 DEF AddPost
  <2>2. Occurs(Append(posts, x), {y}) = Occurs(posts, {y}) + IF x \in {y} THEN 1 ELSE 0
    BY OccursAppend
  <2>3. Append(posts, x) \in Seq(P)
    OBVIOUS
  <2>4. x \in {y} <=> x = y
    OBVIOUS
  <2>5. x = y => Occurs(posts, {y}) = 0
    BY <1>1, <1>3, <1>5
  <2> QED
    BY <1>1, <2>1, <2>2, <2>3, <2>4, <2>5 DEF OnceMore
<1> QED
  BY <1>4, <1>5

\* The loop over the slots of a port rule.
IsAdded(added, posts, port, slots, accepts, from) ==
  added = [n \in 0..Len(slots) |->
             IF n = 0 THEN posts
             ELSE IF slots[n] # from /\ port.action \in accepts[slots[n]]
                  THEN AddPost(added[n - 1], <<slots[n], port.action>>) ELSE added[n - 1]]

\* PortPosts() is a loop that runs over the slots.
LEMMA AddedRuns ==
  ASSUME NEW P, NEW posts \in Seq(P), NEW port, NEW slots, Len(slots) \in Nat, NEW accepts, NEW from,
         \A n \in 1..Len(slots) : <<slots[n], port.action>> \in P
  PROVE  \E added : IsAdded(added, posts, port, slots, accepts, from)
                    /\ PortPosts(posts, port, slots, accepts, from) = added[Len(slots)]
<1> DEFINE N == Len(slots)
           A == Seq(P)
           Add(a, n) == IF slots[n] # from /\ port.action \in accepts[slots[n]]
                        THEN AddPost(a, <<slots[n], port.action>>) ELSE a
           step == [x \in A \X (1..N) |-> Add(x[1], x[2])]
<1>1. ASSUME NEW a \in A, NEW n \in 1..N PROVE step[<<a, n>>] = Add(a, n) /\ Add(a, n) \in A
  <2>1. <<a, n>> \in A \X (1..N) /\ <<a, n>>[1] = a /\ <<a, n>>[2] = n
    OBVIOUS
  <2>2. step[<<a, n>>] = Add(<<a, n>>[1], <<a, n>>[2])
    BY <2>1
  <2>3. AddPost(a, <<slots[n], port.action>>) \in A
    BY AddedOnce
  <2>4. Add(a, n) \in A
    BY <2>3
  <2> QED
    BY <2>1, <2>2, <2>4
<1>2. PICK u \in [0..N -> A] : IsLoop(u, N, posts, step)
  <2>1. \A a \in A, n \in 1..N : step[<<a, n>>] \in A
    <3> HIDE DEF A, step, Add
    <3> QED
      BY <1>1
  <2> HIDE DEF A, step
  <2>2. posts \in A /\ N \in Nat
    BY DEF A
  <2> HIDE DEF N
  <2> QED
    BY <2>1, <2>2, LoopRuns
<1>3. ASSUME NEW n \in 0..N PROVE u[n] = IF n = 0 THEN posts ELSE Add(u[n - 1], n)
  <2>1. CASE n = 0
    BY <1>2, <2>1 DEF IsLoop
  <2>2. CASE n # 0
    <3>1. n \in 1..N /\ n - 1 \in 0..N
      BY <2>2
    <3>2. u[n - 1] \in A
      BY <1>2, <3>1
    <3>3. u[n] = step[<<u[n - 1], n>>]
      <4> HIDE DEF step, A
      <4> QED
        BY <2>2, <1>2 DEF IsLoop
    <3> HIDE DEF step, Add, A
    <3> QED
      BY <1>1, <2>2, <3>1, <3>2, <3>3
  <2> QED
    BY <2>1, <2>2
<1>4. IsAdded(u, posts, port, slots, accepts, from)
  <2> HIDE DEF A
  <2> QED
    BY <1>2, <1>3 DEF IsAdded
<1> DEFINE w == CHOOSE added : IsAdded(added, posts, port, slots, accepts, from)
<1>5. IsAdded(w, posts, port, slots, accepts, from)
  BY <1>4
<1>6. PortPosts(posts, port, slots, accepts, from) = w[N]
  BY Zenon DEF PortPosts, IsAdded
<1> QED
  <2> HIDE DEF w
  <2> QED
    BY <1>5, <1>6

\* How often a port rule delivers.
LEMMA PortCounts ==
  ASSUME NEW P, NEW posts \in Seq(P), NEW port, NEW slots, Len(slots) \in Nat, NEW accepts, NEW from,
         \A n \in 1..Len(slots) : <<slots[n], port.action>> \in P,
         NEW y, NEW H, H = {n \in 1..Len(slots) : slots[n] # from /\ port.action \in accepts[slots[n]] /\ <<slots[n], port.action>> = y},
         NEW r, r = PortPosts(posts, port, slots, accepts, from)
  PROVE  r \in Seq(P) /\ Counts(Occurs(r, {y}), Occurs(posts, {y}), H, Len(slots))
<1> DEFINE N == Len(slots)
           b == Occurs(posts, {y})
<1>1. PICK added : IsAdded(added, posts, port, slots, accepts, from) /\ r = added[N]
  BY AddedRuns
<1>2. added[0] = posts
  BY <1>1 DEF IsAdded
<1>3. ASSUME NEW n \in 1..N
      PROVE  added[n] = IF slots[n] # from /\ port.action \in accepts[slots[n]]
                        THEN AddPost(added[n - 1], <<slots[n], port.action>>) ELSE added[n - 1]
  <2>1. n \in 0..Len(slots) /\ n # 0
    OBVIOUS
  <2> QED
    BY <1>1, <2>1 DEF IsAdded
<1>4. b \in Nat
  BY PlacesFinite
<1> DEFINE Right == {n \in 0..N : added[n] \in Seq(P) /\ Counts(Occurs(added[n], {y}), b, H, n)}
<1>5. 0 \in Right
  <2>1. Counts(b, b, H, 0)
    <3> HIDE DEF b
    <3> QED
      BY DEF Counts
  <2>2. 0 \in 0..N
    OBVIOUS
  <2> QED
    BY <1>2, <2>1, <2>2
<1>6. ASSUME NEW n \in 1..N, n - 1 \in Right PROVE n \in Right
  <2> DEFINE x == <<slots[n], port.action>>
             q == added[n - 1]
             c == Occurs(q, {y})
             d == Occurs(added[n], {y})
  <2>1. q \in Seq(P) /\ Counts(c, b, H, n - 1) /\ x \in P
    BY <1>6
  <2>2. n \in Nat /\ n # 0 /\ n \in 0..N
    OBVIOUS
  <2>3. c \in Nat
    BY <2>1, PlacesFinite
  <2>4. /\ AddPost(q, x) \in Seq(P)
        /\ x = y /\ c = 0 => Occurs(AddPost(q, x), {y}) = 1
        /\ x = y /\ c # 0 => Occurs(AddPost(q, x), {y}) = c
        /\ x # y => Occurs(AddPost(q, x), {y}) = c
    <3>1. q \in Seq(P) /\ x \in P
      BY <2>1
    <3> HIDE DEF x, q
    <3>2. AddPost(q, x) \in Seq(P) /\ OnceMore(AddPost(q, x), q, x, y)
      BY <3>1, AddedOnce
    <3> QED
      BY <3>2 DEF OnceMore
  <2>5. added[n] \in Seq(P) /\ (n \in H => d = IF c = 0 THEN 1 ELSE c) /\ (n \notin H => d = c)
    <3>1. n \in H <=> slots[n] # from /\ port.action \in accepts[slots[n]] /\ x = y
      OBVIOUS
    <3>2. CASE slots[n] # from /\ port.action \in accepts[slots[n]]
      <4>1. added[n] = AddPost(q, x)
        BY <1>3, <3>2
      <4> HIDE DEF x, q
      <4> QED
        BY <2>4, <3>1, <3>2, <4>1
    <3>3. CASE ~(slots[n] # from /\ port.action \in accepts[slots[n]])
      <4>1. added[n] = q
        BY <1>3, <3>3
      <4>2. n \notin H
        BY <3>1, <3>3
      <4> HIDE DEF x, q
      <4> QED
        BY <2>1, <4>1, <4>2
    <3> QED
      BY <3>2, <3>3
  <2>6. Counts(d, b, H, n)
    <3> HIDE DEF b, c, d
    <3> QED
      BY <1>4, <2>1, <2>2, <2>3, <2>5, CountsMore
  <2> QED
    BY <2>2, <2>5, <2>6
<1>7. N \in Right
  <2>1. \A n \in 0..N : n \in Right
    <3>1. N \in Nat
      OBVIOUS
    <3> HIDE DEF Right, N
    <3> QED
      BY <1>5, <1>6, <3>1, UpToInduction
  <2>2. N \in 0..N
    OBVIOUS
  <2> HIDE DEF Right
  <2> QED
    BY <2>1, <2>2
<1> QED
  BY <1>1, <1>7

\* The loop over the port rules of a page.
IsRouted(routed, rules, ports, slots, emits, accepts, from, event) ==
  routed = [n \in 0..Len(ports) |->
              IF n = 0 THEN StaticPosts(rules, slots, from, event)
              ELSE IF ports[n].event = event /\ event \in emits[from]
                   THEN PortPosts(routed[n - 1], ports[n], slots, accepts, from) ELSE routed[n - 1]]

\* A port rule leads from posts to posts.
LEMMA PortPosted ==
  ASSUME NEW P, NEW posts \in Seq(P), NEW port, NEW slots, Len(slots) \in Nat, NEW accepts, NEW from,
         \A n \in 1..Len(slots) : <<slots[n], port.action>> \in P
  PROVE  PortPosts(posts, port, slots, accepts, from) \in Seq(P)
<1> DEFINE r == PortPosts(posts, port, slots, accepts, from)
           H == {n \in 1..Len(slots) : slots[n] # from /\ port.action \in accepts[slots[n]] /\ <<slots[n], port.action>> = 0}
<1>1. r = PortPosts(posts, port, slots, accepts, from)
      /\ H = {n \in 1..Len(slots) : slots[n] # from /\ port.action \in accepts[slots[n]] /\ <<slots[n], port.action>> = 0}
  OBVIOUS
<1> HIDE DEF r, H
<1>2. r \in Seq(P)
  BY <1>1, PortCounts
<1> QED
  BY <1>1, <1>2

\* Route() is a loop that runs over the port rules.
LEMMA RouteRuns ==
  ASSUME NEW P, NEW rules, NEW ports, NEW slots, NEW emits, NEW accepts, NEW from, NEW event,
         StaticPosts(rules, slots, from, event) \in Seq(P), Len(slots) \in Nat, Len(ports) \in Nat,
         \A i \in 1..Len(ports), n \in 1..Len(slots) : <<slots[n], ports[i].action>> \in P
  PROVE  \E routed : IsRouted(routed, rules, ports, slots, emits, accepts, from, event)
                     /\ Route(rules, ports, slots, emits, accepts, from, event) = routed[Len(ports)]
<1> DEFINE N == Len(ports)
           A == Seq(P)
           base == StaticPosts(rules, slots, from, event)
           Leads(a, n) == IF ports[n].event = event /\ event \in emits[from]
                          THEN PortPosts(a, ports[n], slots, accepts, from) ELSE a
           step == [x \in A \X (1..N) |-> Leads(x[1], x[2])]
<1>1. ASSUME NEW a \in A, NEW n \in 1..N PROVE step[<<a, n>>] = Leads(a, n) /\ Leads(a, n) \in A
  <2>1. <<a, n>> \in A \X (1..N) /\ <<a, n>>[1] = a /\ <<a, n>>[2] = n
    OBVIOUS
  <2>2. step[<<a, n>>] = Leads(<<a, n>>[1], <<a, n>>[2])
    BY <2>1
  <2>3. PortPosts(a, ports[n], slots, accepts, from) \in A
    <3> DEFINE port == ports[n]
    <3>1. \A k \in 1..Len(slots) : <<slots[k], port.action>> \in P
      OBVIOUS
    <3> HIDE DEF port
    <3>2. PortPosts(a, port, slots, accepts, from) \in A
      BY <3>1, PortPosted
    <3> QED
      BY <3>2 DEF port
  <2>4. Leads(a, n) \in A
    BY <2>3
  <2> QED
    BY <2>1, <2>2, <2>4
<1>2. PICK u \in [0..N -> A] : IsLoop(u, N, base, step)
  <2>1. \A a \in A, n \in 1..N : step[<<a, n>>] \in A
    <3> HIDE DEF A, step, Leads
    <3> QED
      BY <1>1
  <2> HIDE DEF A, step
  <2>2. base \in A /\ N \in Nat
    BY DEF A
  <2> HIDE DEF N, base
  <2> QED
    BY <2>1, <2>2, LoopRuns
<1>3. ASSUME NEW n \in 0..N PROVE u[n] = IF n = 0 THEN base ELSE Leads(u[n - 1], n)
  <2>1. CASE n = 0
    BY <1>2, <2>1 DEF IsLoop
  <2>2. CASE n # 0
    <3>1. n \in 1..N /\ n - 1 \in 0..N
      BY <2>2
    <3>2. u[n - 1] \in A
      BY <1>2, <3>1
    <3>3. u[n] = step[<<u[n - 1], n>>]
      <4> HIDE DEF step, A
      <4> QED
        BY <2>2, <1>2 DEF IsLoop
    <3> HIDE DEF step, Leads, A
    <3> QED
      BY <1>1, <2>2, <3>1, <3>2, <3>3
  <2> QED
    BY <2>1, <2>2
<1>4. IsRouted(u, rules, ports, slots, emits, accepts, from, event)
  <2> HIDE DEF A
  <2> QED
    BY <1>2, <1>3 DEF IsRouted
<1> DEFINE w == CHOOSE routed : IsRouted(routed, rules, ports, slots, emits, accepts, from, event)
<1>5. IsRouted(w, rules, ports, slots, emits, accepts, from, event)
  BY <1>4
<1>6. Route(rules, ports, slots, emits, accepts, from, event) = w[N]
  BY Zenon DEF Route, IsRouted
<1> QED
  <2> HIDE DEF w
  <2> QED
    BY <1>5, <1>6

\* How often an event is delivered: what the static rules deliver, or else once where
\* a port rule leads there.
LEMMA RouteCounts ==
  ASSUME NEW P, NEW rules, NEW ports, NEW slots, NEW emits, NEW accepts, NEW from, NEW event,
         StaticPosts(rules, slots, from, event) \in Seq(P), Len(slots) \in Nat, Len(ports) \in Nat,
         \A i \in 1..Len(ports), n \in 1..Len(slots) : <<slots[n], ports[i].action>> \in P,
         NEW y, NEW H,
         H = {i \in 1..Len(ports) :
                /\ ports[i].event = event /\ event \in emits[from]
                /\ \E n \in 1..Len(slots) : slots[n] # from /\ ports[i].action \in accepts[slots[n]]
                                            /\ <<slots[n], ports[i].action>> = y},
         NEW r, r = Route(rules, ports, slots, emits, accepts, from, event)
  PROVE  r \in Seq(P) /\ Counts(Occurs(r, {y}), Occurs(StaticPosts(rules, slots, from, event), {y}), H, Len(ports))
<1> DEFINE N == Len(ports)
           base == StaticPosts(rules, slots, from, event)
           b == Occurs(base, {y})
<1>1. PICK routed : IsRouted(routed, rules, ports, slots, emits, accepts, from, event) /\ r = routed[N]
  BY RouteRuns
<1>2. routed[0] = base
  BY <1>1 DEF IsRouted
<1>3. ASSUME NEW n \in 1..N
      PROVE  routed[n] = IF ports[n].event = event /\ event \in emits[from]
                         THEN PortPosts(routed[n - 1], ports[n], slots, accepts, from) ELSE routed[n - 1]
  <2>1. n \in 0..Len(ports) /\ n # 0
    OBVIOUS
  <2> QED
    BY <1>1, <2>1 DEF IsRouted
<1>4. b \in Nat
  <2> HIDE DEF base
  <2>1. base \in Seq(P)
    BY DEF base
  <2> QED
    BY <2>1, PlacesFinite
<1> DEFINE Right == {n \in 0..N : routed[n] \in Seq(P) /\ Counts(Occurs(routed[n], {y}), b, H, n)}
<1>5. 0 \in Right
  <2>1. Counts(b, b, H, 0)
    <3> HIDE DEF b
    <3> QED
      BY DEF Counts
  <2>2. 0 \in 0..N
    OBVIOUS
  <2> QED
    BY <1>2, <2>1, <2>2
<1>6. ASSUME NEW n \in 1..N, n - 1 \in Right PROVE n \in Right
  <2> DEFINE q == routed[n - 1]
             c == Occurs(q, {y})
             d == Occurs(routed[n], {y})
             port == ports[n]
             M == Len(slots)
             G == {m \in 1..M : slots[m] # from /\ port.action \in accepts[slots[m]] /\ <<slots[m], port.action>> = y}
             t == PortPosts(q, port, slots, accepts, from)
  <2>1. q \in Seq(P) /\ Counts(c, b, H, n - 1)
    BY <1>6
  <2>2. n \in Nat /\ n # 0 /\ n \in 0..N
    OBVIOUS
  <2>3. c \in Nat
    BY <2>1, PlacesFinite
  <2>4. t \in Seq(P) /\ Counts(Occurs(t, {y}), c, G, M)
    <3>1. /\ \A k \in 1..Len(slots) : <<slots[k], port.action>> \in P
          /\ G = {m \in 1..Len(slots) : slots[m] # from /\ port.action \in accepts[slots[m]] /\ <<slots[m], port.action>> = y}
          /\ t = PortPosts(q, port, slots, accepts, from) /\ q \in Seq(P)
      BY <2>1
    <3> HIDE DEF port, q, G, t
    <3> QED
      BY <3>1, PortCounts
  <2>5. Occurs(t, {y}) = IF c # 0 THEN c ELSE IF G # {} THEN 1 ELSE 0
    <3>1. G \cap (1..M) = G
      OBVIOUS
    <3> HIDE DEF G, c, t
    <3> QED
      BY <2>4, <3>1 DEF Counts
  <2>6. n \in H <=> ports[n].event = event /\ event \in emits[from] /\ G # {}
    OBVIOUS
  <2>7. routed[n] \in Seq(P) /\ (n \in H => d = IF c = 0 THEN 1 ELSE c) /\ (n \notin H => d = c)
    <3>1. CASE ports[n].event = event /\ event \in emits[from]
      <4>1. routed[n] = t
        BY <1>3, <3>1
      <4> HIDE DEF t, G, c
      <4> QED
        BY <2>3, <2>4, <2>5, <2>6, <3>1, <4>1
    <3>2. CASE ~(ports[n].event = event /\ event \in emits[from])
      <4>1. routed[n] = q
        BY <1>3, <3>2
      <4>2. n \notin H
        BY <2>6, <3>2
      <4> HIDE DEF q
      <4> QED
        BY <2>1, <4>1, <4>2
    <3> QED
      BY <3>1, <3>2
  <2>8. Counts(d, b, H, n)
    <3> HIDE DEF b, c, d
    <3> QED
      BY <1>4, <2>1, <2>2, <2>3, <2>7, CountsMore
  <2> QED
    BY <2>2, <2>7, <2>8
<1>7. N \in Right
  <2>1. \A n \in 0..N : n \in Right
    <3>1. N \in Nat
      OBVIOUS
    <3> HIDE DEF Right, N
    <3> QED
      BY <1>5, <1>6, <3>1, UpToInduction
  <2>2. N \in 0..N
    OBVIOUS
  <2> HIDE DEF Right
  <2> QED
    BY <2>1, <2>2
<1> QED
  BY <1>1, <1>7

-----------------------------------------------------------------------------
(* ComposeRules: the compositions that are tried.                           *)

\* A composition that is tried.
ShapedCase ==
  /\ \A t \in Range(Tools) : /\ case.tools[t].emits \in {Absent, {}, Events}
                             /\ case.tools[t].accepts \in {Absent, {}, Actions}
  /\ DOMAIN case.tools = Range(Tools) /\ case.labels \in Labelings
  /\ DOMAIN case.rules = 1..Len(case.rules) /\ Len(case.rules) \in Nat
  /\ \A i \in 1..Len(case.rules) :
       /\ case.rules[i].from \in References(case.labels) /\ case.rules[i].event \in Events \cup {AnyEvent}
       /\ case.rules[i].to \in References(case.labels) \cup {Everyone} /\ case.rules[i].action \in Actions
  /\ DOMAIN case.ports = 1..Len(case.ports) /\ Len(case.ports) \in Nat
  /\ \A i \in 1..Len(case.ports) : /\ case.ports[i].event \in Events /\ case.ports[i].action \in Actions
                                   /\ case.ports[i] = [event |-> case.ports[i].event, action |-> case.ports[i].action]

\* The compositions that are tried have that shape.
LEMMA CompositionsShaped == Composed => ShapedCase
<1> SUFFICES ASSUME Composed PROVE ShapedCase
  OBVIOUS
<1>1. PICK labels \in Labelings, m, n \in 0..MaxRules : case \in Compositions(labels, m, n)
  BY DEF Composed
<1> DEFINE rule == [from : References(labels), event : Events \cup {AnyEvent},
                    to : References(labels) \cup {Everyone}, action : Actions]
           port == [event : Events, action : Actions]
           tool == [emits : {Absent, {}, Events}, accepts : {Absent, {}, Actions}]
<1>2. /\ case.tools \in [Range(Tools) -> tool] /\ case.labels = labels
      /\ case.rules \in [1..m -> rule] /\ case.ports \in [1..n -> port]
  BY <1>1 DEF Compositions
<1>3. m \in Nat /\ n \in Nat
  BY CasesAssumption
<1>4. DOMAIN case.rules = 1..Len(case.rules) /\ Len(case.rules) \in Nat /\ \A i \in 1..Len(case.rules) : case.rules[i] \in rule
  <2> HIDE DEF rule
  <2> QED
    BY <1>2, <1>3, SeqDef, LenProperties
<1>5. DOMAIN case.ports = 1..Len(case.ports) /\ Len(case.ports) \in Nat /\ \A i \in 1..Len(case.ports) : case.ports[i] \in port
  <2> HIDE DEF port
  <2> QED
    BY <1>2, <1>3, SeqDef, LenProperties
<1>6. \A t \in Range(Tools) : case.tools[t].emits \in {Absent, {}, Events} /\ case.tools[t].accepts \in {Absent, {}, Actions}
  <2>1. \A t \in Range(Tools) : case.tools[t] \in tool
    BY <1>2
  <2> QED
    BY <2>1
<1>7. \A i \in 1..Len(case.rules) :
        /\ case.rules[i].from \in References(labels) /\ case.rules[i].event \in Events \cup {AnyEvent}
        /\ case.rules[i].to \in References(labels) \cup {Everyone} /\ case.rules[i].action \in Actions
  BY <1>4
<1>8. \A i \in 1..Len(case.ports) : /\ case.ports[i].event \in Events /\ case.ports[i].action \in Actions
                                    /\ case.ports[i] = [event |-> case.ports[i].event, action |-> case.ports[i].action]
  BY <1>5
<1>9. DOMAIN case.tools = Range(Tools)
  BY <1>2
<1> QED
  BY <1>2, <1>4, <1>5, <1>6, <1>7, <1>8, <1>9 DEF ShapedCase

\* Each tool has a slot.
LEMMA ToolSlots ==
  /\ Len(Tools) \in Nat /\ DOMAIN Tools = 1..Len(Tools)
  /\ Slots \in Seq(Nat) /\ Len(Slots) = Len(Tools) /\ \A k \in 1..Len(Tools) : Slots[k] = k
  /\ \A t \in Range(Tools) : SlotOf(t) \in 1..Len(Tools) /\ Tools[SlotOf(t)] = t
  /\ \A k \in 1..Len(Tools) : Tools[k] \in Range(Tools) /\ SlotOf(Tools[k]) = k
<1> DEFINE M == Len(Tools)
<1>1. M \in Nat /\ DOMAIN Tools = 1..M
  BY CasesAssumption, LenProperties
<1> HIDE DEF M
<1>2. Slots \in Seq(Nat) /\ Len(Slots) = M /\ \A k \in 1..M : Slots[k] = k
  <2>1. Slots = [k \in 1..M |-> k]
    BY <1>1 DEF Slots
  <2>2. Slots \in [1..M -> Nat] /\ \A k \in 1..M : Slots[k] = k
    BY <1>1, <2>1
  <2>3. Slots \in Seq(Nat)
    BY <1>1, <2>2, SeqDef
  <2>4. Len(Slots) = M
    BY <1>1, <2>2, <2>3, LenProperties
  <2> QED
    BY <2>2, <2>3, <2>4
<1>3. \A t \in Range(Tools) : SlotOf(t) \in 1..M /\ Tools[SlotOf(t)] = t
  BY <1>1 DEF SlotOf, Range
<1>4. \A j, k \in 1..M : Tools[j] = Tools[k] => j = k
  BY <1>1, CasesAssumption
<1>5. \A k \in 1..M : Tools[k] \in Range(Tools)
  BY <1>1 DEF Range
<1>6. \A k \in 1..M : SlotOf(Tools[k]) = k
  BY <1>3, <1>4, <1>5
<1> QED
  BY <1>1, <1>2, <1>3, <1>5, <1>6 DEF M

\* A component id, and then the name of a tool, stands for the panel it names.
LEMMA NamesResolved ==
  ASSUME ShapedCase, NEW name \in References(case.labels)
  PROVE  PanelNamed(name) \in 1..Len(Tools) /\ ResolveReference(name, Panels) = PanelNamed(name)
<1> DEFINE M == Len(Tools)
           labels == case.labels
           byComponent == {k \in DOMAIN Panels : Panels[k].component = name}
           byTool == {k \in DOMAIN Panels : Panels[k].source = name}
<1>1. /\ M \in Nat /\ DOMAIN Tools = 1..M
      /\ \A t \in Range(Tools) : SlotOf(t) \in 1..M /\ Tools[SlotOf(t)] = t
      /\ \A j, k \in 1..M : Tools[j] = Tools[k] => j = k
  BY ToolSlots, CasesAssumption
<1>2. DOMAIN labels = 1..M /\ \A j, k \in 1..M : labels[j] = labels[k] => j = k
  BY <1>1, CasesAssumption DEF ShapedCase
<1>3. DOMAIN Panels = 1..M /\ \A k \in 1..M : Panels[k].component = labels[k] /\ Panels[k].source = Tools[k]
  BY <1>1 DEF Panels
<1>4. ResolveReference(name, Panels) = IF byComponent # {} THEN Greatest(byComponent)
                                       ELSE IF Cardinality(byTool) = 1 THEN Greatest(byTool) ELSE Absent
  BY DEF ResolveReference
<1>5. byComponent \subseteq 1..M /\ byTool \subseteq 1..M
  BY <1>3
<1>6. PanelNamed(name) = IF name \in Range(labels) THEN CHOOSE k \in 1..M : labels[k] = name ELSE SlotOf(name)
  BY <1>1 DEF PanelNamed
<1>7. name \in Range(Tools) \/ name \in Range(labels)
  BY DEF References
<1>8. CASE name \in Range(labels)
  <2> DEFINE s == CHOOSE k \in 1..M : labels[k] = name
  <2>1. s \in 1..M /\ labels[s] = name
    BY <1>2, <1>8 DEF Range
  <2> HIDE DEF s, labels, M
  <2>2. byComponent = {s}
    BY <1>2, <1>3, <2>1
  <2> HIDE DEF byComponent, byTool
  <2>3. Greatest(byComponent) = s
    BY <1>1, <1>5, <2>2, GreatestPlace
  <2> QED
    BY <1>4, <1>6, <1>8, <2>1, <2>2, <2>3 DEF s, M
<1>9. CASE name \notin Range(labels)
  <2> DEFINE s == SlotOf(name)
  <2>1. s \in 1..M /\ Tools[s] = name
    BY <1>1, <1>7, <1>9
  <2>2. byComponent = {}
    BY <1>2, <1>3, <1>9 DEF Range
  <2> HIDE DEF s, labels, M
  <2>3. byTool = {s}
    BY <1>1, <1>3, <2>1
  <2> HIDE DEF byComponent, byTool
  <2>4. Cardinality(byTool) = 1
    BY <2>3, FS_Singleton
  <2>5. Greatest(byTool) = s
    BY <1>1, <1>5, <2>3, GreatestPlace
  <2> QED
    BY <1>4, <1>6, <1>9, <2>1, <2>2, <2>4, <2>5 DEF s, M
<1> QED
  BY <1>8, <1>9

\* The rules of a composition, resolved: none is left out.
LEMMA RulesResolved ==
  ASSUME ShapedCase
  PROVE  /\ Resolved = [i \in 1..Len(case.rules) |-> ResolveRule(case.rules[i], Panels)]
         /\ \A i \in 1..Len(case.rules) :
              /\ Resolved[i].from = PanelNamed(case.rules[i].from) /\ Resolved[i].event = case.rules[i].event
              /\ Resolved[i].action = case.rules[i].action
              /\ case.rules[i].to = Everyone => Resolved[i].to = Broadcast
              /\ case.rules[i].to # Everyone => Resolved[i].to = PanelNamed(case.rules[i].to) /\ case.rules[i].to \in References(case.labels)
<1> DEFINE rules == case.rules
           N == Len(rules)
           resolved == [i \in DOMAIN rules |-> ResolveRule(rules[i], Panels)]
           R == References(case.labels)
           S == {r \in Range(resolved) : r.from # Absent /\ r.to # Absent}
<1>1. /\ DOMAIN rules = 1..N /\ N \in Nat
      /\ \A i \in 1..N : rules[i].from \in R /\ rules[i].to \in R \cup {Everyone}
  BY DEF ShapedCase
<1> HIDE DEF rules, N, R
<1>2. ASSUME NEW i \in 1..N
      PROVE  /\ resolved[i].from = PanelNamed(rules[i].from) /\ resolved[i].event = rules[i].event
             /\ resolved[i].action = rules[i].action
             /\ rules[i].to = Everyone => resolved[i].to = Broadcast
             /\ rules[i].to # Everyone => resolved[i].to = PanelNamed(rules[i].to) /\ rules[i].to \in R
  <2>1. resolved[i] = ResolveRule(rules[i], Panels)
    BY <1>1
  <2>2. rules[i].from \in R /\ (rules[i].to # Everyone => rules[i].to \in R)
    BY <1>1
  <2> HIDE DEF resolved
  <2> QED
    BY <2>1, <2>2, NamesResolved DEF ResolveRule, R
<1>3. ASSUME NEW i \in 1..N PROVE resolved[i].from # Absent /\ resolved[i].to # Absent
  <2>1. \A name \in R : PanelNamed(name) \in Nat
    <3>1. Len(Tools) \in Nat /\ \A name \in R : PanelNamed(name) \in 1..Len(Tools)
      BY ToolSlots, NamesResolved DEF R
    <3> QED
      BY <3>1
  <2>2. Broadcast \in Nat
    BY DEF Broadcast
  <2>3. Absent \notin Nat
    BY CasesAssumption
  <2> HIDE DEF resolved
  <2> QED
    BY <1>1, <1>2, <2>1, <2>2, <2>3
<1>4. resolved = [i \in 1..N |-> resolved[i]]
  BY <1>1
<1>5. resolved \in Seq(Range(resolved)) /\ Len(resolved) = N /\ \A i \in 1..N : resolved[i] \in Range(resolved)
  <2>0. DOMAIN resolved = 1..N
    BY <1>4
  <2> HIDE DEF resolved
  <2>1. resolved \in [1..N -> Range(resolved)]
    BY <1>4, <2>0 DEF Range
  <2>2. resolved \in Seq(Range(resolved))
    BY <1>1, <2>1, SeqDef
  <2>3. Len(resolved) = N
    BY <1>1, <2>0, <2>2, LenProperties
  <2> QED
    BY <2>0, <2>2, <2>3 DEF Range
<1>6. Kept(resolved, S) = resolved
  <2>1. \A n \in 1..Len(resolved) : resolved[n] \in S
    <3> HIDE DEF resolved
    <3> QED
      BY <1>3, <1>5
  <2> HIDE DEF S, resolved
  <2> QED
    BY <1>5, <2>1, KeptAll
<1>7. Resolved = resolved
  <2>1. Resolved = Kept(resolved, S)
    BY DEF Resolved, ResolveSyncRules, rules
  <2> HIDE DEF S, resolved
  <2> QED
    BY <1>6, <2>1
<1>8. resolved = [i \in 1..N |-> ResolveRule(rules[i], Panels)]
  BY <1>1
<1> QED
  <2> HIDE DEF resolved
  <2> QED
    BY <1>2, <1>7, <1>8 DEF rules, N, R

\* Posts that lead to one of some panels with an action, once each.
LeadsTo(posts, targets, action, to, a) ==
  /\ posts \in Seq(Nat \X Actions)
  /\ action = a /\ to \in targets => Occurs(posts, {<<to, a>>}) = 1
  /\ action # a \/ to \notin targets => Occurs(posts, {<<to, a>>}) = 0

\* What one static rule delivers to a panel: its action, once, if it leads there.
LEMMA RuleCounts ==
  ASSUME NEW rule, rule.action \in Actions, NEW from, NEW to \in 1..Len(Tools), NEW a,
         NEW S, S = IF rule.to = Broadcast THEN Range(Slots) \ {from} ELSE {rule.to},
         NEW ts, ts = StaticTargets(rule, Slots, from),
         NEW posts, posts = [k \in DOMAIN ts |-> <<ts[k], rule.action>>]
  PROVE  LeadsTo(posts, S, rule.action, to, a)
<1> DEFINE M == Len(Tools)
           P == Nat \X Actions
           y == <<to, a>>
<1>1. M \in Nat /\ Slots \in Seq(Nat) /\ Len(Slots) = M /\ \A k \in 1..M : Slots[k] = k
  BY ToolSlots
<1>2. ts \in Seq(Nat) /\ Occurs(ts, {to}) = Occurs(Slots, S \cap {to})
  <2>1. ts = Kept(Slots, S)
    BY DEF StaticTargets
  <2>2. Kept(Slots, S) \in Seq(Nat) /\ Occurs(Kept(Slots, S), {to}) = Occurs(Slots, S \cap {to})
    <3>1. Slots \in Seq(Nat)
      BY <1>1
    <3> DEFINE slots == Slots
               E == Nat
    <3>2. slots \in Seq(E)
      BY <3>1
    <3> HIDE DEF slots, E
    <3>3. Kept(slots, S) \in Seq(E) /\ Occurs(Kept(slots, S), {to}) = Occurs(slots, S \cap {to})
      BY ONLY <3>2, KeptOccurs
    <3> QED
      BY <3>3 DEF slots, E
  <2> QED
    BY <2>1, <2>2
<1>3. DOMAIN ts = 1..Len(ts) /\ Len(ts) \in Nat /\ \A k \in 1..Len(ts) : ts[k] \in Nat
  BY <1>2, LenProperties, ElementOfSeq
<1>4. posts \in Seq(P) /\ Len(posts) = Len(ts) /\ \A k \in 1..Len(ts) : posts[k] = <<ts[k], rule.action>>
  <2> DEFINE L == Len(ts)
  <2>1. posts \in [1..L -> P] /\ \A k \in 1..L : posts[k] = <<ts[k], rule.action>>
    BY <1>3
  <2>2. L \in Nat
    BY <1>3
  <2> HIDE DEF L, P
  <2>3. posts \in Seq(P)
    BY <2>1, <2>2, SeqDef
  <2>4. Len(posts) = L
    BY <2>1, <2>2, <2>3, LenProperties
  <2> QED
    BY <2>1, <2>3, <2>4 DEF L
<1>5. rule.action = a => Places(posts, {y}) = Places(ts, {to})
  <2>1. \A k \in 1..Len(ts) : rule.action = a => (posts[k] \in {y} <=> ts[k] \in {to})
    BY <1>4
  <2> HIDE DEF y
  <2> QED
    BY <1>4, <2>1 DEF Places
<1>6. rule.action # a => Places(posts, {y}) = {}
  <2>1. \A k \in 1..Len(ts) : rule.action # a => posts[k] \notin {y}
    BY <1>4
  <2> HIDE DEF y
  <2> QED
    BY <1>4, <2>1 DEF Places
<1>7. Places(Slots, S \cap {to}) = IF to \in S THEN {to} ELSE {}
  <2>1. \A k \in 1..M : Slots[k] \in S \cap {to} <=> to \in S /\ k = to
    BY <1>1
  <2> QED
    BY <1>1, <2>1 DEF Places
<1>8. Occurs(Slots, S \cap {to}) = IF to \in S THEN 1 ELSE 0
  BY <1>7, FS_EmptySet, FS_Singleton DEF Occurs
<1>9. rule.action = a => Occurs(posts, {y}) = Occurs(ts, {to})
  BY <1>5 DEF Occurs
<1>10. rule.action # a => Occurs(posts, {y}) = 0
  <2> HIDE DEF y
  <2> QED
    BY <1>6, FS_EmptySet DEF Occurs
<1> QED
  BY <1>2, <1>4, <1>8, <1>9, <1>10 DEF LeadsTo

\* As many as some numbers up to a bound, each with one place.
LEMMA HitsCount ==
  ASSUME NEW N \in Nat, NEW H \in SUBSET (1..N), NEW G, G = [i \in 1..N |-> IF i \in H THEN {1} ELSE {}]
  PROVE  IsFiniteSet(H) /\ IsFiniteSet(Tagged(G, N)) /\ Cardinality(Tagged(G, N)) = Cardinality(H)
<1> DEFINE B == Tagged(G, N)
           f == [i \in H |-> <<i, 1>>]
<1>1. IsFiniteSet(H)
  <2>1. IsFiniteSet(1..N)
    BY FS_Interval
  <2> QED
    BY <2>1, FS_Subset
<1>2. B = {<<i, 1>> : i \in H}
  <2>1. \A p : p \in B <=> \E i \in 1..N : \E j \in G[i] : p = <<i, j>>
    BY DEF Tagged
  <2>2. \A i \in 1..N : \A j : j \in G[i] <=> i \in H /\ j = 1
    OBVIOUS
  <2>3. \A p : p \in B <=> \E i \in H : p = <<i, 1>>
    <3> HIDE DEF B
    <3> QED
      BY <2>1, <2>2
  <2> HIDE DEF B
  <2> QED
    BY <2>3
<1>3. f \in [H -> B] /\ (\A i \in H : f[i] = <<i, 1>>) /\ \A p \in B : \E i \in H : f[i] = p
  <2> HIDE DEF B
  <2> QED
    BY <1>2
<1>4. \A i, j \in H : f[i] = f[j] => i = j
  <2>1. \A i, j : <<i, 1>> = <<j, 1>> => i = j
    OBVIOUS
  <2> HIDE DEF f
  <2> QED
    BY <1>3, <2>1
<1>5. ExistsBijection(H, B)
  <2> HIDE DEF f, B
  <2>1. f \in Bijection(H, B)
    BY <1>3, <1>4, Fun_IsBij
  <2> QED
    BY <2>1, Fun_ExistsBij
<1> QED
  <2> HIDE DEF B
  <2>1. IsFiniteSet(B) /\ Cardinality(H) = Cardinality(B)
    BY <1>1, <1>5, FS_Bijection
  <2> QED
    BY <1>1, <2>1 DEF B

\* The static rules deliver an event once each, wherever they lead.
LEMMA StaticCounts ==
  ASSUME ShapedCase, NEW from \in 1..Len(Tools), NEW to \in 1..Len(Tools), NEW event \in Events, NEW a \in Actions,
         NEW posts, posts = StaticPosts(Resolved, Slots, from, event),
         NEW H, H = StaticHits(from, event, to, a)
  PROVE  posts \in Seq(Nat \X Actions) /\ IsFiniteSet(H) /\ Occurs(posts, {<<to, a>>}) = Cardinality(H)
<1> DEFINE N == Len(case.rules)
           rules == Resolved
           P == Nat \X Actions
           T == {<<to, a>>}
           ts(i) == StaticTargets(rules[i], Slots, from)
           S(i) == IF rules[i].to = Broadcast THEN Range(Slots) \ {from} ELSE {rules[i].to}
           Made(i) == [k \in DOMAIN ts(i) |-> <<ts(i)[k], rules[i].action>>]
           ss == [i \in DOMAIN rules |-> IF rules[i].from = from /\ rules[i].event \in {AnyEvent, event} THEN Made(i) ELSE << >>]
           G == [i \in 1..N |-> IF i \in H THEN {1} ELSE {}]
           F == [i \in 1..N |-> Places(ss[i], T)]
<1>1. /\ N \in Nat /\ DOMAIN case.rules = 1..N
      /\ \A i \in 1..N : /\ case.rules[i].from \in References(case.labels) /\ case.rules[i].action \in Actions
  BY DEF ShapedCase
<1>2. /\ rules = [i \in 1..N |-> ResolveRule(case.rules[i], Panels)]
      /\ \A i \in 1..N :
              /\ rules[i].from = PanelNamed(case.rules[i].from) /\ rules[i].event = case.rules[i].event
              /\ rules[i].action = case.rules[i].action
              /\ case.rules[i].to = Everyone => rules[i].to = Broadcast
              /\ case.rules[i].to # Everyone => rules[i].to = PanelNamed(case.rules[i].to) /\ case.rules[i].to \in References(case.labels)
  BY RulesResolved
<1>3. DOMAIN rules = 1..N
  <2> HIDE DEF rules, N
  <2> QED
    BY <1>2
<1>4. posts = FlattenSeq(ss)
  BY DEF StaticPosts
<1> HIDE DEF rules, N
<1>5. H \subseteq 1..N /\ \A i \in 1..N : i \in H <=>
        rules[i].from = from /\ rules[i].event \in {event, AnyEvent} /\ rules[i].action = a /\ to \in S(i)
  <2>1. ASSUME NEW i \in 1..N
        PROVE  (IF case.rules[i].to = Everyone THEN to # from ELSE PanelNamed(case.rules[i].to) = to) <=> to \in S(i)
    <3>1. \A name \in References(case.labels) : PanelNamed(name) # Broadcast
      <4>1. \A name \in References(case.labels) : PanelNamed(name) \in 1..Len(Tools)
        BY NamesResolved
      <4> QED
        BY <4>1 DEF Broadcast
    <3>2. to \in Range(Slots)
      <4>1. Slots \in Seq(Nat) /\ Len(Slots) = Len(Tools) /\ Slots[to] = to
        BY ToolSlots
      <4>2. DOMAIN Slots = 1..Len(Tools)
        BY <4>1, LenProperties
      <4> QED
        BY <4>1, <4>2 DEF Range
    <3>3. CASE case.rules[i].to = Everyone
      BY <1>2, <3>2, <3>3
    <3>4. CASE case.rules[i].to # Everyone
      <4>1. rules[i].to = PanelNamed(case.rules[i].to) /\ rules[i].to # Broadcast
        BY <1>2, <3>1, <3>4
      <4> QED
        BY <3>4, <4>1
    <3> QED
      BY <3>3, <3>4
  <2>2. H = {i \in 1..N :
        /\ case.rules[i].event \in {event, AnyEvent} /\ case.rules[i].action = a
        /\ PanelNamed(case.rules[i].from) = from
        /\ IF case.rules[i].to = Everyone THEN to # from ELSE PanelNamed(case.rules[i].to) = to}
    BY <1>1 DEF StaticHits
  <2>3. ASSUME NEW i \in 1..N
        PROVE  i \in H <=> rules[i].from = from /\ rules[i].event \in {event, AnyEvent} /\ rules[i].action = a /\ to \in S(i)
    <3>1. rules[i].from = PanelNamed(case.rules[i].from) /\ rules[i].event = case.rules[i].event /\ rules[i].action = case.rules[i].action
      BY <1>2
    <3> HIDE DEF S
    <3> QED
      BY <2>1, <2>2, <3>1
  <2> HIDE DEF S
  <2> QED
    BY <2>2, <2>3
<1>6. ASSUME NEW i \in 1..N
      PROVE  /\ ss[i] \in Seq(P)
             /\ i \in H => Occurs(ss[i], T) = 1
             /\ i \notin H => Occurs(ss[i], T) = 0
  <2>1. rules[i].action \in Actions
    BY <1>1, <1>2
  <2>2. CASE rules[i].from = from /\ rules[i].event \in {event, AnyEvent}
    <3> DEFINE made == Made(i)
               s == S(i)
               targets == ts(i)
               rule == rules[i]
    <3>1. ss[i] = made
      BY <1>3, <2>1, <2>2
    <3>2. /\ s = IF rule.to = Broadcast THEN Range(Slots) \ {from} ELSE {rule.to}
          /\ targets = StaticTargets(rule, Slots, from)
          /\ made = [k \in DOMAIN targets |-> <<targets[k], rule.action>>]
          /\ rule.action \in Actions
      BY <2>1
    <3> HIDE DEF made, s, targets, rule
    <3>3. LeadsTo(made, s, rule.action, to, a)
      BY <3>2, RuleCounts
    <3>4. i \in H <=> rule.action = a /\ to \in s
      BY <1>5, <2>2 DEF rule, s
    <3> HIDE DEF ss
    <3> QED
      BY <3>1, <3>3, <3>4 DEF LeadsTo
  <2>3. CASE ~(rules[i].from = from /\ rules[i].event \in {event, AnyEvent})
    <3>1. ss[i] = << >>
      BY <1>3, <2>1, <2>3
    <3>2. i \notin H
      BY <1>5, <2>3
    <3>3. Occurs(<< >>, T) = 0
      <4> HIDE DEF T
      <4> QED
        BY OccursFew
    <3>4. << >> \in Seq(P)
      <4> HIDE DEF P
      <4> QED
        BY EmptySeq
    <3> HIDE DEF ss, T, P
    <3> QED
      BY <3>1, <3>2, <3>3, <3>4
  <2> QED
    BY <2>2, <2>3
<1>7. ss \in Seq(Seq(P)) /\ Len(ss) = N
  <2>1. ss \in [1..N -> Seq(P)]
    <3>1. DOMAIN ss = 1..N /\ ss = [i \in 1..N |-> ss[i]]
      BY <1>3
    <3> HIDE DEF ss, P
    <3> QED
      BY <1>6, <3>1
  <2> HIDE DEF ss, P
  <2>2. ss \in Seq(Seq(P))
    BY <1>1, <2>1, SeqDef
  <2> QED
    BY <1>1, <2>1, <2>2, LenProperties
<1>8. posts \in Seq(P) /\ Occurs(posts, T) = Cardinality(PlacesUpTo(ss, N, T))
  <2> HIDE DEF ss, P, T
  <2> QED
    BY <1>4, <1>7, FlattenOccurs
<1>9. PlacesUpTo(ss, N, T) = Tagged(F, N)
  <2> HIDE DEF ss, T
  <2> QED
    BY DEF PlacesUpTo, Tagged
<1>10. IsFiniteSet(H) /\ Cardinality(Tagged(G, N)) = Cardinality(H)
  <2>1. H \in SUBSET (1..N) /\ G = [i \in 1..N |-> IF i \in H THEN {1} ELSE {}]
    BY <1>5
  <2> HIDE DEF G
  <2> QED
    BY <1>1, <2>1, HitsCount
<1>11. AsMany(F, G, N)
  <2>1. ASSUME NEW i \in 1..N PROVE IsFiniteSet(F[i]) /\ IsFiniteSet(G[i]) /\ Cardinality(F[i]) = Cardinality(G[i])
    <3>1. F[i] = Places(ss[i], T) /\ (i \in H => G[i] = {1}) /\ (i \notin H => G[i] = {})
      OBVIOUS
    <3>2. IsFiniteSet(Places(ss[i], T)) /\ Occurs(ss[i], T) = Cardinality(Places(ss[i], T))
      <4> HIDE DEF ss, P, T
      <4> QED
        BY <1>6, PlacesFinite DEF Occurs
    <3>3. IsFiniteSet({1}) /\ Cardinality({1}) = 1 /\ IsFiniteSet({}) /\ Cardinality({}) = 0
      BY FS_Singleton, FS_EmptySet
    <3> HIDE DEF F, G, ss, T
    <3> QED
      BY <1>6, <3>1, <3>2, <3>3
  <2> HIDE DEF F, G
  <2> QED
    BY <2>1 DEF AsMany
<1>12. Cardinality(Tagged(F, N)) = Cardinality(Tagged(G, N))
  <2> HIDE DEF F, G
  <2> QED
    BY <1>1, <1>11, TaggedUnions
<1> QED
  <2> HIDE DEF F, G, ss
  <2> QED
    BY <1>8, <1>9, <1>10, <1>12

\* An event is delivered as often as expected.
LEMMA RouteExpected ==
  ASSUME ShapedCase, NEW from \in 1..Len(Tools), NEW to \in 1..Len(Tools), NEW event \in Events, NEW a \in Actions,
         NEW r, r = Routed(from, event)
  PROVE  r \in Seq(Nat \X Actions) /\ Occurs(r, {<<to, a>>}) = Expected(from, event, to, a)
<1> DEFINE P == Nat \X Actions
           y == <<to, a>>
           ports == case.ports
           emits == Ports("emits")
           accepts == Ports("accepts")
           posts == StaticPosts(Resolved, Slots, from, event)
           hits == StaticHits(from, event, to, a)
           b == Occurs(posts, {y})
           c == Occurs(r, {y})
           H == {i \in 1..Len(ports) :
                /\ ports[i].event = event /\ event \in emits[from]
                /\ \E n \in 1..Len(Slots) : Slots[n] # from /\ ports[i].action \in accepts[Slots[n]]
                                            /\ <<Slots[n], ports[i].action>> = y}
<1>1. posts \in Seq(P) /\ IsFiniteSet(hits) /\ b = Cardinality(hits)
  <2> HIDE DEF posts, hits
  <2>1. posts = StaticPosts(Resolved, Slots, from, event) /\ hits = StaticHits(from, event, to, a)
    BY DEF posts, hits
  <2> QED
    BY <2>1, StaticCounts
<1>2. /\ Len(Tools) \in Nat /\ Len(Slots) = Len(Tools) /\ \A k \in 1..Len(Tools) : Slots[k] = k
  BY ToolSlots
<1>3. /\ DOMAIN ports = 1..Len(ports) /\ Len(ports) \in Nat
      /\ \A i \in 1..Len(ports) : /\ ports[i].event \in Events /\ ports[i].action \in Actions
                                  /\ ports[i] = [event |-> ports[i].event, action |-> ports[i].action]
  BY DEF ShapedCase
<1> HIDE DEF ports
<1>4. \A i \in 1..Len(ports), n \in 1..Len(Slots) : <<Slots[n], ports[i].action>> \in P
  BY <1>2, <1>3
<1>5. r = Route(Resolved, ports, Slots, emits, accepts, from, event)
  BY DEF Routed, ports
<1>6. r \in Seq(P) /\ Counts(c, b, H, Len(ports))
  <2> DEFINE slots == Slots
             rules == Resolved
  <2>1. /\ StaticPosts(rules, slots, from, event) \in Seq(P) /\ Len(slots) \in Nat /\ Len(ports) \in Nat
        /\ \A i \in 1..Len(ports), n \in 1..Len(slots) : <<slots[n], ports[i].action>> \in P
        /\ H = {i \in 1..Len(ports) :
                /\ ports[i].event = event /\ event \in emits[from]
                /\ \E n \in 1..Len(slots) : slots[n] # from /\ ports[i].action \in accepts[slots[n]]
                                            /\ <<slots[n], ports[i].action>> = y}
        /\ r = Route(rules, ports, slots, emits, accepts, from, event)
    BY <1>1, <1>2, <1>3, <1>4, <1>5
  <2> HIDE DEF slots, rules, P, emits, accepts, H, y
  <2>2. r \in Seq(P) /\ Counts(Occurs(r, {y}), Occurs(StaticPosts(rules, slots, from, event), {y}), H, Len(ports))
    BY ONLY <2>1, RouteCounts
  <2> QED
    BY <2>2 DEF slots, rules
<1>7. H # {} <=> Joined(from, event, to, a)
  <2>1. DOMAIN case.ports = 1..Len(ports)
    BY <1>3 DEF ports
  <2>2. ASSUME NEW i \in 1..Len(ports)
        PROVE  i \in H <=> from # to /\ event \in emits[from] /\ a \in accepts[to] /\ ports[i] = [event |-> event, action |-> a]
    <3>1. (\E n \in 1..Len(Slots) : Slots[n] # from /\ ports[i].action \in accepts[Slots[n]] /\ <<Slots[n], ports[i].action>> = y)
          <=> from # to /\ a \in accepts[to] /\ ports[i].action = a
      <4> HIDE DEF accepts
      <4> QED
        BY <1>2
    <3>2. ports[i] = [event |-> event, action |-> a] <=> ports[i].event = event /\ ports[i].action = a
      BY <1>3
    <3> HIDE DEF emits, accepts, y
    <3> QED
      BY <3>1, <3>2
  <2>3. H \subseteq 1..Len(ports)
    OBVIOUS
  <2>4. Joined(from, event, to, a) <=>
          from # to /\ event \in emits[from] /\ a \in accepts[to] /\ \E i \in 1..Len(ports) : ports[i] = [event |-> event, action |-> a]
    BY <2>1 DEF Joined, ports
  <2> HIDE DEF H, emits, accepts
  <2> QED
    BY <2>2, <2>3, <2>4
<1>8. H \cap (1..Len(ports)) = H
  <2>1. H \subseteq 1..Len(ports)
    OBVIOUS
  <2> HIDE DEF H
  <2> QED
    BY <2>1
<1>9. b = 0 <=> hits = {}
  <2> HIDE DEF hits, b
  <2> QED
    BY <1>1, FS_EmptySet
<1>10. Expected(from, event, to, a) = IF hits # {} THEN b ELSE IF H # {} THEN 1 ELSE 0
  <2> HIDE DEF H
  <2> QED
    BY <1>1, <1>7 DEF Expected
<1> QED
  <2> HIDE DEF H, hits, b, c, y
  <2>1. c = Expected(from, event, to, a)
    BY <1>6, <1>8, <1>9, <1>10 DEF Counts
  <2> QED
    BY <1>6, <2>1 DEF c, y

\* A composition has tools, and no template.
LEMMA ComposedTools == Composed => "tools" \in DOMAIN case /\ "template" \notin DOMAIN case
BY DEF Composed, Compositions

\* RoutesExactly: an event is delivered as often as its rules say, and to nobody else.
LEMMA RoutesMean ==
  ASSUME Composed
  PROVE  RoutesExactly
<1>1. ShapedCase
  BY CompositionsShaped
<1>2. DOMAIN Tools = 1..Len(Tools)
  BY ToolSlots
<1>3. ASSUME NEW from \in 1..Len(Tools), NEW to \in 1..Len(Tools), NEW e \in Events, NEW a \in Actions
      PROVE  Cardinality({n \in DOMAIN Routed(from, e) : Routed(from, e)[n] = <<to, a>>}) = Expected(from, e, to, a)
  <2> DEFINE r == Routed(from, e)
             y == <<to, a>>
  <2>1. r \in Seq(Nat \X Actions) /\ Occurs(r, {y}) = Expected(from, e, to, a)
    <3> HIDE DEF r
    <3>1. r = Routed(from, e)
      BY DEF r
    <3> QED
      BY <1>1, <3>1, RouteExpected
  <2>2. {n \in DOMAIN r : r[n] = y} = Places(r, {y})
    <3>1. DOMAIN r = 1..Len(r)
      <4> HIDE DEF r
      <4> QED
        BY <2>1, LenProperties
    <3> HIDE DEF r, y
    <3> QED
      BY <3>1 DEF Places
  <2> HIDE DEF r
  <2> QED
    BY <2>1, <2>2 DEF Occurs, r
<1> QED
  BY <1>2, <1>3 DEF RoutesExactly

\* An event reaches a panel where a static rule leads, or a port rule joins the two.
LEMMA RouteReaches ==
  ASSUME Composed, NEW from \in 1..Len(Tools), NEW to \in 1..Len(Tools), NEW event \in Events, NEW a \in Actions,
         StaticHits(from, event, to, a) # {} \/ Joined(from, event, to, a)
  PROVE  \E n \in DOMAIN Routed(from, event) : Routed(from, event)[n] = <<to, a>>
<1> DEFINE hits == StaticHits(from, event, to, a)
           found == {n \in DOMAIN Routed(from, event) : Routed(from, event)[n] = <<to, a>>}
<1>1. ShapedCase /\ DOMAIN Tools = 1..Len(Tools)
  BY CompositionsShaped, ToolSlots
<1>2. IsFiniteSet(hits)
  <2> DEFINE posts == StaticPosts(Resolved, Slots, from, event)
  <2> HIDE DEF hits, posts
  <2>1. hits = StaticHits(from, event, to, a) /\ posts = StaticPosts(Resolved, Slots, from, event)
    BY DEF hits, posts
  <2> QED
    BY <1>1, <2>1, StaticCounts
<1>3. Expected(from, event, to, a) # 0
  <2>1. hits # {} => Cardinality(hits) # 0
    <3> HIDE DEF hits
    <3> QED
      BY <1>2, FS_EmptySet
  <2> QED
    BY <2>1 DEF Expected
<1>4. Cardinality(found) = Expected(from, event, to, a)
  <2>1. RoutesExactly /\ "tools" \in DOMAIN case
    BY RoutesMean, ComposedTools
  <2> QED
    BY <1>1, <2>1 DEF RoutesExactly
<1>5. found # {}
  <2> HIDE DEF found
  <2> QED
    BY <1>3, <1>4, FS_EmptySet
<1> QED
  BY <1>5

\* What a valid composition has no issue with.
LEMMA NoIssues ==
  ASSUME NEW tools, NEW rules, NEW ports, ValidComposition(tools, rules, ports)
  PROVE  /\ \A i \in DOMAIN rules : rules[i].to # Everyone => rules[i].to # rules[i].from
         /\ \A i \in DOMAIN rules : {rules[i].from} \cup ({rules[i].to} \ {Everyone}) \subseteq DOMAIN tools
         /\ \A t \in DOMAIN tools : tools[t].emits # Absent =>
              \A e \in tools[t].emits : RoutedEmit(tools, rules, ports, t, e)
         /\ \A t \in DOMAIN tools : tools[t].accepts # Absent =>
              \A a \in tools[t].accepts : RoutedAccept(tools, rules, ports, t, a)
<1>1. ASSUME NEW i \in DOMAIN rules PROVE rules[i].to # Everyone => rules[i].to # rules[i].from
  <2> DEFINE to == rules[i].to
  <2>1. SUFFICES ASSUME to # Everyone, to = rules[i].from PROVE FALSE
    OBVIOUS
  <2>2. <<"CIRCULAR_SYNC_RULE", i>> \in {<<"CIRCULAR_SYNC_RULE", i>> : x \in {e \in {rules[i].to} : e # Everyone /\ e = rules[i].from}}
    BY <2>1
  <2>3. <<"CIRCULAR_SYNC_RULE", i>> \in StructuralIssues(tools, rules)
    BY <2>2 DEF StructuralIssues
  <2> QED
    BY <2>3 DEF ValidComposition
<1>2. ASSUME NEW t \in DOMAIN tools, tools[t].emits # Absent, NEW e \in tools[t].emits
      PROVE  RoutedEmit(tools, rules, ports, t, e)
  <2> DEFINE issue == <<"ORPHAN_EMIT", t, e>>
             unrouted == {x \in IF tools[t].emits = Absent THEN {} ELSE tools[t].emits : ~RoutedEmit(tools, rules, ports, t, x)}
             issues == {<<"ORPHAN_EMIT", t, x>> : x \in unrouted}
  <2>1. SUFFICES ASSUME ~RoutedEmit(tools, rules, ports, t, e) PROVE FALSE
    OBVIOUS
  <2>2. e \in unrouted
    BY <1>2, <2>1
  <2>3. issue \in issues
    <3> HIDE DEF unrouted
    <3> QED
      BY <2>2
  <2>4. issue \in OrphanIssues(tools, rules, ports)
    <3> HIDE DEF issue
    <3> QED
      BY <2>3 DEF OrphanIssues
  <2> QED
    BY <2>4 DEF ValidComposition
<1>3. ASSUME NEW t \in DOMAIN tools, tools[t].accepts # Absent, NEW a \in tools[t].accepts
      PROVE  RoutedAccept(tools, rules, ports, t, a)
  <2> DEFINE issue == <<"ORPHAN_ACCEPT", t, a>>
             unrouted == {x \in IF tools[t].accepts = Absent THEN {} ELSE tools[t].accepts : ~RoutedAccept(tools, rules, ports, t, x)}
             issues == {<<"ORPHAN_ACCEPT", t, x>> : x \in unrouted}
  <2>1. SUFFICES ASSUME ~RoutedAccept(tools, rules, ports, t, a) PROVE FALSE
    OBVIOUS
  <2>2. a \in unrouted
    BY <1>3, <2>1
  <2>3. issue \in issues
    <3> HIDE DEF unrouted
    <3> QED
      BY <2>2
  <2>4. issue \in OrphanIssues(tools, rules, ports)
    <3> HIDE DEF issue
    <3> QED
      BY <2>3 DEF OrphanIssues
  <2> QED
    BY <2>4 DEF ValidComposition
<1>4. ASSUME NEW i \in DOMAIN rules, NEW e \in {rules[i].from} \cup ({rules[i].to} \ {Everyone}) PROVE e \in DOMAIN tools
  <2>1. SUFFICES ASSUME e \notin DOMAIN tools PROVE FALSE
    OBVIOUS
  <2>2. <<"ORPHAN_SYNC_REFERENCE", i>> \in
          {<<"ORPHAN_SYNC_REFERENCE", i>> : x \in {y \in {rules[i].from} \cup ({rules[i].to} \ {Everyone}) : y \notin DOMAIN tools}}
    BY <2>1
  <2>3. <<"ORPHAN_SYNC_REFERENCE", i>> \in StructuralIssues(tools, rules)
    BY <2>2 DEF StructuralIssues
  <2> QED
    BY <2>3 DEF ValidComposition
<1> QED
  BY <1>1, <1>2, <1>3, <1>4

\* What the panel of a tool is declared to emit and accept.
LEMMA PortsDeclared ==
  ASSUME ShapedCase, NEW t \in Range(Tools)
  PROVE  /\ \A e : e \in Ports("emits")[SlotOf(t)] <=> case.tools[t].emits # Absent /\ e \in case.tools[t].emits
         /\ \A a : a \in Ports("accepts")[SlotOf(t)] <=> case.tools[t].accepts # Absent /\ a \in case.tools[t].accepts
         /\ Ports("emits")[SlotOf(t)] \subseteq Events /\ Ports("accepts")[SlotOf(t)] \subseteq Actions
<1>1. SlotOf(t) \in DOMAIN Tools /\ Tools[SlotOf(t)] = t
  BY ToolSlots
<1>2. /\ case.tools[t].emits \in {Absent, {}, Events} /\ case.tools[t].accepts \in {Absent, {}, Actions}
  BY DEF ShapedCase
<1>3. /\ Ports("emits")[SlotOf(t)] = IF case.tools[t].emits = Absent THEN {} ELSE case.tools[t].emits
      /\ Ports("accepts")[SlotOf(t)] = IF case.tools[t].accepts = Absent THEN {} ELSE case.tools[t].accepts
  <2> DEFINE s == SlotOf(t)
  <2>1. s \in DOMAIN Tools /\ Tools[s] = t
    BY <1>1
  <2> HIDE DEF s
  <2>2. /\ Ports("emits")[s] = IF case.tools[t].emits = Absent THEN {} ELSE case.tools[t].emits
        /\ Ports("accepts")[s] = IF case.tools[t].accepts = Absent THEN {} ELSE case.tools[t].accepts
    BY <2>1 DEF Ports
  <2> QED
    BY <2>2 DEF s
<1> QED
  BY <1>2, <1>3

\* ValidMeansRouted: what a valid composition declares is routed.
LEMMA ValidRouted ==
  ASSUME Composed
  PROVE  ValidMeansRouted
<1> DEFINE tools == case.tools
           rules == case.rules
           ports == case.ports
           M == Len(Tools)
<1> SUFFICES ASSUME Unshadowed, ValidComposition(tools, rules, ports), NEW k \in DOMAIN Tools
             PROVE  /\ \A e \in Ports("emits")[k] : Routed(k, e) # << >>
                    /\ \A a \in Ports("accepts")[k] :
                         \E from \in DOMAIN Tools, e \in Events : <<k, a>> \in Range(Routed(from, e))
  BY DEF ValidMeansRouted
<1> DEFINE t == Tools[k]
<1>1. ShapedCase
  BY CompositionsShaped
<1>2. /\ DOMAIN Tools = 1..M /\ k \in 1..M /\ t \in Range(Tools) /\ SlotOf(t) = k
      /\ \A u \in Range(Tools) : SlotOf(u) \in 1..M /\ Tools[SlotOf(u)] = u
      /\ \A j \in 1..M : Tools[j] \in Range(Tools) /\ SlotOf(Tools[j]) = j
  BY ToolSlots
<1>3. /\ DOMAIN tools = Range(Tools) /\ DOMAIN rules = 1..Len(rules) /\ DOMAIN ports = 1..Len(ports)
      /\ \A i \in DOMAIN rules : rules[i].event \in Events \cup {AnyEvent} /\ rules[i].action \in Actions
      /\ \A i \in DOMAIN ports : /\ ports[i].event \in Events /\ ports[i].action \in Actions
                                 /\ ports[i] = [event |-> ports[i].event, action |-> ports[i].action]
  BY <1>1 DEF ShapedCase
<1>4. /\ \A i \in DOMAIN rules : rules[i].to # Everyone => rules[i].to # rules[i].from
      /\ \A i \in DOMAIN rules : {rules[i].from} \cup ({rules[i].to} \ {Everyone}) \subseteq DOMAIN tools
      /\ \A u \in DOMAIN tools : tools[u].emits # Absent => \A e \in tools[u].emits : RoutedEmit(tools, rules, ports, u, e)
      /\ \A u \in DOMAIN tools : tools[u].accepts # Absent => \A a \in tools[u].accepts : RoutedAccept(tools, rules, ports, u, a)
  BY NoIssues
<1>5. /\ \A u \in Range(Tools) : \A e : e \in Ports("emits")[SlotOf(u)] <=> tools[u].emits # Absent /\ e \in tools[u].emits
      /\ \A u \in Range(Tools) : \A a : a \in Ports("accepts")[SlotOf(u)] <=> tools[u].accepts # Absent /\ a \in tools[u].accepts
      /\ \A u \in Range(Tools) : Ports("emits")[SlotOf(u)] \subseteq Events /\ Ports("accepts")[SlotOf(u)] \subseteq Actions
  BY <1>1, PortsDeclared
<1>6. \A from, to \in 1..M, event \in Events, a \in Actions :
        StaticHits(from, event, to, a) # {} \/ Joined(from, event, to, a)
        => \E n \in DOMAIN Routed(from, event) : Routed(from, event)[n] = <<to, a>>
  BY RouteReaches
<1>7. ASSUME NEW i \in DOMAIN rules, NEW to \in 1..M, NEW e \in Events, rules[i].event \in {e, AnyEvent},
             rules[i].from \in Range(Tools), rules[i].to \in Range(Tools) \cup {Everyone},
             IF rules[i].to = Everyone THEN to # SlotOf(rules[i].from) ELSE SlotOf(rules[i].to) = to
      PROVE  StaticHits(SlotOf(rules[i].from), e, to, rules[i].action) # {}
  <2>1. \A u \in Range(Tools) : PanelNamed(u) = SlotOf(u)
    <3>1. DOMAIN case.labels = 1..M
      BY <1>1, <1>2, CasesAssumption DEF ShapedCase
    <3>2. \A j, l \in 1..M : case.labels[j] = Tools[l] => j = l
      BY <1>2 DEF Unshadowed
    <3>3. ASSUME NEW u \in Range(Tools), u \in Range(case.labels) PROVE PanelNamed(u) = SlotOf(u)
      <4>1. PICK j \in 1..M : case.labels[j] = u
        BY <3>1, <3>3 DEF Range
      <4>2. \A l \in 1..M : case.labels[l] = u => l = SlotOf(u)
        BY <1>2, <3>2
      <4>3. PanelNamed(u) = CHOOSE l \in 1..M : case.labels[l] = u
        BY <1>2, <3>3 DEF PanelNamed
      <4> HIDE DEF M
      <4> QED
        BY <4>1, <4>2, <4>3
    <3> QED
      BY <3>3 DEF PanelNamed
  <2>2. i \in StaticHits(SlotOf(rules[i].from), e, to, rules[i].action)
    BY <1>7, <2>1 DEF StaticHits
  <2> QED
    BY <2>2
<1>8. \A i \in DOMAIN ports : \A from, to \in 1..M :
        /\ from # to /\ ports[i].event \in Ports("emits")[from] /\ ports[i].action \in Ports("accepts")[to]
        => Joined(from, ports[i].event, to, ports[i].action)
  <2>1. \A i \in DOMAIN ports : ports[i] = [event |-> ports[i].event, action |-> ports[i].action]
    BY <1>3
  <2>2. \A from, event, to, a : Joined(from, event, to, a) <=>
          /\ from # to /\ event \in Ports("emits")[from] /\ a \in Ports("accepts")[to]
          /\ \E i \in DOMAIN ports : ports[i] = [event |-> event, action |-> a]
    BY DEF Joined
  <2> HIDE DEF ports, M
  <2> QED
    BY <2>1, <2>2
<1> HIDE DEF tools, rules, ports, M, t
<1>9. ASSUME NEW e \in Ports("emits")[k] PROVE Routed(k, e) # << >>
  <2>1. tools[t].emits # Absent /\ e \in tools[t].emits /\ e \in Events
    BY <1>2, <1>5
  <2>2. RoutedEmit(tools, rules, ports, t, e)
    BY <1>2, <1>3, <1>4, <2>1
  <2>3. \E to \in 1..M, a \in Actions : StaticHits(k, e, to, a) # {} \/ Joined(k, e, to, a)
    <3>1. CASE \E i \in DOMAIN rules : rules[i].from = t /\ rules[i].event = e
      <4>1. PICK i \in DOMAIN rules : rules[i].from = t /\ rules[i].event = e
        BY <3>1
      <4>0. rules[i].from \in Range(Tools) /\ rules[i].to \in Range(Tools) \cup {Everyone}
        BY <1>2, <1>3, <1>4, <4>1
      <4>2. CASE rules[i].to = Everyone
        <5>1. PICK to \in 1..M : to # k
          <6>1. 1 \in 1..M /\ 2 \in 1..M
            BY CasesAssumption, LenProperties DEF M
          <6> QED
            BY <6>1
        <5>2. StaticHits(k, e, to, rules[i].action) # {}
          BY <1>2, <1>7, <2>1, <4>0, <4>1, <4>2, <5>1
        <5> QED
          BY <1>3, <4>1, <5>2
      <4>3. CASE rules[i].to # Everyone
        <5>1. rules[i].to \in Range(Tools)
          BY <4>0, <4>3
        <5>2. SlotOf(rules[i].to) \in 1..M
          BY <1>2, <5>1
        <5>3. StaticHits(k, e, SlotOf(rules[i].to), rules[i].action) # {}
          BY <1>2, <1>7, <2>1, <4>0, <4>1, <4>3, <5>2
        <5> QED
          BY <1>3, <4>1, <5>2, <5>3
      <4> QED
        BY <4>2, <4>3
    <3>2. CASE \E i \in DOMAIN ports : /\ ports[i].event = e /\ t \in Emitters(tools, ports[i])
                                       /\ HasPeer(t, Acceptors(tools, ports[i]))
      <4>1. PICK i \in DOMAIN ports : /\ ports[i].event = e /\ t \in Emitters(tools, ports[i])
                                      /\ HasPeer(t, Acceptors(tools, ports[i]))
        BY <3>2
      <4>2. PICK u \in Acceptors(tools, ports[i]) : u # t
        BY <4>1 DEF HasPeer
      <4>3. u \in Range(Tools) /\ tools[u].accepts # Absent /\ ports[i].action \in tools[u].accepts
        BY <1>3, <4>2 DEF Acceptors, Declares
      <4>4. SlotOf(u) \in 1..M /\ SlotOf(u) # k /\ ports[i].action \in Ports("accepts")[SlotOf(u)]
        BY <1>2, <1>5, <4>2, <4>3 DEF t
      <4>5. Joined(k, e, SlotOf(u), ports[i].action)
        BY <1>2, <1>8, <4>1, <4>4
      <4>6. ports[i].event \in Events /\ ports[i].action \in Actions
        BY <1>3, <4>1
      <4> QED
        BY <4>1, <4>4, <4>5, <4>6
    <3> QED
      BY <2>2, <3>1, <3>2 DEF RoutedEmit
  <2>4. \E n \in DOMAIN Routed(k, e) : TRUE
    BY <1>2, <1>6, <2>1, <2>3
  <2> QED
    <3> DEFINE r == Routed(k, e)
    <3> HIDE DEF r
    <3>1. \E n \in DOMAIN r : TRUE
      BY <2>4 DEF r
    <3>2. r # << >>
      BY <3>1
    <3> QED
      BY <3>2 DEF r
<1>10. ASSUME NEW a \in Ports("accepts")[k]
       PROVE  \E from \in DOMAIN Tools, e \in Events : <<k, a>> \in Range(Routed(from, e))
  <2>1. tools[t].accepts # Absent /\ a \in tools[t].accepts /\ a \in Actions
    BY <1>2, <1>5
  <2>2. RoutedAccept(tools, rules, ports, t, a)
    BY <1>2, <1>3, <1>4, <2>1
  <2>3. \E from \in 1..M, e \in Events : StaticHits(from, e, k, a) # {} \/ Joined(from, e, k, a)
    <3>1. CASE \E i \in DOMAIN rules : /\ rules[i].action = a
                                       /\ rules[i].to = t \/ (rules[i].to = Everyone /\ rules[i].from # t)
      <4>1. PICK i \in DOMAIN rules : /\ rules[i].action = a
                                      /\ rules[i].to = t \/ (rules[i].to = Everyone /\ rules[i].from # t)
        BY <3>1
      <4>0. t # Everyone
        BY <1>2, CasesAssumption
      <4>2. /\ rules[i].from \in Range(Tools) /\ rules[i].to \in Range(Tools) \cup {Everyone}
            /\ SlotOf(rules[i].from) \in 1..M
        BY <1>2, <1>3, <1>4, <4>0, <4>1
      <4>3. rules[i].to = Everyone => k # SlotOf(rules[i].from)
        BY <1>2, <4>0, <4>1, <4>2 DEF t
      <4>4. PICK e \in Events : rules[i].event \in {e, AnyEvent}
        BY <1>3, <4>1, CasesAssumption
      <4>5. StaticHits(SlotOf(rules[i].from), e, k, a) # {}
        BY <1>2, <1>7, <4>0, <4>1, <4>2, <4>3, <4>4
      <4> QED
        BY <4>2, <4>5
    <3>2. CASE \E i \in DOMAIN ports : /\ ports[i].action = a /\ t \in Acceptors(tools, ports[i])
                                       /\ HasPeer(t, Emitters(tools, ports[i]))
      <4>1. PICK i \in DOMAIN ports : /\ ports[i].action = a /\ t \in Acceptors(tools, ports[i])
                                      /\ HasPeer(t, Emitters(tools, ports[i]))
        BY <3>2
      <4>2. PICK u \in Emitters(tools, ports[i]) : u # t
        BY <4>1 DEF HasPeer
      <4>3. u \in Range(Tools) /\ tools[u].emits # Absent /\ ports[i].event \in tools[u].emits
        BY <1>3, <4>2 DEF Emitters, Declares
      <4>4. SlotOf(u) \in 1..M /\ SlotOf(u) # k /\ ports[i].event \in Ports("emits")[SlotOf(u)]
        BY <1>2, <1>5, <4>2, <4>3 DEF t
      <4>5. Joined(SlotOf(u), ports[i].event, k, a)
        BY <1>2, <1>8, <4>1, <4>4
      <4>6. ports[i].event \in Events /\ ports[i].action \in Actions
        BY <1>3, <4>1
      <4> QED
        BY <4>1, <4>4, <4>5, <4>6
    <3> QED
      BY <2>2, <3>1, <3>2 DEF RoutedAccept
  <2>4. PICK from \in 1..M, e \in Events : StaticHits(from, e, k, a) # {} \/ Joined(from, e, k, a)
    BY <2>3
  <2>5. \E n \in DOMAIN Routed(from, e) : Routed(from, e)[n] = <<k, a>>
    BY <1>2, <1>6, <2>1, <2>4
  <2>6. <<k, a>> \in Range(Routed(from, e))
    BY <2>5 DEF Range
  <2> QED
    BY <1>2, <2>4, <2>6
<1> QED
  BY <1>9, <1>10

-----------------------------------------------------------------------------
(* The properties of the composed specification.                            *)

\* What is decided once and stays: a case, a connection, a panel.
Decided ==
  /\ case = << >> \/ case \in [template : Templates] \/ Composed
  /\ LinkInit \/ link = Idle
  /\ PanelShape \/ panelCase = Idle

\* A behaviour begins with its cases chosen, and its calls not yet settled.
LEMMA DecidedAtStart == MCInit => Decided /\ SlotsInv
BY SlotsStart, PanelsShaped DEF MCInit, CasesInit, Decided

\* No step takes a decision back.
LEMMA DecidedStays == Decided /\ SlotsInv /\ [MCNext]_<<others, part>> => Decided' /\ SlotsInv'
<1> SUFFICES ASSUME Decided, SlotsInv, [MCNext]_<<others, part>> PROVE Decided' /\ SlotsInv'
  OBVIOUS
<1>1. UNCHANGED <<case, link, panelCase>> /\ [ClusterNext]_clusterVars
  <2>1. MCNext => UNCHANGED <<case, link, panelCase>> /\ [ClusterNext]_clusterVars
    BY DEF MCNext
  <2>2. UNCHANGED <<others, part>> => UNCHANGED <<case, link, panelCase>> /\ [ClusterNext]_clusterVars
    BY DEF others
  <2> QED
    BY <2>1, <2>2
<1>2. SlotsInv'
  BY <1>1, SlotsStep
<1>3. Decided'
  <2>1. case' = case /\ link' = link /\ panelCase' = panelCase
    BY <1>1
  <2>2. (case = << >> \/ case \in [template : Templates] \/ Composed)'
    BY ONLY Decided, <2>1 DEF Decided, Composed
  <2>3. (LinkInit \/ link = Idle)'
    BY ONLY Decided, <2>1 DEF Decided, LinkInit
  <2>4. (PanelShape \/ panelCase = Idle)'
    BY ONLY Decided, <2>1 DEF Decided, PanelShape
  <2> QED
    BY <2>2, <2>3, <2>4 DEF Decided
<1> QED
  BY <1>2, <1>3

\* RulesMean: names, routes and templates mean what was written, and the panels of a
\* composition stand in the order of its template.
THEOREM RulesHold == MCSpec => []RulesMean
<1>1. MCInit => Decided /\ SlotsInv
  BY DecidedAtStart
<1>2. Decided /\ SlotsInv /\ [MCNext]_<<others, part>> => Decided' /\ SlotsInv'
  BY DecidedStays
<1>3. Decided /\ SlotsInv => RulesMean
  <2> SUFFICES ASSUME Decided, SlotsInv PROVE RulesMean
    OBVIOUS
  <2>1. CASE case = << >>
    <3>1. StableReference /\ ValidMeansRouted /\ RoutesExactly
      BY <2>1 DEF StableReference, ValidMeansRouted, RoutesExactly
    <3> QED
      BY <3>1, SlotsHold DEF RulesMean
  <2>2. CASE case \in [template : Templates]
    <3>1. "tools" \notin DOMAIN case
      BY <2>2
    <3>2. ValidMeansRouted /\ RoutesExactly
      BY <3>1 DEF ValidMeansRouted, RoutesExactly
    <3> QED
      BY <2>2, <3>2, TemplateMeans, SlotsHold DEF RulesMean
  <2>3. CASE Composed
    <3>1. "template" \notin DOMAIN case
      BY <2>3, ComposedTools
    <3>2. StableReference
      BY <3>1 DEF StableReference
    <3> QED
      BY <2>3, <3>2, RoutesMean, ValidRouted, SlotsHold DEF RulesMean
  <2> QED
    BY <2>1, <2>2, <2>3 DEF Decided
<1> QED
  BY <1>1, <1>2, <1>3, PTL DEF MCSpec

\* ConnectionsTrue: a server is spoken to in its protocol and understood, and a panel is
\* confined to its own part of it.
THEOREM ConnectionsHold == MCSpec => []ConnectionsTrue
<1>1. MCInit => Decided /\ SlotsInv
  BY DecidedAtStart
<1>2. Decided /\ SlotsInv /\ [MCNext]_<<others, part>> => Decided' /\ SlotsInv'
  BY DecidedStays
<1>3. Decided => ConnectionsTrue
  <2> SUFFICES ASSUME Decided PROVE ConnectionsTrue
    OBVIOUS
  <2>1. (LinkInit \/ link = [case |-> "none"]) /\ (PanelShape \/ panelCase = [case |-> "none"])
    BY DEF Decided, Idle
  <2> QED
    BY <2>1, LinkMeans, PanelMeans DEF ConnectionsTrue
<1> QED
  BY <1>1, <1>2, <1>3, PTL DEF MCSpec
=============================================================================
