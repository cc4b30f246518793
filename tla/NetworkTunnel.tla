--------------------------- MODULE NetworkTunnel ---------------------------
(* The outbound tunnel of packages/bridge/src/adapters/network: the relay's    *)
(* registry of agents for one (tenant, target) key, the socket each agent      *)
(* registers through, the WebSockets between, and one agent's client with its  *)
(* reconnect loop and its running tool handlers.  Connections are numbered in  *)
(* the order the client opens them; a handler of the event loop and the        *)
(* microtasks it queues are one step.                                          *)
EXTENDS Naturals, Sequences, FiniteSets, SequencesExt

CONSTANTS
  Calls,        \* tool calls made through the relay
  MaxConns,     \* bound: WebSockets the client opens
  MaxRestarts,  \* bound: start() after a stop()
  Strategy,     \* concurrencyStrategy: "reject" or "parallel"
  Direct,       \* an agent registered in process, whose send heeds no signal
  None

Conns == 1..MaxConns

ASSUME TunnelAssumption ==
  /\ MaxConns \in Nat /\ MaxRestarts \in Nat /\ IsFiniteSet(Calls)
  /\ Strategy \in {"reject", "parallel"}
  /\ Direct \notin Conns /\ None \notin Conns /\ None # Direct

VARIABLES
  agent,     \* the registration the relay holds for the key
  inFlight,  \* inFlightAgents.get(key)
  call,      \* per call: outcome, registration it went to, slot held, send unsettled
  conn,      \* per WebSocket: both ends, hello handshake, why it ends
  up, down,  \* frames in flight: agent to relay, relay to agent
  client,    \* stopped, reconnect loop, the transport's socket
  handler,   \* per call: the agent's handler, which an abort makes mute
  restarts,
  latest     \* history: the registration made last and not removed by the host

tunnelVars == <<agent, inFlight, call, conn, up, down, client, handler, restarts, latest>>

\* A connection both ends are done with; its hello may still be with the authorizer.
Gone(x) == [x EXCEPT !.client = "closed", !.server = "closed", !.ends = "drop", !.terminal = FALSE,
                     !.by = "start", !.hello = IF @ = "asking" THEN @ ELSE "no"]
Opened == {c \in Conns : conn[c].client # "none"}
Ended(k) == call[k].state \notin {"new", "open"}

TunnelInit ==
  /\ agent = None /\ inFlight = 0 /\ latest = None /\ restarts = 0
  /\ call = [k \in Calls |-> [state |-> "new", via |-> None, busy |-> FALSE, unsettled |-> FALSE]]
  /\ conn = [c \in Conns |-> [client |-> "none", server |-> "none", hello |-> "no",
                              ends |-> "no", terminal |-> FALSE, by |-> "start"]]
  /\ up = [c \in Conns |-> <<>>] /\ down = [c \in Conns |-> <<>>]
  /\ client = [stopped |-> TRUE, loop |-> "idle", socket |-> None, failed |-> FALSE]
  /\ handler = [k \in Calls |-> "none"]

-----------------------------------------------------------------------------
(* The relay's side. *)

\* The slots the calls K hold: each gives its slot back once.
Slots(K) == Cardinality({k \in K : call[k].busy})

\* Calls K end (those still open, with outcome `how`) and give up the slot they
\* hold; a send over a socket settles with them, a direct agent's does not.
EndCalls(K, how) ==
  /\ call' = [k \in Calls |->
       IF k \notin K THEN call[k]
       ELSE [call[k] EXCEPT !.state = IF @ = "open" THEN how ELSE @,
                            !.busy = FALSE,
                            !.unsettled = @ /\ call[k].via = Direct]]
  /\ inFlight' = inFlight - Slots(K)

\* Cancellation frames for calls K over socket c, if it still takes frames.
Cancellations(c, K) ==
  IF conn[c].server = "open" THEN SetToSeq({<<"cancel", k>> : k \in K}) ELSE <<>>

WaitersOf(c) == {k \in Calls : call[k].via = c /\ call[k].unsettled}
\* state.pending of the registration r: its calls that hold their slot.
PendingOf(r) == {k \in Calls : call[k].via = r /\ call[k].busy}

CloseByServer(c, terminal) ==
  IF conn[c].server = "open"
  THEN [conn[c] EXCEPT !.server = "closing",
                       !.ends = IF @ = "no" THEN "server" ELSE @,
                       !.terminal = IF conn[c].ends = "no" THEN terminal ELSE @]
  ELSE conn[c]

\* sendToolCall(): the frame is sent, or lost in a socket that is closing.
FrameSent(k) ==
  IF agent \in Conns /\ conn[agent].server = "open"
  THEN [down EXCEPT ![agent] = Append(@, <<"call", k>>)] ELSE down

CallTool(k) ==
  /\ call[k].state = "new"
  /\ IF agent = None \/ (Strategy = "reject" /\ inFlight > 0)
     THEN /\ call' = [call EXCEPT ![k].state = "error"]
          /\ UNCHANGED <<inFlight, down>>
     ELSE \/ /\ call' = [call EXCEPT ![k] = [state |-> "open", via |-> agent, busy |-> TRUE, unsettled |-> TRUE]]
             /\ inFlight' = inFlight + 1
             /\ down' = FrameSent(k)
          \/ \* send throws
             /\ agent \in Conns => conn[agent].server # "open"
             /\ call' = [call EXCEPT ![k] = [@ EXCEPT !.state = "error"]]
             /\ UNCHANGED <<inFlight, down>>
  /\ UNCHANGED <<agent, conn, up, client, handler, restarts, latest>>

\* The relay's timer: the signal is aborted, which settles a send over a socket
\* and cancels the agent's work; a direct agent stays busy until it settles.
RequestTimeout(k) ==
  /\ call[k].state = "open"
  /\ IF call[k].via = Direct
     THEN /\ call' = [call EXCEPT ![k].state = "error"]
          /\ UNCHANGED <<inFlight, down>>
     ELSE /\ EndCalls({k}, "error")
          /\ down' = [down EXCEPT ![call[k].via] = @ \o Cancellations(call[k].via, {k})]
  /\ UNCHANGED <<agent, conn, up, client, handler, restarts, latest>>

DirectSettles(k) ==
  /\ call[k].via = Direct /\ call[k].unsettled
  /\ call' = [call EXCEPT ![k] = [call[k] EXCEPT !.state = IF @ = "open" THEN "result" ELSE @,
                                          !.busy = FALSE, !.unsettled = FALSE]]
  /\ inFlight' = inFlight - Slots({k})
  /\ UNCHANGED <<agent, conn, up, down, client, handler, restarts, latest>>

RegisterDirect ==
  /\ agent # Direct
  /\ agent' = Direct /\ latest' = Direct
  /\ UNCHANGED <<inFlight, call, conn, up, down, client, handler, restarts>>

\* unregisterAgent(tenant, target) by the host.
UnregisterByHost ==
  /\ agent # None
  /\ agent' = None /\ latest' = None
  /\ EndCalls(PendingOf(agent), "error")
  /\ down' = IF agent \in Conns
             THEN [down EXCEPT ![agent] = @ \o Cancellations(agent, PendingOf(agent))] ELSE down
  /\ UNCHANGED <<conn, up, client, handler, restarts>>

-----------------------------------------------------------------------------
(* The relay's end of a socket. *)

Receives(c, kind) == conn[c].server = "open" /\ up[c] # <<>> /\ Head(up[c])[1] = kind

\* agent.hello: refused on a registered or registering socket and for another
\* tenant, protocol or shape; else the authorizer is asked.
ServerHello(c) ==
  /\ Receives(c, "hello")
  /\ up' = [up EXCEPT ![c] = Tail(@)]
  /\ \/ /\ conn[c].hello # "no"
        /\ conn' = [conn EXCEPT ![c] = CloseByServer(c, FALSE)]
     \/ /\ conn[c].hello = "no"
        /\ conn' = [conn EXCEPT ![c].hello = "asking"]
     \/ conn' = [conn EXCEPT ![c] = CloseByServer(c, TRUE)]
  /\ UNCHANGED <<agent, inFlight, call, down, client, handler, restarts, latest>>

\* The authorizer refuses, with a code the client takes as final or not.
HelloRefused(c) ==
  /\ conn[c].hello = "asking"
  /\ \E terminal \in BOOLEAN :
       conn' = [conn EXCEPT ![c] = [CloseByServer(c, terminal) EXCEPT !.hello = "no"]]
  /\ UNCHANGED <<agent, inFlight, call, up, down, client, handler, restarts, latest>>

\* The authorizer accepts: unless the socket closed meanwhile it is registered,
\* in place of the agent the relay held; calls pending on that one stay pending.
HelloAccepted(c) ==
  /\ conn[c].hello = "asking"
  /\ IF conn[c].server = "closed"
     THEN /\ conn' = [conn EXCEPT ![c].hello = "no"]
          /\ UNCHANGED <<agent, latest>>
     ELSE /\ conn' = [conn EXCEPT ![c].hello = "registered"]
          /\ agent' = c /\ latest' = c
  /\ UNCHANGED <<inFlight, call, up, down, client, handler, restarts>>

HelloTimeout(c) ==
  /\ conn[c].server = "open" /\ conn[c].hello # "registered"
  /\ conn' = [conn EXCEPT ![c] = CloseByServer(c, TRUE)]
  /\ UNCHANGED <<agent, inFlight, call, up, down, client, handler, restarts, latest>>

\* tool.result or error: settles its waiter on this socket, if there is one.
ServerResult(c) ==
  /\ Receives(c, "result")
  /\ up' = [up EXCEPT ![c] = Tail(@)]
  /\ LET k == Head(up[c])[2] IN
     EndCalls(IF k \in WaitersOf(c) THEN {k} ELSE {}, "result")
  /\ UNCHANGED <<agent, conn, down, client, handler, restarts, latest>>

\* Faulty: the registration is told by its agent alone, not by its id.
HoldsAnyOf(c) == conn[c].hello = "registered" /\ agent \in Conns

\* What unregisterAgent with a registration id compares.
Holds(c) == conn[c].hello = "registered" /\ agent = c

\* onclose and onerror: this socket's registration goes if the relay still holds
\* it, and every call waiting on the socket is rejected.
ServerClosed(c) ==
  /\ conn[c].server \in {"open", "closing"}
  /\ \/ conn[c].ends = "drop"
     \/ conn[c].ends = "client" /\ (up[c] = <<>> \/ conn[c].server = "closing")
     \/ conn[c].ends = "server" /\ conn[c].client = "closed"
  /\ conn' = [conn EXCEPT ![c] = IF @.client = "closed" THEN Gone(@) ELSE [@ EXCEPT !.server = "closed"]]
  /\ IF Holds(c)
     THEN agent' = None
     ELSE UNCHANGED agent
  /\ EndCalls(WaitersOf(c), "error")
  /\ up' = [up EXCEPT ![c] = <<>>]
  /\ UNCHANGED <<down, client, handler, restarts, latest>>

-----------------------------------------------------------------------------
(* The agent's side. *)

NextConn == Cardinality(Opened) + 1
Dial(by) == [conn[NextConn] EXCEPT !.client = "connecting", !.by = by]

Aborted == [k \in Calls |-> IF handler[k] = "running" THEN "over" ELSE handler[k]]
\* scheduleReconnect: nothing while a loop runs or the client is stopped.
Reconnecting(cl) ==
  IF cl.stopped \/ cl.loop # "idle" THEN cl ELSE [cl EXCEPT !.loop = "sleep"]

ClientStart ==
  /\ client.stopped /\ NextConn \in Conns
  /\ Opened # {} => restarts < MaxRestarts
  /\ restarts' = IF Opened = {} THEN 0 ELSE restarts + 1
  /\ client' = [client EXCEPT !.stopped = FALSE, !.failed = FALSE]
  /\ conn' = [conn EXCEPT ![NextConn] = Dial("start")]
  /\ UNCHANGED <<agent, inFlight, call, up, down, handler, latest>>

\* disconnect(): the transport's socket, if any, is closed and forgotten.
CloseByClient ==
  [c \in Conns |-> IF c = client.socket /\ conn[c].client = "open"
                   THEN [conn[c] EXCEPT !.client = "closing", !.ends = IF @ = "no" THEN "client" ELSE @]
                   ELSE conn[c]]

ClientStop ==
  /\ ~client.stopped
  /\ client' = [client EXCEPT !.stopped = TRUE, !.socket = None,
                              !.loop = IF @ = "sleep" THEN "idle" ELSE @]
  /\ handler' = Aborted
  /\ conn' = CloseByClient
  /\ UNCHANGED <<agent, inFlight, call, up, down, restarts, latest>>

\* stop() and start() in one task: a sleeping loop wakes to find the client
\* running again, and dials besides start().
ClientRestart ==
  /\ ~client.stopped /\ restarts < MaxRestarts
  /\ NextConn \in Conns
  /\ client.loop = "sleep" => NextConn + 1 \in Conns
  /\ restarts' = restarts + 1
  /\ client' = [client EXCEPT !.socket = None, !.failed = FALSE,
                              !.loop = IF @ = "sleep" THEN "dialling" ELSE @]
  /\ handler' = Aborted
  /\ conn' = [c \in Conns |->
       IF c = NextConn THEN Dial("start")
       ELSE IF c = NextConn + 1 /\ client.loop = "sleep" THEN Dial("loop")
       ELSE CloseByClient[c]]
  /\ UNCHANGED <<agent, inFlight, call, up, down, latest>>

LoopWakes ==
  /\ client.loop = "sleep" /\ NextConn \in Conns
  /\ client' = [client EXCEPT !.loop = "dialling"]
  /\ conn' = [conn EXCEPT ![NextConn] = Dial("loop")]
  /\ UNCHANGED <<agent, inFlight, call, up, down, handler, restarts, latest>>

\* A loop whose attempt succeeded is over.
LoopDone(c, cl) == IF conn[c].by = "loop" THEN [cl EXCEPT !.loop = "idle"] ELSE cl

\* onopen: the socket becomes the transport's; unless stopped meanwhile the hello
\* is sent over the transport, and a loop that dialled is done.
SocketOpens(c) ==
  /\ conn[c].client = "connecting"
  /\ conn' = [conn EXCEPT ![c].client = "open", ![c].server = "open"]
  /\ client' = LoopDone(c, [client EXCEPT !.socket = c])
  /\ up' = IF client.stopped THEN up ELSE [up EXCEPT ![c] = Append(@, <<"hello", None>>)]
  /\ UNCHANGED <<agent, inFlight, call, down, handler, restarts, latest>>

\* The attempt fails: onerror and onclose, or no credentials (no event at all).
\* start() rejects; a loop goes on unless it was stopped.
ConnectFails(c) ==
  /\ conn[c].client = "connecting"
  /\ conn' = [conn EXCEPT ![c] = Gone(@)]
  /\ LET again == IF conn[c].by = "loop" /\ client.stopped THEN [client EXCEPT !.loop = "idle"]
                  ELSE IF conn[c].by = "loop" THEN [client EXCEPT !.loop = "sleep"]
                  ELSE client
     IN \/ /\ client' = Reconnecting(again)
           /\ handler' = Aborted
        \/ /\ client' = [again EXCEPT !.failed = @ \/ conn[c].by = "start"]
           /\ UNCHANGED handler
  /\ UNCHANGED <<agent, inFlight, call, up, down, restarts, latest>>

\* onclose: every pending handler is aborted, whichever socket its call came by.
ClientClosed(c) ==
  /\ conn[c].client \in {"open", "closing"}
  /\ \/ conn[c].ends = "drop"
     \/ conn[c].ends = "server" /\ (down[c] = <<>> \/ conn[c].client = "closing")
     \/ conn[c].ends = "client" /\ conn[c].server = "closed"
  /\ conn' = [conn EXCEPT ![c] = IF @.server = "closed" THEN Gone(@) ELSE [@ EXCEPT !.client = "closed"]]
  /\ down' = [down EXCEPT ![c] = <<>>]
  /\ handler' = Aborted
  /\ LET cl == IF client.socket = c THEN [client EXCEPT !.socket = None] ELSE client IN
     client' = IF cl.stopped THEN cl
               ELSE IF conn[c].ends = "server" /\ conn[c].terminal THEN [cl EXCEPT !.stopped = TRUE]
               ELSE Reconnecting(cl)
  /\ UNCHANGED <<agent, inFlight, call, up, restarts, latest>>

ClientReceives(c) ==
  /\ conn[c].client = "open" /\ down[c] # <<>>
  /\ down' = [down EXCEPT ![c] = Tail(@)]
  /\ LET k == Head(down[c])[2] IN
     handler' = [handler EXCEPT ![k] =
       IF Head(down[c])[1] = "call" THEN "running"
       ELSE IF @ = "running" THEN "over" ELSE @]
  /\ UNCHANGED <<agent, inFlight, call, conn, up, client, restarts, latest>>

\* The handler returns or throws: unless aborted its answer goes out over the
\* transport's socket of that moment, or nowhere when there is none.
HandlerReturns(k) ==
  /\ handler[k] = "running"
  /\ handler' = [handler EXCEPT ![k] = "over"]
  /\ up' = IF client.socket # None /\ conn[client.socket].client = "open"
           THEN [up EXCEPT ![client.socket] = Append(@, <<"result", k>>)] ELSE up
  /\ UNCHANGED <<agent, inFlight, call, conn, down, client, restarts, latest>>

\* The network drops a connection: frames in flight are lost, each end learns of
\* it in its own time.
Drop(c) ==
  /\ conn[c].client \in {"open", "closing"} /\ conn[c].server \in {"open", "closing"}
  /\ conn[c].ends # "drop"
  /\ conn' = [conn EXCEPT ![c].ends = "drop"]
  /\ up' = [up EXCEPT ![c] = <<>>] /\ down' = [down EXCEPT ![c] = <<>>]
  /\ UNCHANGED <<agent, inFlight, call, client, handler, restarts, latest>>

-----------------------------------------------------------------------------
TunnelNext ==
  \/ RegisterDirect \/ UnregisterByHost \/ ClientStart \/ ClientStop \/ ClientRestart \/ LoopWakes
  \/ \E k \in Calls : CallTool(k) \/ RequestTimeout(k) \/ DirectSettles(k) \/ HandlerReturns(k)
  \/ \E c \in Conns :
       \/ ServerHello(c) \/ HelloRefused(c) \/ HelloAccepted(c) \/ HelloTimeout(c)
       \/ ServerResult(c) \/ ServerClosed(c)
       \/ SocketOpens(c) \/ ConnectFails(c) \/ ClientClosed(c) \/ ClientReceives(c) \/ Drop(c)

TunnelSpec == TunnelInit /\ [][TunnelNext]_tunnelVars

-----------------------------------------------------------------------------
(* Properties. *)

\* The relay holds the registration made last, until that one's socket closes or
\* the host removes it: a stale close takes no replacement away, and no closed
\* socket is offered calls (handleAgentHello awaits its authorizer in between).
HoldsLatest ==
  agent = IF latest \in Conns /\ conn[latest].server = "closed" THEN None ELSE latest

\* The slot count is the number of calls holding a slot, at most one under
\* "reject".  A call that ended holds one only while the direct agent it was sent
\* to has not settled, and no open call waits on a socket that has closed, the
\* sockets of replaced registrations included.
CallsAccounted ==
  /\ inFlight = Cardinality({k \in Calls : call[k].busy})
  /\ Strategy = "reject" => inFlight <= 1
  /\ \A k \in Calls :
       /\ call[k].busy => call[k].unsettled /\ (Ended(k) => call[k].via = Direct)
       /\ call[k].state = "open" /\ call[k].via # Direct => conn[call[k].via].server # "closed"

\* An agent works on no call the relay has given up: the cancellation is on its
\* way, or the connection the call came by is coming down.
NoOrphanWork ==
  \A k \in Calls :
    handler[k] = "running" /\ Ended(k) =>
      LET c == call[k].via IN (\E i \in DOMAIN down[c] : down[c][i] = <<"cancel", k>>) \/ conn[c].ends # "no"

\* An agent's client that runs has a socket, an attempt or a sleeping reconnect
\* loop, unless its start() rejected without a socket event.
NeverStranded ==
  ~client.stopped =>
    \/ client.loop = "sleep" \/ client.socket # None \/ client.failed
    \/ \E c \in Conns : conn[c].client = "connecting"

\* The relay and the agent agree on who serves the key and on what: the newest
\* registration, the calls under way and the slots they hold, no work for a call
\* that was given up, and a client that always has something to connect with
\* (relay.ts, network agent and its transport).
TunnelSound == HoldsLatest /\ CallsAccounted /\ NoOrphanWork /\ NeverStranded
=============================================================================
