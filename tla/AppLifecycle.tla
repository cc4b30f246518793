---------------------------- MODULE AppLifecycle ----------------------------
(***************************************************************************)
(* Starting and stopping an McpApp (packages/platform/src/mcp-app.ts):     *)
(* start(), startHttp() and stop() with their awaits, the task store and   *)
(* the subscription registry they make and dispose, and the tool calls and *)
(* listen requests that are under way meanwhile.                           *)
(*                                                                         *)
(* The store is modelled by its disposal and the tasks it runs, TaskStore  *)
(* has the rest.  Servers are numbered in the order of serve().            *)
(***************************************************************************)
EXTENDS Subscriptions, FiniteSets

CONSTANTS
  Ops,          \* calls of startHttp() and stop() that can be suspended at once
  ToolCalls,    \* tools/call requests whose handler asks for a task
  MaxServers,   \* bound of the model: calls of serve()
  MaxMessages   \* bound of the model: messages on a stream

None == 0
Servers == 1 .. MaxServers

ASSUME AppLifecycleAssumption == {MaxServers, MaxMessages} \subseteq Nat

VARIABLES
  provided,     \* is there an options.auth.provider?  Set with the app
  started, stopping,
  disposed,     \* taskStore.isDisposed
  httpServer,   \* the handle stop() shuts down
  served,       \* calls of serve() so far
  listening,    \* the servers that listen
  mounted,      \* was a handler handed out (embedded mode)?
  stdio,        \* is there a stdioHandle?
  op,           \* where each suspended call is
  call,         \* where each tool call is
  renewed,      \* history: did a start pass its guard since the last stop()?
  overlapped,   \* history: did a call pass its guard while another was suspended?
  failed        \* history: did a stop() fail?

avars == <<started, stopping, disposed, httpServer, served, listening, mounted, stdio,
           op, call, renewed, overlapped, failed, provided>>
lifecycleVars == <<svars, avars>>

Idle == [at |-> "none", server |-> None]

Suspended == {o \in Ops : op[o].at # "none"}

LifecycleInit ==
  /\ SubsInit
  /\ provided \in BOOLEAN
  /\ started = FALSE /\ stopping = FALSE /\ disposed = FALSE
  /\ httpServer = None /\ served = 0 /\ listening = {} /\ mounted = FALSE /\ stdio = FALSE
  /\ op = [o \in Ops |-> Idle]
  /\ call = [t \in ToolCalls |-> "none"]
  /\ renewed = FALSE /\ overlapped = FALSE /\ failed = FALSE

\* prepareForStart(): a disposed store is replaced by a new one.
Prepare ==
  /\ stopping' = FALSE
  /\ disposed' = FALSE
  /\ renewed' = TRUE

Overlaps == overlapped' = (overlapped \/ Suspended # {})

-----------------------------------------------------------------------------
(* start() and startHttp()                                                 *)

\* start() over stdio, all of it before any await.
Start ==
  /\ ~started
  /\ Prepare
  /\ stdio' = TRUE
  /\ started' = TRUE
  /\ Overlaps
  /\ UNCHANGED <<svars, httpServer, served, listening, mounted, op, call, failed, provided>>

\* Faulty: the state is reset before the guard is looked at.
RefusedStartResets ==
  /\ started
  /\ stopping' = FALSE
  /\ disposed' = FALSE
  /\ UNCHANGED <<svars, started, httpServer, served, listening, mounted, stdio, op, call,
                 renewed, overlapped, failed, provided>>

\* start() or startHttp() of a started server: "Server already started".
RefusedStart ==
  /\ started
  /\ UNCHANGED lifecycleVars

\* The rest of startHttp(), once the provider is known: a registry unless there
\* is one; then it hands its handler out, serves it, or throws.
HttpUp ==
  /\ Prepare
  /\ Create
  /\ \/ /\ mounted' = TRUE
        /\ started' = TRUE
        /\ UNCHANGED <<httpServer, served, listening>>
     \/ /\ served < MaxServers
        /\ served' = served + 1
        /\ httpServer' = served + 1
        /\ listening' = listening \cup {served + 1}
        /\ started' = TRUE
        /\ UNCHANGED mounted
     \/ UNCHANGED <<started, httpServer, served, listening, mounted>>
  /\ UNCHANGED <<stdio, call, failed, provided>>

\* startHttp() of an app with a provider runs through,
StartHttp ==
  /\ ~started /\ provided
  /\ HttpUp
  /\ Overlaps
  /\ UNCHANGED op

\* any other awaits loadAuthConfig(),
StartHttpLoads(o) ==
  /\ ~started /\ ~provided
  /\ op[o] = Idle
  /\ op' = [op EXCEPT ![o].at = "loading"]
  /\ Overlaps
  /\ UNCHANGED <<svars, started, stopping, disposed, httpServer, served, listening, mounted,
                 stdio, call, renewed, failed, provided>>

\* and goes on without looking at `started' again, or throws.
Loaded(o) ==
  /\ op[o].at = "loading"
  /\ op' = [op EXCEPT ![o] = Idle]
  /\ HttpUp
  /\ UNCHANGED overlapped

LoadFails(o) ==
  /\ op[o].at = "loading"
  /\ op' = [op EXCEPT ![o] = Idle]
  /\ UNCHANGED <<svars, started, stopping, disposed, httpServer, served, listening, mounted,
                 stdio, call, renewed, overlapped, failed, provided>>

-----------------------------------------------------------------------------
(* stop()                                                                  *)

\* Faulty: the HTTP server is forgotten.
AwaitsStdioOnly == IF stdio THEN "closing" ELSE "none"

\* Where stop() first awaits: `httpServer' when there is one, else stdio.
Awaits ==
  IF httpServer # None THEN "shutting" ELSE IF stdio THEN "closing" ELSE "none"

\* Up to the first await: the store is drained and disposed and the registry
\* shut down in any case.
Stop(o) ==
  /\ op[o] = Idle
  /\ stopping' = TRUE
  /\ disposed' = TRUE
  /\ call' = [t \in ToolCalls |-> IF call[t] = "running" THEN "aborted" ELSE call[t]]
  /\ Shutdown
  /\ renewed' = FALSE
  /\ Overlaps
  /\ IF ~started
     THEN UNCHANGED <<started, stdio, op>>
     ELSE /\ op' = [op EXCEPT ![o] = [at |-> Awaits, server |-> httpServer]]
          /\ started' = (Awaits # "none")
          /\ stdio' = (stdio /\ Awaits # "closing")
  /\ UNCHANGED <<httpServer, served, listening, mounted, failed, provided>>

\* The server it awaited is down: `httpServer' is cleared, whichever it is now.
ShutDone(o) ==
  /\ op[o].at = "shutting"
  /\ listening' = listening \ {op[o].server}
  /\ httpServer' = None
  /\ op' = [op EXCEPT ![o] = IF stdio THEN [at |-> "closing", server |-> None] ELSE Idle]
  /\ started' = (started /\ stdio)
  /\ stdio' = FALSE
  /\ UNCHANGED <<svars, stopping, disposed, served, mounted, call, renewed, overlapped, failed, provided>>

\* The stdio handle is closed.
Closed(o) ==
  /\ op[o].at = "closing"
  /\ op' = [op EXCEPT ![o] = Idle]
  /\ started' = FALSE
  /\ UNCHANGED <<svars, stopping, disposed, httpServer, served, listening, mounted, stdio,
                 call, renewed, overlapped, failed, provided>>

\* What stop() awaits rejects, and so does stop().
StopFails(o) ==
  /\ op[o].at \in {"shutting", "closing"}
  /\ op' = [op EXCEPT ![o] = Idle]
  /\ failed' = TRUE
  /\ UNCHANGED <<svars, started, stopping, disposed, httpServer, served, listening, mounted,
                 stdio, call, renewed, overlapped, provided>>

-----------------------------------------------------------------------------
(* Requests                                                                *)

\* Requests reach the handler over a server that listens or through the host
\* application it was handed to, which nothing takes it back from.
Reachable == listening # {} \/ mounted

Request(s, requested) ==
  /\ Reachable
  /\ Listen(s, requested)
  /\ UNCHANGED avars

\* sendNotification()
Announce(c) ==
  /\ started /\ registry
  /\ \A s \in entries : Len(stream[s].got) < MaxMessages
  /\ FanOut(c)
  /\ UNCHANGED avars

\* A tools/call arrives; its handler returns a task descriptor; the server must
\* not be stopping; the owner hooks are awaited; the task is spawned, unless the
\* store it is handed to then is disposed.
CallStep(t) ==
  /\ \/ call[t] = "none" /\ Reachable /\ call' = [call EXCEPT ![t] = "handling"]
     \/ call[t] = "handling"
        /\ call' = [call EXCEPT ![t] = IF stopping THEN "refused" ELSE "owner"]
     \/ call[t] = "owner"
        /\ call' = [call EXCEPT ![t] = IF disposed THEN "refused" ELSE "running"]
  /\ UNCHANGED <<svars, started, stopping, disposed, httpServer, served, listening, mounted,
                 stdio, op, renewed, overlapped, failed, provided>>

LifecycleNext ==
  \/ Start \/ StartHttp \/ RefusedStart
  \/ \E o \in Ops : \/ StartHttpLoads(o) \/ Loaded(o) \/ LoadFails(o)
                    \/ Stop(o) \/ ShutDone(o) \/ Closed(o) \/ StopFails(o)
  \/ \E s \in Streams, requested \in SUBSET Changes : Request(s, requested)
  \/ \E c \in Changes : Announce(c)
  \/ (ClientStep \/ KeepAlive) /\ UNCHANGED avars
  \/ \E t \in ToolCalls : CallStep(t)

LifecycleSpec == LifecycleInit /\ [][LifecycleNext]_lifecycleVars

-----------------------------------------------------------------------------
(* Properties.                                                             *)

\* Type invariant, with the keep-alive timers counted.
LifecycleTypeOK ==
  /\ SubsTypeOK
  /\ {provided, started, stopping, disposed, mounted, stdio, renewed, overlapped, failed} \subseteq BOOLEAN
  /\ served \in 0 .. MaxServers
  /\ httpServer \in 0 .. served
  /\ listening \subseteq Servers
  /\ op \in [Ops -> [at : {"none", "loading", "shutting", "closing"}, server : 0 .. MaxServers]]
  /\ call \in [ToolCalls -> {"none", "handling", "owner", "refused", "running", "aborted"}]

\* "A started server has a live store" (comment in stop()): unless a stop() is
\* under way or has failed, a started server refuses no task, however starts
\* and stops overlapped before.
StartedIsLive ==
  started /\ ~failed /\ (\A o \in Ops : op[o].at \notin {"shutting", "closing"})
    => ~stopping /\ ~disposed

\* No task is accepted once stop() began, by a call that was under way either,
\* until a start passes its guard; and no task outlives the store it runs in.
NoTaskOnceStopping ==
  /\ [][\A t \in ToolCalls :
          call[t] # "running" /\ call'[t] = "running" => renewed]_lifecycleVars
  /\ [](disposed => \A t \in ToolCalls : call[t] # "running")

\* An app whose calls do not overlap leaves nothing running: when it is not
\* started and no call is under way, no server listens and no stdio is open.
StoppedRunsNothing ==
  ~overlapped /\ ~started /\ Suspended = {}
    => listening = {} /\ httpServer = None /\ ~stdio

\* "Graceful shutdown: [...] shuts down HTTP server (if running)"
\* (packages/platform/skills/references/api.md:219): the same for an app with a
\* provider, which starts at one stroke, however its calls of stop() overlap,
\* once stop() has returned and no start passed its guard since.
StopShutsDown ==
  provided /\ ~started /\ ~failed /\ ~renewed /\ Suspended = {} => listening = {}

\* A started application works, and one that is not started has left nothing behind
\* (start, startHttp, stop).
RunsWhileStarted == StartedIsLive /\ StoppedRunsNothing
=============================================================================
