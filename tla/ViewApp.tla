------------------------------ MODULE ViewApp -------------------------------
(* createMcpApp() of packages/view/src: Router and ToolRegistry with the React   *)
(* adapter, that is the queue of navigations and of the disposal, the hooks     *)
(* each one awaits, and what a view leaves with the host, in the document and   *)
(* in React; the bootstrap around the router, the dispatchers of host           *)
(* notifications (LifecycleDispatcher) and of recorded sessions                 *)
(* (onViewerSession), and the gate that host teardown and dispose() share       *)
(* (TeardownDispatcher).  Hooks and author callbacks take one step to settle;   *)
(* callbacks do not themselves call dispose().                                  *)
EXTENDS Naturals, Sequences, FiniteSets

CONSTANTS
  Views,
  ToolNames,
  ToolsOf,     \* per view: the tools it declares
  ReactViews,  \* views made by defineReactView
  MaxNavs,     \* bound: calls of goto(), numbered in the order they come
  Disposal,    \* the job of dispose() in the queue
  Unknown,     \* a name no view has
  NoView,
  InitialView,  \* of the first goto(), which the bootstrap makes
  MaxNotes,     \* bound: notifications and sessions of the host
  MaxSessions,  \* bound: sessions among them
  HostAsks,     \* ui/resource-teardown requests
  DisposeCalls  \* calls of handle.dispose()

ASSUME RouterAssumption ==
  /\ ToolsOf \in [Views -> SUBSET ToolNames] /\ ReactViews \subseteq Views
  /\ Unknown \notin Views /\ NoView \notin Views
  /\ MaxNavs \in Nat /\ Disposal \notin Nat

ASSUME AppAssumption ==
  /\ MaxNavs > 0 /\ InitialView \in Views
  /\ MaxNotes \in Nat /\ MaxSessions \in Nat /\ HostAsks \cap DisposeCalls = {}

Navs == 1..MaxNavs
Asks == HostAsks \cup DisposeCalls
InitialNav == 1

VARIABLES
  nav,         \* per goto(): its promise and its target
  routerQueue, \* _queue: what runs, then what waits
  at,          \* the hook the head of the queue awaits
  currentView,
  prevView,    \* prevName of _doGoto, activeName of _doDispose
  registered,  \* handles: per tool, the view that registered it
  mounted,     \* the view whose output is in the DOM root
  roots,       \* views whose React root is alive
  disposal     \* _disposed and _disposePromise

routerVars == <<nav, routerQueue, at, currentView, prevView, registered, mounted, roots, disposal>>

-----------------------------------------------------------------------------
\* The router.

RouterInit ==
  /\ nav = [n \in Navs |-> [status |-> "no", to |-> NoView]]
  /\ routerQueue = <<>> /\ at = "idle"
  /\ currentView = NoView /\ prevView = NoView
  /\ registered = [t \in ToolNames |-> NoView]
  /\ mounted = NoView /\ roots = {} /\ disposal = "no"

\* The next call of goto().
Fresh(n) == nav[n].status = "no" /\ \A m \in Navs : m < n => nav[m].status # "no"

\* goto(): rejected after dispose(), else chained onto the queue.
Goto(n, v) ==
  /\ Fresh(n)
  /\ IF disposal = "no"
     THEN /\ nav' = [nav EXCEPT ![n] = [status |-> "queued", to |-> v]]
          /\ routerQueue' = Append(routerQueue, n)
     ELSE /\ nav' = [nav EXCEPT ![n] = [status |-> "refused", to |-> v]]
          /\ UNCHANGED routerQueue
  /\ UNCHANGED <<at, currentView, prevView, registered, mounted, roots, disposal>>

\* Faulty: the disposal overtakes the navigations that wait.
BehindHead(queue) == IF queue = <<>> THEN <<Disposal>> ELSE <<Head(queue), Disposal>> \o Tail(queue)

\* dispose(): one promise, behind what is queued.
Behind(queue) == Append(queue, Disposal)

Dispose ==
  /\ disposal = "no"
  /\ disposal' = "queued"
  /\ routerQueue' = Behind(routerQueue)
  /\ UNCHANGED <<nav, at, currentView, prevView, registered, mounted, roots>>

Running(job) == routerQueue # <<>> /\ Head(routerQueue) = job

\* The promise of the head settles and the next job may start.
Settles(n, status) ==
  /\ nav' = [nav EXCEPT ![n].status = status]
  /\ routerQueue' = Tail(routerQueue)
  /\ at' = "idle" /\ prevView' = NoView

\* unregisterAll() and registerForView() of the tool registry.
AllRemoved == [t \in ToolNames |-> NoView]

RegisteredFor(v) == [t \in ToolNames |-> IF t \in ToolsOf[v] THEN v ELSE registered[t]]

\* ctx.tools.remove(), which any code that holds the context may call.
RemoveTool(t) ==
  /\ registered[t] # NoView
  /\ registered' = [registered EXCEPT ![t] = NoView]
  /\ UNCHANGED <<nav, routerQueue, at, currentView, prevView, mounted, roots, disposal>>

\* _doGoto() up to its first await.
StartGoto(n) ==
  /\ Running(n) /\ at = "idle"
  /\ IF nav[n].to \notin Views
     THEN Settles(n, "failed") /\ UNCHANGED currentView
     ELSE /\ prevView' = currentView /\ currentView' = NoView
          /\ at' = IF currentView = NoView THEN "entering" ELSE "leaving"
          /\ UNCHANGED <<nav, routerQueue>>
  /\ UNCHANGED <<registered, mounted, roots, disposal>>

\* onLeave settles.  A React root is unmounted whether the hook rejects or not;
\* the tools are removed only when it does not.
LeaveEnds(n, ok) ==
  /\ Running(n) /\ at = "leaving"
  /\ roots' = roots \ {prevView}
  /\ IF ok
     THEN /\ registered' = AllRemoved /\ at' = "entering"
          /\ UNCHANGED <<nav, routerQueue, prevView>>
     ELSE Settles(n, "failed") /\ UNCHANGED registered
  /\ UNCHANGED <<currentView, mounted, disposal>>

\* onEnter settles; then tools, render, mount and currentView in one turn.  A
\* render that throws comes after the tools, and drops the React root it made.
EnterEnds(n, outcome) ==
  LET v == nav[n].to IN
  /\ Running(n) /\ at = "entering"
  /\ Settles(n, IF outcome = "rendered" THEN "done" ELSE "failed")
  /\ registered' = IF outcome = "onEnter throws" THEN registered ELSE RegisteredFor(v)
  /\ IF outcome = "rendered"
     THEN /\ currentView' = v /\ mounted' = v
          /\ roots' = roots \cup ({v} \cap ReactViews)
     ELSE /\ UNCHANGED <<currentView, mounted>>
          /\ roots' = IF outcome = "render throws" THEN roots \ {v} ELSE roots
  /\ UNCHANGED disposal

\* _doDispose(): onLeave of the active view, then the tools and the DOM, even if
\* the hook rejected.
StartDispose ==
  /\ Running(Disposal) /\ at = "idle"
  /\ prevView' = currentView /\ currentView' = NoView /\ at' = "leaving"
  /\ UNCHANGED <<nav, routerQueue, registered, mounted, roots, disposal>>

DisposeEnds(ok) ==
  /\ Running(Disposal) /\ at = "leaving"
  /\ ok \/ prevView # NoView
  /\ registered' = AllRemoved /\ mounted' = NoView /\ roots' = roots \ {prevView}
  /\ disposal' = IF ok THEN "done" ELSE "failed"
  /\ routerQueue' = Tail(routerQueue) /\ at' = "idle" /\ prevView' = NoView
  /\ UNCHANGED <<nav, currentView>>

\* What the queue does by itself: the hooks settle.
RouterRuns ==
  \/ \E n \in Navs : StartGoto(n)
  \/ \E n \in Navs, ok \in BOOLEAN : LeaveEnds(n, ok)
  \/ \E n \in Navs, o \in {"onEnter throws", "render throws", "rendered"} : EnterEnds(n, o)
  \/ StartDispose
  \/ \E ok \in BOOLEAN : DisposeEnds(ok)

-----------------------------------------------------------------------------
\* The app around it.

VARIABLES
  boot,     \* where createMcpApp() is
  notes,    \* LifecycleDispatcher: pending, queue, what runs, what was delivered
  replay,   \* the notification whose delivery ends lifecycle.activate()
  sessions, \* the same of onViewerSession
  revoked,  \* onViewerSession's disposed
  gate,     \* TeardownDispatcher: cleanupPromise
  running,  \* where its run() is
  ran,      \* history: runs of the author's callback
  ask,      \* per request or call: its answer
  transport

appVars == <<boot, notes, replay, sessions, revoked, gate, running, ran, ask, transport>>

Dispatcher == [arrived |-> 0, pending |-> <<>>, queue |-> <<>>, busy |-> 0, delivered |-> <<>>]

ViewInit ==
  /\ RouterInit
  /\ boot = "connecting"
  /\ notes = Dispatcher /\ sessions = Dispatcher
  /\ replay = 0 /\ revoked = FALSE
  /\ gate = "none" /\ running = "no" /\ ran = 0
  /\ ask = [a \in Asks |-> "no"]
  /\ transport = "open"

\* capture(): buffered until there is a handle, then chained onto the queue.
Captured(d, active) ==
  LET x == d.arrived + 1 IN
  IF active THEN [d EXCEPT !.arrived = x, !.queue = Append(@, x)]
            ELSE [d EXCEPT !.arrived = x, !.pending = Append(@, x)]

\* activate(): the buffer is replayed.
Replayed(d) == [d EXCEPT !.pending = <<>>, !.queue = @ \o d.pending]

Begun(d) == [d EXCEPT !.queue = Tail(@), !.busy = Head(d.queue), !.delivered = Append(@, Head(d.queue))]
Ended(d) == [d EXCEPT !.busy = 0]
Ready(d) == d.queue # <<>> /\ d.busy = 0

HasHandle == boot \in {"replaying", "applying", "ready"}

NoteArrives ==
  /\ transport = "open" /\ notes.arrived + sessions.arrived < MaxNotes
  /\ notes' = Captured(notes, HasHandle)
  /\ UNCHANGED <<routerVars, boot, replay, sessions, revoked, gate, running, ran, ask, transport>>

\* A callback that rejects is logged, and the next one runs.
NoteRuns ==
  /\ IF notes.busy = 0 THEN Ready(notes) /\ notes' = Begun(notes) ELSE notes' = Ended(notes)
  /\ UNCHANGED <<routerVars, boot, replay, sessions, revoked, gate, running, ran, ask, transport>>

\* The handler of viewer.session.apply, a session the app's validator accepts.
SessionArrives ==
  /\ ~revoked /\ sessions.arrived < MaxSessions /\ notes.arrived + sessions.arrived < MaxNotes
  /\ sessions' = Captured(sessions, boot \in {"applying", "ready"})
  /\ UNCHANGED <<routerVars, boot, notes, replay, revoked, gate, running, ran, ask, transport>>

\* A queued session is passed over once the dispatcher is disposed.
SessionRuns ==
  /\ IF sessions.busy # 0 THEN sessions' = Ended(sessions)
     ELSE /\ Ready(sessions)
          /\ sessions' = IF revoked THEN [sessions EXCEPT !.queue = Tail(@)] ELSE Begun(sessions)
  /\ UNCHANGED <<routerVars, boot, notes, replay, revoked, gate, running, ran, ask, transport>>

\* navigate() through the context or the handle, by a hook or a callback.
Navigates(n, v) ==
  /\ boot # "connecting"
  /\ Goto(n, v)
  /\ UNCHANGED appVars

\* navigate() through the revocable handle of a session's callback.
SessionNavigates(n, v) ==
  /\ sessions.busy # 0
  /\ IF revoked
     THEN /\ Fresh(n)
          /\ nav' = [nav EXCEPT ![n] = [status |-> "refused", to |-> v]]
          /\ UNCHANGED <<routerQueue, at, currentView, prevView, registered, mounted, roots, disposal>>
     ELSE Goto(n, v)
  /\ UNCHANGED appVars

ToolRemoved(t) == RemoveTool(t) /\ UNCHANGED appVars

-----------------------------------------------------------------------------
\* The bootstrap.

\* viewerSession.dispose(): unsubscribed, and what is buffered dropped.
SessionsDropped == revoked' = TRUE /\ sessions' = [sessions EXCEPT !.pending = <<>>]

\* Faulty: nothing is rejected.
AbortForgotten == gate' = gate

\* teardown.abort(): a request that was buffered is rejected.
Abort == gate' = IF gate = "pending" THEN "aborted" ELSE gate

BootFails ==
  /\ boot' = "failed" /\ transport' = "closed"
  /\ SessionsDropped /\ Abort

\* connect() rejects, or the host gives no capabilities.
ConnectFails ==
  /\ boot = "connecting" /\ BootFails
  /\ UNCHANGED <<routerVars, notes, replay, running, ran, ask>>

Connects ==
  /\ boot = "connecting"
  /\ boot' = "routing" /\ Goto(InitialNav, InitialView)
  /\ UNCHANGED <<notes, replay, sessions, revoked, gate, running, ran, ask, transport>>

RouteFails ==
  /\ boot = "routing" /\ nav[InitialNav].status = "failed" /\ BootFails
  /\ UNCHANGED <<routerVars, notes, replay, running, ran, ask>>

\* The author's callback starts: run() of the teardown dispatcher.
Run == running' = "callback" /\ ran' = ran + 1

\* The initial view is there: teardown.activate(), which runs what is buffered,
\* then lifecycle.activate(), which waits for the queue as it finds it.
Activates ==
  /\ boot = "routing" /\ nav[InitialNav].status = "done"
  /\ boot' = "replaying"
  /\ IF gate = "pending" THEN gate' = "running" /\ Run ELSE UNCHANGED <<gate, running, ran>>
  /\ notes' = Replayed(notes) /\ replay' = Len(notes.pending)
  /\ UNCHANGED <<routerVars, sessions, revoked, ask, transport>>

\* viewerSession.activate() throws if a teardown has disposed it meanwhile.
Replays ==
  /\ boot = "replaying"
  /\ Len(notes.delivered) >= replay /\ (notes.busy # 0 => Len(notes.delivered) > replay)
  /\ IF revoked THEN BootFails
     ELSE boot' = "applying" /\ sessions' = Replayed(sessions) /\ UNCHANGED <<revoked, gate, transport>>
  /\ UNCHANGED <<routerVars, notes, replay, running, ran, ask>>

\* Its drain() goes on until the queue is stable.
Applies ==
  /\ boot = "applying" /\ sessions.queue = <<>> /\ sessions.busy = 0
  /\ boot' = "ready"
  /\ UNCHANGED <<routerVars, notes, replay, sessions, revoked, gate, running, ran, ask, transport>>

-----------------------------------------------------------------------------
\* Teardown.

\* request(): joins the cleanup there is, starts it, or is buffered.
Request ==
  IF gate # "none" THEN UNCHANGED <<gate, running, ran>>
  ELSE IF boot = "routing" \/ boot = "connecting"
       THEN gate' = "pending" /\ UNCHANGED <<running, ran>>
       ELSE gate' = "running" /\ Run

\* The host asks over the transport; dispose() needs the handle.
Asked(a) ==
  /\ ask[a] = "no"
  /\ IF a \in HostAsks THEN transport = "open" ELSE HasHandle
  /\ ask' = [ask EXCEPT ![a] = "asked"] /\ Request
  /\ UNCHANGED <<routerVars, boot, notes, replay, sessions, revoked, transport>>

\* The callback settles, and cleanup() disposes the sessions and the router.
CallbackEnds ==
  /\ running = "callback"
  /\ running' = "cleanup" /\ SessionsDropped /\ Dispose
  /\ UNCHANGED <<boot, notes, replay, gate, ran, ask, transport>>

CleanupOver == disposal \in {"done", "failed"}

CleanupEnds ==
  /\ running = "cleanup" /\ CleanupOver
  /\ running' = "over"
  /\ \E ok \in BOOLEAN : (ok => disposal = "done") /\ gate' = IF ok THEN "done" ELSE "failed"
  /\ UNCHANGED <<routerVars, boot, notes, replay, sessions, revoked, ran, ask, transport>>

CleanupSettled == gate \in {"done", "failed", "aborted"}

\* onteardown answers the host over the transport; dispose() closes it and settles.
Answers(a) ==
  /\ ask[a] = "asked" /\ CleanupSettled
  /\ a \in HostAsks => transport = "open"
  /\ ask' = [ask EXCEPT ![a] = IF gate = "done" THEN "answered" ELSE "rejected"]
  /\ transport' = IF a \in DisposeCalls THEN "closed" ELSE transport
  /\ UNCHANGED <<routerVars, boot, notes, replay, sessions, revoked, gate, running, ran>>

\* What onteardown resolves with goes nowhere once the transport is closed.
GoesUnheard(a) ==
  /\ ask[a] = "asked" /\ CleanupSettled
  /\ a \in HostAsks /\ transport = "closed"
  /\ ask' = [ask EXCEPT ![a] = "unheard"]
  /\ UNCHANGED <<routerVars, boot, notes, replay, sessions, revoked, gate, running, ran, transport>>

\* What happens without the host, the user or a new call.
Progress ==
  \/ RouterRuns /\ UNCHANGED appVars
  \/ NoteRuns \/ SessionRuns
  \/ ConnectFails \/ Connects \/ RouteFails \/ Activates \/ Replays \/ Applies
  \/ CallbackEnds \/ CleanupEnds \/ \E a \in Asks : Answers(a) \/ GoesUnheard(a)

ViewNext ==
  \/ Progress
  \/ NoteArrives \/ SessionArrives
  \/ \E n \in Navs, v \in Views \cup {Unknown} : Navigates(n, v) \/ SessionNavigates(n, v)
  \/ \E t \in ToolNames : ToolRemoved(t)
  \/ \E a \in Asks : Asked(a)

viewVars == <<routerVars, appVars>>

\* Hooks, callbacks and the handshake settle: promises the code waits for.
ViewSpec == ViewInit /\ [][ViewNext]_viewVars /\ WF_viewVars(Progress)

-----------------------------------------------------------------------------

RouterTypeOK ==
  /\ nav \in [Navs -> [status : {"no", "queued", "refused", "failed", "done"}, to : Views \cup {Unknown, NoView}]]
  /\ routerQueue \in Seq(Navs \cup {Disposal})
  /\ at \in {"idle", "leaving", "entering"}
  /\ currentView \in Views \cup {NoView} /\ prevView \in Views \cup {NoView}
  /\ registered \in [ToolNames -> Views \cup {NoView}]
  /\ mounted \in Views \cup {NoView} /\ roots \subseteq Views
  /\ disposal \in {"no", "queued", "done", "failed"}

\* A React root is alive for the active view only, or for the one being left,
\* whatever hook or render fails.  As long as no navigation has failed, the host
\* too sees the tools of the active view and of no other: those of the view that
\* is left until its onLeave is over, none while the next one is entered.
FollowsView ==
  /\ roots \subseteq {currentView, prevView}
  /\ (\A n \in Navs : nav[n].status # "failed")
       => \A t \in ToolNames :
            registered[t] \in {NoView, currentView} \cup IF at = "leaving" THEN {prevView} ELSE {}

\* Once dispose() has settled nothing of any view is left, whatever was queued,
\* running or failing when it was called, and nothing comes back.
DisposedClean ==
  disposal \in {"done", "failed"}
    => registered = AllRemoved /\ mounted = NoView /\ roots = {} /\ routerQueue = <<>>

ViewTypeOK ==
  /\ RouterTypeOK
  /\ boot \in {"connecting", "routing", "replaying", "applying", "ready", "failed"}
  /\ gate \in {"none", "pending", "running", "done", "failed", "aborted"}
  /\ running \in {"no", "callback", "cleanup", "over"}
  /\ ask \in [Asks -> {"no", "asked", "answered", "rejected", "unheard"}]
  /\ transport \in {"open", "closed"} /\ revoked \in BOOLEAN
  /\ replay \in 0..MaxNotes /\ ran \in Nat

\* Host teardown and dispose(), buffered, racing or repeated, run the author's
\* callback once, and whoever is told that it succeeded finds the view gone: no
\* tool, no output, no React root, no session to come.
TeardownOnce ==
  /\ ran <= 1
  /\ \A a \in Asks : ask[a] = "answered"
       => ran = 1 /\ registered = AllRemoved /\ mounted = NoView /\ roots = {} /\ sessions.pending = <<>>

\* Notifications and sessions reach the author in the order they arrived, none
\* twice and none left out, whether they came before the handle, during the
\* replay or after.
InArrivalOrder ==
  \A d \in {notes, sessions} : \A i \in DOMAIN d.delivered : d.delivered[i] = i

\* Every dispose() settles and every teardown request of the host is answered,
\* whatever the state of the bootstrap when it came.  An answer is given but not
\* heard in two cases only: the bootstrap failed, whose catch closes the transport whether a
\* request is pending or being cleaned up for, or a dispose() that shared the
\* cleanup closed the transport first.
Told(a) == ask[a] \in {"answered", "rejected"}

TransportGivenUp == boot = "failed" \/ \E d \in DisposeCalls : Told(d)

TeardownSettles ==
  \A a \in Asks : ask[a] = "asked" ~> Told(a) \/ (ask[a] = "unheard" /\ TransportGivenUp)

\* The host and the author see one view at a time and each thing once, in order,
\* however navigation, teardown and buffered messages meet (router.ts,
\* lifecycle.ts).
OneViewAtATime == FollowsView /\ DisposedClean /\ TeardownOnce /\ InArrivalOrder
=============================================================================
