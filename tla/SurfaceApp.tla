----------------------------- MODULE SurfaceApp -----------------------------
(* startSurfaceApp() of packages/view-components: a status view and a surface   *)
(* view over createMcpApp(), the chain of navigations the App issues, the mount *)
(* of a surface, which goes on after the navigation that rendered it, and the   *)
(* remount when the host context moves.  The bootstrap, the order of the host's *)
(* notifications and the teardown gate are ViewApp's; hooks of the author that  *)
(* throw are settled into an error display.                                     *)
EXTENDS SurfaceRules

CONSTANTS
  Surfaces,      \* name -> [layout, columns, components], what the host selects
  DefaultSurface,\* the registry's, a name or NoSurface
  NoSurface,
  Registry,      \* the components the registry declares
  ToolResults,   \* [structured, blocks] of the host's results and sessions
  JsonObjects,   \* what of that is an object
  ValidData,     \* what of that the App's guard accepts
  HostContexts,  \* [theme, locale, surface] of the host, one after the other
  InPlace,       \* options.themeUpdates = "in-place"
  MaxShows,      \* bound: displays shown
  MaxContexts,   \* bound: host context changes
  MaxMounts      \* bound: generations of mounts

ASSUME SurfaceAssumption == MaxMounts \in Nat /\ MaxContexts \in Nat

VARIABLES
  hostContext,   \* handle.ctx.hostContext: [id, theme, locale, surface]
  chain,         \* navigation: the steps queued, the head is running
  moving,        \* the router: "idle", "leaving" or "entering"
  target,        \* where it goes, << >> for the disposal
  view,          \* the router's currentView
  shown,         \* currentData, activeStatus, renderedHostContext and the locales
  mounts,        \* per generation: [status, alive, data]
  mountGeneration,
  pendingMount,  \* the generation of it, 0 for none
  mountedSurface,\* the generation of `mounted`, 0 for none
  busy,          \* per dispatcher of ViewApp: what its callback does
  closing,       \* "no", "closed", then the router's disposal: "queued", "done"
  listening,     \* the hostcontextchanged listener is there
  counted,       \* displays so far
  lastShown,     \* history: the display shown last
  leaveFailed    \* history: some cleanup of a component rejected

surfaceVars == <<hostContext, chain, moving, target, view, shown, mounts, mountGeneration, pendingMount,
                 mountedSurface, busy, closing, listening, counted, lastShown, leaveFailed>>

Dispatchers == {"tools", "session"}
Loading == [view |-> "status", what |-> "loading"]
Failure == [view |-> "status", what |-> "error"]
Projections == {DefaultProjection(r, JsonObjects, ValidData) : r \in ToolResults}

\* activeComponentSurface(): the host's surface when it is ready, else the default.
Selected(c) == IF c.surface = NoSurface THEN DefaultSurface ELSE c.surface

Context(c, n) == [id |-> n, theme |-> c.theme, locale |-> c.locale, surface |-> c.surface]

\* The initial status view of createMcpApp() is there.
SurfaceInit ==
  /\ \E c \in HostContexts : hostContext = Context(c, 0)
  /\ chain = <<>> /\ moving = "idle" /\ target = <<>> /\ view = "status"
  /\ shown = [data |-> <<>>, status |-> <<Loading>>, context |-> <<>>,
              locale |-> hostContext.locale, statusLocale |-> <<hostContext.locale>>]
  /\ mounts = [g \in 1..MaxMounts |-> [status |-> "no", alive |-> 0, data |-> <<>>, surface |-> NoSurface]]
  /\ mountGeneration = 0 /\ pendingMount = 0 /\ mountedSurface = 0
  /\ busy = [d \in Dispatchers |-> "no"]
  /\ closing = "no" /\ listening = FALSE /\ counted = 0
  /\ lastShown = Loading /\ leaveFailed = FALSE

-----------------------------------------------------------------------------
\* What is shown next.

\* show(): the display joins the chain.
Show(d, from) ==
  /\ chain' = Append(chain, [kind |-> "show", display |-> d, from |-> from])
  /\ lastShown' = d

Counts == counted < MaxShows /\ counted' = counted + 1

\* onToolInput and onToolInputPartial.
ToolInput ==
  /\ busy["tools"] = "no" /\ closing # "done" /\ Counts
  /\ busy' = [busy EXCEPT !["tools"] = "showing"]
  /\ Show(Loading, "tools")
  /\ UNCHANGED <<hostContext, moving, target, view, shown, mounts, mountGeneration, pendingMount, mountedSurface, closing, listening, leaveFailed>>

\* onToolResult and onSession take the locale, then wait for the projection.
Projects(d) ==
  /\ busy[d] = "no" /\ closing # "done" /\ Counts
  /\ busy' = [busy EXCEPT ![d] = "projecting"]
  /\ shown' = [shown EXCEPT !.locale = hostContext.locale]
  /\ UNCHANGED <<hostContext, chain, moving, target, view, mounts, mountGeneration, pendingMount, mountedSurface, closing, listening, lastShown, leaveFailed>>

\* settle(): a projection that throws shows its failure.
Projected(d) ==
  /\ busy[d] = "projecting"
  /\ busy' = [busy EXCEPT ![d] = "showing"]
  /\ \E x \in Projections \cup {Failure} : Show(x, d)
  /\ UNCHANGED <<hostContext, moving, target, view, shown, mounts, mountGeneration, pendingMount, mountedSurface, closing, listening, counted, leaveFailed>>

\* show() of the handle, refused once the App is closed.
HandleShow ==
  /\ listening /\ closing = "no" /\ Counts
  /\ \E x \in Projections : Show(x, "author")
  /\ UNCHANGED <<hostContext, moving, target, view, shown, mounts, mountGeneration, pendingMount, mountedSurface, busy, closing, listening, leaveFailed>>

Remount == [kind |-> "remount", display |-> Loading, from |-> "self"]

\* Faulty: what moved before the listener was there goes unseen.
ListensOnly == UNCHANGED <<chain, shown>>

\* onHostContextChanged() as it is called once by startSurfaceApp() itself.
CatchesUp ==
  /\ chain' = Append(chain, Remount)
  /\ shown' = [shown EXCEPT !.locale = hostContext.locale]

\* createMcpApp() has returned: unless a teardown has run, the listener is added.
Listens ==
  /\ ~listening /\ closing = "no"
  /\ listening' = TRUE /\ CatchesUp
  /\ UNCHANGED <<hostContext, moving, target, view, mounts, mountGeneration, pendingMount, mountedSurface, busy, closing, counted, lastShown, leaveFailed>>

\* The host context moves, to an object of its own each time.
ContextChanges ==
  /\ hostContext.id < MaxContexts /\ closing # "done"
  /\ \E c \in HostContexts : hostContext' = Context(c, hostContext.id + 1)
  /\ IF listening /\ closing = "no"
     THEN chain' = Append(chain, Remount) /\ shown' = [shown EXCEPT !.locale = hostContext'.locale]
     ELSE UNCHANGED <<chain, shown>>
  /\ UNCHANGED <<moving, target, view, mounts, mountGeneration, pendingMount, mountedSurface, busy, closing, listening, counted, lastShown, leaveFailed>>

-----------------------------------------------------------------------------
\* The chain and the router.

\* The head of the chain settles, and its caller with it.
StepOver ==
  /\ chain' = Tail(chain)
  /\ busy' = [d \in Dispatchers |-> IF Head(chain).from = d THEN "no" ELSE busy[d]]

\* disposeSurface() starts, as onLeave of either view: a mount that is under way
\* is superseded.
Leaves ==
  /\ moving' = IF view = "none" THEN "entering" ELSE "leaving"
  /\ mountGeneration' = IF view = "none" THEN mountGeneration ELSE mountGeneration + 1
  /\ view' = "none"

\* navigate(): refused once the router is disposed.
Navigate(d) ==
  IF closing \in {"no", "closed"}
  THEN target' = <<d>> /\ Leaves /\ UNCHANGED <<chain, busy>>
  ELSE StepOver /\ UNCHANGED <<moving, target, view, mountGeneration>>

Nowhere == StepOver /\ UNCHANGED <<moving, target, view, mountGeneration>>

ShowStep ==
  /\ chain # <<>> /\ moving = "idle" /\ Head(chain).kind = "show"
  /\ LET d == Head(chain).display IN
       /\ shown' = [shown EXCEPT !.status = IF d.view = "surface" THEN <<>> ELSE <<d>>]
       /\ Navigate(d)
  /\ UNCHANGED <<hostContext, mounts, pendingMount, mountedSurface, closing, listening, counted, lastShown, leaveFailed>>

\* onlyThemeChanged()
OnlyTheme(a, b) == a.locale = b.locale /\ a.surface = b.surface

InPlaceUpdate == InPlace /\ shown.context # <<>> /\ OnlyTheme(shown.context[1], hostContext)

\* remountIfStale(): what is displayed is shown again if the context it was
\* rendered with is not the host's.
RemountStep ==
  /\ chain # <<>> /\ moving = "idle" /\ Head(chain).kind = "remount"
  /\ IF closing # "no" THEN Nowhere /\ UNCHANGED shown
     ELSE IF shown.data = <<>>
     THEN /\ IF shown.status # <<>> /\ <<shown.locale>> # shown.statusLocale
             THEN Navigate(shown.status[1]) ELSE Nowhere
          /\ UNCHANGED shown
     ELSE IF <<hostContext>> = shown.context THEN Nowhere /\ UNCHANGED shown
     ELSE IF InPlaceUpdate
     THEN Nowhere /\ shown' = [shown EXCEPT !.context = <<hostContext>>]
     ELSE Navigate([view |-> "surface", what |-> shown.data[1]]) /\ UNCHANGED shown
  /\ UNCHANGED <<hostContext, mounts, pendingMount, mountedSurface, closing, listening, counted, lastShown, leaveFailed>>

\* await pendingMount
MountSettled(g) == IF g = 0 THEN TRUE ELSE mounts[g].status # "mounting"

Disposed(g) == IF g = 0 THEN mounts ELSE [mounts EXCEPT ![g].status = "over", ![g].alive = 0]

\* disposeSurface() ends: the pending mount has settled and the mounted surface
\* has run every cleanup, whether one of them rejected or not.
SurfaceLeft(ok) ==
  /\ moving = "leaving" /\ MountSettled(pendingMount)
  /\ ok \/ mountedSurface # 0
  /\ pendingMount' = 0 /\ mountedSurface' = 0 /\ mounts' = Disposed(mountedSurface)
  /\ leaveFailed' = (leaveFailed \/ ~ok)
  /\ IF target = <<>> THEN moving' = "idle" /\ closing' = "done" /\ UNCHANGED <<chain, busy>>
     ELSE /\ UNCHANGED closing
          /\ IF ok THEN moving' = "entering" /\ UNCHANGED <<chain, busy>>
                   ELSE moving' = "idle" /\ StepOver
  /\ UNCHANGED <<hostContext, target, view, shown, mountGeneration, listening, counted, lastShown>>

EntersStatus ==
  /\ moving = "entering" /\ target[1].view = "status"
  /\ moving' = "idle" /\ view' = "status" /\ StepOver
  /\ shown' = [shown EXCEPT !.data = <<>>, !.locale = hostContext.locale, !.statusLocale = <<hostContext.locale>>]
  /\ UNCHANGED <<hostContext, target, mounts, mountGeneration, pendingMount, mountedSurface, closing, listening, counted, lastShown, leaveFailed>>

\* The surface view says why nothing is composed when the surface is malformed or
\* there is none, else starts to mount it.
EntersSurface ==
  /\ moving = "entering" /\ target[1].view = "surface"
  /\ moving' = "idle" /\ view' = "surface" /\ StepOver
  /\ shown' = [shown EXCEPT !.data = <<target[1].what>>, !.context = <<hostContext>>, !.locale = hostContext.locale]
  /\ LET s == Selected(hostContext) IN
       IF s # NoSurface /\ WellFormed(Surfaces[s])
       THEN /\ mountGeneration < MaxMounts
            /\ mountGeneration' = mountGeneration + 1 /\ pendingMount' = mountGeneration'
            /\ mounts' = [mounts EXCEPT ![mountGeneration'] =
                            [status |-> "mounting", alive |-> 0, data |-> <<target[1].what>>, surface |-> s]]
       ELSE UNCHANGED <<mountGeneration, pendingMount, mounts>>
  /\ UNCHANGED <<hostContext, target, mountedSurface, closing, listening, counted, lastShown, leaveFailed>>

-----------------------------------------------------------------------------
\* mountComponentSurface()

\* A component that fails takes those before it with it.
RolledBack(g) == [mounts EXCEPT ![g].status = "failed", ![g].alive = 0]

\* All components are there: the mount is the App's, unless it was superseded.
Keeps(g) ==
  IF g = mountGeneration
  THEN mountedSurface' = g /\ mounts' = [mounts EXCEPT ![g].status = "mounted", ![g].alive = @ + 1]
  ELSE mounts' = Disposed(g) /\ UNCHANGED mountedSurface

\* The mount of the next component settles.
ComponentMounts(g, ok) ==
  /\ mounts[g].status = "mounting"
  /\ LET s == Surfaces[mounts[g].surface] IN
       /\ ok => KnownOnly(s, Registry)
       /\ IF ~ok THEN mounts' = RolledBack(g) /\ UNCHANGED mountedSurface
          ELSE IF mounts[g].alive + 1 < Len(s.components)
          THEN mounts' = [mounts EXCEPT ![g].alive = @ + 1] /\ UNCHANGED mountedSurface
          ELSE Keeps(g)
  /\ UNCHANGED <<hostContext, chain, moving, target, view, shown, mountGeneration, pendingMount, busy, closing, listening, counted, lastShown, leaveFailed>>

-----------------------------------------------------------------------------
\* Teardown.

\* onTeardown: the listener goes, then the author's own callback.
Closes ==
  /\ closing = "no"
  /\ closing' = "closed" /\ listening' = FALSE
  /\ UNCHANGED <<hostContext, chain, moving, target, view, shown, mounts, mountGeneration, pendingMount, mountedSurface, busy, counted, lastShown, leaveFailed>>

\* It has settled: the router's disposal is queued behind the running navigation.
TeardownSettled ==
  /\ closing = "closed" /\ closing' = "queued"
  /\ UNCHANGED <<hostContext, chain, moving, target, view, shown, mounts, mountGeneration, pendingMount, mountedSurface, busy, listening, counted, lastShown, leaveFailed>>

\* onLeave of the active view, if there is one.
DisposalStarts ==
  /\ closing = "queued" /\ moving = "idle" /\ target' = <<>>
  /\ IF view = "none" THEN closing' = "done" /\ UNCHANGED <<moving, mountGeneration, view>>
                      ELSE Leaves /\ UNCHANGED closing
  /\ UNCHANGED <<hostContext, chain, shown, mounts, pendingMount, mountedSurface, busy, listening, counted, lastShown, leaveFailed>>

SurfaceNext ==
  \/ ToolInput \/ HandleShow \/ Listens \/ ContextChanges
  \/ \E d \in Dispatchers : Projects(d) \/ Projected(d)
  \/ ShowStep \/ RemountStep \/ EntersStatus \/ EntersSurface
  \/ \E ok \in BOOLEAN : SurfaceLeft(ok) \/ \E g \in 1..MaxMounts : ComponentMounts(g, ok)
  \/ Closes \/ TeardownSettled \/ DisposalStarts

SurfaceSpec == SurfaceInit /\ [][SurfaceNext]_surfaceVars

-----------------------------------------------------------------------------

\* A component is alive only in the mount of the surface that is displayed, or
\* of the one that is being left: a mount that is slow, fails half way or is
\* superseded while it runs leaves nothing behind, and nothing outlives the App.
OneSurfaceAlive ==
  /\ moving # "leaving"
       => \A g \in 1..MaxMounts : mounts[g].alive > 0 => g = mountGeneration /\ view = "surface"
  /\ closing = "done" => \A g \in 1..MaxMounts : mounts[g].alive = 0

\* Whenever the chain is empty the App displays what it was last told to, for the
\* host context of now: the result mounted for that context, or for one that
\* differs in the theme alone when themes are updated in place; the status in the
\* language of the host.  Contexts that move before the listener is there, during
\* a navigation or between the two are caught up with.
UpToDate ==
  listening /\ chain = <<>> /\ moving = "idle" /\ ~leaveFailed
    => /\ view = lastShown.view
       /\ IF view = "status"
          THEN shown.data = <<>> /\ shown.status = <<lastShown>> /\ shown.statusLocale = <<hostContext.locale>>
          ELSE /\ shown.data = <<lastShown.what>> /\ shown.context = <<hostContext>>
               /\ mountedSurface # 0 => mounts[mountedSurface].data = shown.data
                                        /\ mounts[mountedSurface].surface = Selected(hostContext)

\* What is displayed is what should be, and it alone is alive (surface-app.ts).
DisplayTrue == OneSurfaceAlive /\ UpToDate
=============================================================================
