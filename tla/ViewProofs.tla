----------------------------- MODULE ViewProofs -----------------------------
(* What holds of the view packages whatever views, tools, subscriptions,        *)
(* notifications and displays there are: one view at a time and one teardown    *)
(* (ViewApp), no event lost by the event client (EventClient), the display of   *)
(* an App of component surfaces (SurfaceApp), and what an accepted manifest      *)
(* promises (SurfaceRules).                                                      *)
EXTENDS ViewApp, SurfaceApp, EventClient, FiniteSetTheorems, SequenceTheorems, TLAPS

-----------------------------------------------------------------------------
(* The event client.                                                          *)

\* Until the client is destroyed its handlers are those of the subscriptions there are, and what is owed is still
\* to be delivered.
EventInv ==
  /\ subscribed \in [EventSubs -> {"no", "yes", "undone"}]
  /\ due \in [EventSubs -> {0, 1}]
  /\ delivering \in Seq(EventSubs)
  /\ \A a \in DOMAIN handlers : handlers[a] \subseteq EventSubs
  /\ ~destroyed => \A s \in EventSubs : subscribed[s] = "yes" => s \in HandlersOf(ActionOf[s])
  /\ \A s \in EventSubs : due[s] = 1 => subscribed[s] = "yes" /\ \E i \in DOMAIN delivering : delivering[i] = s

\* Any order of a finite set has all of it.
LEMMA OrdersOfSet ==
  ASSUME NEW S, IsFiniteSet(S), NEW f \in SetToSeqs(S)
  PROVE  f \in Seq(S) /\ \A s \in S : \E i \in DOMAIN f : f[i] = s
<1> DEFINE n == Cardinality(S)
<1>1. n \in Nat
  BY FS_CardinalityType
<1>2. f \in [1..n -> S] /\ \A i, j \in 1..n : i # j => f[i] # f[j]
  BY DEF SetToSeqs
<1>3. f \in Injection(1..n, S)
  BY <1>2 DEF Injection, IsInjective
<1>4. Cardinality(1..n) = n
  BY <1>1, FS_Interval
<1>5. f \in Surjection(1..n, S)
  BY <1>3, <1>4, FS_Injection
<1>6. f \in Seq(S)
  BY <1>1, <1>2
<1>7. QED
  BY <1>2, <1>5, <1>6 DEF Surjection

\* The handlers after one was entered for an action, or an action was given up.
LEMMA WithFacts ==
  ASSUME EventInv, NEW a, NEW set \in SUBSET EventSubs, handlers' = With(a, set)
  PROVE  /\ \A b \in DOMAIN handlers' : handlers'[b] \subseteq EventSubs
         /\ HandlersOf(a)' = set /\ \A b : b # a => HandlersOf(b)' = HandlersOf(b)
<1>1. /\ DOMAIN handlers' = DOMAIN handlers \cup {a} /\ handlers'[a] = set
      /\ \A b \in DOMAIN handlers : b # a => handlers'[b] = handlers[b]
  BY DEF With
<1>2. \A b \in DOMAIN handlers : handlers[b] \subseteq EventSubs
  BY DEF EventInv
<1>3. \A b \in DOMAIN handlers' : handlers'[b] \subseteq EventSubs
  BY <1>1, <1>2
<1>4. QED
  BY <1>1, <1>3 DEF HandlersOf

\* on() enters a handler and owes it nothing yet.
LEMMA OnInv == ASSUME EventInv, NEW s \in EventSubs, On(s) PROVE EventInv'
<1> DEFINE set == HandlersOf(ActionOf[s]) \cup {s}
<1>1. set \in SUBSET EventSubs
  BY DEF EventInv, HandlersOf
<1>2. handlers' = With(ActionOf[s], set)
  BY DEF On
<1>3. /\ \A b \in DOMAIN handlers' : handlers'[b] \subseteq EventSubs
      /\ HandlersOf(ActionOf[s])' = set /\ \A b : b # ActionOf[s] => HandlersOf(b)' = HandlersOf(b)
  BY <1>1, <1>2, WithFacts
<1>4. /\ subscribed \in [EventSubs -> {"no", "yes", "undone"}] /\ subscribed' = [subscribed EXCEPT ![s] = "yes"]
      /\ UNCHANGED <<destroyed, delivering, messages, due>> /\ ~destroyed /\ subscribed[s] = "no"
  BY DEF On, EventInv
<1>5. \A t \in EventSubs : subscribed'[t] = "yes" => t \in HandlersOf(ActionOf[t])'
  BY <1>3, <1>4 DEF EventInv
<1>6. \A t \in EventSubs : due'[t] = 1 => subscribed'[t] = "yes" /\ \E i \in DOMAIN delivering' : delivering'[i] = t
  BY <1>4 DEF EventInv
<1>7. QED
  BY <1>3, <1>4, <1>5, <1>6 DEF EventInv

\* The undo function takes one handler out, and what it was owed with it.
LEMMA OffInv == ASSUME EventInv, NEW s \in EventSubs, Off(s) PROVE EventInv'
<1> DEFINE a == ActionOf[s]
           left == HandlersOf(a) \ {s}
<1>1. left \in SUBSET EventSubs
  BY DEF EventInv, HandlersOf
<1>2. /\ subscribed \in [EventSubs -> {"no", "yes", "undone"}] /\ subscribed' = [subscribed EXCEPT ![s] = "undone"]
      /\ due \in [EventSubs -> {0, 1}] /\ due' = [due EXCEPT ![s] = 0]
      /\ UNCHANGED <<destroyed, delivering, messages>>
  BY DEF Off, EventInv
<1>3. /\ \A b \in DOMAIN handlers' : handlers'[b] \subseteq EventSubs
      /\ HandlersOf(a)' = left /\ \A b : b # a => HandlersOf(b)' = HandlersOf(b)
  <2>1. CASE a \notin DOMAIN handlers
    <3>1. handlers' = handlers /\ left = {}
      BY <2>1 DEF Off, Removed, HandlersOf
    <3>2. QED
      BY <2>1, <3>1 DEF EventInv, HandlersOf
  <2>2. CASE a \in DOMAIN handlers /\ left = {}
    <3>1. handlers' = Without(a)
      BY <2>2 DEF Off, Removed
    <3>2. DOMAIN handlers' = DOMAIN handlers \ {a} /\ \A b \in DOMAIN handlers' : handlers'[b] = handlers[b]
      BY <3>1 DEF Without
    <3>3. QED
      BY <2>2, <3>2 DEF EventInv, HandlersOf
  <2>3. CASE a \in DOMAIN handlers /\ left # {}
    <3>1. handlers' = With(a, left)
      BY <2>3 DEF Off, Removed
    <3>2. QED
      BY <1>1, <3>1, WithFacts
  <2>4. QED
    BY <2>1, <2>2, <2>3
<1>4. ~destroyed' => \A t \in EventSubs : subscribed'[t] = "yes" => t \in HandlersOf(ActionOf[t])'
  BY <1>2, <1>3 DEF EventInv
<1>5. \A t \in EventSubs : due'[t] = 1 => subscribed'[t] = "yes" /\ \E i \in DOMAIN delivering' : delivering'[i] = t
  BY <1>2 DEF EventInv
<1>6. due' \in [EventSubs -> {0, 1}] /\ subscribed' \in [EventSubs -> {"no", "yes", "undone"}]
  BY <1>2
<1>7. QED
  BY <1>2, <1>3, <1>4, <1>5, <1>6 DEF EventInv

\* destroy() forgets every handler; a snapshot under way is still delivered.
LEMMA DestroyInv == ASSUME EventInv, Destroy PROVE EventInv'
<1>1. /\ handlers' = [a \in {} |-> {}] /\ destroyed' = TRUE
      /\ UNCHANGED <<subscribed, delivering, messages, due>>
  BY DEF Destroy
<1>2. \A b \in DOMAIN handlers' : handlers'[b] \subseteq EventSubs
  BY <1>1
<1>3. QED
  BY <1>1, <1>2 DEF EventInv

\* A message owes its event to the subscriptions of its action, all of them in the snapshot.
LEMMA EventArrivesInv == ASSUME EventInv, NEW a \in EventActions, EventArrives(a) PROVE EventInv'
<1>1. /\ ~destroyed /\ delivering = << >> /\ UNCHANGED <<handlers, subscribed, destroyed>>
      /\ due' = [s \in EventSubs |-> IF subscribed[s] = "yes" /\ ActionOf[s] = a THEN 1 ELSE due[s]]
      /\ due \in [EventSubs -> {0, 1}]
  BY DEF EventArrives, EventInv
<1>2. \A s \in EventSubs : due[s] = 0
  BY <1>1 DEF EventInv
<1>3. /\ delivering' \in Seq(EventSubs)
      /\ \A s \in HandlersOf(a) : \E i \in DOMAIN delivering' : delivering'[i] = s
  <2>1. CASE a \in DOMAIN handlers
    <3>1. delivering' \in SetToSeqs(handlers[a]) /\ handlers[a] \subseteq EventSubs /\ IsFiniteSet(handlers[a])
      BY <2>1, EventAssumption, FS_Subset DEF EventArrives, EventInv
    <3>2. delivering' \in Seq(handlers[a]) /\ \A s \in handlers[a] : \E i \in DOMAIN delivering' : delivering'[i] = s
      BY <3>1, OrdersOfSet
    <3>3. QED
      BY <2>1, <3>1, <3>2 DEF HandlersOf
  <2>2. CASE a \notin DOMAIN handlers
    BY <1>1, <2>2 DEF EventArrives, HandlersOf
  <2>3. QED
    BY <2>1, <2>2
<1>4. \A s \in EventSubs : due'[s] = 1 => subscribed'[s] = "yes" /\ \E i \in DOMAIN delivering' : delivering'[i] = s
  BY <1>1, <1>2, <1>3 DEF EventInv
<1>5. HandlersOf(a)' = HandlersOf(a) /\ \A s \in EventSubs : HandlersOf(ActionOf[s])' = HandlersOf(ActionOf[s])
  BY <1>1 DEF HandlersOf
<1>6. due' \in [EventSubs -> {0, 1}]
  BY <1>1
<1>7. QED
  BY <1>1, <1>3, <1>4, <1>5, <1>6 DEF EventInv

\* A handler that returns or throws had what it was owed; the rest of the snapshot is still to come.
LEMMA HandledInv == ASSUME EventInv, Handled PROVE EventInv'
<1>1. /\ delivering # << >> /\ delivering' = Tail(delivering) /\ due' = [due EXCEPT ![Head(delivering)] = 0]
      /\ UNCHANGED <<handlers, subscribed, destroyed>> /\ delivering \in Seq(EventSubs) /\ due \in [EventSubs -> {0, 1}]
  BY DEF Handled, EventInv
<1>2. delivering' \in Seq(EventSubs) /\ Head(delivering) \in EventSubs /\ Head(delivering) = delivering[1]
  BY <1>1
<1>3. \A i \in DOMAIN delivering : i # 1 => i - 1 \in DOMAIN delivering' /\ delivering'[i - 1] = delivering[i]
  BY <1>1
<1>4. due' \in [EventSubs -> {0, 1}] /\ \A s \in EventSubs : due'[s] = 1 => due[s] = 1 /\ s # delivering[1]
  BY <1>1, <1>2
<1>5. ASSUME NEW s \in EventSubs, due'[s] = 1
      PROVE  subscribed'[s] = "yes" /\ \E i \in DOMAIN delivering' : delivering'[i] = s
  <2>1. subscribed[s] = "yes" /\ \E i \in DOMAIN delivering : delivering[i] = s
    BY <1>4, <1>5 DEF EventInv
  <2>2. PICK i \in DOMAIN delivering : delivering[i] = s
    BY <2>1
  <2>3. i # 1
    BY <1>4, <1>5, <2>2
  <2>4. QED
    BY <1>1, <1>3, <2>1, <2>2, <2>3
<1>6. \A s \in EventSubs : HandlersOf(ActionOf[s])' = HandlersOf(ActionOf[s])
  BY <1>1 DEF HandlersOf
<1>7. QED
  BY <1>1, <1>2, <1>4, <1>5, <1>6 DEF EventInv

\* A new client has no subscription and owes nothing.
LEMMA EventInitInv == EventInit => EventInv
<1> SUFFICES ASSUME EventInit PROVE EventInv
  OBVIOUS
<1>1. /\ handlers = [a \in {} |-> {}] /\ subscribed = [s \in EventSubs |-> "no"] /\ delivering = << >>
      /\ due = [s \in EventSubs |-> 0]
  BY DEF EventInit
<1>2. \A b \in DOMAIN handlers : handlers[b] \subseteq EventSubs
  BY <1>1
<1>3. subscribed \in [EventSubs -> {"no", "yes", "undone"}] /\ due \in [EventSubs -> {0, 1}] /\ delivering \in Seq(EventSubs)
  BY <1>1
<1>4. \A s \in EventSubs : due[s] # 1 /\ subscribed[s] # "yes"
  BY <1>1
<1>5. QED
  BY <1>2, <1>3, <1>4 DEF EventInv

\* Every step of the client keeps the invariant.
LEMMA EventNextInv == EventInv /\ [EventNext]_eventVars => EventInv'
<1> SUFFICES ASSUME EventInv, [EventNext]_eventVars PROVE EventInv'
  OBVIOUS
<1>1. CASE UNCHANGED eventVars
  BY <1>1 DEF EventInv, eventVars, HandlersOf
<1>2. CASE EventNext
  BY <1>2, OnInv, OffInv, EventArrivesInv, DestroyInv, HandledInv DEF EventNext
<1>3. QED
  BY <1>1, <1>2

\* A subscription that was not undone has every event of its action that came while it was there, whatever its
\* siblings do during the delivery (createComposeEventClient()).
THEOREM EventsHeard == EventSpec => []Listened
<1>1. EventInv => Listened
  <2> SUFFICES ASSUME EventInv, delivering = << >>, NEW s \in EventSubs, subscribed[s] = "yes" PROVE due[s] = 0
    BY DEF Listened
  <2>1. due[s] # 1
    BY DEF EventInv
  <2>2. QED
    BY <2>1 DEF EventInv
<1>2. QED
  BY <1>1, EventInitInv, EventNextInv, PTL DEF EventSpec

-----------------------------------------------------------------------------
(* The router, the dispatchers and the teardown gate of createMcpApp().        *)

NavRecord == [status : {"no", "queued", "refused", "failed", "done"}, to : Views \cup {Unknown, NoView}]

\* What waits in the router's queue: navigations that are not settled, each once, and the disposal behind them.
QueueOK ==
  /\ \A i \in DOMAIN routerQueue : routerQueue[i] \in Navs => nav[routerQueue[i]].status = "queued"
  /\ \A i, j \in DOMAIN routerQueue : routerQueue[i] = routerQueue[j] => i = j
  /\ \A i \in DOMAIN routerQueue : routerQueue[i] = Disposal => i = Len(routerQueue) /\ disposal = "queued"

\* While a hook is awaited no view is current; the view left is gone before the next one is entered.
HookOK ==
  /\ at = "idle" => prevView = NoView
  /\ at # "idle" => /\ currentView = NoView /\ routerQueue # << >>
                    /\ routerQueue[1] \in Navs => nav[routerQueue[1]].to \in Views
  /\ at = "entering" => roots = {} /\ routerQueue[1] \in Navs

RouterInv == RouterTypeOK /\ QueueOK /\ HookOK /\ FollowsView /\ DisposedClean

\* Navigations are numbers, the disposal is none of them.
LEMMA NavsFacts == Navs \subseteq Nat /\ Disposal \notin Navs /\ InitialNav \in Navs
BY RouterAssumption, AppAssumption DEF Navs, InitialNav

\* The head of a sequence is its first element.
LEMMA HeadFirst == ASSUME NEW S, NEW s \in Seq(S), s # << >> PROVE s[1] = Head(s) /\ 1 \in DOMAIN s
OBVIOUS

\* goto() adds a navigation to the end of the queue, or refuses it.
LEMMA GotoInv == ASSUME RouterInv, NEW n \in Navs, NEW v \in Views \cup {Unknown}, Goto(n, v)
                 PROVE  RouterInv' /\ UNCHANGED disposal
<1>1. /\ nav \in [Navs -> NavRecord] /\ routerQueue \in Seq(Navs \cup {Disposal}) /\ nav[n].status = "no"
      /\ UNCHANGED <<at, currentView, prevView, registered, mounted, roots, disposal>>
  BY DEF RouterInv, RouterTypeOK, NavRecord, Goto, Fresh
<1>2. PICK status \in {"queued", "refused"} : nav' = [nav EXCEPT ![n] = [status |-> status, to |-> v]]
  BY DEF Goto
<1>3. /\ nav' \in [Navs -> NavRecord] /\ nav'[n].status = status /\ \A m \in Navs : m # n => nav'[m] = nav[m]
  BY <1>1, <1>2 DEF NavRecord
<1>4. \A i \in DOMAIN routerQueue : routerQueue[i] # n
  BY <1>1 DEF RouterInv, QueueOK
<1>5. CASE UNCHANGED routerQueue
  <2>1. RouterTypeOK'
    BY <1>1, <1>3, <1>5 DEF RouterInv, RouterTypeOK, NavRecord
  <2>2. QueueOK'
    BY <1>1, <1>3, <1>4, <1>5 DEF RouterInv, QueueOK
  <2>3. HookOK'
    <3>1. routerQueue # << >> => 1 \in DOMAIN routerQueue
      BY <1>1
    <3>2. QED
      BY <1>1, <1>3, <1>4, <1>5, <3>1 DEF RouterInv, HookOK
  <2>4. FollowsView' /\ DisposedClean'
    BY <1>1, <1>3, <1>5 DEF RouterInv, FollowsView, DisposedClean
  <2>5. QED
    BY <1>1, <2>1, <2>2, <2>3, <2>4 DEF RouterInv
<1>6. CASE disposal = "no" /\ routerQueue' = Append(routerQueue, n) /\ status = "queued"
  <2>1. /\ routerQueue' \in Seq(Navs \cup {Disposal}) /\ Len(routerQueue') = Len(routerQueue) + 1
        /\ \A i \in 1..Len(routerQueue) : routerQueue'[i] = routerQueue[i]
        /\ routerQueue'[Len(routerQueue) + 1] = n
        /\ DOMAIN routerQueue = 1..Len(routerQueue) /\ DOMAIN routerQueue' = 1..(Len(routerQueue) + 1) /\ Len(routerQueue) \in Nat
    BY <1>1, <1>6
  <2>2. \A i \in DOMAIN routerQueue : routerQueue[i] # Disposal
    BY <1>6 DEF RouterInv, QueueOK
  <2>3. RouterTypeOK'
    BY <1>1, <1>3, <2>1 DEF RouterInv, RouterTypeOK, NavRecord
  <2>4. \A i \in DOMAIN routerQueue' : i \in DOMAIN routerQueue \/ i = Len(routerQueue) + 1
    BY <2>1
  <2>5. QueueOK'
    <3>1. \A i \in DOMAIN routerQueue' : routerQueue'[i] \in Navs => nav'[routerQueue'[i]].status = "queued"
      BY <1>3, <1>4, <1>6, <2>1, <2>4 DEF RouterInv, QueueOK
    <3>2. \A i, j \in DOMAIN routerQueue' : routerQueue'[i] = routerQueue'[j] => i = j
      BY <1>4, <2>1, <2>4 DEF RouterInv, QueueOK
    <3>3. \A i \in DOMAIN routerQueue' : routerQueue'[i] # Disposal
      BY <2>1, <2>2, <2>4, NavsFacts
    <3>4. QED
      BY <3>1, <3>2, <3>3 DEF QueueOK
  <2>6. HookOK'
    <3>1. routerQueue # << >> => 1 \in DOMAIN routerQueue /\ routerQueue'[1] = routerQueue[1] /\ routerQueue[1] # n
      BY <1>1, <1>4, <2>1
    <3>2. routerQueue' # << >>
      BY <2>1
    <3>3. QED
      BY <1>1, <1>3, <3>1, <3>2 DEF RouterInv, HookOK
  <2>7. FollowsView' /\ DisposedClean'
    BY <1>1, <1>3, <1>6 DEF RouterInv, FollowsView, DisposedClean
  <2>8. QED
    BY <1>1, <2>3, <2>5, <2>6, <2>7 DEF RouterInv
<1>7. QED
  <2>1. CASE disposal = "no"
    <3>1. nav' = [nav EXCEPT ![n] = [status |-> "queued", to |-> v]] /\ routerQueue' = Append(routerQueue, n)
      BY <2>1 DEF Goto
    <3>2. nav'[n].status = "queued"
      BY <1>1, <3>1
    <3>3. QED
      BY <1>3, <1>6, <2>1, <3>1, <3>2
  <2>2. CASE disposal # "no"
    BY <1>5, <2>2 DEF Goto
  <2>3. QED
    BY <2>1, <2>2

\* A revoked handle refuses the navigation and leaves the router alone.
LEMMA RefusedInv ==
  ASSUME RouterInv, NEW n \in Navs, NEW v \in Views \cup {Unknown}, Fresh(n),
         nav' = [nav EXCEPT ![n] = [status |-> "refused", to |-> v]],
         UNCHANGED <<routerQueue, at, currentView, prevView, registered, mounted, roots, disposal>>
  PROVE  RouterInv'
<1>1. nav \in [Navs -> NavRecord] /\ routerQueue \in Seq(Navs \cup {Disposal}) /\ nav[n].status = "no"
  BY DEF RouterInv, RouterTypeOK, NavRecord, Fresh
<1>2. nav' \in [Navs -> NavRecord] /\ nav'[n].status = "refused" /\ \A m \in Navs : m # n => nav'[m] = nav[m]
  BY <1>1 DEF NavRecord
<1>3. \A i \in DOMAIN routerQueue : routerQueue[i] # n
  BY <1>1 DEF RouterInv, QueueOK
<1>4. RouterTypeOK'
  BY <1>1, <1>2 DEF RouterInv, RouterTypeOK, NavRecord
<1>5. QueueOK'
  BY <1>1, <1>2, <1>3 DEF RouterInv, QueueOK
<1>6. HookOK'
  <2>1. routerQueue # << >> => 1 \in DOMAIN routerQueue
    BY <1>1
  <2>2. QED
    BY <1>1, <1>2, <1>3, <2>1 DEF RouterInv, HookOK
<1>7. FollowsView' /\ DisposedClean'
  BY <1>1, <1>2 DEF RouterInv, FollowsView, DisposedClean
<1>8. QED
  BY <1>4, <1>5, <1>6, <1>7 DEF RouterInv

\* dispose() puts the one disposal behind what is queued.
LEMMA DisposeInv == ASSUME RouterInv, Dispose PROVE RouterInv' /\ disposal = "no" /\ disposal' = "queued"
<1>1. /\ disposal = "no" /\ disposal' = "queued" /\ routerQueue' = Append(routerQueue, Disposal)
      /\ UNCHANGED <<nav, at, currentView, prevView, registered, mounted, roots>> /\ routerQueue \in Seq(Navs \cup {Disposal})
  BY DEF RouterInv, RouterTypeOK, Dispose, Behind
<1>2. /\ routerQueue' \in Seq(Navs \cup {Disposal}) /\ Len(routerQueue') = Len(routerQueue) + 1
      /\ \A i \in 1..Len(routerQueue) : routerQueue'[i] = routerQueue[i]
      /\ routerQueue'[Len(routerQueue) + 1] = Disposal
      /\ DOMAIN routerQueue = 1..Len(routerQueue) /\ DOMAIN routerQueue' = 1..(Len(routerQueue) + 1) /\ Len(routerQueue) \in Nat
  BY <1>1
<1>3. \A i \in DOMAIN routerQueue : routerQueue[i] # Disposal
  BY <1>1 DEF RouterInv, QueueOK
<1>4. \A i \in DOMAIN routerQueue' : i \in DOMAIN routerQueue \/ i = Len(routerQueue) + 1
  BY <1>2
<1>5. RouterTypeOK'
  BY <1>1, <1>2 DEF RouterInv, RouterTypeOK
<1>6. QueueOK'
  <2>1. \A i \in DOMAIN routerQueue' : routerQueue'[i] \in Navs => nav'[routerQueue'[i]].status = "queued"
    BY <1>1, <1>2, <1>4, NavsFacts DEF RouterInv, QueueOK
  <2>2. \A i, j \in DOMAIN routerQueue' : routerQueue'[i] = routerQueue'[j] => i = j
    BY <1>2, <1>3, <1>4 DEF RouterInv, QueueOK
  <2>3. \A i \in DOMAIN routerQueue' : routerQueue'[i] = Disposal => i = Len(routerQueue')
    BY <1>2, <1>3, <1>4
  <2>4. QED
    BY <1>1, <2>1, <2>2, <2>3 DEF QueueOK
<1>7. HookOK'
  <2>1. routerQueue # << >> => routerQueue'[1] = routerQueue[1]
    BY <1>1, <1>2
  <2>2. routerQueue' # << >>
    BY <1>2
  <2>3. QED
    BY <1>1, <2>1, <2>2 DEF RouterInv, HookOK
<1>8. FollowsView' /\ DisposedClean'
  BY <1>1 DEF RouterInv, FollowsView, DisposedClean
<1>9. QED
  BY <1>1, <1>5, <1>6, <1>7, <1>8 DEF RouterInv

\* The head of the queue is done with.
LEMMA HeadDone ==
  ASSUME RouterInv, NEW job \in Navs \cup {Disposal}, Running(job), routerQueue' = Tail(routerQueue),
         \A m \in Navs : m # job => nav'[m] = nav[m],
         disposal' = disposal \/ job = Disposal
  PROVE  /\ routerQueue' \in Seq(Navs \cup {Disposal}) /\ QueueOK'
         /\ routerQueue[1] = job /\ (job \in Navs => nav[job].status = "queued")
         /\ job = Disposal => routerQueue' = << >> /\ disposal = "queued"
<1>1. routerQueue \in Seq(Navs \cup {Disposal}) /\ routerQueue # << >> /\ Head(routerQueue) = job
  BY DEF RouterInv, RouterTypeOK, Running
<1>2. /\ routerQueue' \in Seq(Navs \cup {Disposal}) /\ Len(routerQueue') = Len(routerQueue) - 1 /\ Len(routerQueue) \in Nat
      /\ \A i \in DOMAIN routerQueue' : i \in Nat /\ i + 1 \in DOMAIN routerQueue /\ i + 1 # 1 /\ routerQueue'[i] = routerQueue[i + 1]
      /\ routerQueue[1] = job /\ 1 \in DOMAIN routerQueue
  BY <1>1
<1>3. job = Disposal => Len(routerQueue) = 1 /\ disposal = "queued"
  BY <1>2 DEF RouterInv, QueueOK
<1>4. job = Disposal => routerQueue' = << >>
  BY <1>2, <1>3
<1>5. \A i \in DOMAIN routerQueue' : routerQueue'[i] # job
  BY <1>2 DEF RouterInv, QueueOK
<1>6. \A i \in DOMAIN routerQueue' : routerQueue'[i] \in Navs => nav'[routerQueue'[i]].status = "queued"
  BY <1>2, <1>5 DEF RouterInv, QueueOK
<1>7. ASSUME NEW i \in DOMAIN routerQueue', NEW j \in DOMAIN routerQueue', routerQueue'[i] = routerQueue'[j] PROVE i = j
  <2>1. i + 1 = j + 1
    BY <1>2, <1>7 DEF RouterInv, QueueOK
  <2>2. QED
    BY <1>2, <2>1
<1>8. ASSUME NEW i \in DOMAIN routerQueue', routerQueue'[i] = Disposal PROVE i = Len(routerQueue') /\ disposal' = "queued"
  <2>1. job # Disposal
    BY <1>5, <1>8
  <2>2. i + 1 = Len(routerQueue) /\ disposal = "queued"
    BY <1>2, <1>8 DEF RouterInv, QueueOK
  <2>3. QED
    BY <1>2, <2>1, <2>2
<1>9. QED
  BY <1>2, <1>3, <1>4, <1>6, <1>7, <1>8 DEF RouterInv, QueueOK

\* A navigation settles.
LEMMA SettlesFacts ==
  ASSUME RouterInv, NEW n \in Navs, Running(n), NEW status \in {"failed", "done"}, Settles(n, status), UNCHANGED disposal
  PROVE  /\ nav' \in [Navs -> NavRecord] /\ routerQueue' \in Seq(Navs \cup {Disposal}) /\ QueueOK'
         /\ at' = "idle" /\ prevView' = NoView /\ nav'[n].status = status
         /\ (\A m \in Navs : nav'[m].status # "failed") => (\A m \in Navs : nav[m].status # "failed")
<1>1. nav \in [Navs -> NavRecord]
  BY DEF RouterInv, RouterTypeOK, NavRecord
<1>2. nav' = [nav EXCEPT ![n].status = status] /\ routerQueue' = Tail(routerQueue) /\ at' = "idle" /\ prevView' = NoView
  BY DEF Settles
<1>3. nav' \in [Navs -> NavRecord] /\ nav'[n].status = status /\ \A m \in Navs : m # n => nav'[m] = nav[m]
  BY <1>1, <1>2 DEF NavRecord
<1>4. routerQueue' \in Seq(Navs \cup {Disposal}) /\ QueueOK' /\ nav[n].status = "queued"
  BY <1>2, <1>3, HeadDone
<1>5. disposal \in {"no", "queued"}
  BY DEF RouterInv, RouterTypeOK, DisposedClean, Running
<1>6. (\A m \in Navs : nav'[m].status # "failed") => (\A m \in Navs : nav[m].status # "failed")
  BY <1>3, <1>4
<1>7. QED
  BY <1>2, <1>3, <1>4, <1>5, <1>6

\* _doGoto() up to its first await: no view is current from here on.
LEMMA StartGotoInv == ASSUME RouterInv, NEW n \in Navs, StartGoto(n) PROVE RouterInv' /\ UNCHANGED disposal
<1>1. /\ Running(n) /\ at = "idle" /\ UNCHANGED <<registered, mounted, roots, disposal>>
      /\ routerQueue \in Seq(Navs \cup {Disposal}) /\ routerQueue # << >> /\ routerQueue[1] = n /\ prevView = NoView
  BY DEF StartGoto, Running, RouterInv, RouterTypeOK, HookOK
<1>2. disposal \in {"no", "queued"}
  BY <1>1 DEF RouterInv, RouterTypeOK, DisposedClean
<1>3. CASE nav[n].to \notin Views
  <2>1. Settles(n, "failed") /\ UNCHANGED currentView
    BY <1>3 DEF StartGoto
  <2>2. /\ nav' \in [Navs -> NavRecord] /\ routerQueue' \in Seq(Navs \cup {Disposal}) /\ QueueOK'
        /\ at' = "idle" /\ prevView' = NoView
        /\ (\A m \in Navs : nav'[m].status # "failed") => (\A m \in Navs : nav[m].status # "failed")
    BY <1>1, <2>1, SettlesFacts
  <2>3. RouterTypeOK' /\ HookOK' /\ DisposedClean'
    BY <1>1, <1>2, <2>1, <2>2 DEF RouterInv, RouterTypeOK, NavRecord, HookOK, DisposedClean
  <2>4. FollowsView'
    BY <1>1, <2>1, <2>2 DEF RouterInv, FollowsView
  <2>5. QED
    BY <1>1, <2>2, <2>3, <2>4 DEF RouterInv
<1>4. CASE nav[n].to \in Views
  <2>1. /\ prevView' = currentView /\ currentView' = NoView /\ UNCHANGED <<nav, routerQueue>>
        /\ at' = IF currentView = NoView THEN "entering" ELSE "leaving"
    BY <1>4 DEF StartGoto
  <2>2. currentView = NoView => roots = {}
    BY <1>1, RouterAssumption DEF RouterInv, RouterTypeOK, FollowsView
  <2>3. RouterTypeOK' /\ QueueOK' /\ DisposedClean'
    BY <1>1, <1>2, <2>1 DEF RouterInv, RouterTypeOK, QueueOK, DisposedClean
  <2>4. HookOK'
    BY <1>1, <1>4, <2>1, <2>2 DEF HookOK
  <2>5. FollowsView'
    BY <1>1, <2>1 DEF RouterInv, FollowsView
  <2>6. QED
    BY <1>1, <2>3, <2>4, <2>5 DEF RouterInv
<1>5. QED
  BY <1>3, <1>4

\* onLeave settles: whatever it does, the view that is left keeps no React root.
LEMMA LeaveEndsInv == ASSUME RouterInv, NEW n \in Navs, NEW ok \in BOOLEAN, LeaveEnds(n, ok) PROVE RouterInv' /\ UNCHANGED disposal
<1>1. /\ Running(n) /\ at = "leaving" /\ UNCHANGED <<currentView, mounted, disposal>> /\ roots' = roots \ {prevView}
      /\ routerQueue \in Seq(Navs \cup {Disposal}) /\ routerQueue # << >> /\ routerQueue[1] = n /\ currentView = NoView
  BY DEF LeaveEnds, Running, RouterInv, RouterTypeOK, HookOK
<1>2. disposal \in {"no", "queued"}
  BY <1>1 DEF RouterInv, RouterTypeOK, DisposedClean
<1>3. roots' = {}
  BY <1>1, RouterAssumption DEF RouterInv, RouterTypeOK, FollowsView
<1>4. CASE ok
  <2>1. registered' = AllRemoved /\ at' = "entering" /\ UNCHANGED <<nav, routerQueue, prevView>>
    BY <1>4 DEF LeaveEnds
  <2>2. nav[n].to \in Views
    BY <1>1 DEF RouterInv, HookOK
  <2>3. RouterTypeOK' /\ QueueOK' /\ DisposedClean'
    BY <1>1, <1>2, <1>3, <2>1 DEF RouterInv, RouterTypeOK, QueueOK, DisposedClean, AllRemoved
  <2>4. HookOK'
    BY <1>1, <1>3, <2>1, <2>2 DEF HookOK
  <2>5. FollowsView'
    BY <1>1, <1>3, <2>1 DEF RouterInv, FollowsView, AllRemoved
  <2>6. QED
    BY <1>1, <2>3, <2>4, <2>5 DEF RouterInv
<1>5. CASE ~ok
  <2>1. Settles(n, "failed") /\ UNCHANGED registered
    BY <1>5 DEF LeaveEnds
  <2>2. /\ nav' \in [Navs -> NavRecord] /\ routerQueue' \in Seq(Navs \cup {Disposal}) /\ QueueOK'
        /\ at' = "idle" /\ prevView' = NoView /\ nav'[n].status = "failed"
    BY <1>1, <2>1, SettlesFacts
  <2>3. RouterTypeOK' /\ HookOK' /\ DisposedClean'
    BY <1>1, <1>2, <1>3, <2>1, <2>2 DEF RouterInv, RouterTypeOK, NavRecord, HookOK, DisposedClean
  <2>4. FollowsView'
    BY <1>1, <1>3, <2>1, <2>2 DEF FollowsView
  <2>5. QED
    BY <1>1, <2>2, <2>3, <2>4 DEF RouterInv
<1>6. QED
  BY <1>4, <1>5

\* onEnter settles and the view is rendered, or the navigation fails with no view left half way.
LEMMA EnterEndsInv ==
  ASSUME RouterInv, NEW n \in Navs, NEW outcome \in {"onEnter throws", "render throws", "rendered"}, EnterEnds(n, outcome)
  PROVE  RouterInv' /\ UNCHANGED disposal
<1> DEFINE v == nav[n].to
           status == IF outcome = "rendered" THEN "done" ELSE "failed"
<1>a. Running(n) /\ at = "entering" /\ UNCHANGED disposal /\ Settles(n, status) /\ status \in {"failed", "done"}
  BY DEF EnterEnds
<1>b. roots = {} /\ currentView = NoView
  BY <1>a DEF RouterInv, HookOK
<1>c. routerQueue \in Seq(Navs \cup {Disposal}) /\ routerQueue # << >> /\ routerQueue[1] = n
  <2>1. routerQueue \in Seq(Navs \cup {Disposal}) /\ routerQueue # << >> /\ Head(routerQueue) = n
    BY <1>a DEF RouterInv, RouterTypeOK, Running
  <2>2. QED
    BY <2>1, HeadFirst
<1>d. v \in Views
  BY <1>a, <1>c DEF RouterInv, HookOK
<1>1. /\ Running(n) /\ at = "entering" /\ UNCHANGED disposal /\ roots = {} /\ Settles(n, status)
      /\ routerQueue \in Seq(Navs \cup {Disposal}) /\ routerQueue # << >> /\ routerQueue[1] = n /\ currentView = NoView
      /\ v \in Views /\ status \in {"failed", "done"}
  BY <1>a, <1>b, <1>c, <1>d
<1>2. disposal \in {"no", "queued"}
  BY <1>1 DEF RouterInv, RouterTypeOK, DisposedClean
<1> HIDE DEF status
<1>3. /\ nav' \in [Navs -> NavRecord] /\ routerQueue' \in Seq(Navs \cup {Disposal}) /\ QueueOK'
      /\ at' = "idle" /\ prevView' = NoView /\ nav'[n].status = status
      /\ (\A m \in Navs : nav'[m].status # "failed") => (\A m \in Navs : nav[m].status # "failed")
  BY <1>1, SettlesFacts
<1>s. outcome # "rendered" => status = "failed"
  BY DEF status
<1>4. registered' = IF outcome = "onEnter throws" THEN registered ELSE RegisteredFor(v)
  BY DEF EnterEnds
<1>5. /\ registered' \in [ToolNames -> Views \cup {NoView}]
      /\ outcome = "rendered" => \A t \in ToolNames : registered'[t] \in {v, registered[t]}
  BY <1>1, <1>4 DEF RouterInv, RouterTypeOK, RegisteredFor
<1>6. CASE outcome = "rendered"
  <2>1. currentView' = v /\ mounted' = v /\ roots' = roots \cup ({v} \cap ReactViews)
    BY <1>6 DEF EnterEnds
  <2>2. RouterTypeOK' /\ HookOK' /\ DisposedClean'
    BY <1>1, <1>2, <1>3, <1>5, <2>1 DEF RouterInv, RouterTypeOK, NavRecord, HookOK, DisposedClean
  <2>3. FollowsView'
    <3>1. (\A m \in Navs : nav[m].status # "failed") => \A t \in ToolNames : registered[t] = NoView
      BY <1>1 DEF RouterInv, FollowsView
    <3>2. QED
      BY <1>1, <1>3, <1>5, <1>6, <2>1, <3>1 DEF FollowsView
  <2>4. QED
    BY <1>1, <1>3, <2>2, <2>3 DEF RouterInv
<1>7. CASE outcome # "rendered"
  <2>1. UNCHANGED <<currentView, mounted>> /\ roots' = {}
    BY <1>1, <1>7 DEF EnterEnds
  <2>2. RouterTypeOK' /\ HookOK' /\ DisposedClean'
    BY <1>1, <1>2, <1>3, <1>5, <2>1 DEF RouterInv, RouterTypeOK, NavRecord, HookOK, DisposedClean
  <2>3. FollowsView'
    BY <1>3, <1>s, <1>7, <2>1 DEF FollowsView
  <2>4. QED
    BY <1>1, <1>3, <2>2, <2>3 DEF RouterInv
<1>8. QED
  BY <1>6, <1>7

\* The disposal leaves the active view first.
LEMMA StartDisposeInv == ASSUME RouterInv, StartDispose PROVE RouterInv' /\ UNCHANGED disposal
<1>1. /\ Running(Disposal) /\ at = "idle" /\ prevView' = currentView /\ currentView' = NoView /\ at' = "leaving"
      /\ UNCHANGED <<nav, routerQueue, registered, mounted, roots, disposal>>
      /\ routerQueue \in Seq(Navs \cup {Disposal}) /\ routerQueue # << >> /\ routerQueue[1] = Disposal /\ prevView = NoView
  BY DEF StartDispose, Running, RouterInv, RouterTypeOK, HookOK
<1>2. disposal \notin {"done", "failed"}
  BY <1>1 DEF RouterInv, DisposedClean
<1>3. RouterTypeOK' /\ QueueOK' /\ DisposedClean'
  BY <1>1, <1>2 DEF RouterInv, RouterTypeOK, QueueOK, DisposedClean
<1>4. HookOK'
  BY <1>1, NavsFacts DEF HookOK
<1>5. FollowsView'
  BY <1>1 DEF RouterInv, FollowsView
<1>6. QED
  BY <1>1, <1>3, <1>4, <1>5 DEF RouterInv

\* The disposal is the last of the queue: nothing of any view is left after it.
LEMMA DisposeEndsInv ==
  ASSUME RouterInv, NEW ok \in BOOLEAN, DisposeEnds(ok)
  PROVE  RouterInv' /\ disposal = "queued"
<1>1. /\ Running(Disposal) /\ at = "leaving" /\ registered' = AllRemoved /\ mounted' = NoView /\ roots' = roots \ {prevView}
      /\ disposal' = (IF ok THEN "done" ELSE "failed")
      /\ routerQueue' = Tail(routerQueue) /\ at' = "idle" /\ prevView' = NoView /\ UNCHANGED <<nav, currentView>>
      /\ currentView = NoView
  BY DEF DisposeEnds, RouterInv, HookOK
<1>2. roots' = {}
  BY <1>1, RouterAssumption DEF RouterInv, RouterTypeOK, FollowsView
<1>3. routerQueue' = << >> /\ disposal = "queued"
  <2>1. routerQueue \in Seq(Navs \cup {Disposal}) /\ routerQueue # << >> /\ Head(routerQueue) = Disposal
    BY <1>1 DEF RouterInv, RouterTypeOK, Running
  <2>2. 1 \in DOMAIN routerQueue /\ routerQueue[1] = Disposal
    BY <2>1
  <2>3. Len(routerQueue) = 1 /\ disposal = "queued"
    BY <2>2 DEF RouterInv, QueueOK
  <2>4. QED
    BY <1>1, <2>1, <2>3
<1>4. RouterTypeOK'
  <2>1. registered' \in [ToolNames -> Views \cup {NoView}]
    BY <1>1 DEF AllRemoved
  <2>2. routerQueue' \in Seq(Navs \cup {Disposal})
    BY <1>3
  <2>3. disposal' \in {"no", "queued", "done", "failed"} /\ at' = "idle" /\ prevView' = NoView /\ mounted' = NoView
    BY <1>1
  <2>4. QED
    BY <1>1, <1>2, <2>1, <2>2, <2>3 DEF RouterInv, RouterTypeOK
<1>5. QueueOK' /\ HookOK' /\ DisposedClean'
  BY <1>1, <1>2, <1>3 DEF QueueOK, HookOK, DisposedClean
<1>6. FollowsView'
  BY <1>1, <1>2 DEF FollowsView, AllRemoved
<1>7. QED
  BY <1>3, <1>4, <1>5, <1>6 DEF RouterInv

\* A tool that is removed is nobody's.
LEMMA RemoveToolInv == ASSUME RouterInv, NEW t \in ToolNames, RemoveTool(t) PROVE RouterInv' /\ UNCHANGED disposal
<1>1. /\ registered[t] # NoView /\ registered' = [registered EXCEPT ![t] = NoView]
      /\ UNCHANGED <<nav, routerQueue, at, currentView, prevView, mounted, roots, disposal>>
      /\ registered \in [ToolNames -> Views \cup {NoView}]
  BY DEF RemoveTool, RouterInv, RouterTypeOK
<1>2. registered' \in [ToolNames -> Views \cup {NoView}] /\ \A u \in ToolNames : registered'[u] \in {NoView, registered[u]}
  BY <1>1
<1>3. disposal \notin {"done", "failed"}
  BY <1>1 DEF RouterInv, DisposedClean, AllRemoved
<1>4. RouterTypeOK' /\ QueueOK' /\ HookOK' /\ DisposedClean'
  BY <1>1, <1>2, <1>3 DEF RouterInv, RouterTypeOK, QueueOK, HookOK, DisposedClean
<1>5. FollowsView'
  BY <1>1, <1>2 DEF RouterInv, FollowsView
<1>6. QED
  BY <1>1, <1>4, <1>5 DEF RouterInv

\* The router by itself: its hooks settle, and a disposal that is done stays so.
LEMMA RouterRunsInv == ASSUME RouterInv, RouterRuns PROVE RouterInv' /\ (disposal = "done" => disposal' = "done")
BY StartGotoInv, LeaveEndsInv, EnterEndsInv, StartDisposeInv, DisposeEndsInv DEF RouterRuns

-----------------------------------------------------------------------------
DispatcherRecord == [arrived : Nat, pending : Seq(Nat), queue : Seq(Nat), busy : Nat, delivered : Seq(Nat)]

\* What was delivered, what is queued and what is buffered are everything that arrived, in order.
InLine(d) ==
  /\ \A i \in DOMAIN d.delivered : d.delivered[i] = i
  /\ \A i \in DOMAIN d.queue : d.queue[i] = Len(d.delivered) + i
  /\ \A i \in DOMAIN d.pending : d.pending[i] = Len(d.delivered) + Len(d.queue) + i
  /\ d.arrived = Len(d.delivered) + Len(d.queue) + Len(d.pending)

\* The facts about sequences the dispatchers rest on.
LEMMA NoneLen == Len(<< >>) = 0 /\ << >> \in Seq(Nat)
OBVIOUS

\* What Append does, place by place.
LEMMA AppendFacts ==
  ASSUME NEW s \in Seq(Nat), NEW x \in Nat
  PROVE  /\ Append(s, x) \in Seq(Nat) /\ Len(Append(s, x)) = Len(s) + 1 /\ Append(s, x)[Len(s) + 1] = x
         /\ \A i \in 1..Len(s) : Append(s, x)[i] = s[i]
OBVIOUS

\* The length of a sequence and its domain.
LEMMA LenFacts == ASSUME NEW s \in Seq(Nat) PROVE Len(s) \in Nat /\ DOMAIN s = 1..Len(s) /\ (Len(s) = 0 => s = << >>)
OBVIOUS

\* What a concatenation holds, place by place.
LEMMA ConcatFacts ==
  ASSUME NEW s \in Seq(Nat), NEW u \in Seq(Nat)
  PROVE  /\ s \o u \in Seq(Nat) /\ Len(s \o u) = Len(s) + Len(u)
         /\ \A i \in 1..Len(s) : (s \o u)[i] = s[i]
         /\ \A i \in 1..Len(u) : (s \o u)[Len(s) + i] = u[i]
OBVIOUS

\* What Head and Tail do, place by place.
LEMMA TailFacts ==
  ASSUME NEW s \in Seq(Nat), s # << >>
  PROVE  /\ Tail(s) \in Seq(Nat) /\ Len(Tail(s)) = Len(s) - 1 /\ Len(s) >= 1 /\ Head(s) = s[1] /\ Head(s) \in Nat
         /\ \A i \in 1..(Len(s) - 1) : Tail(s)[i] = s[i + 1]
OBVIOUS

\* The numbers in place s are base + 1, base + 2, ...
From(s, base) == \A i \in 1..Len(s) : s[i] = base + i

\* The next number at the end keeps a sequence in line.
LEMMA FromAppend ==
  ASSUME NEW s \in Seq(Nat), NEW base \in Nat, From(s, base), NEW x \in Nat, x = base + Len(s) + 1
  PROVE  From(Append(s, x), base)
<1> DEFINE q == Append(s, x)
           a == Len(s)
<1>1. a \in Nat /\ Len(q) = a + 1 /\ q[a + 1] = x /\ \A i \in 1..a : q[i] = s[i]
  BY AppendFacts, LenFacts
<1>2. \A i \in 1..a : s[i] = base + i
  BY DEF From
<1>3. x = base + a + 1
  OBVIOUS
<1> HIDE DEF q, a
<1>4. ASSUME NEW i \in 1..(a + 1) PROVE q[i] = base + i
  <2>1. CASE i \in 1..a
    BY <1>1, <1>2, <2>1
  <2>2. CASE i = a + 1
    BY <1>1, <1>3, <2>2
  <2>3. QED
    BY <1>1, <2>1, <2>2
<1>5. From(q, base)
  BY <1>1, <1>4 DEF From
<1>6. QED
  BY <1>5 DEF q

\* Two sequences in line, one where the other ends, are in line together.
LEMMA FromConcat ==
  ASSUME NEW s \in Seq(Nat), NEW u \in Seq(Nat), NEW base \in Nat, From(s, base), From(u, base + Len(s))
  PROVE  From(s \o u, base)
<1> DEFINE q == s \o u
           a == Len(s)
           b == Len(u)
<1>1. a \in Nat /\ b \in Nat /\ Len(q) = a + b /\ (\A i \in 1..a : q[i] = s[i]) /\ (\A i \in 1..b : q[a + i] = u[i])
  BY ConcatFacts, LenFacts
<1>2. (\A i \in 1..a : s[i] = base + i) /\ (\A i \in 1..b : u[i] = base + a + i)
  BY DEF From
<1> HIDE DEF q, a, b
<1>3. ASSUME NEW i \in 1..(a + b) PROVE q[i] = base + i
  <2>1. CASE i <= a
    <3>1. i \in 1..a
      BY <1>1, <2>1
    <3>2. QED
      BY <1>1, <1>2, <3>1
  <2>2. CASE i > a
    <3>1. PICK j \in 1..b : i = a + j
      <4>1. i - a \in 1..b /\ i = a + (i - a)
        BY <1>1, <2>2
      <4>2. QED
        BY <4>1
    <3>2. q[i] = base + a + j
      BY <1>1, <1>2, <3>1
    <3>3. QED
      BY <1>1, <3>1, <3>2
  <2>3. QED
    BY <1>1, <2>1, <2>2
<1>4. From(q, base)
  BY <1>1, <1>3 DEF From
<1>5. QED
  BY <1>4 DEF q

\* A sequence in line begins with its first number, and its tail goes on from there.
LEMMA FromTail ==
  ASSUME NEW s \in Seq(Nat), NEW base \in Nat, From(s, base), s # << >>
  PROVE  From(Tail(s), base + 1) /\ Head(s) = base + 1
<1> DEFINE q == Tail(s)
           a == Len(s)
<1>1. a \in Nat /\ a >= 1 /\ Len(q) = a - 1 /\ Head(s) = s[1] /\ \A i \in 1..(a - 1) : q[i] = s[i + 1]
  BY TailFacts, LenFacts
<1>2. \A i \in 1..a : s[i] = base + i
  BY DEF From
<1> HIDE DEF q, a
<1>3. ASSUME NEW i \in 1..(a - 1) PROVE q[i] = base + 1 + i
  <2>1. i + 1 \in 1..a
    BY <1>1
  <2>2. q[i] = base + (i + 1)
    BY <1>1, <1>2, <2>1
  <2>3. QED
    BY <1>1, <2>2
<1>4. From(q, base + 1)
  BY <1>1, <1>3 DEF From
<1>5. 1 \in 1..a
  BY <1>1
<1>6. QED
  BY <1>1, <1>2, <1>4, <1>5 DEF q

\* A dispatcher in line, told of its parts.
Line(f, q, p, x) ==
  /\ From(f, 0) /\ From(q, Len(f)) /\ From(p, Len(f) + Len(q)) /\ x = Len(f) + Len(q) + Len(p)

\* The two ways to say that a dispatcher is in line agree.
LEMMA InLineFrom ==
  ASSUME NEW d \in DispatcherRecord
  PROVE  /\ d.pending \in Seq(Nat) /\ d.queue \in Seq(Nat) /\ d.delivered \in Seq(Nat) /\ d.arrived \in Nat
         /\ InLine(d) <=> Line(d.delivered, d.queue, d.pending, d.arrived)
<1>1. d.pending \in Seq(Nat) /\ d.queue \in Seq(Nat) /\ d.delivered \in Seq(Nat) /\ d.arrived \in Nat
  BY DEF DispatcherRecord
<1>2. /\ DOMAIN d.pending = 1..Len(d.pending) /\ DOMAIN d.queue = 1..Len(d.queue)
      /\ DOMAIN d.delivered = 1..Len(d.delivered)
  BY <1>1, LenFacts
<1>3. From(d.delivered, 0) <=> \A i \in 1..Len(d.delivered) : d.delivered[i] = i
  BY DEF From
<1>4. QED
  BY <1>1, <1>2, <1>3 DEF From, InLine, Line

\* What arrives with nothing buffered goes to the end of the queue.
LEMMA LineQueued ==
  ASSUME NEW f \in Seq(Nat), NEW q \in Seq(Nat), NEW x \in Nat, Line(f, q, << >>, x)
  PROVE  Line(f, Append(q, x + 1), << >>, x + 1)
<1>0. x + 1 \in Nat
  OBVIOUS
<1>1. PICK r \in Seq(Nat) : r = Append(q, x + 1)
  BY <1>0, AppendFacts
<1>2. Len(f) \in Nat /\ Len(q) \in Nat /\ Len(r) = Len(q) + 1 /\ Len(<< >>) = 0 /\ x = Len(f) + Len(q) + Len(<< >>)
  BY <1>1, LenFacts, AppendFacts, NoneLen DEF Line
<1>3. x + 1 = Len(f) + Len(q) + 1 /\ x + 1 = Len(f) + Len(r) + Len(<< >>)
  BY <1>2
<1>4. From(r, Len(f))
  BY <1>1, <1>2, <1>3, FromAppend DEF Line
<1>5. From(<< >>, Len(f) + Len(r))
  BY NoneLen DEF From
<1>6. QED
  BY <1>1, <1>3, <1>4, <1>5 DEF Line

\* What arrives before there is a handle goes to the end of the buffer.
LEMMA LineBuffered ==
  ASSUME NEW f \in Seq(Nat), NEW q \in Seq(Nat), NEW p \in Seq(Nat), NEW x \in Nat, Line(f, q, p, x)
  PROVE  Line(f, q, Append(p, x + 1), x + 1)
<1>0. x + 1 \in Nat
  OBVIOUS
<1>1. PICK r \in Seq(Nat) : r = Append(p, x + 1)
  BY <1>0, AppendFacts
<1>2. Len(f) \in Nat /\ Len(q) \in Nat /\ Len(p) \in Nat /\ Len(r) = Len(p) + 1 /\ x = Len(f) + Len(q) + Len(p)
  BY <1>1, LenFacts, AppendFacts DEF Line
<1>3. PICK b \in Nat : b = Len(f) + Len(q)
  BY <1>2
<1>4. x + 1 = b + Len(p) + 1 /\ x + 1 = Len(f) + Len(q) + Len(r)
  BY <1>2, <1>3
<1>5. From(r, b)
  BY <1>1, <1>3, <1>4, FromAppend DEF Line
<1>6. QED
  BY <1>1, <1>3, <1>4, <1>5 DEF Line

\* The buffer that is replayed follows what is queued.
LEMMA LineReplayed ==
  ASSUME NEW f \in Seq(Nat), NEW q \in Seq(Nat), NEW p \in Seq(Nat), NEW x \in Nat, Line(f, q, p, x)
  PROVE  Line(f, q \o p, << >>, x)
<1>1. PICK r \in Seq(Nat) : r = q \o p
  BY ConcatFacts
<1>2. /\ Len(f) \in Nat /\ Len(q) \in Nat /\ Len(p) \in Nat /\ Len(r) = Len(q) + Len(p) /\ Len(<< >>) = 0
      /\ x = Len(f) + Len(q) + Len(p)
  BY <1>1, LenFacts, ConcatFacts, NoneLen DEF Line
<1>3. x = Len(f) + Len(r) + Len(<< >>)
  BY <1>2
<1>4. From(r, Len(f))
  BY <1>1, <1>2, FromConcat DEF Line
<1>5. From(<< >>, Len(f) + Len(r))
  BY NoneLen DEF From
<1>6. QED
  BY <1>1, <1>3, <1>4, <1>5 DEF Line

\* What is delivered next is what arrived next.
LEMMA LineBegun ==
  ASSUME NEW f \in Seq(Nat), NEW q \in Seq(Nat), q # << >>, NEW p \in Seq(Nat), NEW x \in Nat, Line(f, q, p, x)
  PROVE  Line(Append(f, Head(q)), Tail(q), p, x)
<1>1. PICK h \in Nat, g \in Seq(Nat), r \in Seq(Nat) : h = Head(q) /\ g = Append(f, Head(q)) /\ r = Tail(q)
  BY TailFacts, AppendFacts
<1>2. /\ Len(f) \in Nat /\ Len(q) \in Nat /\ Len(p) \in Nat /\ Len(r) = Len(q) - 1 /\ Len(g) = Len(f) + 1
      /\ x = Len(f) + Len(q) + Len(p)
  BY <1>1, LenFacts, AppendFacts, TailFacts DEF Line
<1>3. Len(g) + Len(r) = Len(f) + Len(q) /\ x = Len(g) + Len(r) + Len(p)
  BY <1>2
<1>4. From(r, Len(f) + 1) /\ h = Len(f) + 1
  BY <1>1, <1>2, FromTail DEF Line
<1>5. From(g, 0)
  <2>1. h = 0 + Len(f) + 1
    BY <1>2, <1>4
  <2>2. QED
    BY <1>1, <2>1, FromAppend DEF Line
<1>6. QED
  BY <1>1, <1>2, <1>3, <1>4, <1>5 DEF Line

\* capture() keeps a dispatcher in line.
LEMMA CapturedInLine ==
  ASSUME NEW d \in DispatcherRecord, NEW active \in BOOLEAN, active => d.pending = << >>
  PROVE  LET e == Captured(d, active)
         IN  /\ e \in DispatcherRecord /\ e.delivered = d.delivered /\ e.arrived = d.arrived + 1
             /\ active => e.pending = << >>
             /\ InLine(d) => InLine(e)
<1>1. PICK x \in Nat : x = d.arrived + 1
  BY DEF DispatcherRecord
<1>2. d.pending \in Seq(Nat) /\ d.queue \in Seq(Nat) /\ d.delivered \in Seq(Nat) /\ d.arrived \in Nat
  BY DEF DispatcherRecord
<1>3. CASE active
  <2>1. PICK q \in Seq(Nat) : q = Append(d.queue, x)
    BY <1>2, AppendFacts
  <2>2. PICK e \in DispatcherRecord : e = [d EXCEPT !.arrived = x, !.queue = q]
    BY <1>2 DEF DispatcherRecord
  <2>3. Captured(d, active) = e
    BY <1>1, <1>3, <2>1, <2>2 DEF Captured
  <2>4. e.arrived = x /\ e.queue = q /\ e.pending = d.pending /\ e.delivered = d.delivered
    BY <2>2 DEF DispatcherRecord
  <2>5. InLine(d) => InLine(e)
    BY <1>1, <1>2, <1>3, <2>1, <2>4, InLineFrom, LineQueued
  <2>6. QED
    BY <1>1, <1>3, <2>3, <2>4, <2>5
<1>4. CASE ~active
  <2>1. PICK p \in Seq(Nat) : p = Append(d.pending, x)
    BY <1>2, AppendFacts
  <2>2. PICK e \in DispatcherRecord : e = [d EXCEPT !.arrived = x, !.pending = p]
    BY <1>2 DEF DispatcherRecord
  <2>3. Captured(d, active) = e
    BY <1>1, <1>4, <2>1, <2>2 DEF Captured
  <2>4. e.arrived = x /\ e.queue = d.queue /\ e.pending = p /\ e.delivered = d.delivered
    BY <2>2 DEF DispatcherRecord
  <2>5. InLine(d) => InLine(e)
    BY <1>1, <1>2, <2>1, <2>4, InLineFrom, LineBuffered
  <2>6. QED
    BY <1>1, <1>4, <2>3, <2>4, <2>5
<1>5. QED
  BY <1>3, <1>4

\* activate() keeps a dispatcher in line and empties its buffer.
LEMMA ReplayedInLine ==
  ASSUME NEW d \in DispatcherRecord
  PROVE  LET e == Replayed(d)
         IN  /\ e \in DispatcherRecord /\ e.delivered = d.delivered /\ e.arrived = d.arrived /\ e.pending = << >>
             /\ InLine(d) => InLine(e)
<1>1. d.pending \in Seq(Nat) /\ d.queue \in Seq(Nat) /\ d.delivered \in Seq(Nat) /\ d.arrived \in Nat
  BY DEF DispatcherRecord
<1>2. PICK q \in Seq(Nat) : q = d.queue \o d.pending
  BY <1>1, ConcatFacts
<1>3. PICK e \in DispatcherRecord : e = [d EXCEPT !.pending = << >>, !.queue = q]
  BY <1>1, NoneLen DEF DispatcherRecord
<1>4. Replayed(d) = e
  BY <1>2, <1>3 DEF Replayed
<1>5. e.arrived = d.arrived /\ e.queue = q /\ e.pending = << >> /\ e.delivered = d.delivered
  BY <1>3 DEF DispatcherRecord
<1>6. InLine(d) => InLine(e)
  BY <1>1, <1>2, <1>5, InLineFrom, LineReplayed
<1>7. QED
  BY <1>4, <1>5, <1>6

\* The head of the queue is delivered in its turn.
LEMMA BegunInLine ==
  ASSUME NEW d \in DispatcherRecord, d.queue # << >>
  PROVE  LET e == Begun(d)
         IN  /\ e \in DispatcherRecord /\ e.arrived = d.arrived /\ e.pending = d.pending
             /\ InLine(d) => InLine(e)
<1>1. d.pending \in Seq(Nat) /\ d.queue \in Seq(Nat) /\ d.delivered \in Seq(Nat) /\ d.arrived \in Nat
  BY DEF DispatcherRecord
<1>2. PICK h \in Nat : h = Head(d.queue)
  BY <1>1, TailFacts
<1>3. PICK q \in Seq(Nat) : q = Tail(d.queue)
  BY <1>1, TailFacts
<1>4. PICK f \in Seq(Nat) : f = Append(d.delivered, h)
  BY <1>1, AppendFacts
<1>5. PICK e \in DispatcherRecord : e = [d EXCEPT !.queue = q, !.busy = h, !.delivered = f]
  BY <1>1 DEF DispatcherRecord
<1>6. Begun(d) = e
  BY <1>2, <1>3, <1>4, <1>5 DEF Begun
<1>7. e.arrived = d.arrived /\ e.queue = q /\ e.pending = d.pending /\ e.delivered = f
  BY <1>5 DEF DispatcherRecord
<1>8. InLine(d) => InLine(e)
  BY <1>1, <1>2, <1>3, <1>4, <1>7, InLineFrom, LineBegun
<1>9. QED
  BY <1>6, <1>7, <1>8

\* A callback that settles changes nothing of the order.
LEMMA EndedInLine ==
  ASSUME NEW d \in DispatcherRecord
  PROVE  LET e == Ended(d)
         IN  /\ e \in DispatcherRecord /\ e.arrived = d.arrived /\ e.pending = d.pending /\ e.delivered = d.delivered
             /\ InLine(d) => InLine(e)
<1> DEFINE e == Ended(d)
<1>1. /\ e \in DispatcherRecord /\ e.arrived = d.arrived /\ e.queue = d.queue /\ e.pending = d.pending
      /\ e.delivered = d.delivered
  BY DEF Ended, DispatcherRecord
<1> HIDE DEF e
<1>2. InLine(d) => InLine(e)
  BY <1>1 DEF InLine
<1>3. QED
  BY <1>1, <1>2 DEF e

-----------------------------------------------------------------------------
AppTypes ==
  /\ notes \in DispatcherRecord /\ sessions \in DispatcherRecord
  /\ boot \in {"connecting", "routing", "replaying", "applying", "ready", "failed"}
  /\ gate \in {"none", "pending", "running", "done", "failed", "aborted"}
  /\ running \in {"no", "callback", "cleanup", "over"}
  /\ ask \in [Asks -> {"no", "asked", "answered", "rejected", "unheard"}]
  /\ revoked \in BOOLEAN /\ ran \in Nat

\* Nothing is buffered once there is somebody to hand it to, nor once the sessions are disposed.
Buffers ==
  /\ HasHandle => notes.pending = << >>
  /\ boot \in {"applying", "ready"} => sessions.pending = << >>
  /\ revoked => sessions.pending = << >>

\* Disposed sessions are passed over: what was delivered of them still is a beginning of what arrived.
Lines ==
  /\ InLine(notes)
  /\ ~revoked => InLine(sessions)
  /\ \A i \in DOMAIN sessions.delivered : sessions.delivered[i] = i

\* Where the gate is tells where the author's callback is, and how often it ran.
Gates ==
  /\ gate \in {"none", "pending", "aborted"} => running = "no"
  /\ gate = "running" => running \in {"callback", "cleanup"}
  /\ gate \in {"done", "failed"} => running = "over"
  /\ running = "no" => ran = 0
  /\ running # "no" => ran = 1
  /\ running \in {"cleanup", "over"} => revoked
  /\ gate = "done" => disposal = "done"
  /\ \A a \in Asks : ask[a] = "answered" => gate = "done"

AppInv == AppTypes /\ Buffers /\ Lines /\ Gates

\* The app as createMcpApp() begins.
LEMMA ViewInitInv == ASSUME ViewInit PROVE RouterInv /\ AppInv
<1>1. RouterInit
  BY DEF ViewInit
<1>2. RouterTypeOK
  <2>1. nav \in [Navs -> NavRecord]
    BY <1>1 DEF RouterInit, NavRecord
  <2>2. registered \in [ToolNames -> Views \cup {NoView}] /\ routerQueue \in Seq(Navs \cup {Disposal})
    BY <1>1 DEF RouterInit
  <2>3. QED
    BY <1>1, <2>1, <2>2 DEF RouterInit, RouterTypeOK, NavRecord
<1>3. QueueOK /\ HookOK /\ DisposedClean
  BY <1>1 DEF RouterInit, QueueOK, HookOK, DisposedClean
<1>4. FollowsView
  BY <1>1 DEF RouterInit, FollowsView
<1>5. notes = Dispatcher /\ sessions = Dispatcher /\ revoked = FALSE
  BY DEF ViewInit
<1>6. Dispatcher \in DispatcherRecord /\ InLine(Dispatcher)
  <2>1. Dispatcher \in DispatcherRecord
    BY NoneLen DEF Dispatcher, DispatcherRecord
  <2>2. /\ Dispatcher.delivered = << >> /\ Dispatcher.queue = << >> /\ Dispatcher.pending = << >>
        /\ Dispatcher.arrived = 0
    BY DEF Dispatcher
  <2>3. Line(<< >>, << >>, << >>, 0)
    BY NoneLen DEF Line, From
  <2>4. QED
    BY <2>1, <2>2, <2>3, InLineFrom
<1>7. AppTypes
  BY <1>5, <1>6 DEF ViewInit, AppTypes
<1>8. Buffers
  BY <1>5 DEF ViewInit, Buffers, Dispatcher, HasHandle
<1>9. Lines
  BY <1>5, <1>6 DEF Lines, InLine
<1>10. Gates
  BY DEF ViewInit, Gates
<1>11. QED
  BY <1>2, <1>3, <1>4, <1>7, <1>8, <1>9, <1>10 DEF RouterInv, AppInv

\* The router moves, the app around it does not.
LEMMA RouterOnly ==
  ASSUME AppInv, UNCHANGED appVars, disposal = "done" => disposal' = "done"
  PROVE  AppInv'
<1>1. UNCHANGED <<boot, notes, sessions, revoked, gate, running, ran, ask>>
  BY DEF appVars
<1>2. AppTypes' /\ Buffers' /\ Lines'
  BY <1>1 DEF AppInv, AppTypes, Buffers, Lines, HasHandle
<1>3. Gates'
  BY <1>1 DEF AppInv, Gates
<1>4. QED
  BY <1>2, <1>3 DEF AppInv

\* A step of the app around it leaves the router as it is.
LEMMA RouterKept == ASSUME RouterInv, UNCHANGED routerVars PROVE RouterInv' /\ UNCHANGED disposal
BY DEF routerVars, RouterInv, RouterTypeOK, QueueOK, HookOK, FollowsView, DisposedClean

\* A notification is buffered or queued.
LEMMA NoteArrivesInv == ASSUME RouterInv, AppInv, NoteArrives PROVE RouterInv' /\ AppInv'
<1>1. notes' = Captured(notes, HasHandle) /\ UNCHANGED <<routerVars, boot, sessions, revoked, gate, running, ran, ask>>
  BY DEF NoteArrives
<1>2. notes \in DispatcherRecord /\ HasHandle \in BOOLEAN /\ (HasHandle => notes.pending = << >>) /\ InLine(notes)
  BY DEF AppInv, AppTypes, Buffers, Lines, HasHandle
<1>3. notes' \in DispatcherRecord /\ (HasHandle => notes'.pending = << >>) /\ InLine(notes')
  BY <1>1, <1>2, CapturedInLine
<1>4. RouterInv' /\ UNCHANGED disposal
  BY <1>1, RouterKept
<1>5. AppTypes' /\ Buffers' /\ Lines'
  BY <1>1, <1>3 DEF AppInv, AppTypes, Buffers, Lines, HasHandle
<1>6. Gates'
  BY <1>1, <1>4 DEF AppInv, Gates
<1>7. QED
  BY <1>4, <1>5, <1>6 DEF AppInv

\* A notification's callback begins or settles.
LEMMA NoteRunsInv == ASSUME RouterInv, AppInv, NoteRuns PROVE RouterInv' /\ AppInv'
<1>1. UNCHANGED <<routerVars, boot, sessions, revoked, gate, running, ran, ask>>
  BY DEF NoteRuns
<1>2. notes \in DispatcherRecord /\ InLine(notes)
  BY DEF AppInv, AppTypes, Lines
<1>3. notes' \in DispatcherRecord /\ notes'.pending = notes.pending /\ InLine(notes')
  <2>1. CASE notes.busy = 0
    BY <1>2, <2>1, BegunInLine DEF NoteRuns, Ready
  <2>2. CASE notes.busy # 0
    BY <1>2, <2>2, EndedInLine DEF NoteRuns
  <2>3. QED
    BY <2>1, <2>2
<1>4. RouterInv' /\ UNCHANGED disposal
  BY <1>1, RouterKept
<1>5. AppTypes' /\ Buffers' /\ Lines'
  BY <1>1, <1>3 DEF AppInv, AppTypes, Buffers, Lines, HasHandle
<1>6. Gates'
  BY <1>1, <1>4 DEF AppInv, Gates
<1>7. QED
  BY <1>4, <1>5, <1>6 DEF AppInv

\* A session is buffered or queued, unless the sessions are disposed.
LEMMA SessionArrivesInv == ASSUME RouterInv, AppInv, SessionArrives PROVE RouterInv' /\ AppInv'
<1> DEFINE live == boot \in {"applying", "ready"}
<1>1. /\ ~revoked /\ sessions' = Captured(sessions, live)
      /\ UNCHANGED <<routerVars, boot, notes, revoked, gate, running, ran, ask>>
  BY DEF SessionArrives
<1>2. sessions \in DispatcherRecord /\ live \in BOOLEAN /\ (live => sessions.pending = << >>) /\ InLine(sessions)
  BY <1>1 DEF AppInv, AppTypes, Buffers, Lines
<1>3. sessions' \in DispatcherRecord /\ (live => sessions'.pending = << >>) /\ InLine(sessions')
  BY <1>1, <1>2, CapturedInLine
<1>4. RouterInv' /\ UNCHANGED disposal
  BY <1>1, RouterKept
<1>5. AppTypes' /\ Buffers'
  BY <1>1, <1>3 DEF AppInv, AppTypes, Buffers, HasHandle
<1>6. Lines'
  BY <1>1, <1>3 DEF AppInv, Lines, InLine
<1>7. Gates'
  BY <1>1, <1>4 DEF AppInv, Gates
<1>8. QED
  BY <1>4, <1>5, <1>6, <1>7 DEF AppInv

\* The queue of disposed sessions loses its head, undelivered.
LEMMA PassedOver ==
  ASSUME NEW d \in DispatcherRecord, d.queue # << >>
  PROVE  LET e == [d EXCEPT !.queue = Tail(@)]
         IN  e \in DispatcherRecord /\ e.pending = d.pending /\ e.delivered = d.delivered
<1>1. d.queue \in Seq(Nat)
  BY DEF DispatcherRecord
<1>2. PICK q \in Seq(Nat) : q = Tail(d.queue)
  BY <1>1, TailFacts
<1>3. [d EXCEPT !.queue = Tail(@)] = [d EXCEPT !.queue = q]
  BY <1>2
<1>4. LET e == [d EXCEPT !.queue = q] IN e \in DispatcherRecord /\ e.pending = d.pending /\ e.delivered = d.delivered
  BY DEF DispatcherRecord
<1>5. QED
  BY <1>3, <1>4

\* viewerSession.dispose() drops what is buffered and touches nothing else.
LEMMA DroppedFacts ==
  ASSUME NEW d \in DispatcherRecord
  PROVE  LET e == [d EXCEPT !.pending = << >>]
         IN  e \in DispatcherRecord /\ e.pending = << >> /\ e.delivered = d.delivered
BY NoneLen DEF DispatcherRecord

\* A session's callback begins or settles, or a disposed session is passed over.
LEMMA SessionRunsInv == ASSUME RouterInv, AppInv, SessionRuns PROVE RouterInv' /\ AppInv'
<1>1. UNCHANGED <<routerVars, boot, notes, revoked, gate, running, ran, ask>>
  BY DEF SessionRuns
<1>2. /\ sessions \in DispatcherRecord /\ (~revoked => InLine(sessions))
      /\ \A i \in DOMAIN sessions.delivered : sessions.delivered[i] = i
  BY DEF AppInv, AppTypes, Lines
<1>3. /\ sessions' \in DispatcherRecord /\ sessions'.pending = sessions.pending /\ (~revoked => InLine(sessions'))
      /\ \A i \in DOMAIN sessions'.delivered : sessions'.delivered[i] = i
  <2>1. CASE sessions.busy # 0
    <3>1. sessions' = Ended(sessions)
      BY <2>1 DEF SessionRuns
    <3>2. /\ sessions' \in DispatcherRecord /\ sessions'.pending = sessions.pending
          /\ sessions'.delivered = sessions.delivered /\ (InLine(sessions) => InLine(sessions'))
      BY <1>2, <3>1, EndedInLine
    <3>3. QED
      BY <1>2, <3>2
  <2>2. CASE sessions.busy = 0 /\ revoked
    <3>1. sessions.queue # << >> /\ sessions' = [sessions EXCEPT !.queue = Tail(@)]
      BY <2>2 DEF SessionRuns, Ready
    <3>2. /\ sessions' \in DispatcherRecord /\ sessions'.pending = sessions.pending
          /\ sessions'.delivered = sessions.delivered
      BY <1>2, <3>1, PassedOver
    <3>3. QED
      BY <1>2, <2>2, <3>2
  <2>3. CASE sessions.busy = 0 /\ ~revoked
    <3>1. sessions.queue # << >> /\ sessions' = Begun(sessions)
      BY <2>3 DEF SessionRuns, Ready
    <3>2. sessions' \in DispatcherRecord /\ sessions'.pending = sessions.pending /\ InLine(sessions')
      BY <1>2, <2>3, <3>1, BegunInLine
    <3>3. QED
      BY <3>2 DEF InLine
  <2>4. QED
    BY <2>1, <2>2, <2>3
<1>4. RouterInv' /\ UNCHANGED disposal
  BY <1>1, RouterKept
<1>5. AppTypes' /\ Buffers'
  BY <1>1, <1>3 DEF AppInv, AppTypes, Buffers, HasHandle
<1>6. Lines'
  BY <1>1, <1>3 DEF AppInv, Lines
<1>7. Gates'
  BY <1>1, <1>4 DEF AppInv, Gates
<1>8. QED
  BY <1>4, <1>5, <1>6, <1>7 DEF AppInv

\* The handle of a session navigates while it is not revoked.
LEMMA SessionNavigatesInv ==
  ASSUME RouterInv, AppInv, NEW n \in Navs, NEW v \in Views \cup {Unknown}, SessionNavigates(n, v)
  PROVE  RouterInv' /\ AppInv'
<1>1. UNCHANGED appVars
  BY DEF SessionNavigates
<1>2. RouterInv' /\ UNCHANGED disposal
  <2>1. CASE revoked
    BY <2>1, RefusedInv DEF SessionNavigates
  <2>2. CASE ~revoked
    BY <2>2, GotoInv DEF SessionNavigates
  <2>3. QED
    BY <2>1, <2>2
<1>3. QED
  BY <1>1, <1>2, RouterOnly

\* A bootstrap that fails.
LEMMA BootFailsInv ==
  ASSUME RouterInv, AppInv, BootFails, UNCHANGED <<routerVars, notes, running, ran, ask>>
  PROVE  RouterInv' /\ AppInv'
<1>1. /\ boot' = "failed" /\ revoked' = TRUE /\ sessions' = [sessions EXCEPT !.pending = << >>]
      /\ gate' = IF gate = "pending" THEN "aborted" ELSE gate
  BY DEF BootFails, SessionsDropped, Abort
<1>2. RouterInv' /\ UNCHANGED disposal
  BY RouterKept
<1>3. sessions' \in DispatcherRecord /\ sessions'.pending = << >> /\ sessions'.delivered = sessions.delivered
  BY <1>1, DroppedFacts DEF AppInv, AppTypes
<1>4. AppTypes' /\ Buffers' /\ Lines'
  BY <1>1, <1>3 DEF AppInv, AppTypes, Buffers, Lines, HasHandle
<1>5. Gates'
  BY <1>1, <1>2 DEF AppInv, Gates
<1>6. QED
  BY <1>2, <1>4, <1>5 DEF AppInv

\* The handshake is over: the bootstrap makes the first navigation.
LEMMA ConnectsInv == ASSUME RouterInv, AppInv, Connects PROVE RouterInv' /\ AppInv'
<1>1. boot' = "routing" /\ Goto(InitialNav, InitialView) /\ UNCHANGED <<notes, sessions, revoked, gate, running, ran, ask>>
  BY DEF Connects
<1>2. RouterInv' /\ UNCHANGED disposal
  BY <1>1, GotoInv, NavsFacts, AppAssumption
<1>3. AppTypes' /\ Buffers' /\ Lines'
  BY <1>1 DEF AppInv, AppTypes, Buffers, Lines, HasHandle
<1>4. Gates'
  BY <1>1, <1>2 DEF AppInv, Gates
<1>5. QED
  BY <1>2, <1>3, <1>4 DEF AppInv

\* The initial view is there: buffered teardown and notifications are replayed.
LEMMA ActivatesInv == ASSUME RouterInv, AppInv, Activates PROVE RouterInv' /\ AppInv'
<1>1. boot' = "replaying" /\ notes' = Replayed(notes) /\ UNCHANGED <<routerVars, sessions, revoked, ask>>
  BY DEF Activates
<1>2. RouterInv' /\ UNCHANGED disposal
  BY <1>1, RouterKept
<1>3. notes' \in DispatcherRecord /\ notes'.pending = << >> /\ InLine(notes')
  BY <1>1, ReplayedInLine DEF AppInv, AppTypes, Lines
<1>4. \/ gate = "pending" /\ gate' = "running" /\ running' = "callback" /\ ran' = ran + 1
      \/ UNCHANGED <<gate, running, ran>>
  BY DEF Activates, Run
<1>5. AppTypes' /\ Buffers' /\ Lines'
  BY <1>1, <1>3, <1>4 DEF AppInv, AppTypes, Buffers, Lines, HasHandle
<1>6. Gates'
  BY <1>1, <1>2, <1>4 DEF AppInv, AppTypes, Gates
<1>7. QED
  BY <1>2, <1>5, <1>6 DEF AppInv

\* The notifications are replayed: the sessions are, or the bootstrap fails because a teardown came first.
LEMMA ReplaysInv == ASSUME RouterInv, AppInv, Replays PROVE RouterInv' /\ AppInv'
<1>1. UNCHANGED <<routerVars, notes, running, ran, ask>>
  BY DEF Replays
<1>2. CASE revoked
  BY <1>1, <1>2, BootFailsInv DEF Replays
<1>3. CASE ~revoked
  <2>1. boot' = "applying" /\ sessions' = Replayed(sessions) /\ UNCHANGED <<revoked, gate>> /\ boot = "replaying"
    BY <1>3 DEF Replays
  <2>2. RouterInv' /\ UNCHANGED disposal
    BY <1>1, RouterKept
  <2>3. sessions' \in DispatcherRecord /\ sessions'.pending = << >> /\ InLine(sessions')
    BY <1>3, <2>1, ReplayedInLine DEF AppInv, AppTypes, Lines
  <2>4. AppTypes' /\ Buffers'
    BY <1>1, <2>1, <2>3 DEF AppInv, AppTypes, Buffers, HasHandle
  <2>5. Lines'
    BY <1>1, <2>1, <2>3 DEF AppInv, Lines, InLine
  <2>6. Gates'
    BY <1>1, <2>1, <2>2 DEF AppInv, Gates
  <2>7. QED
    BY <2>2, <2>4, <2>5, <2>6 DEF AppInv
<1>4. QED
  BY <1>2, <1>3

\* The sessions are replayed: the handle is given out.
LEMMA AppliesInv == ASSUME RouterInv, AppInv, Applies PROVE RouterInv' /\ AppInv'
<1>1. boot = "applying" /\ boot' = "ready" /\ UNCHANGED <<routerVars, notes, sessions, revoked, gate, running, ran, ask>>
  BY DEF Applies
<1>2. RouterInv' /\ UNCHANGED disposal
  BY <1>1, RouterKept
<1>3. AppTypes' /\ Buffers' /\ Lines'
  BY <1>1 DEF AppInv, AppTypes, Buffers, Lines, HasHandle
<1>4. Gates'
  BY <1>1, <1>2 DEF AppInv, Gates
<1>5. QED
  BY <1>2, <1>3, <1>4 DEF AppInv

\* A request joins the cleanup there is, starts it, or is buffered.
LEMMA AskedInv == ASSUME RouterInv, AppInv, NEW a \in Asks, Asked(a) PROVE RouterInv' /\ AppInv'
<1>1. ask' = [ask EXCEPT ![a] = "asked"] /\ UNCHANGED <<routerVars, boot, notes, sessions, revoked>>
  BY DEF Asked
<1>2. RouterInv' /\ UNCHANGED disposal
  BY <1>1, RouterKept
<1>3. \/ UNCHANGED <<gate, running, ran>>
      \/ gate = "none" /\ gate' = "pending" /\ UNCHANGED <<running, ran>>
      \/ gate = "none" /\ gate' = "running" /\ running' = "callback" /\ ran' = ran + 1
  BY DEF Asked, Request, Run
<1>4. ask' \in [Asks -> {"no", "asked", "answered", "rejected", "unheard"}] /\ \A b \in Asks : ask'[b] = "answered" => ask[b] = "answered"
  BY <1>1 DEF AppInv, AppTypes
<1>5. AppTypes' /\ Buffers' /\ Lines'
  BY <1>1, <1>3, <1>4 DEF AppInv, AppTypes, Buffers, Lines, HasHandle
<1>6. Gates'
  BY <1>1, <1>2, <1>3, <1>4 DEF AppInv, AppTypes, Gates
<1>7. QED
  BY <1>2, <1>5, <1>6 DEF AppInv

\* The author's callback settles: sessions and router are disposed.
LEMMA CallbackEndsInv == ASSUME RouterInv, AppInv, CallbackEnds PROVE RouterInv' /\ AppInv'
<1>1. /\ running = "callback" /\ running' = "cleanup" /\ revoked' = TRUE
      /\ sessions' = [sessions EXCEPT !.pending = << >>] /\ UNCHANGED <<boot, notes, gate, ran, ask>>
  BY DEF CallbackEnds, SessionsDropped
<1>2. RouterInv'
  BY DisposeInv DEF CallbackEnds
<1>3. sessions' \in DispatcherRecord /\ sessions'.pending = << >> /\ sessions'.delivered = sessions.delivered
  BY <1>1, DroppedFacts DEF AppInv, AppTypes
<1>4. AppTypes' /\ Buffers' /\ Lines'
  BY <1>1, <1>3 DEF AppInv, AppTypes, Buffers, Lines, HasHandle
<1>5. gate = "running"
  BY <1>1 DEF AppInv, AppTypes, Gates
<1>6. Gates'
  BY <1>1, <1>5 DEF AppInv, Gates
<1>7. QED
  BY <1>2, <1>4, <1>6 DEF AppInv

\* The cleanup settles with what the router's disposal says.
LEMMA CleanupEndsInv == ASSUME RouterInv, AppInv, CleanupEnds PROVE RouterInv' /\ AppInv'
<1>1. running = "cleanup" /\ running' = "over" /\ UNCHANGED <<routerVars, boot, notes, sessions, revoked, ran, ask>>
  BY DEF CleanupEnds
<1>2. RouterInv' /\ UNCHANGED disposal
  BY <1>1, RouterKept
<1>3. gate' \in {"done", "failed"} /\ (gate' = "done" => disposal = "done")
  BY DEF CleanupEnds
<1>4. gate = "running"
  BY <1>1 DEF AppInv, AppTypes, Gates
<1>5. AppTypes' /\ Buffers' /\ Lines'
  BY <1>1, <1>3 DEF AppInv, AppTypes, Buffers, Lines, HasHandle
<1>6. Gates'
  BY <1>1, <1>2, <1>3, <1>4 DEF AppInv, Gates
<1>7. QED
  BY <1>2, <1>5, <1>6 DEF AppInv

\* Whoever asked is answered with what the cleanup came to.
LEMMA AnswersInv == ASSUME RouterInv, AppInv, NEW a \in Asks, Answers(a) PROVE RouterInv' /\ AppInv'
<1>1. /\ ask' = [ask EXCEPT ![a] = IF gate = "done" THEN "answered" ELSE "rejected"]
      /\ UNCHANGED <<routerVars, boot, notes, sessions, revoked, gate, running, ran>>
  BY DEF Answers
<1>2. RouterInv' /\ UNCHANGED disposal
  BY <1>1, RouterKept
<1>3. /\ ask' \in [Asks -> {"no", "asked", "answered", "rejected", "unheard"}]
      /\ \A b \in Asks : ask'[b] = "answered" => ask[b] = "answered" \/ gate = "done"
  BY <1>1 DEF AppInv, AppTypes
<1>4. AppTypes' /\ Buffers' /\ Lines'
  BY <1>1, <1>3 DEF AppInv, AppTypes, Buffers, Lines, HasHandle
<1>5. Gates'
  BY <1>1, <1>2, <1>3 DEF AppInv, Gates
<1>6. QED
  BY <1>2, <1>4, <1>5 DEF AppInv

\* An answer nobody hears changes nothing but its own record.
LEMMA GoesUnheardInv == ASSUME RouterInv, AppInv, NEW a \in Asks, GoesUnheard(a) PROVE RouterInv' /\ AppInv'
<1>1. ask' = [ask EXCEPT ![a] = "unheard"] /\ UNCHANGED <<routerVars, boot, notes, sessions, revoked, gate, running, ran>>
  BY DEF GoesUnheard
<1>2. RouterInv' /\ UNCHANGED disposal
  BY <1>1, RouterKept
<1>3. /\ ask' \in [Asks -> {"no", "asked", "answered", "rejected", "unheard"}]
      /\ \A b \in Asks : ask'[b] = "answered" => ask[b] = "answered"
  BY <1>1 DEF AppInv, AppTypes
<1>4. AppTypes' /\ Buffers' /\ Lines'
  BY <1>1, <1>3 DEF AppInv, AppTypes, Buffers, Lines, HasHandle
<1>5. Gates'
  BY <1>1, <1>2, <1>3 DEF AppInv, Gates
<1>6. QED
  BY <1>2, <1>4, <1>5 DEF AppInv

\* Every step of the app keeps both invariants.
LEMMA ViewNextInv == ASSUME RouterInv, AppInv, [ViewNext]_viewVars PROVE RouterInv' /\ AppInv'
<1>1. CASE UNCHANGED viewVars
  <2>1. UNCHANGED routerVars /\ UNCHANGED appVars
    BY <1>1 DEF viewVars
  <2>2. RouterInv' /\ UNCHANGED disposal
    BY <2>1, RouterKept
  <2>3. QED
    BY <2>1, <2>2, RouterOnly
<1>2. CASE Progress
  <2>1. CASE RouterRuns /\ UNCHANGED appVars
    BY <2>1, RouterRunsInv, RouterOnly
  <2>2. CASE ConnectFails \/ RouteFails
    BY <2>2, BootFailsInv DEF ConnectFails, RouteFails
  <2>3. CASE NoteRuns \/ SessionRuns
    BY <2>3, NoteRunsInv, SessionRunsInv
  <2>4. CASE Connects \/ Activates \/ Replays \/ Applies
    BY <2>4, ConnectsInv, ActivatesInv, ReplaysInv, AppliesInv
  <2>5. CASE CallbackEnds \/ CleanupEnds \/ \E a \in Asks : Answers(a) \/ GoesUnheard(a)
    BY <2>5, CallbackEndsInv, CleanupEndsInv, AnswersInv, GoesUnheardInv
  <2>6. QED
    BY <1>2, <2>1, <2>2, <2>3, <2>4, <2>5 DEF Progress
<1>3. CASE NoteArrives \/ SessionArrives
  BY <1>3, NoteArrivesInv, SessionArrivesInv
<1>4. ASSUME NEW n \in Navs, NEW v \in Views \cup {Unknown}, Navigates(n, v) \/ SessionNavigates(n, v)
      PROVE  RouterInv' /\ AppInv'
  <2>1. CASE Navigates(n, v)
    <3>1. Goto(n, v) /\ UNCHANGED appVars
      BY <2>1 DEF Navigates
    <3>2. RouterInv' /\ UNCHANGED disposal
      BY <3>1, GotoInv
    <3>3. QED
      BY <3>1, <3>2, RouterOnly
  <2>2. CASE SessionNavigates(n, v)
    BY <2>2, SessionNavigatesInv
  <2>3. QED
    BY <1>4, <2>1, <2>2
<1>5. ASSUME NEW t \in ToolNames, ToolRemoved(t) PROVE RouterInv' /\ AppInv'
  <2>1. RemoveTool(t) /\ UNCHANGED appVars
    BY <1>5 DEF ToolRemoved
  <2>2. RouterInv' /\ UNCHANGED disposal
    BY <2>1, RemoveToolInv
  <2>3. QED
    BY <2>1, <2>2, RouterOnly
<1>6. CASE \E a \in Asks : Asked(a)
  BY <1>6, AskedInv
<1>7. QED
  BY <1>1, <1>2, <1>3, <1>4, <1>5, <1>6 DEF ViewNext

\* The invariants say what the host and the author may rely on.
LEMMA InvOneView == ASSUME RouterInv, AppInv PROVE OneViewAtATime
<1>1. FollowsView /\ DisposedClean
  BY DEF RouterInv
<1>2. TeardownOnce
  <2>1. ran <= 1
    BY DEF AppInv, AppTypes, Gates
  <2>2. ASSUME NEW a \in Asks, ask[a] = "answered"
        PROVE  ran = 1 /\ registered = AllRemoved /\ mounted = NoView /\ roots = {} /\ sessions.pending = << >>
    <3>1. gate = "done"
      BY <2>2 DEF AppInv, Gates
    <3>2. running = "over" /\ disposal = "done"
      BY <3>1 DEF AppInv, Gates
    <3>3. ran = 1 /\ revoked
      BY <3>2 DEF AppInv, Gates
    <3>4. sessions.pending = << >>
      BY <3>3 DEF AppInv, Buffers
    <3>5. QED
      BY <1>1, <3>2, <3>3, <3>4 DEF DisposedClean
  <2>3. QED
    BY <2>1, <2>2 DEF TeardownOnce
<1>3. InArrivalOrder
  BY DEF AppInv, Lines, InLine, InArrivalOrder
<1>4. QED
  BY <1>1, <1>2, <1>3 DEF OneViewAtATime

\* However navigation, teardown and buffered messages meet, the host and the author see one view at a time, the
\* teardown callback runs once, and notifications and sessions come in order (router.ts, lifecycle.ts).
THEOREM OneView == ViewSpec => []OneViewAtATime
<1>1. ViewInit => RouterInv /\ AppInv
  BY ViewInitInv
<1>2. RouterInv /\ AppInv /\ [ViewNext]_viewVars => (RouterInv /\ AppInv)'
  BY ViewNextInv
<1>3. RouterInv /\ AppInv => OneViewAtATime
  BY InvOneView
<1>4. QED
  BY <1>1, <1>2, <1>3, PTL DEF ViewSpec

-----------------------------------------------------------------------------
(* The display of startSurfaceApp().                                           *)

DisplayRecord == [view : {"status"}, what : {"loading", "error", "empty"}] \cup [view : {"surface"}, what : ValidData]
StepRecord == [kind : {"show", "remount"}, display : DisplayRecord, from : {"tools", "session", "author", "self"}]
ContextSet == {Context(c, n) : c \in HostContexts, n \in 0..MaxContexts}
Locales == {c.locale : c \in ContextSet}
SurfaceNames == {NoSurface} \cup {Selected(c) : c \in ContextSet}
ShownRecord == [data : Optional(ValidData), status : Optional(DisplayRecord), context : Optional(ContextSet),
                locale : Locales, statusLocale : Optional(Locales)]
MountRecord == [status : {"no", "mounting", "mounted", "failed", "over"}, alive : Nat, data : Optional(ValidData),
                surface : SurfaceNames]

SurfaceTypes ==
  /\ hostContext \in ContextSet /\ chain \in Seq(StepRecord)
  /\ moving \in {"idle", "leaving", "entering"} /\ target \in Optional(DisplayRecord)
  /\ view \in {"status", "surface", "none"} /\ shown \in ShownRecord /\ lastShown \in DisplayRecord
  /\ mounts \in [1..MaxMounts -> MountRecord]
  /\ mountGeneration \in Nat /\ pendingMount \in 0..MaxMounts /\ mountedSurface \in 0..MaxMounts
  /\ closing \in {"no", "closed", "queued", "done"} /\ listening \in BOOLEAN /\ leaveFailed \in BOOLEAN

\* Only the pending mount has live components, and it is the displayed surface's unless that is being left.
MountsOK ==
  /\ pendingMount <= mountGeneration /\ mountedSurface \in {0, pendingMount}
  /\ mountedSurface # 0 => mounts[mountedSurface].status = "mounted"
  /\ \A g \in 1..MaxMounts : /\ mounts[g].status = "mounting" => g = pendingMount
                             /\ mounts[g].status = "mounted" => g = mountedSurface
                             /\ mounts[g].alive > 0 => mounts[g].status \in {"mounting", "mounted"}
  /\ moving = "leaving" => pendingMount < mountGeneration
  /\ moving # "leaving" /\ view # "surface" => pendingMount = 0
  /\ pendingMount # 0 /\ view = "surface" => /\ pendingMount = mountGeneration
                                             /\ mounts[pendingMount].data = shown.data
                                             /\ mounts[pendingMount].surface = Selected(shown.context[1])

\* Where the router is, with the step it runs at the head of the chain.
MovesOK ==
  /\ moving # "idle" => view = "none"
  /\ moving # "idle" /\ target # << >> =>
       /\ chain # << >> /\ (chain[1].kind = "show" => target = <<chain[1].display>>)
       /\ target[1].view = "status" => shown.status = target
  /\ moving # "idle" /\ target = << >> => moving = "leaving" /\ closing = "queued"
  /\ view = "surface" => shown.data # << >> /\ shown.context # << >>
  /\ closing = "done" => moving = "idle" /\ view = "none"

NoShow == \A i \in DOMAIN chain : chain[i].kind # "show"

\* The last display of the chain is the one the App was last told to show.
LastInChain ==
  \A i \in DOMAIN chain :
    chain[i].kind = "show" /\ (\A j \in DOMAIN chain : j > i => chain[j].kind # "show") => chain[i].display = lastShown

Displayed ==
  /\ view = lastShown.view
  /\ IF view = "status" THEN shown.data = << >> /\ shown.status = <<lastShown>> ELSE shown.data = <<lastShown.what>>

NothingStale == IF view = "status" THEN shown.statusLocale = <<hostContext.locale>> ELSE shown.context = <<hostContext>>

\* With no display to come, the last one is there or on its way; with nothing to come at all, it is fresh.
DisplayOK ==
  /\ listening => closing = "no" /\ shown.locale = hostContext.locale
  /\ closing = "no" /\ ~leaveFailed /\ NoShow => IF moving = "idle" THEN Displayed ELSE target = <<lastShown>>
  /\ listening /\ chain = << >> /\ moving = "idle" /\ ~leaveFailed => NothingStale

SurfaceInv == SurfaceTypes /\ MountsOK /\ MovesOK /\ LastInChain /\ DisplayOK

\* The displays and the step the App makes by itself.
LEMMA LoadingFacts == Loading \in DisplayRecord /\ Failure \in DisplayRecord /\ Remount \in StepRecord /\ Remount.kind = "remount"
BY DEF Loading, Failure, Remount, DisplayRecord, StepRecord

\* The default projection shows a status, or data the App's guard accepts.
LEMMA ProjectionFacts == \A d \in Projections : d \in DisplayRecord
<1> SUFFICES ASSUME NEW r \in ToolResults PROVE DefaultProjection(r, JsonObjects, ValidData) \in DisplayRecord
  BY DEF Projections
<1> DEFINE data == ReadResultData(r, JsonObjects, ValidData)
<1>1. \A x : Guarded(x, ValidData) \in Optional(ValidData)
  BY DEF Guarded, Optional
<1>2. data \in Optional(ValidData)
  BY <1>1 DEF ReadResultData, Optional
<1> HIDE DEF data
<1>3. data = << >> \/ data[1] \in ValidData
  BY <1>2 DEF Optional
<1>4. DefaultProjection(r, JsonObjects, ValidData)
        = IF data = << >> THEN [view |-> "status", what |-> "empty"] ELSE [view |-> "surface", what |-> data[1]]
  BY DEF DefaultProjection, data
<1>5. QED
  BY <1>3, <1>4 DEF DisplayRecord

\* What a host context is made of.
LEMMA ContextFacts ==
  /\ \A c \in ContextSet : c.locale \in Locales /\ Selected(c) \in SurfaceNames
  /\ \A c \in HostContexts, n \in 0..MaxContexts : Context(c, n) \in ContextSet /\ Context(c, n).id = n
  /\ \A c \in ContextSet : c.id \in 0..MaxContexts
BY DEF ContextSet, Locales, SurfaceNames, Context

\* What changes with the locale alone.
LEMMA WithLocale ==
  ASSUME NEW s \in ShownRecord, NEW l \in Locales
  PROVE  LET e == [s EXCEPT !.locale = l]
         IN  /\ e \in ShownRecord /\ e.locale = l /\ e.data = s.data /\ e.status = s.status /\ e.context = s.context
             /\ e.statusLocale = s.statusLocale
BY DEF ShownRecord

\* What changes with the status to show.
LEMMA WithStatus ==
  ASSUME NEW s \in ShownRecord, NEW x \in Optional(DisplayRecord)
  PROVE  LET e == [s EXCEPT !.status = x]
         IN  /\ e \in ShownRecord /\ e.status = x /\ e.data = s.data /\ e.locale = s.locale /\ e.context = s.context
             /\ e.statusLocale = s.statusLocale
BY DEF ShownRecord

\* What changes with the context rendered.
LEMMA WithContext ==
  ASSUME NEW s \in ShownRecord, NEW x \in Optional(ContextSet)
  PROVE  LET e == [s EXCEPT !.context = x]
         IN  /\ e \in ShownRecord /\ e.context = x /\ e.data = s.data /\ e.locale = s.locale /\ e.status = s.status
             /\ e.statusLocale = s.statusLocale
BY DEF ShownRecord

\* What changes when the status view is rendered.
LEMMA WithStatusShown ==
  ASSUME NEW s \in ShownRecord, NEW l \in Locales
  PROVE  LET e == [s EXCEPT !.data = << >>, !.locale = l, !.statusLocale = <<l>>]
         IN  /\ e \in ShownRecord /\ e.data = << >> /\ e.locale = l /\ e.statusLocale = <<l>> /\ e.status = s.status
             /\ e.context = s.context
BY DEF ShownRecord, Optional

\* One more step at the end of the chain.
LEMMA ChainGrows ==
  ASSUME NEW e \in StepRecord, chain \in Seq(StepRecord), chain' = Append(chain, e)
  PROVE  /\ chain' \in Seq(StepRecord) /\ chain' # << >> /\ (chain # << >> => chain'[1] = chain[1])
         /\ Len(chain) \in Nat /\ DOMAIN chain = 1..Len(chain) /\ DOMAIN chain' = 1..(Len(chain) + 1)
         /\ \A i \in 1..Len(chain) : chain'[i] = chain[i]
         /\ chain'[Len(chain) + 1] = e
<1>1. /\ chain' \in Seq(StepRecord) /\ Len(chain') = Len(chain) + 1 /\ Len(chain) \in Nat
      /\ DOMAIN chain = 1..Len(chain) /\ DOMAIN chain' = 1..(Len(chain) + 1)
      /\ \A i \in 1..Len(chain) : chain'[i] = chain[i]
      /\ chain'[Len(chain) + 1] = e
  OBVIOUS
<1>2. chain # << >> => 1 \in 1..Len(chain)
  OBVIOUS
<1>3. chain' # << >>
  BY <1>1
<1>4. QED
  BY <1>1, <1>2, <1>3

\* A display that joins the chain is the last one told.
LEMMA ShownLast ==
  ASSUME NEW e \in StepRecord, chain \in Seq(StepRecord), chain' = Append(chain, e), e.kind = "show", lastShown' = e.display
  PROVE  LastInChain' /\ ~NoShow'
<1> DEFINE n == Len(chain) + 1
<1>1. n \in DOMAIN chain' /\ chain'[n] = e /\ \A i \in DOMAIN chain' : i \in Nat /\ (i = n \/ n > i)
  BY ChainGrows
<1> HIDE DEF n
<1>2. LastInChain'
  BY <1>1 DEF LastInChain
<1>3. ~NoShow'
  BY <1>1 DEF NoShow
<1>4. QED
  BY <1>2, <1>3

\* A remount that joins the chain leaves the last display as it was.
LEMMA RemountLast ==
  ASSUME NEW e \in StepRecord, chain \in Seq(StepRecord), chain' = Append(chain, e), e.kind = "remount", lastShown' = lastShown,
         LastInChain
  PROVE  LastInChain' /\ (NoShow' => NoShow)
<1> DEFINE n == Len(chain) + 1
<1>1. /\ n \in DOMAIN chain' /\ chain'[n] = e /\ \A i \in DOMAIN chain : i \in DOMAIN chain' /\ chain'[i] = chain[i]
      /\ \A i \in DOMAIN chain' : i = n \/ i \in DOMAIN chain
  BY ChainGrows
<1> HIDE DEF n
<1>2. LastInChain'
  BY <1>1 DEF LastInChain
<1>3. NoShow' => NoShow
  BY <1>1 DEF NoShow
<1>4. QED
  BY <1>2, <1>3

\* The head of the chain is over.
LEMMA ChainShrinks ==
  ASSUME chain \in Seq(StepRecord), chain # << >>, chain' = Tail(chain), lastShown' = lastShown, LastInChain
  PROVE  /\ chain' \in Seq(StepRecord) /\ LastInChain' /\ Head(chain) = chain[1]
         /\ NoShow' => NoShow \/ (chain[1].kind = "show" /\ chain[1].display = lastShown)
<1>1. /\ chain' \in Seq(StepRecord) /\ Head(chain) = chain[1] /\ 1 \in DOMAIN chain
      /\ \A i \in DOMAIN chain' : i \in Nat /\ i + 1 \in DOMAIN chain /\ chain'[i] = chain[i + 1]
  OBVIOUS
<1>k. ASSUME NEW i \in DOMAIN chain, i # 1 PROVE \E k \in DOMAIN chain' : i = k + 1 /\ k \in Nat /\ chain'[k] = chain[i]
  <2>1. i - 1 \in DOMAIN chain' /\ (i - 1) + 1 = i
    BY <1>k
  <2>2. QED
    BY <1>1, <2>1
<1>2. LastInChain'
  <2> SUFFICES ASSUME NEW i \in DOMAIN chain', chain'[i].kind = "show",
                      \A j \in DOMAIN chain' : j > i => chain'[j].kind # "show"
               PROVE  chain'[i].display = lastShown
    BY DEF LastInChain
  <2>1. ASSUME NEW j \in DOMAIN chain, j > i + 1 PROVE chain[j].kind # "show"
    <3>1. i \in Nat /\ j # 1
      BY <1>1, <2>1
    <3>2. PICK k \in DOMAIN chain' : j = k + 1 /\ k \in Nat /\ chain'[k] = chain[j]
      BY <1>k, <3>1
    <3>3. k > i
      BY <2>1, <3>1, <3>2
    <3>4. QED
      BY <3>2, <3>3
  <2>2. QED
    BY <1>1, <2>1 DEF LastInChain
<1>3. ASSUME NoShow', ~NoShow PROVE chain[1].kind = "show" /\ chain[1].display = lastShown
  <2>1. \A i \in DOMAIN chain : i = 1 \/ chain[i].kind # "show"
    BY <1>k, <1>3 DEF NoShow
  <2>2. chain[1].kind = "show"
    BY <1>3, <2>1 DEF NoShow
  <2>3. \A j \in DOMAIN chain : j > 1 => chain[j].kind # "show"
    BY <1>1, <2>1
  <2>4. QED
    BY <1>1, <2>2, <2>3 DEF LastInChain
<1>4. QED
  BY <1>1, <1>2, <1>3

-----------------------------------------------------------------------------

\* The App with its initial status view.
LEMMA SurfaceInitInv == ASSUME SurfaceInit PROVE SurfaceInv
<1>1. PICK c \in HostContexts : hostContext = Context(c, 0)
  BY DEF SurfaceInit
<1>2. hostContext \in ContextSet /\ hostContext.locale \in Locales
  BY <1>1, ContextFacts, SurfaceAssumption
<1>3. /\ chain = << >> /\ moving = "idle" /\ target = << >> /\ view = "status" /\ mountGeneration = 0 /\ pendingMount = 0
      /\ mountedSurface = 0 /\ closing = "no" /\ listening = FALSE /\ lastShown = Loading /\ leaveFailed = FALSE
      /\ shown = [data |-> << >>, status |-> <<Loading>>, context |-> << >>,
                  locale |-> hostContext.locale, statusLocale |-> <<hostContext.locale>>]
      /\ mounts = [g \in 1..MaxMounts |-> [status |-> "no", alive |-> 0, data |-> << >>, surface |-> NoSurface]]
  BY DEF SurfaceInit
<1>4. shown \in ShownRecord
  BY <1>2, <1>3, LoadingFacts DEF ShownRecord, Optional
<1>5. mounts \in [1..MaxMounts -> MountRecord]
  BY <1>3 DEF MountRecord, Optional, SurfaceNames
<1>6. SurfaceTypes
  <2>1. chain \in Seq(StepRecord) /\ target \in Optional(DisplayRecord) /\ lastShown \in DisplayRecord
    BY <1>3, LoadingFacts DEF Optional
  <2>2. pendingMount \in 0..MaxMounts /\ mountedSurface \in 0..MaxMounts /\ mountGeneration \in Nat
    BY <1>3, SurfaceAssumption
  <2>3. QED
    BY <1>2, <1>3, <1>4, <1>5, <2>1, <2>2 DEF SurfaceTypes
<1>7. MountsOK
  BY <1>3 DEF MountsOK
<1>8. MovesOK /\ LastInChain
  BY <1>3 DEF MovesOK, LastInChain
<1>9. DisplayOK
  BY <1>3 DEF DisplayOK, Displayed, Loading
<1>10. QED
  BY <1>6, <1>7, <1>8, <1>9 DEF SurfaceInv

\* A display joins the chain.
LEMMA ShowInv ==
  ASSUME SurfaceInv, NEW d \in DisplayRecord, NEW from \in {"tools", "session", "author", "self"}, Show(d, from),
         UNCHANGED <<hostContext, moving, target, view, shown, mounts, mountGeneration, pendingMount, mountedSurface,
                     closing, listening, leaveFailed>>
  PROVE  SurfaceInv'
<1>1. PICK e \in StepRecord : e = [kind |-> "show", display |-> d, from |-> from]
  BY DEF StepRecord
<1>2. chain' = Append(chain, e) /\ lastShown' = e.display /\ e.kind = "show" /\ chain \in Seq(StepRecord) /\ e.display = d
  BY <1>1 DEF Show, SurfaceInv, SurfaceTypes
<1>3. LastInChain' /\ ~NoShow'
  BY <1>2, ShownLast
<1>4. chain' \in Seq(StepRecord) /\ chain' # << >> /\ (chain # << >> => chain'[1] = chain[1])
  BY <1>2, ChainGrows
<1>5. SurfaceTypes' /\ MountsOK'
  BY <1>2, <1>4 DEF SurfaceInv, SurfaceTypes, MountsOK
<1>6. MovesOK'
  BY <1>4 DEF SurfaceInv, MovesOK
<1>7. DisplayOK'
  BY <1>3, <1>4 DEF SurfaceInv, DisplayOK
<1>8. QED
  BY <1>3, <1>5, <1>6, <1>7 DEF SurfaceInv

\* The locale moves, and the listener has a remount join the chain.
LEMMA RemountQueued ==
  ASSUME SurfaceInv, chain' = Append(chain, Remount), hostContext' \in ContextSet,
         shown' = [shown EXCEPT !.locale = hostContext'.locale], closing = "no", listening' \in BOOLEAN,
         UNCHANGED <<moving, target, view, mounts, mountGeneration, pendingMount, mountedSurface, closing, lastShown, leaveFailed>>
  PROVE  SurfaceInv'
<1>1. chain \in Seq(StepRecord) /\ shown \in ShownRecord /\ LastInChain
  BY DEF SurfaceInv, SurfaceTypes
<1>2. LastInChain' /\ (NoShow' => NoShow)
  BY <1>1, LoadingFacts, RemountLast
<1>3. chain' \in Seq(StepRecord) /\ chain' # << >> /\ (chain # << >> => chain'[1] = chain[1])
  BY <1>1, LoadingFacts, ChainGrows
<1>4. hostContext'.locale \in Locales
  BY ContextFacts
<1>5. /\ shown' \in ShownRecord /\ shown'.locale = hostContext'.locale /\ shown'.data = shown.data
      /\ shown'.status = shown.status /\ shown'.context = shown.context
  BY <1>1, <1>4, WithLocale
<1>6. SurfaceTypes' /\ MountsOK'
  BY <1>3, <1>5 DEF SurfaceInv, SurfaceTypes, MountsOK
<1>7. MovesOK'
  BY <1>3, <1>5 DEF SurfaceInv, MovesOK
<1>8. DisplayOK'
  BY <1>2, <1>3, <1>5 DEF SurfaceInv, DisplayOK, Displayed
<1>9. QED
  BY <1>2, <1>6, <1>7, <1>8 DEF SurfaceInv

\* onToolResult and onSession take the locale and wait for the projection.
LEMMA ProjectsInv == ASSUME SurfaceInv, NEW d \in Dispatchers, Projects(d) PROVE SurfaceInv'
<1>1. /\ shown' = [shown EXCEPT !.locale = hostContext.locale] /\ shown \in ShownRecord /\ hostContext.locale \in Locales
      /\ UNCHANGED <<hostContext, chain, moving, target, view, mounts, mountGeneration, pendingMount, mountedSurface,
                     closing, listening, lastShown, leaveFailed>>
  BY ContextFacts DEF Projects, SurfaceInv, SurfaceTypes
<1>2. /\ shown' \in ShownRecord /\ shown'.locale = hostContext.locale /\ shown'.data = shown.data
      /\ shown'.status = shown.status /\ shown'.context = shown.context /\ shown'.statusLocale = shown.statusLocale
  BY <1>1, WithLocale
<1>3. SurfaceTypes' /\ MountsOK'
  BY <1>1, <1>2 DEF SurfaceInv, SurfaceTypes, MountsOK
<1>4. MovesOK' /\ LastInChain'
  BY <1>1, <1>2 DEF SurfaceInv, MovesOK, LastInChain
<1>5. DisplayOK'
  BY <1>1, <1>2 DEF SurfaceInv, DisplayOK, Displayed, NoShow, NothingStale
<1>6. QED
  BY <1>3, <1>4, <1>5 DEF SurfaceInv

\* The host context moves, before the listener is there or after.
LEMMA ContextChangesInv == ASSUME SurfaceInv, ContextChanges PROVE SurfaceInv'
<1>1. hostContext' \in ContextSet
  <2>1. PICK c \in HostContexts : hostContext' = Context(c, hostContext.id + 1)
    BY DEF ContextChanges
  <2>2. hostContext.id \in 0..MaxContexts /\ hostContext.id < MaxContexts
    BY ContextFacts DEF ContextChanges, SurfaceInv, SurfaceTypes
  <2>3. hostContext.id + 1 \in 0..MaxContexts
    BY <2>2, SurfaceAssumption
  <2>4. QED
    BY <2>1, <2>3, ContextFacts
<1>2. CASE listening /\ closing = "no"
  BY <1>1, <1>2, RemountQueued DEF ContextChanges, SurfaceInv, SurfaceTypes
<1>3. CASE ~(listening /\ closing = "no")
  <2>1. UNCHANGED <<chain, shown, moving, target, view, mounts, mountGeneration, pendingMount, mountedSurface, closing,
                    listening, lastShown, leaveFailed>> /\ ~listening
    BY <1>3 DEF ContextChanges, SurfaceInv, DisplayOK
  <2>2. SurfaceTypes' /\ MountsOK'
    BY <1>1, <2>1 DEF SurfaceInv, SurfaceTypes, MountsOK
  <2>3. MovesOK' /\ LastInChain'
    BY <2>1 DEF SurfaceInv, MovesOK, LastInChain
  <2>4. DisplayOK'
    BY <2>1 DEF SurfaceInv, DisplayOK, Displayed, NoShow
  <2>5. QED
    BY <2>2, <2>3, <2>4 DEF SurfaceInv
<1>4. QED
  BY <1>2, <1>3

\* The listener is added and catches up with what moved before.
LEMMA ListensInv == ASSUME SurfaceInv, Listens PROVE SurfaceInv'
BY RemountQueued DEF Listens, CatchesUp, SurfaceInv, SurfaceTypes

\* navigate() of the step at the head of the chain, towards d.
LEMMA NavigateInv ==
  ASSUME SurfaceInv, chain # << >>, moving = "idle", NEW d \in DisplayRecord, Navigate(d),
         shown' \in ShownRecord, shown'.data = shown.data, shown'.context = shown.context, shown'.locale = shown.locale,
         chain[1].kind = "show" => chain[1].display = d,
         d.view = "status" => shown'.status = <<d>>,
         NoShow /\ closing = "no" /\ ~leaveFailed => d = lastShown,
         UNCHANGED <<hostContext, mounts, pendingMount, mountedSurface, closing, listening, lastShown, leaveFailed>>
  PROVE  SurfaceInv'
<1>1. chain \in Seq(StepRecord) /\ LastInChain
  BY DEF SurfaceInv, SurfaceTypes
<1>2. CASE closing \in {"no", "closed"}
  <2>1. target' = <<d>> /\ UNCHANGED chain /\ Leaves /\ target' \in Optional(DisplayRecord) /\ target' # << >> /\ target'[1] = d
    BY <1>2 DEF Navigate, Optional
  <2>2. /\ view' = "none" /\ moving' \in {"leaving", "entering"} /\ mountGeneration' \in Nat
        /\ moving' = "leaving" => mountGeneration' = mountGeneration + 1
        /\ moving' = "entering" => mountGeneration' = mountGeneration /\ pendingMount = 0
    BY <2>1 DEF Leaves, SurfaceInv, SurfaceTypes, MountsOK
  <2>3. SurfaceTypes'
    BY <2>1, <2>2 DEF SurfaceInv, SurfaceTypes
  <2>4. MountsOK'
    <3>1. pendingMount \in Nat /\ mountGeneration \in Nat /\ pendingMount <= mountGeneration
      BY SurfaceAssumption DEF SurfaceInv, SurfaceTypes, MountsOK
    <3>2. pendingMount <= mountGeneration' /\ (moving' = "leaving" => pendingMount < mountGeneration')
      BY <2>2, <3>1
    <3>3. QED
      BY <2>2, <3>2 DEF SurfaceInv, MountsOK
  <2>5. MovesOK'
    BY <1>2, <2>1, <2>2 DEF SurfaceInv, MovesOK
  <2>6. LastInChain'
    BY <1>1, <2>1 DEF LastInChain
  <2>7. DisplayOK'
    BY <2>1, <2>2 DEF SurfaceInv, DisplayOK, NoShow
  <2>8. QED
    BY <2>3, <2>4, <2>5, <2>6, <2>7 DEF SurfaceInv
<1>3. CASE closing \notin {"no", "closed"}
  <2>1. chain' = Tail(chain) /\ UNCHANGED <<moving, target, view, mountGeneration>>
    BY <1>3 DEF Navigate, StepOver
  <2>2. chain' \in Seq(StepRecord) /\ LastInChain'
    BY <1>1, <2>1, ChainShrinks
  <2>3. SurfaceTypes' /\ MountsOK' /\ MovesOK'
    BY <2>1, <2>2 DEF SurfaceInv, SurfaceTypes, MountsOK, MovesOK
  <2>4. DisplayOK'
    BY <1>3, <2>1 DEF SurfaceInv, DisplayOK
  <2>5. QED
    BY <2>2, <2>3, <2>4 DEF SurfaceInv
<1>4. QED
  BY <1>2, <1>3

\* The display at the head of the chain is shown.
LEMMA ShowStepInv == ASSUME SurfaceInv, ShowStep PROVE SurfaceInv'
<1> DEFINE d == Head(chain).display
           x == IF d.view = "surface" THEN << >> ELSE <<d>>
<1>1. chain # << >> /\ moving = "idle" /\ Head(chain).kind = "show" /\ shown' = [shown EXCEPT !.status = x] /\ Navigate(d)
  BY DEF ShowStep
<1>2. Head(chain) = chain[1] /\ chain[1] \in StepRecord /\ 1 \in DOMAIN chain
  <2>1. chain \in Seq(StepRecord)
    BY DEF SurfaceInv, SurfaceTypes
  <2>2. QED
    BY <1>1, <2>1
<1>3. d \in DisplayRecord
  BY <1>2 DEF StepRecord
<1>4. x \in Optional(DisplayRecord) /\ (d.view = "status" => x = <<d>>)
  BY <1>3 DEF Optional
<1>5. shown \in ShownRecord
  BY DEF SurfaceInv, SurfaceTypes
<1>6. ~NoShow /\ chain[1].display = d
  BY <1>1, <1>2 DEF NoShow
<1> HIDE DEF d, x
<1>7. /\ shown' \in ShownRecord /\ shown'.status = x /\ shown'.data = shown.data /\ shown'.locale = shown.locale
      /\ shown'.context = shown.context
  BY <1>1, <1>4, <1>5, WithStatus
<1>8. UNCHANGED <<hostContext, mounts, pendingMount, mountedSurface, closing, listening, lastShown, leaveFailed>>
  BY DEF ShowStep
<1>9. QED
  BY <1>1, <1>3, <1>4, <1>6, <1>7, <1>8, NavigateInv

\* A remount that finds nothing stale.
LEMMA NowhereInv ==
  ASSUME SurfaceInv, chain # << >>, moving = "idle", chain[1].kind = "remount", Nowhere,
         shown' \in ShownRecord, shown'.data = shown.data, shown'.status = shown.status, shown'.locale = shown.locale,
         shown'.context # << >> <=> shown.context # << >>,
         shown.context # << >> => Selected(shown'.context[1]) = Selected(shown.context[1]),
         listening /\ NoShow /\ ~leaveFailed => NothingStale',
         UNCHANGED <<hostContext, mounts, pendingMount, mountedSurface, closing, listening, lastShown, leaveFailed>>
  PROVE  SurfaceInv'
<1>1. chain \in Seq(StepRecord) /\ LastInChain
  BY DEF SurfaceInv, SurfaceTypes
<1>2. chain' = Tail(chain) /\ UNCHANGED <<moving, target, view, mountGeneration>>
  BY DEF Nowhere, StepOver
<1>3. chain' \in Seq(StepRecord) /\ LastInChain' /\ (NoShow' => NoShow)
  BY <1>1, <1>2, ChainShrinks
<1>4. SurfaceTypes' /\ MovesOK'
  BY <1>2, <1>3 DEF SurfaceInv, SurfaceTypes, MovesOK
<1>5. MountsOK'
  BY <1>2 DEF SurfaceInv, MountsOK, MovesOK
<1>6. chain' = << >> => NoShow'
  BY DEF NoShow
<1>7. DisplayOK'
  BY <1>2, <1>3, <1>6 DEF SurfaceInv, DisplayOK, Displayed
<1>8. QED
  BY <1>3, <1>4, <1>5, <1>7 DEF SurfaceInv

\* remountIfStale(): whatever it decides, what is displayed stays what was told last.
LEMMA RemountStepInv == ASSUME SurfaceInv, RemountStep PROVE SurfaceInv'
<1>1. /\ chain # << >> /\ moving = "idle" /\ Head(chain).kind = "remount"
      /\ UNCHANGED <<hostContext, mounts, pendingMount, mountedSurface, closing, listening, lastShown, leaveFailed>>
  BY DEF RemountStep
<1>2. chain[1].kind = "remount"
  <2>1. chain \in Seq(StepRecord)
    BY DEF SurfaceInv, SurfaceTypes
  <2>2. Head(chain) = chain[1]
    BY <1>1, <2>1
  <2>3. QED
    BY <1>1, <2>2
<1>3. /\ shown \in ShownRecord /\ (listening => closing = "no" /\ shown.locale = hostContext.locale)
      /\ view = "surface" => shown.data # << >> /\ shown.context # << >>
      /\ lastShown \in DisplayRecord /\ hostContext \in ContextSet
      /\ closing = "no" /\ ~leaveFailed /\ NoShow => Displayed
  BY <1>1 DEF SurfaceInv, SurfaceTypes, DisplayOK, MovesOK
<1>4. /\ shown.status \in Optional(DisplayRecord) /\ shown.data \in Optional(ValidData)
      /\ shown.context \in Optional(ContextSet)
  BY <1>3 DEF ShownRecord
<1>5. lastShown.view \in {"status", "surface"}
  BY <1>3 DEF DisplayRecord
<1>6. CASE closing # "no"
  <2>1. Nowhere /\ UNCHANGED shown
    BY <1>6 DEF RemountStep
  <2>2. QED
    BY <1>1, <1>2, <1>3, <1>6, <2>1, NowhereInv
<1>7. CASE closing = "no" /\ shown.data = << >>
  <2>1. ASSUME ~leaveFailed, NoShow PROVE view = "status" /\ lastShown.view = "status" /\ shown.status = <<lastShown>>
    BY <1>3, <1>5, <1>7, <2>1 DEF Displayed
  <2>2. CASE shown.status # << >> /\ <<shown.locale>> # shown.statusLocale
    <3>1. Navigate(shown.status[1]) /\ UNCHANGED shown
      BY <1>7, <2>2 DEF RemountStep
    <3>2. shown.status[1] \in DisplayRecord /\ shown.status = <<shown.status[1]>>
      BY <1>4, <2>2 DEF Optional
    <3>3. NoShow /\ closing = "no" /\ ~leaveFailed => shown.status[1] = lastShown
      BY <2>1
    <3>4. chain[1].kind # "show"
      BY <1>2
    <3>5. QED
      BY <1>1, <1>3, <3>1, <3>2, <3>3, <3>4, NavigateInv
  <2>3. CASE ~(shown.status # << >> /\ <<shown.locale>> # shown.statusLocale)
    <3>1. Nowhere /\ UNCHANGED shown
      BY <1>7, <2>3 DEF RemountStep
    <3>2. UNCHANGED view
      BY <3>1 DEF Nowhere
    <3>3. ASSUME listening, NoShow, ~leaveFailed PROVE NothingStale'
      <4>1. view = "status" /\ shown.status # << >> /\ shown.locale = hostContext.locale
        BY <1>3, <2>1, <3>3
      <4>2. shown.statusLocale = <<hostContext.locale>>
        BY <2>3, <4>1
      <4>3. QED
        BY <1>1, <3>1, <3>2, <4>1, <4>2 DEF NothingStale
    <3>4. QED
      BY <1>1, <1>2, <1>3, <3>1, <3>3, NowhereInv
  <2>4. QED
    BY <2>2, <2>3
<1>8. CASE closing = "no" /\ shown.data # << >>
  <2>1. ASSUME ~leaveFailed, NoShow PROVE view = "surface" /\ lastShown.view = "surface" /\ shown.data = <<lastShown.what>>
    BY <1>3, <1>5, <1>8, <2>1 DEF Displayed
  <2>2. CASE <<hostContext>> = shown.context
    <3>1. Nowhere /\ UNCHANGED shown
      BY <1>8, <2>2 DEF RemountStep
    <3>2. UNCHANGED view
      BY <3>1 DEF Nowhere
    <3>3. listening /\ NoShow /\ ~leaveFailed => NothingStale'
      BY <1>1, <2>1, <2>2, <3>1, <3>2 DEF NothingStale
    <3>4. QED
      BY <1>1, <1>2, <1>3, <3>1, <3>3, NowhereInv
  <2>3. CASE <<hostContext>> # shown.context /\ InPlaceUpdate
    <3>1. Nowhere /\ shown' = [shown EXCEPT !.context = <<hostContext>>]
      BY <1>8, <2>3 DEF RemountStep
    <3>2. <<hostContext>> \in Optional(ContextSet)
      BY <1>3 DEF Optional
    <3>3. /\ shown' \in ShownRecord /\ shown'.context = <<hostContext>> /\ shown'.data = shown.data
          /\ shown'.status = shown.status /\ shown'.locale = shown.locale
      BY <1>3, <3>1, <3>2, WithContext
    <3>4. UNCHANGED view
      BY <3>1 DEF Nowhere
    <3>5. listening /\ NoShow /\ ~leaveFailed => NothingStale'
      BY <1>1, <2>1, <3>3, <3>4 DEF NothingStale
    <3>6. shown.context # << >> /\ Selected(hostContext) = Selected(shown.context[1])
      BY <2>3 DEF InPlaceUpdate, OnlyTheme, Selected
    <3>7. shown'.context # << >> /\ shown'.context[1] = hostContext
      BY <3>3
    <3>8. QED
      BY <1>1, <1>2, <3>1, <3>3, <3>5, <3>6, <3>7, NowhereInv
  <2>4. CASE <<hostContext>> # shown.context /\ ~InPlaceUpdate
    <3> DEFINE d == [view |-> "surface", what |-> shown.data[1]]
    <3>1. Navigate(d) /\ UNCHANGED shown
      BY <1>8, <2>4 DEF RemountStep
    <3>2. shown.data[1] \in ValidData
      BY <1>4, <1>8 DEF Optional
    <3>3. d \in DisplayRecord /\ d.view # "status"
      BY <3>2 DEF DisplayRecord
    <3>4. NoShow /\ closing = "no" /\ ~leaveFailed => d = lastShown
      <4>1. lastShown.view = "surface" => lastShown = [view |-> "surface", what |-> lastShown.what]
        BY <1>3 DEF DisplayRecord
      <4>2. QED
        BY <2>1, <4>1
    <3> HIDE DEF d
    <3>5. QED
      BY <1>1, <1>2, <1>3, <3>1, <3>3, <3>4, NavigateInv
  <2>5. QED
    BY <2>2, <2>3, <2>4
<1>9. QED
  BY <1>6, <1>7, <1>8

\* disposeSurface() ends: nothing of a surface is alive after it.
LEMMA DisposedFacts ==
  ASSUME SurfaceInv, MountSettled(pendingMount)
  PROVE  LET m == Disposed(mountedSurface)
         IN  /\ m \in [1..MaxMounts -> MountRecord]
             /\ \A g \in 1..MaxMounts : m[g].status \notin {"mounting", "mounted"} /\ ~(m[g].alive > 0)
<1>1. /\ mounts \in [1..MaxMounts -> MountRecord] /\ mountedSurface \in 0..MaxMounts /\ pendingMount \in 0..MaxMounts
      /\ \A g \in 1..MaxMounts : /\ mounts[g].status = "mounting" => g = pendingMount
                                 /\ mounts[g].status = "mounted" => g = mountedSurface
                                 /\ mounts[g].alive > 0 => mounts[g].status \in {"mounting", "mounted"}
  BY DEF SurfaceInv, SurfaceTypes, MountsOK
<1>2. \A g \in 1..MaxMounts : g # 0 /\ mounts[g].status # "mounting"
  BY <1>1 DEF MountSettled
<1>3. CASE mountedSurface = 0
  BY <1>1, <1>2, <1>3 DEF Disposed
<1>4. CASE mountedSurface # 0
  <2>1. mountedSurface \in 1..MaxMounts
    BY <1>1, <1>4
  <2>2. Disposed(mountedSurface) = [mounts EXCEPT ![mountedSurface].status = "over", ![mountedSurface].alive = 0]
    BY <1>4 DEF Disposed
  <2>3. PICK m : m = Disposed(mountedSurface)
    OBVIOUS
  <2>4. /\ m \in [1..MaxMounts -> MountRecord] /\ m[mountedSurface].status = "over" /\ m[mountedSurface].alive = 0
        /\ \A h \in 1..MaxMounts : h # mountedSurface => m[h] = mounts[h]
    <3>1. m = [mounts EXCEPT ![mountedSurface].status = "over", ![mountedSurface].alive = 0]
      BY <2>2, <2>3
    <3>2. mounts \in [1..MaxMounts -> MountRecord] /\ 0 \in Nat
      BY <1>1
    <3>3. QED
      BY <2>1, <3>1, <3>2 DEF MountRecord
  <2>5. \A g \in 1..MaxMounts : m[g].status \notin {"mounting", "mounted"} /\ ~(m[g].alive > 0)
    BY <1>1, <1>2, <2>4
  <2>6. QED
    BY <2>3, <2>4, <2>5
<1>5. QED
  BY <1>3, <1>4

\* disposeSurface() ends, in a navigation or in the disposal, whether a cleanup rejected or not.
LEMMA SurfaceLeftInv == ASSUME SurfaceInv, NEW ok \in BOOLEAN, SurfaceLeft(ok) PROVE SurfaceInv'
<1>1. /\ moving = "leaving" /\ pendingMount' = 0 /\ mountedSurface' = 0 /\ leaveFailed' = (leaveFailed \/ ~ok)
      /\ UNCHANGED <<hostContext, target, view, shown, mountGeneration, listening, lastShown>>
      /\ mounts' = Disposed(mountedSurface) /\ MountSettled(pendingMount) /\ view = "none"
  BY DEF SurfaceLeft, SurfaceInv, MovesOK
<1>2. /\ mounts' \in [1..MaxMounts -> MountRecord]
      /\ \A g \in 1..MaxMounts : mounts'[g].status \notin {"mounting", "mounted"} /\ ~(mounts'[g].alive > 0)
  BY <1>1, DisposedFacts
<1>3. /\ chain \in Seq(StepRecord) /\ LastInChain /\ mountGeneration \in Nat /\ leaveFailed' \in BOOLEAN
      /\ target # << >> => chain # << >>
  BY <1>1 DEF SurfaceInv, SurfaceTypes, MovesOK
<1>4. \/ target = << >> /\ moving' = "idle" /\ closing' = "done" /\ UNCHANGED chain
      \/ target # << >> /\ ok /\ moving' = "entering" /\ UNCHANGED <<chain, closing>>
      \/ target # << >> /\ ~ok /\ moving' = "idle" /\ chain' = Tail(chain) /\ UNCHANGED closing
  BY DEF SurfaceLeft, StepOver
<1>5. chain' \in Seq(StepRecord) /\ LastInChain'
  <2>1. CASE UNCHANGED chain
    BY <1>1, <1>3, <2>1 DEF LastInChain
  <2>2. CASE target # << >> /\ chain' = Tail(chain)
    BY <1>1, <1>3, <2>2, ChainShrinks
  <2>3. QED
    BY <1>4, <2>1, <2>2
<1>6. 0 \in 0..MaxMounts /\ 0 <= mountGeneration
  BY <1>3, SurfaceAssumption
<1>7. SurfaceTypes'
  BY <1>1, <1>2, <1>3, <1>4, <1>5, <1>6 DEF SurfaceInv, SurfaceTypes
<1>8. MountsOK'
  BY <1>1, <1>2, <1>4, <1>6 DEF MountsOK
<1>9. MovesOK'
  <2>1. closing # "done"
    BY <1>1 DEF SurfaceInv, MovesOK
  <2>2. QED
    BY <1>1, <1>4, <2>1 DEF SurfaceInv, MovesOK
<1>10. DisplayOK'
  <2>1. target = << >> => closing = "queued" /\ ~listening
    BY <1>1 DEF SurfaceInv, MovesOK, DisplayOK
  <2>2. CASE target = << >>
    BY <1>1, <1>4, <2>1, <2>2 DEF SurfaceInv, DisplayOK, SurfaceTypes
  <2>3. CASE target # << >> /\ ok
    BY <1>1, <1>4, <2>3 DEF SurfaceInv, DisplayOK, NoShow
  <2>4. CASE target # << >> /\ ~ok
    BY <1>1, <1>4, <2>4 DEF SurfaceInv, DisplayOK
  <2>5. QED
    BY <2>2, <2>3, <2>4
<1>11. QED
  BY <1>5, <1>7, <1>8, <1>9, <1>10 DEF SurfaceInv

\* The router enters a view: the step at the head of the chain is over.
LEMMA EnteringFacts ==
  ASSUME SurfaceInv, moving = "entering", StepOver, lastShown' = lastShown
  PROVE  /\ chain' \in Seq(StepRecord) /\ LastInChain' /\ target[1] \in DisplayRecord /\ target = <<target[1]>>
         /\ pendingMount = 0 /\ mountedSurface = 0 /\ closing # "done"
         /\ target[1].view = "status" => shown.status = target
         /\ NoShow' /\ closing = "no" /\ ~leaveFailed => target = <<lastShown>>
<1>1. /\ chain \in Seq(StepRecord) /\ LastInChain /\ target \in Optional(DisplayRecord) /\ chain' = Tail(chain)
      /\ view = "none"
  BY DEF SurfaceInv, SurfaceTypes, StepOver, MovesOK
<1>2. /\ target # << >> /\ chain # << >> /\ (chain[1].kind = "show" => target = <<chain[1].display>>)
      /\ closing # "done" /\ (target[1].view = "status" => shown.status = target)
  BY DEF SurfaceInv, MovesOK
<1>3. pendingMount = 0 /\ mountedSurface = 0
  BY <1>1 DEF SurfaceInv, MountsOK
<1>4. /\ chain' \in Seq(StepRecord) /\ LastInChain'
      /\ NoShow' => NoShow \/ (chain[1].kind = "show" /\ chain[1].display = lastShown)
  BY <1>1, <1>2, ChainShrinks
<1>5. NoShow /\ closing = "no" /\ ~leaveFailed => target = <<lastShown>>
  BY DEF SurfaceInv, DisplayOK
<1>6. target[1] \in DisplayRecord /\ target = <<target[1]>>
  BY <1>1, <1>2 DEF Optional
<1>7. QED
  BY <1>2, <1>3, <1>4, <1>5, <1>6

\* The status view is rendered, in the host's language.
LEMMA EntersStatusInv == ASSUME SurfaceInv, EntersStatus PROVE SurfaceInv'
<1>1. /\ moving = "entering" /\ target[1].view = "status" /\ moving' = "idle" /\ view' = "status" /\ StepOver
      /\ shown' = [shown EXCEPT !.data = << >>, !.locale = hostContext.locale, !.statusLocale = <<hostContext.locale>>]
      /\ UNCHANGED <<hostContext, target, mounts, mountGeneration, pendingMount, mountedSurface, closing, listening,
                     lastShown, leaveFailed>>
  BY DEF EntersStatus
<1>2. /\ chain' \in Seq(StepRecord) /\ LastInChain' /\ target[1] \in DisplayRecord /\ target = <<target[1]>>
      /\ pendingMount = 0 /\ mountedSurface = 0 /\ closing # "done" /\ shown.status = target
      /\ NoShow' /\ closing = "no" /\ ~leaveFailed => target = <<lastShown>>
  BY <1>1, EnteringFacts
<1>3. shown \in ShownRecord /\ hostContext.locale \in Locales
  BY ContextFacts DEF SurfaceInv, SurfaceTypes
<1>4. /\ shown' \in ShownRecord /\ shown'.data = << >> /\ shown'.locale = hostContext.locale
      /\ shown'.statusLocale = <<hostContext.locale>> /\ shown'.status = shown.status
  BY <1>1, <1>3, WithStatusShown
<1>5. SurfaceTypes'
  BY <1>1, <1>2, <1>4 DEF SurfaceInv, SurfaceTypes
<1>6. MountsOK'
  BY <1>1, <1>2 DEF SurfaceInv, MountsOK
<1>7. MovesOK'
  BY <1>1, <1>2 DEF MovesOK
<1>8. DisplayOK'
  <2>1. listening => closing = "no"
    BY DEF SurfaceInv, DisplayOK
  <2>2. NoShow' /\ closing = "no" /\ ~leaveFailed => Displayed'
    <3>1. NoShow' /\ closing = "no" /\ ~leaveFailed => target[1] = lastShown
      BY <1>2
    <3>2. QED
      BY <1>1, <1>2, <1>4, <3>1 DEF Displayed
  <2>3. NothingStale'
    BY <1>1, <1>4 DEF NothingStale
  <2>4. QED
    BY <1>1, <1>4, <2>1, <2>2, <2>3 DEF DisplayOK
<1>9. QED
  BY <1>2, <1>5, <1>6, <1>7, <1>8 DEF SurfaceInv

\* The surface view is rendered and its mount begins, or it says why nothing is composed.
LEMMA EntersSurfaceInv == ASSUME SurfaceInv, EntersSurface PROVE SurfaceInv'
<1> DEFINE x == target[1].what
           s == Selected(hostContext)
<1>1. /\ moving = "entering" /\ target[1].view = "surface" /\ moving' = "idle" /\ view' = "surface" /\ StepOver
      /\ shown' = [shown EXCEPT !.data = <<x>>, !.context = <<hostContext>>, !.locale = hostContext.locale]
      /\ UNCHANGED <<hostContext, target, mountedSurface, closing, listening, lastShown, leaveFailed>>
  BY DEF EntersSurface
<1>2. /\ chain' \in Seq(StepRecord) /\ LastInChain' /\ target[1] \in DisplayRecord /\ target = <<target[1]>>
      /\ pendingMount = 0 /\ mountedSurface = 0 /\ closing # "done"
      /\ NoShow' /\ closing = "no" /\ ~leaveFailed => target = <<lastShown>>
  BY <1>1, EnteringFacts
<1>3. /\ shown \in ShownRecord /\ hostContext \in ContextSet /\ hostContext.locale \in Locales /\ s \in SurfaceNames
      /\ mounts \in [1..MaxMounts -> MountRecord] /\ mountGeneration \in Nat
  BY ContextFacts DEF SurfaceInv, SurfaceTypes
<1>4. x \in ValidData
  BY <1>1, <1>2 DEF DisplayRecord
<1>6. \/ UNCHANGED <<mountGeneration, pendingMount, mounts>>
      \/ /\ mountGeneration < MaxMounts /\ mountGeneration' = mountGeneration + 1 /\ pendingMount' = mountGeneration'
         /\ mounts' = [mounts EXCEPT ![mountGeneration'] =
                         [status |-> "mounting", alive |-> 0, data |-> <<x>>, surface |-> s]]
  BY DEF EntersSurface
<1> HIDE DEF x, s
<1>5. /\ shown' \in ShownRecord /\ shown'.data = <<x>> /\ shown'.context = <<hostContext>>
      /\ shown'.locale = hostContext.locale
  <2>1. <<x>> \in Optional(ValidData) /\ <<hostContext>> \in Optional(ContextSet)
    BY <1>3, <1>4 DEF Optional
  <2>2. QED
    BY <1>1, <1>3, <2>1 DEF ShownRecord
<1>7. \A g \in 1..MaxMounts : /\ mounts[g].status \notin {"mounting", "mounted"} /\ ~(mounts[g].alive > 0)
  <2>1. \A g \in 1..MaxMounts : g # 0
    OBVIOUS
  <2>2. QED
    BY <1>2, <2>1 DEF SurfaceInv, MountsOK
<1>8. SurfaceTypes' /\ MountsOK'
  <2>1. CASE UNCHANGED <<mountGeneration, pendingMount, mounts>>
    BY <1>1, <1>2, <1>5, <1>7, <2>1 DEF SurfaceInv, SurfaceTypes, MountsOK
  <2>2. CASE ~UNCHANGED <<mountGeneration, pendingMount, mounts>>
    <3>1. PICK n \in 1..MaxMounts : n = mountGeneration + 1
      BY <1>3, <1>6, <2>2, SurfaceAssumption
    <3>2. PICK r \in MountRecord : r = [status |-> "mounting", alive |-> 0, data |-> <<x>>, surface |-> s]
      BY <1>3, <1>4 DEF MountRecord, Optional
    <3>3. r.status = "mounting" /\ r.alive = 0 /\ r.data = <<x>> /\ r.surface = s
      BY <3>2
    <3>4. mountGeneration' = n /\ pendingMount' = n /\ mounts' = [mounts EXCEPT ![n] = r]
      BY <1>6, <2>2, <3>1, <3>2
    <3>5. /\ mounts' \in [1..MaxMounts -> MountRecord] /\ mounts'[n] = r
          /\ \A g \in 1..MaxMounts : g # n => mounts'[g] = mounts[g]
      BY <1>3, <3>4
    <3>6. SurfaceTypes'
      <4>1. n \in 0..MaxMounts /\ n \in Nat
        BY <3>1
      <4>2. QED
        BY <1>1, <1>2, <1>5, <3>4, <3>5, <4>1 DEF SurfaceInv, SurfaceTypes
    <3>7. MountsOK'
      <4>1. /\ pendingMount' <= mountGeneration' /\ mountedSurface' \in {0, pendingMount'}
        BY <1>1, <1>2, <3>4
      <4>2. \A g \in 1..MaxMounts : /\ mounts'[g].status = "mounting" => g = pendingMount'
                                    /\ mounts'[g].status = "mounted" => g = mountedSurface'
                                    /\ mounts'[g].alive > 0 => mounts'[g].status \in {"mounting", "mounted"}
        BY <1>7, <3>3, <3>4, <3>5
      <4>3. mounts'[pendingMount'].data = shown'.data /\ mounts'[pendingMount'].surface = Selected(shown'.context[1])
        BY <1>1, <1>5, <3>3, <3>4, <3>5 DEF s
      <4>4. QED
        BY <1>1, <1>2, <3>4, <4>1, <4>2, <4>3 DEF MountsOK
    <3>8. QED
      BY <3>6, <3>7
  <2>3. QED
    BY <2>1, <2>2
<1>9. MovesOK'
  BY <1>1, <1>2, <1>5 DEF MovesOK
<1>10. DisplayOK'
  <2>1. listening => closing = "no"
    BY DEF SurfaceInv, DisplayOK
  <2>2. NoShow' /\ closing = "no" /\ ~leaveFailed => Displayed'
    <3>1. NoShow' /\ closing = "no" /\ ~leaveFailed => target[1] = lastShown
      BY <1>2
    <3>2. QED
      BY <1>1, <1>2, <1>5, <3>1 DEF Displayed, x
  <2>3. NothingStale'
    BY <1>1, <1>5 DEF NothingStale
  <2>4. QED
    BY <1>1, <1>5, <2>1, <2>2, <2>3 DEF DisplayOK
<1>11. QED
  BY <1>2, <1>8, <1>9, <1>10 DEF SurfaceInv

\* A component's mount settles: the mount goes on, fails, is kept or is superseded.
LEMMA ComponentMountsInv ==
  ASSUME SurfaceInv, NEW g \in 1..MaxMounts, NEW ok \in BOOLEAN, ComponentMounts(g, ok)
  PROVE  SurfaceInv'
<1>1. /\ mounts[g].status = "mounting"
      /\ UNCHANGED <<hostContext, chain, moving, target, view, shown, mountGeneration, pendingMount, closing, listening,
                     lastShown, leaveFailed>>
  BY DEF ComponentMounts
<1>2. /\ mounts \in [1..MaxMounts -> MountRecord] /\ mountGeneration \in Nat /\ pendingMount \in 0..MaxMounts
      /\ mounts[g].alive \in Nat /\ mounts[g].alive + 1 \in Nat /\ mountedSurface \in 0..MaxMounts
  BY DEF SurfaceInv, SurfaceTypes, MountRecord
<1>3. g = pendingMount /\ mountedSurface # g
  <2>1. g = pendingMount /\ mountedSurface \in {0, pendingMount}
    BY <1>1 DEF SurfaceInv, MountsOK
  <2>2. QED
    BY <1>1, <2>1 DEF SurfaceInv, MountsOK
<1>4. PICK st \in {"failed", "mounting", "mounted", "over"}, n \in Nat :
        /\ mounts' = [mounts EXCEPT ![g].status = st, ![g].alive = n]
        /\ n > 0 => st \in {"mounting", "mounted"}
        /\ mountedSurface' = IF st = "mounted" THEN g ELSE mountedSurface
  <2>1. CASE ~ok
    <3>1. mounts' = [mounts EXCEPT ![g].status = "failed", ![g].alive = 0] /\ UNCHANGED mountedSurface
      BY <2>1 DEF ComponentMounts, RolledBack
    <3>2. 0 \in Nat /\ ~(0 > 0) /\ "failed" # "mounted"
      OBVIOUS
    <3>3. QED
      BY <3>1, <3>2, Zenon
  <2>2. CASE ok /\ mounts[g].alive + 1 < Len(Surfaces[mounts[g].surface].components)
    <3>1. mounts' = [mounts EXCEPT ![g].alive = @ + 1] /\ UNCHANGED mountedSurface
      BY <2>2 DEF ComponentMounts
    <3>2. [mounts EXCEPT ![g].alive = @ + 1] = [mounts EXCEPT ![g].status = "mounting", ![g].alive = mounts[g].alive + 1]
      BY <1>1, <1>2 DEF MountRecord
    <3>3. QED
      BY <1>2, <3>1, <3>2
  <2>3. CASE ok /\ ~(mounts[g].alive + 1 < Len(Surfaces[mounts[g].surface].components))
    <3>1. Keeps(g)
      BY <2>3 DEF ComponentMounts
    <3>2. CASE g = mountGeneration
      <4>1. mountedSurface' = g /\ mounts' = [mounts EXCEPT ![g].status = "mounted", ![g].alive = @ + 1]
        BY <3>1, <3>2 DEF Keeps
      <4>2. [mounts EXCEPT ![g].status = "mounted", ![g].alive = @ + 1]
              = [mounts EXCEPT ![g].status = "mounted", ![g].alive = mounts[g].alive + 1]
        BY <1>2 DEF MountRecord
      <4>3. QED
        BY <1>2, <4>1, <4>2
    <3>3. CASE g # mountGeneration
      <4>1. mounts' = [mounts EXCEPT ![g].status = "over", ![g].alive = 0] /\ UNCHANGED mountedSurface
        BY <3>1, <3>3 DEF Keeps, Disposed
      <4>2. 0 \in Nat /\ ~(0 > 0) /\ "over" # "mounted"
        OBVIOUS
      <4>3. QED
        BY <4>1, <4>2, Zenon
    <3>4. QED
      BY <3>2, <3>3
  <2>4. QED
    BY <2>1, <2>2, <2>3
<1>5. /\ mounts' \in [1..MaxMounts -> MountRecord] /\ \A h \in 1..MaxMounts : h # g => mounts'[h] = mounts[h]
      /\ mounts'[g].status = st /\ mounts'[g].alive = n /\ mounts'[g].data = mounts[g].data
      /\ mounts'[g].surface = mounts[g].surface
  <2>1. st \in {"no", "mounting", "mounted", "failed", "over"}
    OBVIOUS
  <2>2. QED
    BY <1>2, <1>4, <2>1 DEF MountRecord
<1>6. SurfaceTypes'
  BY <1>1, <1>2, <1>4, <1>5 DEF SurfaceInv, SurfaceTypes
<1>7. MountsOK'
  <2>1. mountedSurface = 0 /\ g # 0
    BY <1>3 DEF SurfaceInv, MountsOK
  <2>2. \A h \in 1..MaxMounts : /\ mounts'[h].status = "mounting" => h = pendingMount'
                                /\ mounts'[h].status = "mounted" => h = mountedSurface'
                                /\ mounts'[h].alive > 0 => mounts'[h].status \in {"mounting", "mounted"}
    <3> SUFFICES ASSUME NEW h \in 1..MaxMounts
                 PROVE  /\ mounts'[h].status = "mounting" => h = pendingMount'
                        /\ mounts'[h].status = "mounted" => h = mountedSurface'
                        /\ mounts'[h].alive > 0 => mounts'[h].status \in {"mounting", "mounted"}
      OBVIOUS
    <3>1. CASE h = g
      BY <1>1, <1>3, <1>4, <1>5, <3>1
    <3>2. CASE h # g
      <4>1. /\ mounts[h].status = "mounting" => h = pendingMount
            /\ mounts[h].status = "mounted" => h = mountedSurface
            /\ mounts[h].alive > 0 => mounts[h].status \in {"mounting", "mounted"}
        BY DEF SurfaceInv, MountsOK
      <4>2. mounts'[h] = mounts[h]
        BY <1>5, <3>2
      <4>3. QED
        BY <1>1, <1>3, <2>1, <3>2, <4>1, <4>2
    <3>3. QED
      BY <3>1, <3>2
  <2>3. mountedSurface' \in {0, pendingMount'}
    BY <1>1, <1>3, <1>4, <2>1
  <2>4. mountedSurface' # 0 => mounts'[mountedSurface'].status = "mounted"
    BY <1>4, <1>5, <2>1
  <2>5. QED
    BY <1>1, <1>3, <1>5, <2>2, <2>3, <2>4 DEF SurfaceInv, MountsOK
<1>8. MovesOK' /\ LastInChain'
  BY <1>1 DEF SurfaceInv, MovesOK, LastInChain
<1>9. DisplayOK'
  BY <1>1 DEF SurfaceInv, DisplayOK, NoShow, Displayed, NothingStale
<1>10. QED
  BY <1>6, <1>7, <1>8, <1>9 DEF SurfaceInv

\* onTeardown removes the listener, and its settling queues the disposal.
LEMMA ClosesInv == ASSUME SurfaceInv, Closes \/ TeardownSettled PROVE SurfaceInv'
<1>1. /\ closing \in {"no", "closed"} /\ closing' \in {"closed", "queued"} /\ listening' = FALSE
      /\ UNCHANGED <<hostContext, chain, moving, target, view, shown, mounts, mountGeneration, pendingMount,
                     mountedSurface, lastShown, leaveFailed>>
  BY DEF Closes, TeardownSettled, SurfaceInv, SurfaceTypes, DisplayOK
<1>2. SurfaceTypes' /\ MountsOK'
  BY <1>1 DEF SurfaceInv, SurfaceTypes, MountsOK
<1>3. MovesOK' /\ LastInChain'
  BY <1>1 DEF SurfaceInv, MovesOK, LastInChain
<1>4. DisplayOK'
  BY <1>1 DEF DisplayOK
<1>5. QED
  BY <1>2, <1>3, <1>4 DEF SurfaceInv

\* The disposal leaves the active view first, if there is one.
LEMMA DisposalStartsInv == ASSUME SurfaceInv, DisposalStarts PROVE SurfaceInv'
<1>1. /\ closing = "queued" /\ moving = "idle" /\ target' = << >> /\ ~listening
      /\ UNCHANGED <<hostContext, chain, shown, mounts, pendingMount, mountedSurface, listening, lastShown, leaveFailed>>
  BY DEF DisposalStarts, SurfaceInv, DisplayOK
<1>2. pendingMount \in Nat /\ mountGeneration \in Nat /\ pendingMount <= mountGeneration
  BY SurfaceAssumption DEF SurfaceInv, SurfaceTypes, MountsOK
<1>3. \/ view = "none" /\ closing' = "done" /\ UNCHANGED <<moving, mountGeneration, view>>
      \/ /\ moving' = "leaving" /\ mountGeneration' = mountGeneration + 1 /\ view' = "none" /\ UNCHANGED closing
  BY DEF DisposalStarts, Leaves
<1>4. mountGeneration' \in Nat /\ pendingMount <= mountGeneration' /\ (moving' = "leaving" => pendingMount < mountGeneration')
  BY <1>1, <1>2, <1>3
<1>5. SurfaceTypes'
  BY <1>1, <1>3, <1>4 DEF SurfaceInv, SurfaceTypes, Optional
<1>6. MountsOK'
  BY <1>1, <1>3, <1>4 DEF SurfaceInv, MountsOK
<1>7. MovesOK' /\ LastInChain'
  BY <1>1, <1>3 DEF SurfaceInv, MovesOK, LastInChain
<1>8. DisplayOK'
  BY <1>1, <1>3 DEF DisplayOK
<1>9. QED
  BY <1>5, <1>6, <1>7, <1>8 DEF SurfaceInv

\* Every step of the App keeps the invariant.
LEMMA SurfaceNextInv == ASSUME SurfaceInv, [SurfaceNext]_surfaceVars PROVE SurfaceInv'
<1>1. CASE UNCHANGED surfaceVars
  BY <1>1 DEF surfaceVars, SurfaceInv, SurfaceTypes, MountsOK, MovesOK, LastInChain, DisplayOK, NoShow, Displayed, NothingStale
<1>2. CASE ToolInput
  BY <1>2, ShowInv, LoadingFacts DEF ToolInput
<1>3. CASE HandleShow
  BY <1>3, ShowInv, ProjectionFacts DEF HandleShow
<1>4. ASSUME NEW d \in Dispatchers, Projected(d) PROVE SurfaceInv'
  <2>1. PICK x \in Projections \cup {Failure} : Show(x, d)
    BY <1>4 DEF Projected
  <2>2. x \in DisplayRecord /\ d \in {"tools", "session", "author", "self"}
    BY ProjectionFacts, LoadingFacts DEF Dispatchers
  <2>3. QED
    BY <1>4, <2>1, <2>2, ShowInv DEF Projected
<1>5. CASE Listens \/ ContextChanges \/ \E d \in Dispatchers : Projects(d)
  BY <1>5, ListensInv, ContextChangesInv, ProjectsInv
<1>6. CASE ShowStep \/ RemountStep \/ EntersStatus \/ EntersSurface
  BY <1>6, ShowStepInv, RemountStepInv, EntersStatusInv, EntersSurfaceInv
<1>7. CASE \E ok \in BOOLEAN : SurfaceLeft(ok) \/ \E g \in 1..MaxMounts : ComponentMounts(g, ok)
  BY <1>7, SurfaceLeftInv, ComponentMountsInv
<1>8. CASE Closes \/ TeardownSettled \/ DisposalStarts
  BY <1>8, ClosesInv, DisposalStartsInv
<1>9. QED
  BY <1>1, <1>2, <1>3, <1>4, <1>5, <1>6, <1>7, <1>8 DEF SurfaceNext

\* The invariant says what the user may rely on.
LEMMA InvDisplayTrue == ASSUME SurfaceInv PROVE DisplayTrue
<1>1. \A g \in 1..MaxMounts : mounts[g].alive > 0 => g = pendingMount
  BY DEF SurfaceInv, MountsOK
<1>2. OneSurfaceAlive
  <2>1. ASSUME moving # "leaving", NEW g \in 1..MaxMounts, mounts[g].alive > 0
        PROVE  g = mountGeneration /\ view = "surface"
    <3>1. g = pendingMount /\ g # 0
      BY <1>1, <2>1
    <3>2. QED
      BY <2>1, <3>1 DEF SurfaceInv, MountsOK
  <2>2. closing = "done" => moving # "leaving" /\ view # "surface"
    BY DEF SurfaceInv, MovesOK
  <2>3. closing = "done" => \A g \in 1..MaxMounts : mounts[g].alive = 0
    <3>1. closing = "done" => \A g \in 1..MaxMounts : ~(mounts[g].alive > 0)
      BY <2>1, <2>2
    <3>2. \A g \in 1..MaxMounts : mounts[g].alive \in Nat
      BY DEF SurfaceInv, SurfaceTypes, MountRecord
    <3>3. QED
      BY <3>1, <3>2
  <2>4. QED
    BY <2>1, <2>3 DEF OneSurfaceAlive
<1>3. UpToDate
  <2> SUFFICES ASSUME listening, chain = << >>, moving = "idle", ~leaveFailed
               PROVE  /\ view = lastShown.view
                      /\ IF view = "status"
                         THEN shown.data = << >> /\ shown.status = <<lastShown>> /\ shown.statusLocale = <<hostContext.locale>>
                         ELSE /\ shown.data = <<lastShown.what>> /\ shown.context = <<hostContext>>
                              /\ mountedSurface # 0 => mounts[mountedSurface].data = shown.data
                                                       /\ mounts[mountedSurface].surface = Selected(hostContext)
    BY DEF UpToDate
  <2>1. NoShow
    BY DEF NoShow
  <2>2. Displayed /\ NothingStale
    BY <2>1 DEF SurfaceInv, DisplayOK
  <2>3. view \in {"status", "surface"}
    BY <2>2 DEF SurfaceInv, SurfaceTypes, Displayed, DisplayRecord
  <2>4. CASE view = "status"
    BY <2>2, <2>4 DEF Displayed, NothingStale
  <2>5. CASE view = "surface"
    <3>1. shown.context = <<hostContext>> /\ shown.context[1] = hostContext
      BY <2>2, <2>5 DEF NothingStale
    <3>2. mountedSurface # 0 => mountedSurface = pendingMount
      BY DEF SurfaceInv, MountsOK
    <3>3. QED
      BY <2>2, <2>5, <3>1, <3>2 DEF Displayed, SurfaceInv, MountsOK
  <2>6. QED
    BY <2>3, <2>4, <2>5
<1>4. QED
  BY <1>2, <1>3 DEF DisplayTrue

\* Whatever contexts, results, failures of mounts and teardowns come between: only the surface on display is alive, and
\* with nothing left to do the App displays what it was last told to, for the context of now (surface-app.ts).
THEOREM DisplayedTruly == SurfaceSpec => []DisplayTrue
<1>1. SurfaceInit => SurfaceInv
  BY SurfaceInitInv
<1>2. SurfaceInv /\ [SurfaceNext]_surfaceVars => SurfaceInv'
  BY SurfaceNextInv
<1>3. SurfaceInv => DisplayTrue
  BY InvDisplayTrue
<1>4. QED
  BY <1>1, <1>2, <1>3, PTL DEF SurfaceSpec

-----------------------------------------------------------------------------
(* Manifests (SurfaceRules).                                               *)

\* What every manifest of ManifestInit is, whatever its fields: sequences of resources
\* and of items, and identities that are a name and a version.
IsList(s) == DOMAIN s = 1..Len(s) /\ Len(s) \in Nat
Identities(list) == \A k \in DOMAIN list : list[k] = [name |-> list[k].name, version |-> list[k].version]
ResourceShape(r) ==
  /\ r.components # <<>> /\ r.components[1].defaultSurface # <<>> => IsList(r.components[1].defaultSurface[1].components)
  /\ Identities(r.resultSchemas)
  /\ r.sessionSchemas # <<>> => Identities(r.sessionSchemas[1])
ManifestShape(m) == IsList(m) /\ \A i \in DOMAIN m : ResourceShape(m[i])

\* Three validators of surfaces, written apart, take the same ones.
LEMMA SurfaceShapes ==
  ASSUME NEW s, NEW keys, IsList(s.components)
  PROVE  SurfacesAgree(s, keys)
<1> DEFINE ids == [i \in DOMAIN s.components |-> s.components[i].id]
<1>1. Unique(ids) <=> \A i \in DOMAIN s.components : \A j \in 1..(i - 1) : s.components[j].id # s.components[i].id
  <2>1. ASSUME Unique(ids), NEW i \in DOMAIN s.components, NEW j \in 1..(i - 1)
        PROVE  s.components[j].id # s.components[i].id
    <3>1. j \in DOMAIN s.components /\ i # j
      BY DEF IsList
    <3> QED
      BY <2>1, <3>1 DEF Unique, IsInjective
  <2>2. ASSUME \A i \in DOMAIN s.components : \A j \in 1..(i - 1) : s.components[j].id # s.components[i].id,
               NEW a \in DOMAIN s.components, NEW b \in DOMAIN s.components, ids[a] = ids[b]
        PROVE  a = b
    <3>1. a = b \/ a \in 1..(b - 1) \/ b \in 1..(a - 1)
      BY DEF IsList
    <3> QED
      BY <2>2, <3>1
  <2> QED
    BY <2>1, <2>2 DEF Unique, IsInjective
<1>2. ValidLayout(s) <=> /\ s.layout \in {"stack", "row", "grid"}
                         /\ s.columns \in 0..12 /\ (s.layout # "grid" => s.columns = 0)
  BY DEF ValidLayout
<1> HIDE DEF ids
<1>3. WellFormed(s) <=> /\ ValidLayout(s) /\ s.components # <<>>
                        /\ \A i \in DOMAIN s.components : s.components[i].id # "" /\ s.components[i].component # ""
                        /\ Unique(ids)
  BY DEF WellFormed, ProperId, ids
<1>4. TemplateSurface(s) <=> WellFormed(s)
  BY <1>1, <1>2, <1>3 DEF TemplateSurface, Proper
<1>5. ManifestSurface(s, keys) <=> WellFormed(s) /\ KnownOnly(s, keys)
  BY <1>3 DEF ManifestSurface, Proper, KnownOnly, ids
<1> QED
  BY <1>4, <1>5 DEF SurfacesAgree

\* The runtime takes the components and the default surface of a valid catalog.
LEMMA CatalogRuns ==
  ASSUME NEW c, Catalog(c), c.defaultSurface # <<>> => IsList(c.defaultSurface[1].components)
  PROVE  RegistryAccepts(c)
<1>1. ASSUME NEW p, Ports(p)
      PROVE  RuntimeNames(p.emits) /\ RuntimeNames(p.accepts)
  <2>1. ASSUME NEW list, list # <<>> => StringSet(list[1])
        PROVE  RuntimeNames(list)
    BY <2>1 DEF RuntimeNames, StringSet, Proper, Range
  <2> QED
    BY <1>1, <2>1 DEF Ports
<1>2. ASSUME NEW d, Descriptor(d)
      PROVE  RuntimeDescriptor(d)
  BY <1>1, <1>2 DEF Descriptor, RuntimeDescriptor, Proper
<1>3. c.defaultSurface # <<>> => WellFormed(c.defaultSurface[1]) /\ KnownOnly(c.defaultSurface[1], DOMAIN c.components)
  BY SurfaceShapes DEF Catalog, SurfacesAgree
<1> QED
  BY <1>2, <1>3 DEF Catalog, RegistryAccepts, Proper, ProperId

\* A list without repetitions has as many members as places.
LEMMA UniqueCounts ==
  ASSUME NEW m, IsList(m), NEW f, f = [i \in DOMAIN m |-> m[i].uri], Unique(f)
  PROVE  Cardinality({m[i].uri : i \in DOMAIN m}) = Len(m)
<1> DEFINE S == {m[i].uri : i \in DOMAIN m}
<1>1. f \in Bijection(1..Len(m), S)
  BY DEF IsList, Unique, Bijection, Injection, Surjection, IsInjective
<1>2. ExistsBijection(1..Len(m), S)
  BY <1>1 DEF ExistsBijection
<1> QED
  BY <1>2, FS_CountingElements DEF IsList

\* The rules of the manifest, one by one.
LEMMA ShapeHonest == ManifestShape(manifest) => ManifestHonest
<1> SUFFICES ASSUME ManifestShape(manifest) PROVE ManifestHonest
  OBVIOUS
<1>1. ASSUME NEW i \in DOMAIN manifest, manifest[i].components # <<>>, manifest[i].components[1].defaultSurface # <<>>
      PROVE  SurfacesAgree(manifest[i].components[1].defaultSurface[1], DOMAIN manifest[i].components[1].components)
  BY <1>1, SurfaceShapes DEF ManifestShape, ResourceShape
<1>2. ASSUME ManifestAccepted(manifest)
      PROVE  Cardinality({manifest[i].uri : i \in DOMAIN manifest}) = Len(manifest)
  BY <1>2, UniqueCounts DEF ManifestShape, ManifestAccepted
<1>3. ASSUME ManifestAccepted(manifest), NEW i \in DOMAIN manifest, NEW r, r = manifest[i]
      PROVE  /\ r.components # <<>> =>
                  /\ RegistryAccepts(r.components[1])
                  /\ \A k \in DOMAIN r.components[1].components :
                       AcceptsApply(r.components[1].components[k]) => r.sessionSchemas # <<>>
             /\ \A list \in {<<r.resultSchemas>>, r.sessionSchemas} :
                  list # <<>> => \A k \in DOMAIN list[1] : list[1][k] = [name |-> "plain", version |-> "exact"]
  <2>1. ValidResource(r) /\ ResourceShape(r)
    BY <1>3 DEF ManifestShape, ManifestAccepted
  <2>2. r.components # <<>> => RegistryAccepts(r.components[1])
    BY <2>1, CatalogRuns DEF ValidResource, ResourceShape
  <2>3. ASSUME r.components # <<>>, NEW k \in DOMAIN r.components[1].components, AcceptsApply(r.components[1].components[k])
        PROVE  r.sessionSchemas # <<>>
    BY <2>1, <2>3 DEF ValidResource, SessionAgreed
  <2>4. ASSUME NEW list, Identities(list), SchemaSet(list)
        PROVE  \A k \in DOMAIN list : list[k] = [name |-> "plain", version |-> "exact"]
    BY <2>4 DEF Identities, SchemaSet, ExactIdentity
  <2>5. \A list \in {<<r.resultSchemas>>, r.sessionSchemas} : list # <<>> => Identities(list[1]) /\ SchemaSet(list[1])
    BY <2>1 DEF ValidResource, ResourceShape
  <2> QED
    BY <2>2, <2>3, <2>4, <2>5
<1> QED
  BY <1>1, <1>2, <1>3 DEF ManifestHonest

\* The manifests that are enumerated are of that shape.
LEMMA ManifestShaped == ManifestInit => ManifestShape(manifest)
<1>1. \A list \in SchemaSets : Identities(list)
  BY ManifestAssumption DEF Identities
<1>2. Identities(Plain) /\ Plain # <<>>
  BY DEF Identities, Plain
<1>3. ASSUME NEW r, ResourceShape(r), manifest = <<r>>
      PROVE  ManifestShape(manifest)
  BY <1>3 DEF ManifestShape, IsList
<1>4. ASSUME NEW o, NEW rs \in SchemaSets, NEW as, NEW ss \in Optional(SchemaSets), NEW cs,
             cs = <<>> \/ cs[1].defaultSurface = <<>>
      PROVE  ResourceShape([uri |-> "u", ownership |-> o, resultSchemas |-> rs, acceptedActions |-> as, sessionSchemas |-> ss,
                            components |-> cs])
  <2>1. ss # <<>> => Identities(ss[1])
    BY <1>1 DEF Optional
  <2> QED
    BY <1>1, <1>4, <2>1 DEF ResourceShape
<1>5. ASSUME NEW o \in {"whole-view", "component-catalog", ""}, NEW rs \in SchemaSets, NEW as \in Optional(ActionSets),
             NEW ss \in Optional(SchemaSets), NEW d \in Optional(Descriptors),
             manifest = <<[uri |-> "u", ownership |-> o, resultSchemas |-> rs, acceptedActions |-> as, sessionSchemas |-> ss,
                           components |-> IF d = <<>> THEN <<>> ELSE <<OneComponent(d[1])>>]>>
      PROVE  ManifestShape(manifest)
  <2>1. PICK cs : cs = IF d = <<>> THEN <<>> ELSE <<OneComponent(d[1])>>
    OBVIOUS
  <2>2. cs = <<>> \/ cs[1].defaultSurface = <<>>
    BY <2>1 DEF OneComponent
  <2>3. ResourceShape([uri |-> "u", ownership |-> o, resultSchemas |-> rs, acceptedActions |-> as, sessionSchemas |-> ss,
                       components |-> cs])
    BY <2>2, <1>4
  <2> QED
    BY <1>3, <1>5, <2>1, <2>3
<1>6. ASSUME NEW s \in ManifestSurfaces,
             manifest = <<[Whole EXCEPT !.components = <<[OneComponent([title |-> "T", events |-> <<>>])
                                                          EXCEPT !.defaultSurface = <<s>>]>>]>>
      PROVE  ManifestShape(manifest)
  <2>1. IsList(s.components)
    <3>1. PICK n \in 0..2 : s.components \in [1..n -> Items]
      BY DEF ManifestSurfaces
    <3> QED
      BY <3>1 DEF IsList
  <2>2. PICK c : c = [OneComponent([title |-> "T", events |-> <<>>]) EXCEPT !.defaultSurface = <<s>>]
    OBVIOUS
  <2>3. c.defaultSurface = <<s>>
    BY <2>2 DEF OneComponent
  <2>4. PICK r : r = [Whole EXCEPT !.components = <<c>>]
    OBVIOUS
  <2>5. r.components = <<c>> /\ r.resultSchemas = Plain /\ r.sessionSchemas = <<>>
    BY <2>4 DEF Whole
  <2>6. ResourceShape(r)
    BY <1>2, <2>1, <2>3, <2>5 DEF ResourceShape
  <2> QED
    BY <1>3, <1>6, <2>2, <2>4, <2>6
<1>7. ASSUME NEW n \in 0..2, NEW us \in [1..n -> ManifestUris], manifest = [i \in DOMAIN us |-> [Whole EXCEPT !.uri = us[i]]]
      PROVE  ManifestShape(manifest)
  <2>1. DOMAIN manifest = 1..n
    BY <1>7
  <2>2. IsList(manifest)
    BY <1>7 DEF IsList
  <2>3. ASSUME NEW i \in DOMAIN manifest
        PROVE  ResourceShape(manifest[i])
    <3>1. manifest[i].components = <<>> /\ manifest[i].resultSchemas = Plain /\ manifest[i].sessionSchemas = <<>>
      BY <1>7, <2>1 DEF Whole
    <3> QED
      BY <1>2, <3>1 DEF ResourceShape
  <2> QED
    BY <2>2, <2>3 DEF ManifestShape
<1> QED
  BY <1>5, <1>6, <1>7 DEF ManifestInit

(* ManifestsTrue: for every manifest, of any length and with any components: if  *)
(* defineViewAppManifest() accepts it, the runtime accepts its catalogs, a       *)
(* session goes only where its exact schemas are named, and one URI is one       *)
(* resource; the validators of surfaces of a manifest, of a dashboard template   *)
(* and of the runtime take the same ones (packages/view-contracts).              *)
THEOREM ManifestsTrue == ManifestShape(manifest) /\ [][ManifestNext]_manifest => []ManifestHonest
<1>1. ManifestShape(manifest) /\ [ManifestNext]_manifest => ManifestShape(manifest)'
  BY DEF ManifestNext
<1> QED
  BY <1>1, ShapeHonest, PTL
=============================================================================
