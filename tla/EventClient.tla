----------------------------- MODULE EventClient ----------------------------
(* createComposeEventClient() of packages/view: the handlers of the actions a   *)
(* composition host routes to a view, with handlers that throw, and handlers    *)
(* that subscribe, unsubscribe or destroy the client while they run.  Each      *)
(* subscription has a handler function of its own.                              *)
EXTENDS Naturals, Sequences, FiniteSets, SequencesExt

CONSTANTS
  EventSubs,    \* subscriptions
  ActionOf,     \* the action of each
  MaxMessages   \* bound: messages in all

ASSUME EventAssumption == IsFiniteSet(EventSubs) /\ MaxMessages \in Nat

VARIABLES
  handlers,     \* handlers: the subscriptions entered, per action that has any
  subscribed,   \* per subscription: "no", "yes" or "undone"
  destroyed,
  delivering,   \* [action, left]: the snapshot a message is delivered to, or << >>
  messages,     \* messages so far
  due           \* history: per subscription, events owed and not delivered yet

eventVars == <<handlers, subscribed, destroyed, delivering, messages, due>>

EventActions == {ActionOf[s] : s \in EventSubs}

EventInit ==
  /\ handlers = [a \in {} |-> {}]
  /\ subscribed = [s \in EventSubs |-> "no"]
  /\ destroyed = FALSE /\ delivering = <<>> /\ messages = 0
  /\ due = [s \in EventSubs |-> 0]

HandlersOf(a) == IF a \in DOMAIN handlers THEN handlers[a] ELSE {}
With(a, set) == [x \in DOMAIN handlers \cup {a} |-> IF x = a THEN set ELSE handlers[x]]
Without(a) == [x \in DOMAIN handlers \ {a} |-> handlers[x]]

\* on()
On(s) ==
  /\ ~destroyed /\ subscribed[s] = "no"
  /\ subscribed' = [subscribed EXCEPT ![s] = "yes"]
  /\ handlers' = With(ActionOf[s], HandlersOf(ActionOf[s]) \cup {s})
  /\ UNCHANGED <<destroyed, delivering, messages, due>>

\* Faulty: the whole action goes.
ActionRemoved(s) == Without(ActionOf[s])

\* The entry goes, and the action with its last one.
Removed(s) ==
  LET left == HandlersOf(ActionOf[s]) \ {s} IN
  IF ActionOf[s] \notin DOMAIN handlers THEN handlers
  ELSE IF left = {} THEN Without(ActionOf[s]) ELSE With(ActionOf[s], left)

\* The function on() returned, once.
Off(s) ==
  /\ subscribed[s] = "yes"
  /\ subscribed' = [subscribed EXCEPT ![s] = "undone"]
  /\ handlers' = Removed(s)
  /\ due' = [due EXCEPT ![s] = 0]
  /\ UNCHANGED <<destroyed, delivering, messages>>

\* destroy()
Destroy ==
  /\ ~destroyed /\ destroyed' = TRUE
  /\ handlers' = [a \in {} |-> {}]
  /\ UNCHANGED <<subscribed, delivering, messages, due>>

\* A message of the parent whose envelope is a well-formed compose event.
EventArrives(a) ==
  /\ delivering = <<>> /\ ~destroyed /\ messages < MaxMessages
  /\ messages' = messages + 1
  /\ IF a \in DOMAIN handlers
     THEN \E order \in SetToSeqs(handlers[a]) : delivering' = order
     ELSE UNCHANGED delivering
  /\ due' = [s \in EventSubs |-> IF subscribed[s] = "yes" /\ ActionOf[s] = a THEN 1 ELSE due[s]]
  /\ UNCHANGED <<handlers, subscribed, destroyed>>

\* The next handler of the snapshot returns or throws.
Handled ==
  /\ delivering # <<>>
  /\ delivering' = Tail(delivering)
  /\ due' = [due EXCEPT ![Head(delivering)] = 0]
  /\ UNCHANGED <<handlers, subscribed, destroyed, messages>>

EventNext ==
  \/ \E s \in EventSubs : On(s) \/ Off(s)
  \/ \E a \in EventActions : EventArrives(a)
  \/ Destroy \/ Handled

EventSpec == EventInit /\ [][EventNext]_eventVars

\* A subscription that was not undone has every event of its action that came
\* while it was there, whatever its siblings do or undo before or during the
\* delivery.
Listened ==
  delivering = <<>> => \A s \in EventSubs : subscribed[s] = "yes" => due[s] = 0
=============================================================================
