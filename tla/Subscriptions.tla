--------------------------- MODULE Subscriptions ---------------------------
(***************************************************************************)
(* Streams of change notifications: the SubscriptionRegistry               *)
(* (packages/platform/src/subscriptions/subscription-registry.ts) and the  *)
(* subscriptions/listen branch of the POST handler that feeds it           *)
(* (packages/platform/src/mcp-app.ts).  Both are synchronous: each call is *)
(* one step, between which clients leave and connections break.            *)
(*                                                                         *)
(* A change is a member of Changes: a list that changed or a resource URI  *)
(* that was updated.  A keep-alive comment is no message.                  *)
(***************************************************************************)
EXTENDS Naturals, Sequences

CONSTANTS
  Streams,    \* the listen requests
  Changes,    \* what can be subscribed to
  Supported   \* serverSupports, the changes a server honours

ASSUME SubscriptionsAssumption ==
  /\ Supported \subseteq Changes
  /\ Changes \cap {"acknowledged", "cancelled", "result"} = {}

VARIABLES
  registry,   \* is there one (McpApp.subscriptions # null)?
  timers,     \* armed keep-alive intervals
  entries,    \* the streams registered
  stream      \* what each sink is and has sent

svars == <<registry, timers, entries, stream>>

Message == Changes \cup {"acknowledged", "cancelled", "result"}

\* link: what became of the connection; closed: the flag of the sink, which
\* notices a broken connection only when it writes.
Stream ==
  [link : {"none", "up", "broken", "left"}, closed : BOOLEAN,
   agreed : SUBSET Changes, got : Seq(Message)]

NoStream == [link |-> "none", closed |-> FALSE, agreed |-> {}, got |-> <<>>]

\* sink.enqueue()
Enqueued(r, m) ==
  IF r.closed THEN r
  ELSE IF r.link = "up" THEN [r EXCEPT !.got = Append(@, m)]
  ELSE [r EXCEPT !.closed = TRUE]

\* sink.enqueue() of a comment line
Pinged(r) == IF r.link = "up" THEN r ELSE [r EXCEPT !.closed = TRUE]

\* Faulty: the result, which ends the request, goes out first.
ToldLate(r) ==
  [Enqueued(Enqueued(r, "result"), "cancelled") EXCEPT !.closed = TRUE]

\* unregister(key, "server")
Told(r) ==
  [Enqueued(Enqueued(r, "cancelled"), "result") EXCEPT !.closed = TRUE]

SubsInit ==
  /\ registry = FALSE
  /\ timers = 0
  /\ entries = {}
  /\ stream = [s \in Streams |-> NoStream]

\* A registry is made, with its keep-alive timer, unless there is one.
Create ==
  IF registry THEN UNCHANGED svars
  ELSE /\ registry' = TRUE
       /\ timers' = timers + 1
       /\ UNCHANGED <<entries, stream>>

\* intersectFilter(): a list is agreed to when both sides say so, a URI or a task
\* when the server's own list is absent, which admits all, or names it; an empty
\* list admits none.  Supported is what that comes to for this server.
Agreed(requested) == requested \cap Supported

\* subscriptions/listen: acknowledged, then registered.
Listen(s, requested) ==
  /\ registry
  /\ stream[s].link = "none"
  /\ stream' = [stream EXCEPT ![s] =
                  [link |-> "up", closed |-> FALSE, agreed |-> Agreed(requested),
                   got |-> <<"acknowledged">>]]
  /\ entries' = entries \cup {s}
  /\ UNCHANGED <<registry, timers>>

Dead == {s \in entries : stream[s].closed}

\* The entries a fan-out keeps.
Stays(c) == entries \ Dead

\* fanOut(), fanOutResourceUpdated()
FanOut(c) ==
  /\ stream' = [s \in Streams |->
                  IF s \in entries \ Dead /\ c \in stream[s].agreed
                  THEN Enqueued(stream[s], c) ELSE stream[s]]
  /\ entries' = Stays(c)
  /\ UNCHANGED <<registry, timers>>

KeepAlive ==
  /\ timers > 0
  /\ stream' = [s \in Streams |-> IF s \in entries \ Dead THEN Pinged(stream[s]) ELSE stream[s]]
  /\ entries' = entries \ Dead
  /\ UNCHANGED <<registry, timers>>

\* The client closes its stream: unregister(key, "client").
Cancel(s) ==
  /\ stream[s].link = "up"
  /\ stream' = [stream EXCEPT ![s].link = "left"]
  /\ entries' = entries \ {s}
  /\ UNCHANGED <<registry, timers>>

\* The connection fails without a cancel().
Break(s) ==
  /\ stream[s].link = "up"
  /\ stream' = [stream EXCEPT ![s].link = "broken"]
  /\ UNCHANGED <<registry, timers, entries>>

\* shutdown(), after which McpApp drops the registry.
Shutdown ==
  IF registry
  THEN /\ registry' = FALSE
       /\ timers' = timers - 1
       /\ stream' = [s \in Streams |-> IF s \in entries THEN Told(stream[s]) ELSE stream[s]]
       /\ entries' = {}
  ELSE UNCHANGED svars

\* What clients and connections do.
ClientStep == \E s \in Streams : Cancel(s) \/ Break(s)

-----------------------------------------------------------------------------
(* Properties.                                                             *)

SubsTypeOK ==
  /\ registry \in BOOLEAN
  /\ timers = IF registry THEN 1 ELSE 0
  /\ entries \subseteq Streams
  /\ stream \in [Streams -> Stream]

Open(s) == stream[s].link = "up" /\ ~stream[s].closed

\* Does message i of g stand where it may: acknowledgement first, then changes
\* that were agreed to, and cancelled and result, in this order, at the end?
InPlace(g, agreed, i) ==
  \/ i = 1 /\ g[i] = "acknowledged"
  \/ i > 1 /\ g[i] \in agreed
  \/ i > 1 /\ i = Len(g) - 1 /\ g[i] = "cancelled" /\ g[i + 1] = "result"
  \/ i > 2 /\ i = Len(g) /\ g[i] = "result" /\ g[i - 1] = "cancelled"

\* What a stream carries, whoever leaves, breaks or is dropped meanwhile: first
\* the acknowledgement, never a change that was not agreed to, and cancelled and
\* result last, which are there just if the server closed it (comments of
\* register() and unregister()).
Orderly ==
  \A s \in Streams :
    LET r == stream[s]
        n == Len(r.got)
    IN  /\ \A i \in 1 .. n : InPlace(r.got, r.agreed, i)
        /\ r.link = "up" => n > 0 /\ (r.closed <=> r.got[n] = "result")

\* Every open stream is registered, so a shutdown tells each of them and leaves
\* none open: pruning and cancelling never lose one (fanOut, unregister, shutdown).
OpenIsRegistered ==
  /\ \A s \in Streams : Open(s) => s \in entries
  /\ ~registry => entries = {}

\* A stream is in order for as long as it lasts, and the registry knows it as long
\* as it is open (register, unregister, fanOut, shutdown).
StreamsSound == Orderly /\ OpenIsRegistered
=============================================================================
