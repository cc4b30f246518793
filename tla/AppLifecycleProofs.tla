------------------------ MODULE AppLifecycleProofs ------------------------
(***************************************************************************)
(* Theorems about AppLifecycle, for any number of overlapping starts and   *)
(* stops, streams, changes and tool calls; and about AuthConfig, for any   *)
(* configuration: what a server that starts is guarded by.  About Mrtr, for *)
(* any number of requests, processes, restarts and tokens, with memory      *)
(* stores or a shared one: the invariant says what SingleUse leaves out, a  *)
(* request that waits is one of the present life of its process, a          *)
(* reservation is kept as long as its token lives, and what is reserved     *)
(* once in a store's life is not reserved again.                            *)
(***************************************************************************)
EXTENDS AppLifecycle, AuthConfig, Mrtr, FiniteSetTheorems, TLAPS

SubsInv == SubsTypeOK /\ Orderly /\ OpenIsRegistered

\* The ways in which McpApp uses its subscription registry.
SubsNext ==
  \/ Create \/ Shutdown \/ KeepAlive \/ ClientStep
  \/ \E s \in Streams, requested \in SUBSET Changes : Listen(s, requested)
  \/ \E c \in Changes : FanOut(c)
  \/ UNCHANGED svars
-----------------------------------------------------------------------------
(* Streams.                                                                *)

\* What Orderly says of one stream.
OrderlyStream(r) ==
  /\ \A i \in 1 .. Len(r.got) : InPlace(r.got, r.agreed, i)
  /\ r.link = "up" => Len(r.got) > 0 /\ (r.closed <=> r.got[Len(r.got)] = "result")

LEMMA OrderlyByStream == Orderly <=> \A s \in Streams : OrderlyStream(stream[s])
BY DEF Orderly, OrderlyStream

\* Nothing on an open stream stands at its end: what is appended leaves all in place.
LEMMA OpenStream ==
  ASSUME NEW r \in Stream, OrderlyStream(r), r.link = "up", ~r.closed
  PROVE  \A i \in 1 .. Len(r.got) :
           (i = 1 /\ r.got[i] = "acknowledged") \/ (i > 1 /\ r.got[i] \in r.agreed)
BY DEF OrderlyStream, InPlace, Stream

LEMMA EnqueuedKeeps ==
  ASSUME NEW r \in Stream, OrderlyStream(r), NEW c \in r.agreed
  PROVE  Enqueued(r, c) \in Stream /\ OrderlyStream(Enqueued(r, c))
<1> DEFINE e == Enqueued(r, c)
           n == Len(r.got)
<1>1. c \in Changes /\ c \in Message /\ c # "result" /\ n \in Nat
  BY SubscriptionsAssumption DEF Stream, Message
<1>2. CASE ~r.closed /\ r.link = "up"
  <2>1. /\ e = [r EXCEPT !.got = Append(@, c)]
        /\ e.got = Append(r.got, c) /\ e.agreed = r.agreed
        /\ e.link = "up" /\ ~e.closed
    BY <1>2 DEF Enqueued, Stream
  <2>2. Len(e.got) = n + 1 /\ e.got[n + 1] = c /\ \A i \in 1 .. n : e.got[i] = r.got[i]
    BY <1>1, <2>1 DEF Stream
  <2>3. \A i \in 1 .. n : InPlace(e.got, e.agreed, i)
    BY <1>2, <2>1, <2>2, OpenStream DEF InPlace
  <2>4. n > 0
    BY <1>2 DEF OrderlyStream
  <2>5. InPlace(e.got, e.agreed, n + 1)
    BY <1>1, <2>1, <2>2, <2>4 DEF InPlace
  <2>6. \A i \in 1 .. Len(e.got) : InPlace(e.got, e.agreed, i)
    BY <1>1, <2>2, <2>3, <2>5
  <2>7. e \in Stream
    <3>1. Append(r.got, c) \in Seq(Message)
      BY <1>1 DEF Stream
    <3>2. QED
      BY <1>2, <2>1, <3>1 DEF Stream
  <2>8. QED
    BY <1>1, <2>1, <2>2, <2>4, <2>6, <2>7 DEF OrderlyStream
<1>3. CASE r.closed
  BY <1>3 DEF Enqueued
<1>4. CASE ~r.closed /\ r.link # "up"
  BY <1>4 DEF Enqueued, Stream, OrderlyStream
<1>5. QED
  BY <1>2, <1>3, <1>4

LEMMA PingedKeeps ==
  ASSUME NEW r \in Stream, OrderlyStream(r)
  PROVE  Pinged(r) \in Stream /\ OrderlyStream(Pinged(r))
BY DEF Pinged, Stream, OrderlyStream

LEMMA ToldKeeps ==
  ASSUME NEW r \in Stream, OrderlyStream(r)
  PROVE  Told(r) \in Stream /\ OrderlyStream(Told(r)) /\ Told(r).closed
<1> DEFINE e == Told(r)
           n == Len(r.got)
<1>1. n \in Nat /\ {"cancelled", "result"} \subseteq Message
  BY DEF Stream, Message
<1>2. CASE ~r.closed /\ r.link = "up"
  <2>1. /\ e = [r EXCEPT !.got = Append(Append(@, "cancelled"), "result"), !.closed = TRUE]
        /\ e.got = Append(Append(r.got, "cancelled"), "result") /\ e.agreed = r.agreed
        /\ e.link = "up" /\ e.closed
    BY <1>2 DEF Told, Enqueued, Stream
  <2>2. /\ Len(e.got) = n + 2 /\ e.got[n + 1] = "cancelled" /\ e.got[n + 2] = "result"
        /\ \A i \in 1 .. n : e.got[i] = r.got[i]
    BY <1>1, <2>1 DEF Stream
  <2>3. \A i \in 1 .. n : InPlace(e.got, e.agreed, i)
    BY <1>2, <2>1, <2>2, OpenStream DEF InPlace
  <2>4. n > 0
    BY <1>2 DEF OrderlyStream
  <2>5. InPlace(e.got, e.agreed, n + 1) /\ InPlace(e.got, e.agreed, n + 2)
    BY <1>1, <2>1, <2>2, <2>4 DEF InPlace
  <2>6. \A i \in 1 .. Len(e.got) : InPlace(e.got, e.agreed, i)
    BY <1>1, <2>2, <2>3, <2>5
  <2>7. e \in Stream
    <3>1. Append(Append(r.got, "cancelled"), "result") \in Seq(Message)
      BY <1>1 DEF Stream
    <3>2. QED
      BY <1>2, <2>1, <3>1 DEF Stream
  <2>8. QED
    BY <1>1, <2>1, <2>2, <2>4, <2>6, <2>7 DEF OrderlyStream
<1>3. CASE r.closed
  BY <1>3 DEF Told, Enqueued, Stream, OrderlyStream
<1>4. CASE ~r.closed /\ r.link # "up"
  BY <1>4 DEF Told, Enqueued, Stream, OrderlyStream
<1>5. QED
  BY <1>2, <1>3, <1>4

LEMMA FreshStream ==
  ASSUME NEW agreed \in SUBSET Changes
  PROVE  LET r == [link |-> "up", closed |-> FALSE, agreed |-> agreed, got |-> <<"acknowledged">>]
         IN  r \in Stream /\ OrderlyStream(r)
<1>1. <<"acknowledged">> \in Seq(Message)
  BY DEF Message
<1>2. QED
  BY <1>1 DEF Stream, OrderlyStream, InPlace

\* The link of a stream that goes down is all that changes of it.
LEMMA DownKeeps ==
  ASSUME NEW r \in Stream, OrderlyStream(r), NEW how \in {"left", "broken"}
  PROVE  [r EXCEPT !.link = how] \in Stream /\ OrderlyStream([r EXCEPT !.link = how])
BY DEF Stream, OrderlyStream

\* Every step of the registry keeps each stream in order and registered.
LEMMA StreamStep ==
  ASSUME SubsInv, SubsNext
  PROVE  SubsInv'
<1>1. \A s \in Streams : stream[s] \in Stream /\ OrderlyStream(stream[s])
  BY OrderlyByStream DEF SubsInv, SubsTypeOK
<1> SUFFICES /\ registry' \in BOOLEAN /\ timers' = (IF registry' THEN 1 ELSE 0)
             /\ entries' \subseteq Streams
             /\ stream' \in [Streams -> Stream]
             /\ \A s \in Streams : OrderlyStream(stream'[s])
             /\ OpenIsRegistered'
  <2>1. (\A s \in Streams : OrderlyStream(stream'[s])) => Orderly'
    BY DEF Orderly, OrderlyStream
  <2>2. QED
    BY <2>1 DEF SubsInv, SubsTypeOK
<1>2. CASE Create \/ UNCHANGED svars
  <2>1. UNCHANGED <<entries, stream>> /\ (registry => registry') /\ registry' \in BOOLEAN
    BY <1>2 DEF Create, svars, SubsInv, SubsTypeOK
  <2>2. timers' = IF registry' THEN 1 ELSE 0
    <3>1. CASE UNCHANGED <<registry, timers>>
      BY <3>1 DEF SubsInv, SubsTypeOK
    <3>2. CASE ~registry /\ registry' = TRUE /\ timers' = timers + 1
      <4>1. timers = 0
        BY <3>2 DEF SubsInv, SubsTypeOK
      <4>2. QED
        BY <3>2, <4>1
    <3>3. QED
      BY <1>2, <3>1, <3>2 DEF Create, svars
  <2>3. OpenIsRegistered'
    BY <2>1 DEF OpenIsRegistered, Open, SubsInv
  <2>4. QED
    BY <1>1, <2>1, <2>2, <2>3 DEF SubsInv, SubsTypeOK
<1>3. CASE Shutdown
  <2>1. CASE ~registry
    BY <1>1, <1>3, <2>1 DEF Shutdown, svars, SubsInv, SubsTypeOK, OpenIsRegistered, Open
  <2>2. CASE registry
    <3>1. \A s \in Streams : stream'[s] \in Stream /\ OrderlyStream(stream'[s])
      BY <1>1, <1>3, <2>2, ToldKeeps DEF Shutdown
    <3>2. \A s \in entries : stream'[s].closed
      BY <1>1, <1>3, <2>2, ToldKeeps DEF Shutdown, SubsInv, SubsTypeOK
    <3>3. \A s \in Streams \ entries : stream'[s] = stream[s]
      BY <1>3, <2>2 DEF Shutdown
    <3>4. stream' \in [Streams -> Stream]
      BY <1>3, <2>2, <3>1 DEF Shutdown
    <3>5. timers = 1
      BY <2>2 DEF SubsInv, SubsTypeOK
    <3>6. registry' = FALSE /\ timers' = 0 /\ entries' = {}
      BY <1>3, <2>2, <3>5 DEF Shutdown
    <3>7. \A s \in Streams : ~Open(s)'
      BY <3>2, <3>3 DEF Open, SubsInv, OpenIsRegistered
    <3>8. QED
      BY <3>1, <3>4, <3>6, <3>7 DEF OpenIsRegistered
  <2>3. QED
    BY <2>1, <2>2
<1>4. CASE KeepAlive
  <2>1. \A s \in Streams : stream'[s] \in Stream /\ OrderlyStream(stream'[s])
    BY <1>1, <1>4, PingedKeeps DEF KeepAlive
  <2>2. stream' \in [Streams -> Stream]
    BY <1>4, <2>1 DEF KeepAlive
  <2>3. \A s \in Streams : Open(s)' => Open(s)
    BY <1>1, <1>4 DEF KeepAlive, Open, Pinged, Stream
  <2>4. QED
    BY <1>4, <2>1, <2>2, <2>3 DEF KeepAlive, Dead, SubsInv, SubsTypeOK, OpenIsRegistered, Open
<1>5. CASE ClientStep
  <2> PICK s \in Streams : Cancel(s) \/ Break(s)
    BY <1>5 DEF ClientStep
  <2>1. PICK how \in {"left", "broken"} : stream' = [stream EXCEPT ![s].link = how]
    BY DEF Cancel, Break
  <2>2. stream' = [stream EXCEPT ![s] = [stream[s] EXCEPT !.link = how]]
    BY <2>1 DEF SubsInv, SubsTypeOK
  <2>3. [stream[s] EXCEPT !.link = how] \in Stream /\ OrderlyStream([stream[s] EXCEPT !.link = how])
    BY <1>1, DownKeeps
  <2>4. stream' \in [Streams -> Stream] /\ \A q \in Streams : OrderlyStream(stream'[q])
    BY <1>1, <2>2, <2>3 DEF SubsInv, SubsTypeOK
  <2>5. \A q \in Streams : Open(q)' => Open(q) /\ q # s
    BY <1>1, <2>2 DEF Open, SubsInv, SubsTypeOK, Stream
  <2>6. QED
    BY <2>4, <2>5 DEF Cancel, Break, SubsInv, SubsTypeOK, OpenIsRegistered
<1>6. ASSUME NEW s \in Streams, NEW requested \in SUBSET Changes, Listen(s, requested)
      PROVE  /\ registry' \in BOOLEAN /\ timers' = (IF registry' THEN 1 ELSE 0)
             /\ entries' \subseteq Streams
             /\ stream' \in [Streams -> Stream]
             /\ \A q \in Streams : OrderlyStream(stream'[q])
             /\ OpenIsRegistered'
  <2> DEFINE r == [link |-> "up", closed |-> FALSE, agreed |-> requested \cap Supported,
                   got |-> <<"acknowledged">>]
  <2>1. r \in Stream /\ OrderlyStream(r)
    BY FreshStream
  <2>2. stream' = [stream EXCEPT ![s] = r]
    BY <1>6 DEF Listen, Agreed
  <2> HIDE DEF r
  <2>3. stream' \in [Streams -> Stream] /\ \A q \in Streams : OrderlyStream(stream'[q])
    BY <1>1, <2>1, <2>2 DEF SubsInv, SubsTypeOK
  <2>4. \A q \in Streams : Open(q)' => Open(q) \/ q = s
    BY <2>2 DEF Open, SubsInv, SubsTypeOK
  <2>5. QED
    BY <1>6, <2>3, <2>4 DEF Listen, Agreed, SubsInv, SubsTypeOK, OpenIsRegistered
<1>7. ASSUME NEW c \in Changes, FanOut(c)
      PROVE  /\ registry' \in BOOLEAN /\ timers' = (IF registry' THEN 1 ELSE 0)
             /\ entries' \subseteq Streams
             /\ stream' \in [Streams -> Stream]
             /\ \A q \in Streams : OrderlyStream(stream'[q])
             /\ OpenIsRegistered'
  <2>1. \A s \in Streams : stream'[s] \in Stream /\ OrderlyStream(stream'[s])
    BY <1>1, <1>7, EnqueuedKeeps DEF FanOut
  <2>2. stream' \in [Streams -> Stream]
    BY <1>7, <2>1 DEF FanOut
  <2>3. \A s \in Streams : Open(s)' => Open(s)
    BY <1>1, <1>7 DEF FanOut, Open, Enqueued, Stream
  <2>4. QED
    BY <1>7, <2>1, <2>2, <2>3 DEF FanOut, Stays, Dead, SubsInv, SubsTypeOK, OpenIsRegistered, Open
<1>8. QED
  BY <1>2, <1>3, <1>4, <1>5, <1>6, <1>7 DEF SubsNext

\* McpApp changes its streams only through the registry.
LEMMA UsesRegistry == [LifecycleNext]_lifecycleVars => SubsNext
BY DEF LifecycleNext, lifecycleVars, svars, SubsNext, Start, HttpUp, StartHttp, RefusedStart, StartHttpLoads, Loaded,
       LoadFails, Stop, ShutDone, Closed, StopFails, Request, Announce, CallStep

LEMMA SubsInvariance == LifecycleSpec => []SubsInv
<1>1. LifecycleInit => SubsInv
  <2>1. <<>> \in Seq(Message)
    OBVIOUS
  <2>2. NoStream \in Stream /\ OrderlyStream(NoStream) /\ NoStream.link # "up"
    BY <2>1 DEF NoStream, Stream, OrderlyStream
  <2>3. LifecycleInit => SubsTypeOK
    BY <2>2 DEF LifecycleInit, SubsInit, SubsTypeOK
  <2>4. LifecycleInit => Orderly
    BY <2>2, OrderlyByStream DEF LifecycleInit, SubsInit
  <2>5. LifecycleInit => OpenIsRegistered
    BY <2>2 DEF LifecycleInit, SubsInit, OpenIsRegistered, Open
  <2>6. QED
    BY <2>3, <2>4, <2>5 DEF SubsInv
<1>2. SubsInv /\ [LifecycleNext]_lifecycleVars => SubsInv'
  BY StreamStep, UsesRegistry
<1>3. QED
  BY <1>1, <1>2, PTL DEF LifecycleSpec

\* What a stream carries is in order, whoever leaves, breaks or is dropped meanwhile,
\* and an open stream is registered, so that a shutdown reaches it.
THEOREM Streaming == LifecycleSpec => []StreamsSound
<1>1. SubsInv => StreamsSound
  BY DEF SubsInv, StreamsSound
<1>2. QED
  BY <1>1, SubsInvariance, PTL

-----------------------------------------------------------------------------
(* Starting and stopping.                                                  *)

\* Types of what the application itself keeps.
Flags ==
  /\ started \in BOOLEAN /\ stopping \in BOOLEAN /\ disposed \in BOOLEAN /\ mounted \in BOOLEAN
  /\ stdio \in BOOLEAN /\ renewed \in BOOLEAN /\ overlapped \in BOOLEAN /\ failed \in BOOLEAN /\ provided \in BOOLEAN

Handles ==
  /\ served \in 0 .. MaxServers
  /\ httpServer \in 0 .. served
  /\ listening \subseteq Servers

CallsTyped ==
  /\ op \in [Ops -> [at : {"none", "loading", "shutting", "closing"}, server : 0 .. MaxServers]]
  /\ call \in [ToolCalls -> {"none", "handling", "owner", "refused", "running", "aborted"}]

AppTypeOK == Flags /\ Handles /\ CallsTyped

LEMMA FlagsStep ==
  ASSUME Flags, [LifecycleNext]_lifecycleVars
  PROVE  Flags'
<1> USE DEF Flags
<1>1. CASE Start \/ StartHttp
  BY <1>1 DEF Start, StartHttp, HttpUp, Prepare, Overlaps
<1>2. ASSUME NEW o \in Ops, StartHttpLoads(o) \/ LoadFails(o) \/ Loaded(o) PROVE Flags'
  BY <1>2 DEF StartHttpLoads, LoadFails, Loaded, HttpUp, Prepare, Overlaps
<1>3. ASSUME NEW o \in Ops, Stop(o) PROVE Flags'
  <2>1. started' \in BOOLEAN /\ stdio' \in BOOLEAN
    BY <1>3 DEF Stop
  <2>2. QED
    BY <1>3, <2>1 DEF Stop, Overlaps
<1>4. ASSUME NEW o \in Ops, ShutDone(o) \/ Closed(o) \/ StopFails(o) PROVE Flags'
  BY <1>4 DEF ShutDone, Closed, StopFails
<1>5. ASSUME NEW t \in ToolCalls, CallStep(t) PROVE Flags'
  BY <1>5 DEF CallStep
<1>6. CASE UNCHANGED avars
  BY <1>6 DEF avars
<1>7. QED
  BY <1>1, <1>2, <1>3, <1>4, <1>5, <1>6 DEF LifecycleNext, Request, Announce, RefusedStart, lifecycleVars

LEMMA HandlesStep ==
  ASSUME Handles, [LifecycleNext]_lifecycleVars
  PROVE  Handles'
<1> DEFINE Served == /\ served < MaxServers /\ served' = served + 1
                     /\ httpServer' = served + 1 /\ listening' = listening \cup {served + 1}
           Forgotten == /\ served' = served /\ httpServer' = 0
                      /\ listening' \subseteq listening
           Kept == UNCHANGED <<httpServer, served, listening>>
<1>1. HttpUp => Served \/ Kept
  BY DEF HttpUp
<1>2. ASSUME NEW o \in Ops, ShutDone(o) PROVE Forgotten
  BY <1>2 DEF ShutDone, None
<1>3. Served \/ Forgotten \/ Kept
  BY <1>1, <1>2
     DEF LifecycleNext, Start, StartHttp, RefusedStart, StartHttpLoads, Loaded, LoadFails, Stop, Closed,
         StopFails, Request, Announce, CallStep, lifecycleVars, avars
<1>4. Served => Handles'
  BY AppLifecycleAssumption DEF Handles, Servers
<1>5. Forgotten => Handles'
  BY AppLifecycleAssumption DEF Handles, Servers
<1>6. Kept => Handles'
  BY DEF Handles
<1>7. QED
  BY <1>3, <1>4, <1>5, <1>6

LEMMA CallsStep ==
  ASSUME Handles, CallsTyped, [LifecycleNext]_lifecycleVars
  PROVE  CallsTyped'
<1> USE AppLifecycleAssumption DEF CallsTyped, None, Idle
<1>1. ASSUME NEW o \in Ops, StartHttpLoads(o) \/ LoadFails(o) \/ Loaded(o) PROVE CallsTyped'
  BY <1>1 DEF StartHttpLoads, LoadFails, Loaded, HttpUp
<1>2. ASSUME NEW o \in Ops, Stop(o) PROVE CallsTyped'
  <2>1. Awaits \in {"none", "shutting", "closing"} /\ httpServer \in 0 .. MaxServers
    BY DEF Awaits, Handles
  <2>2. call' \in [ToolCalls -> {"none", "handling", "owner", "refused", "running", "aborted"}]
    BY <1>2 DEF Stop
  <2>3. QED
    BY <1>2, <2>1, <2>2 DEF Stop
<1>3. ASSUME NEW o \in Ops, ShutDone(o) \/ Closed(o) \/ StopFails(o) PROVE CallsTyped'
  BY <1>3 DEF ShutDone, Closed, StopFails
<1>4. ASSUME NEW t \in ToolCalls, CallStep(t) PROVE CallsTyped'
  BY <1>4 DEF CallStep
<1>5. CASE UNCHANGED <<op, call>>
  BY <1>5
<1>6. QED
  BY <1>1, <1>2, <1>3, <1>4, <1>5
     DEF LifecycleNext, Start, StartHttp, HttpUp, RefusedStart, Request, Announce, lifecycleVars, avars

LEMMA AppTypes == LifecycleSpec => []AppTypeOK
<1>1. LifecycleInit => Flags
  BY DEF LifecycleInit, Flags
<1>2. LifecycleInit => CallsTyped
  BY AppLifecycleAssumption DEF LifecycleInit, CallsTyped, None, Idle
<1>3. LifecycleInit => Handles
  BY AppLifecycleAssumption DEF LifecycleInit, Handles, Servers, None
<1>4. AppTypeOK /\ [LifecycleNext]_lifecycleVars => AppTypeOK'
  BY FlagsStep, HandlesStep, CallsStep DEF AppTypeOK
<1>5. QED
  BY <1>1, <1>2, <1>3, <1>4, PTL DEF LifecycleSpec, AppTypeOK

\* The type invariant, with one keep-alive timer just while there is a registry.
THEOREM TypeCorrectness == LifecycleSpec => []LifecycleTypeOK
<1>1. AppTypeOK /\ SubsInv => LifecycleTypeOK
  BY DEF AppTypeOK, Flags, Handles, CallsTyped, SubsInv, LifecycleTypeOK
<1>2. QED
  BY <1>1, AppTypes, SubsInvariance, PTL
-----------------------------------------------------------------------------
\* Where StartedIsLive fails it was not so before: only a stop() makes a started
\* server stopping, and it is suspended from then on until the server is not started.
LEMMA LiveStep ==
  ASSUME AppTypeOK, StartedIsLive, [LifecycleNext]_lifecycleVars
  PROVE  StartedIsLive'
<1> DEFINE Stops(o) == op[o].at \in {"shutting", "closing"}
<1>1. CASE Start
  BY <1>1 DEF Start, Prepare, StartedIsLive
<1>2. CASE HttpUp
  BY <1>2 DEF HttpUp, Prepare, StartedIsLive
<1>3. ASSUME NEW o \in Ops, StartHttpLoads(o) \/ LoadFails(o)
      PROVE  StartedIsLive'
  <2>1. \A q \in Ops : Stops(q) => Stops(q)'
    BY <1>3 DEF StartHttpLoads, LoadFails, Idle, AppTypeOK, CallsTyped
  <2>2. UNCHANGED <<started, stopping, disposed, failed>>
    BY <1>3 DEF StartHttpLoads, LoadFails
  <2>3. QED
    BY <2>1, <2>2 DEF StartedIsLive
<1>4. ASSUME NEW o \in Ops, Stop(o) PROVE StartedIsLive'
  <2>1. CASE ~started
    BY <1>4, <2>1 DEF Stop, StartedIsLive
  <2>2. CASE started /\ Awaits = "none"
    BY <1>4, <2>2 DEF Stop, StartedIsLive
  <2>3. CASE started /\ Awaits # "none"
    <3>1. Awaits \in {"shutting", "closing"}
      BY <2>3 DEF Awaits
    <3>2. Stops(o)'
      BY <1>4, <2>3, <3>1 DEF Stop, AppTypeOK, CallsTyped
    <3>3. QED
      BY <3>2 DEF StartedIsLive
  <2>4. QED
    BY <2>1, <2>2, <2>3 DEF AppTypeOK, Flags
<1>5. ASSUME NEW o \in Ops, ShutDone(o) PROVE StartedIsLive'
  <2>1. CASE ~stdio
    BY <1>5, <2>1 DEF ShutDone, StartedIsLive
  <2>2. CASE stdio
    <3>1. Stops(o)'
      BY <1>5, <2>2 DEF ShutDone, AppTypeOK, CallsTyped
    <3>2. QED
      BY <3>1 DEF StartedIsLive
  <2>3. QED
    BY <2>1, <2>2
<1>6. ASSUME NEW o \in Ops, Closed(o) \/ StopFails(o) PROVE StartedIsLive'
  BY <1>6 DEF Closed, StopFails, StartedIsLive
<1>7. ASSUME NEW t \in ToolCalls, CallStep(t) PROVE StartedIsLive'
  BY <1>7 DEF CallStep, StartedIsLive
<1>8. CASE UNCHANGED avars
  BY <1>8 DEF avars, StartedIsLive
<1>9. QED
  BY <1>1, <1>2, <1>3, <1>4, <1>5, <1>6, <1>7, <1>8
     DEF LifecycleNext, StartHttp, RefusedStart, Loaded, Request, Announce, lifecycleVars

\* A started server has a live store, however many starts and stops overlapped.
THEOREM LiveStore == LifecycleSpec => []StartedIsLive
<1>1. LifecycleInit => StartedIsLive
  BY DEF LifecycleInit, StartedIsLive
<1>2. QED
  BY <1>1, LiveStep, AppTypes, PTL DEF LifecycleSpec
-----------------------------------------------------------------------------
\* A disposed store runs nothing; and one that is live either belongs to a start since
\* the last stop(), or the application was never reachable.
TasksAreOfAStart ==
  /\ disposed => \A t \in ToolCalls : call[t] # "running"
  /\ \/ disposed
     \/ renewed
     \/ listening = {} /\ ~mounted /\ \A t \in ToolCalls : call[t] = "none"

LEMMA TaskStep ==
  ASSUME AppTypeOK, TasksAreOfAStart, [LifecycleNext]_lifecycleVars
  PROVE  TasksAreOfAStart'
<1>1. CASE Start
  BY <1>1 DEF Start, Prepare, TasksAreOfAStart
<1>2. CASE HttpUp
  BY <1>2 DEF HttpUp, Prepare, TasksAreOfAStart
<1>3. ASSUME NEW o \in Ops, Stop(o) PROVE TasksAreOfAStart'
  BY <1>3 DEF Stop, TasksAreOfAStart
<1>4. ASSUME NEW o \in Ops, ShutDone(o) PROVE TasksAreOfAStart'
  BY <1>4 DEF ShutDone, TasksAreOfAStart
<1>5. ASSUME NEW t \in ToolCalls, CallStep(t) PROVE TasksAreOfAStart'
  <2>1. call[t] # "none" \/ Reachable
    BY <1>5 DEF CallStep
  <2>2. disposed \/ renewed
    BY <2>1 DEF TasksAreOfAStart, Reachable
  <2>3. \A u \in ToolCalls : call'[u] = "running" => call[u] = "running" \/ ~disposed
    BY <1>5 DEF CallStep, AppTypeOK, CallsTyped
  <2>4. UNCHANGED <<disposed, renewed>>
    BY <1>5 DEF CallStep
  <2>5. QED
    BY <2>2, <2>3, <2>4 DEF TasksAreOfAStart
<1>6. CASE UNCHANGED <<disposed, renewed, listening, mounted, call>>
  BY <1>6 DEF TasksAreOfAStart
<1>7. QED
  BY <1>1, <1>2, <1>3, <1>4, <1>5, <1>6
     DEF LifecycleNext, StartHttp, RefusedStart, StartHttpLoads, Loaded, LoadFails, Closed, StopFails,
         Request, Announce, lifecycleVars, avars

\* Once stop() began no task is accepted until a start passes its guard, from calls
\* that were under way either, and no task outlives the store it runs in.
THEOREM NoLateTask == LifecycleSpec => NoTaskOnceStopping
<1>1. LifecycleInit => TasksAreOfAStart
  BY DEF LifecycleInit, TasksAreOfAStart
<1>2. AppTypeOK /\ TasksAreOfAStart /\ [LifecycleNext]_lifecycleVars =>
        [\A t \in ToolCalls : call[t] # "running" /\ call'[t] = "running" => renewed]_lifecycleVars
  <2> SUFFICES ASSUME AppTypeOK, TasksAreOfAStart, LifecycleNext,
                      NEW t \in ToolCalls, call[t] # "running", call'[t] = "running"
               PROVE  renewed
    OBVIOUS
  <2>1. PICK u \in ToolCalls : CallStep(u)
    BY DEF LifecycleNext, Start, StartHttp, HttpUp, RefusedStart, StartHttpLoads, Loaded, LoadFails, Stop,
           ShutDone, Closed, StopFails, Request, Announce, lifecycleVars, avars
  <2>2. call[t] # "none" /\ ~disposed
    BY <2>1 DEF CallStep, AppTypeOK, CallsTyped
  <2>3. QED
    BY <2>2 DEF TasksAreOfAStart
<1>3. TasksAreOfAStart => (disposed => \A t \in ToolCalls : call[t] # "running")
  BY DEF TasksAreOfAStart
<1>4. QED
  BY <1>1, <1>2, <1>3, TaskStep, AppTypes, PTL DEF LifecycleSpec, NoTaskOnceStopping
-----------------------------------------------------------------------------
\* As long as calls did not overlap one at most is suspended, it awaits the server
\* there is, and that server is the only one that listens.
InTurn ==
  ~overlapped =>
    /\ \A o, p \in Suspended : o = p
    /\ listening \subseteq {httpServer}
    /\ ~started => httpServer = None /\ ~stdio
    /\ \A o \in Ops :
         /\ op[o].at = "loading" => ~started
         /\ op[o].at = "shutting" => op[o].server = httpServer
         /\ op[o].at = "closing" => httpServer = None /\ ~stdio

LEMMA TurnStep ==
  ASSUME AppTypeOK, InTurn, [LifecycleNext]_lifecycleVars
  PROVE  InTurn'
<1> SUFFICES ASSUME ~overlapped'
             PROVE  /\ \A o, p \in Suspended' : o = p
                    /\ listening' \subseteq {httpServer'}
                    /\ ~started' => httpServer' = None /\ ~stdio'
                    /\ \A o \in Ops :
                         /\ op'[o].at = "loading" => ~started'
                         /\ op'[o].at = "shutting" => op'[o].server = httpServer'
                         /\ op'[o].at = "closing" => httpServer' = None /\ ~stdio'
  BY DEF InTurn
<1>1. ~overlapped
  BY DEF LifecycleNext, Start, StartHttp, RefusedStart, StartHttpLoads, Loaded, LoadFails, Stop, ShutDone,
         Closed, StopFails, Request, Announce, CallStep, Overlaps, lifecycleVars, avars
<1>2. None \notin Servers
  BY DEF None, Servers
<1>3. ASSUME ~started PROVE listening = {} /\ httpServer = None /\ ~stdio
  BY <1>1, <1>2, <1>3 DEF InTurn, AppTypeOK, Handles
<1>4. ASSUME Overlaps PROVE \A o \in Ops : op[o].at = "none"
  BY <1>4 DEF Overlaps, Suspended
<1>5. CASE Start
  <2>1. Suspended' = {} /\ \A o \in Ops : op'[o].at = "none"
    BY <1>4, <1>5 DEF Start, Suspended
  <2>2. QED
    BY <1>3, <1>5, <2>1 DEF Start
<1>6. ASSUME ~started, HttpUp, \A o \in Ops : op'[o].at = "none"
      PROVE  InTurn'
  <2>1. Suspended' = {}
    BY <1>6 DEF Suspended
  <2>2. CASE httpServer' = served + 1 /\ listening' = listening \cup {served + 1} /\ started' = TRUE
    BY <1>3, <1>6, <2>1, <2>2 DEF InTurn
  <2>3. CASE UNCHANGED <<httpServer, listening>>
    BY <1>3, <1>6, <2>1, <2>3 DEF InTurn, HttpUp
  <2>4. QED
    BY <1>6, <2>2, <2>3 DEF HttpUp
<1>7. CASE StartHttp
  BY <1>4, <1>6, <1>7 DEF StartHttp, InTurn
<1>8. ASSUME NEW o \in Ops, Loaded(o) PROVE InTurn'
  <2>1. ~started /\ \A q \in Ops : op'[q].at = "none"
    BY <1>1, <1>8 DEF Loaded, Idle, InTurn, Suspended, AppTypeOK, CallsTyped
  <2>2. QED
    BY <1>6, <1>8, <2>1 DEF Loaded
<1>9. ASSUME NEW o \in Ops, StartHttpLoads(o) PROVE InTurn'
  <2>1. op'[o].at = "loading" /\ \A q \in Ops \ {o} : op'[q].at = "none"
    BY <1>4, <1>9 DEF StartHttpLoads, AppTypeOK, CallsTyped
  <2>2. Suspended' = {o}
    BY <2>1 DEF Suspended
  <2>3. UNCHANGED <<httpServer, listening, stdio, started>> /\ ~started
    BY <1>9 DEF StartHttpLoads
  <2>4. QED
    BY <1>3, <2>1, <2>2, <2>3 DEF InTurn
<1>10. ASSUME NEW o \in Ops, LoadFails(o) PROVE InTurn'
  <2>1. Suspended' = {} /\ \A q \in Ops : op'[q].at = "none"
    BY <1>1, <1>10 DEF LoadFails, Idle, InTurn, Suspended, AppTypeOK, CallsTyped
  <2>2. UNCHANGED <<httpServer, listening, stdio, started>>
    BY <1>10 DEF LoadFails
  <2>3. QED
    BY <1>1, <2>1, <2>2 DEF InTurn
<1>11. ASSUME NEW o \in Ops, Stop(o) PROVE InTurn'
  <2>1. UNCHANGED <<httpServer, listening>>
    BY <1>11 DEF Stop
  <2>2. CASE ~started
    <3>1. UNCHANGED <<started, stdio, op>>
      BY <1>11, <2>2 DEF Stop
    <3>2. QED
      BY <1>1, <2>1, <3>1 DEF InTurn, Suspended
  <2>3. CASE started
    <3>1. /\ op'[o] = [at |-> Awaits, server |-> httpServer]
          /\ \A q \in Ops \ {o} : op'[q].at = "none"
      BY <1>4, <1>11, <2>3 DEF Stop, AppTypeOK, CallsTyped
    <3>2. \A p, q \in Suspended' : p = q
      BY <3>1 DEF Suspended
    <3>3. (started' <=> Awaits # "none") /\ (stdio' <=> stdio /\ Awaits # "closing")
      BY <1>11, <2>3 DEF Stop
    <3>4. Awaits # "shutting" => httpServer = None
      BY DEF Awaits
    <3>5. Awaits = "none" => ~stdio
      BY DEF Awaits
    <3>6. Awaits \in {"none", "shutting", "closing"}
      BY DEF Awaits
    <3>7. QED
      BY <1>1, <2>1, <3>1, <3>2, <3>3, <3>4, <3>5, <3>6 DEF InTurn
  <2>4. QED
    BY <2>2, <2>3
<1>12. ASSUME NEW o \in Ops, ShutDone(o) PROVE InTurn'
  <2>1. listening' = {} /\ httpServer' = None /\ ~stdio' /\ (started' => stdio)
    BY <1>1, <1>12 DEF ShutDone, InTurn
  <2>2. /\ op'[o] = IF stdio THEN [at |-> "closing", server |-> None] ELSE Idle
        /\ \A q \in Ops \ {o} : op'[q].at = "none"
    BY <1>1, <1>12 DEF ShutDone, InTurn, Suspended, AppTypeOK, CallsTyped
  <2>3. op'[o].at \in {"closing", "none"}
    BY <2>2 DEF Idle
  <2>4. \A p, q \in Suspended' : p = q
    BY <2>2 DEF Suspended
  <2>5. QED
    BY <2>1, <2>2, <2>3, <2>4 DEF InTurn
<1>13. ASSUME NEW o \in Ops, Closed(o) \/ StopFails(o) PROVE InTurn'
  <2>1. Suspended' = {} /\ \A q \in Ops : op'[q].at = "none"
    BY <1>1, <1>13 DEF Closed, StopFails, Idle, InTurn, Suspended, AppTypeOK, CallsTyped
  <2>2. UNCHANGED <<httpServer, listening, stdio>>
    BY <1>13 DEF Closed, StopFails
  <2>3. ~started' => httpServer = None /\ ~stdio
    <3>1. CASE Closed(o)
      BY <1>1, <3>1 DEF Closed, InTurn
    <3>2. CASE StopFails(o)
      BY <1>1, <3>2 DEF StopFails, InTurn
    <3>3. QED
      BY <1>13, <3>1, <3>2
  <2>4. QED
    BY <1>1, <2>1, <2>2, <2>3 DEF InTurn
<1>14. CASE UNCHANGED <<started, stdio, httpServer, listening, op>>
  BY <1>1, <1>14 DEF InTurn, Suspended
<1>15. QED
  BY <1>5, <1>7, <1>8, <1>9, <1>10, <1>11, <1>12, <1>13, <1>14
     DEF LifecycleNext, InTurn, RefusedStart, Request, Announce, CallStep, lifecycleVars, avars

\* An application whose starts and stops do not overlap leaves nothing running.
THEOREM Quiet == LifecycleSpec => []StoppedRunsNothing
<1>1. LifecycleInit => InTurn
  BY DEF LifecycleInit, InTurn, Suspended, Idle
<1>2. AppTypeOK /\ InTurn => StoppedRunsNothing
  <2>1. None \notin Servers
    BY DEF None, Servers
  <2>2. QED
    BY <2>1 DEF AppTypeOK, Handles, InTurn, StoppedRunsNothing
<1>3. QED
  BY <1>1, <1>2, TurnStep, AppTypes, PTL DEF LifecycleSpec

\* Both together.
THEOREM Running == LifecycleSpec => []RunsWhileStarted
<1>1. StartedIsLive /\ StoppedRunsNothing => RunsWhileStarted
  BY DEF RunsWhileStarted
<1>2. QED
  BY <1>1, LiveStore, Quiet, PTL

-----------------------------------------------------------------------------
(* Configuration.                                                          *)

\* GuardedOrRefused, of any environment and file.
ServerGuarded(requireAuth, env, file) ==
  LET auth == StartAuth(requireAuth, env, file)
      blind == [s \in Settings |-> IF env[s] # Undef THEN Undef ELSE file[s]]
  IN  /\ auth = NoAuth => /\ ~requireAuth
                          /\ env.provider = "" \/ (env.provider = Undef /\ file.provider \in {Undef, NotAText, ""})
      /\ auth.kind = "provider" =>
            /\ auth.audience \in {env.audience, file.audience} \ {Undef, NotAText, ""}
            /\ auth.resource \in {env.resource, file.resource} \ {Undef, NotAText, ""}
            /\ IsHttpUrl(auth.metadata[2])
            /\ \E p \in {env.provider, file.provider} \cap Providers : auth.issuer = Issuer([Config(env, file) EXCEPT !.provider = p])
      /\ StartAuth(requireAuth, env, blind) = auth

\* A setting that counts was made in the environment or in the file.
LEMMA SettingFrom ==
  ASSUME NEW env, NEW file, NEW s \in Settings, env[s] # NotAText
  PROVE  /\ Given(Config(env, file)[s]) => Config(env, file)[s] \in {env[s], file[s]} \ {Undef, NotAText, ""}
         /\ ~Given(Config(env, file)[s]) => env[s] = "" \/ (env[s] = Undef /\ file[s] \in {Undef, NotAText, ""})
BY DEF Config, Setting, LoadYamlAuth, Given, NotAText, Undef

\* What the presets build from a configuration.
LEMMA Built ==
  ASSUME NEW c
  PROVE  \/ BuildJwtAuthProvider(c) = Error
         \/ /\ BuildJwtAuthProvider(c) = [kind |-> "provider", issuer |-> Issuer(c), audience |-> c.audience, resource |-> c.resource,
                                          metadata |-> MetadataUrl(c)]
            /\ IsHttpUrl(MetadataUrl(c)[2])
<1> DEFINE url == MetadataUrl(c)
           bad == \/ url[1] = "given" /\ ~IsHttpUrl(c.resourceMetadataUrl)
                  \/ url[1] = "none"
                  \/ c.provider = "auth0" /\ c.domain \notin Hosts
                  \/ ~KeysAreAtAUrl(c)
<1>1. BuildJwtAuthProvider(c) = IF bad THEN Error
        ELSE [kind |-> "provider", issuer |-> Issuer(c), audience |-> c.audience, resource |-> c.resource, metadata |-> url]
  BY DEF BuildJwtAuthProvider
<1>2. ~bad => IsHttpUrl(url[2])
  BY DEF MetadataUrl
<1>3. QED
  BY <1>1, <1>2

\* A server has the provider it was configured with, or none was configured and none is required, or it does not start.
LEMMA Guarded ==
  ASSUME NEW requireAuth \in BOOLEAN, NEW env, NEW file, \A s \in Settings : env[s] # NotAText
  PROVE  ServerGuarded(requireAuth, env, file)
<1> DEFINE c == Config(env, file)
           auth == StartAuth(requireAuth, env, file)
           blind == [s \in Settings |-> IF env[s] # Undef THEN Undef ELSE file[s]]
<1>1. Config(env, blind) = c
  BY DEF Config, Setting, LoadYamlAuth, Undef, NotAText
<1>2. LoadAuth(env, blind) = LoadAuth(env, file) /\ StartAuth(requireAuth, env, blind) = auth
  BY <1>1 DEF LoadAuth, StartAuth
<1>3. {"provider", "audience", "resource"} \subseteq Settings
  BY DEF Settings
<1>4. /\ Given(c.audience) => c.audience \in {env.audience, file.audience} \ {Undef, NotAText, ""}
      /\ Given(c.resource) => c.resource \in {env.resource, file.resource} \ {Undef, NotAText, ""}
      /\ Given(c.provider) => c.provider \in {env.provider, file.provider}
      /\ ~Given(c.provider) => env.provider = "" \/ (env.provider = Undef /\ file.provider \in {Undef, NotAText, ""})
  BY <1>3, SettingFrom
<1>5. [c EXCEPT !.provider = c.provider] = c
  BY DEF Config
<1>6. auth = NoAuth => ~requireAuth /\ ~Given(c.provider)
  <2> HIDE DEF c
  <2>1. BuildJwtAuthProvider(c) # NoAuth
    BY Built DEF Error, NoAuth
  <2>2. QED
    BY <2>1 DEF StartAuth, LoadAuth, Error, NoAuth, c
<1>7. ASSUME auth.kind = "provider"
      PROVE  /\ Given(c.provider) /\ Given(c.audience) /\ Given(c.resource) /\ c.provider \in Providers
             /\ auth.audience = c.audience /\ auth.resource = c.resource /\ auth.issuer = Issuer(c) /\ IsHttpUrl(auth.metadata[2])
  <2> HIDE DEF c
  <2>1. auth = BuildJwtAuthProvider(c) /\ Given(c.provider) /\ ~Misconfigured(c)
    BY <1>7 DEF StartAuth, LoadAuth, Error, NoAuth, c
  <2>2. QED
    BY <2>1, <1>7, Built DEF Error, Misconfigured
<1>8. QED
  <2> HIDE DEF c, auth, blind
  <2>1. auth.kind = "provider" => \E p \in {env.provider, file.provider} \cap Providers : auth.issuer = Issuer([c EXCEPT !.provider = p])
    BY <1>4, <1>5, <1>7
  <2>2. QED
    BY <2>1, <1>2, <1>4, <1>6, <1>7 DEF ServerGuarded, auth, c, blind

\* RedirectAgreed, of any client and port.
ClientAgrees(config, port) ==
  LET ready == PrepareOAuthProvider(config, port)
      document == BuildClientIdMetadataDocument(config)
  IN  ready.kind = "ok" =>
         /\ ready.redirectUrl.port = ready.port /\ ready.redirectUrl.host = ready.host
         /\ IsCimdConfig(config) => /\ document.own.redirect_uris = <<ready.redirectUrl>>
                                    /\ document.own.client_id = ready.clientId
                                    /\ document.extra \cap (ReservedKeys \cup DOMAIN document.own) = {}

\* A client that is ready is registered for where its callback server listens.
LEMMA RedirectsAgree == ASSUME NEW config, NEW port PROVE ClientAgrees(config, port)
<1> DEFINE mode == ResolveClientMode(config)
           ready == PrepareOAuthProvider(config, port)
<1>1. (mode = Cimd => IsCimdConfig(config)) /\ (mode = "static" => ~IsCimdConfig(config))
  BY DEF ResolveClientMode, IsCimdConfig, Cimd
<1> DEFINE document == BuildClientIdMetadataDocument(config)
<1>2. CASE ready.kind = "ok" /\ mode = Cimd
  <2>1. ValidateCimdClientConfig(config) = "ok" /\ port = config.callbackPort
    BY <1>2 DEF PrepareOAuthProvider, Cimd
  <2>2. config.redirectUri = Redirect(port) /\ config.extra \cap ReservedKeys = {}
    BY <1>2, <2>1 DEF ValidateCimdClientConfig, Cimd
  <2>3. ready = [kind |-> "ok", redirectUrl |-> config.redirectUri, host |-> "127.0.0.1", clientId |-> config.metadataUrl, port |-> port]
    BY <1>1, <1>2, <2>1 DEF PrepareOAuthProvider, RedirectUrl, Cimd
  <2>4. document.own = [client_id |-> config.metadataUrl, client_name |-> config.clientName, redirect_uris |-> <<config.redirectUri>>]
        /\ document.extra = config.extra
    BY DEF BuildClientIdMetadataDocument
  <2>5. DOMAIN document.own \subseteq ReservedKeys
    BY <2>4 DEF ReservedKeys
  <2>6. ready.redirectUrl.port = ready.port /\ ready.redirectUrl.host = ready.host
    BY <2>2, <2>3 DEF Redirect
  <2> HIDE DEF ready, document
  <2>7. QED
    BY <2>2, <2>3, <2>4, <2>5, <2>6 DEF ClientAgrees, ready, document
<1>3. CASE ready.kind = "ok" /\ mode # Cimd
  <2>1. mode = "static"
    BY <1>3 DEF PrepareOAuthProvider, ResolveClientMode, Cimd
  <2>2. ready = [kind |-> "ok", redirectUrl |-> [Redirect(port) EXCEPT !.host = "localhost"], host |-> "localhost",
                 clientId |-> config.clientId[1], port |-> port]
    BY <1>1, <1>3, <2>1 DEF PrepareOAuthProvider, RedirectUrl, Cimd
  <2>3. ready.redirectUrl.port = ready.port /\ ready.redirectUrl.host = ready.host
    BY <2>2 DEF Redirect
  <2> HIDE DEF ready
  <2>4. QED
    BY <2>3, <2>1, <1>1 DEF ClientAgrees, ready
<1>4. QED
  BY <1>2, <1>3 DEF ClientAgrees

-----------------------------------------------------------------------------
\* An entry as it is written.
Listed == [token : DOMAIN Trimmed, subject : DOMAIN Trimmed, scopes : SUBSET DOMAIN Trimmed]

\* Reversed, a list has the same entries at other places.
LEMMA Reversed ==
  ASSUME NEW given \in Seq(Listed)
  PROVE  /\ Len(given) \in Nat /\ DOMAIN given = 1 .. Len(given)
         /\ DOMAIN Reverse(given) = 1 .. Len(given)
         /\ \A i \in 1 .. Len(given) : /\ Len(given) - i + 1 \in 1 .. Len(given)
                                         /\ Reverse(given)[i] = given[Len(given) - i + 1]
<1>1. Len(given) \in Nat /\ DOMAIN given = 1 .. Len(given)
  OBVIOUS
<1>2. \A i \in 1 .. Len(given) : Len(given) - i + 1 \in 1 .. Len(given)
  BY <1>1
<1>3. Reverse(given) = [i \in 1 .. Len(given) |-> given[Len(given) - i + 1]]
  BY DEF Reverse
<1>4. QED
  BY <1>1, <1>2, <1>3

\* What is wrong with a list does not depend on its order.
LEMMA FaultUnordered ==
  ASSUME NEW form, NEW given \in Seq(Listed), NEW declared, NEW resource, NEW url
  PROVE  StaticFault(form, Reverse(given), declared, resource, url) <=> StaticFault(form, given, declared, resource, url)
<1> DEFINE n == Len(given)
           flip(i) == n - i + 1
           twin(s) == \E i \in 1 .. n : \E j \in 1 .. (i - 1) : Trimmed[s[j].token] = Trimmed[s[i].token]
           bad(e) == \/ Trimmed[e.subject] \in {"", "unknown"}
                     \/ \E s \in e.scopes : Blank(s)
                     \/ declared # << >> /\ ~(TrimmedScopes(e.scopes) \subseteq TrimmedScopes(declared[1]))
           rev == Reverse(given)
<1>1. n \in Nat /\ DOMAIN given = 1 .. n /\ DOMAIN rev = 1 .. n
      /\ \A i \in 1 .. n : flip(i) \in 1 .. n /\ flip(flip(i)) = i /\ rev[i] = given[flip(i)]
  BY Reversed
<1> HIDE DEF rev
<1>2. (given = << >> <=> n = 0) /\ (rev = << >> <=> n = 0)
  BY <1>1
<1>3. (\E i \in 1 .. n : Blank(rev[i].token)) <=> (\E i \in 1 .. n : Blank(given[i].token))
  <2> HIDE DEF n, flip
  <2>1. QED
    BY <1>1
<1>4. (\E i \in 1 .. n : bad(rev[i])) <=> (\E i \in 1 .. n : bad(given[i]))
  <2> HIDE DEF bad, n, flip
  <2>1. QED
    BY <1>1
<1>5. twin(rev) <=> twin(given)
  <2>1. ASSUME NEW i \in 1 .. n, NEW j \in 1 .. n, j < i PROVE flip(i) < flip(j) /\ flip(i) \in 1 .. n /\ flip(j) \in 1 .. n
    BY <2>1, <1>1
  <2>2. ASSUME NEW a, NEW b, \A i \in 1 .. n : a[i] = b[flip(i)], twin(a) PROVE twin(b)
    <3>1. PICK i \in 1 .. n, j \in 1 .. n : j < i /\ Trimmed[a[j].token] = Trimmed[a[i].token]
      BY <2>2, <1>1
    <3>2. flip(j) \in 1 .. n /\ flip(i) \in 1 .. (flip(j) - 1)
      BY <3>1, <2>1, <1>1
    <3>3. Trimmed[b[flip(i)].token] = Trimmed[b[flip(j)].token]
      BY <3>1, <2>2
    <3> HIDE DEF flip
    <3>4. QED
      BY <3>2, <3>3
  <2>3. \A i \in 1 .. n : rev[i] = given[flip(i)]
    BY <1>1
  <2>4. \A i \in 1 .. n : given[i] = rev[flip(i)]
    BY <1>1
  <2> HIDE DEF twin, flip, n
  <2>5. QED
    BY <2>2, <2>3, <2>4
<1>6. ASSUME NEW s \in {rev, given}
      PROVE  (\E i \in DOMAIN s : CredentialFault(s, i, declared)) <=> ((\E i \in 1 .. n : bad(s[i])) \/ twin(s))
  <2>1. DOMAIN s = 1 .. n
    BY <1>1
  <2>2. \A i \in 1 .. n : CredentialFault(s, i, declared)
                           <=> bad(s[i]) \/ \E j \in 1 .. (i - 1) : Trimmed[s[j].token] = Trimmed[s[i].token]
    BY DEF CredentialFault
  <2> HIDE DEF bad, n
  <2>3. QED
    BY <2>1, <2>2
<1>7. (\E i \in DOMAIN rev : CredentialFault(rev, i, declared)) <=> (\E i \in DOMAIN given : CredentialFault(given, i, declared))
  <2> HIDE DEF bad, twin, n
  <2>1. QED
    BY <1>4, <1>5, <1>6
<1>8. (\E i \in DOMAIN rev : Blank(rev[i].token)) <=> (\E i \in DOMAIN given : Blank(given[i].token))
  BY <1>1, <1>3
<1>9. StaticFault(form, rev, declared, resource, url) <=> StaticFault(form, given, declared, resource, url)
  BY <1>2, <1>7, <1>8 DEF StaticFault
<1>10. QED
  BY <1>9 DEF rev

\* There is a last place among some.
LEMMA LastPlace ==
  ASSUME NEW n \in Nat, NEW I \in SUBSET (1 .. n), NEW i \in I, \A j \in I : j = i
  PROVE  Max(I) = i
<1>1. \A y \in I : i >= y
  <2>1. i \in Nat
    OBVIOUS
  <2>2. QED
    BY <2>1
<1>2. QED
  BY <1>1 DEF Max

\* In an accepted list of credentials nobody else has the token of an entry.
LEMMA OwnPlace ==
  ASSUME NEW given \in Seq(Listed), NEW declared, NEW resource, NEW url, NEW i \in DOMAIN given,
         ~StaticFault("credentials", given, declared, resource, url)
  PROVE  LastOf(given, Trimmed[given[i].token]) = i
<1>1. Len(given) \in Nat /\ DOMAIN given = 1 .. Len(given)
  OBVIOUS
<1>2. ASSUME NEW j \in DOMAIN given, NEW k \in DOMAIN given, j < k PROVE Trimmed[given[j].token] # Trimmed[given[k].token]
  <2>1. ~CredentialFault(given, k, declared)
    BY DEF StaticFault
  <2>2. j \in 1 .. (k - 1)
    BY <1>1, <1>2
  <2>3. QED
    BY <2>1, <2>2 DEF CredentialFault
<1> DEFINE I == {j \in 1 .. Len(given) : Trimmed[given[j].token] = Trimmed[given[i].token]}
<1>3. i \in I /\ I \in SUBSET (1 .. Len(given)) /\ \A j \in I : j = i
  <2>1. ASSUME NEW j \in I, j # i PROVE FALSE
    <3>1. j < i \/ i < j
      BY <2>1, <1>1
    <3>2. QED
      BY <3>1, <1>1, <1>2
  <2>2. QED
    BY <2>1, <1>1
<1>4. LastOf(given, Trimmed[given[i].token]) = IF I # {} THEN Max(I) ELSE 0
  BY DEF LastOf, SelectLastInSeq
<1> HIDE DEF I
<1>5. QED
  BY <1>1, <1>3, <1>4, LastPlace

\* TokensKeepIdentity, of any provider of fixed tokens.
IdentityKept(form, given, declared, resource, url) ==
  LET accepts(list) == StaticProvider(form, list, declared, resource, url)
      provider == accepts(given)
  IN  /\ (accepts(Reverse(given)) = Error) = (provider = Error)
      /\ provider.kind = "provider" =>
            /\ \A e \in ToSet(given) :
                  form = "credentials" =>
                     /\ VerifyStatic(provider, e.token) = [subject |-> Trimmed[e.subject], scopes |-> TrimmedScopes(e.scopes)]
                     /\ TrimmedScopes(e.scopes) \subseteq provider.supported
            /\ VerifyStatic(provider, "") = Stranger
            /\ IsHttpUrl(provider.metadata[2])

\* What an accepted provider is made of.
Scopes(form, given, i) == EntryScopes(form, given[i].scopes)
Identity(form, given, i) ==
  [subject |-> IF form = "tokens" THEN given[i].subject ELSE Trimmed[given[i].subject], scopes |-> Scopes(form, given, i)]
Identities(form, given) ==
  [t \in {Trimmed[e.token] : e \in ToSet(given)} |-> Identity(form, given, LastOf(given, t))]
AllScopes(form, given, declared) ==
  IF declared # << >> THEN EntryScopes(form, declared[1]) ELSE UNION {Scopes(form, given, i) : i \in DOMAIN given}
StaticMetadata(resource, url) == IF url # Undef /\ ~Blank(url) THEN <<"given", url>> ELSE <<"derived", resource>>

\* A list without a fault gives a provider of these parts.
LEMMA StaticBuilt ==
  ASSUME NEW form, NEW given, NEW declared, NEW resource, NEW url
  PROVE  StaticProvider(form, given, declared, resource, url) =
           IF StaticFault(form, given, declared, resource, url) THEN Error
           ELSE [kind |-> "provider", identity |-> Identities(form, given), supported |-> AllScopes(form, given, declared),
                 metadata |-> StaticMetadata(resource, url)]
BY DEF StaticProvider, Identities, Identity, Scopes, AllScopes, StaticMetadata

\* An accepted provider knows each entry by its own identity and nobody else.
LEMMA TokensKept ==
  ASSUME NEW form, NEW given \in Seq(Listed), NEW declared, NEW resource, NEW url
  PROVE  IdentityKept(form, given, declared, resource, url)
<1> DEFINE provider == StaticProvider(form, given, declared, resource, url)
           reversed == StaticProvider(form, Reverse(given), declared, resource, url)
           fault == StaticFault(form, given, declared, resource, url)
<1>1. (reversed = Error) = (provider = Error)
  <2>1. ASSUME NEW a, NEW b, NEW c PROVE [kind |-> "provider", identity |-> a, supported |-> b, metadata |-> c] # Error
    BY DEF Error
  <2>2. (reversed = Error <=> fault) /\ (provider = Error <=> fault)
    BY <2>1, StaticBuilt, FaultUnordered
  <2>3. QED
    BY <2>2
<1>2. ASSUME provider.kind = "provider"
      PROVE  /\ ~fault /\ provider.identity = Identities(form, given)
             /\ provider.supported = AllScopes(form, given, declared) /\ provider.metadata = StaticMetadata(resource, url)
  BY <1>2, StaticBuilt DEF Error
<1>3. ASSUME ~fault PROVE IsHttpUrl(StaticMetadata(resource, url)[2])
  BY <1>3 DEF StaticFault, StaticMetadata
<1>4. ASSUME ~fault PROVE "" \notin DOMAIN Identities(form, given)
  <2>1. ASSUME NEW e \in ToSet(given) PROVE Trimmed[e.token] # ""
    <3>1. PICK i \in DOMAIN given : e = given[i]
      BY DEF ToSet
    <3>2. QED
      BY <1>4, <3>1 DEF StaticFault, Blank
  <2>2. QED
    BY <2>1 DEF Identities
<1>5. ASSUME ~fault, form = "credentials", NEW e \in ToSet(given)
      PROVE  /\ Trimmed[e.token] \in DOMAIN Identities(form, given)
             /\ Identities(form, given)[Trimmed[e.token]] = [subject |-> Trimmed[e.subject], scopes |-> TrimmedScopes(e.scopes)]
             /\ TrimmedScopes(e.scopes) \subseteq AllScopes(form, given, declared)
  <2>1. PICK i \in DOMAIN given : e = given[i]
    BY DEF ToSet
  <2>2. LastOf(given, Trimmed[e.token]) = i
    BY <1>5, <2>1, OwnPlace
  <2>3. Scopes(form, given, i) = TrimmedScopes(e.scopes) /\ "credentials" # "tokens"
    BY <1>5, <2>1 DEF Scopes, EntryScopes
  <2>4. Identity(form, given, i) = [subject |-> Trimmed[e.subject], scopes |-> TrimmedScopes(e.scopes)]
    BY <1>5, <2>1, <2>3 DEF Identity
  <2>5. Trimmed[e.token] \in DOMAIN Identities(form, given)
        /\ Identities(form, given)[Trimmed[e.token]] = Identity(form, given, i)
    BY <2>2 DEF Identities
  <2>6. TrimmedScopes(e.scopes) \subseteq AllScopes(form, given, declared)
    <3>1. CASE declared # << >>
      <4>1. ~CredentialFault(given, i, declared)
        BY <1>5, <2>1 DEF StaticFault
      <4>2. QED
        BY <3>1, <4>1, <1>5, <2>1 DEF CredentialFault, AllScopes, EntryScopes
    <3>2. CASE declared = << >>
      BY <3>2, <2>1, <2>3 DEF AllScopes
    <3>3. QED
      BY <3>1, <3>2
  <2>7. QED
    BY <2>4, <2>5, <2>6
<1>6. ASSUME provider.kind = "provider" PROVE VerifyStatic(provider, "") = Stranger
  <2>1. Trimmed[""] \notin DOMAIN provider.identity
    BY <1>2, <1>4, <1>6, AuthConfigAssumption DEF Blank
  <2>2. QED
    BY <2>1 DEF VerifyStatic
<1>7. QED
  <2> HIDE DEF provider, reversed, fault
  <2>1. ASSUME provider.kind = "provider", form = "credentials", NEW e \in ToSet(given)
        PROVE  /\ VerifyStatic(provider, e.token) = [subject |-> Trimmed[e.subject], scopes |-> TrimmedScopes(e.scopes)]
               /\ TrimmedScopes(e.scopes) \subseteq provider.supported
    BY <2>1, <1>2, <1>5 DEF VerifyStatic
  <2>2. QED
    BY <2>1, <1>1, <1>2, <1>3, <1>6 DEF IdentityKept, provider, reversed

\* ConfigAgreed (config.ts, static-token-provider.ts, connect.ts): whatever is configured, it is what runs, or nothing does.
THEOREM Configured == AuthCaseInit /\ [][UNCHANGED authCase]_authCase => []ConfigAgreed
<1>1. AuthCaseInit => ConfigAgreed
  <2> SUFFICES ASSUME AuthCaseInit PROVE ConfigAgreed
    OBVIOUS
  <2>1. CASE authCase \in [about : {"server"}, env : Environments, file : Files, requireAuth : BOOLEAN]
    <3>1. ServerGuarded(authCase.requireAuth, authCase.env, authCase.file)
      <4>1. authCase.env \in Environments /\ authCase.requireAuth \in BOOLEAN
        BY <2>1
      <4>2. QED
        BY <4>1, Guarded, AuthConfigAssumption
    <3>2. GuardedOrRefused
      BY <3>1 DEF GuardedOrRefused, ServerGuarded
    <3>3. ~About("tokens") /\ ~About("client")
      BY <2>1 DEF About
    <3>4. QED
      BY <3>2, <3>3 DEF ConfigAgreed, TokensKeepIdentity, RedirectAgreed
  <2>2. CASE authCase \in [about : {"tokens"}, form : {"tokens", "credentials", "mixed"}, entries : EntryLists, declared : ScopeLists,
                           resource : ResourceUrls, url : ResourceUrls \cup {Undef}]
    <3>1. IdentityKept(authCase.form, authCase.entries, authCase.declared, authCase.resource, authCase.url)
      <4>1. authCase.entries \in Seq(Listed)
        BY <2>2, AuthConfigAssumption DEF Listed
      <4>2. QED
        BY <4>1, TokensKept
    <3>2. TokensKeepIdentity
      BY <3>1 DEF TokensKeepIdentity, IdentityKept
    <3>3. ~About("server") /\ ~About("client")
      BY <2>2 DEF About
    <3>4. QED
      BY <3>2, <3>3 DEF ConfigAgreed, GuardedOrRefused, RedirectAgreed
  <2>3. CASE authCase \in [about : {"client"}, config : ClientConfigs, port : Ports]
    <3>1. RedirectAgreed
      BY RedirectsAgree DEF RedirectAgreed, ClientAgrees
    <3>2. ~About("server") /\ ~About("tokens")
      BY <2>3 DEF About
    <3>3. QED
      BY <3>1, <3>2 DEF ConfigAgreed, GuardedOrRefused, TokensKeepIdentity
  <2>4. QED
    BY <2>1, <2>2, <2>3 DEF AuthCaseInit
<1>2. ConfigAgreed /\ [UNCHANGED authCase]_authCase => ConfigAgreed'
  BY DEF ConfigAgreed, GuardedOrRefused, TokensKeepIdentity, RedirectAgreed, About
<1>3. QED
  BY <1>1, <1>2, PTL

-----------------------------------------------------------------------------
(* Round trips (Mrtr).                                                     *)

\* Who has come, and what they carry.
Carried ==
  \A r \in Requests :
    IF pc[r] = "new" THEN admission[r] = "none" /\ r \notin reserved
    ELSE /\ ask[r] \in Asks
         /\ ask[r].state <= Len(issued)
         /\ ask[r].life <= life[ask[r].proc]
         /\ InFlight(r) => ask[r].life = life[ask[r].proc]

\* Does the token of a request bind its caller and its call?
Bound(r) ==
  /\ signed
  /\ ask[r].state \in 1 .. Len(issued)
  /\ Token(r).principal = ask[r].principal
  /\ Token(r).call = ask[r].call

\* What each place on the way has already established.
Progress ==
  \A r \in Requests :
    /\ pc[r] \in {"keying", "verifying", "verified", "reserved"} => admission[r] = "none"
    /\ pc[r] = "sealing" => ask[r].principal # NoSubject
    /\ pc[r] = "verifying" => signed /\ ask[r].state # NoState
    /\ pc[r] = "verified" => Bound(r) /\ r \notin reserved
    /\ pc[r] = "reserved" => r \in reserved
    /\ pc[r] \in {"keying", "verifying"} => r \notin reserved
    /\ r \in reserved => Bound(r)
    /\ admission[r] = "verified" => r \in reserved
    /\ signed /\ admission[r] \in {"first", "unprotected"} => ~ask[r].answers

ReservedOnce ==
  \A r, q \in reserved :
    ask[r].state = ask[q].state /\ SameStore(r, q) => r = q \/ (Shared /\ Expired(r))

Sealing == {r \in Requests : pc[r] = "sealing"}

NoncesSuffice == Len(issued) + Cardinality(Sealing) <= MaxTokens

IInv ==
  /\ TypeOK
  /\ NoncesSuffice
  /\ Carried
  /\ Progress
  /\ ReservationsKept
  /\ ReservedOnce
-----------------------------------------------------------------------------
LEMMA AskTypes ==
  ASSUME NEW a \in Asks
  PROVE  /\ a.proc \in Processes
         /\ a.life \in 0 .. Restarts
         /\ a.principal \in Principals \cup {NoSubject}
         /\ a.call \in Calls
         /\ a.answers \in BOOLEAN
         /\ a.state \in Nonces \cup {NoState, Forged}
BY MrtrAssumption DEF Asks

LEMMA VerdictTypes ==
  ASSUME NEW r \in Requests
  PROVE  /\ Verdict(r) \in Outcomes
         /\ Verdict(r) = "none" =>
              /\ ask[r].state # Forged
              /\ Token(r).principal = ask[r].principal
              /\ Token(r).call = ask[r].call
BY DEF Verdict, Outcomes

\* A token once issued stays what it is.
LEMMA SealGrows ==
  ASSUME TypeOK, Carried, Progress, NEW r \in Requests, Seal(r)
  PROVE  /\ issued' \in Seq(Tokens)
         /\ Len(issued') = IF signed THEN Len(issued) + 1 ELSE Len(issued)
         /\ \A i \in 1 .. Len(issued) : issued'[i] = issued[i]
<1> DEFINE token == [principal |-> ask[r].principal, call |-> ask[r].call, exp |-> now + Ttl]
<1>1. /\ ask[r].principal \in Principals
      /\ ask[r].call \in Calls
  BY AskTypes DEF Carried, Progress, Seal
<1>2. token \in Tokens
  BY <1>1, MrtrAssumption DEF Tokens, TypeOK
<1>3. issued' = IF ~signed THEN issued ELSE Append(issued, token)
  BY DEF Seal
<1> HIDE DEF token
<1>4. QED
  BY <1>2, <1>3 DEF TypeOK

LEMMA SealingFinite ==
  /\ IsFiniteSet(Sealing)
  /\ Cardinality(Sealing) \in Nat
<1>1. IsFiniteSet(Sealing)
  BY FS_Subset, MrtrAssumption DEF Sealing
<1>2. QED
  BY <1>1, FS_CardinalityType

LEMMA InitIInv == Init => IInv
<1> SUFFICES ASSUME Init PROVE IInv
  OBVIOUS
<1>1. TypeOK
  BY MrtrAssumption DEF Init, TypeOK, Places, Outcomes, NoAsk, Asks, Tokens
<1>2. NoncesSuffice
  <2>1. Sealing = {}
    BY DEF Init, Sealing
  <2>2. Cardinality(Sealing) = 0
    BY <2>1, FS_EmptySet
  <2>3. QED
    BY <2>2, MrtrAssumption DEF Init, NoncesSuffice
<1>3. Carried /\ Progress /\ ReservationsKept /\ ReservedOnce
  BY DEF Init, Carried, Progress, ReservationsKept, ReservedOnce
<1>4. QED
  BY <1>1, <1>2, <1>3 DEF IInv

\* What a request that has arrived carries.
LEMMA Arrived ==
  ASSUME Carried, NEW r \in Requests, pc[r] # "new"
  PROVE  /\ ask[r].proc \in Processes
         /\ ask[r].life \in 0 .. Restarts
         /\ ask[r].principal \in Principals \cup {NoSubject}
         /\ ask[r].call \in Calls
         /\ ask[r].answers \in BOOLEAN
         /\ ask[r].state \in Nonces \cup {NoState, Forged}
         /\ StoreOf(r) \in Processes \cup {"shared"}
BY AskTypes DEF Carried, StoreOf

Entries == [Nonces -> 0 .. (MaxTime + Ttl)]

LEMMA PurgedTypes ==
  ASSUME now \in Nat, NEW e \in Entries
  PROVE  /\ Purged(e) \in Entries
         /\ \A n \in Nonces : e[n] > now => Purged(e)[n] = e[n]
<1>1. \A n \in Nonces : Purged(e)[n] \in 0 .. (MaxTime + Ttl)
  BY MrtrAssumption DEF Purged, Entries
<1>2. \A n \in Nonces : e[n] \in Nat
  BY MrtrAssumption DEF Entries
<1>3. QED
  BY <1>1, <1>2 DEF Purged, Entries

LEMMA ClearedTypes ==
  ASSUME TypeOK, Carried, NEW r \in Requests, pc[r] # "new"
  PROVE  /\ store[StoreOf(r)] \in Entries
         /\ Cleared(r) \in Entries
         /\ \A n \in Nonces : store[StoreOf(r)][n] > now /\ n # ask[r].state
                             => Cleared(r)[n] = store[StoreOf(r)][n]
<1> DEFINE own == [store[StoreOf(r)] EXCEPT ![ask[r].state] = 0]
<1>1. store[StoreOf(r)] \in Entries
  BY Arrived DEF TypeOK, Entries
<1>2. 0 \in 0 .. (MaxTime + Ttl) /\ now \in Nat
  BY MrtrAssumption DEF TypeOK
<1>3. /\ own \in Entries
      /\ \A n \in Nonces : n # ask[r].state => own[n] = store[StoreOf(r)][n]
  BY <1>1, <1>2 DEF Entries
<1>4. Cleared(r) = IF IsFull(own) THEN Purged(own) ELSE own
  BY DEF Cleared
<1> HIDE DEF own
<1>5. QED
  BY <1>1, <1>2, <1>3, <1>4, PurgedTypes

LEMMA TypeStep == IInv /\ [Next]_vars => TypeOK'
<1> SUFFICES ASSUME IInv, [Next]_vars PROVE TypeOK'
  OBVIOUS
<1> USE DEF IInv
<1>1. ASSUME NEW r \in Requests, NEW a \in Asks, Receive(r, a) PROVE TypeOK'
  <2>1. ask' \in [Requests -> Asks \cup {NoAsk}] /\ a.proc \in Processes
    BY <1>1, AskTypes DEF Receive, TypeOK
  <2>2. memo' \in [Processes -> {"none", "importing", "ready"}]
    BY <1>1, <2>1 DEF Receive, AwaitKey, TypeOK
  <2>3. /\ pc' \in [Requests -> Places]
        /\ admission' \in [Requests -> {"none", "first", "unprotected", "verified"}]
    BY <1>1 DEF Receive, AwaitKey, Admit, TypeOK, Places
  <2>4. QED
    BY <1>1, <2>1, <2>2, <2>3 DEF Receive, TypeOK
<1>2. ASSUME NEW r \in Requests, Guard(r) PROVE TypeOK'
  BY <1>2 DEF Guard, Answer, Admit, TypeOK, Places, Outcomes
<1>3. ASSUME NEW r \in Requests, Verify(r) PROVE TypeOK'
  BY <1>3, VerdictTypes DEF Verify, Answer, TypeOK, Places
<1>4. ASSUME NEW r \in Requests, ConsumeRefuses(r) PROVE TypeOK'
  <2>1. store' \in [Processes \cup {"shared"} -> Entries]
    <3>1. store[StoreOf(r)] \in Entries /\ StoreOf(r) \in Processes \cup {"shared"}
      BY <1>4, ClearedTypes, Arrived DEF ConsumeRefuses
    <3>2. 0 \in 0 .. (MaxTime + Ttl)
      BY MrtrAssumption
    <3>3. QED
      BY <1>4, <3>1, <3>2 DEF ConsumeRefuses, TypeOK, Entries
  <2>2. QED
    BY <1>4, <2>1 DEF ConsumeRefuses, Answer, TypeOK, Places, Outcomes, Entries
<1>5. ASSUME NEW r \in Requests, ConsumeReserves(r) PROVE TypeOK'
  <2>1. Token(r) \in Tokens
    BY <1>5 DEF ConsumeReserves, Progress, Bound, Token, TypeOK
  <2>2. [Cleared(r) EXCEPT ![ask[r].state] = Token(r).exp] \in Entries
    <3>1. Token(r).exp \in 0 .. (MaxTime + Ttl)
      BY <2>1 DEF Tokens
    <3>2. QED
      BY <1>5, <3>1, ClearedTypes DEF ConsumeReserves, Entries
  <2>3. store' \in [Processes \cup {"shared"} -> Entries]
    BY <1>5, <2>2 DEF ConsumeReserves, TypeOK, Entries
  <2>4. QED
    BY <1>5, <2>3 DEF ConsumeReserves, TypeOK, Places, Entries
<1>6. ASSUME NEW r \in Requests, ConsumeFails(r) PROVE TypeOK'
  <2>1. store' \in [Processes \cup {"shared"} -> Entries]
    BY <1>6, ClearedTypes DEF ConsumeFails, TypeOK, Entries
  <2>2. QED
    BY <1>6, <2>1 DEF ConsumeFails, Answer, TypeOK, Places, Outcomes, Entries
<1>7. ASSUME NEW r \in Requests, SharedStoreFails(r) PROVE TypeOK'
  BY <1>7 DEF SharedStoreFails, Answer, TypeOK, Places, Outcomes
<1>8. ASSUME NEW r \in Requests, AdmitRetry(r) PROVE TypeOK'
  BY <1>8 DEF AdmitRetry, Admit, TypeOK, Places
<1>9. ASSUME NEW r \in Requests, Finish(r) PROVE TypeOK'
  BY <1>9 DEF Finish, Answer, TypeOK, Places, Outcomes
<1>10. ASSUME NEW r \in Requests, AskInput(r) PROVE TypeOK'
  <2>1. memo' \in [Processes -> {"none", "importing", "ready"}]
    <3>1. ask[r].proc \in Processes
      BY <1>10, Arrived DEF AskInput
    <3>2. memo' = memo \/ memo' = [memo EXCEPT ![ask[r].proc] = IF @ = "none" THEN "importing" ELSE @]
      BY <1>10 DEF AskInput, AwaitKey
    <3>3. QED
      BY <3>1, <3>2 DEF TypeOK
  <2>2. pc' \in [Requests -> Places] /\ out' \in [Requests -> Outcomes]
    BY <1>10 DEF AskInput, AwaitKey, Answer, TypeOK, Places, Outcomes
  <2>3. QED
    BY <1>10, <2>1, <2>2 DEF AskInput, TypeOK
<1>11. ASSUME NEW r \in Requests, Seal(r) PROVE TypeOK'
  <2>1. r \in Sealing /\ Cardinality(Sealing) >= 1
    <3>1. r \in Sealing
      BY <1>11 DEF Seal, Sealing
    <3>2. Cardinality(Sealing) # 0
      BY <3>1, SealingFinite, FS_EmptySet, Zenon
    <3>3. QED
      BY <3>1, <3>2, SealingFinite
  <2>2. Len(issued') <= MaxTokens
    BY <1>11, <2>1, SealGrows, SealingFinite, MrtrAssumption DEF NoncesSuffice, TypeOK
  <2>3. QED
    BY <1>11, <2>2, SealGrows DEF Seal, Answer, TypeOK, Places, Outcomes
<1>12. ASSUME NEW p \in Processes, KeyReady(p) PROVE TypeOK'
  BY <1>12 DEF KeyReady, TypeOK
<1>13. ASSUME NEW p \in Processes, KeyFails(p) PROVE TypeOK'
  BY <1>13 DEF KeyFails, TypeOK, Places, Outcomes
<1>14. ASSUME NEW p \in Processes, Restart(p) PROVE TypeOK'
  BY <1>14, MrtrAssumption DEF Restart, TypeOK, Places, Outcomes
<1>15. CASE Tick
  BY <1>15, MrtrAssumption DEF Tick, TypeOK
<1>16. CASE UNCHANGED vars
  BY <1>16 DEF vars, TypeOK
<1>16a. ASSUME NEW n \in Nonces, Forget(n) PROVE TypeOK'
  BY <1>16a, MrtrAssumption DEF Forget, TypeOK
<1>17. QED
  BY <1>1, <1>2, <1>3, <1>4, <1>5, <1>6, <1>7, <1>8, <1>9, <1>10, <1>11, <1>12, <1>13, <1>14,
     <1>15, <1>16, <1>16a DEF Next, Serve

\* The tokens asked for have nonces left.
LEMMA NoncesStep == IInv /\ [Next]_vars => NoncesSuffice'
<1> SUFFICES ASSUME IInv, [Next]_vars PROVE NoncesSuffice'
  OBVIOUS
<1> USE DEF IInv
<1>1. ASSUME NEW r \in Requests, AskInput(r) PROVE NoncesSuffice'
  <2>1. CASE ask[r].principal = NoSubject
    <3>1. Sealing' = Sealing /\ issued' = issued
      BY <1>1, <2>1 DEF AskInput, Answer, Sealing, TypeOK
    <3>2. QED
      BY <3>1 DEF NoncesSuffice
  <2>2. CASE ask[r].principal # NoSubject
    <3>1. Sealing' = Sealing \cup {r} /\ r \notin Sealing /\ issued' = issued
      BY <1>1, <2>2 DEF AskInput, AwaitKey, Sealing, TypeOK
    <3>2. Cardinality(Sealing') = Cardinality(Sealing) + 1
      BY <3>1, SealingFinite, FS_AddElement, Zenon
    <3>3. Len(issued) + Cardinality(Sealing) < MaxTokens
      BY <1>1 DEF AskInput, NonceLeft, Sealing
    <3>4. QED
      BY <3>1, <3>2, <3>3, SealingFinite, MrtrAssumption DEF NoncesSuffice, TypeOK
  <2>3. QED
    BY <2>1, <2>2
<1>2. ASSUME NEW r \in Requests, Seal(r) PROVE NoncesSuffice'
  <2>1. Sealing' = Sealing \ {r} /\ r \in Sealing
    BY <1>2 DEF Seal, Answer, Sealing, TypeOK
  <2>2. Cardinality(Sealing') = Cardinality(Sealing) - 1
    BY <2>1, SealingFinite, FS_RemoveElement, Zenon
  <2>3. QED
    BY <1>2, <2>2, SealGrows, SealingFinite, MrtrAssumption DEF NoncesSuffice, TypeOK
<1>3. ASSUME Sealing' \subseteq Sealing, issued' = issued PROVE NoncesSuffice'
  <2>1. Cardinality(Sealing') <= Cardinality(Sealing) /\ Cardinality(Sealing') \in Nat
    BY <1>3, SealingFinite, FS_Subset, FS_CardinalityType
  <2>2. QED
    BY <1>3, <2>1, SealingFinite, MrtrAssumption DEF NoncesSuffice, TypeOK
<1>4. ASSUME NEW r \in Requests, Serve(r), ~AskInput(r), ~Seal(r)
      PROVE  Sealing' \subseteq Sealing /\ issued' = issued
  BY <1>4 DEF Serve, Guard, Verify, ConsumeRefuses, ConsumeReserves, ConsumeFails, SharedStoreFails,
              AdmitRetry, Finish, Answer, Admit, Sealing, TypeOK
<1>5. ASSUME NEW r \in Requests, NEW a \in Asks, Receive(r, a)
      PROVE  Sealing' \subseteq Sealing /\ issued' = issued
  BY <1>5 DEF Receive, AwaitKey, Admit, Sealing, TypeOK
<1>6. ASSUME NEW p \in Processes, KeyReady(p) \/ KeyFails(p) \/ Restart(p)
      PROVE  Sealing' \subseteq Sealing /\ issued' = issued
  BY <1>6 DEF KeyReady, KeyFails, Restart, Sealing, TypeOK
<1>7. ASSUME Tick \/ (\E n \in Nonces : Forget(n)) \/ UNCHANGED vars
      PROVE  Sealing' \subseteq Sealing /\ issued' = issued
  BY <1>7 DEF Tick, Forget, vars, Sealing
<1>8. QED
  BY <1>1, <1>2, <1>3, <1>4, <1>5, <1>6, <1>7 DEF Next

\* Requests stay with the life of the process that received them.
LEMMA CarriedStep == IInv /\ [Next]_vars => Carried'
<1> SUFFICES ASSUME IInv, [Next]_vars PROVE Carried'
  OBVIOUS
<1> USE DEF IInv
<1>1. ASSUME NEW r \in Requests, NEW a \in Asks, Receive(r, a) PROVE Carried'
  <2>1. a.proc \in Processes /\ a.life \in Nat
    BY AskTypes
  <2>2. QED
    BY <1>1, <2>1 DEF Receive, AwaitKey, Admit, Carried, InFlight, TypeOK
<1>2. ASSUME NEW r \in Requests, Serve(r), ~ConsumeReserves(r), ~Seal(r), ~AdmitRetry(r) PROVE Carried'
  <2>1. /\ \A q \in Requests : InFlight(q)' => InFlight(q)
        /\ \A q \in Requests : pc'[q] = "new" <=> pc[q] = "new"
        /\ \A q \in Requests : pc[q] = "new" => admission'[q] = admission[q]
        /\ UNCHANGED <<ask, issued, life, reserved>>
    BY <1>2 DEF Serve, Guard, Verify, ConsumeRefuses, ConsumeFails, SharedStoreFails,
              Finish, AskInput, AwaitKey, Answer, Admit, InFlight, TypeOK
  <2>2. QED
    BY <2>1 DEF Carried
<1>3. ASSUME NEW r \in Requests, ConsumeReserves(r) \/ AdmitRetry(r) PROVE Carried'
  <2>1. /\ pc[r] \notin {"new", "done"}
        /\ \A q \in Requests : (InFlight(q)' => InFlight(q)) /\ (pc'[q] = "new" <=> pc[q] = "new")
        /\ \A q \in Requests : q # r => /\ admission'[q] = admission[q]
                                        /\ q \in reserved' <=> q \in reserved
        /\ UNCHANGED <<ask, issued, life>>
    BY <1>3 DEF ConsumeReserves, AdmitRetry, Admit, InFlight, TypeOK
  <2>2. QED
    BY <2>1 DEF Carried
<1>4. ASSUME NEW r \in Requests, Seal(r) PROVE Carried'
  <2>1. Len(issued) <= Len(issued') /\ Len(issued) \in Nat /\ Len(issued') \in Nat
    BY <1>4, SealGrows DEF TypeOK
  <2>2. \A q \in Requests : pc[q] # "new" => ask[q].state \in Int
    BY Arrived, MrtrAssumption DEF Nonces, NoState, Forged
  <2>3. QED
    BY <1>4, <2>1, <2>2 DEF Seal, Answer, Carried, InFlight, TypeOK
<1>5. ASSUME NEW p \in Processes, KeyReady(p) \/ KeyFails(p) PROVE Carried'
  <2>1. /\ \A q \in Requests : (InFlight(q)' => InFlight(q)) /\ (pc'[q] = "new" <=> pc[q] = "new")
        /\ UNCHANGED <<ask, issued, life, admission, reserved>>
    BY <1>5 DEF KeyReady, KeyFails, WaitsForKey, InFlight, TypeOK
  <2>2. QED
    BY <2>1 DEF Carried
<1>6. ASSUME NEW p \in Processes, Restart(p) PROVE Carried'
  <2>1. \A q \in Requests : pc[q] # "new" => ask[q].life \in Nat /\ ask[q].proc \in Processes
    BY Arrived, MrtrAssumption
  <2>2. \A q \in Processes : life[q] \in Nat
    BY MrtrAssumption DEF TypeOK
  <2>3. QED
    BY <1>6, <2>1, <2>2 DEF Restart, Carried, InFlight, TypeOK
<1>7. ASSUME Tick \/ (\E n \in Nonces : Forget(n)) \/ UNCHANGED vars PROVE Carried'
  BY <1>7 DEF Tick, Forget, vars, Carried, InFlight
<1>8. QED
  BY <1>1, <1>2, <1>3, <1>4, <1>5, <1>6, <1>7 DEF Next

\* What a request has shown stays shown: requests and tokens do not change.
LEMMA BoundStep ==
  ASSUME IInv, [Next]_vars, NEW q \in Requests, pc[q] # "new"
  PROVE  /\ ask'[q] = ask[q] /\ signed' = signed
         /\ ask[q].state \in 1 .. Len(issued) => Token(q)' = Token(q)
         /\ Bound(q) => Bound(q)'
<1> USE DEF IInv
<1>1. ask'[q] = ask[q] /\ signed' = signed
  BY DEF Next, vars, Receive, Serve, Guard, Verify, ConsumeRefuses, ConsumeReserves, ConsumeFails,
         SharedStoreFails, AdmitRetry, Finish, AskInput, Seal, KeyReady, KeyFails, Restart, Tick, Forget, TypeOK
<1>2. /\ Len(issued') \in Nat /\ Len(issued) <= Len(issued')
      /\ \A i \in 1 .. Len(issued) : issued'[i] = issued[i]
  <2>1. ASSUME NEW r \in Requests, Seal(r)
        PROVE  /\ Len(issued') \in Nat /\ Len(issued) <= Len(issued')
               /\ \A i \in 1 .. Len(issued) : issued'[i] = issued[i]
    BY <2>1, SealGrows DEF TypeOK
  <2>2. CASE \A r \in Requests : ~Seal(r)
    <3>1. issued' = issued
      BY <2>2 DEF Next, vars, Receive, Serve, Guard, Verify, ConsumeRefuses, ConsumeReserves, ConsumeFails,
         SharedStoreFails, AdmitRetry, Finish, AskInput, KeyReady, KeyFails, Restart, Tick, Forget
    <3>2. QED
      BY <3>1 DEF TypeOK
  <2>3. QED
    BY <2>1, <2>2
<1>3. ask[q].state \in 1 .. Len(issued) =>
        ask[q].state \in 1 .. Len(issued') /\ Token(q)' = Token(q)
  BY <1>1, <1>2 DEF Token, TypeOK
<1>4. QED
  BY <1>1, <1>3 DEF Bound

\* The requests of one step and what it does to the others.
LEMMA ProgressStep == IInv /\ [Next]_vars => Progress'
<1> SUFFICES ASSUME IInv, [Next]_vars PROVE Progress'
  OBVIOUS
<1> USE DEF IInv
<1> DEFINE
  Here(q) ==
    /\ pc[q] \in {"keying", "verifying", "verified", "reserved"} => admission[q] = "none"
    /\ pc[q] = "sealing" => ask[q].principal # NoSubject
    /\ pc[q] = "verifying" => signed /\ ask[q].state # NoState
    /\ pc[q] = "verified" => Bound(q) /\ q \notin reserved
    /\ pc[q] = "reserved" => q \in reserved
    /\ pc[q] \in {"keying", "verifying"} => q \notin reserved
    /\ q \in reserved => Bound(q)
    /\ admission[q] = "verified" => q \in reserved
    /\ signed /\ admission[q] \in {"first", "unprotected"} => ~ask[q].answers
<1>1. \A q \in Requests : Here(q)
  BY DEF Progress
<1>2. ASSUME NEW q \in Requests, pc'[q] = pc[q] \/ pc'[q] = "done",
             admission'[q] = admission[q], q \in reserved' <=> q \in reserved
      PROVE  Here(q)'
  <2>1. CASE pc[q] = "new"
    BY <1>1, <1>2, <2>1 DEF Carried
  <2>2. CASE pc[q] # "new"
    BY <1>1, <1>2, <2>2, BoundStep
  <2>3. QED
    BY <2>1, <2>2
<1>3. ASSUME NEW r \in Requests, NEW a \in Asks, Receive(r, a) PROVE Progress'
  <2>1. a.answers \in BOOLEAN
    BY AskTypes
  <2>2. Here(r)'
    BY <1>1, <1>3, <2>1 DEF Receive, AwaitKey, Admit, Carried, TypeOK
  <2>3. \A q \in Requests \ {r} : Here(q)'
    BY <1>2, <1>3 DEF Receive, AwaitKey, Admit, TypeOK
  <2>4. QED
    BY <2>2, <2>3 DEF Progress
<1>4. ASSUME NEW r \in Requests, Serve(r) PROVE Progress'
  <2>1. ASSUME NEW q \in Requests, q # r
        PROVE  pc'[q] = pc[q] /\ admission'[q] = admission[q] /\ (q \in reserved' <=> q \in reserved)
    BY <1>4, <2>1 DEF Serve, Guard, Verify, ConsumeRefuses, ConsumeReserves, ConsumeFails,
         SharedStoreFails, AdmitRetry, Finish, AskInput, AwaitKey, Seal, Answer, Admit, TypeOK
  <2> DEFINE Binds == Bound(r)
  <2>11. /\ pc[r] # "new" /\ ask'[r] = ask[r] /\ signed' = signed
         /\ Binds => Bound(r)'
         /\ ask[r].answers \in BOOLEAN
    <3>1. pc[r] # "new"
      BY <1>4 DEF Serve, Guard, Verify, ConsumeRefuses, ConsumeReserves, ConsumeFails,
         SharedStoreFails, AdmitRetry, Finish, AskInput, Seal
    <3>2. QED
      BY <3>1, BoundStep, Arrived
  <2> HIDE DEF Binds
  <2>2. ASSUME Guard(r) PROVE Here(r)'
    <3>1. /\ pc[r] = "keying"
          /\ reserved' = reserved
          /\ \/ ~signed /\ pc'[r] = "handling" /\ admission'[r] \in {"first", "unprotected"}
             \/ pc'[r] = "done" /\ admission'[r] = admission[r]
             \/ signed /\ ask[r].state # NoState /\ pc'[r] = "verifying" /\ admission'[r] = admission[r]
      BY <2>2 DEF Guard, Answer, Admit, TypeOK
    <3>2. QED
      BY <1>1, <2>11, <3>1
  <2>3. ASSUME Verify(r) PROVE Here(r)'
    <3>1. ask[r].state \in Nonces \cup {NoState, Forged} /\ ask[r].state <= Len(issued)
      BY <2>3, Arrived DEF Verify, Carried
    <3>2. signed /\ ask[r].state # NoState
      BY <1>1, <2>3 DEF Verify
    <3>3. Verdict(r) = "none" => ask[r].state \in 1 .. Len(issued)
      BY <3>1, <3>2, VerdictTypes, MrtrAssumption DEF Nonces, NoState, Forged, TypeOK
    <3>4. Verdict(r) = "none" => Binds
      BY <3>2, <3>3, VerdictTypes DEF Binds, Bound
    <3>5. /\ pc[r] = "verifying"
          /\ admission' = admission /\ reserved' = reserved
          /\ pc'[r] = "done" \/ (pc'[r] = "verified" /\ Binds)
      BY <2>3, <3>4 DEF Verify, Answer, TypeOK
    <3>6. QED
      BY <1>1, <2>11, <3>5
  <2>4. ASSUME ConsumeReserves(r) PROVE Here(r)'
    <3>1. /\ pc[r] = "verified" /\ pc'[r] = "reserved"
          /\ admission' = admission /\ reserved' = reserved \cup {r}
      BY <2>4 DEF ConsumeReserves, TypeOK
    <3>2. QED
      BY <1>1, <2>11, <3>1 DEF Binds
  <2>5. ASSUME AdmitRetry(r) PROVE Here(r)'
    <3>1. /\ pc[r] = "reserved" /\ pc'[r] = "handling"
          /\ admission'[r] = "verified" /\ reserved' = reserved
      BY <2>5 DEF AdmitRetry, Admit, TypeOK
    <3>2. QED
      BY <1>1, <2>11, <3>1 DEF Binds
  <2>6. ASSUME AskInput(r) PROVE Here(r)'
    <3>1. /\ pc[r] = "handling"
          /\ pc'[r] = "done" \/ (pc'[r] = "sealing" /\ ask[r].principal # NoSubject)
          /\ admission' = admission /\ reserved' = reserved
      BY <2>6 DEF AskInput, AwaitKey, Answer, TypeOK
    <3>2. QED
      BY <1>1, <2>11, <3>1 DEF Binds
  <2>7. ASSUME ConsumeRefuses(r) \/ ConsumeFails(r) \/ SharedStoreFails(r) \/ Finish(r) \/ Seal(r) PROVE Here(r)'
    <3>1. pc'[r] = "done" /\ UNCHANGED <<admission, reserved>>
      BY <2>7 DEF ConsumeRefuses, ConsumeFails, SharedStoreFails, Finish, Seal, Answer, TypeOK
    <3>2. QED
      BY <3>1, <1>2
  <2>8. Here(r)'
    BY <1>4, <2>2, <2>3, <2>4, <2>5, <2>6, <2>7 DEF Serve
  <2>9. \A q \in Requests \ {r} : Here(q)'
    BY <1>2, <2>1
  <2>10. QED
    BY <2>8, <2>9 DEF Progress
<1>5. ASSUME (\E p \in Processes : KeyReady(p) \/ KeyFails(p) \/ Restart(p)) \/ Tick
             \/ (\E n \in Nonces : Forget(n)) \/ UNCHANGED vars
      PROVE  Progress'
  <2>1. \A q \in Requests : /\ pc'[q] = pc[q] \/ pc'[q] = "done"
                           /\ UNCHANGED <<admission, reserved>>
    BY <1>5 DEF KeyReady, KeyFails, Restart, Tick, Forget, vars, TypeOK
  <2>2. \A q \in Requests : Here(q)'
    BY <2>1, <1>2
  <2>3. QED
    BY <2>2 DEF Progress
<1>6. QED
  BY <1>3, <1>4, <1>5 DEF Next

\* No store forgets what lives, and none reserves twice: the two hold each other up.
LEMMA ReservationStep == IInv /\ [Next]_vars => ReservationsKept' /\ ReservedOnce'
<1> SUFFICES ASSUME IInv, [Next]_vars PROVE ReservationsKept' /\ ReservedOnce'
  OBVIOUS
<1> USE DEF IInv
<1> DEFINE
  Kept(q) == \/ store[StoreOf(q)][ask[q].state] = Token(q).exp
             \/ Expired(q)
             \/ ~Shared /\ ask[q].life < life[ask[q].proc]
<1>1. \A q \in reserved : /\ q \in Requests /\ pc[q] # "new"
                         /\ ask'[q] = ask[q] /\ Token(q)' = Token(q)
                         /\ StoreOf(q)' = StoreOf(q) /\ Kept(q)
                         /\ Token(q) \in Tokens /\ ask[q].state \in Nonces
                         /\ StoreOf(q) \in Processes \cup {"shared"}
                         /\ ask[q].proc \in Processes /\ ask[q].life \in Nat
  <2>1. ASSUME NEW q \in reserved PROVE q \in Requests /\ pc[q] # "new" /\ Bound(q) /\ Kept(q)
    BY DEF Carried, Progress, ReservationsKept, TypeOK
  <2>2. ASSUME NEW q \in reserved
        PROVE  /\ Token(q) \in Tokens /\ ask[q].state \in Nonces
               /\ StoreOf(q) \in Processes \cup {"shared"}
               /\ ask[q].proc \in Processes /\ ask[q].life \in Nat
    <3>1. ask[q].state \in 1 .. Len(issued) /\ q \in Requests /\ pc[q] # "new"
      BY <2>1 DEF Bound
    <3>2. ask[q].state \in Nonces /\ Token(q) \in Tokens
      BY <3>1, MrtrAssumption DEF Token, Nonces, TypeOK
    <3>3. QED
      BY <3>1, <3>2, Arrived, MrtrAssumption
  <2>3. ASSUME NEW q \in reserved
        PROVE  ask'[q] = ask[q] /\ Token(q)' = Token(q) /\ StoreOf(q)' = StoreOf(q)
    <3>1. ask'[q] = ask[q] /\ Token(q)' = Token(q)
      BY <2>1, BoundStep DEF Bound
    <3>2. QED
      BY <3>1 DEF StoreOf
  <2>4. QED
    BY <2>1, <2>2, <2>3
<1>1a. \A q \in reserved : (Expired(q) <=> Token(q).exp <= now) /\ (Expired(q)' <=> Token(q).exp <= now')
  BY <1>1 DEF Expired
<1>2. now \in Nat /\ \A p \in Processes : life[p] \in Nat
  BY MrtrAssumption DEF TypeOK
<1>3. \A q \in reserved : Token(q).exp \in Nat
  BY <1>1, MrtrAssumption DEF Tokens
<1> HIDE DEF Kept
<1>4. ASSUME UNCHANGED reserved,
             \A q \in reserved : store'[StoreOf(q)][ask[q].state] = store[StoreOf(q)][ask[q].state],
             UNCHANGED <<now, life>>
      PROVE  ReservationsKept' /\ ReservedOnce'
  BY <1>1, <1>1a, <1>4 DEF Kept, ReservationsKept, ReservedOnce, SameStore
<1>5. ASSUME NEW r \in Requests, Serve(r), ~ConsumeRefuses(r), ~ConsumeReserves(r), ~ConsumeFails(r)
      PROVE  ReservationsKept' /\ ReservedOnce'
  <2>1. UNCHANGED <<reserved, store, now, life>>
    BY <1>5 DEF Serve, Guard, Verify, SharedStoreFails, AdmitRetry, Finish, AskInput, Seal
  <2>2. QED
    BY <2>1, <1>4
<1>6. ASSUME (\E r \in Requests, a \in Asks : Receive(r, a))
             \/ (\E p \in Processes : KeyReady(p) \/ KeyFails(p)) \/ UNCHANGED vars
      PROVE  ReservationsKept' /\ ReservedOnce'
  <2>1. UNCHANGED <<reserved, store, now, life>>
    BY <1>6 DEF Receive, KeyReady, KeyFails, vars
  <2>2. QED
    BY <2>1, <1>4
<1>7. CASE Tick
  <2>1. UNCHANGED <<reserved, store, life>> /\ now' = now + 1
    BY <1>7 DEF Tick
  <2>2. \A q \in reserved : Kept(q)'
    BY <1>1, <1>1a, <1>2, <1>3, <2>1 DEF Kept
  <2>3. QED
    BY <1>1, <1>1a, <1>2, <1>3, <2>1, <2>2 DEF Kept, ReservationsKept, ReservedOnce, SameStore
<1>8. ASSUME NEW p \in Processes, Restart(p) PROVE ReservationsKept' /\ ReservedOnce'
  <2>1. /\ UNCHANGED <<reserved, now>> /\ life' = [life EXCEPT ![p] = @ + 1]
        /\ \A s \in Processes \cup {"shared"} : s # p => store'[s] = store[s]
    BY <1>8 DEF Restart, TypeOK
  <2>2. ASSUME NEW q \in reserved PROVE Kept(q)'
    <3>1. CASE StoreOf(q) # p
      <4>1. store'[StoreOf(q)] = store[StoreOf(q)]
        BY <1>1, <2>1, <3>1
      <4>2. ask[q].life < life[ask[q].proc] => ask[q].life < life'[ask[q].proc]
        BY <1>1, <1>2, <2>1 DEF TypeOK
      <4>3. QED
        BY <1>1, <1>1a, <2>1, <4>1, <4>2 DEF Kept
    <3>2. CASE StoreOf(q) = p
      <4>1. ~Shared /\ ask[q].proc = p
        BY <3>2, MrtrAssumption DEF StoreOf
      <4>2. ask[q].life <= life[p]
        BY <1>1, <4>1 DEF Carried
      <4>3. ask[q].life < life'[p]
        BY <1>1, <1>2, <2>1, <4>2 DEF TypeOK
      <4>4. QED
        BY <1>1, <4>1, <4>3 DEF Kept
    <3>3. QED
      BY <3>1, <3>2
  <2>3. QED
    BY <1>1, <1>1a, <1>2, <1>3, <2>1, <2>2 DEF Kept, ReservationsKept, ReservedOnce, SameStore
<1>9. ASSUME NEW o \in Processes \cup {"shared"}, UNCHANGED <<reserved, now, life>>,
             \A s \in Processes \cup {"shared"} : s # o => store'[s] = store[s],
             \A n \in Nonces : store[o][n] > now => store'[o][n] = store[o][n]
      PROVE  ReservationsKept' /\ ReservedOnce'
  <2>1. ASSUME NEW q \in reserved PROVE Kept(q)'
    BY <1>1, <1>1a, <1>2, <1>3, <1>9 DEF Kept
  <2>2. QED
    BY <1>1, <1>1a, <1>9, <2>1 DEF Kept, ReservationsKept, ReservedOnce, SameStore
<1>10. ASSUME NEW r \in Requests, ConsumeRefuses(r) PROVE ReservationsKept' /\ ReservedOnce'
  <2>1. StoreOf(r) \in Processes \cup {"shared"} /\ store[StoreOf(r)] \in Entries
    BY <1>10, Arrived, ClearedTypes DEF ConsumeRefuses
  <2>2. /\ \A s \in Processes \cup {"shared"} : s # StoreOf(r) => store'[s] = store[s]
        /\ \A n \in Nonces : store[StoreOf(r)][n] > now => store'[StoreOf(r)][n] = store[StoreOf(r)][n]
    BY <1>10, <2>1 DEF ConsumeRefuses, TypeOK, Entries
  <2>3. QED
    BY <1>10, <1>9, <2>1, <2>2 DEF ConsumeRefuses
<1>11. ASSUME NEW r \in Requests, ConsumeFails(r) PROVE ReservationsKept' /\ ReservedOnce'
  <2>1. StoreOf(r) \in Processes \cup {"shared"}
    BY <1>11, Arrived DEF ConsumeFails
  <2>2. ~Shared /\ ~(store[StoreOf(r)][ask[r].state] > now)
    BY <1>11 DEF ConsumeFails, Spent, Taken, IsFull
  <2>3. store' = [store EXCEPT ![StoreOf(r)] = Cleared(r)]
    BY <1>11 DEF ConsumeFails
  <2>4. /\ \A s \in Processes \cup {"shared"} : s # StoreOf(r) => store'[s] = store[s]
        /\ store'[StoreOf(r)] = Cleared(r)
    BY <2>1, <2>3 DEF TypeOK
  <2>5. \A n \in Nonces : store[StoreOf(r)][n] > now => store'[StoreOf(r)][n] = store[StoreOf(r)][n]
    BY <1>11, <2>2, <2>4, ClearedTypes DEF ConsumeFails
  <2>6. QED
    BY <1>11, <1>9, <2>1, <2>4, <2>5 DEF ConsumeFails
<1>12. ASSUME NEW r \in Requests, ConsumeReserves(r) PROVE ReservationsKept' /\ ReservedOnce'
  <2>1. /\ pc[r] = "verified" /\ pc[r] # "new" /\ InFlight(r)
        /\ UNCHANGED <<now, life, issued, ask>> /\ reserved' = reserved \cup {r}
        /\ store' = [store EXCEPT ![StoreOf(r)] = [Cleared(r) EXCEPT ![ask[r].state] = Token(r).exp]]
        /\ IF Shared THEN store[StoreOf(r)][ask[r].state] = 0
           ELSE ~(store[StoreOf(r)][ask[r].state] > now) /\ ~Expired(r)
    BY <1>12 DEF ConsumeReserves, Spent, Taken, InFlight, StoreOf
  <2>2. /\ ask[r].state \in Nonces /\ StoreOf(r) \in Processes \cup {"shared"}
        /\ Cleared(r) \in Entries
        /\ ask[r].life = life[ask[r].proc] /\ ask[r].life \in Nat
    <3>1. ask[r].state \in 1 .. Len(issued)
      BY <2>1 DEF Progress, Bound
    <3>2. ask[r].state \in Nonces
      BY <3>1, MrtrAssumption DEF Nonces, TypeOK
    <3>3. QED
      BY <2>1, <3>2, Arrived, ClearedTypes, MrtrAssumption DEF Carried
  <2>3. /\ \A s \in Processes \cup {"shared"} : s # StoreOf(r) => store'[s] = store[s]
        /\ store'[StoreOf(r)][ask[r].state] = Token(r).exp
        /\ \A n \in Nonces : n # ask[r].state => store'[StoreOf(r)][n] = Cleared(r)[n]
    BY <2>1, <2>2 DEF TypeOK, Entries
  <2>4. \A n \in Nonces : store[StoreOf(r)][n] > now => store'[StoreOf(r)][n] = store[StoreOf(r)][n]
    BY <1>2, <2>1, <2>3, ClearedTypes
  <2>5. ASSUME NEW q \in reserved PROVE Kept(q)'
    BY <1>1, <1>1a, <1>2, <1>3, <2>1, <2>3, <2>4 DEF Kept
  <2>6. Kept(r)'
    BY <2>1, <2>3 DEF Kept, Token, StoreOf
  <2>7. ASSUME NEW q \in reserved, ask[q].state = ask[r].state, SameStore(q, r)
        PROVE  Shared /\ Expired(q) /\ Expired(r)
    <3>1. Token(q) = Token(r) /\ StoreOf(q) = StoreOf(r)
      BY <2>7 DEF Token, StoreOf, SameStore
    <3>2. ~Shared => ask[q].life = life[ask[q].proc]
      BY <2>2, <2>7 DEF SameStore
    <3>3. Kept(q)
      BY <1>1
    <3>4. Token(q).exp # 0
      BY <1>1, MrtrAssumption DEF Tokens
    <3>5. Expired(q) <=> Expired(r)
      BY <3>1 DEF Expired
    <3>6. QED
      BY <1>1, <1>1a, <1>2, <1>3, <2>1, <2>7, <3>1, <3>2, <3>3, <3>4, <3>5 DEF Kept
  <2>8. ReservationsKept'
    BY <2>1, <2>5, <2>6 DEF ReservationsKept, Kept
  <2>9. ReservedOnce'
    <3>1. \A q : Expired(q)' <=> Expired(q)
      BY <2>1 DEF Expired, Token
    <3>2. \A q, s : SameStore(q, s)' <=> SameStore(q, s)
      BY <2>1 DEF SameStore
    <3>3. \A q \in reserved : SameStore(r, q) => SameStore(q, r)
      BY DEF SameStore
    <3>4. QED
      BY <2>1, <2>7, <3>1, <3>2, <3>3 DEF ReservedOnce
  <2>10. QED
    BY <2>8, <2>9
<1>12a. ASSUME NEW n \in Nonces, Forget(n) PROVE ReservationsKept' /\ ReservedOnce'
  <2>1. /\ UNCHANGED <<reserved, now, life>>
        /\ store' = [store EXCEPT !["shared"][n] = 0] /\ store["shared"][n] <= now
    BY <1>12a DEF Forget
  <2>2. \A s \in Processes \cup {"shared"} : s # "shared" => store'[s] = store[s]
    BY <2>1 DEF TypeOK
  <2>3. \A m \in Nonces : store["shared"][m] > now => store'["shared"][m] = store["shared"][m]
    <3>1. store["shared"][n] \in Nat
      BY MrtrAssumption DEF TypeOK
    <3>2. QED
      BY <1>2, <2>1, <3>1 DEF TypeOK
  <2>4. QED
    BY <1>9, <2>1, <2>2, <2>3
<1>13. QED
  BY <1>5, <1>6, <1>7, <1>8, <1>10, <1>11, <1>12, <1>12a DEF Next, Serve

\* The invariant holds in every reachable state.
THEOREM Invariance == Spec => []IInv
<1>1. IInv /\ [Next]_vars => IInv'
  BY TypeStep, NoncesStep, CarriedStep, ProgressStep, ReservationStep DEF IInv
<1>2. QED
  BY <1>1, InitIInv, PTL DEF Spec

\* A token admits at most one retry in the life of a memory store, and with an injected
\* store one until it expires, for any number of requests, processes, restarts and tokens
\* (guardMrtrRetry, consume).
THEOREM OneUse == Spec => []SpentOnce
<1>1. IInv => SingleUse
  BY DEF IInv, Progress, ReservedOnce, SingleUse
<1>2. IInv => ReservationsKept
  BY DEF IInv
<1>3. QED
  BY <1>1, <1>2, Invariance, PTL DEF SpentOnce

\* Answers reach a handler unverified only where there is no key.
THEOREM Answers == Spec => []AnswersVerified
<1>1. IInv => AnswersVerified
  BY DEF IInv, TypeOK, Progress, Bound, AnswersVerified
<1>2. QED
  BY <1>1, Invariance, PTL

-----------------------------------------------------------------------------
(* Refinement: processes that share a store sell and take single-use tickets. *)

\* What is sold, shown and used does not change.
Still ==
  /\ issued' = issued
  /\ \A r \in Requests : pc[r] \in {"verified", "reserved"} <=> pc'[r] \in {"verified", "reserved"}
  /\ \A r \in Requests : pc[r] \in {"verified", "reserved"} => ask'[r] = ask[r]

\* The same, but for those that leave.
Leaving ==
  /\ issued' = issued
  /\ \A r \in Requests : pc'[r] \in {"verified", "reserved"} => pc[r] \in {"verified", "reserved"} /\ ask'[r] = ask[r]

UsedStays ==
  /\ \A r \in Requests : (admission'[r] = "verified" <=> admission[r] = "verified")
  /\ \A r \in Requests : admission[r] = "verified" => ask'[r] = ask[r]

LEMMA UsedStutters == UsedStays => Used' = Used
BY DEF Used, UsedStays

\* A request that leaves, or nothing at all, while the clock stands.
LEMMA LeaveStep ==
  ASSUME Leaving, UsedStays, UNCHANGED now
  PROVE  Ledger!Leave
<1>1. Shown' \subseteq Shown
  BY DEF Leaving, Shown
<1>2. Lapsed' = Lapsed
  BY DEF Leaving, Lapsed
<1>3. issued' = issued
  BY DEF Leaving
<1>4. QED
  BY <1>1, <1>2, <1>3, UsedStutters DEF Ledger!Leave

LEMMA TicketStep ==
  ASSUME Shared, IInv, IInv', [Next]_vars
  PROVE  [Ledger!Next]_<<1 .. Len(issued), Lapsed, Shown, Used>>
<1> USE DEF IInv
<1>1. ASSUME NEW r \in Requests, AdmitRetry(r) PROVE Ledger!Use(ask[r].state, r)
  <2>0. /\ pc[r] = "reserved" /\ UNCHANGED <<now, issued, ask>>
        /\ pc' = [pc EXCEPT ![r] = "handling"] /\ admission' = [admission EXCEPT ![r] = "verified"]
    BY <1>1 DEF AdmitRetry, Admit
  <2>1. ask[r].state \in 1 .. Len(issued) /\ r \in reserved /\ admission[r] = "none"
    BY <2>0 DEF Progress, Bound
  <2>2. ask[r].state \in Lapsed \/ \A c \in Requests : <<ask[r].state, c>> \notin Used
    <3>1. Expired(r) => ask[r].state \in Lapsed
      BY <2>1 DEF Expired, Lapsed, Token
    <3>2. ASSUME NEW c \in Requests, <<ask[r].state, c>> \in Used PROVE Expired(r)
      <4>1. admission[c] = "verified" /\ ask[c].state = ask[r].state
        BY <3>2 DEF Used
      <4>2. c \in reserved /\ c # r
        BY <2>1, <4>1 DEF Progress
      <4>3. QED
        BY <2>1, <4>1, <4>2 DEF ReservedOnce, SameStore
    <3>3. QED
      BY <3>1, <3>2
  <2>3. Used' = Used \cup {<<ask[r].state, r>>}
    BY <2>0, <2>1 DEF Used, TypeOK
  <2>4. <<ask[r].state, r>> \in Shown
    BY <2>0 DEF Shown
  <2>5. Shown' = Shown \ {<<ask[r].state, r>>}
    BY <2>0 DEF Shown, TypeOK
  <2>6. Lapsed' = Lapsed
    BY <2>0 DEF Lapsed
  <2>7. QED
    BY <2>0, <2>2, <2>3, <2>4, <2>5, <2>6 DEF Ledger!Use
<1>2. ASSUME NEW r \in Requests, Seal(r), signed PROVE Ledger!Sell(Len(issued) + 1)
  <2>1. Len(issued') = Len(issued) + 1 /\ Len(issued) \in Nat /\ Len(issued') <= MaxTokens
    BY <1>2, SealGrows DEF TypeOK
  <2>2. 1 .. Len(issued') = (1 .. Len(issued)) \cup {Len(issued) + 1} /\ Len(issued) + 1 \notin 1 .. Len(issued)
    BY <2>1
  <2>3. Used' = Used
    BY <1>2, UsedStutters DEF Seal, UsedStays
  <2>4. Shown' = Shown
    BY <1>2 DEF Seal, Answer, Shown, TypeOK
  <2>5. Lapsed' = Lapsed
    <3>1. /\ issued' = Append(issued, [principal |-> ask[r].principal, call |-> ask[r].call, exp |-> now + Ttl])
          /\ now' = now /\ issued \in Seq(Tokens)
      BY <1>2 DEF Seal, TypeOK
    <3>2. issued'[Len(issued) + 1].exp = now + Ttl
      BY <3>1
    <3>3. ~(now + Ttl <= now)
      BY MrtrAssumption DEF TypeOK
    <3>4. \A n \in 1 .. Len(issued) : issued'[n] = issued[n]
      BY <1>2, SealGrows
    <3>5. QED
      BY <2>1, <2>2, <3>1, <3>2, <3>3, <3>4 DEF Lapsed
  <2>6. QED
    BY <2>2, <2>3, <2>4, <2>5 DEF Ledger!Sell
<1>3. ASSUME NEW r \in Requests, NEW a \in Asks, Receive(r, a) PROVE Ledger!Leave
  <2>1. Leaving /\ UsedStays
    BY <1>3 DEF Receive, AwaitKey, Admit, Carried, Leaving, UsedStays, TypeOK
  <2>2. QED
    BY <1>3, <2>1, LeaveStep DEF Receive
<1>4. ASSUME NEW r \in Requests, Verify(r) PROVE Ledger!Leave \/ Ledger!Show(ask[r].state, r)
  <2>1. UsedStays /\ UNCHANGED <<now, issued, ask>>
    BY <1>4 DEF Verify, UsedStays
  <2>2. CASE Verdict(r) # "none"
    <3>1. Leaving
      BY <1>4, <2>1, <2>2 DEF Verify, Answer, Leaving, TypeOK
    <3>2. QED
      BY <2>1, <3>1, LeaveStep
  <2>3. CASE Verdict(r) = "none"
    <3>1. pc' = [pc EXCEPT ![r] = "verified"]
      BY <1>4, <2>3 DEF Verify
    <3>2. Bound(r)'
      BY <3>1 DEF Progress, TypeOK
    <3>3. ask[r].state \in 1 .. Len(issued)
      BY <2>1, <3>2 DEF Bound
    <3>4. ~(Token(r).exp <= now)
      BY <2>3 DEF Verdict
    <3>5. ask[r].state \in (1 .. Len(issued)) \ Lapsed
      BY <3>3, <3>4 DEF Lapsed, Token
    <3>6. Shown' = Shown \cup {<<ask[r].state, r>>}
      BY <2>1, <3>1 DEF Shown, TypeOK
    <3>7. Lapsed' = Lapsed
      BY <2>1 DEF Lapsed
    <3>8. QED
      BY <2>1, <3>5, <3>6, <3>7, UsedStutters DEF Ledger!Show
  <2>4. QED
    BY <2>2, <2>3
<1>5. ASSUME NEW r \in Requests, Serve(r), ~AdmitRetry(r), ~Verify(r), ~(Seal(r) /\ signed) PROVE Ledger!Leave
  <2>1. UsedStays /\ UNCHANGED <<now, issued, ask>>
    BY <1>5 DEF Serve, Guard, ConsumeRefuses, ConsumeReserves, ConsumeFails, SharedStoreFails, Finish,
                AskInput, Seal, Admit, Progress, UsedStays, TypeOK
  <2>2. \A q \in Requests : pc'[q] \in {"verified", "reserved"} => pc[q] \in {"verified", "reserved"}
    <3>1. CASE ConsumeReserves(r)
      BY <3>1 DEF ConsumeReserves, TypeOK
    <3>2. CASE Guard(r)
      <4>1. \E to \in {"handling", "done", "verifying"} : pc' = [pc EXCEPT ![r] = to]
        BY <3>2, Zenon DEF Guard, Answer, Admit
      <4>2. QED
        BY <4>1 DEF TypeOK
    <3>3. CASE ConsumeRefuses(r) \/ ConsumeFails(r) \/ SharedStoreFails(r) \/ Finish(r) \/ Seal(r)
      BY <3>3 DEF ConsumeRefuses, ConsumeFails, SharedStoreFails, Finish, Seal, Answer, TypeOK
    <3>4. CASE AskInput(r)
      BY <3>4 DEF AskInput, AwaitKey, Answer, TypeOK
    <3>5. QED
      BY <1>5, <3>1, <3>2, <3>3, <3>4 DEF Serve
  <2>3. QED
    BY <2>1, <2>2, LeaveStep DEF Leaving
<1>6. ASSUME (\E p \in Processes : KeyReady(p) \/ KeyFails(p) \/ Restart(p))
             \/ (\E n \in Nonces : Forget(n)) \/ UNCHANGED vars
      PROVE  Ledger!Leave
  <2>1. UsedStays /\ UNCHANGED <<now, issued, ask>>
    BY <1>6 DEF KeyReady, KeyFails, Restart, Forget, vars, UsedStays
  <2>2. \A q \in Requests : pc'[q] \in {"verified", "reserved"} => pc[q] \in {"verified", "reserved"}
    BY <1>6 DEF KeyReady, KeyFails, Restart, Forget, vars, TypeOK
  <2>3. QED
    BY <2>1, <2>2, LeaveStep DEF Leaving
<1>7. ASSUME Tick PROVE Ledger!Lapse
  <2>1. UNCHANGED <<issued, pc, ask, admission>> /\ now' = now + 1
    BY <1>7 DEF Tick
  <2>2. Shown' = Shown /\ Used' = Used
    BY <2>1 DEF Shown, Used
  <2>3. Lapsed \subseteq Lapsed' /\ Lapsed' \subseteq 1 .. Len(issued)
    <3>1. \A n \in 1 .. Len(issued) : issued[n].exp \in Nat
      <4>1. \A n \in 1 .. Len(issued) : issued[n] \in Tokens
        BY DEF TypeOK
      <4>2. \A x \in Tokens : x.exp \in Nat
        BY MrtrAssumption DEF Tokens
      <4>3. QED
        BY <4>1, <4>2
    <3>2. now \in Nat
      BY DEF TypeOK
    <3>3. QED
      BY <2>1, <3>1, <3>2 DEF Lapsed
  <2>4. QED
    BY <2>1, <2>2, <2>3 DEF Ledger!Lapse
<1>8. ASSUME NEW r \in Requests, Seal(r), signed PROVE Len(issued) + 1 \in Nonces
  BY <1>8, SealGrows, MrtrAssumption DEF Nonces, TypeOK
<1>9. ASSUME NEW r \in Requests, AdmitRetry(r) PROVE ask[r].state \in Nonces
  BY <1>9, MrtrAssumption DEF AdmitRetry, Progress, Bound, Nonces, TypeOK
<1>10. ASSUME NEW r \in Requests, Verify(r), ~Ledger!Leave PROVE ask[r].state \in Nonces
  <2>1. Ledger!Show(ask[r].state, r)
    BY <1>4, <1>10
  <2>2. ask[r].state \in 1 .. Len(issued)
    BY <2>1 DEF Ledger!Show
  <2>3. QED
    BY <2>2, MrtrAssumption DEF Nonces, TypeOK
<1>11. Ledger!Next
  BY <1>1, <1>2, <1>3, <1>4, <1>5, <1>6, <1>7, <1>8, <1>9, <1>10 DEF Next, Ledger!Next
<1>12. QED
  BY <1>11

\* Processes that share a store implement single-use tickets: who gets in has shown the
\* token before it expired, and nobody else gets in with it until it expires.
THEOREM TicketsRefined == Shared => (Spec => ImplementsTickets)
<1> SUFFICES ASSUME Shared PROVE Spec => ImplementsTickets
  OBVIOUS
<1>1. Init => Ledger!Init
  <2> SUFFICES ASSUME Init PROVE Ledger!Init
    OBVIOUS
  <2>1. issued = <<>> /\ \A r \in Requests : pc[r] = "new" /\ admission[r] = "none"
    BY DEF Init
  <2>2. 1 .. Len(issued) = {}
    BY <2>1
  <2>3. QED
    BY <2>1, <2>2 DEF Ledger!Init, Lapsed, Shown, Used
<1>2. IInv /\ IInv' /\ [Next]_vars => [Ledger!Next]_<<1 .. Len(issued), Lapsed, Shown, Used>>
  BY TicketStep
<1>3. QED
  BY <1>1, <1>2, Invariance, PTL DEF Spec, ImplementsTickets, Ledger!Spec
=============================================================================
