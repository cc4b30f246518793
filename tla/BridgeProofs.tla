---------------------------- MODULE BridgeProofs ----------------------------
(* Proofs about the bridge.  For every number of calls, connections and         *)
(* restarts and for both strategies, relay and agent agree on who serves the    *)
(* key and on what (TunnelSound): what a state must satisfy besides is who may  *)
(* be registered, where a call waits, which frames are behind which on a        *)
(* connection, and which attempt a reconnect loop stands on.  For every number  *)
(* of notifications, sockets and reconnects, a page is served as promised       *)
(* (PageServed): what the app heard and what is under way to it ascend without  *)
(* a gap, whichever socket carries it, and whoever takes the session for        *)
(* authenticated was told so.  For any directories, files, routes and URIs, the *)
(* page of a URI is what the URI names (PagesTrue): a path is normalized one    *)
(* segment at a time, so that what stays below its directory is normalized      *)
(* below it, and what leaves it is caught at the directory of some App; the     *)
(* lines of presented data are those of data the bot signed.                    *)
EXTENDS MCBridge, LoopFacts, FiniteSetTheorems, SequenceTheorems, TLAPS

Registrations == Conns \cup {Direct, None}
CallRecord == [state : {"new", "open", "error", "result"}, via : Registrations, busy : BOOLEAN, unsettled : BOOLEAN]
Conn ==
  [client : {"none", "connecting", "open", "closing", "closed"}, server : {"none", "open", "closing", "closed"},
   hello : {"no", "asking", "registered"}, ends : {"no", "server", "client", "drop"}, terminal : BOOLEAN,
   by : {"start", "loop"}]
ClientRecord ==
  [stopped : BOOLEAN, loop : {"idle", "sleep", "dialling"}, socket : Conns \cup {None}, failed : BOOLEAN]
UpFrame == ({"hello"} \X {None}) \cup ({"result"} \X Calls)
DownFrame == {"call", "cancel"} \X Calls

TunnelTypeOK ==
  /\ agent \in Registrations /\ latest \in Registrations /\ inFlight \in Nat
  /\ call \in [Calls -> CallRecord] /\ conn \in [Conns -> Conn]
  /\ up \in [Conns -> Seq(UpFrame)] /\ down \in [Conns -> Seq(DownFrame)]
  /\ client \in ClientRecord /\ handler \in [Calls -> {"none", "running", "over"}]

\* The two ends of a WebSocket.
ConnOK(x) ==
  /\ x.client \in {"none", "connecting"} <=> x.server = "none"
  /\ x.server = "none" => x.hello = "no" /\ x.ends = "no"
  /\ x.server = "closing" => x.ends # "no"

\* Connections are numbered in the order they are opened.
OpenedInOrder == \E n \in 0..MaxConns : Opened = 1..n

\* The registration made last is a socket's that said hello, as long as it is not closed.
LatestOK ==
  latest \in Conns =>
    /\ conn[latest].server # "none"
    /\ conn[latest].server # "closed" => conn[latest].hello = "registered"

\* An open call holds its slot, except a timed out one of a direct agent; it waits on no closed socket.
CallOK(x) ==
  /\ x.state = "new" => x.via = None
  /\ x.via = None => x.state # "open" /\ ~x.busy /\ ~x.unsettled
  /\ x.busy => x.unsettled /\ (x.state # "open" => x.via = Direct)
  /\ x.state = "open" => x.busy /\ x.unsettled
  /\ x.state = "open" /\ x.via # Direct => conn[x.via].server \in {"open", "closing"}

SlotsOK == inFlight = Cardinality({k \in Calls : call[k].busy}) /\ (Strategy = "reject" => inFlight <= 1)

CancelAfter(c, k, i) == \E j \in DOMAIN down[c] : j > i /\ down[c][j] = <<"cancel", k>>

\* Frames travel by the connection of their call; its call frame comes once, before its handler, and behind it a
\* cancellation when the call has ended, unless the connection comes down.
FrameOK(c, i, k) ==
  /\ down[c][i] \in {<<"call", k>>, <<"cancel", k>>} => call[k].via = c
  /\ down[c][i] = <<"call", k>> =>
       /\ handler[k] = "none"
       /\ \A j \in DOMAIN down[c] : down[c][j] = <<"call", k>> => j = i
       /\ Ended(k) => CancelAfter(c, k, i) \/ conn[c].ends # "no"
FramesOK == \A c \in Conns : \A i \in DOMAIN down[c] : \A k \in Calls : FrameOK(c, i, k)

\* So it is with a handler at work; what it returns goes out once it is over.
HandlerOK(k) ==
  /\ handler[k] # "none" => call[k].via \in Conns
  /\ handler[k] = "running" /\ Ended(k) => CancelAfter(call[k].via, k, 0) \/ conn[call[k].via].ends # "no"
HandlersOK == \A k \in Calls : HandlerOK(k)
ResultsOK == \A c \in Conns : \A i \in DOMAIN up[c] : \A k \in Calls : up[c][i] = <<"result", k>> => handler[k] = "over"

Dialling == client.loop = "dialling" => \E c \in Conns : conn[c].client = "connecting" /\ conn[c].by = "loop"

TunnelInv ==
  /\ TunnelTypeOK
  /\ \A c \in Conns : ConnOK(conn[c])
  /\ OpenedInOrder /\ LatestOK /\ HoldsLatest
  /\ \A k \in Calls : CallOK(call[k])
  /\ SlotsOK /\ FramesOK /\ HandlersOK /\ ResultsOK
  /\ Dialling /\ NeverStranded

-----------------------------------------------------------------------------
\* A set put in sequence: all of its elements and no others.
LEMMA SequenceOfSet ==
  ASSUME NEW S, IsFiniteSet(S)
  PROVE  SetToSeq(S) \in Seq(S) /\ \A s \in S : \E i \in DOMAIN SetToSeq(S) : SetToSeq(S)[i] = s
<1> DEFINE n == Cardinality(S)
           f == SetToSeq(S)
<1>1. n \in Nat /\ ExistsBijection(1..n, S)
  BY FS_CardinalityType
<1>2. \E g \in [1..n -> S] : IsInjective(g)
  BY <1>1 DEF ExistsBijection, Bijection, Injection, IsInjective
<1>3. f \in [1..n -> S] /\ IsInjective(f)
  BY <1>2 DEF SetToSeq
<1>4. f \in Injection(1..n, S)
  BY <1>3 DEF Injection
<1>5. Cardinality(1..n) = n
  BY <1>1, FS_Interval
<1>6. f \in Surjection(1..n, S)
  BY <1>4, <1>5, FS_Injection
<1>7. f \in Seq(S)
  BY <1>1, <1>3
<1>8. QED
  BY <1>3, <1>6, <1>7 DEF Surjection

\* The cancellations of a set of calls: one of each over a socket that is open.
LEMMA CancellationsFacts ==
  ASSUME NEW c \in Conns, NEW K \in SUBSET Calls
  PROVE  /\ Cancellations(c, K) \in Seq(DownFrame)
         /\ \A i \in DOMAIN Cancellations(c, K) : \E k \in K : Cancellations(c, K)[i] = <<"cancel", k>>
         /\ conn[c].server = "open" =>
              \A k \in K : \E i \in DOMAIN Cancellations(c, K) : Cancellations(c, K)[i] = <<"cancel", k>>
<1> DEFINE S == {<<"cancel", k>> : k \in K}
           f == [k \in K |-> <<"cancel", k>>]
<1>1. IsFiniteSet(K)
  BY TunnelAssumption, FS_Subset
<1>2. f \in Surjection(K, S)
  BY DEF Surjection
<1>3. IsFiniteSet(S)
  BY <1>1, <1>2, FS_Surjection
<1>4. CASE conn[c].server = "open"
  <2> DEFINE q == SetToSeq(S)
  <2>1. q \in Seq(S) /\ \A s \in S : \E i \in DOMAIN q : q[i] = s
    BY <1>3, SequenceOfSet
  <2>2. Cancellations(c, K) = q
    BY <1>4 DEF Cancellations
  <2>3. S \subseteq DownFrame
    BY DEF DownFrame
  <2> HIDE DEF q
  <2>4. q \in Seq(DownFrame) /\ \A i \in DOMAIN q : q[i] \in S
    BY <2>1, <2>3
  <2>5. QED
    BY <1>4, <2>1, <2>2, <2>4
<1>5. CASE conn[c].server # "open"
  BY <1>5 DEF Cancellations
<1>6. QED
  BY <1>4, <1>5

\* A connection both ends are done with.
LEMMA GoneFields ==
  ASSUME NEW x \in Conn
  PROVE  /\ Gone(x) \in Conn /\ Gone(x).client = "closed" /\ Gone(x).server = "closed" /\ Gone(x).ends = "drop"
         /\ ConnOK(Gone(x))
BY DEF Gone, Conn, ConnOK

\* A connection the relay closes.
LEMMA CloseByServerFields ==
  ASSUME NEW c \in Conns, conn \in [Conns -> Conn], ConnOK(conn[c]), NEW terminal \in BOOLEAN
  PROVE  LET x == CloseByServer(c, terminal)
         IN  /\ x \in Conn /\ x.client = conn[c].client /\ x.by = conn[c].by /\ x.hello = conn[c].hello
             /\ x.server = IF conn[c].server = "open" THEN "closing" ELSE conn[c].server
             /\ conn[c].ends # "no" => x.ends # "no"
             /\ ConnOK(x)
<1>1. conn[c] \in Conn
  OBVIOUS
<1>2. QED
  BY <1>1 DEF CloseByServer, Conn, ConnOK

\* What connections do to the parts that only read them.
ConnsGoOn ==
  /\ conn' \in [Conns -> Conn]
  /\ \A c \in Conns :
       /\ ConnOK(conn'[c])
       /\ conn[c].ends # "no" => conn'[c].ends # "no"

\* Open calls go on waiting where they wait while no connection closes at the relay's end.
LEMMA CallsOnConns ==
  ASSUME TunnelInv, UNCHANGED call,
         \A c \in Conns : conn[c].server \in {"open", "closing"} => conn'[c].server \in {"open", "closing"}
  PROVE  \A k \in Calls : CallOK(call[k])'
BY DEF TunnelInv, CallOK, TunnelTypeOK, CallRecord, Registrations

\* Frames that stay or go with their connection, and handlers that go on or are aborted.
LEMMA FramesLost ==
  ASSUME TunnelInv, ConnsGoOn,
         \A d \in Conns : down'[d] = down[d] \/ (down'[d] = << >> /\ conn'[d].ends # "no"),
         handler' \in {handler, Aborted},
         \A k \in Calls : /\ call'[k].via = call[k].via
                          /\ Ended(k)' => \/ Ended(k) \/ handler[k] = "over" \/ call[k].via \notin Conns
                                          \/ conn'[call[k].via].ends # "no"
  PROVE  FramesOK' /\ HandlersOK' /\ handler' \in [Calls -> {"none", "running", "over"}]
<1>1. ASSUME NEW k \in Calls
      PROVE  /\ handler'[k] \in {"none", "running", "over"}
             /\ handler'[k] = "none" <=> handler[k] = "none"
             /\ handler'[k] = "running" => handler[k] = "running"
             /\ handler[k] = "over" => handler'[k] = "over"
  BY DEF TunnelInv, TunnelTypeOK, Aborted
<1>2. handler' \in [Calls -> {"none", "running", "over"}]
  BY <1>1 DEF Aborted, TunnelInv, TunnelTypeOK
<1>3. ASSUME NEW c \in Conns, NEW i \in DOMAIN down'[c], NEW k \in Calls PROVE FrameOK(c, i, k)'
  <2>1. down'[c] = down[c] /\ i \in DOMAIN down[c]
    OBVIOUS
  <2>2. FrameOK(c, i, k)
    BY <2>1 DEF TunnelInv, FramesOK
  <2>3. down'[c][i] \in {<<"call", k>>, <<"cancel", k>>} => call'[k].via = c
    BY <2>1, <2>2 DEF FrameOK
  <2>4. ASSUME down'[c][i] = <<"call", k>>
        PROVE  handler'[k] = "none" /\ \A j \in DOMAIN down'[c] : down'[c][j] = <<"call", k>> => j = i
    BY <1>1, <2>1, <2>2, <2>4 DEF FrameOK
  <2>5. ASSUME down'[c][i] = <<"call", k>>, Ended(k)'
        PROVE  CancelAfter(c, k, i)' \/ conn'[c].ends # "no"
    BY <2>1, <2>2, <2>5 DEF FrameOK, CancelAfter, ConnsGoOn
  <2>6. QED
    BY <2>3, <2>4, <2>5 DEF FrameOK
<1>4. ASSUME NEW k \in Calls PROVE HandlerOK(k)'
  <2>1. HandlerOK(k)
    BY DEF TunnelInv, HandlersOK
  <2>2. handler'[k] # "none" => call'[k].via \in Conns
    BY <1>1, <2>1 DEF HandlerOK
  <2>3. ASSUME handler'[k] = "running", Ended(k)'
        PROVE  CancelAfter(call[k].via, k, 0)' \/ conn'[call[k].via].ends # "no"
    BY <1>1, <2>1, <2>3 DEF HandlerOK, CancelAfter, ConnsGoOn
  <2>4. QED
    BY <2>2, <2>3 DEF HandlerOK, CancelAfter
<1>5. QED
  BY <1>2, <1>3, <1>4 DEF FramesOK, HandlersOK

\* No connection is opened: they stay numbered in order.
LEMMA OpenedStays ==
  ASSUME TunnelInv, \A c \in Conns : conn'[c].client = "none" <=> conn[c].client = "none"
  PROVE  OpenedInOrder'
<1>1. Opened' = Opened
  BY DEF Opened
<1>2. QED
  BY <1>1 DEF TunnelInv, OpenedInOrder

\* The agent's client and the attempts it waits for stay.
LEMMA ClientWaits ==
  ASSUME TunnelInv, UNCHANGED client,
         \A c \in Conns : conn[c].client = "connecting" => conn'[c].client = "connecting" /\ conn'[c].by = conn[c].by
  PROVE  Dialling' /\ NeverStranded'
BY DEF TunnelInv, Dialling, NeverStranded

\* Answers in flight, with none added.
LEMMA ResultsStay ==
  ASSUME TunnelInv, handler' \in {handler, Aborted},
         \A c \in Conns : \A i \in DOMAIN up'[c] :
            \/ \E j \in DOMAIN up[c] : up'[c][i] = up[c][j]
            \/ up'[c][i][1] = "hello"
  PROVE  ResultsOK'
<1>1. \A k \in Calls : handler[k] = "over" => handler'[k] = "over"
  BY DEF Aborted, TunnelInv, TunnelTypeOK
<1>2. QED
  BY <1>1 DEF TunnelInv, ResultsOK

\* A frame the relay takes off a connection.
LEMMA TailOfUp ==
  ASSUME TunnelInv, NEW c \in Conns, up[c] # << >>, up' = [up EXCEPT ![c] = Tail(@)]
  PROVE  /\ up' \in [Conns -> Seq(UpFrame)]
         /\ \A d \in Conns : \A i \in DOMAIN up'[d] : \E j \in DOMAIN up[d] : up'[d][i] = up[d][j]
<1>1. up \in [Conns -> Seq(UpFrame)] /\ up[c] \in Seq(UpFrame) /\ up'[c] = Tail(up[c])
  BY DEF TunnelInv, TunnelTypeOK
<1>2. Tail(up[c]) \in Seq(UpFrame)
  BY <1>1
<1>3. \A i \in DOMAIN Tail(up[c]) : i + 1 \in DOMAIN up[c] /\ Tail(up[c])[i] = up[c][i + 1]
  BY <1>1
<1>4. QED
  BY <1>1, <1>2, <1>3

\* A step of the relay or of the network that changes one connection, but not who is connecting or registered.
LEMMA ConnChange ==
  ASSUME TunnelInv, NEW c \in Conns, NEW x \in Conn, conn' = [conn EXCEPT ![c] = x], ConnOK(x),
         x.client = conn[c].client, x.by = conn[c].by,
         conn[c].ends # "no" => x.ends # "no",
         x.server = conn[c].server \/ (conn[c].server = "open" /\ x.server = "closing"),
         x.hello = conn[c].hello \/ (conn[c].hello # "registered" /\ x.hello # "registered"),
         up' \in [Conns -> Seq(UpFrame)],
         \A d \in Conns : \A i \in DOMAIN up'[d] : \E j \in DOMAIN up[d] : up'[d][i] = up[d][j],
         UNCHANGED <<agent, inFlight, call, down, client, handler, latest>>
  PROVE  TunnelInv'
<1>1. conn \in [Conns -> Conn] /\ conn' \in [Conns -> Conn] /\ \A d \in Conns : ConnOK(conn[d])
  BY DEF TunnelInv, TunnelTypeOK
<1>2. ConnsGoOn
  BY <1>1 DEF ConnsGoOn
<1>3. \A d \in Conns :
        /\ conn[d].server \in {"open", "closing"} => conn'[d].server \in {"open", "closing"}
        /\ conn'[d].server = "closed" <=> conn[d].server = "closed"
        /\ conn'[d].server = "none" <=> conn[d].server = "none"
        /\ conn'[d].client = conn[d].client /\ conn'[d].by = conn[d].by
        /\ conn[d].hello = "registered" => conn'[d].hello = "registered"
  BY <1>1
<1>4. TunnelTypeOK'
  BY <1>1 DEF TunnelInv, TunnelTypeOK
<1>5. LatestOK' /\ HoldsLatest'
  BY <1>3 DEF TunnelInv, LatestOK, HoldsLatest
<1>6. FramesOK' /\ HandlersOK'
  BY <1>2, FramesLost DEF Ended
<1>7. SlotsOK'
  BY DEF TunnelInv, SlotsOK
<1>8. OpenedInOrder'
  BY <1>3, OpenedStays
<1>9. Dialling' /\ NeverStranded'
  BY <1>3, ClientWaits
<1>10. ResultsOK'
  BY ResultsStay
<1>11. \A k \in Calls : CallOK(call[k])'
  BY <1>3, CallsOnConns
<1>12. QED
  BY <1>2, <1>4, <1>5, <1>6, <1>7, <1>8, <1>9, <1>10, <1>11 DEF TunnelInv, ConnsGoOn

\* A connection that the relay closes or asks about, but does not register.
Closing(c) ==
  \E x \in Conn :
     /\ conn' = [conn EXCEPT ![c] = x] /\ ConnOK(x) /\ x.client = conn[c].client /\ x.by = conn[c].by
     /\ conn[c].ends # "no" => x.ends # "no"
     /\ x.server = conn[c].server \/ (conn[c].server = "open" /\ x.server = "closing")
     /\ x.hello = conn[c].hello \/ (conn[c].hello # "registered" /\ x.hello # "registered")

\* A hello that is refused, asked about or late (HelloAccepted is apart).
LEMMA SocketInv ==
  ASSUME TunnelInv, NEW c \in Conns,
         ServerHello(c) \/ HelloRefused(c) \/ HelloTimeout(c)
  PROVE  TunnelInv'
<1>1. conn \in [Conns -> Conn] /\ conn[c] \in Conn /\ ConnOK(conn[c]) /\ up \in [Conns -> Seq(UpFrame)]
  BY DEF TunnelInv, TunnelTypeOK
<1>2. UNCHANGED <<agent, inFlight, call, down, client, handler, latest>>
  BY DEF ServerHello, HelloRefused, HelloTimeout
<1>3. /\ up' \in [Conns -> Seq(UpFrame)]
      /\ \A d \in Conns : \A i \in DOMAIN up'[d] : \E j \in DOMAIN up[d] : up'[d][i] = up[d][j]
  BY <1>1, TailOfUp DEF ServerHello, HelloRefused, HelloTimeout, Receives
<1>4. Closing(c)
  <2>1. ASSUME NEW terminal \in BOOLEAN, conn' = [conn EXCEPT ![c] = CloseByServer(c, terminal)]
        PROVE  Closing(c)
    <3> DEFINE x == CloseByServer(c, terminal)
    <3>1. /\ x \in Conn /\ x.client = conn[c].client /\ x.by = conn[c].by /\ x.hello = conn[c].hello
          /\ x.server = IF conn[c].server = "open" THEN "closing" ELSE conn[c].server
          /\ conn[c].ends # "no" => x.ends # "no"
          /\ ConnOK(x)
      BY <1>1, CloseByServerFields
    <3> HIDE DEF x
    <3>2. conn' = [conn EXCEPT ![c] = x]
      BY <2>1 DEF x
    <3>3. QED
      BY <3>1, <3>2 DEF Closing
  <2>2. ASSUME NEW terminal \in BOOLEAN, conn[c].hello = "asking",
               conn' = [conn EXCEPT ![c] = [CloseByServer(c, terminal) EXCEPT !.hello = "no"]]
        PROVE  Closing(c)
    <3> DEFINE x == CloseByServer(c, terminal)
    <3>1. /\ x \in Conn /\ x.client = conn[c].client /\ x.by = conn[c].by /\ x.hello = conn[c].hello
          /\ x.server = IF conn[c].server = "open" THEN "closing" ELSE conn[c].server
          /\ conn[c].ends # "no" => x.ends # "no"
          /\ ConnOK(x)
      BY <1>1, CloseByServerFields
    <3> HIDE DEF x
    <3> DEFINE y == [x EXCEPT !.hello = "no"]
    <3>2. y \in Conn /\ ConnOK(y) /\ y.client = x.client /\ y.by = x.by /\ y.ends = x.ends /\ y.server = x.server /\ y.hello = "no"
      BY <3>1 DEF Conn, ConnOK
    <3>3. conn' = [conn EXCEPT ![c] = y]
      BY <2>2 DEF x
    <3> HIDE DEF y
    <3>4. QED
      BY <2>2, <3>1, <3>2, <3>3 DEF Closing
  <2>3. ASSUME conn[c].hello = "no", conn[c].server = "open", conn' = [conn EXCEPT ![c].hello = "asking"]
        PROVE  Closing(c)
    <3> DEFINE y == [conn[c] EXCEPT !.hello = "asking"]
    <3>1. /\ y \in Conn /\ ConnOK(y) /\ y.client = conn[c].client /\ y.by = conn[c].by /\ y.ends = conn[c].ends
          /\ y.server = conn[c].server /\ y.hello = "asking"
      BY <1>1, <2>3 DEF Conn, ConnOK
    <3>2. conn' = [conn EXCEPT ![c] = y]
      BY <2>3
    <3> HIDE DEF y
    <3>3. QED
      BY <2>3, <3>1, <3>2 DEF Closing
  <2>4. QED
    BY <2>1, <2>2, <2>3 DEF ServerHello, HelloRefused, HelloTimeout, Receives
<1>5. QED
  BY <1>2, <1>3, <1>4, ConnChange DEF Closing

\* Slots given back are counted.
LEMMA SlotsGiven ==
  ASSUME TunnelInv, NEW K \in SUBSET Calls, inFlight' = inFlight - Slots(K),
         \A k \in Calls : call'[k].busy <=> call[k].busy /\ k \notin K
  PROVE  inFlight' \in Nat /\ SlotsOK'
<1> DEFINE held == {k \in Calls : call[k].busy}
           given == {k \in K : call[k].busy}
<1>1. inFlight \in Nat /\ inFlight = Cardinality(held)
  BY DEF TunnelInv, TunnelTypeOK, SlotsOK
<1>2. {k \in Calls : call'[k].busy} = held \ given
  OBVIOUS
<1>3. IsFiniteSet(held) /\ IsFiniteSet(given) /\ held \cap given = given
  BY TunnelAssumption, FS_Subset
<1>4. Cardinality(held \ given) = Cardinality(held) - Cardinality(held \cap given)
  BY <1>3, FS_Difference
<1>5. Cardinality(held \ given) = inFlight - Cardinality(given)
  BY <1>1, <1>3, <1>4
<1>6. inFlight' = inFlight - Cardinality(given)
  BY DEF Slots
<1>7. Cardinality(given) \in Nat /\ Cardinality(held \ given) \in Nat
  BY <1>3, FS_CardinalityType, FS_Subset
<1>8. Strategy = "reject" => inFlight' <= 1
  BY <1>1, <1>6, <1>7 DEF TunnelInv, SlotsOK
<1>9. QED
  BY <1>2, <1>5, <1>6, <1>7, <1>8 DEF SlotsOK

\* Calls that end give back the slots they hold, and keep their registration.
LEMMA EndCallsFacts ==
  ASSUME TunnelInv, NEW K \in SUBSET Calls, NEW how \in {"error", "result"}, EndCalls(K, how),
         \A c \in Conns : conn[c].server \in {"open", "closing"} =>
            conn'[c].server \in {"open", "closing"} \/ \A k \in Calls : call[k].via = c /\ call[k].unsettled => k \in K
  PROVE  /\ call' \in [Calls -> CallRecord] /\ inFlight' \in Nat /\ SlotsOK'
         /\ \A k \in Calls : CallOK(call[k])'
         /\ \A k \in Calls : call'[k].via = call[k].via /\ (call'[k].state = call[k].state \/ (k \in K /\ call[k].state = "open"))
<1>1. call \in [Calls -> CallRecord] /\ inFlight \in Nat /\ inFlight = Cardinality({k \in Calls : call[k].busy})
  BY DEF TunnelInv, TunnelTypeOK, SlotsOK
<1>2. ASSUME NEW k \in K
      PROVE  LET x == [call[k] EXCEPT !.state = IF @ = "open" THEN how ELSE @, !.busy = FALSE,
                                      !.unsettled = @ /\ call[k].via = Direct]
             IN  /\ x \in CallRecord /\ x.via = call[k].via /\ x.busy = FALSE
                 /\ x.state = IF call[k].state = "open" THEN how ELSE call[k].state
                 /\ x.unsettled => call[k].unsettled
  BY <1>1 DEF CallRecord
<1>3. ASSUME NEW k \in Calls
      PROVE  /\ call'[k] \in CallRecord /\ call'[k].via = call[k].via
             /\ k \notin K => call'[k] = call[k]
             /\ k \in K => /\ ~call'[k].busy /\ (call'[k].unsettled => call[k].unsettled)
                           /\ call'[k].state = IF call[k].state = "open" THEN how ELSE call[k].state
  BY <1>1, <1>2 DEF EndCalls
<1>4. call' \in [Calls -> CallRecord]
  BY <1>3 DEF EndCalls
<1>5. ASSUME NEW k \in Calls PROVE CallOK(call[k])'
  <2>1. CallOK(call[k]) /\ call[k] \in CallRecord
    BY <1>1 DEF TunnelInv
  <2>2. CASE k \in K
    BY <1>3, <2>1, <2>2 DEF CallOK
  <2>3. CASE k \notin K
    <3>1. call'[k] = call[k]
      BY <1>3, <2>3
    <3>2. call[k].state = "open" /\ call[k].via # Direct => conn'[call[k].via].server \in {"open", "closing"}
      <4>1. SUFFICES ASSUME call[k].state = "open", call[k].via # Direct
                     PROVE  conn'[call[k].via].server \in {"open", "closing"}
        OBVIOUS
      <4>2. call[k].via \in Conns /\ call[k].unsettled /\ conn[call[k].via].server \in {"open", "closing"}
        BY <2>1, <4>1 DEF CallOK, CallRecord, Registrations
      <4>3. QED
        BY <2>3, <4>2
    <3>3. QED
      BY <2>1, <3>1, <3>2 DEF CallOK
  <2>4. QED
    BY <2>2, <2>3
<1>6. inFlight' \in Nat /\ SlotsOK'
  <2>1. \A k \in Calls : call'[k].busy <=> call[k].busy /\ k \notin K
    BY <1>3
  <2>2. QED
    BY <2>1, SlotsGiven DEF EndCalls
<1>7. \A k \in Calls : call'[k].via = call[k].via /\ (call'[k].state = call[k].state \/ (k \in K /\ call[k].state = "open"))
  BY <1>3
<1>8. QED
  BY <1>4, <1>5, <1>6, <1>7

\* A frame sent over one connection leaves what is known of the frames before it.
LEMMA FramesSent ==
  ASSUME TunnelInv, NEW c \in Conns, NEW q \in Seq(DownFrame), down' = [down EXCEPT ![c] = @ \o q],
         UNCHANGED handler, ConnsGoOn,
         \A k \in Calls : call'[k].via = call[k].via,
         \A k \in Calls : Ended(k)' => Ended(k) \/ (/\ call[k].via \in Conns
                                                    /\ \/ call[k].via = c /\ \E i \in DOMAIN q : q[i] = <<"cancel", k>>
                                                       \/ conn'[call[k].via].ends # "no"),
         \A i \in DOMAIN q : \E k \in Calls : call[k].via = c /\ q[i] = <<"cancel", k>>
  PROVE  down' \in [Conns -> Seq(DownFrame)] /\ FramesOK' /\ HandlersOK'
<1>1. down \in [Conns -> Seq(DownFrame)] /\ down[c] \in Seq(DownFrame)
  BY DEF TunnelInv, TunnelTypeOK
<1> DEFINE n == Len(down[c])
<1>2. /\ down' \in [Conns -> Seq(DownFrame)] /\ n \in Nat /\ Len(q) \in Nat /\ Len(down'[c]) = n + Len(q)
      /\ \A d \in Conns \ {c} : down'[d] = down[d]
      /\ \A i \in 1..n : down'[c][i] = down[c][i]
      /\ \A i \in 1..Len(q) : down'[c][n + i] = q[i]
      /\ \A i \in (n + 1)..(n + Len(q)) : i - n \in DOMAIN q /\ down'[c][i] = q[i - n]
      /\ DOMAIN down[c] = 1..n /\ DOMAIN down'[c] = 1..(n + Len(q))
  BY <1>1
<1> HIDE DEF n
<1>3. ASSUME NEW k \in Calls, NEW d \in Conns, NEW i \in Nat, call[k].via = d, d = c => i <= n,
             Ended(k) => CancelAfter(d, k, i) \/ conn[d].ends # "no"
      PROVE  (Ended(k) => CancelAfter(d, k, i) \/ conn[d].ends # "no")'
  <2>1. SUFFICES ASSUME Ended(k)' PROVE CancelAfter(d, k, i)' \/ conn'[d].ends # "no"
    OBVIOUS
  <2>2. CancelAfter(d, k, i) => CancelAfter(d, k, i)'
    BY <1>2 DEF CancelAfter
  <2>3. ASSUME d = c, NEW j \in DOMAIN q, q[j] = <<"cancel", k>> PROVE CancelAfter(d, k, i)'
    <3>1. n + j \in DOMAIN down'[c] /\ n + j > i /\ down'[c][n + j] = <<"cancel", k>>
      BY <1>2, <1>3, <2>3
    <3>2. QED
      BY <2>3, <3>1 DEF CancelAfter
  <2>4. QED
    BY <1>3, <2>1, <2>2, <2>3 DEF ConnsGoOn
<1>4. ASSUME NEW d \in Conns, NEW i \in DOMAIN down'[d], NEW k \in Calls PROVE FrameOK(d, i, k)'
  <2>1. CASE d # c \/ i \in 1..n
    <3>1. i \in DOMAIN down[d] /\ down'[d][i] = down[d][i] /\ i \in Nat /\ (d = c => i <= n)
      BY <1>1, <1>2, <2>1
    <3>2. FrameOK(d, i, k)
      BY <3>1 DEF TunnelInv, FramesOK
    <3>3. \A j \in DOMAIN down'[d] : (j \in DOMAIN down[d] /\ down'[d][j] = down[d][j]) \/ \E m \in Calls : down'[d][j] = <<"cancel", m>>
      BY <1>2
    <3>4. down[d][i] = <<"call", k>> => (Ended(k) => CancelAfter(d, k, i) \/ conn[d].ends # "no")'
      BY <1>3, <3>1, <3>2 DEF FrameOK
    <3>5. down'[d][i] \in {<<"call", k>>, <<"cancel", k>>} => call'[k].via = d
      BY <3>1, <3>2 DEF FrameOK
    <3>6. ASSUME down'[d][i] = <<"call", k>>
          PROVE  handler'[k] = "none" /\ \A j \in DOMAIN down'[d] : down'[d][j] = <<"call", k>> => j = i
      BY <3>1, <3>2, <3>3, <3>6 DEF FrameOK
    <3>7. QED
      BY <3>1, <3>4, <3>5, <3>6 DEF FrameOK
  <2>2. CASE d = c /\ i \notin 1..n
    <3>1. i \in (n + 1)..(n + Len(q))
      BY <1>2, <2>2
    <3>2. \E m \in Calls : call[m].via = c /\ down'[c][i] = <<"cancel", m>>
      BY <1>2, <3>1
    <3>3. QED
      BY <2>2, <3>2 DEF FrameOK
  <2>3. QED
    BY <2>1, <2>2
<1>5. ASSUME NEW k \in Calls PROVE HandlerOK(k)'
  <2>1. HandlerOK(k)
    BY DEF TunnelInv, HandlersOK
  <2>2. handler[k] = "running" => (Ended(k) => CancelAfter(call[k].via, k, 0) \/ conn[call[k].via].ends # "no")'
    <3>1. SUFFICES ASSUME handler[k] = "running"
                   PROVE  (Ended(k) => CancelAfter(call[k].via, k, 0) \/ conn[call[k].via].ends # "no")'
      OBVIOUS
    <3>2. PICK d \in Conns : call[k].via = d
      BY <2>1, <3>1 DEF HandlerOK
    <3>3. (Ended(k) => CancelAfter(d, k, 0) \/ conn[d].ends # "no")'
      BY <1>2, <1>3, <2>1, <3>1, <3>2 DEF HandlerOK
    <3>4. QED
      BY <3>2, <3>3
  <2>3. QED
    BY <2>1, <2>2 DEF HandlerOK
<1>6. QED
  BY <1>2, <1>4, <1>5 DEF FramesOK, HandlersOK

\* The authorizer accepts: the socket is registered unless it is closed by then.
LEMMA HelloAcceptedInv == ASSUME TunnelInv, NEW c \in Conns, HelloAccepted(c) PROVE TunnelInv'
<1>1. conn \in [Conns -> Conn] /\ conn[c] \in Conn /\ ConnOK(conn[c]) /\ conn[c].hello = "asking"
  BY DEF TunnelInv, TunnelTypeOK, HelloAccepted
<1>2. UNCHANGED <<inFlight, call, up, down, client, handler>> /\ up \in [Conns -> Seq(UpFrame)]
  BY DEF HelloAccepted, TunnelInv, TunnelTypeOK
<1>3. CASE conn[c].server = "closed"
  <2> DEFINE x == [conn[c] EXCEPT !.hello = "no"]
  <2>1. /\ x \in Conn /\ ConnOK(x) /\ x.client = conn[c].client /\ x.by = conn[c].by /\ x.ends = conn[c].ends
        /\ x.server = conn[c].server /\ x.hello = "no"
    BY <1>1 DEF Conn, ConnOK
  <2>2. conn' = [conn EXCEPT ![c] = x] /\ UNCHANGED <<agent, latest>>
    BY <1>3 DEF HelloAccepted
  <2> HIDE DEF x
  <2>3. QED
    BY <1>1, <1>2, <2>1, <2>2, ConnChange
<1>4. CASE conn[c].server # "closed"
  <2> DEFINE x == [conn[c] EXCEPT !.hello = "registered"]
  <2>1. /\ x \in Conn /\ ConnOK(x) /\ x.client = conn[c].client /\ x.by = conn[c].by /\ x.ends = conn[c].ends
        /\ x.server = conn[c].server /\ x.hello = "registered" /\ x.server \notin {"none", "closed"}
    BY <1>1, <1>4 DEF Conn, ConnOK
  <2>2. conn' = [conn EXCEPT ![c] = x] /\ agent' = c /\ latest' = c
    BY <1>4 DEF HelloAccepted
  <2> HIDE DEF x
  <2>3. /\ conn' \in [Conns -> Conn] /\ conn'[c] = x
        /\ \A d \in Conns : /\ conn'[d].server = conn[d].server /\ conn'[d].client = conn[d].client
                            /\ conn'[d].by = conn[d].by /\ conn'[d].ends = conn[d].ends /\ ConnOK(conn'[d])
    BY <1>1, <2>1, <2>2 DEF TunnelInv
  <2>4. ConnsGoOn
    BY <2>3 DEF ConnsGoOn
  <2>5. TunnelTypeOK'
    BY <1>2, <2>2, <2>3 DEF TunnelInv, TunnelTypeOK, Registrations
  <2>6. LatestOK' /\ HoldsLatest'
    BY <2>1, <2>2, <2>3 DEF LatestOK, HoldsLatest
  <2>7. FramesOK' /\ HandlersOK'
    BY <1>2, <2>4, FramesLost DEF Ended
  <2>8. SlotsOK' /\ OpenedInOrder' /\ Dialling' /\ NeverStranded' /\ ResultsOK' /\ \A k \in Calls : CallOK(call[k])'
    <3>1. SlotsOK'
      BY <1>2 DEF TunnelInv, SlotsOK
    <3>2. OpenedInOrder'
      BY <2>3, OpenedStays
    <3>3. Dialling' /\ NeverStranded'
      BY <1>2, <2>3, ClientWaits
    <3>4. ResultsOK'
      BY <1>2, ResultsStay
    <3>5. \A k \in Calls : CallOK(call[k])'
      BY <1>2, <2>3, CallsOnConns
    <3>6. QED
      BY <3>1, <3>2, <3>3, <3>4, <3>5
  <2>9. QED
    BY <2>3, <2>5, <2>6, <2>7, <2>8 DEF TunnelInv
<1>5. QED
  BY <1>3, <1>4

\* A step of the relay that leaves the connections and their frames from the agents alone.
LEMMA RelayStep ==
  ASSUME TunnelInv, UNCHANGED <<conn, up, client, handler>>,
         call' \in [Calls -> CallRecord], inFlight' \in Nat, SlotsOK', \A k \in Calls : CallOK(call[k])',
         down' \in [Conns -> Seq(DownFrame)], FramesOK', HandlersOK',
         \/ UNCHANGED <<agent, latest>>
         \/ agent' = latest' /\ latest' \in {None, Direct}
  PROVE  TunnelInv'
<1>1. TunnelTypeOK'
  BY DEF TunnelInv, TunnelTypeOK, Registrations
<1>2. LatestOK' /\ HoldsLatest'
  BY TunnelAssumption DEF TunnelInv, LatestOK, HoldsLatest
<1>3. OpenedInOrder' /\ Dialling' /\ NeverStranded' /\ ResultsOK'
  BY OpenedStays, ClientWaits, ResultsStay
<1>4. QED
  BY <1>1, <1>2, <1>3 DEF TunnelInv

\* Connections left alone.
LEMMA ConnsAsBefore == ASSUME TunnelInv, UNCHANGED conn PROVE ConnsGoOn
BY DEF TunnelInv, TunnelTypeOK, ConnsGoOn

\* An agent in process takes the registration over; calls under way stay with theirs.
LEMMA RegisterDirectInv == ASSUME TunnelInv, RegisterDirect PROVE TunnelInv'
<1>1. UNCHANGED <<inFlight, call, conn, up, down, client, handler>> /\ agent' = Direct /\ latest' = Direct
  BY DEF RegisterDirect
<1>2. FramesOK' /\ HandlersOK'
  BY <1>1, FramesLost, ConnsAsBefore DEF Ended
<1>3. SlotsOK' /\ \A k \in Calls : CallOK(call[k])'
  BY <1>1, CallsOnConns DEF TunnelInv, SlotsOK
<1>4. QED
  BY <1>1, <1>2, <1>3, RelayStep DEF TunnelInv, TunnelTypeOK

\* Calls of one registration that the relay ends: their cancellations go out, or its connection comes down.
LEMMA RelayEnds ==
  ASSUME TunnelInv, NEW r \in Conns \cup {Direct}, NEW K \in SUBSET Calls, NEW how \in {"error", "result"}, EndCalls(K, how),
         UNCHANGED <<conn, up, client, handler>>,
         \A k \in K : call[k].via = r /\ call[k].busy,
         down' = IF r \in Conns THEN [down EXCEPT ![r] = @ \o Cancellations(r, K)] ELSE down,
         \/ UNCHANGED <<agent, latest>>
         \/ agent' = latest' /\ latest' \in {None, Direct}
  PROVE  TunnelInv'
<1>1. /\ call' \in [Calls -> CallRecord] /\ inFlight' \in Nat /\ SlotsOK' /\ \A k \in Calls : CallOK(call[k])'
      /\ \A k \in Calls : call'[k].via = call[k].via /\ (call'[k].state = call[k].state \/ (k \in K /\ call[k].state = "open"))
  BY EndCallsFacts
<1>2. ConnsGoOn
  BY ConnsAsBefore
<1>3. \A k \in Calls : Ended(k)' => Ended(k) \/ (k \in K /\ call[k].state = "open")
  BY <1>1 DEF Ended
<1>4. down' \in [Conns -> Seq(DownFrame)] /\ FramesOK' /\ HandlersOK'
  <2>1. CASE r \in Conns
    <3> DEFINE q == Cancellations(r, K)
    <3>1. /\ q \in Seq(DownFrame)
          /\ \A i \in DOMAIN q : \E k \in K : q[i] = <<"cancel", k>>
          /\ conn[r].server = "open" => \A k \in K : \E i \in DOMAIN q : q[i] = <<"cancel", k>>
      BY <2>1, CancellationsFacts
    <3> HIDE DEF q
    <3>2. down' = [down EXCEPT ![r] = @ \o q]
      BY <2>1 DEF q
    <3>3. ASSUME NEW k \in K, call[k].state = "open", conn[r].server # "open" PROVE conn'[r].ends # "no"
      <4>1. conn[r].server = "closing"
        BY <2>1, <3>3, TunnelAssumption DEF TunnelInv, CallOK
      <4>2. QED
        BY <2>1, <4>1 DEF TunnelInv, ConnOK
    <3>4. \A k \in Calls : Ended(k)' => Ended(k) \/ (/\ call[k].via \in Conns
                                                     /\ \/ call[k].via = r /\ \E i \in DOMAIN q : q[i] = <<"cancel", k>>
                                                        \/ conn'[call[k].via].ends # "no")
      BY <1>3, <2>1, <3>1, <3>3
    <3>5. \A i \in DOMAIN q : \E k \in Calls : call[k].via = r /\ q[i] = <<"cancel", k>>
      BY <3>1
    <3>6. \A k \in Calls : call'[k].via = call[k].via
      BY <1>1
    <3>7. QED
      BY <1>2, <2>1, <3>1, <3>2, <3>4, <3>5, <3>6, FramesSent
  <2>2. CASE r = Direct
    <3>1. down' = down /\ \A k \in K : call[k].via \notin Conns
      BY <2>2, TunnelAssumption
    <3>2. FramesOK' /\ HandlersOK'
      BY <1>1, <1>2, <1>3, <3>1, FramesLost
    <3>3. QED
      BY <3>1, <3>2 DEF TunnelInv, TunnelTypeOK
  <2>3. QED
    BY <2>1, <2>2
<1>5. QED
  BY <1>1, <1>4, RelayStep

\* The host removes the registration: its calls end, and their work is cancelled.
LEMMA UnregisterInv == ASSUME TunnelInv, UnregisterByHost PROVE TunnelInv'
<1>1. agent \in Conns \cup {Direct} /\ PendingOf(agent) \in SUBSET Calls
  BY DEF UnregisterByHost, TunnelInv, TunnelTypeOK, Registrations, PendingOf
<1>2. \A k \in PendingOf(agent) : call[k].via = agent /\ call[k].busy
  BY DEF PendingOf
<1>3. /\ EndCalls(PendingOf(agent), "error") /\ agent' = latest' /\ latest' = None /\ UNCHANGED <<conn, up, client, handler>>
      /\ down' = IF agent \in Conns THEN [down EXCEPT ![agent] = @ \o Cancellations(agent, PendingOf(agent))] ELSE down
  BY DEF UnregisterByHost
<1>4. QED
  BY <1>1, <1>2, <1>3, RelayEnds

\* A timeout: cancelled over a socket, left to settle with a direct agent.
LEMMA RequestTimeoutInv == ASSUME TunnelInv, NEW k \in Calls, RequestTimeout(k) PROVE TunnelInv'
<1>1. /\ call[k].state = "open" /\ UNCHANGED <<agent, conn, up, client, handler, latest>>
      /\ call \in [Calls -> CallRecord] /\ call[k] \in CallRecord /\ CallOK(call[k])
  BY DEF RequestTimeout, TunnelInv, TunnelTypeOK
<1>2. CASE call[k].via = Direct
  <2>1. call' = [call EXCEPT ![k].state = "error"] /\ UNCHANGED <<inFlight, down>>
    BY <1>2 DEF RequestTimeout
  <2>2. /\ call' \in [Calls -> CallRecord] /\ call'[k].state = "error"
        /\ \A m \in Calls : /\ call'[m].via = call[m].via /\ call'[m].busy = call[m].busy /\ call'[m].unsettled = call[m].unsettled
                            /\ m # k => call'[m] = call[m]
    BY <1>1, <2>1 DEF CallRecord
  <2>3. ASSUME NEW m \in Calls PROVE CallOK(call[m])'
    <3>1. CallOK(call[m])
      BY DEF TunnelInv
    <3>2. CASE m = k
      BY <1>1, <1>2, <2>2, <3>1, <3>2, TunnelAssumption DEF CallOK
    <3>3. CASE m # k
      BY <1>1, <2>2, <3>1, <3>3 DEF CallOK
    <3>4. QED
      BY <3>2, <3>3
  <2>4. SlotsOK'
    <3>1. {m \in Calls : call'[m].busy} = {m \in Calls : call[m].busy}
      BY <2>2
    <3>2. QED
      BY <2>1, <3>1 DEF TunnelInv, SlotsOK
  <2>5. FramesOK' /\ HandlersOK'
    <3>1. \A m \in Calls : Ended(m)' => Ended(m) \/ call[m].via \notin Conns
      BY <1>2, <2>2, TunnelAssumption DEF Ended
    <3>2. QED
      BY <1>1, <2>1, <2>2, <3>1, FramesLost, ConnsAsBefore
  <2>6. QED
    BY <1>1, <2>1, <2>2, <2>3, <2>4, <2>5, RelayStep DEF TunnelInv, TunnelTypeOK
<1>3. CASE call[k].via # Direct
  <2>1. call[k].via \in Conns /\ call[k].busy
    BY <1>1, <1>3 DEF CallOK, CallRecord, Registrations
  <2>2. EndCalls({k}, "error") /\ down' = [down EXCEPT ![call[k].via] = @ \o Cancellations(call[k].via, {k})]
    BY <1>3 DEF RequestTimeout
  <2>3. {k} \in SUBSET Calls /\ \A m \in {k} : call[m].via = call[k].via /\ call[m].busy
    BY <2>1
  <2>4. down' = IF call[k].via \in Conns THEN [down EXCEPT ![call[k].via] = @ \o Cancellations(call[k].via, {k})] ELSE down
    BY <2>1, <2>2
  <2>5. call[k].via \in Conns \cup {Direct}
    BY <2>1
  <2>6. QED
    BY <1>1, <2>2, <2>3, <2>4, <2>5, RelayEnds
<1>4. QED
  BY <1>2, <1>3

\* A direct agent settles, late or not: the slot is given back once.
LEMMA DirectSettlesInv == ASSUME TunnelInv, NEW k \in Calls, DirectSettles(k) PROVE TunnelInv'
<1>1. /\ call[k].via = Direct /\ call[k].unsettled /\ UNCHANGED <<agent, conn, up, down, client, handler, latest>>
      /\ call \in [Calls -> CallRecord] /\ call[k] \in CallRecord /\ CallOK(call[k])
      /\ inFlight' = inFlight - Slots({k})
  BY DEF DirectSettles, TunnelInv, TunnelTypeOK
<1> DEFINE x == [call[k] EXCEPT !.state = IF @ = "open" THEN "result" ELSE @, !.busy = FALSE, !.unsettled = FALSE]
<1>2. /\ x \in CallRecord /\ x.via = call[k].via /\ ~x.busy /\ ~x.unsettled
      /\ x.state = IF call[k].state = "open" THEN "result" ELSE call[k].state
  BY <1>1 DEF CallRecord
<1>3. call' = [call EXCEPT ![k] = x]
  BY DEF DirectSettles
<1> HIDE DEF x
<1>4. /\ call' \in [Calls -> CallRecord] /\ call'[k] = x /\ \A m \in Calls : m # k => call'[m] = call[m]
  BY <1>1, <1>2, <1>3
<1>5. inFlight' \in Nat /\ SlotsOK'
  <2>1. \A m \in Calls : call'[m].busy <=> call[m].busy /\ m \notin {k}
    BY <1>2, <1>4
  <2>2. QED
    BY <1>1, <2>1, SlotsGiven
<1>6. ASSUME NEW m \in Calls PROVE CallOK(call[m])'
  <2>1. CallOK(call[m])
    BY DEF TunnelInv
  <2>2. CASE m = k
    BY <1>1, <1>2, <1>4, <2>1, <2>2, TunnelAssumption DEF CallOK
  <2>3. CASE m # k
    BY <1>1, <1>4, <2>1, <2>3 DEF CallOK
  <2>4. QED
    BY <2>2, <2>3
<1>7. FramesOK' /\ HandlersOK'
  <2>1. \A m \in Calls : call'[m].via = call[m].via /\ (Ended(m)' => Ended(m) \/ call[m].via \notin Conns)
    BY <1>1, <1>2, <1>4, TunnelAssumption DEF Ended
  <2>2. QED
    BY <1>1, <2>1, FramesLost, ConnsAsBefore
<1>8. QED
  BY <1>1, <1>4, <1>5, <1>6, <1>7, RelayStep DEF TunnelInv, TunnelTypeOK

\* A call is admitted or refused; its frame is the last on its connection.
LEMMA CallToolInv == ASSUME TunnelInv, NEW k \in Calls, CallTool(k) PROVE TunnelInv'
<1>1. /\ call[k].state = "new" /\ UNCHANGED <<agent, conn, up, client, handler, latest>>
      /\ call \in [Calls -> CallRecord] /\ call[k] \in CallRecord /\ CallOK(call[k])
      /\ down \in [Conns -> Seq(DownFrame)] /\ inFlight \in Nat
  BY DEF CallTool, TunnelInv, TunnelTypeOK
<1>2. call[k].via = None /\ ~call[k].busy /\ ~call[k].unsettled /\ None \notin Conns /\ None # Direct
  BY <1>1, TunnelAssumption DEF CallOK
<1>3. ConnsGoOn
  BY <1>1, ConnsAsBefore
<1>4. ASSUME call' = [call EXCEPT ![k].state = "error"], UNCHANGED <<inFlight, down>>
      PROVE  TunnelInv'
  <2>1. /\ call' \in [Calls -> CallRecord] /\ call'[k].state = "error" /\ call'[k].via = None
        /\ ~call'[k].busy /\ ~call'[k].unsettled /\ \A m \in Calls : m # k => call'[m] = call[m]
    BY <1>1, <1>2, <1>4 DEF CallRecord
  <2>2. ASSUME NEW m \in Calls PROVE CallOK(call[m])'
    <3>1. CallOK(call[m])
      BY DEF TunnelInv
    <3>2. CASE m = k
      BY <2>1, <3>2 DEF CallOK
    <3>3. CASE m # k
      BY <1>1, <2>1, <3>1, <3>3 DEF CallOK
    <3>4. QED
      BY <3>2, <3>3
  <2>3. SlotsOK'
    <3>1. {m \in Calls : call'[m].busy} = {m \in Calls : call[m].busy}
      BY <1>2, <2>1
    <3>2. QED
      BY <1>4, <3>1 DEF TunnelInv, SlotsOK
  <2>4. FramesOK' /\ HandlersOK'
    <3>1. \A m \in Calls : call'[m].via = call[m].via /\ (Ended(m)' => Ended(m) \/ call[m].via \notin Conns)
      BY <1>2, <2>1 DEF Ended
    <3>2. QED
      BY <1>1, <1>3, <1>4, <3>1, FramesLost
  <2>5. QED
    BY <1>1, <1>4, <2>1, <2>2, <2>3, <2>4, RelayStep
<1>5. ASSUME agent # None, Strategy = "reject" => inFlight = 0,
             call' = [call EXCEPT ![k] = [state |-> "open", via |-> agent, busy |-> TRUE, unsettled |-> TRUE]],
             inFlight' = inFlight + 1, down' = FrameSent(k)
      PROVE  TunnelInv'
  <2> DEFINE x == [state |-> "open", via |-> agent, busy |-> TRUE, unsettled |-> TRUE]
  <2>1. x \in CallRecord /\ x.state = "open" /\ x.via = agent /\ x.busy /\ x.unsettled
    BY DEF CallRecord, TunnelInv, TunnelTypeOK
  <2> HIDE DEF x
  <2>2. call' \in [Calls -> CallRecord] /\ call'[k] = x /\ \A m \in Calls : m # k => call'[m] = call[m]
    BY <1>1, <1>5, <2>1 DEF x
  <2>3. agent \in Conns => conn[agent].server \in {"open", "closing"}
    BY <1>2 DEF TunnelInv, HoldsLatest, LatestOK, TunnelTypeOK, Conn
  <2>4. ASSUME NEW m \in Calls PROVE CallOK(call[m])'
    <3>1. CallOK(call[m])
      BY DEF TunnelInv
    <3>2. CASE m = k
      <4>1. agent # Direct => agent \in Conns
        BY <1>5 DEF TunnelInv, TunnelTypeOK, Registrations
      <4>2. QED
        BY <1>1, <1>5, <2>1, <2>2, <2>3, <3>2, <4>1 DEF CallOK
    <3>3. CASE m # k
      BY <1>1, <2>2, <3>1, <3>3 DEF CallOK
    <3>4. QED
      BY <3>2, <3>3
  <2>5. SlotsOK' /\ inFlight' \in Nat
    <3> DEFINE held == {m \in Calls : call[m].busy}
    <3>1. {m \in Calls : call'[m].busy} = held \cup {k}
      BY <2>1, <2>2
    <3>2. IsFiniteSet(held) /\ k \notin held /\ Cardinality(held) = inFlight
      BY <1>2, TunnelAssumption, FS_Subset DEF TunnelInv, SlotsOK
    <3>3. Cardinality(held \cup {k}) = inFlight + 1
      BY <3>2, FS_AddElement
    <3> HIDE DEF held
    <3>4. inFlight' = inFlight + 1 /\ inFlight' \in Nat /\ (Strategy = "reject" => inFlight' <= 1)
      BY <1>1, <1>5
    <3>5. inFlight' = Cardinality({m \in Calls : call'[m].busy})
      BY <3>1, <3>3, <3>4
    <3>6. QED
      BY <3>4, <3>5 DEF SlotsOK
  <2>6. \A c \in Conns : \A i \in DOMAIN down[c] : down[c][i] # <<"call", k>> /\ down[c][i] # <<"cancel", k>>
    BY <1>2 DEF TunnelInv, FramesOK, FrameOK
  <2>7. \A m \in Calls : Ended(m)' => Ended(m) /\ m # k
    BY <2>1, <2>2 DEF Ended
  <2>8. handler[k] = "none"
    BY <1>2 DEF TunnelInv, HandlersOK, HandlerOK, TunnelTypeOK
  <2>9. /\ down' \in [Conns -> Seq(DownFrame)]
        /\ \A c \in Conns :
             /\ DOMAIN down[c] \subseteq DOMAIN down'[c] /\ \A i \in DOMAIN down[c] : down'[c][i] = down[c][i]
             /\ \A i \in DOMAIN down'[c] \ DOMAIN down[c] :
                   c = agent /\ down'[c][i] = <<"call", k>> /\ \A j \in DOMAIN down'[c] \ DOMAIN down[c] : j = i
    <3>1. CASE agent \in Conns /\ conn[agent].server = "open"
      <4>1. down' = [down EXCEPT ![agent] = Append(@, <<"call", k>>)]
        BY <1>5, <3>1 DEF FrameSent
      <4>2. <<"call", k>> \in DownFrame
        BY DEF DownFrame
      <4>3. down[agent] \in Seq(DownFrame)
        BY <1>1, <3>1
      <4>4. down'[agent] = Append(down[agent], <<"call", k>>) /\ \A c \in Conns : c # agent => down'[c] = down[c]
        BY <1>1, <3>1, <4>1
      <4>5. Append(down[agent], <<"call", k>>) \in Seq(DownFrame)
        BY <4>2, <4>3
      <4>6. down' \in [Conns -> Seq(DownFrame)]
        BY <1>1, <4>1, <4>5
      <4>7. /\ DOMAIN down[agent] = 1..Len(down[agent]) /\ DOMAIN down'[agent] = 1..(Len(down[agent]) + 1)
            /\ \A i \in 1..Len(down[agent]) : down'[agent][i] = down[agent][i]
            /\ down'[agent][Len(down[agent]) + 1] = <<"call", k>>
        BY <4>3, <4>4
      <4>8. \A i \in DOMAIN down'[agent] \ DOMAIN down[agent] : i = Len(down[agent]) + 1
        BY <4>3, <4>7
      <4>9. \A c \in Conns : c # agent => DOMAIN down'[c] \ DOMAIN down[c] = {}
        BY <4>4
      <4>10. DOMAIN down[agent] \subseteq DOMAIN down'[agent]
        BY <4>3, <4>7
      <4>11. ASSUME NEW c \in Conns
             PROVE  /\ DOMAIN down[c] \subseteq DOMAIN down'[c] /\ \A i \in DOMAIN down[c] : down'[c][i] = down[c][i]
                    /\ \A i \in DOMAIN down'[c] \ DOMAIN down[c] :
                         c = agent /\ down'[c][i] = <<"call", k>> /\ \A j \in DOMAIN down'[c] \ DOMAIN down[c] : j = i
        <5>1. CASE c = agent
          BY <4>7, <4>8, <4>10, <5>1
        <5>2. CASE c # agent
          BY <4>4, <4>9, <5>2
        <5>3. QED
          BY <5>1, <5>2
      <4>12. QED
        BY <4>6, <4>11
    <3>2. CASE ~(agent \in Conns /\ conn[agent].server = "open")
      BY <1>1, <1>5, <3>2 DEF FrameSent
    <3>3. QED
      BY <3>1, <3>2
  <2>10. \A c \in Conns : \A m \in Calls : \A i \in Nat : CancelAfter(c, m, i) => CancelAfter(c, m, i)'
    BY <2>9 DEF CancelAfter
  <2>11. ASSUME NEW c \in Conns, NEW i \in DOMAIN down'[c], NEW m \in Calls PROVE FrameOK(c, i, m)'
    <3>1. CASE m = k
      <4>1. down'[c][i] \in {<<"call", m>>, <<"cancel", m>>} => i \in DOMAIN down'[c] \ DOMAIN down[c]
        BY <2>6, <2>9, <3>1
      <4>2. down'[c][i] \in {<<"call", m>>, <<"cancel", m>>} => call'[m].via = c
        BY <2>1, <2>2, <2>9, <3>1, <4>1
      <4>3. \A j \in DOMAIN down'[c] : down'[c][j] = <<"call", m>> => j \in DOMAIN down'[c] \ DOMAIN down[c]
        BY <2>6, <2>9, <3>1
      <4>4. QED
        BY <1>1, <2>7, <2>8, <2>9, <3>1, <4>1, <4>2, <4>3 DEF FrameOK
    <3>2. CASE m # k
      <4>1. i \in DOMAIN down[c] \/ down'[c][i] = <<"call", k>>
        BY <2>9
      <4>2. CASE i \in DOMAIN down[c]
        <5>1. FrameOK(c, i, m) /\ down'[c][i] = down[c][i] /\ i \in Nat
          BY <1>1, <2>9, <4>2 DEF TunnelInv, FramesOK
        <5>2. \A j \in DOMAIN down'[c] : down'[c][j] = <<"call", m>> => j \in DOMAIN down[c] /\ down[c][j] = <<"call", m>>
          BY <2>9, <3>2
        <5>3. QED
          BY <1>1, <1>3, <2>2, <2>7, <2>10, <3>2, <5>1, <5>2 DEF FrameOK, ConnsGoOn
      <4>3. CASE down'[c][i] = <<"call", k>>
        BY <3>2, <4>3 DEF FrameOK
      <4>4. QED
        BY <4>1, <4>2, <4>3
    <3>3. QED
      BY <3>1, <3>2
  <2>12. ASSUME NEW m \in Calls PROVE HandlerOK(m)'
    <3>1. HandlerOK(m)
      BY DEF TunnelInv, HandlersOK
    <3>2. CASE m = k
      BY <1>1, <2>7, <2>8, <3>2 DEF HandlerOK
    <3>3. CASE m # k
      BY <1>1, <2>2, <2>7, <2>10, <3>1, <3>3 DEF HandlerOK
    <3>4. QED
      BY <3>2, <3>3
  <2>13. QED
    BY <1>1, <2>2, <2>4, <2>5, <2>9, <2>11, <2>12, RelayStep DEF FramesOK, HandlersOK
<1>6. CASE agent = None \/ (Strategy = "reject" /\ inFlight > 0)
  BY <1>4, <1>6 DEF CallTool
<1>7. CASE ~(agent = None \/ (Strategy = "reject" /\ inFlight > 0))
  <2>1. agent # None /\ (Strategy = "reject" => inFlight = 0)
    BY <1>1, <1>7
  <2>2. CASE call' = [call EXCEPT ![k] = [@ EXCEPT !.state = "error"]] /\ UNCHANGED <<inFlight, down>>
    BY <1>4, <2>2
  <2>3. QED
    BY <1>5, <1>7, <2>1, <2>2 DEF CallTool
<1>8. QED
  BY <1>6, <1>7

\* An answer settles its waiter on this socket, whose handler is over.
LEMMA ServerResultInv == ASSUME TunnelInv, NEW c \in Conns, ServerResult(c) PROVE TunnelInv'
<1> DEFINE k == Head(up[c])[2]
           K == IF k \in WaitersOf(c) THEN {k} ELSE {}
<1>1. /\ up[c] # << >> /\ Head(up[c])[1] = "result" /\ up' = [up EXCEPT ![c] = Tail(@)]
      /\ EndCalls(K, "result") /\ UNCHANGED <<agent, conn, down, client, handler, latest>>
      /\ up \in [Conns -> Seq(UpFrame)] /\ up[c] \in Seq(UpFrame)
  BY DEF ServerResult, Receives, TunnelInv, TunnelTypeOK
<1>2. k \in Calls /\ Head(up[c]) = <<"result", k>> /\ 1 \in DOMAIN up[c] /\ up[c][1] = Head(up[c])
  BY <1>1 DEF UpFrame
<1>3. handler[k] = "over"
  BY <1>2 DEF TunnelInv, ResultsOK
<1>4. K \in SUBSET Calls /\ \A m \in K : m = k
  BY <1>2
<1> HIDE DEF k, K
<1>5. /\ call' \in [Calls -> CallRecord] /\ inFlight' \in Nat /\ SlotsOK' /\ \A m \in Calls : CallOK(call[m])'
      /\ \A m \in Calls : call'[m].via = call[m].via /\ (call'[m].state = call[m].state \/ (m \in K /\ call[m].state = "open"))
  BY <1>1, <1>4, EndCallsFacts
<1>6. /\ up' \in [Conns -> Seq(UpFrame)]
      /\ \A d \in Conns : \A i \in DOMAIN up'[d] : \E j \in DOMAIN up[d] : up'[d][i] = up[d][j]
  BY <1>1, TailOfUp
<1>7. FramesOK' /\ HandlersOK'
  <2>1. \A m \in Calls : call'[m].via = call[m].via /\ (Ended(m)' => Ended(m) \/ handler[m] = "over")
    BY <1>3, <1>4, <1>5 DEF Ended
  <2>2. QED
    BY <1>1, <2>1, FramesLost, ConnsAsBefore
<1>8. TunnelTypeOK'
  BY <1>1, <1>5, <1>6 DEF TunnelInv, TunnelTypeOK
<1>9. OpenedInOrder' /\ Dialling' /\ NeverStranded' /\ ResultsOK'
  BY <1>1, <1>6, OpenedStays, ClientWaits, ResultsStay
<1>10. QED
  BY <1>1, <1>5, <1>7, <1>8, <1>9 DEF TunnelInv, LatestOK, HoldsLatest

\* A socket closes at the relay's end: its calls end, and only its own registration goes.
LEMMA ServerClosedInv == ASSUME TunnelInv, NEW c \in Conns, ServerClosed(c) PROVE TunnelInv'
<1>1. /\ conn \in [Conns -> Conn] /\ conn[c] \in Conn /\ ConnOK(conn[c]) /\ conn[c].server \in {"open", "closing"}
      /\ conn[c].ends # "no" /\ up \in [Conns -> Seq(UpFrame)]
  BY DEF ServerClosed, TunnelInv, TunnelTypeOK
<1> DEFINE x == IF conn[c].client = "closed" THEN Gone(conn[c]) ELSE [conn[c] EXCEPT !.server = "closed"]
<1>2. conn' = [conn EXCEPT ![c] = x]
  BY Zenon DEF ServerClosed
<1>3. x \in Conn /\ x.server = "closed" /\ x.ends # "no" /\ ConnOK(x) /\ x.client = conn[c].client
  <2>1. CASE conn[c].client = "closed"
    BY <1>1, <2>1, GoneFields
  <2>2. CASE conn[c].client # "closed"
    BY <1>1, <2>2 DEF Conn, ConnOK
  <2>3. QED
    BY <2>1, <2>2
<1> HIDE DEF x
<1>4. /\ conn' \in [Conns -> Conn] /\ conn'[c] = x /\ \A d \in Conns : d # c => conn'[d] = conn[d]
      /\ conn[c].client \notin {"none", "connecting"}
  BY <1>1, <1>2, <1>3 DEF ConnOK
<1>5. ConnsGoOn
  BY <1>1, <1>3, <1>4 DEF ConnsGoOn, TunnelInv
<1>6. /\ EndCalls(WaitersOf(c), "error") /\ up' = [up EXCEPT ![c] = << >>] /\ UNCHANGED <<down, client, handler, latest>>
      /\ agent' = IF Holds(c) THEN None ELSE agent
  BY DEF ServerClosed
<1>7. WaitersOf(c) \in SUBSET Calls /\ \A k \in WaitersOf(c) : call[k].via = c
  BY DEF WaitersOf
<1>8. /\ call' \in [Calls -> CallRecord] /\ inFlight' \in Nat /\ SlotsOK' /\ \A k \in Calls : CallOK(call[k])'
      /\ \A k \in Calls : call'[k].via = call[k].via /\ (call'[k].state = call[k].state \/ (k \in WaitersOf(c) /\ call[k].state = "open"))
  <2>1. \A d \in Conns : conn[d].server \in {"open", "closing"} =>
            conn'[d].server \in {"open", "closing"} \/ \A k \in Calls : call[k].via = d /\ call[k].unsettled => k \in WaitersOf(c)
    BY <1>4 DEF WaitersOf
  <2>2. QED
    BY <1>6, <1>7, <2>1, EndCallsFacts
<1>9. FramesOK' /\ HandlersOK'
  <2>1. \A k \in Calls : call'[k].via = call[k].via /\ (Ended(k)' => Ended(k) \/ conn'[call[k].via].ends # "no")
    BY <1>3, <1>4, <1>7, <1>8 DEF Ended
  <2>2. QED
    BY <1>5, <1>6, <2>1, FramesLost
<1>10. up' \in [Conns -> Seq(UpFrame)] /\ \A d \in Conns : up'[d] = up[d] \/ up'[d] = << >>
  BY <1>1, <1>6
<1>11. ResultsOK'
  BY <1>6, <1>10, ResultsStay
<1>12. OpenedInOrder' /\ Dialling' /\ NeverStranded'
  <2>1. OpenedInOrder'
    BY <1>3, <1>4, OpenedStays
  <2>2. Dialling' /\ NeverStranded'
    BY <1>4, <1>6, ClientWaits
  <2>3. QED
    BY <2>1, <2>2
<1>13. LatestOK' /\ HoldsLatest'
  <2>1. CASE latest = c
    <3>1. agent = c /\ Holds(c)
      BY <1>1, <2>1 DEF TunnelInv, LatestOK, HoldsLatest, Holds
    <3>2. QED
      BY <1>3, <1>4, <1>6, <2>1, <3>1 DEF LatestOK, HoldsLatest
  <2>2. CASE latest # c
    <3>1. agent # c
      BY <2>2, TunnelAssumption DEF TunnelInv, HoldsLatest
    <3>2. QED
      BY <1>4, <1>6, <2>2, <3>1 DEF TunnelInv, LatestOK, HoldsLatest, Holds
  <2>3. QED
    BY <2>1, <2>2
<1>14. TunnelTypeOK'
  BY <1>4, <1>6, <1>8, <1>10 DEF TunnelInv, TunnelTypeOK, Registrations
<1>15. QED
  BY <1>5, <1>8, <1>9, <1>11, <1>12, <1>13, <1>14 DEF TunnelInv, ConnsGoOn

\* The network drops a connection with every frame in flight.
LEMMA DropInv == ASSUME TunnelInv, NEW c \in Conns, Drop(c) PROVE TunnelInv'
<1>1. /\ conn \in [Conns -> Conn] /\ conn[c] \in Conn /\ ConnOK(conn[c]) /\ up \in [Conns -> Seq(UpFrame)]
      /\ down \in [Conns -> Seq(DownFrame)] /\ conn[c].server # "none"
  BY DEF TunnelInv, TunnelTypeOK, Drop
<1> DEFINE x == [conn[c] EXCEPT !.ends = "drop"]
<1>2. conn' = [conn EXCEPT ![c] = x]
  BY DEF Drop
<1>3. /\ x \in Conn /\ x.server = conn[c].server /\ x.ends = "drop" /\ ConnOK(x) /\ x.client = conn[c].client
      /\ x.by = conn[c].by /\ x.hello = conn[c].hello
  BY <1>1 DEF Conn, ConnOK
<1> HIDE DEF x
<1>4. /\ conn' \in [Conns -> Conn] /\ conn'[c] = x /\ \A d \in Conns : d # c => conn'[d] = conn[d]
  BY <1>1, <1>2, <1>3
<1>5. ConnsGoOn
  BY <1>3, <1>4 DEF ConnsGoOn, TunnelInv
<1>6. /\ up' = [up EXCEPT ![c] = << >>] /\ down' = [down EXCEPT ![c] = << >>]
      /\ UNCHANGED <<agent, inFlight, call, client, handler, latest>>
  BY DEF Drop
<1>7. /\ up' \in [Conns -> Seq(UpFrame)] /\ \A d \in Conns : up'[d] = up[d] \/ up'[d] = << >>
      /\ down' \in [Conns -> Seq(DownFrame)] /\ \A d \in Conns : down'[d] = down[d] \/ (down'[d] = << >> /\ d = c)
  BY <1>1, <1>6
<1>8. FramesOK' /\ HandlersOK'
  BY <1>3, <1>4, <1>5, <1>6, <1>7, FramesLost DEF Ended
<1>9. ResultsOK'
  BY <1>6, <1>7, ResultsStay
<1>10. OpenedInOrder'
  BY <1>3, <1>4, OpenedStays
<1>11. Dialling' /\ NeverStranded'
  BY <1>3, <1>4, <1>6, ClientWaits
<1>12. \A k \in Calls : CallOK(call[k])'
  BY <1>3, <1>4, <1>6, CallsOnConns
<1>13. SlotsOK' /\ LatestOK' /\ HoldsLatest'
  BY <1>3, <1>4, <1>6 DEF TunnelInv, SlotsOK, LatestOK, HoldsLatest
<1>14. TunnelTypeOK'
  BY <1>4, <1>6, <1>7 DEF TunnelInv, TunnelTypeOK
<1>15. QED
  BY <1>5, <1>8, <1>9, <1>10, <1>11, <1>12, <1>13, <1>14 DEF TunnelInv, ConnsGoOn

\* A handler returns: its answer goes out, by whatever socket, once it is over.
LEMMA HandlerReturnsInv == ASSUME TunnelInv, NEW k \in Calls, HandlerReturns(k) PROVE TunnelInv'
<1>1. /\ handler[k] = "running" /\ handler' = [handler EXCEPT ![k] = "over"]
      /\ UNCHANGED <<agent, inFlight, call, conn, down, client, latest>>
      /\ handler \in [Calls -> {"none", "running", "over"}] /\ up \in [Conns -> Seq(UpFrame)] /\ client.socket \in Conns \cup {None}
  BY DEF HandlerReturns, TunnelInv, TunnelTypeOK, ClientRecord
<1>2. /\ handler' \in [Calls -> {"none", "running", "over"}] /\ handler'[k] = "over"
      /\ \A m \in Calls : m # k => handler'[m] = handler[m]
  BY <1>1
<1>3. up' \in [Conns -> Seq(UpFrame)] /\ ResultsOK'
  <2>1. CASE UNCHANGED up
    BY <1>1, <1>2, <2>1 DEF TunnelInv, ResultsOK
  <2>2. ASSUME NEW d \in Conns, up' = [up EXCEPT ![d] = Append(@, <<"result", k>>)]
        PROVE  up' \in [Conns -> Seq(UpFrame)] /\ ResultsOK'
    <3>1. <<"result", k>> \in UpFrame /\ up[d] \in Seq(UpFrame)
      BY <1>1 DEF UpFrame
    <3>2. Append(up[d], <<"result", k>>) \in Seq(UpFrame)
      BY <3>1
    <3>3. up' \in [Conns -> Seq(UpFrame)] /\ up'[d] = Append(up[d], <<"result", k>>) /\ \A e \in Conns : e # d => up'[e] = up[e]
      BY <1>1, <2>2, <3>2
    <3>4. \A e \in Conns : \A i \in DOMAIN up'[e] : up'[e][i] = <<"result", k>> \/ (i \in DOMAIN up[e] /\ up'[e][i] = up[e][i])
      BY <3>1, <3>3
    <3>5. ASSUME NEW e \in Conns, NEW i \in DOMAIN up'[e], NEW m \in Calls, up'[e][i] = <<"result", m>>
          PROVE  handler'[m] = "over"
      <4>1. CASE up'[e][i] = <<"result", k>>
        BY <1>2, <3>5, <4>1
      <4>2. CASE i \in DOMAIN up[e] /\ up'[e][i] = up[e][i]
        <5>1. handler[m] = "over"
          BY <3>5, <4>2 DEF TunnelInv, ResultsOK
        <5>2. QED
          BY <1>1, <1>2, <5>1
      <4>3. QED
        BY <3>4, <4>1, <4>2
    <3>6. QED
      BY <3>3, <3>5 DEF ResultsOK
  <2>3. QED
    BY <1>1, <2>1, <2>2 DEF HandlerReturns
<1>4. FramesOK' /\ HandlersOK'
  <2>1. ASSUME NEW c \in Conns, NEW i \in DOMAIN down[c], NEW m \in Calls PROVE FrameOK(c, i, m)'
    <3>1. FrameOK(c, i, m)
      BY DEF TunnelInv, FramesOK
    <3>2. QED
      BY <1>1, <1>2, <3>1 DEF FrameOK, CancelAfter, Ended
  <2>2. ASSUME NEW m \in Calls PROVE HandlerOK(m)'
    <3>1. HandlerOK(m)
      BY DEF TunnelInv, HandlersOK
    <3>2. QED
      BY <1>1, <1>2, <3>1 DEF HandlerOK, CancelAfter, Ended
  <2>3. QED
    BY <1>1, <2>1, <2>2 DEF FramesOK, HandlersOK
<1>5. TunnelTypeOK'
  BY <1>1, <1>2, <1>3 DEF TunnelInv, TunnelTypeOK
<1>6. OpenedInOrder' /\ Dialling' /\ NeverStranded' /\ \A m \in Calls : CallOK(call[m])'
  BY <1>1, OpenedStays, ClientWaits, CallsOnConns
<1>7. QED
  BY <1>1, <1>3, <1>4, <1>5, <1>6 DEF TunnelInv, SlotsOK, LatestOK, HoldsLatest

\* The agent takes a frame: a call starts its handler, with the cancellation still behind it.
LEMMA ClientReceivesInv == ASSUME TunnelInv, NEW c \in Conns, ClientReceives(c) PROVE TunnelInv'
<1> DEFINE k == Head(down[c])[2]
           kind == Head(down[c])[1]
<1>1. /\ down[c] # << >> /\ down' = [down EXCEPT ![c] = Tail(@)]
      /\ handler' = [handler EXCEPT ![k] = IF kind = "call" THEN "running" ELSE IF @ = "running" THEN "over" ELSE @]
      /\ UNCHANGED <<agent, inFlight, call, conn, up, client, latest>>
      /\ handler \in [Calls -> {"none", "running", "over"}] /\ down \in [Conns -> Seq(DownFrame)] /\ down[c] \in Seq(DownFrame)
  BY DEF ClientReceives, TunnelInv, TunnelTypeOK
<1>2. /\ k \in Calls /\ kind \in {"call", "cancel"} /\ Head(down[c]) = <<kind, k>>
      /\ 1 \in DOMAIN down[c] /\ down[c][1] = <<kind, k>>
  BY <1>1 DEF DownFrame
<1> HIDE DEF k, kind
<1>3. FrameOK(c, 1, k)
  BY <1>2 DEF TunnelInv, FramesOK
<1>4. call[k].via = c
  BY <1>2, <1>3 DEF FrameOK
<1>5. /\ handler' \in [Calls -> {"none", "running", "over"}] /\ \A m \in Calls : m # k => handler'[m] = handler[m]
      /\ handler'[k] = IF kind = "call" THEN "running" ELSE IF handler[k] = "running" THEN "over" ELSE handler[k]
  BY <1>1, <1>2
<1>6. /\ down' \in [Conns -> Seq(DownFrame)]
      /\ \A d \in Conns : d # c => down'[d] = down[d]
      /\ \A i \in DOMAIN down'[c] : i \in Nat /\ i + 1 \in DOMAIN down[c] /\ down'[c][i] = down[c][i + 1]
      /\ \A i \in DOMAIN down[c] : i # 1 => i \in Nat /\ i - 1 \in DOMAIN down'[c] /\ down'[c][i - 1] = down[c][i]
  BY <1>1
<1>7. ASSUME NEW m \in Calls, NEW i \in Nat, CancelAfter(c, m, i + 1) PROVE CancelAfter(c, m, i)'
  <2>1. PICK j \in DOMAIN down[c] : j > i + 1 /\ down[c][j] = <<"cancel", m>>
    BY <1>7 DEF CancelAfter
  <2>2. j \in Nat /\ j # 1 /\ j - 1 > i
    BY <1>1, <2>1
  <2>3. j - 1 \in DOMAIN down'[c] /\ down'[c][j - 1] = <<"cancel", m>>
    BY <1>6, <2>1, <2>2
  <2>4. QED
    BY <2>2, <2>3 DEF CancelAfter
<1>8. ASSUME NEW m \in Calls, CancelAfter(c, m, 0), <<kind, k>> # <<"cancel", m>> PROVE CancelAfter(c, m, 0)'
  <2>1. PICK j \in DOMAIN down[c] : j > 0 /\ down[c][j] = <<"cancel", m>>
    BY <1>8 DEF CancelAfter
  <2>2. j # 1 /\ j \in Nat
    BY <1>1, <1>2, <1>8, <2>1
  <2>3. j > 0 + 1
    BY <2>1, <2>2
  <2>4. CancelAfter(c, m, 0 + 1)
    BY <2>1, <2>3 DEF CancelAfter
  <2>5. QED
    BY <1>7, <2>4
<1>9. ASSUME NEW d \in Conns, NEW i \in DOMAIN down'[d], NEW m \in Calls PROVE FrameOK(d, i, m)'
  <2>1. CASE d # c
    <3>1. down'[d] = down[d] /\ i \in DOMAIN down[d]
      BY <1>6, <2>1
    <3>2. FrameOK(d, i, m)
      BY <3>1 DEF TunnelInv, FramesOK
    <3>3. m = k => down[d][i] \notin {<<"call", m>>, <<"cancel", m>>}
      BY <1>4, <2>1, <3>2 DEF FrameOK
    <3>4. QED
      BY <1>1, <1>5, <3>1, <3>2, <3>3 DEF FrameOK, CancelAfter, Ended
  <2>2. CASE d = c
    <3>1. i \in Nat /\ i + 1 \in DOMAIN down[c] /\ i + 1 # 1 /\ down'[c][i] = down[c][i + 1]
      BY <1>6, <2>2
    <3>2. FrameOK(c, i + 1, m)
      BY <3>1 DEF TunnelInv, FramesOK
    <3>3. down'[c][i] \in {<<"call", m>>, <<"cancel", m>>} => call'[m].via = c
      BY <1>1, <3>1, <3>2 DEF FrameOK
    <3>4. ASSUME down'[c][i] = <<"call", m>>
          PROVE  /\ handler'[m] = "none"
                 /\ \A j \in DOMAIN down'[c] : down'[c][j] = <<"call", m>> => j = i
                 /\ Ended(m)' => CancelAfter(c, m, i)' \/ conn'[c].ends # "no"
      <4>1. \A j \in DOMAIN down[c] : down[c][j] = <<"call", m>> => j = i + 1
        BY <3>1, <3>2, <3>4 DEF FrameOK
      <4>2. handler[m] = "none"
        BY <3>1, <3>2, <3>4 DEF FrameOK
      <4>3. m = k => kind # "call"
        BY <1>2, <3>1, <4>1
      <4>4. handler'[m] = "none"
        BY <1>5, <4>2, <4>3
      <4>5. ASSUME NEW j \in DOMAIN down'[c], down'[c][j] = <<"call", m>> PROVE j = i
        <5>1. j \in Nat /\ j + 1 \in DOMAIN down[c] /\ down[c][j + 1] = <<"call", m>>
          BY <1>6, <4>5
        <5>2. j + 1 = i + 1
          BY <4>1, <5>1
        <5>3. QED
          BY <3>1, <5>1, <5>2
      <4>6. Ended(m) => CancelAfter(c, m, i + 1) \/ conn[c].ends # "no"
        BY <3>1, <3>2, <3>4 DEF FrameOK
      <4>7. Ended(m)' => CancelAfter(c, m, i)' \/ conn'[c].ends # "no"
        BY <1>1, <1>7, <3>1, <4>6 DEF Ended
      <4>8. QED
        BY <4>4, <4>5, <4>7
    <3>5. QED
      BY <2>2, <3>3, <3>4 DEF FrameOK
  <2>3. QED
    BY <2>1, <2>2
<1>10. ASSUME NEW m \in Calls PROVE HandlerOK(m)'
  <2>1. HandlerOK(m)
    BY DEF TunnelInv, HandlersOK
  <2>2. CASE m = k /\ kind = "call"
    <3>1. Ended(m) => CancelAfter(c, m, 0 + 1) \/ conn[c].ends # "no"
      BY <1>2, <1>3, <2>2 DEF FrameOK
    <3>2. CancelAfter(c, m, 0 + 1) => CancelAfter(c, m, 0)'
      BY <1>7
    <3>3. Ended(m)' <=> Ended(m)
      BY <1>1 DEF Ended
    <3>4. Ended(m)' => CancelAfter(c, m, 0)' \/ conn'[c].ends # "no"
      BY <1>1, <3>1, <3>2, <3>3
    <3>5. call'[m].via = c
      BY <1>1, <1>4, <2>2
    <3>6. QED
      BY <3>4, <3>5 DEF HandlerOK
  <2>3. CASE m = k /\ kind = "cancel"
    <3>1. call'[m].via \in Conns /\ handler'[m] # "running"
      BY <1>1, <1>4, <1>5, <2>3
    <3>2. QED
      BY <3>1 DEF HandlerOK
  <2>4. CASE m # k
    <3>1. handler'[m] = handler[m] /\ call'[m] = call[m] /\ (Ended(m)' <=> Ended(m))
      BY <1>1, <1>5, <2>4 DEF Ended
    <3>2. ASSUME call[m].via \in Conns, CancelAfter(call[m].via, m, 0) PROVE CancelAfter(call[m].via, m, 0)'
      <4>1. CASE call[m].via = c
        <5>1. CancelAfter(c, m, 0)'
          BY <1>8, <2>4, <3>2, <4>1
        <5>2. QED
          BY <3>1, <4>1, <5>1
      <4>2. CASE call[m].via # c
        <5>1. down'[call[m].via] = down[call[m].via]
          BY <1>6, <3>2, <4>2
        <5>2. QED
          BY <3>1, <3>2, <5>1 DEF CancelAfter
      <4>3. QED
        BY <4>1, <4>2
    <3>3. QED
      BY <1>1, <2>1, <3>1, <3>2 DEF HandlerOK
  <2>5. QED
    BY <1>2, <2>2, <2>3, <2>4
<1>11. ResultsOK'
  <2>1. kind = "call" => handler[k] = "none"
    BY <1>2, <1>3 DEF FrameOK
  <2>2. \A m \in Calls : handler[m] = "over" => handler'[m] = "over"
    BY <1>2, <1>5, <2>1
  <2>3. QED
    BY <1>1, <2>2 DEF TunnelInv, ResultsOK
<1>12. TunnelTypeOK'
  BY <1>1, <1>5, <1>6 DEF TunnelInv, TunnelTypeOK
<1>13. OpenedInOrder' /\ Dialling' /\ NeverStranded' /\ \A m \in Calls : CallOK(call[m])'
  BY <1>1, OpenedStays, ClientWaits, CallsOnConns
<1>14. QED
  BY <1>1, <1>9, <1>10, <1>11, <1>12, <1>13 DEF TunnelInv, FramesOK, HandlersOK, SlotsOK, LatestOK, HoldsLatest

\* A step of the agent's side: the relay's ends that are up, its calls and its registration are as before.
LEMMA AgentStep ==
  ASSUME TunnelInv, UNCHANGED <<agent, inFlight, call, latest>>, ConnsGoOn,
         \A d \in Conns : conn[d].server \in {"open", "closing"} =>
            conn'[d].server = conn[d].server /\ conn'[d].hello = conn[d].hello,
         \A d \in Conns : conn[d].server = "closed" => conn'[d].server = "closed",
         down' \in [Conns -> Seq(DownFrame)],
         \A d \in Conns : down'[d] = down[d] \/ (down'[d] = << >> /\ conn'[d].ends # "no"),
         handler' \in {handler, Aborted},
         up' \in [Conns -> Seq(UpFrame)],
         \A d \in Conns : \A i \in DOMAIN up'[d] : \/ \E j \in DOMAIN up[d] : up'[d][i] = up[d][j]
                                                   \/ up'[d][i][1] = "hello",
         client' \in ClientRecord, OpenedInOrder', Dialling', NeverStranded'
  PROVE  TunnelInv'
<1>1. FramesOK' /\ HandlersOK' /\ handler' \in [Calls -> {"none", "running", "over"}]
  <2>1. \A k \in Calls : call'[k].via = call[k].via /\ (Ended(k)' => Ended(k))
    BY DEF Ended
  <2>2. QED
    BY <2>1, FramesLost
<1>2. ResultsOK'
  BY ResultsStay
<1>3. \A k \in Calls : CallOK(call[k])'
  <2>1. \A d \in Conns : conn[d].server \in {"open", "closing"} => conn'[d].server \in {"open", "closing"}
    OBVIOUS
  <2>2. QED
    BY <2>1, CallsOnConns
<1>4. SlotsOK'
  BY DEF TunnelInv, SlotsOK
<1>5. TunnelTypeOK'
  BY <1>1 DEF TunnelInv, TunnelTypeOK, ConnsGoOn
<1>6. \A d \in Conns : conn[d].server \in {"none", "open", "closing", "closed"}
  BY DEF TunnelInv, TunnelTypeOK, Conn
<1>7. LatestOK' /\ HoldsLatest'
  <2>1. CASE latest \in Conns
    <3>1. conn[latest].server # "none" /\ (conn[latest].server # "closed" => conn[latest].hello = "registered")
      BY <2>1 DEF TunnelInv, LatestOK
    <3>2. /\ conn'[latest].server = conn[latest].server
          /\ conn'[latest].server # "closed" => conn'[latest].hello = "registered"
      BY <1>6, <2>1, <3>1
    <3>3. QED
      BY <2>1, <3>1, <3>2 DEF TunnelInv, LatestOK, HoldsLatest
  <2>2. CASE latest \notin Conns
    BY <2>2 DEF TunnelInv, LatestOK, HoldsLatest
  <2>3. QED
    BY <2>1, <2>2
<1>8. QED
  BY <1>1, <1>2, <1>3, <1>4, <1>5, <1>7 DEF TunnelInv, ConnsGoOn

\* The next connection is the first that was not opened yet.
LEMMA NextIsNew ==
  ASSUME TunnelInv
  PROVE  NextConn \in Nat /\ NextConn > 0 /\ \A d \in Conns : d < NextConn <=> conn[d].client # "none"
<1>1. PICK n \in 0..MaxConns : Opened = 1..n
  BY DEF TunnelInv, OpenedInOrder
<1>2. MaxConns \in Nat /\ n \in Nat /\ n <= MaxConns
  BY <1>1, TunnelAssumption
<1>3. Cardinality(1..n) = n
  BY <1>2, FS_Interval
<1>4. NextConn = n + 1
  BY <1>1, <1>3 DEF NextConn
<1>5. \A d \in Conns : d \in 1..n <=> conn[d].client # "none"
  BY <1>1 DEF Opened
<1>6. QED
  BY <1>2, <1>4, <1>5 DEF Conns

\* Opening the next connection, or the next two, keeps them numbered in order.
LEMMA OpenedNext ==
  ASSUME TunnelInv, NEW n \in {NextConn, NextConn + 1}, n \in Conns,
         \A d \in Conns : conn'[d].client # "none" <=> conn[d].client # "none" \/ d \in NextConn..n
  PROVE  OpenedInOrder'
<1>1. NextConn \in Nat /\ NextConn > 0 /\ \A d \in Conns : d < NextConn <=> conn[d].client # "none"
  BY NextIsNew
<1>2. n \in 0..MaxConns /\ MaxConns \in Nat /\ \A d \in Conns : d \in Nat /\ d > 0
  BY TunnelAssumption DEF Conns
<1>3. \A d \in Conns : conn'[d].client # "none" <=> d \in 1..n
  BY <1>1, <1>2
<1>4. Opened' = 1..n
  BY <1>2, <1>3 DEF Opened, Conns
<1>5. QED
  BY <1>2, <1>4 DEF OpenedInOrder

\* A connection the agent dials.
LEMMA DialFields ==
  ASSUME TunnelInv, NextConn \in Conns, NEW by \in {"start", "loop"}
  PROVE  LET x == Dial(by)
         IN  /\ x \in Conn /\ ConnOK(x) /\ x.client = "connecting" /\ x.by = by /\ x.server = "none"
             /\ \A n \in Conns : n >= NextConn => conn[n].client = "none" /\ conn[n].server = "none" /\ conn[n].ends = "no"
<1>1. NextConn \in Nat /\ \A n \in Conns : n \in Nat
  BY NextIsNew DEF Conns
<1>2. ASSUME NEW n \in Conns, n >= NextConn PROVE conn[n].client = "none"
  <2>1. ~(n < NextConn)
    BY <1>1, <1>2
  <2>2. QED
    BY <2>1, NextIsNew
<1>3. \A n \in Conns : conn[n] \in Conn /\ ConnOK(conn[n])
  BY DEF TunnelInv, TunnelTypeOK
<1>4. \A n \in Conns : n >= NextConn => conn[n].server = "none" /\ conn[n].ends = "no"
  BY <1>2, <1>3 DEF ConnOK
<1> DEFINE o == conn[NextConn]
<1>5. o \in Conn /\ ConnOK(o) /\ o.client = "none"
  BY <1>1, <1>2, <1>3
<1>6. Dial(by) = [o EXCEPT !.client = "connecting", !.by = by]
  BY DEF Dial
<1> HIDE DEF o
<1>7. LET x == Dial(by) IN x \in Conn /\ ConnOK(x) /\ x.client = "connecting" /\ x.by = by /\ x.server = "none"
  BY <1>5, <1>6 DEF Conn, ConnOK
<1>8. QED
  BY <1>2, <1>4, <1>7

\* One more connection being dialled.
LEMMA OneDialled ==
  ASSUME TunnelInv, NextConn \in Conns, NEW by \in {"start", "loop"}, conn' = [conn EXCEPT ![NextConn] = Dial(by)],
         UNCHANGED <<agent, inFlight, call, latest, up, down, handler>>,
         client' \in ClientRecord, client'.loop = "dialling" => client.loop = "dialling" \/ by = "loop"
  PROVE  TunnelInv'
<1> DEFINE n == NextConn
           x == Dial(by)
<1>1. /\ x \in Conn /\ ConnOK(x) /\ x.client = "connecting" /\ x.by = by /\ x.server = "none"
      /\ conn[n].server = "none" /\ conn[n].ends = "no" /\ conn[n].client = "none" /\ n \in Nat
  BY DialFields, NextIsNew
<1>2. conn \in [Conns -> Conn] /\ \A d \in Conns : ConnOK(conn[d])
  BY DEF TunnelInv, TunnelTypeOK
<1>3. /\ conn' \in [Conns -> Conn] /\ conn'[n] = x /\ \A d \in Conns : d # n => conn'[d] = conn[d]
  BY <1>1, <1>2
<1>4. OpenedInOrder'
  <2>1. n \in {NextConn, NextConn + 1} /\ NextConn..n = {n}
    BY <1>1
  <2>2. \A d \in Conns : conn'[d].client # "none" <=> conn[d].client # "none" \/ d \in NextConn..n
    BY <1>1, <1>3, <2>1
  <2>3. QED
    BY <2>1, <2>2, OpenedNext
<1> HIDE DEF n, x
<1>5. n \in Conns /\ ConnsGoOn
  BY <1>1, <1>2, <1>3 DEF n, ConnsGoOn
<1>6. Dialling' /\ NeverStranded'
  BY <1>1, <1>3, <1>5 DEF TunnelInv, Dialling, NeverStranded
<1>7. /\ down' \in [Conns -> Seq(DownFrame)] /\ up' \in [Conns -> Seq(UpFrame)]
      /\ \A d \in Conns : conn[d].server \in {"open", "closing"} => conn'[d].server = conn[d].server /\ conn'[d].hello = conn[d].hello
      /\ \A d \in Conns : conn[d].server = "closed" => conn'[d].server = "closed"
  BY <1>1, <1>3, <1>5 DEF TunnelInv, TunnelTypeOK
<1>8. QED
  BY <1>4, <1>5, <1>6, <1>7, AgentStep

\* start() dials.
LEMMA ClientStartInv == ASSUME TunnelInv, ClientStart PROVE TunnelInv'
<1>1. client \in ClientRecord
  BY DEF TunnelInv, TunnelTypeOK
<1>2. client' = [client EXCEPT !.stopped = FALSE, !.failed = FALSE]
  BY DEF ClientStart
<1>3. client' \in ClientRecord /\ client'.loop = client.loop
  BY <1>1, <1>2 DEF ClientRecord
<1>4. QED
  BY <1>3, OneDialled DEF ClientStart

\* The reconnect loop dials.
LEMMA LoopWakesInv == ASSUME TunnelInv, LoopWakes PROVE TunnelInv'
<1>1. client \in ClientRecord
  BY DEF TunnelInv, TunnelTypeOK
<1>2. client' = [client EXCEPT !.loop = "dialling"]
  BY DEF LoopWakes
<1>3. client' \in ClientRecord
  BY <1>1, <1>2 DEF ClientRecord
<1>4. QED
  BY <1>3, OneDialled DEF LoopWakes

\* What disconnect() does to the connections.
LEMMA CloseByClientFields ==
  ASSUME TunnelInv, NEW d \in Conns
  PROVE  LET x == CloseByClient[d]
         IN  /\ x \in Conn /\ ConnOK(x) /\ x.server = conn[d].server /\ x.hello = conn[d].hello /\ x.by = conn[d].by
             /\ conn[d].ends # "no" => x.ends # "no"
             /\ x.client = "none" <=> conn[d].client = "none"
             /\ x.client = "connecting" <=> conn[d].client = "connecting"
<1>1. conn[d] \in Conn /\ ConnOK(conn[d])
  BY DEF TunnelInv, TunnelTypeOK
<1>2. CASE d = client.socket /\ conn[d].client = "open"
  <2> DEFINE x == [conn[d] EXCEPT !.client = "closing", !.ends = IF @ = "no" THEN "client" ELSE @]
  <2>1. CloseByClient[d] = x
    BY <1>2 DEF CloseByClient
  <2>2. /\ x \in Conn /\ ConnOK(x) /\ x.server = conn[d].server /\ x.hello = conn[d].hello /\ x.by = conn[d].by
        /\ conn[d].ends # "no" => x.ends # "no"
        /\ x.client = "closing"
    BY <1>1, <1>2 DEF Conn, ConnOK
  <2> HIDE DEF x
  <2>3. QED
    BY <1>2, <2>1, <2>2
<1>3. CASE ~(d = client.socket /\ conn[d].client = "open")
  <2>1. CloseByClient[d] = conn[d]
    BY <1>3 DEF CloseByClient
  <2>2. QED
    BY <1>1, <2>1
<1>4. QED
  BY <1>2, <1>3

\* stop(): the transport's socket closes, a sleeping loop ends.
LEMMA ClientStopInv == ASSUME TunnelInv, ClientStop PROVE TunnelInv'
<1>1. client \in ClientRecord
  BY DEF TunnelInv, TunnelTypeOK
<1> DEFINE cl == [client EXCEPT !.stopped = TRUE, !.socket = None, !.loop = IF @ = "sleep" THEN "idle" ELSE @]
<1>2. client' = cl
  BY DEF ClientStop
<1>3. cl \in ClientRecord /\ cl.stopped /\ (cl.loop = "dialling" => client.loop = "dialling")
  BY <1>1 DEF ClientRecord
<1> HIDE DEF cl
<1>4. conn' = CloseByClient /\ handler' = Aborted /\ UNCHANGED <<agent, inFlight, call, up, down, latest>>
  BY DEF ClientStop
<1>5. conn' \in [Conns -> Conn]
  <2>1. conn' = [d \in Conns |-> CloseByClient[d]]
    BY <1>4 DEF CloseByClient
  <2>2. QED
    BY <2>1, CloseByClientFields
<1>6. \A d \in Conns :
        /\ ConnOK(conn'[d]) /\ conn'[d].server = conn[d].server /\ conn'[d].hello = conn[d].hello /\ conn'[d].by = conn[d].by
        /\ conn[d].ends # "no" => conn'[d].ends # "no"
        /\ conn'[d].client = "none" <=> conn[d].client = "none"
        /\ conn'[d].client = "connecting" <=> conn[d].client = "connecting"
  BY <1>4, CloseByClientFields
<1>7. ConnsGoOn
  BY <1>5, <1>6 DEF ConnsGoOn
<1>8. OpenedInOrder'
  BY <1>6, OpenedStays
<1>9. Dialling' /\ NeverStranded'
  BY <1>2, <1>3, <1>6 DEF TunnelInv, Dialling, NeverStranded
<1>10. down' \in [Conns -> Seq(DownFrame)] /\ up' \in [Conns -> Seq(UpFrame)]
  BY <1>4 DEF TunnelInv, TunnelTypeOK
<1>11. QED
  BY <1>2, <1>3, <1>4, <1>6, <1>7, <1>8, <1>9, <1>10, AgentStep

\* stop() and start() at once: a sleeping loop dials besides start().
LEMMA ClientRestartInv == ASSUME TunnelInv, ClientRestart PROVE TunnelInv'
<1>1. client \in ClientRecord
  BY DEF TunnelInv, TunnelTypeOK
<1> DEFINE cl == [client EXCEPT !.socket = None, !.failed = FALSE, !.loop = IF @ = "sleep" THEN "dialling" ELSE @]
<1>2. client' = cl
  BY DEF ClientRestart
<1>3. cl \in ClientRecord /\ (cl.loop = "dialling" => client.loop \in {"dialling", "sleep"})
  BY <1>1 DEF ClientRecord
<1> HIDE DEF cl
<1>4. /\ handler' = Aborted /\ UNCHANGED <<agent, inFlight, call, up, down, latest>>
      /\ conn' = [c \in Conns |->
           IF c = NextConn THEN Dial("start")
           ELSE IF c = NextConn + 1 /\ client.loop = "sleep" THEN Dial("loop")
           ELSE CloseByClient[c]]
      /\ NextConn \in Conns /\ (client.loop = "sleep" => NextConn + 1 \in Conns)
  BY DEF ClientRestart
<1>5. NextConn \in Nat
  BY NextIsNew
<1> DEFINE x == Dial("start")
           y == Dial("loop")
<1>6. /\ x \in Conn /\ ConnOK(x) /\ x.client = "connecting" /\ x.by = "start" /\ x.server = "none"
      /\ y \in Conn /\ ConnOK(y) /\ y.client = "connecting" /\ y.by = "loop" /\ y.server = "none"
      /\ \A n \in Conns : n >= NextConn => conn[n].client = "none" /\ conn[n].server = "none" /\ conn[n].ends = "no"
  BY <1>4, DialFields
<1> HIDE DEF x, y
<1> DEFINE first == NextConn
           again == client.loop = "sleep"
<1>7. /\ conn' = [c \in Conns |-> IF c = first THEN x ELSE IF c = first + 1 /\ again THEN y ELSE CloseByClient[c]]
      /\ first \in Conns /\ first \in Nat /\ (again => first + 1 \in Conns)
  BY <1>4, <1>5 DEF x, y
<1>8. \A n \in Conns : n \in {first, first + 1} => conn[n].client = "none" /\ conn[n].server = "none" /\ conn[n].ends = "no"
  BY <1>5, <1>6
<1> HIDE DEF first, again
<1>9. ASSUME NEW d \in Conns, d # first, ~(d = first + 1 /\ again)
      PROVE  /\ conn'[d] \in Conn /\ ConnOK(conn'[d]) /\ conn'[d].server = conn[d].server /\ conn'[d].hello = conn[d].hello
             /\ conn'[d].by = conn[d].by
             /\ conn[d].ends # "no" => conn'[d].ends # "no"
             /\ conn'[d].client = "none" <=> conn[d].client = "none"
             /\ conn'[d].client = "connecting" <=> conn[d].client = "connecting"
  <2>1. conn'[d] = CloseByClient[d]
    BY <1>7, <1>9
  <2>2. QED
    BY <2>1, CloseByClientFields
<1>10. conn'[first] = x
  BY <1>7
<1>11. again => conn'[first + 1] = y
  BY <1>7
<1>12. \A d \in Conns : conn'[d] \in Conn /\ ConnOK(conn'[d]) /\ (conn[d].ends # "no" => conn'[d].ends # "no")
  BY <1>6, <1>8, <1>9, <1>10, <1>11
<1>13. ConnsGoOn
  BY <1>7, <1>12 DEF ConnsGoOn
<1>14. \A d \in Conns : conn[d].server # "none" => conn'[d].server = conn[d].server /\ conn'[d].hello = conn[d].hello
  BY <1>8, <1>9
<1>15. OpenedInOrder'
  <2>1. \A d \in Conns : conn'[d].client # "none" <=> conn[d].client # "none" \/ d = first \/ (d = first + 1 /\ again)
    BY <1>6, <1>8, <1>9, <1>10, <1>11
  <2>2. CASE again
    <3>1. first + 1 \in {NextConn, NextConn + 1} /\ NextConn..(first + 1) = {first, first + 1} /\ first + 1 \in Conns
      BY <1>7, <2>2 DEF first
    <3>2. QED
      BY <2>1, <2>2, <3>1, OpenedNext
  <2>3. CASE ~again
    <3>1. first \in {NextConn, NextConn + 1} /\ NextConn..first = {first} /\ first \in Conns
      BY <1>7 DEF first
    <3>2. QED
      BY <2>1, <2>3, <3>1, OpenedNext
  <2>4. QED
    BY <2>2, <2>3
<1>16. Dialling'
  <2>1. CASE again
    BY <1>6, <1>7, <1>11, <2>1 DEF Dialling
  <2>2. CASE ~again
    BY <1>2, <1>3, <1>8, <1>9, <2>2 DEF again, TunnelInv, Dialling
  <2>3. QED
    BY <2>1, <2>2
<1>17. NeverStranded'
  BY <1>6, <1>7, <1>10 DEF NeverStranded
<1>18. down' \in [Conns -> Seq(DownFrame)] /\ up' \in [Conns -> Seq(UpFrame)]
  BY <1>4 DEF TunnelInv, TunnelTypeOK
<1>19. QED
  BY <1>2, <1>3, <1>4, <1>13, <1>14, <1>15, <1>16, <1>17, <1>18, AgentStep

\* An attempt succeeds, stopped meanwhile or not.
LEMMA SocketOpensInv == ASSUME TunnelInv, NEW c \in Conns, SocketOpens(c) PROVE TunnelInv'
<1>1. /\ conn \in [Conns -> Conn] /\ conn[c] \in Conn /\ ConnOK(conn[c]) /\ conn[c].client = "connecting"
      /\ client \in ClientRecord /\ up \in [Conns -> Seq(UpFrame)] /\ \A d \in Conns : ConnOK(conn[d])
  BY DEF TunnelInv, TunnelTypeOK, SocketOpens
<1> DEFINE x == [conn[c] EXCEPT !.client = "open", !.server = "open"]
<1>2. conn' = [conn EXCEPT ![c] = x]
  BY <1>1 DEF SocketOpens
<1>3. /\ x \in Conn /\ ConnOK(x) /\ x.client = "open" /\ x.server = "open" /\ x.ends = conn[c].ends
      /\ conn[c].server = "none"
  BY <1>1 DEF Conn, ConnOK
<1> HIDE DEF x
<1>4. /\ conn' \in [Conns -> Conn] /\ conn'[c] = x /\ \A d \in Conns : d # c => conn'[d] = conn[d]
  BY <1>1, <1>2, <1>3
<1>5. ConnsGoOn
  BY <1>1, <1>3, <1>4 DEF ConnsGoOn
<1> DEFINE cl == [client EXCEPT !.socket = c]
<1>6. client' = LoopDone(c, cl) /\ UNCHANGED <<agent, inFlight, call, down, handler, latest>>
      /\ up' = IF client.stopped THEN up ELSE [up EXCEPT ![c] = Append(@, <<"hello", None>>)]
  BY DEF SocketOpens
<1>7. cl \in ClientRecord /\ cl.socket = c /\ cl.loop = client.loop
  BY <1>1 DEF ClientRecord
<1> HIDE DEF cl
<1>8. /\ client' \in ClientRecord /\ client'.socket = c
      /\ client'.loop = IF conn[c].by = "loop" THEN "idle" ELSE client.loop
  BY <1>6, <1>7 DEF LoopDone, ClientRecord
<1>9. /\ up' \in [Conns -> Seq(UpFrame)]
      /\ \A d \in Conns : \A i \in DOMAIN up'[d] : \/ \E j \in DOMAIN up[d] : up'[d][i] = up[d][j]
                                                   \/ up'[d][i][1] = "hello"
  <2>1. CASE client.stopped
    BY <1>1, <1>6, <2>1
  <2>2. CASE ~client.stopped
    <3>1. <<"hello", None>> \in UpFrame /\ up[c] \in Seq(UpFrame)
      BY <1>1 DEF UpFrame
    <3>2. up' = [up EXCEPT ![c] = Append(up[c], <<"hello", None>>)]
      BY <1>6, <2>2
    <3>3. Append(up[c], <<"hello", None>>) \in Seq(UpFrame)
      BY <3>1
    <3>4. up' \in [Conns -> Seq(UpFrame)] /\ up'[c] = Append(up[c], <<"hello", None>>) /\ \A d \in Conns : d # c => up'[d] = up[d]
      BY <1>1, <3>2, <3>3
    <3>5. \A i \in DOMAIN up'[c] : (i \in DOMAIN up[c] /\ up'[c][i] = up[c][i]) \/ up'[c][i] = <<"hello", None>>
      BY <3>1, <3>4
    <3>6. ASSUME NEW d \in Conns, NEW i \in DOMAIN up'[d]
          PROVE  (\E j \in DOMAIN up[d] : up'[d][i] = up[d][j]) \/ up'[d][i][1] = "hello"
      <4>1. CASE d = c
        BY <3>5, <4>1
      <4>2. CASE d # c
        BY <3>4, <4>2
      <4>3. QED
        BY <4>1, <4>2
    <3>7. QED
      BY <3>4, <3>6
  <2>3. QED
    BY <2>1, <2>2
<1>10. OpenedInOrder'
  BY <1>1, <1>3, <1>4, OpenedStays
<1>11. Dialling' /\ NeverStranded'
  <2>1. None \notin Conns
    BY TunnelAssumption
  <2>2. NeverStranded'
    BY <1>8, <2>1 DEF NeverStranded
  <2>3. ASSUME client'.loop = "dialling" PROVE \E d \in Conns : conn'[d].client = "connecting" /\ conn'[d].by = "loop"
    <3>1. client.loop = "dialling" /\ conn[c].by # "loop"
      BY <1>8, <2>3
    <3>2. PICK d \in Conns : conn[d].client = "connecting" /\ conn[d].by = "loop"
      BY <3>1 DEF TunnelInv, Dialling
    <3>3. QED
      BY <1>4, <3>1, <3>2
  <2>4. QED
    BY <2>2, <2>3 DEF Dialling
<1>12. down' \in [Conns -> Seq(DownFrame)]
  BY <1>6 DEF TunnelInv, TunnelTypeOK
<1>13. \A d \in Conns : conn[d].server # "none" => conn'[d] = conn[d]
  BY <1>3, <1>4
<1>14. QED
  BY <1>5, <1>6, <1>8, <1>9, <1>10, <1>11, <1>12, <1>13, AgentStep

\* An attempt fails: start() rejects, a loop goes on unless stopped.
LEMMA ConnectFailsInv == ASSUME TunnelInv, NEW c \in Conns, ConnectFails(c) PROVE TunnelInv'
<1>1. /\ conn \in [Conns -> Conn] /\ conn[c] \in Conn /\ ConnOK(conn[c]) /\ conn[c].client = "connecting"
      /\ client \in ClientRecord /\ \A d \in Conns : ConnOK(conn[d])
  BY DEF TunnelInv, TunnelTypeOK, ConnectFails
<1> DEFINE x == Gone(conn[c])
<1>2. conn' = [conn EXCEPT ![c] = x] /\ UNCHANGED <<agent, inFlight, call, up, down, latest>>
  BY DEF ConnectFails
<1>3. x \in Conn /\ ConnOK(x) /\ x.client = "closed" /\ x.server = "closed" /\ x.ends # "no" /\ conn[c].server = "none"
  BY <1>1, GoneFields DEF ConnOK
<1> HIDE DEF x
<1>4. /\ conn' \in [Conns -> Conn] /\ conn'[c] = x /\ \A d \in Conns : d # c => conn'[d] = conn[d]
  BY <1>1, <1>2, <1>3
<1>5. ConnsGoOn
  BY <1>1, <1>3, <1>4 DEF ConnsGoOn
<1> DEFINE again == IF conn[c].by = "loop" /\ client.stopped THEN [client EXCEPT !.loop = "idle"]
                    ELSE IF conn[c].by = "loop" THEN [client EXCEPT !.loop = "sleep"]
                    ELSE client
<1>6. \/ client' = Reconnecting(again) /\ handler' = Aborted
      \/ client' = [again EXCEPT !.failed = @ \/ conn[c].by = "start"] /\ UNCHANGED handler
  BY Zenon DEF ConnectFails
<1>7. /\ again \in ClientRecord /\ again.stopped = client.stopped /\ again.socket = client.socket /\ again.failed = client.failed
      /\ again.loop = IF conn[c].by = "loop" THEN (IF client.stopped THEN "idle" ELSE "sleep") ELSE client.loop
  BY <1>1 DEF ClientRecord
<1> HIDE DEF again
<1>8. /\ client' \in ClientRecord /\ client'.stopped = client.stopped /\ client'.socket = client.socket
      /\ client'.loop \in {again.loop, "sleep"} /\ handler' \in {handler, Aborted}
      /\ ~client.stopped => \/ client'.loop # "idle"
                            \/ client'.failed
                            \/ conn[c].by = "loop"
  <2>1. CASE client' = Reconnecting(again) /\ handler' = Aborted
    BY <1>7, <2>1 DEF Reconnecting, ClientRecord
  <2>2. CASE client' = [again EXCEPT !.failed = @ \/ conn[c].by = "start"] /\ UNCHANGED handler
    <3> DEFINE f == again.failed \/ conn[c].by = "start"
    <3>1. client' = [again EXCEPT !.failed = f] /\ f \in BOOLEAN
      BY <2>2, Zenon
    <3>2. conn[c].by = "start" => f
      OBVIOUS
    <3> HIDE DEF f
    <3>3. /\ client' \in ClientRecord /\ client'.stopped = again.stopped /\ client'.socket = again.socket
          /\ client'.loop = again.loop /\ client'.failed = f
      BY <1>7, <3>1 DEF ClientRecord
    <3>4. conn[c].by \in {"start", "loop"}
      BY <1>1 DEF Conn
    <3>5. QED
      BY <1>7, <2>2, <3>2, <3>3, <3>4
  <2>3. QED
    BY <1>6, <2>1, <2>2
<1>9. ASSUME client'.loop = "dialling" PROVE \E d \in Conns : conn'[d].client = "connecting" /\ conn'[d].by = "loop"
  <2>1. client.loop = "dialling" /\ conn[c].by # "loop"
    BY <1>7, <1>8, <1>9
  <2>2. PICK d \in Conns : conn[d].client = "connecting" /\ conn[d].by = "loop"
    BY <2>1 DEF TunnelInv, Dialling
  <2>3. QED
    BY <1>4, <2>1, <2>2
<1>10. Dialling'
  BY <1>9 DEF Dialling
<1>11. NeverStranded'
  <2>1. client'.loop \in {"idle", "sleep", "dialling"}
    BY <1>8 DEF ClientRecord
  <2>2. CASE conn[c].by = "loop"
    BY <1>7, <1>8, <2>2 DEF NeverStranded
  <2>3. CASE conn[c].by # "loop"
    BY <1>8, <1>10, <2>1, <2>3 DEF NeverStranded, Dialling
  <2>4. QED
    BY <2>2, <2>3
<1>12. OpenedInOrder'
  BY <1>1, <1>3, <1>4, OpenedStays
<1>13. down' \in [Conns -> Seq(DownFrame)] /\ up' \in [Conns -> Seq(UpFrame)]
  BY <1>2 DEF TunnelInv, TunnelTypeOK
<1>14. \A d \in Conns : conn[d].server # "none" => conn'[d] = conn[d]
  BY <1>3, <1>4
<1>15. QED
  BY <1>2, <1>5, <1>8, <1>10, <1>11, <1>12, <1>13, <1>14, AgentStep

\* A socket closes at the agent's end: handlers are aborted, and a loop is left behind.
LEMMA ClientClosedInv == ASSUME TunnelInv, NEW c \in Conns, ClientClosed(c) PROVE TunnelInv'
<1>1. /\ conn \in [Conns -> Conn] /\ conn[c] \in Conn /\ ConnOK(conn[c]) /\ conn[c].client \in {"open", "closing"}
      /\ client \in ClientRecord /\ \A d \in Conns : ConnOK(conn[d]) /\ conn[c].ends # "no" /\ down \in [Conns -> Seq(DownFrame)]
  BY DEF TunnelInv, TunnelTypeOK, ClientClosed
<1> DEFINE x == IF conn[c].server = "closed" THEN Gone(conn[c]) ELSE [conn[c] EXCEPT !.client = "closed"]
<1>2. conn' = [conn EXCEPT ![c] = x]
  BY Zenon DEF ClientClosed
<1>3. /\ x \in Conn /\ ConnOK(x) /\ x.client = "closed" /\ x.ends # "no" /\ x.server = conn[c].server
      /\ conn[c].server # "closed" => x.hello = conn[c].hello
  <2>1. CASE conn[c].server = "closed"
    BY <1>1, <2>1, GoneFields
  <2>2. CASE conn[c].server # "closed"
    BY <1>1, <2>2 DEF Conn, ConnOK
  <2>3. QED
    BY <2>1, <2>2
<1> HIDE DEF x
<1>4. /\ conn' \in [Conns -> Conn] /\ conn'[c] = x /\ \A d \in Conns : d # c => conn'[d] = conn[d]
  BY <1>1, <1>2, <1>3
<1>5. ConnsGoOn
  BY <1>1, <1>3, <1>4 DEF ConnsGoOn
<1> DEFINE cl == IF client.socket = c THEN [client EXCEPT !.socket = None] ELSE client
<1>6. /\ UNCHANGED <<agent, inFlight, call, up, latest>> /\ handler' = Aborted /\ down' = [down EXCEPT ![c] = << >>]
      /\ client' = IF cl.stopped THEN cl
                   ELSE IF conn[c].ends = "server" /\ conn[c].terminal THEN [cl EXCEPT !.stopped = TRUE]
                   ELSE Reconnecting(cl)
  BY DEF ClientClosed
<1>7. cl \in ClientRecord /\ cl.loop = client.loop
  BY <1>1 DEF ClientRecord
<1> HIDE DEF cl
<1>8. /\ client' \in ClientRecord
      /\ client'.loop \in {client.loop, "sleep"}
      /\ ~client'.stopped => client'.loop # "idle"
  BY <1>6, <1>7 DEF Reconnecting, ClientRecord
<1>9. Dialling'
  <2>1. SUFFICES ASSUME client'.loop = "dialling" PROVE \E d \in Conns : conn'[d].client = "connecting" /\ conn'[d].by = "loop"
    BY DEF Dialling
  <2>2. PICK d \in Conns : conn[d].client = "connecting" /\ conn[d].by = "loop"
    BY <1>8, <2>1 DEF TunnelInv, Dialling
  <2>3. QED
    BY <1>1, <1>4, <2>2
<1>10. NeverStranded'
  <2>1. client'.loop \in {"idle", "sleep", "dialling"}
    BY <1>8 DEF ClientRecord
  <2>2. QED
    BY <1>8, <1>9, <2>1 DEF NeverStranded, Dialling
<1>11. OpenedInOrder'
  BY <1>1, <1>3, <1>4, OpenedStays
<1>12. /\ down' \in [Conns -> Seq(DownFrame)] /\ up' \in [Conns -> Seq(UpFrame)]
       /\ \A d \in Conns : down'[d] = down[d] \/ (down'[d] = << >> /\ conn'[d].ends # "no")
  BY <1>1, <1>3, <1>4, <1>6 DEF TunnelInv, TunnelTypeOK
<1>13. \A d \in Conns : /\ conn'[d].server = conn[d].server
                        /\ conn[d].server # "closed" => conn'[d].hello = conn[d].hello
  BY <1>3, <1>4
<1>14. QED
  BY <1>5, <1>6, <1>8, <1>9, <1>10, <1>11, <1>12, <1>13, AgentStep

\* Before the first registration and the first connection.
LEMMA TunnelInitInv == TunnelInit => TunnelInv
<1> SUFFICES ASSUME TunnelInit PROVE TunnelInv
  OBVIOUS
<1>1. /\ agent = None /\ inFlight = 0 /\ latest = None /\ None \notin Conns
      /\ call = [k \in Calls |-> [state |-> "new", via |-> None, busy |-> FALSE, unsettled |-> FALSE]]
      /\ conn = [c \in Conns |-> [client |-> "none", server |-> "none", hello |-> "no",
                                  ends |-> "no", terminal |-> FALSE, by |-> "start"]]
      /\ up = [c \in Conns |-> << >>] /\ down = [c \in Conns |-> << >>]
      /\ client = [stopped |-> TRUE, loop |-> "idle", socket |-> None, failed |-> FALSE]
      /\ handler = [k \in Calls |-> "none"]
  BY TunnelAssumption DEF TunnelInit
<1>2. call \in [Calls -> CallRecord] /\ \A k \in Calls : ~call[k].busy /\ call[k].via = None /\ call[k].state = "new"
  BY <1>1 DEF CallRecord, Registrations
<1>3. conn \in [Conns -> Conn] /\ \A c \in Conns : conn[c].client = "none" /\ ConnOK(conn[c])
  BY <1>1 DEF Conn, ConnOK
<1>4. client \in ClientRecord /\ client.stopped /\ client.loop = "idle"
  BY <1>1 DEF ClientRecord
<1>5. TunnelTypeOK
  <2>1. agent \in Registrations /\ latest \in Registrations /\ inFlight \in Nat
    BY <1>1 DEF Registrations
  <2>2. up \in [Conns -> Seq(UpFrame)] /\ down \in [Conns -> Seq(DownFrame)]
    BY <1>1
  <2>3. handler \in [Calls -> {"none", "running", "over"}]
    BY <1>1
  <2>4. QED
    BY <1>2, <1>3, <1>4, <2>1, <2>2, <2>3 DEF TunnelTypeOK
<1>6. OpenedInOrder
  <2>1. Opened = 1..0 /\ 0 \in 0..MaxConns
    BY <1>3, TunnelAssumption DEF Opened
  <2>2. QED
    BY <2>1 DEF OpenedInOrder
<1>7. SlotsOK
  <2>1. {k \in Calls : call[k].busy} = {}
    BY <1>2
  <2>2. Cardinality({k \in Calls : call[k].busy}) = 0
    BY <2>1, FS_EmptySet
  <2>3. QED
    BY <1>1, <2>2 DEF SlotsOK
<1>8. LatestOK /\ HoldsLatest /\ \A k \in Calls : CallOK(call[k])
  BY <1>1 DEF LatestOK, HoldsLatest, CallOK
<1>9. FramesOK /\ HandlersOK /\ ResultsOK
  BY <1>1 DEF FramesOK, HandlersOK, HandlerOK, ResultsOK
<1>10. Dialling /\ NeverStranded
  BY <1>4 DEF Dialling, NeverStranded
<1>11. QED
  BY <1>3, <1>5, <1>6, <1>7, <1>8, <1>9, <1>10 DEF TunnelInv

\* No step of the relay, the network or the agent breaks the invariant.
LEMMA TunnelNextInv == TunnelInv /\ [TunnelNext]_tunnelVars => TunnelInv'
<1> SUFFICES ASSUME TunnelInv, [TunnelNext]_tunnelVars PROVE TunnelInv'
  OBVIOUS
<1>1. CASE UNCHANGED tunnelVars
  <2>1. UNCHANGED <<agent, inFlight, call, conn, up, down, client, handler, restarts, latest>>
    BY <1>1 DEF tunnelVars
  <2>2. /\ TunnelTypeOK' /\ OpenedInOrder' /\ LatestOK' /\ HoldsLatest' /\ SlotsOK' /\ Dialling' /\ NeverStranded'
    BY <2>1 DEF TunnelInv, TunnelTypeOK, OpenedInOrder, Opened, LatestOK, HoldsLatest, SlotsOK, Dialling, NeverStranded
  <2>3. FramesOK' /\ HandlersOK' /\ ResultsOK'
    BY <2>1, FramesLost, ResultsStay, ConnsAsBefore DEF Ended
  <2>4. \A k \in Calls : CallOK(call[k])'
    BY <2>1, CallsOnConns
  <2>5. \A c \in Conns : ConnOK(conn'[c])
    BY <2>1 DEF TunnelInv
  <2>6. QED
    BY <2>2, <2>3, <2>4, <2>5 DEF TunnelInv
<1>2. CASE RegisterDirect \/ UnregisterByHost
  BY <1>2, RegisterDirectInv, UnregisterInv
<1>3. CASE ClientStart \/ ClientStop \/ ClientRestart \/ LoopWakes
  BY <1>3, ClientStartInv, ClientStopInv, ClientRestartInv, LoopWakesInv
<1>4. ASSUME NEW k \in Calls, CallTool(k) \/ RequestTimeout(k) \/ DirectSettles(k) \/ HandlerReturns(k)
      PROVE  TunnelInv'
  BY <1>4, CallToolInv, RequestTimeoutInv, DirectSettlesInv, HandlerReturnsInv
<1>5. ASSUME NEW c \in Conns, ServerHello(c) \/ HelloRefused(c) \/ HelloAccepted(c) \/ HelloTimeout(c)
      PROVE  TunnelInv'
  BY <1>5, SocketInv, HelloAcceptedInv
<1>6. ASSUME NEW c \in Conns, ServerResult(c) \/ ServerClosed(c) \/ Drop(c)
      PROVE  TunnelInv'
  BY <1>6, ServerResultInv, ServerClosedInv, DropInv
<1>7. ASSUME NEW c \in Conns, SocketOpens(c) \/ ConnectFails(c) \/ ClientClosed(c) \/ ClientReceives(c)
      PROVE  TunnelInv'
  BY <1>7, SocketOpensInv, ConnectFailsInv, ClientClosedInv, ClientReceivesInv
<1>8. QED
  BY <1>1, <1>2, <1>3, <1>4, <1>5, <1>6, <1>7 DEF TunnelNext

\* The registration made last is held and no other, every call is accounted for, no agent works on a
\* call the relay gave up, and a running client has something to connect with (relay.ts and the
\* network agent).
THEOREM TunnelAgrees == TunnelSpec => []TunnelSound
<1>1. TunnelInv => TunnelSound
  <2> SUFFICES ASSUME TunnelInv PROVE TunnelSound
    OBVIOUS
  <2>1. CallsAccounted
    <3>1. inFlight = Cardinality({k \in Calls : call[k].busy}) /\ (Strategy = "reject" => inFlight <= 1)
      BY DEF TunnelInv, SlotsOK
    <3>2. ASSUME NEW k \in Calls
          PROVE  /\ call[k].busy => call[k].unsettled /\ (Ended(k) => call[k].via = Direct)
                 /\ call[k].state = "open" /\ call[k].via # Direct => conn[call[k].via].server # "closed"
      <4>1. CallOK(call[k])
        BY DEF TunnelInv
      <4>2. QED
        BY <4>1 DEF CallOK, Ended
    <3>3. QED
      BY <3>1, <3>2 DEF CallsAccounted
  <2>2. NoOrphanWork
    BY DEF TunnelInv, HandlersOK, HandlerOK, CancelAfter, NoOrphanWork
  <2>3. QED
    BY <2>1, <2>2 DEF TunnelInv, TunnelSound
<1>2. QED
  BY TunnelInitInv, TunnelNextInv, <1>1, PTL DEF TunnelSpec

-----------------------------------------------------------------------------
(* The page and its server. *)

ToPage == {<<"auth_ok">>, <<"auth_error">>} \cup {<<"note", n>> : n \in Nat} \cup {<<"response", r>> : r \in Requests}
ToServer == {<<"auth">>} \cup {<<"request", r>> : r \in Requests}
Told == {<<"note", n>> : n \in Nat} \cup {Initialized, Context}
SessionRecord == [stored : BOOLEAN, old : BOOLEAN, authenticated : BOOLEAN, pending : Seq(Nat)]
PageRecord == [loaded : BOOLEAN, ws : Sockets \cup {NoSocket}, attempts : Nat, timer : BOOLEAN, authenticated : BOOLEAN,
               initialized : BOOLEAN, early : Seq(Told)]
SocketRecord == [page : {"none", "connecting", "open", "closed"}, server : {"none", "accepted", "open", "closing", "closed"},
                 dropped : BOOLEAN, checking : BOOLEAN]
RequestRecord == [pending : BOOLEAN, at : Sockets \cup {NoSocket}]

BridgeTypes ==
  /\ session \in SessionRecord /\ page \in PageRecord
  /\ socket \in [Sockets -> SocketRecord]
  /\ toPage \in [Sockets -> Seq(ToPage)] /\ toServer \in [Sockets -> Seq(ToServer)]
  /\ request \in [Requests -> RequestRecord] /\ answers \in [Requests -> Nat]
  /\ seen \in Seq(Told)

Joined(q, w) == q \o w
With(q, f) == Append(q, f)

\* What was heard and what is under way together ascend without a gap, and only one
\* socket has notes under way.
Lines(heard, ways) ==
  /\ \A s, t \in Sockets : NotesIn(ways[s]) # {} /\ NotesIn(ways[t]) # {} => s = t
  /\ Consecutive(heard)
  /\ \A s \in Sockets : Consecutive(Joined(heard, ways[s]))

\* The server has sent no note yet.
Quiet(heard, ways) == NotesIn(heard) = {} /\ \A s \in Sockets : NotesIn(ways[s]) = {}

NotesOrdered ==
  /\ ~page.loaded => session.pending = <<>> /\ seen = <<>> /\ page.early = <<>> /\ Quiet(Heard, toPage)
  /\ ~page.initialized => seen = <<>>
  /\ page.initialized => page.early = <<>> /\ seen # <<>> /\ seen[1] = Initialized
  /\ session.pending # <<>> =>
       /\ Quiet(Heard, toPage)
       /\ \E first \in {0, 1} : session.pending = [i \in 1..(Extras + 1 - first) |-> first + i - 1]
  /\ Lines(Heard, toPage)

\* No frame of a kind is under way.
Without(kind, ways) == \A s \in Sockets : \A i \in 1..Len(ways[s]) : ways[s][i][1] # kind

\* Whoever takes the session for authenticated was told so.
Trusted ==
  AuthRequired =>
    \/ session.authenticated
    \/ /\ ~page.authenticated
       /\ Without("auth_ok", toPage) /\ Without("request", toServer)

BridgeInv == BridgeTypes /\ NotesOrdered /\ Trusted /\ RequestsAnsweredOnce

-----------------------------------------------------------------------------
(* Sequences of what is told. *)

Tagged(q) == q \in Seq(ToPage \cup Told)

\* What is told is a frame or a word of the bridge itself, and a note has a number.
LEMMA NotesInSeq ==
  ASSUME NEW q, Tagged(q)
  PROVE  /\ \A i \in NotesIn(q) : i \in Nat /\ i >= 1 /\ i <= Len(q) /\ q[i][1] = "note" /\ q[i][2] \in Nat
         /\ Len(q) \in Nat
         /\ \A i \in 1..Len(q) : q[i] \in ToPage \cup Told
<1>1. Len(q) \in Nat /\ \A i \in 1..Len(q) : q[i] \in ToPage \cup Told
  BY DEF Tagged
<1>2. \A x \in ToPage \cup Told : x[1] = "note" => x[2] \in Nat
  BY DEF ToPage, Told, Initialized, Context
<1>3. QED
  BY <1>1, <1>2 DEF NotesIn

\* Notes stay consecutive when other elements are put in or taken out, and when the
\* last of them are lost: g finds each note of w in q, and misses none before it.
LEMMA ConsecutiveIn ==
  ASSUME NEW q, NEW w, Consecutive(q), NEW g,
         \A i \in NotesIn(w) : g[i] \in NotesIn(q) /\ q[g[i]] = w[i],
         \A i, j \in NotesIn(w) : j < i => g[j] < g[i],
         \A i \in NotesIn(w), k \in NotesIn(q) : k < g[i] => \E j \in NotesIn(w) : j < i /\ g[j] = k
  PROVE  Consecutive(w)
<1> SUFFICES ASSUME NEW i \in NotesIn(w)
             PROVE  /\ w[i][2] \in 0..Extras
                    /\ \A j \in NotesIn(w) : j < i => w[j][2] < w[i][2]
                    /\ w[i][2] > 1 => \E j \in NotesIn(w) : j < i /\ w[j][2] = w[i][2] - 1
  BY DEF Consecutive
<1>1. g[i] \in NotesIn(q) /\ q[g[i]] = w[i]
  OBVIOUS
<1>2. w[i][2] \in 0..Extras
  BY <1>1 DEF Consecutive
<1>3. ASSUME NEW j \in NotesIn(w), j < i PROVE w[j][2] < w[i][2]
  BY <1>1, <1>3 DEF Consecutive
<1>4. ASSUME w[i][2] > 1 PROVE \E j \in NotesIn(w) : j < i /\ w[j][2] = w[i][2] - 1
  <2>1. PICK k \in NotesIn(q) : k < g[i] /\ q[k][2] = w[i][2] - 1
    BY <1>1, <1>4 DEF Consecutive
  <2>2. PICK j \in NotesIn(w) : j < i /\ g[j] = k
    BY <2>1
  <2>3. QED
    BY <2>1, <2>2
<1>5. QED
  BY <1>2, <1>3, <1>4

\* The notes of two sequences in a row.
LEMMA NotesOfConcat ==
  ASSUME NEW q, Tagged(q), NEW w, Tagged(w)
  PROVE  /\ Tagged(Joined(q, w)) /\ Len(Joined(q, w)) = Len(q) + Len(w)
         /\ \A i \in 1..Len(q) : Joined(q, w)[i] = q[i]
         /\ \A i \in 1..Len(w) : Joined(q, w)[Len(q) + i] = w[i]
         /\ \A i \in NotesIn(q) : i \in NotesIn(Joined(q, w)) /\ Joined(q, w)[i] = q[i]
         /\ \A i \in NotesIn(w) : Len(q) + i \in NotesIn(Joined(q, w)) /\ Joined(q, w)[Len(q) + i] = w[i]
         /\ \A i \in NotesIn(Joined(q, w)) : (i <= Len(q) /\ i \in NotesIn(q)) \/ (i > Len(q) /\ i - Len(q) \in NotesIn(w))
<1>1. Len(q) \in Nat /\ Len(w) \in Nat /\ Len(Joined(q, w)) = Len(q) + Len(w) /\ Tagged(Joined(q, w))
  BY DEF Tagged, Joined
<1>2. \A i \in 1..Len(q) : Joined(q, w)[i] = q[i]
  BY DEF Tagged, Joined
<1>3. \A i \in 1..Len(w) : Joined(q, w)[Len(q) + i] = w[i]
  BY DEF Tagged, Joined
<1>4. \A i \in 1..Len(Joined(q, w)) : i \in 1..Len(q) \/ (i > Len(q) /\ i - Len(q) \in 1..Len(w) /\ Joined(q, w)[i] = w[i - Len(q)])
  <2> SUFFICES ASSUME NEW i \in 1..Len(Joined(q, w)), i \notin 1..Len(q)
               PROVE  i > Len(q) /\ i - Len(q) \in 1..Len(w) /\ Joined(q, w)[i] = w[i - Len(q)]
    OBVIOUS
  <2>1. i > Len(q) /\ i - Len(q) \in 1..Len(w) /\ Len(q) + (i - Len(q)) = i
    BY <1>1
  <2>2. QED
    BY <2>1, <1>3
<1>5. \A i \in 1..Len(q) : i \in 1..Len(Joined(q, w))
  BY <1>1
<1>6. \A i \in 1..Len(w) : Len(q) + i \in 1..Len(Joined(q, w))
  BY <1>1
<1>7. \A i \in NotesIn(q) : i \in NotesIn(Joined(q, w)) /\ Joined(q, w)[i] = q[i]
  BY <1>2, <1>5 DEF NotesIn
<1>8. \A i \in NotesIn(w) : Len(q) + i \in NotesIn(Joined(q, w)) /\ Joined(q, w)[Len(q) + i] = w[i]
  BY <1>3, <1>6 DEF NotesIn
<1>9. \A i \in NotesIn(Joined(q, w)) : (i <= Len(q) /\ i \in NotesIn(q)) \/ (i > Len(q) /\ i - Len(q) \in NotesIn(w))
  <2> SUFFICES ASSUME NEW i \in NotesIn(Joined(q, w))
               PROVE  \/ i <= Len(q) /\ i \in NotesIn(q)
                      \/ i > Len(q) /\ i - Len(q) \in NotesIn(w)
    OBVIOUS
  <2>1. i \in 1..Len(Joined(q, w)) /\ Joined(q, w)[i][1] = "note"
    BY DEF NotesIn
  <2>2. CASE i \in 1..Len(q)
    BY <1>2, <2>1, <2>2 DEF NotesIn
  <2>3. CASE i > Len(q) /\ i - Len(q) \in 1..Len(w) /\ Joined(q, w)[i] = w[i - Len(q)]
    BY <2>1, <2>3 DEF NotesIn
  <2>4. QED
    BY <1>4, <2>1, <2>2, <2>3
<1>10. QED
  BY <1>1, <1>2, <1>3, <1>7, <1>8, <1>9, Zenon

\* What is lost at the end leaves no gap.
LEMMA ConsecutivePrefix ==
  ASSUME NEW q, Tagged(q), NEW w, Tagged(w), Consecutive(Joined(q, w))
  PROVE  Consecutive(q)
<1>1. /\ Tagged(Joined(q, w)) /\ Consecutive(Joined(q, w))
      /\ \A i \in NotesIn(q) : i \in NotesIn(Joined(q, w)) /\ Joined(q, w)[i] = q[i]
      /\ \A i \in NotesIn(Joined(q, w)) : (i <= Len(q) /\ i \in NotesIn(q)) \/ (i > Len(q) /\ i - Len(q) \in NotesIn(w))
  <2>1. Tagged(Joined(q, w)) /\ \A i \in NotesIn(q) : i \in NotesIn(Joined(q, w)) /\ Joined(q, w)[i] = q[i]
    BY NotesOfConcat
  <2>2. \A i \in NotesIn(Joined(q, w)) : (i <= Len(q) /\ i \in NotesIn(q)) \/ (i > Len(q) /\ i - Len(q) \in NotesIn(w))
    BY NotesOfConcat
  <2>3. QED
    BY <2>1, <2>2
<1> DEFINE g == [i \in 1..Len(q) |-> i]
<1>2. \A i \in NotesIn(q) : g[i] = i
  BY DEF NotesIn
<1> HIDE DEF g
<1>3. Len(q) \in Nat /\ (\A i \in NotesIn(q) : i \in Nat /\ i <= Len(q)) /\ \A k \in NotesIn(Joined(q, w)) : k \in Nat
  BY <1>1, NotesInSeq
<1>4. \A i \in NotesIn(q), k \in NotesIn(Joined(q, w)) : k < g[i] => \E j \in NotesIn(q) : j < i /\ g[j] = k
  <2> SUFFICES ASSUME NEW i \in NotesIn(q), NEW k \in NotesIn(Joined(q, w)), k < g[i]
               PROVE  \E j \in NotesIn(q) : j < i /\ g[j] = k
    OBVIOUS
  <2>1. k < i /\ k \in NotesIn(q)
    BY <1>1, <1>2, <1>3
  <2>2. QED
    BY <1>2, <2>1
<1>5. QED
  BY <1>1, <1>2, <1>4, ConsecutiveIn

\* Nothing but notes counts.
LEMMA ConsecutiveWithout ==
  ASSUME NEW q, Tagged(q), NEW w, Tagged(w), NotesIn(w) = {}, Consecutive(q)
  PROVE  Consecutive(Joined(q, w))
<1> DEFINE a == Joined(q, w)
<1>1. NotesIn(a) = NotesIn(q) /\ \A i \in NotesIn(q) : a[i] = q[i]
  <2>1. /\ \A i \in NotesIn(q) : i \in NotesIn(a) /\ a[i] = q[i]
        /\ \A i \in NotesIn(a) : i \in NotesIn(q)
    BY NotesOfConcat
  <2> HIDE DEF a
  <2>2. QED
    BY <2>1
<1> HIDE DEF a
<1>2. Consecutive(a)
  BY <1>1 DEF Consecutive
<1>3. QED
  BY <1>2 DEF a

\* An element that is not a note, between others.
LEMMA ConsecutiveBetween ==
  ASSUME NEW q, Tagged(q), NEW w, Tagged(w), NEW m, Tagged(m), NotesIn(m) = {}
  PROVE  Consecutive(Joined(q, w)) <=> Consecutive(Joined(Joined(q, m), w))
<1>0. Len(q) \in Nat /\ Len(m) \in Nat /\ Len(w) \in Nat /\ Tagged(Joined(q, m))
  BY NotesInSeq, NotesOfConcat
<1>1. Len(Joined(q, m)) = Len(q) + Len(m)
  BY NotesOfConcat
<1> DEFINE a == Joined(q, w)
           b == Joined(Joined(q, m), w)
<1>2. /\ Tagged(a) /\ Tagged(b)
      /\ \A i \in NotesIn(q) : i \in NotesIn(a) /\ a[i] = q[i] /\ i \in NotesIn(b) /\ b[i] = q[i] /\ i <= Len(q) /\ i \in Nat
  <2>1. \A i \in NotesIn(q) : i \in NotesIn(Joined(q, m)) /\ (Joined(q, m))[i] = q[i]
    BY NotesOfConcat
  <2>2. Tagged(b) /\ \A i \in NotesIn(Joined(q, m)) : i \in NotesIn(b) /\ b[i] = (Joined(q, m))[i]
    BY <1>0, NotesOfConcat
  <2>3. Tagged(a) /\ \A i \in NotesIn(q) : i \in NotesIn(a) /\ a[i] = q[i]
    BY NotesOfConcat
  <2>4. \A i \in NotesIn(q) : i <= Len(q) /\ i \in Nat
    BY NotesInSeq
  <2> HIDE DEF a, b
  <2>5. QED
    BY <2>1, <2>2, <2>3, <2>4
<1>3. \A i \in NotesIn(w) : /\ Len(q) + i \in NotesIn(a) /\ a[Len(q) + i] = w[i]
                            /\ Len(q) + Len(m) + i \in NotesIn(b) /\ b[Len(q) + Len(m) + i] = w[i]
                            /\ i \in Nat /\ i >= 1
  <2>1. \A i \in NotesIn(w) : Len(q) + i \in NotesIn(a) /\ a[Len(q) + i] = w[i]
    BY NotesOfConcat
  <2>2. \A i \in NotesIn(w) : Len(Joined(q, m)) + i \in NotesIn(b) /\ b[Len(Joined(q, m)) + i] = w[i]
    BY <1>0, NotesOfConcat
  <2>3. \A i \in NotesIn(w) : i \in Nat /\ i >= 1
    BY NotesInSeq
  <2> HIDE DEF a, b
  <2>4. QED
    BY <1>1, <2>1, <2>2, <2>3
<1>4. \A i \in NotesIn(a) : \/ i \in NotesIn(q) /\ i <= Len(q)
                            \/ i > Len(q) /\ i - Len(q) \in NotesIn(w)
  BY NotesOfConcat
<1>5. \A i \in NotesIn(b) : \/ i \in NotesIn(q) /\ i <= Len(q)
                            \/ i > Len(q) + Len(m) /\ i - Len(q) - Len(m) \in NotesIn(w)
  <2>1. \A i \in NotesIn(b) : \/ i <= Len(Joined(q, m)) /\ i \in NotesIn(Joined(q, m))
                              \/ i > Len(Joined(q, m)) /\ i - Len(Joined(q, m)) \in NotesIn(w)
    BY <1>0, NotesOfConcat
  <2>2. \A i \in NotesIn(Joined(q, m)) : i \in NotesIn(q) /\ i <= Len(q)
    BY NotesOfConcat
  <2>3. \A i \in NotesIn(b) : i \in Nat
    BY <1>2, NotesInSeq
  <2>4. QED
    BY <1>0, <1>1, <2>1, <2>2, <2>3
<1>6. (\A i \in NotesIn(a) : i \in Nat) /\ (\A i \in NotesIn(b) : i \in Nat)
  BY <1>2, NotesInSeq
<1> DEFINE g == [i \in 1..Len(b) |-> IF i <= Len(q) THEN i ELSE i - Len(m)]
           h == [i \in 1..Len(a) |-> IF i <= Len(q) THEN i ELSE i + Len(m)]
<1>7. (\A i \in NotesIn(b) : g[i] = IF i <= Len(q) THEN i ELSE i - Len(m))
      /\ (\A i \in NotesIn(a) : h[i] = IF i <= Len(q) THEN i ELSE i + Len(m))
  BY DEF NotesIn
<1> HIDE DEF g, h, a, b
<1>8. /\ \A i \in NotesIn(b) : g[i] \in NotesIn(a) /\ a[g[i]] = b[i] /\ h[g[i]] = i
      /\ \A i \in NotesIn(a) : h[i] \in NotesIn(b) /\ b[h[i]] = a[i] /\ g[h[i]] = i
  <2>1. ASSUME NEW i \in NotesIn(b) PROVE g[i] \in NotesIn(a) /\ a[g[i]] = b[i] /\ h[g[i]] = i
    <3>1. CASE i \in NotesIn(q) /\ i <= Len(q)
      BY <1>2, <1>7, <3>1
    <3>2. CASE i > Len(q) + Len(m) /\ i - Len(q) - Len(m) \in NotesIn(w)
      <4> DEFINE k == i - Len(q) - Len(m)
      <4>1. k \in NotesIn(w) /\ k \in Nat /\ k >= 1 /\ i = Len(q) + Len(m) + k /\ ~(i <= Len(q))
        BY <1>0, <1>3, <1>6, <3>2
      <4> HIDE DEF k
      <4>2. g[i] = Len(q) + k /\ ~(Len(q) + k <= Len(q))
        BY <1>0, <1>7, <4>1
      <4>3. g[i] \in NotesIn(a) /\ a[g[i]] = w[k] /\ b[i] = w[k]
        BY <1>3, <4>1, <4>2
      <4>4. h[g[i]] = Len(q) + k + Len(m)
        BY <1>7, <4>2, <4>3
      <4>5. QED
        BY <1>0, <4>1, <4>3, <4>4
    <3>3. QED
      BY <1>5, <3>1, <3>2
  <2>2. ASSUME NEW i \in NotesIn(a) PROVE h[i] \in NotesIn(b) /\ b[h[i]] = a[i] /\ g[h[i]] = i
    <3>1. CASE i \in NotesIn(q) /\ i <= Len(q)
      BY <1>2, <1>7, <3>1
    <3>2. CASE i > Len(q) /\ i - Len(q) \in NotesIn(w)
      <4> DEFINE k == i - Len(q)
      <4>1. k \in NotesIn(w) /\ k \in Nat /\ k >= 1 /\ i = Len(q) + k /\ ~(i <= Len(q))
        BY <1>0, <1>3, <1>6, <3>2
      <4> HIDE DEF k
      <4>2. h[i] = Len(q) + Len(m) + k /\ ~(Len(q) + Len(m) + k <= Len(q))
        BY <1>0, <1>7, <4>1
      <4>3. h[i] \in NotesIn(b) /\ b[h[i]] = w[k] /\ a[i] = w[k]
        BY <1>3, <4>1, <4>2
      <4>4. g[h[i]] = h[i] - Len(m)
        BY <1>0, <1>7, <4>1, <4>2, <4>3
      <4>5. QED
        BY <1>0, <4>1, <4>2, <4>3, <4>4
    <3>3. QED
      BY <1>4, <3>1, <3>2
  <2>3. QED
    BY <2>1, <2>2
<1>9. /\ \A i, j \in NotesIn(b) : j < i <=> g[j] < g[i]
      /\ \A i, j \in NotesIn(a) : j < i <=> h[j] < h[i]
  BY <1>0, <1>4, <1>5, <1>6, <1>7
<1>10. \A i \in NotesIn(b), k \in NotesIn(a) : k < g[i] => \E j \in NotesIn(b) : j < i /\ g[j] = k
  BY <1>8, <1>9
<1>11. \A i \in NotesIn(a), k \in NotesIn(b) : k < h[i] => \E j \in NotesIn(a) : j < i /\ h[j] = k
  BY <1>8, <1>9
<1>12. Consecutive(a) => Consecutive(b)
  BY <1>8, <1>9, <1>10, ConsecutiveIn
<1>13. Consecutive(b) => Consecutive(a)
  BY <1>8, <1>9, <1>11, ConsecutiveIn
<1>14. QED
  BY <1>12, <1>13 DEF a, b

\* Nothing but notes counts: what comes before the first of them does not.
LEMMA ConsecutiveAfter ==
  ASSUME NEW w, Tagged(w), NEW m, Tagged(m), NotesIn(m) = {}
  PROVE  Consecutive(w) <=> Consecutive(Joined(m, w))
<1>1. Tagged(<<>>)
  BY DEF Tagged
<1>2. Joined(<<>>, w) = w /\ Joined(<<>>, m) = m
  BY DEF Joined, Tagged
<1>3. QED
  BY <1>1, <1>2, ConsecutiveBetween

\* All the notes of a session, m, sent at once after what has none, q; a is both.
LEMMA ConsecutiveAll ==
  ASSUME NEW q, NEW len \in Nat, NEW first \in {0, 1}, NEW count \in Nat, count = Extras + 1 - first, NEW a,
         \A i \in NotesIn(a) : i \in Nat /\ i > len /\ i <= len + count,
         \A k \in 1..count : len + k \in NotesIn(a) /\ a[len + k][2] = first + k - 1
  PROVE  Consecutive(a)
<1>1. Extras \in Nat
  BY BridgeAssumption
<1>2. ASSUME NEW i \in NotesIn(a) PROVE a[i][2] = first + i - len - 1 /\ i \in Nat /\ i > len /\ i <= len + count
  <2>1. i - len \in 1..count /\ len + (i - len) = i
    OBVIOUS
  <2>2. QED
    BY <2>1
<1>3. ASSUME NEW i \in NotesIn(a) PROVE a[i][2] \in 0..Extras
  BY <1>1, <1>2
<1>4. ASSUME NEW i \in NotesIn(a), NEW j \in NotesIn(a), j < i PROVE a[j][2] < a[i][2]
  BY <1>2, <1>4
<1>5. ASSUME NEW i \in NotesIn(a), a[i][2] > 1 PROVE \E j \in NotesIn(a) : j < i /\ a[j][2] = a[i][2] - 1
  <2>1. i - 1 - len \in 1..count /\ len + (i - 1 - len) = i - 1
    <3>1. first + i - len - 1 > 1 /\ i \in Nat /\ i > len /\ i <= len + count
      BY <1>2, <1>5
    <3>2. QED
      BY <3>1
  <2>2. i - 1 \in NotesIn(a) /\ i - 1 < i
    BY <1>2, <2>1
  <2>3. a[i - 1][2] = a[i][2] - 1
    BY <1>2, <2>2
  <2>4. QED
    BY <2>2, <2>3
<1>6. QED
  BY <1>3, <1>4, <1>5 DEF Consecutive

\* All the notes of a session, m, sent at once after what has none.
LEMMA ConsecutiveFlush ==
  ASSUME NEW q, Tagged(q), NotesIn(q) = {}, NEW first \in {0, 1}, NEW m, Tagged(m),
         Len(m) = Extras + 1 - first,
         \A i \in 1..Len(m) : m[i] = <<"note", first + i - 1>>
  PROVE  Consecutive(Joined(q, m))
<1> DEFINE a == Joined(q, m)
<1>1. Len(q) \in Nat /\ Len(m) \in Nat /\ \A i \in NotesIn(m) : i \in Nat /\ i <= Len(m) /\ i >= 1
  BY NotesInSeq
<1>2. \A k \in 1..Len(m) : k \in NotesIn(m)
  BY DEF NotesIn
<1>3. Tagged(a)
  BY NotesOfConcat
<1>4. \A i \in NotesIn(a) : i \in NotesIn(q) \/ (i > Len(q) /\ i - Len(q) \in NotesIn(m))
  BY NotesOfConcat
<1>5. \A k \in NotesIn(m) : Len(q) + k \in NotesIn(a) /\ a[Len(q) + k] = m[k]
  BY NotesOfConcat
<1>6. \A i \in NotesIn(a) : i \in Nat
  BY <1>3, NotesInSeq
<1> HIDE DEF a
<1>7. \A i \in NotesIn(a) : i \in Nat /\ i > Len(q) /\ i <= Len(q) + Len(m)
  BY <1>1, <1>4, <1>6
<1>8. \A k \in 1..Len(m) : Len(q) + k \in NotesIn(a) /\ a[Len(q) + k][2] = first + k - 1
  <2>1. \A k \in 1..Len(m) : m[k][2] = first + k - 1
    OBVIOUS
  <2>2. QED
    BY <1>2, <1>5, <2>1
<1>9. Consecutive(a)
  BY <1>1, <1>7, <1>8, ConsecutiveAll
<1>10. QED
  BY <1>9 DEF a

-----------------------------------------------------------------------------
(* What a step does to the lines. *)

Ways == [Sockets -> Seq(ToPage)]

\* What is under way on a socket is a sequence of frames.
LEMMA WaysTagged ==
  ASSUME NEW ways \in Ways, NEW s \in Sockets
  PROVE  Tagged(ways[s])
BY DEF Ways, Tagged

\* Frames that are lost.
LEMMA LinesLose ==
  ASSUME NEW heard, Tagged(heard), NEW ways \in Ways, Lines(heard, ways), NEW s \in Sockets,
         NEW ways2, ways2 = [ways EXCEPT ![s] = <<>>]
  PROVE  ways2 \in Ways /\ Lines(heard, ways2) /\ (Quiet(heard, ways) => Quiet(heard, ways2))
<1>1. ways2 \in Ways /\ \A t \in Sockets : ways2[t] = IF t = s THEN <<>> ELSE ways[t]
  BY DEF Ways
<1>2. NotesIn(<<>>) = {}
  BY DEF NotesIn
<1>3. Joined(heard, <<>>) = heard
  BY DEF Joined, Tagged
<1>4. QED
  BY <1>1, <1>2, <1>3 DEF Lines, Quiet

\* Three sequences in a row.
LEMMA JoinedAssociates ==
  ASSUME NEW q, Tagged(q), NEW w, Tagged(w), NEW m, Tagged(m)
  PROVE  Joined(q, Joined(w, m)) = Joined(Joined(q, w), m)
BY ConcatAssociative DEF Tagged, Joined

\* One element more.
LEMMA JoinedOne ==
  ASSUME NEW q, Tagged(q), NEW f \in ToPage \cup Told
  PROVE  Append(q, f) = Joined(q, <<f>>)
BY DEF Tagged, Joined

\* Frames that are sent: others than notes, or all the notes there are.
LEMMA LinesSend ==
  ASSUME NEW heard, Tagged(heard), NEW ways \in Ways, Lines(heard, ways), NEW s \in Sockets,
         NEW m \in Seq(ToPage),
         \/ NotesIn(m) = {}
         \/ /\ Quiet(heard, ways)
            /\ \E first \in {0, 1} : Len(m) = Extras + 1 - first /\ \A i \in 1..Len(m) : m[i] = <<"note", first + i - 1>>,
         NEW ways2 \in Ways, ways2[s] = Joined(ways[s], m), \A t \in Sockets : t # s => ways2[t] = ways[t]
  PROVE  /\ Lines(heard, ways2)
         /\ Quiet(heard, ways) /\ NotesIn(m) = {} => Quiet(heard, ways2)
<1>1. \A t \in Sockets : ways2[t] = IF t = s THEN Joined(ways[s], m) ELSE ways[t]
  OBVIOUS
<1>2. Tagged(ways[s]) /\ Tagged(m) /\ Tagged(Joined(heard, ways[s]))
  <2>1. Tagged(ways[s]) /\ Tagged(m)
    BY WaysTagged DEF Tagged
  <2>2. QED
    BY <2>1, NotesOfConcat
<1>3. Joined(heard, Joined(ways[s], m)) = Joined(Joined(heard, ways[s]), m)
  BY <1>2, JoinedAssociates
<1>4. CASE NotesIn(m) = {}
  <2>1. NotesIn(Joined(ways[s], m)) = NotesIn(ways[s])
    <3>1. \A i \in NotesIn(Joined(ways[s], m)) : i \in NotesIn(ways[s])
      BY <1>2, <1>4, NotesOfConcat
    <3>2. \A i \in NotesIn(ways[s]) : i \in NotesIn(Joined(ways[s], m))
      BY <1>2, NotesOfConcat
    <3>3. QED
      BY <3>1, <3>2
  <2>2. Consecutive(Joined(Joined(heard, ways[s]), m))
    BY <1>2, <1>4, ConsecutiveWithout DEF Lines
  <2>3. QED
    BY <1>1, <1>3, <2>1, <2>2 DEF Lines, Quiet
<1>5. ASSUME Quiet(heard, ways), NEW first \in {0, 1}, Len(m) = Extras + 1 - first,
             \A i \in 1..Len(m) : m[i] = <<"note", first + i - 1>>
      PROVE  Lines(heard, ways2)
  <2>1. NotesIn(Joined(heard, ways[s])) = {}
    <3>1. \A i \in NotesIn(Joined(heard, ways[s])) : i \in NotesIn(heard) \/ i - Len(heard) \in NotesIn(ways[s])
      BY <1>2, NotesOfConcat
    <3>2. QED
      BY <1>5, <3>1 DEF Quiet
  <2>2. Consecutive(Joined(Joined(heard, ways[s]), m))
    BY <1>2, <1>5, <2>1, ConsecutiveFlush
  <2>3. QED
    BY <1>1, <1>3, <1>5, <2>2 DEF Lines, Quiet
<1>6. QED
  BY <1>1, <1>4, <1>5 DEF Quiet

\* A frame that comes in: a note is heard, the others are not.
LEMMA LinesReceive ==
  ASSUME NEW heard, Tagged(heard), NEW ways \in Ways, Lines(heard, ways), NEW s \in Sockets, ways[s] # <<>>,
         NEW ways2 \in Ways, ways2[s] = Tail(ways[s]), \A t \in Sockets : t # s => ways2[t] = ways[t],
         NEW heard2, Head(ways[s])[1] = "note" => heard2 = With(heard, Head(ways[s])),
         Head(ways[s])[1] # "note" => heard2 = heard
  PROVE  /\ Lines(heard2, ways2)
         /\ Quiet(heard, ways) => Quiet(heard2, ways2) /\ heard2 = heard
<1> DEFINE frame == Head(ways[s])
           rest == Tail(ways[s])
<1>1. ways[s] \in Seq(ToPage) /\ frame \in ToPage /\ rest \in Seq(ToPage) /\ Joined(<<frame>>, rest) = ways[s]
  BY DEF Ways, Joined
<1>2. \A t \in Sockets : ways2[t] = IF t = s THEN rest ELSE ways[t]
  OBVIOUS
<1>3. Append(heard, frame) = Joined(heard, <<frame>>)
  BY <1>1, JoinedOne
<1> HIDE DEF frame, rest
<1>4. Tagged(<<frame>>) /\ Tagged(rest) /\ Tagged(ways[s])
  BY <1>1 DEF Tagged
<1>5. Joined(Joined(heard, <<frame>>), rest) = Joined(heard, ways[s])
  BY <1>1, <1>4, JoinedAssociates
<1>6. \A i \in NotesIn(rest) : 1 + i \in NotesIn(ways[s])
  <2>1. Len(<<frame>>) = 1
    OBVIOUS
  <2>2. \A i \in NotesIn(rest) : Len(<<frame>>) + i \in NotesIn(Joined(<<frame>>, rest))
    BY <1>4, NotesOfConcat, Zenon
  <2>3. QED
    BY <1>1, <2>1, <2>2
<1>7. frame[1] = "note" <=> NotesIn(<<frame>>) # {}
  BY DEF NotesIn
<1>8. frame[1] = "note" => 1 \in NotesIn(ways[s])
  <2>1. frame[1] = "note" => 1 \in NotesIn(<<frame>>)
    BY DEF NotesIn
  <2>2. \A i \in NotesIn(<<frame>>) : i \in NotesIn(Joined(<<frame>>, rest))
    BY <1>4, NotesOfConcat, Zenon
  <2>3. QED
    BY <1>1, <2>1, <2>2
<1>9. CASE frame[1] = "note"
  <2>1. heard2 = Joined(heard, <<frame>>)
    BY <1>3, <1>9 DEF frame, With
  <2>8. Tagged(heard2)
    <3>1. Tagged(Joined(heard, <<frame>>))
      BY <1>4, NotesOfConcat
    <3>2. QED
      BY <2>1, <3>1, Zenon
  <2>2. Consecutive(Joined(heard2, rest))
    BY <1>5, <2>1 DEF Lines
  <2>3. Consecutive(heard2)
    BY <1>4, <2>8, <2>2, ConsecutivePrefix
  <2>4. ASSUME NEW t \in Sockets, t # s
        PROVE  NotesIn(ways[t]) = {} /\ Consecutive(Joined(heard2, ways[t]))
    <3>1. NotesIn(ways[t]) = {} /\ Tagged(ways[t])
      BY <1>8, <1>9, <2>4, WaysTagged DEF Lines
    <3>2. QED
      BY <2>8, <2>3, <3>1, ConsecutiveWithout
  <2>5. Lines(heard2, ways2)
    BY <1>2, <2>2, <2>3, <2>4 DEF Lines
  <2>6. ~Quiet(heard, ways)
    BY <1>8, <1>9 DEF Quiet
  <2>7. QED
    BY <1>2, <2>5, <2>6
<1>10. CASE frame[1] # "note"
  <2>1. heard2 = heard
    BY <1>10 DEF frame
  <2>2. Consecutive(Joined(heard, rest))
    <3>1. Consecutive(Joined(Joined(heard, <<frame>>), rest))
      BY <1>5 DEF Lines
    <3>2. QED
      BY <1>4, <1>7, <1>10, <3>1, ConsecutiveBetween
  <2>3. Lines(heard, ways2)
    BY <1>2, <1>6, <2>2 DEF Lines
  <2>4. Quiet(heard, ways) => Quiet(heard, ways2)
    BY <1>2, <1>6 DEF Quiet
  <2>5. QED
    BY <1>2, <2>1, <2>3, <2>4
<1>11. QED
  BY <1>9, <1>10

\* The app is told something else.
LEMMA LinesTell ==
  ASSUME NEW heard, Tagged(heard), NEW ways \in Ways, Lines(heard, ways),
         NEW m, Tagged(m), NotesIn(m) = {},
         NEW heard2, heard2 = Joined(heard, m) \/ heard2 = Joined(m, heard)
  PROVE  Lines(heard2, ways) /\ (Quiet(heard, ways) => Quiet(heard2, ways))
<1>1. \A s \in Sockets : Tagged(ways[s]) /\ Tagged(Joined(heard, ways[s]))
  BY WaysTagged, NotesOfConcat
<1>2. CASE heard2 = Joined(heard, m)
  <2>1. Consecutive(heard2)
    BY <1>2, ConsecutiveWithout DEF Lines
  <2>2. \A s \in Sockets : Consecutive(Joined(heard2, ways[s]))
    BY <1>1, <1>2, ConsecutiveBetween DEF Lines
  <2>3. \A i \in NotesIn(heard2) : i \in NotesIn(heard)
    BY <1>2, NotesOfConcat
  <2>4. QED
    BY <2>1, <2>2, <2>3 DEF Lines, Quiet
<1>3. CASE heard2 = Joined(m, heard)
  <2>1. Consecutive(heard2)
    BY <1>3, ConsecutiveAfter DEF Lines
  <2>2. \A s \in Sockets : Consecutive(Joined(heard2, ways[s]))
    <3>1. \A s \in Sockets : Joined(heard2, ways[s]) = Joined(m, Joined(heard, ways[s]))
      BY <1>1, <1>3, JoinedAssociates
    <3>2. \A s \in Sockets : Consecutive(Joined(m, Joined(heard, ways[s])))
      BY <1>1, ConsecutiveAfter DEF Lines
    <3>3. QED
      BY <3>1, <3>2
  <2>3. \A i \in NotesIn(heard2) : i - Len(m) \in NotesIn(heard)
    BY <1>3, NotesOfConcat
  <2>4. QED
    BY <2>1, <2>2, <2>3 DEF Lines, Quiet
<1>4. QED
  BY <1>2, <1>3


Frames(m) == [i \in 1..Len(m) |-> <<"note", m[i]>>]

\* The frames of the buffered notes (server.ts, onopen).
LEMMA FramesNumbered ==
  ASSUME NEW m \in Seq(Nat)
  PROVE  /\ Frames(m) \in Seq(ToPage) /\ Len(Frames(m)) = Len(m)
         /\ \A i \in 1..Len(m) : Frames(m)[i] = <<"note", m[i]>>
<1>1. Len(m) \in Nat /\ \A i \in 1..Len(m) : m[i] \in Nat
  OBVIOUS
<1>2. \A i \in 1..Len(m) : <<"note", m[i]>> \in ToPage
  BY <1>1 DEF ToPage
<1>3. QED
  BY <1>1, <1>2 DEF Frames

\* A page that is not loaded, with no socket, is well typed.
LEMMA TypesInit == BridgeInit => BridgeTypes
<1> SUFFICES ASSUME BridgeInit PROVE BridgeTypes
  OBVIOUS
<1> USE BridgeAssumption DEF BridgeInit
<1>1. <<>> \in Seq(Nat) /\ <<>> \in Seq(Told) /\ <<>> \in Seq(ToPage) /\ <<>> \in Seq(ToServer)
  OBVIOUS
<1>2. session \in SessionRecord
  BY <1>1 DEF SessionRecord
<1>3. page \in PageRecord
  BY <1>1 DEF PageRecord
<1>4. socket \in [Sockets -> SocketRecord]
  BY DEF SocketRecord
<1>5. request \in [Requests -> RequestRecord] /\ answers \in [Requests -> Nat]
  BY DEF RequestRecord
<1>6. QED
  BY <1>1, <1>2, <1>3, <1>4, <1>5 DEF BridgeTypes

\* The records of the page, the session and a socket keep their shape.
LEMMA ShutShape ==
  ASSUME socket \in [Sockets -> SocketRecord], NEW s \in Sockets
  PROVE  /\ Shut(s) \in [Sockets -> SocketRecord]
         /\ [Shut(s) EXCEPT ![s].checking = FALSE] \in [Sockets -> SocketRecord]
<1>1. socket[s] \in SocketRecord
  OBVIOUS
<1> DEFINE x == [socket[s] EXCEPT !.server = IF @ = "open" THEN "closing" ELSE @]
           y == [x EXCEPT !.checking = FALSE]
<1>2. x \in SocketRecord
  BY <1>1 DEF SocketRecord
<1>3. y \in SocketRecord
  BY <1>2 DEF SocketRecord
<1>4. Shut(s) = [socket EXCEPT ![s] = x]
  BY DEF Shut
<1> HIDE DEF x
<1>5. Shut(s) \in [Sockets -> SocketRecord] /\ Shut(s)[s] = x
  BY <1>2, <1>4
<1>6. [Shut(s) EXCEPT ![s].checking = FALSE] = [Shut(s) EXCEPT ![s] = y]
  BY <1>5
<1> HIDE DEF y
<1>7. QED
  BY <1>3, <1>5, <1>6

\* touch() changes the age of a session only.
LEMMA TouchedShape ==
  ASSUME session \in SessionRecord
  PROVE  /\ Touched \in SessionRecord /\ Touched.pending = session.pending /\ Touched.authenticated = session.authenticated
         /\ [Touched EXCEPT !.pending = <<>>] \in SessionRecord
         /\ [Touched EXCEPT !.pending = <<>>].pending = <<>>
         /\ [Touched EXCEPT !.pending = <<>>].authenticated = session.authenticated
<1>1. ASSUME NEW old \in BOOLEAN, NEW t, t = [session EXCEPT !.old = old]
      PROVE  /\ t \in SessionRecord /\ t.pending = session.pending /\ t.authenticated = session.authenticated
             /\ [t EXCEPT !.pending = <<>>] \in SessionRecord
             /\ [t EXCEPT !.pending = <<>>].pending = <<>>
             /\ [t EXCEPT !.pending = <<>>].authenticated = session.authenticated
  <2>1. t \in SessionRecord /\ t.pending = session.pending /\ t.authenticated = session.authenticated
    BY <1>1 DEF SessionRecord
  <2>2. <<>> \in Seq(Nat)
    OBVIOUS
  <2>3. /\ [t EXCEPT !.pending = <<>>] \in SessionRecord
        /\ [t EXCEPT !.pending = <<>>].pending = <<>>
        /\ [t EXCEPT !.pending = <<>>].authenticated = t.authenticated
    <3> HIDE <1>1
    <3>1. QED
      BY <2>1, <2>2 DEF SessionRecord
  <2>4. QED
    BY <2>1, <2>3, Zenon
<1>2. (IF session.stored THEN FALSE ELSE session.old) \in BOOLEAN
  BY DEF SessionRecord
<1>3. \E old \in BOOLEAN : Touched = [session EXCEPT !.old = old]
  BY <1>2, Zenon DEF Touched
<1>4. QED
  BY <1>1, <1>3, Zenon

\* The changes of a socket that keep its shape.
LEMMA SocketShape ==
  ASSUME socket \in [Sockets -> SocketRecord], NEW s \in Sockets
  PROVE  /\ [socket EXCEPT ![s].server = "accepted"] \in [Sockets -> SocketRecord]
         /\ [socket EXCEPT ![s].server = "open"] \in [Sockets -> SocketRecord]
         /\ [socket EXCEPT ![s].server = "closed"] \in [Sockets -> SocketRecord]
         /\ [socket EXCEPT ![s].page = "connecting"] \in [Sockets -> SocketRecord]
         /\ [socket EXCEPT ![s].page = "open"] \in [Sockets -> SocketRecord]
         /\ [socket EXCEPT ![s].page = "closed"] \in [Sockets -> SocketRecord]
         /\ [socket EXCEPT ![s].dropped = TRUE] \in [Sockets -> SocketRecord]
         /\ [socket EXCEPT ![s].checking = TRUE] \in [Sockets -> SocketRecord]
         /\ [socket EXCEPT ![s].checking = FALSE] \in [Sockets -> SocketRecord]
BY DEF SocketRecord

\* The changes of what is under way that keep its shape.
LEMMA WaysShape ==
  ASSUME toPage \in [Sockets -> Seq(ToPage)], NEW s \in Sockets, NEW m \in Seq(ToPage), NEW f \in ToPage
  PROVE  /\ [toPage EXCEPT ![s] = <<>>] \in [Sockets -> Seq(ToPage)]
         /\ [toPage EXCEPT ![s] = @ \o m] \in [Sockets -> Seq(ToPage)]
         /\ [toPage EXCEPT ![s] = Append(@, f)] \in [Sockets -> Seq(ToPage)]
         /\ toPage[s] # <<>> => [toPage EXCEPT ![s] = Tail(@)] \in [Sockets -> Seq(ToPage)]
OBVIOUS

\* The changes of a request and of its answers that keep their shape.
LEMMA RequestsShape ==
  ASSUME request \in [Requests -> RequestRecord], answers \in [Requests -> Nat], NEW r \in Requests,
         NEW s \in Sockets \cup {NoSocket}
  PROVE  /\ [request EXCEPT ![r].pending = TRUE] \in [Requests -> RequestRecord]
         /\ [request EXCEPT ![r].pending = FALSE] \in [Requests -> RequestRecord]
         /\ [request EXCEPT ![r].at = s] \in [Requests -> RequestRecord]
         /\ [answers EXCEPT ![r] = @ + 1] \in [Requests -> Nat]
<1>1. request[r] \in RequestRecord /\ answers[r] + 1 \in Nat
  OBVIOUS
<1>2. /\ [request[r] EXCEPT !.pending = TRUE] \in RequestRecord /\ [request[r] EXCEPT !.pending = FALSE] \in RequestRecord
      /\ [request[r] EXCEPT !.at = s] \in RequestRecord
  BY <1>1 DEF RequestRecord
<1>3. QED
  BY <1>1, <1>2

\* The changes of bridge.js that keep its shape.
LEMMA PageShape ==
  ASSUME page \in PageRecord, NEW s \in Sockets, NEW f \in Told
  PROVE  /\ [page EXCEPT !.loaded = TRUE, !.timer = TRUE] \in PageRecord
         /\ [page EXCEPT !.timer = FALSE, !.ws = s] \in PageRecord
         /\ [page EXCEPT !.attempts = 0, !.authenticated = ~AuthRequired] \in PageRecord
         /\ [page EXCEPT !.authenticated = TRUE] \in PageRecord
         /\ [page EXCEPT !.early = Append(@, f)] \in PageRecord
         /\ [page EXCEPT !.initialized = TRUE, !.early = <<>>] \in PageRecord
         /\ [page EXCEPT !.ws = NoSocket, !.authenticated = FALSE,
                          !.timer = @ \/ page.attempts < MaxReconnect,
                          !.attempts = IF @ < MaxReconnect THEN @ + 1 ELSE @] \in PageRecord
<1>1. AuthRequired \in BOOLEAN /\ MaxReconnect \in Nat /\ <<>> \in Seq(Told) /\ page.attempts \in Nat
  BY BridgeAssumption DEF PageRecord
<1>2. Append(page.early, f) \in Seq(Told)
  BY DEF PageRecord
<1>3. page.timer \in BOOLEAN /\ (page.timer \/ page.attempts < MaxReconnect) \in BOOLEAN
      /\ (IF page.attempts < MaxReconnect THEN page.attempts + 1 ELSE page.attempts) \in Nat
  BY <1>1 DEF PageRecord
<1>4. /\ [page EXCEPT !.loaded = TRUE, !.timer = TRUE] \in PageRecord
      /\ [page EXCEPT !.timer = FALSE, !.ws = s] \in PageRecord
      /\ [page EXCEPT !.attempts = 0, !.authenticated = ~AuthRequired] \in PageRecord
      /\ [page EXCEPT !.authenticated = TRUE] \in PageRecord
  BY <1>1 DEF PageRecord
<1>5. /\ [page EXCEPT !.early = Append(@, f)] \in PageRecord
      /\ [page EXCEPT !.initialized = TRUE, !.early = <<>>] \in PageRecord
  BY <1>1, <1>2 DEF PageRecord
<1>6. \A timer \in BOOLEAN, attempts \in Nat :
        [page EXCEPT !.ws = NoSocket, !.authenticated = FALSE, !.timer = timer, !.attempts = attempts] \in PageRecord
  BY DEF PageRecord
<1>7. QED
  BY <1>3, <1>4, <1>5, <1>6

\* The server keeps the types (server.ts).
LEMMA TypesServer ==
  ASSUME BridgeTypes, NEW s \in Sockets,
         \/ PageLoads \/ ToolResultExpires \/ SessionAges \/ Cleanup \/ ServerStops
         \/ Upgrade(s) \/ ServerOpens(s) \/ ServerReceives(s) \/ AuthSettles(s) \/ ServerSocketCloses(s)
  PROVE  BridgeTypes'
<1>0. /\ <<>> \in Seq(ToServer) /\ <<>> \in Seq(ToPage)
      /\ <<"auth_ok">> \in ToPage /\ <<"auth_error">> \in ToPage
  BY DEF ToPage
<1>1. CASE PageLoads
  <2>1. \A first \in {0, 1} : [i \in 1..(Extras + 1 - first) |-> first + i - 1] \in Seq(Nat)
    <3>1. Extras \in Nat
      BY BridgeAssumption
    <3>2. QED
      BY <3>1
  <2>2. session' \in SessionRecord
    <3>1. PICK first \in {0, 1} : session' = [session EXCEPT !.stored = TRUE, !.pending = [i \in 1..(Extras + 1 - first) |-> first + i - 1]]
      BY <1>1, Zenon DEF PageLoads
    <3>2. [i \in 1..(Extras + 1 - first) |-> first + i - 1] \in Seq(Nat)
      BY <2>1
    <3>3. \A p \in Seq(Nat) : [session EXCEPT !.stored = TRUE, !.pending = p] \in SessionRecord
      BY DEF BridgeTypes, SessionRecord
    <3>4. QED
      BY <3>1, <3>2, <3>3, Zenon
  <2>3. page' \in PageRecord
    BY <1>1, PageShape DEF PageLoads, BridgeTypes, PageRecord
  <2>4. QED
    BY <1>1, <2>2, <2>3 DEF PageLoads, BridgeTypes
<1>2. CASE ToolResultExpires
  BY <1>2 DEF ToolResultExpires, BridgeTypes
<1>3. CASE SessionAges
  <2>1. session' \in SessionRecord
    BY <1>3 DEF SessionAges, BridgeTypes, SessionRecord
  <2>2. QED
    BY <1>3, <2>1 DEF SessionAges, BridgeTypes
<1>4. CASE Cleanup \/ ServerStops
  <2>1. session' \in SessionRecord
    BY <1>4 DEF Cleanup, ServerStops, BridgeTypes, SessionRecord
  <2>2. socket' \in [Sockets -> SocketRecord]
    BY <1>4, ShutShape DEF Cleanup, ServerStops, BridgeTypes
  <2>3. QED
    BY <1>4, <2>1, <2>2 DEF Cleanup, ServerStops, BridgeTypes
<1>5. CASE Upgrade(s)
  <2>1. session' \in SessionRecord
    BY <1>5 DEF Upgrade, BridgeTypes, SessionRecord
  <2>2. socket' \in [Sockets -> SocketRecord]
    <3>1. socket' = [socket EXCEPT ![s].server = "accepted"] \/ socket' = [socket EXCEPT ![s].server = "closed"]
      BY <1>5, Zenon DEF Upgrade
    <3>2. /\ [socket EXCEPT ![s].server = "accepted"] \in [Sockets -> SocketRecord]
          /\ [socket EXCEPT ![s].server = "closed"] \in [Sockets -> SocketRecord]
      BY SocketShape DEF BridgeTypes
    <3>3. QED
      BY <3>1, <3>2, Zenon
  <2>3. QED
    BY <1>5, <2>1, <2>2 DEF Upgrade, BridgeTypes
<1>6. CASE ServerOpens(s)
  <2>1. session' \in SessionRecord
    BY <1>6, TouchedShape DEF ServerOpens, BridgeTypes
  <2>2. session.pending \in Seq(Nat)
    BY DEF BridgeTypes, SessionRecord
  <2>3. toPage' \in [Sockets -> Seq(ToPage)]
    <3>1. Frames(session.pending) \in Seq(ToPage)
      BY <2>2, FramesNumbered
    <3>2. toPage' = [toPage EXCEPT ![s] = @ \o Frames(session.pending)]
      BY <1>6 DEF ServerOpens, Frames
    <3>3. QED
      BY <1>0, <3>1, <3>2, WaysShape DEF BridgeTypes
  <2>4. QED
    BY <1>6, <2>1, <2>3, SocketShape DEF ServerOpens, BridgeTypes
<1>7. CASE ServerReceives(s)
  <2>1. session' \in SessionRecord
    BY <1>7, TouchedShape DEF ServerReceives, BridgeTypes
  <2>2. toServer' \in [Sockets -> Seq(ToServer)] /\ Head(toServer[s]) \in ToServer
    BY <1>7 DEF ServerReceives, BridgeTypes
  <2>3. /\ socket' = socket \/ socket' = Shut(s) \/ socket' = [socket EXCEPT ![s].checking = TRUE]
        /\ toPage' = toPage \/ toPage' = [toPage EXCEPT ![s] = Append(@, <<"auth_error">>)]
    BY <1>7, Zenon DEF ServerReceives
  <2>4. request' \in [Requests -> RequestRecord]
    <3>1. \/ request' = request
          \/ Head(toServer[s])[1] = "request" /\ request' = [request EXCEPT ![Head(toServer[s])[2]].at = s]
      BY <1>7 DEF ServerReceives
    <3>2. Head(toServer[s])[1] = "request" => Head(toServer[s])[2] \in Requests
      BY <2>2 DEF ToServer
    <3>3. \A r \in Requests : [request EXCEPT ![r].at = s] \in [Requests -> RequestRecord]
      BY RequestsShape DEF BridgeTypes
    <3>4. request \in [Requests -> RequestRecord]
      BY DEF BridgeTypes
    <3>5. QED
      BY <3>1, <3>2, <3>3, <3>4, Zenon
  <2>5. socket' \in [Sockets -> SocketRecord]
    <3>1. /\ socket \in [Sockets -> SocketRecord] /\ Shut(s) \in [Sockets -> SocketRecord]
          /\ [socket EXCEPT ![s].checking = TRUE] \in [Sockets -> SocketRecord]
      BY ShutShape, SocketShape DEF BridgeTypes
    <3>2. QED
      BY <2>3, <3>1, Zenon
  <2>6. toPage' \in [Sockets -> Seq(ToPage)]
    <3>1. /\ toPage \in [Sockets -> Seq(ToPage)]
          /\ [toPage EXCEPT ![s] = Append(@, <<"auth_ok">>)] \in [Sockets -> Seq(ToPage)]
          /\ [toPage EXCEPT ![s] = Append(@, <<"auth_error">>)] \in [Sockets -> Seq(ToPage)]
      BY <1>0, WaysShape DEF BridgeTypes
    <3>2. QED
      BY <2>3, <3>1, Zenon
  <2>7. QED
    BY <1>7, <2>1, <2>2, <2>4, <2>5, <2>6 DEF ServerReceives, BridgeTypes
<1>8. CASE AuthSettles(s)
  <2>1. session' \in SessionRecord
    BY <1>8 DEF AuthSettles, BridgeTypes, SessionRecord
  <2>2. /\ socket' = [socket EXCEPT ![s].checking = FALSE] \/ socket' = [Shut(s) EXCEPT ![s].checking = FALSE]
        /\ \/ toPage' = toPage \/ toPage' = [toPage EXCEPT ![s] = Append(@, <<"auth_ok">>)]
           \/ toPage' = [toPage EXCEPT ![s] = Append(@, <<"auth_error">>)]
    BY <1>8, Zenon DEF AuthSettles
  <2>3. socket' \in [Sockets -> SocketRecord]
    <3>1. /\ [socket EXCEPT ![s].checking = FALSE] \in [Sockets -> SocketRecord]
          /\ [Shut(s) EXCEPT ![s].checking = FALSE] \in [Sockets -> SocketRecord]
      BY ShutShape, SocketShape DEF BridgeTypes
    <3>2. QED
      BY <2>2, <3>1, Zenon
  <2>4. toPage' \in [Sockets -> Seq(ToPage)]
    <3>1. /\ toPage \in [Sockets -> Seq(ToPage)]
          /\ [toPage EXCEPT ![s] = Append(@, <<"auth_ok">>)] \in [Sockets -> Seq(ToPage)]
          /\ [toPage EXCEPT ![s] = Append(@, <<"auth_error">>)] \in [Sockets -> Seq(ToPage)]
      BY <1>0, WaysShape DEF BridgeTypes
    <3>2. QED
      BY <2>2, <3>1, Zenon
  <2>5. QED
    BY <1>8, <2>1, <2>3, <2>4 DEF AuthSettles, BridgeTypes
<1>9. CASE ServerSocketCloses(s)
  BY <1>0, <1>9, SocketShape DEF ServerSocketCloses, BridgeTypes
<1>10. QED
  BY <1>1, <1>2, <1>3, <1>4, <1>5, <1>6, <1>7, <1>8, <1>9

\* The page keeps the types (bridge.js).
LEMMA TypesPage ==
  ASSUME BridgeTypes, NEW s \in Sockets,
         \/ PageConnects \/ AppInitializes \/ HostContextChanges
         \/ PageOpens(s) \/ PageReceives(s) \/ PageSocketCloses(s) \/ SocketDrops(s)
  PROVE  BridgeTypes'
<1>0. /\ <<>> \in Seq(ToServer) /\ <<>> \in Seq(ToPage) /\ <<"auth">> \in ToServer
      /\ Initialized \in Told /\ Context \in Told
  BY DEF ToServer, Told
<1>1. CASE PageConnects
  <2>1. IsFiniteSet(Used) /\ Cardinality(Used) \in Nat
    <3>1. IsFiniteSet(Sockets)
      BY BridgeAssumption, FS_Interval DEF Sockets
    <3>2. Used \subseteq Sockets
      BY DEF Used
    <3>3. QED
      BY <3>1, <3>2, FS_Subset, FS_CardinalityType
  <2>2. Cardinality(Used) + 1 \in Sockets
    BY <1>1, <2>1, BridgeAssumption DEF PageConnects, Sockets
  <2>3. page' \in PageRecord
    BY <1>0, <1>1, <2>2, PageShape DEF PageConnects, BridgeTypes
  <2>4. socket' \in [Sockets -> SocketRecord]
    BY <1>1, <2>2, SocketShape DEF PageConnects, BridgeTypes
  <2>5. QED
    BY <1>1, <2>3, <2>4 DEF PageConnects, BridgeTypes
<1>2. CASE AppInitializes
  <2>1. page' \in PageRecord
    BY <1>0, <1>2, PageShape DEF AppInitializes, BridgeTypes
  <2>2. seen' \in Seq(Told)
    <3>1. page.early \in Seq(Told) /\ <<Initialized>> \in Seq(Told)
      BY <1>0 DEF BridgeTypes, PageRecord
    <3>2. QED
      BY <1>2, <3>1 DEF AppInitializes
  <2>3. QED
    BY <1>2, <2>1, <2>2 DEF AppInitializes, BridgeTypes
<1>3. CASE HostContextChanges
  <2>1. page' \in PageRecord
    BY <1>0, <1>3, PageShape DEF HostContextChanges, BridgeTypes
  <2>2. seen' \in Seq(Told)
    <3>1. CASE page.initialized
      <4>1. seen' = Append(seen, Context)
        BY <1>3, <3>1, Zenon DEF HostContextChanges
      <4>2. Append(seen, Context) \in Seq(Told)
        BY <1>0 DEF BridgeTypes
      <4>3. QED
        BY <4>1, <4>2, Zenon
    <3>2. CASE ~page.initialized
      BY <1>0, <1>3, <3>2 DEF HostContextChanges, BridgeTypes
    <3>3. QED
      BY <3>1, <3>2
  <2>3. QED
    BY <1>3, <2>1, <2>2 DEF HostContextChanges, BridgeTypes
<1>4. CASE PageOpens(s)
  <2>1. page' \in PageRecord /\ socket' \in [Sockets -> SocketRecord]
    BY <1>0, <1>4, PageShape, SocketShape DEF PageOpens, BridgeTypes
  <2>2. toServer' \in [Sockets -> Seq(ToServer)]
    <3>1. toServer' = toServer \/ toServer' = [toServer EXCEPT ![s] = Append(@, <<"auth">>)]
      BY <1>4, Zenon DEF PageOpens
    <3>2. Append(toServer[s], <<"auth">>) \in Seq(ToServer)
      BY <1>0 DEF BridgeTypes
    <3>3. QED
      BY <3>1, <3>2 DEF BridgeTypes
  <2>3. QED
    BY <1>4, <2>1, <2>2 DEF PageOpens, BridgeTypes
<1>5. CASE PageReceives(s)
  <2>1. toPage' \in [Sockets -> Seq(ToPage)] /\ Head(toPage[s]) \in ToPage
    BY <1>5 DEF PageReceives, BridgeTypes
  <2>2. Head(toPage[s])[1] = "note" => Head(toPage[s]) \in Told
    BY <2>1 DEF ToPage, Told
  <2>3. \/ page' = page \/ page' = [page EXCEPT !.authenticated = TRUE]
        \/ Head(toPage[s])[1] = "note" /\ page' = [page EXCEPT !.early = Append(@, Head(toPage[s]))]
    BY <1>5 DEF PageReceives
  <2>4. page' \in PageRecord
    BY <1>0, <2>2, <2>3, PageShape DEF BridgeTypes
  <2>5. seen' \in Seq(Told)
    BY <1>5, <2>2 DEF PageReceives, BridgeTypes
  <2>6. request' \in [Requests -> RequestRecord] /\ answers' \in [Requests -> Nat]
    <3>1. \/ UNCHANGED <<request, answers>>
          \/ Head(toPage[s])[1] = "response" /\ Answer(Head(toPage[s])[2])
      BY <1>5 DEF PageReceives
    <3>2. Head(toPage[s])[1] = "response" => Head(toPage[s])[2] \in Requests
      BY <2>1 DEF ToPage
    <3>3. QED
      <4>1. \A r \in Requests : /\ [request EXCEPT ![r].pending = FALSE] \in [Requests -> RequestRecord]
                              /\ [answers EXCEPT ![r] = @ + 1] \in [Requests -> Nat]
        BY RequestsShape DEF BridgeTypes
      <4>2. request \in [Requests -> RequestRecord] /\ answers \in [Requests -> Nat]
        BY DEF BridgeTypes
      <4>3. QED
        BY <3>1, <3>2, <4>1, <4>2, Zenon DEF Answer
  <2>7. QED
    BY <1>5, <2>1, <2>4, <2>5, <2>6 DEF PageReceives, BridgeTypes
<1>6. CASE PageSocketCloses(s)
  <2>1. page' \in PageRecord
    BY <1>0, <1>6, PageShape DEF PageSocketCloses, BridgeTypes
  <2>2. QED
    BY <1>0, <1>6, <2>1, SocketShape DEF PageSocketCloses, BridgeTypes
<1>7. CASE SocketDrops(s)
  BY <1>0, <1>7, SocketShape DEF SocketDrops, BridgeTypes
<1>8. QED
  BY <1>1, <1>2, <1>3, <1>4, <1>5, <1>6, <1>7

\* A request and its answer keep the types.
LEMMA TypesRequest ==
  ASSUME BridgeTypes, NEW r \in Requests, BackendAnswers(r) \/ AppRequests(r) \/ RequestExpires(r)
  PROVE  BridgeTypes'
<1>1. CASE BackendAnswers(r)
  <2>1. <<"response", r>> \in ToPage
    BY DEF ToPage
  <2>2. toPage' \in [Sockets -> Seq(ToPage)]
    BY <1>1, <2>1 DEF BackendAnswers, BridgeTypes
  <2>3. QED
    BY <1>1, <2>2, RequestsShape DEF BackendAnswers, BridgeTypes
<1>2. CASE AppRequests(r)
  <2>1. <<"request", r>> \in ToServer /\ page.ws \in Sockets \cup {NoSocket}
    BY DEF ToServer, BridgeTypes, PageRecord
  <2>2. toServer' \in [Sockets -> Seq(ToServer)]
    BY <1>2, <2>1 DEF AppRequests, CanSend, BridgeTypes
  <2>3. QED
    BY <1>2, <2>2, RequestsShape DEF AppRequests, BridgeTypes
<1>3. CASE RequestExpires(r)
  BY <1>3, RequestsShape DEF RequestExpires, Answer, BridgeTypes
<1>4. QED
  BY <1>1, <1>2, <1>3


\* What the types say of the sequences.
LEMMA HeardTagged ==
  ASSUME BridgeTypes
  PROVE  /\ Tagged(Heard) /\ toPage \in Ways /\ seen \in Seq(Told) /\ page.early \in Seq(Told)
         /\ Tagged(<<Initialized>>) /\ Tagged(<<Context>>) /\ NotesIn(<<Initialized>>) = {} /\ NotesIn(<<Context>>) = {}
<1>1. seen \in Seq(Told) /\ page.early \in Seq(Told) /\ toPage \in Ways
  BY DEF BridgeTypes, PageRecord, Ways
<1>2. Heard \in Seq(Told)
  BY <1>1 DEF Heard
<1>3. Tagged(Heard)
  BY <1>2 DEF Tagged
<1>4. Initialized \in ToPage \cup Told /\ Context \in ToPage \cup Told
  BY DEF Told
<1>5. Tagged(<<Initialized>>) /\ Tagged(<<Context>>)
  BY <1>4 DEF Tagged
<1>6. NotesIn(<<Initialized>>) = {} /\ NotesIn(<<Context>>) = {}
  BY DEF NotesIn, Initialized, Context
<1>7. QED
  BY <1>1, <1>3, <1>5, <1>6

\* A step that changes what is under way at most.
LEMMA NotesWays ==
  ASSUME NotesOrdered, session'.pending = session.pending, page'.loaded = page.loaded,
         page'.initialized = page.initialized, page'.early = page.early, seen' = seen,
         Lines(Heard, toPage'), Quiet(Heard, toPage) => Quiet(Heard, toPage')
  PROVE  NotesOrdered'
<1>1. Heard' = Heard
  BY DEF Heard
<1>2. QED
  BY <1>1 DEF NotesOrdered

\* A step that touches no notes.
LEMMA NotesKept ==
  ASSUME NotesOrdered, session'.pending = session.pending, page'.loaded = page.loaded,
         page'.initialized = page.initialized, page'.early = page.early, seen' = seen, toPage' = toPage
  PROVE  NotesOrdered'
<1>1. Lines(Heard, toPage') /\ (Quiet(Heard, toPage) => Quiet(Heard, toPage'))
  BY DEF NotesOrdered
<1>2. QED
  BY <1>1, NotesWays

\* A frame that is no note goes out.
LEMMA NotesSent ==
  ASSUME BridgeTypes, NotesOrdered, session'.pending = session.pending, UNCHANGED <<page, seen>>,
         NEW s \in Sockets, NEW f \in ToPage, f[1] # "note",
         toPage' = toPage \/ toPage' = [toPage EXCEPT ![s] = Append(@, f)]
  PROVE  NotesOrdered'
<1>1. CASE toPage' = toPage
  BY <1>1, NotesKept
<1>2. CASE toPage' = [toPage EXCEPT ![s] = Append(@, f)]
  <2>1. toPage' \in Ways /\ toPage'[s] = Joined(toPage[s], <<f>>) /\ \A t \in Sockets : t # s => toPage'[t] = toPage[t]
    <3>1. Append(toPage[s], f) = Joined(toPage[s], <<f>>) /\ Append(toPage[s], f) \in Seq(ToPage)
      <4>1. Tagged(toPage[s]) /\ toPage[s] \in Seq(ToPage)
        BY DEF BridgeTypes, Tagged
      <4>2. QED
        BY <4>1, JoinedOne
    <3>2. QED
      BY <1>2, <3>1 DEF BridgeTypes, Ways
  <2>2. NotesIn(<<f>>) = {} /\ <<f>> \in Seq(ToPage)
    BY DEF NotesIn
  <2>3. Tagged(Heard) /\ toPage \in Ways /\ Lines(Heard, toPage)
    BY HeardTagged DEF NotesOrdered
  <2>4. PICK m \in Seq(ToPage) : NotesIn(m) = {} /\ toPage'[s] = Joined(toPage[s], m)
    BY <2>1, <2>2, Zenon
  <2>5. Lines(Heard, toPage') /\ (Quiet(Heard, toPage) => Quiet(Heard, toPage'))
    <3>1. toPage' \in Ways /\ \A t \in Sockets : t # s => toPage'[t] = toPage[t]
      BY <2>1
    <3>2. QED
      BY <2>3, <2>4, <3>1, LinesSend
  <2>6. QED
    BY <2>5, NotesWays
<1>3. QED
  BY <1>1, <1>2

\* The frames of a socket are lost.
LEMMA NotesLost ==
  ASSUME BridgeTypes, NotesOrdered, session'.pending = session.pending, page'.loaded = page.loaded,
         page'.initialized = page.initialized, page'.early = page.early, seen' = seen,
         NEW s \in Sockets, toPage' = [toPage EXCEPT ![s] = <<>>]
  PROVE  NotesOrdered'
<1>1. Tagged(Heard) /\ toPage \in Ways /\ Lines(Heard, toPage)
  BY HeardTagged DEF NotesOrdered
<1>2. Lines(Heard, toPage') /\ (Quiet(Heard, toPage) => Quiet(Heard, toPage'))
  BY <1>1, LinesLose
<1>3. QED
  BY <1>2, NotesWays

\* A page is served: its notes are buffered, and nothing is under way yet (server.ts).
LEMMA NotesLoads ==
  ASSUME BridgeTypes, NotesOrdered, PageLoads
  PROVE  NotesOrdered'
<1>1. PICK first \in {0, 1} : session' = [session EXCEPT !.stored = TRUE, !.pending = [i \in 1..(Extras + 1 - first) |-> first + i - 1]]
  BY Zenon DEF PageLoads
<1>2. session'.pending = [i \in 1..(Extras + 1 - first) |-> first + i - 1]
  BY <1>1 DEF BridgeTypes, SessionRecord
<1>3. /\ page'.loaded /\ page'.initialized = page.initialized /\ page'.early = page.early
      /\ seen' = seen /\ toPage' = toPage
  BY DEF PageLoads, BridgeTypes, PageRecord
<1>4. Heard' = Heard /\ Quiet(Heard, toPage)
  BY <1>3 DEF Heard, NotesOrdered, PageLoads
<1>5. QED
  BY <1>2, <1>3, <1>4, Zenon DEF NotesOrdered

\* A socket opens: all the buffered notes go over it, once (server.ts, onopen).
LEMMA NotesFlushed ==
  ASSUME BridgeTypes, NotesOrdered, NEW s \in Sockets, ServerOpens(s)
  PROVE  NotesOrdered'
<1> DEFINE m == Frames(session.pending)
<1>1. session.pending \in Seq(Nat) /\ m \in Seq(ToPage) /\ Len(m) = Len(session.pending)
      /\ \A i \in 1..Len(m) : m[i] = <<"note", session.pending[i]>>
  <2>1. session.pending \in Seq(Nat)
    BY DEF BridgeTypes, SessionRecord
  <2>2. QED
    BY <2>1, FramesNumbered
<1>2. toPage' \in Ways /\ toPage'[s] = Joined(toPage[s], m) /\ \A t \in Sockets : t # s => toPage'[t] = toPage[t]
  <2>1. toPage' = [toPage EXCEPT ![s] = @ \o m]
    BY DEF ServerOpens, Frames
  <2> HIDE DEF m
  <2>2. toPage[s] \o m \in Seq(ToPage)
    BY <1>1 DEF BridgeTypes
  <2>3. QED
    BY <2>1, <2>2 DEF Joined, BridgeTypes, Ways
<1>3. session'.pending = <<>> /\ page' = page /\ seen' = seen /\ Heard' = Heard
  BY TouchedShape DEF ServerOpens, BridgeTypes, Heard
<1> HIDE DEF m
<1>4. Tagged(Heard) /\ toPage \in Ways /\ Lines(Heard, toPage)
  BY HeardTagged DEF NotesOrdered
<1>5. CASE session.pending = <<>>
  <2>1. NotesIn(m) = {}
    BY <1>1, <1>5 DEF NotesIn
  <2>2. Lines(Heard, toPage') /\ (Quiet(Heard, toPage) => Quiet(Heard, toPage'))
    BY <1>1, <1>2, <1>4, <2>1, LinesSend
  <2>3. QED
    BY <1>3, <1>5, <2>2, NotesWays
<1>6. CASE session.pending # <<>>
  <2>1. PICK first \in {0, 1} : session.pending = [i \in 1..(Extras + 1 - first) |-> first + i - 1]
    BY <1>6 DEF NotesOrdered
  <2>2. Len(session.pending) = Extras + 1 - first /\ \A i \in 1..Len(session.pending) : session.pending[i] = first + i - 1
    BY <2>1, BridgeAssumption
  <2>3. Len(m) = Extras + 1 - first /\ \A i \in 1..Len(m) : m[i] = <<"note", first + i - 1>>
    <3> HIDE <2>1
    <3>1. QED
      BY <1>1, <2>2
  <2>4. Quiet(Heard, toPage) /\ page.loaded
    BY <1>6 DEF NotesOrdered
  <2>5. Lines(Heard, toPage')
    <3>1. \E n \in {0, 1} : Len(m) = Extras + 1 - n /\ \A i \in 1..Len(m) : m[i] = <<"note", n + i - 1>>
      BY <2>3, Zenon
    <3>2. QED
      BY <1>1, <1>2, <1>4, <2>4, <3>1, LinesSend
  <2>6. QED
    BY <1>3, <2>4, <2>5 DEF NotesOrdered
<1>7. QED
  BY <1>5, <1>6

\* A frame comes in: a note is given to the app, or kept until it has initialized (bridge.js).
LEMMA NotesReceived ==
  ASSUME BridgeTypes, NotesOrdered, NEW s \in Sockets, PageReceives(s)
  PROVE  NotesOrdered'
<1> DEFINE frame == Head(toPage[s])
<1>1. Tagged(Heard) /\ toPage \in Ways /\ Lines(Heard, toPage) /\ seen \in Seq(Told) /\ page.early \in Seq(Told)
      /\ toPage[s] # <<>>
  BY HeardTagged DEF NotesOrdered, PageReceives
<1>7. toPage' \in Ways /\ toPage'[s] = Tail(toPage[s]) /\ \A t \in Sockets : t # s => toPage'[t] = toPage[t]
  <2>1. toPage' = [toPage EXCEPT ![s] = Tail(@)] /\ Tail(toPage[s]) \in Seq(ToPage)
    BY <1>1 DEF PageReceives, Ways
  <2>2. QED
    BY <1>1, <2>1 DEF Ways
<1>2. frame \in ToPage /\ (frame[1] = "note" => frame \in Told)
  <2>1. frame \in ToPage
    BY <1>1 DEF Ways
  <2>2. QED
    BY <2>1 DEF ToPage, Told
<1>3. session' = session /\ page'.loaded = page.loaded /\ page'.initialized = page.initialized
  BY DEF PageReceives, BridgeTypes, PageRecord
<1>4. CASE frame[1] = "note"
  <2>1. /\ page.initialized => seen' = Append(seen, frame) /\ page'.early = page.early
        /\ ~page.initialized => seen' = seen /\ page'.early = Append(page.early, frame)
    BY <1>4 DEF PageReceives, BridgeTypes, PageRecord
  <2>2. Heard' = Append(Heard, frame)
    <3>1. CASE page.initialized
      <4>1. page.early = <<>> /\ page'.early = <<>> /\ seen' = Append(seen, frame)
        BY <2>1, <3>1 DEF NotesOrdered
      <4>2. seen \o <<>> = seen /\ Append(seen, frame) \o <<>> = Append(seen, frame)
        BY <1>1, <1>2, <1>4
      <4>3. QED
        BY <4>1, <4>2 DEF Heard
    <3>2. CASE ~page.initialized
      <4>1. seen = <<>> /\ seen' = <<>> /\ page'.early = Append(page.early, frame)
        BY <2>1, <3>2 DEF NotesOrdered
      <4>2. <<>> \o page.early = page.early /\ <<>> \o Append(page.early, frame) = Append(page.early, frame)
        BY <1>1, <1>2, <1>4
      <4>3. QED
        BY <4>1, <4>2 DEF Heard
    <3>3. QED
      BY <3>1, <3>2
  <2>3. Heard' = With(Heard, frame)
    BY <2>2 DEF With
  <2> HIDE DEF frame
  <2>4. Lines(Heard', toPage') /\ (Quiet(Heard, toPage) => Quiet(Heard', toPage') /\ Heard' = Heard)
    BY <1>1, <1>4, <1>7, <2>3, LinesReceive DEF frame
  <2>5. Heard' # Heard
    <3>1. Heard \in Seq(Told)
      BY <1>1 DEF Heard
    <3>2. Len(Append(Heard, frame)) = Len(Heard) + 1 /\ Len(Heard) \in Nat
      BY <1>2, <1>4, <3>1
    <3>3. QED
      BY <2>2, <3>2
  <2>6. ~Quiet(Heard, toPage)
    BY <2>4, <2>5
  <2>7. page.loaded /\ session.pending = <<>>
    BY <2>6 DEF NotesOrdered
  <2>8. ~page.initialized => seen' = <<>>
    BY <2>1 DEF NotesOrdered
  <2>9. page.initialized => page'.early = <<>> /\ seen' # <<>> /\ seen'[1] = Initialized
    <3> SUFFICES ASSUME page.initialized PROVE page'.early = <<>> /\ seen' # <<>> /\ seen'[1] = Initialized
      OBVIOUS
    <3>1. page'.early = <<>> /\ seen' = Append(seen, frame) /\ seen # <<>> /\ seen[1] = Initialized
      BY <2>1 DEF NotesOrdered
    <3>2. Append(seen, frame) # <<>> /\ Append(seen, frame)[1] = seen[1]
      BY <1>1, <1>2, <1>4, <3>1
    <3>3. QED
      BY <3>1, <3>2
  <2>10. QED
    BY <1>3, <2>4, <2>7, <2>8, <2>9 DEF NotesOrdered
<1>5. CASE frame[1] # "note"
  <2>1. seen' = seen /\ page'.early = page.early
    BY <1>5 DEF PageReceives, BridgeTypes, PageRecord
  <2>3. Lines(Heard, toPage') /\ (Quiet(Heard, toPage) => Quiet(Heard, toPage'))
    <3> HIDE DEF frame
    <3>1. QED
      BY <1>1, <1>5, <1>7, LinesReceive DEF frame
  <2>4. QED
    BY <1>3, <2>1, <2>3, NotesWays
<1>6. QED
  BY <1>4, <1>5

\* The app initializes: the notes that came early follow the response (bridge.js).
LEMMA NotesInitialized ==
  ASSUME BridgeTypes, NotesOrdered, AppInitializes
  PROVE  NotesOrdered'
<1>1. /\ Tagged(Heard) /\ toPage \in Ways /\ Lines(Heard, toPage) /\ page.early \in Seq(Told)
      /\ Tagged(<<Initialized>>) /\ NotesIn(<<Initialized>>) = {}
  BY HeardTagged DEF NotesOrdered
<1>2. /\ session' = session /\ toPage' = toPage /\ page.loaded /\ page'.loaded /\ ~page.initialized
      /\ page'.initialized /\ page'.early = <<>> /\ seen' = <<Initialized>> \o page.early
  BY DEF AppInitializes, BridgeTypes, PageRecord
<1>3. seen = <<>>
  BY <1>2 DEF NotesOrdered
<1>4. /\ <<>> \o page.early = page.early /\ (<<Initialized>> \o page.early) \o <<>> = <<Initialized>> \o page.early
      /\ <<Initialized>> \o page.early # <<>> /\ (<<Initialized>> \o page.early)[1] = Initialized
  <2>1. <<Initialized>> \in Seq(Told)
    BY DEF Told
  <2>2. QED
    BY <1>1, <2>1
<1>5. Heard' = Joined(<<Initialized>>, Heard)
  BY <1>2, <1>3, <1>4 DEF Heard, Joined
<1>6. Lines(Heard', toPage) /\ (Quiet(Heard, toPage) => Quiet(Heard', toPage))
  BY <1>1, <1>5, LinesTell
<1>7. QED
  BY <1>2, <1>4, <1>6 DEF NotesOrdered

\* The platform changes theme or viewport: a word that is no note (bridge.js).
LEMMA NotesContext ==
  ASSUME BridgeTypes, NotesOrdered, HostContextChanges
  PROVE  NotesOrdered'
<1>1. /\ Tagged(Heard) /\ toPage \in Ways /\ Lines(Heard, toPage) /\ page.early \in Seq(Told) /\ seen \in Seq(Told)
      /\ Tagged(<<Context>>) /\ NotesIn(<<Context>>) = {} /\ Context \in Told
  BY HeardTagged DEF NotesOrdered, Told
<1>2. /\ session' = session /\ toPage' = toPage /\ page.loaded /\ page'.loaded /\ page'.initialized = page.initialized
      /\ page.initialized => seen' = Append(seen, Context) /\ page'.early = page.early
      /\ ~page.initialized => seen' = seen /\ page'.early = Append(page.early, Context)
  BY DEF HostContextChanges, BridgeTypes, PageRecord
<1>3. CASE page.initialized
  <2>1. page.early = <<>> /\ seen # <<>> /\ seen[1] = Initialized
    BY <1>3 DEF NotesOrdered
  <2>2. /\ seen \o <<>> = seen /\ Append(seen, Context) \o <<>> = seen \o <<Context>>
        /\ Append(seen, Context) # <<>> /\ Append(seen, Context)[1] = seen[1]
    BY <1>1, <2>1
  <2>3. Heard' = Joined(Heard, <<Context>>)
    BY <1>2, <1>3, <2>1, <2>2 DEF Heard, Joined
  <2>4. Lines(Heard', toPage) /\ (Quiet(Heard, toPage) => Quiet(Heard', toPage))
    BY <1>1, <2>3, LinesTell
  <2>5. QED
    BY <1>2, <1>3, <2>1, <2>2, <2>4 DEF NotesOrdered
<1>4. CASE ~page.initialized
  <2>1. seen = <<>>
    BY <1>4 DEF NotesOrdered
  <2>2. <<>> \o page.early = page.early /\ <<>> \o Append(page.early, Context) = page.early \o <<Context>>
    BY <1>1
  <2>3. Heard' = Joined(Heard, <<Context>>)
    BY <1>2, <1>4, <2>1, <2>2 DEF Heard, Joined
  <2>4. Lines(Heard', toPage) /\ (Quiet(Heard, toPage) => Quiet(Heard', toPage))
    BY <1>1, <2>3, LinesTell
  <2>5. QED
    BY <1>2, <1>4, <2>1, <2>4 DEF NotesOrdered
<1>5. QED
  BY <1>3, <1>4


\* A frame of another kind goes out.
LEMMA WithoutSent ==
  ASSUME NEW X, NEW kind, NEW ways \in [Sockets -> Seq(X)], Without(kind, ways), NEW s \in Sockets,
         NEW f \in X, f[1] # kind, NEW ways2, ways2 = ways \/ ways2 = [ways EXCEPT ![s] = Append(@, f)]
  PROVE  Without(kind, ways2)
<1>1. CASE ways2 = [ways EXCEPT ![s] = Append(@, f)]
  <2>1. \A i \in 1..Len(Append(ways[s], f)) : Append(ways[s], f)[i][1] # kind
    <3>1. Len(Append(ways[s], f)) = Len(ways[s]) + 1 /\ Len(ways[s]) \in Nat
      OBVIOUS
    <3>2. \A i \in 1..Len(ways[s]) : Append(ways[s], f)[i] = ways[s][i]
      OBVIOUS
    <3>3. Append(ways[s], f)[Len(ways[s]) + 1] = f
      OBVIOUS
    <3>4. \A i \in 1..Len(Append(ways[s], f)) : i \in 1..Len(ways[s]) \/ i = Len(ways[s]) + 1
      BY <3>1
    <3>5. QED
      BY <3>2, <3>3, <3>4 DEF Without
  <2>2. \A t \in Sockets : ways2[t] = IF t = s THEN Append(ways[s], f) ELSE ways[t]
    BY <1>1
  <2>3. QED
    BY <2>1, <2>2 DEF Without
<1>2. QED
  BY <1>1

\* Frames that are lost or taken.
LEMMA WithoutTaken ==
  ASSUME NEW X, NEW kind, NEW ways \in [Sockets -> Seq(X)], Without(kind, ways), NEW s \in Sockets,
         NEW ways2, ways2 = [ways EXCEPT ![s] = <<>>] \/ (ways[s] # <<>> /\ ways2 = [ways EXCEPT ![s] = Tail(@)])
  PROVE  Without(kind, ways2)
<1>1. CASE ways2 = [ways EXCEPT ![s] = <<>>]
  BY <1>1 DEF Without
<1>2. CASE ways[s] # <<>> /\ ways2 = [ways EXCEPT ![s] = Tail(@)]
  <2> DEFINE rest == Tail(ways[s])
  <2>1. \A i \in 1..Len(rest) : i + 1 \in 1..Len(ways[s]) /\ rest[i] = ways[s][i + 1]
    BY <1>2
  <2>2. ways2[s] = rest /\ \A t \in Sockets : t # s => ways2[t] = ways[t]
    BY <1>2
  <2> HIDE <1>2 DEF rest
  <2>3. \A i \in 1..Len(rest) : rest[i][1] # kind
    BY <2>1 DEF Without
  <2>4. QED
    BY <2>2, <2>3 DEF Without
<1>3. QED
  BY <1>1, <1>2

\* Notes that go out are no auth_ok.
LEMMA WithoutFlushed ==
  ASSUME NEW ways \in Ways, Without("auth_ok", ways), NEW s \in Sockets, NEW m \in Seq(Nat),
         NEW ways2, ways2[s] = Joined(ways[s], Frames(m)), \A t \in Sockets : t # s => ways2[t] = ways[t]
  PROVE  Without("auth_ok", ways2)
<1> DEFINE more == Frames(m)
<1>1. more \in Seq(ToPage) /\ \A i \in 1..Len(more) : more[i][1] = "note"
  BY FramesNumbered
<1> HIDE DEF more
<1> DEFINE all == ways[s] \o more
<1>2. /\ Len(all) = Len(ways[s]) + Len(more) /\ Len(ways[s]) \in Nat /\ Len(more) \in Nat
      /\ \A i \in 1..Len(all) : all[i] = IF i <= Len(ways[s]) THEN ways[s][i] ELSE more[i - Len(ways[s])]
  BY <1>1 DEF Ways
<1>3. ways2[s] = all /\ \A t \in Sockets : t # s => ways2[t] = ways[t]
  BY DEF Joined, more
<1> HIDE DEF all
<1>4. ASSUME NEW i \in 1..Len(all) PROVE all[i][1] # "auth_ok"
  <2>1. CASE i <= Len(ways[s])
    <3>1. i \in 1..Len(ways[s]) /\ all[i] = ways[s][i]
      BY <1>2, <2>1
    <3>2. QED
      BY <3>1 DEF Without
  <2>2. CASE ~(i <= Len(ways[s]))
    <3>1. i - Len(ways[s]) \in 1..Len(more) /\ all[i] = more[i - Len(ways[s])]
      BY <1>2, <2>2
    <3>2. QED
      BY <1>1, <3>1
  <2>3. QED
    BY <2>1, <2>2
<1>5. QED
  BY <1>3, <1>4 DEF Without

\* Nobody is told that the session is authenticated before it is.
LEMMA TrustServer ==
  ASSUME BridgeTypes, Trusted, NEW s \in Sockets,
         \/ PageLoads \/ ToolResultExpires \/ SessionAges \/ Cleanup \/ ServerStops
         \/ Upgrade(s) \/ ServerOpens(s) \/ ServerReceives(s) \/ AuthSettles(s) \/ ServerSocketCloses(s)
  PROVE  Trusted'
<1> SUFFICES ASSUME AuthRequired, ~session.authenticated, ~session'.authenticated
             PROVE  ~page'.authenticated /\ Without("auth_ok", toPage') /\ Without("request", toServer')
  <2>1. session.authenticated => session'.authenticated
    BY TouchedShape DEF PageLoads, ToolResultExpires, SessionAges, Cleanup, ServerStops, Upgrade, ServerOpens,
       ServerReceives, AuthSettles, ServerSocketCloses, BridgeTypes, SessionRecord
  <2>2. QED
    BY <2>1 DEF Trusted
<1>1. ~page.authenticated /\ Without("auth_ok", toPage) /\ Without("request", toServer)
      /\ toPage \in [Sockets -> Seq(ToPage)] /\ toServer \in [Sockets -> Seq(ToServer)] /\ page \in PageRecord
  BY DEF Trusted, BridgeTypes
<1>2. CASE PageLoads \/ ToolResultExpires \/ SessionAges \/ Cleanup \/ ServerStops \/ Upgrade(s)
  BY <1>1, <1>2 DEF PageLoads, ToolResultExpires, SessionAges, Cleanup, ServerStops, Upgrade, PageRecord
<1>3. CASE ServerOpens(s)
  <2>1. session.pending \in Seq(Nat) /\ toPage \in Ways
    BY <1>1 DEF BridgeTypes, SessionRecord, Ways
  <2>2. toPage'[s] = Joined(toPage[s], Frames(session.pending)) /\ \A t \in Sockets : t # s => toPage'[t] = toPage[t]
    BY <1>1, <1>3 DEF ServerOpens, Frames, Joined
  <2>3. Without("auth_ok", toPage')
    <3>1. Without("auth_ok", toPage)
      BY <1>1
    <3>2. QED
      BY <2>1, <2>2, <3>1, WithoutFlushed
  <2>4. QED
    BY <1>1, <1>3, <2>3 DEF ServerOpens
<1>4. CASE ServerReceives(s)
  <2>1. <<"auth_error">> \in ToPage /\ <<"auth_error">>[1] # "auth_ok"
    BY DEF ToPage
  <2>2. toPage' = toPage \/ toPage' = [toPage EXCEPT ![s] = Append(@, <<"auth_error">>)]
    BY <1>4, Zenon DEF ServerReceives
  <2>3. toServer[s] # <<>> /\ toServer' = [toServer EXCEPT ![s] = Tail(@)]
    BY <1>4 DEF ServerReceives
  <2>4. Without("auth_ok", toPage')
    <3>1. PICK f \in ToPage : f[1] # "auth_ok" /\ (toPage' = toPage \/ toPage' = [toPage EXCEPT ![s] = Append(@, f)])
      BY <2>1, <2>2, Zenon
    <3>2. QED
      BY <1>1, <3>1, WithoutSent
  <2>5. Without("request", toServer')
    BY <1>1, <2>3, WithoutTaken
  <2>6. QED
    BY <1>1, <1>4, <2>4, <2>5 DEF ServerReceives
<1>5. CASE AuthSettles(s)
  <2>1. <<"auth_error">> \in ToPage /\ <<"auth_error">>[1] # "auth_ok"
    BY DEF ToPage
  <2>2. toPage' = toPage \/ toPage' = [toPage EXCEPT ![s] = Append(@, <<"auth_error">>)]
    <3>1. session' # [session EXCEPT !.authenticated = TRUE]
      BY DEF BridgeTypes, SessionRecord
    <3>2. QED
      BY <1>5, <3>1, Zenon DEF AuthSettles
  <2>3. Without("auth_ok", toPage')
    <3>1. PICK f \in ToPage : f[1] # "auth_ok" /\ (toPage' = toPage \/ toPage' = [toPage EXCEPT ![s] = Append(@, f)])
      BY <2>1, <2>2, Zenon
    <3>2. QED
      BY <1>1, <3>1, WithoutSent
  <2>4. QED
    BY <1>1, <1>5, <2>3 DEF AuthSettles
<1>6. CASE ServerSocketCloses(s)
  <2>1. toServer' = [toServer EXCEPT ![s] = <<>>]
    BY <1>6 DEF ServerSocketCloses
  <2>2. Without("request", toServer')
    BY <1>1, <2>1, WithoutTaken
  <2>3. QED
    BY <1>1, <1>6, <2>2 DEF ServerSocketCloses
<1>7. QED
  BY <1>2, <1>3, <1>4, <1>5, <1>6

\* bridge.js takes itself for authenticated only when told so.
LEMMA TrustPage ==
  ASSUME BridgeTypes, Trusted, NEW s \in Sockets,
         \/ PageConnects \/ AppInitializes \/ HostContextChanges
         \/ PageOpens(s) \/ PageReceives(s) \/ PageSocketCloses(s) \/ SocketDrops(s)
  PROVE  Trusted'
<1>0. session' = session
  BY DEF PageConnects, AppInitializes, HostContextChanges, PageOpens, PageReceives, PageSocketCloses, SocketDrops
<1> SUFFICES ASSUME AuthRequired, ~session.authenticated
             PROVE  ~page'.authenticated /\ Without("auth_ok", toPage') /\ Without("request", toServer')
  BY <1>0 DEF Trusted
<1>1. ~page.authenticated /\ Without("auth_ok", toPage) /\ Without("request", toServer)
      /\ toPage \in [Sockets -> Seq(ToPage)] /\ toServer \in [Sockets -> Seq(ToServer)] /\ page \in PageRecord
  BY DEF Trusted, BridgeTypes
<1>2. CASE PageConnects \/ AppInitializes \/ HostContextChanges
  BY <1>1, <1>2 DEF PageConnects, AppInitializes, HostContextChanges, PageRecord
<1>3. CASE PageOpens(s)
  <2>1. toServer' = toServer \/ toServer' = [toServer EXCEPT ![s] = Append(@, <<"auth">>)]
    BY <1>3, Zenon DEF PageOpens
  <2>2. PICK f \in ToServer : f[1] # "request" /\ (toServer' = toServer \/ toServer' = [toServer EXCEPT ![s] = Append(@, f)])
    <3>1. <<"auth">> \in ToServer /\ <<"auth">>[1] # "request"
      BY DEF ToServer
    <3>2. QED
      BY <2>1, <3>1, Zenon
  <2>3. Without("request", toServer')
    BY <1>1, <2>2, WithoutSent
  <2>4. QED
    BY <1>1, <1>3, <2>3 DEF PageOpens, PageRecord
<1>4. CASE PageReceives(s)
  <2>1. toPage[s] # <<>> /\ toPage' = [toPage EXCEPT ![s] = Tail(@)]
    BY <1>4 DEF PageReceives
  <2>2. Without("auth_ok", toPage')
    BY <1>1, <2>1, WithoutTaken
  <2>3. Head(toPage[s])[1] # "auth_ok"
    <3>1. 1 \in 1..Len(toPage[s]) /\ Head(toPage[s]) = toPage[s][1]
      BY <1>1, <2>1
    <3>2. QED
      BY <1>1, <3>1 DEF Without
  <2>4. QED
    BY <1>1, <1>4, <2>2, <2>3 DEF PageReceives, PageRecord
<1>5. CASE PageSocketCloses(s)
  <2>1. toPage' = [toPage EXCEPT ![s] = <<>>]
    BY <1>5 DEF PageSocketCloses
  <2>2. Without("auth_ok", toPage')
    BY <1>1, <2>1, WithoutTaken
  <2>3. QED
    BY <1>1, <1>5, <2>2 DEF PageSocketCloses, PageRecord
<1>6. CASE SocketDrops(s)
  <2>1. toPage' = [toPage EXCEPT ![s] = <<>>] /\ toServer' = [toServer EXCEPT ![s] = <<>>]
    BY <1>6 DEF SocketDrops
  <2>2. Without("auth_ok", toPage')
    BY <1>1, <2>1, WithoutTaken
  <2>3. Without("request", toServer')
    BY <1>1, <2>1, WithoutTaken
  <2>4. QED
    BY <1>1, <1>6, <2>2, <2>3 DEF SocketDrops
<1>7. QED
  BY <1>2, <1>3, <1>4, <1>5, <1>6

\* bridge.js sends no request before that.
LEMMA TrustRequest ==
  ASSUME BridgeTypes, Trusted, NEW r \in Requests, BackendAnswers(r) \/ AppRequests(r) \/ RequestExpires(r)
  PROVE  Trusted'
<1>0. session' = session /\ page' = page
  BY DEF BackendAnswers, AppRequests, RequestExpires
<1> SUFFICES ASSUME AuthRequired, ~session.authenticated
             PROVE  ~page.authenticated /\ Without("auth_ok", toPage') /\ Without("request", toServer')
  BY <1>0 DEF Trusted
<1>1. ~page.authenticated /\ Without("auth_ok", toPage) /\ Without("request", toServer)
      /\ toPage \in [Sockets -> Seq(ToPage)]
  BY DEF Trusted, BridgeTypes
<1>2. CASE BackendAnswers(r)
  <2>1. PICK s \in Sockets : toPage' = toPage \/ toPage' = [toPage EXCEPT ![s] = Append(@, <<"response", r>>)]
    BY <1>2, Zenon DEF BackendAnswers
  <2>2. PICK f \in ToPage : f[1] # "auth_ok" /\ (toPage' = toPage \/ toPage' = [toPage EXCEPT ![s] = Append(@, f)])
    <3>1. <<"response", r>> \in ToPage /\ <<"response", r>>[1] # "auth_ok"
      BY DEF ToPage
    <3>2. QED
      BY <2>1, <3>1, Zenon
  <2>3. Without("auth_ok", toPage')
    BY <1>1, <2>2, WithoutSent
  <2>4. QED
    BY <1>1, <1>2, <2>3 DEF BackendAnswers
<1>3. CASE AppRequests(r)
  <2>1. ~CanSend
    BY <1>1 DEF CanSend
  <2>2. QED
    BY <1>1, <1>3, <2>1 DEF AppRequests
<1>4. CASE RequestExpires(r)
  BY <1>1, <1>4 DEF RequestExpires
<1>5. QED
  BY <1>2, <1>3, <1>4


-----------------------------------------------------------------------------
(* The page. *)

\* What the steps keep holds at the start.
LEMMA BridgeInvInit == BridgeInit => BridgeInv
<1> SUFFICES ASSUME BridgeInit PROVE BridgeInv
  OBVIOUS
<1>1. BridgeTypes
  BY TypesInit
<1>2. NotesIn(<<>>) = {} /\ <<>> \o <<>> = <<>> /\ Joined(<<>>, <<>>) = <<>>
  BY DEF NotesIn, Joined
<1>3. Heard = <<>> /\ \A s \in Sockets : toPage[s] = <<>>
  BY <1>2 DEF BridgeInit, Heard
<1>4. Lines(Heard, toPage) /\ Quiet(Heard, toPage)
  BY <1>2, <1>3 DEF Lines, Quiet, Consecutive
<1>5. NotesOrdered
  BY <1>4 DEF BridgeInit, NotesOrdered
<1>6. Trusted
  <2>1. Without("auth_ok", toPage) /\ Without("request", toServer)
    BY DEF BridgeInit, Without
  <2>2. AuthRequired => ~page.authenticated
    BY BridgeAssumption DEF BridgeInit
  <2>3. QED
    BY <2>1, <2>2 DEF Trusted
<1>7. RequestsAnsweredOnce
  BY DEF BridgeInit, RequestsAnsweredOnce
<1>8. QED
  BY <1>1, <1>5, <1>6, <1>7 DEF BridgeInv

\* The notes, step by step.
LEMMA NotesServer ==
  ASSUME BridgeTypes, NotesOrdered, NEW s \in Sockets,
         \/ PageLoads \/ ToolResultExpires \/ SessionAges \/ Cleanup \/ ServerStops
         \/ Upgrade(s) \/ ServerOpens(s) \/ ServerReceives(s) \/ AuthSettles(s) \/ ServerSocketCloses(s)
  PROVE  NotesOrdered'
<1>1. CASE ToolResultExpires \/ SessionAges \/ Cleanup \/ ServerStops \/ Upgrade(s) \/ ServerSocketCloses(s)
  <2>1. session'.pending = session.pending
    BY <1>1 DEF ToolResultExpires, SessionAges, Cleanup, ServerStops, Upgrade, ServerSocketCloses, BridgeTypes, SessionRecord
  <2>2. page' = page /\ seen' = seen /\ toPage' = toPage
    BY <1>1 DEF ToolResultExpires, SessionAges, Cleanup, ServerStops, Upgrade, ServerSocketCloses
  <2>3. QED
    BY <2>1, <2>2, NotesKept
<1>2. CASE ServerReceives(s)
  <2>1. session'.pending = session.pending /\ UNCHANGED <<page, seen>>
    BY <1>2, TouchedShape DEF ServerReceives, BridgeTypes
  <2>2. toPage' = toPage \/ toPage' = [toPage EXCEPT ![s] = Append(@, <<"auth_error">>)]
    BY <1>2, Zenon DEF ServerReceives
  <2>3. PICK f \in ToPage : f[1] # "note" /\ (toPage' = toPage \/ toPage' = [toPage EXCEPT ![s] = Append(@, f)])
    <3>1. <<"auth_error">> \in ToPage /\ <<"auth_error">>[1] # "note"
      BY DEF ToPage
    <3>2. QED
      BY <2>2, <3>1, Zenon
  <2>4. QED
    BY <2>1, <2>3, NotesSent
<1>3. CASE AuthSettles(s)
  <2>1. session'.pending = session.pending /\ UNCHANGED <<page, seen>>
    BY <1>3 DEF AuthSettles, BridgeTypes, SessionRecord
  <2>2. \/ toPage' = toPage \/ toPage' = [toPage EXCEPT ![s] = Append(@, <<"auth_ok">>)]
        \/ toPage' = [toPage EXCEPT ![s] = Append(@, <<"auth_error">>)]
    BY <1>3, Zenon DEF AuthSettles
  <2>3. PICK f \in ToPage : f[1] # "note" /\ (toPage' = toPage \/ toPage' = [toPage EXCEPT ![s] = Append(@, f)])
    <3>1. <<"auth_error">> \in ToPage /\ <<"auth_error">>[1] # "note" /\ <<"auth_ok">> \in ToPage /\ <<"auth_ok">>[1] # "note"
      BY DEF ToPage
    <3>2. QED
      BY <2>2, <3>1, Zenon
  <2>4. QED
    BY <2>1, <2>3, NotesSent
<1>4. QED
  BY <1>1, <1>2, <1>3, NotesLoads, NotesFlushed

\* What bridge.js does keeps the notes in order.
LEMMA NotesPage ==
  ASSUME BridgeTypes, NotesOrdered, NEW s \in Sockets,
         \/ PageConnects \/ AppInitializes \/ HostContextChanges
         \/ PageOpens(s) \/ PageReceives(s) \/ PageSocketCloses(s) \/ SocketDrops(s)
  PROVE  NotesOrdered'
<1>1. CASE PageConnects \/ PageOpens(s)
  <2>1. /\ session' = session /\ seen' = seen /\ toPage' = toPage
        /\ page'.loaded = page.loaded /\ page'.initialized = page.initialized /\ page'.early = page.early
    BY <1>1 DEF PageConnects, PageOpens, BridgeTypes, PageRecord
  <2>2. QED
    BY <2>1, NotesKept
<1>2. CASE PageSocketCloses(s) \/ SocketDrops(s)
  <2>1. /\ session' = session /\ seen' = seen
        /\ page'.loaded = page.loaded /\ page'.initialized = page.initialized /\ page'.early = page.early
    BY <1>2 DEF PageSocketCloses, SocketDrops, BridgeTypes, PageRecord
  <2>2. toPage' = [toPage EXCEPT ![s] = <<>>]
    BY <1>2 DEF PageSocketCloses, SocketDrops
  <2>3. QED
    BY <2>1, <2>2, NotesLost
<1>3. QED
  BY <1>1, <1>2, NotesInitialized, NotesContext, NotesReceived

\* Requests and answers keep the notes in order.
LEMMA NotesRequest ==
  ASSUME BridgeTypes, NotesOrdered, NEW r \in Requests, BackendAnswers(r) \/ AppRequests(r) \/ RequestExpires(r)
  PROVE  NotesOrdered'
<1>1. session' = session /\ UNCHANGED <<page, seen>>
  BY DEF BackendAnswers, AppRequests, RequestExpires
<1>2. CASE BackendAnswers(r)
  <2>1. PICK s \in Sockets : toPage' = toPage \/ toPage' = [toPage EXCEPT ![s] = Append(@, <<"response", r>>)]
    BY <1>2, Zenon DEF BackendAnswers
  <2>2. PICK f \in ToPage : f[1] # "note" /\ (toPage' = toPage \/ toPage' = [toPage EXCEPT ![s] = Append(@, f)])
    <3>1. <<"response", r>> \in ToPage /\ <<"response", r>>[1] # "note"
      BY DEF ToPage
    <3>2. QED
      BY <2>1, <3>1, Zenon
  <2>3. QED
    BY <1>1, <2>2, NotesSent
<1>3. CASE AppRequests(r) \/ RequestExpires(r)
  <2>1. toPage' = toPage
    BY <1>3 DEF AppRequests, RequestExpires
  <2>2. QED
    BY <1>1, <2>1, NotesKept
<1>4. QED
  BY <1>2, <1>3

\* The answers to the app.
LEMMA AnswersStep ==
  ASSUME BridgeTypes, RequestsAnsweredOnce, BridgeNext
  PROVE  RequestsAnsweredOnce'
<1>1. CASE /\ answers' = answers
           /\ \A r \in Requests : request'[r].pending => request[r].pending
  BY <1>1 DEF RequestsAnsweredOnce
<1>2. ASSUME NEW r \in Requests, request[r].pending, Answer(r) PROVE RequestsAnsweredOnce'
  BY <1>2 DEF Answer, RequestsAnsweredOnce, BridgeTypes, RequestRecord
<1>3. ASSUME NEW r \in Requests, AppRequests(r) PROVE RequestsAnsweredOnce'
  BY <1>3 DEF AppRequests, RequestsAnsweredOnce, BridgeTypes, RequestRecord
<1>4. ASSUME NEW r \in Requests, BackendAnswers(r) PROVE RequestsAnsweredOnce'
  <2>1. answers' = answers /\ \A q \in Requests : request'[q].pending = request[q].pending
    BY <1>4 DEF BackendAnswers, BridgeTypes, RequestRecord
  <2>2. QED
    BY <1>1, <2>1
<1>5. ASSUME NEW r \in Requests, RequestExpires(r) PROVE RequestsAnsweredOnce'
  BY <1>2, <1>5 DEF RequestExpires
<1>6. ASSUME NEW s \in Sockets, ServerReceives(s) PROVE RequestsAnsweredOnce'
  <2>1. /\ answers' = answers
        /\ \/ request' = request
           \/ \E f : request' = [request EXCEPT ![f].at = s]
    BY <1>6, Zenon DEF ServerReceives
  <2>2. ASSUME NEW f, request' = [request EXCEPT ![f].at = s]
        PROVE  \A q \in Requests : request'[q].pending = request[q].pending
    BY <2>2 DEF BridgeTypes, RequestRecord
  <2>3. \A q \in Requests : request'[q].pending = request[q].pending
    BY <2>1, <2>2
  <2>4. QED
    BY <1>1, <2>1, <2>3
<1>7. ASSUME NEW s \in Sockets, PageReceives(s) PROVE RequestsAnsweredOnce'
  <2>1. Head(toPage[s]) \in ToPage
    BY <1>7 DEF PageReceives, BridgeTypes
  <2>2. \A f \in ToPage : f[1] = "response" => f[2] \in Requests
    BY DEF ToPage
  <2>3. \/ UNCHANGED <<request, answers>>
        \/ \E r \in Requests : request[r].pending /\ Answer(r)
    BY <1>7, <2>1, <2>2, Zenon DEF PageReceives
  <2>4. QED
    BY <1>1, <1>2, <2>3
<1>8. CASE UNCHANGED <<request, answers>>
  BY <1>1, <1>8
<1>9. QED
  BY <1>3, <1>4, <1>5, <1>6, <1>7, <1>8 DEF BridgeNext, PageLoads, ToolResultExpires, SessionAges, Cleanup, ServerStops, PageConnects,
     AppInitializes, HostContextChanges, Upgrade, ServerOpens, AuthSettles, ServerSocketCloses, PageOpens, PageSocketCloses, SocketDrops

\* Every step of page and server keeps it all.
LEMMA BridgeInvStep ==
  ASSUME BridgeInv, BridgeNext
  PROVE  BridgeInv'
<1>1. BridgeTypes /\ NotesOrdered /\ Trusted /\ RequestsAnsweredOnce
  BY DEF BridgeInv
<1>2. RequestsAnsweredOnce'
  BY <1>1, AnswersStep
<1>3. ASSUME NEW r \in Requests, BackendAnswers(r) \/ AppRequests(r) \/ RequestExpires(r)
      PROVE  BridgeInv'
  BY <1>1, <1>2, <1>3, TypesRequest, NotesRequest, TrustRequest DEF BridgeInv
<1>4. ASSUME NEW s \in Sockets,
             \/ PageConnects \/ AppInitializes \/ HostContextChanges
             \/ PageOpens(s) \/ PageReceives(s) \/ PageSocketCloses(s) \/ SocketDrops(s)
      PROVE  BridgeInv'
  BY <1>1, <1>2, <1>4, TypesPage, NotesPage, TrustPage DEF BridgeInv
<1>5. ASSUME NEW s \in Sockets,
             \/ PageLoads \/ ToolResultExpires \/ SessionAges \/ Cleanup \/ ServerStops
             \/ Upgrade(s) \/ ServerOpens(s) \/ ServerReceives(s) \/ AuthSettles(s) \/ ServerSocketCloses(s)
      PROVE  BridgeInv'
  BY <1>1, <1>2, <1>5, TypesServer, NotesServer, TrustServer DEF BridgeInv
<1>6. 1 \in Sockets
  BY BridgeAssumption DEF Sockets
<1>7. QED
  BY <1>3, <1>4, <1>5, <1>6 DEF BridgeNext

\* It is what the page was promised.
LEMMA BridgeServes == BridgeInv => InOrder /\ NeverRefused /\ RequestsAnsweredOnce
<1> SUFFICES ASSUME BridgeInv PROVE InOrder /\ NeverRefused
  BY DEF BridgeInv
<1>1. InOrder
  <2>1. Consecutive(Heard)
    BY DEF BridgeInv, NotesOrdered, Lines
  <2>2. seen # <<>> => page.initialized /\ Head(seen) = Initialized
    BY DEF BridgeInv, NotesOrdered, BridgeTypes
  <2>3. QED
    BY <2>1, <2>2 DEF InOrder
<1>2. NeverRefused
  <2>1. \A s \in Sockets : DOMAIN toServer[s] = 1..Len(toServer[s])
    BY DEF BridgeInv, BridgeTypes
  <2>2. QED
    BY <2>1 DEF BridgeInv, Trusted, Without, NeverRefused
<1>3. QED
  BY <1>1, <1>2

-----------------------------------------------------------------------------
(* The class, and the requests of the server. *)

PostRecord == [tracked : BOOLEAN, on : Starts \cup {NoLink}]
ClientInv ==
  /\ post \in [Posts -> PostRecord] /\ replies \in [Posts -> Nat] /\ link \in Starts \cup {NoLink}
  /\ PostsAnsweredOnce

\* No post has been answered at the start.
LEMMA ClientInvInit == ClientInit => ClientInv
BY DEF ClientInit, ClientInv, PostRecord, PostsAnsweredOnce

\* The class answers a post by forgetting it (message-router.ts, client.ts).
LEMMA ClientInvStep ==
  ASSUME ClientInv, ClientNext
  PROVE  ClientInv'
<1>0. /\ post \in [Posts -> PostRecord] /\ replies \in [Posts -> Nat] /\ link \in Starts \cup {NoLink}
      /\ \A p \in Posts : replies[p] <= 1 /\ (post[p].tracked => replies[p] = 0)
  BY DEF ClientInv, PostsAnsweredOnce
<1>1. ASSUME NEW i \in Starts, StartCalled(i) \/ PlatformReady(i) \/ LinkOpens(i) \/ LinkFails(i)
      PROVE  ClientInv'
  <2>1. UNCHANGED <<post, replies>> /\ link' \in Starts \cup {NoLink}
    BY <1>0, <1>1 DEF StartCalled, PlatformReady, LinkOpens, LinkFails
  <2>2. QED
    BY <1>0, <2>1 DEF ClientInv, PostsAnsweredOnce
<1>2. ASSUME NEW i \in Starts, LinkCloses(i) PROVE ClientInv'
  <2>1. post' \in [Posts -> PostRecord] /\ \A p \in Posts : post'[p].tracked = post[p].tracked
    BY <1>0, <1>2 DEF LinkCloses, PostRecord
  <2>2. QED
    BY <1>0, <1>2, <2>1 DEF LinkCloses, ClientInv, PostsAnsweredOnce
<1>3. CASE Destroy
  <2>1. post' \in [Posts -> PostRecord] /\ \A p \in Posts : ~post'[p].tracked
    BY <1>0, <1>3 DEF Destroy, PostRecord
  <2>2. replies' \in [Posts -> Nat] /\ \A p \in Posts : replies'[p] <= 1
    BY <1>0, <1>3 DEF Destroy, Tracked
  <2>3. QED
    BY <1>3, <2>1, <2>2 DEF Destroy, ClientInv, PostsAnsweredOnce
<1>4. ASSUME NEW p \in Posts, AppPosts(p) PROVE ClientInv'
  <2>1. post' = [post EXCEPT ![p] = [tracked |-> TRUE, on |-> link]] /\ [tracked |-> TRUE, on |-> link] \in PostRecord
    BY <1>0, <1>4 DEF AppPosts, PostRecord
  <2>2. QED
    BY <1>0, <1>4, <2>1 DEF AppPosts, ClientInv, PostsAnsweredOnce
<1>5. ASSUME NEW p \in Posts, AppAsksBridge(p) PROVE ClientInv'
  BY <1>0, <1>5 DEF AppAsksBridge, ClientInv, PostsAnsweredOnce
<1>6. ASSUME NEW p \in Posts, AnswerArrives(p) PROVE ClientInv'
  <2>1. CASE post[p].tracked /\ listeners.messages > 0
    <3>1. /\ post' = [post EXCEPT ![p] = [tracked |-> FALSE, on |-> NoLink]] /\ link' = link
          /\ replies' = [replies EXCEPT ![p] = @ + 1] /\ [tracked |-> FALSE, on |-> NoLink] \in PostRecord
      BY <1>6, <2>1 DEF AnswerArrives, PostRecord
    <3>2. post' \in [Posts -> PostRecord] /\ ~post'[p].tracked /\ \A q \in Posts : q # p => post'[q] = post[q]
      BY <1>0, <3>1
    <3>3. replies' \in [Posts -> Nat] /\ replies'[p] = 1 /\ \A q \in Posts : q # p => replies'[q] = replies[q]
      BY <1>0, <2>1, <3>1
    <3>4. QED
      BY <1>0, <3>1, <3>2, <3>3 DEF ClientInv, PostsAnsweredOnce
  <2>2. CASE ~(post[p].tracked /\ listeners.messages > 0)
    <3>1. post' = [post EXCEPT ![p] = [@ EXCEPT !.on = NoLink]] /\ replies' = replies /\ link' = link
      BY <1>6, <2>2 DEF AnswerArrives
    <3>2. post' \in [Posts -> PostRecord] /\ \A q \in Posts : post'[q].tracked = post[q].tracked
      BY <1>0, <3>1 DEF PostRecord
    <3>3. QED
      BY <1>0, <3>1, <3>2 DEF ClientInv, PostsAnsweredOnce
  <2>3. QED
    BY <2>1, <2>2
<1>7. ASSUME NEW p \in Posts, PostExpires(p) PROVE ClientInv'
  <2>1. post' = [post EXCEPT ![p] = [@ EXCEPT !.tracked = FALSE]] /\ replies' = [replies EXCEPT ![p] = @ + 1] /\ link' = link
        /\ post[p].tracked
    BY <1>7 DEF PostExpires, Settle
  <2>2. /\ post' \in [Posts -> PostRecord] /\ ~post'[p].tracked
        /\ \A q \in Posts : q # p => post'[q].tracked = post[q].tracked
    BY <1>0, <2>1 DEF PostRecord
  <2>3. QED
    BY <1>0, <2>1, <2>2 DEF ClientInv, PostsAnsweredOnce
<1>8. QED
  BY <1>1, <1>2, <1>3, <1>4, <1>5, <1>6, <1>7 DEF ClientNext

\* The five kinds of requests the server and the page's router are shown.
UriAsked ==
  \E c \in Configs, u \in UiUris, mode \in {"app", "query"}, r \in {<<>>, <<"ref">>} :
    served = [case |-> "uri", mode |-> mode, uri |-> u, req |-> [Of(u, mode) EXCEPT !.ref = r], config |-> c]
RequestMade ==
  \E p \in Paths, m \in {"GET", "POST", "OPTIONS"}, s \in {<<>>, <<"known">>, <<"lost">>}, upgrade \in BOOLEAN, n \in {0, SessionLimit},
     o \in {<<>>, <<"o1">>, <<"o2">>}, c \in {x \in Configs : x.csp = NoCsp /\ x.override = NoCsp} :
    served = [case |-> "request", config |-> c,
              req |-> [Request EXCEPT !.method = m, !.path = p, !.session = s, !.upgrade = upgrade, !.pages = n, !.origin = o]]
MessageSent ==
  \E id \in {<< >>, << 1 >>}, m \in BOOLEAN, h \in {"null", "answers", "throws"}, b \in {"none", "ok", "fails"} :
    served = [case |-> "message", message |-> [id |-> id, method |-> m], host |-> h, http |-> b]
RouterGiven ==
  \E has \in SUBSET {"id", "method", "result", "error"}, id \in 0..2, open \in SUBSET (1..2), h \in {"none", "returns", "throws"} :
    served = [case |-> "router", message |-> [has |-> has, id |-> id], pending |-> open, handler |-> h]
DataPresented == \E d \in Presented, n \in Nows : served = [case |-> "initData", data |-> d, now |-> n]

\* Whoever answers, each request has its own answer.
LEMMA ServedReplied == ServedInit \/ served = [case |-> "none"] => Replied
<1>1. ASSUME served.case # "message", served.case # "router" PROVE Replied
  BY <1>1 DEF Replied
<1>2. ASSUME NEW id \in {<< >>, << 1 >>}, NEW m \in BOOLEAN, NEW h \in {"null", "answers", "throws"}, NEW b \in {"none", "ok", "fails"},
             served = [case |-> "message", message |-> [id |-> id, method |-> m], host |-> h, http |-> b]
      PROVE  Replied
  <2> DEFINE x == [id |-> id, method |-> m]
             r == RouteMessage(x, h, b)
  <2>1. x.id = id /\ x.method = m
    OBVIOUS
  <2> HIDE DEF x
  <2>2. (IsRequest(x) => Len(r) = 1 /\ r[1].id = x.id) /\ (~IsRequest(x) => r = <<>> \/ r[1].what = "host")
    BY <2>1 DEF RouteMessage, BackendReply, IsRequest, Reply
  <2>3. served.case = "message" /\ served.message = x /\ served.host = h /\ served.http = b
    BY <1>2 DEF x
  <2>4. QED
    BY <2>2, <2>3 DEF Replied
<1>3. ASSUME NEW has \in SUBSET {"id", "method", "result", "error"}, NEW id \in 0..2, NEW open \in SUBSET (1..2),
             NEW h \in {"none", "returns", "throws"},
             served = [case |-> "router", message |-> [has |-> has, id |-> id], pending |-> open, handler |-> h]
      PROVE  Replied
  <2> DEFINE x == [has |-> has, id |-> id]
             r == HandleMessage(x, open, h)
             back == HandleMessage(r.reply[1], {1, 2}, "returns")
  <2>1. x.has = has /\ x.id = id
    OBVIOUS
  <2> HIDE DEF x
  <2>2. r.resolved \cup r.rejected \subseteq {x.id} /\ r.resolved \cap r.rejected = {}
    BY <2>1 DEF HandleMessage, IsSuccess, IsFailure
  <2>3. r.reply # <<>> => r.resolved \cup r.rejected = {} /\ "id" \in x.has
    BY <2>1 DEF HandleMessage, IsSuccess, IsFailure
  <2>4. r.reply # <<>> => r.reply = RouterReply(x, h)
    BY <2>1 DEF HandleMessage, IsSuccess, IsFailure
  <2>5. \/ RouterReply(x, h)[1] = [has |-> {"id", "result"}, id |-> id]
        \/ RouterReply(x, h)[1] = [has |-> {"id", "error"}, id |-> id]
    BY <2>1 DEF RouterReply
  <2>6. ASSUME NEW kind \in {"result", "error"}, NEW y, y.has = {"id", kind}, y.id = id
        PROVE  LET z == HandleMessage(y, {1, 2}, "returns") IN z.reply = <<>> /\ z.resolved \cup z.rejected = {id} \ {0}
    <3>1. CASE kind = "result"
      <4>1. IsSuccess(y)
        BY <2>6, <3>1 DEF IsSuccess
      <4>2. HandleMessage(y, {1, 2}, "returns") = [resolved |-> {1, 2} \cap {id}, rejected |-> {}, reply |-> <<>>]
        BY <2>6, <4>1 DEF HandleMessage
      <4>3. {1, 2} \cap {id} = {id} \ {0}
        <5>1. id = 0 \/ id = 1 \/ id = 2
          BY <1>3
        <5>2. id = 0 => {1, 2} \cap {id} = {} /\ {id} \ {0} = {}
          OBVIOUS
        <5>3. id \in {1, 2} => {1, 2} \cap {id} = {id}
          OBVIOUS
        <5>4. id \in {1, 2} => {id} \ {0} = {id}
          OBVIOUS
        <5>5. QED
          BY <5>1, <5>2, <5>3, <5>4
      <4>4. QED
        BY <4>2, <4>3
    <3>2. CASE kind = "error"
      <4>1. ~IsSuccess(y) /\ IsFailure(y)
        BY <2>6, <3>2 DEF IsSuccess, IsFailure
      <4>2. HandleMessage(y, {1, 2}, "returns") = [resolved |-> {}, rejected |-> ({1, 2} \cap {id}) \ {0}, reply |-> <<>>]
        BY <2>6, <4>1 DEF HandleMessage
      <4>3. {1, 2} \cap {id} = {id} \ {0}
        <5>1. id = 0 \/ id = 1 \/ id = 2
          BY <1>3
        <5>2. id = 0 => {1, 2} \cap {id} = {} /\ {id} \ {0} = {}
          OBVIOUS
        <5>3. id \in {1, 2} => {1, 2} \cap {id} = {id}
          OBVIOUS
        <5>4. id \in {1, 2} => {id} \ {0} = {id}
          OBVIOUS
        <5>5. QED
          BY <5>1, <5>2, <5>3, <5>4
      <4>4. QED
        BY <4>2, <4>3
    <3>3. QED
      BY <3>1, <3>2
  <2>7. r.reply # <<>> => back.reply = <<>> /\ back.resolved \cup back.rejected = {x.id} \ {0}
    <3> HIDE DEF r
    <3>1. ASSUME r.reply # <<>> PROVE \E kind \in {"result", "error"} : r.reply[1].has = {"id", kind} /\ r.reply[1].id = id
      BY <2>4, <2>5, <3>1
    <3>2. QED
      BY <2>1, <2>6, <3>1
  <2>8. served.case = "router" /\ served.message = x /\ served.pending = open /\ served.handler = h
    BY <1>3 DEF x
  <2> HIDE DEF r, back
  <2>9. QED
    BY <2>2, <2>3, <2>7, <2>8 DEF Replied, r, back
<1>4. ASSUME ServedInit PROVE Replied
  <2>1. UriAsked \/ RequestMade \/ MessageSent \/ RouterGiven \/ DataPresented
    BY <1>4 DEF ServedInit, UriAsked, RequestMade, MessageSent, RouterGiven, DataPresented
  <2>2. CASE UriAsked
    <3>1. PICK c, u, mode, r :
             served = [case |-> "uri", mode |-> mode, uri |-> u, req |-> [Of(u, mode) EXCEPT !.ref = r], config |-> c]
      BY <2>2, Zenon DEF UriAsked
    <3>2. served.case = "uri"
      BY <3>1
    <3>3. QED
      BY <1>1, <3>2
  <2>3. CASE RequestMade
    <3>1. PICK c, q : served = [case |-> "request", config |-> c, req |-> q]
      BY <2>3, Zenon DEF RequestMade
    <3>2. served.case = "request"
      BY <3>1
    <3>3. QED
      BY <1>1, <3>2
  <2>4. CASE DataPresented
    <3>1. PICK d, n : served = [case |-> "initData", data |-> d, now |-> n]
      BY <2>4, Zenon DEF DataPresented
    <3>2. served.case = "initData"
      BY <3>1
    <3>3. QED
      BY <1>1, <3>2
  <2>5. CASE MessageSent
    BY <1>2, <2>5, Zenon DEF MessageSent
  <2>6. CASE RouterGiven
    BY <1>3, <2>6, Zenon DEF RouterGiven
  <2>7. QED
    BY <2>1, <2>2, <2>3, <2>4, <2>5, <2>6
<1>5. served = [case |-> "none"] => Replied
  BY <1>1
<1>6. QED
  BY <1>4, <1>5

ServingInv == BridgeInv /\ ClientInv /\ Replied

\* Whatever part runs, the page gets what it was promised (bridge.js, client.ts, message-router.ts, server.ts).
THEOREM ServesPage == Spec => []PageServed
<1>1. Init => ServingInv
  BY BridgeInvInit, ClientInvInit, ServedReplied DEF Init, ServingInv
<1>2. ServingInv /\ [Next]_<<tunnelVars, bridgeVars, clientVars, served, part>> => ServingInv'
  <2> SUFFICES ASSUME ServingInv, [Next]_<<tunnelVars, bridgeVars, clientVars, served, part>> PROVE ServingInv'
    OBVIOUS
  <2>1. Replied'
    <3>1. served' = served
      BY DEF Next, ServedNext
    <3>2. QED
      BY <3>1 DEF ServingInv, Replied
  <2>2. BridgeInv'
    <3>1. CASE BridgeNext
      BY <3>1, BridgeInvStep DEF ServingInv
    <3>2. CASE UNCHANGED bridgeVars
      BY <3>2 DEF ServingInv, BridgeInv, BridgeTypes, NotesOrdered, Trusted, RequestsAnsweredOnce, Heard, bridgeVars
    <3>3. QED
      BY <3>1, <3>2 DEF Next
  <2>3. ClientInv'
    <3>1. CASE ClientNext
      BY <3>1, ClientInvStep DEF ServingInv
    <3>2. CASE UNCHANGED clientVars
      BY <3>2 DEF ServingInv, ClientInv, PostsAnsweredOnce, clientVars
    <3>3. QED
      BY <3>1, <3>2 DEF Next
  <2>4. QED
    BY <2>1, <2>2, <2>3 DEF ServingInv
<1>3. ServingInv => PageServed
  BY BridgeServes DEF ServingInv, ClientInv, PageServed, AnsweredOnce
<1>4. QED
  BY <1>1, <1>2, <1>3, PTL DEF Spec

-----------------------------------------------------------------------------
(* ServedPages: paths.                                                      *)

\* What normalizePath() resolves and drops, and of that what is dropped.
Dots == {"..", ".", "empty"}
Nowhere == {".", "empty"}

\* What a path is left with.
Kept(E, D) == Seq(E \ ({".."} \cup D))

\* The loop of normalizePath().
IsEntered(entered, p, D) == entered = [n \in 0..Len(p) |-> IF n = 0 THEN <<>> ELSE Enter(entered[n - 1], p[n], D)]

\* One segment more.
LEMMA EnterTyped ==
  ASSUME NEW E, NEW D, NEW a \in Kept(E, D), NEW x \in E
  PROVE  Enter(a, x, D) \in Kept(E, D)
<1> DEFINE F == E \ ({".."} \cup D)
<1>0. a \in Seq(F) /\ Kept(E, D) = Seq(F)
  BY DEF Kept
<1>1. CASE x = ".."
  <2>1. CASE a = <<>>
    BY <1>0, <1>1, <2>1 DEF Enter
  <2>2. CASE a # <<>>
    <3>1. Len(a) \in Nat /\ \A i \in 1..Len(a)-1 : a[i] \in F
      <4> HIDE DEF F
      <4> QED
        BY <1>0, LenProperties, ElementOfSeq
    <3>2. SubSeq(a, 1, Len(a) - 1) \in Seq(F)
      <4> HIDE DEF F
      <4> QED
        BY <3>1, SubSeqProperties
    <3> HIDE DEF F
    <3> QED
      BY <1>0, <1>1, <2>2, <3>2 DEF Enter, Front
  <2> QED
    BY <2>1, <2>2
<1>2. CASE x # ".." /\ x \in D
  BY <1>2 DEF Enter
<1>3. CASE x # ".." /\ x \notin D
  <2>1. x \in F /\ Enter(a, x, D) = Append(a, x)
    BY <1>3 DEF Enter
  <2> HIDE DEF F
  <2> QED
    BY <1>0, <2>1, AppendProperties
<1> QED
  BY <1>1, <1>2, <1>3

\* NormalizePath() is a loop that runs over the segments.
LEMMA EnteredRuns ==
  ASSUME NEW E, NEW D, NEW p \in Seq(E)
  PROVE  \E entered \in [0..Len(p) -> Kept(E, D)] : IsEntered(entered, p, D) /\ Resolved(p, D) = entered[Len(p)]
<1> DEFINE N == Len(p)
           A == Kept(E, D)
           step == [x \in A \X (1..N) |-> Enter(x[1], p[x[2]], D)]
<1>1. N \in Nat /\ << >> \in A /\ \A n \in 1..N : p[n] \in E
  <2>1. << >> \in A
    <3> DEFINE F == E \ ({".."} \cup D)
    <3>1. A = Seq(F)
      BY DEF Kept
    <3> HIDE DEF F
    <3> QED
      BY <3>1, EmptySeq
  <2> HIDE DEF A
  <2> QED
    BY <2>1, LenProperties, ElementOfSeq
<1>2. ASSUME NEW a \in A, NEW n \in 1..N PROVE step[<<a, n>>] = Enter(a, p[n], D) /\ Enter(a, p[n], D) \in A
  <2>1. <<a, n>> \in A \X (1..N) /\ <<a, n>>[1] = a /\ <<a, n>>[2] = n
    OBVIOUS
  <2>2. step[<<a, n>>] = Enter(<<a, n>>[1], p[<<a, n>>[2]], D)
    BY <2>1
  <2>3. Enter(a, p[n], D) \in A
    BY <1>1, EnterTyped
  <2> QED
    BY <2>1, <2>2, <2>3
<1>3. PICK u \in [0..N -> A] : IsLoop(u, N, << >>, step)
  <2>1. \A a \in A, n \in 1..N : step[<<a, n>>] \in A
    <3> HIDE DEF A, step
    <3> QED
      BY <1>2
  <2> HIDE DEF A, step, N
  <2> QED
    BY <1>1, <2>1, LoopRuns
<1>4. \A n \in 0..N : u[n] = IF n = 0 THEN << >> ELSE Enter(u[n - 1], p[n], D)
  <2>1. ASSUME NEW n \in 0..N PROVE u[n] = IF n = 0 THEN << >> ELSE Enter(u[n - 1], p[n], D)
    <3>1. CASE n = 0
      BY <3>1, <1>3 DEF IsLoop
    <3>2. CASE n # 0
      <4>1. n \in 1..N /\ n - 1 \in 0..N
        BY <1>1, <3>2
      <4>2. u[n - 1] \in A
        BY <1>3, <4>1
      <4>3. u[n] = step[<<u[n - 1], n>>]
        <5> HIDE DEF step, A
        <5> QED
          BY <3>2, <1>3 DEF IsLoop
      <4> HIDE DEF step, A
      <4> QED
        BY <1>2, <3>2, <4>1, <4>2, <4>3
    <3> QED
      BY <3>1, <3>2
  <2> QED
    BY <2>1
<1>5. IsEntered(u, p, D)
  <2> HIDE DEF A
  <2> QED
    BY <1>3, <1>4 DEF IsEntered
<1> DEFINE w == CHOOSE entered : IsEntered(entered, p, D)
<1>6. IsEntered(w, p, D)
  BY <1>5
<1>7. w = u
  <2>1. \A n \in 1..N : n \in 0..N /\ n # 0
    BY <1>1
  <2>2. 0 \in 0..N
    BY <1>1
  <2> HIDE DEF w
  <2>3. \A n \in 0..N : w[n] = IF n = 0 THEN << >> ELSE Enter(w[n - 1], p[n], D)
    BY <1>6 DEF IsEntered
  <2>4. w[0] = u[0]
    BY <1>4, <2>2, <2>3
  <2>5. \A n \in 1..N : w[n - 1] = u[n - 1] => w[n] = u[n]
    <3> HIDE DEF A
    <3> QED
      BY <1>4, <2>1, <2>3
  <2>6. \A n \in 0..N : w[n] = u[n]
    <3> DEFINE T == {n \in 0..N : w[n] = u[n]}
    <3> HIDE DEF N, A, w
    <3>1. 0 \in T /\ \A n \in 1..N : n - 1 \in T => n \in T
      BY <2>1, <2>2, <2>4, <2>5
    <3>2. \A n \in 0..N : n \in T
      <4> HIDE DEF T
      <4> QED
        BY <1>1, <3>1, UpToInduction
    <3> QED
      BY <3>2
  <2>7. w = [n \in 0..N |-> w[n]] /\ u = [n \in 0..N |-> u[n]]
    BY <1>5, <1>6 DEF IsEntered
  <2> QED
    BY <2>6, <2>7
<1>8. Resolved(p, D) = w[N]
  BY Zenon DEF Resolved, IsEntered
<1> QED
  <2> HIDE DEF w, A
  <2> QED
    BY <1>3, <1>5, <1>7, <1>8 DEF A

\* The steps of the loop.
LEMMA EnteredSteps ==
  ASSUME NEW p, Len(p) \in Nat, NEW D, NEW u, IsEntered(u, p, D)
  PROVE  u[0] = <<>> /\ \A n \in 1..Len(p) : u[n] = Enter(u[n - 1], p[n], D)
<1>1. \A n \in 1..Len(p) : n \in 0..Len(p) /\ n # 0
  OBVIOUS
<1>2. 0 \in 0..Len(p)
  OBVIOUS
<1>3. \A n \in 0..Len(p) : u[n] = IF n = 0 THEN <<>> ELSE Enter(u[n - 1], p[n], D)
  BY DEF IsEntered
<1> QED
  BY <1>1, <1>2, <1>3

\* A path with a segment more is normalized by that segment.
LEMMA ResolvedMore ==
  ASSUME NEW E, NEW D, NEW p \in Seq(E), NEW x \in E
  PROVE  Resolved(Append(p, x), D) = Enter(Resolved(p, D), x, D)
<1> DEFINE N == Len(p)
           q == Append(p, x)
<1>1. q \in Seq(E) /\ Len(q) = N + 1 /\ N \in Nat /\ q[N + 1] = x /\ \A n \in 1..N : q[n] = p[n]
  BY AppendProperties, LenProperties
<1>2. PICK u : IsEntered(u, p, D) /\ Resolved(p, D) = u[N]
  BY EnteredRuns
<1> HIDE DEF q
<1>3. PICK v : IsEntered(v, q, D) /\ Resolved(q, D) = v[Len(q)]
  <2>1. q \in Seq(E)
    BY <1>1
  <2>2. \E v \in [0..Len(q) -> Kept(E, D)] : IsEntered(v, q, D) /\ Resolved(q, D) = v[Len(q)]
    BY <2>1, EnteredRuns
  <2> QED
    BY <2>2
<1>4. u[0] = <<>> /\ \A n \in 1..N : u[n] = Enter(u[n - 1], p[n], D)
  BY <1>1, <1>2, EnteredSteps
<1>5. v[0] = <<>> /\ \A n \in 1..Len(q) : v[n] = Enter(v[n - 1], q[n], D)
  BY <1>1, <1>3, EnteredSteps
<1>6. \A n \in 0..N : n \in {k \in 0..N : v[k] = u[k]}
  <2> DEFINE T == {k \in 0..N : v[k] = u[k]}
  <2> HIDE DEF N
  <2>1. 0 \in T
    BY <1>1, <1>4, <1>5
  <2>2. ASSUME NEW n \in 1..N, n - 1 \in T PROVE n \in T
    <3>1. n \in 0..N /\ n \in 1..Len(q) /\ q[n] = p[n]
      BY <1>1
    <3>2. v[n - 1] = u[n - 1]
      BY <2>2
    <3>3. v[n] = u[n]
      BY <1>4, <1>5, <3>1, <3>2
    <3> QED
      BY <3>1, <3>3
  <2> HIDE DEF T
  <2>3. \A n \in 0..N : n \in T
    BY <1>1, <2>1, <2>2, UpToInduction
  <2> QED
    BY <2>3 DEF T
<1>7. v[N] = u[N]
  <2>1. N \in 0..N
    BY <1>1
  <2> QED
    BY <1>6, <2>1
<1>8. v[N + 1] = Enter(v[N], x, D)
  <2>1. N + 1 \in 1..Len(q) /\ (N + 1) - 1 = N
    BY <1>1
  <2>2. v[N + 1] = Enter(v[(N + 1) - 1], q[N + 1], D)
    BY <1>5, <2>1
  <2> QED
    BY <1>1, <2>1, <2>2
<1> QED
  BY <1>1, <1>2, <1>3, <1>7, <1>8 DEF q

\* What normalizePath() enters.
Into(a, x) == Enter(a, x, Nowhere)

\* So for what normalizePath() leaves.
LEMMA NormalizedMore ==
  ASSUME NEW E, NEW p \in Seq(E), NEW x \in E
  PROVE  NormalizePath(Append(p, x)) = Into(NormalizePath(p), x)
BY ResolvedMore DEF NormalizePath, Into, Nowhere

\* No segment, no path; and what is normalized has names only.
LEMMA NormalizedNames ==
  ASSUME NEW E, NEW p \in Seq(E)
  PROVE  NormalizePath(p) \in Seq(E \ Dots) /\ NormalizePath(<<>>) = <<>>
<1> DEFINE D == Nowhere
           A == Kept(E, D)
<1>0. A = Seq(E \ Dots) /\ NormalizePath(p) = Resolved(p, D) /\ NormalizePath(<<>>) = Resolved(<<>>, D)
  <2>1. {".."} \cup D = Dots
    BY DEF Dots, Nowhere
  <2> QED
    BY <2>1 DEF Kept, NormalizePath, Nowhere
<1> HIDE DEF D, A
<1>1. PICK u \in [0..Len(p) -> A] : IsEntered(u, p, D) /\ Resolved(p, D) = u[Len(p)]
  BY EnteredRuns DEF A
<1>2. NormalizePath(p) \in Seq(E \ Dots)
  <2>1. Len(p) \in 0..Len(p)
    <3>1. Len(p) \in Nat
      BY LenProperties
    <3> QED
      BY <3>1
  <2> QED
    BY <1>0, <1>1, <2>1
<1>3. << >> \in Seq(E) /\ Len(<< >>) = 0
  BY EmptySeq
<1>4. PICK v : IsEntered(v, << >>, D) /\ Resolved(<< >>, D) = v[Len(<< >>)]
  BY <1>3, EnteredRuns
<1>5. v[0] = << >>
  BY <1>3, <1>4, EnteredSteps
<1> QED
  BY <1>0, <1>2, <1>3, <1>4, <1>5

\* Induction on sequences, by the set of those it is shown for.
LEMMA SeqSetInduction ==
  ASSUME NEW S, NEW T, <<>> \in T, \A s \in Seq(S), e \in S : s \in T => Append(s, e) \in T
  PROVE  \A s \in Seq(S) : s \in T
<1> DEFINE U == {n \in Nat : \A s \in Seq(S) : Len(s) = n => s \in T}
<1>1. 0 \in U
  <2>1. ASSUME NEW s \in Seq(S), Len(s) = 0 PROVE s \in T
    <3>1. s = <<>>
      BY <2>1, EmptySeq
    <3> QED
      BY <3>1
  <2> QED
    BY <2>1
<1>2. ASSUME NEW n \in Nat, n \in U PROVE n + 1 \in U
  <2>1. ASSUME NEW s \in Seq(S), Len(s) = n + 1 PROVE s \in T
    <3>1. s # <<>>
      BY <2>1, EmptySeq
    <3>2. PICK q \in Seq(S), e \in S : s = Append(q, e)
      BY <3>1, SequenceEmptyOrAppend
    <3>3. Len(s) = Len(q) + 1 /\ Len(q) \in Nat
      BY <3>2, AppendProperties, LenProperties
    <3>4. Len(q) = n
      BY <2>1, <3>3
    <3>5. q \in T
      BY <1>2, <3>4
    <3> QED
      BY <3>2, <3>5
  <2> QED
    BY <2>1
<1>3. \A n \in Nat : n \in U
  <2> HIDE DEF U
  <2> QED
    BY <1>1, <1>2, NatSetInduction
<1> QED
  BY <1>3, LenProperties

\* A path of names stays as it is.
LEMMA NormalizedSelf ==
  ASSUME NEW E, NEW p \in Seq(E \ Dots)
  PROVE  NormalizePath(p) = p
<1> DEFINE F == E \ Dots
           T == {q \in Seq(F) : NormalizePath(q) = q}
<1>1. <<>> \in T
  <2> HIDE DEF F
  <2> QED
    BY EmptySeq, NormalizedNames
<1>2. ASSUME NEW q \in Seq(F), NEW x \in F, q \in T PROVE Append(q, x) \in T
  <2>1. NormalizePath(q) = q
    BY <1>2
  <2>2. x \notin Dots
    OBVIOUS
  <2> HIDE DEF F
  <2>3. NormalizePath(Append(q, x)) = Into(q, x)
    BY <2>1, NormalizedMore
  <2>4. Into(q, x) = Append(q, x)
    BY <2>2 DEF Into, Enter, Nowhere, Dots
  <2>5. Append(q, x) \in Seq(F)
    BY AppendProperties
  <2> QED
    BY <2>3, <2>4, <2>5
<1>3. \A q \in Seq(F) : q \in T
  <2> HIDE DEF T, F
  <2> QED
    BY <1>1, <1>2, SeqSetInduction
<1> QED
  BY <1>3

\* Only something can be left.
MayEnter(a, x) == x = ".." => a # <<>>

\* A segment entered below a directory.
LEMMA EnterBelow ==
  ASSUME NEW E, NEW d \in Seq(E), NEW a \in Seq(E), NEW x \in E, MayEnter(a, x)
  PROVE  Into(d \o a, x) = d \o Into(a, x)
<1> DEFINE c == d \o a
<1>1. c \in Seq(E) /\ Len(c) = Len(d) + Len(a) /\ \A i \in 1..Len(d) + Len(a) : c[i] = IF i <= Len(d) THEN d[i] ELSE a[i - Len(d)]
  BY ConcatProperties
<1>2. Len(d) \in Nat /\ Len(a) \in Nat
  BY LenProperties
<1>3. CASE x = ".."
  <2>1. Len(a) \in Nat \ {0}
    <3>1. a # <<>>
      BY <1>3 DEF MayEnter
    <3> QED
      BY <3>1, EmptySeq, LenProperties
  <2> DEFINE f == SubSeq(a, 1, Len(a) - 1)
             g == SubSeq(c, 1, Len(c) - 1)
             h == d \o f
  <2>2. f \in Seq(E) /\ Len(f) = Len(a) - 1 /\ \A i \in 1..Len(a)-1 : f[i] = a[i]
    <3>1. \A i \in 1..Len(a)-1 : a[i] \in E
      BY <1>2, ElementOfSeq
    <3>2. Len(a) - 1 \in Int /\ 1 \in Int
      BY <1>2
    <3> DEFINE n == Len(a) - 1
    <3> HIDE DEF n
    <3>3. /\ SubSeq(a, 1, n) \in Seq(E) /\ Len(SubSeq(a, 1, n)) = IF 1 <= n THEN n - 1 + 1 ELSE 0
          /\ \A i \in 1..n - 1 + 1 : SubSeq(a, 1, n)[i] = a[1 + i - 1]
      BY <3>1, <3>2, SubSeqProperties DEF n
    <3>4. n \in Nat /\ n = Len(a) - 1
      BY <2>1 DEF n
    <3> DEFINE z == SubSeq(a, 1, n)
    <3>5. z = f
      BY <3>4
    <3> HIDE DEF z
    <3>6. z \in Seq(E) /\ Len(z) = (IF 1 <= n THEN n - 1 + 1 ELSE 0) /\ \A i \in 1..n - 1 + 1 : z[i] = a[1 + i - 1]
      BY <3>3 DEF z
    <3>7. Len(z) = n /\ \A i \in 1..n : z[i] = a[i]
      BY <3>4, <3>6
    <3> QED
      BY <3>4, <3>5, <3>6, <3>7
  <2>3. g \in Seq(E) /\ Len(g) = Len(c) - 1 /\ \A i \in 1..Len(c)-1 : g[i] = c[i]
    <3> HIDE DEF c
    <3>1. \A i \in 1..Len(c)-1 : c[i] \in E
      BY <1>1, <1>2, ElementOfSeq
    <3>2. Len(c) - 1 \in Int /\ 1 \in Int
      BY <1>1, <1>2
    <3> DEFINE n == Len(c) - 1
    <3> HIDE DEF n
    <3>3. /\ SubSeq(c, 1, n) \in Seq(E) /\ Len(SubSeq(c, 1, n)) = IF 1 <= n THEN n - 1 + 1 ELSE 0
          /\ \A i \in 1..n - 1 + 1 : SubSeq(c, 1, n)[i] = c[1 + i - 1]
      BY <3>1, <3>2, SubSeqProperties DEF n
    <3> QED
      BY <1>1, <1>2, <2>1, <3>3 DEF n
  <2> HIDE DEF f, g, c
  <2>4. h \in Seq(E) /\ Len(h) = Len(d) + Len(f) /\ \A i \in 1..Len(d) + Len(f) : h[i] = IF i <= Len(d) THEN d[i] ELSE f[i - Len(d)]
    BY <2>2, ConcatProperties
  <2> HIDE DEF h
  <2>5. Len(g) = Len(h) /\ \A i \in 1..Len(g) : g[i] = h[i]
    <3>1. Len(g) = Len(d) + (Len(a) - 1) /\ Len(h) = Len(d) + (Len(a) - 1)
      BY <1>1, <1>2, <2>1, <2>2, <2>3, <2>4
    <3>2. ASSUME NEW i \in 1..Len(g) PROVE g[i] = h[i]
      <4>1. i \in 1..Len(c) - 1 /\ i \in 1..Len(d) + Len(a) /\ i \in 1..Len(d) + Len(f)
        BY <1>1, <1>2, <2>1, <2>2, <3>1
      <4>2. g[i] = (IF i <= Len(d) THEN d[i] ELSE a[i - Len(d)])
        BY <1>1, <2>3, <4>1
      <4>3. h[i] = (IF i <= Len(d) THEN d[i] ELSE f[i - Len(d)])
        BY <2>4, <4>1
      <4>4. ASSUME ~(i <= Len(d)) PROVE f[i - Len(d)] = a[i - Len(d)]
        <5>1. i - Len(d) \in 1..Len(a) - 1
          BY <1>2, <2>1, <3>1, <4>4
        <5> QED
          BY <2>2, <5>1
      <4> QED
        BY <4>2, <4>3, <4>4
    <3> QED
      BY <3>1, <3>2
  <2>6. g = h
    BY <2>3, <2>4, <2>5, SeqEqual
  <2>7. c # <<>> /\ a # <<>>
    BY <1>1, <1>2, <1>3, <2>1, EmptySeq DEF MayEnter
  <2>8. Into(c, x) = g /\ Into(a, x) = f
    BY <1>3, <2>7 DEF Into, Enter, Nowhere, Front, f, g
  <2> QED
    BY <2>6, <2>8 DEF h, c
<1>4. CASE x \in {".", "empty"}
  BY <1>4 DEF Into, Enter, Nowhere
<1>5. CASE x \notin Dots
  <2>1. Into(c, x) = Append(c, x) /\ Into(a, x) = Append(a, x)
    BY <1>5 DEF Into, Enter, Nowhere, Dots
  <2>2. Append(c, x) = c \o <<x>> /\ Append(a, x) = a \o <<x>> /\ <<x>> \in Seq(E)
    <3> HIDE DEF c
    <3> QED
      BY <1>1, AppendIsConcat
  <2>3. (d \o a) \o <<x>> = d \o (a \o <<x>>)
    <3> DEFINE y == <<x>>
    <3>1. y \in Seq(E)
      BY <2>2
    <3> HIDE DEF y
    <3>2. (d \o a) \o y = d \o (a \o y)
      BY <3>1, ConcatAssociative
    <3> QED
      BY <3>2 DEF y
  <2> QED
    BY <2>1, <2>2, <2>3
<1> QED
  BY <1>3, <1>4, <1>5 DEF Dots

\* Only a step out of something goes up.
Stays(p) == \A n \in 1..Len(p) : p[n] = ".." => NormalizePath(SubSeq(p, 1, n - 1)) # <<>>

\* It stays without its last segment, and that one goes up out of something.
LEMMA StaysBefore ==
  ASSUME NEW E, NEW q \in Seq(E), NEW x \in E, Stays(Append(q, x))
  PROVE  Stays(q) /\ (x = ".." => NormalizePath(q) # <<>>)
<1> DEFINE p == Append(q, x)
           N == Len(q)
<1>1. Len(p) = N + 1 /\ N \in Nat /\ p[N + 1] = x /\ \A n \in 1..N : p[n] = q[n]
  BY AppendProperties, LenProperties
<1>2. \A n \in 1..Len(p) : p[n] = ".." => NormalizePath(SubSeq(p, 1, n - 1)) # <<>>
  BY DEF Stays
<1>3. ASSUME NEW n \in 0..N PROVE SubSeq(p, 1, n) = SubSeq(q, 1, n)
  <2>1. \A i \in 1..n : p[i] = q[i] /\ q[i] \in E
    <3>1. \A i \in 1..n : i \in 1..N
      BY <1>1
    <3> HIDE DEF p
    <3> QED
      BY <1>1, <3>1, ElementOfSeq
  <2>2. n \in Int /\ 1 \in Int
    OBVIOUS
  <2> DEFINE a == SubSeq(p, 1, n)
             b == SubSeq(q, 1, n)
  <2> HIDE DEF p
  <2>3. a \in Seq(E) /\ Len(a) = (IF 1 <= n THEN n - 1 + 1 ELSE 0) /\ \A i \in 1..n - 1 + 1 : a[i] = p[1 + i - 1]
    BY <2>1, <2>2, SubSeqProperties
  <2>4. b \in Seq(E) /\ Len(b) = (IF 1 <= n THEN n - 1 + 1 ELSE 0) /\ \A i \in 1..n - 1 + 1 : b[i] = q[1 + i - 1]
    BY <2>1, <2>2, SubSeqProperties
  <2> HIDE DEF a, b
  <2>5. Len(a) = Len(b) /\ \A i \in 1..Len(a) : a[i] = b[i]
    BY <2>1, <2>3, <2>4
  <2>6. a = b
    BY <2>3, <2>4, <2>5, SeqEqual
  <2> QED
    BY <2>6 DEF a, b
<1> HIDE DEF p
<1>4. ASSUME NEW n \in 1..N, q[n] = ".." PROVE NormalizePath(SubSeq(q, 1, n - 1)) # <<>>
  <2>1. n \in 1..Len(p) /\ p[n] = ".." /\ n - 1 \in 0..N
    BY <1>1, <1>4
  <2> QED
    BY <1>2, <1>3, <2>1
<1>5. ASSUME x = ".." PROVE NormalizePath(q) # <<>>
  <2>1. N + 1 \in 1..Len(p) /\ (N + 1) - 1 = N /\ N \in 0..N
    BY <1>1
  <2>2. NormalizePath(SubSeq(p, 1, (N + 1) - 1)) # <<>>
    BY <1>1, <1>2, <1>5, <2>1
  <2>3. SubSeq(p, 1, N) = SubSeq(q, 1, N)
    BY <1>3, <2>1
  <2>4. SubSeq(q, 1, N) = q
    BY SubSeqFull
  <2> QED
    BY <2>1, <2>2, <2>3, <2>4
<1> QED
  BY <1>4, <1>5 DEF Stays

\* A path below a directory is normalized below it, if no step of it leaves.
LEMMA NormalizedBelow ==
  ASSUME NEW E, NEW d \in Seq(E \ Dots), NEW p \in Seq(E), Stays(p)
  PROVE  NormalizePath(d \o p) = d \o NormalizePath(p)
<1> DEFINE F == E \ Dots
           T == {q \in Seq(E) : Stays(q) => NormalizePath(d \o q) = d \o NormalizePath(q)}
<1>0. d \in Seq(E)
  <2>1. E \ Dots \subseteq E
    OBVIOUS
  <2> HIDE DEF F
  <2> QED
    BY <2>1, SeqMonotonic
<1>1. <<>> \in T
  <2>1. d \o <<>> = d /\ <<>> \in Seq(E)
    BY <1>0, ConcatEmptySeq, EmptySeq
  <2>2. NormalizePath(<<>>) = <<>> /\ NormalizePath(d) = d
    BY <2>1, NormalizedNames, NormalizedSelf
  <2> QED
    BY <2>1, <2>2
<1>2. ASSUME NEW q \in Seq(E), NEW x \in E, q \in T PROVE Append(q, x) \in T
  <2> DEFINE a == NormalizePath(q)
             c == d \o q
  <2>1. SUFFICES ASSUME Stays(Append(q, x)) PROVE NormalizePath(d \o Append(q, x)) = d \o NormalizePath(Append(q, x))
    BY AppendProperties
  <2>2. Stays(q) /\ (x = ".." => a # <<>>)
    BY <2>1, StaysBefore
  <2>3. NormalizePath(c) = d \o a
    BY <1>2, <2>2
  <2>4. a \in Seq(E)
    <3>1. a \in Seq(E \ Dots) /\ E \ Dots \subseteq E
      BY NormalizedNames
    <3> HIDE DEF a
    <3> QED
      BY <3>1, SeqMonotonic
  <2>5. NormalizePath(Append(q, x)) = Into(a, x)
    BY NormalizedMore
  <2>6. c \in Seq(E)
    BY <1>0, ConcatProperties
  <2>7. d \o Append(q, x) = Append(c, x)
    <3> DEFINE y == <<x>>
    <3>1. Append(q, x) = q \o y /\ y \in Seq(E)
      BY AppendIsConcat
    <3>2. Append(c, x) = c \o y
      <4> HIDE DEF c
      <4> QED
        BY <2>6, AppendIsConcat
    <3> HIDE DEF y
    <3>3. (d \o q) \o y = d \o (q \o y)
      BY <1>0, <3>1, ConcatAssociative
    <3> QED
      BY <3>1, <3>2, <3>3
  <2> HIDE DEF a, c
  <2>8. NormalizePath(Append(c, x)) = Into(d \o a, x)
    BY <2>3, <2>6, NormalizedMore
  <2>9. Into(d \o a, x) = d \o Into(a, x)
    <3>1. MayEnter(a, x)
      BY <2>2 DEF MayEnter
    <3> QED
      BY <1>0, <2>4, <3>1, EnterBelow
  <2> QED
    BY <2>5, <2>7, <2>8, <2>9
<1>3. \A q \in Seq(E) : q \in T
  <2> HIDE DEF T
  <2> QED
    BY <1>1, <1>2, SeqSetInduction
<1> QED
  BY <1>3

\* A path that does not end in a dot ends in its last segment.
LEMMA NormalizedLast ==
  ASSUME NEW E, NEW p \in Seq(E), p # <<>>
  PROVE  /\ Last(p) \in E
         /\ Last(p) \notin Dots => NormalizePath(p) # <<>> /\ Last(NormalizePath(p)) = Last(p)
<1>1. PICK q \in Seq(E), x \in E : p = Append(q, x)
  BY SequenceEmptyOrAppend
<1>2. Last(p) = x
  <2>1. Len(Append(q, x)) = Len(q) + 1 /\ Append(q, x)[Len(q) + 1] = x
    BY AppendProperties
  <2> QED
    BY <1>1, <2>1 DEF Last
<1>3. NormalizePath(p) = Into(NormalizePath(q), x)
  BY <1>1, NormalizedMore
<1>4. ASSUME x \notin Dots PROVE NormalizePath(p) # <<>> /\ Last(NormalizePath(p)) = x
  <2> DEFINE a == NormalizePath(q)
             F == E \ Dots
  <2>1. a \in Seq(F)
    BY NormalizedNames
  <2>2. x \in F
    BY <1>4
  <2>3. Into(a, x) = Append(a, x)
    BY <1>4 DEF Into, Enter, Nowhere, Dots
  <2> HIDE DEF a, F
  <2>4. Append(a, x) # <<>> /\ Last(Append(a, x)) = x
    <3>1. Append(a, x) # <<>> /\ Len(Append(a, x)) = Len(a) + 1 /\ Append(a, x)[Len(a) + 1] = x
      BY <2>1, <2>2, AppendProperties
    <3> QED
      BY <3>1 DEF Last
  <2> QED
    BY <1>3, <2>3, <2>4 DEF a
<1> QED
  BY <1>1, <1>2, <1>4

\* Without empty segments the URL's path and the file's are resolved alike.
LEMMA ResolvedAlike ==
  ASSUME NEW E, NEW p \in Seq(E \ {"empty"})
  PROVE  Resolved(p, {"."}) = NormalizePath(p)
<1> DEFINE F == E \ {"empty"}
           N == {"."}
           T == {q \in Seq(F) : Resolved(q, N) = Resolved(q, Nowhere)}
<1>1. <<>> \in T
  <2>1. \A D : Resolved(<<>>, D) = <<>>
    <3>1. ASSUME NEW D PROVE Resolved(<<>>, D) = <<>>
      <4>1. << >> \in Seq(E) /\ Len(<< >>) = 0
        BY EmptySeq
      <4> DEFINE z == << >>
      <4> HIDE DEF z
      <4>2. \E v \in [0..Len(z) -> Kept(E, D)] : IsEntered(v, z, D) /\ Resolved(z, D) = v[Len(z)]
        BY <4>1, EnteredRuns DEF z
      <4>3. PICK v : IsEntered(v, z, D) /\ Resolved(z, D) = v[Len(z)]
        BY <4>2
      <4> QED
        BY <4>1, <4>3, EnteredSteps DEF z
    <3> QED
      BY <3>1
  <2> HIDE DEF F, N
  <2> QED
    BY <2>1, EmptySeq
<1>2. ASSUME NEW q \in Seq(F), NEW x \in F, q \in T PROVE Append(q, x) \in T
  <2>1. \A a : Enter(a, x, N) = Enter(a, x, Nowhere)
    BY DEF Enter, Nowhere
  <2>2. Resolved(q, N) = Resolved(q, Nowhere)
    BY <1>2
  <2> HIDE DEF F, N
  <2>3. Resolved(Append(q, x), N) = Enter(Resolved(q, N), x, N) /\ Resolved(Append(q, x), Nowhere) = Enter(Resolved(q, Nowhere), x, Nowhere)
    BY ResolvedMore
  <2>4. Append(q, x) \in Seq(F)
    BY AppendProperties
  <2> QED
    BY <2>1, <2>2, <2>3, <2>4
<1>3. \A q \in Seq(F) : q \in T
  <2> HIDE DEF T, F
  <2> QED
    BY <1>1, <1>2, SeqSetInduction
<1>4. p \in T
  <2> HIDE DEF T
  <2> QED
    BY <1>3
<1> QED
  BY <1>4 DEF NormalizePath, Nowhere

\* So the URL of a path whose end only may be empty is the normalized path, an
\* empty segment behind it if it ends in none or in dots.
LEMMA UrlIs ==
  ASSUME NEW E, NEW q \in Seq(E \ {"empty"}), NEW x \in E
  PROVE  UrlPath(Append(q, x)) = IF x \in Dots THEN Append(NormalizePath(Append(q, x)), "empty") ELSE NormalizePath(Append(q, x))
<1> DEFINE F == E \ {"empty"}
           c == Append(q, x)
           N == {"."}
           o == "empty"
<1>0. q \in Seq(E)
  <2>1. F \subseteq E
    OBVIOUS
  <2> HIDE DEF F
  <2> QED
    BY <2>1, SeqMonotonic DEF F
<1>1. c # <<>> /\ Last(c) = x
  <2>1. c # <<>> /\ Len(c) = Len(q) + 1 /\ c[Len(q) + 1] = x
    BY <1>0, AppendProperties
  <2> QED
    BY <2>1 DEF Last
<1>2. Resolved(c, N) = Enter(NormalizePath(q), x, N) /\ NormalizePath(c) = Into(NormalizePath(q), x)
  <2>1. Resolved(q, N) = NormalizePath(q)
    BY ResolvedAlike
  <2> HIDE DEF N
  <2> QED
    BY <1>0, <2>1, ResolvedMore, NormalizedMore
<1>3. UrlPath(c) = IF x \in {".", ".."} THEN Append(Resolved(c, N), o) ELSE Resolved(c, N)
  <2> HIDE DEF c
  <2> QED
    BY <1>1 DEF UrlPath
<1>4. ASSUME x # o PROVE Resolved(c, N) = NormalizePath(c)
  <2>1. \A a : Enter(a, x, N) = Into(a, x)
    BY <1>4 DEF Into, Enter, Nowhere
  <2> HIDE DEF N, c
  <2> QED
    BY <1>2, <2>1
<1>5. ASSUME x = o PROVE Resolved(c, N) = Append(NormalizePath(c), o)
  <2>1. \A a : Enter(a, o, N) = Append(a, o) /\ Into(a, o) = a
    BY DEF Into, Enter, Nowhere
  <2> HIDE DEF N, c, o
  <2> QED
    BY <1>2, <1>5, <2>1
<1>6. x \in {".", ".."} => x # o
  OBVIOUS
<1>7. x \in Dots <=> x \in {".", ".."} \/ x = o
  BY DEF Dots
<1> HIDE DEF N, c, o
<1>8. UrlPath(c) = IF x \in Dots THEN Append(NormalizePath(c), o) ELSE NormalizePath(c)
  BY <1>3, <1>4, <1>5, <1>6, <1>7
<1> QED
  BY <1>8 DEF c, o

\* What is asked below a directory for a path that is normalized to n and ends in x.
Below1(rest, n, x) ==
  \/ x \in Dots /\ rest = Append(n, "empty")
  \/ x \notin Dots /\ rest = n /\ rest # <<>> /\ Last(rest) = x

\* The URL of a path below a directory ends in it.
LEMMA UrlBelow ==
  ASSUME NEW E, "empty" \in E, NEW d \in Seq(E \ Dots), NEW q \in Seq(E \ {"empty"}), NEW x \in E, Stays(Append(q, x))
  PROVE  \E rest \in Seq(E) : UrlPath(d \o Append(q, x)) = d \o rest /\ Below1(rest, NormalizePath(Append(q, x)), x)
<1> DEFINE p == Append(q, x)
           n == NormalizePath(p)
           b == d \o q
           G == E \ {"empty"}
<1>0. q \in Seq(E) /\ d \in Seq(E) /\ d \in Seq(G)
  <2>1. G \subseteq E /\ E \ Dots \subseteq E /\ E \ Dots \subseteq G
    BY DEF Dots
  <2> DEFINE F == E \ Dots
  <2>2. d \in Seq(F) /\ q \in Seq(G)
    OBVIOUS
  <2>3. F \subseteq E /\ F \subseteq G
    BY <2>1
  <2> HIDE DEF F, G
  <2> QED
    BY <2>1, <2>2, <2>3, SeqMonotonic
<1>1. p \in Seq(E) /\ p # <<>> /\ Last(p) = x /\ n \in Seq(E)
  <2>1. p \in Seq(E) /\ p # <<>> /\ Len(p) = Len(q) + 1 /\ p[Len(q) + 1] = x
    BY <1>0, AppendProperties
  <2> HIDE DEF p
  <2>2. n \in Seq(E \ Dots) /\ E \ Dots \subseteq E
    BY <2>1, NormalizedNames
  <2>3. n \in Seq(E)
    <3> HIDE DEF n
    <3> QED
      BY <2>2, SeqMonotonic
  <2> QED
    BY <2>1, <2>3 DEF Last
<1>2. d \o p = Append(b, x) /\ b \in Seq(G)
  <2> DEFINE y == <<x>>
  <2>1. p = q \o y /\ y \in Seq(E)
    BY <1>0, AppendIsConcat
  <2>2. b \in Seq(G) /\ b \in Seq(E)
    <3> HIDE DEF G
    <3> QED
      BY <1>0, ConcatProperties DEF G
  <2>3. Append(b, x) = b \o y
    <3> HIDE DEF b
    <3> QED
      BY <2>2, AppendIsConcat
  <2> HIDE DEF y, p
  <2>4. (d \o q) \o y = d \o (q \o y)
    BY <1>0, <2>1, ConcatAssociative
  <2> QED
    BY <2>1, <2>2, <2>3, <2>4
<1>3. NormalizePath(d \o p) = d \o n
  <2>1. p \in Seq(E) /\ Stays(p)
    BY <1>1
  <2> HIDE DEF p
  <2> QED
    BY <2>1, NormalizedBelow
<1>4. UrlPath(d \o p) = IF x \in Dots THEN Append(d \o n, "empty") ELSE d \o n
  <2> HIDE DEF b, p
  <2>1. UrlPath(Append(b, x)) = IF x \in Dots THEN Append(NormalizePath(Append(b, x)), "empty") ELSE NormalizePath(Append(b, x))
    BY <1>2, UrlIs DEF G
  <2> QED
    BY <1>2, <1>3, <2>1
<1>5. CASE x \in Dots
  <2> DEFINE o == "empty"
             y == << o >>
  <2>1. o \in E
    OBVIOUS
  <2> HIDE DEF o, n, p
  <2>2. d \o n \in Seq(E)
    BY <1>0, <1>1, ConcatProperties
  <2>3. Append(d \o n, o) = (d \o n) \o y /\ Append(n, o) = n \o y /\ y \in Seq(E)
    <3> DEFINE c == d \o n
    <3>1. c \in Seq(E)
      BY <2>2
    <3> HIDE DEF c
    <3>2. Append(c, o) = c \o y
      BY <2>1, <3>1, AppendIsConcat
    <3>3. Append(n, o) = n \o y /\ y \in Seq(E)
      BY <1>1, <2>1, AppendIsConcat
    <3> QED
      BY <3>2, <3>3 DEF c
  <2> HIDE DEF y
  <2>4. (d \o n) \o y = d \o (n \o y)
    BY <1>0, <1>1, <2>3, ConcatAssociative
  <2>5. Append(n, o) \in Seq(E)
    BY <1>1, <2>1, AppendProperties
  <2>6. UrlPath(d \o p) = d \o Append(n, o)
    BY <1>4, <1>5, <2>3, <2>4 DEF o
  <2>7. Below1(Append(n, o), n, x)
    BY <1>5 DEF Below1, o
  <2> QED
    BY <2>5, <2>6, <2>7 DEF p, n
<1>6. CASE x \notin Dots
  <2>1. n # <<>> /\ Last(n) = x
    <3> HIDE DEF p
    <3> QED
      BY <1>1, <1>6, NormalizedLast
  <2>2. Below1(n, n, x)
    BY <1>6, <2>1 DEF Below1
  <2> HIDE DEF n
  <2> QED
    BY <1>1, <1>4, <1>6, <2>2 DEF n
<1> QED
  BY <1>5, <1>6

\* The segments a server may add, what the URL of an App may be for a path, and
\* what is meant by no path.
Served(E) == {"empty", "index.html"} \subseteq E
AppPath(rest, n) == rest = Append(n, "empty") \/ (rest = n /\ rest # <<>>)
Meant(n) == IF n = <<>> THEN <<"index.html">> ELSE n

\* The file that what is asked of a directory comes to.
Names(D, rest, file) == NormalizePath(D \o AssetPath(rest)) = file /\ Inside(D, file)

\* The file of a directory that a URL below its App names: index.html, if none.
LEMMA FileNamed ==
  ASSUME NEW E, Served(E), NEW D \in Seq(E \ Dots), NEW n \in Seq(E \ Dots), NEW rest \in Seq(E), AppPath(rest, n)
  PROVE  Names(D, rest, D \o Meant(n))
<1> DEFINE F == E \ Dots
           m == Meant(n)
           x == "empty"
           b == D \o m
<1>1. x \in E /\ x \in Dots /\ "index.html" \in F
  BY DEF Dots, Served
<1>0. /\ rest = Append(n, "empty") \/ (rest = n /\ rest # <<>>)
      /\ m = IF n = <<>> THEN <<"index.html">> ELSE n
  BY DEF AppPath, Meant
<1> HIDE DEF m
<1>2. m \in Seq(F) /\ m # <<>>
  <2>0. m = IF n = <<>> THEN <<"index.html">> ELSE n
    BY <1>0
  <2>1. <<"index.html">> \in Seq(F) /\ <<"index.html">> # <<>>
    BY <1>1
  <2> HIDE DEF F
  <2> QED
    BY <2>0, <2>1 DEF F
<1>3. b \in Seq(F) /\ b \in Seq(E)
  <2>1. F \subseteq E /\ D \in Seq(F)
    OBVIOUS
  <2> HIDE DEF F
  <2>2. b \in Seq(F)
    BY <1>2, <2>1, ConcatProperties
  <2> HIDE DEF b
  <2> QED
    BY <2>1, <2>2, SeqMonotonic
<1>4. NormalizePath(b) = b
  <2> HIDE DEF b
  <2> QED
    BY <1>3, NormalizedSelf DEF F
<1>5. NormalizePath(D \o AssetPath(rest)) = b
  <2>1. CASE n = <<>>
    <3>1. rest = <<"empty">>
      <4>1. Append(<<>>, "empty") = <<"empty">>
        OBVIOUS
      <4> QED
        BY <1>0, <2>1, <4>1
    <3>2. AssetPath(rest) = <<"index.html">> /\ m = <<"index.html">>
      BY <1>0, <2>1, <3>1 DEF AssetPath
    <3> QED
      BY <1>4, <3>2
  <2>2. CASE n # <<>>
    <3>1. m = n /\ Len(n) \in Nat \ {0} /\ n[1] \notin Dots
      <4>1. m = n
        BY <1>0, <2>2
      <4>2. Len(n) \in Nat \ {0}
        BY <2>2, EmptySeq
      <4>3. n[1] \in F
        <5> HIDE DEF F
        <5>1. n \in Seq(F) /\ 1 \in 1..Len(n)
          BY <4>2 DEF F
        <5> QED
          BY <5>1, ElementOfSeq
      <4> QED
        BY <4>1, <4>2, <4>3
    <3>2. rest # <<"empty">>
      <4>1. CASE rest = n
        <5>1. <<"empty">>[1] = "empty"
          OBVIOUS
        <5> QED
          BY <1>1, <3>1, <4>1, <5>1
      <4>2. CASE rest = Append(n, x)
        <5>1. n \in Seq(E)
          <6>1. F \subseteq E /\ n \in Seq(F)
            OBVIOUS
          <6> HIDE DEF F
          <6> QED
            BY <6>1, SeqMonotonic
        <5> HIDE DEF x
        <5>2. Len(Append(n, x)) = Len(n) + 1
          BY <1>1, <5>1, AppendProperties
        <5>3. Len(<<"empty">>) = 1
          OBVIOUS
        <5> QED
          BY <3>1, <4>2, <5>2, <5>3
      <4> QED
        BY <1>0, <4>1, <4>2
    <3>3. AssetPath(rest) = rest
      BY <3>2 DEF AssetPath
    <3>4. CASE rest = n
      BY <1>4, <3>1, <3>3, <3>4
    <3>5. CASE rest = Append(n, x)
      <4> DEFINE y == <<x>>
      <4>0. n \in Seq(E) /\ D \in Seq(E)
        <5>1. F \subseteq E /\ n \in Seq(F) /\ D \in Seq(F)
          OBVIOUS
        <5> HIDE DEF F
        <5> QED
          BY <5>1, SeqMonotonic
      <4> HIDE DEF x, b
      <4>1. Append(n, x) = n \o y /\ Append(b, x) = b \o y /\ y \in Seq(E)
        BY <1>1, <1>3, <4>0, AppendIsConcat
      <4> HIDE DEF y
      <4>2. (D \o n) \o y = D \o (n \o y)
        BY ONLY <4>0, <4>1, ConcatAssociative
      <4>3. D \o rest = Append(b, x)
        BY <3>1, <3>5, <4>1, <4>2 DEF b
      <4>4. NormalizePath(Append(b, x)) = Into(b, x)
        BY <1>1, <1>3, <1>4, NormalizedMore
      <4>5. Into(b, x) = b
        BY DEF Into, Enter, Nowhere, x
      <4> QED
        BY <3>3, <4>3, <4>4, <4>5
    <3> QED
      BY <1>0, <3>4, <3>5
  <2> QED
    BY <2>1, <2>2
<1>6. Inside(D, b)
  <2> DEFINE L == Len(D)
  <2>1. D \in Seq(F) /\ m \in Seq(F) /\ L \in Nat /\ Len(m) \in Nat \ {0} /\ Len(b) = L + Len(m)
    <3>1. D \in Seq(F)
      OBVIOUS
    <3> HIDE DEF F
    <3> QED
      BY <1>2, <3>1, LenProperties, EmptySeq, ConcatProperties
  <2> HIDE DEF F
  <2>2. SubSeq(b, 1, L) = SubSeq(D, 1, L)
    <3>1. CASE L = 0
      <4>1. 1 \in Int /\ 0 \in Int /\ 0 < 1
        OBVIOUS
      <4>2. \A s : SubSeq(s, 1, 0) = <<>>
        BY <4>1, SubSeqEmpty
      <4> QED
        BY <3>1, <4>2
    <3>2. CASE L # 0
      <4>1. 1 \in 1..Len(D) /\ L \in 1..Len(D)
        BY <2>1, <3>2
      <4> HIDE DEF L
      <4> QED
        BY <2>1, <4>1, SubSeqOfConcat1
    <3> QED
      BY <3>1, <3>2
  <2>3. b # D
    BY <1>2, <2>1, ConcatEqualIffEmpty
  <2>4. Len(D) <= Len(b)
    BY <2>1
  <2> HIDE DEF b
  <2> QED
    BY <2>2, <2>3, <2>4 DEF Inside, IsStrictPrefix, IsPrefix
<1> QED
  BY <1>5, <1>6 DEF Names, m

\* q is s after a and b.
HeadedBy(q, a, b, s) ==
  /\ Len(q) = Len(s) + 2 /\ q[1] = a
  /\ Len(Tail(q)) = Len(s) + 1 /\ Tail(q)[1] = b /\ Tail(Tail(q)) = s

\* What is left of a path after two segments.
LEMMA TwoTails ==
  ASSUME NEW E, NEW a \in E, NEW b \in E, NEW s \in Seq(E)
  PROVE  HeadedBy(<<a, b>> \o s, a, b, s)
<1> DEFINE d == <<a, b>>
           q == d \o s
           t == Tail(q)
           w == Tail(t)
<1>1. d \in Seq(E) /\ Len(d) = 2 /\ d[1] = a /\ d[2] = b
  OBVIOUS
<1> HIDE DEF d
<1>2. q \in Seq(E) /\ Len(q) = Len(d) + Len(s) /\ \A i \in 1..Len(d) + Len(s) : q[i] = IF i <= Len(d) THEN d[i] ELSE s[i - Len(d)]
  BY <1>1, ConcatProperties
<1>3. Len(s) \in Nat
  BY LenProperties
<1> HIDE DEF q
<1>4. q # <<>>
  BY <1>1, <1>2, <1>3, EmptySeq
<1>5. t \in Seq(E) /\ Len(t) = Len(q) - 1 /\ \A i \in 1..Len(t) : t[i] = q[i + 1]
  BY <1>2, <1>4, HeadTailProperties
<1> HIDE DEF t
<1>6. t # <<>>
  BY <1>1, <1>2, <1>3, <1>5, EmptySeq
<1>7. w \in Seq(E) /\ Len(w) = Len(t) - 1 /\ \A i \in 1..Len(w) : w[i] = t[i + 1]
  BY <1>5, <1>6, HeadTailProperties
<1> HIDE DEF w
<1>8. w = s
  <2>1. Len(w) = Len(s)
    BY <1>1, <1>2, <1>3, <1>5, <1>7
  <2>2. ASSUME NEW i \in 1..Len(w) PROVE w[i] = s[i]
    <3>1. w[i] = t[i + 1] /\ i \in Int /\ i >= 1 /\ i <= Len(s)
      BY <1>3, <1>7, <2>1
    <3>2. i + 1 \in 1..Len(t) /\ (i + 1) + 1 = i + 2
      BY <1>1, <1>2, <1>3, <1>5, <3>1
    <3>3. t[i + 1] = q[i + 2]
      BY <1>5, <3>2
    <3>4. i + 2 \in 1..Len(d) + Len(s) /\ ~(i + 2 <= Len(d)) /\ i + 2 - Len(d) = i
      BY <1>1, <1>3, <3>1
    <3>5. q[i + 2] = s[i + 2 - Len(d)]
      BY <1>2, <3>4
    <3> QED
      BY <3>1, <3>3, <3>4, <3>5
  <2> QED
    BY <1>7, <2>1, <2>2, SeqEqual
<1>9. q[1] = a /\ t[1] = b
  <2>1. 1 \in 1..Len(d) + Len(s) /\ 2 \in 1..Len(d) + Len(s) /\ 1 \in 1..Len(t) /\ 1 <= Len(d) /\ 2 <= Len(d)
    BY <1>1, <1>2, <1>3, <1>5
  <2>2. q[1] = d[1] /\ q[2] = d[2]
    BY <1>2, <2>1
  <2>3. t[1] = q[2]
    <3>1. t[1] = q[1 + 1]
      BY <1>5, <2>1
    <3> QED
      BY <3>1
  <2> QED
    BY <1>1, <2>2, <2>3
<1>10. Len(q) = Len(s) + 2 /\ Len(t) = Len(s) + 1
  BY <1>1, <1>2, <1>3, <1>5
<1>11. HeadedBy(q, a, b, s)
  BY <1>8, <1>9, <1>10 DEF HeadedBy, t, w
<1> QED
  BY <1>11 DEF q, d

\* The name that a file is asked for by, if the path ends in x.
AskedName(rest, n, x) ==
  LET asked == Last(AssetPath(rest)) IN
  IF n = <<>> THEN asked = "index.html" ELSE IF x \in Dots THEN asked = "empty" ELSE asked = x

\* It is what the path ends in, unless that is dots or nothing.
LEMMA NameAsked ==
  ASSUME NEW E, NEW n \in Seq(E \ Dots), NEW x, NEW rest, Below1(rest, n, x)
  PROVE  AskedName(rest, n, x)
<1> DEFINE F == E \ Dots
           o == "empty"
           W == E \cup {o}
           r == Append(n, o)
<1>1. n \in Seq(W) /\ o \in W
  <2>1. F \subseteq W /\ n \in Seq(F)
    OBVIOUS
  <2> HIDE DEF F, W
  <2>2. n \in Seq(W)
    BY <2>1, SeqMonotonic
  <2> QED
    BY <2>2 DEF W
<1>2. Len(r) = Len(n) + 1 /\ r[Len(n) + 1] = o /\ Len(n) \in Nat
  <2> HIDE DEF W, o
  <2> QED
    BY <1>1, AppendProperties, LenProperties
<1>3. Last(r) = o
  <2> HIDE DEF r
  <2> QED
    BY <1>2 DEF Last
<1>4. n # <<>> => Len(n) # 0 /\ n # << o >>
  <2>1. n # <<>> => Len(n) # 0 /\ Len(n) \in Nat
    BY EmptySeq, LenProperties
  <2>2. ASSUME n # <<>> PROVE n[1] \in F
    <3> HIDE DEF F
    <3>1. n \in Seq(F) /\ 1 \in 1..Len(n)
      BY <2>1, <2>2 DEF F
    <3> QED
      BY <3>1, ElementOfSeq
  <2>3. o \notin F /\ << o >>[1] = o
    BY DEF Dots
  <2> QED
    BY <2>1, <2>2, <2>3
<1>5. n # <<>> => r # << o >>
  <2>1. Len(<< o >>) = 1
    OBVIOUS
  <2> HIDE DEF r
  <2> QED
    BY <1>2, <1>4, <2>1
<1>6. n = <<>> => r = << o >>
  OBVIOUS
<1>7. Last(<<"index.html">>) = "index.html"
  BY DEF Last
<1>8. CASE x \in Dots
  <2>1. rest = r
    BY <1>8 DEF Below1
  <2> HIDE DEF r
  <2>2. CASE n = <<>>
    BY <1>6, <1>7, <2>1, <2>2 DEF AskedName, AssetPath
  <2>3. CASE n # <<>>
    BY <1>3, <1>5, <1>8, <2>1, <2>3 DEF AskedName, AssetPath
  <2> QED
    BY <2>2, <2>3
<1>9. CASE x \notin Dots
  BY <1>4, <1>9 DEF AskedName, AssetPath, Below1
<1> QED
  BY <1>8, <1>9

\* An empty segment is the last.
LEMMA LastOnly ==
  ASSUME NEW E, NEW p \in Seq(E), p # <<>>, \A n \in DOMAIN p : p[n] = "empty" => n = Len(p)
  PROVE  \E q \in Seq(E \ {"empty"}), x \in E : p = Append(q, x)
<1> DEFINE G == E \ {"empty"}
<1>1. PICK q \in Seq(E), x \in E : p = Append(q, x)
  BY SequenceEmptyOrAppend
<1>2. Len(p) = Len(q) + 1 /\ Len(q) \in Nat /\ DOMAIN p = 1..Len(p) /\ \A i \in 1..Len(q) : p[i] = q[i] /\ q[i] \in E
  BY <1>1, AppendProperties, LenProperties, ElementOfSeq
<1>3. \A i \in 1..Len(q) : q[i] \in G
  <2>1. \A i \in 1..Len(q) : i \in DOMAIN p /\ i # Len(p)
    BY <1>2
  <2> QED
    BY <1>2, <2>1
<1>4. q \in Seq(G)
  <2>1. q = [i \in 1..Len(q) |-> q[i]]
    BY LenProperties
  <2>2. q \in [1..Len(q) -> G]
    <3> HIDE DEF G
    <3> QED
      BY <1>3, <2>1
  <2> HIDE DEF G
  <2> QED
    BY <1>2, <2>2, SeqDef
<1> QED
  BY <1>1, <1>4

\* The URL of a ui:// URI of an App.
LEMMA AppUrl ==
  ASSUME NEW E, "app" \in E, "empty" \in E, NEW u, u.server \in E \ Dots, u.path \in Seq(E), Within(u.path)
  PROVE  \E rest \in Seq(E) : /\ UrlPath(ResolveToHttp(u, "app").path) = <<"app", u.server>> \o rest
                              /\ AppPath(rest, NormalizePath(u.path))
                              /\ AskedName(rest, NormalizePath(u.path), Last(u.path))
<1> DEFINE F == E \ Dots
           d == <<"app", u.server>>
           p == ParsedUri(u).path
           n == NormalizePath(u.path)
<1>1. d \in Seq(F)
  <2>1. "app" \in F /\ u.server \in F
    BY DEF Dots
  <2> HIDE DEF F
  <2> QED
    BY <2>1
<1>2. p = IF u.path = <<>> THEN <<"empty">> ELSE u.path
  BY DEF ParsedUri
<1>3. ResolveToHttp(u, "app").path = d \o p
  <2>1. ParsedUri(u).server = u.server
    BY DEF ParsedUri
  <2> QED
    BY <2>1 DEF ResolveToHttp
<1>4. \E q \in Seq(E \ {"empty"}), x \in E :
        /\ p = Append(q, x) /\ Stays(p) /\ NormalizePath(p) = n
        /\ n # <<>> => x = Last(u.path)
  <2>1. CASE u.path = <<>>
    <3> DEFINE x == "empty"
    <3>1. p = <<x>> /\ x \in E /\ x # ".."
      BY <1>2, <2>1
    <3> DEFINE G == E \ {x}
    <3> HIDE DEF p, x, n
    <3>2. p \in Seq(E) /\ p # <<>> /\ Len(p) = 1 /\ p[1] = x
      BY <3>1
    <3>3. Stays(p)
      BY <3>1, <3>2 DEF Stays
    <3>4. p = Append(<<>>, x) /\ <<>> \in Seq(E) /\ <<>> \in Seq(G)
      <4> HIDE DEF G
      <4> QED
        BY <3>1
    <3>5. NormalizePath(Append(<<>>, x)) = Into(NormalizePath(<<>>), x)
      BY <3>1, <3>4, NormalizedMore
    <3>6. Into(NormalizePath(<<>>), x) = NormalizePath(<<>>)
      BY DEF Into, Enter, Nowhere, x
    <3>7. NormalizePath(<<>>) = <<>>
      BY <3>4, NormalizedNames
    <3>8. NormalizePath(p) = n /\ n = <<>>
      BY <2>1, <3>4, <3>5, <3>6, <3>7 DEF n
    <3> QED
      BY <3>1, <3>3, <3>4, <3>8 DEF G, x
  <2>2. CASE u.path # <<>>
    <3>1. p = u.path
      BY <1>2, <2>2
    <3>2. DOMAIN u.path = 1..Len(u.path)
      BY LenProperties
    <3>3. Stays(u.path)
      BY <3>2 DEF Stays, Within
    <3>4. PICK q \in Seq(E \ {"empty"}), x \in E : u.path = Append(q, x)
      BY <2>2, LastOnly DEF Within
    <3>5. x = Last(u.path)
      <4> DEFINE G == E \ {"empty"}
      <4>1. q \in Seq(G) /\ G \subseteq E
        OBVIOUS
      <4> HIDE DEF G
      <4>2. q \in Seq(E)
        BY <4>1, SeqMonotonic
      <4>3. Len(u.path) = Len(q) + 1 /\ u.path[Len(q) + 1] = x
        BY <3>4, <4>2, AppendProperties
      <4> QED
        BY <4>3 DEF Last
    <3> QED
      BY <3>1, <3>3, <3>4, <3>5
  <2> QED
    BY <2>1, <2>2
<1>5. PICK q \in Seq(E \ {"empty"}), x \in E :
        /\ p = Append(q, x) /\ Stays(p) /\ NormalizePath(p) = n
        /\ n # <<>> => x = Last(u.path)
  BY <1>4
<1>6. n \in Seq(F)
  BY NormalizedNames
<1> HIDE DEF p, d, n
<1>7. PICK rest \in Seq(E) : UrlPath(d \o p) = d \o rest /\ Below1(rest, n, x)
  BY <1>1, <1>5, UrlBelow
<1>8. AppPath(rest, n)
  BY <1>7 DEF AppPath, Below1
<1>9. AskedName(rest, n, x)
  BY <1>6, <1>7, NameAsked
<1>10. AskedName(rest, n, Last(u.path))
  BY <1>5, <1>9 DEF AskedName
<1> QED
  BY <1>3, <1>7, <1>8, <1>10 DEF d, n

\* A path of segments of E.
LEMMA PathIn ==
  ASSUME NEW E, NEW p, IsPath(p), Range(p) \subseteq E
  PROVE  p \in Seq(E) /\ (Named(p) => p \in Seq(E \ Dots))
<1> DEFINE R == Range(p)
<1>1. p \in Seq(R)
  BY DEF IsPath
<1>2. ASSUME Named(p) PROVE R \subseteq E \ Dots
  BY <1>2 DEF Named, Dots, Range
<1>3. R \subseteq E
  OBVIOUS
<1> HIDE DEF R
<1>4. p \in Seq(E)
  BY <1>1, <1>3, SeqMonotonic
<1>5. ASSUME Named(p) PROVE p \in Seq(E \ Dots)
  BY <1>1, <1>2, <1>5, SeqMonotonic
<1> QED
  BY <1>4, <1>5

\* What is left of the URL of an App after its first two segments goes to serveAppAsset().
LEMMA ToApp ==
  ASSUME NEW req, NEW c, req.method = "GET", NEW s, NEW rest, Len(rest) \in Nat, HeadedBy(req.path, "app", s, rest)
  PROVE  HandleRequest(req, c) = ServeAppAsset(Tail(req.path), c)
<1> DEFINE q == req.path
<1>1. Len(q) >= 2 /\ q[1] = "app"
  BY DEF HeadedBy
<1>2. \A x : q # <<x>>
  <2> SUFFICES ASSUME NEW x, q = <<x>> PROVE FALSE
    OBVIOUS
  <2>1. Len(<<x>>) = 1
    OBVIOUS
  <2> HIDE DEF q
  <2> QED
    BY <1>1, <2>1
<1> QED
  BY <1>1, <1>2 DEF HandleRequest

\* A URI of an App is answered with what it names, or not at all.
AsWanted(r, u) == r.status \in {200, 404} /\ r.content = Wanted(u) /\ (r.status = 200 => r.kind = WantedKind(u))

\* That is what such a URI is answered with.
LEMMA AppServed ==
  ASSUME NEW u \in UiUris, Below(u), NEW req, NEW c, req.method = "GET", req.path = UrlPath(ResolveToHttp(u, "app").path)
  PROVE  AsWanted(HandleRequest(req, c), u)
<1> DEFINE s == u.server
           known == s \in DOMAIN Directories
           E == {"app", "empty", "index.html", s} \cup Range(u.path) \cup (IF known THEN Range(Directories[s]) ELSE {})
           F == E \ Dots
           n == NormalizePath(u.path)
           t == Tail(req.path)
<1>1. s \notin Dots /\ IsPath(u.path) /\ Within(u.path)
  <2>1. IsPath(u.path) /\ Within(u.path) /\ Named(<<s>>)
    BY PagesAssumption DEF Below
  <2>2. 1 \in DOMAIN <<s>> /\ <<s>>[1] = s
    OBVIOUS
  <2> QED
    BY <2>1, <2>2 DEF Named, Dots
<1>2. "app" \in E /\ "empty" \in E /\ "index.html" \in E /\ s \in F /\ Range(u.path) \subseteq E
  BY <1>1
<1>3. ASSUME known PROVE Directories[s] \in Seq(F)
  <2>1. IsPath(Directories[s]) /\ Named(Directories[s])
    BY <1>3, PagesAssumption
  <2>2. Range(Directories[s]) \subseteq E
    BY <1>3
  <2> HIDE DEF E
  <2> QED
    BY <2>1, <2>2, PathIn
<1> HIDE DEF E
<1>4. u.path \in Seq(E)
  BY <1>1, <1>2, PathIn
<1>5. n \in Seq(F)
  BY <1>4, NormalizedNames
<1>6. PICK rest \in Seq(E) : /\ UrlPath(ResolveToHttp(u, "app").path) = <<"app", s>> \o rest
                             /\ AppPath(rest, NormalizePath(u.path)) /\ AskedName(rest, NormalizePath(u.path), Last(u.path))
  BY <1>1, <1>2, <1>4, AppUrl
<1>7. HeadedBy(req.path, "app", s, rest)
  <2> DEFINE a == "app"
  <2>1. a \in E /\ s \in E
    BY <1>2
  <2> HIDE DEF a, s
  <2>2. HeadedBy(<<a, s>> \o rest, a, s, rest)
    BY <2>1, TwoTails
  <2> QED
    BY <1>6, <2>2 DEF a
<1>8. Len(rest) \in Nat \ {0} /\ rest # <<>>
  <2>1. rest # <<>>
    <3>1. CASE rest = Append(n, "empty")
      <4> DEFINE x == "empty"
      <4>1. x \in E /\ F \subseteq E
        BY <1>2
      <4> HIDE DEF n, x, F
      <4>2. n \in Seq(E)
        BY <1>5, <4>1, SeqMonotonic
      <4>3. Append(n, x) # <<>>
        BY <4>1, <4>2, AppendProperties
      <4> QED
        BY <3>1, <4>3 DEF x
    <3> QED
      BY <1>6, <3>1 DEF AppPath
  <2> QED
    BY <2>1, EmptySeq, LenProperties
<1>9. HandleRequest(req, c) = ServeAppAsset(t, c)
  <2>1. Len(rest) \in Nat
    BY <1>8
  <2> HIDE DEF s
  <2> QED
    BY <1>7, <2>1, ToApp
<1>10. ~(Len(t) < 2) /\ t[1] = s /\ Tail(t) = rest
  BY <1>7, <1>8 DEF HeadedBy
<1> HIDE DEF t
<1>11. CASE ~known
  <2>1. ServeAppAsset(t, c) = Plain(404, "asset")
    BY <1>10, <1>11 DEF ServeAppAsset
  <2>2. Wanted(u) = <<>>
    BY <1>11 DEF Wanted
  <2> QED
    BY <1>9, <2>1, <2>2 DEF Plain, AsWanted
<1>12. CASE known
  <2> DEFINE D == Directories[s]
             m == IF n = <<>> THEN <<"index.html">> ELSE n
             file == D \o m
  <2>1. D \in Seq(F)
    BY <1>3, <1>12
  <2>2. NormalizePath(D) = D
    <3> HIDE DEF D
    <3> QED
      BY <2>1, NormalizedSelf
  <2>3. Wanted(u) = IF file \in Files THEN file ELSE <<>>
    BY <1>12 DEF Wanted
  <2>4. NormalizePath(D \o AssetPath(rest)) = file /\ Inside(D, file)
    <3>1. AppPath(rest, n)
      BY <1>6
    <3>2. Served(E)
      BY <1>2 DEF Served
    <3>3. rest \in Seq(E)
      OBVIOUS
    <3>4. m = Meant(n)
      BY DEF Meant
    <3> HIDE DEF D, n, m
    <3>5. Names(D, rest, D \o Meant(n))
      BY <1>5, <2>1, <3>1, <3>2, <3>3, FileNamed
    <3> QED
      BY <3>4, <3>5 DEF Names
  <2>9. Last(AssetPath(rest)) \in HtmlNames <=> WantedKind(u) = "page"
    <3>1. \A x \in Dots : x \notin HtmlNames
      BY PagesAssumption DEF Dots
    <3>2. "empty" \in Dots
      BY DEF Dots
    <3>3. AskedName(rest, n, Last(u.path))
      BY <1>6
    <3>4. WantedKind(u) = "page" <=> (IF n = <<>> THEN "index.html" ELSE Last(u.path)) \in HtmlNames
      BY DEF WantedKind
    <3> HIDE DEF n
    <3> QED
      BY <3>1, <3>2, <3>3, <3>4 DEF AskedName
  <2>10. WantedKind(u) \in {"page", "file"}
    BY DEF WantedKind
  <2> HIDE DEF file, m, n
  <2>5. ServeAppAsset(t, c) =
          IF file \notin Files THEN Plain(404, "asset")
          ELSE IF Last(AssetPath(rest)) \in HtmlNames THEN Page(file, c.csp, <<>>, c.auth)
          ELSE [status |-> 200, kind |-> "file", content |-> file]
    BY <1>10, <1>12, <2>2, <2>4 DEF ServeAppAsset
  <2>6. CASE file \notin Files
    <3>1. ServeAppAsset(t, c) = Plain(404, "asset") /\ Wanted(u) = <<>>
      BY <2>3, <2>5, <2>6
    <3> QED
      BY <1>9, <3>1 DEF Plain, AsWanted
  <2>7. CASE file \in Files /\ Last(AssetPath(rest)) \in HtmlNames
    <3>1. ServeAppAsset(t, c) = Page(file, c.csp, <<>>, c.auth)
      BY <2>5, <2>7
    <3>2. /\ Page(file, c.csp, <<>>, c.auth).status = 200 /\ Page(file, c.csp, <<>>, c.auth).content = file
          /\ Page(file, c.csp, <<>>, c.auth).kind = "page"
      BY DEF Page
    <3> QED
      BY <1>9, <2>3, <2>7, <2>9, <3>1, <3>2 DEF AsWanted
  <2>8. CASE file \in Files /\ Last(AssetPath(rest)) \notin HtmlNames
    <3>1. ServeAppAsset(t, c) = [status |-> 200, kind |-> "file", content |-> file]
      BY <2>5, <2>8
    <3>2. WantedKind(u) = "file"
      BY <2>8, <2>9, <2>10
    <3> QED
      BY <1>9, <2>3, <2>8, <3>1, <3>2 DEF AsWanted
  <2> QED
    BY <2>6, <2>7, <2>8
<1> QED
  BY <1>11, <1>12

\* The origin a response names is one that is allowed.
LEMMA OriginAllowed == \A origin : AllowedOrigin(origin) \in Range(AllowedOrigins)
<1> DEFINE R == Range(AllowedOrigins)
<1>1. AllowedOrigins \in Seq(R) /\ AllowedOrigins # <<>>
  BY PagesAssumption DEF IsPath
<1>2. AllowedOrigins[1] \in R
  <2>1. 1 \in 1..Len(AllowedOrigins)
    <3> HIDE DEF R
    <3>1. Len(AllowedOrigins) \in Nat /\ Len(AllowedOrigins) # 0
      BY <1>1, LenProperties, EmptySeq
    <3> QED
      BY <3>1
  <2> HIDE DEF R
  <2> QED
    BY <1>1, <2>1, ElementOfSeq
<1> HIDE DEF R
<1>3. ASSUME NEW origin PROVE AllowedOrigin(origin) \in R
  BY <1>2 DEF AllowedOrigin, R
<1> QED
  BY <1>3 DEF R

\* What a page is, whichever route it came by.
PageIsFor(r, req, c) ==
  /\ r.script = [session |-> "new", auth |-> c.auth]
  /\ r.csp.sources \subseteq {"'self'"} \cup c.csp.sources \cup c.override.sources
  /\ req.ref # <<>> /\ req.path[1] # "app" => Head(r.notes) = "tool-result"

\* A page that comes through the proxy.
ProxiedPage(r, req, c) ==
  \E content : \E notes \in {<<>>, <<"note">>}, override \in {c.override, NoCsp} :
    /\ r = ProxiedHtml([html |-> content, notes |-> notes], req, c, override)
    /\ content = <<"custom">> \/ (req.uri # <<>> /\ content = UriText(req.uri[1]))

\* A page from a directory is that of a file.
LEMMA AssetPage ==
  ASSUME NEW p, NEW c, ServeAppAsset(p, c).kind = "page"
  PROVE  \E file : ServeAppAsset(p, c) = Page(file, c.csp, <<>>, c.auth)
<1> DEFINE dir == NormalizePath(Directories[p[1]])
           file == NormalizePath(dir \o AssetPath(Tail(p)))
<1>1. \A status : Plain(status, "asset").kind # "page"
  BY DEF Plain
<1>2. [status |-> 200, kind |-> "file", content |-> file].kind # "page"
  OBVIOUS
<1> QED
  BY <1>1, <1>2 DEF ServeAppAsset

\* What a directory serves is a file of it.
LEMMA AssetOfApp ==
  ASSUME NEW p, NEW c, ServeAppAsset(p, c).kind \in {"page", "file"}
  PROVE  OfAnApp(ServeAppAsset(p, c).content)
<1> DEFINE s == p[1]
           dir == NormalizePath(Directories[s])
           asked == AssetPath(Tail(p))
           file == NormalizePath(dir \o asked)
           served1 == IF Last(asked) \in HtmlNames THEN Page(file, c.csp, <<>>, c.auth) ELSE [status |-> 200, kind |-> "file", content |-> file]
<1>1. \A status : Plain(status, "asset").kind \notin {"page", "file"}
  BY DEF Plain
<1>2. s \in DOMAIN Directories /\ Inside(dir, file) /\ file \in Files /\ ServeAppAsset(p, c) = served1
  BY <1>1 DEF ServeAppAsset
<1>3. served1.content = file
  BY DEF Page
<1>4. dir = Directories[s]
  <2> DEFINE D == Directories[s]
             R == Range(D)
  <2>1. IsPath(D) /\ Named(D) /\ R \subseteq R
    BY <1>2, PagesAssumption
  <2> HIDE DEF D, R
  <2>2. D \in Seq(R \ Dots)
    BY <2>1, PathIn DEF R
  <2>3. NormalizePath(D) = D
    BY <2>2, NormalizedSelf
  <2> QED
    BY <2>3 DEF D
<1> HIDE DEF file, served1, s
<1>5. IsStrictPrefix(Directories[s], file)
  BY <1>2, <1>4 DEF Inside
<1>6. OfAnApp(file)
  BY <1>2, <1>5, Zenon DEF OfAnApp
<1> QED
  BY <1>2, <1>3, <1>6

\* Any other page comes through the proxy.
LEMMA RestPage ==
  ASSUME NEW req, NEW c, ServeRest(req, c).kind = "page"
  PROVE  ProxiedPage(ServeRest(req, c), req, c)
<1>1. \A status, kind : kind # "page" => Plain(status, kind).kind # "page"
  BY DEF Plain
<1>2. CASE c.custom = "html"
  <2>1. c.custom # "response"
    BY <1>2
  <2>2. ServeRest(req, c) = ProxiedHtml([html |-> <<"custom">>, notes |-> <<"note">>], req, c, NoCsp)
    BY <1>2, <2>1 DEF ServeRest
  <2>3. <<"note">> \in {<<>>, <<"note">>} /\ NoCsp \in {c.override, NoCsp}
    OBVIOUS
  <2> QED
    BY <2>2, <2>3, Zenon DEF ProxiedPage
<1>3. CASE c.custom # "html"
  <2>1. ServeRest(req, c) = ServeUi(req, c)
    BY <1>1, <1>3 DEF ServeRest
  <2>2. req.uri # <<>> /\ ServeUi(req, c) = ProxiedHtml([html |-> UriText(req.uri[1]), notes |-> <<>>], req, c, c.override)
    BY <1>1, <2>1 DEF ServeUi
  <2>3. <<>> \in {<<>>, <<"note">>} /\ c.override \in {c.override, NoCsp}
    OBVIOUS
  <2> QED
    BY <2>1, <2>2, <2>3, Zenon DEF ProxiedPage
<1> QED
  BY <1>2, <1>3

\* So whatever URI it is for, what is served is of an App or the application's own.
LEMMA ServedOfApp ==
  ASSUME NEW req, NEW c, req.uri = <<>>, HandleRequest(req, c).kind \in {"page", "file"}
  PROVE  OfAnApp(HandleRequest(req, c).content) \/ HandleRequest(req, c).content = <<"custom">>
<1> DEFINE Other == {"page", "file"}
<1>1. \A status, kind : kind \notin Other => Plain(status, kind).kind \notin Other
  BY DEF Plain
<1>2. ServeBridge(req).kind \notin Other
  BY <1>1 DEF ServeBridge
<1>3. CASE Len(req.path) >= 2 /\ req.path[1] = "app"
  <2>1. HandleRequest(req, c) = ServeAppAsset(Tail(req.path), c)
    BY <1>1, <1>2, <1>3 DEF HandleRequest
  <2> QED
    BY <2>1, AssetOfApp
<1>4. CASE ~(Len(req.path) >= 2 /\ req.path[1] = "app")
  <2>1. HandleRequest(req, c) = ServeRest(req, c)
    BY <1>1, <1>2, <1>4 DEF HandleRequest
  <2>2. ServeUi(req, c).kind = "ui"
    BY DEF ServeUi, Plain
  <2>3. c.custom # "response" /\ c.custom = "html"
    BY <1>1, <2>1, <2>2 DEF ServeRest
  <2>4. ServeRest(req, c) = ProxiedHtml([html |-> <<"custom">>, notes |-> <<"note">>], req, c, NoCsp)
    BY <2>3 DEF ServeRest
  <2>5. ProxiedHtml([html |-> <<"custom">>, notes |-> <<"note">>], req, c, NoCsp).content = <<"custom">>
    BY DEF ProxiedHtml, Page
  <2> QED
    BY <2>1, <2>4, <2>5
<1> QED
  BY <1>3, <1>4

\* A page is a file of an App below /app, and elsewhere comes through the proxy.
LEMMA PageRoutes ==
  ASSUME NEW req, NEW c, HandleRequest(req, c).kind = "page"
  PROVE  \/ req.path[1] = "app" /\ \E file : HandleRequest(req, c) = Page(file, c.csp, <<>>, c.auth)
         \/ ~(Len(req.path) >= 2 /\ req.path[1] = "app") /\ ProxiedPage(HandleRequest(req, c), req, c)
<1>1. \A status, kind : kind # "page" => Plain(status, kind).kind # "page"
  BY DEF Plain
<1>2. ServeBridge(req).kind # "page"
  BY <1>1 DEF ServeBridge
<1>3. CASE Len(req.path) >= 2 /\ req.path[1] = "app"
  <2>1. HandleRequest(req, c) = ServeAppAsset(Tail(req.path), c)
    BY <1>1, <1>2, <1>3 DEF HandleRequest
  <2> QED
    BY <1>3, <2>1, AssetPage
<1>4. CASE ~(Len(req.path) >= 2 /\ req.path[1] = "app")
  <2>1. HandleRequest(req, c) = ServeRest(req, c)
    BY <1>1, <1>2, <1>4 DEF HandleRequest
  <2> QED
    BY <1>4, <2>1, RestPage
<1> QED
  BY <1>3, <1>4

\* Every page is made for its request.
LEMMA PageMade ==
  ASSUME NEW req, NEW c, HandleRequest(req, c).kind = "page"
  PROVE  PageIsFor(HandleRequest(req, c), req, c)
<1> DEFINE r == HandleRequest(req, c)
<1>1. CASE req.path[1] = "app" /\ \E file : r = Page(file, c.csp, <<>>, c.auth)
  <2>1. PICK file : r = Page(file, c.csp, <<>>, c.auth)
    BY <1>1
  <2> HIDE DEF r
  <2>2. r.script = [session |-> "new", auth |-> c.auth] /\ r.csp.sources = {"'self'"} \cup c.csp.sources
    BY <2>1 DEF Page, CspHeader
  <2>3. PageIsFor(r, req, c)
    BY <1>1, <2>2 DEF PageIsFor
  <2> QED
    BY <2>3 DEF r
<1>2. CASE ProxiedPage(r, req, c)
  <2>1. PICK content : \E notes \in {<<>>, <<"note">>}, override \in {c.override, NoCsp} :
          r = ProxiedHtml([html |-> content, notes |-> notes], req, c, override)
    BY <1>2 DEF ProxiedPage
  <2>0. PICK notes \in {<<>>, <<"note">>}, override \in {c.override, NoCsp} :
          r = ProxiedHtml([html |-> content, notes |-> notes], req, c, override)
    BY <2>1
  <2> DEFINE begun == (IF req.ref = <<>> THEN <<>> ELSE <<"tool-result">>) \o notes
  <2>2. r = Page(content, MergedCsp(c.csp, override), begun, c.auth)
    BY <2>0 DEF ProxiedHtml
  <2>3. req.ref # <<>> => Head(begun) = "tool-result"
    OBVIOUS
  <2> HIDE DEF r, begun
  <2>4. r.script = [session |-> "new", auth |-> c.auth] /\ r.notes = begun
    BY <2>2 DEF Page
  <2>5. r.csp.sources = {"'self'"} \cup (c.csp.sources \cup override.sources)
    <3>1. r.csp = CspHeader(MergedCsp(c.csp, override))
      BY <2>2 DEF Page
    <3> QED
      BY <3>1 DEF CspHeader, MergedCsp
  <2>6. override.sources \subseteq c.override.sources
    BY DEF NoCsp
  <2>7. PageIsFor(r, req, c)
    BY <2>3, <2>4, <2>5, <2>6 DEF PageIsFor
  <2> QED
    BY <2>7 DEF r
<1> QED
  BY <1>1, <1>2, PageRoutes

\* The URL of a query is the ui route itself, which is no route of an App.
LEMMA QueryUrl ==
  ASSUME NEW u
  PROVE  UrlPath(ResolveToHttp(u, "query").path)[1] # "app"
<1> DEFINE p == IF UiPath = <<>> THEN <<"ui">> ELSE UiPath
           R == Range(p)
           F == R \ Dots
<1>1. IsPath(p) /\ Named(p) /\ p # <<>> /\ p[1] # "app"
  <2>1. CASE UiPath = <<>>
    <3>1. p = <<"ui">>
      BY <2>1
    <3> HIDE DEF p
    <3>2. p \in Seq({"ui"}) /\ DOMAIN p = {1} /\ p[1] = "ui"
      BY <3>1
    <3>3. Range(p) = {"ui"}
      BY <3>2 DEF Range
    <3> QED
      BY <3>1, <3>2, <3>3 DEF IsPath, Named
  <2>2. CASE UiPath # <<>>
    BY <2>2, PagesAssumption
  <2> QED
    BY <2>1, <2>2
<1>2. ResolveToHttp(u, "query").path = p
  BY DEF ResolveToHttp
<1> HIDE DEF p
<1>3. R \subseteq R
  OBVIOUS
<1>4. p \in Seq(R) /\ p \in Seq(F)
  <2> HIDE DEF R
  <2>1. p \in Seq(R) /\ (Named(p) => p \in Seq(R \ Dots))
    BY <1>1, <1>3, PathIn DEF R
  <2> QED
    BY <1>1, <2>1
<1>5. NormalizePath(p) = p
  <2> HIDE DEF R
  <2> QED
    BY <1>4, NormalizedSelf
<1>6. Last(p) \notin Dots
  <2>1. Len(p) \in 1..Len(p) /\ p \in Seq(F)
    <3> HIDE DEF F
    <3>1. Len(p) \in Nat /\ Len(p) # 0
      BY <1>1, <1>4, LenProperties, EmptySeq
    <3> QED
      BY <1>4, <3>1
  <2>2. p[Len(p)] \in F
    <3> HIDE DEF F
    <3> QED
      BY <2>1, ElementOfSeq
  <2> QED
    BY <2>2 DEF Last
<1>8. Resolved(p, {"."}) = NormalizePath(p)
  <2> DEFINE G == F \cup {"."}
  <2>1. F \subseteq G \ {"empty"}
    BY DEF Dots
  <2>2. p \in Seq(G \ {"empty"})
    <3> HIDE DEF F, G
    <3> QED
      BY <1>4, <2>1, SeqMonotonic
  <2> HIDE DEF G
  <2> QED
    BY <2>2, ResolvedAlike
<1>7. UrlPath(p) = p
  BY <1>5, <1>6, <1>8 DEF UrlPath, Dots
<1> QED
  BY <1>1, <1>2, <1>7

\* A page at the ui route is what the backend reads for its URI, or the application's own.
LEMMA QueryServed ==
  ASSUME NEW u, NEW req, NEW c, req.path = UrlPath(ResolveToHttp(u, "query").path), req.uri = << u >>,
         HandleRequest(req, c).kind = "page"
  PROVE  HandleRequest(req, c).content \in {<<"custom">>, UriText(u)}
<1> DEFINE r == HandleRequest(req, c)
<1>1. req.path[1] # "app"
  BY QueryUrl
<1>2. ProxiedPage(r, req, c)
  BY <1>1, PageRoutes
<1>3. PICK content, notes, override :
        /\ r = ProxiedHtml([html |-> content, notes |-> notes], req, c, override)
        /\ content = <<"custom">> \/ (req.uri # <<>> /\ content = UriText(req.uri[1]))
  BY <1>2 DEF ProxiedPage
<1> HIDE DEF r
<1>4. r.content = content
  BY <1>3 DEF ProxiedHtml, Page
<1>5. req.uri[1] = u
  OBVIOUS
<1>6. r.content \in {<<"custom">>, UriText(u)}
  BY <1>3, <1>4, <1>5
<1> QED
  BY <1>6 DEF r

\* No field has the key, or the first that has it is one of the fields.
FirstOf(fields, key) ==
  \/ First(fields, key) = <<>> /\ \A k \in DOMAIN fields : fields[k].key # key
  \/ \E k \in DOMAIN fields : fields[k].key = key /\ First(fields, key) = << fields[k] >>

\* URLSearchParams.get() finds a field if there is one.
LEMMA FirstIs ==
  ASSUME NEW fields, Dated(fields), NEW key
  PROVE  FirstOf(fields, key)
<1> DEFINE at == {k \in DOMAIN fields : fields[k].key = key}
<1>1. at \subseteq Nat
  <2>1. fields \in Seq(Range(fields))
    BY DEF Dated, IsPath
  <2>2. DOMAIN fields = 1..Len(fields)
    BY <2>1, LenProperties
  <2> QED
    BY <2>2
<1>2. CASE at = {}
  BY <1>2 DEF First, FirstOf
<1>3. CASE at # {}
  <2> DEFINE n == CHOOSE k \in at : \A j \in at : k <= j
  <2>1. n \in at
    <3>1. \E k \in at : \A j \in at : k <= j
      <4> HIDE DEF at
      <4> QED
        BY <1>1, <1>3, LeastElement
    <3> HIDE DEF at
    <3> QED
      BY <3>1
  <2>2. First(fields, key) = << fields[n] >>
    BY <1>3 DEF First
  <2> HIDE DEF n
  <2> QED
    BY <2>1, <2>2 DEF FirstOf
<1> QED
  BY <1>2, <1>3

\* A line of a check string is that of a field, if the values have one line each.
LEMMA SignedLine ==
  ASSUME NEW fields, Dated(fields), AsSigned(fields), NEW line \in CheckString(fields)
  PROVE  \E f \in Range(fields) : f.key = line.key /\ f.value = line.value
<1>1. PICK f \in Range(fields) : line \in {[key |-> f.key, value |-> f.value]} \cup Range(f.more)
  BY DEF CheckString
<1>2. f.more = <<>>
  <2>1. PICK n \in DOMAIN fields : f = fields[n]
    BY DEF Range
  <2> QED
    BY <2>1 DEF AsSigned
<1>3. Range(<<>>) = {}
  BY DEF Range
<1>4. line = [key |-> f.key, value |-> f.value]
  BY <1>1, <1>2, <1>3
<1> QED
  BY <1>4

\* The first line of every field is one.
LEMMA FieldLine ==
  ASSUME NEW fields, NEW f \in Range(fields)
  PROVE  [key |-> f.key, value |-> f.value] \in CheckString(fields)
BY DEF CheckString

\* A hash that fits is one the bot gave, for the same lines.
LEMMA HashFits ==
  ASSUME NEW d \in Presented, d.hash = <<Signature(BotToken, d.fields)>>
  PROVE  \E s \in Issued : CheckString(d.fields) = CheckString(s)
<1> DEFINE sig == Signature(BotToken, d.fields)
           h == << sig >>
<1>1. sig \in Hashes
  <2>1. d.hash \in {<<>>} \cup {<<x>> : x \in Hashes}
    BY DEF Presented
  <2>2. PICK x \in Hashes : h = << x >>
    <3>1. h # <<>>
      OBVIOUS
    <3> HIDE DEF h
    <3> QED
      BY <2>1, <3>1 DEF h
  <2>3. h[1] = sig /\ h[1] = x
    <3> HIDE DEF sig
    <3> QED
      BY <2>2
  <2> HIDE DEF sig
  <2> QED
    BY <2>3
<1>2. \A t, f : Signature(t, f).token = t /\ Signature(t, f).lines = CheckString(f)
  BY DEF Signature
<1>3. ~ \E t \in OtherTokens, f \in Forms : sig = Signature(t, f)
  BY <1>2, PagesAssumption
<1>4. PICK s \in Issued : sig = Signature(BotToken, s)
  <2> HIDE DEF sig
  <2> QED
    BY <1>1, <1>3 DEF Hashes
<1> QED
  BY <1>2, <1>4

\* Data that is let in was signed with its date and its user.
LetInBy(d, now, r) ==
  \E s \in Issued :
    /\ \E f \in Range(s) : f.key = "auth_date" /\ now - f.value \in (-Skew)..MaxAge
    /\ r.user # <<>> => \E f \in Range(s) : f.key = "user" /\ r.user = <<f.value>>

\* So for whatever is presented.
LEMMA OnlySigned ==
  ASSUME NEW d \in Presented, NEW now \in Nows, ValidateInitData(d, now).valid
  PROVE  LetInBy(d, now, ValidateInitData(d, now))
<1> DEFINE fs == d.fields
           h == d.hash
           dates == First(fs, "auth_date")
           users == First(fs, "user")
           r == ValidateInitData(d, now)
           refused == \/ h = <<>> \/ dates = <<>> \/ h # << Signature(BotToken, fs) >>
                      \/ now - dates[1].value > MaxAge \/ now - dates[1].value < -Skew
<1>1. Dated(fs) /\ now \in Int /\ MaxAge \in Int /\ Skew \in Int
  <2>1. fs \in Forms
    BY DEF Presented
  <2> QED
    BY <2>1, PagesAssumption
<1>2. r = IF refused THEN [valid |-> FALSE, user |-> <<>>] ELSE [valid |-> TRUE, user |-> ParsedUser(users)]
  BY DEF ValidateInitData
<1>3. ~refused /\ r.user = ParsedUser(users)
  <2> HIDE DEF refused, users
  <2>1. CASE refused
    BY <1>2, <2>1
  <2> QED
    BY <1>2, <2>1
<1>4. h = << Signature(BotToken, fs) >> /\ dates # <<>> /\ ~(now - dates[1].value > MaxAge) /\ ~(now - dates[1].value < -Skew)
  BY <1>3
<1>5. PICK s \in Issued : CheckString(fs) = CheckString(s)
  BY <1>4, HashFits
<1>6. Dated(s) /\ AsSigned(s)
  BY PagesAssumption
<1> HIDE DEF fs, r
<1>7. ASSUME NEW f \in Range(fs) PROVE \E g \in Range(s) : g.key = f.key /\ g.value = f.value
  <2> DEFINE line == [key |-> f.key, value |-> f.value]
  <2>1. line \in CheckString(s) /\ line.key = f.key /\ line.value = f.value
    BY <1>5, FieldLine
  <2> HIDE DEF line
  <2> QED
    BY <1>6, <2>1, SignedLine
<1>8. \E g \in Range(s) : g.key = "auth_date" /\ now - g.value \in (-Skew)..MaxAge
  <2> DEFINE k == "auth_date"
  <2>1. PICK n \in DOMAIN fs : fs[n].key = k /\ First(fs, k) = << fs[n] >>
    <3>1. FirstOf(fs, k) /\ First(fs, k) # <<>>
      BY <1>1, <1>4, FirstIs
    <3> HIDE DEF k
    <3> QED
      BY <3>1 DEF FirstOf
  <2>2. fs[n].value \in Int /\ fs[n] \in Range(fs)
    BY <1>1, <2>1 DEF Dated, Range
  <2>3. dates[1] = fs[n]
    BY <2>1
  <2> HIDE DEF k, dates
  <2>4. now - fs[n].value \in (-Skew)..MaxAge
    BY <1>1, <1>4, <2>2, <2>3
  <2>5. PICK g \in Range(s) : g.key = fs[n].key /\ g.value = fs[n].value
    BY <1>7, <2>2
  <2> QED
    BY <2>1, <2>4, <2>5 DEF k
<1>9. ASSUME r.user # <<>> PROVE \E g \in Range(s) : g.key = "user" /\ r.user = << g.value >>
  <2> DEFINE k == "user"
  <2>1. users # <<>> /\ r.user = << users[1].value >>
    BY <1>3, <1>9 DEF ParsedUser
  <2>2. PICK n \in DOMAIN fs : fs[n].key = k /\ First(fs, k) = << fs[n] >>
    <3>1. FirstOf(fs, k) /\ First(fs, k) # <<>>
      BY <1>1, <2>1, FirstIs
    <3> HIDE DEF k
    <3> QED
      BY <3>1 DEF FirstOf
  <2>3. fs[n] \in Range(fs) /\ users[1] = fs[n]
    BY <2>2 DEF Range
  <2>4. PICK g \in Range(s) : g.key = fs[n].key /\ g.value = fs[n].value
    BY <1>7, <2>3
  <2> HIDE DEF users, k
  <2> QED
    BY <2>1, <2>2, <2>3, <2>4 DEF k
<1>10. LetInBy(d, now, r)
  BY <1>8, <1>9 DEF LetInBy
<1> QED
  BY <1>10 DEF r

\* What the bot signed and is in time is let in as it is.
LEMMA SignedLetIn ==
  ASSUME NEW d \in Presented, NEW now \in Nows, d.fields \in Issued, d.hash = <<Signature(BotToken, d.fields)>>,
         NEW f \in Range(d.fields), f.key = "auth_date", now - f.value \in (-Skew)..MaxAge
  PROVE  /\ ValidateInitData(d, now).valid
         /\ \A g \in Range(d.fields) : g.key = "user" => ValidateInitData(d, now).user = <<g.value>>
<1> DEFINE fs == d.fields
           dates == First(fs, "auth_date")
           users == First(fs, "user")
           r == ValidateInitData(d, now)
<1>1. Dated(fs) /\ AsSigned(fs) /\ now \in Int /\ MaxAge \in Int /\ Skew \in Int
  BY PagesAssumption
<1>2. ASSUME NEW k, NEW g \in Range(fs), g.key = k PROVE First(fs, k) = << g >> /\ g.more = <<>>
  <2> HIDE DEF fs
  <2>1. PICK m \in DOMAIN fs : fs[m] = g
    BY DEF Range
  <2>2. PICK n \in DOMAIN fs : fs[n].key = k /\ First(fs, k) = << fs[n] >>
    BY <1>1, <1>2, <2>1, FirstIs DEF FirstOf
  <2>3. m = n
    BY <1>1, <1>2, <2>1, <2>2 DEF AsSigned
  <2> QED
    BY <1>1, <2>1, <2>2, <2>3 DEF AsSigned
<1>3. dates = << f >>
  BY <1>2
<1>4. f.value \in Int
  <2>1. PICK m \in DOMAIN fs : fs[m] = f
    BY DEF Range
  <2> QED
    BY <1>1, <2>1 DEF Dated
<1>5. ~(now - f.value > MaxAge) /\ ~(now - f.value < -Skew)
  BY <1>1, <1>4
<1>6. d.hash # <<>> /\ dates # <<>> /\ dates[1] = f
  BY <1>3
<1>7. r = IF d.hash = <<>> \/ dates = <<>> \/ d.hash # <<Signature(BotToken, fs)>>
             \/ now - dates[1].value > MaxAge \/ now - dates[1].value < -Skew
          THEN [valid |-> FALSE, user |-> <<>>] ELSE [valid |-> TRUE, user |-> ParsedUser(users)]
  BY DEF ValidateInitData
<1>8. r = [valid |-> TRUE, user |-> ParsedUser(users)]
  <2> HIDE DEF r, dates, users
  <2> QED
    BY <1>5, <1>6, <1>7
<1>9. ASSUME NEW g \in Range(fs), g.key = "user" PROVE ParsedUser(users) = << g.value >>
  <2>1. users = << g >> /\ g.more = <<>>
    BY <1>2, <1>9
  <2> QED
    BY <2>1 DEF ParsedUser
<1> HIDE DEF users, r
<1>10. r.valid /\ r.user = ParsedUser(users)
  BY <1>8
<1> QED
  BY <1>9, <1>10 DEF r

\* What validateTelegramInitData() lets in is signed, in time, and who it says.
LEMMA DataSigned ==
  ASSUME NEW d \in Presented, NEW now \in Nows, served = [case |-> "initData", data |-> d, now |-> now]
  PROVE  SignedOnly
<1> DEFINE r == ValidateInitData(d, now)
<1>1. served.case = "initData" /\ served.data = d /\ served.now = now
  OBVIOUS
<1>2. r.valid => LetInBy(d, now, r)
  BY OnlySigned
<1>3. ASSUME d.fields \in Issued, d.hash = <<Signature(BotToken, d.fields)>>,
             NEW f \in Range(d.fields), f.key = "auth_date", now - f.value \in (-Skew)..MaxAge
      PROVE  r.valid /\ \A g \in Range(d.fields) : g.key = "user" => r.user = <<g.value>>
  BY <1>3, SignedLetIn
<1> HIDE DEF r
<1> QED
  BY <1>1, <1>2, <1>3 DEF SignedOnly, LetInBy, r

\* A URI is resolved to what it names, in either mode.
LEMMA UriResolved ==
  ASSUME NEW c, NEW u \in UiUris, NEW mode \in {"app", "query"}, NEW ref,
         served = [case |-> "uri", mode |-> mode, uri |-> u, req |-> [Of(u, mode) EXCEPT !.ref = ref], config |-> c]
  PROVE  ResolvedIsServed
<1> DEFINE req == [Of(u, mode) EXCEPT !.ref = ref]
           r == HandleRequest(req, c)
<1>1. req.method = "GET" /\ req.path = UrlPath(ResolveToHttp(u, mode).path) /\ req.uri = ResolveToHttp(u, mode).uri
  BY DEF Of, Request
<1>2. /\ served.case = "uri" /\ served.mode = mode /\ served.uri = u /\ served.req = req /\ served.config = c
  OBVIOUS
<1> HIDE DEF req
<1>3. r.kind = "page" => PageIsFor(r, req, c)
  BY PageMade
<1>4. AllowedOrigin(req.origin) \in Range(AllowedOrigins)
  BY OriginAllowed
<1>5. mode = "app" /\ Below(u) => AsWanted(r, u)
  BY <1>1, AppServed
<1>7. mode = "app" /\ r.kind \in {"page", "file"} => OfAnApp(r.content) \/ r.content = <<"custom">>
  <2>1. mode = "app" => req.uri = <<>>
    BY <1>1 DEF ResolveToHttp
  <2> QED
    BY <2>1, ServedOfApp
<1>6. mode = "query" /\ r.kind = "page" => r.content \in {<<"custom">>, UriText(u)}
  <2>1. mode = "query" => req.uri = << u >>
    BY <1>1 DEF ResolveToHttp
  <2> QED
    BY <1>1, <2>1, QueryServed
<1> HIDE DEF r
<1> QED
  BY <1>2, <1>3, <1>4, <1>5, <1>6, <1>7 DEF ResolvedIsServed, PageIsFor, AsWanted, r

\* A request of any kind is answered as promised.
LEMMA RequestResolved ==
  ASSUME NEW c, NEW req, served = [case |-> "request", config |-> c, req |-> req]
  PROVE  ResolvedIsServed
<1> DEFINE r == HandleRequest(req, c)
<1>1. served.case = "request" /\ served.req = req /\ served.config = c
  OBVIOUS
<1>2. r.kind = "page" => PageIsFor(r, req, c)
  BY PageMade
<1>3. AllowedOrigin(req.origin) \in Range(AllowedOrigins)
  BY OriginAllowed
<1> HIDE DEF r
<1> QED
  BY <1>1, <1>2, <1>3 DEF ResolvedIsServed, PageIsFor, r

\* Whatever is asked for first.
LEMMA PagesAtStart == ServedInit \/ served = [case |-> "none"] => PagesTrue
<1>1. ASSUME served.case # "initData", ResolvedIsServed PROVE PagesTrue
  BY <1>1 DEF PagesTrue, SignedOnly
<1>2. ASSUME served.case # "uri", served.case # "request" PROVE ResolvedIsServed
  BY <1>2 DEF ResolvedIsServed
<1>3. CASE UriAsked
  <2>1. PICK c \in Configs, u \in UiUris, mode \in {"app", "query"}, r \in {<<>>, <<"ref">>} :
           served = [case |-> "uri", mode |-> mode, uri |-> u, req |-> [Of(u, mode) EXCEPT !.ref = r], config |-> c]
    BY <1>3, Zenon DEF UriAsked
  <2>2. ResolvedIsServed
    BY <2>1, UriResolved
  <2>3. served.case # "initData"
    BY <2>1
  <2> QED
    BY <1>1, <2>2, <2>3
<1>4. CASE RequestMade
  <2>1. PICK c, q : served = [case |-> "request", config |-> c, req |-> q]
    BY <1>4, Zenon DEF RequestMade
  <2>2. ResolvedIsServed
    BY <2>1, RequestResolved
  <2>3. served.case # "initData"
    BY <2>1
  <2> QED
    BY <1>1, <2>2, <2>3
<1>5. CASE MessageSent
  <2>1. PICK m, h, b : served = [case |-> "message", message |-> m, host |-> h, http |-> b]
    BY <1>5, Zenon DEF MessageSent
  <2>2. served.case = "message"
    BY <2>1
  <2> QED
    BY <1>1, <1>2, <2>2
<1>6. CASE RouterGiven
  <2>1. PICK m, open, h : served = [case |-> "router", message |-> m, pending |-> open, handler |-> h]
    BY <1>6, Zenon DEF RouterGiven
  <2>2. served.case = "router"
    BY <2>1
  <2> QED
    BY <1>1, <1>2, <2>2
<1>7. CASE DataPresented
  <2>1. PICK d \in Presented, n \in Nows : served = [case |-> "initData", data |-> d, now |-> n]
    BY <1>7, Zenon DEF DataPresented
  <2>2. SignedOnly
    BY <2>1, DataSigned
  <2>3. served.case = "initData"
    BY <2>1
  <2> QED
    BY <1>2, <2>2, <2>3 DEF PagesTrue
<1>8. CASE served = [case |-> "none"]
  <2>1. served.case = "none"
    BY <1>8
  <2> QED
    BY <1>1, <1>2, <2>1
<1>9. ServedInit => UriAsked \/ RequestMade \/ MessageSent \/ RouterGiven \/ DataPresented
  BY DEF ServedInit, UriAsked, RequestMade, MessageSent, RouterGiven, DataPresented
<1> QED
  BY <1>3, <1>4, <1>5, <1>6, <1>7, <1>8, <1>9

\* Only a page the bot signed is let in, and the URL of a ui:// URI is answered with
\* what the URI names (telegram-auth.ts, server.ts, resource-resolver.ts).
THEOREM PagesHold == Spec => []PagesTrue
<1>1. Init => PagesTrue
  BY PagesAtStart DEF Init
<1>2. PagesTrue /\ [Next]_<<tunnelVars, bridgeVars, clientVars, served, part>> => PagesTrue'
  <2> SUFFICES ASSUME PagesTrue, [Next]_<<tunnelVars, bridgeVars, clientVars, served, part>> PROVE PagesTrue'
    OBVIOUS
  <2>1. served' = served
    BY DEF Next, ServedNext
  <2> QED
    BY <2>1 DEF PagesTrue, SignedOnly, ResolvedIsServed
<1> QED
  BY <1>1, <1>2, PTL DEF Spec
=============================================================================
