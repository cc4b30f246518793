---------------------------- MODULE ServerProofs ----------------------------
(***************************************************************************)
(* Theorems about the server side of a call: the HTTP surface of McpApp,   *)
(* the rules of its headers and its resources, the Node.js server under    *)
(* it, the authentication of its requests, what an OAuth client keeps of   *)
(* the authorization server, and the signed channel of an iframe.  Each    *)
(* part that moves has an inductive invariant of its own, which says of    *)
(* every place on the way of a request what was established before it.     *)
(***************************************************************************)
EXTENDS MCHttp, Auth, OAuthClient, Signing, LoopFacts, SequenceTheorems, TLAPS

-----------------------------------------------------------------------------
(* NodeServer: a body is counted against the limit, however it comes.      *)

NodeExchange ==
    [at : {"none", "body", "handler", "relay", "ended", "stuck"}, declared : Nat \cup {Chunked},
     total : Nat, head : {0, 200, 413, 500}, link : {"none", "up", "gone", "cut"}]

\* What is known of a request at every place it can be at.
ExchangeOK(r) ==
    /\ r.at \in {"none", "body", "handler"} => r.head = 0
    /\ r.at \in {"body", "handler", "relay"} => r.total <= MaxBody
    /\ r.at = "handler" /\ r.total > 0 => r.declared \in {Chunked, r.total}
    /\ r.at \in {"relay", "stuck"} => r.head = 200
    /\ r.at = "ended" => r.head # 0
    /\ r.head = 413 => r.total > MaxBody \/ (r.declared # Chunked /\ r.declared > MaxBody)

NodeInv ==
    /\ server \in {"open", "closing", "closed"}
    /\ exchange \in [Exchanges -> NodeExchange]
    /\ \A x \in Exchanges : ExchangeOK(exchange[x])
    /\ server = "closed" => \A x \in Exchanges : ~Busy(x)

\* An answer keeps the request apart from its status and its place.
LEMMA SentFields ==
    ASSUME NEW r \in NodeExchange, NEW status \in {200, 413, 500}
    PROVE  /\ Sent(r, status) \in NodeExchange
           /\ Sent(r, status).at = "ended" /\ Sent(r, status).head = status
           /\ Sent(r, status).declared = r.declared /\ Sent(r, status).total = r.total
           /\ Sent(r, status).link = r.link
<1> DEFINE h == [r EXCEPT !.head = status]
<1>1. h \in NodeExchange
  BY DEF NodeExchange
<1>2. [h EXCEPT !.at = "ended"] \in NodeExchange
  <2> HIDE DEF h
  <2> QED BY <1>1 DEF NodeExchange
<1>3. Sent(r, status) = [h EXCEPT !.at = "ended"]
  BY Zenon DEF Sent
<1>4. QED
  BY <1>2, <1>3 DEF NodeExchange, Sent

\* The server begins with no request.
LEMMA NodeInitInv == NodeInit => NodeInv
BY NodeAssumption DEF NodeInit, NodeInv, ExchangeOK, NodeExchange, Idle, Busy

\* One exchange changes, to one that is in order; none begins once the server is closed.
LEMMA NodeChange ==
    ASSUME NodeInv, NEW x \in Exchanges, NEW r \in NodeExchange, exchange' = [exchange EXCEPT ![x] = r],
           ExchangeOK(r), server' = server,
           server = "closed" => r.link # "up" \/ r.at = "ended"
    PROVE  NodeInv'
BY DEF NodeInv, Busy

\* Every step of a connection or of the server keeps what is known of the requests.
LEMMA NodeNextInv == NodeInv /\ [NodeNext]_nodeVars => NodeInv'
<1> SUFFICES ASSUME NodeInv, [NodeNext]_nodeVars PROVE NodeInv'
  OBVIOUS
<1> USE NodeAssumption
<1>1. ASSUME NEW x \in Exchanges, Arrives(x)
      PROVE  NodeInv'
  <2>1. PICK method \in {"GET", "POST"}, declared \in Lengths \cup {Chunked} :
          exchange' = [exchange EXCEPT ![x] =
             IF declared # Chunked /\ declared > MaxBody THEN Sent([Idle EXCEPT !.declared = declared, !.link = "up"], 413)
             ELSE [[Idle EXCEPT !.declared = declared, !.link = "up"] EXCEPT !.at = IF method = "GET" THEN "handler" ELSE "body"]]
    BY <1>1 DEF Arrives
  <2> DEFINE r == [Idle EXCEPT !.declared = declared, !.link = "up"]
             s == IF declared # Chunked /\ declared > MaxBody THEN Sent(r, 413)
                  ELSE [r EXCEPT !.at = IF method = "GET" THEN "handler" ELSE "body"]
  <2>2. s \in NodeExchange /\ ExchangeOK(s)
    <3>1. r \in NodeExchange /\ r.total = 0 /\ r.head = 0 /\ r.declared = declared
      BY DEF NodeExchange, Idle
    <3> HIDE DEF r
    <3>2. CASE declared # Chunked /\ declared > MaxBody
      <4>1. s = Sent(r, 413) /\ r \in NodeExchange
        BY <3>1, <3>2
      <4> HIDE DEF s
      <4>2. /\ s \in NodeExchange /\ s.at = "ended" /\ s.head = 413
            /\ s.declared = declared
        BY <3>1, <4>1, SentFields
      <4>3. QED
        BY <3>2, <4>2 DEF ExchangeOK
    <3>3. CASE ~(declared # Chunked /\ declared > MaxBody)
      <4>1. PICK place \in {"handler", "body"} : s = [r EXCEPT !.at = place]
        BY <3>3
      <4> HIDE DEF s
      <4>2. s \in NodeExchange /\ s.total = 0 /\ s.head = 0 /\ s.at = place
        BY <3>1, <4>1 DEF NodeExchange
      <4>3. QED
        BY <4>2 DEF ExchangeOK
    <3>4. QED
      BY <3>2, <3>3
  <2>3. server = "open" /\ server' = server /\ exchange' = [exchange EXCEPT ![x] = s]
    BY <1>1, <2>1 DEF Arrives
  <2> HIDE DEF s
  <2>4. QED
    BY <2>2, <2>3, NodeChange
<1>2. ASSUME NEW x \in Exchanges, Data(x)
      PROVE  NodeInv'
  <2> DEFINE r == [exchange[x] EXCEPT !.total = @ + 1]
             s == IF r.total > MaxBody THEN [Sent(r, 413) EXCEPT !.link = "cut"] ELSE r
  <2>1. exchange[x] \in NodeExchange /\ ExchangeOK(exchange[x]) /\ exchange[x].at = "body"
    BY <1>2 DEF Data, NodeInv
  <2>2. s \in NodeExchange /\ ExchangeOK(s)
    <3>1. /\ r \in NodeExchange /\ r.total = exchange[x].total + 1 /\ r.head = 0
          /\ r.declared = exchange[x].declared /\ r.at = "body"
      BY <2>1 DEF NodeExchange, ExchangeOK
    <3>2. CASE r.total > MaxBody
      <4>1. Sent(r, 413) \in NodeExchange /\ s = [Sent(r, 413) EXCEPT !.link = "cut"]
        BY <3>1, <3>2, SentFields
      <4>2. s \in NodeExchange /\ s.total = r.total /\ s.head = 413 /\ s.at = "ended"
        BY <3>1, <4>1, SentFields DEF NodeExchange
      <4>3. QED
        BY <3>2, <4>2 DEF ExchangeOK
    <3>3. CASE ~(r.total > MaxBody)
      BY <3>1, <3>3 DEF ExchangeOK, NodeExchange
    <3>4. QED
      BY <3>2, <3>3
  <2>3. server # "closed" /\ server' = server /\ exchange' = [exchange EXCEPT ![x] = s]
    BY <1>2 DEF Data, NodeInv, Busy
  <2> HIDE DEF s
  <2>4. QED
    BY <2>2, <2>3, NodeChange
<1>3. ASSUME NEW x \in Exchanges, DataEnds(x)
      PROVE  NodeInv'
  <2> DEFINE s == [exchange[x] EXCEPT !.at = "handler"]
  <2>1. exchange[x] \in NodeExchange /\ ExchangeOK(exchange[x])
    BY <1>3 DEF NodeInv
  <2>2. s \in NodeExchange /\ ExchangeOK(s)
    BY <1>3, <2>1 DEF DataEnds, NodeExchange, ExchangeOK, Sent
  <2>3. server = "closed" => s.link # "up" \/ s.at = "ended"
    BY <1>3, <2>1 DEF DataEnds, NodeExchange, NodeInv, Busy, Sent
  <2>4. server' = server /\ exchange' = [exchange EXCEPT ![x] = s]
    BY <1>3 DEF DataEnds
  <2> HIDE DEF s
  <2>5. QED
    BY <2>2, <2>3, <2>4, NodeChange
<1>4. ASSUME NEW x \in Exchanges, ClientLeaves(x)
      PROVE  NodeInv'
  <2> DEFINE s == LET r == [exchange[x] EXCEPT !.link = "gone"] IN
                  IF r.at = "body" THEN Sent(r, 500) ELSE r
  <2>1. exchange[x] \in NodeExchange /\ ExchangeOK(exchange[x])
    BY <1>4 DEF NodeInv
  <2>2. s \in NodeExchange /\ ExchangeOK(s)
    <3> DEFINE r == [exchange[x] EXCEPT !.link = "gone"]
    <3>1. /\ r \in NodeExchange /\ r.total = exchange[x].total /\ r.head = exchange[x].head
          /\ r.declared = exchange[x].declared /\ r.at = exchange[x].at
      BY <2>1 DEF NodeExchange
    <3>2. ExchangeOK(r)
      BY <2>1, <3>1 DEF ExchangeOK
    <3>3. Sent(r, 500) \in NodeExchange /\ ExchangeOK(Sent(r, 500))
      BY <3>1, SentFields DEF ExchangeOK
    <3>4. QED
      BY <3>1, <3>2, <3>3
  <2>3. server = "closed" => s.link # "up" \/ s.at = "ended"
    BY <1>4, <2>1 DEF ClientLeaves, NodeExchange, NodeInv, Busy, Sent
  <2>4. server' = server /\ exchange' = [exchange EXCEPT ![x] = s]
    BY <1>4 DEF ClientLeaves
  <2> HIDE DEF s
  <2>5. QED
    BY <2>2, <2>3, <2>4, NodeChange
<1>5. ASSUME NEW x \in Exchanges, HandlerSettles(x)
      PROVE  NodeInv'
  <2>1. exchange[x] \in NodeExchange /\ ExchangeOK(exchange[x]) /\ exchange[x].at = "handler"
    BY <1>5 DEF NodeInv, HandlerSettles
  <2>2. PICK s \in {[Sent(exchange[x], 200) EXCEPT !.at = "ended"], [Sent(exchange[x], 200) EXCEPT !.at = "relay"],
                    Sent(exchange[x], 500)} : exchange' = [exchange EXCEPT ![x] = s]
    BY <1>5 DEF HandlerSettles
  <2>3. s \in NodeExchange /\ ExchangeOK(s) /\ s.link = exchange[x].link
    <3>1. \A place \in {"ended", "relay"} :
            LET t == [Sent(exchange[x], 200) EXCEPT !.at = place]
            IN  t \in NodeExchange /\ t.head = 200 /\ t.total = exchange[x].total /\ t.at = place /\ t.link = exchange[x].link
      BY <2>1, SentFields DEF NodeExchange
    <3>2. s \in NodeExchange /\ s.head \in {200, 500} /\ s.total = exchange[x].total /\ s.link = exchange[x].link
          /\ s.at \in {"ended", "relay"} /\ (s.at = "relay" => s.head = 200)
      <4>1. CASE s = Sent(exchange[x], 500)
        BY <2>1, <4>1, SentFields
      <4>2. CASE \E place \in {"ended", "relay"} : s = [Sent(exchange[x], 200) EXCEPT !.at = place]
        BY <3>1, <4>2
      <4>3. QED
        BY <2>2, <4>1, <4>2
    <3>3. QED
      BY <2>1, <3>2 DEF ExchangeOK
  <2>4. server' = server /\ (server = "closed" => s.link # "up" \/ s.at = "ended")
    BY <1>5, <2>1, <2>3 DEF HandlerSettles, NodeInv, Busy
  <2>5. QED
    BY <2>2, <2>3, <2>4, NodeChange
<1>6. ASSUME NEW x \in Exchanges, RelayEnds(x)
      PROVE  NodeInv'
  <2>1. exchange[x] \in NodeExchange /\ ExchangeOK(exchange[x]) /\ exchange[x].at = "relay"
    BY <1>6 DEF NodeInv, RelayEnds
  <2>2. PICK place \in {"ended", "stuck"} : exchange' = [exchange EXCEPT ![x].at = place]
    BY <1>6 DEF RelayEnds
  <2> DEFINE s == [exchange[x] EXCEPT !.at = place]
  <2>3. s \in NodeExchange /\ ExchangeOK(s)
    BY <2>1 DEF NodeExchange, ExchangeOK
  <2>4. server' = server /\ exchange' = [exchange EXCEPT ![x] = s]
        /\ (server = "closed" => s.link # "up" \/ s.at = "ended")
    BY <1>6, <2>1, <2>2 DEF RelayEnds, NodeInv, Busy, NodeExchange
  <2> HIDE DEF s
  <2>5. QED
    BY <2>3, <2>4, NodeChange
<1>7. CASE NodeShutdown \/ NodeClosed
  BY <1>7 DEF NodeShutdown, NodeClosed, NodeInv, Busy
<1>8. CASE UNCHANGED nodeVars
  BY <1>8 DEF nodeVars, NodeInv, Busy
<1>9. QED
  BY <1>1, <1>2, <1>3, <1>4, <1>5, <1>6, <1>7, <1>8 DEF NodeNext

(* BodiesBounded: Whatever number of connections a server has and however  *)
(* their bodies come, no handler sees one beyond maxBodyBytes, and a       *)
(* shutdown waits for the clients that stay (runtime.node.ts, collectBody  *)
(* and serve).                                                             *)
THEOREM BodiesBounded == NodeSpec => []ServedWithinLimit
<1>1. NodeInv => ServedWithinLimit
  BY DEF NodeInv, ExchangeOK, ServedWithinLimit
<1>2. QED
  BY <1>1, NodeInitInv, NodeNextInv, PTL DEF NodeSpec

-----------------------------------------------------------------------------
(* Signing: the last number the host goes by is that of the message it     *)
(* accepted last.                                                          *)

Verdict == [seq : Nat, valid : BOOLEAN, began : Nat]
Checking == [call : Nat, seq : Nat, began : Nat]

\* The message accepted last.
LastAccepted(a) ==
    /\ a \in DOMAIN verdicts /\ verdicts[a].valid /\ verdicts[a].seq = lastRecvSeq
    /\ \A i \in DOMAIN verdicts : verdicts[i].valid => i <= a

\* A message accepted under a greater number than the last one was so before calls overlapped.
SlippedSince(i) == \E k, l \in i..Len(verdicts) : Slipped(k, l)
LastKept ==
    /\ lastRecvSeq # -1 => \E a \in DOMAIN verdicts : LastAccepted(a)
    /\ lastRecvSeq = -1 => \A i \in DOMAIN verdicts : ~verdicts[i].valid
    /\ \A i \in DOMAIN verdicts : verdicts[i].valid /\ verdicts[i].seq > lastRecvSeq => SlippedSince(i)

\* A call whose number is not later than the last one began before that was accepted.
CallsBegan ==
    \A c \in verifying :
       c.began <= Len(verdicts) /\ (c.seq > lastRecvSeq \/ \E a \in DOMAIN verdicts : LastAccepted(a) /\ c.began < a)

SigningTypeOK ==
    /\ sendSeq \in Nat /\ signing \subseteq Nat /\ channel \in Seq(Nat) /\ arrived \in Nat
    /\ lastRecvSeq \in Nat \cup {-1} /\ verifying \subseteq Checking /\ verdicts \in Seq(Verdict)
SigningInv == SigningTypeOK /\ LastKept /\ CallsBegan /\ AcceptedAscending

\* The next arrival is judged: the earlier verdicts stand.
JudgedAs(n, valid, began) ==
    /\ verdicts' \in Seq(Verdict)
    /\ Len(verdicts) \in Nat /\ DOMAIN verdicts = 1..Len(verdicts) /\ Len(verdicts') = Len(verdicts) + 1
    /\ DOMAIN verdicts' = 1..(Len(verdicts) + 1)
    /\ \A i \in DOMAIN verdicts : verdicts'[i] = verdicts[i]
    /\ verdicts'[Len(verdicts) + 1].seq = n /\ verdicts'[Len(verdicts) + 1].valid = valid
    /\ verdicts'[Len(verdicts) + 1].began = began

\* A verdict is added behind the others.
LEMMA JudgedLast ==
    ASSUME SigningTypeOK, NEW n \in Nat, NEW valid \in BOOLEAN, NEW began \in Nat, Judged(n, valid, began)
    PROVE  JudgedAs(n, valid, began)
<1> DEFINE v == [seq |-> n, valid |-> valid, began |-> began]
<1>1. v \in Verdict /\ v.seq = n /\ v.valid = valid /\ v.began = began
  BY DEF Verdict
<1>2. verdicts \in Seq(Verdict) /\ verdicts' = Append(verdicts, v)
  BY DEF SigningTypeOK, Judged
<1> HIDE DEF v
<1>3. QED
  BY <1>1, <1>2 DEF JudgedAs

\* What slipped in before has slipped in still.
LEMMA SlippedStill ==
    ASSUME NEW n, NEW valid, NEW began, JudgedAs(n, valid, began)
    PROVE  /\ \A k, l \in DOMAIN verdicts : Slipped(k, l) => Slipped(k, l)'
           /\ \A i \in DOMAIN verdicts : \A j \in i..Len(verdicts) :
                 (\E k, l \in i..j : Slipped(k, l)) => \E k, l \in i..j : Slipped(k, l)'
<1>1. ASSUME NEW k \in DOMAIN verdicts, NEW l \in DOMAIN verdicts, Slipped(k, l) PROVE Slipped(k, l)'
  <2>1. verdicts'[k] = verdicts[k] /\ verdicts'[l] = verdicts[l]
    BY DEF JudgedAs
  <2>2. QED
    BY <1>1, <2>1 DEF Slipped
<1>2. ASSUME NEW i \in DOMAIN verdicts, NEW j \in i..Len(verdicts), NEW k \in i..j, NEW l \in i..j, Slipped(k, l)
      PROVE  Slipped(k, l)'
  <2>1. k \in DOMAIN verdicts /\ l \in DOMAIN verdicts
    BY DEF JudgedAs
  <2>2. QED
    BY <1>1, <1>2, <2>1
<1>3. QED
  BY <1>1, <1>2

\* The earlier verdicts stay in order, whatever the next one is.
LEMMA OthersInOrder ==
    ASSUME SigningInv, NEW n, NEW valid, NEW began, JudgedAs(n, valid, began), NEW j \in DOMAIN verdicts
    PROVE  IF verdicts'[j].valid
           THEN \A i \in 1..(j - 1) :
                   verdicts'[i].valid /\ verdicts'[i].seq >= verdicts'[j].seq => \E k, l \in i..j : Slipped(k, l)'
           ELSE \E i \in 1..(j - 1) : verdicts'[i].valid /\ verdicts'[i].seq >= verdicts'[j].seq
<1>1. /\ verdicts'[j] = verdicts[j] /\ j \in 1..Len(verdicts) /\ Len(verdicts) \in Nat
      /\ \A i \in 1..(j - 1) : i \in DOMAIN verdicts /\ j \in i..Len(verdicts) /\ verdicts'[i] = verdicts[i]
  BY DEF JudgedAs
<1>2. IF verdicts[j].valid
      THEN \A i \in 1..(j - 1) :
              verdicts[i].valid /\ verdicts[i].seq >= verdicts[j].seq => \E k, l \in i..j : Slipped(k, l)
      ELSE \E i \in 1..(j - 1) : verdicts[i].valid /\ verdicts[i].seq >= verdicts[j].seq
  BY DEF SigningInv, AcceptedAscending
<1>3. ASSUME NEW i \in 1..(j - 1), \E k, l \in i..j : Slipped(k, l) PROVE \E k, l \in i..j : Slipped(k, l)'
  BY <1>1, <1>3, SlippedStill
<1>4. QED
  BY <1>1, <1>2, <1>3

\* A message that is refused came behind a later one that was accepted.
LEMMA RefusedInOrder ==
    ASSUME SigningInv, NEW n \in Nat, NEW began, JudgedAs(n, FALSE, began), n <= lastRecvSeq, UNCHANGED <<lastRecvSeq, verifying>>
    PROVE  LastKept' /\ CallsBegan' /\ AcceptedAscending'
<1> DEFINE new == Len(verdicts) + 1
<1>1. /\ new \in DOMAIN verdicts' /\ verdicts'[new].seq = n /\ ~verdicts'[new].valid /\ Len(verdicts) \in Nat
      /\ \A i \in DOMAIN verdicts' : i # new => i \in DOMAIN verdicts /\ verdicts'[i] = verdicts[i]
      /\ \A i \in DOMAIN verdicts : i \in 1..(new - 1) /\ i \in DOMAIN verdicts' /\ i \in Nat /\ i # new
      /\ Len(verdicts') = new
  BY DEF JudgedAs
<1>2. lastRecvSeq \in Nat /\ lastRecvSeq # -1
  BY DEF SigningInv, SigningTypeOK
<1>3. PICK a \in DOMAIN verdicts : LastAccepted(a)
  BY <1>2 DEF SigningInv, LastKept
<1> HIDE DEF new
<1>4. ASSUME NEW b \in DOMAIN verdicts, LastAccepted(b) PROVE LastAccepted(b)' /\ b \in DOMAIN verdicts'
  BY <1>1, <1>4 DEF LastAccepted
<1>5. ASSUME NEW i \in DOMAIN verdicts', verdicts'[i].valid, verdicts'[i].seq > lastRecvSeq
      PROVE  SlippedSince(i)'
  <2>1. i \in DOMAIN verdicts /\ verdicts'[i] = verdicts[i] /\ Len(verdicts) \in i..Len(verdicts)
    BY <1>1, <1>5 DEF JudgedAs
  <2>2. \E k, l \in i..Len(verdicts) : Slipped(k, l)
    BY <1>5, <2>1 DEF SigningInv, LastKept, SlippedSince
  <2>3. \E k, l \in i..Len(verdicts) : Slipped(k, l)'
    BY <2>1, <2>2, SlippedStill
  <2>4. \A k \in i..Len(verdicts) : k \in i..Len(verdicts')
    BY <1>1 DEF new
  <2>5. QED
    BY <2>3, <2>4 DEF SlippedSince
<1>6. LastKept'
  BY <1>2, <1>3, <1>4, <1>5 DEF LastKept
<1>7. CallsBegan'
  <2>1. ASSUME NEW c \in verifying
        PROVE  c.began <= Len(verdicts') /\ (c.seq > lastRecvSeq \/ \E b \in DOMAIN verdicts' : LastAccepted(b)' /\ c.began < b)
    <3>1. c.began <= Len(verdicts) /\ c.began \in Nat
      BY DEF SigningInv, SigningTypeOK, CallsBegan, Checking
    <3>2. c.seq > lastRecvSeq \/ \E b \in DOMAIN verdicts : LastAccepted(b) /\ c.began < b
      BY DEF SigningInv, CallsBegan
    <3>3. c.began <= Len(verdicts')
      BY <1>1, <3>1 DEF new
    <3>4. QED
      BY <1>4, <3>2, <3>3
  <2>2. QED
    BY <2>1 DEF CallsBegan
<1>8. AcceptedAscending'
  <2>1. verdicts[a].valid /\ verdicts[a].seq >= n /\ a \in 1..(new - 1) /\ verdicts'[a] = verdicts[a]
    BY <1>1, <1>2, <1>3 DEF LastAccepted, JudgedAs
  <2>2. ~verdicts'[new].valid /\ \E i \in 1..(new - 1) : verdicts'[i].valid /\ verdicts'[i].seq >= verdicts'[new].seq
    BY <1>1, <2>1
  <2>3. QED
    BY <1>1, <2>2, OthersInOrder DEF AcceptedAscending
<1>9. QED
  BY <1>6, <1>7, <1>8

\* A message accepted behind a later one, or again, has slipped in by a call that overlapped.
LEMMA AcceptedInOrder ==
    ASSUME SigningInv, NEW c \in verifying, JudgedAs(c.seq, TRUE, c.began), lastRecvSeq' = c.seq, verifying' = verifying \ {c}
    PROVE  LastKept' /\ CallsBegan' /\ AcceptedAscending'
<1> DEFINE n == c.seq
<1>1. PICK new \in Nat : new = Len(verdicts) + 1
  BY DEF JudgedAs
<1>2. n \in Nat /\ c.began \in Nat /\ c.began <= Len(verdicts)
  BY DEF SigningInv, SigningTypeOK, CallsBegan, Checking
<1>3. /\ new \in DOMAIN verdicts' /\ verdicts'[new].seq = n /\ verdicts'[new].valid /\ verdicts'[new].began = c.began
      /\ \A i \in DOMAIN verdicts' : i # new => i \in DOMAIN verdicts /\ verdicts'[i] = verdicts[i]
      /\ \A i \in DOMAIN verdicts : i \in DOMAIN verdicts' /\ verdicts'[i] = verdicts[i] /\ i \in Nat /\ i < new /\ i <= Len(verdicts)
      /\ Len(verdicts') = new /\ Len(verdicts) \in Nat
  BY <1>1 DEF JudgedAs
<1>4. \A i \in DOMAIN verdicts : verdicts[i].seq \in Nat
  <2>1. \A i \in DOMAIN verdicts : verdicts[i] \in Verdict
    BY DEF SigningInv, SigningTypeOK
  <2>2. QED
    BY <2>1 DEF Verdict
<1>5. ASSUME NEW i \in DOMAIN verdicts, verdicts[i].valid, verdicts[i].seq >= n
      PROVE  \E k, l \in i..new : Slipped(k, l)'
  <2>1. CASE verdicts[i].seq > lastRecvSeq
    <3>1. \E k, l \in i..Len(verdicts) : Slipped(k, l)
      BY <1>5, <2>1 DEF SigningInv, LastKept, SlippedSince
    <3>2. Len(verdicts) \in i..Len(verdicts) /\ \A k \in i..Len(verdicts) : k \in i..new
      BY <1>3
    <3>3. \E k, l \in i..Len(verdicts) : Slipped(k, l)'
      BY <3>1, <3>2, SlippedStill
    <3>4. QED
      BY <3>2, <3>3
  <2>2. CASE ~(verdicts[i].seq > lastRecvSeq)
    <3>1. lastRecvSeq \in Nat /\ lastRecvSeq >= n
      BY <1>2, <1>4, <1>5, <2>2 DEF SigningInv, SigningTypeOK
    <3>2. PICK a \in DOMAIN verdicts : LastAccepted(a) /\ c.began < a
      BY <1>2, <3>1 DEF SigningInv, CallsBegan
    <3>3. a \in i..new /\ new \in i..new /\ a < new /\ verdicts'[a].valid /\ verdicts'[a].seq >= n
      BY <1>3, <1>5, <3>1, <3>2 DEF LastAccepted
    <3>4. Slipped(a, new)'
      BY <1>3, <3>2, <3>3 DEF Slipped
    <3>5. QED
      BY <3>3, <3>4
  <2>3. QED
    BY <2>1, <2>2
<1>6. LastAccepted(new)'
  BY <1>3 DEF LastAccepted
<1>7. LastKept'
  <2>1. ASSUME NEW i \in DOMAIN verdicts', verdicts'[i].valid, verdicts'[i].seq > n
        PROVE  SlippedSince(i)'
    <3>1. i \in DOMAIN verdicts /\ verdicts'[i] = verdicts[i] /\ verdicts[i].seq >= n
      BY <1>2, <1>3, <1>4, <2>1
    <3>2. QED
      BY <1>3, <1>5, <2>1, <3>1 DEF SlippedSince
  <2>2. lastRecvSeq' # -1 /\ \E a \in DOMAIN verdicts' : LastAccepted(a)'
    BY <1>2, <1>3, <1>6
  <2>3. QED
    BY <2>1, <2>2 DEF LastKept
<1>8. CallsBegan'
  <2>1. ASSUME NEW d \in verifying PROVE d.began <= Len(verdicts') /\ d.began < new
    <3>1. d.began <= Len(verdicts) /\ d.began \in Nat
      BY DEF SigningInv, SigningTypeOK, CallsBegan, Checking
    <3>2. QED
      BY <1>3, <1>1, <3>1
  <2>2. QED
    BY <1>3, <1>6, <2>1 DEF CallsBegan
<1>9. AcceptedAscending'
  <2>1. ASSUME NEW i \in 1..(new - 1), verdicts'[i].valid, verdicts'[i].seq >= n
        PROVE  \E k, l \in i..new : Slipped(k, l)'
    <3>1. i \in DOMAIN verdicts /\ verdicts'[i] = verdicts[i]
      BY <1>3, <1>1 DEF JudgedAs
    <3>2. QED
      BY <1>5, <2>1, <3>1
  <2>2. QED
    BY <1>3, <2>1, OthersInOrder DEF AcceptedAscending
<1>10. QED
  BY <1>7, <1>8, <1>9

\* What arrives, and what is on its way, leaves the verdicts alone.
LEMMA VerdictsKept ==
    ASSUME SigningInv, UNCHANGED <<lastRecvSeq, verdicts>>
    PROVE  LastKept' /\ AcceptedAscending' /\ (UNCHANGED verifying => CallsBegan')
<1>1. \A a : LastAccepted(a)' <=> LastAccepted(a)
  BY DEF LastAccepted
<1>2. \A k, l : Slipped(k, l)' <=> Slipped(k, l)
  BY DEF Slipped
<1>3. QED
  BY <1>1, <1>2 DEF SigningInv, LastKept, SlippedSince, AcceptedAscending, CallsBegan

\* Every step of the channel keeps the last number that of the message accepted last.
LEMMA SigningNextInv == SigningInv /\ [SigningNext]_signVars => SigningInv'
<1> SUFFICES ASSUME SigningInv, [SigningNext]_signVars PROVE SigningInv'
  OBVIOUS
<1>1. CASE SignMessage
  BY <1>1, VerdictsKept DEF SignMessage, SigningInv, SigningTypeOK
<1>2. CASE Signed
  <2>1. PICK n \in signing : channel' = Append(channel, n) /\ signing' = signing \ {n}
    BY <1>2 DEF Signed
  <2>2. UNCHANGED <<sendSeq, arrived, verifying, lastRecvSeq, verdicts>>
    BY <1>2 DEF Signed
  <2>3. QED
    BY <2>1, <2>2, VerdictsKept DEF SigningInv, SigningTypeOK
<1>3. CASE Repeated
  <2>1. PICK n \in ToSet(channel) \cup {v.seq : v \in ToSet(verdicts)} : channel' = Append(channel, n)
    BY <1>3 DEF Repeated
  <2>2. n \in Nat
    <3>1. ASSUME NEW v \in ToSet(verdicts)
          PROVE  v.seq \in Nat
      <4>1. v \in Verdict
        BY DEF SigningInv, SigningTypeOK, ToSet
      <4>2. QED
        BY <4>1 DEF Verdict
    <3>2. \A m \in ToSet(channel) : m \in Nat
      BY DEF SigningInv, SigningTypeOK, ToSet
    <3>3. QED
      BY <3>1, <3>2
  <2>3. UNCHANGED <<sendSeq, signing, arrived, verifying, lastRecvSeq, verdicts>>
    BY <1>3 DEF Repeated
  <2>4. QED
    BY <2>1, <2>2, <2>3, VerdictsKept DEF SigningInv, SigningTypeOK
<1>4. CASE Verify
  <2>1. /\ Head(channel) \in Nat /\ channel' \in Seq(Nat) /\ arrived' \in Nat /\ Len(verdicts) \in Nat /\ arrived \in Nat
        /\ UNCHANGED <<sendSeq, signing, lastRecvSeq>>
    BY <1>4 DEF Verify, SigningInv, SigningTypeOK
  <2>2. CASE Head(channel) <= lastRecvSeq
    <3>1. Judged(Head(channel), FALSE, Len(verdicts)) /\ UNCHANGED verifying
      BY <1>4, <2>2 DEF Verify
    <3>2. JudgedAs(Head(channel), FALSE, Len(verdicts))
      BY <2>1, <3>1, JudgedLast DEF SigningInv
    <3>3. LastKept' /\ CallsBegan' /\ AcceptedAscending'
      BY <2>1, <2>2, <3>1, <3>2, RefusedInOrder
    <3>4. QED
      BY <2>1, <3>1, <3>2, <3>3 DEF SigningInv, SigningTypeOK, JudgedAs
  <2>3. CASE ~(Head(channel) <= lastRecvSeq)
    <3> DEFINE c == Call(Head(channel))
    <3>1. verifying' = verifying \cup {c} /\ UNCHANGED <<verdicts, lastRecvSeq>>
      BY <1>4, <2>3 DEF Verify
    <3>2. c \in Checking /\ c.seq = Head(channel) /\ c.began = Len(verdicts)
      BY <2>1 DEF Call, Checking
    <3>3. LastKept' /\ AcceptedAscending'
      BY <3>1, VerdictsKept
    <3>4. c.began <= Len(verdicts) /\ c.seq > lastRecvSeq
      BY <2>1, <2>3, <3>2 DEF SigningInv, SigningTypeOK
    <3> HIDE DEF c
    <3>5. CallsBegan'
      <4>1. \A a : LastAccepted(a)' <=> LastAccepted(a)
        BY <3>1 DEF LastAccepted
      <4>2. QED
        BY <3>1, <3>4, <4>1 DEF SigningInv, CallsBegan
    <3>6. QED
      BY <2>1, <3>1, <3>2, <3>3, <3>5 DEF SigningInv, SigningTypeOK
  <2>4. QED
    BY <2>2, <2>3
<1>5. CASE SignatureHolds
  <2>1. PICK c \in verifying : lastRecvSeq' = c.seq /\ Judged(c.seq, TRUE, c.began) /\ verifying' = verifying \ {c}
    BY <1>5 DEF SignatureHolds
  <2>2. UNCHANGED <<sendSeq, signing, channel, arrived>>
    BY <1>5 DEF SignatureHolds
  <2>3. c.seq \in Nat /\ c.began \in Nat
    BY DEF SigningInv, SigningTypeOK, Checking
  <2>4. JudgedAs(c.seq, TRUE, c.began)
    BY <2>1, <2>3, JudgedLast DEF SigningInv
  <2>5. LastKept' /\ CallsBegan' /\ AcceptedAscending'
    BY <2>1, <2>4, AcceptedInOrder
  <2>6. QED
    BY <2>1, <2>2, <2>3, <2>4, <2>5 DEF SigningInv, SigningTypeOK, JudgedAs
<1>6. CASE Reset
  BY <1>6 DEF Reset, SigningInv, SigningTypeOK, LastKept, CallsBegan, AcceptedAscending
<1>7. CASE UNCHANGED signVars
  BY <1>7, VerdictsKept DEF signVars, SigningInv, SigningTypeOK
<1>8. QED
  BY <1>1, <1>2, <1>3, <1>4, <1>5, <1>6, <1>7 DEF SigningNext

(* ChannelInOrder: Whatever order the signatures end in, there and here,   *)
(* and however often a message is repeated, the host accepts ascending     *)
(* numbers but where calls of verify() overlapped, and refuses none        *)
(* without a later one before it (message-signer.ts).                      *)
THEOREM ChannelInOrder == SigningSpec => []AcceptedAscending
<1>1. SigningInit => SigningInv
  BY DEF SigningInit, SigningInv, SigningTypeOK, LastKept, CallsBegan, AcceptedAscending
<1>2. SigningInv => AcceptedAscending
  BY DEF SigningInv
<1>3. QED
  BY <1>1, <1>2, SigningNextInv, PTL DEF SigningSpec

-----------------------------------------------------------------------------
(* HttpSurface: how far a request has come says which gates it passed.     *)

Methods == {"none", "plain", "resources/read", "subscriptions/listen", "tools/call", "tasks/get", "tasks/update", "tasks/cancel"}
Post ==
    [token : Callers \cup {"none", "invalid", "nosub"}, id : BOOLEAN, retried : BOOLEAN, named : BOOLEAN,
     capabilities : CapabilitySets \cup {{}}, method : Methods, task : TaskIds \cup {Nobody}, valid : BOOLEAN]
Config ==
    [auth : BOOLEAN, tasks : BOOLEAN, hook : BOOLEAN, stdio : {FALSE}]
    \cup {[auth |-> FALSE, tasks |-> FALSE, hook |-> FALSE, stdio |-> TRUE]}

Gates == {"limit", "body", "auth", "envelope"}
Inside == {"dispatch", "resource", "digest", "call", "seal", "owner", "task"}

\* The caller is known and the headers mirror the body: what the gates see to.
Standing ==
    /\ config.auth => post.token \in Callers \cup {"nosub"}
    /\ post.id /\ ~config.stdio => post.named

\* What is known of a request at each await.
Underway ==
    /\ at \in Gates \cup {"dispatch", "resource", "owner", "task"} => ~config.stdio
    /\ at = "envelope" => (config.auth => post.token \in Callers \cup {"nosub"})
    /\ at \in Inside => Standing
    /\ at \in Gates \cup {"dispatch", "digest", "call", "task"} => effects = {}
    /\ at = "resource" => effects = {"read"}
    /\ at \in {"seal", "owner"} => effects = {"handler"}
    /\ at \in {"owner", "task"} => config.tasks /\ "tasks" \in post.capabilities /\ ~NoPrincipal
    /\ at \notin {"resource", "done"} => ~post.retried
    /\ at # "done" => answer = NoAnswer

SurfaceInv ==
    /\ at \in Gates \cup Inside \cup {"done"} /\ post \in Post /\ config \in Config
    /\ Underway /\ NoEffectUnentitled /\ AnswerTellsAll /\ AsksWhatClientCan

\* What an answer says.
LEMMA AnswerFields ==
    ASSUME NEW status, NEW kind
    PROVE  /\ Answer(status, kind).kind = kind /\ Answer(status, kind).asks = << >>
           /\ Answer(status, kind).hints = FALSE
BY DEF Answer, NoAnswer

\* An answer that tells of no effect ends a request whose effects are none, or a handler's.
LEMMA Answered ==
    ASSUME SurfaceInv, config' = config, post' \in Post, at' = "done",
           post'.token = post.token, post'.id = post.id, post'.named = post.named, post'.retried = post.retried,
           NEW status, NEW kind, kind \notin {"task", "input_required"}, answer' = Answer(status, kind),
           effects' = {} \/ (at \in Inside /\ effects' \subseteq {"handler", "read"})
    PROVE  SurfaceInv'
<1>1. /\ answer'.kind = kind /\ answer'.asks = << >> /\ answer'.hints = FALSE
  BY AnswerFields
<1>2. NoEffectUnentitled'
  BY DEF SurfaceInv, Underway, Standing, NoEffectUnentitled
<1>3. AnswerTellsAll'
  BY <1>1 DEF AnswerTellsAll
<1>4. QED
  BY <1>1, <1>2, <1>3 DEF SurfaceInv, Underway, AsksWhatClientCan, Gates, Inside

\* A request that has no answer yet goes on.
LEMMA Onward ==
    ASSUME SurfaceInv, config' = config, post' \in Post, answer' = NoAnswer, at' \in Gates \cup Inside,
           Underway', NoEffectUnentitled'
    PROVE  SurfaceInv'
BY DEF SurfaceInv, Gates, Inside, AnswerTellsAll, AsksWhatClientCan, NoAnswer

\* The gates before dispatch let a request through only with what they ask for.
LEMMA GatesInv ==
    ASSUME SurfaceInv, Limit \/ Body \/ Authenticate \/ Envelope
    PROVE  SurfaceInv'
<1>1. CASE Limit
  <2>1. CASE Done(Answer(429, "RateLimited"))
    BY <1>1, <2>1, Answered DEF Limit, Done, Same, SurfaceInv, Underway, Gates, Inside
  <2>2. CASE Goes("body")
    BY <1>1, <2>2 DEF Limit, Goes, Same, SurfaceInv, Underway, Gates, Inside, NoEffectUnentitled, AnswerTellsAll, AsksWhatClientCan
  <2>3. QED
    BY <1>1, <2>1, <2>2 DEF Limit
<1>2. CASE Body
  <2>1. ASSUME NEW status, NEW kind \in {"BodyTooLarge", "ParseError"}, Done(Answer(status, kind)), UNCHANGED post
        PROVE  SurfaceInv'
    BY <1>2, <2>1, Answered DEF Body, Done, Same, SurfaceInv, Underway, Gates, Inside
  <2>2. ASSUME NEW id \in BOOLEAN, Goes("auth"), post' = [post EXCEPT !.id = id]
        PROVE  SurfaceInv'
    <3>1. post' \in Post /\ ~post'.retried
      BY <1>2, <2>2 DEF SurfaceInv, Post, Underway, Body
    <3>2. at = "body" /\ at' = "auth" /\ answer' = NoAnswer /\ config' = config /\ effects' = {} /\ ~config.stdio
      BY <1>2, <2>2 DEF Body, Goes, Same, SurfaceInv, Underway, Gates
    <3>3. Underway' /\ NoEffectUnentitled'
      BY <3>1, <3>2 DEF Underway, NoEffectUnentitled, Gates, Inside
    <3>4. QED
      BY <3>1, <3>2, <3>3, Onward DEF Gates
  <2>3. QED
    BY <1>2, <2>1, <2>2 DEF Body
<1>3. CASE Authenticate
  <2>1. ASSUME Done(Answer(200, "ParseError")), UNCHANGED post
        PROVE  SurfaceInv'
    BY <1>3, <2>1, Answered DEF Authenticate, Done, Same, SurfaceInv, Underway, Gates, Inside
  <2>2. ASSUME NEW token \in IF config.auth THEN {"none", "invalid", "nosub"} \cup Callers ELSE {"none"},
               post' = [post EXCEPT !.token = token],
               IF config.auth /\ token \in {"none", "invalid"} THEN Done(Answer(401, "Unauthorized")) ELSE Goes("envelope")
        PROVE  SurfaceInv'
    <3>1. /\ post' \in Post /\ ~post'.retried /\ post'.token = token
          /\ post'.id = post.id /\ post'.named = post.named /\ at = "auth" /\ effects' = {} /\ config' = config
          /\ ~config.stdio /\ answer = NoAnswer
      BY <1>3, <2>2 DEF SurfaceInv, Post, Underway, Authenticate, Gates, Same
    <3>2. CASE config.auth /\ token \in {"none", "invalid"}
      <4>1. at' = "done" /\ answer' = Answer(401, "Unauthorized")
        BY <2>2, <3>2 DEF Done
      <4>2. answer'.kind = "Unauthorized" /\ answer'.asks = << >> /\ answer'.hints = FALSE
        BY <4>1 DEF Answer, NoAnswer
      <4>3. QED
        BY <3>1, <4>1, <4>2 DEF SurfaceInv, Underway, Gates, Inside, NoEffectUnentitled, AnswerTellsAll, AsksWhatClientCan
    <3>3. CASE ~(config.auth /\ token \in {"none", "invalid"})
      <4>1. at' = "envelope" /\ answer' = answer
        BY <2>2, <3>3 DEF Goes
      <4>2. config.auth => token \in Callers \cup {"nosub"}
        BY <2>2, <3>3
      <4>3. QED
        BY <3>1, <4>1, <4>2 DEF SurfaceInv, Underway, Gates, Inside, NoEffectUnentitled, AnswerTellsAll, AsksWhatClientCan, NoAnswer
    <3>4. QED
      BY <3>2, <3>3
  <2>3. QED
    BY <1>3, <2>1, <2>2 DEF Authenticate
<1>4. CASE Envelope
  <2>1. PICK e \in Envelopes :
         IF EnvelopeFault(e) # "none"
         THEN Done(Answer(400, EnvelopeFault(e))) /\ UNCHANGED post
         ELSE \E declared \in CapabilitySets :
                Goes("dispatch") /\ post' = [post EXCEPT !.capabilities = declared, !.named = e.headers]
    BY <1>4 DEF Envelope
  <2>2. CASE EnvelopeFault(e) # "none"
    <3>1. EnvelopeFault(e) \notin {"task", "input_required"}
      BY DEF EnvelopeFault
    <3>2. QED
      BY <1>4, <2>1, <2>2, <3>1, Answered DEF Envelope, Done, Same, SurfaceInv, Underway, Gates, Inside
  <2>3. CASE EnvelopeFault(e) = "none"
    <3>1. PICK declared \in CapabilitySets : Goes("dispatch") /\ post' = [post EXCEPT !.capabilities = declared, !.named = e.headers]
      BY <2>1, <2>3
    <3>2. /\ post' \in Post /\ post'.token = post.token /\ post'.id = post.id /\ post'.named = e.headers
          /\ post'.retried = post.retried
      <4> DEFINE p == [post EXCEPT !.capabilities = declared]
      <4>1. p \in Post
        BY DEF SurfaceInv, Post, Methods
      <4>2. e.headers \in BOOLEAN
        BY DEF Envelopes
      <4>3. post' = [p EXCEPT !.named = e.headers]
        BY <3>1, Zenon
      <4>4. post' \in Post
        <5> HIDE DEF p
        <5> QED BY <4>1, <4>2, <4>3 DEF Post
      <4>5. QED
        BY <3>1, <4>4 DEF SurfaceInv, Post, Methods
    <3>3. post.id => e.headers
      BY <2>3 DEF EnvelopeFault
    <3>4. /\ at' = "dispatch" /\ answer' = NoAnswer /\ config' = config /\ effects' = {} /\ ~config.stdio
          /\ ~post.retried /\ (config.auth => post.token \in Callers \cup {"nosub"})
      BY <1>4, <3>1 DEF Envelope, Goes, Same, SurfaceInv, Underway, Gates
    <3>5. post'.id => post'.named
      BY <3>2, <3>3
    <3>6. Standing'
      BY <3>2, <3>4, <3>5 DEF Standing
    <3>7. Underway' /\ NoEffectUnentitled'
      BY <3>2, <3>4, <3>6 DEF Underway, NoEffectUnentitled, Gates, Inside
    <3>8. QED
      BY <3>2, <3>4, <3>7, Onward DEF Inside
  <2>4. QED
    BY <2>2, <2>3
<1>5. QED
  BY <1>1, <1>2, <1>3, <1>4

\* What is known at an await behind the gates.
LEMMA WhereInside ==
    ASSUME SurfaceInv, at \in Inside
    PROVE  /\ Standing /\ post \in Post /\ config \in Config
           /\ at \in {"dispatch", "digest", "call", "task"} => effects = {}
           /\ at = "resource" => effects = {"read"}
           /\ at \in {"seal", "owner"} => effects = {"handler"}
           /\ at \in {"dispatch", "resource", "owner", "task"} => ~config.stdio
           /\ at # "resource" => ~post.retried
           /\ answer = NoAnswer
BY DEF SurfaceInv, Underway, Inside, Gates

\* The Tasks extension was declared, when nothing is wrong with a call about tasks.
LEMMA RequireTasksPasses ==
    /\ RequireTasks = NoAnswer => config.tasks /\ "tasks" \in post.capabilities
    /\ RequireTasks # NoAnswer =>
          \E status \in Nat, kind \in {"MethodNotFound", "MissingCapability"} : RequireTasks = Answer(status, kind)
<1>1. NoAnswer.kind = "none" /\ Answer(404, "MethodNotFound").kind = "MethodNotFound"
      /\ Answer(400, "MissingCapability").kind = "MissingCapability"
  BY DEF Answer, NoAnswer
<1>2. QED
  BY <1>1 DEF RequireTasks

\* A method without a handler of its own.
LEMMA PlainInv == ASSUME SurfaceInv, PlainMethod PROVE SurfaceInv'
<1>1. /\ at \in Inside /\ effects' = {} /\ at' = "done" /\ config' = config
      /\ post' = [post EXCEPT !.method = "plain"] /\ ~post.retried
  BY WhereInside DEF PlainMethod, Inside, Done, Same
<1>2. post' \in Post /\ ~post'.retried
  BY <1>1 DEF SurfaceInv, Post, Methods
<1>3. answer'.kind = "result" /\ answer'.asks = << >>
  BY DEF PlainMethod, Done, WithCacheHints, Answer, NoAnswer
<1>4. QED
  BY <1>1, <1>2, <1>3 DEF SurfaceInv, Underway, NoEffectUnentitled, AnswerTellsAll, AsksWhatClientCan, Gates, Inside

\* A method that does not exist.
LEMMA OtherInv == ASSUME SurfaceInv, OtherMethod PROVE SurfaceInv'
<1>1. /\ at \in Inside /\ effects' = {} /\ config' = config /\ post' = post /\ post \in Post
  BY WhereInside DEF OtherMethod, Inside, Same
<1>2. PICK status \in Nat, kind \in {"none", "MethodNotFound", "InvalidRequest"} : at' = "done" /\ answer' = Answer(status, kind)
  BY DEF OtherMethod, Done
<1>3. QED
  BY <1>1, <1>2, Answered

\* resources/read.
LEMMA ReadInv == ASSUME SurfaceInv, ReadResource \/ ResourceRead PROVE SurfaceInv'
<1>1. CASE ReadResource
  <2>1. PICK retried \in BOOLEAN : post' = [post EXCEPT !.method = "resources/read", !.retried = retried]
    BY <1>1 DEF ReadResource
  <2>2. /\ at \in Inside /\ Standing /\ effects = {} /\ config' = config /\ ~config.stdio /\ answer = NoAnswer
    BY <1>1, WhereInside DEF ReadResource, Same, Inside
  <2>3. /\ post' \in Post /\ post'.token = post.token /\ post'.id = post.id /\ post'.named = post.named
        /\ post'.capabilities = post.capabilities
    <3> DEFINE p == [post EXCEPT !.method = "resources/read"]
    <3>1. p \in Post
      BY DEF SurfaceInv, Post, Methods
    <3>2. post' = [p EXCEPT !.retried = retried]
      BY <2>1, Zenon
    <3>3. post' \in Post
      <4> HIDE DEF p
      <4> QED BY <3>1, <3>2 DEF Post
    <3>4. QED
      BY <2>1, <3>3 DEF SurfaceInv, Post, Methods
  <2>4. Standing'
    BY <2>2, <2>3 DEF Standing
  <2>5. CASE at' = "done"
    <3>0. effects' = {}
      BY <1>1, <2>2, <2>5 DEF ReadResource
    <3>1. answer'.kind = "InvalidParams" /\ answer'.hints = FALSE
      BY <1>1, <2>5 DEF ReadResource, Done, Goes, Answer, NoAnswer
    <3>2. QED
      BY <2>2, <2>3, <2>5, <3>0, <3>1 DEF SurfaceInv, Underway, NoEffectUnentitled, AnswerTellsAll, AsksWhatClientCan, Gates, Inside
  <2>6. CASE at' = "resource"
    <3>1. effects' = {"read"} /\ answer' = NoAnswer
      BY <1>1, <2>2, <2>6 DEF ReadResource, Done, Goes
    <3>2. Underway' /\ NoEffectUnentitled'
      BY <2>2, <2>4, <2>6, <3>1 DEF Underway, NoEffectUnentitled, Standing, Gates, Inside
    <3>3. QED
      BY <2>2, <2>3, <2>6, <3>1, <3>2, Onward DEF Inside
  <2>7. QED
    BY <1>1, <2>5, <2>6 DEF ReadResource, Done, Goes
<1>2. CASE ResourceRead
  <2>1. /\ at \in Inside /\ Standing /\ effects' = {"read"} /\ config' = config /\ ~config.stdio /\ at' = "done"
        /\ post' = post /\ post \in Post
    BY <1>2, WhereInside DEF ResourceRead, Done, Same, Inside
  <2>2. CASE Done(Answer(200, "InternalError"))
    BY <2>1, <2>2, Answered DEF Done
  <2>3. CASE Done(WithCacheHints(Answer(200, "result"), post.retried))
    <3>1. answer'.kind = "result" /\ answer'.hints = ~post.retried
      BY <2>3 DEF Done, WithCacheHints, Answer, NoAnswer
    <3>2. Standing'
      BY <2>1 DEF Standing
    <3>3. NoEffectUnentitled'
      BY <2>1, <3>2 DEF NoEffectUnentitled, Standing
    <3>4. AnswerTellsAll'
      BY <2>1, <3>1 DEF AnswerTellsAll
    <3>5. QED
      BY <2>1, <3>1, <3>3, <3>4 DEF SurfaceInv, Underway, AsksWhatClientCan, Gates, Inside
  <2>4. QED
    BY <1>2, <2>2, <2>3 DEF ResourceRead
<1>3. QED
  BY <1>1, <1>2

\* subscriptions/listen.
LEMMA ListensInv == ASSUME SurfaceInv, Listens PROVE SurfaceInv'
<1>1. PICK filter \in {"malformed", "lists", "taskIds"} :
         IF ListenFault(filter) # NoAnswer THEN Done(ListenFault(filter)) /\ UNCHANGED effects
         ELSE Done(Answer(200, "stream")) /\ effects' = effects \cup {IF filter = "taskIds" THEN "task stream" ELSE "stream"}
  BY DEF Listens
<1>2. /\ at \in Inside /\ Standing /\ effects = {} /\ config' = config /\ ~config.stdio /\ at' = "done" /\ config \in Config
      /\ post' = [post EXCEPT !.method = "subscriptions/listen"]
  BY WhereInside DEF Listens, Done, Same, Inside
<1>3. /\ post' \in Post /\ post'.token = post.token /\ post'.id = post.id /\ post'.named = post.named
      /\ post'.capabilities = post.capabilities /\ post'.retried = post.retried
  BY <1>2 DEF SurfaceInv, Post, Methods
<1>4. CASE ListenFault(filter) # NoAnswer
  <2>1. \E status \in Nat, kind \in {"InvalidParams", "MethodNotFound", "MissingCapability"} :
           ListenFault(filter) = Answer(status, kind)
    BY <1>4 DEF ListenFault, RequireTasks
  <2>2. QED
    BY <1>1, <1>2, <1>3, <1>4, <2>1, Answered DEF Done
<1>5. CASE ListenFault(filter) = NoAnswer
  <2>1. answer'.kind = "stream" /\ answer'.hints = FALSE
    BY <1>1, <1>5 DEF Done, Answer, NoAnswer
  <2>2. PICK e \in {"task stream", "stream"} : effects' = {e} /\ (e = "task stream" => filter = "taskIds")
    BY <1>1, <1>2, <1>5
  <2>3. filter = "taskIds" => "tasks" \in post.capabilities
    BY <1>5, RequireTasksPasses DEF ListenFault, Answer, NoAnswer
  <2>4. Standing'
    BY <1>2, <1>3 DEF Standing
  <2>5. NoEffectUnentitled'
    BY <1>3, <2>2, <2>3, <2>4 DEF NoEffectUnentitled, Standing
  <2>6. AnswerTellsAll'
    BY <2>1, <2>2 DEF AnswerTellsAll
  <2>7. QED
    BY <1>2, <1>3, <2>1, <2>5, <2>6 DEF SurfaceInv, Underway, AsksWhatClientCan, Gates, Inside
<1>6. QED
  BY <1>4, <1>5

\* tools/call, before the tool runs.
LEMMA CallToolInv == ASSUME SurfaceInv, CallTool PROVE SurfaceInv'
<1>1. /\ at \in Inside /\ Standing /\ effects' = {} /\ config' = config /\ ~config.stdio /\ ~post.retried
      /\ answer = NoAnswer /\ post' = [post EXCEPT !.method = "tools/call"]
  BY WhereInside DEF CallTool, Same, Inside
<1>2. /\ post' \in Post /\ post'.token = post.token /\ post'.id = post.id /\ post'.named = post.named
      /\ post'.retried = post.retried
  BY <1>1 DEF SurfaceInv, Post, Methods
<1>3. CASE Done(Answer(400, "InvalidParams"))
  BY <1>1, <1>2, <1>3, Answered DEF Done
<1>4. CASE Goes("digest")
  <2>1. at' = "digest" /\ answer' = NoAnswer
    BY <1>1, <1>4 DEF Goes
  <2>2. Standing'
    BY <1>1, <1>2 DEF Standing
  <2>3. Underway' /\ NoEffectUnentitled'
    BY <1>1, <1>2, <2>1, <2>2 DEF Underway, NoEffectUnentitled, Gates, Inside
  <2>4. QED
    BY <1>1, <1>2, <2>1, <2>3, Onward DEF Inside
<1>5. QED
  BY <1>3, <1>4 DEF CallTool

\* A retry that comes with the state of an earlier round.
LEMMA RetriedInv == ASSUME SurfaceInv, Retried PROVE SurfaceInv'
<1>1. /\ at \in Inside /\ Standing /\ effects' = {} /\ config' = config /\ ~post.retried /\ answer = NoAnswer
      /\ post \in Post
  BY WhereInside DEF Retried, Same, Inside
<1>2. /\ post' \in Post /\ post'.token = post.token /\ post'.id = post.id /\ post'.named = post.named
      /\ post'.retried = post.retried
  <2>1. CASE config.stdio
    <3>1. PICK declared \in CapabilitySets : post' = [post EXCEPT !.method = "tools/call", !.capabilities = declared]
      BY <2>1 DEF Retried, StdioCall
    <3> DEFINE p == [post EXCEPT !.method = "tools/call"]
    <3>2. p \in Post
      BY <1>1 DEF Post, Methods
    <3>3. post' = [p EXCEPT !.capabilities = declared]
      BY <3>1, Zenon
    <3>4. post' \in Post
      <4> HIDE DEF p
      <4> QED BY <3>2, <3>3 DEF Post
    <3>5. QED
      BY <1>1, <3>1, <3>4 DEF Post
  <2>2. CASE ~config.stdio
    BY <1>1, <2>2 DEF Retried
  <2>3. QED
    BY <2>1, <2>2
<1>3. PICK r \in Retries, key \in KeyStates, store \in Stores :
         LET fault == IF config.stdio THEN StdioRetryFault(r, key, store) ELSE HttpRetryFault(r, key, store) IN
         IF fault = "none" THEN Goes("call") ELSE Done(Answer(IF fault = "InternalError" THEN 500 ELSE 400, fault))
  BY DEF Retried
<1> DEFINE fault == IF config.stdio THEN StdioRetryFault(r, key, store) ELSE HttpRetryFault(r, key, store)
<1>4. fault \in {"none", "InvalidParams", "InternalError"}
  BY DEF StdioRetryFault, HttpRetryFault, GuardFault
<1>5. (fault = "none" /\ Goes("call")) \/ (fault # "none" /\ \E status \in Nat : Done(Answer(status, fault)))
  BY <1>3
<1> HIDE DEF fault
<1>6. CASE fault # "none"
  <2>1. PICK status \in Nat : at' = "done" /\ answer' = Answer(status, fault)
    BY <1>5, <1>6 DEF Done
  <2>2. QED
    BY <1>1, <1>2, <1>4, <2>1, Answered
<1>7. CASE fault = "none"
  <2>1. at' = "call" /\ answer' = NoAnswer
    BY <1>1, <1>5, <1>7 DEF Goes
  <2>2. Standing'
    BY <1>1, <1>2 DEF Standing
  <2>3. Underway' /\ NoEffectUnentitled'
    BY <1>1, <1>2, <2>1, <2>2 DEF Underway, NoEffectUnentitled, Gates, Inside
  <2>4. QED
    BY <1>1, <1>2, <2>1, <2>3, Onward DEF Inside
<1>8. QED
  BY <1>6, <1>7

\* A tool's error is answered, and tells of no task.
LEMMA ToolErrorAnswers ==
    ASSUME NEW error \in ToolErrors, NEW reply \in ToolErrorReplies(error)
    PROVE  \E status \in Nat, kind \in {"Unauthorized", "Forbidden", "isError", "InternalError", "InvalidParams", "RateLimited"} :
              reply = Answer(status, kind)
<1>1. reply \in {Answer(401, "Unauthorized"), Answer(403, "Forbidden"), Answer(200, "isError"), Answer(200, "InternalError"),
                 Answer(200, "InvalidParams"), Answer(200, "RateLimited")}
  BY DEF ToolErrorReplies
<1>2. QED
  BY <1>1

\* A tool that answers, fails or asks for input.
LEMMA ToolInv == ASSUME SurfaceInv, ToolFails \/ ToolReturns \/ ToolAsks PROVE SurfaceInv'
<1>1. /\ at \in Inside /\ Standing /\ effects = {} /\ config' = config /\ ~post.retried /\ answer = NoAnswer
      /\ post \in Post /\ post' = post
  BY WhereInside DEF ToolFails, ToolReturns, ToolAsks, Same, Inside
<1>2. effects' = {} \/ effects' = {"handler"}
  BY <1>1 DEF ToolFails, ToolReturns, ToolAsks
<1>3. ASSUME NEW status \in Nat,
             NEW kind \in {"Unauthorized", "Forbidden", "isError", "InternalError", "InvalidParams", "RateLimited", "result"},
             Done(Answer(status, kind))
      PROVE  SurfaceInv'
  BY <1>1, <1>2, <1>3, Answered DEF Done
<1>4. CASE ToolFails
  BY <1>3, <1>4, ToolErrorAnswers DEF ToolFails
<1>5. CASE ToolReturns
  <2>1. PICK reply \in ToolErrorReplies("other") \cup {Answer(200, "result")} : Done(reply)
    BY <1>5 DEF ToolReturns
  <2>2. CASE reply = Answer(200, "result")
    BY <1>3, <2>1, <2>2
  <2>3. CASE reply \in ToolErrorReplies("other")
    <3>1. "other" \in ToolErrors
      BY DEF ToolErrors
    <3>2. QED
      BY <1>3, <2>1, <2>3, <3>1, ToolErrorAnswers
  <2>4. QED
    BY <2>2, <2>3
<1>6. CASE ToolAsks
  <2>1. CASE Done(Answer(500, "InternalError"))
    BY <1>3, <2>1
  <2>2. CASE Goes("seal")
    <3>1. at' = "seal" /\ answer' = NoAnswer /\ effects' = {"handler"}
      BY <1>1, <1>6, <2>2 DEF Goes, ToolAsks
    <3>2. Underway' /\ NoEffectUnentitled'
      BY <1>1, <3>1 DEF Underway, NoEffectUnentitled, Standing, Gates, Inside
    <3>3. QED
      BY <1>1, <3>1, <3>2, Onward DEF Inside
  <2>3. QED
    BY <1>6, <2>1, <2>2 DEF ToolAsks
<1>7. QED
  BY <1>4, <1>5, <1>6

\* What is sent was asked for in order and within what the client declared.
LEMMA BuiltAsksAllowed ==
    ASSUME NEW signal, NEW capabilities, NEW key
    PROVE  LET built == BuildInputRequired(signal, capabilities, key) IN
           /\ built.kind \in {"InternalError", "MissingCapability", "input_required"}
           /\ built.kind = "input_required" =>
                /\ built.asks # << >> \/ built.state
                /\ \A i \in DOMAIN built.asks :
                     /\ ~Malformed(built.asks[i]) /\ ~MissesPart(built.asks[i], capabilities)
                     /\ CapabilityOf(built.asks[i].method) \in capabilities
<1> DEFINE asks == IF signal.entries = << >> THEN << >> ELSE Wires(signal.entries)
           built == BuildInputRequired(signal, capabilities, key)
<1>1. \A problem \in {"InternalError", "MissingCapability"} : Refused(problem).kind = problem
  BY DEF Refused
<1>2. CASE built = Refused("InternalError") \/ built = Refused("MissingCapability")
  BY <1>1, <1>2
<1>3. CASE ~(built = Refused("InternalError") \/ built = Refused("MissingCapability"))
  <2>1. /\ built = [kind |-> "input_required", asks |-> asks, state |-> key = "set" \/ signal.state]
        /\ signal.entries # << >> \/ signal.state
        /\ signal.entries # << >> => asks # << >> /\ signal.map # "cyclic"
               /\ CheckInputRequestCapabilities(asks, capabilities) \notin {"malformed", "missing"}
    BY <1>3 DEF BuildInputRequired
  <2>2. built.kind = "input_required" /\ built.asks = asks /\ (signal.state => built.state)
    <3>1. built.kind = "input_required" /\ built.asks = asks
      BY <2>1
    <3>2. built.state = (key = "set" \/ signal.state)
      <4> HIDE DEF built, asks
      <4> QED BY <2>1, Zenon
    <3>3. QED
      BY <3>1, <3>2
  <2>3. CASE signal.entries = << >>
    BY <2>1, <2>2, <2>3
  <2>4. CASE signal.entries # << >>
    <3>1. ASSUME NEW i \in DOMAIN asks
          PROVE  EntryVerdict(asks[i], capabilities) = "ok" /\ CapabilityOf(asks[i].method) \in capabilities
      <4> HIDE DEF asks
      <4>1. CheckInputRequestCapabilities(asks, capabilities) = "ok"
        BY <2>1, <2>4 DEF CheckInputRequestCapabilities
      <4>2. QED
        BY <4>1 DEF CheckInputRequestCapabilities
    <3>2. \A i \in DOMAIN asks : ~Malformed(asks[i]) /\ ~MissesPart(asks[i], capabilities)
      <4> HIDE DEF asks
      <4>1. QED
        BY <3>1 DEF EntryVerdict
    <3>3. QED
      BY <2>1, <2>2, <2>4, <3>1, <3>2
  <2>5. QED
    BY <2>3, <2>4
<1>4. QED
  BY <1>2, <1>3

\* What a tool asks for, sealed for the next round.
LEMMA SealedInv == ASSUME SurfaceInv, Sealed PROVE SurfaceInv'
<1>1. /\ at \in Inside /\ Standing /\ effects' = {"handler"} /\ config' = config /\ at' = "done"
      /\ post \in Post /\ post' = post
  BY WhereInside DEF Sealed, Same, Inside, Done
<1>2. PICK signal \in Signals, key \in KeyStates :
         LET built == BuildInputRequired(signal, post.capabilities, key)
             status == IF built.kind = "input_required" THEN 200 ELSE IF built.kind = "InternalError" THEN 500 ELSE 400
         IN  answer' = [Answer(status, built.kind) EXCEPT !.asks = built.asks, !.state = built.state]
  BY DEF Sealed, Done
<1> DEFINE built == BuildInputRequired(signal, post.capabilities, key)
<1> HIDE DEF built
<1>3. answer'.kind = built.kind /\ answer'.asks = built.asks /\ answer'.state = built.state /\ answer'.hints = FALSE
  BY <1>2 DEF Answer, NoAnswer, built
<1>4. /\ built.kind \in {"InternalError", "MissingCapability", "input_required"}
      /\ built.kind = "input_required" =>
            /\ built.asks # << >> \/ built.state
            /\ \A i \in DOMAIN built.asks :
                 /\ ~Malformed(built.asks[i]) /\ ~MissesPart(built.asks[i], post.capabilities)
                 /\ CapabilityOf(built.asks[i].method) \in post.capabilities
  BY BuiltAsksAllowed DEF built
<1>5. AsksWhatClientCan'
  BY <1>1, <1>3, <1>4 DEF AsksWhatClientCan
<1>6. NoEffectUnentitled' /\ AnswerTellsAll'
  BY <1>1, <1>3, <1>4 DEF NoEffectUnentitled, Standing, AnswerTellsAll
<1>7. QED
  BY <1>1, <1>5, <1>6 DEF SurfaceInv, Underway, Gates, Inside

\* A tool that defers its work to a task.
LEMMA DefersInv == ASSUME SurfaceInv, ToolDefers PROVE SurfaceInv'
<1>1. /\ at \in Inside /\ Standing /\ effects' = {"handler"} /\ config' = config /\ ~post.retried /\ answer = NoAnswer
      /\ post \in Post /\ post' = post /\ config \in Config
  BY WhereInside DEF ToolDefers, Same, Inside
<1>2. ASSUME NEW status \in Nat, NEW kind \in {"result", "MethodNotFound", "MissingCapability", "Stopping", "InternalError"},
             Done(Answer(status, kind))
      PROVE  SurfaceInv'
  BY <1>1, <1>2, Answered DEF Done
<1>3. CASE at' = "done"
  <2>1. \/ Done(Answer(200, "result")) \/ Done(Answer(503, "Stopping")) \/ Done(Answer(500, "InternalError"))
        \/ RequireTasks # NoAnswer /\ Done(RequireTasks)
    BY <1>3 DEF ToolDefers, Stopping, Goes
  <2>2. QED
    BY <1>2, <2>1, RequireTasksPasses
<1>4. CASE at' = "owner"
  <2>1. /\ ~config.stdio /\ RequireTasks = NoAnswer /\ ~NoPrincipal /\ answer' = NoAnswer
    BY <1>1, <1>4 DEF ToolDefers, Done, Goes
  <2>2. config.tasks /\ "tasks" \in post.capabilities
    BY <2>1, RequireTasksPasses
  <2>3. ~NoPrincipal' /\ Standing'
    BY <1>1, <2>1 DEF NoPrincipal, Principal, Standing
  <2>4. Underway' /\ NoEffectUnentitled'
    BY <1>1, <1>4, <2>1, <2>2, <2>3 DEF Underway, NoEffectUnentitled, Standing, Gates, Inside
  <2>5. QED
    BY <1>1, <1>4, <2>1, <2>4, Onward DEF Inside
<1>5. QED
  BY <1>3, <1>4 DEF ToolDefers, Done, Goes

\* A request about tasks that is under way was let in for them.
LEMMA WhereTasks ==
    ASSUME SurfaceInv, at \in {"owner", "task"}
    PROVE  config.tasks /\ "tasks" \in post.capabilities /\ ~NoPrincipal
BY DEF SurfaceInv, Underway

\* The task that a call becomes.
LEMMA SpawnedInv == ASSUME SurfaceInv, Spawned PROVE SurfaceInv'
<1>1. /\ at \in Inside /\ Standing /\ effects = {"handler"} /\ config' = config /\ ~config.stdio
      /\ post \in Post /\ post' = post /\ at' = "done"
      /\ config.tasks /\ "tasks" \in post.capabilities /\ ~NoPrincipal
  BY WhereInside, WhereTasks DEF Spawned, Same, Inside, Done
<1>2. ASSUME NEW status \in Nat, NEW kind \in {"Stopping", "Unauthorized", "Forbidden", "isError", "InternalError", "InvalidParams", "RateLimited"},
             Done(Answer(status, kind)), effects' = effects
      PROVE  SurfaceInv'
  BY <1>1, <1>2, Answered DEF Done
<1>3. ASSUME effects' = effects \cup {"task"}, Done(Answer(200, "task"))
      PROVE  SurfaceInv'
  <2>1. answer'.kind = "task" /\ answer'.hints = FALSE
    BY <1>3 DEF Done, Answer, NoAnswer
  <2>2. ~NoPrincipal' /\ Standing'
    BY <1>1 DEF NoPrincipal, Principal, Standing
  <2>3. NoEffectUnentitled'
    BY <1>1, <2>2 DEF NoEffectUnentitled, Standing
  <2>4. AnswerTellsAll'
    BY <1>1, <1>3, <2>1 DEF AnswerTellsAll
  <2>5. QED
    BY <1>1, <2>1, <2>3, <2>4 DEF SurfaceInv, Underway, AsksWhatClientCan, Gates, Inside
<1>4. \/ Done(Answer(500, "InternalError")) /\ effects' = effects
      \/ Done(Answer(503, "Stopping")) /\ effects' = effects
      \/ (\E error \in ToolErrors : \E reply \in ToolErrorReplies(error) : Done(reply)) /\ effects' = effects
      \/ Done(Answer(200, "task")) /\ effects' = effects \cup {"task"}
  BY DEF Spawned, Stopping
<1>5. ASSUME NEW error \in ToolErrors, NEW reply \in ToolErrorReplies(error), Done(reply), effects' = effects
      PROVE  SurfaceInv'
  BY <1>2, <1>5, ToolErrorAnswers
<1>6. QED
  BY <1>2, <1>3, <1>4, <1>5

\* tasks/get, tasks/update and tasks/cancel, before the store is asked.
LEMMA TaskCallInv == ASSUME SurfaceInv, TaskCall PROVE SurfaceInv'
<1>1. PICK method \in {"tasks/get", "tasks/update", "tasks/cancel"}, t \in TaskIds \cup {Nobody}, valid \in BOOLEAN :
         /\ post' = [post EXCEPT !.method = method, !.task = t, !.valid = valid]
         /\ IF ~post.id THEN Done(Answer(400, "InvalidParams"))
            ELSE IF RequireTasks # NoAnswer THEN Done(RequireTasks)
            ELSE IF t = Nobody THEN Done(Answer(400, "InvalidParams"))
            ELSE IF NoPrincipal THEN Done(Answer(500, "InternalError"))
            ELSE Goes("task")
  BY DEF TaskCall
<1>2. /\ at \in Inside /\ Standing /\ effects' = {} /\ config' = config /\ ~config.stdio /\ ~post.retried
      /\ answer = NoAnswer /\ post \in Post
  BY WhereInside DEF TaskCall, Same, Inside
<1>3. /\ post' \in Post /\ post'.token = post.token /\ post'.id = post.id /\ post'.named = post.named
      /\ post'.retried = post.retried /\ post'.capabilities = post.capabilities
  <2> DEFINE p == [post EXCEPT !.method = method]
             q == [p EXCEPT !.task = t]
  <2>1. p \in Post
    BY <1>2 DEF Post, Methods
  <2>2. q \in Post
    <3> HIDE DEF p
    <3> QED BY <2>1 DEF Post
  <2>3. post' = [q EXCEPT !.valid = valid]
    BY <1>1, Zenon
  <2>4. post' \in Post
    <3> HIDE DEF q
    <3> QED BY <2>2, <2>3 DEF Post
  <2>5. QED
    BY <1>1, <1>2, <2>4 DEF Post
<1>4. ASSUME NEW status \in Nat, NEW kind \in {"InvalidParams", "MethodNotFound", "MissingCapability", "InternalError"},
             Done(Answer(status, kind))
      PROVE  SurfaceInv'
  BY <1>2, <1>3, <1>4, Answered DEF Done
<1>5. CASE at' = "task"
  <2>1. /\ RequireTasks = NoAnswer /\ ~NoPrincipal /\ answer' = NoAnswer
    BY <1>1, <1>2, <1>5 DEF Done, Goes
  <2>2. config.tasks /\ "tasks" \in post.capabilities
    BY <2>1, RequireTasksPasses
  <2>3. ~NoPrincipal' /\ Standing'
    BY <1>2, <1>3, <2>1 DEF NoPrincipal, Principal, Standing
  <2>4. Underway' /\ NoEffectUnentitled'
    BY <1>2, <1>3, <1>5, <2>1, <2>2, <2>3 DEF Underway, NoEffectUnentitled, Gates, Inside
  <2>5. QED
    BY <1>2, <1>3, <1>5, <2>1, <2>4, Onward DEF Inside
<1>6. CASE at' = "done"
  <2>1. \/ Done(Answer(400, "InvalidParams")) \/ Done(Answer(500, "InternalError"))
        \/ RequireTasks # NoAnswer /\ Done(RequireTasks)
    BY <1>1, <1>6 DEF Goes
  <2>2. QED
    BY <1>4, <2>1, RequireTasksPasses
<1>7. QED
  BY <1>1, <1>5, <1>6 DEF Done, Goes

\* The store's answer to them.
LEMMA TaskAnsweredInv == ASSUME SurfaceInv, TaskAnswered PROVE SurfaceInv'
<1>1. /\ at \in Inside /\ Standing /\ effects = {} /\ config' = config /\ ~config.stdio
      /\ post \in Post /\ post' = post /\ at' = "done"
      /\ config.tasks /\ "tasks" \in post.capabilities /\ ~NoPrincipal
  BY WhereInside, WhereTasks DEF TaskAnswered, Same, Inside, Done
<1>2. PICK key \in OwnerKey :
         IF key = Nobody THEN Done(Answer(500, "InternalError")) /\ UNCHANGED effects
         ELSE LET reply == TaskReply(owners, post.method, post.task, key, post.valid) IN
              /\ Done(reply)
              /\ effects' = IF reply.kind = "result" THEN effects \cup {post.method} ELSE effects
  BY DEF TaskAnswered
<1>3. ASSUME NEW status \in Nat, NEW kind \in {"InvalidParams", "InternalError"}, Done(Answer(status, kind)), effects' = effects
      PROVE  SurfaceInv'
  BY <1>1, <1>3, Answered DEF Done
<1>4. ASSUME Done(Answer(200, "result")), effects' = effects \cup {post.method}
      PROVE  SurfaceInv'
  <2>1. answer'.kind = "result" /\ answer'.hints = FALSE
    BY <1>4 DEF Done, Answer, NoAnswer
  <2>2. ~NoPrincipal' /\ Standing'
    BY <1>1 DEF NoPrincipal, Principal, Standing
  <2>3. NoEffectUnentitled'
    BY <1>1, <2>2 DEF NoEffectUnentitled, Standing
  <2>4. post.method # "task"
    BY <1>1 DEF Post, Methods
  <2>5. AnswerTellsAll'
    BY <1>1, <1>4, <2>1, <2>4 DEF AnswerTellsAll
  <2>6. QED
    BY <1>1, <2>1, <2>3, <2>5 DEF SurfaceInv, Underway, AsksWhatClientCan, Gates, Inside
<1>5. CASE key = Nobody
  BY <1>2, <1>3, <1>5
<1>6. CASE key # Nobody
  <2>1. Answer(200, "result").kind = "result" /\ \A status \in Nat : Answer(status, "InvalidParams").kind = "InvalidParams"
    BY AnswerFields DEF Answer, NoAnswer
  <2>2. QED
    BY <1>2, <1>3, <1>4, <1>6, <2>1 DEF TaskReply
<1>7. QED
  BY <1>5, <1>6

\* By stdio there is no authentication.
LEMMA StdioOpen == ASSUME config \in Config, config.stdio PROVE ~config.auth
<1>1. CASE config \in [auth : BOOLEAN, tasks : BOOLEAN, hook : BOOLEAN, stdio : {FALSE}]
  <2>1. config.stdio = FALSE
    BY <1>1
  <2>2. QED
    BY <2>1
<1>2. CASE config = [auth |-> FALSE, tasks |-> FALSE, hook |-> FALSE, stdio |-> TRUE]
  BY <1>2
<1>3. QED
  BY <1>1, <1>2 DEF Config

\* A request begins with nothing established.
LEMMA SurfaceInitInv == SurfaceInit => SurfaceInv
<1> SUFFICES ASSUME SurfaceInit PROVE SurfaceInv
  OBVIOUS
<1>1. Unknown \in Post /\ ~Unknown.retried /\ ~Unknown.id
  BY DEF Unknown, Post, Methods
<1>2. config \in Config /\ effects = {} /\ answer = NoAnswer /\ post = Unknown
      /\ (IF config.stdio THEN at = "digest" ELSE at = "limit")
  BY DEF SurfaceInit, Config
<1>3. config.stdio => ~config.auth
  BY <1>2, StdioOpen
<1>4. QED
  BY <1>1, <1>2, <1>3 DEF SurfaceInv, Underway, Standing, Gates, Inside, NoEffectUnentitled, AnswerTellsAll, AsksWhatClientCan, NoAnswer

\* Every step of a request keeps what its place says was established.
LEMMA SurfaceNextInv == SurfaceInv /\ [SurfaceNext]_surfaceVars => SurfaceInv'
<1> SUFFICES ASSUME SurfaceInv, [SurfaceNext]_surfaceVars PROVE SurfaceInv'
  OBVIOUS
<1>1. CASE Stops \/ Evicted \/ UNCHANGED surfaceVars
  <2>1. UNCHANGED <<config, at, post, answer, effects>>
    BY <1>1 DEF Stops, Evicted, surfaceVars
  <2>2. (Standing <=> Standing') /\ (NoPrincipal <=> NoPrincipal')
    BY <2>1 DEF Standing, NoPrincipal, Principal
  <2>3. Underway'
    BY <2>1, <2>2 DEF SurfaceInv, Underway
  <2>4. NoEffectUnentitled'
    BY <2>1, <2>2 DEF SurfaceInv, NoEffectUnentitled
  <2>5. AnswerTellsAll' /\ AsksWhatClientCan'
    BY <2>1 DEF SurfaceInv, AnswerTellsAll, AsksWhatClientCan
  <2>6. QED
    BY <2>1, <2>3, <2>4, <2>5 DEF SurfaceInv
<1>2. CASE NextPost
  <2>1. Unknown \in Post /\ ~Unknown.retried /\ ~Unknown.id
    BY DEF Unknown, Post, Methods
  <2>2. config' = config /\ config \in Config /\ effects' = {} /\ answer' = NoAnswer /\ post' = Unknown
        /\ (IF config.stdio THEN at' = "digest" ELSE at' = "limit")
    BY <1>2 DEF NextPost, SurfaceInv
  <2>3. config.stdio => ~config.auth
    BY <2>2, StdioOpen
  <2>4. QED
    BY <2>1, <2>2, <2>3 DEF SurfaceInv, Underway, Standing, Gates, Inside, NoEffectUnentitled, AnswerTellsAll, AsksWhatClientCan, NoAnswer
<1>3. QED
  BY <1>1, <1>2, GatesInv, PlainInv, OtherInv, ReadInv, ListensInv, CallToolInv, RetriedInv, ToolInv, SealedInv, DefersInv, SpawnedInv,
     TaskCallInv, TaskAnsweredInv DEF SurfaceNext

\* What is known of a request at the task methods keeps other callers' tasks from it.
LEMMA TasksOfOthersUnseen == ForeignLikeUnknown
<1> SUFFICES ASSUME NEW key \in Callers \cup OwnerKeys \cup {NoAuth}, NEW t \in TaskIds, NEW valid \in BOOLEAN,
                    NEW method \in {"tasks/get", "tasks/update", "tasks/cancel"}
             PROVE  LET own == [u \in TaskIds |-> IF owners[u] = key THEN key ELSE Nobody]
                    IN  TaskReply(owners, method, t, key, valid) = TaskReply(own, method, t, key, valid)
  BY DEF ForeignLikeUnknown
<1>1. QED
  BY SurfaceAssumption DEF TaskReply

\* The transports open a sealed state alike, and fail alike.
LEMMA TransportsOpenAlike == TransportsAgree
<1> SUFFICES ASSUME NEW r \in Retries, NEW key \in KeyStates, NEW store \in Stores
             PROVE  /\ ~config.auth /\ r.answers \in {"none", "bare"} =>
                         StdioRetryFault(r, key, store) = HttpRetryFault(r, key, store)
                    /\ key # "none" /\ (r.answers # "none" \/ r.state # "none") =>
                         \A fault \in {StdioRetryFault(r, key, store), HttpRetryFault(r, key, store)} :
                             fault = "none" => r.state = "good" /\ key = "set" /\ store = "works"
  BY DEF TransportsAgree
<1>1. r.answers \in {"none", "bare", "wrapped", "no object"} /\ r.state \in {"none", "good", "bad", "used"}
  BY DEF Retries
<1>2. ~config.auth => Principal # "nosub"
  BY DEF Principal, NoAuth
<1>3. QED
  BY <1>1, <1>2 DEF StdioRetryFault, HttpRetryFault, KeyFails, GuardFault, KeyStates, Stores

(* SurfaceEntitled: For every configuration, caller and message, a handler *)
(* runs only for a request that passed each gate before it, and a task     *)
(* shows only to its owner (mcp-app.ts, handleHttpPost to the task         *)
(* methods).                                                               *)
THEOREM SurfaceEntitled == SurfaceSpec => []EntitledOnly
<1>1. SurfaceInv => EntitledOnly
  BY TasksOfOthersUnseen DEF SurfaceInv, EntitledOnly
<1>2. QED
  BY <1>1, SurfaceInitInv, SurfaceNextInv, PTL DEF SurfaceSpec

(* SurfaceHonest: For every configuration, caller and message, the answer  *)
(* names what really stopped the request (mcp-app.ts).                     *)
THEOREM SurfaceHonest == SurfaceSpec => []AnswersHonest
<1>1. SurfaceInv => AnswersHonest
  BY TransportsOpenAlike DEF SurfaceInv, AnswersHonest
<1>2. QED
  BY <1>1, SurfaceInitInv, SurfaceNextInv, PTL DEF SurfaceSpec

-----------------------------------------------------------------------------
(* Auth: what is known of a token, from whom and since when.               *)

Places == {"idle", "hashing", "verifying", "piped", "auditing", "tenanted", "ran", "answered"}
Info ==
    [subject : Tokens \cup {NoToken}, scopes : {Granted[t] : t \in Tokens} \cup {{}},
     tenant : {TenantOf[t] : t \in Tokens} \cup {Untenanted}]
Replies ==
    [error : {"none", "missing_token", "invalid_token", "misconfigured", "insufficient_scope"}, scopes : SUBSET Required]
AuthCall ==
    [at : Places, token : Tokens \cup {NoToken}, stdio : BOOLEAN, info : Info, since : Nat, audited : {"no", "yes", "threw"},
     answer : Replies]
CacheEntry == [token : Tokens, info : Info, expiresAt : Nat]

\* An entry says what was verified, and lasts no longer than that may be trusted.
EntryOK(e) ==
    /\ e.info = InfoOf(e.token)
    /\ e.expiresAt <= authNow + CacheTtl
    /\ e.expiresAt <= withdrawn[Signer[e.token]] + TrustTime
    /\ Expiry[e.token] = NoExpiry \/ e.expiresAt <= Expiry[e.token]

\* A call that was admitted was so in time, with what is known of its token.
AdmittedOK(call) ==
    call.info # NoInfo =>
        /\ guarded /\ ~call.stdio /\ call.token \in Tokens
        /\ call.info.subject = call.token /\ call.info.scopes = Granted[call.token]
        /\ call.since <= authNow /\ call.since < Expiry[call.token]
        /\ call.since < withdrawn[Signer[call.token]] + TrustTime

\* How far a call over HTTP has come says what was looked at.
CallOK(call) ==
    /\ call.at \in {"idle", "hashing", "verifying"} => call.info = NoInfo /\ ~call.stdio
    /\ call.at \in {"hashing", "verifying"} => guarded /\ call.token \in Tokens
    /\ call.at \in {"idle", "hashing", "verifying", "piped", "auditing"} => call.audited = "no"
    /\ call.at \in {"piped", "auditing", "tenanted", "ran"} /\ ~call.stdio /\ guarded => call.info # NoInfo
    /\ call.at = "auditing" => tenanted /\ call.info # NoInfo /\ TenantOf[call.token] \in NoTenant
    /\ call.at \in {"tenanted", "ran"} /\ tenanted /\ ~call.stdio =>
          call.info # NoInfo /\ TenantOf[call.token] \notin NoTenant /\ call.info.tenant = TenantOf[call.token]
    /\ call.at = "ran" /\ ~call.stdio /\ Required # {} => guarded /\ Required \subseteq Granted[call.token]
    /\ tenanted /\ call.at = "answered" /\ call.info # NoInfo /\ TenantOf[call.token] \in NoTenant =>
          call.answer = Reply("invalid_token", {}) /\ (Hook => call.audited # "no")
    /\ call.audited # "no" => TenantOf[call.token] \in NoTenant

AuthTypeOK ==
    /\ authNow \in 0..MaxTime /\ guarded \in BOOLEAN /\ tenanted \in BOOLEAN
    /\ withdrawn \in [Keys -> Nat]
    /\ keySet \in [keys : SUBSET Keys, freshUntil : Nat, restUntil : Nat]
    /\ keyFetch \in [at : {"none", "asked", "answered"}, keys : SUBSET Keys, until : Nat]
    /\ tokenCache \in Seq(CacheEntry)
    /\ authCalls \in [Requests -> AuthCall]

KeysOK == \A k \in Keys : withdrawn[k] <= authNow \/ withdrawn[k] = NoExpiry

\* No key is held, or on its way, for longer than that may take after it was withdrawn.
KeySetOK ==
    /\ keySet.freshUntil <= authNow + KeySetAge
    /\ \A k \in keySet.keys : keySet.freshUntil <= withdrawn[k] + KeyTimeout + KeySetAge
    /\ keyFetch.at # "none" => authNow <= keyFetch.until /\ keyFetch.until <= authNow + KeyTimeout
    /\ keyFetch.at = "answered" => \A k \in keyFetch.keys : keyFetch.until <= withdrawn[k] + KeyTimeout
OnePerToken(cache) == \A i, j \in DOMAIN cache : cache[i].token = cache[j].token => i = j
CacheOK ==
    /\ \A i \in DOMAIN tokenCache : EntryOK(tokenCache[i])
    /\ Len(tokenCache) <= MaxCacheSize
    /\ OnePerToken(tokenCache)
CallsOK == \A r \in Requests : AdmittedOK(authCalls[r]) /\ CallOK(authCalls[r])
AuthInv == AuthTypeOK /\ KeysOK /\ KeySetOK /\ CacheOK /\ CallsOK

----------------------------------------------------------------------------
\* The times that the keys are held for, and waited for.
LEMMA TrustTimes ==
    /\ KeySetAge \in Nat /\ KeyRest \in Nat /\ KeyTimeout \in Nat /\ MaxTime \in Nat /\ CacheTtl \in Nat
    /\ TrustTime = KeyTimeout + KeySetAge + CacheTtl /\ TrustTime \in Nat
<1>1. KeySetAge \in Nat /\ KeyRest \in Nat /\ KeyTimeout \in Nat /\ MaxTime \in Nat /\ CacheTtl \in Nat
  BY AuthAssumption
<1>2. QED
  BY <1>1 DEF TrustTime

\* What is known of the times, and of the keys, before a step.
LEMMA KeysBefore ==
    ASSUME AuthInv
    PROVE  /\ authNow \in Nat /\ withdrawn \in [Keys -> Nat] /\ KeySetOK
           /\ keySet.keys \in SUBSET Keys /\ keySet.freshUntil \in Nat /\ keySet.restUntil \in Nat
           /\ keyFetch.at \in {"none", "asked", "answered"} /\ keyFetch.keys \in SUBSET Keys /\ keyFetch.until \in Nat
BY TrustTimes DEF AuthInv, AuthTypeOK

\* One call changes to one that is in order; the keys and the clock stay.
LEMMA CallChange ==
    ASSUME AuthInv, NEW r \in Requests, NEW call \in AuthCall, authCalls' = [authCalls EXCEPT ![r] = call],
           UNCHANGED <<authNow, withdrawn, keySet, keyFetch, guarded, tenanted>>, AdmittedOK(call), CallOK(call)
    PROVE  CallsOK' /\ authCalls' \in [Requests -> AuthCall] /\ KeySetOK' /\ UNCHANGED <<keySet, keyFetch>>
<1>1. \A q \in Requests : AdmittedOK(authCalls'[q]) /\ CallOK(authCalls'[q])
  BY DEF AuthInv, AuthTypeOK, CallsOK
<1>2. authCalls' \in [Requests -> AuthCall]
  BY DEF AuthInv, AuthTypeOK
<1>3. ASSUME NEW q \in Requests PROVE AdmittedOK(authCalls[q])' /\ CallOK(authCalls[q])'
  BY <1>1 DEF AdmittedOK, CallOK
<1>4. KeySetOK' /\ UNCHANGED <<keySet, keyFetch>>
  BY DEF AuthInv, KeySetOK
<1>5. QED
  BY <1>2, <1>3, <1>4 DEF CallsOK

\* A step that leaves the calls and the cache alone keeps what is known of them as time goes on.
LEMMA CacheKept == ASSUME AuthInv, UNCHANGED <<authNow, withdrawn, tokenCache, guarded, tenanted>>
                   PROVE  /\ CacheOK' /\ KeysOK' /\ tokenCache' \in Seq(CacheEntry)
                          /\ authNow' \in 0..MaxTime /\ guarded' \in BOOLEAN /\ tenanted' \in BOOLEAN /\ withdrawn' \in [Keys -> Nat]
<1>1. KeysOK' /\ authNow' \in 0..MaxTime /\ guarded' \in BOOLEAN /\ tenanted' \in BOOLEAN /\ withdrawn' \in [Keys -> Nat]
  BY DEF AuthInv, AuthTypeOK, KeysOK
<1>2. CacheOK' /\ tokenCache' \in Seq(CacheEntry)
  BY DEF AuthInv, AuthTypeOK, CacheOK, OnePerToken, EntryOK
<1>3. QED
  BY <1>1, <1>2

\* A middleware begins with an empty cache and no call.
LEMMA AuthInitInv == AuthInit => AuthInv
<1> SUFFICES ASSUME AuthInit PROVE AuthInv
  OBVIOUS
<1>1. NewCall \in AuthCall /\ NewCall.at = "idle" /\ NewCall.info = NoInfo /\ NewCall.stdio = FALSE /\ NewCall.audited = "no"
  BY DEF NewCall, AuthCall, Places, Info, NoInfo, Replies, Reply
<1>2. AuthTypeOK
  BY <1>1, TrustTimes, AuthAssumption DEF AuthInit, AuthTypeOK, NoFetch
<1>3. KeysOK /\ CacheOK
  BY AuthAssumption DEF AuthInit, KeysOK, CacheOK, OnePerToken
<1>4. KeySetOK
  BY TrustTimes DEF AuthInit, KeySetOK, NoFetch
<1>5. CallsOK
  BY <1>1 DEF AuthInit, CallsOK, AdmittedOK, CallOK
<1>6. QED
  BY <1>2, <1>3, <1>4, <1>5 DEF AuthInv

\* Time passes.
LEMMA TickInv == ASSUME AuthInv, Tick PROVE AuthInv'
<1>1. /\ authNow' = authNow + 1 /\ authNow' \in 0..MaxTime
      /\ UNCHANGED <<withdrawn, keySet, keyFetch, tokenCache, authCalls, guarded, tenanted>>
  BY TrustTimes DEF AuthInv, AuthTypeOK, Tick
<1>2. AuthTypeOK'
  BY <1>1 DEF AuthInv, AuthTypeOK
<1>3. KeysOK'
  BY <1>1 DEF AuthInv, AuthTypeOK, KeysOK
<1>4. CacheOK'
  <2>1. ASSUME NEW i \in DOMAIN tokenCache PROVE EntryOK(tokenCache[i])'
    <3>1. EntryOK(tokenCache[i]) /\ tokenCache[i].expiresAt \in Nat
      <4>1. tokenCache[i] \in CacheEntry
        BY DEF AuthInv, AuthTypeOK
      <4>2. QED
        BY <4>1 DEF AuthInv, CacheOK, CacheEntry
    <3>2. QED
      BY <1>1, <3>1, AuthAssumption DEF EntryOK, AuthInv, AuthTypeOK
  <2>2. QED
    BY <1>1, <2>1 DEF AuthInv, CacheOK
<1>5. CallsOK'
  <2>1. ASSUME NEW r \in Requests PROVE AdmittedOK(authCalls[r])' /\ CallOK(authCalls[r])'
    <3>1. AdmittedOK(authCalls[r]) /\ CallOK(authCalls[r]) /\ authCalls[r].since \in Nat
      <4>1. authCalls[r] \in AuthCall
        BY DEF AuthInv, AuthTypeOK
      <4>2. QED
        BY <4>1 DEF AuthInv, CallsOK, AuthCall
    <3>2. AdmittedOK(authCalls[r])'
      BY <1>1, <3>1 DEF AdmittedOK, AuthInv, AuthTypeOK
    <3>3. CallOK(authCalls[r])'
      BY <1>1, <3>1 DEF CallOK
    <3>4. QED
      BY <3>2, <3>3
  <2>2. QED
    BY <2>1 DEF CallsOK
<1>6. KeySetOK'
  <2>1. keyFetch.at # "none" => authNow < keyFetch.until
    BY DEF Tick
  <2>2. QED
    BY <1>1, <2>1, KeysBefore, TrustTimes DEF KeySetOK
<1>7. QED
  BY <1>2, <1>3, <1>4, <1>5, <1>6 DEF AuthInv

\* A key is withdrawn now.
LEMMA WithdrawInv == ASSUME AuthInv, NEW k \in Keys, Withdraw(k) PROVE AuthInv'
<1>1. withdrawn' = [withdrawn EXCEPT ![k] = authNow] /\ UNCHANGED <<authNow, keySet, keyFetch, tokenCache, authCalls, guarded, tenanted>>
  BY DEF Withdraw
<1>2. authNow \in Nat /\ withdrawn \in [Keys -> Nat]
  BY AuthAssumption DEF AuthInv, AuthTypeOK
<1>3. AuthTypeOK' /\ KeysOK'
  BY <1>1, <1>2 DEF AuthInv, AuthTypeOK, KeysOK
<1>4. CacheOK'
  <2>1. ASSUME NEW i \in DOMAIN tokenCache PROVE EntryOK(tokenCache[i])'
    <3>1. EntryOK(tokenCache[i]) /\ tokenCache[i].token \in Tokens
      <4>1. tokenCache[i] \in CacheEntry
        BY DEF AuthInv, AuthTypeOK
      <4>2. QED
        BY <4>1 DEF AuthInv, CacheOK, CacheEntry
    <3>2. Signer[tokenCache[i].token] \in Keys
      BY <3>1 DEF Keys
    <3>3. tokenCache[i].expiresAt <= authNow + TrustTime
      <4>1. tokenCache[i].expiresAt \in Nat
        <5>1. tokenCache[i] \in CacheEntry
          BY DEF AuthInv, AuthTypeOK
        <5>2. QED
          BY <5>1 DEF CacheEntry
      <4>2. tokenCache[i].expiresAt <= authNow + CacheTtl
        BY <3>1 DEF EntryOK
      <4>3. QED
        BY <1>2, <4>1, <4>2, TrustTimes
    <3>4. tokenCache[i].expiresAt <= withdrawn'[Signer[tokenCache[i].token]] + TrustTime
      BY <1>1, <1>2, <3>1, <3>2, <3>3 DEF EntryOK
    <3>5. QED
      BY <1>1, <3>1, <3>4 DEF EntryOK
  <2>2. QED
    BY <1>1, <2>1 DEF AuthInv, CacheOK
<1>5. CallsOK'
  <2>1. ASSUME NEW r \in Requests PROVE AdmittedOK(authCalls[r])' /\ CallOK(authCalls[r])'
    <3>1. AdmittedOK(authCalls[r]) /\ CallOK(authCalls[r]) /\ authCalls[r].since \in Nat
      <4>1. authCalls[r] \in AuthCall
        BY DEF AuthInv, AuthTypeOK
      <4>2. QED
        BY <4>1 DEF AuthInv, CallsOK, AuthCall
    <3>2. AdmittedOK(authCalls[r])'
      <4> SUFFICES ASSUME authCalls[r].info # NoInfo PROVE AdmittedOK(authCalls[r])'
        BY <1>1 DEF AdmittedOK
      <4>1. authCalls[r].token \in Tokens /\ authCalls[r].since <= authNow
        BY <3>1 DEF AdmittedOK
      <4>2. Signer[authCalls[r].token] \in Keys
        BY <4>1 DEF Keys
      <4>3. authCalls[r].since < withdrawn'[Signer[authCalls[r].token]] + TrustTime
        BY <1>1, <1>2, <3>1, <4>1, <4>2, TrustTimes, AuthAssumption DEF AdmittedOK
      <4>4. QED
        BY <1>1, <3>1, <4>3 DEF AdmittedOK
    <3>3. CallOK(authCalls[r])'
      BY <1>1, <3>1 DEF CallOK
    <3>4. QED
      BY <3>2, <3>3
  <2>2. QED
    BY <2>1 DEF CallsOK
<1>6. KeySetOK'
  <2>1. /\ keySet.freshUntil <= authNow + KeySetAge
        /\ keyFetch.at # "none" => authNow <= keyFetch.until /\ keyFetch.until <= authNow + KeyTimeout
    BY KeysBefore DEF KeySetOK
  <2>2. \A j \in keySet.keys : keySet.freshUntil <= withdrawn'[j] + KeyTimeout + KeySetAge
    BY <1>1, <1>2, <2>1, KeysBefore, TrustTimes DEF KeySetOK
  <2>3. keyFetch.at = "answered" => \A j \in keyFetch.keys : keyFetch.until <= withdrawn'[j] + KeyTimeout
    BY <1>1, <1>2, <2>1, KeysBefore, TrustTimes DEF KeySetOK
  <2>4. QED
    BY <1>1, <2>1, <2>2, <2>3 DEF KeySetOK
<1>7. QED
  BY <1>3, <1>4, <1>5, <1>6 DEF AuthInv

----------------------------------------------------------------------------
\* The steps of the keys leave the calls and the cache alone.
LEMMA KeyStep ==
    ASSUME AuthInv, UNCHANGED <<authNow, withdrawn, tokenCache, authCalls, guarded, tenanted>>, KeySetOK',
           keySet' \in [keys : SUBSET Keys, freshUntil : Nat, restUntil : Nat],
           keyFetch' \in [at : {"none", "asked", "answered"}, keys : SUBSET Keys, until : Nat]
    PROVE  AuthInv'
<1>1. CallsOK' /\ authCalls' \in [Requests -> AuthCall]
  BY DEF AuthInv, AuthTypeOK, CallsOK, AdmittedOK, CallOK
<1>2. QED
  BY <1>1, CacheKept DEF AuthInv, AuthTypeOK

\* The keys are asked for, the authorization server answers, the answer arrives or does not.
LEMMA FetchKeysInv == ASSUME AuthInv, NEW r \in Requests, FetchKeys(r) PROVE AuthInv'
<1>1. /\ keyFetch' = [at |-> "asked", keys |-> {}, until |-> authNow + KeyTimeout]
      /\ UNCHANGED <<authNow, withdrawn, keySet, tokenCache, authCalls, guarded, tenanted>>
  BY DEF FetchKeys
<1>2. keyFetch' \in [at : {"none", "asked", "answered"}, keys : SUBSET Keys, until : Nat]
  BY <1>1, KeysBefore, TrustTimes
<1>3. KeySetOK'
  BY <1>1, KeysBefore, TrustTimes DEF KeySetOK
<1>4. QED
  BY <1>1, <1>2, <1>3, KeyStep DEF AuthInv, AuthTypeOK

LEMMA ServeKeysInv == ASSUME AuthInv, ServeKeys PROVE AuthInv'
<1> DEFINE standing == {k \in Keys : withdrawn[k] = NoExpiry}
<1>1. /\ keyFetch.at = "asked" /\ keyFetch' = [keyFetch EXCEPT !.at = "answered", !.keys = standing]
      /\ UNCHANGED <<authNow, withdrawn, keySet, tokenCache, authCalls, guarded, tenanted>>
  BY DEF ServeKeys
<1>2. standing \in SUBSET Keys /\ \A k \in standing : authNow <= withdrawn[k] /\ withdrawn[k] \in Nat
  BY KeysBefore, TrustTimes, AuthAssumption DEF AuthInv, AuthTypeOK
<1> HIDE DEF standing
<1>3. /\ keyFetch' \in [at : {"none", "asked", "answered"}, keys : SUBSET Keys, until : Nat]
      /\ keyFetch'.at = "answered" /\ keyFetch'.keys = standing /\ keyFetch'.until = keyFetch.until
  BY <1>1, <1>2 DEF AuthInv, AuthTypeOK
<1>4. KeySetOK'
  BY <1>1, <1>2, <1>3, KeysBefore, TrustTimes DEF KeySetOK
<1>5. QED
  BY <1>1, <1>3, <1>4, KeyStep DEF AuthInv, AuthTypeOK

LEMMA ReceiveKeysInv == ASSUME AuthInv, ReceiveKeys PROVE AuthInv'
<1>1. /\ keyFetch.at = "answered" /\ keyFetch' = NoFetch
      /\ keySet' = [keys |-> keyFetch.keys, freshUntil |-> authNow + KeySetAge, restUntil |-> authNow + KeyRest]
      /\ UNCHANGED <<authNow, withdrawn, tokenCache, authCalls, guarded, tenanted>>
  BY DEF ReceiveKeys
<1>2. /\ keySet' \in [keys : SUBSET Keys, freshUntil : Nat, restUntil : Nat]
      /\ keyFetch' \in [at : {"none", "asked", "answered"}, keys : SUBSET Keys, until : Nat]
  BY <1>1, KeysBefore, TrustTimes DEF NoFetch
<1>3. \A k \in keyFetch.keys : authNow + KeySetAge <= withdrawn[k] + KeyTimeout + KeySetAge
  BY <1>1, KeysBefore, TrustTimes DEF KeySetOK
<1>4. KeySetOK'
  BY <1>1, <1>3, KeysBefore, TrustTimes DEF KeySetOK, NoFetch
<1>5. QED
  BY <1>1, <1>2, <1>4, KeyStep

LEMMA FetchFailsInv == ASSUME AuthInv, FetchFails PROVE AuthInv'
<1>1. keyFetch' = NoFetch /\ UNCHANGED <<authNow, withdrawn, keySet, tokenCache, authCalls, guarded, tenanted>>
  BY DEF FetchFails
<1>2. keyFetch' \in [at : {"none", "asked", "answered"}, keys : SUBSET Keys, until : Nat]
  BY <1>1 DEF NoFetch
<1>3. KeySetOK'
  BY <1>1, KeysBefore DEF KeySetOK, NoFetch
<1>4. QED
  BY <1>1, <1>2, <1>3, KeyStep DEF AuthInv, AuthTypeOK

----------------------------------------------------------------------------
\* The steps that leave the clock, the keys and the cache alone.
LEMMA CallStep ==
    ASSUME AuthInv, NEW r \in Requests, NEW call \in AuthCall, authCalls' = [authCalls EXCEPT ![r] = call],
           UNCHANGED <<authNow, withdrawn, keySet, keyFetch, tokenCache, guarded, tenanted>>, AdmittedOK(call), CallOK(call)
    PROVE  AuthInv'
<1>1. CallsOK' /\ authCalls' \in [Requests -> AuthCall] /\ KeySetOK' /\ UNCHANGED <<keySet, keyFetch>>
  BY CallChange
<1>2. QED
  BY <1>1, CacheKept DEF AuthInv, AuthTypeOK

\* What is known of a call before its step.
LEMMA CallBefore ==
    ASSUME AuthInv, NEW r \in Requests
    PROVE  /\ authCalls[r] \in AuthCall /\ AdmittedOK(authCalls[r]) /\ CallOK(authCalls[r])
           /\ authCalls[r].at \in Places /\ authCalls[r].token \in Tokens \cup {NoToken} /\ authCalls[r].stdio \in BOOLEAN
           /\ authCalls[r].info \in Info /\ authCalls[r].since \in Nat /\ authCalls[r].audited \in {"no", "yes", "threw"}
BY DEF AuthInv, AuthTypeOK, CallsOK, AuthCall

\* A call that only goes on to its next place.
LEMMA CallMoved ==
    ASSUME AuthInv, NEW r \in Requests, NEW to \in Places
    PROVE  /\ MovedTo(r, to) \in AuthCall /\ MovedTo(r, to).at = to /\ MovedTo(r, to).token = authCalls[r].token
           /\ MovedTo(r, to).stdio = authCalls[r].stdio /\ MovedTo(r, to).info = authCalls[r].info
           /\ MovedTo(r, to).since = authCalls[r].since /\ MovedTo(r, to).audited = authCalls[r].audited
           /\ MovedTo(r, to).answer = authCalls[r].answer
BY CallBefore DEF AuthCall, MovedTo

\* A call that is refused for its tenant is so with an invalid token, after the audit.
LEMMA RefusedInv ==
    ASSUME AuthInv, NEW r \in Requests, NEW from, NEW error \in {"missing_token", "invalid_token", "misconfigured", "insufficient_scope"},
           NEW scopes \in SUBSET Required, Refuse(r, from, error, scopes),
           UNCHANGED <<authNow, withdrawn, keySet, keyFetch, tokenCache, guarded, tenanted>>,
           tenanted /\ authCalls[r].info # NoInfo /\ TenantOf[authCalls[r].token] \in NoTenant =>
               error = "invalid_token" /\ scopes = {} /\ ~Hook
    PROVE  AuthInv'
<1> DEFINE m == MovedTo(r, "answered")
           call == [m EXCEPT !.answer = Reply(error, scopes)]
<1>1. /\ m \in AuthCall /\ m.at = "answered" /\ m.token = authCalls[r].token /\ m.stdio = authCalls[r].stdio
      /\ m.info = authCalls[r].info /\ m.since = authCalls[r].since /\ m.audited = authCalls[r].audited
  BY CallMoved DEF Places
<1>2. authCalls' = [authCalls EXCEPT ![r] = call]
  BY DEF Refuse, Step
<1>3. Reply(error, scopes) \in Replies
  BY DEF Reply, Replies
<1> HIDE DEF m
<1>4. /\ call \in AuthCall /\ call.at = "answered" /\ call.token = authCalls[r].token /\ call.stdio = authCalls[r].stdio
      /\ call.info = authCalls[r].info /\ call.since = authCalls[r].since /\ call.audited = authCalls[r].audited
      /\ call.answer = Reply(error, scopes)
  BY <1>1, <1>3 DEF AuthCall
<1> HIDE DEF call
<1>5. AdmittedOK(call) /\ CallOK(call)
  BY <1>4, CallBefore DEF AdmittedOK, CallOK
<1>6. QED
  BY <1>2, <1>4, <1>5, CallStep

\* The token is taken from the header.
LEMMA ExtractInv == ASSUME AuthInv, NEW r \in Requests, ExtractBearerToken(r) PROVE AuthInv'
<1>1. /\ authCalls[r].at = "idle" /\ authCalls[r].info = NoInfo /\ ~authCalls[r].stdio /\ authCalls[r].audited = "no"
      /\ UNCHANGED <<authNow, withdrawn, keySet, keyFetch, tokenCache, guarded, tenanted>>
  BY CallBefore DEF ExtractBearerToken, Step, Refuse, CallOK
<1>2. CASE Step(r, "idle", [MovedTo(r, "piped") EXCEPT !.stdio = TRUE])
  <2> DEFINE m == MovedTo(r, "piped")
             call == [m EXCEPT !.stdio = TRUE]
  <2>1. m \in AuthCall /\ m.at = "piped" /\ m.info = NoInfo /\ m.audited = "no"
    BY <1>1, CallMoved DEF Places
  <2> HIDE DEF m
  <2>2. call \in AuthCall /\ call.at = "piped" /\ call.info = NoInfo /\ call.audited = "no" /\ call.stdio = TRUE
    BY <2>1 DEF AuthCall
  <2>3. authCalls' = [authCalls EXCEPT ![r] = call]
    BY <1>2 DEF Step, m
  <2> HIDE DEF call
  <2>4. AdmittedOK(call) /\ CallOK(call)
    BY <2>2 DEF AdmittedOK, CallOK
  <2>5. QED
    BY <1>1, <2>2, <2>3, <2>4, CallStep
<1>3. CASE ~guarded /\ Step(r, "idle", MovedTo(r, "piped"))
  <2> DEFINE call == MovedTo(r, "piped")
  <2>1. call \in AuthCall /\ call.at = "piped" /\ call.info = NoInfo /\ call.audited = "no"
    BY <1>1, CallMoved DEF Places
  <2>2. authCalls' = [authCalls EXCEPT ![r] = call]
    BY <1>3 DEF Step
  <2> HIDE DEF call
  <2>3. AdmittedOK(call) /\ CallOK(call)
    BY <1>3, <2>1 DEF AdmittedOK, CallOK
  <2>4. QED
    BY <1>1, <2>1, <2>2, <2>3, CallStep
<1>4. CASE Refuse(r, "idle", "missing_token", {})
  BY <1>1, <1>4, RefusedInv
<1>5. ASSUME NEW t \in Tokens, guarded, Step(r, "idle", [MovedTo(r, "hashing") EXCEPT !.token = t])
      PROVE  AuthInv'
  <2> DEFINE m == MovedTo(r, "hashing")
             call == [m EXCEPT !.token = t]
  <2>1. m \in AuthCall /\ m.at = "hashing" /\ m.info = NoInfo /\ m.audited = "no" /\ ~m.stdio
    BY <1>1, CallMoved DEF Places
  <2> HIDE DEF m
  <2>2. call \in AuthCall /\ call.at = "hashing" /\ call.info = NoInfo /\ call.audited = "no" /\ ~call.stdio /\ call.token = t
    BY <2>1 DEF AuthCall
  <2>3. authCalls' = [authCalls EXCEPT ![r] = call]
    BY <1>5 DEF Step, m
  <2> HIDE DEF call
  <2>4. AdmittedOK(call) /\ CallOK(call)
    BY <1>5, <2>2 DEF AdmittedOK, CallOK
  <2>5. QED
    BY <1>1, <2>2, <2>3, <2>4, CallStep
<1>6. QED
  BY <1>2, <1>3, <1>4, <1>5 DEF ExtractBearerToken

\* The tenant of the token.
LEMMA TenantInv == ASSUME AuthInv, NEW r \in Requests, ResolveTenant(r) PROVE AuthInv'
<1> DEFINE c == authCalls[r]
<1>1. /\ c.at = "piped" /\ UNCHANGED <<authNow, withdrawn, keySet, keyFetch, tokenCache, guarded, tenanted>>
      /\ c.audited = "no" /\ AdmittedOK(c) /\ CallOK(c) /\ c.info \in Info /\ c.stdio \in BOOLEAN
  BY CallBefore DEF ResolveTenant, Step, Refuse, CallOK
<1>2. ASSUME ~tenanted \/ c.stdio, Step(r, "piped", MovedTo(r, "tenanted"))
      PROVE  AuthInv'
  <2> DEFINE call == MovedTo(r, "tenanted")
  <2>1. /\ call \in AuthCall /\ call.at = "tenanted" /\ call.info = c.info /\ call.audited = "no" /\ call.stdio = c.stdio
        /\ call.token = c.token /\ call.since = c.since
    BY <1>1, CallMoved DEF Places
  <2>2. authCalls' = [authCalls EXCEPT ![r] = call]
    BY <1>2 DEF Step
  <2> HIDE DEF call
  <2>3. AdmittedOK(call) /\ CallOK(call)
    BY <1>1, <1>2, <2>1 DEF AdmittedOK, CallOK
  <2>4. QED
    BY <1>1, <2>1, <2>2, <2>3, CallStep
<1>3. ASSUME c.info = NoInfo, Refuse(r, "piped", "misconfigured", {})
      PROVE  AuthInv'
  BY <1>1, <1>3, RefusedInv
<1>4. ASSUME tenanted, c.info # NoInfo, TenantOf[c.token] \in NoTenant, RejectWithAudit(r)
      PROVE  AuthInv'
  <2>1. CASE Hook
    <3> DEFINE call == MovedTo(r, "auditing")
    <3>1. /\ call \in AuthCall /\ call.at = "auditing" /\ call.info = c.info /\ call.audited = "no" /\ call.stdio = c.stdio
          /\ call.token = c.token /\ call.since = c.since
      BY <1>1, CallMoved DEF Places
    <3>2. authCalls' = [authCalls EXCEPT ![r] = call]
      BY <1>4, <2>1 DEF Step, RejectWithAudit
    <3> HIDE DEF call
    <3>3. AdmittedOK(call) /\ CallOK(call)
      BY <1>1, <1>4, <3>1 DEF AdmittedOK, CallOK
    <3>4. QED
      BY <1>1, <3>1, <3>2, <3>3, CallStep
  <2>2. CASE ~Hook
    BY <1>1, <1>4, <2>2, RefusedInv DEF RejectWithAudit
  <2>3. QED
    BY <2>1, <2>2
<1>5. ASSUME tenanted, ~c.stdio, c.info # NoInfo, TenantOf[c.token] \notin NoTenant, Step(r, "piped", TenantFound(r))
      PROVE  AuthInv'
  <2> DEFINE m == MovedTo(r, "tenanted")
             info == [m.info EXCEPT !.tenant = TenantOf[c.token]]
             call == [m EXCEPT !.info = info]
  <2>1. /\ m \in AuthCall /\ m.at = "tenanted" /\ m.info = c.info /\ m.audited = "no" /\ m.stdio = c.stdio
        /\ m.token = c.token /\ m.since = c.since /\ m.info \in Info
    BY <1>1, CallMoved DEF Places
  <2>2. c.token \in Tokens
    BY <1>1, <1>5 DEF AdmittedOK
  <2>3. authCalls' = [authCalls EXCEPT ![r] = call]
    BY <1>5, Zenon DEF Step, TenantFound
  <2> HIDE DEF m
  <2>4. info \in Info /\ info.tenant = TenantOf[c.token] /\ info.subject = c.info.subject /\ info.scopes = c.info.scopes
    BY <2>1, <2>2 DEF Info
  <2>5. info # NoInfo
    BY <2>2, <2>4, AuthAssumption DEF NoInfo
  <2> HIDE DEF info
  <2>6. /\ call \in AuthCall /\ call.at = "tenanted" /\ call.info = info /\ call.audited = "no" /\ call.stdio = c.stdio
        /\ call.token = c.token /\ call.since = c.since
    BY <2>1, <2>4 DEF AuthCall
  <2> HIDE DEF call
  <2>7. AdmittedOK(call) /\ CallOK(call)
    BY <1>1, <1>5, <2>4, <2>5, <2>6 DEF AdmittedOK, CallOK
  <2>8. QED
    BY <1>1, <2>3, <2>6, <2>7, CallStep
<1>6. QED
  BY <1>2, <1>3, <1>4, <1>5 DEF ResolveTenant

\* The hook that hears of a refused tenant.
LEMMA AuditInv == ASSUME AuthInv, NEW r \in Requests, AuditEnds(r) PROVE AuthInv'
<1> DEFINE c == authCalls[r]
<1>1. PICK ended \in {"yes", "threw"} :
        Step(r, "auditing", [MovedTo(r, "answered") EXCEPT !.audited = ended, !.answer = Reply("invalid_token", {})])
  BY DEF AuditEnds
<1>2. /\ c.at = "auditing" /\ UNCHANGED <<authNow, withdrawn, keySet, keyFetch, tokenCache, guarded, tenanted>>
      /\ AdmittedOK(c) /\ CallOK(c)
  BY <1>1, CallBefore DEF AuditEnds, Step
<1> DEFINE m == MovedTo(r, "answered")
           n == [m EXCEPT !.audited = ended]
           call == [n EXCEPT !.answer = Reply("invalid_token", {})]
<1>3. /\ m \in AuthCall /\ m.at = "answered" /\ m.info = c.info /\ m.stdio = c.stdio
      /\ m.token = c.token /\ m.since = c.since
  BY <1>2, CallMoved DEF Places
<1>4. authCalls' = [authCalls EXCEPT ![r] = call]
  BY <1>1, Zenon DEF Step
<1> HIDE DEF m
<1>5. /\ n \in AuthCall /\ n.at = "answered" /\ n.info = c.info /\ n.stdio = c.stdio
      /\ n.token = c.token /\ n.since = c.since /\ n.audited = ended
  BY <1>3 DEF AuthCall
<1>6. Reply("invalid_token", {}) \in Replies
  BY DEF Reply, Replies
<1> HIDE DEF n
<1>7. /\ call \in AuthCall /\ call.at = "answered" /\ call.info = c.info /\ call.stdio = c.stdio
      /\ call.token = c.token /\ call.since = c.since /\ call.audited = ended /\ call.answer = Reply("invalid_token", {})
  BY <1>5, <1>6 DEF AuthCall
<1> HIDE DEF call
<1>8. AdmittedOK(call) /\ CallOK(call)
  BY <1>2, <1>7 DEF AdmittedOK, CallOK
<1>9. QED
  BY <1>2, <1>4, <1>7, <1>8, CallStep

\* The scopes that the tool requires.
LEMMA ScopesInv == ASSUME AuthInv, NEW r \in Requests, CheckScopes(r) PROVE AuthInv'
<1> DEFINE c == authCalls[r]
<1>1. /\ c.at = "tenanted" /\ UNCHANGED <<authNow, withdrawn, keySet, keyFetch, tokenCache, guarded, tenanted>>
      /\ AdmittedOK(c) /\ CallOK(c) /\ c.stdio \in BOOLEAN
  BY CallBefore DEF CheckScopes, Step, Refuse, CallOK
<1>2. ASSUME Step(r, "tenanted", MovedTo(r, "ran")),
             Required = {} \/ (c.info = NoInfo /\ c.stdio) \/ (c.info # NoInfo /\ MissingScopes(r) = {})
      PROVE  AuthInv'
  <2> DEFINE call == MovedTo(r, "ran")
  <2>1. /\ call \in AuthCall /\ call.at = "ran" /\ call.info = c.info /\ call.audited = c.audited /\ call.stdio = c.stdio
        /\ call.token = c.token /\ call.since = c.since
    BY <1>1, CallMoved DEF Places
  <2>2. authCalls' = [authCalls EXCEPT ![r] = call]
    BY <1>2 DEF Step
  <2>3. Required # {} /\ ~c.stdio => guarded /\ Required \subseteq Granted[c.token]
    BY <1>1, <1>2 DEF AdmittedOK, MissingScopes
  <2> HIDE DEF call
  <2>4. AdmittedOK(call) /\ CallOK(call)
    BY <1>1, <2>1, <2>3 DEF AdmittedOK, CallOK
  <2>5. QED
    BY <1>1, <2>1, <2>2, <2>4, CallStep
<1>3. ASSUME c.info = NoInfo, Refuse(r, "tenanted", "misconfigured", {})
      PROVE  AuthInv'
  BY <1>1, <1>3, RefusedInv
<1>4. ASSUME c.info # NoInfo, Refuse(r, "tenanted", "insufficient_scope", MissingScopes(r))
      PROVE  AuthInv'
  <2>1. tenanted => TenantOf[c.token] \notin NoTenant
    BY <1>1, <1>4 DEF CallOK, AdmittedOK
  <2>2. MissingScopes(r) \in SUBSET Required
    BY DEF MissingScopes
  <2>3. QED
    BY <1>1, <1>4, <2>1, <2>2, RefusedInv
<1>5. QED
  BY <1>2, <1>3, <1>4 DEF CheckScopes

----------------------------------------------------------------------------
\* The cache, and what is made of it.
CacheOf(cache) ==
    /\ cache \in Seq(CacheEntry)
    /\ \A i \in DOMAIN cache : EntryOK(cache[i])
    /\ Len(cache) <= MaxCacheSize
    /\ OnePerToken(cache)

\* A cache without one of its entries is in order.
LEMMA CacheWithoutOne ==
    ASSUME NEW cache, CacheOf(cache), NEW i \in DOMAIN cache
    PROVE  CacheOf(RemoveAt(cache, i)) /\ Len(RemoveAt(cache, i)) = Len(cache) - 1
<1> DEFINE n == Len(cache)
           before == SubSeq(cache, 1, i - 1)
           after == SubSeq(cache, i + 1, n)
<1>1. cache \in Seq(CacheEntry) /\ n \in Nat /\ i \in 1..n /\ \A j \in 1..n : cache[j] \in CacheEntry
  BY DEF CacheOf
<1>2. before \in Seq(CacheEntry) /\ Len(before) = i - 1 /\ \A j \in 1..(i - 1) : before[j] = cache[j]
  BY <1>1, SubSeqProperties
<1>3. after \in Seq(CacheEntry) /\ Len(after) = n - i /\ \A j \in 1..(n - i) : after[j] = cache[i + j]
  <2>1. \A j \in (i + 1)..n : cache[j] \in CacheEntry
    BY <1>1
  <2>2. /\ after \in Seq(CacheEntry) /\ Len(after) = IF i + 1 <= n THEN n - (i + 1) + 1 ELSE 0
        /\ \A j \in 1..(n - (i + 1) + 1) : after[j] = cache[(i + 1) + j - 1]
    BY <1>1, <2>1, SubSeqProperties
  <2> HIDE DEF after, n
  <2>3. i \in Nat /\ n \in Nat /\ i <= n /\ n - (i + 1) + 1 = n - i
    BY <1>1
  <2>4. Len(after) = n - i
    BY <2>2, <2>3
  <2>5. ASSUME NEW j \in 1..(n - i)
        PROVE  after[j] = cache[i + j]
    <3>1. after[j] = cache[(i + 1) + j - 1]
      BY <2>2, <2>3
    <3>2. (i + 1) + j - 1 = i + j
      BY <2>3
    <3>3. QED
      BY <3>1, <3>2
  <2>6. QED
    BY <2>2, <2>4, <2>5
<1> DEFINE short == before \o after
<1> HIDE DEF before, after, n
<1>4. /\ short \in Seq(CacheEntry) /\ Len(short) = n - 1
      /\ \A j \in 1..(n - 1) : short[j] = IF j < i THEN cache[j] ELSE cache[j + 1]
  <2>1. /\ short \in Seq(CacheEntry) /\ Len(short) = Len(before) + Len(after)
        /\ \A j \in 1..(Len(before) + Len(after)) :
              short[j] = IF j <= Len(before) THEN before[j] ELSE after[j - Len(before)]
    BY <1>2, <1>3, ConcatProperties
  <2> HIDE DEF short
  <2>2. ASSUME NEW j \in 1..(n - 1)
        PROVE  short[j] = IF j < i THEN cache[j] ELSE cache[j + 1]
    <3>1. CASE j < i
      BY <1>1, <1>2, <1>3, <2>1, <3>1
    <3>2. CASE ~(j < i)
      <4>1. j - (i - 1) \in 1..(n - i) /\ i + (j - (i - 1)) = j + 1
        BY <1>1, <3>2
      <4>2. short[j] = after[j - (i - 1)]
        <5>1. j \in 1..(Len(before) + Len(after)) /\ ~(j <= Len(before)) /\ j - Len(before) = j - (i - 1)
          BY <1>1, <1>2, <1>3, <3>2
        <5>2. QED
          BY <2>1, <5>1
      <4>3. after[j - (i - 1)] = cache[i + (j - (i - 1))]
        BY <1>3, <4>1
      <4>4. QED
        BY <3>2, <4>1, <4>2, <4>3
    <3>3. QED
      BY <3>1, <3>2
  <2>3. Len(short) = n - 1
    BY <1>1, <1>2, <1>3, <2>1
  <2>4. short \in Seq(CacheEntry)
    BY <2>1
  <2>5. QED
    BY <2>2, <2>3, <2>4
<1>5. short = RemoveAt(cache, i)
  BY DEF short, before, after, n, RemoveAt
<1> HIDE DEF short
<1>6. \A j \in DOMAIN short : \E k \in DOMAIN cache : short[j] = cache[k] /\ k = IF j < i THEN j ELSE j + 1
  BY <1>1, <1>4 DEF n
<1>7. \A j \in DOMAIN short : EntryOK(short[j])
  BY <1>6 DEF CacheOf
<1>8. OnePerToken(short)
  <2> SUFFICES ASSUME NEW j \in DOMAIN short, NEW k \in DOMAIN short, short[j].token = short[k].token PROVE j = k
    BY DEF OnePerToken
  <2>1. (IF j < i THEN j ELSE j + 1) = (IF k < i THEN k ELSE k + 1)
    BY <1>6 DEF CacheOf, OnePerToken
  <2>2. j \in Nat /\ k \in Nat /\ i \in Nat
    BY <1>1, <1>4
  <2>3. QED
    BY <2>1, <2>2
<1>9. Len(short) <= MaxCacheSize
  BY <1>1, <1>4, AuthAssumption DEF CacheOf, n
<1>10. QED
  BY <1>4, <1>5, <1>7, <1>8, <1>9 DEF CacheOf, n

\* A cache without its oldest entry is in order and shorter.
LEMMA TailOfCache ==
    ASSUME NEW cache, CacheOf(cache), cache # << >>
    PROVE  CacheOf(Tail(cache)) /\ Len(Tail(cache)) = Len(cache) - 1
<1>1. /\ Tail(cache) \in Seq(CacheEntry) /\ Len(Tail(cache)) = Len(cache) - 1 /\ Len(cache) \in Nat
      /\ \A i \in 1..Len(Tail(cache)) : Tail(cache)[i] = cache[i + 1] /\ i + 1 \in DOMAIN cache
  BY HeadTailProperties DEF CacheOf
<1>2. \A i \in DOMAIN Tail(cache) : EntryOK(Tail(cache)[i])
  BY <1>1 DEF CacheOf
<1>3. OnePerToken(Tail(cache))
  BY <1>1 DEF CacheOf, OnePerToken
<1>4. Len(Tail(cache)) <= MaxCacheSize
  BY <1>1, AuthAssumption DEF CacheOf
<1>5. QED
  BY <1>1, <1>2, <1>3, <1>4 DEF CacheOf

\* A cache with an entry more, or with one replaced, has one entry for each token.
LEMMA CacheWithEntry ==
    ASSUME NEW cache, CacheOf(cache), Len(cache) < MaxCacheSize, NEW e \in CacheEntry, EntryOK(e)
    PROVE  /\ (\A i \in DOMAIN cache : cache[i].token # e.token) => CacheOf(Append(cache, e))
           /\ \A k \in DOMAIN cache : cache[k].token = e.token => CacheOf([cache EXCEPT ![k] = e])
<1>1. ASSUME \A i \in DOMAIN cache : cache[i].token # e.token
      PROVE  CacheOf(Append(cache, e))
  <2>1. /\ Append(cache, e) \in Seq(CacheEntry) /\ Len(Append(cache, e)) = Len(cache) + 1 /\ Len(cache) \in Nat
        /\ \A i \in DOMAIN cache : Append(cache, e)[i] = cache[i]
        /\ Append(cache, e)[Len(cache) + 1] = e
    BY AppendProperties DEF CacheOf
  <2>2. \A i \in DOMAIN Append(cache, e) : i \in DOMAIN cache \/ i = Len(cache) + 1
    BY <2>1
  <2>3. \A i \in DOMAIN Append(cache, e) : EntryOK(Append(cache, e)[i])
    BY <2>1, <2>2 DEF CacheOf
  <2>4. OnePerToken(Append(cache, e))
    BY <1>1, <2>1, <2>2 DEF CacheOf, OnePerToken
  <2>5. QED
    BY <2>1, <2>3, <2>4, AuthAssumption DEF CacheOf
<1>2. ASSUME NEW k \in DOMAIN cache, cache[k].token = e.token
      PROVE  CacheOf([cache EXCEPT ![k] = e])
  <2> DEFINE new == [cache EXCEPT ![k] = e]
  <2>1. new \in Seq(CacheEntry) /\ Len(new) = Len(cache) /\ DOMAIN new = DOMAIN cache
        /\ \A i \in DOMAIN cache : new[i] = IF i = k THEN e ELSE cache[i]
    BY DEF CacheOf
  <2> HIDE DEF new
  <2>2. \A i \in DOMAIN new : EntryOK(new[i])
    BY <2>1 DEF CacheOf
  <2>3. \A i \in DOMAIN cache : new[i].token = cache[i].token
    BY <1>2, <2>1
  <2>4. OnePerToken(new)
    BY <2>1, <2>3 DEF CacheOf, OnePerToken
  <2>5. QED
    BY <2>1, <2>2, <2>4 DEF CacheOf, new
<1>3. QED
  BY <1>1, <1>2

\* A step of a call that leaves the clock and the keys alone, and the cache in order.
LEMMA CacheStep ==
    ASSUME AuthInv, NEW r \in Requests, NEW call \in AuthCall, authCalls' = [authCalls EXCEPT ![r] = call],
           UNCHANGED <<authNow, withdrawn, keySet, keyFetch, guarded, tenanted>>, AdmittedOK(call), CallOK(call), CacheOf(tokenCache')
    PROVE  AuthInv'
<1>1. CallsOK' /\ authCalls' \in [Requests -> AuthCall] /\ KeySetOK' /\ UNCHANGED <<keySet, keyFetch>>
  BY CallChange
<1>2. KeysOK' /\ authNow' \in 0..MaxTime /\ guarded' \in BOOLEAN /\ tenanted' \in BOOLEAN /\ withdrawn' \in [Keys -> Nat]
  BY DEF AuthInv, AuthTypeOK, KeysOK
<1>3. CacheOK' /\ tokenCache' \in Seq(CacheEntry)
  BY DEF CacheOf, CacheOK, EntryOK, OnePerToken
<1>4. QED
  BY <1>1, <1>2, <1>3 DEF AuthInv, AuthTypeOK

\* What is known of the cache before a step.
LEMMA CacheBefore == ASSUME AuthInv PROVE CacheOf(tokenCache)
BY DEF AuthInv, AuthTypeOK, CacheOK, CacheOf

\* An admitted call is one by which the token may be trusted still.
LEMMA AdmittedInTime ==
    ASSUME AuthInv, NEW r \in Requests, authCalls[r].at \in {"hashing", "verifying"}, NEW info \in Info,
           info = InfoOf(authCalls[r].token), authNow < Expiry[authCalls[r].token],
           authNow < withdrawn[Signer[authCalls[r].token]] + TrustTime
    PROVE  Admitted(r, info) \in AuthCall /\ AdmittedOK(Admitted(r, info)) /\ CallOK(Admitted(r, info))
<1> DEFINE c == authCalls[r]
           m == MovedTo(r, "piped")
           n == [m EXCEPT !.info = info]
           call == [n EXCEPT !.since = authNow]
<1>1. /\ c \in AuthCall /\ c.info = NoInfo /\ ~c.stdio /\ guarded /\ c.token \in Tokens /\ c.audited = "no" /\ authNow \in Nat
  BY CallBefore, AuthAssumption DEF CallOK, AuthInv, AuthTypeOK
<1>2. m \in AuthCall /\ m.at = "piped" /\ ~m.stdio /\ m.token = c.token /\ m.audited = "no"
  BY <1>1, CallMoved DEF Places
<1>3. call = Admitted(r, info)
  BY Zenon DEF Admitted
<1> HIDE DEF m
<1>4. n \in AuthCall /\ n.at = "piped" /\ ~n.stdio /\ n.token = c.token /\ n.audited = "no" /\ n.info = info
  BY <1>2 DEF AuthCall
<1> HIDE DEF n
<1>5. /\ call \in AuthCall /\ call.at = "piped" /\ ~call.stdio /\ call.token = c.token /\ call.audited = "no" /\ call.info = info
      /\ call.since = authNow
  BY <1>1, <1>4 DEF AuthCall
<1> HIDE DEF call
<1>6. info.subject = c.token /\ info.scopes = Granted[c.token] /\ info # NoInfo
  BY <1>1, AuthAssumption DEF InfoOf, NoInfo
<1>7. AdmittedOK(call) /\ CallOK(call)
  BY <1>1, <1>5, <1>6 DEF AdmittedOK, CallOK
<1>8. QED
  BY <1>3, <1>5, <1>7

\* The cache answers for a token, or does not know it.
LEMMA LookUpInv == ASSUME AuthInv, NEW r \in Requests, LookUp(r) PROVE AuthInv'
<1> DEFINE t == authCalls[r].token
<1>1. /\ authCalls[r].at = "hashing" /\ UNCHANGED <<authNow, withdrawn, keySet, keyFetch, guarded, tenanted>>
      /\ t \in Tokens /\ guarded /\ authCalls[r].info = NoInfo /\ ~authCalls[r].stdio /\ authCalls[r].audited = "no"
  BY CallBefore DEF LookUp, Step, CallOK
<1>2. ASSUME NEW i \in CachedFor(t), Step(r, "hashing", Admitted(r, tokenCache[i].info)), UNCHANGED tokenCache
      PROVE  AuthInv'
  <2> DEFINE e == tokenCache[i]
  <2>1. i \in DOMAIN tokenCache /\ e.token = t /\ authNow < e.expiresAt
    BY <1>2 DEF CachedFor, Entries
  <2>2. EntryOK(e) /\ e \in CacheEntry
    BY <2>1, CacheBefore DEF CacheOf
  <2>3. e.info \in Info /\ e.info = InfoOf(t) /\ e.expiresAt \in Nat /\ authNow \in Nat /\ authNow <= MaxTime
    BY <2>1, <2>2, AuthAssumption DEF EntryOK, CacheEntry, AuthInv, AuthTypeOK
  <2> HIDE DEF e
  <2>4. Expiry[t] \in Nat /\ withdrawn[Signer[t]] \in Nat
    BY <1>1, AuthAssumption DEF Keys, AuthInv, AuthTypeOK
  <2>5. authNow < Expiry[t] /\ authNow < withdrawn[Signer[t]] + TrustTime
    BY <2>1, <2>2, <2>3, <2>4, TrustTimes, AuthAssumption DEF EntryOK
  <2>6. Admitted(r, e.info) \in AuthCall /\ AdmittedOK(Admitted(r, e.info)) /\ CallOK(Admitted(r, e.info))
    BY <1>1, <2>3, <2>5, AdmittedInTime
  <2>7. authCalls' = [authCalls EXCEPT ![r] = Admitted(r, e.info)]
    BY <1>2 DEF Step, e
  <2>8. QED
    BY <1>1, <1>2, <2>6, <2>7, CallStep
<1>3. ASSUME Step(r, "hashing", MovedTo(r, "verifying")), tokenCache' = Without(t)
      PROVE  AuthInv'
  <2> DEFINE call == MovedTo(r, "verifying")
  <2>1. /\ call \in AuthCall /\ call.at = "verifying" /\ call.info = NoInfo /\ call.audited = "no" /\ ~call.stdio /\ call.token = t
    BY <1>1, CallMoved DEF Places
  <2>2. authCalls' = [authCalls EXCEPT ![r] = call]
    BY <1>3 DEF Step
  <2> HIDE DEF call
  <2>3. AdmittedOK(call) /\ CallOK(call)
    BY <1>1, <2>1 DEF AdmittedOK, CallOK
  <2>4. CacheOf(tokenCache')
    <3>1. CASE Entries(t) = {}
      BY <1>3, <3>1, CacheBefore DEF Without
    <3>2. CASE Entries(t) # {}
      <4>1. (CHOOSE i \in Entries(t) : TRUE) \in DOMAIN tokenCache
        BY <3>2 DEF Entries
      <4>2. QED
        BY <1>3, <3>2, <4>1, CacheBefore, CacheWithoutOne DEF Without
    <3>3. QED
      BY <3>1, <3>2
  <2>5. QED
    BY <1>1, <2>1, <2>2, <2>3, <2>4, CacheStep
<1>4. QED
  BY <1>2, <1>3 DEF LookUp

\* The provider verified a token, or refused it.
LEMMA VerifiedInv == ASSUME AuthInv, NEW r \in Requests, Verified(r) PROVE AuthInv'
<1> DEFINE t == authCalls[r].token
<1>1. /\ authCalls[r].at = "verifying" /\ UNCHANGED <<authNow, withdrawn, keySet, keyFetch, guarded, tenanted>>
      /\ t \in Tokens /\ guarded /\ authCalls[r].info = NoInfo
  BY CallBefore DEF Verified, Step, Refuse, CallOK
<1>2. ASSUME Step(r, "verifying", Admitted(r, InfoOf(t))), Verifies(t), tokenCache' = Stored(t)
      PROVE  AuthInv'
  <2>1. InfoOf(t) \in Info
    BY <1>1 DEF InfoOf, Info
  <2>2. /\ Expiry[t] \in Nat /\ authNow < Expiry[t] /\ authNow \in Nat /\ authNow <= MaxTime /\ Expiry[t] <= NoExpiry
        /\ withdrawn[Signer[t]] \in Nat /\ authNow < withdrawn[Signer[t]] + KeyTimeout + KeySetAge
    <3>1. Signer[t] \in keySet.keys /\ authNow < keySet.freshUntil /\ authNow < Expiry[t]
      BY <1>2 DEF Verifies, KeysFresh
    <3>2. Expiry[t] \in Nat /\ Expiry[t] <= NoExpiry /\ authNow \in Nat /\ authNow <= MaxTime
      BY <1>1, AuthAssumption DEF AuthInv, AuthTypeOK
    <3>3. withdrawn[Signer[t]] \in Nat /\ keySet.freshUntil <= withdrawn[Signer[t]] + KeyTimeout + KeySetAge
      BY <3>1, KeysBefore DEF KeySetOK
    <3>4. QED
      BY <3>1, <3>2, <3>3, KeysBefore, TrustTimes
  <2>3. Admitted(r, InfoOf(t)) \in AuthCall /\ AdmittedOK(Admitted(r, InfoOf(t))) /\ CallOK(Admitted(r, InfoOf(t)))
    <3>1. authNow < withdrawn[Signer[t]] + TrustTime
      BY <2>2, TrustTimes
    <3>2. QED
      BY <1>1, <2>1, <2>2, <3>1, AdmittedInTime
  <2>4. authCalls' = [authCalls EXCEPT ![r] = Admitted(r, InfoOf(t))]
    BY <1>2 DEF Step
  <2> DEFINE e == [token |-> t, info |-> InfoOf(t), expiresAt |-> authNow + Lifetime(t)]
  <2>5. /\ Lifetime(t) \in Nat /\ Lifetime(t) <= CacheTtl /\ (Expiry[t] # NoExpiry => authNow + Lifetime(t) <= Expiry[t])
    BY <2>2, AuthAssumption DEF Lifetime, MinOf
  <2>6. e \in CacheEntry /\ e.token = t /\ EntryOK(e)
    <3>1. e \in CacheEntry
      BY <1>1, <2>1, <2>2, <2>5 DEF CacheEntry
    <3>2. e.token = t /\ e.info = InfoOf(t) /\ e.expiresAt = authNow + Lifetime(t)
      OBVIOUS
    <3> HIDE DEF e
    <3>3. QED
      BY <2>2, <2>5, <3>1, <3>2, TrustTimes, AuthAssumption DEF EntryOK
  <2>7. CacheOf(Roomy) /\ Len(Roomy) < MaxCacheSize
    <3>1. CacheOf(tokenCache) /\ Len(tokenCache) \in Nat /\ (Len(tokenCache) >= 1 => tokenCache # << >>)
      BY CacheBefore DEF CacheOf
    <3>2. CASE Len(tokenCache) >= MaxCacheSize
      <4>1. tokenCache # << >> /\ Roomy = Tail(tokenCache)
        BY <3>1, <3>2, AuthAssumption DEF Roomy
      <4>2. Len(tokenCache) <= MaxCacheSize
        BY <3>1 DEF CacheOf
      <4>3. QED
        BY <3>1, <4>1, <4>2, TailOfCache, AuthAssumption
    <3>3. CASE ~(Len(tokenCache) >= MaxCacheSize)
      BY <3>1, <3>3, AuthAssumption DEF Roomy
    <3>4. QED
      BY <3>2, <3>3
  <2>8. CacheOf(tokenCache')
    <3> DEFINE places == {i \in DOMAIN Roomy : Roomy[i].token = t}
    <3>1. tokenCache' = IF places = {} THEN Append(Roomy, e) ELSE [i \in DOMAIN Roomy |-> IF i \in places THEN e ELSE Roomy[i]]
      BY <1>2 DEF Stored
    <3> HIDE DEF e
    <3>2. CASE places = {}
      BY <2>6, <2>7, <3>1, <3>2, CacheWithEntry
    <3>3. CASE places # {}
      <4>1. PICK k \in DOMAIN Roomy : Roomy[k].token = t
        BY <3>3
      <4>2. \A i \in DOMAIN Roomy : i \in places <=> i = k
        BY <2>7, <4>1 DEF CacheOf, OnePerToken
      <4>3. tokenCache' = [Roomy EXCEPT ![k] = e]
        <5>1. tokenCache' = [i \in DOMAIN Roomy |-> IF i \in places THEN e ELSE Roomy[i]]
          BY <3>1, <3>3
        <5>2. Roomy \in Seq(CacheEntry)
          BY <2>7 DEF CacheOf
        <5> HIDE DEF places
        <5>3. QED
          BY <4>1, <4>2, <5>1, <5>2
      <4>4. QED
        BY <2>6, <2>7, <4>1, <4>3, CacheWithEntry
    <3>4. QED
      BY <3>2, <3>3
  <2>9. QED
    BY <1>1, <2>3, <2>4, <2>8, CacheStep
<1>3. ASSUME Refuse(r, "verifying", "invalid_token", {}), UNCHANGED tokenCache
      PROVE  AuthInv'
  BY <1>1, <1>3, RefusedInv
<1>4. QED
  BY <1>2, <1>3 DEF Verified

\* Every step of the middleware keeps the calls and the cache in order.
LEMMA AuthNextInv == AuthInv /\ [AuthNext]_authVars => AuthInv'
<1> SUFFICES ASSUME AuthInv, [AuthNext]_authVars PROVE AuthInv'
  OBVIOUS
<1>1. CASE UNCHANGED authVars
  <2>1. UNCHANGED <<authNow, withdrawn, keySet, keyFetch, tokenCache, authCalls, guarded, tenanted>>
    BY <1>1 DEF authVars
  <2>2. CallsOK' /\ authCalls' \in [Requests -> AuthCall]
    BY <2>1 DEF AuthInv, AuthTypeOK, CallsOK, AdmittedOK, CallOK
  <2>3. KeySetOK'
    BY <2>1 DEF AuthInv, KeySetOK
  <2>4. QED
    BY <2>1, <2>2, <2>3, CacheKept DEF AuthInv, AuthTypeOK
<1>2. QED
  BY <1>1, TickInv, WithdrawInv, FetchKeysInv, ServeKeysInv, ReceiveKeysInv, FetchFailsInv,
     ExtractInv, LookUpInv, VerifiedInv, TenantInv, AuditInv, ScopesInv DEF AuthNext

(* TokensSafe: For every set of tokens, keys, scopes and tenants, any size *)
(* and lifetime of the cache and any age of the keys, what runs was        *)
(* admitted with a token that held, or whose key was withdrawn no longer   *)
(* ago than a fetch of the keys, their age and the cache's lifetime        *)
(* together, and with its own scopes and tenant (jwt-provider.ts,          *)
(* middleware.ts, multi-tenant-middleware.ts, scope-middleware.ts).        *)
THEOREM TokensSafe == AuthSpec => []TokensRespected
<1>1. AuthInv => AcceptedWhileTrusted
  BY DEF AuthInv, CallsOK, CacheOK, OnePerToken, AdmittedOK, AcceptedWhileTrusted
<1>2. AuthInv => OnlyEntitledRun
  BY DEF AuthInv, CallsOK, AdmittedOK, CallOK, OnlyEntitledRun
<1>3. AuthInv => RefusalsAlike
  BY DEF AuthInv, CallsOK, CallOK, RefusalsAlike
<1>4. QED
  BY <1>1, <1>2, <1>3, AuthInitInv, AuthNextInv, PTL DEF AuthSpec, TokensRespected

-----------------------------------------------------------------------------
(* OAuthClient: the document of the proxy and the tokens of the provider.  *)

TokenRecord == [issuer : Issuers \cup {NoIssuer}, refresh : {NoRefresh} \cup {<<i>> : i \in Issuers}]
TokenRecords == {NoRecord} \cup {<<r>> : r \in TokenRecord}

\* A record that names its issuer holds no refresh token of another.
RecordOK(record) ==
    /\ record \in TokenRecords
    /\ record # NoRecord =>
          (record[1].refresh # NoRefresh /\ record[1].issuer # NoIssuer => record[1].refresh[1] = record[1].issuer)

FlowStates == {"idle", "discovered", "read", "authorizing", "refreshing", "saving", "merging"}
FlowRecord ==
    [at : FlowStates, to : Issuers \cup {NoIssuer}, read : TokenRecords, granted : {NoRefresh} \cup {<<i>> : i \in Issuers},
     code : Issuers \cup {NoIssuer}]

\* A flow under way is bound to where it was begun, and refreshes only with a token of there.
FlowOK(c) ==
    LET call == flow[c]
    IN  /\ call \in FlowRecord /\ RecordOK(call.read)
        /\ call.at # "idle" => call.to \in Issuers /\ currentIssuer[c] = call.to
        /\ call.at \in {"saving", "merging"} /\ call.granted # NoRefresh => call.granted = <<call.to>>
        /\ call.at = "refreshing" =>
              call.read # NoRecord /\ call.read[1].issuer = call.to /\ call.read[1].refresh = <<call.to>>

ClientInv ==
    /\ advertised \in Issuers
    /\ RecordOK(credentials)
    /\ currentIssuer \in [Clients -> Issuers \cup {NoIssuer}]
    /\ flow \in [Clients -> FlowRecord] /\ \A c \in Clients : FlowOK(c)
    /\ \A c \in Clients : reading[c] # NotReading => RecordOK(reading[c][1])
    /\ DOMAIN reading = Clients
    /\ \A sent \in refreshSent : sent.of = sent.to

\* A record of the store is a record, or there is none.
LEMMA RecordFields ==
    ASSUME NEW record \in TokenRecords, record # NoRecord
    PROVE  record[1] \in TokenRecord /\ record = <<record[1]>>
BY DEF TokenRecords, NoRecord

\* A record with the refresh token of its issuer is in order.
LEMMA RecordMade ==
    ASSUME NEW i \in Issuers \cup {NoIssuer}, NEW refresh \in {NoRefresh} \cup {<<j>> : j \in Issuers},
           i # NoIssuer /\ refresh # NoRefresh => refresh[1] = i
    PROVE  RecordOK(<<[issuer |-> i, refresh |-> refresh]>>)
<1> DEFINE r == [issuer |-> i, refresh |-> refresh]
<1>1. r \in TokenRecord /\ r.issuer = i /\ r.refresh = refresh
  BY DEF TokenRecord
<1> HIDE DEF r
<1>2. <<r>> \in TokenRecords /\ <<r>>[1] = r
  BY <1>1 DEF TokenRecords
<1>3. QED
  BY <1>1, <1>2 DEF RecordOK, r

\* So is none.
LEMMA NoRecordOK == RecordOK(NoRecord)
BY DEF RecordOK, TokenRecords

\* A store that other sessions left is in order.
LEMMA ClientInitInv == ClientAuthInit => ClientInv
<1> SUFFICES ASSUME ClientAuthInit PROVE ClientInv
  OBVIOUS
<1>1. RecordOK(credentials)
  <2>1. CASE credentials = NoRecord
    BY <2>1, NoRecordOK
  <2>2. ASSUME NEW i \in Issuers, credentials = <<[issuer |-> NoIssuer, refresh |-> <<i>>]>>
        PROVE  RecordOK(credentials)
    BY <2>2, RecordMade
  <2>3. ASSUME NEW i \in Issuers, credentials = <<[issuer |-> i, refresh |-> <<i>>]>>
        PROVE  RecordOK(credentials)
    BY <2>3, RecordMade
  <2>4. QED
    BY <2>1, <2>2, <2>3 DEF ClientAuthInit
<1>2. NoFlow \in FlowRecord /\ NoFlow.at = "idle" /\ NoFlow.read = NoRecord
  BY DEF NoFlow, FlowRecord, FlowStates, TokenRecords
<1>3. QED
  BY <1>1, <1>2, NoRecordOK DEF ClientAuthInit, ClientInv, FlowOK

\* One flow moves on, and leaves the others and their issuers alone.
LEMMA FlowMoves ==
    ASSUME ClientInv, NEW c \in Clients, NEW call \in FlowRecord, flow' = [flow EXCEPT ![c] = call],
           \A d \in Clients \ {c} : currentIssuer'[d] = currentIssuer[d],
           currentIssuer' \in [Clients -> Issuers \cup {NoIssuer}],
           RecordOK(call.read),
           call.at # "idle" => call.to \in Issuers /\ currentIssuer'[c] = call.to,
           call.at \in {"saving", "merging"} /\ call.granted # NoRefresh => call.granted = <<call.to>>,
           call.at = "refreshing" => call.read # NoRecord /\ call.read[1].issuer = call.to /\ call.read[1].refresh = <<call.to>>
    PROVE  flow' \in [Clients -> FlowRecord] /\ \A d \in Clients : FlowOK(d)'
<1>1. flow' \in [Clients -> FlowRecord] /\ flow'[c] = call
  BY DEF ClientInv
<1>2. FlowOK(c)'
  BY <1>1 DEF FlowOK
<1>3. ASSUME NEW d \in Clients, d # c PROVE FlowOK(d)'
  <2>1. flow'[d] = flow[d] /\ currentIssuer'[d] = currentIssuer[d] /\ FlowOK(d)
    BY <1>3 DEF ClientInv
  <2>2. QED
    BY <2>1 DEF FlowOK
<1>4. QED
  BY <1>1, <1>2, <1>3

\* The fields of a flow.
LEMMA CallFields ==
    ASSUME NEW call \in FlowRecord
    PROVE  /\ call.at \in FlowStates /\ call.to \in Issuers \cup {NoIssuer} /\ call.read \in TokenRecords
           /\ call.granted \in {NoRefresh} \cup {<<i>> : i \in Issuers} /\ call.code \in Issuers \cup {NoIssuer}
BY DEF FlowRecord

\* A flow that only goes on to its next place.
LEMMA CallMoves ==
    ASSUME NEW call \in FlowRecord, NEW place \in FlowStates, NEW p, p = [call EXCEPT !.at = place]
    PROVE  p \in FlowRecord /\ p.at = place /\ p.to = call.to /\ p.read = call.read /\ p.granted = call.granted
BY DEF FlowRecord

\* A flow that is granted tokens where it was begun.
LEMMA CallGranted ==
    ASSUME NEW call \in FlowRecord, NEW refresh \in {NoRefresh, <<call.to>>}, call.to \in Issuers, NEW p,
           \/ p = [call EXCEPT !.at = "saving", !.granted = refresh]
           \/ p = [call EXCEPT !.at = "saving", !.granted = refresh, !.code = NoIssuer]
    PROVE  p \in FlowRecord /\ p.at = "saving" /\ p.to = call.to /\ p.read = call.read /\ p.granted = refresh
<1>1. refresh \in {NoRefresh} \cup {<<i>> : i \in Issuers}
  OBVIOUS
<1>2. QED
  BY <1>1 DEF FlowRecord, FlowStates

\* Every step of a flow or of a transport keeps the store and the flows in order.
LEMMA ClientNextInv == ClientInv /\ [ClientAuthNext]_clientVars => ClientInv'
<1> SUFFICES ASSUME ClientInv, [ClientAuthNext]_clientVars PROVE ClientInv'
  OBVIOUS
<1> USE ClientAuthAssumption
<1>1. CASE Moved
  BY <1>1 DEF Moved, ClientInv, FlowOK
<1>2. NoFlow \in FlowRecord /\ NoFlow.at = "idle" /\ NoFlow.read = NoRecord
  BY DEF NoFlow, FlowRecord, FlowStates, TokenRecords
<1>3. ASSUME NEW c \in Clients
      PROVE  /\ flow[c] \in FlowRecord /\ FlowOK(c) /\ RecordOK(flow[c].read) /\ flow[c].read \in TokenRecords
             /\ currentIssuer[c] \in Issuers \cup {NoIssuer} /\ RecordOK(credentials) /\ credentials \in TokenRecords
             /\ flow[c].at # "idle" => flow[c].to \in Issuers /\ currentIssuer[c] = flow[c].to
  BY DEF ClientInv, FlowOK, RecordOK
<1>4. ASSUME NEW c \in Clients, SaveDiscoveryState(c) PROVE ClientInv'
  <2> DEFINE call == [flow[c] EXCEPT !.at = "discovered", !.to = advertised]
  <2>1. call \in FlowRecord /\ call.at = "discovered" /\ call.to = advertised /\ call.read = flow[c].read
    <3>1. flow[c] \in FlowRecord /\ advertised \in Issuers
      BY <1>3 DEF ClientInv
    <3>2. QED
      BY <3>1 DEF FlowRecord, FlowStates
  <2>2. /\ flow' = [flow EXCEPT ![c] = call] /\ currentIssuer' = [currentIssuer EXCEPT ![c] = advertised]
        /\ UNCHANGED <<advertised, credentials, reading, refreshSent>>
    BY <1>4 DEF SaveDiscoveryState, Moves
  <2> HIDE DEF call
  <2>3. flow' \in [Clients -> FlowRecord] /\ \A d \in Clients : FlowOK(d)'
    BY <1>3, <2>1, <2>2, FlowMoves DEF ClientInv
  <2>4. QED
    BY <2>2, <2>3 DEF ClientInv, RecordOK
<1>5. ASSUME NEW c \in Clients, Exchange(c) PROVE ClientInv'
  <2>1. UNCHANGED <<advertised, credentials, currentIssuer, reading, refreshSent>>
    BY <1>5 DEF Exchange
  <2>2. flow' \in [Clients -> FlowRecord] /\ \A d \in Clients : FlowOK(d)'
    <3>1. ASSUME NEW refresh \in {NoRefresh, <<flow[c].to>>},
                 Moves(c, "discovered", [flow[c] EXCEPT !.at = "saving", !.granted = refresh, !.code = NoIssuer])
          PROVE  flow' \in [Clients -> FlowRecord] /\ \A d \in Clients : FlowOK(d)'
      <4> DEFINE call == [flow[c] EXCEPT !.at = "saving", !.granted = refresh, !.code = NoIssuer]
      <4>1. flow[c].at = "discovered" /\ flow' = [flow EXCEPT ![c] = call]
        BY <3>1 DEF Moves
      <4>2. flow[c] \in FlowRecord /\ flow[c].to \in Issuers
        BY <1>3, <4>1
      <4>3. call \in FlowRecord /\ call.at = "saving" /\ call.to = flow[c].to /\ call.read = flow[c].read /\ call.granted = refresh
        BY <4>2, CallGranted
      <4> HIDE DEF call
      <4>4. QED
        BY <1>3, <2>1, <4>1, <4>3, FlowMoves DEF ClientInv
    <3>2. CASE Moves(c, "discovered", NoFlow)
      BY <1>2, <2>1, <3>2, FlowMoves, NoRecordOK DEF Moves, ClientInv
    <3>3. QED
      BY <1>5, <3>1, <3>2 DEF Exchange
  <2>3. QED
    BY <2>1, <2>2 DEF ClientInv
<1>6. ASSUME NEW c \in Clients, AskTokens(c) \/ SaveReads(c) PROVE ClientInv'
  <2>1. PICK from \in {"discovered", "saving"}, place \in {"read", "merging"} :
          /\ Moves(c, from, [flow[c] EXCEPT !.at = place, !.read = credentials])
          /\ place = "merging" => from = "saving"
          /\ UNCHANGED <<advertised, credentials, currentIssuer, reading, refreshSent>>
    BY <1>6 DEF AskTokens, SaveReads
  <2> DEFINE call == [flow[c] EXCEPT !.at = place, !.read = credentials]
  <2>2. /\ call \in FlowRecord /\ call.at = place /\ call.to = flow[c].to /\ call.read = credentials
        /\ call.granted = flow[c].granted
    <3>1. flow[c] \in FlowRecord /\ credentials \in TokenRecords /\ place \in FlowStates
      BY <1>3 DEF FlowStates
    <3>2. QED
      BY <3>1 DEF FlowRecord
  <2>3. flow[c].at = from /\ flow' = [flow EXCEPT ![c] = call]
    BY <2>1 DEF Moves
  <2>4. place = "merging" /\ flow[c].granted # NoRefresh => flow[c].granted = <<flow[c].to>>
    BY <1>3, <2>1, <2>3 DEF FlowOK
  <2> HIDE DEF call
  <2>5. flow' \in [Clients -> FlowRecord] /\ \A d \in Clients : FlowOK(d)'
    BY <1>3, <2>1, <2>2, <2>3, <2>4, FlowMoves DEF ClientInv
  <2>6. QED
    BY <2>1, <2>5 DEF ClientInv
<1>7. ASSUME NEW c \in Clients, Judge(c) PROVE ClientInv'
  <2>1. PICK place \in {"authorizing", "refreshing"} :
          /\ Moves(c, "read", [flow[c] EXCEPT !.at = place])
          /\ credentials' \in {credentials, NoRecord}
          /\ place = "refreshing" =>
                flow[c].read # NoRecord /\ Usable(c, flow[c].read) /\ flow[c].read[1].refresh # NoRefresh
    BY <1>7 DEF Judge
  <2>2. UNCHANGED <<advertised, currentIssuer, reading, refreshSent>>
    BY <1>7 DEF Judge
  <2> DEFINE call == [flow[c] EXCEPT !.at = place]
  <2>3. call \in FlowRecord /\ call.at = place /\ call.to = flow[c].to /\ call.read = flow[c].read
    <3>1. flow[c] \in FlowRecord /\ "authorizing" \in FlowStates /\ "refreshing" \in FlowStates
      BY <1>3 DEF FlowStates
    <3>2. QED
      BY <3>1, CallMoves
  <2>4. flow[c].at = "read" /\ flow' = [flow EXCEPT ![c] = call]
    BY <2>1 DEF Moves
  <2>5. place = "refreshing" => flow[c].read[1].issuer = flow[c].to /\ flow[c].read[1].refresh = <<flow[c].to>>
    <3>1. SUFFICES ASSUME place = "refreshing"
                   PROVE  flow[c].read[1].issuer = flow[c].to /\ flow[c].read[1].refresh = <<flow[c].to>>
      OBVIOUS
    <3>2. flow[c].read[1].issuer = flow[c].to /\ flow[c].to \in Issuers
      BY <1>3, <2>1, <2>4, <3>1 DEF Usable
    <3>3. flow[c].read[1].refresh \in {NoRefresh} \cup {<<i>> : i \in Issuers}
      BY <1>3, <2>1, <3>1, RecordFields DEF TokenRecord
    <3>4. flow[c].read[1].refresh[1] = flow[c].read[1].issuer
      BY <1>3, <2>1, <3>1, <3>2 DEF RecordOK
    <3>5. QED
      BY <2>1, <3>1, <3>2, <3>3, <3>4
  <2> HIDE DEF call
  <2>6. flow' \in [Clients -> FlowRecord] /\ \A d \in Clients : FlowOK(d)'
    <3>1. RecordOK(call.read) /\ (call.at # "idle" => call.to \in Issuers /\ currentIssuer'[c] = call.to)
      BY <1>3, <2>2, <2>3, <2>4
    <3>2. call.at = "refreshing" =>
             call.read # NoRecord /\ call.read[1].issuer = call.to /\ call.read[1].refresh = <<call.to>>
      BY <2>1, <2>3, <2>5
    <3>3. QED
      BY <2>2, <2>3, <2>4, <3>1, <3>2, FlowMoves DEF ClientInv
  <2>7. RecordOK(credentials)'
    BY <1>3, <2>1, NoRecordOK DEF RecordOK
  <2>8. QED
    BY <2>2, <2>6, <2>7 DEF ClientInv
<1>8. ASSUME NEW c \in Clients, Refresh(c) PROVE ClientInv'
  <2>1. /\ flow[c].at = "refreshing" /\ UNCHANGED <<advertised, reading>>
        /\ refreshSent' = refreshSent \cup {[of |-> flow[c].read[1].refresh[1], to |-> flow[c].to]}
    BY <1>8 DEF Refresh
  <2>2. \A sent \in refreshSent' : sent.of = sent.to
    BY <1>3, <2>1 DEF FlowOK, ClientInv
  <2>3. /\ flow' \in [Clients -> FlowRecord] /\ \A d \in Clients : FlowOK(d)'
        /\ RecordOK(credentials)' /\ currentIssuer' \in [Clients -> Issuers \cup {NoIssuer}]
    <3>1. ASSUME NEW refresh \in {NoRefresh, <<flow[c].to>>}, UNCHANGED <<credentials, currentIssuer>>,
                 Moves(c, "refreshing", [flow[c] EXCEPT !.at = "saving", !.granted = refresh])
          PROVE  flow' \in [Clients -> FlowRecord] /\ \A d \in Clients : FlowOK(d)'
      <4> DEFINE call == [flow[c] EXCEPT !.at = "saving", !.granted = refresh]
      <4>1. flow' = [flow EXCEPT ![c] = call]
        BY <3>1 DEF Moves
      <4>2. flow[c] \in FlowRecord /\ flow[c].to \in Issuers
        BY <1>3, <2>1
      <4>3. call \in FlowRecord /\ call.at = "saving" /\ call.to = flow[c].to /\ call.read = flow[c].read /\ call.granted = refresh
        BY <4>2, CallGranted
      <4> HIDE DEF call
      <4>4. QED
        BY <1>3, <2>1, <3>1, <4>1, <4>3, FlowMoves DEF ClientInv
    <3>2. ASSUME NEW scope \in {"all", "tokens"}, Moves(c, "refreshing", NoFlow), InvalidateCredentials(c, scope)
          PROVE  /\ flow' \in [Clients -> FlowRecord] /\ \A d \in Clients : FlowOK(d)'
                 /\ RecordOK(credentials)' /\ currentIssuer' \in [Clients -> Issuers \cup {NoIssuer}]
      <4>1. currentIssuer' \in [Clients -> Issuers \cup {NoIssuer}] /\ \A d \in Clients \ {c} : currentIssuer'[d] = currentIssuer[d]
        BY <3>2 DEF InvalidateCredentials, ClientInv
      <4>2. flow' \in [Clients -> FlowRecord] /\ \A d \in Clients : FlowOK(d)'
        BY <1>2, <3>2, <4>1, FlowMoves, NoRecordOK DEF Moves
      <4>3. RecordOK(credentials)'
        BY <3>2, NoRecordOK DEF InvalidateCredentials, RecordOK
      <4>4. QED
        BY <4>1, <4>2, <4>3
    <3>3. ASSUME Moves(c, "refreshing", [flow[c] EXCEPT !.at = "authorizing"]), UNCHANGED <<credentials, currentIssuer>>
          PROVE  flow' \in [Clients -> FlowRecord] /\ \A d \in Clients : FlowOK(d)'
      <4> DEFINE call == [flow[c] EXCEPT !.at = "authorizing"]
      <4>1. call \in FlowRecord /\ call.at = "authorizing" /\ call.to = flow[c].to /\ call.read = flow[c].read
        <5>1. flow[c] \in FlowRecord /\ "authorizing" \in FlowStates /\ "refreshing" \in FlowStates
          BY <1>3 DEF FlowStates
        <5>2. QED
          BY <5>1, CallMoves
      <4>2. flow' = [flow EXCEPT ![c] = call]
        BY <3>3 DEF Moves
      <4> HIDE DEF call
      <4>3. QED
        BY <1>3, <2>1, <3>3, <4>1, <4>2, FlowMoves DEF ClientInv
    <3>4. QED
      BY <1>8, <3>1, <3>2, <3>3 DEF Refresh, ClientInv, RecordOK
  <2>4. QED
    BY <2>1, <2>2, <2>3 DEF ClientInv
<1>9. ASSUME NEW c \in Clients, RedirectToAuthorization(c) PROVE ClientInv'
  <2>1. PICK given \in {NoIssuer, flow[c].to} :
          /\ Moves(c, "authorizing", [NoFlow EXCEPT !.code = given])
          /\ UNCHANGED <<advertised, credentials, currentIssuer, reading, refreshSent>>
    BY <1>9 DEF RedirectToAuthorization
  <2> DEFINE call == [NoFlow EXCEPT !.code = given]
  <2>2. given \in Issuers \cup {NoIssuer}
    BY <1>3, CallFields
  <2>3. call \in FlowRecord /\ call.at = "idle" /\ call.read = NoRecord
    BY <2>2 DEF NoFlow, FlowRecord, FlowStates, TokenRecords
  <2>4. flow' = [flow EXCEPT ![c] = call]
    BY <2>1 DEF Moves
  <2> HIDE DEF call
  <2>5. flow' \in [Clients -> FlowRecord] /\ \A d \in Clients : FlowOK(d)'
    BY <1>3, <2>1, <2>3, <2>4, FlowMoves, NoRecordOK DEF ClientInv
  <2>6. QED
    BY <2>1, <2>5 DEF ClientInv
<1>10. ASSUME NEW c \in Clients, SaveWrites(c) PROVE ClientInv'
  <2>1. /\ flow[c].at = "merging" /\ flow' = [flow EXCEPT ![c] = NoFlow]
        /\ credentials' = <<[issuer |-> currentIssuer[c], refresh |-> Kept(c)]>>
        /\ UNCHANGED <<advertised, currentIssuer, reading, refreshSent>>
    BY <1>10 DEF SaveWrites, Moves
  <2>2. flow' \in [Clients -> FlowRecord] /\ \A d \in Clients : FlowOK(d)'
    BY <1>2, <2>1, FlowMoves, NoRecordOK DEF ClientInv
  <2>3. Kept(c) \in {NoRefresh} \cup {<<i>> : i \in Issuers} /\ (Kept(c) # NoRefresh => Kept(c)[1] = currentIssuer[c])
    <3>1. CASE flow[c].granted = NoRefresh /\ Inheritable(c, flow[c].read)
      <4>1. Kept(c) = flow[c].read[1].refresh
        BY <3>1 DEF Kept
      <4>2. flow[c].read # NoRecord /\ flow[c].read[1].issuer # NoIssuer /\ flow[c].read[1].issuer = currentIssuer[c]
        BY <3>1 DEF Inheritable
      <4>3. flow[c].read[1] \in TokenRecord
        BY <1>3, <4>2, RecordFields
      <4>4. Kept(c) # NoRefresh => Kept(c)[1] = flow[c].read[1].issuer
        BY <1>3, <4>1, <4>2 DEF RecordOK
      <4>5. QED
        BY <4>1, <4>2, <4>3, <4>4 DEF TokenRecord
    <3>2. CASE ~(flow[c].granted = NoRefresh /\ Inheritable(c, flow[c].read))
      <4>1. Kept(c) = flow[c].granted
        BY <3>2 DEF Kept
      <4>2. QED
        BY <1>3, <2>1, <4>1, CallFields DEF FlowOK
    <3>3. QED
      BY <3>1, <3>2
  <2>4. RecordOK(credentials')
    BY <1>3, <2>1, <2>3, RecordMade
  <2>5. QED
    BY <2>1, <2>2, <2>4 DEF ClientInv, RecordOK
<1>11. ASSUME NEW c \in Clients, TransportReads(c) PROVE ClientInv'
  BY <1>11 DEF TransportReads, ClientInv, FlowOK, RecordOK
<1>12. ASSUME NEW c \in Clients, TransportJudges(c) PROVE ClientInv'
  <2>1. RecordOK(credentials')
    BY <1>3, <1>12, NoRecordOK DEF TransportJudges
  <2>2. QED
    BY <1>12, <2>1 DEF TransportJudges, ClientInv, FlowOK, RecordOK
<1>13. CASE UNCHANGED clientVars
  BY <1>13 DEF clientVars, ClientInv, FlowOK, RecordOK
<1>14. QED
  BY <1>1, <1>4, <1>5, <1>6, <1>7, <1>8, <1>9, <1>10, <1>11, <1>12, <1>13 DEF ClientAuthNext

\* That sends a refresh token home only.
LEMMA ClientHome == ClientInv => RefreshTokenHome
BY DEF ClientInv, RefreshTokenHome, RecordOK

\* A document of the cache, and one that came for a fetch, are no older than they say.
Document == [version : Nat, fetchedAt : Nat]
DocumentOK(doc) ==
    /\ doc \in Document /\ doc.version \in 1..Current /\ doc.fetchedAt <= asNow
    /\ CurrentSince(doc.version, doc.fetchedAt - FetchTimeout)
FetchRecord == [id : Nat, since : Nat, background : BOOLEAN, body : Int]
FetchOK(f) ==
    /\ f \in FetchRecord /\ f.body \in 1..Current \cup {Pending, Failed}
    /\ f.since <= asNow /\ asNow <= f.since + FetchTimeout
    /\ f.body \in 1..Current => CurrentSince(f.body, f.since)
ServedOK(doc) ==
    /\ doc.version \in 1..Current /\ doc.at \in Nat /\ doc.at <= asNow
    /\ ~doc.renewing => CurrentSince(doc.version, doc.at - CacheTtlMs - FetchTimeout)

AsInv ==
    /\ asNow \in Nat
    /\ Current \in Nat \ {0} /\ DOMAIN published = 1..Current
    /\ \A v \in 1..Current : published[v] \in Nat
    /\ metadata # Nothing => DocumentOK(metadata[1])
    /\ \A f \in fetches : FetchOK(f)
    /\ refreshing \in BOOLEAN /\ (refreshing <=> \E f \in fetches : f.background)
    /\ \A f, g \in fetches : f.background /\ g.background => f = g
    /\ served # Nothing => ServedOK(served[1])

\* The proxy begins without a document.
LEMMA AsInitInv == AsInit => AsInv
<1> SUFFICES ASSUME AsInit PROVE AsInv
  OBVIOUS
<1>1. Current = 1
  <2>1. DOMAIN published = {1}
    BY DEF AsInit
  <2>2. QED
    BY <2>1, FS_Singleton DEF Current
<1>2. DOMAIN published = 1..1 /\ published[1] = 0
  BY DEF AsInit
<1>3. \A v \in 1..Current : published[v] \in Nat
  BY <1>1, <1>2
<1>4. refreshing = FALSE /\ fetches = {} /\ metadata = Nothing /\ served = Nothing /\ asNow = 0
  BY DEF AsInit
<1>5. Current \in Nat \ {0} /\ DOMAIN published = 1..Current
  BY <1>1, <1>2
<1>6. refreshing \in BOOLEAN /\ (refreshing <=> \E f \in fetches : f.background)
  BY <1>4
<1>7. asNow \in Nat
  BY <1>4
<1>8. \A f \in fetches : FALSE
  BY <1>4
<1>9. QED
  BY <1>3, <1>4, <1>5, <1>6, <1>7, <1>8, Zenon DEF AsInv

\* Current at some time since s is more than current at some time since an earlier t.
LEMMA SinceEarlier ==
    ASSUME AsInv, NEW v \in 1..Current, NEW s \in Int, NEW t \in Int, t <= s, CurrentSince(v, s)
    PROVE  CurrentSince(v, t)
<1>1. CASE v = Current
  BY <1>1 DEF CurrentSince
<1>2. CASE v # Current
  <2>1. published[v + 1] \in Nat /\ published[v + 1] >= s
    BY <1>2 DEF CurrentSince, AsInv
  <2>2. QED
    BY <2>1 DEF CurrentSince
<1>3. QED
  BY <1>1, <1>2

\* A new version upstream makes the older ones current until now.
LEMMA PublishInv == ASSUME AsInv, Publish PROVE AsInv'
<1> USE AsMetadataAssumption
<1>1. /\ published' = [v \in 1..(Current + 1) |-> IF v \in DOMAIN published THEN published[v] ELSE asNow]
      /\ UNCHANGED <<asNow, metadata, refreshing, fetches, served>>
  BY DEF Publish
<1>2. Current \in Nat /\ DOMAIN published = 1..Current
  BY DEF AsInv
<1>3. Current' = Current + 1 /\ DOMAIN published' = 1..(Current + 1)
  <2>1. DOMAIN published' = 1..(Current + 1)
    BY <1>1
  <2>2. Cardinality(1..(Current + 1)) = Current + 1
    BY <1>2, FS_Interval
  <2>3. QED
    BY <2>1, <2>2 DEF Current
<1> DEFINE n == Current
<1> HIDE DEF n
<1>4. \A v \in 1..n : published'[v] = published[v]
  BY <1>1, <1>2 DEF n
<1>5. published'[n + 1] = asNow
  BY <1>1, <1>2 DEF n
<1>6. n \in Nat \ {0} /\ Current' = n + 1 /\ asNow \in Nat /\ n = Current
  BY <1>2, <1>3 DEF n, AsInv
<1>7. ASSUME NEW v \in 1..n, NEW t \in Int, t <= asNow, CurrentSince(v, t)
      PROVE  v \in 1..Current' /\ (v = Current' \/ published'[v + 1] >= t)
  <2>1. CASE v = n
    BY <1>5, <1>6, <1>7, <2>1 DEF CurrentSince
  <2>2. CASE v # n
    <3>1. v + 1 \in 1..n /\ published[v + 1] >= t
      BY <1>6, <1>7, <2>2 DEF CurrentSince
    <3>2. QED
      BY <1>4, <1>6, <3>1 DEF CurrentSince
  <2>3. QED
    BY <2>1, <2>2
<1>8. metadata # Nothing => DocumentOK(metadata[1])'
  <2>1. SUFFICES ASSUME metadata # Nothing PROVE DocumentOK(metadata[1])'
    OBVIOUS
  <2> DEFINE doc == metadata[1]
  <2>2. DocumentOK(doc)
    BY <2>1 DEF AsInv
  <2>3. doc.version \in 1..n /\ doc.fetchedAt \in Nat /\ doc.fetchedAt <= asNow /\ CurrentSince(doc.version, doc.fetchedAt - FetchTimeout)
    BY <1>6, <2>2 DEF DocumentOK, Document
  <2>4. doc.fetchedAt - FetchTimeout \in Int /\ doc.fetchedAt - FetchTimeout <= asNow
    BY <1>6, <2>3
  <2>5. doc.version \in 1..Current' /\ CurrentSince(doc.version, doc.fetchedAt - FetchTimeout)'
    BY <1>1, <1>7, <2>3, <2>4 DEF CurrentSince
  <2>6. QED
    BY <1>1, <2>2, <2>5 DEF DocumentOK, CurrentSince
<1>9. ASSUME NEW f \in fetches PROVE FetchOK(f)'
  <2>1. FetchOK(f) /\ f.since \in Nat
    BY DEF AsInv, FetchOK, FetchRecord
  <2>2. f.body \in 1..n => f.body \in 1..Current' /\ CurrentSince(f.body, f.since)'
    BY <1>6, <1>7, <2>1 DEF FetchOK, CurrentSince
  <2>3. f.body \in 1..Current' => f.body \in 1..n
    BY <1>6, <2>1 DEF FetchOK, Pending, Failed
  <2>4. f.body \in 1..Current' \cup {Pending, Failed}
    BY <1>6, <2>1, <2>2 DEF FetchOK
  <2>5. QED
    BY <1>1, <2>1, <2>2, <2>3, <2>4 DEF FetchOK
<1>10. served # Nothing => ServedOK(served[1])'
  <2>1. SUFFICES ASSUME served # Nothing PROVE ServedOK(served[1])'
    OBVIOUS
  <2> DEFINE doc == served[1]
  <2>2. ServedOK(doc)
    BY <2>1 DEF AsInv
  <2>3. doc.version \in 1..n /\ doc.at \in Nat /\ doc.at <= asNow
    BY <1>6, <2>2 DEF ServedOK
  <2> DEFINE t == doc.at - CacheTtlMs - FetchTimeout
  <2>4. t \in Int /\ t <= asNow
    BY <1>6, <2>3
  <2>5. ~doc.renewing => CurrentSince(doc.version, t)
    BY <2>2 DEF ServedOK
  <2>8. UNCHANGED t
    BY <1>1
  <2> HIDE DEF t
  <2>9. ~doc.renewing => doc.version = Current' \/ published'[doc.version + 1] >= t
    BY <1>7, <2>3, <2>4, <2>5
  <2>6. doc.version \in 1..Current'
    BY <1>6, <2>3
  <2>7. QED
    BY <1>1, <2>3, <2>6, <2>9 DEF ServedOK, CurrentSince, t
<1>11. \A v \in 1..Current' : published'[v] \in Nat
  BY <1>4, <1>5, <1>6 DEF AsInv
<1>12. QED
  BY <1>1, <1>3, <1>6, <1>8, <1>9, <1>10, <1>11 DEF AsInv

\* Every step keeps the documents as recent as they say.
LEMMA AsNextInv == AsInv /\ [AsNext]_asVars => AsInv'
<1> SUFFICES ASSUME AsInv, [AsNext]_asVars PROVE AsInv'
  OBVIOUS
<1> USE AsMetadataAssumption
<1>1. CASE AsTick
  <2>1. /\ asNow' = asNow + 1 /\ asNow \in Nat /\ asNow' \in Nat /\ asNow <= asNow' /\ Current' = Current
        /\ UNCHANGED <<published, metadata, refreshing, fetches, served>>
    BY <1>1 DEF AsTick, AsInv, Current
  <2>2. ASSUME NEW f \in fetches PROVE FetchOK(f)'
    <3>1. FetchOK(f) /\ f.since \in Nat /\ asNow < f.since + FetchTimeout
      BY <1>1 DEF AsTick, AsInv, FetchOK, FetchRecord
    <3>2. QED
      BY <2>1, <3>1 DEF FetchOK, CurrentSince
  <2>3. metadata # Nothing => DocumentOK(metadata[1])'
    BY <2>1 DEF AsInv, DocumentOK, Document, CurrentSince
  <2>4. served # Nothing => ServedOK(served[1])'
    BY <2>1 DEF AsInv, ServedOK, CurrentSince
  <2>5. QED
    BY <2>1, <2>2, <2>3, <2>4 DEF AsInv
<1>2. CASE Publish
  BY <1>2, PublishInv
<1>3. CASE GetMetadata
  <2>1. UNCHANGED <<asNow, published, metadata>> /\ Current' = Current /\ asNow \in Nat
    BY <1>3 DEF GetMetadata, Current, AsInv
  <2>2. ASSUME NEW background \in BOOLEAN, NewFetch(background)
        PROVE  \E f : /\ f.background = background /\ fetches' = fetches \cup {f} /\ FetchOK(f)
    <3>1. PICK n \in 1..MaxFetches : fetches' = fetches \cup {Fetch(n, background)}
      BY <2>2 DEF NewFetch
    <3>2. FetchOK(Fetch(n, background)) /\ Fetch(n, background).background = background
      BY <2>1 DEF Fetch, FetchOK, FetchRecord, Pending, AsInv
    <3>3. QED
      BY <3>1, <3>2
  <2>3. ASSUME metadata # Nothing, Serve, Fresh \/ \E f \in fetches' : f.background
        PROVE  served' # Nothing /\ ServedOK(served'[1])
    <3> DEFINE doc == metadata[1]
               sent == served'[1]
               renewing == \E f \in fetches' : f.background
    <3>1. DocumentOK(doc) /\ doc.version \in 1..Current /\ doc.fetchedAt \in Nat
      BY <2>3 DEF AsInv, DocumentOK, Document
    <3>2a. served' = <<[version |-> doc.version, at |-> asNow, renewing |-> renewing]>>
      BY <2>3, Zenon DEF Serve
    <3> HIDE DEF renewing
    <3>2. served' # Nothing /\ sent.version = doc.version /\ sent.at = asNow /\ sent.renewing = renewing
      BY <3>2a DEF Nothing
    <3> HIDE DEF sent
    <3>3. ~sent.renewing => CurrentSince(doc.version, asNow - CacheTtlMs - FetchTimeout)
      <4>1. SUFFICES ASSUME ~sent.renewing PROVE CurrentSince(doc.version, asNow - CacheTtlMs - FetchTimeout)
        OBVIOUS
      <4>2. asNow - doc.fetchedAt < CacheTtlMs
        BY <2>3, <3>2, <4>1 DEF Fresh, renewing
      <4>3. /\ asNow - CacheTtlMs - FetchTimeout <= doc.fetchedAt - FetchTimeout
            /\ asNow - CacheTtlMs - FetchTimeout \in Int /\ doc.fetchedAt - FetchTimeout \in Int
        BY <2>1, <3>1, <4>2
      <4>4. CurrentSince(doc.version, doc.fetchedAt - FetchTimeout)
        BY <3>1 DEF DocumentOK
      <4>5. QED
        BY <3>1, <4>3, <4>4, SinceEarlier
    <3>4. QED
      BY <2>1, <3>1, <3>2, <3>3 DEF ServedOK, sent
  <2>4. CASE metadata # Nothing /\ UNCHANGED <<refreshing, fetches>> /\ Serve /\ (Fresh \/ refreshing)
    <3>1. ServedOK(served'[1])
      BY <2>3, <2>4 DEF AsInv
    <3>2. QED
      BY <2>1, <2>4, <3>1 DEF AsInv, FetchOK, DocumentOK, ServedOK, CurrentSince
  <2>5. CASE metadata # Nothing /\ ~refreshing /\ refreshing' = TRUE /\ NewFetch(TRUE) /\ Serve
    <3>1. PICK f : f.background = TRUE /\ fetches' = fetches \cup {f} /\ FetchOK(f)
      BY <2>2, <2>5
    <3>2. ServedOK(served'[1])
      BY <2>3, <2>5, <3>1
    <3>3. \A g \in fetches : ~g.background
      BY <2>5 DEF AsInv
    <3>4. QED
      BY <2>1, <2>5, <3>1, <3>2, <3>3 DEF AsInv, FetchOK, DocumentOK, ServedOK, CurrentSince
  <2>6. CASE metadata = Nothing /\ NewFetch(FALSE) /\ UNCHANGED <<refreshing, served>>
    <3>1. PICK f : f.background = FALSE /\ fetches' = fetches \cup {f} /\ FetchOK(f)
      BY <2>2, <2>6
    <3>2. QED
      BY <2>1, <2>6, <3>1 DEF AsInv, FetchOK, DocumentOK, ServedOK, CurrentSince
  <2>7. QED
    BY <1>3, <2>4, <2>5, <2>6 DEF GetMetadata
<1>4. ASSUME NEW f \in fetches, UpstreamAnswers(f) PROVE AsInv'
  <2>1. PICK body \in {Current, Failed} : fetches' = (fetches \ {f}) \cup {[f EXCEPT !.body = body]}
    BY <1>4 DEF UpstreamAnswers
  <2>2. UNCHANGED <<asNow, published, metadata, refreshing, served>> /\ Current' = Current /\ Current \in Nat \ {0}
    BY <1>4 DEF UpstreamAnswers, Current, AsInv
  <2> DEFINE g == [f EXCEPT !.body = body]
  <2>3. FetchOK(f) /\ f \in FetchRecord
    BY DEF AsInv, FetchOK
  <2>4. body \in Int
    BY <2>2 DEF Failed
  <2>5. g \in FetchRecord /\ g.since = f.since /\ g.background = f.background /\ g.body = body
    BY <2>3, <2>4 DEF FetchRecord
  <2> HIDE DEF g
  <2>6. FetchOK(g)
    BY <2>2, <2>3, <2>5 DEF FetchOK, CurrentSince, Failed
  <2>7. fetches' = (fetches \ {f}) \cup {g}
    BY <2>1 DEF g
  <2>8. \A h \in fetches' : FetchOK(h)'
    BY <2>2, <2>6, <2>7 DEF AsInv, FetchOK, CurrentSince
  <2>9. (\E h \in fetches : h.background) <=> \E h \in fetches' : h.background
    BY <2>5, <2>7
  <2>10. \A h, i \in fetches' : h.background /\ i.background => h = i
    BY <2>5, <2>7 DEF AsInv
  <2>11. QED
    BY <2>2, <2>8, <2>9, <2>10 DEF AsInv, DocumentOK, ServedOK, CurrentSince
<1>5. ASSUME NEW f \in fetches, FetchEnds(f) PROVE AsInv'
  <2>1. /\ fetches' = fetches \ {f} /\ refreshing' = (IF f.background THEN FALSE ELSE refreshing)
        /\ UNCHANGED <<asNow, published, served>> /\ Current' = Current /\ asNow \in Nat
    BY <1>5 DEF FetchEnds, Settled, Current, AsInv
  <2>2. FetchOK(f) /\ f.since \in Nat /\ f.background \in BOOLEAN
    BY DEF AsInv, FetchOK, FetchRecord
  <2>3. refreshing' \in BOOLEAN /\ (refreshing' <=> \E g \in fetches' : g.background)
    BY <2>1, <2>2 DEF AsInv
  <2>4. metadata' # Nothing => DocumentOK(metadata'[1])
    <3>1. CASE UNCHANGED metadata
      BY <3>1 DEF AsInv
    <3>2. CASE /\ f.body \in DOMAIN published
               /\ metadata' = <<[version |-> f.body, fetchedAt |-> IF f.background THEN asNow ELSE f.since]>>
      <4> DEFINE from == IF f.background THEN asNow ELSE f.since
      <4>1. f.body \in 1..Current /\ CurrentSince(f.body, f.since) /\ f.body \in Nat
        BY <2>2, <3>2 DEF AsInv, FetchOK
      <4>2. from \in Nat /\ from <= asNow /\ from - FetchTimeout <= f.since /\ from - FetchTimeout \in Int
        BY <2>1, <2>2 DEF FetchOK
      <4>3. CurrentSince(f.body, from - FetchTimeout)
        BY <2>2, <4>1, <4>2, SinceEarlier
      <4>4. metadata'[1] = [version |-> f.body, fetchedAt |-> from]
        BY <3>2
      <4> HIDE DEF from
      <4>5. QED
        BY <4>1, <4>2, <4>3, <4>4 DEF DocumentOK, Document
    <3>3. QED
      BY <1>5, <3>1, <3>2 DEF FetchEnds
  <2>5. QED
    BY <2>1, <2>3, <2>4 DEF AsInv, FetchOK, DocumentOK, ServedOK, CurrentSince
<1>6. CASE UNCHANGED asVars
  BY <1>6 DEF asVars, AsInv, FetchOK, DocumentOK, ServedOK, CurrentSince, Current
<1>7. QED
  BY <1>1, <1>2, <1>3, <1>4, <1>5, <1>6 DEF AsNext

\* That makes a document served without renewal recent, and the renewal the only one.
LEMMA AsRecent == AsInv => FreshMeansRecent
<1> SUFFICES ASSUME AsInv PROVE FreshMeansRecent
  OBVIOUS
<1> DEFINE renewals == {f \in fetches : f.background}
<1>1. Cardinality(renewals) <= 1
  <2>1. CASE renewals = {}
    BY <2>1, FS_EmptySet
  <2>2. CASE \E f \in renewals : renewals = {f}
    BY <2>2, FS_Singleton
  <2>3. QED
    BY <2>1, <2>2 DEF AsInv
<1>2. served # Nothing /\ ~served[1].renewing => CurrentSince(served[1].version, served[1].at - CacheTtlMs - FetchTimeout)
  BY DEF AsInv, ServedOK
<1>3. QED
  BY <1>1, <1>2 DEF FreshMeansRecent

(* KeptForIssuer: For any number of clients, flows, fetches and            *)
(* authorization servers, a refresh token goes back to its issuer only,    *)
(* and a document served without renewal is no older than its time to live *)
(* and one fetch (provider.ts, as-metadata-proxy.ts).                      *)
THEOREM KeptForIssuer == OAuthSpec => []KeptOfIssuer
<1>1. OAuthInit => AsInv /\ ClientInv
  BY AsInitInv, ClientInitInv DEF OAuthInit
<1>2. AsInv /\ ClientInv /\ [OAuthNext]_<<asVars, clientVars>> => AsInv' /\ ClientInv'
  BY AsNextInv, ClientNextInv DEF OAuthNext
<1>3. AsInv /\ ClientInv => KeptOfIssuer
  BY AsRecent, ClientHome DEF KeptOfIssuer
<1>4. QED
  BY <1>1, <1>2, <1>3, PTL DEF OAuthSpec

-----------------------------------------------------------------------------
(* Resources: what is offered, announced, listed and read.                 *)

\* What the client has, or will have of its latest request, once nothing more is announced to it.
ListCurrent ==
  /\ stream = "none" => notices = 0 /\ lists = {}
  /\ stream = "open" => started
  /\ \A l \in lists : l.number \in Nat /\ l.number <= asked
  /\ stream = "open" /\ notices = 0 =>
       /\ \A l \in lists : l.number = asked => l.of \in {Stale, Registered}
       /\ (\E l \in lists : l.number = asked) \/ view = Registered

ResourcesInv ==
  /\ installed \in BOOLEAN /\ started \in BOOLEAN /\ stream \in {"none", "open"}
  /\ notices \in Nat /\ asked \in Nat
  /\ resources = [u \in Registered |-> resources[u]]
  /\ Registered # {} => installed
  /\ ListCurrent /\ ReadIsHonest

\* What a step that offers something does: it adds entries, and says so if anyone can hear.
Adds(n, together) ==
  /\ MayInstall /\ n \in Nat \ {0}
  /\ installed' = TRUE /\ Announce(n, together)
  /\ together \subseteq DOMAIN resources'
  /\ resources' = [u \in DOMAIN resources' |-> resources'[u]]
  /\ DOMAIN resources' # {} /\ DOMAIN resources' # Registered
  /\ \A u \in Registered \cap DOMAIN resources' : resources'[u] = resources[u]

\* Entries that are new make the registry larger, and leave the others as they are.
LEMMA PutAdds ==
  ASSUME NEW E, E # {}, \A e \in E : e.uri \notin Registered
  PROVE  /\ Put(E) = [u \in DOMAIN Put(E) |-> Put(E)[u]]
         /\ DOMAIN Put(E) = Registered \cup {e.uri : e \in E}
         /\ DOMAIN Put(E) # {} /\ DOMAIN Put(E) # Registered
         /\ \A u \in Registered : Put(E)[u] = resources[u]
<1>1. PICK e \in E : e.uri \notin Registered
  OBVIOUS
<1> QED
  BY <1>1 DEF Put, Registered

\* What CommitsAnnounced says of a step.
CommitStep ==
  /\ (resources' # resources /\ started) <=> announced'.sent > 0
  /\ resources' # resources => announced'.together \subseteq DOMAIN resources'
  /\ resources' # Empty => installed'
  /\ started => installed' = installed
  /\ \A u \in Registered \cap DOMAIN resources' : resources'[u] = resources[u]

\* Entries are offered with an announcement, and the client will list again.
LEMMA AddsCommits ==
  ASSUME ResourcesInv, NEW n, NEW T, Adds(n, T), UNCHANGED <<started, stream, asked, lists, view, read>>
  PROVE  CommitStep /\ ResourcesInv'
<1>1. announced' = [sent |-> IF started THEN n ELSE 0, together |-> T] /\ n \in Nat \ {0}
  BY DEF Adds, Announce
<1>2. (resources' # resources /\ started) <=> announced'.sent > 0
  <2>1. resources' # resources
    BY DEF Adds, Registered
  <2>2. announced'.sent = IF started THEN n ELSE 0
    BY <1>1
  <2> QED
    BY <1>1, <2>1, <2>2 DEF ResourcesInv
<1>3. announced'.together = T
  BY <1>1
<1>4. CommitStep
  BY <1>2, <1>3 DEF Adds, CommitStep, MayInstall, ResourcesInv
<1>5. ListCurrent'
  BY <1>1 DEF ResourcesInv, ListCurrent, Adds, Announce
<1>6. notices' \in Nat
  BY <1>1 DEF ResourcesInv, Adds, Announce
<1> QED
  BY <1>4, <1>5, <1>6 DEF ResourcesInv, ReadIsHonest, Adds, Registered

\* A registration that throws changes nothing, and says nothing.
LEMMA NothingCommits ==
  ASSUME ResourcesInv, Unchanged, UNCHANGED <<started, stream, asked, lists, view, read>>
  PROVE  CommitStep /\ ResourcesInv'
<1>1. announced'.sent = 0 /\ UNCHANGED <<resources, installed, notices>>
  BY DEF Unchanged, Quiet
<1>2. resources # Empty => installed
  <2>1. Registered = {} => resources = Empty
    BY DEF Registered, Empty, ResourcesInv
  <2> QED
    BY <2>1 DEF ResourcesInv
<1> QED
  BY <1>1, <1>2 DEF CommitStep, ResourcesInv, ListCurrent, ReadIsHonest, Registered

\* A batch that is not empty has entries.
LEMMA BatchEntries ==
  ASSUME NEW batch \in Batches
  PROVE  /\ DOMAIN batch = 1..Len(batch) /\ Len(batch) \in Nat
         /\ batch # << >> => EntriesOf(batch) # {}
<1>1. batch \in Seq({batch[i] : i \in DOMAIN batch})
  BY ResourcesAssumption
<1>2. DOMAIN batch = 1..Len(batch) /\ Len(batch) \in Nat /\ (batch # << >> => Len(batch) > 0)
  BY <1>1
<1>3. batch # << >> => 1 \in DOMAIN batch
  BY <1>2
<1> QED
  BY <1>2, <1>3 DEF EntriesOf

\* registerResource() is whole.
LEMMA RegisterResourceStep ==
  ASSUME ResourcesInv, NEW e, RegisterResource(e)
  PROVE  CommitStep /\ ResourcesInv'
<1>1. UNCHANGED <<started, stream, asked, lists, view, read>>
  BY DEF RegisterResource
<1>2. CASE Unchanged
  BY <1>1, <1>2, NothingCommits
<1>3. CASE e.uri \notin Registered /\ MayInstall /\ resources' = Put({e}) /\ installed' = TRUE /\ Announce(1, {e.uri})
  <2>1. /\ resources' = [u \in DOMAIN resources' |-> resources'[u]]
        /\ DOMAIN resources' = Registered \cup {x.uri : x \in {e}} /\ DOMAIN resources' # {} /\ DOMAIN resources' # Registered
        /\ \A u \in Registered : resources'[u] = resources[u]
    BY <1>3, PutAdds
  <2>2. Adds(1, {e.uri})
    BY <1>3, <2>1 DEF Adds
  <2> QED
    BY <1>1, <2>2, AddsCommits
<1> QED
  BY <1>2, <1>3 DEF RegisterResource

\* registerResources() commits all of the batch or nothing.
LEMMA RegisterResourcesStep ==
  ASSUME ResourcesInv, NEW batch \in Batches, RegisterResources(batch)
  PROVE  CommitStep /\ ResourcesInv'
<1>1. UNCHANGED <<started, stream, asked, lists, view, read>>
  BY DEF RegisterResources
<1>2. CASE Unchanged
  BY <1>1, <1>2, NothingCommits
<1>3. CASE /\ batch # << >> /\ ~BatchFails(batch) /\ resources' = Put(EntriesOf(batch)) /\ installed' = TRUE
           /\ Announce(1, {e.uri : e \in EntriesOf(batch)})
  <2>1. EntriesOf(batch) # {} /\ \A e \in EntriesOf(batch) : e.uri \notin Registered
    BY <1>3, BatchEntries DEF BatchFails
  <2>2. MayInstall
    BY <1>3 DEF BatchFails
  <2>3. Adds(1, {e.uri : e \in EntriesOf(batch)})
    <3> DEFINE T == {e.uri : e \in EntriesOf(batch)}
    <3>1. /\ DOMAIN resources' = Registered \cup T /\ DOMAIN resources' # {} /\ DOMAIN resources' # Registered
          /\ \A u \in Registered : resources'[u] = resources[u]
          /\ resources' = [u \in DOMAIN resources' |-> resources'[u]]
      BY <1>3, <2>1, PutAdds
    <3> HIDE DEF T
    <3>2. Adds(1, T)
      BY <1>3, <2>2, <3>1 DEF Adds, T
    <3> QED
      BY <3>2 DEF T
  <2> QED
    BY <1>1, <2>3, AddsCommits
<1> QED
  BY <1>2, <1>3 DEF RegisterResources

\* registerViewers() commits at least one viewer, or nothing.
LEMMA RegisterViewersStep ==
  ASSUME ResourcesInv, NEW batch \in Batches, RegisterViewers(batch)
  PROVE  CommitStep /\ ResourcesInv'
<1>1. UNCHANGED <<started, stream, asked, lists, view, read>>
  BY DEF RegisterViewers
<1>2. CASE Unchanged
  BY <1>1, <1>2, NothingCommits
<1> DEFINE C == ViewersUpTo(batch)
           E == {batch[i] : i \in C}
<1>3. CASE /\ C # {} /\ MayInstall /\ resources' = Put(E) /\ installed' = TRUE
           /\ Announce(Cardinality(C), {})
  <2>1. C \subseteq 1..Len(batch) /\ Len(batch) \in Nat
    BY BatchEntries DEF ViewersUpTo
  <2>2. IsFiniteSet(C)
    <3>1. IsFiniteSet(1..Len(batch))
      BY <2>1, FS_Interval
    <3> QED
      BY <2>1, <3>1, FS_Subset
  <2>3. Cardinality(C) \in Nat \ {0}
    BY <1>3, <2>2, FS_CardinalityType, FS_EmptySet
  <2>4. \A i \in C : batch[i].uri \notin Registered
    BY <2>1 DEF ViewersUpTo
  <2>5. E # {} /\ \A e \in E : e.uri \notin Registered
    BY <1>3, <2>4
  <2>6. Adds(Cardinality(C), {})
    <3> HIDE DEF C, E
    <3> QED
      BY <1>3, <2>3, <2>5, PutAdds DEF Adds
  <2> QED
    BY <1>1, <2>6, AddsCommits
<1> QED
  BY <1>2, <1>3 DEF RegisterViewers

\* A resource that is removed is announced.
LEMMA UnregisterResourceStep ==
  ASSUME ResourcesInv, NEW uri, UnregisterResource(uri)
  PROVE  CommitStep /\ ResourcesInv'
<1>1. /\ uri \in Registered /\ DOMAIN resources' = Registered \ {uri}
      /\ resources' = [u \in Registered \ {uri} |-> resources[u]]
      /\ announced' = [sent |-> IF started THEN 1 ELSE 0, together |-> {}]
      /\ notices' = IF stream = "open" THEN notices + 1 ELSE notices
      /\ UNCHANGED <<installed, started, stream, asked, lists, view, read>>
  BY DEF UnregisterResource, Announce
<1>2. resources' # resources /\ installed
  BY <1>1 DEF Registered, ResourcesInv
<1>3. announced'.sent = (IF started THEN 1 ELSE 0) /\ announced'.together = {}
  BY <1>1
<1>4. CommitStep
  BY <1>1, <1>2, <1>3 DEF CommitStep, ResourcesInv
<1>5. ListCurrent' /\ notices' \in Nat
  BY <1>1 DEF ResourcesInv, ListCurrent
<1> QED
  BY <1>1, <1>2, <1>4, <1>5 DEF ResourcesInv, ReadIsHonest, Registered

\* A start announces nothing.
LEMMA StartsStep ==
  ASSUME ResourcesInv, Starts
  PROVE  CommitStep /\ ResourcesInv'
<1>1. /\ ~started /\ started' = TRUE /\ announced'.sent = 0
      /\ UNCHANGED <<resources, installed, stream, notices, asked, lists, view, read>>
  BY DEF Starts, client, Quiet
<1>2. resources # Empty => installed
  <2>1. Registered = {} => resources = Empty
    BY DEF Registered, Empty, ResourcesInv
  <2> QED
    BY <2>1 DEF ResourcesInv
<1> QED
  BY <1>1, <1>2 DEF CommitStep, ResourcesInv, ListCurrent, ReadIsHonest, Registered

----------------------------------------------------------------------------
\* The registry and the announcements stay as they are.
Still == UNCHANGED <<resources, installed, announced, started>>

\* The acknowledgement will make the client list.
LEMMA OpenStreamStep ==
  ASSUME ResourcesInv, OpenStream
  PROVE  Still /\ ResourcesInv'
BY DEF OpenStream, registry, Still, ResourcesInv, ListCurrent, ReadIsHonest, Registered

\* The latest request is behind every change announced so far.
LEMMA NotifiedStep ==
  ASSUME ResourcesInv, Notified
  PROVE  Still /\ ResourcesInv'
<1>1. /\ notices > 0 /\ notices' = notices - 1 /\ asked' = asked + 1
      /\ lists' = lists \cup {[number |-> asked + 1, of |-> Stale]}
      /\ UNCHANGED <<resources, installed, announced, started, stream, view, read>>
  BY DEF Notified, registry
<1>2. PICK l : l = [number |-> asked + 1, of |-> Stale] /\ lists' = lists \cup {l}
  BY <1>1
<1>3. l.number = asked' /\ l.of = Stale /\ asked \in Nat /\ asked' \in Nat /\ notices' \in Nat
  BY <1>1, <1>2 DEF ResourcesInv
<1>4. \A k \in lists : k.number \in Nat /\ k.number <= asked /\ k.number # asked'
  BY <1>1, <1>3 DEF ResourcesInv, ListCurrent
<1>5. stream # "none"
  BY <1>1 DEF ResourcesInv, ListCurrent
<1>6. ListCurrent'
  BY <1>1, <1>2, <1>3, <1>4, <1>5 DEF ResourcesInv, ListCurrent
<1> QED
  BY <1>1, <1>3, <1>6 DEF ResourcesInv, ReadIsHonest, Still, Registered

\* An answer to the latest request is what is registered, or a notification follows.
LEMMA ListResourcesStep ==
  ASSUME ResourcesInv, NEW request \in lists, ListResources(request)
  PROVE  Still /\ ResourcesInv'
<1>1. PICK l : l = [request EXCEPT !.of = Registered]
  OBVIOUS
<1>2. /\ request.of = Stale /\ lists' = (lists \ {request}) \cup {l}
      /\ UNCHANGED <<resources, installed, announced, started, stream, notices, asked, view, read>>
  BY <1>1 DEF ListResources, registry
<1>3. l.number = request.number /\ l.of = Registered
  BY <1>1
<1>4. ListCurrent'
  BY <1>2, <1>3 DEF ResourcesInv, ListCurrent, Registered
<1> QED
  BY <1>2, <1>4 DEF ResourcesInv, ReadIsHonest, Still, Registered

\* The client takes the answer to its latest request only.
LEMMA ListedStep ==
  ASSUME ResourcesInv, NEW response \in lists, Listed(response)
  PROVE  Still /\ ResourcesInv'
<1>1. /\ response.of # Stale /\ lists' = lists \ {response}
      /\ view' = IF response.number = asked THEN response.of ELSE view
      /\ UNCHANGED <<resources, installed, announced, started, stream, notices, asked, read>>
  BY DEF Listed, registry
<1>2. ListCurrent'
  <2>1. CASE response.number = asked
    BY <1>1, <2>1 DEF ResourcesInv, ListCurrent, Registered
  <2>2. CASE response.number # asked
    BY <1>1, <2>2 DEF ResourcesInv, ListCurrent, Registered
  <2> QED
    BY <2>1, <2>2
<1> QED
  BY <1>1, <1>2 DEF ResourcesInv, ReadIsHonest, Still, Registered

\* A read changes nothing of what is offered.
LEMMA ReadStep ==
  ASSUME ResourcesInv, UNCHANGED <<registry, client>>, ReadIsHonest'
  PROVE  Still /\ ResourcesInv'
BY DEF registry, client, ResourcesInv, ListCurrent, Registered, Still

\* What is served was checked as it is sent.
LEMMA EndReadHonest == EndRead => ReadIsHonest'
<1> SUFFICES ASSUME EndRead PROVE ReadIsHonest'
  OBVIOUS
<1>1. PICK c \in Contents : read' = Served(c, read.uri, read.definition)
  BY DEF EndRead
<1>2. PICK d : d = ApplyCsp(c)
  OBVIOUS
<1>3. CASE ValidContent(d, read.uri, read.definition)
  <2>1. read' = [state |-> "served", definition |-> read.definition, uri |-> read.uri, content |-> d] \/ read' = [state |-> "failed"]
    BY <1>1, <1>2 DEF Served
  <2>2. CASE read' = [state |-> "failed"]
    BY <2>2 DEF ReadIsHonest
  <2>3. CASE read' = [state |-> "served", definition |-> read.definition, uri |-> read.uri, content |-> d]
    <3>1. read'.definition = read.definition /\ read'.uri = read.uri /\ read'.content = d
      BY <2>3
    <3> QED
      BY <1>3, <3>1 DEF ReadIsHonest, ValidContent
  <2> QED
    BY <2>1, <2>2, <2>3
<1>4. CASE ~ValidContent(d, read.uri, read.definition)
  <2>1. read' = [state |-> "failed"]
    BY <1>1, <1>2, <1>4 DEF Served
  <2> QED
    BY <2>1 DEF ReadIsHonest
<1> QED
  BY <1>3, <1>4

\* At first nothing is registered, and nobody listens.
LEMMA ResourcesInvInit == ResourcesInit => ResourcesInv
<1> SUFFICES ASSUME ResourcesInit PROVE ResourcesInv
  OBVIOUS
<1>1. Registered = {} /\ resources = [u \in Registered |-> resources[u]]
  BY DEF ResourcesInit, Registered, Empty
<1>2. ReadIsHonest
  BY DEF ResourcesInit, ReadIsHonest, NoRead
<1>3. ListCurrent
  BY DEF ResourcesInit, ListCurrent
<1> QED
  BY <1>1, <1>2, <1>3 DEF ResourcesInit, ResourcesInv

\* Every step keeps the invariant, and is a commit or leaves the registry alone.
LEMMA ResourcesInvNext ==
  ASSUME ResourcesInv, ResourcesNext
  PROVE  (CommitStep \/ Still) /\ ResourcesInv'
<1>1. ASSUME NEW batch \in Batches, RegisterResources(batch) \/ RegisterViewers(batch) \/ \E e \in EntriesOf(batch) : RegisterResource(e)
      PROVE  CommitStep /\ ResourcesInv'
  BY <1>1, RegisterResourcesStep, RegisterViewersStep, RegisterResourceStep
<1>2. ASSUME NEW uri \in Uris, StartRead(uri)
      PROVE  Still /\ ResourcesInv'
  <2>1. ReadIsHonest'
    BY <1>2 DEF StartRead, ReadIsHonest
  <2> QED
    BY <1>2, <2>1, ReadStep DEF StartRead
<1>3. ASSUME EndRead
      PROVE  Still /\ ResourcesInv'
  BY <1>3, EndReadHonest, ReadStep DEF EndRead
<1>4. ASSUME NextRead
      PROVE  Still /\ ResourcesInv'
  <2>1. ReadIsHonest'
    BY <1>4 DEF NextRead, ReadIsHonest, NoRead
  <2> QED
    BY <1>4, <2>1, ReadStep DEF NextRead
<1> QED
  BY <1>1, <1>2, <1>3, <1>4, UnregisterResourceStep, StartsStep, OpenStreamStep, NotifiedStep, ListResourcesStep, ListedStep
     DEF ResourcesNext

\* The invariant is inductive.
LEMMA ResourcesInvKept == ResourcesInv /\ [ResourcesNext]_resourceVars => ResourcesInv'
<1> SUFFICES ASSUME ResourcesInv, [ResourcesNext]_resourceVars PROVE ResourcesInv'
  OBVIOUS
<1>1. CASE UNCHANGED resourceVars
  BY <1>1 DEF resourceVars, ResourcesInv, ListCurrent, ReadIsHonest, Registered
<1>2. CASE ResourcesNext
  BY <1>2, ResourcesInvNext
<1> QED
  BY <1>1, <1>2

\* A step that touches the registry is a commit as announced.
LEMMA StepCommits == ResourcesInv /\ [ResourcesNext]_resourceVars => CommitStep \/ Still
<1> SUFFICES ASSUME ResourcesInv, [ResourcesNext]_resourceVars PROVE CommitStep \/ Still
  OBVIOUS
<1>1. CASE UNCHANGED resourceVars
  BY <1>1 DEF resourceVars, Still
<1>2. CASE ResourcesNext
  BY <1>2, ResourcesInvNext
<1> QED
  BY <1>1, <1>2

(* ResourcesTrue: for any URIs, batches and readers, however requests, answers  *)
(* and announcements overtake each other: a change of what a started server     *)
(* offers is whole and announced, a client that lists at each announcement ends *)
(* with what is registered, and what a reader gets is what was listed           *)
(* (mcp-app.ts:1461, 1565, 1723).                                               *)
THEOREM ResourcesTrue == ResourcesInit /\ [][ResourcesNext]_resourceVars => ResourcesHonest
<1>1. ResourcesInit /\ [][ResourcesNext]_resourceVars => []ResourcesInv
  BY ResourcesInvInit, ResourcesInvKept, PTL
<1>2. ResourcesInv => ReadIsHonest /\ ListConverges
  BY DEF ResourcesInv, ListCurrent, ListConverges
<1>3. ResourcesInv /\ [ResourcesNext]_resourceVars => [CommitStep]_<<resources, installed, announced, started>>
  BY StepCommits DEF Still
<1>4. ResourcesInit /\ [][ResourcesNext]_resourceVars => [][CommitStep]_<<resources, installed, announced, started>>
  BY <1>1, <1>3, PTL
<1> QED
  BY <1>1, <1>2, <1>4, PTL DEF ResourcesHonest, CommitsAnnounced, CommitStep

-----------------------------------------------------------------------------
(* HeaderRules: the headers let through are those a client sends.           *)

\* A wrapped text unwraps to itself, and may travel.
LEMMA WrapFacts ==
    ASSUME NEW t, IsText(t)
    PROVE  HeaderSafe(Wrap(t)) /\ DecodeHeaderValue(Wrap(t)) = t
<1> DEFINE S == Range(t) \cup {"b64"}
           w == << "b64" >>
<1>1. w \in Seq(S) /\ t \in Seq(S)
  <2>1. t \in Seq(Range(t)) /\ Range(t) \subseteq S
    BY DEF IsText, IsList
  <2>2. t \in Seq(S)
    <3> HIDE DEF S
    <3> QED BY <2>1, SeqMonotonic
  <2> QED BY <2>2
<1>2. Len(w) = 1 /\ w[1] = "b64"
  OBVIOUS
<1>3. Head(w \o t) = "b64" /\ Tail(w \o t) = t
  <2> HIDE DEF w, S
  <2>0. /\ w \o t \in Seq(S) /\ Len(w \o t) = Len(w) + Len(t)
        /\ \A i \in 1 .. Len(w) + Len(t) : (w \o t)[i] = IF i <= Len(w) THEN w[i] ELSE t[i - Len(w)]
    BY <1>1, ConcatProperties
  <2>1. w \o t \in Seq(S) /\ Len(w \o t) = 1 + Len(t) /\ Len(t) \in Nat
        /\ \A i \in 1 .. 1 + Len(t) : (w \o t)[i] = IF i <= 1 THEN w[i] ELSE t[i - 1]
    BY <1>1, <1>2, <2>0, LenProperties
  <2>2. Head(w \o t) = "b64" /\ w \o t # << >>
    BY <1>2, <2>1
  <2>3. Tail(w \o t) \in Seq(S) /\ Len(Tail(w \o t)) = Len(t) /\ \A i \in 1..Len(t) : Tail(w \o t)[i] = (w \o t)[i + 1]
    BY <2>1, <2>2, HeadTailProperties
  <2>4. \A i \in 1..Len(t) : Tail(w \o t)[i] = t[i]
    <3>1. \A i \in 1..Len(t) : i + 1 \in 1 .. 1 + Len(t) /\ ~(i + 1 <= 1) /\ (i + 1) - 1 = i
      BY <2>1
    <3> QED BY <2>1, <2>3, <3>1
  <2>5. Tail(w \o t) = t
    BY <1>1, <2>3, <2>4, SeqEqual
  <2> QED BY <2>2, <2>5
<1> QED
  BY <1>3 DEF Wrap, IsWrapped, DecodeHeaderValue, HeaderSafe

\* What is wrapped is the wrapping of what it decodes to.
LEMMA UnwrapFacts ==
    ASSUME NEW raw, IsText(raw), IsWrapped(raw)
    PROVE  Wrap(DecodeHeaderValue(raw)) = raw
<1>1. raw \in Seq(Range(raw)) /\ raw # << >> /\ Head(raw) = "b64"
  BY DEF IsText, IsList, IsWrapped, None
<1>2. << Head(raw) >> \o Tail(raw) = raw
  BY <1>1
<1> QED
  BY <1>1, <1>2 DEF Wrap, IsWrapped, DecodeHeaderValue

\* The two ways to send a text are the ones it is decoded from.
LEMMA Decoded ==
    ASSUME NEW raw, IsText(raw), NEW t, IsText(t)
    PROVE  raw \in {EncodeHeaderValue(t), Wrap(t)} <=> DecodeHeaderValue(raw) = t /\ HeaderSafe(raw)
<1>1. ASSUME raw \in {EncodeHeaderValue(t), Wrap(t)} PROVE DecodeHeaderValue(raw) = t /\ HeaderSafe(raw)
  <2>1. CASE raw = Wrap(t)
    BY <2>1, WrapFacts DEF HeaderSafe
  <2>2. CASE raw # Wrap(t)
    BY <1>1, <2>2 DEF EncodeHeaderValue, DecodeHeaderValue
  <2> QED BY <2>1, <2>2
<1>2. ASSUME DecodeHeaderValue(raw) = t, HeaderSafe(raw) PROVE raw \in {EncodeHeaderValue(t), Wrap(t)}
  <2>1. CASE IsWrapped(raw)
    BY <1>2, <2>1, UnwrapFacts
  <2>2. CASE ~IsWrapped(raw)
    BY <1>2, <2>2 DEF EncodeHeaderValue, DecodeHeaderValue
  <2> QED BY <2>1, <2>2
<1> QED BY <1>1, <1>2

\* A text is taken for a value.
Taken(raw, value) == HeaderSafe(raw) /\ ValueMatches(DecodeHeaderValue(raw), value)

\* What may carry a value is taken for it, and what is taken for it may carry it or is read loosely.
LEMMA Carried ==
    ASSUME NEW raw, IsText(raw), NEW value,
           value.type \in {"string", "boolean"} => IsText(value.text), \A t \in DOMAIN Numerals : IsText(t)
    PROVE  /\ MayCarry(raw, value) => Taken(raw, value)
           /\ Taken(raw, value) => MayCarry(raw, value) \/ ReadLoosely(raw, value)
<1>1. \A t \in Renderings(value) : IsText(t)
  BY DEF Renderings
<1>2. /\ \A t : t \in Renderings(value) => ValueMatches(t, value)
      /\ \A t : ValueMatches(t, value) => t \in Renderings(value) \/ (value.type = "number" /\ t \in LooseNumerals)
  BY DEF Renderings, ValueMatches
<1>3. MayCarry(raw, value) <=> \E t \in Renderings(value) : DecodeHeaderValue(raw) = t /\ HeaderSafe(raw)
  BY <1>1, Decoded DEF MayCarry
<1> QED BY <1>2, <1>3 DEF Taken, ReadLoosely

\* What is wrong with a header is never nothing.
LEMMA FaultIs == \A p, h : Fault(p, h) # None
BY DEF Fault, None

\* A header passes that is there and decodes, unless it is sent as it may not be.
LEMMA Encoded ==
    ASSUME NEW headers, NEW h
    PROVE  EncodingFault(headers, h) = None <=>
             h \in DOMAIN headers /\ DecodeHeaderValue(headers[h]) # None /\ HeaderSafe(headers[h])
BY FaultIs DEF EncodingFault, HeaderSafe

\* Nothing is found when nothing is wrong, and only then.
LEMMA FirstOfNone ==
    ASSUME NEW n \in Nat, NEW faults, DOMAIN faults = 1..n
    PROVE  FirstFault(faults) = None <=> \A i \in 1..n : faults[i] = None
<1> DEFINE S == {i \in 1..n : faults[i] # None}
<1>1. CASE S = {}
  BY <1>1 DEF FirstFault
<1>2. CASE S # {}
  <2>1. S \subseteq Nat
    OBVIOUS
  <2>2. \E m \in S : \A k \in S : m <= k
    <3> HIDE DEF S
    <3> QED BY <1>2, <2>1, LeastElement
  <2>3. PICK m \in S : \A k \in S : m <= k
    BY <2>2
  <2>4. \A j \in 1..(m - 1) : j \in 1..n /\ ~(m <= j)
    OBVIOUS
  <2>5. m \in DOMAIN faults /\ faults[m] # None /\ \A j \in 1..m-1 : faults[j] = None
    BY <2>3, <2>4
  <2>6. FirstFault(faults) # None
    BY <2>5 DEF FirstFault
  <2> QED BY <1>2, <2>6
<1> QED BY <1>1, <1>2

\* The rules pass when each of them does.
LEMMA RulesPass ==
    ASSUME NEW x, NEW y, NEW z, NEW n \in Nat, NEW f, f = [i \in 1..n |-> f[i]]
    PROVE  FirstFault(<< x, y, z >> \o f) = None <=> x = None /\ y = None /\ z = None /\ \A i \in 1..n : f[i] = None
<1> DEFINE S == {x, y, z} \cup {f[i] : i \in 1..n}
           s == << x, y, z >>
           all == s \o f
<1>1. s \in Seq(S) /\ Len(s) = 3 /\ s[1] = x /\ s[2] = y /\ s[3] = z
  OBVIOUS
<1>2. f \in Seq(S) /\ Len(f) = n
  <2>1. f \in [1..n -> S]
    OBVIOUS
  <2> HIDE DEF S
  <2> QED BY <2>1
<1>3. /\ all \in Seq(S) /\ Len(all) = 3 + n
      /\ \A i \in 1..3 : all[i] = s[i]
      /\ \A i \in 1..n : all[3 + i] = f[i]
  <2> HIDE DEF S, s
  <2>1. /\ s \o f \in Seq(S) /\ Len(s \o f) = Len(s) + Len(f)
        /\ \A i \in 1 .. Len(s) + Len(f) : (s \o f)[i] = IF i <= Len(s) THEN s[i] ELSE f[i - Len(s)]
    BY <1>1, <1>2, ConcatProperties
  <2>2. ASSUME NEW i \in 1..n PROVE (s \o f)[3 + i] = f[i]
    <3>1. 3 + i \in 1..(3 + n) /\ ~(3 + i <= 3) /\ (3 + i) - 3 = i
      OBVIOUS
    <3> QED BY <1>1, <1>2, <2>1, <3>1
  <2> QED BY <1>1, <1>2, <2>1, <2>2
<1>4. DOMAIN all = 1..(3 + n) /\ 3 + n \in Nat
  <2> HIDE DEF all, S
  <2> QED BY <1>3
<1>5. FirstFault(all) = None <=> \A i \in 1..(3 + n) : all[i] = None
  <2> HIDE DEF all
  <2> QED BY <1>4, FirstOfNone
<1>6. (\A i \in 1..(3 + n) : all[i] = None) <=> (all[1] = None /\ all[2] = None /\ all[3] = None /\ \A i \in 1..n : all[3 + i] = None)
  <2> HIDE DEF all
  <2>1. \A i \in 1..(3 + n) : i = 1 \/ i = 2 \/ i = 3 \/ (i - 3 \in 1..n /\ 3 + (i - 3) = i)
    OBVIOUS
  <2>2. 1 \in 1..(3 + n) /\ 2 \in 1..(3 + n) /\ 3 \in 1..(3 + n) /\ \A i \in 1..n : 3 + i \in 1..(3 + n)
    OBVIOUS
  <2> QED BY <2>1, <2>2
<1>7. all[1] = x /\ all[2] = y /\ all[3] = z /\ \A i \in 1..n : all[3 + i] = f[i]
  <2> HIDE DEF all, s
  <2> QED BY <1>1, <1>3
<1> QED
  <2> HIDE DEF all
  <2>1. FirstFault(all) = None <=> x = None /\ y = None /\ z = None /\ \A i \in 1..n : f[i] = None
    BY <1>5, <1>6, <1>7
  <2> QED BY <2>1 DEF all

\* What a client finds at a node of a schema.
Mark(node) == [header |-> node.header, path |-> node.path]
Marked(node) == node.path # << >> /\ node.header # ""

\* What is found so far: parameters of a set, and a number of mistakes.
Findings(P) == [params : Seq(P), invalid : Nat]

\* One more is one more in the range.
LEMMA AppendRange ==
    ASSUME NEW S, NEW s \in Seq(S), NEW e \in S
    PROVE  Range(Append(s, e)) = Range(s) \cup {e}
<1>1. /\ Append(s, e) \in Seq(S) /\ Len(Append(s, e)) = Len(s) + 1 /\ Len(s) \in Nat
      /\ \A i \in 1..Len(s) : Append(s, e)[i] = s[i]
      /\ Append(s, e)[Len(s) + 1] = e
  BY AppendProperties, LenProperties
<1>2. DOMAIN Append(s, e) = 1..(Len(s) + 1) /\ DOMAIN s = 1..Len(s)
  BY <1>1
<1>3. \A i : i \in 1..(Len(s) + 1) <=> i \in 1..Len(s) \/ i = Len(s) + 1
  BY <1>1
<1> QED
  BY <1>1, <1>2, <1>3 DEF Range

\* A node is found once, or is a mistake.
LEMMA AnnotateStep ==
    ASSUME NEW P, NEW found \in Findings(P), NEW node, Mark(node) \in P
    PROVE  /\ Annotate(found, node) \in Findings(P)
           /\ Annotate(found, node).invalid >= found.invalid
           /\ Annotate(found, node).invalid = found.invalid =>
                Range(Annotate(found, node).params) = Range(found.params) \cup (IF Marked(node) THEN {Mark(node)} ELSE {})
<1>1. found.params \in Seq(P) /\ found.invalid \in Nat /\ found = [params |-> found.params, invalid |-> found.invalid]
  BY DEF Findings
<1>2. CASE Annotate(found, node) = found /\ ~Marked(node)
  BY <1>1, <1>2
<1>3. CASE Annotate(found, node) = [found EXCEPT !.invalid = @ + 1]
  <2>1. [found EXCEPT !.invalid = @ + 1] = [params |-> found.params, invalid |-> found.invalid + 1]
    BY <1>1
  <2> QED BY <1>1, <1>3, <2>1 DEF Findings
<1>4. CASE Marked(node) /\ Annotate(found, node) = [found EXCEPT !.params = Append(@, Mark(node))]
  <2>1. [found EXCEPT !.params = Append(@, Mark(node))] = [params |-> Append(found.params, Mark(node)), invalid |-> found.invalid]
    BY <1>1
  <2>2. Append(found.params, Mark(node)) \in Seq(P)
    BY <1>1
  <2>3. Range(Append(found.params, Mark(node))) = Range(found.params) \cup {Mark(node)}
    BY <1>1, AppendRange
  <2> QED BY <1>1, <1>4, <2>1, <2>2, <2>3 DEF Findings
<1> QED BY <1>2, <1>3, <1>4 DEF Annotate, Mark, Marked

\* What offends adds to the mistakes.
LEMMA OffendsStep ==
    ASSUME NEW P, NEW found \in Findings(P), NEW node, node.hidden \in Nat
    PROVE  /\ Offends(found, node) \in Findings(P)
           /\ Offends(found, node).invalid >= found.invalid
           /\ Offends(found, node).params = found.params
<1> DEFINE one == IF node.ref /\ node.path # << >> THEN 1 ELSE 0
<1>1. found.params \in Seq(P) /\ found.invalid \in Nat /\ found = [params |-> found.params, invalid |-> found.invalid]
  BY DEF Findings
<1>2. one \in {0, 1}
  OBVIOUS
<1>3. Offends(found, node) = [params |-> found.params, invalid |-> found.invalid + node.hidden + one]
  <2>1. Offends(found, node) = [found EXCEPT !.invalid = @ + node.hidden + one]
    BY DEF Offends
  <2> QED
    <3> HIDE DEF one
    <3> QED BY <1>1, <2>1
<1> QED
  <2> HIDE DEF one
  <2> QED BY <1>1, <1>2, <1>3 DEF Findings

\* The walk, as a function of the nodes that were met.
IsWalk(walk, schema) ==
    walk = [n \in 0..Len(schema) |-> IF n = 0 THEN NothingFound ELSE Offends(Annotate(walk[n - 1], schema[n]), schema[n])]

\* The walk runs to the end of the schema, and finds what it is said to find.
LEMMA WalkRuns ==
    ASSUME NEW schema, IsList(schema), \A n \in DOMAIN schema : schema[n].hidden \in Nat,
           NEW P, \A n \in DOMAIN schema : Mark(schema[n]) \in P
    PROVE  \E walk \in [0..Len(schema) -> Findings(P)] :
             IsWalk(walk, schema) /\ CollectMirroredParams(schema) = walk[Len(schema)]
<1> DEFINE N == Len(schema)
           A == Findings(P)
           Met(a, n) == Offends(Annotate(a, schema[n]), schema[n])
           step == [x \in A \X (1..N) |-> Met(x[1], x[2])]
<1>1. N \in Nat /\ DOMAIN schema = 1..N
  BY DEF IsList
<1>2. NothingFound \in A
  BY DEF NothingFound, Findings
<1>3. ASSUME NEW a \in A, NEW n \in 1..N PROVE step[<<a, n>>] = Met(a, n) /\ Met(a, n) \in A
  <2>1. <<a, n>> \in A \X (1..N) /\ <<a, n>>[1] = a /\ <<a, n>>[2] = n
    OBVIOUS
  <2>2. step[<<a, n>>] = Met(<<a, n>>[1], <<a, n>>[2])
    BY <2>1
  <2>3. Annotate(a, schema[n]) \in A
    BY <1>1, AnnotateStep
  <2>4. Met(a, n) \in A
    <3> HIDE DEF A
    <3> QED BY <1>1, <2>3, OffendsStep DEF A
  <2> QED BY <2>1, <2>2, <2>4
<1>4. \A a \in A, n \in 1..N : step[<<a, n>>] \in A
  <2> HIDE DEF A, step, Met
  <2> QED BY <1>3
<1>5. PICK u \in [0..N -> A] : IsLoop(u, N, NothingFound, step)
  <2> HIDE DEF A, step, N
  <2> QED BY <1>1, <1>2, <1>4, LoopRuns
<1>6. u = [n \in 0..N |-> IF n = 0 THEN NothingFound ELSE Met(u[n - 1], n)]
  <2>1. ASSUME NEW n \in 0..N PROVE u[n] = IF n = 0 THEN NothingFound ELSE Met(u[n - 1], n)
    <3>1. CASE n = 0
      BY <3>1, <1>5 DEF IsLoop
    <3>2. CASE n # 0
      <4>1. n \in 1..N /\ n - 1 \in 0..N
        BY <1>1, <3>2
      <4>2. u[n - 1] \in A
        BY <1>5, <4>1
      <4>3. u[n] = step[<<u[n - 1], n>>]
        <5> HIDE DEF step, A
        <5> QED BY <3>2, <1>5 DEF IsLoop
      <4> QED
        <5> HIDE DEF step, Met, A
        <5> QED BY <3>2, <4>1, <4>2, <4>3, <1>3
    <3> QED BY <3>1, <3>2
  <2> HIDE DEF A, Met
  <2> QED BY <2>1, <1>5
<1>7. IsWalk(u, schema)
  BY <1>6 DEF IsWalk
<1> DEFINE w == CHOOSE walk : IsWalk(walk, schema)
<1>8. IsWalk(w, schema)
  BY <1>7
<1>9. w = u
  <2>1. DOMAIN w = 0..N /\ DOMAIN u = 0..N
    BY <1>7, <1>8 DEF IsWalk
  <2>2. w[0] = u[0]
    BY <1>1, <1>7, <1>8 DEF IsWalk
  <2>3. ASSUME NEW n \in 1..N, w[n - 1] = u[n - 1] PROVE w[n] = u[n]
    <3>1. n \in 0..N /\ n # 0
      BY <1>1
    <3>2. w[n] = Offends(Annotate(w[n - 1], schema[n]), schema[n])
      <4> HIDE DEF w
      <4> QED BY <1>8, <3>1 DEF IsWalk
    <3>3. u[n] = Offends(Annotate(u[n - 1], schema[n]), schema[n])
      BY <1>7, <3>1 DEF IsWalk
    <3> QED BY <2>3, <3>2, <3>3
  <2>4. \A n \in 0..N : w[n] = u[n]
    <3> DEFINE T == {n \in 0..N : w[n] = u[n]}
    <3> HIDE DEF w, N
    <3>1. 0 \in T /\ \A n \in 1..N : n - 1 \in T => n \in T
      BY <1>1, <2>2, <2>3
    <3>2. \A n \in 0..N : n \in T
      <4> HIDE DEF T
      <4> QED BY <1>1, <3>1, UpToInduction
    <3> QED BY <3>2
  <2>5. w = [n \in 0..N |-> w[n]] /\ u = [n \in 0..N |-> u[n]]
    <3> HIDE DEF w
    <3> QED BY <1>7, <1>8 DEF IsWalk
  <2> QED
    <3> HIDE DEF w
    <3> QED BY <2>4, <2>5
<1>10. CollectMirroredParams(schema) = w[N]
  BY Zenon DEF CollectMirroredParams, IsWalk
<1> QED
  <2> HIDE DEF w
  <2> QED BY <1>5, <1>7, <1>9, <1>10

\* The parameters of a schema without a mistake are the ones a client finds in it.
LEMMA MirrorsAll ==
    ASSUME NEW schema, IsList(schema), \A n \in DOMAIN schema : schema[n].hidden \in Nat, Registrable(schema)
    PROVE  /\ CollectMirroredParams(schema).params \in Seq(Annotations(schema))
           /\ Range(CollectMirroredParams(schema).params) = Annotations(schema)
<1> DEFINE N == Len(schema)
           P == {Mark(schema[n]) : n \in DOMAIN schema}
           Seen(n) == {Mark(schema[i]) : i \in {j \in 1..n : Marked(schema[j])}}
<1>1. N \in Nat /\ DOMAIN schema = 1..N
  BY DEF IsList
<1>2. PICK walk \in [0..N -> Findings(P)] : IsWalk(walk, schema) /\ CollectMirroredParams(schema) = walk[N]
  <2>1. \A n \in DOMAIN schema : Mark(schema[n]) \in P
    OBVIOUS
  <2> HIDE DEF P
  <2> QED BY <2>1, WalkRuns
<1> DEFINE T == {n \in 0..N : walk[n].invalid = 0 => Range(walk[n].params) = Seen(n)}
<1>3. 0 \in T
  <2>1. walk[0] = NothingFound
    BY <1>1, <1>2 DEF IsWalk
  <2>2. Seen(0) = {}
    OBVIOUS
  <2> QED BY <1>1, <2>1, <2>2 DEF NothingFound, Range
<1>4. ASSUME NEW n \in 1..N, n - 1 \in T PROVE n \in T
  <2> DEFINE before == walk[n - 1]
             middle == Annotate(before, schema[n])
  <2>1. n \in 0..N /\ n # 0 /\ n - 1 \in 0..N
    BY <1>1
  <2>2. walk[n] = Offends(middle, schema[n])
    BY <1>2, <2>1 DEF IsWalk
  <2>3. before \in Findings(P) /\ Mark(schema[n]) \in P
    BY <1>1, <1>2, <2>1
  <2>4. /\ middle \in Findings(P)
        /\ middle.invalid >= before.invalid
        /\ middle.invalid = before.invalid =>
             Range(middle.params) = Range(before.params) \cup (IF Marked(schema[n]) THEN {Mark(schema[n])} ELSE {})
    <3> HIDE DEF P, before
    <3> QED BY <2>3, AnnotateStep
  <2>5. walk[n].invalid >= middle.invalid /\ walk[n].params = middle.params /\ walk[n].invalid \in Nat
    <3> HIDE DEF P, middle
    <3> QED BY <1>1, <2>1, <2>2, <2>4, OffendsStep DEF Findings
  <2>6. before.invalid \in Nat /\ middle.invalid \in Nat
    <3> HIDE DEF before, middle, P
    <3> QED BY <2>3, <2>4 DEF Findings
  <2>7. Seen(n) = Seen(n - 1) \cup (IF Marked(schema[n]) THEN {Mark(schema[n])} ELSE {})
    <3>1. \A i : i \in 1..n <=> i \in 1..(n - 1) \/ i = n
      OBVIOUS
    <3> QED BY <3>1
  <2>8. ASSUME walk[n].invalid = 0 PROVE Range(walk[n].params) = Seen(n)
    <3>1. middle.invalid = 0 /\ before.invalid = 0
      <4> HIDE DEF before, middle
      <4> QED BY <2>4, <2>5, <2>6, <2>8
    <3>2. Range(before.params) = Seen(n - 1)
      BY <1>4, <3>1
    <3> QED
      <4> HIDE DEF before, middle, Seen
      <4> QED BY <2>4, <2>5, <2>7, <3>1, <3>2
  <2> QED BY <2>1, <2>8
<1>5. \A n \in 0..N : n \in T
  <2>1. \A n \in 1..N : n - 1 \in T => n \in T
    BY <1>4
  <2> HIDE DEF T, N
  <2> QED BY <1>1, <1>3, <2>1, UpToInduction
<1>6. Range(walk[N].params) = Seen(N) /\ walk[N].params \in Seq(P)
  <2>1. N \in 0..N /\ walk[N] \in Findings(P)
    BY <1>1, <1>2
  <2>2. N \in T /\ walk[N].invalid = 0
    BY <1>2, <1>5, <2>1 DEF Registrable
  <2>3. walk[N].params \in Seq(P)
    <3> HIDE DEF P, N
    <3> QED BY <2>1 DEF Findings
  <2>4. Range(walk[N].params) = Seen(N)
    BY <2>2
  <2> QED BY <2>3, <2>4
<1>7. Seen(N) = Annotations(schema)
  BY <1>1 DEF Annotations, Mark, Marked
<1>8. walk[N].params \in Seq(Range(walk[N].params))
  <2> DEFINE s == walk[N].params
  <2>1. s \in Seq(P)
    BY <1>6
  <2>2. s \in Seq(Range(s))
    <3> HIDE DEF s, P
    <3>1. s = [i \in 1..Len(s) |-> s[i]] /\ Len(s) \in Nat
      BY <2>1
    <3>2. \A i \in 1..Len(s) : s[i] \in Range(s)
      BY <2>1 DEF Range
    <3> QED BY <3>1, <3>2
  <2> QED BY <2>2
<1> QED BY <1>2, <1>6, <1>7, <1>8

\* What is found down a chain of keys is a value.
LEMMA Reached ==
    ASSUME NEW values, InOrder(values), NEW args \in values, Undefined \in values, NEW path, IsList(path)
    PROVE  ReadAtPath(args, path) \in values
<1> DEFINE N == Len(path)
           IsCursor(c) == c = [n \in 0..N |-> IF n = 0 THEN args ELSE Property(c[n - 1], path[n])]
           step == [x \in values \X (1..N) |-> Property(x[1], path[x[2]])]
<1>1. N \in Nat
  BY DEF IsList
<1>2. ASSUME NEW a \in values, NEW n \in 1..N PROVE step[<<a, n>>] = Property(a, path[n]) /\ Property(a, path[n]) \in values
  <2>1. <<a, n>> \in values \X (1..N) /\ <<a, n>>[1] = a /\ <<a, n>>[2] = n
    OBVIOUS
  <2>2. step[<<a, n>>] = Property(<<a, n>>[1], path[<<a, n>>[2]])
    BY <2>1
  <2>3. Property(a, path[n]) \in values
    <3> DEFINE key == path[n]
    <3>1. ASSUME a.type = "object", key \in DOMAIN a.fields PROVE a.fields[key] \in values
      BY <3>1 DEF InOrder
    <3> HIDE DEF key
    <3>2. Property(a, key) \in values
      BY <3>1 DEF Property, IsRecord
    <3> QED BY <3>2 DEF key
  <2> QED BY <2>1, <2>2, <2>3
<1>3. PICK u \in [0..N -> values] : IsLoop(u, N, args, step)
  <2>1. \A a \in values, n \in 1..N : step[<<a, n>>] \in values
    <3> HIDE DEF step
    <3> QED BY <1>2
  <2> HIDE DEF step, N
  <2> QED BY <1>1, <2>1, LoopRuns
<1>4. IsCursor(u)
  <2>1. ASSUME NEW n \in 0..N PROVE u[n] = IF n = 0 THEN args ELSE Property(u[n - 1], path[n])
    <3>1. CASE n = 0
      BY <3>1, <1>3 DEF IsLoop
    <3>2. CASE n # 0
      <4>1. n \in 1..N /\ n - 1 \in 0..N
        BY <1>1, <3>2
      <4>2. u[n - 1] \in values
        BY <1>3, <4>1
      <4>3. u[n] = step[<<u[n - 1], n>>]
        <5> HIDE DEF step
        <5> QED BY <3>2, <1>3 DEF IsLoop
      <4> QED
        <5> HIDE DEF step
        <5> QED BY <3>2, <4>1, <4>2, <4>3, <1>2
    <3> QED BY <3>1, <3>2
  <2> QED BY <2>1, <1>3
<1> DEFINE w == CHOOSE c : IsCursor(c)
<1>5. IsCursor(w)
  BY <1>4
<1>6. \A n \in 0..N : w[n] \in values
  <2> DEFINE T == {n \in 0..N : w[n] \in values}
  <2>1. 0 \in T
    <3>1. 0 \in 0..N
      BY <1>1
    <3>2. w[0] = args
      <4> HIDE DEF w
      <4> QED BY <1>5, <3>1
    <3> QED BY <3>1, <3>2
  <2>2. ASSUME NEW n \in 1..N, n - 1 \in T PROVE n \in T
    <3>1. n \in 0..N /\ n # 0 /\ w[n - 1] \in values
      BY <1>1, <2>2
    <3>2. w[n] = Property(w[n - 1], path[n])
      <4> HIDE DEF w
      <4> QED BY <1>5, <3>1
    <3> QED
      <4> HIDE DEF w
      <4> QED BY <3>1, <3>2, <1>2
  <2>3. \A n \in 1..N : n - 1 \in T => n \in T
    BY <2>2
  <2>4. \A n \in 0..N : n \in T
    <3> HIDE DEF T, N
    <3> QED BY <1>1, <2>1, <2>3, UpToInduction
  <2> QED BY <2>4
<1>7. ReadAtPath(args, path) = w[N]
  BY Zenon DEF ReadAtPath
<1> QED
  <2> HIDE DEF w
  <2> QED BY <1>1, <1>6, <1>7

\* A case of the run: the headers and the body of a request, and the schema of its tool.
HeaderShape(c) ==
    /\ c.field \in {"name", "uri", "taskId"}
    /\ IsList(c.schema) /\ \A n \in DOMAIN c.schema : IsList(c.schema[n].path) /\ c.schema[n].hidden \in Nat
    /\ c.headers = [h \in DOMAIN c.headers |-> c.headers[h]]
    /\ {VersionHeader, MethodHeader} \subseteq DOMAIN c.headers /\ c.headers[VersionHeader] = << "v" >>
    /\ \A h \in DOMAIN c.headers : IsText(c.headers[h])
    /\ c.args.type = "object"
    /\ \E values : InOrder(values) /\ {c.args, c.value, Undefined} \subseteq values

\* The header of an argument passes when it is taken for the argument.
LEMMA ParamPasses ==
    ASSUME NEW headers, \A h \in DOMAIN headers : h # MethodHeader => IsText(headers[h]), NEW param, NEW args,
           NEW values, InOrder(values), ReadAtPath(args, param.path) \in values,
           \A t \in DOMAIN Numerals : IsText(t)
    PROVE  ParamFault(headers, param, args) = None <=>
             LET value == ReadAtPath(args, param.path) IN
             IF IsAbsent(value) THEN ParamHeader(param) \notin DOMAIN headers
             ELSE ParamHeader(param) \in DOMAIN headers /\ Taken(headers[ParamHeader(param)], value)
<1> DEFINE value == ReadAtPath(args, param.path)
           header == ParamHeader(param)
<1>1. header # MethodHeader
  BY DEF ParamHeader, MethodHeader
<1>2. CASE IsAbsent(value)
  BY <1>2, FaultIs DEF ParamFault
<1>3. CASE ~IsAbsent(value)
  <2>1. ParamFault(headers, param, args) = None <=>
          EncodingFault(headers, header) = None /\ ValueMatches(DecodeHeaderValue(headers[header]), value)
    BY <1>3, FaultIs DEF ParamFault
  <2>2. header \in DOMAIN headers => IsText(headers[header])
    BY <1>1
  <2>3. value.type \in {"string", "boolean"} => IsText(value.text)
    BY DEF InOrder
  <2>4. ASSUME header \in DOMAIN headers
        PROVE  ValueMatches(DecodeHeaderValue(headers[header]), value) => DecodeHeaderValue(headers[header]) # None
    <3> HIDE DEF header, value
    <3>1. \A t : ValueMatches(t, value) => IsText(t)
      BY <2>3 DEF ValueMatches
    <3> QED BY <3>1 DEF IsText
  <2>5. EncodingFault(headers, header) = None <=>
          header \in DOMAIN headers /\ DecodeHeaderValue(headers[header]) # None /\ HeaderSafe(headers[header])
    <3> HIDE DEF header
    <3> QED BY Encoded
  <2> QED
    <3> HIDE DEF header, value
    <3>1. ParamFault(headers, param, args) = None <=> header \in DOMAIN headers /\ Taken(headers[header], value)
      BY <2>1, <2>4, <2>5 DEF Taken
    <3> QED BY <1>3, <3>1 DEF header, value
<1> QED BY <1>2, <1>3

\* The name passes when the field of the body that it mirrors may be carried by it.
LEMMA NamePasses ==
    ASSUME NEW c, HeaderShape(c), NEW headers, DOMAIN headers = DOMAIN c.headers,
           \A h \in DOMAIN headers : h # MethodHeader => headers[h] = c.headers[h],
           NEW params, params = [f \in {c.field, "arguments"} |-> IF f = c.field THEN c.value ELSE c.args]
    PROVE  NameFault(headers, c.method, params) = None <=>
             LET field == NameSource(c.method) IN
             field # "none" => /\ field = c.field /\ c.value.type = "string"
                               /\ NameHeader \in DOMAIN c.headers /\ MayCarry(c.headers[NameHeader], c.value)
<1> DEFINE field == NameSource(c.method)
           raw == c.headers[NameHeader]
           value == IF field \in DOMAIN params THEN params[field] ELSE Undefined
<1>1. field \in {"name", "uri", "taskId", "none"}
  BY DEF NameSource
<1>2. NameHeader # MethodHeader
  BY DEF NameHeader, MethodHeader
<1>3. CASE field = "none"
  BY <1>3 DEF NameFault
<1>4. CASE field # "none" /\ field # c.field
  <2>1. field # "arguments"
    BY <1>1
  <2>2. value = Undefined /\ value.type # "string"
    BY <1>4, <2>1 DEF Undefined
  <2>3. NameFault(headers, c.method, params) # None
    BY <1>4, <2>2, FaultIs DEF NameFault
  <2> QED BY <1>4, <2>3
<1>5. CASE field # "none" /\ field = c.field
  <2>1. value = c.value
    BY <1>5
  <2>2. NameFault(headers, c.method, params) = None <=>
          /\ EncodingFault(headers, NameHeader) = None /\ c.value.type = "string"
          /\ DecodeHeaderValue(headers[NameHeader]) = c.value.text
    <3>1. NameFault(headers, c.method, params) =
            IF field = "none" THEN None
            ELSE IF EncodingFault(headers, NameHeader) # None THEN EncodingFault(headers, NameHeader)
            ELSE IF value.type # "string" THEN Fault("unmirrorable_body", NameHeader)
            ELSE IF DecodeHeaderValue(headers[NameHeader]) # value.text THEN Fault("header_body_mismatch", NameHeader)
            ELSE None
      BY DEF NameFault
    <3> HIDE DEF value, field
    <3> QED BY <1>5, <2>1, <3>1, FaultIs
  <2>3. c.value.type = "string" => IsText(c.value.text)
    BY DEF HeaderShape, InOrder
  <2>4. ASSUME NameHeader \in DOMAIN c.headers, c.value.type = "string"
        PROVE  MayCarry(raw, c.value) <=> DecodeHeaderValue(raw) = c.value.text /\ HeaderSafe(raw)
    <3>1. IsText(raw)
      BY <2>4 DEF HeaderShape
    <3>2. Renderings(c.value) = {c.value.text}
      BY <2>4 DEF Renderings
    <3> HIDE DEF raw
    <3> QED BY <2>3, <2>4, <3>1, <3>2, Decoded DEF MayCarry
  <2>5. EncodingFault(headers, NameHeader) = None <=>
          NameHeader \in DOMAIN c.headers /\ DecodeHeaderValue(raw) # None /\ HeaderSafe(raw)
    BY <1>2, Encoded
  <2>6. NameHeader \in DOMAIN c.headers => headers[NameHeader] = raw
    BY <1>2
  <2> QED
    <3> HIDE DEF raw, field, value
    <3>1. NameFault(headers, c.method, params) = None <=>
            c.value.type = "string" /\ NameHeader \in DOMAIN c.headers /\ MayCarry(raw, c.value)
      BY <2>2, <2>3, <2>4, <2>5, <2>6 DEF IsText
    <3> QED BY <1>5, <3>1 DEF raw, field
<1> QED BY <1>1, <1>3, <1>4, <1>5

\* The arguments of a request as its headers have them.
ArgumentsTaken(c) ==
    \A p \in Annotations(c.schema) :
        LET value == ReadAtPath(c.args, p.path) IN
        IF IsAbsent(value) THEN ParamHeader(p) \notin DOMAIN c.headers
        ELSE ParamHeader(p) \in DOMAIN c.headers /\ Taken(c.headers[ParamHeader(p)], value)

NameCarried(c) ==
    LET field == NameSource(c.method) IN
    field # "none" => /\ field = c.field /\ c.value.type = "string"
                      /\ NameHeader \in DOMAIN c.headers /\ MayCarry(c.headers[NameHeader], c.value)

\* A request is let through exactly when its name is carried and its arguments are taken.
LEMMA LetThrough ==
    ASSUME NEW c, HeaderShape(c), Registrable(c.schema)
    PROVE  ValidateRequestHeaders(
                [c.headers EXCEPT ![MethodHeader] = << c.method >>], c.method,
                [f \in {c.field, "arguments"} |-> IF f = c.field THEN c.value ELSE c.args],
                << "v" >>, Mirrored(c)) = None
           <=> NameCarried(c) /\ (c.method = "tools/call" => ArgumentsTaken(c))
<1> DEFINE headers == [c.headers EXCEPT ![MethodHeader] = << c.method >>]
           params == [f \in {c.field, "arguments"} |-> IF f = c.field THEN c.value ELSE c.args]
           mirrored == Mirrored(c)
           faults == [i \in DOMAIN mirrored |-> ParamFault(headers, mirrored[i], c.args)]
<1>1. DOMAIN headers = DOMAIN c.headers /\ \A h \in DOMAIN headers : headers[h] = IF h = MethodHeader THEN << c.method >> ELSE c.headers[h]
  BY DEF HeaderShape
<1>2. MethodHeader \in DOMAIN headers /\ VersionHeader \in DOMAIN headers /\ VersionHeader # MethodHeader
  BY <1>1 DEF HeaderShape, VersionHeader, MethodHeader
<1>3. PlainFault(headers, VersionHeader, << "v" >>) = None /\ PlainFault(headers, MethodHeader, << c.method >>) = None
  <2>1. headers[VersionHeader] = << "v" >> /\ headers[MethodHeader] = << c.method >>
    BY <1>1, <1>2 DEF HeaderShape
  <2> HIDE DEF headers
  <2> QED BY <1>2, <2>1 DEF PlainFault
<1>4. NameFault(headers, c.method, params) = None <=>
        LET field == NameSource(c.method) IN
        field # "none" => /\ field = c.field /\ c.value.type = "string"
                          /\ NameHeader \in DOMAIN c.headers /\ MayCarry(c.headers[NameHeader], c.value)
  <2>1. params = [f \in {c.field, "arguments"} |-> IF f = c.field THEN c.value ELSE c.args]
    OBVIOUS
  <2> HIDE DEF headers, params
  <2> QED BY <1>1, <2>1, NamePasses
<1>5. "arguments" \in DOMAIN params /\ params["arguments"] = c.args /\ IsRecord(c.args)
  BY DEF HeaderShape, IsRecord
<1>6. PICK n \in Nat : DOMAIN mirrored = 1..n
  <2>1. CASE c.method = "tools/call"
    <3>1. mirrored \in Seq(Annotations(c.schema))
      BY <2>1, MirrorsAll DEF HeaderShape, Mirrored
    <3> HIDE DEF mirrored
    <3> QED BY <3>1
  <2>2. CASE c.method # "tools/call"
    BY <2>2 DEF Mirrored
  <2> QED BY <2>1, <2>2
<1>7. ValidateRequestHeaders(headers, c.method, params, << "v" >>, mirrored) =
        FirstFault(<< PlainFault(headers, VersionHeader, << "v" >>), PlainFault(headers, MethodHeader, << c.method >>),
                      NameFault(headers, c.method, params) >> \o faults)
  <2> HIDE DEF headers, params, mirrored
  <2> QED BY <1>5 DEF ValidateRequestHeaders
<1>8. ValidateRequestHeaders(headers, c.method, params, << "v" >>, mirrored) = None <=>
        NameFault(headers, c.method, params) = None /\ \A i \in 1..n : faults[i] = None
  <2>1. faults = [i \in 1..n |-> faults[i]]
    BY <1>6
  <2> HIDE DEF headers, params, mirrored, faults
  <2> QED BY <1>3, <1>7, <2>1, RulesPass
<1>9. (\A i \in 1..n : faults[i] = None) <=> \A i \in DOMAIN mirrored : ParamFault(headers, mirrored[i], c.args) = None
  BY <1>6
<1>10. ASSUME c.method = "tools/call"
       PROVE  (\A i \in DOMAIN mirrored : ParamFault(headers, mirrored[i], c.args) = None) <=>
              \A p \in Annotations(c.schema) : ParamFault(headers, p, c.args) = None
  <2>1. Range(mirrored) = Annotations(c.schema)
    BY <1>10, MirrorsAll DEF HeaderShape, Mirrored
  <2> HIDE DEF mirrored, headers
  <2>2. Annotations(c.schema) = {mirrored[i] : i \in DOMAIN mirrored}
    BY <2>1 DEF Range
  <2> QED BY <2>2
<1>11. ASSUME NEW p \in Annotations(c.schema)
       PROVE  ParamFault(headers, p, c.args) = None <=>
                LET value == ReadAtPath(c.args, p.path) IN
                IF IsAbsent(value) THEN ParamHeader(p) \notin DOMAIN c.headers
                ELSE ParamHeader(p) \in DOMAIN c.headers /\ Taken(c.headers[ParamHeader(p)], value)
  <2>1. PICK values : InOrder(values) /\ {c.args, c.value, Undefined} \subseteq values
    BY DEF HeaderShape
  <2>2. IsList(p.path)
    <3>1. PICK i \in DOMAIN c.schema : p = [header |-> c.schema[i].header, path |-> c.schema[i].path]
      BY DEF Annotations
    <3> QED BY <3>1 DEF HeaderShape
  <2>3. ReadAtPath(c.args, p.path) \in values
    BY <2>1, <2>2, Reached
  <2>4. \A h \in DOMAIN headers : h # MethodHeader => IsText(headers[h])
    BY <1>1 DEF HeaderShape
  <2>5. \A t \in DOMAIN Numerals : IsText(t)
    BY HeaderAssumption
  <2>6. ParamFault(headers, p, c.args) = None <=>
             LET value == ReadAtPath(c.args, p.path) IN
             IF IsAbsent(value) THEN ParamHeader(p) \notin DOMAIN headers
             ELSE ParamHeader(p) \in DOMAIN headers /\ Taken(headers[ParamHeader(p)], value)
    <3> HIDE DEF headers
    <3> QED BY <2>1, <2>3, <2>4, <2>5, ParamPasses
  <2>7. ParamHeader(p) # MethodHeader
    BY DEF ParamHeader, MethodHeader
  <2> HIDE DEF headers
  <2> QED BY <1>1, <2>6, <2>7
<1>12. c.method # "tools/call" => DOMAIN mirrored = {}
  BY DEF Mirrored
<1>13. ValidateRequestHeaders(headers, c.method, params, << "v" >>, mirrored) = None
       <=> NameCarried(c) /\ (c.method = "tools/call" => ArgumentsTaken(c))
  <2> HIDE DEF headers, params, mirrored, faults
  <2>1. CASE c.method = "tools/call"
    BY <1>4, <1>8, <1>9, <1>10, <1>11, <2>1 DEF NameCarried, ArgumentsTaken
  <2>2. CASE c.method # "tools/call"
    BY <1>4, <1>8, <1>9, <1>12, <2>2 DEF NameCarried, ArgumentsTaken
  <2> QED BY <2>1, <2>2
<1> QED BY <1>13

\* Headers that conform are taken for the arguments, and what is taken for them conforms,
\* up to what is read loosely.
LEMMA ConformingTaken ==
    ASSUME NEW c, HeaderShape(c)
    PROVE  /\ Conforms(c, FALSE) => NameCarried(c) /\ (c.method = "tools/call" => ArgumentsTaken(c))
           /\ NameCarried(c) /\ (c.method = "tools/call" => ArgumentsTaken(c)) => Conforms(c, TRUE)
<1>1. PICK values : InOrder(values) /\ {c.args, c.value, Undefined} \subseteq values
  BY DEF HeaderShape
<1>2. ASSUME NEW p \in Annotations(c.schema), ParamHeader(p) \in DOMAIN c.headers,
             NEW value, value = ReadAtPath(c.args, p.path), NEW raw, raw = c.headers[ParamHeader(p)]
      PROVE  /\ MayCarry(raw, value) => Taken(raw, value)
             /\ Taken(raw, value) => MayCarry(raw, value) \/ ReadLoosely(raw, value)
  <2>1. IsList(p.path)
    <3>1. PICK i \in DOMAIN c.schema : p = [header |-> c.schema[i].header, path |-> c.schema[i].path]
      BY DEF Annotations
    <3> QED BY <3>1 DEF HeaderShape
  <2>2. value \in values
    BY <1>1, <1>2, <2>1, Reached
  <2>3. value.type \in {"string", "boolean"} => IsText(value.text)
    BY <1>1, <2>2 DEF InOrder
  <2>4. IsText(raw) /\ \A t \in DOMAIN Numerals : IsText(t)
    BY <1>2, HeaderAssumption DEF HeaderShape
  <2> QED BY <2>3, <2>4, Carried
<1>3. ASSUME NEW p \in Annotations(c.schema), ParamHeader(p) \in DOMAIN c.headers
      PROVE  /\ MayCarry(c.headers[ParamHeader(p)], ReadAtPath(c.args, p.path))
                => Taken(c.headers[ParamHeader(p)], ReadAtPath(c.args, p.path))
             /\ Taken(c.headers[ParamHeader(p)], ReadAtPath(c.args, p.path))
                => \/ MayCarry(c.headers[ParamHeader(p)], ReadAtPath(c.args, p.path))
                   \/ ReadLoosely(c.headers[ParamHeader(p)], ReadAtPath(c.args, p.path))
  BY <1>2, <1>3
<1> QED
  BY <1>3 DEF Conforms, NameCarried, ArgumentsTaken

\* Headers that are merged are headers.
LEMMA Merged ==
    ASSUME NEW f, NEW g, \A h \in DOMAIN f : IsText(f[h]), \A h \in DOMAIN g : IsText(g[h])
    PROVE  /\ Merge(f, g) = [h \in DOMAIN Merge(f, g) |-> Merge(f, g)[h]]
           /\ DOMAIN f \subseteq DOMAIN Merge(f, g) /\ \A h \in DOMAIN f : Merge(f, g)[h] = f[h]
           /\ \A h \in DOMAIN Merge(f, g) : IsText(Merge(f, g)[h])
BY DEF Merge

\* One text is a text.
LEMMA OneText == \A a : IsText(<< a >>)
<1> SUFFICES ASSUME NEW a PROVE IsText(<< a >>)
  OBVIOUS
<1>1. Range(<< a >>) = {a}
  BY DEF Range
<1>2. << a >> \in Seq({a})
  OBVIOUS
<1> QED BY <1>1, <1>2 DEF IsText, IsList, None

\* The headers every request of the run has.
LEMMA StandardHeaders ==
    /\ DOMAIN Standard = {VersionHeader, MethodHeader} /\ Standard[VersionHeader] = << "v" >>
    /\ \A h \in DOMAIN Standard : IsText(Standard[h])
BY OneText DEF Standard

\* A header that may be there has a text.
LEMMA MaybeText ==
    ASSUME NEW header, NEW texts, \A t \in texts : IsText(t), NEW h \in Maybe(header, texts)
    PROVE  \A k \in DOMAIN h : IsText(h[k])
BY DEF Maybe

\* The values of the run are in order, and so are the objects made of them.
LEMMA RunValues ==
    /\ \A v \in BodyValues : InOrder(BodyValues \cup {v, Undefined, Object(<< >>)})
    /\ Object(<< >>).type = "object"
<1>1. Undefined.type = "undefined" /\ Object(<< >>).type = "object" /\ DOMAIN Object(<< >>).fields = {}
  BY DEF Undefined, Object
<1>2. InOrder(BodyValues)
  BY HeaderAssumption
<1> HIDE DEF Undefined, Object
<1> QED BY <1>1, <1>2 DEF InOrder

\* A case that asks about the name.
LEMMA NameCaseShape ==
    ASSUME NEW c \in NameCases
    PROVE  HeaderShape(c)
<1> DEFINE schema == CHOOSE s \in HeaderSchemas : Len(s) = 1
<1>1. schema \in HeaderSchemas
  BY HeaderAssumption
<1>2. /\ c.schema = schema /\ c.field \in {"name", "uri", "taskId"} /\ c.value \in BodyValues /\ c.args = Object(<< >>)
      /\ \E h \in Maybe(NameHeader, RawTexts) : c.headers = Merge(Standard, h)
  <2> HIDE DEF schema
  <2>1. c \in [method : {"tools/call", "resources/read", "tasks/get", "tools/list"}, schema : {schema},
               field : {"name", "uri", "taskId"}, value : BodyValues, args : {Object(<< >>)},
               headers : {Merge(Standard, h) : h \in Maybe(NameHeader, RawTexts)}]
    BY DEF NameCases, schema
  <2> QED BY <2>1
<1>3. PICK h \in Maybe(NameHeader, RawTexts) : c.headers = Merge(Standard, h)
  BY <1>2
<1>4. \A k \in DOMAIN h : IsText(h[k])
  BY HeaderAssumption, MaybeText
<1>5. /\ c.headers = [k \in DOMAIN c.headers |-> c.headers[k]]
      /\ {VersionHeader, MethodHeader} \subseteq DOMAIN c.headers /\ c.headers[VersionHeader] = << "v" >>
      /\ \A k \in DOMAIN c.headers : IsText(c.headers[k])
  BY <1>3, <1>4, StandardHeaders, Merged
<1>6. c.args.type = "object" /\ InOrder(BodyValues \cup {c.value, Undefined, Object(<< >>)})
  BY <1>2, RunValues
<1>7. {c.args, c.value, Undefined} \subseteq BodyValues \cup {c.value, Undefined, Object(<< >>)}
  BY <1>2
<1> HIDE DEF schema
<1> QED BY <1>1, <1>2, <1>5, <1>6, <1>7, HeaderAssumption DEF HeaderShape

\* The arguments of a case that asks about them.
Arguments(a, inner) == Object([k \in {"a", "b"} |-> IF k = "a" THEN a ELSE inner])
InnerObject(v) == Object([k \in {"c"} |-> v])
Inward == {InnerObject(v) : v \in InnerValues} \cup {Undefined}

\* All that is found in them is in order.
LEMMA ArgumentsInOrder ==
    ASSUME NEW a \in BodyValues, NEW inner \in Inward, NEW name, name.type = "string", IsText(name.text)
    PROVE  InOrder(BodyValues \cup InnerValues \cup Inward \cup {Arguments(a, inner), name})
<1> DEFINE all == BodyValues \cup InnerValues \cup Inward \cup {Arguments(a, inner), name}
<1>1. ASSUME NEW v \in all, v.type \in {"string", "boolean"} PROVE IsText(v.text)
  <2>1. CASE v \in Inward \cup {Arguments(a, inner)}
    <3>1. v.type \in {"object", "undefined"}
      BY <2>1 DEF Inward, Arguments, InnerObject, Object, Undefined
    <3> QED BY <1>1, <3>1
  <2>2. CASE v \in BodyValues \cup InnerValues
    BY <1>1, <2>2, HeaderAssumption DEF InOrder
  <2> QED BY <1>1, <2>1, <2>2
<1>2. ASSUME NEW v \in all, v.type = "object", NEW k \in DOMAIN v.fields PROVE v.fields[k] \in all
  <2>1. CASE v \in BodyValues \cup InnerValues
    <3>1. v.fields[k] \in BodyValues \cup InnerValues
      BY <1>2, <2>1, HeaderAssumption DEF InOrder
    <3> QED BY <3>1
  <2>2. CASE v = Arguments(a, inner)
    <3>1. v.fields = [i \in {"a", "b"} |-> IF i = "a" THEN a ELSE inner]
      BY <2>2 DEF Arguments, Object
    <3>2. v.fields[k] \in {a, inner}
      BY <1>2, <3>1
    <3> QED BY <3>2
  <2>3. CASE v \in Inward
    <3>1. v # Undefined
      BY <1>2 DEF Undefined
    <3>2. PICK i \in InnerValues : v = InnerObject(i)
      BY <2>3, <3>1 DEF Inward
    <3>3. v.fields = [j \in {"c"} |-> i]
      BY <3>2 DEF InnerObject, Object
    <3>4. v.fields[k] = i
      BY <1>2, <3>3
    <3> QED BY <3>4
  <2> QED BY <1>2, <2>1, <2>2, <2>3
<1> HIDE DEF all
<1>3. InOrder(all)
  BY <1>1, <1>2 DEF InOrder
<1> QED BY <1>3 DEF all

\* A case that asks about the arguments.
LEMMA ParamCaseShape ==
    ASSUME NEW c \in ParamCases
    PROVE  HeaderShape(c)
<1> DEFINE Name == [type |-> "string", text |-> << "m" >>]
           Plain == Merge(Standard, [h \in {NameHeader} |-> << "m" >>])
<1>1. PICK schema \in HeaderSchemas, a \in BodyValues, inner \in Inward,
           ha \in Maybe(<< "Mcp-Param", "h" >>, RawTexts), hc \in Maybe(<< "Mcp-Param", "i" >>, InnerTexts) :
        c = [method |-> "tools/call", schema |-> schema, field |-> "name", value |-> Name,
             args |-> Arguments(a, inner), headers |-> Merge(Plain, Merge(ha, hc))]
  BY DEF ParamCases, Inward, InnerObject, Arguments
<1>2. /\ c.schema = schema /\ c.field = "name" /\ c.value = Name /\ c.args = Arguments(a, inner)
      /\ c.headers = Merge(Plain, Merge(ha, hc))
  <2> HIDE DEF Name, Plain
  <2> QED BY <1>1
<1>3. Name.type = "string" /\ IsText(Name.text)
  BY OneText
<1>4. (\A k \in DOMAIN ha : IsText(ha[k])) /\ (\A k \in DOMAIN hc : IsText(hc[k]))
  BY HeaderAssumption, MaybeText
<1>5. /\ \A k \in DOMAIN Plain : IsText(Plain[k])
      /\ {VersionHeader, MethodHeader} \subseteq DOMAIN Plain /\ Plain[VersionHeader] = << "v" >>
  <2>1. \A k \in DOMAIN [h \in {NameHeader} |-> << "m" >>] : IsText([h \in {NameHeader} |-> << "m" >>][k])
    BY OneText
  <2> QED BY <2>1, StandardHeaders, Merged
<1>6. \A k \in DOMAIN Merge(ha, hc) : IsText(Merge(ha, hc)[k])
  BY <1>4, Merged
<1>7. /\ c.headers = [k \in DOMAIN c.headers |-> c.headers[k]]
      /\ {VersionHeader, MethodHeader} \subseteq DOMAIN c.headers /\ c.headers[VersionHeader] = << "v" >>
      /\ \A k \in DOMAIN c.headers : IsText(c.headers[k])
  <2> HIDE DEF Plain
  <2> QED BY <1>2, <1>5, <1>6, Merged
<1>8. c.args.type = "object"
  BY <1>2 DEF Arguments, Object
<1>9. InOrder(BodyValues \cup InnerValues \cup Inward \cup {c.args, c.value})
  <2> HIDE DEF Name
  <2> QED BY <1>2, <1>3, ArgumentsInOrder
<1>10. {c.args, c.value, Undefined} \subseteq BodyValues \cup InnerValues \cup Inward \cup {c.args, c.value}
  BY DEF Inward
<1> QED
  <2> HIDE DEF Name, Plain
  <2> QED BY <1>2, <1>7, <1>8, <1>9, <1>10, HeaderAssumption DEF HeaderShape

HeaderInv == headerCase = << >> \/ HeaderShape(headerCase)

(* Headers and body say the same: a request whose headers are some that a      *)
(* client following the protocol sends for its body is let through, and no     *)
(* other, but for numbers that only Number() reads in their headers, whatever  *)
(* the schema of the tool, the values and the texts of the headers.            *)
THEOREM HeadersTrue == MCSpec => []HeadersMirrorBody
<1>1. MCInit => HeaderInv
  BY NameCaseShape, ParamCaseShape DEF MCInit, HeaderCasesInit, HeaderInv
<1>2. HeaderInv /\ [MCNext]_<<part, headerCase, surfaceVars, resourceVars, nodeVars>> => HeaderInv'
  BY DEF HeaderInv, MCNext, HeaderShape
<1>3. HeaderInv => HeadersMirrorBody
  <2>1. CASE headerCase = << >>
    BY <2>1 DEF HeadersMirrorBody
  <2>2. ASSUME HeaderShape(headerCase), Registrable(headerCase.schema)
        PROVE  ValidateRequestHeaders(
                [headerCase.headers EXCEPT ![MethodHeader] = << headerCase.method >>], headerCase.method,
                [f \in {headerCase.field, "arguments"} |-> IF f = headerCase.field THEN headerCase.value ELSE headerCase.args],
                << "v" >>, Mirrored(headerCase)) = None
              <=> /\ NameCarried(headerCase)
                  /\ headerCase.method = "tools/call" => ArgumentsTaken(headerCase)
    BY <2>2, LetThrough
  <2>3. HeaderShape(headerCase) =>
          /\ Conforms(headerCase, FALSE) =>
               NameCarried(headerCase) /\ (headerCase.method = "tools/call" => ArgumentsTaken(headerCase))
          /\ NameCarried(headerCase) /\ (headerCase.method = "tools/call" => ArgumentsTaken(headerCase)) =>
               Conforms(headerCase, TRUE)
    BY ConformingTaken
  <2> QED BY <2>1, <2>2, <2>3, Zenon DEF HeaderInv, HeadersMirrorBody
<1> QED
  BY <1>1, <1>2, <1>3, PTL DEF MCSpec
=============================================================================
