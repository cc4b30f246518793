----------------------------- MODULE NodeServer -----------------------------
(***************************************************************************)
(* The HTTP server under an McpApp on Node.js, serve() and collectBody()   *)
(* of packages/platform/src/runtime/runtime.node.ts: requests of several   *)
(* connections, from the first header to the end of the response, whose    *)
(* clients may leave at any time, and a shutdown.                          *)
(*                                                                         *)
(* A body is counted in chunks of one unit; nothing is known of its length *)
(* when it comes in chunks (declared is Chunked).                          *)
(***************************************************************************)
EXTENDS Naturals

CONSTANTS
  Exchanges,   \* requests with their responses, each on its own connection
  MaxBody,     \* options.maxBodyBytes
  Lengths,     \* content-length headers that come in
  MaxChunks,   \* bound of the model: the length of a chunked body
  Chunked

ASSUME NodeAssumption == MaxBody \in Nat /\ Lengths \subseteq Nat /\ MaxChunks \in Nat /\ Chunked \notin Nat

VARIABLES
  server,     \* "open", "closing" once shutdown() is called, "closed" when it resolves
  exchange    \* per request: where it is, what was read, what was sent

nodeVars == <<server, exchange>>

Idle == [at |-> "none", declared |-> 0, total |-> 0, head |-> 0, link |-> "none"]

NodeInit == server = "open" /\ exchange = [x \in Exchanges |-> Idle]

\* writeHead() and end(), which a connection that is gone takes without a word.
Sent(r, status) == [r EXCEPT !.head = status, !.at = "ended"]

\* The length it announces decides, without reading: a GET has no body to read.
Arrives(x) ==
    /\ server = "open" /\ exchange[x].at = "none"
    /\ \E method \in {"GET", "POST"}, declared \in Lengths \cup {Chunked} :
         LET r == [Idle EXCEPT !.declared = declared, !.link = "up"] IN
         exchange' = [exchange EXCEPT ![x] =
             IF declared # Chunked /\ declared > MaxBody THEN Sent(r, 413)
             ELSE [r EXCEPT !.at = IF method = "GET" THEN "handler" ELSE "body"]]
    /\ UNCHANGED server

\* Faulty: the limit is looked for in the header only.
DataUncounted(x) ==
    /\ exchange[x].at = "body" /\ exchange[x].link = "up"
    /\ exchange[x].total < IF exchange[x].declared = Chunked THEN MaxChunks ELSE exchange[x].declared
    /\ exchange' = [exchange EXCEPT ![x].total = @ + 1]
    /\ UNCHANGED server

\* collectBody(): too much destroys the connection before the 413 is written.
Data(x) ==
    /\ exchange[x].at = "body" /\ exchange[x].link = "up"
    /\ exchange[x].total < IF exchange[x].declared = Chunked THEN MaxChunks ELSE exchange[x].declared
    /\ LET r == [exchange[x] EXCEPT !.total = @ + 1] IN
       exchange' = [exchange EXCEPT ![x] = IF r.total > MaxBody THEN [Sent(r, 413) EXCEPT !.link = "cut"] ELSE r]
    /\ UNCHANGED server

DataEnds(x) ==
    /\ exchange[x].at = "body" /\ exchange[x].link = "up"
    /\ exchange[x].declared \in {Chunked, exchange[x].total}
    /\ exchange' = [exchange EXCEPT ![x].at = "handler"]
    /\ UNCHANGED server

\* A body cut short is an error; later nobody listens for the client's leaving.
ClientLeaves(x) ==
    /\ exchange[x].link = "up" /\ exchange[x].at # "ended"
    /\ LET r == [exchange[x] EXCEPT !.link = "gone"] IN
       exchange' = [exchange EXCEPT ![x] = IF r.at = "body" THEN Sent(r, 500) ELSE r]
    /\ UNCHANGED server

\* No body, a body to relay, or an exception of the handler.
HandlerSettles(x) ==
    /\ exchange[x].at = "handler"
    /\ \/ \E place \in {"ended", "relay"} : exchange' = [exchange EXCEPT ![x] = [Sent(@, 200) EXCEPT !.at = place]]
       \/ exchange' = [exchange EXCEPT ![x] = Sent(@, 500)]
    /\ UNCHANGED server

\* The body of the response ends; or fails, and the response is left as it is.
RelayEnds(x) ==
    /\ exchange[x].at = "relay"
    /\ \E place \in {"ended", "stuck"} : exchange' = [exchange EXCEPT ![x].at = place]
    /\ UNCHANGED server

\* shutdown() the first time: no new connection.  (A second call resolves at once.)
NodeShutdown ==
    /\ server = "open"
    /\ server' = "closing"
    /\ UNCHANGED exchange

Busy(x) == exchange[x].link = "up" /\ exchange[x].at # "ended"

\* server.close() calls back when its last connection is done.
NodeClosed ==
    /\ server = "closing" /\ \A x \in Exchanges : ~Busy(x)
    /\ server' = "closed"
    /\ UNCHANGED exchange

NodeNext ==
    \/ \E x \in Exchanges : Arrives(x) \/ Data(x) \/ DataEnds(x) \/ ClientLeaves(x) \/ HandlerSettles(x) \/ RelayEnds(x)
    \/ NodeShutdown \/ NodeClosed

NodeSpec == NodeInit /\ [][NodeNext]_nodeVars

----------------------------------------------------------------------------
(* ServedWithinLimit: no handler sees more of a body than the limit or less    *)
(* than was announced, however the length is announced and whenever the client *)
(* leaves; one that stays gets a status for every failure up to the first byte *)
(* of the answer; and a shutdown resolves only when no client that stays is    *)
(* waiting for the rest of its answer (runtime.node.ts:124, 228, 275).         *)
ServedWithinLimit ==
    /\ \A x \in Exchanges :
         LET r == exchange[x] IN
         /\ r.at \in {"handler", "relay"} => r.total <= MaxBody
         /\ r.at = "handler" /\ r.total > 0 => r.declared \in {Chunked, r.total}
         /\ r.at \in {"relay", "stuck"} => r.head = 200
         /\ r.at = "ended" => r.head # 0
         /\ r.head = 413 => r.total > MaxBody \/ (r.declared # Chunked /\ r.declared > MaxBody)
    /\ server = "closed" => \A x \in Exchanges : ~Busy(x)
=============================================================================
