---------------------------- MODULE RateLimiter ----------------------------
(***************************************************************************)
(* The sliding-window rate limiter                                         *)
(* (packages/platform/src/concurrency/rate-limiter.ts) under the requests  *)
(* of the rate-limit middleware, which either refuses at once or waits     *)
(* with exponential backoff.  checkLimit() is synchronous: one step.       *)
(*                                                                         *)
(* A list of accept times is the set of its entries, each with the request *)
(* it is for: the code filters lists, counts them and takes their oldest   *)
(* time, and nothing depends on their order.                               *)
(***************************************************************************)
EXTENDS Naturals, FiniteSets, FiniteSetsExt

CONSTANTS
  Requests,      \* the tool calls that meet the limiter
  Keys,          \* what keyExtractor returns
  WindowMs, MaxRequests,
  PurgeEvery,    \* PURGE_EVERY_N_OPS
  BaseDelay,     \* the first backoff delay
  DelayCap,      \* the longest
  MaxTime        \* bound on the clock, for model checking only

ASSUME RateLimiterAssumption ==
  /\ {WindowMs, MaxRequests, PurgeEvery, BaseDelay, DelayCap} \subseteq Nat \ {0}
  /\ MaxTime \in Nat

VARIABLES
  counts,    \* requestCounts: the entries of each key; {} if absent
  ops,       \* operationsSinceLastPurge
  now,       \* Date.now()
  request,   \* the state of each request
  accepted   \* history: every entry of each key since its last clear()

limiterVars == <<counts, ops, now, request, accepted>>

Request ==
  [state : {"new", "waiting", "accepted", "refused", "timedout"},
   key : Keys, start : Nat, wakeAt : Nat, delay : Nat]

Entry == [of : Requests, at : Nat]

InWindow(e, at) == at - e.at < WindowMs

Valid(entries) == {e \in entries : InWindow(e, now)}

Accepts(k) == Cardinality(Valid(counts[k])) < MaxRequests

\* purgeExpiredKeys()
Purged(f) == [k \in Keys |-> Valid(f[k])]

\* checkLimit(), accepting: the accept time is logged, and every PurgeEvery-th
\* acceptance cleans all keys.
Accept(r) ==
  LET k == request[r].key
      entry == [of |-> r, at |-> now]
      logged == [counts EXCEPT ![k] = Valid(@) \cup {entry}]
  IN  /\ Accepts(k)
      /\ IF ops + 1 >= PurgeEvery
         THEN counts' = Purged(logged) /\ ops' = 0
         ELSE counts' = logged /\ ops' = ops + 1
      /\ accepted' = [accepted EXCEPT ![k] = @ \cup {entry}]

\* checkLimit(), refusing.
Refuse(r) ==
  LET k == request[r].key
  IN  /\ ~Accepts(k)
      /\ counts' = [counts EXCEPT ![k] = Valid(@)]
      /\ UNCHANGED <<ops, accepted>>

\* A delay is at most DelayCap; the next one is twice as long.
Capped(delay) == IF delay > DelayCap THEN DelayCap ELSE delay

\* getTimeUntilSlot(k)
TimeUntilSlot(k) ==
  IF Accepts(k) THEN 0 ELSE Min({e.at : e \in Valid(counts[k])}) + WindowMs - now

LimiterInit ==
  /\ counts = [k \in Keys |-> {}]
  /\ ops = 0
  /\ now = 0
  /\ \E f \in [Requests -> Keys] :
       request = [r \in Requests |-> [state |-> "new", key |-> f[r],
                                      start |-> 0, wakeAt |-> 0, delay |-> Capped(BaseDelay)]]
  /\ accepted = [k \in Keys |-> {}]

\* onLimitExceeded = "reject"
Try(r) ==
  /\ request[r].state = "new"
  /\ \/ /\ Accept(r)
        /\ request' = [request EXCEPT ![r].state = "accepted"]
     \/ /\ Refuse(r)
        /\ request' = [request EXCEPT ![r].state = "refused"]
  /\ UNCHANGED now

\* Faulty: the wait is given up when the next sleep would end after the deadline.
TurnGivingUp(r, start) ==
  \/ /\ Accept(r)
     /\ request' = [request EXCEPT ![r].state = "accepted"]
  \/ /\ Refuse(r)
     /\ IF now - start + request[r].delay > WindowMs
        THEN request' = [request EXCEPT ![r].state = "timedout"]
        ELSE request' = [request EXCEPT ![r].state = "waiting", ![r].start = start,
                                        ![r].delay = Capped(2 * @),
                                        ![r].wakeAt = now + request[r].delay]

\* One turn of the loop of waitForSlot(): a try, then the test of the deadline,
\* then a sleep.
Turn(r, start) ==
  \/ /\ Accept(r)
     /\ request' = [request EXCEPT ![r].state = "accepted"]
  \/ /\ Refuse(r)
     /\ IF now - start >= WindowMs
        THEN request' = [request EXCEPT ![r].state = "timedout"]
        ELSE request' = [request EXCEPT ![r].state = "waiting", ![r].start = start,
                                        ![r].delay = Capped(2 * @),
                                        ![r].wakeAt = now + request[r].delay]

\* onLimitExceeded = "wait": the first turn, and those after a sleep, which may
\* last longer than it was asked to.
BeginWait(r) ==
  /\ request[r].state = "new"
  /\ Turn(r, now)
  /\ UNCHANGED now

Awake(r) ==
  /\ request[r].state = "waiting"
  /\ now >= request[r].wakeAt
  /\ Turn(r, request[r].start)
  /\ UNCHANGED now

\* clear(k)
Clear(k) ==
  /\ counts' = [counts EXCEPT ![k] = {}]
  /\ accepted' = [accepted EXCEPT ![k] = {}]
  /\ UNCHANGED <<ops, now, request>>

Tick ==
  /\ now < MaxTime
  /\ now' = now + 1
  /\ UNCHANGED <<counts, ops, request, accepted>>

LimiterNext ==
  \/ \E r \in Requests : Try(r) \/ BeginWait(r) \/ Awake(r)
  \/ \E k \in Keys : Clear(k)
  \/ Tick

LimiterSpec == LimiterInit /\ [][LimiterNext]_limiterVars

-----------------------------------------------------------------------------
(* Properties.                                                             *)

\* The limit itself: in no interval of WindowMs, wherever it starts, are more than
\* MaxRequests requests of one key accepted.
WindowLimit ==
  \A k \in Keys, from \in 0 .. now :
    Cardinality({e \in accepted[k] : e.at >= from /\ e.at < from + WindowMs}) <= MaxRequests

\* Cleaning the lists, by a check or by the periodic purge, never forgets a request
\* that still counts: the limiter decides as if it kept all.
NothingForgotten ==
  \A k \in Keys : Valid(counts[k]) = Valid(accepted[k])

\* A refused caller is told the time at which a slot is free if nobody comes in
\* between, and the first such time.
RetryAfterTight ==
  \A k \in Keys :
    LET w == TimeUntilSlot(k)
        CountAt(at) == Cardinality({e \in counts[k] : InWindow(e, at)})
    IN  /\ CountAt(now + w) < MaxRequests
        /\ w > 0 => CountAt(now + w - 1) >= MaxRequests

\* What the limiter says is that of a sliding window: it accepts no more than the
\* limit in any interval, forgets nothing that counts, and announces the right
\* time to a caller it refuses (checkLimit, purgeExpiredKeys, getTimeUntilSlot).
WindowKept == WindowLimit /\ NothingForgotten /\ RetryAfterTight

BlockedByLaterOnly(r) == \A e \in Valid(counts[request[r].key]) : e.at > request[r].start

\* A wait times out only because of others: all the slots that block it were taken
\* after it began, so a lone waiter always gets in; and no sleep reaches beyond the
\* window a request may wait plus one capped delay (waitForSlot).
TimeoutOnlyByOthers ==
  [][\A r \in Requests :
       /\ request[r].state = "waiting" /\ request'[r].state = "timedout" => BlockedByLaterOnly(r)
       /\ request'[r].state = "waiting" => request'[r].wakeAt < request'[r].start + WindowMs + DelayCap]_limiterVars

\* The limiter is a sliding window at every instant, and a wait is as long as it
\* must be (RateLimiter, createRateLimitMiddleware).
LimiterHonest == []WindowKept /\ TimeoutOnlyByOthers
=============================================================================
