---------------------------- MODULE RequestQueue ----------------------------
(***************************************************************************)
(* Concurrency control of tool calls: RequestQueue                         *)
(* (packages/platform/src/concurrency/request-queue.ts) as the             *)
(* backpressure middleware uses it, acquire() before the handler and       *)
(* release() in a finally clause after it.                                 *)
(*                                                                         *)
(* A caller stands for a sequence of tool calls, one at a time.  What runs *)
(* between two awaits is one step; waking a waiter resolves its promise,   *)
(* and the waiter goes on in a later microtask (Resume).                   *)
(***************************************************************************)
EXTENDS Naturals, Sequences, FiniteSets

CONSTANTS Callers, MaxConcurrent

ASSUME RequestQueueAssumption ==
  /\ IsFiniteSet(Callers)
  /\ MaxConcurrent \in Nat \ {0}

Strategies == {"sleep", "queue", "reject"}

VARIABLES
  strategy,   \* the backpressure strategy, fixed at construction
  inFlight,   \* the counter
  waitQueue,  \* the callers whose resolve functions wait, first in first out
  pc          \* where each caller is

vars == <<strategy, inFlight, waitQueue, pc>>

\* "granted": release() resolved the caller's promise, which has not resumed yet.
Places == {"idle", "queued", "granted", "sleeping", "refused", "running"}

Full == inFlight >= MaxConcurrent

\* The callers that own a slot.
Holders == {c \in Callers : pc[c] \in {"granted", "running"}}

Init ==
  /\ strategy \in Strategies
  /\ inFlight = 0
  /\ waitQueue = <<>>
  /\ pc = [c \in Callers |-> "idle"]

Outside(c) == pc[c] \in {"idle", "refused"}

\* acquire() finds a free slot, and claims it before anything else can run.
AcquireNow(c) ==
  /\ Outside(c)
  /\ ~Full
  /\ inFlight' = inFlight + 1
  /\ pc' = [pc EXCEPT ![c] = "running"]
  /\ UNCHANGED <<strategy, waitQueue>>

\* acquire() finds none: it throws, joins the queue, or goes to sleep.
AcquireFull(c) ==
  /\ Outside(c)
  /\ Full
  /\ pc' = [pc EXCEPT ![c] = CASE strategy = "reject" -> "refused"
                               [] strategy = "queue"  -> "queued"
                               [] strategy = "sleep"  -> "sleeping"]
  /\ waitQueue' = IF strategy = "queue" THEN Append(waitQueue, c) ELSE waitQueue
  /\ UNCHANGED <<strategy, inFlight>>

\* The queued caller resumes; its slot was claimed for it by release().
Resume(c) ==
  /\ pc[c] = "granted"
  /\ pc' = [pc EXCEPT ![c] = "running"]
  /\ UNCHANGED <<strategy, inFlight, waitQueue>>

\* Faulty: the loop became a single test before the sleep.
WakeUpUntested(c) ==
  /\ pc[c] = "sleeping"
  /\ inFlight' = inFlight + 1
  /\ pc' = [pc EXCEPT ![c] = "running"]
  /\ UNCHANGED <<strategy, waitQueue>>

\* A sleeper's timer fires: it tests the counter again and sleeps on if full.
WakeUp(c) ==
  /\ pc[c] = "sleeping"
  /\ ~Full
  /\ inFlight' = inFlight + 1
  /\ pc' = [pc EXCEPT ![c] = "running"]
  /\ UNCHANGED <<strategy, waitQueue>>

\* Faulty: the slot is freed before the waiter is woken, for any newcomer to take.
ReleaseFrees(c) ==
  /\ pc[c] = "running"
  /\ inFlight' = inFlight - 1
  /\ pc' = [pc EXCEPT ![c] = "idle"]
  /\ UNCHANGED <<strategy, waitQueue>>

\* Faulty: the last waiter is woken first.
ReleaseLast(c) ==
  LET n == Len(waitQueue) IN
  /\ pc[c] = "running"
  /\ IF strategy = "queue" /\ n > 0
     THEN /\ pc' = [pc EXCEPT ![c] = "idle", ![waitQueue[n]] = "granted"]
          /\ waitQueue' = SubSeq(waitQueue, 1, n - 1)
          /\ UNCHANGED inFlight
     ELSE /\ pc' = [pc EXCEPT ![c] = "idle"]
          /\ inFlight' = inFlight - 1
          /\ UNCHANGED waitQueue
  /\ UNCHANGED strategy

\* The handler settles, either way, and the finally clause releases the slot: to
\* the first waiter if there is one, to nobody otherwise.
Release(c) ==
  /\ pc[c] = "running"
  /\ IF strategy = "queue" /\ waitQueue # <<>>
     THEN /\ pc' = [pc EXCEPT ![c] = "idle", ![Head(waitQueue)] = "granted"]
          /\ waitQueue' = Tail(waitQueue)
          /\ UNCHANGED inFlight
     ELSE /\ pc' = [pc EXCEPT ![c] = "idle"]
          /\ inFlight' = inFlight - 1
          /\ UNCHANGED waitQueue
  /\ UNCHANGED strategy

Next == \E c \in Callers : \/ AcquireNow(c)
                           \/ AcquireFull(c)
                           \/ Resume(c)
                           \/ WakeUp(c)
                           \/ Release(c)

Spec == Init /\ [][Next]_vars

\* Microtasks run, and handlers settle; nothing else is owed.
FairSpec == /\ Spec
            /\ \A c \in Callers : WF_vars(Resume(c)) /\ WF_vars(Release(c))

-----------------------------------------------------------------------------
(* Properties.                                                             *)

\* Type invariant.
TypeOK ==
  /\ strategy \in Strategies
  /\ inFlight \in Nat
  /\ waitQueue \in Seq(Callers)
  /\ pc \in [Callers -> Places]

\* The counter counts: it is the number of callers that own a slot, those woken
\* but not yet resumed included, so no slot is lost or claimed twice.
CounterExact == inFlight = Cardinality(Holders)

\* The limit holds under every strategy and every order of wake-ups.
LimitRespected == Cardinality(Holders) <= MaxConcurrent

\* No slot is idle while somebody is queued for one: with the handover of
\* release(), nobody waits for a slot that is free.
WorkConserving == waitQueue # <<>> => inFlight = MaxConcurrent

\* First come, first served: while callers are queued, the only caller that can
\* come to own a slot is the first of them.
NoOvertaking ==
  [][\A c \in Callers :
       waitQueue # <<>> /\ c \notin Holders /\ c \in Holders' => c = Head(waitQueue)]_vars

\* Under the queue strategy, whoever waits is served, as long as handlers settle.
QueuedServed ==
  \A c \in Callers : pc[c] = "queued" ~> pc[c] = "running"

\* The queue implements limited concurrency.
Limit == INSTANCE Slots WITH Users <- Callers, Capacity <- MaxConcurrent,
                             inside <- Holders
ImplementsSlots == Limit!Spec

\* First come, first served, with every slot counted once and none idle meanwhile
\* (acquire, release).
FirstComeFirstServed == [](CounterExact /\ WorkConserving) /\ NoOvertaking
=============================================================================
