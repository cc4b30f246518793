------------------------- MODULE RequestQueueProofs -------------------------
(***************************************************************************)
(* Theorems about RequestQueue, for any finite set of callers, any limit   *)
(* and every strategy.  The invariant adds to the properties what the      *)
(* queue is made of: each entry is a caller that waits, and none is there  *)
(* twice, so that waking the first is exactly one caller's gain.           *)
(*                                                                         *)
(* And about the Pipeline the queue is a stage of, for any stages and any  *)
(* number of calls: which stages are entered, which have called next(),    *)
(* and that no stage ends while one further in still runs.                 *)
(*                                                                         *)
(* And about the RateLimiter before it, for any window, limit and interval  *)
(* of the purge: the cleaned lists count what the full ones would.         *)
(***************************************************************************)
EXTENDS RequestQueue, Pipeline, RateLimiter, FiniteSetTheorems, WellFoundedInduction, TLAPS

IInv ==
  /\ TypeOK
  /\ CounterExact
  /\ inFlight <= MaxConcurrent
  /\ WorkConserving
  /\ waitQueue # <<>> => strategy = "queue"
  /\ \A i \in 1 .. Len(waitQueue) : pc[waitQueue[i]] = "queued"
  /\ \A i, j \in 1 .. Len(waitQueue) : waitQueue[i] = waitQueue[j] => i = j

\* Those that hold a slot are finitely many, so they can be counted.
LEMMA HoldersFinite ==
  /\ IsFiniteSet(Holders)
  /\ Cardinality(Holders) \in Nat
<1>1. IsFiniteSet(Holders)
  BY FS_Subset, RequestQueueAssumption DEF Holders
<1>2. QED
  BY <1>1, FS_CardinalityType

\* A newcomer takes one place, a leaver gives one back, a handover changes nothing.
LEMMA HoldersGain ==
  ASSUME NEW c \in Callers, c \notin Holders, Holders' = Holders \cup {c}
  PROVE  Cardinality(Holders') = Cardinality(Holders) + 1
BY HoldersFinite, FS_AddElement, Zenon

\* A leaver gives one place back.
LEMMA HoldersLose ==
  ASSUME NEW c \in Callers, c \in Holders, Holders' = Holders \ {c}
  PROVE  Cardinality(Holders') = Cardinality(Holders) - 1
BY HoldersFinite, FS_RemoveElement, Zenon

\* A handover changes who holds a place, not how many do.
LEMMA HoldersSwap ==
  ASSUME NEW c \in Callers, c \in Holders, NEW d \in Callers, d \notin Holders,
         Holders' = (Holders \ {c}) \cup {d}
  PROVE  Cardinality(Holders') = Cardinality(Holders)
<1> DEFINE rest == Holders \ {c}
<1>1. IsFiniteSet(rest) /\ Cardinality(rest) = Cardinality(Holders) - 1
  BY HoldersFinite, FS_RemoveElement, Zenon
<1>2. Cardinality(rest \cup {d}) = Cardinality(rest) + 1
  BY <1>1, FS_AddElement, Zenon
<1>3. QED
  BY <1>1, <1>2, HoldersFinite

\* An empty queue satisfies the invariant.
LEMMA InitIInv == Init => IInv
<1> SUFFICES ASSUME Init PROVE IInv
  OBVIOUS
<1>1. Holders = {}
  BY DEF Init, Holders
<1>2. Cardinality(Holders) = 0
  BY <1>1, FS_EmptySet
<1>3. QED
  BY <1>2, RequestQueueAssumption
     DEF Init, IInv, TypeOK, CounterExact, WorkConserving, Places, Strategies

\* What each action does to the set of holders.
LEMMA HoldersStep ==
  ASSUME IInv, NEW c \in Callers
  PROVE  /\ AcquireNow(c) \/ WakeUp(c) => c \notin Holders /\ Holders' = Holders \cup {c}
         /\ AcquireFull(c) \/ Resume(c) => Holders' = Holders
         /\ Release(c) /\ waitQueue = <<>> => c \in Holders /\ Holders' = Holders \ {c}
         /\ Release(c) /\ waitQueue # <<>> =>
              /\ c \in Holders /\ Head(waitQueue) \in Callers \ Holders
              /\ Holders' = (Holders \ {c}) \cup {Head(waitQueue)}
<1>1. AcquireNow(c) \/ WakeUp(c) => c \notin Holders /\ Holders' = Holders \cup {c}
  BY DEF AcquireNow, WakeUp, Outside, Holders, IInv, TypeOK
<1>2. AcquireFull(c) \/ Resume(c) => Holders' = Holders
  BY DEF AcquireFull, Resume, Outside, Holders, IInv, TypeOK, Strategies
<1>3. Release(c) /\ waitQueue = <<>> => c \in Holders /\ Holders' = Holders \ {c}
  BY DEF Release, Holders, IInv, TypeOK
<1>4. ASSUME Release(c), waitQueue # <<>>
      PROVE  /\ c \in Holders /\ Head(waitQueue) \in Callers \ Holders
             /\ Holders' = (Holders \ {c}) \cup {Head(waitQueue)}
  <2>1. Head(waitQueue) = waitQueue[1] /\ 1 \in 1 .. Len(waitQueue)
    BY <1>4 DEF IInv, TypeOK
  <2>2. Head(waitQueue) \in Callers /\ pc[Head(waitQueue)] = "queued"
    BY <2>1 DEF IInv, TypeOK
  <2>3. pc' = [pc EXCEPT ![c] = "idle", ![Head(waitQueue)] = "granted"]
    BY <1>4 DEF Release, IInv
  <2>4. QED
    BY <1>4, <2>2, <2>3 DEF Release, Holders, IInv, TypeOK
<1>5. QED
  BY <1>1, <1>2, <1>3, <1>4

\* Every step of a caller keeps the invariant.
LEMMA NextIInv == IInv /\ [Next]_vars => IInv'
<1> SUFFICES ASSUME IInv, [Next]_vars PROVE IInv'
  OBVIOUS
<1>1. Cardinality(Holders) \in Nat /\ inFlight = Cardinality(Holders) /\ inFlight \in Nat
  BY HoldersFinite DEF IInv, CounterExact
<1>2. ASSUME NEW c \in Callers, AcquireNow(c) \/ WakeUp(c)
      PROVE  IInv'
  <2>1. CounterExact'
    BY <1>1, <1>2, HoldersStep, HoldersGain DEF AcquireNow, WakeUp, CounterExact
  <2>2. TypeOK'
    BY <1>2 DEF IInv, TypeOK, AcquireNow, WakeUp, Places
  <2>3. inFlight < MaxConcurrent /\ inFlight' = inFlight + 1 /\ waitQueue' = waitQueue
    BY <1>1, <1>2, RequestQueueAssumption DEF AcquireNow, WakeUp, Full
  <2>4. waitQueue = <<>>
    BY <1>1, <2>3, RequestQueueAssumption DEF IInv, WorkConserving
  <2>5. Len(waitQueue') = 0
    BY <2>3, <2>4
  <2>6. QED
    BY <1>1, <2>1, <2>2, <2>3, <2>4, <2>5, RequestQueueAssumption DEF IInv, WorkConserving
<1>3. ASSUME NEW c \in Callers, AcquireFull(c), strategy = "queue"
      PROVE  IInv'
  <2>1. CounterExact'
    BY <1>1, <1>3, HoldersStep DEF AcquireFull, CounterExact
  <2>2. /\ waitQueue' = Append(waitQueue, c)
        /\ pc' = [pc EXCEPT ![c] = "queued"]
        /\ UNCHANGED <<strategy, inFlight>>
    BY <1>3 DEF AcquireFull
  <2>3. TypeOK'
    BY <2>2 DEF IInv, TypeOK, Places
  <2>4. inFlight' = MaxConcurrent
    BY <1>1, <1>3, <2>2, RequestQueueAssumption DEF AcquireFull, Full, IInv
  <2>5. \A i \in 1 .. Len(waitQueue) : waitQueue[i] # c
    BY <1>3 DEF AcquireFull, Outside, IInv
  <2>6. /\ Len(waitQueue') = Len(waitQueue) + 1
        /\ \A i \in 1 .. Len(waitQueue) : waitQueue'[i] = waitQueue[i]
        /\ waitQueue'[Len(waitQueue) + 1] = c
        /\ Len(waitQueue) \in Nat
    BY <2>2 DEF IInv, TypeOK
  <2>7. \A i \in 1 .. Len(waitQueue') : pc'[waitQueue'[i]] = "queued"
    BY <2>2, <2>5, <2>6 DEF IInv, TypeOK
  <2>8. \A i, j \in 1 .. Len(waitQueue') : waitQueue'[i] = waitQueue'[j] => i = j
    BY <2>5, <2>6 DEF IInv
  <2>9. QED
    BY <1>1, <1>3, <2>1, <2>2, <2>3, <2>4, <2>7, <2>8, RequestQueueAssumption
       DEF IInv, WorkConserving
<1>4. ASSUME NEW c \in Callers, AcquireFull(c), strategy # "queue"
      PROVE  IInv'
  <2>1. CounterExact'
    BY <1>1, <1>4, HoldersStep DEF AcquireFull, CounterExact
  <2>2. waitQueue' = waitQueue /\ waitQueue = <<>> /\ UNCHANGED <<strategy, inFlight>>
    BY <1>4 DEF AcquireFull, IInv
  <2>3. TypeOK'
    BY <1>4, <2>2 DEF AcquireFull, IInv, TypeOK, Places, Strategies
  <2>4. QED
    BY <1>1, <2>1, <2>2, <2>3 DEF IInv, WorkConserving
<1>5. ASSUME NEW c \in Callers, Resume(c)
      PROVE  IInv'
  <2>1. CounterExact'
    BY <1>1, <1>5, HoldersStep DEF Resume, CounterExact
  <2>2. TypeOK'
    BY <1>5 DEF Resume, IInv, TypeOK, Places
  <2>3. QED
    BY <1>5, <2>1, <2>2 DEF Resume, IInv, TypeOK, WorkConserving
<1>6. ASSUME NEW c \in Callers, Release(c), waitQueue = <<>>
      PROVE  IInv'
  <2>1. Cardinality(Holders') = Cardinality(Holders) - 1
    BY <1>6, HoldersStep, HoldersLose
  <2>2. inFlight' = inFlight - 1 /\ waitQueue' = waitQueue /\ strategy' = strategy
        /\ pc' = [pc EXCEPT ![c] = "idle"]
    BY <1>6 DEF Release
  <2>3. CounterExact'
    BY <1>1, <2>1, <2>2 DEF CounterExact
  <2>4. inFlight' \in Nat
    BY <2>3, HoldersFinite, <1>1, <2>1, <2>2, FS_CardinalityType, FS_Subset,
       HoldersStep, <1>6, FS_RemoveElement DEF CounterExact
  <2>5. TypeOK'
    BY <2>2, <2>4 DEF IInv, TypeOK, Places
  <2>6. QED
    BY <1>1, <1>6, <2>2, <2>3, <2>5, RequestQueueAssumption DEF IInv, WorkConserving
<1>7. ASSUME NEW c \in Callers, Release(c), waitQueue # <<>>
      PROVE  IInv'
  <2>1. Cardinality(Holders') = Cardinality(Holders)
    BY <1>7, HoldersStep, HoldersSwap
  <2>2. /\ inFlight' = inFlight /\ waitQueue' = Tail(waitQueue) /\ strategy' = strategy
        /\ pc' = [pc EXCEPT ![c] = "idle", ![Head(waitQueue)] = "granted"]
    BY <1>7 DEF Release, IInv
  <2>3. CounterExact'
    BY <1>1, <2>1, <2>2 DEF CounterExact
  <2>4. TypeOK'
    BY <1>7, <2>2 DEF IInv, TypeOK, Places
  <2>5. /\ Len(waitQueue) \in Nat \ {0}
        /\ Len(waitQueue') = Len(waitQueue) - 1
        /\ \A i \in 1 .. Len(waitQueue') : waitQueue'[i] = waitQueue[i + 1]
        /\ Head(waitQueue) = waitQueue[1]
    BY <1>7, <2>2 DEF IInv, TypeOK
  <2>6. \A i \in 1 .. Len(waitQueue') : /\ waitQueue'[i] # Head(waitQueue)
                                        /\ waitQueue'[i] # c
                                        /\ pc[waitQueue'[i]] = "queued"
    BY <1>7, <2>5 DEF IInv, Release
  <2>7. \A i \in 1 .. Len(waitQueue') : pc'[waitQueue'[i]] = "queued"
    <3>1. \A i \in 1 .. Len(waitQueue') : waitQueue'[i] \in Callers
      BY <2>4 DEF TypeOK
    <3>2. QED
      BY <2>2, <2>6, <3>1 DEF IInv, TypeOK
  <2>8. \A i, j \in 1 .. Len(waitQueue') : waitQueue'[i] = waitQueue'[j] => i = j
    BY <2>5 DEF IInv
  <2>9. QED
    BY <1>1, <1>7, <2>2, <2>3, <2>4, <2>7, <2>8 DEF IInv, WorkConserving
<1>8. CASE UNCHANGED vars
  BY <1>8 DEF vars, IInv, TypeOK, CounterExact, Holders, WorkConserving
<1>9. QED
  BY <1>2, <1>3, <1>4, <1>5, <1>6, <1>7, <1>8 DEF Next

-----------------------------------------------------------------------------
(* The theorems.                                                           *)

\* The inductive invariant holds in every reachable state.
THEOREM Invariance == Spec => []IInv
BY InitIInv, NextIInv, PTL DEF Spec

\* The counter is exact, the limit holds and no slot idles while someone queues.
THEOREM Accounting == Spec => [](TypeOK /\ CounterExact /\ LimitRespected /\ WorkConserving)
<1>1. IInv => TypeOK /\ CounterExact /\ LimitRespected /\ WorkConserving
  BY DEF IInv, CounterExact, LimitRespected
<1>2. QED
  BY <1>1, Invariance, PTL

\* Nobody comes to own a slot before the first of the queue does.
THEOREM Fifo == Spec => NoOvertaking
<1>1. IInv /\ [Next]_vars =>
        [\A c \in Callers :
           waitQueue # <<>> /\ c \notin Holders /\ c \in Holders' => c = Head(waitQueue)]_vars
  <2> SUFFICES ASSUME IInv, Next, waitQueue # <<>>,
                      NEW c \in Callers, c \notin Holders, c \in Holders'
               PROVE  c = Head(waitQueue)
    BY DEF vars
  <2>1. PICK d \in Callers : \/ AcquireNow(d) \/ WakeUp(d)
                             \/ AcquireFull(d) \/ Resume(d) \/ Release(d)
    BY DEF Next
  <2>2. Full
    BY RequestQueueAssumption DEF IInv, WorkConserving, Full
  <2>3. ~AcquireNow(d) /\ ~WakeUp(d)
    BY <2>2 DEF AcquireNow, WakeUp
  <2>4. QED
    BY <2>1, <2>3, HoldersStep
<1>2. QED
  BY <1>1, Invariance, PTL DEF Spec, NoOvertaking

\* The queue, under any strategy, implements limited concurrency.
THEOREM Refinement == Spec => ImplementsSlots
<1>1. Init => Limit!Init
  BY DEF Init, Holders, Limit!Init
<1>2. IInv /\ [Next]_vars => [Limit!Next]_Holders
  <2> SUFFICES ASSUME IInv, [Next]_vars PROVE Limit!Next \/ Holders' = Holders
    OBVIOUS
  <2>1. CASE UNCHANGED vars
    BY <2>1 DEF vars, Holders
  <2>2. ASSUME NEW c \in Callers, AcquireNow(c) \/ WakeUp(c)
        PROVE  Limit!Enter(c)
    <3>1. Cardinality(Holders) < MaxConcurrent
      BY <2>2, HoldersFinite, RequestQueueAssumption
         DEF AcquireNow, WakeUp, Full, IInv, CounterExact
    <3>2. QED
      BY <2>2, <3>1, HoldersStep DEF Limit!Enter, Limit!Cardinality, Cardinality
  <2>3. ASSUME NEW c \in Callers, Release(c)
        PROVE  Limit!Leave(c) \/ \E d \in Callers : Limit!HandOver(c, d)
    BY <2>3, HoldersStep DEF Limit!Leave, Limit!HandOver
  <2>4. ASSUME NEW c \in Callers, AcquireFull(c) \/ Resume(c)
        PROVE  Holders' = Holders
    BY <2>4, HoldersStep
  <2>5. QED
    BY <2>1, <2>2, <2>3, <2>4 DEF Next, Limit!Next
<1>3. QED
  BY <1>1, <1>2, Invariance, PTL DEF Spec, ImplementsSlots, Limit!Spec

\* First come, first served, every slot counted once, and none idle meanwhile.
THEOREM Fairness == Spec => FirstComeFirstServed
BY Accounting, Fifo, PTL DEF FirstComeFirstServed

-----------------------------------------------------------------------------
(* The pipeline.  A call is described by its own values, so that what a step   *)
(* does to one call is told without the others.                                *)

PipelineTypes ==
  /\ current \in Versions /\ latest \in Versions
  /\ headers \in [Calls -> Versions \cup {-1}]
  /\ bound \in [Calls -> Versions \cup {-1}]
  /\ asked \in [Calls -> [1 .. Handler -> Versions \cup {-1}]]
  /\ index \in [Calls -> 0 .. N]
  /\ handlerCalled \in [Calls -> BOOLEAN]
  /\ entered \in [Calls -> [1 .. Handler -> Nat]]
  /\ place \in [Calls -> [1 .. Handler -> {"idle", "running", "returned", "threw"}]]
  /\ waits \in [Calls -> [Stages -> SUBSET ((1 .. Handler) \cup {-1})]]
  /\ nexts \in [Calls -> [Stages -> Nat]]

\* Only what the index has passed was entered, and only that has called next().
Entered(ix, h, e, p, w, n) ==
  /\ h => ix = N
  /\ \A i \in Stages : p[i] = "idle" <=> i > ix
  /\ p[Handler] = "idle" <=> ~h
  /\ \A i \in Stages : (i > ix => n[i] = 0) /\ (n[i] = 0 => w[i] = {})
  /\ \A i \in 1 .. Handler : (p[i] = "idle" => e[i] = 0) /\ (p[i] # "idle" => e[i] = 1)

\* Every stage that was entered but the first was called by one in front of it, and by one
\* only, which stays as long as it runs.
Tree(p, w) ==
  /\ \A i \in 2 .. Handler : p[i] # "idle" => \E j \in Stages : j < i /\ i \in w[j]
  /\ \A j \in Stages : \A i \in w[j] : i # -1 => p[i] # "idle" /\ (p[i] = "running" => p[j] = "running")
  /\ \A i \in 2 .. Handler, j, k \in Stages : i \in w[j] /\ i \in w[k] => j = k

\* With one next() from each, the last stage entered is the one that has not called it,
\* the others await their successors, and no stage has ended before its successor.
Nested(ix, h, p, w, n) ==
  /\ \A i \in Stages : i < ix => n[i] = 1 /\ w[i] = {i + 1}
  /\ ix > 0 => IF h THEN n[ix] = 1 /\ w[ix] = {Handler} ELSE n[ix] = 0 /\ w[ix] = {}
  /\ \A i \in Stages : p[i] \in {"returned", "threw"} => \A j \in (i + 1) .. Handler : p[j] # "running"

Calm(n) == \A i \in Stages : n[i] <= 1

CallInv(b, a, ix, h, e, p, w, n) ==
  /\ \A i \in 1 .. Handler : a[i] \in {-1, b}
  /\ b = -1 => ix = 0
  /\ Entered(ix, h, e, p, w, n)
  /\ Tree(p, w)
  /\ Calm(n) => Nested(ix, h, p, w, n)

OnionInv ==
  /\ PipelineTypes
  /\ \A c \in Calls : CallInv(bound[c], asked[c], index[c], handlerCalled[c], entered[c], place[c], waits[c], nexts[c])


\* The pipeline has a stage at least, and the handler comes after the last.
LEMMA NatN == N \in Nat /\ N >= 1 /\ Handler = N + 1 /\ Stages = 1 .. N
<1>1. Middlewares \in Seq({"custom", "bound", "plain"}) /\ Middlewares # <<>>
  BY PipelineAssumption
<1>2. Len(Middlewares) \in Nat /\ Len(Middlewares) >= 1
  BY <1>1
<1>3. QED
  BY <1>1, <1>2 DEF N, Handler, Stages

CallTypes(b, a, ix, h, e, p, w, n) ==
  /\ b \in Versions \cup {-1}
  /\ a \in [1 .. Handler -> Versions \cup {-1}]
  /\ ix \in 0 .. N
  /\ h \in BOOLEAN
  /\ e \in [1 .. Handler -> Nat]
  /\ p \in [1 .. Handler -> {"idle", "running", "returned", "threw"}]
  /\ w \in [Stages -> SUBSET ((1 .. Handler) \cup {-1})]
  /\ n \in [Stages -> Nat]

CallKept(b, a, ix, h, e, p, w, n) == CallTypes(b, a, ix, h, e, p, w, n) /\ CallInv(b, a, ix, h, e, p, w, n)

\* A stage that awaits nothing still to come may end: what it awaited has ended before it.
LEMMA StageEnds ==
  ASSUME NEW b, NEW a, NEW ix, NEW h, NEW e, NEW p, NEW w, NEW n, CallKept(b, a, ix, h, e, p, w, n),
         NEW i \in Stages, p[i] = "running", NEW how \in {"returned", "threw"},
         \A j \in w[i] : j # -1 => p[j] \in {"returned", "threw"}
  PROVE  CallKept(b, a, ix, h, e, [p EXCEPT ![i] = how], w, n)
<1> DEFINE q == [p EXCEPT ![i] = how]
<1>0. b \in Versions \cup {-1} /\ ix \in 0 .. N /\ h \in BOOLEAN /\ w \in [Stages -> SUBSET ((1 .. Handler) \cup {-1})] /\ n \in [Stages -> Nat]
  BY DEF CallKept, CallTypes
<1>1. /\ q \in [1 .. Handler -> {"idle", "running", "returned", "threw"}]
      /\ q[i] = how /\ \A j \in 1 .. Handler : j # i => q[j] = p[j]
  BY NatN DEF CallKept, CallTypes
<1>2. Entered(ix, h, e, p, w, n)
  BY DEF CallKept, CallInv
<1> HIDE DEF q
<1>3. Entered(ix, h, e, q, w, n)
  <2>1. \A j \in Stages : q[j] = "idle" <=> p[j] = "idle"
    BY <1>1, NatN
  <2>2. q[Handler] = p[Handler]
    BY <1>1, NatN
  <2>3. \A j \in 1 .. Handler : q[j] = "idle" <=> p[j] = "idle"
    BY <1>1
  <2>4. QED
    BY <1>2, <2>1, <2>2, <2>3 DEF Entered
<1>3a. Tree(q, w)
  <2>1. Tree(p, w)
    BY DEF CallKept, CallInv
  <2>2. \A j \in 1 .. Handler : (q[j] = "idle" <=> p[j] = "idle") /\ (q[j] = "running" => p[j] = "running")
    BY <1>1
  <2>3. ASSUME NEW j \in Stages, NEW k \in w[j], k # -1
        PROVE  q[k] # "idle" /\ (q[k] = "running" => q[j] = "running")
    <3>1. k \in 1 .. Handler /\ j \in 1 .. Handler
      BY <2>3, <1>0, NatN
    <3>2. p[k] # "idle" /\ (p[k] = "running" => p[j] = "running")
      BY <2>1, <2>3 DEF Tree
    <3>3. CASE j = i
      <4>1. p[k] \in {"returned", "threw"}
        BY <2>3, <3>3
      <4>2. QED
        BY <4>1, <3>1, <2>2
    <3>4. CASE j # i
      BY <3>1, <3>2, <3>4, <2>2, <1>1
    <3>5. QED
      BY <3>3, <3>4
  <2>4. \A k \in 2 .. Handler : k \in 1 .. Handler
    BY NatN
  <2>5. \A k \in 2 .. Handler : q[k] # "idle" => \E j \in Stages : j < k /\ k \in w[j]
    BY <2>1, <2>2, <2>4 DEF Tree
  <2>6. QED
    BY <2>1, <2>3, <2>5 DEF Tree
<1>4. ASSUME Calm(n) PROVE Nested(ix, h, q, w, n)
  <2>1. Nested(ix, h, p, w, n)
    BY <1>4 DEF CallKept, CallInv
  <2>2. i <= ix
    BY <1>0, <1>2, NatN DEF Entered
  <2>3. ASSUME NEW j \in (i + 1) .. Handler PROVE q[j] # "running"
    <3>1. CASE i < ix
      <4>1. w[i] = {i + 1} /\ i + 1 \in Stages
        BY <2>1, <3>1, <1>0, NatN DEF Nested
      <4>2. p[i + 1] \in {"returned", "threw"}
        <5>1. i + 1 \in w[i] /\ i + 1 # -1
          BY <4>1, NatN
        <5>2. QED
          BY <5>1
      <4>3. CASE j = i + 1
        BY <4>2, <4>3, <1>1, NatN
      <4>4. CASE j # i + 1
        <5>1. j \in ((i + 1) + 1) .. Handler
          BY <4>4, NatN
        <5>2. p[j] # "running"
          BY <5>1, <4>1, <4>2, <2>1 DEF Nested
        <5>3. QED
          BY <5>2, <1>1, NatN
      <4>5. QED
        BY <4>3, <4>4
    <3>2. CASE i = ix /\ ~h
      <4>1. p[j] = "idle"
        BY <3>2, <1>2, NatN DEF Entered
      <4>2. QED
        BY <4>1, <1>1, NatN
    <3>3. CASE i = ix /\ h
      <4>1. i = N /\ w[i] = {Handler}
        BY <3>3, <2>1, <1>2, NatN DEF Entered, Nested
      <4>2. j = Handler /\ j \in w[i] /\ j # -1
        BY <4>1, NatN
      <4>3. p[j] \in {"returned", "threw"}
        BY <4>2
      <4>4. QED
        BY <4>2, <4>3, <1>1, NatN
    <3>4. QED
      BY <3>1, <3>2, <3>3, <2>2, <1>0, NatN
  <2>4. ASSUME NEW k \in Stages, q[k] \in {"returned", "threw"}, NEW j \in (k + 1) .. Handler
        PROVE  q[j] # "running"
    <3>1. CASE k = i
      BY <3>1, <2>3, <2>4
    <3>2. CASE k # i
      <4>1. p[k] \in {"returned", "threw"}
        BY <3>2, <2>4, <1>1, NatN
      <4>2. p[j] # "running"
        BY <4>1, <2>1, <2>4 DEF Nested
      <4>3. QED
        BY <4>2, <1>1, NatN
    <3>3. QED
      BY <3>1, <3>2
  <2>5. QED
    BY <2>1, <2>4 DEF Nested
<1>5. CallInv(b, a, ix, h, e, q, w, n)
  BY <1>3, <1>3a, <1>4 DEF CallKept, CallInv
<1>6. CallTypes(b, a, ix, h, e, q, w, n)
  BY <1>1 DEF CallKept, CallTypes
<1>7. QED
  BY <1>5, <1>6 DEF CallKept, q

\* The handler ends before every stage.
LEMMA HandlerEnds ==
  ASSUME NEW b, NEW a, NEW ix, NEW h, NEW e, NEW p, NEW w, NEW n, CallKept(b, a, ix, h, e, p, w, n),
         p[Handler] = "running", NEW how \in {"returned", "threw"}
  PROVE  CallKept(b, a, ix, h, e, [p EXCEPT ![Handler] = how], w, n)
<1> DEFINE q == [p EXCEPT ![Handler] = how]
<1>1. /\ q \in [1 .. Handler -> {"idle", "running", "returned", "threw"}]
      /\ q[Handler] = how /\ \A j \in 1 .. Handler : j # Handler => q[j] = p[j]
  BY NatN DEF CallKept, CallTypes
<1>2. Entered(ix, h, e, p, w, n) /\ (Calm(n) => Nested(ix, h, p, w, n))
  BY DEF CallKept, CallInv
<1> HIDE DEF q
<1>2a. /\ \A j \in 1 .. Handler : (q[j] = "idle" <=> p[j] = "idle") /\ (q[j] = "running" => p[j] = "running")
       /\ \A j \in Stages : j \in 1 .. Handler /\ q[j] = p[j]
       /\ Handler \in 1 .. Handler
  BY <1>1, NatN
<1>3. Entered(ix, h, e, q, w, n)
  BY <1>2, <1>2a DEF Entered
<1>3a. Tree(q, w)
  <2>1. Tree(p, w)
    BY DEF CallKept, CallInv
  <2>2. w \in [Stages -> SUBSET ((1 .. Handler) \cup {-1})]
    BY DEF CallKept, CallTypes
  <2>3. ASSUME NEW j \in Stages, NEW k \in w[j], k # -1
        PROVE  q[k] # "idle" /\ (q[k] = "running" => q[j] = "running")
    <3>1. k \in 1 .. Handler
      BY <2>2, <2>3
    <3>2. p[k] # "idle" /\ (p[k] = "running" => p[j] = "running")
      BY <2>1, <2>3 DEF Tree
    <3>3. QED
      BY <3>1, <3>2, <1>2a
  <2>4. \A k \in 2 .. Handler : k \in 1 .. Handler
    BY NatN
  <2>5. \A k \in 2 .. Handler : q[k] # "idle" => \E j \in Stages : j < k /\ k \in w[j]
    BY <2>1, <2>4, <1>2a DEF Tree
  <2>6. QED
    BY <2>1, <2>3, <2>5 DEF Tree
<1>4. ASSUME Calm(n) PROVE Nested(ix, h, q, w, n)
  <2>1. Nested(ix, h, p, w, n)
    BY <1>2, <1>4
  <2>2. ASSUME NEW k \in Stages, q[k] \in {"returned", "threw"}, NEW j \in (k + 1) .. Handler
        PROVE  q[j] # "running"
    <3>1. p[k] \in {"returned", "threw"}
      BY <2>2, <1>1, NatN
    <3>2. p[j] # "running"
      BY <3>1, <2>1, <2>2 DEF Nested
    <3>3. QED
      BY <3>2, <1>1, NatN
  <2>3. QED
    BY <2>1, <2>2 DEF Nested
<1>5. CallInv(b, a, ix, h, e, q, w, n)
  BY <1>3, <1>3a, <1>4 DEF CallKept, CallInv
<1>6. CallTypes(b, a, ix, h, e, q, w, n)
  BY <1>1 DEF CallKept, CallTypes
<1>7. QED
  BY <1>5, <1>6 DEF CallKept, q

\* What next() does to handlerCalled, and when it is not refused.
Noted(h2, h, ix) == h2 \in BOOLEAN /\ (h2 <=> h \/ ix = N)
OpenTo(ix, h) == ix < N \/ ~h

\* How what a call is made of changes when its stage i enters the stage after ix.
StageGrows(i, b, ix, how, v, a, a2, ix2) ==
  /\ how \in {"running", "threw"} /\ (ix < N => how = "running") /\ v \in {a[ix + 1], b}
  /\ a2 = [a EXCEPT ![ix + 1] = v]
  /\ ix2 = (IF ix < N THEN ix + 1 ELSE ix)
CallGrows(i, ix, how, e, p, w, n, e2, q, w2, n2) ==
  /\ e2 = [e EXCEPT ![ix + 1] = @ + 1] /\ q = [p EXCEPT ![ix + 1] = how]
  /\ w2 = [w EXCEPT ![i] = @ \cup {ix + 1}] /\ n2 = [n EXCEPT ![i] = @ + 1]

\* A next() that is answered enters exactly the stage after the last one entered; with
\* one next() from each, only that last one can have called it.
LEMMA StageCalls ==
  ASSUME NEW b, NEW a, NEW ix, NEW h, NEW e, NEW p, NEW w, NEW n, CallKept(b, a, ix, h, e, p, w, n),
         NEW i \in Stages, p[i] = "running", OpenTo(ix, h),
         NEW how, NEW v, NEW a2, NEW ix2, NEW h2, NEW e2, NEW q, NEW w2, NEW n2,
         StageGrows(i, b, ix, how, v, a, a2, ix2), Noted(h2, h, ix),
         CallGrows(i, ix, how, e, p, w, n, e2, q, w2, n2)
  PROVE  CallKept(b, a2, ix2, h2, e2, q, w2, n2)
<1>0a. /\ how \in {"running", "threw"} /\ (ix < N => how = "running") /\ v \in {a[ix + 1], b}
      /\ a2 = [a EXCEPT ![ix + 1] = v] /\ ix2 = (IF ix < N THEN ix + 1 ELSE ix)
      /\ e2 = [e EXCEPT ![ix + 1] = @ + 1] /\ q = [p EXCEPT ![ix + 1] = how]
      /\ w2 = [w EXCEPT ![i] = @ \cup {ix + 1}] /\ n2 = [n EXCEPT ![i] = @ + 1]
  BY DEF StageGrows, CallGrows
<1>0. /\ b \in Versions \cup {-1} /\ ix \in 0 .. N /\ h \in BOOLEAN /\ w \in [Stages -> SUBSET ((1 .. Handler) \cup {-1})] /\ n \in [Stages -> Nat]
      /\ a \in [1 .. Handler -> Versions \cup {-1}] /\ \A j \in 1 .. Handler : a[j] \in {-1, b}
      /\ p \in [1 .. Handler -> {"idle", "running", "returned", "threw"}] /\ e \in [1 .. Handler -> Nat]
  BY DEF CallKept, CallTypes, CallInv
<1>1. Entered(ix, h, e, p, w, n) /\ Tree(p, w) /\ (Calm(n) => Nested(ix, h, p, w, n)) /\ (b = -1 => ix = 0)
  BY DEF CallKept, CallInv
<1>2. i \in 1 .. ix /\ ix + 1 \in 1 .. Handler /\ b # -1
  BY <1>0, <1>1, NatN DEF Entered
<1>3. /\ a2 \in [1 .. Handler -> Versions \cup {-1}] /\ \A j \in 1 .. Handler : a2[j] \in {-1, b}
      /\ q \in [1 .. Handler -> {"idle", "running", "returned", "threw"}]
      /\ q[ix + 1] = how /\ \A j \in 1 .. Handler : j # ix + 1 => q[j] = p[j]
      /\ w2 \in [Stages -> SUBSET ((1 .. Handler) \cup {-1})] /\ w2[i] = w[i] \cup {ix + 1} /\ \A j \in Stages : j # i => w2[j] = w[j]
      /\ n2 \in [Stages -> Nat] /\ n2[i] = n[i] + 1 /\ \A j \in Stages : j # i => n2[j] = n[j]
  <2>1. i \in Stages /\ ix + 1 \in Int /\ ix + 1 \in -1 .. Handler /\ n[i] \in Nat
    BY <1>0, <1>2, NatN
  <2>2. /\ a2 \in [1 .. Handler -> Versions \cup {-1}] /\ \A j \in 1 .. Handler : a2[j] \in {-1, b}
    BY <1>0, <1>2, <1>0a
  <2>3. /\ q \in [1 .. Handler -> {"idle", "running", "returned", "threw"}]
        /\ q[ix + 1] = how /\ \A j \in 1 .. Handler : j # ix + 1 => q[j] = p[j]
    BY <1>0, <1>2, <1>0a
  <2>4. w2 \in [Stages -> SUBSET ((1 .. Handler) \cup {-1})] /\ w2[i] = w[i] \cup {ix + 1} /\ \A j \in Stages : j # i => w2[j] = w[j]
    BY <1>0, <2>1, <1>0a
  <2>5. n2 \in [Stages -> Nat] /\ n2[i] = n[i] + 1 /\ \A j \in Stages : j # i => n2[j] = n[j]
    BY <1>0, <2>1, <1>0a
  <2>6. QED
    BY <2>2, <2>3, <2>4, <2>5
<1>3a. /\ e2 \in [1 .. Handler -> Nat] /\ e2[ix + 1] = e[ix + 1] + 1
       /\ \A j \in 1 .. Handler : j # ix + 1 => e2[j] = e[j]
  BY <1>0, <1>2, <1>0a
<1>4. ix2 \in 0 .. N /\ ~h /\ h2 \in BOOLEAN /\ (ix < N => ix2 = ix + 1 /\ ~h2) /\ (ix = N => ix2 = N /\ h2)
  BY <1>0, <1>1, <1>0a, NatN DEF Entered, Noted, OpenTo
<1>4a. p[ix + 1] = "idle" /\ q[ix + 1] # "idle"
  <2>1. CASE ix < N
    <3>1. ix + 1 \in Stages /\ ix + 1 > ix
      BY <2>1, <1>0, NatN
    <3>2. QED
      BY <3>1, <1>1, <1>3, <1>0a DEF Entered
  <2>2. CASE ix = N
    BY <2>2, <1>1, <1>3, <1>0a, <1>4, NatN DEF Entered
  <2>3. QED
    BY <2>1, <2>2, <1>0, NatN
<1>4b. Tree(q, w2)
  <2>1. \A j \in Stages : \A k \in w[j] : k # ix + 1
    <3> SUFFICES ASSUME NEW j \in Stages, NEW k \in w[j], k = ix + 1 PROVE FALSE
      OBVIOUS
    <3>1. k # -1
      BY <1>0, NatN
    <3>2. QED
      BY <3>1, <1>1, <1>4a DEF Tree
  <2>2. i < ix + 1
    BY <1>0, <1>2
  <2>3. ASSUME NEW k \in 2 .. Handler, q[k] # "idle" PROVE \E j \in Stages : j < k /\ k \in w2[j]
    <3>1. CASE k = ix + 1
      BY <3>1, <2>2, <1>3
    <3>2. CASE k # ix + 1
      <4>1. p[k] # "idle"
        BY <3>2, <2>3, <1>3, NatN
      <4>2. PICK j \in Stages : j < k /\ k \in w[j]
        BY <4>1, <1>1 DEF Tree
      <4>3. k \in w2[j]
        BY <4>2, <1>3
      <4>4. QED
        BY <4>2, <4>3
    <3>3. QED
      BY <3>1, <3>2
  <2>4. ASSUME NEW j \in Stages, NEW k \in w2[j], k # -1
        PROVE  q[k] # "idle" /\ (q[k] = "running" => q[j] = "running")
    <3>0. q[i] = "running" /\ i \in 1 .. Handler
      BY <2>2, <1>3, NatN
    <3>1. CASE k = ix + 1
      <4>1. j = i
        BY <3>1, <2>1, <1>3
      <4>2. QED
        BY <4>1, <3>0, <3>1, <1>4a
    <3>2. CASE k # ix + 1
      <4>1. k \in w[j]
        BY <3>2, <2>4, <1>3
      <4>2. k \in 1 .. Handler /\ j \in 1 .. Handler
        <5>1. w[j] \subseteq (1 .. Handler) \cup {-1}
          BY <1>0
        <5>2. QED
          BY <5>1, <4>1, <2>4, NatN
      <4>3. p[k] # "idle" /\ (p[k] = "running" => p[j] = "running")
        BY <4>1, <2>4, <1>1 DEF Tree
      <4>4. p[k] = "running" => j # ix + 1
        BY <4>3, <1>4a
      <4>5. QED
        BY <4>2, <4>3, <4>4, <3>2, <1>3
    <3>3. QED
      BY <3>1, <3>2
  <2>5. ASSUME NEW k \in 2 .. Handler, NEW j \in Stages, NEW l \in Stages, k \in w2[j], k \in w2[l] PROVE j = l
    <3>1. CASE k = ix + 1
      BY <3>1, <2>1, <2>5, <1>3
    <3>2. CASE k # ix + 1
      <4>1. k \in w[j] /\ k \in w[l]
        BY <3>2, <2>5, <1>3
      <4>2. QED
        BY <4>1, <1>1 DEF Tree
    <3>3. QED
      BY <3>1, <3>2
  <2>6. QED
    BY <2>3, <2>4, <2>5, Zenon DEF Tree
<1>5. Entered(ix2, h2, e2, q, w2, n2)
  <2>0. ix \in Nat /\ N \in Nat /\ i <= ix
    BY <1>0, <1>2, NatN
  <2>1. h2 => ix2 = N
    BY <1>0, <1>4, <2>0, NatN
  <2>1a. ASSUME NEW j \in 1 .. Handler PROVE (q[j] = "idle" => e2[j] = 0) /\ (q[j] # "idle" => e2[j] = 1)
    <3>1. (p[j] = "idle" => e[j] = 0) /\ (p[j] # "idle" => e[j] = 1)
      BY <1>1 DEF Entered
    <3>2. CASE j = ix + 1
      <4>1. e[j] = 0
        BY <3>1, <3>2, <1>4a
      <4>2. e2[j] = 1
        BY <4>1, <3>2, <1>3a
      <4>3. QED
        BY <4>2, <3>2, <1>4a
    <3>3. CASE j # ix + 1
      BY <3>1, <3>3, <1>3, <1>3a
    <3>4. QED
      BY <3>2, <3>3
  <2>2. ASSUME NEW j \in Stages PROVE q[j] = "idle" <=> j > ix2
    <3>1. j \in 1 .. Handler /\ j \in Int /\ j # Handler /\ j <= N
      BY NatN
    <3>2. p[j] = "idle" <=> j > ix
      BY <1>1 DEF Entered
    <3>3. CASE j = ix + 1
      <4>1. ix < N /\ q[j] = "running" /\ ix2 = j
        BY <3>3, <3>1, <1>3, <1>0a, <1>4, <2>0
      <4>2. QED
        BY <4>1, <3>1
    <3>4. CASE j # ix + 1
      BY <3>1, <3>2, <3>4, <1>0, <1>3, <1>4, <2>0
    <3>5. QED
      BY <3>3, <3>4
  <2>3. q[Handler] = "idle" <=> ~h2
    <3>1. CASE ix = N
      BY <3>1, <1>3, <1>0a, <1>4, NatN
    <3>2. CASE ix < N
      <4>1. q[Handler] = p[Handler]
        BY <3>2, <2>0, <1>3, NatN
      <4>2. QED
        BY <4>1, <3>2, <1>1, <1>4 DEF Entered
    <3>3. QED
      BY <3>1, <3>2, <1>0, <2>0
  <2>4a. ASSUME NEW j \in Stages, n2[j] = 0 PROVE w2[j] = {}
    <3>1. j # i
      BY <2>4a, <1>0, <1>3
    <3>2. QED
      BY <3>1, <2>4a, <1>1, <1>3 DEF Entered
  <2>4. ASSUME NEW j \in Stages, j > ix2 PROVE n2[j] = 0 /\ w2[j] = {}
    <3>1. j > ix /\ j # i
      BY <2>0, <2>4, <1>0, <1>4, NatN
    <3>2. n[j] = 0 /\ w[j] = {}
      BY <3>1, <1>1 DEF Entered
    <3>3. QED
      BY <3>1, <3>2, <1>3
  <2>5. QED
    BY <2>1, <2>1a, <2>2, <2>3, <2>4a, <2>4 DEF Entered
<1>6. ASSUME Calm(n2) PROVE Nested(ix2, h2, q, w2, n2)
  <2>0. ix \in Nat /\ N \in Nat /\ i \in Nat
    BY <1>0, NatN
  <2>1. n[i] = 0 /\ \A j \in Stages : n[j] <= 1
    <3>1. \A j \in Stages : n[j] \in Nat /\ n2[j] <= 1
      BY <1>6, <1>0 DEF Calm
    <3>2. n[i] + 1 <= 1 /\ n[i] \in Nat
      BY <3>1, <1>3
    <3>3. n[i] = 0
      BY <3>2
    <3>4. QED
      BY <3>1, <3>3, <1>3
  <2>2. Nested(ix, h, p, w, n)
    BY <2>1, <1>1 DEF Calm
  <2>3. i = ix
    <3>1. i < ix => n[i] = 1
      BY <2>2 DEF Nested
    <3>2. QED
      BY <3>1, <2>0, <2>1, <1>2
  <2>3a. w[i] = {}
    BY <2>1, <1>1 DEF Entered
  <2>4. \A j \in Stages : j < ix2 => n2[j] = 1 /\ w2[j] = {j + 1}
    <3> SUFFICES ASSUME NEW j \in Stages, j < ix2 PROVE n2[j] = 1 /\ w2[j] = {j + 1}
      OBVIOUS
    <3>1. CASE j = i
      BY <3>1, <2>1, <2>3, <2>3a, <1>3
    <3>2. CASE j # i
      <4>1. j < ix
        BY <3>2, <2>0, <2>3, <1>0, <1>4, NatN
      <4>2. n[j] = 1 /\ w[j] = {j + 1}
        BY <4>1, <2>2 DEF Nested
      <4>3. QED
        BY <3>2, <4>2, <1>3
    <3>3. QED
      BY <3>1, <3>2
  <2>5. IF h2 THEN n2[ix2] = 1 /\ w2[ix2] = {Handler} ELSE n2[ix2] = 0 /\ w2[ix2] = {}
    <3>1. CASE ix = N
      BY <3>1, <2>1, <2>3, <2>3a, <1>3, <1>4, NatN
    <3>2. CASE ix < N
      <4>1. ix2 = ix + 1 /\ ix2 \in Stages /\ ix2 # i /\ ix2 > ix /\ ~h2
        BY <3>2, <2>0, <2>3, <1>4, NatN
      <4>2. n[ix2] = 0 /\ w[ix2] = {}
        BY <4>1, <1>1 DEF Entered
      <4>3. QED
        BY <4>1, <4>2, <1>3
    <3>3. QED
      BY <3>1, <3>2, <1>0, NatN
  <2>6. ASSUME NEW k \in Stages, q[k] \in {"returned", "threw"}, NEW j \in (k + 1) .. Handler
        PROVE  q[j] # "running"
    <3>1. k # ix + 1
      <4>1. ASSUME k = ix + 1 PROVE FALSE
        <5>1. ix < N
          BY <4>1, <2>0, NatN
        <5>2. q[k] = "running"
          BY <4>1, <5>1, <1>3, <1>0a
        <5>3. QED
          BY <5>2, <2>6
      <4>2. QED
        BY <4>1
    <3>2. p[k] \in {"returned", "threw"} /\ k <= ix
      <4>1. p[k] \in {"returned", "threw"}
        BY <3>1, <2>6, <1>3, NatN
      <4>2. p[k] # "idle"
        BY <4>1
      <4>3. ~(k > ix)
        BY <4>2, <1>1 DEF Entered
      <4>4. QED
        BY <4>1, <4>3, <2>0, NatN
    <3>3. \A l \in (k + 1) .. Handler : p[l] # "running"
      BY <3>2, <2>2 DEF Nested
    <3>4. ~(i \in (k + 1) .. Handler)
      BY <3>3
    <3>5. k = i
      BY <3>2, <3>4, <2>3, <1>2, NatN
    <3>6. QED
      BY <3>2, <3>5
  <2>7. \A k \in Stages : q[k] \in {"returned", "threw"} => \A j \in (k + 1) .. Handler : q[j] # "running"
    BY <2>6
  <2>8. QED
    BY <2>4, <2>5, <2>7, Zenon DEF Nested
<1>7. ix2 # 0
  BY <1>0, <1>2, <1>4, NatN
<1>8. CallInv(b, a2, ix2, h2, e2, q, w2, n2)
  BY <1>2, <1>3, <1>4b, <1>5, <1>6 DEF CallInv
<1>9. CallTypes(b, a2, ix2, h2, e2, q, w2, n2)
  BY <1>0, <1>3, <1>3a, <1>4 DEF CallTypes
<1>10. QED
  BY <1>8, <1>9 DEF CallKept

\* The runner starts with the first stage, and with a definition that stays.
LEMMA CallBound ==
  ASSUME NEW a, NEW ix, NEW h, NEW e, NEW p, NEW w, NEW n, CallKept(-1, a, ix, h, e, p, w, n),
         NEW b \in Versions, NEW v \in {a[1], b}
  PROVE  CallKept(b, [a EXCEPT ![1] = v], 1, h, [e EXCEPT ![1] = @ + 1], [p EXCEPT ![1] = "running"], w, n)
<1> DEFINE a2 == [a EXCEPT ![1] = v]
           e2 == [e EXCEPT ![1] = @ + 1]
           q == [p EXCEPT ![1] = "running"]
<1>0. /\ ix = 0 /\ h \in BOOLEAN /\ w \in [Stages -> SUBSET ((1 .. Handler) \cup {-1})] /\ n \in [Stages -> Nat]
      /\ a \in [1 .. Handler -> Versions \cup {-1}] /\ \A j \in 1 .. Handler : a[j] = -1
      /\ p \in [1 .. Handler -> {"idle", "running", "returned", "threw"}] /\ Entered(0, h, e, p, w, n)
      /\ e \in [1 .. Handler -> Nat] /\ Tree(p, w)
  BY DEF CallKept, CallTypes, CallInv
<1>1. 1 \in 1 .. Handler /\ 1 \in Stages /\ Handler # 1 /\ Handler \in 1 .. Handler /\ 1 \in 0 .. N /\ N # 0 /\ b # -1
  BY NatN DEF Versions
<1>2. /\ a2 \in [1 .. Handler -> Versions \cup {-1}] /\ \A j \in 1 .. Handler : a2[j] \in {-1, b}
      /\ q \in [1 .. Handler -> {"idle", "running", "returned", "threw"}]
      /\ q[1] = "running" /\ \A j \in 1 .. Handler : j # 1 => q[j] = p[j]
      /\ e2 \in [1 .. Handler -> Nat] /\ e2[1] = e[1] + 1 /\ \A j \in 1 .. Handler : j # 1 => e2[j] = e[j]
  <2>0. e \in [1 .. Handler -> Nat] /\ 1 \in 1 .. Handler
    BY <1>0, <1>1
  <2>1. e[1] + 1 \in Nat
    BY <2>0
  <2>2. e2 \in [1 .. Handler -> Nat] /\ e2[1] = e[1] + 1 /\ \A j \in 1 .. Handler : j # 1 => e2[j] = e[j]
    BY <2>0, <2>1
  <2>3. /\ a2 \in [1 .. Handler -> Versions \cup {-1}] /\ \A j \in 1 .. Handler : a2[j] \in {-1, b}
        /\ q \in [1 .. Handler -> {"idle", "running", "returned", "threw"}]
        /\ q[1] = "running" /\ \A j \in 1 .. Handler : j # 1 => q[j] = p[j]
    BY <1>0, <1>1
  <2>4. QED
    BY <2>2, <2>3
<1> HIDE DEF a2, q, e2
<1>3. ~h /\ p[Handler] = "idle" /\ \A j \in Stages : p[j] = "idle" /\ n[j] = 0 /\ w[j] = {}
  <2>1. ~h
    BY <1>0, <1>1 DEF Entered
  <2>2. \A j \in Stages : j > 0
    BY NatN
  <2>3. QED
    BY <2>1, <2>2, <1>0 DEF Entered
<1>4. q[Handler] = "idle" /\ \A j \in Stages : j # 1 => q[j] = "idle"
  BY <1>1, <1>2, <1>3, NatN
<1>4a. \A j \in 1 .. Handler : e[j] = 0 /\ p[j] = "idle"
  <2>1. \A j \in 1 .. Handler : j \in Stages \/ j = Handler
    BY NatN
  <2>2. QED
    BY <2>1, <1>0, <1>3 DEF Entered
<1>4b. Tree(q, w)
  <2>1. \A j \in 2 .. Handler : j \in 1 .. Handler /\ j # 1
    BY NatN
  <2>2. QED
    BY <2>1, <1>2, <1>3, <1>4a DEF Tree
<1>5. Entered(1, h, e2, q, w, n)
  <2>1. \A j \in Stages : j > 1 <=> j # 1
    BY NatN
  <2>2. \A j \in Stages : q[j] = "idle" <=> j > 1
    BY <2>1, <1>2, <1>4
  <2>3. ASSUME NEW j \in 1 .. Handler PROVE (q[j] = "idle" => e2[j] = 0) /\ (q[j] # "idle" => e2[j] = 1)
    <3>1. CASE j = 1
      BY <3>1, <1>1, <1>2, <1>4a
    <3>2. CASE j # 1
      BY <3>2, <1>2, <1>4a
    <3>3. QED
      BY <3>1, <3>2
  <2>4. QED
    BY <2>2, <2>3, <1>3, <1>4 DEF Entered
<1>6. Nested(1, h, q, w, n)
  <2>1. \A j \in Stages : ~(j < 1) /\ q[j] \notin {"returned", "threw"}
    BY <1>2, <1>4, NatN
  <2>2. n[1] = 0 /\ w[1] = {} /\ ~h
    BY <1>1, <1>3
  <2>3. QED
    BY <2>1, <2>2 DEF Nested
<1>7. CallInv(b, a2, 1, h, e2, q, w, n)
  BY <1>1, <1>2, <1>4b, <1>5, <1>6 DEF CallInv
<1>8. CallTypes(b, a2, 1, h, e2, q, w, n)
  BY <1>0, <1>1, <1>2 DEF CallTypes
<1>9. QED
  BY <1>7, <1>8 DEF CallKept, a2, e2, q

\* Nothing has arrived.
LEMMA OnionInit == PipelineInit => OnionInv
<1> SUFFICES ASSUME PipelineInit PROVE OnionInv
  OBVIOUS
<1>1. -1 \in Versions \cup {-1} /\ 0 \in Versions /\ 0 \in 0 .. N
  BY NatN, PipelineAssumption DEF Versions
<1>2. PipelineTypes
  BY <1>1 DEF PipelineInit, PipelineTypes
<1>3. ASSUME NEW c \in Calls
      PROVE  CallInv(bound[c], asked[c], index[c], handlerCalled[c], entered[c], place[c], waits[c], nexts[c])
  <2>1. /\ bound[c] = -1 /\ index[c] = 0 /\ handlerCalled[c] = FALSE /\ entered[c] = [i \in 1 .. Handler |-> 0]
        /\ asked[c] = [i \in 1 .. Handler |-> -1] /\ place[c] = [i \in 1 .. Handler |-> "idle"]
        /\ waits[c] = [i \in Stages |-> {}] /\ nexts[c] = [i \in Stages |-> 0]
    BY DEF PipelineInit
  <2>2. \A i \in Stages : i > 0 /\ ~(i < 0) /\ i \in 1 .. Handler
    BY NatN
  <2>3. \A i \in 1 .. Handler : asked[c][i] = -1 /\ place[c][i] = "idle" /\ entered[c][i] = 0
    BY <2>1
  <2>4. \A i \in Stages : waits[c][i] = {} /\ nexts[c][i] = 0
    BY <2>1
  <2>5. Handler \in 1 .. Handler
    BY NatN
  <2>6. Entered(0, FALSE, entered[c], place[c], waits[c], nexts[c])
    BY <2>2, <2>3, <2>4, <2>5 DEF Entered
  <2>7. Nested(0, FALSE, place[c], waits[c], nexts[c])
    BY <2>2, <2>3 DEF Nested
  <2>8. Tree(place[c], waits[c])
    <3>1. \A i \in 2 .. Handler : i \in 1 .. Handler
      BY NatN
    <3>2. QED
      BY <3>1, <2>3, <2>4 DEF Tree
  <2>9. QED
    BY <2>1, <2>3, <2>6, <2>7, <2>8 DEF CallInv
<1>4. QED
  BY <1>2, <1>3 DEF OnionInv

CallMoves(c, b, a, ix, h, e, p, w, n) ==
  /\ current' = current /\ latest' = latest /\ headers' = headers
  /\ bound' = [bound EXCEPT ![c] = b] /\ asked' = [asked EXCEPT ![c] = a] /\ index' = [index EXCEPT ![c] = ix]
  /\ handlerCalled' = [handlerCalled EXCEPT ![c] = h] /\ entered' = [entered EXCEPT ![c] = e] /\ place' = [place EXCEPT ![c] = p] /\ waits' = [waits EXCEPT ![c] = w]
  /\ nexts' = [nexts EXCEPT ![c] = n]

\* A step of one call leaves what the others are made of.
LEMMA OneCallMoves ==
  ASSUME OnionInv, NEW c \in Calls, NEW b, NEW a, NEW ix, NEW h, NEW e, NEW p, NEW w, NEW n,
         CallKept(b, a, ix, h, e, p, w, n), CallMoves(c, b, a, ix, h, e, p, w, n)
  PROVE  OnionInv'
<1>1. CallTypes(b, a, ix, h, e, p, w, n) /\ CallInv(b, a, ix, h, e, p, w, n)
  BY DEF CallKept
<1>2. PipelineTypes'
  BY <1>1 DEF CallMoves, CallTypes, OnionInv, PipelineTypes
<1>3. ASSUME NEW d \in Calls
      PROVE  CallInv(bound'[d], asked'[d], index'[d], handlerCalled'[d], entered'[d], place'[d], waits'[d], nexts'[d])
  <2>1. CASE d = c
    <3>1. /\ bound'[d] = b /\ asked'[d] = a /\ index'[d] = ix /\ handlerCalled'[d] = h /\ entered'[d] = e /\ place'[d] = p /\ waits'[d] = w
          /\ nexts'[d] = n
      BY <2>1 DEF CallMoves, OnionInv, PipelineTypes
    <3>2. QED
      BY <3>1, <1>1
  <2>2. CASE d # c
    <3>1. /\ bound'[d] = bound[d] /\ asked'[d] = asked[d] /\ index'[d] = index[d] /\ handlerCalled'[d] = handlerCalled[d] /\ entered'[d] = entered[d]
          /\ place'[d] = place[d] /\ waits'[d] = waits[d] /\ nexts'[d] = nexts[d]
      BY <2>2 DEF CallMoves, OnionInv, PipelineTypes
    <3>2. QED
      BY <3>1 DEF OnionInv
  <2>3. QED
    BY <2>1, <2>2
<1>4. QED
  BY <1>2, <1>3 DEF OnionInv

\* Any end of a stage or of the handler.
LEMMA EndKeepsOnion ==
  ASSUME OnionInv, NEW c \in Calls, NEW i \in 1 .. Handler, place[c][i] = "running", NEW how \in {"returned", "threw"},
         i \in Stages => Free(c, i), place' = [place EXCEPT ![c][i] = how],
         UNCHANGED <<current, latest, headers, bound, asked, runnerVars, waits, nexts>>
  PROVE  OnionInv'
<1> DEFINE p == [place[c] EXCEPT ![i] = how]
<1>1. CallKept(bound[c], asked[c], index[c], handlerCalled[c], entered[c], place[c], waits[c], nexts[c])
  BY DEF OnionInv, PipelineTypes, CallKept, CallTypes
<1>2. CallKept(bound[c], asked[c], index[c], handlerCalled[c], entered[c], p, waits[c], nexts[c])
  <2>1. CASE i \in Stages
    BY <2>1, <1>1, StageEnds DEF Free, Ended, Refused
  <2>2. CASE i = Handler
    BY <2>2, <1>1, HandlerEnds
  <2>3. QED
    BY <2>1, <2>2, NatN
<1>3. place' = [place EXCEPT ![c] = p]
  OBVIOUS
<1>4. /\ bound' = [bound EXCEPT ![c] = bound[c]] /\ asked' = [asked EXCEPT ![c] = asked[c]]
      /\ index' = [index EXCEPT ![c] = index[c]] /\ handlerCalled' = [handlerCalled EXCEPT ![c] = handlerCalled[c]] /\ entered' = [entered EXCEPT ![c] = entered[c]]
      /\ waits' = [waits EXCEPT ![c] = waits[c]] /\ nexts' = [nexts EXCEPT ![c] = nexts[c]]
  BY DEF OnionInv, PipelineTypes, runnerVars
<1>5. CallMoves(c, bound[c], asked[c], index[c], handlerCalled[c], entered[c], p, waits[c], nexts[c])
  BY <1>3, <1>4, Zenon DEF CallMoves
<1> HIDE DEF p
<1>6. QED
  BY <1>2, <1>5, OneCallMoves

\* A next() that is refused: the stage has called it before.
LEMMA StageRefused ==
  ASSUME NEW b, NEW a, NEW ix, NEW h, NEW e, NEW p, NEW w, NEW n, CallKept(b, a, ix, h, e, p, w, n),
         NEW i \in Stages, ~(ix < N \/ ~h)
  PROVE  CallKept(b, a, ix, h, e, p, [w EXCEPT ![i] = @ \cup {-1}], [n EXCEPT ![i] = @ + 1])
<1> DEFINE w2 == [w EXCEPT ![i] = @ \cup {-1}]
           n2 == [n EXCEPT ![i] = @ + 1]
<1>0. /\ ix = N /\ h /\ w \in [Stages -> SUBSET ((1 .. Handler) \cup {-1})] /\ n \in [Stages -> Nat] /\ i \in Nat /\ i <= N /\ N \in Nat
      /\ Tree(p, w) /\ Entered(ix, h, e, p, w, n) /\ (Calm(n) => Nested(ix, h, p, w, n))
  BY NatN DEF CallKept, CallTypes, CallInv
<1>1. n[i] + 1 \in Nat
  BY <1>0, NatN
<1>2. /\ w2 \in [Stages -> SUBSET ((1 .. Handler) \cup {-1})] /\ w2[i] = w[i] \cup {-1} /\ \A j \in Stages : j # i => w2[j] = w[j]
      /\ n2 \in [Stages -> Nat] /\ n2[i] = n[i] + 1 /\ \A j \in Stages : j # i => n2[j] = n[j]
  BY <1>0, <1>1
<1> HIDE DEF w2, n2
<1>3. Entered(ix, h, e, p, w2, n2)
  BY <1>0, <1>2 DEF Entered
<1>3a. Tree(p, w2)
  <2>1. \A j \in Stages, k \in 2 .. Handler : (k \in w2[j] <=> k \in w[j]) /\ k # -1
    BY <1>2, NatN
  <2>2. \A j \in Stages : \A k \in w2[j] : k # -1 => k \in w[j]
    BY <1>2
  <2>3. QED
    BY <2>1, <2>2, <1>0 DEF Tree
<1>4. ASSUME Calm(n2) PROVE FALSE
  <2>1. n[i] + 1 <= 1 /\ n[i] \in Nat
    BY <1>4, <1>0, <1>2 DEF Calm
  <2>2. n[i] = 0
    BY <2>1
  <2>3. \A j \in Stages : n[j] <= 1
    BY <1>4, <1>2, <2>2 DEF Calm
  <2>4. Nested(ix, h, p, w, n)
    BY <2>3, <1>0 DEF Calm
  <2>5. (i < ix => n[i] = 1) /\ n[ix] = 1
    BY <2>4, <1>0, NatN DEF Nested
  <2>6. QED
    BY <2>2, <2>5, <1>0
<1>5. CallInv(b, a, ix, h, e, p, w2, n2)
  BY <1>3, <1>3a, <1>4 DEF CallKept, CallInv
<1>6. CallTypes(b, a, ix, h, e, p, w2, n2)
  BY <1>2 DEF CallKept, CallTypes
<1>7. QED
  BY <1>5, <1>6 DEF CallKept, w2, n2

\* Any next().
LEMMA CallKeepsOnion ==
  ASSUME OnionInv, NEW c \in Calls, NEW i \in Stages, Running(c, i), CallNext(c, i),
         UNCHANGED <<current, latest, headers, bound>>
  PROVE  OnionInv'
<1>0. /\ current' = current /\ latest' = latest /\ headers' = headers
      /\ bound' = [bound EXCEPT ![c] = bound[c]] /\ asked = [asked EXCEPT ![c] = asked[c]]
      /\ index = [index EXCEPT ![c] = index[c]] /\ handlerCalled = [handlerCalled EXCEPT ![c] = handlerCalled[c]]
      /\ entered = [entered EXCEPT ![c] = entered[c]]
      /\ place = [place EXCEPT ![c] = place[c]]
      /\ index[c] \in 0 .. N /\ handlerCalled[c] \in BOOLEAN /\ asked \in [Calls -> [1 .. Handler -> Versions \cup {-1}]]
      /\ place \in [Calls -> [1 .. Handler -> {"idle", "running", "returned", "threw"}]]
      /\ entered \in [Calls -> [1 .. Handler -> Nat]]
  BY DEF OnionInv, PipelineTypes
<1>1. CallKept(bound[c], asked[c], index[c], handlerCalled[c], entered[c], place[c], waits[c], nexts[c])
  BY DEF OnionInv, PipelineTypes, CallKept, CallTypes
<1>2. CASE index[c] < N \/ ~handlerCalled[c]
  <2> DEFINE ix == index[c]
             how == IF ix + 1 = Handler /\ bound[c] = 0 THEN "threw" ELSE "running"
             v == IF Kind(ix + 1) \in {"bound", "handler"} THEN bound[c] ELSE asked[c][ix + 1]
             a2 == [asked[c] EXCEPT ![ix + 1] = v]
             ix2 == IF ix < N THEN ix + 1 ELSE ix
             h2 == handlerCalled[c] \/ ix = N
             e2 == [entered[c] EXCEPT ![ix + 1] = @ + 1]
             p2 == [place[c] EXCEPT ![ix + 1] = how]
             w2 == [waits[c] EXCEPT ![i] = @ \cup {ix + 1}]
             n2 == [nexts[c] EXCEPT ![i] = @ + 1]
  <2>1. /\ how \in {"running", "threw"} /\ (ix < N => how = "running") /\ v \in {asked[c][ix + 1], bound[c]}
        /\ ix + 1 \in 1 .. Handler
    BY <1>0, NatN
  <2>2. CallKept(bound[c], a2, ix2, h2, e2, p2, w2, n2)
    <3> DEFINE bc == bound[c]
               ac == asked[c]
               hc == handlerCalled[c]
               ec == entered[c]
               pl == place[c]
               wc == waits[c]
               nc == nexts[c]
    <3>1. pl[i] = "running"
      BY DEF Running
    <3>2. CallGrows(i, ix, how, ec, pl, wc, nc, e2, p2, w2, n2)
      BY DEF CallGrows
    <3>3. CallKept(bc, ac, ix, hc, ec, pl, wc, nc)
      BY <1>1
    <3>4. Noted(h2, hc, ix) /\ OpenTo(ix, hc)
      BY <1>0, <1>2 DEF Noted, OpenTo
    <3>5. StageGrows(i, bc, ix, how, v, ac, a2, ix2)
      BY <2>1 DEF StageGrows
    <3> HIDE DEF ix, how, v, a2, ix2, h2, e2, p2, w2, n2, bc, ac, hc, ec, pl, wc, nc
    <3>6. CallKept(bc, a2, ix2, h2, e2, p2, w2, n2)
      BY ONLY i \in Stages, <3>1, <3>2, <3>3, <3>4, <3>5, StageCalls
    <3>7. QED
      BY <3>6 DEF bc
  <2>3. EnterStage(c, ix + 1, bound[c]) /\ index' = [index EXCEPT ![c] = IF @ < N THEN @ + 1 ELSE @]
        /\ handlerCalled' = [handlerCalled EXCEPT ![c] = @ \/ index[c] = N]
    BY <1>2 DEF CallNext, NextStage, Open
  <2>4. place' = [place EXCEPT ![c] = p2] /\ asked' = [asked EXCEPT ![c] = a2] /\ entered' = [entered EXCEPT ![c] = e2]
    BY <2>1, <2>3, <1>0 DEF EnterStage
  <2>5. index' = [index EXCEPT ![c] = ix2] /\ handlerCalled' = [handlerCalled EXCEPT ![c] = h2]
    BY <2>3 DEF OnionInv, PipelineTypes
  <2>6. waits' = [waits EXCEPT ![c] = w2] /\ nexts' = [nexts EXCEPT ![c] = n2]
    BY <1>2 DEF CallNext, Open, OnionInv, PipelineTypes
  <2> HIDE DEF ix, a2, ix2, h2, e2, p2, w2, n2
  <2>7. CallMoves(c, bound[c], a2, ix2, h2, e2, p2, w2, n2)
    BY <2>4, <2>5, <2>6, <1>0 DEF CallMoves
  <2>8. QED
    BY <2>2, <2>7, OneCallMoves
<1>3. CASE ~(index[c] < N \/ ~handlerCalled[c])
  <2> DEFINE w2 == [waits[c] EXCEPT ![i] = @ \cup {-1}]
             n2 == [nexts[c] EXCEPT ![i] = @ + 1]
  <2>1. CallKept(bound[c], asked[c], index[c], handlerCalled[c], entered[c], place[c], w2, n2)
    BY <1>1, <1>3, StageRefused
  <2>2. place' = place /\ asked' = asked /\ index' = index /\ handlerCalled' = handlerCalled /\ entered' = entered
    BY <1>3 DEF CallNext, NextStage, Open, runnerVars
  <2>3. waits' = [waits EXCEPT ![c] = w2] /\ nexts' = [nexts EXCEPT ![c] = n2]
    BY <1>3 DEF CallNext, Open, Refused, OnionInv, PipelineTypes
  <2> HIDE DEF w2, n2
  <2>4. /\ asked' = [asked EXCEPT ![c] = asked[c]] /\ index' = [index EXCEPT ![c] = index[c]]
        /\ handlerCalled' = [handlerCalled EXCEPT ![c] = handlerCalled[c]] /\ entered' = [entered EXCEPT ![c] = entered[c]] /\ place' = [place EXCEPT ![c] = place[c]]
    BY <2>2, <1>0
  <2>5. CallMoves(c, bound[c], asked[c], index[c], handlerCalled[c], entered[c], place[c], w2, n2)
    BY <2>3, <2>4, <1>0 DEF CallMoves
  <2>6. QED
    BY <2>1, <2>5, OneCallMoves
<1>4. QED
  BY <1>2, <1>3

\* Any start of a runner.
LEMMA BindKeepsOnion ==
  ASSUME OnionInv, NEW c \in Calls, Bind(c)
  PROVE  OnionInv'
<1> DEFINE v == IF Kind(1) = "bound" THEN current ELSE asked[c][1]
           a2 == [asked[c] EXCEPT ![1] = v]
           e2 == [entered[c] EXCEPT ![1] = @ + 1]
           p2 == [place[c] EXCEPT ![1] = "running"]
<1>1. CallKept(-1, asked[c], index[c], handlerCalled[c], entered[c], place[c], waits[c], nexts[c])
  BY DEF OnionInv, PipelineTypes, CallKept, CallTypes, Bind
<1>2. current \in Versions /\ v \in {asked[c][1], current}
  BY DEF OnionInv, PipelineTypes
<1>3. CallKept(current, a2, 1, handlerCalled[c], e2, p2, waits[c], nexts[c])
  BY <1>1, <1>2, CallBound
<1>4. 1 \in 1 .. Handler /\ 1 # Handler
  BY NatN
<1>5. /\ current' = current /\ latest' = latest /\ headers' = headers /\ bound' = [bound EXCEPT ![c] = current]
      /\ index' = [index EXCEPT ![c] = 1] /\ handlerCalled' = [handlerCalled EXCEPT ![c] = handlerCalled[c]]
      /\ waits' = [waits EXCEPT ![c] = waits[c]] /\ nexts' = [nexts EXCEPT ![c] = nexts[c]]
  BY DEF Bind, OnionInv, PipelineTypes
<1>6. asked' = [asked EXCEPT ![c] = a2] /\ place' = [place EXCEPT ![c] = p2] /\ entered' = [entered EXCEPT ![c] = e2]
  <2>1. EnterStage(c, 1, current)
    BY DEF Bind
  <2>2. entered' = [entered EXCEPT ![c] = e2]
    BY <2>1 DEF EnterStage, OnionInv, PipelineTypes
  <2>3. place' = [place EXCEPT ![c] = p2]
    BY <2>1, <1>4 DEF EnterStage, OnionInv, PipelineTypes
  <2>4. Kind(1) \in {"bound", "handler"} <=> Kind(1) = "bound"
    BY <1>4, NatN, PipelineAssumption DEF Kind
  <2>5. asked' = [asked EXCEPT ![c] = a2]
    BY <2>1, <2>4 DEF EnterStage, OnionInv, PipelineTypes
  <2>6. QED
    BY <2>2, <2>3, <2>5
<1> HIDE DEF v, a2, e2, p2
<1>7. CallMoves(c, current, a2, 1, handlerCalled[c], e2, p2, waits[c], nexts[c])
  BY <1>5, <1>6 DEF CallMoves
<1>8. QED
  BY <1>3, <1>7, OneCallMoves

\* What happens to the registry reaches no call that is bound.
LEMMA RegistryKeepsOnion ==
  ASSUME OnionInv, Register \/ Unregister \/ (\E c \in Calls : Arrive(c))
  PROVE  OnionInv'
<1>1. UNCHANGED <<bound, asked, index, handlerCalled, entered, place, waits, nexts>>
  BY DEF Register, Unregister, Arrive, runnerVars
<1>2. current' \in Versions /\ latest' \in Versions
  BY PipelineAssumption DEF Register, Unregister, Arrive, OnionInv, PipelineTypes, Versions
<1>3. headers' \in [Calls -> Versions \cup {-1}]
  BY DEF Register, Unregister, Arrive, OnionInv, PipelineTypes
<1>4. PipelineTypes'
  BY <1>1, <1>2, <1>3 DEF OnionInv, PipelineTypes
<1>5. \A c \in Calls : CallInv(bound'[c], asked'[c], index'[c], handlerCalled'[c], entered'[c], place'[c], waits'[c], nexts'[c])
  BY <1>1 DEF OnionInv
<1>6. QED
  BY <1>4, <1>5 DEF OnionInv

\* Every step of the pipeline keeps the invariant.
LEMMA OnionStep == OnionInv /\ [PipelineNext]_pipelineVars => OnionInv'
<1> SUFFICES ASSUME OnionInv, [PipelineNext]_pipelineVars PROVE OnionInv'
  OBVIOUS
<1>1. CASE UNCHANGED pipelineVars
  BY <1>1 DEF pipelineVars, runnerVars, OnionInv, PipelineTypes
<1>2. CASE Register \/ Unregister
  BY <1>2, RegistryKeepsOnion
<1>3. ASSUME NEW c \in Calls, Arrive(c) PROVE OnionInv'
  BY <1>3, RegistryKeepsOnion
<1>4. ASSUME NEW c \in Calls, Bind(c) PROVE OnionInv'
  BY <1>4, BindKeepsOnion
<1>5. ASSUME NEW c \in Calls, HandlerEnd(c) PROVE OnionInv'
  <2>1. PICK how \in {"returned", "threw"} : place' = [place EXCEPT ![c][Handler] = how]
    BY <1>5 DEF HandlerEnd
  <2>2. Handler \in 1 .. Handler /\ Handler \notin Stages
    BY NatN
  <2>3. QED
    BY <1>5, <2>1, <2>2, EndKeepsOnion DEF HandlerEnd, Running
<1>6. ASSUME NEW c \in Calls, NEW i \in Stages, CustomNext(c, i) \/ BuiltinNext(c, i) PROVE OnionInv'
  BY <1>6, CallKeepsOnion DEF CustomNext, BuiltinNext
<1>7. ASSUME NEW c \in Calls, NEW i \in Stages, CustomEnd(c, i) \/ BuiltinReject(c, i) \/ BuiltinEnd(c, i)
      PROVE  OnionInv'
  <2>0. i \in 1 .. Handler
    BY NatN
  <2>1. PICK how \in {"returned", "threw"} : place' = [place EXCEPT ![c][i] = how]
    BY <1>7 DEF CustomEnd, BuiltinReject, BuiltinEnd
  <2>2. place[c][i] = "running" /\ UNCHANGED <<current, latest, headers, bound, asked, runnerVars, waits, nexts>>
    BY <1>7 DEF CustomEnd, BuiltinReject, BuiltinEnd, Running
  <2>3. Free(c, i)
    <3>1. nexts[c][i] = 0 => waits[c][i] = {}
      BY DEF OnionInv, CallInv, Entered
    <3>2. CASE BuiltinReject(c, i)
      BY <3>1, <3>2 DEF BuiltinReject, Free
    <3>3. QED
      BY <1>7, <3>2 DEF CustomEnd, BuiltinEnd
  <2>4. QED
    BY <2>0, <2>1, <2>2, <2>3, EndKeepsOnion
<1>8. QED
  BY <1>1, <1>2, <1>3, <1>4, <1>5, <1>6, <1>7 DEF PipelineNext, Proceed

\* The invariant says what the property says: a running handler has entered every stage, and
\* none of them has ended.
LEMMA OnionHolds == OnionInv => RunsInOnion
<1> SUFFICES ASSUME OnionInv PROVE RunsInOnion
  OBVIOUS
<1>0. /\ Handler \in 1 .. Handler /\ \A i \in Stages : i \in 1 .. Handler
      /\ \A i \in 2 .. Handler : i \in 1 .. Handler /\ i # -1
  BY NatN
<1>0a. \A c \in Calls : /\ Entered(index[c], handlerCalled[c], entered[c], place[c], waits[c], nexts[c])
                        /\ Tree(place[c], waits[c])
                        /\ index[c] \in 0 .. N
                        /\ place[c] \in [1 .. Handler -> {"idle", "running", "returned", "threw"}]
  BY DEF OnionInv, PipelineTypes, CallInv
<1>0b. \A c \in Calls, i \in 1 .. Handler : entered[c][i] \in {0, 1} /\ (entered[c][i] = 1 <=> place[c][i] # "idle")
  BY <1>0a DEF Entered
<1>1. HandlerOnce
  <2>1. \A c \in Calls : entered[c][Handler] \in {0, 1}
    BY <1>0, <1>0b
  <2>2. QED
    BY <2>1 DEF HandlerOnce
<1>1a. InOrder
  <2> SUFFICES ASSUME NEW c \in Calls, NEW i \in 1 .. Handler
               PROVE  entered[c][i] <= 1 /\ (entered[c][i] = 1 => \A j \in 1 .. i : entered[c][j] = 1)
    BY DEF InOrder
  <2>1. ASSUME entered[c][i] = 1, NEW j \in 1 .. i PROVE entered[c][j] = 1
    <3>1. place[c][i] # "idle" /\ j \in 1 .. Handler
      BY <2>1, <1>0b, NatN
    <3>2. CASE j = i
      BY <3>2, <2>1
    <3>3. CASE j # i
      <4>1. j \in Stages /\ index[c] \in 0 .. N
        BY <3>3, <1>0a, NatN
      <4>2. j <= index[c]
        <5>1. CASE i = Handler
          <6>1. index[c] = N
            BY <5>1, <3>1, <1>0a DEF Entered
          <6>2. QED
            BY <6>1, <4>1, NatN
        <5>2. CASE i # Handler
          <6>1. i \in Stages
            BY <5>2, NatN
          <6>2. ~(i > index[c])
            BY <6>1, <3>1, <1>0a DEF Entered
          <6>3. QED
            BY <6>2, <4>1
        <5>3. QED
          BY <5>1, <5>2
      <4>3. ~(j > index[c])
        BY <4>1, <4>2, NatN
      <4>4. place[c][j] # "idle"
        BY <4>1, <4>3, <1>0a DEF Entered
      <4>5. QED
        BY <4>4, <3>1, <1>0b
    <3>4. QED
      BY <3>2, <3>3
  <2>2. entered[c][i] \in {0, 1}
    BY <1>0b
  <2>3. QED
    BY <2>1, <2>2
<1>1b. InnerFirst
  <2> SUFFICES ASSUME NEW c \in Calls, NEW i \in 2 .. Handler
               PROVE  /\ Running(c, i) => \E j \in Stages : j < i /\ Running(c, j) /\ i \in waits[c][j]
                      /\ \A j, k \in Stages : i \in waits[c][j] /\ i \in waits[c][k] => j = k
    BY DEF InnerFirst
  <2>1. ASSUME Running(c, i) PROVE \E j \in Stages : j < i /\ Running(c, j) /\ i \in waits[c][j]
    <3>1. place[c][i] # "idle" /\ place[c][i] = "running"
      BY <2>1 DEF Running
    <3>2. PICK j \in Stages : j < i /\ i \in waits[c][j]
      BY <3>1, <1>0a DEF Tree
    <3>3. place[c][j] = "running"
      BY <3>1, <3>2, <1>0, <1>0a DEF Tree
    <3>4. QED
      BY <3>2, <3>3 DEF Running
  <2>2. \A j, k \in Stages : i \in waits[c][j] /\ i \in waits[c][k] => j = k
    BY <1>0a DEF Tree
  <2>3. QED
    BY <2>1, <2>2
<1>2. OneDefinition
  BY DEF OneDefinition, OnionInv, CallInv
<1>3. ASSUME NEW c \in Calls, \A i \in Stages : nexts[c][i] <= 1, place[c][Handler] = "running", NEW i \in Stages
      PROVE  place[c][i] = "running" /\ waits[c][i] = {i + 1}
  <2>1. Nested(index[c], handlerCalled[c], place[c], waits[c], nexts[c])
    BY <1>3 DEF OnionInv, CallInv, Calm
  <2>2. handlerCalled[c] /\ index[c] = N /\ N > 0
    BY <1>0a, <1>3, NatN DEF Entered
  <2>3. ~(i > N) /\ i \in 1 .. Handler /\ Handler \in (i + 1) .. Handler /\ (i < N \/ i = N)
    BY NatN
  <2>4. place[c][i] # "idle"
    BY <1>0a, <2>2, <2>3 DEF Entered
  <2>5. place[c][i] \notin {"returned", "threw"}
    BY <2>1, <2>3, <1>3 DEF Nested
  <2>6. waits[c][i] = {i + 1}
    BY <2>1, <2>2, <2>3, NatN DEF Nested
  <2>7. QED
    BY <1>0a, <2>3, <2>4, <2>5, <2>6
<1>4. QED
  BY <1>1, <1>1a, <1>1b, <1>2, <1>3 DEF RunsInOnion, Wrapped, Running

\* The handler of a call runs once at most, stages are entered in order and once each and
\* end before what called them, all go by one definition, and as long as each middleware
\* calls next() once, all of them are around the handler.
THEOREM CallsWrapped == PipelineSpec => []RunsInOnion
<1>1. QED
  BY OnionInit, OnionStep, OnionHolds, PTL DEF PipelineSpec

-----------------------------------------------------------------------------
(* The rate limiter.                                                       *)

\* The entries of a key that fall in the window that begins at a time.
Within(entries, from) == {e \in entries : e.at >= from /\ e.at < from + WindowMs}

\* What a wait remembers: it began before now, and its sleep is bounded.
WaitOK(x) == x.state = "waiting" => x.start <= now /\ x.wakeAt < x.start + WindowMs + DelayCap

\* Entries lie in the past and are finitely many, the lists have nothing else.
LimiterInv ==
  /\ now \in Nat /\ ops \in Nat
  /\ request \in [Requests -> Request]
  /\ counts \in [Keys -> SUBSET Entry] /\ accepted \in [Keys -> SUBSET Entry]
  /\ \A r \in Requests : WaitOK(request[r]) /\ request[r].delay <= DelayCap
  /\ \A k \in Keys : /\ IsFiniteSet(accepted[k])
                     /\ counts[k] \subseteq accepted[k]
                     /\ \A e \in accepted[k] : e.at <= now
  /\ WindowLimit /\ NothingForgotten

\* Finitely many natural numbers have a least one: the one with the fewest below it.
LEMMA LeastOf ==
  ASSUME NEW S \in SUBSET Nat, S # {}, IsFiniteSet(S)
  PROVE  Min(S) \in S /\ \A x \in S : Min(S) <= x
<1> DEFINE Below(x) == {y \in S : y < x}
           T == {Below(x) : x \in S}
           R == StrictSubsetOrdering(S)
<1>1. T \subseteq FiniteSubsetsOf(S) /\ T # {}
  <2>1. ASSUME NEW x \in S PROVE Below(x) \in FiniteSubsetsOf(S)
    <3>1. Below(x) \in SUBSET S
      OBVIOUS
    <3> HIDE DEF Below
    <3>2. QED
      BY <3>1, FS_Subset DEF FiniteSubsetsOf
  <2>2. QED
    BY <2>1
<1>2. IsWellFoundedOn(R, FiniteSubsetsOf(S))
  BY FS_StrictSubsetOrderingWellFounded
<1>3. \E t \in T : \A u \in T : ~(<<u, t>> \in R)
  <2> HIDE DEF T, R
  <2>1. QED
    BY <1>1, <1>2, WFMin
<1>4. PICK x \in S : \A y \in S : ~(<<Below(y), Below(x)>> \in R)
  BY <1>3
<1>5. ASSUME NEW y \in S, ~(x <= y) PROVE FALSE
  <2>1. x \in Nat /\ y \in Nat /\ y < x /\ ~(y < y)
    BY <1>5
  <2>2. Below(y) \subseteq Below(x)
    <3>1. ASSUME NEW z \in S, z < y PROVE z < x
      BY <2>1, <3>1
    <3>2. QED
      BY <3>1
  <2>3. y \in Below(x) /\ y \notin Below(y)
    BY <2>1, <1>5
  <2>4. Below(x) \in SUBSET S /\ Below(y) \in SUBSET S
    OBVIOUS
  <2> HIDE DEF Below
  <2>5. <<Below(y), Below(x)>> \in R
    BY <2>2, <2>3, <2>4 DEF StrictSubsetOrdering
  <2>6. QED
    BY <2>5, <1>4, <1>5
<1>6. QED
  BY <1>5 DEF Min

\* An entry that is accepted leaves every window within the limit: those around it are all counted before.
LEMMA WindowAdds ==
  ASSUME LimiterInv, NEW k \in Keys, NEW r \in Requests, Accepts(k), NEW from \in 0 .. now
  PROVE  Cardinality(Within(accepted[k] \cup {[of |-> r, at |-> now]}, from)) <= MaxRequests
<1> DEFINE e == [of |-> r, at |-> now]
           A == Within(accepted[k], from)
           B == Within(accepted[k] \cup {e}, from)
<1>1. IsFiniteSet(accepted[k]) /\ accepted[k] \in SUBSET Entry /\ now \in Nat /\ (\A x \in accepted[k] : x.at <= now)
  BY DEF LimiterInv
<1>2. A \in SUBSET accepted[k] /\ IsFiniteSet(A) /\ Cardinality(A) \in Nat /\ Cardinality(A) <= MaxRequests
  <2>1. A \in SUBSET accepted[k]
    BY DEF Within
  <2>2. Cardinality(A) <= MaxRequests
    BY DEF LimiterInv, WindowLimit, Within
  <2>3. QED
    BY <2>1, <2>2, <1>1, FS_Subset, FS_CardinalityType
<1>3. CASE ~(now < from + WindowMs)
  <2>1. B = A
    BY <1>3 DEF Within
  <2>2. QED
    BY <2>1, <1>2
<1>4. CASE now < from + WindowMs
  <2>1. A \in SUBSET Valid(counts[k])
    <3>1. A \in SUBSET Valid(accepted[k])
      BY <1>1, <1>4, RateLimiterAssumption DEF Within, Valid, InWindow, Entry
    <3>2. QED
      BY <3>1 DEF LimiterInv, NothingForgotten
  <2>2. IsFiniteSet(Valid(counts[k])) /\ Cardinality(Valid(counts[k])) \in Nat
    <3>1. Valid(counts[k]) \in SUBSET accepted[k]
      BY DEF LimiterInv, Valid
    <3>2. QED
      BY <3>1, <1>1, FS_Subset, FS_CardinalityType
  <2>3. Cardinality(A) <= Cardinality(Valid(counts[k]))
    BY <2>1, <2>2, FS_Subset
  <2>4. B \in SUBSET (A \cup {e})
    BY DEF Within
  <2>5. IsFiniteSet(A \cup {e}) /\ Cardinality(A \cup {e}) <= Cardinality(A) + 1 /\ Cardinality(A \cup {e}) \in Nat
    <3>1. IsFiniteSet(A \cup {e}) /\ Cardinality(A \cup {e}) = IF e \in A THEN Cardinality(A) ELSE Cardinality(A) + 1
      BY <1>2, FS_AddElement
    <3>2. QED
      BY <3>1, <1>2
  <2>6. Cardinality(B) <= Cardinality(A \cup {e}) /\ Cardinality(B) \in Nat
    BY <2>4, <2>5, FS_Subset, FS_CardinalityType
  <2>7. Cardinality(Valid(counts[k])) < MaxRequests
    BY DEF Accepts
  <2> HIDE DEF A, B
  <2>8. QED
    BY <2>3, <2>5, <2>6, <2>7, <2>2, <1>2, RateLimiterAssumption DEF B, e
<1>5. QED
  BY <1>3, <1>4

\* A list that is cleaned keeps the entries that count.
LEMMA CleanedCounts ==
  ASSUME LimiterInv, NEW k \in Keys
  PROVE  /\ Valid(counts[k]) \in SUBSET accepted[k] /\ Valid(accepted[k]) \in SUBSET accepted[k]
         /\ Valid(Valid(counts[k])) = Valid(accepted[k])
<1>1. Valid(counts[k]) = Valid(accepted[k]) /\ counts[k] \subseteq accepted[k]
  BY DEF LimiterInv, NothingForgotten
<1>2. QED
  BY <1>1 DEF Valid

\* At first nothing has been accepted and nobody waits.
LEMMA LimiterInitInv == LimiterInit => LimiterInv
<1> SUFFICES ASSUME LimiterInit PROVE LimiterInv
  OBVIOUS
<1> USE RateLimiterAssumption
<1>1. PICK f \in [Requests -> Keys] :
        request = [r \in Requests |-> [state |-> "new", key |-> f[r], start |-> 0, wakeAt |-> 0, delay |-> Capped(BaseDelay)]]
  BY DEF LimiterInit
<1>2. Capped(BaseDelay) \in Nat /\ Capped(BaseDelay) <= DelayCap
  BY DEF Capped
<1>3. request \in [Requests -> Request] /\ \A r \in Requests : WaitOK(request[r]) /\ request[r].delay <= DelayCap
  BY <1>1, <1>2 DEF Request, WaitOK
<1>4. ASSUME NEW k \in Keys PROVE counts[k] = {} /\ accepted[k] = {}
  BY DEF LimiterInit
<1>5. WindowLimit
  <2>1. ASSUME NEW k \in Keys, NEW from \in 0 .. now
        PROVE  {e \in accepted[k] : e.at >= from /\ e.at < from + WindowMs} = {}
    BY <1>4
  <2>2. Cardinality({}) <= MaxRequests
    BY FS_EmptySet
  <2>3. QED
    BY <2>1, <2>2, Zenon DEF WindowLimit
<1>6. NothingForgotten
  BY <1>4 DEF NothingForgotten
<1>7. now = 0 /\ ops = 0 /\ counts \in [Keys -> SUBSET Entry] /\ accepted \in [Keys -> SUBSET Entry]
  BY DEF LimiterInit
<1>8. QED
  BY <1>3, <1>4, <1>5, <1>6, <1>7, FS_EmptySet DEF LimiterInv

\* What the invariant says of the lists.
ListsOK == /\ counts \in [Keys -> SUBSET Entry] /\ accepted \in [Keys -> SUBSET Entry] /\ ops \in Nat
           /\ \A k \in Keys : /\ IsFiniteSet(accepted[k])
                              /\ counts[k] \subseteq accepted[k]
                              /\ \A e \in accepted[k] : e.at <= now
           /\ WindowLimit /\ NothingForgotten

\* An acceptance, with or without the purge, keeps the lists as they should be.
LEMMA AcceptLists ==
  ASSUME LimiterInv, NEW r \in Requests, Accept(r), now' = now
  PROVE  ListsOK'
<1> DEFINE key == request[r].key
           e == [of |-> r, at |-> now]
<1>1. key \in Keys /\ e \in Entry /\ now \in Nat
  BY DEF LimiterInv, Request, Entry
<1>2. accepted' \in [Keys -> SUBSET Entry] /\ accepted'[key] = accepted[key] \cup {e}
      /\ \A k \in Keys \ {key} : accepted'[k] = accepted[k]
  BY <1>1 DEF LimiterInv, Accept
<1>3. PICK logged \in [Keys -> SUBSET Entry] :
        /\ logged[key] = Valid(counts[key]) \cup {e}
        /\ \A k \in Keys \ {key} : logged[k] = counts[k]
        /\ counts' = Purged(logged) \/ counts' = logged
  <2> DEFINE g == [counts EXCEPT ![key] = Valid(@) \cup {e}]
  <2>1. Valid(counts[key]) \in SUBSET Entry
    BY <1>1 DEF LimiterInv, Valid
  <2>2. g \in [Keys -> SUBSET Entry] /\ g[key] = Valid(counts[key]) \cup {e} /\ \A k \in Keys \ {key} : g[k] = counts[k]
    BY <2>1, <1>1 DEF LimiterInv
  <2>3. counts' = Purged(g) \/ counts' = g
    BY DEF Accept
  <2> HIDE DEF g
  <2>4. QED
    BY <2>2, <2>3
<1>4. ASSUME NEW k \in Keys
      PROVE  /\ logged[k] \subseteq accepted'[k] /\ Valid(logged[k]) = Valid(accepted'[k])
             /\ IsFiniteSet(accepted'[k]) /\ \A x \in accepted'[k] : x.at <= now
  <2>1. Valid(counts[k]) = Valid(accepted[k]) /\ counts[k] \subseteq accepted[k] /\ Valid(Valid(counts[k])) = Valid(accepted[k])
        /\ IsFiniteSet(accepted[k]) /\ \A x \in accepted[k] : x.at <= now
    BY CleanedCounts DEF LimiterInv, NothingForgotten
  <2>2. CASE k = key
    <3>1. IsFiniteSet(accepted[k] \cup {e})
      BY <2>1, FS_AddElement
    <3>2. Valid(Valid(counts[k]) \cup {e}) = Valid(accepted[k] \cup {e})
      BY <2>1 DEF Valid
    <3>3. Valid(counts[k]) \subseteq accepted[k]
      BY <2>1 DEF Valid
    <3>4. QED
      BY <3>1, <3>2, <3>3, <2>1, <2>2, <1>1, <1>2, <1>3
  <2>3. CASE k # key
    BY <2>1, <2>3, <1>2, <1>3
  <2>4. QED
    BY <2>2, <2>3
<1>5. ASSUME NEW k \in Keys
      PROVE  counts'[k] \subseteq accepted'[k] /\ Valid(counts'[k]) = Valid(accepted'[k])
  <2>1. counts'[k] = Valid(logged[k]) \/ counts'[k] = logged[k]
    BY <1>3 DEF Purged
  <2>2. QED
    BY <2>1, <1>4 DEF Valid
<1>6. counts' \in [Keys -> SUBSET Entry]
  BY <1>3 DEF Purged, Valid
<1>7. NothingForgotten'
  BY <1>5 DEF NothingForgotten, Valid, InWindow
<1>8. WindowLimit'
  <2> SUFFICES ASSUME NEW k \in Keys, NEW from \in 0 .. now
               PROVE  Cardinality(Within(accepted'[k], from)) <= MaxRequests
    BY DEF WindowLimit, Within
  <2>1. CASE k = key
    BY <2>1, <1>2, WindowAdds DEF Accept
  <2>2. CASE k # key
    BY <2>2, <1>2 DEF LimiterInv, WindowLimit, Within
  <2>3. QED
    BY <2>1, <2>2
<1>9. ops' \in Nat
  BY DEF LimiterInv, Accept
<1>10. QED
  BY <1>2, <1>4, <1>5, <1>6, <1>7, <1>8, <1>9 DEF ListsOK

\* So does a refusal, which cleans the list of its key.
LEMMA RefuseLists ==
  ASSUME LimiterInv, NEW r \in Requests, Refuse(r), now' = now
  PROVE  ListsOK'
<1> DEFINE key == request[r].key
<1>1. key \in Keys
  BY DEF LimiterInv, Request
<1>2. accepted' = accepted /\ ops' = ops
  BY DEF Refuse
<1>3. ASSUME NEW k \in Keys PROVE counts'[k] = counts[k] \/ counts'[k] = Valid(counts[k])
  BY <1>1 DEF LimiterInv, Refuse
<1>4. counts' \in [Keys -> SUBSET Entry]
  <2>1. Valid(counts[key]) \in SUBSET Entry
    BY <1>1 DEF LimiterInv, Valid
  <2>2. QED
    BY <2>1, <1>1 DEF LimiterInv, Refuse
<1>5. ASSUME NEW k \in Keys PROVE counts'[k] \subseteq accepted[k] /\ Valid(counts'[k]) = Valid(accepted[k])
  <2>1. Valid(counts[k]) = Valid(accepted[k]) /\ counts[k] \subseteq accepted[k]
    BY DEF LimiterInv, NothingForgotten
  <2>2. QED
    BY <2>1, <1>3 DEF Valid
<1>6. NothingForgotten'
  BY <1>2, <1>5 DEF NothingForgotten, Valid, InWindow
<1>7. WindowLimit'
  BY <1>2 DEF LimiterInv, WindowLimit
<1>8. QED
  BY <1>2, <1>4, <1>5, <1>6, <1>7 DEF ListsOK, LimiterInv

\* And forgetting a key, on both sides.
LEMMA ClearLists ==
  ASSUME LimiterInv, NEW c \in Keys, Clear(c)
  PROVE  ListsOK'
<1>1. ASSUME NEW k \in Keys
      PROVE  (counts'[k] = counts[k] /\ accepted'[k] = accepted[k]) \/ (counts'[k] = {} /\ accepted'[k] = {})
  <2> /\ counts \in [Keys -> SUBSET Entry] /\ counts' = [counts EXCEPT ![c] = {}]
      /\ accepted \in [Keys -> SUBSET Entry] /\ accepted' = [accepted EXCEPT ![c] = {}]
    BY DEF LimiterInv, Clear
  <2>1. CASE k = c
    BY <2>1
  <2>2. CASE k # c
    BY <2>2
  <2>3. QED
    BY <2>1, <2>2
<1>2. counts' \in [Keys -> SUBSET Entry] /\ accepted' \in [Keys -> SUBSET Entry] /\ now' = now /\ ops' = ops
  BY DEF LimiterInv, Clear
<1>3. NothingForgotten'
  <2>1. ASSUME NEW k \in Keys PROVE Valid(counts'[k]) = Valid(accepted'[k])
    BY <1>1 DEF LimiterInv, NothingForgotten
  <2>2. QED
    BY <2>1, <1>2 DEF NothingForgotten, Valid, InWindow
<1>4. WindowLimit'
  <2> SUFFICES ASSUME NEW k \in Keys, NEW from \in 0 .. now
               PROVE  Cardinality(Within(accepted'[k], from)) <= MaxRequests
    BY <1>2 DEF WindowLimit, Within
  <2>1. CASE accepted'[k] = accepted[k]
    BY <2>1 DEF LimiterInv, WindowLimit, Within
  <2>2. CASE accepted'[k] = {}
    <3>1. Within(accepted'[k], from) = {}
      BY <2>2 DEF Within
    <3>2. QED
      BY <3>1, FS_EmptySet, RateLimiterAssumption
  <2>3. QED
    BY <2>1, <2>2, <1>1
<1>5. ASSUME NEW k \in Keys
      PROVE  IsFiniteSet(accepted'[k]) /\ counts'[k] \subseteq accepted'[k] /\ \A e \in accepted'[k] : e.at <= now'
  BY <1>1, <1>2, FS_EmptySet DEF LimiterInv
<1>6. QED
  BY <1>2, <1>3, <1>4, <1>5 DEF ListsOK, LimiterInv

\* Time alone takes entries out of the window, out of both lists alike.
LEMMA TickLists == LimiterInv /\ Tick => ListsOK'
<1> SUFFICES ASSUME LimiterInv, Tick PROVE ListsOK'
  OBVIOUS
<1>1. now \in Nat /\ now' = now + 1 /\ UNCHANGED <<counts, accepted, ops>>
  BY DEF LimiterInv, Tick
<1>2. ASSUME NEW k \in Keys
      PROVE  /\ accepted[k] \in SUBSET Entry /\ counts[k] \subseteq accepted[k]
             /\ \A e \in accepted[k] : e.at \in Nat /\ e.at <= now
             /\ Valid(counts[k]) = Valid(accepted[k])
  BY DEF LimiterInv, NothingForgotten, Entry
<1>3. NothingForgotten'
  <2>1. ASSUME NEW k \in Keys, NEW e \in accepted[k], now' - e.at < WindowMs PROVE e \in counts[k]
    <3>1. now - e.at < WindowMs
      BY <2>1, <1>1, <1>2, RateLimiterAssumption
    <3>2. e \in Valid(accepted[k])
      BY <3>1 DEF Valid, InWindow
    <3>3. QED
      BY <3>2, <1>2 DEF Valid
  <2>2. ASSUME NEW k \in Keys
        PROVE  {e \in counts[k] : now' - e.at < WindowMs} = {e \in accepted[k] : now' - e.at < WindowMs}
    BY <2>1, <1>2
  <2>3. ASSUME NEW k \in Keys PROVE Valid(counts[k])' = Valid(accepted[k])'
    <3>1. Valid(counts[k])' = {e \in counts'[k] : now' - e.at < WindowMs}
      BY DEF Valid, InWindow
    <3>2. Valid(accepted[k])' = {e \in accepted'[k] : now' - e.at < WindowMs}
      BY DEF Valid, InWindow
    <3>3. QED
      BY <3>1, <3>2, <2>2, <1>1
  <2>4. QED
    BY <2>3 DEF NothingForgotten
<1>4. WindowLimit'
  <2> SUFFICES ASSUME NEW k \in Keys, NEW from \in 0 .. (now + 1)
               PROVE  Cardinality(Within(accepted[k], from)) <= MaxRequests
    BY <1>1 DEF WindowLimit, Within
  <2>1. CASE from \in 0 .. now
    BY <2>1 DEF LimiterInv, WindowLimit, Within
  <2>2. CASE from = now + 1
    <3>1. Within(accepted[k], from) = {}
      BY <2>2, <1>1, <1>2 DEF Within
    <3>2. QED
      BY <3>1, FS_EmptySet, RateLimiterAssumption
  <2>3. QED
    BY <2>1, <2>2, <1>1
<1>5. ASSUME NEW k \in Keys
      PROVE  IsFiniteSet(accepted[k]) /\ counts[k] \subseteq accepted[k] /\ \A e \in accepted[k] : e.at <= now + 1
  BY <1>1, <1>2 DEF LimiterInv
<1>6. QED
  BY <1>1, <1>3, <1>4, <1>5 DEF ListsOK, LimiterInv

\* A turn of a wait: the sleep it asks for ends within a capped delay of the deadline.
LEMMA TurnRequests ==
  ASSUME LimiterInv, NEW r \in Requests, NEW start \in Nat, start <= now, Turn(r, start), now' = now
  PROVE  request' \in [Requests -> Request] /\ \A q \in Requests : WaitOK(request[q])' /\ request'[q].delay <= DelayCap
<1> USE RateLimiterAssumption
<1>1. request \in [Requests -> Request] /\ now \in Nat /\ request[r].delay \in Nat /\ request[r].delay <= DelayCap
      /\ \A q \in Requests : WaitOK(request[q]) /\ request[q].delay <= DelayCap
  BY DEF LimiterInv, Request
<1>2. PICK x \in Request :
        /\ request' = [request EXCEPT ![r] = x]
        /\ x.delay <= DelayCap
        /\ x.state = "waiting" => x.start = start /\ x.wakeAt = now + request[r].delay /\ now - start < WindowMs
  <2>1. ASSUME NEW st \in {"accepted", "timedout"}, request' = [request EXCEPT ![r].state = st]
        PROVE  \E x \in Request : /\ request' = [request EXCEPT ![r] = x]
                                  /\ x.delay <= DelayCap /\ x.state # "waiting"
    <3>1. [request[r] EXCEPT !.state = st] \in Request /\ [request[r] EXCEPT !.state = st].delay <= DelayCap
          /\ [request[r] EXCEPT !.state = st].state # "waiting"
      BY <1>1, <2>1 DEF Request
    <3>2. QED
      BY <3>1, <2>1
  <2>2. ASSUME request' = [request EXCEPT ![r].state = "waiting", ![r].start = start, ![r].delay = Capped(2 * @),
                                          ![r].wakeAt = now + request[r].delay],
               ~(now - start >= WindowMs)
        PROVE  \E x \in Request : /\ request' = [request EXCEPT ![r] = x]
                                  /\ x.delay <= DelayCap
                                  /\ x.start = start /\ x.wakeAt = now + request[r].delay /\ now - start < WindowMs
    <3> DEFINE x == [request[r] EXCEPT !.state = "waiting", !.start = start, !.delay = Capped(2 * request[r].delay),
                                       !.wakeAt = now + request[r].delay]
    <3>1. Capped(2 * request[r].delay) \in Nat /\ Capped(2 * request[r].delay) <= DelayCap
      BY <1>1 DEF Capped
    <3>2. x \in Request /\ x.delay <= DelayCap /\ x.start = start /\ x.wakeAt = now + request[r].delay
      <4>1. request[r] \in Request /\ now + request[r].delay \in Nat
        BY <1>1
      <4> DEFINE d == Capped(2 * request[r].delay)
                 w == now + request[r].delay
      <4>2. d \in Nat /\ d <= DelayCap /\ w \in Nat
        BY <3>1, <4>1
      <4> HIDE DEF d, w
      <4>3. QED
        BY <4>1, <4>2 DEF Request, d, w
    <3>3. request' = [request EXCEPT ![r] = x]
      BY <2>2, <1>1
    <3>4. now - start < WindowMs
      BY <2>2, <1>1
    <3> HIDE DEF x
    <3>5. QED
      BY <3>2, <3>3, <3>4
  <2>3. QED
    BY <2>1, <2>2 DEF Turn
<1>3. WaitOK(x)
  BY <1>1, <1>2 DEF WaitOK
<1>4. QED
  BY <1>1, <1>2, <1>3, now' = now DEF WaitOK

\* A call that does not wait is over at once.
LEMMA TryRequests ==
  ASSUME LimiterInv, NEW r \in Requests, Try(r)
  PROVE  request' \in [Requests -> Request] /\ \A q \in Requests : WaitOK(request[q])' /\ request'[q].delay <= DelayCap
<1>1. request \in [Requests -> Request] /\ \A q \in Requests : WaitOK(request[q]) /\ request[q].delay <= DelayCap
  BY DEF LimiterInv
<1>2. ASSUME NEW st \in {"accepted", "refused"}, request' = [request EXCEPT ![r].state = st]
      PROVE  request' \in [Requests -> Request] /\ \A q \in Requests : WaitOK(request[q])' /\ request'[q].delay <= DelayCap
  <2>1. [request[r] EXCEPT !.state = st] \in Request /\ [request[r] EXCEPT !.state = st].delay <= DelayCap
        /\ [request[r] EXCEPT !.state = st].state # "waiting"
    BY <1>1, <1>2 DEF Request
  <2>2. now' = now
    BY DEF Try
  <2>3. QED
    BY <1>1, <1>2, <2>1, <2>2 DEF WaitOK
<1>3. QED
  BY <1>2 DEF Try

\* The invariant is inductive.
LEMMA LimiterStep == LimiterInv /\ [LimiterNext]_limiterVars => LimiterInv'
<1> SUFFICES ASSUME LimiterInv, [LimiterNext]_limiterVars PROVE LimiterInv'
  OBVIOUS
<1>1. CASE UNCHANGED limiterVars
  BY <1>1 DEF limiterVars, LimiterInv, WaitOK, WindowLimit, NothingForgotten, Valid, InWindow
<1>2. CASE \E k \in Keys : Clear(k)
  <2>1. ListsOK' /\ UNCHANGED <<now, request>>
    BY <1>2, ClearLists DEF Clear
  <2>2. QED
    BY <2>1 DEF ListsOK, LimiterInv, WaitOK
<1>3. CASE Tick
  <2>1. ListsOK' /\ request' = request /\ now' = now + 1 /\ now \in Nat
    BY <1>3, TickLists DEF Tick, LimiterInv
  <2>2. ASSUME NEW q \in Requests PROVE WaitOK(request[q])' /\ request'[q].delay <= DelayCap
    <3>1. WaitOK(request[q]) /\ request[q] \in Request /\ request[q].delay <= DelayCap
      BY DEF LimiterInv
    <3>2. QED
      BY <3>1, <2>1 DEF WaitOK, Request
  <2>3. QED
    BY <2>1, <2>2 DEF ListsOK, LimiterInv
<1>4. ASSUME NEW r \in Requests, Try(r) \/ BeginWait(r) \/ Awake(r)
      PROVE  LimiterInv'
  <2>1. now' = now /\ now \in Nat /\ (Accept(r) \/ Refuse(r))
    BY <1>4 DEF Try, BeginWait, Awake, Turn, LimiterInv
  <2>2. ListsOK'
    BY <2>1, AcceptLists, RefuseLists
  <2>3. request' \in [Requests -> Request] /\ \A q \in Requests : WaitOK(request[q])' /\ request'[q].delay <= DelayCap
    <3>1. CASE Try(r)
      BY <3>1, TryRequests
    <3>2. CASE BeginWait(r)
      <4>1. Turn(r, now) /\ now \in Nat /\ now <= now
        BY <3>2, <2>1 DEF BeginWait
      <4>2. QED
        BY <4>1, <2>1, TurnRequests
    <3>3. CASE Awake(r)
      <4>1. Turn(r, request[r].start) /\ request[r].start \in Nat /\ request[r].start <= now
        BY <3>3 DEF Awake, LimiterInv, WaitOK, Request
      <4>2. QED
        BY <4>1, <2>1, TurnRequests
    <3>4. QED
      BY <1>4, <3>1, <3>2, <3>3
  <2>4. QED
    BY <2>1, <2>2, <2>3 DEF ListsOK, LimiterInv
<1>5. QED
  BY <1>1, <1>2, <1>3, <1>4 DEF LimiterNext

\* How many entries would count at a time.
Counted(k, at) == Cardinality({e \in counts[k] : InWindow(e, at)})

\* The time told to a caller that is refused: the oldest entry that counts leaves the window then.
LEMMA RetryTold == LimiterInv => RetryAfterTight
<1> SUFFICES ASSUME LimiterInv, NEW k \in Keys, NEW w, w = TimeUntilSlot(k)
             PROVE  /\ Counted(k, now + w) < MaxRequests
                    /\ w > 0 => Counted(k, now + w - 1) >= MaxRequests
  BY DEF RetryAfterTight, Counted
<1> USE RateLimiterAssumption
<1> DEFINE V == Valid(counts[k])
<1>1. /\ now \in Nat /\ IsFiniteSet(accepted[k]) /\ counts[k] \in SUBSET accepted[k]
      /\ \A e \in counts[k] : e.at \in Nat /\ e.at <= now
      /\ V = Valid(accepted[k])
  BY DEF LimiterInv, Entry, NothingForgotten
<1>2. IsFiniteSet(counts[k]) /\ V \in SUBSET counts[k]
  BY <1>1, FS_Subset DEF Valid
<1>3. IsFiniteSet(V) /\ Cardinality(V) \in Nat
  BY <1>2, FS_Subset, FS_CardinalityType
<1>4. Cardinality(V) <= MaxRequests
  <2> DEFINE from == IF now < WindowMs THEN 0 ELSE now - WindowMs + 1
  <2>1. from \in 0 .. now
    BY <1>1
  <2>2. V \in SUBSET Within(accepted[k], from)
    BY <1>1, <1>2 DEF Within, Valid, InWindow
  <2>3. Cardinality(Within(accepted[k], from)) <= MaxRequests
    BY <2>1 DEF LimiterInv, WindowLimit, Within
  <2>4. IsFiniteSet(Within(accepted[k], from)) /\ Cardinality(Within(accepted[k], from)) \in Nat
    <3>1. Within(accepted[k], from) \in SUBSET accepted[k]
      BY DEF Within
    <3>2. QED
      BY <3>1, <1>1, FS_Subset, FS_CardinalityType
  <2> HIDE DEF from, V
  <2>5. Cardinality(V) <= Cardinality(Within(accepted[k], from))
    BY <2>2, <2>4, FS_Subset
  <2>6. QED
    BY <2>3, <2>4, <2>5, <1>3
<1>5. CASE Accepts(k)
  <2>1. w = 0 /\ now + w = now
    BY <1>5, <1>1 DEF TimeUntilSlot
  <2>2. Counted(k, now) = Cardinality(V)
    BY DEF Valid, Counted
  <2>3. QED
    BY <2>1, <2>2, <1>5 DEF Accepts
<1>6. CASE ~Accepts(k)
  <2> DEFINE T == {e.at : e \in V}
             oldest == Min(T)
  <2>1. Cardinality(V) = MaxRequests
    BY <1>3, <1>4, <1>6 DEF Accepts
  <2>2. V # {}
    BY <2>1, FS_EmptySet
  <2>3. T \in SUBSET Nat /\ T # {} /\ \A t \in T : t <= now
    BY <1>1, <1>2, <2>2
  <2>4. IsFiniteSet(T)
    BY <2>3, <1>1, FS_BoundedSetOfNaturals
  <2>5. oldest \in T /\ \A t \in T : oldest <= t
    BY <2>3, <2>4, LeastOf
  <2>6. PICK x \in V : x.at = oldest
    BY <2>5
  <2>7. oldest \in Nat /\ now - oldest < WindowMs
    BY <2>3, <2>5, <2>6 DEF Valid, InWindow
  <2>8. w = oldest + WindowMs - now
    BY <1>6 DEF TimeUntilSlot
  <2>9. now + w = oldest + WindowMs /\ now + w - 1 = oldest + WindowMs - 1
    BY <2>7, <2>8, <1>1
  <2> DEFINE later == {e \in counts[k] : InWindow(e, oldest + WindowMs)}
             before == {e \in counts[k] : InWindow(e, oldest + WindowMs - 1)}
  <2>10. ASSUME NEW e \in counts[k] PROVE InWindow(e, oldest + WindowMs) => e \in V /\ e # x
    <3>1. e.at \in Nat /\ e.at <= now /\ (e \in V => oldest <= e.at)
      BY <1>1, <2>5
    <3> HIDE DEF oldest, V
    <3>2. InWindow(e, oldest + WindowMs) <=> oldest < e.at
      BY <3>1, <2>7 DEF InWindow
    <3>3. oldest < e.at => InWindow(e, now)
      BY <3>1, <2>7, <1>1 DEF InWindow
    <3>4. InWindow(e, now) => e \in V
      BY DEF V, Valid
    <3>5. QED
      BY <3>2, <3>3, <3>4, <2>6, <2>7, <3>1
  <2>11. later \in SUBSET (V \ {x})
    BY <2>10
  <2>12. IsFiniteSet(V \ {x}) /\ Cardinality(V \ {x}) = MaxRequests - 1
    BY <1>3, <2>1, <2>6, FS_RemoveElement
  <2>13. Cardinality(later) <= MaxRequests - 1 /\ Cardinality(later) \in Nat
    <3> HIDE DEF later, V
    <3>1. QED
      BY <2>11, <2>12, FS_Subset, FS_CardinalityType
  <2>14. V \in SUBSET before
    <3>1. ASSUME NEW e \in V PROVE InWindow(e, oldest + WindowMs - 1)
      <4>1. e.at \in Nat /\ oldest <= e.at
        BY <1>1, <1>2, <2>5
      <4> HIDE DEF oldest
      <4>2. QED
        BY <4>1, <2>7 DEF InWindow
    <3>2. QED
      BY <3>1, <1>2
  <2>15. Cardinality(before) >= MaxRequests
    <3>1. IsFiniteSet(before)
      <4>1. before \in SUBSET counts[k]
        OBVIOUS
      <4>2. QED
        BY <4>1, <1>2, FS_Subset
    <3> HIDE DEF before, V
    <3>2. Cardinality(V) <= Cardinality(before)
      BY <3>1, <2>14, FS_Subset
    <3>3. QED
      BY <3>1, <3>2, <2>1, FS_CardinalityType
  <2>16. Counted(k, now + w) = Cardinality(later) /\ Counted(k, now + w - 1) = Cardinality(before)
    <3> HIDE DEF oldest
    <3>1. QED
      BY <2>9 DEF Counted
  <2> HIDE DEF oldest, later, before
  <2>17. QED
    BY <2>13, <2>15, <2>16
<1>7. QED
  BY <1>5, <1>6

\* LimiterHonest (checkLimit, purgeExpiredKeys, getTimeUntilSlot, waitForSlot): for any requests, keys, window,
\* limit and purge interval the limiter is a sliding window at every instant, and a wait times out only because of others.
THEOREM WindowHolds == LimiterSpec => LimiterHonest
<1>1. LimiterInv => WindowKept
  BY RetryTold DEF LimiterInv, WindowKept
<1>2. LimiterInv /\ LimiterInv' /\ [LimiterNext]_limiterVars =>
        [\A r \in Requests :
           /\ request[r].state = "waiting" /\ request'[r].state = "timedout" => BlockedByLaterOnly(r)
           /\ request'[r].state = "waiting" => request'[r].wakeAt < request'[r].start + WindowMs + DelayCap]_limiterVars
  <2> SUFFICES ASSUME LimiterInv, LimiterInv', LimiterNext, NEW r \in Requests
               PROVE  /\ request[r].state = "waiting" /\ request'[r].state = "timedout" => BlockedByLaterOnly(r)
                      /\ request'[r].state = "waiting" => request'[r].wakeAt < request'[r].start + WindowMs + DelayCap
    OBVIOUS
  <2>1. request'[r].state = "waiting" => request'[r].wakeAt < request'[r].start + WindowMs + DelayCap
    BY DEF LimiterInv, WaitOK
  <2>2. ASSUME request[r].state = "waiting", request'[r].state = "timedout" PROVE BlockedByLaterOnly(r)
    <3>1. request \in [Requests -> Request] /\ request[r].start \in Nat /\ now \in Nat
      BY DEF LimiterInv, Request
    <3>2. now - request[r].start >= WindowMs
      <4>1. ASSUME NEW q \in Requests, Try(q) \/ BeginWait(q) PROVE FALSE
        <5>1. q # r /\ request'[r] = request[r]
          BY <4>1, <2>2, <3>1 DEF Try, BeginWait, Turn
        <5>2. QED
          BY <5>1, <2>2
      <4>2. ASSUME NEW q \in Requests, Awake(q) PROVE now - request[r].start >= WindowMs
        <5>1. q = r
          BY <4>2, <2>2, <3>1 DEF Awake, Turn
        <5>2. CASE request' = [request EXCEPT ![r].state = "accepted"]
          BY <5>2, <2>2, <3>1
        <5>3. CASE request' = [request EXCEPT ![r].state = "waiting", ![r].start = request[r].start,
                                              ![r].delay = Capped(2 * @), ![r].wakeAt = now + request[r].delay]
          <6>1. request'[r].state = "waiting"
            BY <5>3, <3>1 DEF Request
          <6>2. QED
            BY <6>1, <2>2
        <5>4. QED
          BY <5>1, <5>2, <5>3, <4>2 DEF Awake, Turn
      <4>3. ASSUME UNCHANGED request PROVE FALSE
        BY <4>3, <2>2
      <4>4. QED
        BY <4>1, <4>2, <4>3 DEF LimiterNext, Clear, Tick
    <3>3. ASSUME NEW e \in Valid(counts[request[r].key]) PROVE e.at > request[r].start
      <4>1. e.at \in Nat /\ now - e.at < WindowMs
        BY <3>1 DEF LimiterInv, Valid, InWindow, Entry, Request
      <4>2. QED
        BY <4>1, <3>1, <3>2, RateLimiterAssumption
    <3>4. QED
      BY <3>3 DEF BlockedByLaterOnly
  <2>3. QED
    BY <2>1, <2>2
<1>3. QED
  BY <1>1, <1>2, LimiterInitInv, LimiterStep, PTL DEF LimiterSpec, LimiterHonest, TimeoutOnlyByOthers
=============================================================================
