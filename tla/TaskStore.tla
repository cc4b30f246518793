----------------------------- MODULE TaskStore -----------------------------
(***************************************************************************)
(* The server-side store of background tasks                               *)
(* (packages/platform/src/tasks/task-store.ts).                            *)
(*                                                                         *)
(* A task is spawned by a tools/call, runs as a promise of user code (its  *)
(* "run"), may ask its client for input, and ends completed, failed or     *)
(* cancelled.  Every public method of the store is synchronous, so each is *)
(* one action; the user code, the clients, the sweep timer and the clock   *)
(* interleave between them.  A task evicted from the map goes on running:  *)
(* its record outlives its presence in `stored'.                           *)
(***************************************************************************)
EXTENDS Naturals, FiniteSets

CONSTANTS
  TaskIds,     \* the identifiers generateTaskId can still return
  Callers,     \* principals: owners of tasks and senders of tasks/* requests
  Keys,        \* keys of input requests
  Messages,    \* values of statusMessage
  Ttls,        \* the finite time-to-live values handlers ask for
  NoTtl,       \* ttlMs = null
  NoMessage,   \* statusMessage absent
  Outcomes,    \* the ways of leaving user code that runs may take
  MaxTasks,    \* hard cap on stored tasks
  MaxTime      \* bound on the clock, for model checking only

ASSUME TaskStoreAssumption ==
  /\ MaxTasks \in Nat \ {0}
  /\ MaxTime \in Nat
  /\ Ttls \subseteq Nat
  /\ NoTtl \notin Nat
  /\ IsFiniteSet(TaskIds)
  /\ Outcomes \subseteq {"result", "unformattable", "aborterror", "error"}

VARIABLES
  task,        \* the InternalTask of every identifier
  stored,      \* the keys of the _tasks map
  now,         \* Date.now()
  disposed,    \* _disposed: the sweep timer is cleared, spawn refuses
  noticed      \* history: the status last told to the outside, by the result
               \* of spawn() or by onNotification

vars == <<task, stored, now, disposed, noticed>>

Terminal == {"completed", "failed", "cancelled"}
Status   == {"unborn", "working", "input_required"} \cup Terminal

\* Where a run is: "done" once the callback of then() ran.
RunState == {"idle", "running", "done"} \cup Outcomes

\* What made a task fail: the text of its error.
Cause    == {"none", "ttl", "invalid", "format", "thrown"}

Task ==
  [owner      : Callers,
   status     : Status,
   message    : Messages \cup {NoMessage},
   createdAt  : Nat,
   ttl        : Ttls \cup {NoTtl},
   seq        : Nat,             \* position in the insertion order of the map
   aborted    : BOOLEAN,         \* abortController.signal.aborted
   run        : RunState,
   requests   : SUBSET Keys,     \* inputRequests
   pending    : SUBSET Keys,     \* pendingResolvers
   answered   : SUBSET Keys,     \* answeredKeys
   cause      : Cause,
   terminalAt : Nat]

IsTerminal(r) == r.status \in Terminal

\* What an observer of tasks/get is shown.
View(r) ==
  [status   |-> r.status,
   message  |-> r.message,
   requests |-> IF r.status = "input_required" THEN r.requests ELSE {},
   error    |-> r.cause]

-----------------------------------------------------------------------------
(* The effects of the store's code on one task record.                     *)

NewTask(owner, ttl, seq) ==
  [owner |-> owner, status |-> "working", message |-> NoMessage,
   createdAt |-> now, ttl |-> ttl, seq |-> seq, aborted |-> FALSE,
   run |-> "running", requests |-> {}, pending |-> {}, answered |-> {},
   cause |-> "none", terminalAt |-> 0]

\* abortController.abort(): the first call runs the abort listener of every
\* outstanding request; the signal never fires again.
Aborted(r) ==
  IF r.aborted THEN r
  ELSE [r EXCEPT !.aborted = TRUE, !.pending = {}, !.requests = {}]

\* A request is accepted: registered, with a resolver, and shown as
\* input_required.  The listener added to an already aborted signal is inert.
Asked(r, k) ==
  [r EXCEPT !.requests = @ \cup {k}, !.pending = @ \cup {k},
            !.status = "input_required"]

\* Faulty: only outstanding keys are refused, not answered ones.
MayAskAgain(r, k) == ~IsTerminal(r) /\ k \notin r.pending

MayAsk(r, k) ==
  /\ ~IsTerminal(r)
  /\ k \notin r.answered
  /\ k \notin r.pending

Failed(r, cause) ==
  [r EXCEPT !.status = "failed", !.cause = cause, !.terminalAt = now]

\* A malformed request fails the task before it rejects, then aborts it.
Malformed(r) == IF IsTerminal(r) THEN r ELSE Aborted(Failed(r, "invalid"))

\* The loop of update() over the responses, then the return to working.
Answered(r, keys) ==
  LET hit  == keys \cap r.pending
      rest == r.pending \ hit
  IN  [r EXCEPT !.pending  = rest,
                !.requests = @ \ hit,
                !.answered = @ \cup hit,
                !.status   = IF @ = "input_required" /\ rest = {}
                             THEN "working" ELSE @]

\* The state a run leads to, and its error.
EndStatus(outcome) ==
  IF outcome = "result" THEN "completed"
  ELSE IF outcome = "aborterror" THEN "cancelled" ELSE "failed"

EndCause(outcome) ==
  IF outcome = "unformattable" THEN "format"
  ELSE IF outcome = "error" THEN "thrown" ELSE "none"

\* The two callbacks of run().then(...).
Settled(r) ==
  IF IsTerminal(r) THEN [r EXCEPT !.run = "done"]
  ELSE [r EXCEPT !.run = "done", !.terminalAt = now,
                 !.status = EndStatus(r.run), !.cause = EndCause(r.run)]

\* _sweep(): abort first, so that waits end, then fail.
Expire(r) == Failed(Aborted(r), "ttl")

-----------------------------------------------------------------------------
(* Eviction.                                                               *)

\* Faulty: a single sort by creation, ended or not.
EvictedOldest(x, y) == task[x].createdAt <= task[y].createdAt

\* Terminal tasks go first, oldest end first; then the others, oldest
\* creation first.  Both sorts are stable over the insertion order.
EvictedBefore(x, y) ==
  LET a == task[x]
      b == task[y]
      earlier(m, n) == m < n \/ (m = n /\ a.seq < b.seq)
  IN  \/ IsTerminal(a) /\ ~IsTerminal(b)
      \/ IsTerminal(a) /\ IsTerminal(b) /\ earlier(a.terminalAt, b.terminalAt)
      \/ ~IsTerminal(a) /\ ~IsTerminal(b) /\ earlier(a.createdAt, b.createdAt)

\* Faulty: one place is kept free.
IsEvictionTooEager(E) ==
  /\ E \subseteq stored
  /\ Cardinality(E) = IF Cardinality(stored) < MaxTasks - 1 THEN 0 ELSE 1
  /\ \A x \in E, y \in stored \ E : EvictedBefore(x, y)

\* The tasks deleted to leave room for one more.
IsEviction(E) ==
  /\ E \subseteq stored
  /\ IF Cardinality(stored) < MaxTasks
     THEN E = {}
     ELSE Cardinality(E) = Cardinality(stored) - MaxTasks + 1
  /\ \A x \in E, y \in stored \ E : EvictedBefore(x, y)

\* Only a task deleted while it was still alive is aborted.
AfterEviction(E) ==
  [t \in TaskIds |-> IF t \in E /\ ~IsTerminal(task[t])
                     THEN Aborted(task[t]) ELSE task[t]]

-----------------------------------------------------------------------------
(* Notifications: none once the store is disposed.                         *)

Notify(S) ==
  noticed' = IF disposed THEN noticed
             ELSE [t \in TaskIds |-> IF t \in S THEN task'[t].status
                                     ELSE noticed[t]]

-----------------------------------------------------------------------------
Unborn == {t \in TaskIds : task[t].status = "unborn"}

Init ==
  /\ \E c \in Callers :
       task = [t \in TaskIds |->
                [owner |-> c, status |-> "unborn", message |-> NoMessage,
                 createdAt |-> 0, ttl |-> NoTtl, seq |-> 0, aborted |-> FALSE,
                 run |-> "idle", requests |-> {}, pending |-> {},
                 answered |-> {}, cause |-> "none", terminalAt |-> 0]]
  /\ stored = {}
  /\ now = 0
  /\ disposed = FALSE
  /\ noticed = [t \in TaskIds |-> "unborn"]

\* spawn(): run() is called, and its synchronous prefix executed, before the
\* task is put in the map; the prefix may already ask for input or be refused.
Spawn(t, owner, ttl, prefix) ==
  LET fresh == NewTask(owner, ttl, Cardinality(TaskIds \ Unborn))
      begun == CASE prefix = "quiet"     -> fresh
                 [] prefix = "malformed" -> Malformed(fresh)
                 [] OTHER                -> Asked(fresh, prefix)
  IN  /\ ~disposed
      /\ t \in Unborn
      /\ \E E \in SUBSET stored :
           /\ IsEviction(E)
           /\ task' = [AfterEviction(E) EXCEPT ![t] = begun]
           /\ stored' = (stored \ E) \cup {t}
      /\ Notify({t})
      /\ UNCHANGED <<now, disposed>>

\* ctrl.requireInput(k, request) with a request that canonicalises.  Who holds the
\* controller may use it when the run has ended, too.
RequireInput(t, k) ==
  /\ task[t].run # "idle"
  /\ MayAsk(task[t], k)
  /\ task' = [task EXCEPT ![t] = Asked(@, k)]
  /\ Notify({t})
  /\ UNCHANGED <<stored, now, disposed>>

\* ctrl.requireInput with a key or request that does not canonicalise.
RequireMalformed(t) ==
  /\ task[t].run # "idle"
  /\ ~IsTerminal(task[t])
  /\ task' = [task EXCEPT ![t] = Malformed(@)]
  /\ Notify({t})
  /\ UNCHANGED <<stored, now, disposed>>

SetStatusMessage(t, m) ==
  /\ task[t].run # "idle"
  /\ ~IsTerminal(task[t])
  /\ task' = [task EXCEPT ![t].message = m]
  /\ UNCHANGED <<stored, now, disposed, noticed>>

\* The promise of run() settles; its callback is only queued.
RunEnds(t, outcome) ==
  /\ task[t].run = "running"
  /\ task' = [task EXCEPT ![t].run = outcome]
  /\ UNCHANGED <<stored, now, disposed, noticed>>

\* Faulty: the end of the run is not announced.
SettleUnannounced(t) ==
  /\ task[t].run \in Outcomes
  /\ task' = [task EXCEPT ![t] = Settled(@)]
  /\ UNCHANGED <<stored, now, disposed, noticed>>

Settle(t) ==
  /\ task[t].run \in Outcomes
  /\ task' = [task EXCEPT ![t] = Settled(@)]
  /\ Notify(IF IsTerminal(task[t]) THEN {} ELSE {t})
  /\ UNCHANGED <<stored, now, disposed>>

Owns(t, caller) == t \in stored /\ task[t].owner = caller

\* tasks/update
Update(t, caller, keys) ==
  /\ Owns(t, caller)
  /\ task' = [task EXCEPT ![t] = Answered(@, keys)]
  /\ Notify(IF task'[t].status # task[t].status THEN {t} ELSE {})
  /\ UNCHANGED <<stored, now, disposed>>

\* tasks/cancel
Cancel(t, caller) ==
  /\ Owns(t, caller)
  /\ ~IsTerminal(task[t])
  /\ task' = [task EXCEPT ![t] = Aborted(@)]
  /\ UNCHANGED <<stored, now, disposed, noticed>>

\* Faulty: a task waiting on its client does not expire.
ExpiredWorkingOnly(t) ==
  /\ task[t].status = "working"
  /\ task[t].ttl # NoTtl
  /\ now - task[t].createdAt > task[t].ttl

Expired(t) ==
  /\ ~IsTerminal(task[t])
  /\ task[t].ttl # NoTtl
  /\ now - task[t].createdAt > task[t].ttl

\* The interval timer; dispose() clears it.
Sweep ==
  LET S == {t \in stored : Expired(t)} IN
  /\ ~disposed
  /\ S # {}
  /\ task' = [t \in TaskIds |-> IF t \in S THEN Expire(task[t]) ELSE task[t]]
  /\ Notify(S)
  /\ UNCHANGED <<stored, now, disposed>>

\* drain() then dispose(), called back to back by McpApp.stop().
DrainAndDispose ==
  /\ ~disposed
  /\ task' = [t \in TaskIds |-> IF t \in stored /\ ~IsTerminal(task[t])
                                THEN Aborted(task[t]) ELSE task[t]]
  /\ disposed' = TRUE
  /\ UNCHANGED <<stored, now, noticed>>

Tick ==
  /\ now < MaxTime
  /\ now' = now + 1
  /\ UNCHANGED <<task, stored, disposed, noticed>>

SpawnSome ==
  \E t \in TaskIds, c \in Callers, ttl \in Ttls \cup {NoTtl},
     prefix \in {"quiet", "malformed"} \cup Keys : Spawn(t, c, ttl, prefix)

HandlerStep ==
  \E t \in TaskIds :
    \/ \E k \in Keys : RequireInput(t, k)
    \/ RequireMalformed(t)
    \/ \E m \in Messages : SetStatusMessage(t, m)
    \/ \E o \in Outcomes : RunEnds(t, o)
    \/ Settle(t)

ClientStep ==
  \E t \in TaskIds, c \in Callers :
    \/ \E keys \in SUBSET Keys : Update(t, c, keys)
    \/ Cancel(t, c)

Next == SpawnSome \/ HandlerStep \/ ClientStep \/ Sweep \/ DrainAndDispose \/ Tick

Spec == Init /\ [][Next]_vars

\* The clock advances and the interval timer fires; user code and clients
\* owe nothing.
FairSpec == Spec /\ WF_vars(Tick) /\ WF_vars(Sweep)

-----------------------------------------------------------------------------
(* Properties.                                                             *)

\* Type invariant.
TypeOK ==
  /\ task \in [TaskIds -> Task]
  /\ stored \subseteq TaskIds
  /\ now \in Nat
  /\ disposed \in BOOLEAN
  /\ noticed \in [TaskIds -> Status]

\* The two maps of a task stay parallel (the comment on pendingResolvers): the
\* client is shown exactly the requests some requireInput() is waiting on, through
\* every interleaving of asking, answering, cancelling and expiring.
RequestsArePending ==
  \A t \in TaskIds : task[t].requests = task[t].pending

\* A key whose answer was delivered is never outstanding again, for the lifetime
\* of the task, however asking and answering alternate.
AnsweredNeverReasked ==
  \A t \in TaskIds : task[t].answered \cap task[t].pending = {}

\* A handler waiting on input is never hidden behind "working": whoever polls
\* sees input_required as long as one wait of a live task is unanswered.
NoHiddenWait ==
  \A t \in TaskIds : task[t].status = "working" => task[t].pending = {}

\* The hard memory cap holds after every call of spawn().
CapacityRespected == Cardinality(stored) <= MaxTasks

\* Every change of status of every task, evicted ones included, was announced
\* until the store was disposed: a subscriber never holds an old status.
EveryChangeAnnounced ==
  ~disposed => \A t \in TaskIds : noticed[t] = task[t].status

\* Nothing is left running unwarned in a store nobody will drain again: once
\* disposed, every task was told to stop or had ended (comment of spawn()).
DisposedIsDrained ==
  disposed => \A t \in TaskIds :
                task[t].status = "unborn" \/ IsTerminal(task[t]) \/ task[t].aborted

\* The first terminal state wins: the sweep, a malformed request, and either
\* callback of the run race, and what tasks/get shows of an ended task never
\* changes again.
FirstEndWins ==
  [][\A t \in TaskIds :
       IsTerminal(task[t]) => View(task'[t]) = View(task[t])]_vars

\* Eviction takes a live task only when no ended task is left to take, takes no
\* younger one before it, and warns it through its signal.
LiveEvictedLast ==
  [][\A t \in stored \ stored' :
       ~IsTerminal(task[t]) =>
         /\ task'[t].aborted
         /\ \A u \in stored \cap stored' :
              /\ ~IsTerminal(task[u])
              /\ task[u].createdAt >= task[t].createdAt]_vars

\* Every task with a finite time to live that the store keeps long enough ends,
\* whatever its handler and its client do or fail to do.  (A task whose deadline
\* lies beyond the model's last instant is out of the statement.)
ExpiryEndsTask ==
  \A t \in TaskIds :
    (/\ t \in stored
     /\ task[t].ttl # NoTtl
     /\ task[t].createdAt + task[t].ttl < MaxTime)
      ~> (IsTerminal(task[t]) \/ t \notin stored \/ disposed)

\* Claimed by the comments of requireInput(): an abort rejects the wait even when
\* it came before the wait, so that an aborted task has none outstanding.
AbortRejectsWaits ==
  \A t \in TaskIds : task[t].aborted => task[t].pending = {}

-----------------------------------------------------------------------------
(* What the store promises its clients, abstractly.                        *)

Phase(t) ==
  CASE task[t].status = "unborn" -> "absent"
    [] task[t].status # "unborn" /\ t \notin stored -> "gone"
    [] t \in stored /\ IsTerminal(task[t]) -> "ended"
    [] OTHER -> task[t].status

Lifecycle == INSTANCE TaskLifecycle
  WITH Tasks <- TaskIds, Capacity <- MaxTasks,
       phase <- [t \in TaskIds |-> Phase(t)], closed <- disposed

\* Every step of the store is a step of the lifecycle its clients rely on.
ImplementsLifecycle == Lifecycle!Spec

\* What a task asks for is asked once and seen until it is answered (requireInput,
\* update).
InputsSound == AnsweredNeverReasked /\ NoHiddenWait

\* Nobody is forgotten: subscribers hear of every change, and a disposed store
\* has told every live task to stop (_notify, drain, dispose).
TasksAccounted == EveryChangeAnnounced /\ DisposedIsDrained

\* An end stands, and only a store that has no ended task left to give up lets go
\* of a live one (spawn callbacks, _maybeEvict).
EndsStand == FirstEndWins /\ LiveEvictedLast
=============================================================================
