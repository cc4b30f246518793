-------------------------- MODULE TaskStoreProofs --------------------------
(***************************************************************************)
(* Theorems about TaskStore, for any set of tasks, callers and keys, any   *)
(* times to live, any capacity and any clock.                              *)
(*                                                                         *)
(* The state of the store is a function from identifiers to records, and   *)
(* almost every operation rewrites one record: the lemmas first show that  *)
(* each operator on records preserves `Sound', what must be true of one    *)
(* record, and the theorems lift them to the steps of the store.           *)
(***************************************************************************)
EXTENDS TaskStore, FiniteSetTheorems, TLAPS

\* What is true of the record of every task.
Sound(r) ==
  /\ r \in Task
  /\ r.requests = r.pending
  /\ r.answered \cap r.pending = {}
  /\ r.status = "working" => r.pending = {}
  /\ r.status = "unborn" => r.run = "idle"

USE DEF IsTerminal, Terminal, Status

-----------------------------------------------------------------------------
(* The operators on one record.                                            *)

LEMMA AbortedSound ==
  ASSUME NEW r, Sound(r)
  PROVE  /\ Sound(Aborted(r))
         /\ Aborted(r).status = r.status
         /\ Aborted(r).aborted
         /\ r.aborted => Aborted(r) = r
         /\ View(r).status = View(Aborted(r)).status
BY DEF Sound, Task, Aborted, View

LEMMA NewTaskSound ==
  ASSUME NEW c \in Callers, NEW ttl \in Ttls \cup {NoTtl}, NEW n \in Nat, now \in Nat
  PROVE  /\ Sound(NewTask(c, ttl, n))
         /\ NewTask(c, ttl, n).status = "working"
         /\ NewTask(c, ttl, n).answered = {}
BY DEF Sound, Task, NewTask, RunState, Cause

LEMMA AskedSound ==
  ASSUME NEW r, Sound(r), NEW k \in Keys, k \notin r.answered
  PROVE  /\ Sound(Asked(r, k))
         /\ Asked(r, k).status = "input_required"
         /\ Asked(r, k).aborted = r.aborted
BY DEF Sound, Task, Asked

LEMMA FailedSound ==
  ASSUME NEW r, Sound(r), NEW cause \in Cause, now \in Nat
  PROVE  /\ Sound(Failed(r, cause))
         /\ Failed(r, cause).status = "failed"
BY DEF Sound, Task, Failed

LEMMA MalformedSound ==
  ASSUME NEW r, Sound(r), now \in Nat
  PROVE  /\ Sound(Malformed(r))
         /\ IsTerminal(Malformed(r))
         /\ IsTerminal(r) => Malformed(r) = r
<1>1. "invalid" \in Cause
  BY DEF Cause
<1>2. Sound(Failed(r, "invalid")) /\ Failed(r, "invalid").status = "failed"
  BY <1>1, FailedSound
<1>3. Sound(Aborted(Failed(r, "invalid"))) /\ Aborted(Failed(r, "invalid")).status = "failed"
  BY <1>2, AbortedSound
<1>4. QED
  BY <1>3 DEF Malformed

LEMMA AnsweredSound ==
  ASSUME NEW r, Sound(r), NEW keys \in SUBSET Keys
  PROVE  /\ Sound(Answered(r, keys))
         /\ Answered(r, keys).aborted = r.aborted
         /\ IsTerminal(r) => View(Answered(r, keys)) = View(r)
         /\ IsTerminal(Answered(r, keys)) <=> IsTerminal(r)
         /\ Answered(r, keys).status = "unborn" <=> r.status = "unborn"
BY DEF Sound, Task, Answered, View

LEMMA SettledSound ==
  ASSUME NEW r, Sound(r), now \in Nat
  PROVE  /\ Sound(Settled(r))
         /\ IsTerminal(Settled(r))
         /\ IsTerminal(r) => View(Settled(r)) = View(r) /\ Settled(r).status = r.status
<1>1. CASE IsTerminal(r)
  <2>1. Settled(r) = [r EXCEPT !.run = "done"]
    BY <1>1 DEF Settled
  <2>2. QED
    BY <1>1, <2>1 DEF Sound, Task, RunState, View
<1>2. CASE ~IsTerminal(r)
  <2> DEFINE s == EndStatus(r.run)
             c == EndCause(r.run)
  <2>1. s \in Terminal /\ c \in Cause
    BY DEF EndStatus, EndCause, Cause
  <2>2. Settled(r) = [r EXCEPT !.run = "done", !.terminalAt = now,
                               !.status = s, !.cause = c]
    BY <1>2 DEF Settled
  <2> HIDE DEF s, c
  <2>3. QED
    BY <1>2, <2>1, <2>2 DEF Sound, Task, RunState
<1>3. QED
  BY <1>1, <1>2

LEMMA ExpireSound ==
  ASSUME NEW r, Sound(r), now \in Nat
  PROVE  Sound(Expire(r)) /\ Expire(r).status = "failed"
<1>1. Sound(Aborted(r))
  BY AbortedSound
<1>2. "ttl" \in Cause
  BY DEF Cause
<1>3. QED
  BY <1>1, <1>2, FailedSound DEF Expire

-----------------------------------------------------------------------------
(* The inductive invariant.  The properties need more than they say: that  *)
(* a task the store let go of was told to stop or had ended, and that what *)
(* is stored was born.                                                     *)

Warned(r) == IsTerminal(r) \/ r.aborted

IInv ==
  /\ task \in [TaskIds -> Task]
  /\ stored \subseteq TaskIds
  /\ now \in Nat
  /\ disposed \in BOOLEAN
  /\ noticed \in [TaskIds -> Status]
  /\ \A t \in TaskIds : Sound(task[t])
  /\ \A t \in stored : task[t].status # "unborn"
  /\ \A t \in TaskIds :
       task[t].status # "unborn" /\ (t \notin stored \/ disposed) => Warned(task[t])
  /\ EveryChangeAnnounced

\* What a step may make of one record.
Evolves(r, r2) ==
  /\ Sound(r2)
  /\ r.status # "unborn" => r2.status # "unborn" /\ (Warned(r) => Warned(r2))
  /\ IsTerminal(r) => View(r2) = View(r)

LEMMA InitIInv == Init => IInv
<1> SUFFICES ASSUME Init PROVE IInv
  OBVIOUS
<1>1. PICK c \in Callers :
        task = [t \in TaskIds |->
                 [owner |-> c, status |-> "unborn", message |-> NoMessage,
                  createdAt |-> 0, ttl |-> NoTtl, seq |-> 0, aborted |-> FALSE,
                  run |-> "idle", requests |-> {}, pending |-> {},
                  answered |-> {}, cause |-> "none", terminalAt |-> 0]]
  BY DEF Init
<1>2. \A t \in TaskIds : Sound(task[t]) /\ task[t].status = "unborn"
  BY <1>1 DEF Sound, Task, RunState, Cause
<1>3. task \in [TaskIds -> Task]
  <2>1. \A t \in TaskIds : task[t] \in Task
    BY <1>2 DEF Sound
  <2>2. QED
    BY <1>1, <2>1
<1>4. noticed = [t \in TaskIds |-> "unborn"]
  BY DEF Init
<1>5. QED
  BY <1>2, <1>3, <1>4 DEF Init, IInv, EveryChangeAnnounced

LEMMA StaysPut ==
  ASSUME NEW r, Sound(r)
  PROVE  Evolves(r, r)
BY DEF Evolves

LEMMA UpdatedEvolves ==
  ASSUME IInv, NEW t \in TaskIds, NEW r, Evolves(task[t], r),
         task' = [task EXCEPT ![t] = r]
  PROVE  \A u \in TaskIds : Evolves(task[u], task'[u])
BY StaysPut DEF IInv

\* A record that a call of spawn() may leave behind.
LEMMA BegunSound ==
  ASSUME IInv, NEW c \in Callers, NEW ttl \in Ttls \cup {NoTtl}, NEW n \in Nat,
         NEW prefix \in {"quiet", "malformed"} \cup Keys
  PROVE  LET begun == CASE prefix = "quiet"     -> NewTask(c, ttl, n)
                        [] prefix = "malformed" -> Malformed(NewTask(c, ttl, n))
                        [] OTHER                -> Asked(NewTask(c, ttl, n), prefix)
         IN  Sound(begun) /\ begun.status # "unborn"
<1> DEFINE fresh == NewTask(c, ttl, n)
<1>1. Sound(fresh) /\ fresh.status = "working" /\ fresh.answered = {}
  BY NewTaskSound DEF IInv
<1>2. Sound(Malformed(fresh)) /\ Malformed(fresh).status # "unborn"
  BY <1>1, MalformedSound DEF IInv
<1>3. prefix \in Keys => /\ Sound(Asked(fresh, prefix))
                         /\ Asked(fresh, prefix).status # "unborn"
  BY <1>1, AskedSound
<1> HIDE DEF fresh
<1>4. QED
  BY <1>1, <1>2, <1>3 DEF fresh

\* Every step makes of every record what it may.
LEMMA StepEvolves ==
  ASSUME IInv, [Next]_vars
  PROVE  \A t \in TaskIds : Evolves(task[t], task'[t])
<1> USE DEF Warned
<1>1. ASSUME NEW t \in TaskIds, NEW c \in Callers, NEW ttl \in Ttls \cup {NoTtl},
             NEW prefix \in {"quiet", "malformed"} \cup Keys,
             Spawn(t, c, ttl, prefix)
      PROVE  \A u \in TaskIds : Evolves(task[u], task'[u])
  <2> DEFINE n == Cardinality(TaskIds \ Unborn)
             begun == CASE prefix = "quiet"     -> NewTask(c, ttl, n)
                        [] prefix = "malformed" -> Malformed(NewTask(c, ttl, n))
                        [] OTHER                -> Asked(NewTask(c, ttl, n), prefix)
  <2>1. n \in Nat
    BY FS_Subset, FS_CardinalityType, TaskStoreAssumption
  <2>2. Sound(begun) /\ begun.status # "unborn"
    BY <2>1, BegunSound
  <2>3. PICK E \in SUBSET stored : task' = [AfterEviction(E) EXCEPT ![t] = begun]
    BY <1>1 DEF Spawn
  <2>4. task[t].status = "unborn"
    BY <1>1 DEF Spawn, Unborn
  <2> HIDE DEF begun
  <2>5. Evolves(task[t], begun)
    BY <2>2, <2>4 DEF Evolves
  <2>6. ASSUME NEW u \in TaskIds, u # t
        PROVE  Evolves(task[u], task'[u])
    <3>1. task'[u] = task[u] \/ (~IsTerminal(task[u]) /\ task'[u] = Aborted(task[u]))
      BY <2>3, <2>6 DEF AfterEviction
    <3>2. Sound(task[u])
      BY DEF IInv
    <3>3. QED
      BY <3>1, <3>2, AbortedSound DEF Evolves
  <2>7. task'[t] = begun
    BY <2>3 DEF AfterEviction
  <2>8. QED
    BY <2>5, <2>6, <2>7
<1>2. ASSUME NEW t \in TaskIds, NEW k \in Keys, RequireInput(t, k)
      PROVE  \A u \in TaskIds : Evolves(task[u], task'[u])
  <2>1. Sound(task[t]) /\ MayAsk(task[t], k)
    BY <1>2 DEF IInv, RequireInput
  <2>2. Evolves(task[t], Asked(task[t], k))
    BY <2>1, AskedSound DEF Evolves, MayAsk
  <2>3. QED
    BY <1>2, <2>2, UpdatedEvolves DEF RequireInput
<1>3. ASSUME NEW t \in TaskIds, RequireMalformed(t)
      PROVE  \A u \in TaskIds : Evolves(task[u], task'[u])
  <2>1. Sound(task[t]) /\ now \in Nat
    BY DEF IInv
  <2>2. Evolves(task[t], Malformed(task[t]))
    BY <2>1, MalformedSound DEF Evolves
  <2>3. QED
    BY <1>3, <2>2, UpdatedEvolves DEF RequireMalformed
<1>4. ASSUME NEW t \in TaskIds, NEW m \in Messages, SetStatusMessage(t, m)
      PROVE  \A u \in TaskIds : Evolves(task[u], task'[u])
  <2> DEFINE r == [task[t] EXCEPT !.message = m]
  <2>1. Sound(task[t]) /\ ~IsTerminal(task[t])
    BY <1>4 DEF IInv, SetStatusMessage
  <2>2. Evolves(task[t], r)
    BY <2>1 DEF Evolves, Sound, Task
  <2>3. task' = [task EXCEPT ![t] = r]
    BY <1>4 DEF SetStatusMessage
  <2>4. QED
    BY <2>2, <2>3, UpdatedEvolves
<1>5. ASSUME NEW t \in TaskIds, NEW o \in Outcomes, RunEnds(t, o)
      PROVE  \A u \in TaskIds : Evolves(task[u], task'[u])
  <2> DEFINE r == [task[t] EXCEPT !.run = o]
  <2>1. Sound(task[t]) /\ task[t].run = "running"
    BY <1>5 DEF IInv, RunEnds
  <2>2. Evolves(task[t], r)
    BY <2>1 DEF Evolves, Sound, Task, RunState, View
  <2>3. task' = [task EXCEPT ![t] = r]
    BY <1>5 DEF RunEnds
  <2>4. QED
    BY <2>2, <2>3, UpdatedEvolves
<1>6. ASSUME NEW t \in TaskIds, Settle(t)
      PROVE  \A u \in TaskIds : Evolves(task[u], task'[u])
  <2>1. Sound(task[t]) /\ now \in Nat
    BY DEF IInv
  <2>2. Evolves(task[t], Settled(task[t]))
    BY <2>1, SettledSound DEF Evolves
  <2>3. QED
    BY <1>6, <2>2, UpdatedEvolves DEF Settle
<1>7. ASSUME NEW t \in TaskIds, NEW c \in Callers, NEW keys \in SUBSET Keys,
             Update(t, c, keys)
      PROVE  \A u \in TaskIds : Evolves(task[u], task'[u])
  <2>1. Sound(task[t])
    BY DEF IInv
  <2>2. Evolves(task[t], Answered(task[t], keys))
    BY <2>1, AnsweredSound DEF Evolves
  <2>3. QED
    BY <1>7, <2>2, UpdatedEvolves DEF Update
<1>8. ASSUME NEW t \in TaskIds, NEW c \in Callers, Cancel(t, c)
      PROVE  \A u \in TaskIds : Evolves(task[u], task'[u])
  <2>1. Sound(task[t]) /\ ~IsTerminal(task[t])
    BY <1>8 DEF IInv, Cancel
  <2>2. Evolves(task[t], Aborted(task[t]))
    BY <2>1, AbortedSound DEF Evolves
  <2>3. QED
    BY <1>8, <2>2, UpdatedEvolves DEF Cancel
<1>9. CASE Sweep
  <2>1. ASSUME NEW u \in TaskIds
        PROVE  task'[u] = task[u] \/ (~IsTerminal(task[u]) /\ task'[u] = Expire(task[u]))
    BY <1>9 DEF Sweep, Expired
  <2>2. \A u \in TaskIds : Sound(task[u]) /\ now \in Nat
    BY DEF IInv
  <2>3. QED
    BY <2>1, <2>2, ExpireSound DEF Evolves
<1>10. CASE DrainAndDispose
  <2>1. ASSUME NEW u \in TaskIds
        PROVE  task'[u] = task[u] \/ (~IsTerminal(task[u]) /\ task'[u] = Aborted(task[u]))
    BY <1>10 DEF DrainAndDispose
  <2>2. \A u \in TaskIds : Sound(task[u])
    BY DEF IInv
  <2>3. QED
    BY <2>1, <2>2, AbortedSound DEF Evolves
<1>11. CASE UNCHANGED task
  BY <1>11, StaysPut DEF IInv
<1>12. QED
  BY <1>1, <1>2, <1>3, <1>4, <1>5, <1>6, <1>7, <1>8, <1>9, <1>10, <1>11
     DEF Next, SpawnSome, HandlerStep, ClientStep, Tick, vars

\* The announcements: what a step does not announce, it does not change.
LEMMA StepAnnounces ==
  ASSUME IInv, [Next]_vars
  PROVE  EveryChangeAnnounced' /\ noticed' \in [TaskIds -> Status]
<1> SUFFICES ASSUME TRUE
             PROVE  /\ noticed' \in [TaskIds -> Status]
                    /\ ~disposed' => \A u \in TaskIds : noticed'[u] = task'[u].status
  BY DEF EveryChangeAnnounced
<1>1. \A u \in TaskIds : /\ Sound(task[u]) /\ Sound(task'[u])
                         /\ task'[u].status \in Status
                         /\ ~disposed => noticed[u] = task[u].status
  BY StepEvolves DEF Evolves, IInv, Sound, Task, EveryChangeAnnounced
<1>2. ASSUME NEW S \in SUBSET TaskIds, Notify(S), disposed' = disposed,
             \A u \in TaskIds \ S : task'[u].status = task[u].status
      PROVE  /\ noticed' \in [TaskIds -> Status]
             /\ ~disposed' => \A u \in TaskIds : noticed'[u] = task'[u].status
  BY <1>1, <1>2 DEF Notify, IInv
<1>3. ASSUME noticed' = noticed, disposed' = disposed \/ disposed',
             \A u \in TaskIds : task'[u].status = task[u].status
      PROVE  /\ noticed' \in [TaskIds -> Status]
             /\ ~disposed' => \A u \in TaskIds : noticed'[u] = task'[u].status
  BY <1>1, <1>3 DEF IInv
<1>4. ASSUME NEW t \in TaskIds, NEW c \in Callers, NEW ttl \in Ttls \cup {NoTtl},
             NEW prefix \in {"quiet", "malformed"} \cup Keys,
             Spawn(t, c, ttl, prefix), NEW u \in TaskIds \ {t}
      PROVE  task'[u].status = task[u].status
  <2>1. task'[u] = task[u] \/ task'[u] = Aborted(task[u])
    BY <1>4 DEF Spawn, AfterEviction
  <2>2. QED
    BY <1>1, <2>1, AbortedSound
<1>5. ASSUME NEW t \in TaskIds, NEW c \in Callers, Cancel(t, c), NEW u \in TaskIds
      PROVE  task'[u].status = task[u].status
  <2>1. task'[u] = task[u] \/ task'[u] = Aborted(task[u])
    BY <1>5 DEF Cancel, IInv
  <2>2. QED
    BY <1>1, <2>1, AbortedSound
<1>6. ASSUME NEW t \in TaskIds, Settle(t), NEW u \in TaskIds,
             u # t \/ IsTerminal(task[t])
      PROVE  task'[u].status = task[u].status
  <2>1. Sound(task[t]) /\ now \in Nat
    BY DEF IInv
  <2>2. IsTerminal(task[t]) => Settled(task[t]).status = task[t].status
    BY <2>1, SettledSound
  <2>3. QED
    BY <1>6, <2>2 DEF Settle, IInv
<1>7. ASSUME NEW t \in TaskIds, NEW c \in Callers, NEW keys \in SUBSET Keys,
             Update(t, c, keys)
      PROVE  \A u \in TaskIds \ {t} : task'[u].status = task[u].status
  BY <1>7 DEF Update, IInv
<1>8. ASSUME Sweep
      PROVE  \A u \in TaskIds \ {t \in stored : Expired(t)} : task'[u].status = task[u].status
  BY <1>8 DEF Sweep
<1>9. ASSUME DrainAndDispose
      PROVE  \A u \in TaskIds : task'[u].status = task[u].status
  <2>1. \A u \in TaskIds : task'[u] = task[u] \/ task'[u] = Aborted(task[u])
    BY <1>9 DEF DrainAndDispose
  <2>2. QED
    BY <1>1, <2>1, AbortedSound
<1>10. QED
  <2>1. ASSUME NEW t \in TaskIds, NEW c \in Callers, NEW ttl \in Ttls \cup {NoTtl},
               NEW prefix \in {"quiet", "malformed"} \cup Keys,
               Spawn(t, c, ttl, prefix)
        PROVE  Notify({t}) /\ disposed' = disposed
    BY <2>1 DEF Spawn
  <2>2. CASE SpawnSome
    BY <2>1, <2>2, <1>2, <1>4 DEF SpawnSome
  <2>3. ASSUME NEW t \in TaskIds, NEW k \in Keys, RequireInput(t, k)
        PROVE  /\ Notify({t}) /\ disposed' = disposed
               /\ \A u \in TaskIds \ {t} : task'[u].status = task[u].status
    BY <2>3 DEF RequireInput, IInv
  <2>4. ASSUME NEW t \in TaskIds, RequireMalformed(t)
        PROVE  /\ Notify({t}) /\ disposed' = disposed
               /\ \A u \in TaskIds \ {t} : task'[u].status = task[u].status
    BY <2>4 DEF RequireMalformed, IInv
  <2>5. ASSUME NEW t \in TaskIds, NEW m \in Messages, SetStatusMessage(t, m)
        PROVE  /\ noticed' = noticed /\ disposed' = disposed
               /\ \A u \in TaskIds : task'[u].status = task[u].status
    BY <2>5, <1>1 DEF SetStatusMessage, IInv, Sound, Task
  <2>6. ASSUME NEW t \in TaskIds, NEW o \in Outcomes, RunEnds(t, o)
        PROVE  /\ noticed' = noticed /\ disposed' = disposed
               /\ \A u \in TaskIds : task'[u].status = task[u].status
    BY <2>6, <1>1 DEF RunEnds, IInv, Sound, Task
  <2>7. ASSUME NEW t \in TaskIds, Settle(t)
        PROVE  /\ disposed' = disposed
               /\ IF IsTerminal(task[t]) THEN Notify({}) ELSE Notify({t})
    BY <2>7 DEF Settle
  <2>8. CASE HandlerStep
    <3>1. ASSUME NEW t \in TaskIds, Settle(t)
          PROVE  /\ noticed' \in [TaskIds -> Status]
                 /\ ~disposed' => \A u \in TaskIds : noticed'[u] = task'[u].status
      <4>1. CASE IsTerminal(task[t])
        BY <3>1, <4>1, <2>7, <1>6, <1>2
      <4>2. CASE ~IsTerminal(task[t])
        BY <3>1, <4>2, <2>7, <1>6, <1>2
      <4>3. QED
        BY <4>1, <4>2
    <3>2. QED
      BY <2>3, <2>4, <2>5, <2>6, <2>8, <3>1, <1>2, <1>3 DEF HandlerStep
  <2>9. ASSUME NEW t \in TaskIds, NEW c \in Callers, NEW keys \in SUBSET Keys,
               Update(t, c, keys)
        PROVE  /\ disposed' = disposed
               /\ \/ Notify({t})
                  \/ Notify({}) /\ task'[t].status = task[t].status
    BY <2>9 DEF Update
  <2>10. CASE ClientStep
    BY <2>9, <2>10, <1>2, <1>3, <1>5, <1>7 DEF ClientStep, Cancel
  <2>11. CASE Sweep
    <3>1. {t \in stored : Expired(t)} \in SUBSET TaskIds
      BY DEF IInv
    <3>2. QED
      BY <2>11, <3>1, <1>2, <1>8 DEF Sweep
  <2>12. CASE DrainAndDispose
    BY <2>12, <1>3, <1>9 DEF DrainAndDispose
  <2>13. CASE Tick \/ UNCHANGED vars
    BY <2>13, <1>3 DEF Tick, vars
  <2>14. QED
    BY <2>2, <2>8, <2>10, <2>11, <2>12, <2>13 DEF Next

LEMMA NextIInv == IInv /\ [Next]_vars => IInv'
<1> SUFFICES ASSUME IInv, [Next]_vars PROVE IInv'
  OBVIOUS
<1>1. \A t \in TaskIds : Evolves(task[t], task'[t])
  BY StepEvolves
<1>2. \A t \in TaskIds : Sound(task'[t]) /\ task'[t] \in Task
  BY <1>1 DEF Evolves, Sound
<1>3. task' = [t \in TaskIds |-> task'[t]]
  BY DEF IInv, Next, SpawnSome, HandlerStep, ClientStep, Tick, vars, Spawn, RequireInput,
         RequireMalformed, SetStatusMessage, RunEnds, Settle, Update, Cancel, Sweep,
         DrainAndDispose, AfterEviction
<1>4. task' \in [TaskIds -> Task]
  BY <1>2, <1>3
<1>5. now' \in Nat /\ disposed' \in BOOLEAN
  <2>1. now' = now \/ now' = now + 1
    BY DEF Next, SpawnSome, HandlerStep, ClientStep, Tick, vars, Spawn, RequireInput,
           RequireMalformed, SetStatusMessage, RunEnds, Settle, Update, Cancel, Sweep,
           DrainAndDispose
  <2>2. disposed' = disposed \/ disposed' = TRUE
    BY Zenon DEF Next, SpawnSome, HandlerStep, ClientStep, Tick, vars, Spawn, RequireInput,
           RequireMalformed, SetStatusMessage, RunEnds, Settle, Update, Cancel, Sweep,
           DrainAndDispose
  <2>3. now' \in Nat
    BY <2>1 DEF IInv
  <2>4. disposed' \in BOOLEAN
    BY Zenon, <2>2 DEF IInv
  <2>5. QED
    BY <2>3, <2>4
<1>6. EveryChangeAnnounced' /\ noticed' \in [TaskIds -> Status]
  BY StepAnnounces
<1>7. /\ stored' \subseteq TaskIds
      /\ \A t \in stored' : task'[t].status # "unborn"
      /\ \A t \in TaskIds :
           task'[t].status # "unborn" /\ (t \notin stored' \/ disposed') => Warned(task'[t])
  <2>1. CASE SpawnSome
    <3>1. PICK t \in TaskIds, c \in Callers, ttl \in Ttls \cup {NoTtl},
               prefix \in {"quiet", "malformed"} \cup Keys : Spawn(t, c, ttl, prefix)
      BY <2>1 DEF SpawnSome
    <3> DEFINE n == Cardinality(TaskIds \ Unborn)
               begun == CASE prefix = "quiet"     -> NewTask(c, ttl, n)
                          [] prefix = "malformed" -> Malformed(NewTask(c, ttl, n))
                          [] OTHER                -> Asked(NewTask(c, ttl, n), prefix)
    <3>2. n \in Nat
      BY FS_Subset, FS_CardinalityType, TaskStoreAssumption
    <3>3. begun.status # "unborn"
      BY <3>2, BegunSound
    <3>4. PICK E \in SUBSET stored :
            /\ task' = [AfterEviction(E) EXCEPT ![t] = begun]
            /\ stored' = (stored \ E) \cup {t}
      BY <3>1 DEF Spawn
    <3> HIDE DEF begun
    <3>5. task'[t].status # "unborn"
      BY <3>3, <3>4 DEF AfterEviction
    <3>6. \A u \in E \ {t} : Warned(task'[u])
      <4>1. \A u \in TaskIds : Sound(task[u])
        BY DEF IInv
      <4>2. \A u \in E \ {t} : IF IsTerminal(task[u]) THEN task'[u] = task[u]
                              ELSE task'[u] = Aborted(task[u])
        BY <3>4 DEF AfterEviction, IInv
      <4>3. QED
        BY <4>1, <4>2, AbortedSound DEF Warned, IInv
    <3>7. ~disposed'
      BY <3>1 DEF Spawn
    <3>8. \A u \in TaskIds \ {t} : task'[u].status # "unborn" => task[u].status # "unborn"
      <4>1. \A u \in TaskIds \ {t} : task'[u] \in {task[u], Aborted(task[u])}
        BY <3>4 DEF AfterEviction
      <4>2. QED
        BY <4>1, AbortedSound DEF IInv
    <3>9. QED
      BY <1>1, <3>4, <3>5, <3>6, <3>7, <3>8 DEF IInv, Evolves
  <2>2. CASE DrainAndDispose
    <3>1. \A u \in TaskIds : Sound(task[u])
      BY DEF IInv
    <3>2. \A u \in TaskIds : task'[u] = IF u \in stored /\ ~IsTerminal(task[u])
                                      THEN Aborted(task[u]) ELSE task[u]
      BY <2>2 DEF DrainAndDispose
    <3>3. \A u \in TaskIds : task'[u].status = task[u].status
      BY <3>1, <3>2, AbortedSound
    <3>4. \A u \in stored : Warned(task'[u])
      BY <3>1, <3>2, AbortedSound DEF Warned, IInv
    <3>5. stored' = stored
      BY <2>2 DEF DrainAndDispose
    <3>6. QED
      BY <1>1, <3>3, <3>4, <3>5 DEF IInv, Evolves
  <2>3. ASSUME stored' = stored, disposed' = disposed,
               \A u \in TaskIds : task'[u].status # "unborn" => task[u].status # "unborn"
        PROVE  /\ stored' \subseteq TaskIds
               /\ \A t \in stored' : task'[t].status # "unborn"
               /\ \A t \in TaskIds :
                    task'[t].status # "unborn" /\ (t \notin stored' \/ disposed')
                      => Warned(task'[t])
    BY <1>1, <2>3 DEF IInv, Evolves
  <2>4. CASE HandlerStep
    <3>1. stored' = stored /\ disposed' = disposed
      BY <2>4 DEF HandlerStep, RequireInput, RequireMalformed, SetStatusMessage, RunEnds, Settle
    <3>2. PICK t \in TaskIds : /\ task[t].run # "idle"
                              /\ \A u \in TaskIds \ {t} : task'[u] = task[u]
      BY <2>4, TaskStoreAssumption
      DEF HandlerStep, RequireInput, RequireMalformed, SetStatusMessage, RunEnds, Settle, IInv
    <3>3. task[t].status # "unborn"
      BY <3>2 DEF IInv, Sound
    <3>4. QED
      BY <3>1, <3>2, <3>3, <2>3
  <2>5. CASE ClientStep
    <3>1. stored' = stored /\ disposed' = disposed
      BY <2>5 DEF ClientStep, Update, Cancel
    <3>2. \A u \in TaskIds : task'[u] = task[u] \/ u \in stored
      BY <2>5 DEF ClientStep, Update, Cancel, Owns, IInv
    <3>3. QED
      BY <3>1, <3>2, <2>3 DEF IInv
  <2>6. CASE Sweep
    <3>1. \A u \in TaskIds : task'[u] = task[u] \/ u \in stored
      BY <2>6 DEF Sweep
    <3>2. stored' = stored /\ disposed' = disposed
      BY <2>6 DEF Sweep
    <3>3. QED
      BY <3>1, <3>2, <2>3 DEF IInv
  <2>7. CASE Tick \/ UNCHANGED vars
    BY <2>7, <2>3 DEF Tick, vars
  <2>8. QED
    BY <2>1, <2>2, <2>4, <2>5, <2>6, <2>7 DEF Next
<1>8. QED
  BY <1>1, <1>2, <1>4, <1>5, <1>6, <1>7 DEF IInv

-----------------------------------------------------------------------------
(* The theorems.                                                           *)

\* The inductive invariant holds in every reachable state.
THEOREM Invariance == Spec => []IInv
BY InitIInv, NextIInv, PTL DEF Spec

\* Type correctness.
THEOREM TypeCorrectness == Spec => []TypeOK
<1>1. IInv => TypeOK
  BY DEF IInv, TypeOK
<1>2. QED
  BY <1>1, Invariance, PTL

\* Asking, answering, cancelling and expiring, however they interleave, keep what
\* the client sees, what the handler waits on and what was answered consistent.
THEOREM InputsConsistent ==
  Spec => [](RequestsArePending /\ InputsSound)
<1>1. IInv => RequestsArePending /\ InputsSound
  BY DEF IInv, Sound, RequestsArePending, InputsSound, AnsweredNeverReasked, NoHiddenWait
<1>2. QED
  BY <1>1, Invariance, PTL

\* Until the store is disposed, every status its tasks take was announced; after
\* that it has no task that was not told to stop, evicted ones included.
THEOREM Accounting == Spec => []TasksAccounted
<1>1. IInv => EveryChangeAnnounced
  BY DEF IInv
<1>2. IInv => DisposedIsDrained
  BY DEF IInv, DisposedIsDrained, Warned
<1>3. QED
  BY <1>1, <1>2, Invariance, PTL DEF TasksAccounted

\* What is shown of an ended task never changes, whatever races with its end.
THEOREM FirstEnd == Spec => FirstEndWins
<1>1. IInv /\ [Next]_vars =>
        [\A t \in TaskIds : IsTerminal(task[t]) => View(task'[t]) = View(task[t])]_vars
  BY StepEvolves DEF Evolves
<1>2. QED
  BY <1>1, Invariance, PTL DEF Spec, FirstEndWins

LEMMA SpawnCapacity ==
  ASSUME stored \subseteq TaskIds, NEW E, IsEviction(E), NEW t \in TaskIds,
         CapacityRespected
  PROVE  Cardinality((stored \ E) \cup {t}) <= MaxTasks
<1>1. IsFiniteSet(stored) /\ IsFiniteSet(E) /\ IsFiniteSet(stored \ E)
  BY FS_Subset, TaskStoreAssumption DEF IsEviction
<1>2. /\ Cardinality(stored) \in Nat
      /\ Cardinality(E) \in Nat
      /\ Cardinality(stored \ E) \in Nat
  BY <1>1, FS_CardinalityType
<1>3. Cardinality(stored \ E) = Cardinality(stored) - Cardinality(E)
  <2>1. stored \cap E = E
    BY DEF IsEviction
  <2>2. QED
    BY <1>1, <2>1, FS_Difference
<1>4. \/ Cardinality((stored \ E) \cup {t}) = Cardinality(stored \ E)
      \/ Cardinality((stored \ E) \cup {t}) = Cardinality(stored \ E) + 1
  BY Zenon, <1>1, FS_AddElement
<1>5. Cardinality(stored \ E) + 1 <= MaxTasks
  <2>1. CASE Cardinality(stored) < MaxTasks
    <3>1. stored \ E = stored
      BY <2>1 DEF IsEviction
    <3>2. QED
      BY <1>2, <2>1, <3>1, TaskStoreAssumption
  <2>2. CASE ~(Cardinality(stored) < MaxTasks)
    BY <1>2, <1>3, <2>2, TaskStoreAssumption DEF IsEviction
  <2>3. QED
    BY <2>1, <2>2
<1>6. Cardinality((stored \ E) \cup {t}) \in Nat
  <2>1. IsFiniteSet((stored \ E) \cup {t})
    BY <1>1, FS_AddElement
  <2>2. QED
    BY <2>1, FS_CardinalityType
<1>7. QED
  BY <1>2, <1>4, <1>5, <1>6, TaskStoreAssumption

\* The memory cap holds whatever mix of ended and live tasks fills the store.
THEOREM Capacity == Spec => []CapacityRespected
<1>1. Init => CapacityRespected
  BY FS_EmptySet, TaskStoreAssumption DEF Init, CapacityRespected
<1>2. IInv /\ CapacityRespected /\ [Next]_vars => CapacityRespected'
  <2> SUFFICES ASSUME IInv, CapacityRespected, [Next]_vars
               PROVE  Cardinality(stored') <= MaxTasks
    BY DEF CapacityRespected
  <2>1. CASE SpawnSome
    <3>1. PICK t \in TaskIds, E \in SUBSET stored :
            IsEviction(E) /\ stored' = (stored \ E) \cup {t}
      BY <2>1 DEF SpawnSome, Spawn
    <3>2. QED
      BY <3>1, SpawnCapacity DEF IInv
  <2>2. CASE ~SpawnSome
    <3>1. stored' = stored
      BY <2>2 DEF Next, HandlerStep, ClientStep, Tick, vars, RequireInput,
           RequireMalformed, SetStatusMessage, RunEnds, Settle, Update, Cancel, Sweep,
           DrainAndDispose
    <3>2. QED
      BY <3>1 DEF CapacityRespected
  <2>3. QED
    BY <2>1, <2>2
<1>3. QED
  BY <1>1, <1>2, Invariance, PTL DEF Spec

\* A live task leaves the store only when no ended one is left to evict, is no
\* younger than any that stays, and has been told to stop.
THEOREM EvictionOrder == Spec => LiveEvictedLast
<1>1. IInv /\ [Next]_vars =>
        [\A t \in stored \ stored' :
           ~IsTerminal(task[t]) =>
             /\ task'[t].aborted
             /\ \A u \in stored \cap stored' :
                  /\ ~IsTerminal(task[u])
                  /\ task[u].createdAt >= task[t].createdAt]_vars
  <2> SUFFICES ASSUME IInv, Next, NEW t \in stored \ stored', ~IsTerminal(task[t])
               PROVE  /\ task'[t].aborted
                      /\ \A u \in stored \cap stored' :
                           /\ ~IsTerminal(task[u])
                           /\ task[u].createdAt >= task[t].createdAt
    BY DEF vars
  <2>1. SpawnSome
    BY DEF Next, HandlerStep, ClientStep, Tick, RequireInput, RequireMalformed,
           SetStatusMessage, RunEnds, Settle, Update, Cancel, Sweep, DrainAndDispose
  <2>2. PICK n \in TaskIds, E \in SUBSET stored :
          /\ n \in Unborn
          /\ IsEviction(E)
          /\ \A u \in TaskIds \ {n} : task'[u] = AfterEviction(E)[u]
          /\ stored' = (stored \ E) \cup {n}
    BY <2>1 DEF SpawnSome, Spawn, AfterEviction
  <2>3. t \in E /\ t # n
    BY <2>2 DEF Unborn, IInv
  <2>4. task'[t] = Aborted(task[t])
    BY <2>2, <2>3 DEF AfterEviction, IInv
  <2>5. task'[t].aborted
    BY <2>3, <2>4, AbortedSound DEF IInv
  <2>6. ASSUME NEW u \in stored \cap stored'
        PROVE  ~IsTerminal(task[u]) /\ task[u].createdAt >= task[t].createdAt
    <3>1. u \in stored \ E
      BY <2>2, <2>6 DEF Unborn, IInv
    <3>2. EvictedBefore(t, u)
      BY <2>2, <2>3, <3>1 DEF IsEviction
    <3>3. task[t].createdAt \in Nat /\ task[u].createdAt \in Nat
      BY <3>1 DEF IInv, Task
    <3>4. QED
      BY <3>2, <3>3 DEF EvictedBefore
  <2>7. QED
    BY <2>5, <2>6
<1>2. QED
  BY <1>1, Invariance, PTL DEF Spec, LiveEvictedLast

\* An end stands, and a live task is let go of only last.
THEOREM Ends == Spec => EndsStand
BY FirstEnd, EvictionOrder DEF EndsStand
-----------------------------------------------------------------------------
(* What a client that holds a task id may rely on: every step of the store *)
(* is a step of TaskLifecycle.                                             *)

Phases == [t \in TaskIds |-> Phase(t)]

\* Store and lifecycle count alike.
LEMMA SameCount == \A S : Lifecycle!Cardinality(S) = Cardinality(S)
BY DEF Lifecycle!Cardinality, Cardinality

\* The phase of a task is read off its status and its place in the store, and the
\* tasks the lifecycle calls kept are the stored ones.
LEMMA PhaseOfTask ==
  ASSUME IInv
  PROVE  /\ \A t \in TaskIds : task[t].status \in Status /\ Phases[t] = Phase(t)
         /\ \A t \in TaskIds : /\ Phase(t) = "absent" <=> task[t].status = "unborn"
                               /\ Phase(t) = "gone" <=> task[t].status # "unborn" /\ t \notin stored
                               /\ Phase(t) = "ended" <=> t \in stored /\ IsTerminal(task[t])
                               /\ Phase(t) \in Lifecycle!Live <=> t \in stored /\ ~IsTerminal(task[t])
                               /\ Phase(t) \in Lifecycle!Live => Phase(t) = task[t].status
                               /\ Phase(t) \in Lifecycle!Live \cup {"absent", "ended", "gone"}
         /\ Lifecycle!Kept = stored
<1>1. \A t \in TaskIds : task[t].status \in Status /\ (t \in stored => task[t].status # "unborn")
  BY DEF IInv, Sound, Task
<1>2. ASSUME NEW t \in TaskIds
      PROVE  /\ Phase(t) = "absent" <=> task[t].status = "unborn"
             /\ Phase(t) = "gone" <=> task[t].status # "unborn" /\ t \notin stored
             /\ Phase(t) = "ended" <=> t \in stored /\ IsTerminal(task[t])
             /\ Phase(t) \in Lifecycle!Live <=> t \in stored /\ ~IsTerminal(task[t])
             /\ Phase(t) \in Lifecycle!Live => Phase(t) = task[t].status
             /\ Phase(t) \in Lifecycle!Live \cup {"absent", "ended", "gone"}
  BY <1>1 DEF Phase, Lifecycle!Live
<1>3. \A t \in TaskIds : Phases[t] = Phase(t)
  BY DEF Phases
<1>4. Lifecycle!Kept = {t \in TaskIds : Phase(t) \in Lifecycle!Live \cup {"ended"}}
  BY DEF Lifecycle!Kept
<1>5. Lifecycle!Kept = stored
  <2>1. stored \subseteq TaskIds
    BY DEF IInv
  <2>2. QED
    BY <1>2, <1>4, <2>1
<1>6. QED
  BY <1>1, <1>2, <1>3, <1>5

\* A store in which no status changes and nobody comes or goes shows the same phases.
LEMMA SamePhases ==
  ASSUME IInv, stored' = stored, \A t \in TaskIds : task'[t].status = task[t].status
  PROVE  Phases' = Phases
BY DEF Phases, Phase

\* A step that lets nobody in is progress of live tasks only.
LEMMA OthersProgress ==
  ASSUME IInv, IInv', stored' = stored, disposed' = disposed,
         \A t \in TaskIds : Evolves(task[t], task'[t]),
         \A t \in TaskIds : task[t].status = "unborn" => task'[t].status = "unborn"
  PROVE  Lifecycle!Progress
<1>1. \A t \in TaskIds : IsTerminal(task[t]) => task'[t].status = task[t].status
  BY DEF Evolves, View
<1>2. \A t \in TaskIds : task'[t].status = "unborn" <=> task[t].status = "unborn"
  BY DEF Evolves
<1>3. \A t \in TaskIds : /\ Phase(t)' \in Lifecycle!Live \cup {"absent", "ended", "gone"}
                         /\ Phase(t)' # Phase(t) => /\ Phase(t) \in Lifecycle!Live
                                                    /\ Phase(t)' \in Lifecycle!Live \cup {"ended"}
  <2> SUFFICES ASSUME NEW t \in TaskIds
               PROVE  /\ Phase(t)' \in Lifecycle!Live \cup {"absent", "ended", "gone"}
                      /\ Phase(t)' # Phase(t) => /\ Phase(t) \in Lifecycle!Live
                                                 /\ Phase(t)' \in Lifecycle!Live \cup {"ended"}
    OBVIOUS
  <2>1. task[t].status \in Status /\ task'[t].status \in Status
    BY DEF IInv, Sound, Task
  <2>2. QED
    BY <1>1, <1>2, <2>1 DEF Phase, Lifecycle!Live
<1>4. Phases' \in [TaskIds -> Lifecycle!Live \cup {"absent", "ended", "gone"}]
  BY <1>3 DEF Phases
<1>5. QED
  BY <1>3, <1>4 DEF Lifecycle!Progress, Lifecycle!Live, Phases

\* A call of spawn() lets one task in, and others out as the lifecycle allows.
LEMMA SpawnEnters ==
  ASSUME IInv, IInv', NEW t \in TaskIds, NEW c \in Callers, NEW ttl \in Ttls \cup {NoTtl},
         NEW prefix \in {"quiet", "malformed"} \cup Keys, Spawn(t, c, ttl, prefix)
  PROVE  \E p \in Lifecycle!Live \cup {"ended"}, out \in SUBSET Lifecycle!Kept : Lifecycle!Enter(t, p, out)
<1>1. PICK E \in SUBSET stored :
        /\ IsEviction(E) /\ stored' = (stored \ E) \cup {t} /\ disposed' = disposed /\ ~disposed
        /\ \A u \in TaskIds \ {t} : task'[u] = AfterEviction(E)[u]
        /\ task[t].status = "unborn"
  BY DEF Spawn, Unborn, AfterEviction
<1>2. \A u \in TaskIds \ {t} : task'[u].status = task[u].status
  <2>1. \A u \in TaskIds : Sound(task[u])
    BY DEF IInv
  <2>2. \A u \in TaskIds \ {t} : task'[u] \in {task[u], Aborted(task[u])}
    BY <1>1 DEF AfterEviction
  <2>3. QED
    BY <2>1, <2>2, AbortedSound
<1>3. t \notin stored /\ stored \subseteq TaskIds
  BY <1>1 DEF IInv
<1>4. Phase(t) = "absent" /\ Phase(t)' \in Lifecycle!Live \cup {"ended"}
  <2>1. t \in stored' /\ task'[t].status # "unborn" /\ task'[t].status \in Status
    BY <1>1 DEF IInv, Sound, Task
  <2>2. QED
    BY <1>1, <2>1 DEF Phase, Lifecycle!Live
<1>5. ASSUME NEW u \in TaskIds \ {t}
      PROVE  Phase(u)' = IF u \in E THEN "gone" ELSE Phase(u)
  <2>1. u \in stored' <=> u \in stored \ E
    BY <1>1
  <2>2. u \in stored => task[u].status # "unborn"
    BY DEF IInv
  <2>3. QED
    BY <1>2, <2>1, <2>2 DEF Phase
<1>6. Phases' = [u \in TaskIds |-> IF u = t THEN Phase(t)' ELSE IF u \in E THEN "gone" ELSE Phases[u]]
  BY <1>5 DEF Phases
<1>7. (\E u \in E : Phases[u] \in Lifecycle!Live) => \A v \in stored \ E : Phases[v] # "ended"
  <2> SUFFICES ASSUME NEW u \in E, Phases[u] \in Lifecycle!Live, NEW v \in stored \ E
               PROVE  Phases[v] # "ended"
    OBVIOUS
  <2>1. ~IsTerminal(task[u])
    BY <1>3, PhaseOfTask
  <2>2. EvictedBefore(u, v)
    BY <1>1 DEF IsEviction
  <2>3. ~IsTerminal(task[v])
    BY <2>1, <2>2 DEF EvictedBefore
  <2>4. QED
    BY <1>3, <2>3, PhaseOfTask
<1>8. (E # {} => Cardinality(stored \ E) + 1 = MaxTasks) /\ Cardinality(stored \ E) + 1 <= MaxTasks
  <2>1. IsFiniteSet(stored) /\ IsFiniteSet(E)
    BY <1>3, FS_Subset, TaskStoreAssumption
  <2>2. Cardinality(stored) \in Nat /\ Cardinality(E) \in Nat
    BY <2>1, FS_CardinalityType
  <2>3. Cardinality(stored \ E) = Cardinality(stored) - Cardinality(E)
    <3>1. stored \cap E = E
      OBVIOUS
    <3>2. QED
      BY <2>1, <3>1, FS_Difference
  <2>4. CASE Cardinality(stored) < MaxTasks
    <3>1. E = {} /\ stored \ E = stored
      BY <1>1, <2>4 DEF IsEviction
    <3>2. QED
      BY <2>2, <2>4, <3>1, TaskStoreAssumption
  <2>5. CASE ~(Cardinality(stored) < MaxTasks)
    BY <1>1, <2>2, <2>3, <2>5, TaskStoreAssumption DEF IsEviction
  <2>6. QED
    BY <2>4, <2>5
<1>9. Lifecycle!Enter(t, Phase(t)', E)
  <2>1. Phases[t] = "absent"
    BY <1>4 DEF Phases
  <2>2. Lifecycle!Kept = stored
    BY PhaseOfTask
  <2>3. E # {} => Lifecycle!Cardinality(Lifecycle!Kept \ E) + 1 = MaxTasks
    BY <1>8, <2>2, SameCount
  <2>4. Lifecycle!Cardinality(Lifecycle!Kept \ E) + 1 <= MaxTasks
    BY <1>8, <2>2, SameCount
  <2>5. (\E u \in E : Phases[u] \in Lifecycle!Live) => \A v \in Lifecycle!Kept \ E : Phases[v] # "ended"
    BY <1>7, <2>2
  <2>6. QED
    BY <1>1, <1>6, <2>1, <2>3, <2>4, <2>5 DEF Lifecycle!Enter, Phases
<1>10. E \in SUBSET Lifecycle!Kept
  BY PhaseOfTask
<1>11. QED
  BY <1>4, <1>9, <1>10

\* Before anything is spawned, every task is absent.
LEMMA LifecycleInit == Init => Lifecycle!Init
BY DEF Init, Lifecycle!Init, Phase

\* Every step of the store is a step of the lifecycle, or one it does not see.
LEMMA LifecycleStep == IInv /\ IInv' /\ [Next]_vars => [Lifecycle!Next]_(Lifecycle!lvars)
<1> SUFFICES ASSUME IInv, IInv', [Next]_vars PROVE [Lifecycle!Next]_(Lifecycle!lvars)
  OBVIOUS
<1>0. \A t \in TaskIds : Evolves(task[t], task'[t])
  BY StepEvolves
<1>1. CASE SpawnSome
  <2>1. PICK t \in TaskIds, c \in Callers, ttl \in Ttls \cup {NoTtl},
             prefix \in {"quiet", "malformed"} \cup Keys : Spawn(t, c, ttl, prefix)
    BY <1>1 DEF SpawnSome
  <2>2. QED
    BY <2>1, SpawnEnters DEF Lifecycle!Next
<1>2. ASSUME stored' = stored, disposed' = disposed,
             \A t \in TaskIds : task[t].status = "unborn" => task'[t].status = "unborn"
      PROVE  Lifecycle!Next
  BY <1>0, <1>2, OthersProgress DEF Lifecycle!Next
<1>3. CASE HandlerStep
  <2>1. stored' = stored /\ disposed' = disposed
    BY <1>3 DEF HandlerStep, RequireInput, RequireMalformed, SetStatusMessage, RunEnds, Settle
  <2>2. PICK t \in TaskIds : /\ task[t].run # "idle"
                             /\ \A u \in TaskIds \ {t} : task'[u] = task[u]
    BY <1>3, TaskStoreAssumption
    DEF HandlerStep, RequireInput, RequireMalformed, SetStatusMessage, RunEnds, Settle, IInv
  <2>3. task[t].status # "unborn"
    BY <2>2 DEF IInv, Sound
  <2>4. QED
    BY <1>2, <2>1, <2>2, <2>3
<1>4. CASE ClientStep
  <2>1. stored' = stored /\ disposed' = disposed
    BY <1>4 DEF ClientStep, Update, Cancel
  <2>2. \A u \in TaskIds : task'[u] = task[u] \/ u \in stored
    BY <1>4 DEF ClientStep, Update, Cancel, Owns, IInv
  <2>3. QED
    BY <1>2, <2>1, <2>2 DEF IInv
<1>5. CASE Sweep
  <2>1. stored' = stored /\ disposed' = disposed /\ \A u \in TaskIds : task'[u] = task[u] \/ u \in stored
    BY <1>5 DEF Sweep
  <2>2. QED
    BY <1>2, <2>1 DEF IInv
<1>6. CASE DrainAndDispose
  <2>1. stored' = stored /\ disposed' = TRUE /\ ~disposed
    BY <1>6 DEF DrainAndDispose
  <2>2. \A u \in TaskIds : task'[u].status = task[u].status
    <3>1. \A u \in TaskIds : task'[u] \in {task[u], Aborted(task[u])} /\ Sound(task[u])
      BY <1>6 DEF DrainAndDispose, IInv
    <3>2. QED
      BY <3>1, AbortedSound
  <2>3. Phases' = Phases
    BY <2>1, <2>2, SamePhases
  <2>4. QED
    BY <2>1, <2>3 DEF Lifecycle!Next, Lifecycle!Close, Phases
<1>7. CASE Tick \/ UNCHANGED vars
  <2>1. stored' = stored /\ disposed' = disposed /\ task' = task
    BY <1>7 DEF Tick, vars
  <2>2. QED
    BY <2>1 DEF Lifecycle!lvars, Phase
<1>8. QED
  BY <1>1, <1>3, <1>4, <1>5, <1>6, <1>7 DEF Next

\* The store implements the lifecycle its clients are promised: a task is found from
\* its spawn on, ends once, and leaves only to make room, ended tasks first.
THEOREM Refinement == Spec => ImplementsLifecycle
<1>1. IInv /\ [Next]_vars => [Lifecycle!Next]_(Lifecycle!lvars)
  BY LifecycleStep, NextIInv
<1>2. QED
  BY <1>1, LifecycleInit, Invariance, PTL DEF Spec, ImplementsLifecycle, Lifecycle!Spec
=============================================================================
