-------------------------------- MODULE Mrtr --------------------------------
(***************************************************************************)
(* Multi round-trip requests: a tool handler asks the client for input,    *)
(* the server seals a requestState token, and a retry of the call carries  *)
(* the answers and the token back                                          *)
(* (packages/platform/src/mrtr/retry-guard.ts, replay-store.ts,            *)
(* request-state.ts and their use by tools/call in mcp-app.ts).            *)
(*                                                                         *)
(* Several processes serve the same application.  Each has its memory      *)
(* replay store, or all share one that is injected and survives restarts.  *)
(* A request runs from await to await in one step; a token's nonce is its  *)
(* position in `issued`; nonces are not guessed and MACs not forged.       *)
(***************************************************************************)
EXTENDS Integers, Sequences, FiniteSets

CONSTANTS
  Requests, Processes,
  Principals,   \* the subjects of callers
  NoSubject,    \* that of a caller whose credential names none
  Calls,        \* method and parameters digest of a call
  Traffic,      \* bound of the model: what requests may carry
  Shared,       \* is mrtr.replayStore injected?
  Ttl,          \* defaultTtlSecs
  MaxEntries,   \* capacity of a memory store
  MaxTokens, MaxTime, Restarts   \* bounds of the model

\* What a request may carry as requestState, besides a token's position.
NoState == 0
Forged == -1

Nonces == 1 .. MaxTokens

ASSUME MrtrAssumption ==
  /\ Traffic \subseteq [principal : Principals \cup {NoSubject}, call : Calls,
                         answers : BOOLEAN, state : Nonces \cup {NoState, Forged}]
  /\ IsFiniteSet(Requests)
  /\ Shared \in BOOLEAN
  /\ "shared" \notin Processes
  /\ {Ttl, MaxEntries, MaxTokens} \subseteq Nat \ {0}
  /\ {MaxTime, Restarts} \subseteq Nat

VARIABLES
  signed,    \* is mrtr.signingKey configured?  Fixed at construction.
  now,       \* the wall clock, in seconds
  life,      \* how often each process was restarted
  memo,      \* each process's memoised key import
  issued,    \* the tokens sealed so far: what they bind and when they expire
  store,     \* the expiry of each reserved nonce of each store, 0 where there is none
  pc,        \* where each request is
  ask,       \* what each request carries, and who serves it
  admission, \* how the guard let the request into the handler
  out,       \* what the caller is told
  reserved   \* history: the requests for which a store reserved a nonce

vars == <<signed, now, life, memo, issued, store, pc, ask, admission, out, reserved>>

NoAsk == [proc |-> "none"]

Asks == {[proc |-> p, life |-> l, principal |-> m.principal, call |-> m.call,
          answers |-> m.answers, state |-> m.state] :
            p \in Processes, l \in 0 .. Restarts, m \in Traffic}

Tokens == [principal : Principals, call : Calls, exp : 1 .. (MaxTime + Ttl)]

Outcomes == {"none", "result", "input_required", "missing_state", "no_principal",
             "tampered", "wrong_principal", "expired", "wrong_params", "replayed",
             "store_unavailable", "key_unavailable", "lost"}

\* Faulty: the injected store is not used.
StoreOfProcess(r) == ask[r].proc

StoreOf(r) == IF Shared THEN "shared" ELSE ask[r].proc

Token(r) == issued[ask[r].state]

Init ==
  /\ signed \in BOOLEAN
  /\ Shared => signed
  /\ now = 0
  /\ life = [p \in Processes |-> 0]
  /\ memo = [p \in Processes |-> "none"]
  /\ issued = <<>>
  /\ store = [s \in Processes \cup {"shared"} |-> [n \in Nonces |-> 0]]
  /\ pc = [r \in Requests |-> "new"]
  /\ ask = [r \in Requests |-> NoAsk]
  /\ admission = [r \in Requests |-> "none"]
  /\ out = [r \in Requests |-> "none"]
  /\ reserved = {}

\* The request is answered.
Answer(r, answer) ==
  /\ pc' = [pc EXCEPT ![r] = "done"]
  /\ out' = [out EXCEPT ![r] = answer]

\* The request enters the middleware pipeline and the handler.
Admit(r, how) ==
  /\ pc' = [pc EXCEPT ![r] = "handling"]
  /\ admission' = [admission EXCEPT ![r] = how]

\* Waiting for the key starts its import, unless that runs or is done.
AwaitKey(r, p, place) ==
  /\ pc' = [pc EXCEPT ![r] = place]
  /\ memo' = [memo EXCEPT ![p] = IF @ = "none" THEN "importing" ELSE @]

\* A tools/call arrives.  Only one that carries answers or a state needs the key.
Receive(r, a) ==
  /\ pc[r] = "new"
  /\ a.life = life[a.proc]
  /\ a.state <= Len(issued)
  /\ ask' = [ask EXCEPT ![r] = a]
  /\ IF a.answers \/ a.state # NoState
     THEN AwaitKey(r, a.proc, "keying") /\ UNCHANGED admission
     ELSE Admit(r, "first") /\ UNCHANGED memo
  /\ UNCHANGED <<signed, now, life, issued, store, out, reserved>>

\* The import settles for all that wait for it.
KeyReady(p) ==
  /\ memo[p] = "importing"
  /\ memo' = [memo EXCEPT ![p] = "ready"]
  /\ UNCHANGED <<signed, now, life, issued, store, pc, ask, admission, out, reserved>>

WaitsForKey(r, p) == pc[r] \in {"keying", "sealing"} /\ ask[r].proc = p

\* Faulty: a failed import tells nobody.
KeyFailsSilently(p) ==
  /\ signed
  /\ memo[p] = "importing"
  /\ memo' = [memo EXCEPT ![p] = "none"]
  /\ UNCHANGED <<signed, now, life, issued, store, pc, ask, admission, out, reserved>>

\* A failed import is forgotten, so that the next request tries again.
KeyFails(p) ==
  /\ signed
  /\ memo[p] = "importing"
  /\ memo' = [memo EXCEPT ![p] = "none"]
  /\ pc' = [r \in Requests |-> IF WaitsForKey(r, p) THEN "done" ELSE pc[r]]
  /\ out' = [r \in Requests |-> IF WaitsForKey(r, p) THEN "key_unavailable" ELSE out[r]]
  /\ UNCHANGED <<signed, now, life, issued, store, ask, admission, reserved>>

\* guardMrtrRetry() up to the verification of a state.
Guard(r) ==
  /\ pc[r] = "keying"
  /\ memo[ask[r].proc] = "ready"
  /\ CASE ~signed ->
            /\ Admit(r, IF ask[r].state = NoState THEN "first" ELSE "unprotected")
            /\ UNCHANGED out
       [] signed /\ ask[r].state = NoState ->
            Answer(r, "missing_state") /\ UNCHANGED admission
       [] signed /\ ask[r].state # NoState /\ ask[r].principal = NoSubject ->
            Answer(r, "no_principal") /\ UNCHANGED admission
       [] signed /\ ask[r].state # NoState /\ ask[r].principal # NoSubject ->
            /\ pc' = [pc EXCEPT ![r] = "verifying"]
            /\ UNCHANGED <<admission, out>>
  /\ UNCHANGED <<signed, now, life, memo, issued, store, ask, reserved>>

\* Faulty: the parameters of the retry are not compared.
VerdictOnCaller(r) ==
  IF ask[r].state = Forged THEN "tampered"
  ELSE IF Token(r).principal # ask[r].principal THEN "wrong_principal"
  ELSE IF Token(r).exp <= now THEN "expired"
  ELSE "none"

\* What verifyRequestState() objects to first.
Verdict(r) ==
  IF ask[r].state = Forged THEN "tampered"
  ELSE IF Token(r).principal # ask[r].principal THEN "wrong_principal"
  ELSE IF Token(r).exp <= now THEN "expired"
  ELSE IF Token(r).call # ask[r].call THEN "wrong_params"
  ELSE "none"

Verify(r) ==
  /\ pc[r] = "verifying"
  /\ IF Verdict(r) = "none"
     THEN pc' = [pc EXCEPT ![r] = "verified"] /\ UNCHANGED out
     ELSE Answer(r, Verdict(r))
  /\ UNCHANGED <<signed, now, life, memo, issued, store, ask, admission, reserved>>

Held(entries) == {n \in Nonces : entries[n] # 0}

\* The reservations a store that is full keeps.
Purged(entries) == [n \in Nonces |-> IF entries[n] <= now THEN 0 ELSE entries[n]]

IsFull(entries) == ~Shared /\ Cardinality(Held(entries)) >= MaxEntries

\* What the store holds before it decides on room: the presented nonce's own
\* reservation does not count once expired, and the rest is purged when full.
Cleared(r) ==
  LET entries == [store[StoreOf(r)] EXCEPT ![ask[r].state] = 0]
  IN  IF IsFull(entries) THEN Purged(entries) ELSE entries

Expired(r) == Token(r).exp <= now

\* Does the store hold the nonce?  An injected one may hold it after its expiry.
Taken(r) ==
  IF Shared THEN store["shared"][ask[r].state] # 0 ELSE store[StoreOf(r)][ask[r].state] > now

\* Faulty: the store does not look at the expiry it is given.
SpentIfHeld(r) == Taken(r)

\* What a store has to refuse: a nonce that it holds; the memory store refuses a token
\* that has expired, too.
Spent(r) == Taken(r) \/ (~Shared /\ Expired(r))

\* consume() returns false, as an injected store may for a token that has expired.  The
\* memory store drops an expired reservation of the nonce.
ConsumeRefuses(r) ==
  /\ pc[r] = "verified"
  /\ Taken(r) \/ Expired(r)
  /\ Answer(r, "replayed")
  /\ store' = [store EXCEPT ![StoreOf(r)][ask[r].state] = IF Shared \/ @ > now THEN @ ELSE 0]
  /\ UNCHANGED <<signed, now, life, memo, issued, ask, admission, reserved>>

\* consume() reserves the nonce.
ConsumeReserves(r) ==
  /\ pc[r] = "verified"
  /\ ~Spent(r)
  /\ ~IsFull(Cleared(r))
  /\ store' = [store EXCEPT ![StoreOf(r)] = [Cleared(r) EXCEPT ![ask[r].state] = Token(r).exp]]
  /\ pc' = [pc EXCEPT ![r] = "reserved"]
  /\ reserved' = reserved \cup {r}
  /\ UNCHANGED <<signed, now, life, memo, issued, ask, admission, out>>

\* A full memory store throws.
ConsumeFails(r) ==
  /\ pc[r] = "verified"
  /\ ~Spent(r)
  /\ IsFull(Cleared(r))
  /\ store' = [store EXCEPT ![StoreOf(r)] = Cleared(r)]
  /\ Answer(r, "store_unavailable")
  /\ UNCHANGED <<signed, now, life, memo, issued, ask, admission, reserved>>

\* An injected store throws, before it has reserved the nonce or after.
SharedStoreFails(r) ==
  /\ Shared
  /\ pc[r] \in {"verified", "reserved"}
  /\ Answer(r, "store_unavailable")
  /\ UNCHANGED <<signed, now, life, memo, issued, store, ask, admission, reserved>>

\* The guard resumes with the reservation and lets the retry in.
AdmitRetry(r) ==
  /\ pc[r] = "reserved"
  /\ Admit(r, "verified")
  /\ UNCHANGED <<signed, now, life, memo, issued, store, ask, out, reserved>>

\* The pipeline or the handler answers or throws, or its request for input is
\* malformed or asks for what the client cannot do.
Finish(r) ==
  /\ pc[r] = "handling"
  /\ Answer(r, "result")
  /\ UNCHANGED <<signed, now, life, memo, issued, store, ask, admission, reserved>>

\* Bound of the model: no more tokens are asked for than there are nonces.
NonceLeft == Len(issued) + Cardinality({r \in Requests : pc[r] = "sealing"}) < MaxTokens

\* The handler asks for input.
AskInput(r) ==
  /\ pc[r] = "handling"
  /\ NonceLeft
  /\ UNCHANGED ask
  /\ IF ask[r].principal = NoSubject
     THEN Answer(r, "no_principal") /\ UNCHANGED memo
     ELSE AwaitKey(r, ask[r].proc, "sealing") /\ UNCHANGED out
  /\ UNCHANGED <<signed, now, life, issued, store, admission, reserved>>

\* The key is there: the token is sealed with a new nonce and sent.
Seal(r) ==
  /\ pc[r] = "sealing"
  /\ memo[ask[r].proc] = "ready"
  /\ issued' = IF ~signed THEN issued
               ELSE Append(issued, [principal |-> ask[r].principal, call |-> ask[r].call,
                                    exp |-> now + Ttl])
  /\ Answer(r, "input_required")
  /\ UNCHANGED <<signed, now, life, memo, store, ask, admission, reserved>>

\* An injected store removes a reservation some time after its expiry.
Forget(n) ==
  /\ Shared
  /\ store["shared"][n] # 0 /\ store["shared"][n] <= now
  /\ store' = [store EXCEPT !["shared"][n] = 0]
  /\ UNCHANGED <<signed, now, life, memo, issued, pc, ask, admission, out, reserved>>

Tick ==
  /\ now < MaxTime
  /\ now' = now + 1
  /\ UNCHANGED <<signed, life, memo, issued, store, pc, ask, admission, out, reserved>>

InFlight(r) == pc[r] \notin {"new", "done"}

\* A process dies with its requests and its memory, and starts anew.
Restart(p) ==
  /\ life[p] < Restarts
  /\ life' = [life EXCEPT ![p] = @ + 1]
  /\ memo' = [memo EXCEPT ![p] = "none"]
  /\ store' = [store EXCEPT ![p] = [n \in Nonces |-> 0]]
  /\ pc' = [r \in Requests |-> IF InFlight(r) /\ ask[r].proc = p THEN "done" ELSE pc[r]]
  /\ out' = [r \in Requests |-> IF InFlight(r) /\ ask[r].proc = p THEN "lost" ELSE out[r]]
  /\ UNCHANGED <<signed, now, issued, ask, admission, reserved>>

Serve(r) ==
  \/ Guard(r) \/ Verify(r)
  \/ ConsumeRefuses(r) \/ ConsumeReserves(r) \/ ConsumeFails(r) \/ SharedStoreFails(r)
  \/ AdmitRetry(r) \/ Finish(r) \/ AskInput(r) \/ Seal(r)

Next ==
  \/ \E r \in Requests : \/ \E a \in Asks : Receive(r, a)
                         \/ Serve(r)
  \/ \E p \in Processes : KeyReady(p) \/ KeyFails(p) \/ Restart(p)
  \/ \E n \in Nonces : Forget(n)
  \/ Tick

Spec == Init /\ [][Next]_vars

\* Continuations run, imports settle, stores answer and handlers end.
Fairness ==
  /\ \A r \in Requests : WF_vars(Serve(r))
  /\ \A p \in Processes : WF_vars(KeyReady(p) \/ KeyFails(p))

FairSpec == Spec /\ Fairness
-----------------------------------------------------------------------------
(* Properties *)

Places == {"new", "keying", "verifying", "verified", "reserved", "handling", "sealing", "done"}

\* Types, and the shape of the data: a process is named once and each request
\* presents nothing that was not issued.
TypeOK ==
  /\ signed \in BOOLEAN /\ (Shared => signed)
  /\ now \in 0 .. MaxTime
  /\ life \in [Processes -> 0 .. Restarts]
  /\ memo \in [Processes -> {"none", "importing", "ready"}]
  /\ issued \in Seq(Tokens) /\ Len(issued) <= MaxTokens
  /\ store \in [Processes \cup {"shared"} -> [Nonces -> 0 .. (MaxTime + Ttl)]]
  /\ pc \in [Requests -> Places]
  /\ ask \in [Requests -> Asks \cup {NoAsk}]
  /\ admission \in [Requests -> {"none", "first", "unprotected", "verified"}]
  /\ out \in [Requests -> Outcomes]
  /\ reserved \subseteq Requests

\* Do two requests consume from the same store, in one life of it?
SameStore(r, q) == Shared \/ (ask[r].proc = ask[q].proc /\ ask[r].life = ask[q].life)

\* A token admits at most one retry in the life of a memory store, however many
\* retries, expiries and purges come between; an injected store, which may forget a
\* reservation once it expired, admits no other before the token expires
\* (guardMrtrRetry, MemoryMrtrReplayStore.consume, MrtrReplayStore).
SingleUse ==
  \A r, q \in Requests :
    /\ admission[r] = "verified" /\ admission[q] = "verified"
    /\ ask[r].state = ask[q].state
    /\ SameStore(r, q)
    => r = q \/ (Shared /\ Expired(r))

\* Where there is a key, answers reach a handler only with a token sealed for
\* that caller and that call (the guard in tools/call, verifyRequestState).
AnswersVerified ==
  \A r \in Requests :
    signed /\ admission[r] # "none" /\ ask[r].answers
      => /\ admission[r] = "verified"
         /\ ask[r].state \in 1 .. Len(issued)
         /\ Token(r).principal = ask[r].principal
         /\ Token(r).call = ask[r].call

\* The store of the process that reserved a nonce still knows it as long as the
\* token lives, whatever the store had to purge (MemoryMrtrReplayStore.consume).
ReservationsKept ==
  \A r \in reserved :
    \/ store[StoreOf(r)][ask[r].state] = Token(r).exp
    \/ Expired(r)
    \/ ~Shared /\ ask[r].life < life[ask[r].proc]

\* A memory store turns a fresh token away only while it is full of
\* reservations that live (MemoryMrtrReplayStore.consume).
FullOnlyOfLive ==
  [][\A r \in Requests :
       out[r] # "store_unavailable" /\ out'[r] = "store_unavailable" /\ ~Shared
         => Cardinality({n \in Nonces : store[StoreOf(r)][n] > now}) >= MaxEntries]_vars

\* The requests that were verified and wait for the store, or for its answer.
Shown == {<<ask[r].state, r>> : r \in {q \in Requests : pc[q] \in {"verified", "reserved"}}}

\* Who used which token, as the client of one store sees it.
Used == {<<ask[r].state, r>> : r \in {q \in Requests : admission[q] = "verified"}}

Lapsed == {n \in 1 .. Len(issued) : issued[n].exp <= now}

Ledger == INSTANCE Tickets
  WITH Serials <- Nonces, Bearers <- Requests,
       sold <- 1 .. Len(issued), lapsed <- Lapsed, shown <- Shown, used <- Used

\* Processes that share a store: who gets in has shown the token before it expired, and
\* nobody gets in with it again until then (guardMrtrRetry, MrtrReplayStore).
ImplementsTickets == Ledger!Spec

\* Every request is answered or dies with its process: a failed import does not
\* leave anyone waiting (getMrtrKey), now or later.
Answered == \A r \in Requests : InFlight(r) ~> pc[r] = "done"

\* A token is spent once, and its store remembers that for as long as it could be
\* presented again (guardMrtrRetry and MemoryMrtrReplayStore.consume).
SpentOnce == SingleUse /\ ReservationsKept

\* Every request is answered, and one is turned away for want of room only by a
\* store that is full of live reservations (getMrtrKey, consume).
AnsweredFairly == Answered /\ FullOnlyOfLive
=============================================================================
