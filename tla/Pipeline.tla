------------------------------ MODULE Pipeline ------------------------------
(***************************************************************************)
(* A tools/call from its arrival to its handler: the check of its headers, *)
(* the tool definition it is bound to, and the middlewares composed by     *)
(* createMiddlewareRunner, while tools are registered and removed live     *)
(* (packages/platform/src/middleware/runner.ts, executeToolCall,           *)
(* buildPipeline and commitToolRegistration of mcp-app.ts).                *)
(*                                                                         *)
(* One tool name is modelled; each registration of it is a version.  A     *)
(* registration that does not validate changes nothing, and is left out.   *)
(***************************************************************************)
EXTENDS Integers, Sequences, FiniteSets

CONSTANTS
  Calls,
  Middlewares,  \* the kinds of the pipeline's middlewares, in order
  MaxNext,      \* how often a custom middleware may call next()
  MaxVersions   \* bound of the model: registrations

\* "custom": the application's own.  "bound": scope check and validation, which
\* ask the call's tool definition.  "plain": the other built-in ones.
ASSUME PipelineAssumption ==
  /\ Middlewares \in Seq({"custom", "bound", "plain"}) /\ Middlewares # <<>>
  /\ {MaxNext, MaxVersions} \subseteq Nat \ {0}

N == Len(Middlewares)
Stages == 1 .. N
Handler == N + 1

Versions == 0 .. MaxVersions   \* 0: no such tool

VARIABLES
  current,  \* the registered version
  latest,   \* the last version registered so far
  headers,  \* history: the version whose header rules each call was checked by
  bound,    \* BOUND_TOOL of each call
  asked,    \* history: the version each stage of each call went by
  index,    \* the runner's index
  handlerCalled,
  entered,  \* history: how often each stage of each call was entered, the handler last
  place,    \* where each stage of each call is
  waits,    \* the stages a middleware's calls of next() gave it, Refused when one threw
  nexts     \* how often each middleware has called next()

runnerVars == <<index, handlerCalled, entered>>
pipelineVars == <<current, latest, headers, bound, asked, runnerVars, place, waits, nexts>>

Refused == -1

PipelineInit ==
  /\ current = 0 /\ latest = 0
  /\ headers = [c \in Calls |-> -1]
  /\ bound = [c \in Calls |-> -1]
  /\ asked = [c \in Calls |-> [i \in 1 .. Handler |-> -1]]
  /\ index = [c \in Calls |-> 0]
  /\ handlerCalled = [c \in Calls |-> FALSE]
  /\ entered = [c \in Calls |-> [i \in 1 .. Handler |-> 0]]
  /\ place = [c \in Calls |-> [i \in 1 .. Handler |-> "idle"]]
  /\ waits = [c \in Calls |-> [i \in Stages |-> {}]]
  /\ nexts = [c \in Calls |-> [i \in Stages |-> 0]]

\* registerToolLive(), for a new tool or in place of the one there is.
Register ==
  /\ latest < MaxVersions
  /\ latest' = latest + 1
  /\ current' = latest + 1
  /\ UNCHANGED <<headers, bound, asked, runnerVars, place, waits, nexts>>

Unregister ==
  /\ current # 0
  /\ current' = 0
  /\ UNCHANGED <<latest, headers, bound, asked, runnerVars, place, waits, nexts>>

\* The POST handler compares the call's headers with the registered definition.
Arrive(c) ==
  /\ headers[c] = -1
  /\ headers' = [headers EXCEPT ![c] = current]
  /\ UNCHANGED <<current, latest, bound, asked, runnerVars, place, waits, nexts>>

Kind(i) == IF i = Handler THEN "handler" ELSE Middlewares[i]

\* Stage i of the call is entered, bound to a definition.  The handler of no tool
\* throws at once.
EnterStage(c, i, definition) ==
  /\ entered' = [entered EXCEPT ![c][i] = @ + 1]
  /\ place' = [place EXCEPT ![c][i] = IF i = Handler /\ definition = 0 THEN "threw" ELSE "running"]
  /\ asked' = [asked EXCEPT ![c][i] = IF Kind(i) \in {"bound", "handler"} THEN definition ELSE @]

\* next() throws once the handler was called.
Open(c) == index[c] < N \/ ~handlerCalled[c]

\* Faulty: handlerCalled is not asked.
NextUnguarded(c) ==
  /\ EnterStage(c, index[c] + 1, bound[c])
  /\ index' = [index EXCEPT ![c] = IF @ < N THEN @ + 1 ELSE @]
  /\ handlerCalled' = [handlerCalled EXCEPT ![c] = @ \/ index[c] = N]

\* next(): the next middleware, then the handler, then an error.
NextStage(c) ==
  IF Open(c)
  THEN /\ EnterStage(c, index[c] + 1, bound[c])
       /\ index' = [index EXCEPT ![c] = IF @ < N THEN @ + 1 ELSE @]
       /\ handlerCalled' = [handlerCalled EXCEPT ![c] = @ \/ index[c] = N]
  ELSE UNCHANGED <<place, asked, runnerVars>>

\* Stage i calls next() and gets the promise of the stage it enters, or the error.
CallNext(c, i) ==
  /\ NextStage(c)
  /\ waits' = [waits EXCEPT ![c][i] = @ \cup {IF Open(c) THEN index[c] + 1 ELSE Refused}]
  /\ nexts' = [nexts EXCEPT ![c][i] = @ + 1]

\* Digest, key and guard are awaited; then the call is bound and the runner started.
Bind(c) ==
  /\ headers[c] # -1 /\ bound[c] = -1
  /\ bound' = [bound EXCEPT ![c] = current]
  /\ EnterStage(c, 1, current)
  /\ index' = [index EXCEPT ![c] = 1]
  /\ UNCHANGED <<current, latest, headers, handlerCalled, waits, nexts>>

Running(c, i) == place[c][i] = "running"

Ended(c, i) == place[c][i] \in {"returned", "threw"}

Threw(c, i) == \E j \in waits[c][i] : j = Refused \/ place[c][j] = "threw"

\* A middleware awaits what it called: all of it has settled.
Free(c, i) == \A j \in waits[c][i] : j # Refused => Ended(c, j)

\* A custom middleware calls next(), perhaps once more, perhaps before the first settled.
CustomNext(c, i) ==
  /\ Kind(i) = "custom" /\ Running(c, i)
  /\ nexts[c][i] < MaxNext
  /\ CallNext(c, i)
  /\ UNCHANGED <<current, latest, headers, bound>>

\* It ends as it likes: it may answer itself, or swallow an error.
CustomEnd(c, i) ==
  /\ Kind(i) = "custom" /\ Running(c, i) /\ Free(c, i)
  /\ \E how \in {"returned", "threw"} : place' = [place EXCEPT ![c][i] = how]
  /\ UNCHANGED <<current, latest, headers, bound, asked, runnerVars, waits, nexts>>

\* A built-in middleware rejects the call,
BuiltinReject(c, i) ==
  /\ Kind(i) \in {"bound", "plain"} /\ Running(c, i) /\ nexts[c][i] = 0
  /\ place' = [place EXCEPT ![c][i] = "threw"]
  /\ UNCHANGED <<current, latest, headers, bound, asked, runnerVars, waits, nexts>>

\* or returns what next() does.
BuiltinNext(c, i) ==
  /\ Kind(i) \in {"bound", "plain"} /\ Running(c, i) /\ nexts[c][i] = 0
  /\ CallNext(c, i)
  /\ UNCHANGED <<current, latest, headers, bound>>

BuiltinEnd(c, i) ==
  /\ Kind(i) \in {"bound", "plain"} /\ Running(c, i)
  /\ nexts[c][i] > 0 /\ Free(c, i)
  /\ place' = [place EXCEPT ![c][i] = IF Threw(c, i) THEN "threw" ELSE "returned"]
  /\ UNCHANGED <<current, latest, headers, bound, asked, runnerVars, waits, nexts>>

HandlerEnd(c) ==
  /\ Running(c, Handler)
  /\ \E how \in {"returned", "threw"} : place' = [place EXCEPT ![c][Handler] = how]
  /\ UNCHANGED <<current, latest, headers, bound, asked, runnerVars, waits, nexts>>

Proceed(c) ==
  \/ HandlerEnd(c)
  \/ \E i \in Stages : \/ CustomNext(c, i) \/ CustomEnd(c, i)
                       \/ BuiltinReject(c, i) \/ BuiltinNext(c, i) \/ BuiltinEnd(c, i)

PipelineNext ==
  \/ Register \/ Unregister
  \/ \E c \in Calls : Arrive(c) \/ Bind(c) \/ Proceed(c)

PipelineSpec == PipelineInit /\ [][PipelineNext]_pipelineVars

-----------------------------------------------------------------------------
(* Properties *)

\* However often middlewares call next(), one after the other or at once, the handler
\* runs once at most (handlerCalled in createMiddlewareRunner),
HandlerOnce == \A c \in Calls : entered[c][Handler] <= 1

\* and no stage is entered twice, or before those in front of it.
InOrder ==
  \A c \in Calls, i \in 1 .. Handler :
    /\ entered[c][i] <= 1
    /\ entered[c][i] = 1 => \A j \in 1 .. i : entered[c][j] = 1

\* Every stage that runs has been called by one stage in front of it, which is still
\* there and waits for it.
InnerFirst ==
  \A c \in Calls, i \in 2 .. Handler :
    /\ Running(c, i) => \E j \in Stages : j < i /\ Running(c, j) /\ i \in waits[c][j]
    /\ \A j, k \in Stages : i \in waits[c][j] /\ i \in waits[c][k] => j = k

\* Scope check, validation and handler of a call go by one definition, whatever is
\* registered meanwhile (BOUND_TOOL in executeToolCall).
OneDefinition ==
  \A c \in Calls, i, j \in 1 .. Handler :
    asked[c][i] # -1 /\ asked[c][j] # -1 => asked[c][i] = asked[c][j]

\* All middlewares are around the handler.
Wrapped(c) ==
  Running(c, Handler) => \A i \in Stages : Running(c, i) /\ waits[c][i] = {i + 1}

\* Whatever middlewares await and whatever is registered meanwhile: the handler of a
\* call runs once at most, stages are entered in their order, once each, and end before
\* the stage that called them; all go by one definition; and as long as middlewares call
\* next() once each, all of them are around the handler (createMiddlewareRunner,
\* executeToolCall).
RunsInOnion ==
  /\ HandlerOnce /\ InOrder /\ InnerFirst /\ OneDefinition
  /\ \A c \in Calls : (\A i \in Stages : nexts[c][i] <= 1) => Wrapped(c)

=============================================================================
