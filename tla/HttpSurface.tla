---------------------------- MODULE HttpSurface ----------------------------
(***************************************************************************)
(* One POST after the other, from its arrival to its answer: the gates it  *)
(* passes, the method it calls, and what it does to the tasks other        *)
(* callers own; and the same tool call over stdio, which has no gates      *)
(* (handleMcpPost and setupHandlers of packages/platform/src/mcp-app.ts).  *)
(*                                                                         *)
(* What a request turns out to be is chosen where the code finds out.      *)
(* The code between two awaits is one step: shutdown comes at an await.    *)
(* Headers are either right or not (HeaderRules says when), and the retry  *)
(* of a multi round-trip request is admitted or not (Mrtr says when).      *)
(***************************************************************************)
EXTENDS Integers, Sequences, FiniteSets, SequencesExt

CONSTANTS
  Callers,          \* subjects with a valid token
  OwnerKeys,        \* what a taskOwnerKey hook may return
  TaskIds, Nobody,
  CapabilitySets,   \* the capabilities a client may declare
  Signals,          \* the signals a handler may ask for input with
  MaxPosts          \* bound of the model: requests, one after the other

NoAuth == "no-auth"
ASSUME SurfaceAssumption == Nobody \notin Callers \cup OwnerKeys \cup {NoAuth}

VARIABLES
  config,    \* the application's options
  at,        \* the await the request is at
  post,      \* what is known of the request so far
  answer,    \* its answer
  owners,    \* the owner of each task in the store
  stopping,  \* shutdown has begun, and the store is disposed
  effects,   \* history: what the request did
  posts

surfaceVars == <<config, at, post, answer, owners, stopping, effects, posts>>

\* No principal can be made of a token without a usable subject.
Principal == IF ~config.auth THEN NoAuth ELSE post.token

Unknown == [token |-> "none", id |-> FALSE, retried |-> FALSE, named |-> FALSE, capabilities |-> {}, method |-> "none", task |-> Nobody, valid |-> FALSE]
NoAnswer == [status |-> 0, kind |-> "none", asks |-> << >>, state |-> FALSE, hints |-> FALSE]
Answer(status, kind) == [NoAnswer EXCEPT !.status = status, !.kind = kind]

\* The answer to a retry depends on what no cache has for its key.
WithCacheHints(reply, retried) == [reply EXCEPT !.hints = ~retried]

----------------------------------------------------------------------------
(* The input a handler asks its client for, from the signal it returns to the  *)
(* result that is sent (mrtr/capability-check.ts, buildInputRequiredResult).   *)
(* An entry of the signal is what the handler's object holds, and what JSON    *)
(* makes of it: toJSON() may turn one into another, and an undefined value is  *)
(* Dropped.                                                                    *)

Dropped == [object |-> FALSE, method |-> "dropped", params |-> "absent"]

\* What a capability's name is for each method that may be asked for.
CapabilityOf(method) ==
    IF method = "elicitation/create" THEN "elicitation"
    ELSE IF method = "sampling/createMessage" THEN "sampling"
    ELSE IF method = "roots/list" THEN "roots"
    ELSE "none"

\* JSON drops the undefined entries of the map.
Wires(entries) == SelectSeq([i \in DOMAIN entries |-> entries[i].wire], LAMBDA shape : shape # Dropped)

Lives(entries) == [i \in DOMAIN entries |-> entries[i].live]

\* A request needs params, except for roots; and they are an object.
Malformed(shape) ==
    \/ ~shape.object
    \/ shape.method = "not a string"
    \/ shape.params = "absent" /\ shape.method # "roots/list"
    \/ shape.params = "not an object"

\* The part of a capability the params call for.
MissesPart(shape, capabilities) ==
    \/ shape.method = "elicitation/create" /\ shape.params = "url" /\ "elicitation.url" \notin capabilities
    \/ shape.method = "sampling/createMessage" /\ shape.params = "tools" /\ "sampling.tools" \notin capabilities

EntryVerdict(shape, capabilities) ==
    IF Malformed(shape) THEN "malformed"
    ELSE IF MissesPart(shape, capabilities) THEN "missing"
    ELSE IF CapabilityOf(shape.method) = "none" THEN "malformed"
    ELSE "ok"

\* The first entry that is not in order decides, and then the capabilities themselves.
CheckInputRequestCapabilities(shapes, capabilities) ==
    LET verdicts == [i \in DOMAIN shapes |-> EntryVerdict(shapes[i], capabilities)]
    IN  IF \E i \in DOMAIN shapes : verdicts[i] = "malformed" /\ \A j \in 1..(i - 1) : verdicts[j] = "ok" THEN "malformed"
        ELSE IF \E i \in DOMAIN shapes : verdicts[i] # "ok" \/ CapabilityOf(shapes[i].method) \notin capabilities THEN "missing"
        ELSE "ok"

Refused(problem) == [kind |-> problem, asks |-> << >>, state |-> FALSE]

\* key is "none", "set", or "fails" when it cannot be imported.
BuildInputRequired(signal, capabilities, key) ==
    LET asks == IF signal.entries = << >> THEN << >> ELSE Wires(signal.entries)
        check == IF signal.map = "cyclic" THEN "malformed" ELSE CheckInputRequestCapabilities(asks, capabilities)
    IN  IF signal.map = "not an object" THEN Refused("InternalError")
        ELSE IF signal.entries = << >> /\ ~signal.state THEN Refused("InternalError")
        ELSE IF signal.entries # << >> /\ check = "malformed" THEN Refused("InternalError")
        ELSE IF signal.entries # << >> /\ check = "missing" THEN Refused("MissingCapability")
        ELSE IF key = "fails" THEN Refused("InternalError")
        ELSE IF signal.entries # << >> /\ asks = << >> THEN Refused("InternalError")
        ELSE [kind |-> "input_required", asks |-> asks, state |-> key = "set" \/ signal.state]

----------------------------------------------------------------------------
(* From arrival to answer.                                                     *)

SurfaceInit ==
    /\ config \in [auth : BOOLEAN, tasks : BOOLEAN, hook : BOOLEAN, stdio : {FALSE}]
                  \cup {[auth |-> FALSE, tasks |-> FALSE, hook |-> FALSE, stdio |-> TRUE]}
    /\ config.tasks \/ ~config.hook
    /\ at = IF config.stdio THEN "digest" ELSE "limit"
    /\ post = Unknown /\ answer = NoAnswer
    /\ owners = [t \in TaskIds |-> Nobody]
    /\ stopping = FALSE /\ effects = {} /\ posts = 1

Done(reply) == at' = "done" /\ answer' = reply
Goes(place) == at' = place /\ UNCHANGED answer
Same == UNCHANGED <<config, stopping, posts>>

----------------------------------------------------------------------------
\* checkHttpRateLimit(), which may wait.
Limit ==
    /\ at = "limit"
    /\ Done(Answer(429, "RateLimited")) \/ Goes("body")
    /\ UNCHANGED <<post, owners, effects>> /\ Same

\* The body is read up to the limit, and parsed.
Body ==
    /\ at = "body"
    /\ \/ Done(Answer(413, "BodyTooLarge")) /\ UNCHANGED post
       \/ Done(Answer(200, "ParseError")) /\ UNCHANGED post
       \/ \E id \in BOOLEAN : Goes("auth") /\ post' = [post EXCEPT !.id = id]
    /\ UNCHANGED <<owners, effects>> /\ Same

\* verifyHttpAuth(): 401, or the caller; what it throws is taken for bad JSON.
Authenticate ==
    /\ at = "auth"
    /\ \/ config.auth /\ Done(Answer(200, "ParseError")) /\ UNCHANGED post
       \/ \E token \in IF config.auth THEN {"none", "invalid", "nosub"} \cup Callers ELSE {"none"} :
            /\ post' = [post EXCEPT !.token = token]
            /\ IF config.auth /\ token \in {"none", "invalid"}
               THEN Done(Answer(401, "Unauthorized"))
               ELSE Goes("envelope")
    /\ UNCHANGED <<owners, effects>> /\ Same

Envelopes == [versionHeader : BOOLEAN, version : {"absent", "old", "current"}, capable : BOOLEAN, headers : BOOLEAN]

\* Faulty: the headers of a request are not looked at once its version is right.
EnvelopeFaultUnmirrored(e) ==
    IF post.id /\ ~e.versionHeader THEN "HeaderMismatch"
    ELSE IF e.version = "absent" THEN "InvalidParams"
    ELSE IF e.version = "old" THEN "UnsupportedVersion"
    ELSE IF ~e.capable THEN "InvalidParams"
    ELSE "none"

\* Version and capabilities are asked of every message, headers of requests only.
EnvelopeFault(e) ==
    IF post.id /\ ~e.versionHeader THEN "HeaderMismatch"
    ELSE IF e.version = "absent" THEN "InvalidParams"
    ELSE IF e.version = "old" THEN "UnsupportedVersion"
    ELSE IF ~e.capable THEN "InvalidParams"
    ELSE IF post.id /\ ~e.headers THEN "HeaderMismatch"
    ELSE "none"

\* The envelope of the message is checked; with it in order the method is dispatched.
Envelope ==
    /\ at = "envelope"
    /\ \E e \in Envelopes :
         IF EnvelopeFault(e) # "none"
         THEN Done(Answer(400, EnvelopeFault(e))) /\ UNCHANGED post
         ELSE \E declared \in CapabilitySets :
                Goes("dispatch") /\ post' = [post EXCEPT !.capabilities = declared, !.named = e.headers]
    /\ UNCHANGED <<owners, effects>> /\ Same

----------------------------------------------------------------------------
\* server/discover, initialize, the listings, prompts/list and completion/complete.
PlainMethod ==
    /\ at = "dispatch"
    /\ \E cacheable \in BOOLEAN :
         Done(IF cacheable THEN WithCacheHints(Answer(200, "result"), FALSE) ELSE Answer(200, "result"))
    /\ post' = [post EXCEPT !.method = "plain"]
    /\ UNCHANGED <<owners, effects>> /\ Same

\* No method is a mistake, an unknown one is not found; a notification is accepted.
OtherMethod ==
    /\ at = "dispatch"
    /\ \/ ~post.id /\ Done(Answer(202, "none"))
       \/ post.id /\ Done(Answer(404, "MethodNotFound"))
       \/ Done(Answer(200, "InvalidRequest"))
    /\ UNCHANGED <<post, owners, effects>> /\ Same

\* A read of an empty or unknown URI, or the handler of a known one.
ReadResource ==
    /\ at = "dispatch"
    /\ \/ Done(Answer(400, "InvalidParams"))
       \/ Done(Answer(200, "InvalidParams"))
       \/ Goes("resource")
    /\ \E retried \in BOOLEAN : post' = [post EXCEPT !.method = "resources/read", !.retried = retried]
    /\ effects' = IF at' = "resource" THEN effects \cup {"read"} ELSE effects
    /\ UNCHANGED owners /\ Same

ResourceRead ==
    /\ at = "resource"
    /\ Done(WithCacheHints(Answer(200, "result"), post.retried)) \/ Done(Answer(200, "InternalError"))
    /\ UNCHANGED <<post, owners, effects>> /\ Same

\* None when the client declared the Tasks extension.
RequireTasks ==
    IF ~config.tasks THEN Answer(404, "MethodNotFound")
    ELSE IF "tasks" \notin post.capabilities THEN Answer(400, "MissingCapability")
    ELSE NoAnswer

\* A filter with a field of the wrong type is refused; without the extension, so are task ids.
ListenFault(filter) ==
    IF ~post.id \/ filter = "malformed" THEN Answer(400, "InvalidParams")
    ELSE IF filter = "taskIds" THEN RequireTasks
    ELSE NoAnswer

Listens ==
    /\ at = "dispatch"
    /\ \E filter \in {"malformed", "lists", "taskIds"} :
         IF ListenFault(filter) # NoAnswer THEN Done(ListenFault(filter)) /\ UNCHANGED effects
         ELSE Done(Answer(200, "stream")) /\ effects' = effects \cup {IF filter = "taskIds" THEN "task stream" ELSE "stream"}
    /\ post' = [post EXCEPT !.method = "subscriptions/listen"]
    /\ UNCHANGED owners /\ Same

----------------------------------------------------------------------------
\* tools/call by HTTP: the name, and then the digest of the arguments is awaited.
CallTool ==
    /\ at = "dispatch"
    /\ post' = [post EXCEPT !.method = "tools/call"]
    /\ Done(Answer(400, "InvalidParams")) \/ Goes("digest")
    /\ UNCHANGED <<owners, effects>> /\ Same

\* By stdio the call begins here, with what the client said when it connected.
StdioCall == config.stdio /\ \E declared \in CapabilitySets : post' = [post EXCEPT !.method = "tools/call", !.capabilities = declared]

\* The answers to an earlier request for input and the state they come with: one
\* this server signed for the call, one it did not, or one already used.
Retries == [answers : {"none", "bare", "wrapped", "no object"}, state : {"none", "good", "bad", "used"}]
KeyStates == {"none", "set", "fails"}
Stores == {"works", "fails"}

\* guardMrtrRetry(): what a transport answers to each outcome, "none" when admitted.
GuardFault(r, key, store) ==
    IF r.state = "none" THEN IF r.answers # "none" /\ key = "set" THEN "InvalidParams" ELSE "none"
    ELSE IF key = "none" THEN "none"
    ELSE IF r.state = "bad" THEN "InvalidParams"
    ELSE IF store = "fails" THEN "InternalError"
    ELSE IF r.state = "used" THEN "InvalidParams"
    ELSE "none"

\* getMrtrKey() is asked for only when there is something to verify.
KeyFails(r, key) == key = "fails" /\ (r.answers # "none" \/ r.state # "none")

\* setupHandlers() and prepareProtocolMrtrRetry(): the SDK drops wrapped answers.
StdioRetryFault(r, key, store) ==
    IF r.answers = "wrapped" THEN "InvalidParams"
    ELSE IF KeyFails(r, key) THEN "InternalError"
    ELSE GuardFault(r, key, store)

\* The same on HTTP, where only the map is looked at and a signed state needs a principal.
HttpRetryFault(r, key, store) ==
    IF r.answers = "no object" THEN "InvalidParams"
    ELSE IF KeyFails(r, key) THEN "InternalError"
    ELSE IF r.state # "none" /\ key = "set" /\ Principal = "nosub" THEN "InternalError"
    ELSE GuardFault(r, key, store)

\* The answers to an earlier request for input are admitted, or the call is refused.
Retried ==
    /\ at = "digest"
    /\ IF config.stdio THEN StdioCall ELSE UNCHANGED post
    /\ \E r \in Retries, key \in KeyStates, store \in Stores :
         LET fault == IF config.stdio THEN StdioRetryFault(r, key, store) ELSE HttpRetryFault(r, key, store) IN
         IF fault = "none" THEN Goes("call") ELSE Done(Answer(IF fault = "InternalError" THEN 500 ELSE 400, fault))
    /\ UNCHANGED <<owners, effects>> /\ Same

ToolErrors == {"unauthorized", "forbidden", "unknown tool", "rate limit", "other"}

\* handleToolError() and what is made of what it rethrows: an AuthError has a
\* status of its own, toolErrorMapper may make the error a result, and the
\* message decides the code of the rest; by stdio it is the SDK's for any error.
ToolErrorReplies(error) ==
    IF error = "unauthorized" /\ ~config.stdio THEN {Answer(401, "Unauthorized")}
    ELSE IF error = "forbidden" /\ ~config.stdio THEN {Answer(403, "Forbidden")}
    ELSE {Answer(200, "isError"),
          Answer(200, IF config.stdio THEN "InternalError" ELSE IF error = "unknown tool" THEN "InvalidParams"
                      ELSE IF error = "rate limit" THEN "RateLimited" ELSE "InternalError")}

\* The pipeline turns the call away, or its handler throws.
ToolFails ==
    /\ at = "call"
    /\ \E error \in ToolErrors, ran \in BOOLEAN :
         /\ ran => error = "other"
         /\ \E reply \in ToolErrorReplies(error) : Done(reply)
         /\ effects' = IF ran THEN effects \cup {"handler"} ELSE effects
    /\ UNCHANGED <<post, owners>> /\ Same

\* What the wire makes of what a handler returned: text in a content block, or
\* the blocks it made itself; what JSON cannot write is an error of the tool.
BuildToolCallResult(raw) == IF raw = "not serialisable" THEN ToolErrorReplies("other") ELSE {Answer(200, "result")}

ToolReturns ==
    /\ at = "call"
    /\ effects' = effects \cup {"handler"}
    /\ \E raw \in {"preformatted", "structured", "plain", "not serialisable"}, reply \in ToolErrorReplies("other") \cup {Answer(200, "result")} :
         reply \in BuildToolCallResult(raw) /\ Done(reply)
    /\ UNCHANGED <<post, owners>> /\ Same

NoPrincipal == Principal = "nosub"

ToolAsks ==
    /\ at = "call"
    /\ effects' = effects \cup {"handler"}
    /\ IF NoPrincipal THEN Done(Answer(500, "InternalError")) ELSE Goes("seal")
    /\ UNCHANGED <<post, owners>> /\ Same

\* What is asked for is checked against the client's capabilities, and sealed.
Sealed ==
    /\ at = "seal"
    /\ \E signal \in Signals, key \in KeyStates :
         LET built == BuildInputRequired(signal, post.capabilities, key)
             status == IF built.kind = "input_required" THEN 200 ELSE IF built.kind = "InternalError" THEN 500 ELSE 400
         IN  Done([Answer(status, built.kind) EXCEPT !.asks = built.asks, !.state = built.state])
    /\ UNCHANGED <<post, owners, effects>> /\ Same

Stopping == Answer(503, "Stopping")

\* The handler asks for a task.  Over stdio there is none: its descriptor is the result.
ToolDefers ==
    /\ at = "call"
    /\ effects' = effects \cup {"handler"}
    /\ IF config.stdio THEN Done(Answer(200, "result"))
       ELSE IF RequireTasks # NoAnswer THEN Done(RequireTasks)
       ELSE IF stopping THEN Done(Stopping)
       ELSE IF NoPrincipal THEN Done(Answer(500, "InternalError"))
       ELSE Goes("owner")
    /\ UNCHANGED <<post, owners>> /\ Same

\* taskOwnerKeyFor(): the caller's key, Nobody when the hook fails to give one.
OwnerKey == IF config.hook THEN OwnerKeys \cup {Nobody} ELSE {Principal}

\* Faulty: shutdown is not looked at again after the owner was awaited.
SpawnedUnchecked ==
    /\ at = "owner"
    /\ \E key \in OwnerKey :
         IF key = Nobody THEN Done(Answer(500, "InternalError")) /\ UNCHANGED <<owners, effects>>
         ELSE \E t \in {u \in TaskIds : owners[u] = Nobody} :
                /\ owners' = [owners EXCEPT ![t] = key]
                /\ effects' = effects \cup {"task"}
                /\ Done(IF stopping THEN Answer(200, "InternalError") ELSE Answer(200, "task"))
    /\ UNCHANGED post /\ Same

\* The owner is known; a disposed store refuses, and what the handler's own set-up
\* throws is an error of the tool.
Spawned ==
    /\ at = "owner"
    /\ \E key \in OwnerKey :
         IF key = Nobody THEN Done(Answer(500, "InternalError")) /\ UNCHANGED <<owners, effects>>
         ELSE IF stopping THEN Done(Stopping) /\ UNCHANGED <<owners, effects>>
         ELSE \/ \E error \in ToolErrors : (\E reply \in ToolErrorReplies(error) : Done(reply)) /\ UNCHANGED <<owners, effects>>
              \/ \E t \in {u \in TaskIds : owners[u] = Nobody} :
                   /\ owners' = [owners EXCEPT ![t] = key]
                   /\ effects' = effects \cup {"task"}
                   /\ Done(Answer(200, "task"))
    /\ UNCHANGED post /\ Same

----------------------------------------------------------------------------
\* tasks/get, tasks/update and tasks/cancel up to the owner's key.
TaskCall ==
    /\ at = "dispatch" /\ config.tasks
    /\ \E method \in {"tasks/get", "tasks/update", "tasks/cancel"}, t \in TaskIds \cup {Nobody}, valid \in BOOLEAN :
         /\ post' = [post EXCEPT !.method = method, !.task = t, !.valid = valid]
         /\ IF ~post.id THEN Done(Answer(400, "InvalidParams"))
            ELSE IF RequireTasks # NoAnswer THEN Done(RequireTasks)
            ELSE IF t = Nobody THEN Done(Answer(400, "InvalidParams"))
            ELSE IF NoPrincipal THEN Done(Answer(500, "InternalError"))
            ELSE Goes("task")
    /\ UNCHANGED <<owners, effects>> /\ Same

\* The answer to a call about a task, in a store where the tasks are held so.
TaskReply(held, method, t, key, valid) ==
    IF method = "tasks/update" /\ ~valid THEN Answer(400, "InvalidParams")
    ELSE IF held[t] # key THEN Answer(200, "InvalidParams")
    ELSE Answer(200, "result")

TaskAnswered ==
    /\ at = "task"
    /\ \E key \in OwnerKey :
         IF key = Nobody THEN Done(Answer(500, "InternalError")) /\ UNCHANGED effects
         ELSE LET reply == TaskReply(owners, post.method, post.task, key, post.valid) IN
              /\ Done(reply)
              /\ effects' = IF reply.kind = "result" THEN effects \cup {post.method} ELSE effects
    /\ UNCHANGED <<post, owners>> /\ Same

----------------------------------------------------------------------------
\* A disposed store keeps the tasks it drained for a last look; it takes no more.
Stops ==
    /\ ~stopping /\ at \notin {"dispatch", "done"}
    /\ stopping' = TRUE
    /\ UNCHANGED <<config, at, post, answer, owners, effects, posts>>

\* A task reaches its end and is evicted some time later.
Evicted ==
    /\ at # "dispatch"
    /\ \E t \in TaskIds : owners[t] # Nobody /\ owners' = [owners EXCEPT ![t] = Nobody]
    /\ UNCHANGED <<config, at, post, answer, stopping, effects, posts>>

NextPost ==
    /\ at = "done" /\ posts < MaxPosts
    /\ posts' = posts + 1
    /\ at' = IF config.stdio THEN "digest" ELSE "limit"
    /\ post' = Unknown /\ answer' = NoAnswer /\ effects' = {}
    /\ UNCHANGED <<config, owners, stopping>>

SurfaceNext ==
    \/ Limit \/ Body \/ Authenticate \/ Envelope
    \/ PlainMethod \/ OtherMethod \/ ReadResource \/ ResourceRead \/ Listens
    \/ CallTool \/ Retried \/ ToolFails \/ ToolReturns \/ ToolAsks \/ Sealed \/ ToolDefers \/ Spawned
    \/ TaskCall \/ TaskAnswered
    \/ Stops \/ Evicted \/ NextPost

SurfaceSpec == SurfaceInit /\ [][SurfaceNext]_surfaceVars

----------------------------------------------------------------------------
(* NoEffectUnentitled: whatever a request sets in motion, its caller was known *)
(* where callers must be, its headers said what its body says unless it was a  *)
(* notification, it declared the Tasks extension before it touched tasks, and  *)
(* no task was made or touched for a caller that cannot be told from others    *)
(* (the order of the gates, mcp-app.ts:2252).                                  *)
NoEffectUnentitled ==
    effects # {} =>
        /\ config.auth => post.token \in Callers \cup {"nosub"}
        /\ post.id /\ ~config.stdio => post.named
        /\ effects \cap {"task", "task stream", "tasks/get", "tasks/update", "tasks/cancel"} # {} =>
             "tasks" \in post.capabilities
        /\ effects \cap {"task", "tasks/get", "tasks/update", "tasks/cancel"} # {} => ~NoPrincipal

(* AnswerTellsAll: a request answered with an error has left no task, no       *)
(* change to one and no stream behind; a task handle is given out exactly when *)
(* its task was made; and an answer that may be cached came of nothing that a  *)
(* cache cannot see, no handler of a tool, no task and no earlier answers      *)
(* (mcp-app.ts:2853, 4388).                                                    *)
AnswerTellsAll ==
    at = "done" =>
        /\ answer.kind \notin {"result", "isError", "stream", "task", "none", "input_required"} =>
             effects \subseteq {"handler", "read"}
        /\ answer.kind = "task" <=> "task" \in effects
        /\ "task" \in effects => ~config.stdio /\ config.tasks
        /\ answer.hints => effects \subseteq {"read"} /\ ~post.retried

(* TransportsAgree: the answers to a request for input open or close the same  *)
(* calls by stdio and by HTTP, as far as both read them: none is admitted, once*)
(* there is a key, but with a state the server signed for this call and nobody *)
(* used, and a key or store that fails admits nothing (mcp-app.ts:2584, 3945). *)
TransportsAgree ==
    \A r \in Retries, key \in KeyStates, store \in Stores :
        /\ ~config.auth /\ r.answers \in {"none", "bare"} =>
             StdioRetryFault(r, key, store) = HttpRetryFault(r, key, store)
        /\ key # "none" /\ (r.answers # "none" \/ r.state # "none") =>
             \A fault \in {StdioRetryFault(r, key, store), HttpRetryFault(r, key, store)} :
                 fault = "none" => r.state = "good" /\ key = "set" /\ store = "works"

(* ForeignLikeUnknown: no answer about a task depends on the tasks of others:  *)
(* it is the one a store without them would give (mcp-app.ts:3372).            *)
ForeignLikeUnknown ==
    \A key \in Callers \cup OwnerKeys \cup {NoAuth}, t \in TaskIds, valid \in BOOLEAN,
       method \in {"tasks/get", "tasks/update", "tasks/cancel"} :
        LET own == [u \in TaskIds |-> IF owners[u] = key THEN key ELSE Nobody]
        IN  TaskReply(owners, method, t, key, valid) = TaskReply(own, method, t, key, valid)

(* AsksWhatClientCan: a client is never asked for input it did not say it can  *)
(* give, nor in a form it cannot read, nor sent an answer that leaves it       *)
(* nothing to do (capability-check.ts:135).                                    *)
AsksWhatClientCan ==
    answer.kind = "input_required" =>
        /\ answer.asks # << >> \/ answer.state
        /\ \A i \in DOMAIN answer.asks :
             LET shape == answer.asks[i] IN
             /\ ~Malformed(shape) /\ ~MissesPart(shape, post.capabilities)
             /\ CapabilityOf(shape.method) \in post.capabilities

(* EntitledOnly: nothing happens for a caller without the standing it takes,   *)
(* and no caller learns of another's tasks (handleMcpPost).                    *)
EntitledOnly == NoEffectUnentitled /\ ForeignLikeUnknown

(* AnswersHonest: the client is told what happened, asked only what it can     *)
(* answer, and its answers open the same calls by either transport.            *)
AnswersHonest == AnswerTellsAll /\ AsksWhatClientCan /\ TransportsAgree
=============================================================================
