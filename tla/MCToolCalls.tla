---------------------------- MODULE MCToolCalls ----------------------------
(* What a tools/call passes on its way to the handler, for TLC: the queue for a *)
(* slot, the rate limiter, and the pipeline of middlewares around the handler.  *)
(* They share no state: a behaviour is one of them, chosen at the start.        *)
EXTENDS RequestQueue, RateLimiter, Pipeline

VARIABLE part

\* The shape buildPipeline() gives: built-in and custom middlewares, then those
\* bound to the tool.
Customs == <<"custom", "custom", "bound">>

MCInit ==
  /\ part \in {"queue", "limiter", "pipeline"}
  /\ Init /\ LimiterInit /\ PipelineInit
  /\ part # "queue" => strategy = "queue"
  /\ part # "limiter" => \A r \in Requests : request[r].key = CHOOSE k \in Keys : TRUE

\* Requests are alike: they arrive in a fixed order.
InTurn ==
  \A r \in Requests : request[r].state = "new" /\ request'[r].state # "new"
                        => r = CHOOSE q \in Requests : request[q].state = "new"

MCNext ==
  /\ UNCHANGED part
  /\ \/ part = "queue" /\ Next /\ UNCHANGED <<limiterVars, pipelineVars>>
     \/ part = "limiter" /\ LimiterNext /\ InTurn /\ UNCHANGED <<vars, pipelineVars>>
     \/ part = "pipeline" /\ PipelineNext /\ UNCHANGED <<vars, limiterVars>>

\* Microtasks and continuations run, middlewares and handlers settle; nothing
\* else is owed.
Fairness ==
  /\ \A c \in Callers : WF_vars(part = "queue" /\ Resume(c)) /\ WF_vars(part = "queue" /\ Release(c))
  /\ \A c \in Calls : /\ WF_pipelineVars(part = "pipeline" /\ Bind(c))
                      /\ WF_pipelineVars(part = "pipeline" /\ Proceed(c))

MCSpec == MCInit /\ [][MCNext]_<<vars, limiterVars, pipelineVars, part>> /\ Fairness
=============================================================================
