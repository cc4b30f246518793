---------------------------- MODULE MCTaskStore ----------------------------
(* Small instances of TaskStore for TLC.  Either one task is asked, answered,   *)
(* cancelled and expired by two principals, or several silent tasks of one      *)
(* principal crowd a small store.                                               *)
EXTENDS TaskStore

CONSTANTS Rich,     \* the task of the first case
          Asker     \* the principal of the second

VARIABLE crowd

Silent(r) ==
  /\ r.owner = Asker /\ r.message = NoMessage /\ r.requests = {}
  /\ r.run \notin {"unformattable", "aborterror", "error"} /\ r.ttl \in {0, NoTtl} /\ r.cause # "invalid"

MCInit == Init /\ crowd \in BOOLEAN /\ (crowd => \A t \in TaskIds : Silent(task[t]))

\* What is left out are steps of user code and of clients, which are owed nothing.
\* Identifiers are alike: those of the crowd are taken in a fixed order.
InOrder == \A t \in stored' \ stored : t = CHOOSE u \in Unborn : TRUE

Case ==
  IF crowd THEN InOrder /\ \A t \in TaskIds : Silent(task'[t]) ELSE stored' \subseteq {Rich}

MCNext == Next /\ Case /\ UNCHANGED crowd

MCSpec == MCInit /\ [][MCNext]_<<vars, crowd>> /\ WF_vars(Tick) /\ WF_vars(Sweep)
=============================================================================
