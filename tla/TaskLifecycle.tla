--------------------------- MODULE TaskLifecycle ---------------------------
(***************************************************************************)
(* What the task store promises to a client that holds a task id: the id   *)
(* resolves as soon as it is handed out, the task moves between working and*)
(* input_required until it ends, it ends once, and the only way out of the *)
(* store is to make room for a newer task, ended tasks first.  After the   *)
(* store is closed nothing enters or leaves it.                            *)
(***************************************************************************)
EXTENDS Naturals, FiniteSets

CONSTANTS Tasks, Capacity

VARIABLES phase, closed

lvars == <<phase, closed>>

Live == {"working", "input_required"}
Kept == {t \in Tasks : phase[t] \in Live \cup {"ended"}}

Init ==
  /\ phase = [t \in Tasks |-> "absent"]
  /\ closed = FALSE

\* A new task enters, in any phase it can have reached already; the tasks that
\* leave are no more than needed, and live ones stay while an ended one does.
Enter(t, p, out) ==
  /\ ~closed
  /\ phase[t] = "absent"
  /\ out # {} => Cardinality(Kept \ out) + 1 = Capacity
  /\ Cardinality(Kept \ out) + 1 <= Capacity
  /\ (\E u \in out : phase[u] \in Live) => \A v \in Kept \ out : phase[v] # "ended"
  /\ phase' = [u \in Tasks |-> IF u = t THEN p
                               ELSE IF u \in out THEN "gone" ELSE phase[u]]
  /\ UNCHANGED closed

\* Live tasks ask, are answered, or end; an expiry may end several at once.
Progress ==
  /\ phase' \in [Tasks -> Live \cup {"absent", "ended", "gone"}]
  /\ \A t \in Tasks :
       phase'[t] # phase[t] => phase[t] \in Live /\ phase'[t] \in Live \cup {"ended"}
  /\ UNCHANGED closed

Close ==
  /\ ~closed
  /\ closed' = TRUE
  /\ UNCHANGED phase

Next ==
  \/ \E t \in Tasks, p \in Live \cup {"ended"}, out \in SUBSET Kept : Enter(t, p, out)
  \/ Progress
  \/ Close

Spec == Init /\ [][Next]_lvars
=============================================================================
