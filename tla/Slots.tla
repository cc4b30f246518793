------------------------------- MODULE Slots -------------------------------
(***************************************************************************)
(* What limited concurrency means to the callers of a tool: at most        *)
(* Capacity of them are inside at once, and each leaves as it entered.     *)
(***************************************************************************)
EXTENDS Naturals, FiniteSets

CONSTANTS Users, Capacity

VARIABLE inside

Init == inside = {}

Enter(u) ==
  /\ u \notin inside
  /\ Cardinality(inside) < Capacity
  /\ inside' = inside \cup {u}

Leave(u) ==
  /\ u \in inside
  /\ inside' = inside \ {u}

\* A leaving user may hand its place over at once.
HandOver(u, v) ==
  /\ u \in inside
  /\ v \notin inside
  /\ inside' = (inside \ {u}) \cup {v}

Next == \E u \in Users : Enter(u) \/ Leave(u) \/ \E v \in Users : HandOver(u, v)

Spec == Init /\ [][Next]_inside
=============================================================================
