------------------------------- MODULE MCMrtr -------------------------------
(* Small instances of Mrtr for TLC.  Requests that have not arrived are alike, *)
(* and so are processes.                                                       *)
EXTENDS Mrtr, TLC

CONSTANTS alice, bob, c1, c2

Message(who, what, answered, with) ==
  [principal |-> who, call |-> what, answers |-> answered, state |-> with]

\* First legs, retries of one call, and a retry of another call.
Retries ==
  {Message(alice, c1, FALSE, NoState), Message(alice, c1, TRUE, 1),
   Message(alice, c1, TRUE, 2), Message(alice, c2, TRUE, 1)}

\* All that the guard tells apart besides.
AllKinds ==
  Retries \cup
  {Message(alice, c1, TRUE, NoState), Message(alice, c1, FALSE, 1), Message(alice, c1, FALSE, Forged),
   Message(bob, c1, TRUE, 1), Message(NoSubject, c1, TRUE, 1), Message(NoSubject, c1, FALSE, NoState)}

Alike == Permutations(Requests) \cup Permutations(Processes)
=============================================================================
