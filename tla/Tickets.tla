------------------------------ MODULE Tickets ------------------------------
(***************************************************************************)
(* What a single-use token with an expiry promises: it is shown before it  *)
(* lapses or not used at all, and nobody uses it again before it lapses.   *)
(* Who showed it in time may be let in late; only then may there be two.   *)
(***************************************************************************)
CONSTANTS Serials, Bearers

VARIABLES sold, lapsed, shown, used

Init == sold = {} /\ lapsed = {} /\ shown = {} /\ used = {}

Sell(t) ==
  /\ t \notin sold
  /\ sold' = sold \cup {t}
  /\ UNCHANGED <<lapsed, shown, used>>

\* Time passes.
Lapse ==
  /\ lapsed \subseteq lapsed' /\ lapsed' \subseteq sold
  /\ UNCHANGED <<sold, shown, used>>

Show(t, b) ==
  /\ t \in sold \ lapsed
  /\ shown' = shown \cup {<<t, b>>}
  /\ UNCHANGED <<sold, lapsed, used>>

\* Bearers are turned away, or leave.
Leave ==
  /\ shown' \subseteq shown
  /\ UNCHANGED <<sold, lapsed, used>>

Use(t, b) ==
  /\ <<t, b>> \in shown
  /\ t \in lapsed \/ \A c \in Bearers : <<t, c>> \notin used
  /\ used' = used \cup {<<t, b>>}
  /\ shown' = shown \ {<<t, b>>}
  /\ UNCHANGED <<sold, lapsed>>

Next ==
  \/ \E t \in Serials : Sell(t) \/ \E b \in Bearers : Show(t, b) \/ Use(t, b)
  \/ Lapse \/ Leave

Spec == Init /\ [][Next]_<<sold, lapsed, shown, used>>
=============================================================================
