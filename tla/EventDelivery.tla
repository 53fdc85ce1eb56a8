--------------------------- MODULE EventDelivery ---------------------------
(***************************************************************************)
(* What the webhook inbox promises for one CRM event, whatever retries,    *)
(* timeouts, replays and restarts happen on the way: it takes effect once, *)
(* or it is lost once and for all; never both and never twice.             *)
(***************************************************************************)
CONSTANT Events  \* the CRM's event ids

VARIABLE life    \* what has become of each event

Lives == {"OPEN", "APPLIED", "LOST"}

Init == life = [e \in Events |-> "OPEN"]

Apply(e) ==
  /\ life[e] = "OPEN"
  /\ life' = [life EXCEPT ![e] = "APPLIED"]

\* A restart may lose several events at once.
Lose(S) ==
  /\ S # {}
  /\ \A e \in S : life[e] = "OPEN"
  /\ life' = [e \in Events |-> IF e \in S THEN "LOST" ELSE life[e]]

Next ==
  \/ \E e \in Events : Apply(e)
  \/ \E S \in SUBSET Events : Lose(S)

Spec == Init /\ [][Next]_life
=============================================================================
