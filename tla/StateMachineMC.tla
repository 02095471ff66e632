--------------------------- MODULE StateMachineMC ---------------------------
(* Instances of StateMachine for TLC: what the automations do.             *)
EXTENDS StateMachine

CONSTANTS e1, e2, off, on, a1, auto1, auto2

(* One automation answers a change of e1 by setting e2: no feedback.       *)
Forward == {[by |-> auto1, on |-> e1, to |-> on, set |-> e2, val |-> on, attrs |-> a1]}

(* An automation that sets e1 on whenever it turned on: its setState is    *)
(* nested in the one it answers, with the same state.                      *)
Confirm == {[by |-> auto1, on |-> e1, to |-> on, set |-> e1, val |-> on, attrs |-> a1]}

(* What StateMachineProofs asks of the automations holds of both: they feed*)
(* forward along this ranking of the entities.                             *)
ASSUME FeedForwardAssumption == FeedForward([e \in Entities |-> IF e = e1 THEN 0 ELSE 1])
=============================================================================
