-------------------------- MODULE MCDecisionCycle --------------------------
(* Instances of DecisionCycle for TLC. *)
EXTENDS DecisionCycle, TLC

CONSTANTS a, b

Symmetry == Permutations(Msg)
=============================================================================
