--------------------------- MODULE MCGovernedChain ---------------------------
(* The instances of GovernedChain that TLC checks. *)
EXTENDS GovernedChain, TLC

CONSTANTS a1, a2

OneAction == {a1}
TwoActions == {a1, a2}

(* The decisions the backend may answer. *)
ReviewDecisions == {"require_approval", "deny"}
HaltDecisions == {"allow", "auto_paused"}

(* The actions are alike. *)
ActionSymmetry == Permutations(Actions)

=============================================================================
