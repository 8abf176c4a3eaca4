---------------------------- MODULE GovernanceGate ----------------------------
(***************************************************************************)
(* What the SDK promises to the application, without transport, polling,   *)
(* keys or tasks: an action is released only after the authority has       *)
(* authorised it, one the authority has barred never is, and the chain is  *)
(* reported completed only when it is, after which nothing is authorised.  *)
(* Documented in README.md, "How Arclasp works".                           *)
(***************************************************************************)
CONSTANT Actions

VARIABLES
  gate,    \* the standing of each action
  chain    \* the standing of the chain

gateVars == <<gate, chain>>

GateTypeOK ==
  /\ gate \in [Actions -> {"undecided", "authorized", "barred", "released"}]
  /\ chain \in {"open", "completed", "reported"}

Init ==
  /\ gate = [a \in Actions |-> "undecided"]
  /\ chain = "open"

Undecided == {a \in Actions : gate[a] = "undecided"}

(* One decision can settle several actions: an approval is the chain's.    *)
Decide(S, standing) ==
  /\ chain = "open"
  /\ S \subseteq Undecided
  /\ gate' = [a \in Actions |-> IF a \in S THEN standing ELSE gate[a]]
  /\ UNCHANGED chain

Release(a) ==
  /\ gate[a] = "authorized"
  /\ gate' = [gate EXCEPT ![a] = "released"]
  /\ UNCHANGED chain

Close ==
  /\ chain = "open"
  /\ chain' = "completed"
  /\ UNCHANGED gate

Report ==
  /\ chain = "completed"
  /\ chain' = "reported"
  /\ UNCHANGED gate

Next ==
  \/ \E S \in SUBSET Actions, standing \in {"authorized", "barred"} : Decide(S, standing)
  \/ \E a \in Actions : Release(a)
  \/ Close
  \/ Report

Spec == Init /\ [][Next]_gateVars

=============================================================================
