---------------------------- MODULE MCCrewAIRun ----------------------------
(* The instances of CrewAIRun that TLC checks. *)
EXTENDS CrewAIRun

CONSTANTS r1, r2

TwoRuns == {r1, r2}

(* Two tasks, or one that is tried again, in the first run.  The second    *)
(* wraps the hooks the first one's thread may meet after its cancellation. *)
Calls == [r \in Runs |-> IF r = r1 THEN 2 ELSE 0]

(* CrewAI 1.x: task_callback only. *)
CurrentShape == {[before |-> FALSE, after |-> TRUE]}

=============================================================================
