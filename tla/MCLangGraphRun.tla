--------------------------- MODULE MCLangGraphRun ---------------------------
(* The instances of LangGraphRun that TLC checks. *)
EXTENDS LangGraphRun

CONSTANTS i1, i2, x1, x2, n1, n2

TwoInvocations == {i1, i2}
TwoRuns == {x1, x2}
TwoNodes == {n1, n2}

(* The second invocation shares the graph and executes no node of it. *)
InvokedBy == [x \in TwoRuns |-> i1]
NodeOf == [x \in TwoRuns |-> IF x = x1 THEN n1 ELSE n2]

OneInvocation == {i1}
OneRun == {x1}
OneNode == {n1}
OneInvokedBy == [x \in OneRun |-> i1]
OneNodeOf == [x \in OneRun |-> n1]

=============================================================================
