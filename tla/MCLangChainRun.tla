--------------------------- MODULE MCLangChainRun ---------------------------
(* The instance of LangChainRun that TLC checks: a tool that starts an LLM *)
(* run, awaited, and a tool, not awaited, next to another invocation.      *)
EXTENDS LangChainRun, TLC

CONSTANTS i1, i2, outer, llm, background, search, model

OneWithAnother == {i1, i2}
ThreeRuns == {outer, llm, background}
ToolTree == outer :> i1 @@ llm :> outer @@ background :> outer
InvokedBy == outer :> i1 @@ llm :> i1 @@ background :> i1
AllButBackground == ThreeRuns \ {background}
RunNames == outer :> search @@ llm :> model @@ background :> search

=============================================================================
