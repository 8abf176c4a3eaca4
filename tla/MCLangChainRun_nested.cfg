\* Nested and background runs, and two invocations with one config.
CONSTANTS
  i1 = i1
  i2 = i2
  outer = outer
  llm = llm
  background = background
  search = search
  model = model
  Agent = Agent
  None = None
  Invocations <- OneWithAnother
  Runs <- ThreeRuns
  Parent <- ToolTree
  Invoked <- InvokedBy
  Awaited <- AllButBackground
  Name <- RunNames
SPECIFICATION Spec
INVARIANTS
  LangChainTypeOK
  BodiesAreGated
  TrailIsTrue
  RefusalSurfaces
  EndsAreReported
\* Invocations may have ended and their runs with them.
CHECK_DEADLOCK FALSE
