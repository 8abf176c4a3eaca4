---------------------------- MODULE LangGraphRun ----------------------------
(***************************************************************************)
(* Governed invocations of one compiled LangGraph graph:                   *)
(* arclasp/langgraph/adapter.py, callbacks.py and nodes.py.                *)
(*                                                                         *)
(* The graph runs its nodes in tasks of its own.  A node wrapped with      *)
(* governed_node records itself before its body.  Every other node is      *)
(* observed: through the events of the graph's stream, which the adapter   *)
(* reads while the graph goes on, or, if the graph has no stream, through  *)
(* a callback that the graph awaits before the node.  Nodes internal to    *)
(* LangGraph are ignored by both, and left out.                            *)
(***************************************************************************)
EXTENDS Naturals, Sequences, FiniteSets

CONSTANTS
  Invocations,  \* calls of ainvoke, each in a task of its own
  Runs,         \* executions of nodes
  Nodes,        \* the graph's nodes, by name
  Invoked,      \* run -> the invocation it belongs to
  Node,         \* run -> its node
  None          \* no name, no chain

ASSUME LangGraphAssumption ==
  /\ Invoked \in [Runs -> Invocations]
  /\ Node \in [Runs -> Nodes]
  /\ None \notin Nodes \cup Invocations

VARIABLES
  strategy,   \* how the nodes that are not wrapped are observed
  marker,     \* node -> the name given to governed_node, None if not wrapped
  found,      \* the names _discover_pre_governed_nodes finds
  phase,      \* per invocation: where ainvoke is
  context,    \* per invocation: _CURRENT_CHAIN in the tasks of its graph
  graph,      \* per invocation: the graph's own task
  queue,      \* per invocation: the start events of its stream, not yet read
  executed,   \* per invocation: _EXECUTED_PRE_GOVERNED_NAMES
  place,      \* per run: where the node is
  trail,      \* per invocation: the events its chain has permitted
  ran,        \* ghost: the runs whose body has executed
  refused,    \* ghost: the invocations in which a policy exception was raised
  lost        \* ghost: the runs whose report ended in another error

langGraphVars == <<strategy, marker, found, phase, context, graph, queue, executed,
                   place, trail, ran, refused, lost>>

graphShape == <<strategy, marker, found>>

(* The graph has astream_events; or it has not and langchain_core is       *)
(* there; or neither, and its nodes are not observed.                      *)
Strategies == {"stream", "callback", "plain"}

Phases == {"idle", "reading", "observing", "returning", "raising", "returned", "raised"}

Graphs == {"none", "running", "finished", "failed", "stopped"}

Places == {"idle", "reporting", "gating", "entered", "done", "failed"}

Markers == {marker[n] : n \in Nodes} \ {None}

Wrapped == {n \in Nodes : marker[n] # None}

(* Discovery looks for markers through the attributes of a graph's nodes,  *)
(* to a depth; it may miss some, and it may add the node's own name.       *)
Init ==
  /\ strategy \in Strategies
  /\ marker \in [Nodes -> Nodes \cup {None}]
  /\ found \in SUBSET (Markers \cup Wrapped)
  /\ phase = [i \in Invocations |-> "idle"]
  /\ context = [i \in Invocations |-> None]
  /\ graph = [i \in Invocations |-> "none"]
  /\ queue = [i \in Invocations |-> << >>]
  /\ executed = [i \in Invocations |-> {}]
  /\ place = [x \in Runs |-> "idle"]
  /\ trail = [i \in Invocations |-> << >>]
  /\ ran = {}
  /\ refused = {}
  /\ lost = {}

-----------------------------------------------------------------------------
(* ainvoke *)

(* Mutant: the current chain is a global of the module. *)
SetGlobalChain(i) == context' = [j \in Invocations |-> i]

(* The graph's tasks copy the context in which they are created. *)
SetCurrentChain(i) == context' = [context EXCEPT ![i] = i]

(* The chain is open, the context set and the graph started. *)
Begin(i) ==
  /\ phase[i] = "idle"
  /\ SetCurrentChain(i)
  /\ phase' = [phase EXCEPT ![i] = "reading"]
  /\ graph' = [graph EXCEPT ![i] = "running"]
  /\ UNCHANGED <<graphShape, queue, executed, place, trail, ran, refused, lost>>

(* The SDK is not initialised or the chain cannot be opened. *)
BeginFails(i) ==
  /\ phase[i] = "idle"
  /\ phase' = [phase EXCEPT ![i] = "raised"]
  /\ UNCHANGED <<graphShape, context, graph, queue, executed, place, trail, ran, refused, lost>>

(* Mutant: only what has run is known to govern itself. *)
IsExecutedNode(i, n) == n \in executed[i]

IsPreGovernedNode(i, n) == n \in found \/ n \in executed[i]

(* An event of a node that governs itself is passed over. *)
Skip(i) ==
  /\ phase[i] = "reading"
  /\ queue[i] # << >>
  /\ IsPreGovernedNode(i, Node[Head(queue[i])])
  /\ queue' = [queue EXCEPT ![i] = Tail(@)]
  /\ UNCHANGED <<graphShape, phase, context, graph, executed, place, trail, ran, refused, lost>>

(* Mutant: the event is taken off the stream before it is dealt with. *)
ObservePops(i) ==
  /\ phase[i] = "reading"
  /\ queue[i] # << >>
  /\ ~IsPreGovernedNode(i, Node[Head(queue[i])])
  /\ phase' = [phase EXCEPT ![i] = "observing"]
  /\ queue' = [queue EXCEPT ![i] = Tail(@)]
  /\ UNCHANGED <<graphShape, context, graph, executed, place, trail, ran, refused, lost>>

(* The start of another node is recorded. *)
Observe(i) ==
  /\ phase[i] = "reading"
  /\ queue[i] # << >>
  /\ ~IsPreGovernedNode(i, Node[Head(queue[i])])
  /\ phase' = [phase EXCEPT ![i] = "observing"]
  /\ UNCHANGED <<graphShape, context, graph, queue, executed, place, trail, ran, refused, lost>>

Observed(x) == [run |-> x, by |-> "observer"]

ObservePermitted(i) ==
  /\ phase[i] = "observing"
  /\ trail' = [trail EXCEPT ![i] = Append(@, Observed(Head(queue[i])))]
  /\ queue' = [queue EXCEPT ![i] = Tail(@)]
  /\ phase' = [phase EXCEPT ![i] = "reading"]
  /\ UNCHANGED <<graphShape, context, graph, executed, place, ran, refused, lost>>

(* The loop is left, by its break or by the exception.  Neither closes the *)
(* stream: the graph goes on.                                              *)
ObserveRefused(i) ==
  /\ phase[i] = "observing"
  /\ phase' = [phase EXCEPT ![i] = "raising"]
  /\ refused' = refused \cup {i}
  /\ UNCHANGED <<graphShape, context, graph, queue, executed, place, trail, ran, lost>>

(* Mutants: events that were not read are dropped when the graph has       *)
(* finished; a stream that fails is taken for one that has more to come.   *)
StreamEndsUnread(i) ==
  /\ phase[i] = "reading"
  /\ \/ graph[i] = "finished" /\ phase' = [phase EXCEPT ![i] = "returning"]
     \/ graph[i] \in {"failed", "stopped"} /\ phase' = [phase EXCEPT ![i] = "raising"]
  /\ UNCHANGED <<graphShape, context, graph, queue, executed, place, trail, ran, refused, lost>>

StreamNeverFails(i) ==
  /\ phase[i] = "reading" /\ queue[i] = << >>
  /\ graph[i] = "finished" /\ phase' = [phase EXCEPT ![i] = "returning"]
  /\ UNCHANGED <<graphShape, context, graph, queue, executed, place, trail, ran, refused, lost>>

(* The stream has been read to its end, or the graph's ainvoke, which has  *)
(* none, has ended.                                                        *)
StreamEnds(i) ==
  /\ phase[i] = "reading" /\ queue[i] = << >>
  /\ \/ graph[i] = "finished" /\ phase' = [phase EXCEPT ![i] = "returning"]
     \/ graph[i] \in {"failed", "stopped"} /\ phase' = [phase EXCEPT ![i] = "raising"]
  /\ UNCHANGED <<graphShape, context, graph, queue, executed, place, trail, ran, refused, lost>>

(* The invocation is cancelled.  That stops the graph only where ainvoke   *)
(* awaits the graph.                                                       *)
Cancel(i) ==
  /\ phase[i] \in {"reading", "observing"}
  /\ phase' = [phase EXCEPT ![i] = "raising"]
  /\ graph' = [graph EXCEPT ![i] =
                 IF phase[i] = "reading" /\ @ = "running" THEN "stopped" ELSE @]
  /\ UNCHANGED <<graphShape, context, queue, executed, place, trail, ran, refused, lost>>

(* The chain's exit, which may itself raise. *)
Leave(i) ==
  /\ \/ phase[i] = "returning" /\ phase' = [phase EXCEPT ![i] = "returned"]
     \/ phase[i] \in {"returning", "raising"} /\ phase' = [phase EXCEPT ![i] = "raised"]
  /\ UNCHANGED <<graphShape, context, graph, queue, executed, place, trail, ran, refused, lost>>

-----------------------------------------------------------------------------
(* A node.  Nothing happens in a graph that has ended: its other nodes are *)
(* cancelled with it.                                                      *)

Running(x) == graph[Invoked[x]] = "running"

To(x, p) == place' = [place EXCEPT ![x] = p]

Fail(x) == To(x, "failed") /\ graph' = [graph EXCEPT ![Invoked[x]] = "failed"]

(* The node's callable: governed_node's wrapper or the body itself. *)
Callable(x) == IF Node[x] \in Wrapped THEN "gating" ELSE "entered"

(* The graph schedules the node. *)
Start(x) ==
  /\ Running(x) /\ place[x] = "idle"
  /\ To(x, IF strategy = "callback" THEN "reporting" ELSE Callable(x))
  /\ queue' = [queue EXCEPT ![Invoked[x]] = IF strategy = "stream" THEN Append(@, x) ELSE @]
  /\ UNCHANGED <<graphShape, phase, context, graph, executed, trail, ran, refused, lost>>

(* on_chain_start of the callback, awaited by the graph. *)
ReportPermitted(x) ==
  /\ Running(x) /\ place[x] = "reporting"
  /\ trail' = [trail EXCEPT ![Invoked[x]] = Append(@, Observed(x))]
  /\ To(x, Callable(x))
  /\ UNCHANGED <<graphShape, phase, context, graph, queue, executed, ran, refused, lost>>

(* Mutant: the policy break is an ordinary exception. *)
ReportSwallowed(x) ==
  /\ Running(x) /\ place[x] = "reporting"
  /\ To(x, Callable(x))
  /\ refused' = refused \cup {Invoked[x]}
  /\ UNCHANGED <<graphShape, phase, context, graph, queue, executed, trail, ran, lost>>

(* _StrategyBPolicyBreak passes the graph's callback manager. *)
ReportRefused(x) ==
  /\ Running(x) /\ place[x] = "reporting"
  /\ Fail(x)
  /\ refused' = refused \cup {Invoked[x]}
  /\ UNCHANGED <<graphShape, phase, context, queue, executed, trail, ran, lost>>

(* Any other exception does not: the node runs. *)
ReportLost(x) ==
  /\ Running(x) /\ place[x] = "reporting"
  /\ To(x, Callable(x))
  /\ lost' = lost \cup {x}
  /\ UNCHANGED <<graphShape, phase, context, graph, queue, executed, trail, ran, refused>>

(* _record_before_call, on the chain of the node's context. *)
GatePermitted(x) ==
  /\ Running(x) /\ place[x] = "gating"
  /\ trail' = [trail EXCEPT ![context[Invoked[x]]] = Append(@, [run |-> x, by |-> "wrapper"])]
  /\ executed' = [executed EXCEPT ![Invoked[x]] = @ \cup {marker[Node[x]]}]
  /\ To(x, "entered")
  /\ UNCHANGED <<graphShape, phase, context, graph, queue, ran, refused, lost>>

(* Mutant: a gate that cannot be reached lets the body run. *)
GateOpens(x) ==
  /\ Running(x) /\ place[x] = "gating"
  /\ To(x, "entered")
  /\ UNCHANGED <<graphShape, phase, context, graph, queue, executed, trail, ran, refused, lost>>

GateRefused(x) ==
  /\ Running(x) /\ place[x] = "gating"
  /\ Fail(x)
  /\ refused' = refused \cup {Invoked[x]}
  /\ UNCHANGED <<graphShape, phase, context, queue, executed, trail, ran, lost>>

(* The body executes, with its side effects, and returns or raises. *)
Body(x) ==
  /\ Running(x) /\ place[x] = "entered"
  /\ ran' = ran \cup {x}
  /\ \/ To(x, "done") /\ graph' = graph
     \/ Fail(x)
  /\ UNCHANGED <<graphShape, phase, context, queue, executed, trail, refused, lost>>

(* No node is under way and the graph routes to its end. *)
Finish(i) ==
  /\ graph[i] = "running"
  /\ \A x \in Runs : Invoked[x] = i => place[x] \in {"idle", "done"}
  /\ graph' = [graph EXCEPT ![i] = "finished"]
  /\ UNCHANGED <<graphShape, phase, context, queue, executed, place, trail, ran, refused, lost>>

(* A stream that nobody reads any more is collected, sooner or later.      *)
Collect(i) ==
  /\ graph[i] = "running"
  /\ phase[i] \in {"returned", "raised"}
  /\ graph' = [graph EXCEPT ![i] = "stopped"]
  /\ UNCHANGED <<graphShape, phase, context, queue, executed, place, trail, ran, refused, lost>>

-----------------------------------------------------------------------------
InvocationStep(i) ==
  Skip(i) \/ Observe(i) \/ ObservePermitted(i) \/ ObserveRefused(i) \/ StreamEnds(i) \/ Leave(i)

NodeStep(x) ==
  \/ ReportPermitted(x) \/ ReportRefused(x) \/ ReportLost(x)
  \/ GatePermitted(x) \/ GateRefused(x) \/ Body(x)

Next ==
  \/ \E i \in Invocations : Begin(i) \/ BeginFails(i) \/ Cancel(i) \/ Collect(i)
  \/ \E i \in Invocations : InvocationStep(i) \/ Finish(i)
  \/ \E x \in Runs : Start(x) \/ NodeStep(x)

Spec == Init /\ [][Next]_langGraphVars

(* Records are answered or given up, bodies end, and the graph ends.       *)
Fairness ==
  /\ \A i \in Invocations : WF_langGraphVars(InvocationStep(i)) /\ WF_langGraphVars(Finish(i))
  /\ \A x \in Runs : WF_langGraphVars(NodeStep(x))

FairSpec == Spec /\ Fairness

-----------------------------------------------------------------------------
(* Properties. *)

Events == [run : Runs, by : {"wrapper", "observer"}]

LangGraphTypeOK ==
  /\ strategy \in Strategies
  /\ marker \in [Nodes -> Nodes \cup {None}]
  /\ found \subseteq Nodes
  /\ phase \in [Invocations -> Phases]
  /\ context \in [Invocations -> Invocations \cup {None}]
  /\ graph \in [Invocations -> Graphs]
  /\ queue \in [Invocations -> Seq(Runs)]
  /\ executed \in [Invocations -> SUBSET Nodes]
  /\ place \in [Runs -> Places]
  /\ trail \in [Invocations -> Seq(Events)]
  /\ ran \subseteq Runs
  /\ refused \subseteq Invocations
  /\ lost \subseteq Runs
  /\ \A i \in Invocations : phase[i] = "observing" => queue[i] # << >>
  /\ \A i \in Invocations : graph[i] # "none" => context[i] # None
  /\ \A x \in Runs : place[x] = "gating" => Node[x] \in Wrapped

EventsOf(x, i) == {k \in DOMAIN trail[i] : trail[i][k].run = x}

Permitted(x, who) == \E k \in EventsOf(x, Invoked[x]) : trail[Invoked[x]][k].by = who

(* "the node body is not executed" (adapter.py:49) unless its own record   *)
(* was permitted: also after a sibling, the stream or the invocation has   *)
(* failed.                                                                 *)
BodiesAreGated == \A x \in ran : Node[x] \in Wrapped => Permitted(x, "wrapper")

(* Nodes under their own name that discovery found are gated once and not  *)
(* again by the adapter, however its reading of the stream and the         *)
(* wrappers interleave (test_langgraph_pre_execution.py:127).              *)
GovernedOnce ==
  \A x \in ran :
    strategy = "stream" /\ marker[Node[x]] = Node[x] /\ Node[x] \in found =>
      Cardinality(EventsOf(x, Invoked[x])) = 1

(* A node that is not wrapped but has the name another was wrapped with.   *)
Namesake(n) == n \notin Wrapped /\ n \in Markers

(* An invocation that returns has had every node it executed permitted,    *)
(* except, among the nodes that are not wrapped, namesakes of wrapped ones,*)
(* those whose report was lost, and all of them where none is observed.    *)
AllAccountedFor ==
  \A x \in ran :
    phase[Invoked[x]] = "returned" =>
      \/ Permitted(x, "wrapper")
      \/ Node[x] \notin Wrapped /\ Permitted(x, "observer")
      \/ Node[x] \notin Wrapped /\ (Namesake(Node[x]) \/ x \in lost \/ strategy = "plain")

(* No refusal, in the adapter, in a callback or in a node, ends in a       *)
(* normal return.                                                          *)
RefusalSurfaces == \A i \in refused : phase[i] # "returned"

(* Concurrent invocations of one graph do not record on each other's chain.*)
OwnTrail == \A i \in Invocations : \A k \in DOMAIN trail[i] : Invoked[trail[i][k].run] = i

(* Every invocation ends, whatever its graph and its chain answer. *)
InvocationEnds ==
  \A i \in Invocations : phase[i] = "reading" ~> phase[i] \in {"returned", "raised"}

-----------------------------------------------------------------------------
(* A claim of the repository that the callback strategy does not keep.     *)

(* "Backend uncertainty becomes an explicit error rather than implicit     *)
(* permission" (README.md:336): an invocation that returns has had the     *)
(* report of every node decided.                                           *)
NoReportLost == \A x \in lost : phase[Invoked[x]] # "returned"

=============================================================================
