------------------------- MODULE LangGraphRunProofs -------------------------
(* Type correctness and the safety properties of LangGraphRun.             *)
EXTENDS LangGraphRun, FiniteSetTheorems, SequenceTheorems, TLAPS

(* The type invariant in parts that few steps disturb together. *)
ShapeOK ==
  /\ strategy \in Strategies
  /\ marker \in [Nodes -> Nodes \cup {None}]
  /\ found \subseteq Nodes

InvocationsOK ==
  /\ phase \in [Invocations -> Phases]
  /\ context \in [Invocations -> Invocations \cup {None}]
  /\ graph \in [Invocations -> Graphs]
  /\ queue \in [Invocations -> Seq(Runs)]
  /\ refused \subseteq Invocations
  /\ \A i \in Invocations : phase[i] = "observing" => queue[i] # << >>
  /\ \A i \in Invocations : graph[i] # "none" => context[i] # None

RunsOK ==
  /\ executed \in [Invocations -> SUBSET Nodes]
  /\ place \in [Runs -> Places]
  /\ trail \in [Invocations -> Seq(Events)]
  /\ ran \subseteq Runs
  /\ lost \subseteq Runs
  /\ \A x \in Runs : place[x] = "gating" => Node[x] \in Wrapped

LEMMA TypeParts == LangGraphTypeOK <=> ShapeOK /\ InvocationsOK /\ RunsOK
BY DEF LangGraphTypeOK, ShapeOK, InvocationsOK, RunsOK

(* No step changes how the graph is wrapped and observed. *)
LEMMA ShapeKept ==
  ASSUME ShapeOK, UNCHANGED graphShape
  PROVE  ShapeOK' /\ Wrapped' = Wrapped /\ Markers' = Markers
BY DEF ShapeOK, graphShape, Wrapped, Markers

LEMMA InvocationTyped ==
  ASSUME ShapeOK, InvocationsOK, RunsOK, NEW i \in Invocations,
         \/ Begin(i) \/ BeginFails(i) \/ Cancel(i) \/ Collect(i)
         \/ InvocationStep(i) \/ Finish(i)
  PROVE  ShapeOK' /\ InvocationsOK' /\ RunsOK'
<1>. USE LangGraphAssumption
<1>0. UNCHANGED graphShape
  BY DEF Begin, BeginFails, Cancel, Collect, Finish, InvocationStep, Skip, Observe, ObservePermitted,
         ObserveRefused, StreamEnds, Leave
<1>. USE <1>0, ShapeKept DEF InvocationsOK, RunsOK
<1>1. CASE Begin(i)
  BY <1>1 DEF Begin, SetCurrentChain, Phases, Graphs
<1>2. CASE BeginFails(i)
  BY <1>2 DEF BeginFails, Phases
<1>3. CASE Skip(i)
  BY <1>3 DEF Skip
<1>4. CASE Observe(i)
  BY <1>4 DEF Observe, Phases
<1>5. CASE ObservePermitted(i)
  <2>1. queue[i] \in Seq(Runs) /\ queue[i] # << >>
    BY <1>5 DEF ObservePermitted
  <2>2. Observed(Head(queue[i])) \in Events
    BY <2>1 DEF Observed, Events
  <2>. QED
    BY <1>5, <2>1, <2>2 DEF ObservePermitted, Phases
<1>6. CASE ObserveRefused(i)
  BY <1>6 DEF ObserveRefused, Phases
<1>7. CASE StreamEnds(i)
  BY <1>7 DEF StreamEnds, Phases
<1>8. CASE Leave(i)
  BY <1>8 DEF Leave, Phases
<1>9. CASE Cancel(i)
  BY <1>9 DEF Cancel, Phases, Graphs
<1>10. ASSUME NEW g \in Graphs, graph[i] = "running", graph' = [graph EXCEPT ![i] = g],
              UNCHANGED <<phase, context, queue, executed, place, trail, ran, refused, lost>>
       PROVE  InvocationsOK' /\ RunsOK'
  BY <1>10
<1>11. CASE Collect(i)
  BY <1>10, <1>11 DEF Collect, Graphs
<1>12. CASE Finish(i)
  BY <1>10, <1>12 DEF Finish, Graphs
<1>. QED
  BY <1>1, <1>2, <1>3, <1>4, <1>5, <1>6, <1>7, <1>8, <1>9, <1>11, <1>12 DEF InvocationStep

LEMMA QueueGrows ==
  ASSUME queue \in [Invocations -> Seq(Runs)], NEW x \in Runs
  PROVE  LET i == Invoked[x] IN
         queue[i] \in Seq(Runs) /\ Append(queue[i], x) \in Seq(Runs) /\ Append(queue[i], x) # << >>
<1>1. queue[Invoked[x]] \in Seq(Runs)
  BY LangGraphAssumption
<1>. QED
  BY <1>1, AppendProperties

LEMMA NodeTyped ==
  ASSUME ShapeOK, InvocationsOK, RunsOK, NEW x \in Runs, Start(x) \/ NodeStep(x)
  PROVE  ShapeOK' /\ InvocationsOK' /\ RunsOK'
<1>. USE LangGraphAssumption
<1>. DEFINE i == Invoked[x]
<1>0. /\ i \in Invocations /\ Node[x] \in Nodes
      /\ Callable(x) \in Places
      /\ Callable(x) = "gating" => Node[x] \in Wrapped
  BY DEF Callable, Places
<1>00. UNCHANGED graphShape
  BY DEF Start, NodeStep, ReportPermitted, ReportRefused, ReportLost, GatePermitted, GateRefused, Body
<1>. USE <1>0, <1>00, ShapeKept DEF InvocationsOK, RunsOK, To, Places
<1>1. CASE Start(x)
  <2>1. queue[i] \in Seq(Runs) /\ Append(queue[i], x) \in Seq(Runs) /\ Append(queue[i], x) # << >>
    BY QueueGrows
  <2>2. queue' \in [Invocations -> Seq(Runs)] /\ \A j \in Invocations : queue'[j] = << >> => queue[j] = << >>
    BY <1>1, <2>1 DEF Start
  <2>3. RunsOK'
    BY <1>1 DEF Start
  <2>. QED
    BY <1>1, <2>2, <2>3 DEF Start
<1>2. CASE ReportPermitted(x)
  BY <1>2 DEF ReportPermitted, Observed, Events
<1>3. ASSUME Fail(x), Running(x)
      PROVE  /\ graph' \in [Invocations -> Graphs]
             /\ place' \in [Runs -> Places]
             /\ \A j \in Invocations : graph'[j] # "none" => graph[j] # "none"
             /\ \A y \in Runs : place'[y] = "gating" => place[y] = "gating"
  BY <1>3 DEF Fail, Graphs, Running
<1>4. CASE ReportRefused(x)
  BY <1>3, <1>4 DEF ReportRefused
<1>5. CASE GateRefused(x)
  BY <1>3, <1>5 DEF GateRefused
<1>6. CASE ReportLost(x)
  BY <1>6 DEF ReportLost
<1>7. CASE GatePermitted(x)
  <2>1. context[i] \in Invocations /\ marker[Node[x]] \in Nodes
    BY <1>7 DEF GatePermitted, Running, ShapeOK, Wrapped
  <2>2. [run |-> x, by |-> "wrapper"] \in Events
    BY DEF Events
  <2>. QED
    BY <1>7, <2>1, <2>2 DEF GatePermitted
<1>8. CASE Body(x)
  <2>1. CASE Fail(x)
    BY <1>3, <1>8, <2>1 DEF Body
  <2>2. CASE To(x, "done") /\ graph' = graph
    BY <1>8, <2>2 DEF Body
  <2>. QED
    BY <1>8, <2>1, <2>2 DEF Body
<1>. QED
  BY <1>1, <1>2, <1>4, <1>5, <1>6, <1>7, <1>8 DEF NodeStep

(* Every variable keeps its type; what is being observed is in the stream, *)
(* and a graph that runs has a chain in its context.                       *)
THEOREM LangGraphTypeCorrect == Spec => []LangGraphTypeOK
<1>1. Init => LangGraphTypeOK
  BY LangGraphAssumption DEF Init, LangGraphTypeOK, Markers, Wrapped, Phases, Graphs, Places
<1>2. LangGraphTypeOK /\ [Next]_langGraphVars => LangGraphTypeOK'
  <2>. SUFFICES ASSUME ShapeOK, InvocationsOK, RunsOK, [Next]_langGraphVars
                PROVE  ShapeOK' /\ InvocationsOK' /\ RunsOK'
    BY TypeParts, PTL
  <2>1. CASE UNCHANGED langGraphVars
    BY <2>1, ShapeKept DEF langGraphVars, graphShape, InvocationsOK, RunsOK
  <2>. QED
    BY <2>1, InvocationTyped, NodeTyped DEF Next
<1>. QED
  BY <1>1, <1>2, PTL DEF Spec

-----------------------------------------------------------------------------
(* Concurrent invocations keep apart: a graph that has started has the     *)
(* chain of its own invocation in its context, and the stream of an        *)
(* invocation tells of its own runs.                                       *)
Apart ==
  /\ \A i \in Invocations : graph[i] # "none" => context[i] = i
  /\ \A i \in Invocations : \A k \in DOMAIN queue[i] : Invoked[queue[i][k]] = i
  /\ OwnTrail

Recorded(x, who) ==
  trail' = [trail EXCEPT ![Invoked[x]] = Append(@, [run |-> x, by |-> who])]

(* Whatever is recorded is recorded on the trail of the run's invocation.  *)
LEMMA RecordsAreOwn ==
  ASSUME LangGraphTypeOK, Apart
  PROVE  /\ \A i \in Invocations : ObservePermitted(i) =>
               Head(queue[i]) \in Runs /\ Invoked[Head(queue[i])] = i
                 /\ Recorded(Head(queue[i]), "observer")
         /\ \A x \in Runs : ReportPermitted(x) => Recorded(x, "observer")
         /\ \A x \in Runs : GatePermitted(x) => Recorded(x, "wrapper")
<1>1. ASSUME NEW i \in Invocations, ObservePermitted(i)
      PROVE  /\ Head(queue[i]) \in Runs
             /\ Invoked[Head(queue[i])] = i
             /\ Recorded(Head(queue[i]), "observer")
  <2>1. queue[i] \in Seq(Runs) /\ queue[i] # << >>
    BY <1>1 DEF ObservePermitted, LangGraphTypeOK
  <2>2. Head(queue[i]) = queue[i][1] /\ 1 \in DOMAIN queue[i] /\ queue[i][1] \in Runs
    BY <2>1
  <2>3. Invoked[Head(queue[i])] = i
    BY <2>2 DEF Apart
  <2>. QED
    BY <1>1, <2>2, <2>3 DEF ObservePermitted, Observed, Recorded
<1>2. ASSUME NEW x \in Runs, GatePermitted(x)
      PROVE  Recorded(x, "wrapper")
  BY <1>2, LangGraphAssumption DEF GatePermitted, Running, Apart, Recorded
<1>. QED
  BY <1>1, <1>2 DEF ReportPermitted, Observed, Recorded

(* A record adds one event, of its run; what was permitted stays so.       *)
LEMMA RecordAdds ==
  ASSUME LangGraphTypeOK, NEW x \in Runs, NEW who \in {"wrapper", "observer"}, Recorded(x, who)
  PROVE  /\ Permitted(x, who)'
         /\ \A y \in Runs, w \in {"wrapper", "observer"} : Permitted(y, w) => Permitted(y, w)'
         /\ \A y \in Runs \ {x} : EventsOf(y, Invoked[y])' = EventsOf(y, Invoked[y])
         /\ EventsOf(x, Invoked[x])' = EventsOf(x, Invoked[x]) \cup {Len(trail[Invoked[x]]) + 1}
<1>. DEFINE i == Invoked[x]
            e == [run |-> x, by |-> who]
<1>1. i \in Invocations /\ trail \in [Invocations -> Seq(Events)] /\ e \in Events
  BY LangGraphAssumption DEF LangGraphTypeOK, Events
<1>2. /\ trail' = [trail EXCEPT ![i] = Append(trail[i], e)]
      /\ trail[i] \in Seq(Events)
  BY <1>1 DEF Recorded
<1>3. /\ DOMAIN (trail'[i]) = DOMAIN trail[i] \cup {Len(trail[i]) + 1}
      /\ Len(trail[i]) + 1 \notin DOMAIN trail[i]
      /\ trail'[i][Len(trail[i]) + 1] = e
      /\ \A k \in DOMAIN trail[i] : trail'[i][k] = trail[i][k]
  BY <1>1, <1>2
<1>4. \A j \in Invocations \ {i} : trail'[j] = trail[j]
  BY <1>1, <1>2
<1>. HIDE DEF i
<1>5. ASSUME NEW y \in Runs \ {x} PROVE EventsOf(y, Invoked[y])' = EventsOf(y, Invoked[y])
  <2>1. Invoked[y] \in Invocations
    BY LangGraphAssumption
  <2>. QED
    BY <1>3, <1>4, <2>1 DEF EventsOf
<1>6. EventsOf(x, i)' = EventsOf(x, i) \cup {Len(trail[i]) + 1}
  BY <1>3 DEF EventsOf
<1>7. ASSUME NEW y \in Runs, NEW w \in {"wrapper", "observer"}, Permitted(y, w)
      PROVE  Permitted(y, w)'
  <2>1. PICK k \in EventsOf(y, Invoked[y]) : trail[Invoked[y]][k].by = w
    BY <1>7 DEF Permitted
  <2>2. k \in DOMAIN trail[Invoked[y]] /\ Invoked[y] \in Invocations
    BY <2>1, LangGraphAssumption DEF EventsOf
  <2>3. k \in EventsOf(y, Invoked[y])' /\ trail'[Invoked[y]][k] = trail[Invoked[y]][k]
    BY <1>3, <1>4, <2>1, <2>2 DEF EventsOf
  <2>. QED
    BY <2>1, <2>3 DEF Permitted
<1>8. Permitted(x, who)'
  <2>1. Len(trail[i]) + 1 \in EventsOf(x, i)'
    BY <1>6
  <2>. QED
    BY <1>3, <2>1 DEF Permitted, i
<1>. QED
  BY <1>5, <1>6, <1>7, <1>8 DEF i

LEMMA ApartKept ==
  ASSUME LangGraphTypeOK, Apart, [Next]_langGraphVars
  PROVE  Apart'
<1>. USE LangGraphAssumption
<1>. DEFINE OwnContext == \A i \in Invocations : graph[i] # "none" => context[i] = i
            OwnQueue == \A i \in Invocations : \A k \in DOMAIN queue[i] : Invoked[queue[i][k]] = i
<1>0. /\ OwnContext /\ OwnQueue /\ OwnTrail
      /\ graph \in [Invocations -> Graphs]
      /\ queue \in [Invocations -> Seq(Runs)]
      /\ context \in [Invocations -> Invocations \cup {None}]
      /\ trail \in [Invocations -> Seq(Events)]
  BY DEF Apart, LangGraphTypeOK
<1>1. OwnContext'
  <2>1. CASE \E i \in Invocations : Begin(i)
    BY <1>0, <2>1 DEF Begin, SetCurrentChain
  <2>2. CASE /\ context' = context
             /\ \A i \in Invocations : graph'[i] # "none" => graph[i] # "none"
    BY <1>0, <2>2
  <2>3. CASE \E i \in Invocations : Cancel(i) \/ Collect(i) \/ Finish(i)
    BY <1>0, <2>2, <2>3 DEF Cancel, Collect, Finish
  <2>4. CASE \E i \in Invocations : BeginFails(i) \/ InvocationStep(i)
    BY <2>2, <2>4 DEF BeginFails, InvocationStep, Skip, Observe, ObservePermitted, ObserveRefused,
                      StreamEnds, Leave
  <2>5. ASSUME NEW x \in Runs, Start(x) \/ NodeStep(x) PROVE OwnContext'
    <3>1. Invoked[x] \in Invocations /\ graph[Invoked[x]] = "running" /\ context' = context
      BY <2>5 DEF Start, NodeStep, ReportPermitted, ReportRefused, ReportLost, GatePermitted, GateRefused,
                  Body, Running
    <3>2. graph' = graph \/ graph' = [graph EXCEPT ![Invoked[x]] = "failed"]
      BY <2>5 DEF Start, NodeStep, ReportPermitted, ReportRefused, ReportLost, GatePermitted, GateRefused,
                  Body, Fail
    <3>. QED
      BY <1>0, <3>1, <3>2
  <2>6. CASE UNCHANGED langGraphVars
    BY <2>2, <2>6 DEF langGraphVars
  <2>. QED
    BY <2>1, <2>3, <2>4, <2>5, <2>6 DEF Next
<1>2. OwnQueue'
  <2>1. ASSUME NEW i \in Invocations, queue' = [queue EXCEPT ![i] = Tail(@)], queue[i] # << >>
        PROVE  OwnQueue'
    <3>1. queue[i] \in Seq(Runs) /\ queue'[i] = Tail(queue[i])
      BY <1>0, <2>1
    <3>2. \A k \in DOMAIN Tail(queue[i]) : k + 1 \in DOMAIN queue[i] /\ Tail(queue[i])[k] = queue[i][k + 1]
      BY <2>1, <3>1
    <3>. QED
      BY <1>0, <2>1, <3>1, <3>2
  <2>2. ASSUME NEW i \in Invocations, Skip(i) \/ ObservePermitted(i) PROVE OwnQueue'
    <3>1. queue' = [queue EXCEPT ![i] = Tail(@)] /\ queue[i] # << >>
      BY <2>2 DEF Skip, ObservePermitted, LangGraphTypeOK
    <3>. QED
      BY <2>1, <3>1
  <2>3. ASSUME NEW x \in Runs, Start(x) PROVE OwnQueue'
    <3>. DEFINE j == Invoked[x]
    <3>1. j \in Invocations /\ queue[j] \in Seq(Runs)
      BY <1>0
    <3>2. /\ DOMAIN Append(queue[j], x) = DOMAIN queue[j] \cup {Len(queue[j]) + 1}
          /\ Append(queue[j], x)[Len(queue[j]) + 1] = x
          /\ \A k \in DOMAIN queue[j] : Append(queue[j], x)[k] = queue[j][k]
      BY <3>1
    <3>3. queue' = queue \/ queue' = [queue EXCEPT ![j] = Append(queue[j], x)]
      BY <1>0, <2>3, <3>1 DEF Start
    <3>4. CASE queue' = [queue EXCEPT ![j] = Append(queue[j], x)]
      <4>1. ASSUME NEW i \in Invocations, NEW k \in DOMAIN queue'[i] PROVE Invoked[queue'[i][k]] = i
        <5>1. CASE i # j
          BY <1>0, <3>1, <3>4, <4>1, <5>1
        <5>2. CASE i = j
          BY <1>0, <3>1, <3>2, <3>4, <4>1, <5>2
        <5>. QED
          BY <5>1, <5>2
      <4>. QED
        BY <4>1
    <3>. QED
      BY <1>0, <3>3, <3>4
  <2>4. CASE UNCHANGED queue
    BY <1>0, <2>4
  <2>5. CASE \E x \in Runs : NodeStep(x)
    BY <2>4, <2>5 DEF NodeStep, ReportPermitted, ReportRefused, ReportLost, GatePermitted, GateRefused, Body
  <2>6. CASE \E i \in Invocations : \/ Begin(i) \/ BeginFails(i) \/ Cancel(i) \/ Collect(i) \/ Finish(i)
                                   \/ Observe(i) \/ ObserveRefused(i) \/ StreamEnds(i) \/ Leave(i)
    BY <2>4, <2>6 DEF Begin, BeginFails, Cancel, Collect, Finish, Observe, ObserveRefused, StreamEnds, Leave
  <2>7. CASE UNCHANGED langGraphVars
    BY <2>4, <2>7 DEF langGraphVars
  <2>. QED
    BY <2>2, <2>3, <2>5, <2>6, <2>7 DEF Next, InvocationStep
<1>3. OwnTrail'
  <2>1. ASSUME NEW x \in Runs, NEW who, Recorded(x, who) PROVE OwnTrail'
    <3>. DEFINE j == Invoked[x]
                e == [run |-> x, by |-> who]
    <3>1. j \in Invocations /\ trail[j] \in Seq(Events)
      BY <1>0
    <3>2. trail' = [trail EXCEPT ![j] = Append(trail[j], e)]
      BY <1>0, <2>1, <3>1 DEF Recorded
    <3>3. /\ DOMAIN Append(trail[j], e) = DOMAIN trail[j] \cup {Len(trail[j]) + 1}
          /\ Append(trail[j], e)[Len(trail[j]) + 1] = e
          /\ \A k \in DOMAIN trail[j] : Append(trail[j], e)[k] = trail[j][k]
      BY <3>1
    <3>4. ASSUME NEW i \in Invocations, NEW k \in DOMAIN trail'[i] PROVE Invoked[trail'[i][k].run] = i
      <4>1. CASE i # j
        BY <1>0, <3>1, <3>2, <3>4, <4>1 DEF OwnTrail
      <4>2. CASE i = j
        BY <1>0, <3>1, <3>2, <3>3, <3>4, <4>2 DEF OwnTrail
      <4>. QED
        BY <4>1, <4>2
    <3>. QED
      BY <3>4 DEF OwnTrail
  <2>2. CASE \E i \in Invocations : ObservePermitted(i)
    BY <2>1, <2>2, RecordsAreOwn
  <2>3. CASE \E x \in Runs : ReportPermitted(x) \/ GatePermitted(x)
    BY <2>1, <2>3, RecordsAreOwn
  <2>4. CASE UNCHANGED trail
    BY <1>0, <2>4 DEF OwnTrail
  <2>5. CASE \E x \in Runs : Start(x) \/ ReportRefused(x) \/ ReportLost(x) \/ GateRefused(x) \/ Body(x)
    BY <2>4, <2>5 DEF Start, ReportRefused, ReportLost, GateRefused, Body
  <2>6. CASE \E i \in Invocations : \/ Begin(i) \/ BeginFails(i) \/ Cancel(i) \/ Collect(i) \/ Finish(i)
                                   \/ Skip(i) \/ Observe(i) \/ ObserveRefused(i) \/ StreamEnds(i) \/ Leave(i)
    BY <2>4, <2>6 DEF Begin, BeginFails, Cancel, Collect, Finish, Skip, Observe, ObserveRefused, StreamEnds,
                      Leave
  <2>7. CASE UNCHANGED langGraphVars
    BY <2>4, <2>7 DEF langGraphVars
  <2>. QED
    BY <2>2, <2>3, <2>5, <2>6, <2>7 DEF Next, InvocationStep, NodeStep
<1>. QED
  BY <1>1, <1>2, <1>3 DEF Apart

(* An invocation's events, and no other's, are on its chain, however the   *)
(* tasks of concurrent invocations interleave.                             *)
THEOREM TrailsAreOwn == Spec => []OwnTrail
<1>1. Init => Apart
  BY DEF Init, Apart, OwnTrail
<1>2. LangGraphTypeOK /\ Apart /\ [Next]_langGraphVars => Apart'
  BY ApartKept
<1>3. Apart => OwnTrail
  BY DEF Apart
<1>. QED
  BY <1>1, <1>2, <1>3, LangGraphTypeCorrect, PTL DEF Spec

-----------------------------------------------------------------------------
(* The gate of a wrapped node.                                             *)

(* A wrapped node reaches its body, and keeps having reached it, only with *)
(* its record permitted: also while its siblings run on after a failure.   *)
BehindGate ==
  \A x \in Runs :
    (x \in ran \/ place[x] = "entered") /\ Node[x] \in Wrapped => Permitted(x, "wrapper")

LEMMA BehindGateKept ==
  ASSUME LangGraphTypeOK, Apart, BehindGate, [Next]_langGraphVars
  PROVE  BehindGate'
<1>. USE LangGraphAssumption
<1>0. /\ ShapeOK
      /\ place \in [Runs -> Places]
      /\ UNCHANGED graphShape
  BY DEF LangGraphTypeOK, ShapeOK, Next, langGraphVars, graphShape, Begin, BeginFails, Cancel, Collect,
         Finish, InvocationStep, Skip, Observe, ObservePermitted, ObserveRefused, StreamEnds, Leave, Start,
         NodeStep, ReportPermitted, ReportRefused, ReportLost, GatePermitted, GateRefused, Body
<1>1. Wrapped' = Wrapped
  BY <1>0, ShapeKept
<1>2. ASSUME UNCHANGED trail
      PROVE  \A y \in Runs : Permitted(y, "wrapper") => Permitted(y, "wrapper")'
  BY <1>2 DEF Permitted, EventsOf
<1>3. ASSUME NEW i \in Invocations,
             \/ Begin(i) \/ BeginFails(i) \/ Cancel(i) \/ Collect(i) \/ Finish(i)
             \/ Skip(i) \/ Observe(i) \/ ObserveRefused(i) \/ StreamEnds(i) \/ Leave(i)
      PROVE  BehindGate'
  <2>1. UNCHANGED <<place, ran, trail>>
    BY <1>3 DEF Begin, BeginFails, Cancel, Collect, Finish, Skip, Observe, ObserveRefused, StreamEnds, Leave
  <2>. QED
    BY <1>1, <1>2, <2>1 DEF BehindGate
<1>4. ASSUME NEW i \in Invocations, ObservePermitted(i) PROVE BehindGate'
  <2>1. \A y \in Runs : Permitted(y, "wrapper") => Permitted(y, "wrapper")'
    BY <1>4, RecordsAreOwn, RecordAdds
  <2>. QED
    BY <1>1, <1>4, <2>1 DEF BehindGate, ObservePermitted
<1>5. ASSUME NEW x \in Runs, Start(x) \/ ReportLost(x) PROVE BehindGate'
  <2>1. UNCHANGED <<ran, trail>>
    BY <1>5 DEF Start, ReportLost
  <2>2. \E p \in {"reporting", Callable(x)} : place' = [place EXCEPT ![x] = p]
    BY <1>5 DEF Start, ReportLost, To
  <2>3. Callable(x) = "entered" => Node[x] \notin Wrapped
    BY DEF Callable
  <2>. QED
    BY <1>0, <1>1, <1>2, <2>1, <2>2, <2>3 DEF BehindGate
<1>6. ASSUME NEW x \in Runs, ReportPermitted(x) PROVE BehindGate'
  <2>1. \A y \in Runs : Permitted(y, "wrapper") => Permitted(y, "wrapper")'
    BY <1>6, RecordsAreOwn, RecordAdds
  <2>2. Callable(x) = "entered" => Node[x] \notin Wrapped
    BY DEF Callable
  <2>. QED
    BY <1>0, <1>1, <1>6, <2>1, <2>2 DEF BehindGate, ReportPermitted, To
<1>7. ASSUME NEW x \in Runs, GatePermitted(x) PROVE BehindGate'
  <2>1. /\ \A y \in Runs : Permitted(y, "wrapper") => Permitted(y, "wrapper")'
        /\ Permitted(x, "wrapper")'
    BY <1>7, RecordsAreOwn, RecordAdds
  <2>. QED
    BY <1>0, <1>1, <1>7, <2>1 DEF BehindGate, GatePermitted, To
<1>8. ASSUME NEW x \in Runs, ReportRefused(x) \/ GateRefused(x) PROVE BehindGate'
  <2>1. UNCHANGED <<ran, trail>> /\ place' = [place EXCEPT ![x] = "failed"]
    BY <1>8 DEF ReportRefused, GateRefused, Fail, To
  <2>. QED
    BY <1>0, <1>1, <1>2, <2>1 DEF BehindGate
<1>9. ASSUME NEW x \in Runs, Body(x) PROVE BehindGate'
  <2>1. UNCHANGED trail /\ place[x] = "entered" /\ ran' = ran \cup {x}
    BY <1>9 DEF Body
  <2>2. \E p \in {"done", "failed"} : place' = [place EXCEPT ![x] = p]
    BY <1>9 DEF Body, Fail, To
  <2>. QED
    BY <1>0, <1>1, <1>2, <2>1, <2>2 DEF BehindGate
<1>10. CASE UNCHANGED langGraphVars
  BY <1>1, <1>2, <1>10 DEF BehindGate, langGraphVars
<1>. QED
  BY <1>3, <1>4, <1>5, <1>6, <1>7, <1>8, <1>9, <1>10 DEF Next, InvocationStep, NodeStep

(* No wrapped body executes before its own record has been permitted.      *)
THEOREM WrappedBodiesAreGated == Spec => []BodiesAreGated
<1>1. Init => Apart /\ BehindGate
  BY DEF Init, Apart, OwnTrail, BehindGate
<1>2. LangGraphTypeOK /\ Apart /\ BehindGate /\ [Next]_langGraphVars => (Apart /\ BehindGate)'
  BY ApartKept, BehindGateKept
<1>3. LangGraphTypeOK /\ BehindGate => BodiesAreGated
  BY DEF BehindGate, BodiesAreGated, LangGraphTypeOK
<1>. QED
  BY <1>1, <1>2, <1>3, LangGraphTypeCorrect, PTL DEF Spec

-----------------------------------------------------------------------------
(* Refusals.                                                               *)

(* A refusal in a node fails the graph, and an invocation returns only     *)
(* when its graph has finished.                                            *)
Surfacing ==
  \A i \in Invocations :
    /\ phase[i] \in {"returning", "returned"} => graph[i] = "finished" /\ i \notin refused
    /\ phase[i] \in {"reading", "observing"} /\ i \in refused => graph[i] = "failed"
    /\ phase[i] = "idle" => graph[i] = "none" /\ i \notin refused

LEMMA SurfacingKept ==
  ASSUME LangGraphTypeOK, Surfacing, [Next]_langGraphVars
  PROVE  Surfacing'
<1>. USE LangGraphAssumption DEF Surfacing
<1>0. phase \in [Invocations -> Phases] /\ graph \in [Invocations -> Graphs]
  BY DEF LangGraphTypeOK
<1>1. ASSUME NEW i \in Invocations,
             Begin(i) \/ BeginFails(i) \/ Cancel(i) \/ ObserveRefused(i)
      PROVE  Surfacing'
  BY <1>0, <1>1 DEF Begin, BeginFails, Cancel, ObserveRefused
<1>2. ASSUME NEW i \in Invocations, Collect(i) \/ Finish(i) PROVE Surfacing'
  BY <1>0, <1>2 DEF Collect, Finish
<1>3. ASSUME NEW i \in Invocations, Observe(i) \/ ObservePermitted(i) \/ Skip(i) PROVE Surfacing'
  BY <1>0, <1>3 DEF Observe, ObservePermitted, Skip
<1>4. ASSUME NEW i \in Invocations, StreamEnds(i) \/ Leave(i) PROVE Surfacing'
  BY <1>0, <1>4 DEF StreamEnds, Leave
<1>5. ASSUME NEW x \in Runs, ReportRefused(x) \/ GateRefused(x) PROVE Surfacing'
  <2>1. /\ graph[Invoked[x]] = "running" /\ phase' = phase /\ Invoked[x] \in Invocations
        /\ graph' = [graph EXCEPT ![Invoked[x]] = "failed"]
        /\ refused' = refused \cup {Invoked[x]}
    BY <1>5 DEF ReportRefused, GateRefused, Fail, Running
  <2>. QED
    BY <1>0, <2>1
<1>6. ASSUME NEW x \in Runs, Body(x) PROVE Surfacing'
  <2>1. /\ graph[Invoked[x]] = "running" /\ UNCHANGED <<phase, refused>> /\ Invoked[x] \in Invocations
        /\ graph' = graph \/ graph' = [graph EXCEPT ![Invoked[x]] = "failed"]
    BY <1>6 DEF Body, Fail, Running
  <2>. QED
    BY <1>0, <2>1
<1>7. CASE UNCHANGED <<phase, graph, refused>>
  BY <1>7
<1>8. CASE \E x \in Runs : Start(x) \/ ReportPermitted(x) \/ ReportLost(x) \/ GatePermitted(x)
  BY <1>7, <1>8 DEF Start, ReportPermitted, ReportLost, GatePermitted
<1>9. CASE UNCHANGED langGraphVars
  BY <1>7, <1>9 DEF langGraphVars
<1>. QED
  BY <1>1, <1>2, <1>3, <1>4, <1>5, <1>6, <1>8, <1>9 DEF Next, InvocationStep, NodeStep

(* An invocation in which a policy exception was raised does not return.   *)
THEOREM RefusalsSurface == Spec => []RefusalSurfaces
<1>1. Init => Surfacing
  BY DEF Init, Surfacing
<1>2. LangGraphTypeOK /\ Surfacing /\ [Next]_langGraphVars => Surfacing'
  BY SurfacingKept
<1>3. LangGraphTypeOK /\ Surfacing => RefusalSurfaces
  BY DEF Surfacing, RefusalSurfaces, LangGraphTypeOK
<1>. QED
  BY <1>1, <1>2, <1>3, LangGraphTypeCorrect, PTL DEF Spec

-----------------------------------------------------------------------------
(* Nodes that govern themselves are not recorded a second time.            *)

GovernsItself(x) ==
  strategy = "stream" /\ marker[Node[x]] = Node[x] /\ Node[x] \in found

(* Until its gate such a node has no event; and the adapter observes none  *)
(* of them, whatever it has read and whatever has executed.                *)
RecordedOnce ==
  /\ \A x \in Runs : GovernsItself(x) =>
        /\ place[x] \in {"idle", "gating"} => EventsOf(x, Invoked[x]) = {}
        /\ \A k, l \in EventsOf(x, Invoked[x]) : k = l
  /\ \A i \in Invocations : phase[i] = "observing" => Node[Head(queue[i])] \notin found
  /\ strategy = "stream" => \A x \in Runs : place[x] # "reporting"

LEMMA RecordedOnceKept ==
  ASSUME LangGraphTypeOK, Apart, RecordedOnce, [Next]_langGraphVars
  PROVE  RecordedOnce'
<1>. USE LangGraphAssumption
<1>. DEFINE Fresh == \A x \in Runs : GovernsItself(x) =>
                       /\ place[x] \in {"idle", "gating"} => EventsOf(x, Invoked[x]) = {}
                       /\ \A k, l \in EventsOf(x, Invoked[x]) : k = l
            Others == \A i \in Invocations : phase[i] = "observing" => Node[Head(queue[i])] \notin found
            NoReport == strategy = "stream" => \A x \in Runs : place[x] # "reporting"
<1>0. /\ Fresh /\ Others /\ NoReport
      /\ place \in [Runs -> Places] /\ phase \in [Invocations -> Phases]
      /\ queue \in [Invocations -> Seq(Runs)]
      /\ \A i \in Invocations : phase[i] = "observing" => queue[i] # << >>
  BY DEF RecordedOnce, LangGraphTypeOK
<1>1. UNCHANGED graphShape
  BY DEF Next, langGraphVars, graphShape, Begin, BeginFails, Cancel, Collect, Finish, InvocationStep, Skip,
         Observe, ObservePermitted, ObserveRefused, StreamEnds, Leave, Start, NodeStep, ReportPermitted,
         ReportRefused, ReportLost, GatePermitted, GateRefused, Body
<1>2. \A x \in Runs : GovernsItself(x)' = GovernsItself(x)
  BY <1>1 DEF GovernsItself, graphShape
<1>3. strategy' = strategy /\ found' = found
  BY <1>1 DEF graphShape
<1>4. \A x \in Runs : GovernsItself(x) => Callable(x) = "gating"
  BY DEF GovernsItself, Callable, Wrapped
<1>. HIDE DEF Others, NoReport, Fresh
<1>5. ASSUME UNCHANGED <<phase, queue>> PROVE Others'
  BY <1>0, <1>3, <1>5 DEF Others
<1>6. ASSUME UNCHANGED place PROVE NoReport'
  BY <1>0, <1>3, <1>6 DEF NoReport
<1>7. ASSUME UNCHANGED <<place, trail>> PROVE Fresh'
  BY <1>0, <1>2, <1>7 DEF Fresh, EventsOf
<1>8. ASSUME NEW i \in Invocations,
             \/ Begin(i) \/ BeginFails(i) \/ Cancel(i) \/ Collect(i) \/ Finish(i)
             \/ Skip(i) \/ Observe(i) \/ ObserveRefused(i) \/ StreamEnds(i) \/ Leave(i)
      PROVE  Fresh' /\ Others' /\ NoReport'
  <2>1. UNCHANGED <<place, trail>>
    BY <1>8 DEF Begin, BeginFails, Cancel, Collect, Finish, Skip, Observe, ObserveRefused, StreamEnds, Leave
  <2>2. CASE Observe(i)
    <3>1. Node[Head(queue[i])] \notin found
      BY <2>2 DEF Observe, IsPreGovernedNode
    <3>. QED
      BY <1>0, <1>3, <1>6, <1>7, <2>1, <2>2, <3>1 DEF Observe, Others
  <2>3. CASE Skip(i)
    BY <1>0, <1>3, <1>6, <1>7, <2>1, <2>3 DEF Skip, Others
  <2>4. CASE Collect(i) \/ Finish(i)
    BY <1>5, <1>6, <1>7, <2>1, <2>4 DEF Collect, Finish
  <2>5. CASE Begin(i) \/ BeginFails(i) \/ Cancel(i) \/ ObserveRefused(i) \/ StreamEnds(i) \/ Leave(i)
    <3>1. queue' = queue /\ \E p \in Phases \ {"observing"} : phase' = [phase EXCEPT ![i] = p]
      BY <2>5 DEF Begin, BeginFails, Cancel, ObserveRefused, StreamEnds, Leave, Phases
    <3>. QED
      BY <1>0, <1>3, <1>6, <1>7, <2>1, <3>1 DEF Others
  <2>. QED
    BY <1>8, <2>2, <2>3, <2>4, <2>5
<1>9. ASSUME NEW i \in Invocations, ObservePermitted(i) PROVE Fresh' /\ Others' /\ NoReport'
  <2>. DEFINE y == Head(queue[i])
  <2>1. y \in Runs /\ Recorded(y, "observer") /\ Node[y] \notin found
    BY <1>0, <1>9, RecordsAreOwn DEF ObservePermitted, Others
  <2>2. \A x \in Runs : GovernsItself(x) => EventsOf(x, Invoked[x])' = EventsOf(x, Invoked[x])
    BY <2>1, RecordAdds DEF GovernsItself
  <2>3. Fresh'
    BY <1>0, <1>2, <1>9, <2>2 DEF Fresh, ObservePermitted
  <2>4. Others'
    BY <1>0, <1>3, <1>9 DEF Others, ObservePermitted
  <2>. QED
    BY <1>6, <1>9, <2>3, <2>4 DEF ObservePermitted
<1>10. ASSUME NEW x \in Runs, NEW p \in Places, place' = [place EXCEPT ![x] = p], UNCHANGED trail,
              GovernsItself(x) => p \notin {"idle", "gating"} \/ place[x] \in {"idle", "gating"}
       PROVE  Fresh'
  <2>1. \A y \in Runs : EventsOf(y, Invoked[y])' = EventsOf(y, Invoked[y])
    BY <1>10 DEF EventsOf
  <2>. QED
    BY <1>0, <1>2, <1>10, <2>1 DEF Fresh
<1>11. ASSUME NEW x \in Runs, Start(x) PROVE Fresh' /\ Others' /\ NoReport'
  <2>. DEFINE p == IF strategy = "callback" THEN "reporting" ELSE Callable(x)
  <2>1. p \in Places /\ place' = [place EXCEPT ![x] = p] /\ place[x] = "idle" /\ trail' = trail
    BY <1>11 DEF Start, To, Places, Callable
  <2>2. Fresh'
    BY <1>10, <2>1
  <2>3. NoReport'
    BY <1>0, <1>3, <2>1 DEF NoReport, Callable
  <2>4. \A j \in Invocations : phase[j] = "observing" => Head(queue'[j]) = Head(queue[j])
    <3>1. ASSUME NEW j \in Invocations, queue[j] # << >>
          PROVE  Head(Append(queue[j], x)) = Head(queue[j])
      BY <1>0, <3>1
    <3>2. queue' = [queue EXCEPT ![Invoked[x]] = IF strategy = "stream" THEN Append(@, x) ELSE @]
      BY <1>11 DEF Start
    <3>. QED
      BY <1>0, <3>1, <3>2
  <2>5. Others'
    BY <1>0, <1>3, <1>11, <2>4 DEF Others, Start
  <2>. QED
    BY <2>2, <2>3, <2>5
<1>12. ASSUME NEW x \in Runs, ReportPermitted(x) PROVE Fresh' /\ Others' /\ NoReport'
  <2>1. Recorded(x, "observer") /\ ~GovernsItself(x)
    BY <1>0, <1>12, RecordsAreOwn DEF ReportPermitted, NoReport, GovernsItself
  <2>2. \A y \in Runs : GovernsItself(y) => EventsOf(y, Invoked[y])' = EventsOf(y, Invoked[y])
    BY <2>1, RecordAdds
  <2>3. Fresh'
    BY <1>0, <1>2, <1>12, <2>1, <2>2 DEF Fresh, ReportPermitted, To
  <2>4. NoReport'
    BY <1>0, <1>3, <1>12 DEF NoReport, ReportPermitted, To, Callable
  <2>. QED
    BY <1>5, <1>12, <2>3, <2>4 DEF ReportPermitted
<1>13. ASSUME NEW x \in Runs, GatePermitted(x) PROVE Fresh' /\ Others' /\ NoReport'
  <2>1. Recorded(x, "wrapper") /\ place[x] = "gating" /\ place' = [place EXCEPT ![x] = "entered"]
    BY <1>13, RecordsAreOwn DEF GatePermitted, To
  <2>2. /\ \A y \in Runs \ {x} : EventsOf(y, Invoked[y])' = EventsOf(y, Invoked[y])
        /\ EventsOf(x, Invoked[x])' = EventsOf(x, Invoked[x]) \cup {Len(trail[Invoked[x]]) + 1}
    BY <2>1, RecordAdds
  <2>3. GovernsItself(x) => EventsOf(x, Invoked[x]) = {}
    BY <1>0, <2>1 DEF Fresh
  <2>4. Fresh'
    <3>1. ASSUME NEW y \in Runs, GovernsItself(y)
          PROVE  /\ place'[y] \in {"idle", "gating"} => EventsOf(y, Invoked[y])' = {}
                 /\ \A k, l \in EventsOf(y, Invoked[y])' : k = l
      <4>1. CASE y = x
        BY <1>0, <2>1, <2>2, <2>3, <3>1, <4>1
      <4>2. CASE y # x
        BY <1>0, <2>1, <2>2, <3>1, <4>2 DEF Fresh
      <4>. QED
        BY <4>1, <4>2
    <3>. QED
      BY <1>2, <3>1 DEF Fresh
  <2>5. NoReport'
    BY <1>0, <1>3, <2>1 DEF NoReport
  <2>. QED
    BY <1>5, <1>13, <2>4, <2>5 DEF GatePermitted
<1>14. ASSUME NEW x \in Runs, ReportRefused(x) \/ ReportLost(x) \/ GateRefused(x) \/ Body(x)
       PROVE  Fresh' /\ Others' /\ NoReport'
  <2>1. UNCHANGED <<phase, queue, trail>>
    BY <1>14 DEF ReportRefused, ReportLost, GateRefused, Body
  <2>2. PICK p \in Places \ {"reporting"} :
          /\ place' = [place EXCEPT ![x] = p]
          /\ p \in {"idle", "gating"} => place[x] = "reporting"
    BY <1>14 DEF ReportRefused, ReportLost, GateRefused, Body, Fail, To, Callable, Places
  <2>3. GovernsItself(x) => place[x] # "reporting"
    BY <1>0 DEF GovernsItself, NoReport
  <2>4. Fresh'
    BY <1>10, <2>1, <2>2, <2>3
  <2>5. NoReport'
    BY <1>0, <1>3, <2>2 DEF NoReport
  <2>. QED
    BY <1>5, <2>1, <2>4, <2>5
<1>15. ASSUME UNCHANGED langGraphVars PROVE Fresh' /\ Others' /\ NoReport'
  BY <1>5, <1>6, <1>7, <1>15 DEF langGraphVars
<1>16. Fresh' /\ Others' /\ NoReport'
  BY <1>8, <1>9, <1>11, <1>12, <1>13, <1>14, <1>15 DEF Next, InvocationStep, NodeStep
<1>. QED
  BY <1>16 DEF RecordedOnce, Fresh, Others, NoReport

(* A node that governs itself under its own name, and that discovery       *)
(* found, has exactly one event on its chain when its body has executed.   *)
THEOREM SelfGovernedOnce == Spec => []GovernedOnce
<1>1. Init => Apart /\ BehindGate
  BY DEF Init, Apart, OwnTrail, BehindGate
<1>2. Init => RecordedOnce
  BY LangGraphAssumption DEF Init, RecordedOnce, EventsOf
<1>3. LangGraphTypeOK /\ Apart /\ BehindGate /\ [Next]_langGraphVars => (Apart /\ BehindGate)'
  BY ApartKept, BehindGateKept
<1>4. LangGraphTypeOK /\ Apart /\ RecordedOnce /\ [Next]_langGraphVars => RecordedOnce'
  BY RecordedOnceKept
<1>5. LangGraphTypeOK /\ BehindGate /\ RecordedOnce => GovernedOnce
  <2>1. ASSUME LangGraphTypeOK, BehindGate, RecordedOnce, NEW x \in ran, GovernsItself(x)
        PROVE  Cardinality(EventsOf(x, Invoked[x])) = 1
    <3>1. x \in Runs /\ Node[x] \in Wrapped
      BY <2>1, LangGraphAssumption DEF LangGraphTypeOK, GovernsItself, Wrapped
    <3>2. PICK k \in EventsOf(x, Invoked[x]) : TRUE
      BY <2>1, <3>1 DEF BehindGate, Permitted
    <3>3. EventsOf(x, Invoked[x]) = {k}
      BY <2>1, <3>1, <3>2 DEF RecordedOnce
    <3>. QED
      BY <3>3, FS_Singleton
  <2>. QED
    BY <2>1 DEF GovernedOnce, GovernsItself
<1>. QED
  BY <1>1, <1>2, <1>3, <1>4, <1>5, LangGraphTypeCorrect, PTL DEF Spec

-----------------------------------------------------------------------------
(* Every executed node is accounted for.                                   *)

(* Not wrapped, and without the name of a wrapped one. *)
Ordinary(x) == Node[x] \notin Wrapped \cup Markers

Reached(x) == place[x] = "entered" \/ x \in ran

InStream(x) == \E k \in DOMAIN queue[Invoked[x]] : queue[Invoked[x]][k] = x

(* The report of an ordinary node that has reached its body is permitted,  *)
(* lost, or still in the stream; and the adapter does not return before it *)
(* has read the stream.                                                    *)
Accounted ==
  /\ found \subseteq Wrapped \cup Markers
  /\ \A i \in Invocations : executed[i] \subseteq Markers
  /\ \A i \in Invocations : phase[i] \in {"returning", "returned"} => queue[i] = << >>
  /\ \A x \in Runs :
       Ordinary(x) /\ Reached(x) /\ x \notin lost /\ strategy # "plain" =>
         Permitted(x, "observer") \/ InStream(x)

LEMMA TailShifts ==
  ASSUME NEW S, NEW s \in Seq(S), s # << >>
  PROVE  \A k \in DOMAIN s \ {1} : k - 1 \in DOMAIN Tail(s) /\ Tail(s)[k - 1] = s[k]
<1>1. Len(s) \in Nat /\ Len(s) > 0 /\ DOMAIN s = 1 .. Len(s)
  BY EmptySeq
<1>2. /\ Len(Tail(s)) = Len(s) - 1 /\ DOMAIN Tail(s) = 1 .. Len(Tail(s))
      /\ \A j \in 1 .. Len(Tail(s)) : Tail(s)[j] = s[j + 1]
  BY HeadTailProperties
<1>. QED
  BY <1>1, <1>2

LEMMA AccountedKept ==
  ASSUME LangGraphTypeOK, Apart, Surfacing, Accounted, [Next]_langGraphVars
  PROVE  Accounted'
<1>. USE LangGraphAssumption
<1>. DEFINE Names == \A i \in Invocations : executed[i] \subseteq Markers
            Drained == \A i \in Invocations : phase[i] \in {"returning", "returned"} => queue[i] = << >>
            Seen(x) == Ordinary(x) /\ Reached(x) /\ x \notin lost /\ strategy # "plain" =>
                         Permitted(x, "observer") \/ InStream(x)
            AllSeen == \A x \in Runs : Seen(x)
<1>0. /\ found \subseteq Wrapped \cup Markers /\ Names /\ Drained /\ AllSeen
      /\ place \in [Runs -> Places] /\ phase \in [Invocations -> Phases]
      /\ queue \in [Invocations -> Seq(Runs)] /\ executed \in [Invocations -> SUBSET Nodes]
      /\ \A i \in Invocations : phase[i] = "observing" => queue[i] # << >>
      /\ marker \in [Nodes -> Nodes \cup {None}]
      /\ \A x \in Runs : place[x] = "gating" => Node[x] \in Wrapped
  BY DEF Accounted, LangGraphTypeOK
<1>1. UNCHANGED graphShape /\ ShapeOK
  BY DEF Next, langGraphVars, graphShape, Begin, BeginFails, Cancel, Collect, Finish, InvocationStep, Skip,
         Observe, ObservePermitted, ObserveRefused, StreamEnds, Leave, Start, NodeStep, ReportPermitted,
         ReportRefused, ReportLost, GatePermitted, GateRefused, Body, ShapeOK, LangGraphTypeOK
<1>2. /\ Wrapped' = Wrapped /\ Markers' = Markers /\ strategy' = strategy /\ found' = found
      /\ \A x \in Runs : Ordinary(x)' = Ordinary(x)
  BY <1>1, ShapeKept DEF graphShape, Ordinary
<1>3. ASSUME UNCHANGED trail
      PROVE  \A x \in Runs : Permitted(x, "observer") => Permitted(x, "observer")'
  BY <1>3 DEF Permitted, EventsOf
<1>4. ASSUME NEW x \in Runs, NEW e, queue' = [queue EXCEPT ![Invoked[x]] = Append(@, e)]
      PROVE  /\ \A y \in Runs : InStream(y) => InStream(y)'
             /\ e = x => InStream(x)'
  <2>. DEFINE i == Invoked[x]
  <2>1. i \in Invocations /\ queue[i] \in Seq(Runs) /\ queue'[i] = Append(queue[i], e)
    BY <1>0, <1>4
  <2>2. /\ DOMAIN (queue'[i]) = DOMAIN queue[i] \cup {Len(queue[i]) + 1}
        /\ queue'[i][Len(queue[i]) + 1] = e
        /\ \A k \in DOMAIN queue[i] : queue'[i][k] = queue[i][k]
    BY <2>1
  <2>3. \A j \in Invocations \ {i} : queue'[j] = queue[j]
    BY <1>0, <1>4
  <2>. QED
    BY <2>1, <2>2, <2>3 DEF InStream
<1>5. ASSUME NEW i \in Invocations, queue' = [queue EXCEPT ![i] = Tail(@)], queue[i] # << >>
      PROVE  \A y \in Runs : InStream(y) => y = Head(queue[i]) \/ InStream(y)'
  <2>1. queue[i] \in Seq(Runs) /\ queue'[i] = Tail(queue[i]) /\ Head(queue[i]) = queue[i][1]
    BY <1>0, <1>5
  <2>2. \A k \in DOMAIN queue[i] \ {1} : k - 1 \in DOMAIN (queue'[i]) /\ queue'[i][k - 1] = queue[i][k]
    BY <1>5, <2>1, TailShifts
  <2>3. \A j \in Invocations \ {i} : queue'[j] = queue[j]
    BY <1>0, <1>5
  <2>4. ASSUME NEW y \in Runs, InStream(y), y # Head(queue[i]) PROVE InStream(y)'
    <3>1. PICK k \in DOMAIN queue[Invoked[y]] : queue[Invoked[y]][k] = y
      BY <2>4 DEF InStream
    <3>2. CASE Invoked[y] = i
      BY <2>1, <2>2, <2>4, <3>1, <3>2 DEF InStream
    <3>3. CASE Invoked[y] # i
      BY <2>3, <3>1, <3>3 DEF InStream
    <3>. QED
      BY <3>2, <3>3
  <2>. QED
    BY <2>4
<1>. HIDE DEF Names, Drained, Seen, AllSeen
<1>6. ASSUME UNCHANGED <<phase, queue>> PROVE Drained'
  BY <1>0, <1>6 DEF Drained
<1>7. ASSUME UNCHANGED executed PROVE Names'
  BY <1>0, <1>2, <1>7 DEF Names
<1>8. ASSUME NEW y \in Runs, Reached(y)' => Reached(y), lost \subseteq lost',
             Permitted(y, "observer") => Permitted(y, "observer")', InStream(y) => InStream(y)'
      PROVE  Seen(y)'
  BY <1>0, <1>2, <1>8 DEF Seen, AllSeen
<1>9. ASSUME UNCHANGED queue PROVE \A y \in Runs : InStream(y) => InStream(y)'
  BY <1>9 DEF InStream
<1>10. ASSUME UNCHANGED <<place, ran>> PROVE \A y \in Runs : Reached(y)' => Reached(y)
  BY <1>10 DEF Reached
<1>11. ASSUME UNCHANGED <<place, ran, trail, queue, lost>> PROVE AllSeen'
  BY <1>3, <1>8, <1>9, <1>10, <1>11 DEF AllSeen
<1>12. ASSUME NEW i \in Invocations,
              \/ Begin(i) \/ BeginFails(i) \/ Cancel(i) \/ Collect(i) \/ Finish(i)
              \/ Observe(i) \/ ObserveRefused(i) \/ StreamEnds(i) \/ Leave(i)
       PROVE  Names' /\ Drained' /\ AllSeen'
  <2>1. UNCHANGED <<place, ran, trail, queue, lost, executed>>
    BY <1>12 DEF Begin, BeginFails, Cancel, Collect, Finish, Observe, ObserveRefused, StreamEnds, Leave
  <2>2. \/ phase' = phase
        \/ \E p \in Phases \ {"returning", "returned"} : phase' = [phase EXCEPT ![i] = p]
        \/ queue[i] = << >> /\ \E p \in Phases : phase' = [phase EXCEPT ![i] = p]
    BY <1>0, <1>12 DEF Begin, BeginFails, Cancel, Collect, Finish, Observe, ObserveRefused, StreamEnds,
                       Leave, Phases, Drained
  <2>3. Drained'
    BY <1>0, <2>1, <2>2 DEF Drained
  <2>. QED
    BY <1>7, <1>11, <2>1, <2>3
<1>13. ASSUME NEW i \in Invocations, Skip(i) PROVE Names' /\ Drained' /\ AllSeen'
  <2>. DEFINE z == Head(queue[i])
  <2>1. /\ UNCHANGED <<place, ran, trail, lost, executed, phase>>
        /\ queue' = [queue EXCEPT ![i] = Tail(@)] /\ queue[i] # << >> /\ phase[i] = "reading"
    BY <1>13 DEF Skip
  <2>2. Node[z] \in Wrapped \cup Markers
    BY <1>0, <1>13 DEF Skip, IsPreGovernedNode, Names
  <2>3. ASSUME NEW y \in Runs PROVE Seen(y)'
    <3>1. CASE y = z
      BY <1>2, <2>2, <3>1 DEF Seen, Ordinary
    <3>2. CASE y # z
      BY <1>3, <1>5, <1>8, <1>10, <2>1, <3>2
    <3>. QED
      BY <3>1, <3>2
  <2>4. Drained'
    BY <1>0, <2>1 DEF Drained
  <2>. QED
    BY <1>7, <2>1, <2>3, <2>4 DEF AllSeen
<1>14. ASSUME NEW i \in Invocations, ObservePermitted(i) PROVE Names' /\ Drained' /\ AllSeen'
  <2>0. PICK z \in Runs : z = Head(queue[i]) /\ Recorded(z, "observer")
    BY <1>14, RecordsAreOwn
  <2>1. /\ UNCHANGED <<place, ran, lost, executed>>
        /\ queue' = [queue EXCEPT ![i] = Tail(@)] /\ queue[i] # << >> /\ phase[i] = "observing"
        /\ phase' = [phase EXCEPT ![i] = "reading"]
    BY <1>0, <1>14 DEF ObservePermitted
  <2>3. /\ Permitted(z, "observer")'
        /\ \A y \in Runs : Permitted(y, "observer") => Permitted(y, "observer")'
    BY <2>0, RecordAdds
  <2>4. ASSUME NEW y \in Runs PROVE Seen(y)'
    <3>1. CASE y = z
      BY <2>3, <3>1 DEF Seen
    <3>2. CASE y # z
      BY <1>5, <1>8, <1>10, <2>0, <2>1, <2>3, <3>2
    <3>. QED
      BY <3>1, <3>2
  <2>5. Drained'
    BY <1>0, <2>1 DEF Drained
  <2>. QED
    BY <1>7, <2>1, <2>4, <2>5 DEF AllSeen
<1>15. ASSUME NEW x \in Runs, Start(x) PROVE Names' /\ Drained' /\ AllSeen'
  <2>1. /\ UNCHANGED <<ran, trail, lost, executed, phase>>
        /\ place' = [place EXCEPT ![x] = IF strategy = "callback" THEN "reporting" ELSE Callable(x)]
        /\ queue' = [queue EXCEPT ![Invoked[x]] = IF strategy = "stream" THEN Append(@, x) ELSE @]
        /\ graph[Invoked[x]] = "running" /\ place[x] = "idle"
    BY <1>15 DEF Start, To, Running
  <2>2. phase[Invoked[x]] \notin {"returning", "returned"}
    BY <2>1 DEF Surfacing
  <2>3. \A j \in Invocations \ {Invoked[x]} : queue'[j] = queue[j]
    BY <1>0, <2>1
  <2>4. Drained'
    BY <1>0, <2>1, <2>2, <2>3 DEF Drained
  <2>5. \A y \in Runs : InStream(y) => InStream(y)'
    <3>1. CASE strategy = "stream"
      BY <1>4, <2>1, <3>1
    <3>2. CASE strategy # "stream"
      BY <1>0, <1>9, <2>1, <3>2
    <3>. QED
      BY <3>1, <3>2
  <2>6. ASSUME NEW y \in Runs PROVE Seen(y)'
    <3>1. CASE Reached(y)' => Reached(y)
      BY <1>3, <1>8, <2>1, <2>5, <3>1
    <3>2. CASE y = x /\ strategy = "stream"
      BY <1>4, <2>1, <3>2 DEF Seen
    <3>3. CASE y = x /\ strategy = "plain"
      BY <1>2, <3>3 DEF Seen
    <3>4. Reached(y)' => Reached(y) \/ (y = x /\ strategy # "callback")
      BY <1>0, <2>1 DEF Reached
    <3>. QED
      BY <1>1, <3>1, <3>2, <3>3, <3>4 DEF ShapeOK, Strategies
  <2>. QED
    BY <1>7, <2>1, <2>4, <2>6 DEF AllSeen
<1>16. ASSUME NEW x \in Runs, ReportPermitted(x) PROVE Names' /\ Drained' /\ AllSeen'
  <2>1. /\ UNCHANGED <<ran, lost, executed, phase, queue>>
        /\ place' = [place EXCEPT ![x] = Callable(x)]
        /\ Recorded(x, "observer")
    BY <1>16, RecordsAreOwn DEF ReportPermitted, To
  <2>2. /\ Permitted(x, "observer")'
        /\ \A y \in Runs : Permitted(y, "observer") => Permitted(y, "observer")'
    BY <2>1, RecordAdds
  <2>3. ASSUME NEW y \in Runs PROVE Seen(y)'
    <3>1. CASE y = x
      BY <2>2, <3>1 DEF Seen
    <3>2. CASE y # x
      <4>1. Reached(y)' => Reached(y)
        BY <1>0, <2>1, <3>2 DEF Reached
      <4>. QED
        BY <1>8, <1>9, <2>1, <2>2, <4>1
    <3>. QED
      BY <3>1, <3>2
  <2>. QED
    BY <1>6, <1>7, <2>1, <2>3 DEF AllSeen
<1>17. ASSUME NEW x \in Runs, ReportLost(x) PROVE Names' /\ Drained' /\ AllSeen'
  <2>1. /\ UNCHANGED <<ran, trail, executed, phase, queue>> /\ lost' = lost \cup {x}
        /\ place' = [place EXCEPT ![x] = Callable(x)]
    BY <1>17 DEF ReportLost, To
  <2>2. ASSUME NEW y \in Runs PROVE Seen(y)'
    <3>1. CASE y = x
      BY <2>1, <3>1 DEF Seen
    <3>2. CASE y # x
      <4>1. Reached(y)' => Reached(y)
        BY <1>0, <2>1, <3>2 DEF Reached
      <4>. QED
        BY <1>3, <1>8, <1>9, <2>1, <4>1
    <3>. QED
      BY <3>1, <3>2
  <2>. QED
    BY <1>6, <1>7, <2>1, <2>2 DEF AllSeen
<1>18. ASSUME NEW x \in Runs, GatePermitted(x) PROVE Names' /\ Drained' /\ AllSeen'
  <2>1. /\ UNCHANGED <<ran, lost, phase, queue>>
        /\ place[x] = "gating" /\ place' = [place EXCEPT ![x] = "entered"]
        /\ executed' = [executed EXCEPT ![Invoked[x]] = @ \cup {marker[Node[x]]}]
        /\ Recorded(x, "wrapper")
    BY <1>18, RecordsAreOwn DEF GatePermitted, To
  <2>2. \A y \in Runs : Permitted(y, "observer") => Permitted(y, "observer")'
    BY <2>1, RecordAdds
  <2>3. Node[x] \in Wrapped /\ marker[Node[x]] \in Markers
    BY <1>0, <2>1 DEF Wrapped, Markers
  <2>4. Names'
    BY <1>0, <1>2, <2>1, <2>3 DEF Names
  <2>5. ASSUME NEW y \in Runs PROVE Seen(y)'
    <3>1. CASE y = x
      BY <1>2, <2>3, <3>1 DEF Seen, Ordinary
    <3>2. CASE y # x
      <4>1. Reached(y)' => Reached(y)
        BY <1>0, <2>1, <3>2 DEF Reached
      <4>. QED
        BY <1>8, <1>9, <2>1, <2>2, <4>1
    <3>. QED
      BY <3>1, <3>2
  <2>. QED
    BY <1>6, <2>1, <2>4, <2>5 DEF AllSeen
<1>19. ASSUME NEW x \in Runs, ReportRefused(x) \/ GateRefused(x) \/ Body(x)
       PROVE  Names' /\ Drained' /\ AllSeen'
  <2>1. /\ UNCHANGED <<trail, lost, executed, phase, queue>>
        /\ ran' = ran \/ (place[x] = "entered" /\ ran' = ran \cup {x})
        /\ \E p \in {"done", "failed"} : place' = [place EXCEPT ![x] = p]
    BY <1>19 DEF ReportRefused, GateRefused, Body, Fail, To
  <2>2. \A y \in Runs : Reached(y)' => Reached(y)
    BY <1>0, <2>1 DEF Reached
  <2>. QED
    BY <1>3, <1>6, <1>7, <1>8, <1>9, <2>1, <2>2 DEF AllSeen
<1>20. ASSUME UNCHANGED langGraphVars PROVE Names' /\ Drained' /\ AllSeen'
  BY <1>6, <1>7, <1>11, <1>20 DEF langGraphVars
<1>21. Names' /\ Drained' /\ AllSeen'
  BY <1>12, <1>13, <1>14, <1>15, <1>16, <1>17, <1>18, <1>19, <1>20 DEF Next, InvocationStep, NodeStep
<1>. QED
  BY <1>0, <1>2, <1>21 DEF Accounted, Names, Drained, AllSeen, Seen

(* What an invocation that returns has executed has been permitted, but    *)
(* for the exceptions that the property names.                             *)
THEOREM ReturnsAccounted == Spec => []AllAccountedFor
<1>1. Init => Apart /\ BehindGate
  BY DEF Init, Apart, OwnTrail, BehindGate
<1>2. Init => Surfacing /\ Accounted
  BY DEF Init, Surfacing, Accounted, Reached
<1>3. LangGraphTypeOK /\ Apart /\ BehindGate /\ [Next]_langGraphVars => (Apart /\ BehindGate)'
  BY ApartKept, BehindGateKept
<1>4. LangGraphTypeOK /\ Surfacing /\ [Next]_langGraphVars => Surfacing'
  BY SurfacingKept
<1>5. LangGraphTypeOK /\ Apart /\ Surfacing /\ Accounted /\ [Next]_langGraphVars => Accounted'
  BY AccountedKept
<1>6. LangGraphTypeOK /\ BehindGate /\ Accounted => AllAccountedFor
  <2>1. ASSUME LangGraphTypeOK, BehindGate, Accounted, NEW x \in ran, phase[Invoked[x]] = "returned",
               Node[x] \notin Wrapped, ~Namesake(Node[x]), x \notin lost, strategy # "plain"
        PROVE  Permitted(x, "observer")
    <3>1. x \in Runs /\ Invoked[x] \in Invocations
      BY <2>1, LangGraphAssumption DEF LangGraphTypeOK
    <3>2. queue[Invoked[x]] = << >>
      BY <2>1, <3>1 DEF Accounted
    <3>3. Permitted(x, "observer") \/ InStream(x)
      BY <2>1, <3>1 DEF Accounted, Ordinary, Namesake, Reached
    <3>. QED
      BY <3>2, <3>3 DEF InStream
  <2>2. ASSUME LangGraphTypeOK, BehindGate, NEW x \in ran, Node[x] \in Wrapped
        PROVE  Permitted(x, "wrapper")
    BY <2>2 DEF BehindGate, LangGraphTypeOK
  <2>. QED
    BY <2>1, <2>2 DEF AllAccountedFor
<1>. QED
  BY <1>1, <1>2, <1>3, <1>4, <1>5, <1>6, LangGraphTypeCorrect, PTL DEF Spec

=============================================================================
