-------------------------- MODULE CrewAIRunProofs --------------------------
(* Proofs about CrewAIRun, for any number of runs, calls and shapes. *)
EXTENDS CrewAIRun, FiniteSetTheorems, TLAPS

(* What a thread's record is, so that the steps of one thread are typed    *)
(* once.                                                                   *)
Thread == [stage : Stages, frames : Seq(Runs), passed : Seq(Runs), waiting : BOOLEAN, n : Nat]

ThreadOK(t) == t \in Thread /\ (t.waiting => Firing(t))

(* The answer to a wrapper, or its exception, leaves a well-formed thread. *)
LEMMA FiringTarget ==
  ASSUME NEW t \in Thread, Firing(t)
  PROVE  Target(t) \in Runs
BY DEF Thread, Firing, Target, Inwards, Outwards

LEMMA AnsweredOK ==
  ASSUME NEW t \in Thread, Firing(t)
  PROVE  ThreadOK(Answered(t))
<1>1. CASE t.stage \in Inwards
  <2>1. t.frames # << >> /\ t.frames \in Seq(Runs) /\ t.passed \in Seq(Runs)
    BY <1>1 DEF Firing, Thread, Inwards, Outwards
  <2>2. Tail(t.frames) \in Seq(Runs) /\ <<Head(t.frames)>> \o t.passed \in Seq(Runs)
    BY <2>1
  <2>. QED
    BY <1>1, <2>1, <2>2 DEF Answered, ThreadOK, Thread, Inwards, Outwards, Stages
<1>2. CASE t.stage \in Outwards
  <2>1. t.passed # << >> /\ t.frames \in Seq(Runs) /\ t.passed \in Seq(Runs)
    BY <1>2 DEF Firing, Thread, Inwards, Outwards
  <2>2. Tail(t.passed) \in Seq(Runs)
    BY <2>1
  <2>. QED
    BY <1>2, <2>1, <2>2 DEF Answered, ThreadOK, Thread, Inwards, Outwards, Stages
<1>. QED
  BY <1>1, <1>2 DEF Firing

LEMMA ThrownOK ==
  ASSUME NEW t \in Thread, Firing(t)
  PROVE  ThreadOK(Thrown(t)) /\ Thrown(t).stage = "error"
<1>1. CASE t.stage \in Inwards
  BY <1>1 DEF Thrown, ThreadOK, Thread, Inwards, Outwards, Stages
<1>2. CASE t.stage \in Outwards
  <2>1. Tail(t.passed) \in Seq(Runs)
    BY <1>2 DEF Firing, Thread, Inwards, Outwards
  <2>. QED
    BY <1>2, <2>1 DEF Thrown, ThreadOK, Thread, Inwards, Outwards, Stages
<1>. QED
  BY <1>1, <1>2 DEF Firing

(* A step of one thread, whose run has begun. *)
ThreadsOK ==
  /\ thread \in [Runs -> Thread]
  /\ \A r \in Runs : ThreadOK(thread[r])
  /\ \A r \in Runs : phase[r] = "idle" => thread[r].stage = "none"

LEMMA ThreadsKept ==
  ASSUME ThreadsOK, NEW r \in Runs, NEW u, ThreadOK(u), thread' = [thread EXCEPT ![r] = u],
         phase'[r] # "idle", \A q \in Runs : q # r => phase'[q] = phase[q]
  PROVE  ThreadsOK'
<1>1. u \in Thread
  BY DEF ThreadOK
<1>2. \A q \in Runs : thread'[q] = IF q = r THEN u ELSE thread[q]
  BY DEF ThreadsOK
<1>3. thread' \in [Runs -> Thread]
  BY <1>1 DEF ThreadsOK
<1>4. \A q \in Runs : ThreadOK(thread'[q])
  BY <1>2 DEF ThreadsOK
<1>5. \A q \in Runs : phase'[q] = "idle" => thread'[q].stage = "none"
  BY <1>2 DEF ThreadsOK
<1>. QED
  BY <1>3, <1>4, <1>5 DEF ThreadsOK, ThreadOK, Firing

LEMMA EventType ==
  ASSUME NEW r \in Runs, thread[r] \in Thread
  PROVE  Event(r) \in Events
BY DEF Event, Kind, Events, Kinds, Thread

LEMMA WrappedType ==
  ASSUME NEW r \in Runs, hooks \in Hooks
  PROVE  Wrapped(r) \in Hooks
<1>1. /\ <<r>> \o hooks.before \in Seq(Runs)
      /\ <<r>> \o hooks.execute \in Seq(Runs)
      /\ <<r>> \o hooks.after \in Seq(Runs)
  BY DEF Hooks
<1>. QED
  BY <1>1 DEF Wrapped, Hooks

(* The loop's and the application's steps, and a coroutine that ends late, *)
(* move no thread but in Begin.                                            *)
RestOK ==
  /\ shape \in Shapes
  /\ hooks \in Hooks
  /\ saved \in [Runs -> Hooks]
  /\ phase \in [Runs -> Phases]
  /\ ledger \in [Runs -> Seq(Events)]
  /\ orphans \subseteq [chain : Runs, event : Events]
  /\ ran \subseteq [run : Runs, n : Nat, governed : BOOLEAN, outcome : {"none", "ok", "raised"}]
  /\ done \subseteq [run : Runs, n : Nat]

LEMMA TypeParts == CrewTypeOK <=> RestOK /\ ThreadsOK
<1>1. CrewTypeOK => RestOK
  BY DEF CrewTypeOK, RestOK
<1>2. CrewTypeOK => ThreadsOK
  BY DEF CrewTypeOK, ThreadsOK, ThreadOK, Thread
<1>3. RestOK /\ ThreadsOK => CrewTypeOK
  BY DEF CrewTypeOK, RestOK, ThreadsOK, ThreadOK, Thread
<1>. QED
  BY <1>1, <1>2, <1>3

LEMMA LoopTyped ==
  ASSUME RestOK, ThreadsOK, NEW r \in Runs,
         Begin(r) \/ InstallBreaks(r) \/ BeginFails(r) \/ Return(r) \/ Cancel(r) \/ Close(r)
  PROVE  RestOK' /\ ThreadsOK'
<1>1. CASE Begin(r)
  <2>1. RestOK'
    BY <1>1, WrappedType DEF Begin, RestOK, Phases
  <2>. DEFINE u == [thread[r] EXCEPT !.stage = "free"]
  <2>2. thread' = [thread EXCEPT ![r] = u]
    BY <1>1 DEF Begin
  <2>3. thread[r] \in Thread /\ ~thread[r].waiting
    BY <1>1 DEF Begin, ThreadsOK, ThreadOK, Firing, Inwards, Outwards
  <2>4. ThreadOK(u)
    BY <2>3 DEF ThreadOK, Thread, Stages
  <2>5. phase'[r] # "idle" /\ \A q \in Runs : q # r => phase'[q] = phase[q]
    BY <1>1 DEF Begin, RestOK
  <2>. QED
    BY <2>1, <2>2, <2>4, <2>5, ThreadsKept
<1>2. CASE InstallBreaks(r) \/ BeginFails(r) \/ Return(r) \/ Cancel(r) \/ Close(r)
  <2>1. thread' = thread
    BY <1>2 DEF InstallBreaks, BeginFails, Return, Cancel, Close
  <2>2. PICK v \in {"closing", "ended"} : phase' = [phase EXCEPT ![r] = v]
    BY <1>2 DEF InstallBreaks, BeginFails, Return, Cancel, Close, Restore
  <2>3. \A q \in Runs : phase'[q] = "idle" => phase[q] = "idle"
    BY <2>2 DEF RestOK
  <2>4. ThreadsOK'
    BY <2>1, <2>3 DEF ThreadsOK, ThreadOK, Firing
  <2>5. phase' \in [Runs -> Phases]
    BY <2>2 DEF RestOK, Phases
  <2>6. hooks' \in Hooks
    <3>1. CASE InstallBreaks(r)
      <4>1. /\ Wrapped(r) \in Hooks /\ hooks \in Hooks
            /\ Wrapped(r).before \in Seq(Runs)
        BY WrappedType DEF RestOK, Hooks
      <4>2. /\ [hooks EXCEPT !.before = Wrapped(r).before] \in Hooks
            /\ [Wrapped(r) EXCEPT !.execute = hooks.execute] \in Hooks
        BY <4>1 DEF Hooks
      <4>. QED
        BY <3>1, <4>1, <4>2 DEF InstallBreaks
    <3>2. CASE ~InstallBreaks(r)
      BY <1>2, <3>2 DEF BeginFails, Return, Cancel, Close, Restore, RestOK
    <3>. QED
      BY <3>1, <3>2
  <2>7. RestOK'
    BY <1>2, <2>5, <2>6 DEF InstallBreaks, BeginFails, Return, Cancel, Close, RestOK
  <2>. QED
    BY <2>4, <2>7
<1>. QED
  BY <1>1, <1>2

(* A step of a thread. *)
LEMMA ThreadTyped ==
  ASSUME RestOK, ThreadsOK, NEW r \in Runs, ThreadStep(r) \/ Permit(r) \/ Refuse(r)
  PROVE  RestOK' /\ ThreadsOK'
<1>. DEFINE t == thread[r]
<1>t. /\ t \in Thread /\ (t.waiting => Firing(t))
      /\ t.frames \in Seq(Runs) /\ t.passed \in Seq(Runs) /\ t.n \in Nat
  BY DEF ThreadsOK, ThreadOK, Thread
<1>h. hooks.before \in Seq(Runs) /\ hooks.execute \in Seq(Runs) /\ hooks.after \in Seq(Runs)
  BY DEF RestOK, Hooks
<1>p. phase' = phase /\ UNCHANGED <<shape, hooks, saved>>
  BY DEF ThreadStep, Call, Enter, Execute, Returned, Done, Leave, Fire, TimeOut, Permit, Refuse,
         ThreadUnchanged
<1>b. t.stage # "none" => phase[r] # "idle"
  BY DEF ThreadsOK
<1>k. ASSUME NEW u, ThreadOK(u), thread' = [thread EXCEPT ![r] = u], t.stage # "none"
      PROVE  ThreadsOK'
  BY <1>p, <1>b, <1>k, ThreadsKept
<1>l. \E e \in Events : Event(r) = e
  BY <1>t, EventType DEF t
<1>. HIDE DEF t
<1>1. CASE Call(r)
  <2>. DEFINE u == [stage   |-> IF shape.before THEN "before" ELSE "start",
                    frames  |-> IF shape.before THEN hooks.before ELSE hooks.execute,
                    passed  |-> << >>,
                    waiting |-> FALSE,
                    n       |-> t.n + 1]
  <2>1. thread' = [thread EXCEPT ![r] = u]
    BY <1>1 DEF Call, Goto, t
  <2>2. ThreadOK(u)
    BY <1>t, <1>h DEF ThreadOK, Thread, Stages
  <2>3. t.stage # "none"
    BY <1>1 DEF Call, Ready, t
  <2>4. ThreadsOK'
    BY <2>1, <2>2, <2>3, <1>k
  <2>5. ran' \subseteq [run : Runs, n : Nat, governed : BOOLEAN, outcome : {"none", "ok", "raised"}]
    <3>1. PICK g \in BOOLEAN :
            ran' = ran \cup {[run |-> r, n |-> t.n + 1, governed |-> g, outcome |-> "none"]}
      <4>1. (phase[r] = "running") \in BOOLEAN
        OBVIOUS
      <4>. QED
        BY <1>1, <4>1, Zenon DEF Call, t
    <3>. QED
      BY <1>t, <3>1 DEF RestOK
  <2>6. RestOK'
    BY <1>1, <1>p, <2>5 DEF Call, RestOK
  <2>. QED
    BY <2>4, <2>6
<1>2. CASE Enter(r)
  <2>1. t.stage = "before" /\ t.frames = << >> /\ ~t.waiting
    BY <1>2, <1>t DEF Enter, Firing, Inwards, Outwards, t
  <2>2. PICK u : /\ thread' = [thread EXCEPT ![r] = u]
                 /\ u \in {[t EXCEPT !.stage = "start", !.frames = hooks.execute],
                            [t EXCEPT !.stage = "error"]}
    BY <1>2 DEF Enter, Goto, t
  <2>3. ThreadOK(u)
    BY <1>t, <1>h, <2>1, <2>2 DEF ThreadOK, Thread, Stages
  <2>4. ThreadsOK'
    BY <2>1, <2>2, <2>3, <1>k
  <2>5. RestOK'
    BY <1>2, <1>p DEF Enter, RestOK
  <2>. QED
    BY <2>4, <2>5
<1>3. CASE Execute(r)
  <2>1. t.stage = "start" /\ t.frames = << >> /\ ~t.waiting
    BY <1>3, <1>t DEF Execute, Firing, Inwards, Outwards, t
  <2>2. PICK u : /\ thread' = [thread EXCEPT ![r] = u]
                 /\ u \in {[t EXCEPT !.stage = "end", !.passed = IF EmitEnd THEN @ ELSE << >>],
                            [t EXCEPT !.stage = "error"]}
    BY <1>3 DEF Execute, Goto, t
  <2>3. ThreadOK(u)
    BY <1>t, <2>1, <2>2 DEF ThreadOK, Thread, Stages
  <2>4. ThreadsOK'
    BY <2>1, <2>2, <2>3, <1>k
  <2>5. PICK o \in {"ok", "raised"} : ran' = Executed(r, o)
    BY <1>3 DEF Execute
  <2>6. ran' \subseteq [run : Runs, n : Nat, governed : BOOLEAN, outcome : {"none", "ok", "raised"}]
    BY <2>5 DEF Executed, RestOK
  <2>7. RestOK'
    BY <1>3, <1>p, <2>6 DEF Execute, RestOK
  <2>. QED
    BY <2>4, <2>7
<1>4. CASE Returned(r)
  <2>. DEFINE u == [t EXCEPT !.stage = "after", !.frames = hooks.after]
  <2>1. t.stage = "end" /\ t.passed = << >> /\ ~t.waiting /\ thread' = [thread EXCEPT ![r] = u]
    BY <1>4, <1>t DEF Returned, Goto, Firing, Inwards, Outwards, t
  <2>2. ThreadOK(u)
    BY <1>t, <1>h, <2>1 DEF ThreadOK, Thread, Stages
  <2>3. ThreadsOK'
    BY <2>1, <2>2, <1>k
  <2>4. RestOK'
    BY <1>4, <1>p DEF Returned, RestOK
  <2>. QED
    BY <2>3, <2>4
<1>5. CASE Done(r)
  <2>1. t.stage = "after" /\ t.frames = << >> /\ ~t.waiting
    BY <1>5, <1>t DEF Done, Firing, Inwards, Outwards, t
  <2>2. PICK u : /\ thread' = [thread EXCEPT ![r] = u]
                 /\ u \in {[t EXCEPT !.stage = "free"], [t EXCEPT !.stage = "error"]}
    BY <1>5 DEF Done, Goto, t
  <2>3. ThreadOK(u)
    BY <1>t, <2>1, <2>2 DEF ThreadOK, Thread, Stages
  <2>4. ThreadsOK'
    BY <2>1, <2>2, <2>3, <1>k
  <2>5. RestOK'
    BY <1>5, <1>p, <1>t DEF Done, RestOK, t
  <2>. QED
    BY <2>4, <2>5
<1>6. CASE Leave(r)
  <2>. DEFINE u == [t EXCEPT !.stage = "over"]
  <2>1. t.stage # "none" /\ ~t.waiting /\ thread' = [thread EXCEPT ![r] = u]
    BY <1>6, <1>t DEF Leave, Ready, Goto, Firing, Inwards, Outwards, t
  <2>2. ThreadOK(u)
    BY <1>t, <2>1 DEF ThreadOK, Thread, Stages
  <2>3. ThreadsOK'
    BY <2>1, <2>2, <1>k
  <2>4. RestOK'
    BY <1>6, <1>p DEF Leave, RestOK
  <2>. QED
    BY <2>3, <2>4
<1>7. CASE Fire(r)
  <2>. DEFINE u == [t EXCEPT !.waiting = TRUE]
  <2>1. Firing(t) /\ thread' = [thread EXCEPT ![r] = u]
    BY <1>7 DEF Fire, Goto, t
  <2>2. u \in Thread /\ Firing(u) /\ t.stage # "none"
    BY <1>t, <2>1 DEF Thread, Firing, Inwards, Outwards
  <2>3. ThreadsOK'
    BY <2>1, <2>2, <1>k DEF ThreadOK
  <2>4. RestOK'
    BY <1>7, <1>p DEF Fire, RestOK
  <2>. QED
    BY <2>3, <2>4
<1>8. CASE Permit(r) \/ Refuse(r) \/ TimeOut(r)
  <2>1. Firing(t) /\ t.stage # "none"
    BY <1>8, <1>t DEF Permit, Refuse, TimeOut, Firing, Inwards, Outwards, t
  <2>2. Target(t) \in Runs
    BY <1>t, <2>1, FiringTarget
  <2>3. PICK u \in {Answered(t), Thrown(t)} : thread' = [thread EXCEPT ![r] = u]
    BY <1>8 DEF Permit, Refuse, TimeOut, Goto, t
  <2>4. ThreadOK(u)
    BY <1>t, <2>1, <2>3, AnsweredOK, ThrownOK
  <2>5. ThreadsOK'
    BY <2>1, <2>3, <2>4, <1>k
  <2>6. ledger' \in [Runs -> Seq(Events)]
    <3>1. CASE Permit(r)
      <4>1. ledger' = [ledger EXCEPT ![Target(t)] = Append(@, Event(r))]
        BY <3>1 DEF Permit, t
      <4>. QED
        BY <4>1, <2>2, <1>l DEF RestOK
    <3>2. CASE Refuse(r) \/ TimeOut(r)
      BY <3>2 DEF Refuse, TimeOut, RestOK
    <3>. QED
      BY <1>8, <3>1, <3>2
  <2>7. orphans' \subseteq [chain : Runs, event : Events]
    BY <1>8, <2>2, <1>l DEF Permit, Refuse, TimeOut, RestOK, t
  <2>8. RestOK'
    BY <1>8, <1>p, <2>6, <2>7 DEF Permit, Refuse, TimeOut, RestOK
  <2>. QED
    BY <2>5, <2>8
<1>. QED
  BY <1>1, <1>2, <1>3, <1>4, <1>5, <1>6, <1>7, <1>8 DEF ThreadStep

(* A coroutine that ends late moves no thread. *)
LEMMA LateTyped ==
  ASSUME RestOK, ThreadsOK, NEW o \in orphans, EndLate(o)
  PROVE  RestOK' /\ ThreadsOK'
<1>1. thread' = thread /\ phase' = phase
  BY DEF EndLate, ThreadUnchanged
<1>2. ThreadsOK'
  BY <1>1 DEF ThreadsOK, ThreadOK, Firing
<1>3. o.chain \in Runs /\ o.event \in Events
  BY DEF RestOK
<1>4. ledger' \in [Runs -> Seq(Events)]
  <2>1. ledger' = [ledger EXCEPT ![o.chain] = Append(@, o.event)] \/ ledger' = ledger
    BY DEF EndLate
  <2>2. ledger[o.chain] \in Seq(Events)
    BY <1>3 DEF RestOK
  <2>3. Append(ledger[o.chain], o.event) \in Seq(Events)
    BY <1>3, <2>2
  <2>. QED
    BY <2>1, <2>3 DEF RestOK
<1>5. RestOK'
  BY <1>4 DEF EndLate, ThreadUnchanged, RestOK
<1>. QED
  BY <1>2, <1>5

(* Every variable keeps its type, a thread waits only for a wrapper, and a *)
(* run that has not begun has no thread.                                   *)
THEOREM CrewTypeCorrect == Spec => []CrewTypeOK
<1>1. Init => CrewTypeOK
  BY DEF Init, CrewTypeOK, Hooks, Unwrapped, Phases, Stages
<1>2. CrewTypeOK /\ [Next]_crewVars => CrewTypeOK'
  <2>. SUFFICES ASSUME RestOK, ThreadsOK, [Next]_crewVars PROVE RestOK' /\ ThreadsOK'
    BY TypeParts, PTL
  <2>1. ASSUME NEW r \in Runs, ThreadStep(r) \/ Permit(r) \/ Refuse(r) PROVE RestOK' /\ ThreadsOK'
    BY <2>1, ThreadTyped
  <2>2. ASSUME NEW r \in Runs, LoopStep(r) \/ Begin(r) \/ InstallBreaks(r) \/ BeginFails(r) \/ Cancel(r)
        PROVE  RestOK' /\ ThreadsOK'
    BY <2>2, LoopTyped DEF LoopStep
  <2>3. ASSUME NEW o \in orphans, EndLate(o) PROVE RestOK' /\ ThreadsOK'
    BY <2>3, LateTyped
  <2>4. CASE UNCHANGED crewVars
    BY <2>4 DEF crewVars, RestOK, ThreadsOK, ThreadOK, Firing
  <2>. QED
    BY <2>1, <2>2, <2>3, <2>4 DEF Next
<1>. QED
  BY <1>1, <1>2, PTL DEF Spec

-----------------------------------------------------------------------------
(* Runs that do not overlap, of a crew that can be patched. *)

Alone(r) ==
  [before  |-> IF shape.before THEN <<r>> ELSE << >>,
   execute |-> IF PatchesAgents THEN <<r>> ELSE << >>,
   after   |-> IF shape.after THEN <<r>> ELSE << >>]

(* One chain is open at a time; while its run is under way the hooks hold  *)
(* its wrappers and nothing else, and its patch records are the originals. *)
SerialInv ==
  /\ \A p, q \in Runs : ChainOpen(p) /\ ChainOpen(q) => p = q
  /\ \A r \in Runs : phase[r] = "running" => hooks = Alone(r) /\ saved[r] = Unwrapped
  /\ (\A r \in Runs : phase[r] # "running") => hooks = Unwrapped

LEMMA SerialStep ==
  ASSUME ~Overlapping, ~Breakable, CrewTypeOK, SerialInv, [Next]_crewVars
  PROVE  SerialInv'
<1>. USE DEF CrewTypeOK
<1>1. ASSUME NEW r \in Runs, Begin(r) PROVE SerialInv'
  <2>1. phase' = [phase EXCEPT ![r] = "running"] /\ \A q \in Runs : ~ChainOpen(q)
    BY <1>1 DEF Begin
  <2>2. hooks = Unwrapped
    BY <2>1 DEF SerialInv, ChainOpen
  <2>3. hooks' = Alone(r) /\ saved' = [saved EXCEPT ![r] = Unwrapped] /\ shape' = shape
    BY <1>1, <2>2 DEF Begin, Wrapped, Unwrapped, Alone
  <2>4. \A q \in Runs : ChainOpen(q)' => q = r
    BY <2>1 DEF ChainOpen
  <2>5. \A q \in Runs : phase'[q] = "running" => q = r
    BY <2>4 DEF ChainOpen
  <2>6. (hooks = Alone(r))'
    BY <2>3 DEF Alone, PatchesAgents
  <2>7. saved'[r] = Unwrapped
    BY <2>3
  <2>8. \E q \in Runs : phase'[q] = "running"
    BY <2>1 DEF CrewTypeOK
  <2>. QED
    BY <2>4, <2>5, <2>6, <2>7, <2>8 DEF SerialInv, Unwrapped
<1>2. ASSUME NEW r \in Runs, Return(r) \/ Cancel(r) PROVE SerialInv'
  <2>1. /\ phase[r] = "running" /\ hooks' = saved[r] /\ saved' = saved
        /\ phase' = [phase EXCEPT ![r] = "closing"]
    BY <1>2 DEF Return, Cancel, Restore
  <2>2. \A q \in Runs : ChainOpen(q)' => ChainOpen(q)
    BY <2>1 DEF ChainOpen
  <2>3. \A q \in Runs : phase'[q] # "running"
    BY <2>1 DEF SerialInv, ChainOpen
  <2>4. hooks' = Unwrapped
    BY <2>1 DEF SerialInv
  <2>. QED
    BY <2>2, <2>3, <2>4 DEF SerialInv, Unwrapped
<1>3. ASSUME NEW r \in Runs, BeginFails(r) \/ Close(r) PROVE SerialInv'
  <2>1. /\ phase[r] # "running" /\ phase' = [phase EXCEPT ![r] = "ended"]
        /\ hooks' = hooks /\ saved' = saved /\ shape' = shape
    BY <1>3 DEF BeginFails, Close
  <2>2. \A q \in Runs : (ChainOpen(q)' => ChainOpen(q)) /\ (phase'[q] = "running" <=> phase[q] = "running")
    BY <2>1 DEF ChainOpen
  <2>. QED
    BY <2>1, <2>2 DEF SerialInv, Alone, PatchesAgents, Unwrapped
<1>4. CASE UNCHANGED <<shape, hooks, saved, phase>>
  BY <1>4 DEF SerialInv, Alone, PatchesAgents, Unwrapped, ChainOpen
<1>. QED
  BY <1>1, <1>2, <1>3, <1>4
     DEF Next, ThreadStep, LoopStep, InstallBreaks, Call, Enter, Execute, Returned, Done, Leave, Fire, TimeOut,
         Permit, Refuse, EndLate, ThreadUnchanged, crewVars

(* Where runs do not overlap and the crew can be patched, every            *)
(* cancellation, exception and return restores the crew: with no run under *)
(* way, no hook is wrapped.                                                *)
THEOREM SerialRunsRestore ==
  ASSUME ~Overlapping, ~Breakable
  PROVE  Spec => []HooksRestored
<1>1. Init => SerialInv
  BY DEF Init, SerialInv, ChainOpen
<1>2. CrewTypeOK /\ SerialInv /\ [Next]_crewVars => SerialInv'
  BY SerialStep
<1>3. SerialInv => HooksRestored
  BY DEF SerialInv, HooksRestored, Wrappers, Unwrapped
<1>. QED
  BY <1>1, <1>2, <1>3, CrewTypeCorrect, PTL DEF Spec

-----------------------------------------------------------------------------
(* What a governed task has behind it on its way to execution: its start   *)
(* event in the trail, or its run's wrapper still before it.               *)
EntryOK(e) ==
  /\ e.governed /\ e.outcome # "none" => Started(e)
  /\ e.n <= thread[e.run].n
  /\ e.n = thread[e.run].n /\ e.governed /\ thread[e.run].stage \in {"before", "start"}
       => Started(e) \/ thread[e.run].frames = <<e.run>>

GateInv == \A e \in ran : EntryOK(e)

(* The trail only grows. *)
Grows ==
  \A q \in Runs : \A i \in DOMAIN ledger[q] :
    i \in DOMAIN ledger'[q] /\ ledger'[q][i] = ledger[q][i]

LEMMA TrailGrows ==
  ASSUME CrewTypeOK, [Next]_crewVars
  PROVE  Grows
<1>1. CASE ledger' = ledger
  BY <1>1 DEF Grows
<1>2. ASSUME NEW q \in Runs, NEW v \in Events, ledger' = [ledger EXCEPT ![q] = Append(@, v)]
      PROVE  Grows
  <2>1. ledger[q] \in Seq(Events)
    BY DEF CrewTypeOK
  <2>2. \A i \in DOMAIN ledger[q] : i \in DOMAIN Append(ledger[q], v)
                                  /\ Append(ledger[q], v)[i] = ledger[q][i]
    BY <2>1
  <2>. QED
    BY <1>2, <2>2 DEF CrewTypeOK, Grows
<1>3. ASSUME NEW r \in Runs, Permit(r) PROVE Grows
  <2>1. Firing(thread[r]) /\ thread[r] \in Thread
    BY <1>3 DEF Permit, CrewTypeOK, Thread
  <2>2. Target(thread[r]) \in Runs /\ Event(r) \in Events
    BY <2>1, FiringTarget, EventType
  <2>3. ledger' = [ledger EXCEPT ![Target(thread[r])] = Append(@, Event(r))]
    BY <1>3 DEF Permit
  <2>. QED
    BY <2>2, <2>3, <1>2
<1>4. ASSUME NEW o \in orphans, EndLate(o) PROVE Grows
  <2>1. o.chain \in Runs /\ o.event \in Events
    BY DEF CrewTypeOK
  <2>2. ledger' = [ledger EXCEPT ![o.chain] = Append(@, o.event)] \/ ledger' = ledger
    BY <1>4 DEF EndLate
  <2>. QED
    BY <2>1, <2>2, <1>1, <1>2
<1>. QED
  BY <1>1, <1>3, <1>4
     DEF Next, ThreadStep, LoopStep, Call, Enter, Execute, Returned, Done, Leave, Fire, TimeOut,
         Refuse, Begin, InstallBreaks, BeginFails, Return, Cancel, Close, crewVars

LEMMA LedgerGrows ==
  ASSUME CrewTypeOK, [Next]_crewVars, NEW e \in ran, Started(e)
  PROVE  Started(e)'
<1>1. e.run \in Runs
  BY DEF CrewTypeOK
<1>. QED
  BY <1>1, TrailGrows DEF Started, In, Grows

(* A step that begins and executes no task. *)
LEMMA GateKept ==
  ASSUME GateInv, ran' = ran,
         \A e \in ran : Started(e) => Started(e)',
         \A e \in ran : thread'[e.run].n = thread[e.run].n,
         \A e \in ran : e.n = thread[e.run].n /\ thread'[e.run].stage \in {"before", "start"} =>
           /\ thread[e.run].stage \in {"before", "start"}
           /\ thread'[e.run].frames = thread[e.run].frames \/ (EntryOK(e) /\ e.governed => Started(e)')
  PROVE  GateInv'
<1>1. ASSUME NEW e \in ran PROVE EntryOK(e)'
  BY <1>1 DEF GateInv, EntryOK
<1>. QED
  BY <1>1 DEF GateInv

LEMMA GateStep ==
  ASSUME ~Overlapping, ~Breakable, CrewTypeOK, SerialInv, GateInv, [Next]_crewVars
  PROVE  GateInv'
<1>s. \A e \in ran : Started(e) => Started(e)'
  BY LedgerGrows
<1>r. \A e \in ran : e.run \in Runs /\ e.n \in Nat
  BY DEF CrewTypeOK
<1>t. thread \in [Runs -> Thread]
  BY DEF CrewTypeOK, Thread
<1>1. ASSUME NEW r \in Runs, Call(r) PROVE GateInv'
  <2>. DEFINE t == thread[r]
              u == [stage   |-> IF shape.before THEN "before" ELSE "start",
                    frames  |-> IF shape.before THEN hooks.before ELSE hooks.execute,
                    passed  |-> << >>,
                    waiting |-> FALSE,
                    n       |-> t.n + 1]
  <2>n. PICK new : new = [run |-> r, n |-> t.n + 1, governed |-> phase[r] = "running",
                          outcome |-> "none"]
    OBVIOUS
  <2>1. thread' = [thread EXCEPT ![r] = u] /\ ran' = ran \cup {new}
    BY <1>1, <2>n DEF Call, Goto
  <2>2. t.n \in Nat
    BY <1>t DEF Thread
  <2>3. phase[r] = "running" => u.frames = <<r>>
    BY DEF SerialInv, Alone, PatchesAgents
  <2>4. \A e \in ran : e.run = r => e.n <= t.n
    BY DEF GateInv, EntryOK
  <2>5. \A q \in Runs : thread'[q] = IF q = r THEN u ELSE thread[q]
    BY <2>1, <1>t
  <2>. HIDE DEF u, t
  <2>6. u.n = t.n + 1
    BY DEF u
  <2>7. ASSUME NEW e \in ran PROVE EntryOK(e)'
    <3>1. CASE e.run = r
      BY <3>1, <1>s, <1>r, <2>2, <2>4, <2>5, <2>6 DEF GateInv, EntryOK
    <3>2. CASE e.run # r
      BY <3>2, <1>s, <1>r, <2>5 DEF GateInv, EntryOK
    <3>. QED
      BY <3>1, <3>2
  <2>8. new.run = r /\ new.n = t.n + 1 /\ new.outcome = "none" /\ (new.governed => phase[r] = "running")
    BY <2>n
  <2>9. EntryOK(new)'
    BY <2>2, <2>3, <2>5, <2>6, <2>8 DEF EntryOK
  <2>. QED
    BY <2>1, <2>7, <2>9 DEF GateInv
<1>2. ASSUME NEW r \in Runs, Execute(r) PROVE GateInv'
  <2>. DEFINE t == thread[r]
  <2>1. t.stage = "start" /\ t.frames = << >>
    BY <1>2 DEF Execute
  <2>2. PICK o \in {"ok", "raised"} : ran' = Executed(r, o)
    BY <1>2 DEF Execute
  <2>3. PICK u : /\ thread' = [thread EXCEPT ![r] = u]
                 /\ u \in {[t EXCEPT !.stage = "end", !.passed = IF EmitEnd THEN @ ELSE << >>],
                            [t EXCEPT !.stage = "error"]}
    BY <1>2 DEF Execute, Goto
  <2>4. t \in Thread
    BY <1>t
  <2>5. u.n = t.n /\ u.stage \notin {"before", "start"}
    BY <2>3, <2>4 DEF Thread
  <2>6. \A q \in Runs : thread'[q] = IF q = r THEN u ELSE thread[q]
    BY <2>3, <1>t
  <2>7. ASSUME NEW e \in ran, e.run = r, e.n = t.n, e.governed PROVE Started(e)
    <3>1. EntryOK(e) /\ << >> # <<e.run>>
      BY DEF GateInv
    <3>. QED
      BY <2>1, <2>7, <3>1 DEF EntryOK
  <2>8. ASSUME NEW e \in ran, NEW f, f.run = e.run, f.n = e.n, f.governed = e.governed,
               f = e \/ (e.run = r /\ e.n = t.n)
        PROVE  EntryOK(f)'
    <3>1. e.governed /\ f.outcome # "none" => Started(e)'
      BY <2>7, <2>8, <1>s DEF GateInv, EntryOK
    <3>2. Started(e)' => Started(f)'
      BY <2>8 DEF Started
    <3>3. EntryOK(e) /\ e.run \in Runs
      BY <1>r DEF GateInv
    <3>. QED
      BY <2>5, <2>6, <2>8, <3>1, <3>2, <3>3, <1>s DEF EntryOK
  <2>9. ASSUME NEW f \in ran' PROVE EntryOK(f)'
    <3>1. PICK e \in ran : f = IF e.run = r /\ e.n = t.n THEN [e EXCEPT !.outcome = o] ELSE e
      BY <2>2 DEF Executed
    <3>2. f.run = e.run /\ f.n = e.n /\ f.governed = e.governed
      BY <3>1 DEF CrewTypeOK
    <3>. QED
      BY <3>1, <3>2, <2>8
  <2>. QED
    BY <2>9 DEF GateInv
<1>3. ASSUME NEW r \in Runs, Permit(r) PROVE GateInv'
  <2>. DEFINE t == thread[r]
  <2>1. thread' = [thread EXCEPT ![r] = Answered(t)] /\ ran' = ran
    BY <1>3 DEF Permit, Goto
  <2>2. Answered(t).n = t.n /\ Answered(t).stage = t.stage
    BY <1>t DEF Answered, Thread
  <2>3. \A q \in Runs : thread'[q] = IF q = r THEN Answered(t) ELSE thread[q]
    BY <2>1, <1>t
  <2>4. ASSUME NEW e \in ran, e.run = r, e.n = t.n, t.stage \in {"before", "start"}, t.frames = <<r>>
        PROVE  Started(e)'
    <3>1. Target(t) = r /\ Event(r) = [kind |-> "start", run |-> e.run, n |-> e.n]
      BY <2>4 DEF Target, Event, Kind, Inwards
    <3>2. ledger'[r] = Append(ledger[r], Event(r)) /\ ledger[r] \in Seq(Events)
      BY <1>3, <3>1 DEF Permit, CrewTypeOK
    <3>3. \E i \in DOMAIN ledger'[r] : ledger'[r][i] = Event(r)
      BY <3>2
    <3>. QED
      BY <2>4, <3>1, <3>3 DEF Started, In
  <2>5. ASSUME NEW e \in ran, e.run = r, e.n = t.n, t.stage \in {"before", "start"},
               EntryOK(e), e.governed
        PROVE  Started(e)'
    BY <2>4, <2>5, <1>s DEF EntryOK
  <2>. QED
    BY <1>s, <1>r, <2>1, <2>2, <2>3, <2>5, GateKept
<1>4. ASSUME NEW r \in Runs, Enter(r) PROVE GateInv'
  <2>. DEFINE t == thread[r]
  <2>1. t.stage = "before" /\ t.frames = << >> /\ ran' = ran
    BY <1>4 DEF Enter
  <2>2. PICK u : /\ thread' = [thread EXCEPT ![r] = u]
                 /\ u \in {[t EXCEPT !.stage = "start", !.frames = hooks.execute],
                            [t EXCEPT !.stage = "error"]}
    BY <1>4 DEF Enter, Goto
  <2>3. u.n = t.n
    BY <2>2, <1>t DEF Thread
  <2>4. \A q \in Runs : thread'[q] = IF q = r THEN u ELSE thread[q]
    BY <2>2, <1>t
  <2>5. ASSUME NEW e \in ran, e.run = r, e.n = t.n, EntryOK(e), e.governed PROVE Started(e)'
    <3>1. << >> # <<e.run>>
      OBVIOUS
    <3>. QED
      BY <2>1, <2>5, <3>1, <1>s DEF EntryOK
  <2>. QED
    BY <1>s, <1>r, <2>1, <2>3, <2>4, <2>5, GateKept
<1>5. ASSUME NEW r \in Runs, NEW u, thread' = [thread EXCEPT ![r] = u], u.n = thread[r].n, ran' = ran,
             \/ u.stage \notin {"before", "start"}
             \/ u.stage = thread[r].stage /\ u.frames = thread[r].frames
      PROVE  GateInv'
  <2>1. \A q \in Runs : thread'[q] = IF q = r THEN u ELSE thread[q]
    BY <1>5, <1>t
  <2>. QED
    BY <1>5, <1>s, <1>r, <2>1, GateKept
<1>6. ASSUME NEW r \in Runs, Returned(r) \/ Done(r) \/ Leave(r) \/ Fire(r) \/ Refuse(r) \/ TimeOut(r)
      PROVE  GateInv'
  <2>. DEFINE t == thread[r]
  <2>1. ran' = ran
    BY <1>6 DEF Returned, Done, Leave, Fire, Refuse, TimeOut
  <2>2. PICK u : /\ thread' = [thread EXCEPT ![r] = u]
                 /\ u \in {[t EXCEPT !.stage = "after", !.frames = hooks.after],
                            [t EXCEPT !.stage = "free"], [t EXCEPT !.stage = "error"],
                            [t EXCEPT !.stage = "over"], [t EXCEPT !.waiting = TRUE], Thrown(t)}
    BY <1>6 DEF Returned, Done, Leave, Fire, Refuse, TimeOut, Goto
  <2>3. /\ u.n = t.n
        /\ u.stage \notin {"before", "start"} \/ (u.stage = t.stage /\ u.frames = t.frames)
    <3>. t \in Thread
      BY <1>t
    <3>1. CASE u = Thrown(t)
      BY <3>1 DEF Thrown
    <3>2. CASE u = [t EXCEPT !.waiting = TRUE]
      BY <3>2 DEF Thread
    <3>3. CASE u \in {[t EXCEPT !.stage = "after", !.frames = hooks.after],
                      [t EXCEPT !.stage = "free"], [t EXCEPT !.stage = "error"],
                      [t EXCEPT !.stage = "over"]}
      BY <3>3 DEF Thread
    <3>. QED
      BY <2>2, <3>1, <3>2, <3>3
  <2>. QED
    BY <2>1, <2>2, <2>3, <1>5
<1>7. ASSUME NEW r \in Runs, Begin(r) PROVE GateInv'
  <2>1. thread' = [thread EXCEPT ![r] = [thread[r] EXCEPT !.stage = "free"]] /\ ran' = ran
    BY <1>7 DEF Begin
  <2>. QED
    BY <2>1, <1>t, <1>5 DEF Thread
<1>8. CASE thread' = thread /\ ran' = ran
  BY <1>8, <1>s, GateKept
<1>. QED
  BY <1>1, <1>2, <1>3, <1>4, <1>6, <1>7, <1>8
     DEF Next, ThreadStep, LoopStep, InstallBreaks, BeginFails, Return, Cancel, Close, EndLate, crewVars

(* Where runs do not overlap, a task called under governance executes only *)
(* after its run's chain has permitted it, in every interleaving of        *)
(* timeouts, late answers and cancellations.                               *)
THEOREM GovernedTasksAreGated ==
  ASSUME ~Overlapping, ~Breakable
  PROVE  Spec => []GatedWhileGoverned
<1>1. Init => SerialInv /\ GateInv
  BY DEF Init, SerialInv, ChainOpen, GateInv
<1>2. CrewTypeOK /\ SerialInv /\ GateInv /\ [Next]_crewVars => SerialInv' /\ GateInv'
  BY SerialStep, GateStep
<1>3. GateInv => GatedWhileGoverned
  BY DEF GateInv, EntryOK, GatedWhileGoverned
<1>. QED
  BY <1>1, <1>2, <1>3, CrewTypeCorrect, PTL DEF Spec

-----------------------------------------------------------------------------
(* The trail of runs that do not overlap. *)

Result(r, m) == [kind |-> "result", run |-> r, n |-> m]
Start(r, m) == [kind |-> "start", run |-> r, n |-> m]

Began(r, m) == In(ledger[r], Start(r, m))
Succeeded(r, m) == \E e \in ran : e.run = r /\ e.n = m /\ e.outcome = "ok"

(* How often a task's result is in its run's trail, and whether it may     *)
(* still come late.                                                        *)
Tally(r, m) == Count(ledger[r], Result(r, m))
Pending(r, m) == [chain |-> r, event |-> Result(r, m)] \in orphans

Unreported(r, m) == Tally(r, m) = 0 /\ ~Pending(r, m)
ReportedOnce(r, m) == Tally(r, m) = 1 /\ ~Pending(r, m)

(* There is at most one wrapper around a hook. *)
Short(s) == s = << >> \/ \E q \in Runs : s = <<q>>

ShortThread(t) ==
  /\ Short(t.frames) /\ Short(t.passed)
  /\ t.stage \in {"before", "after"} \/ (t.stage = "start" /\ t.frames # << >>) => t.passed = << >>

(* A task that has not executed has no outcome, and one whose end is being *)
(* reported has succeeded; its run's wrapper was permitted to start it.    *)
PlaceInv(r) ==
  LET t == thread[r]
  IN  /\ ShortThread(t)
      /\ t.stage \in {"before", "start"} =>
           /\ \E e \in ran : e.run = r /\ e.n = t.n
           /\ \A e \in ran : e.run = r /\ e.n = t.n => e.outcome = "none"
      /\ t.stage \in {"end", "after"} => Succeeded(r, t.n)
      /\ t.passed = <<r>> \/ (t.stage = "after" /\ t.frames = <<r>>) => Began(r, t.n)
      /\ phase[r] \in {"idle", "running"} => \A e \in ran : e.run = r => e.governed
      /\ \A d \in done : d.run = r =>
           /\ d.n < t.n \/ (d.n = t.n /\ t.stage \in {"free", "over"})
           /\ t.stage # "none"

(* A result in the trail, or one that may come late, is of a task that was *)
(* begun and succeeded.                                                    *)
ResultInv(r) ==
  /\ \A m \in Nat : Tally(r, m) # 0 \/ Pending(r, m) =>
       Began(r, m) /\ Succeeded(r, m) /\ m <= thread[r].n
  /\ \A m \in Nat : \A i \in DOMAIN ledger[r] : ledger[r][i] = Result(r, m) =>
       \E j \in 1 .. i - 1 : ledger[r][j] = Start(r, m)

Reports == shape.after \/ ~shape.before

(* While a run is under way, a task is reported by the last of its         *)
(* callbacks that report ends, and not before.                             *)
Reporting(r, t) ==
  /\ t.stage \in {"before", "start"} => Unreported(r, t.n)
  /\ t.stage = "start" /\ EmitEnd =>
       \/ t.frames = <<r>> /\ t.passed = << >>
       \/ t.frames = << >> /\ t.passed = <<r>>
  /\ t.stage = "end" =>
       \/ Unreported(r, t.n) /\ t.passed = IF EmitEnd THEN <<r>> ELSE << >>
       \/ ReportedOnce(r, t.n) /\ t.passed = << >> /\ EmitEnd
  /\ t.stage = "after" =>
       \/ Unreported(r, t.n) /\ t.frames = <<r>> /\ ~EmitEnd
       \/ ReportedOnce(r, t.n) /\ t.frames = << >>

ReportInv(r) ==
  phase[r] = "running" /\ Reports =>
    /\ Reporting(r, thread[r])
    /\ \A d \in done : d.run = r => ReportedOnce(r, d.n)

TrailInv == \A r \in Runs : PlaceInv(r) /\ ResultInv(r) /\ ReportInv(r)

LEMMA CountAppend ==
  ASSUME NEW S, NEW s \in Seq(S), NEW x \in S, NEW v
  PROVE  /\ Count(s, v) \in Nat
         /\ Count(Append(s, x), v) = IF x = v THEN Count(s, v) + 1 ELSE Count(s, v)
         /\ In(s, v) => Count(s, v) # 0
<1>. DEFINE at == {i \in DOMAIN s : s[i] = v}
            new == Len(s) + 1
<1>1. /\ DOMAIN s = 1 .. Len(s) /\ Len(s) \in Nat
      /\ DOMAIN Append(s, x) = 1 .. new
      /\ Append(s, x)[new] = x
      /\ \A i \in DOMAIN s : Append(s, x)[i] = s[i]
  OBVIOUS
<1>2. IsFiniteSet(at) /\ new \notin at
  <2>0. 1 \in Int /\ Len(s) \in Int
    OBVIOUS
  <2>1. IsFiniteSet(1 .. Len(s))
    BY <2>0, FS_Interval
  <2>2. at \subseteq 1 .. Len(s)
    BY <1>1
  <2>. QED
    BY <1>1, <2>1, <2>2, FS_Subset
<1>3. {i \in DOMAIN Append(s, x) : Append(s, x)[i] = v} = IF x = v THEN at \cup {new} ELSE at
  <2>1. DOMAIN Append(s, x) = DOMAIN s \cup {new}
    BY <1>1
  <2>. QED
    BY <1>1, <2>1
<1>4. Cardinality(at) \in Nat /\ (Cardinality(at) = 0 <=> at = {})
  BY <1>2, FS_CardinalityType, FS_EmptySet
<1>5. Cardinality(at \cup {new}) = Cardinality(at) + 1
  BY <1>2, FS_AddElement
<1>6. In(s, v) => at # {}
  BY DEF In
<1>. QED
  BY <1>3, <1>4, <1>5, <1>6 DEF Count

(* One event more in one trail. *)
LEMMA TallyAppend ==
  ASSUME CrewTypeOK, NEW q \in Runs, NEW v \in Events,
         ledger' = [ledger EXCEPT ![q] = Append(@, v)]
  PROVE  \A p \in Runs, m \in Nat :
           Tally(p, m)' = IF q = p /\ v = Result(p, m) THEN Tally(p, m) + 1 ELSE Tally(p, m)
<1>1. ledger \in [Runs -> Seq(Events)]
  BY DEF CrewTypeOK
<1>2. \A p \in Runs : ledger'[p] = IF q = p THEN Append(ledger[p], v) ELSE ledger[p]
  BY <1>1
<1>3. \A p \in Runs, m \in Nat :
        Count(Append(ledger[p], v), Result(p, m)) =
          IF v = Result(p, m) THEN Tally(p, m) + 1 ELSE Tally(p, m)
  BY <1>1, CountAppend DEF Tally
<1>4. ASSUME NEW p \in Runs, NEW m \in Nat
      PROVE  Tally(p, m)' = Count(ledger'[p], Result(p, m)) /\ Tally(p, m) = Count(ledger[p], Result(p, m))
  BY DEF Tally, Result
<1>. QED
  BY <1>2, <1>3, <1>4

LEMMA TallyType ==
  ASSUME CrewTypeOK, NEW p \in Runs, NEW m \in Nat
  PROVE  Tally(p, m) \in Nat
<1>1. ledger[p] \in Seq(Events) /\ Result(p, m) \in Events
  BY DEF CrewTypeOK, Result, Events, Kinds
<1>. QED
  BY <1>1, CountAppend DEF Tally

LEMMA BeganStays ==
  ASSUME CrewTypeOK, [Next]_crewVars, NEW p \in Runs, NEW m, Began(p, m)
  PROVE  Began(p, m)'
BY TrailGrows DEF Began, In, Grows, Start

(* In runs that do not overlap a hook has one wrapper, that of the run     *)
(* under way.                                                              *)
LEMMA OneWrapper ==
  ASSUME SerialInv
  PROVE  /\ Short(hooks.before) /\ Short(hooks.execute) /\ Short(hooks.after)
         /\ \A r \in Runs : hooks.after = <<r>> => phase[r] = "running"
         /\ \A r \in Runs : phase[r] = "running" =>
              /\ hooks.before = IF shape.before THEN <<r>> ELSE << >>
              /\ hooks.execute = IF PatchesAgents THEN <<r>> ELSE << >>
              /\ hooks.after = IF shape.after THEN <<r>> ELSE << >>
<1>1. CASE \E r \in Runs : phase[r] = "running"
  <2>1. PICK r \in Runs : phase[r] = "running"
    BY <1>1
  <2>2. hooks = Alone(r)
    BY <2>1 DEF SerialInv
  <2>3. \A q \in Runs : phase[q] = "running" => q = r
    BY <2>1 DEF SerialInv, ChainOpen
  <2>. QED
    BY <2>1, <2>2, <2>3 DEF Alone, Short
<1>2. CASE \A r \in Runs : phase[r] # "running"
  BY <1>2 DEF SerialInv, Unwrapped, Short
<1>. QED
  BY <1>1, <1>2

(* What a step leaves alone of a run keeps what is said of it. *)
LEMMA RunKept ==
  ASSUME NEW p \in Runs, PlaceInv(p), ReportInv(p), shape' = shape, thread'[p] = thread[p],
         thread[p].n \in Nat,
         phase'[p] = phase[p] \/ phase'[p] \notin {"idle", "running"},
         \A e : e.run = p => (e \in ran' <=> e \in ran),
         \A d : d.run = p => (d \in done' <=> d \in done),
         \A d \in done : d.n \in Nat,
         \A m \in Nat : /\ Began(p, m) => Began(p, m)'
                        /\ Unreported(p, m) => Unreported(p, m)'
                        /\ ReportedOnce(p, m) => ReportedOnce(p, m)'
  PROVE  PlaceInv(p)' /\ ReportInv(p)'
<1>1. /\ \A e : e \in ran' /\ e.run = p <=> e \in ran /\ e.run = p
      /\ \A d : d \in done' /\ d.run = p <=> d \in done /\ d.run = p
  OBVIOUS
<1>2. \A m : Succeeded(p, m)' <=> Succeeded(p, m)
  BY <1>1 DEF Succeeded
<1>3. PlaceInv(p)'
  BY <1>1, <1>2 DEF PlaceInv, ShortThread, Short
<1>4. ReportInv(p)'
  BY <1>1 DEF ReportInv, Reporting, Reports, EmitEnd, PatchesAgents
<1>. QED
  BY <1>3, <1>4

(* A step that puts no event in a trail or in a late coroutine. *)
LEMMA ResultKept ==
  ASSUME NEW p \in Runs, ResultInv(p), ledger' = ledger,
         \A m \in Nat : Pending(p, m)' => Pending(p, m),
         thread[p].n \in Nat, thread'[p].n \in Nat, thread[p].n <= thread'[p].n,
         \A m : Succeeded(p, m) => Succeeded(p, m)'
  PROVE  ResultInv(p)'
BY DEF ResultInv, Tally, Began, Result, Start

(* A step that does. *)
LEMMA ResultAppended ==
  ASSUME CrewTypeOK, NEW p \in Runs, NEW q \in Runs, NEW v \in Events,
         ResultInv(p), ledger' = [ledger EXCEPT ![q] = Append(@, v)],
         \A m \in Nat : Pending(p, m)' => Pending(p, m),
         ran' = ran, thread'[p].n = thread[p].n,
         \A m \in Nat : q = p /\ v = Result(p, m) =>
           Began(p, m) /\ Succeeded(p, m) /\ m <= thread[p].n
  PROVE  ResultInv(p)'
<1>1. /\ ledger[p] \in Seq(Events) /\ Len(ledger[p]) \in Nat
      /\ DOMAIN ledger[p] = 1 .. Len(ledger[p])
  BY DEF CrewTypeOK
<1>2. CASE p # q
  <2>1. ledger'[p] = ledger[p]
    BY <1>2 DEF CrewTypeOK
  <2>2. \A m \in Nat : /\ Tally(p, m)' = Tally(p, m)
                      /\ (Began(p, m)' <=> Began(p, m)) /\ (Succeeded(p, m)' <=> Succeeded(p, m))
    BY <2>1 DEF Tally, Began, Succeeded, Result, Start
  <2>3. \A m \in Nat : (Tally(p, m) # 0 \/ Pending(p, m))' =>
          Began(p, m)' /\ Succeeded(p, m)' /\ m <= thread'[p].n
    BY <2>2 DEF ResultInv
  <2>4. ASSUME NEW m \in Nat, NEW i \in DOMAIN ledger'[p], ledger'[p][i] = Result(p, m)
        PROVE  \E j \in 1 .. i - 1 : ledger'[p][j] = Start(p, m)
    BY <2>1, <2>4 DEF ResultInv
  <2>. QED
    BY <2>3, <2>4 DEF ResultInv, Result, Start
<1>3. CASE p = q
  <2>1. ledger'[p] = Append(ledger[p], v)
    BY <1>3 DEF CrewTypeOK
  <2>2. /\ DOMAIN ledger'[p] = DOMAIN ledger[p] \cup {Len(ledger[p]) + 1}
        /\ \A i \in DOMAIN ledger[p] : ledger'[p][i] = ledger[p][i]
        /\ ledger'[p][Len(ledger[p]) + 1] = v
    BY <1>1, <2>1
  <2>3. \A m : Began(p, m) => Began(p, m)'
    BY <2>2 DEF Began, In, Start
  <2>4. \A m \in Nat : (Tally(p, m) # 0 \/ Pending(p, m))' =>
          Tally(p, m) # 0 \/ Pending(p, m) \/ v = Result(p, m)
    <3>0. \A m \in Nat :
            Tally(p, m)' = IF q = p /\ v = Result(p, m) THEN Tally(p, m) + 1 ELSE Tally(p, m)
      BY TallyAppend
    <3>1. \A m \in Nat : Tally(p, m)' # 0 => Tally(p, m) # 0 \/ v = Result(p, m)
      <4>. SUFFICES ASSUME NEW m \in Nat, Tally(p, m)' # 0, v # Result(p, m) PROVE Tally(p, m) # 0
        OBVIOUS
      <4>. QED
        BY <3>0
    <3>. QED
      BY <3>1
  <2>5. \A m \in Nat : (Tally(p, m) # 0 \/ Pending(p, m))' =>
          Began(p, m)' /\ Succeeded(p, m)' /\ m <= thread'[p].n
    BY <1>3, <2>3, <2>4 DEF ResultInv, Succeeded
  <2>6. ASSUME NEW m \in Nat, NEW i \in DOMAIN ledger'[p], ledger'[p][i] = Result(p, m)
        PROVE  \E j \in 1 .. i - 1 : ledger'[p][j] = Start(p, m)
    <3>1. CASE i \in DOMAIN ledger[p]
      <4>1. PICK j \in 1 .. i - 1 : ledger[p][j] = Start(p, m)
        BY <2>2, <2>6, <3>1 DEF ResultInv
      <4>2. j \in DOMAIN ledger[p]
        BY <1>1, <3>1, <4>1
      <4>. QED
        BY <2>2, <4>1, <4>2
    <3>2. CASE i = Len(ledger[p]) + 1
      <4>1. Began(p, m)
        BY <1>3, <2>2, <2>6, <3>2
      <4>2. PICK j \in DOMAIN ledger[p] : ledger[p][j] = Start(p, m)
        BY <4>1 DEF Began, In
      <4>. QED
        BY <1>1, <2>2, <3>2, <4>2
    <3>. QED
      BY <2>2, <3>1, <3>2
  <2>. QED
    BY <2>5, <2>6 DEF ResultInv, Start, Result
<1>. QED
  BY <1>2, <1>3

(* A wrapper that reports a result reports one of a task that its chain    *)
(* let begin and that succeeded.                                           *)
LEMMA ReportBegun ==
  ASSUME NEW r \in Runs, PlaceInv(r), thread[r] \in Thread, Firing(thread[r]), Target(thread[r]) = r,
         NEW m, Event(r) = Result(r, m)
  PROVE  m = thread[r].n /\ Began(r, m) /\ Succeeded(r, m)
<1>. DEFINE t == thread[r]
<1>1. m = t.n /\ t.stage \in {"end", "after"}
  BY DEF Event, Result, Kind, Thread
<1>2. t.stage = "end" => t.passed = <<r>>
  BY DEF Firing, Target, Inwards, Outwards, PlaceInv, ShortThread, Short
<1>3. t.stage = "after" => t.frames = <<r>>
  BY DEF Firing, Target, Inwards, Outwards, PlaceInv, ShortThread, Short
<1>. QED
  BY <1>1, <1>2, <1>3 DEF PlaceInv

(* A thread moves on with the task it has. *)
LEMMA OwnMove ==
  ASSUME NEW r \in Runs, PlaceInv(r), NEW u, thread'[r] = u, u.n = thread[r].n, u.stage # "none",
         ran' = ran, done' = done, phase' = phase, ShortThread(u),
         u.stage \in {"before", "start"} => thread[r].stage \in {"before", "start"},
         u.stage \in {"end", "after"} => thread[r].stage \in {"end", "after"},
         thread[r].stage \in {"free", "over"} => u.stage \in {"free", "over"},
         u.passed = <<r>> \/ (u.stage = "after" /\ u.frames = <<r>>) => Began(r, u.n)'
  PROVE  PlaceInv(r)'
BY DEF PlaceInv, Succeeded, ShortThread, Short

LEMMA ShortHead ==
  ASSUME NEW s, Short(s), s # << >>
  PROVE  s = <<Head(s)>> /\ Tail(s) = << >> /\ Head(s) \in Runs
<1>1. PICK q \in Runs : s = <<q>>
  BY DEF Short
<1>. QED
  BY <1>1

LEMMA AnsweredPlace ==
  ASSUME NEW t \in Thread, ShortThread(t), Firing(t)
  PROVE  /\ ShortThread(Answered(t))
         /\ Answered(t).stage = t.stage /\ Answered(t).n = t.n
         /\ t.stage \in Inwards => t.frames = <<Target(t)>> /\ Answered(t).frames = << >>
         /\ t.stage \in {"before", "after"} => Answered(t).passed = << >>
         /\ t.stage = "start" => t.passed = << >> /\ Answered(t).passed = <<Target(t)>>
         /\ t.stage \in Outwards => t.passed = <<Target(t)>> /\ Answered(t).passed = << >>
<1>1. CASE t.stage \in Inwards
  <2>1. t.frames # << >> /\ Target(t) = Head(t.frames) /\ t.stage \notin Outwards
    BY <1>1 DEF Firing, Target, Inwards, Outwards
  <2>2. t.frames = <<Target(t)>> /\ Tail(t.frames) = << >> /\ Target(t) \in Runs
    BY <2>1, ShortHead DEF ShortThread
  <2>3. t.passed = << >>
    BY <1>1, <2>1 DEF ShortThread, Inwards
  <2>4. <<Head(t.frames)>> \o t.passed = <<Target(t)>>
    BY <2>1, <2>2, <2>3
  <2>. QED
    BY <1>1, <2>1, <2>2, <2>3, <2>4 DEF Answered, Thread, ShortThread, Short, Inwards, Outwards
<1>2. CASE t.stage \in Outwards
  <2>1. t.passed # << >> /\ Target(t) = Head(t.passed) /\ t.stage \notin Inwards
    BY <1>2 DEF Firing, Target, Inwards, Outwards
  <2>2. t.passed = <<Target(t)>> /\ Tail(t.passed) = << >>
    BY <2>1, ShortHead DEF ShortThread
  <2>. QED
    BY <1>2, <2>1, <2>2 DEF Answered, Thread, ShortThread, Short, Inwards, Outwards
<1>. QED
  BY <1>1, <1>2 DEF Firing

LEMMA ThrownPlace ==
  ASSUME NEW t \in Thread, ShortThread(t), Firing(t)
  PROVE  /\ ShortThread(Thrown(t))
         /\ Thrown(t).stage = "error" /\ Thrown(t).n = t.n
         /\ Thrown(t).passed = t.passed \/ Thrown(t).passed = << >>
         /\ t.stage \notin {"none", "free", "over"}
<1>1. t.stage \in Outwards => Tail(t.passed) = << >>
  BY ShortHead DEF ShortThread, Firing, Inwards, Outwards
<1>. QED
  BY <1>1 DEF Thrown, ShortThread, Short, Firing, Inwards, Outwards

(* What is said of a run that is not the one whose thread or loop moves.   *)
Kept(p) == PlaceInv(p)' /\ ResultInv(p)' /\ ReportInv(p)'

LEMMA LoopKept ==
  ASSUME CrewTypeOK, TrailInv, NEW p \in Runs, NEW r \in Runs,
         LoopStep(r) \/ Begin(r) \/ InstallBreaks(r) \/ BeginFails(r) \/ Cancel(r)
  PROVE  Kept(p)
<1>i. PlaceInv(p) /\ ResultInv(p) /\ ReportInv(p)
  BY DEF TrailInv
<1>t. thread \in [Runs -> Thread] /\ phase \in [Runs -> Phases] /\ thread[p] \in Thread
  BY DEF CrewTypeOK, Thread
<1>u. UNCHANGED <<shape, ledger, orphans, ran, done>>
  BY DEF LoopStep, Return, Close, Begin, InstallBreaks, BeginFails, Cancel
<1>m. /\ \A m : Tally(p, m)' = Tally(p, m) /\ (Pending(p, m)' <=> Pending(p, m))
      /\ \A m : (Began(p, m)' <=> Began(p, m)) /\ (Succeeded(p, m)' <=> Succeeded(p, m))
  BY <1>u DEF Tally, Pending, Began, Succeeded, Result, Start
<1>n. thread[p].n \in Nat /\ thread'[p].n = thread[p].n
  <2>1. thread' = thread \/ thread' = [thread EXCEPT ![r] = [thread[r] EXCEPT !.stage = "free"]]
    BY DEF LoopStep, Return, Close, Begin, InstallBreaks, BeginFails, Cancel
  <2>2. thread[p].n \in Nat
    BY <1>t DEF Thread
  <2>3. CASE p = r
    <3>1. thread' = thread \/ thread'[p] = [thread[p] EXCEPT !.stage = "free"]
      BY <1>t, <2>1, <2>3
    <3>. QED
      BY <1>t, <2>2, <3>1 DEF Thread
  <2>4. CASE p # r
    BY <1>t, <2>1, <2>2, <2>4
  <2>. QED
    BY <2>3, <2>4
<1>1. ResultInv(p)'
  BY <1>i, <1>u, <1>m, <1>n, ResultKept
<1>2. CASE Begin(r) /\ p = r
  <2>1. phase[p] = "idle" /\ thread[p].stage = "none"
    BY <1>2 DEF Begin, CrewTypeOK
  <2>2. thread'[p] = [thread[p] EXCEPT !.stage = "free"]
    BY <1>2, <1>t DEF Begin
  <2>3. /\ thread'[p].stage = "free" /\ thread'[p].n = thread[p].n
        /\ thread'[p].frames = thread[p].frames /\ thread'[p].passed = thread[p].passed
    BY <2>2, <1>t DEF Thread
  <2>4. PlaceInv(p)'
    BY <1>i, <1>u, <1>m, <2>1, <2>3 DEF PlaceInv, ShortThread, Short
  <2>5. \A d \in done : d.run # p
    BY <1>i, <2>1 DEF PlaceInv
  <2>6. ReportInv(p)'
    BY <1>u, <2>3, <2>5 DEF ReportInv, Reporting
  <2>. QED
    BY <1>1, <2>4, <2>6 DEF Kept
<1>3. CASE ~(Begin(r) /\ p = r)
  <2>1. thread'[p] = thread[p] /\ (phase'[p] = phase[p] \/ phase'[p] \notin {"idle", "running"})
    BY <1>3, <1>t DEF LoopStep, Return, Close, Begin, InstallBreaks, BeginFails, Cancel, Restore
  <2>2. \A d \in done : d.n \in Nat
    BY DEF CrewTypeOK
  <2>3. ASSUME NEW m \in Nat
        PROVE  /\ Began(p, m) => Began(p, m)'
               /\ Unreported(p, m) => Unreported(p, m)'
               /\ ReportedOnce(p, m) => ReportedOnce(p, m)'
    BY <1>m DEF Unreported, ReportedOnce
  <2>. QED
    BY <1>i, <1>u, <1>n, <1>1, <2>1, <2>2, <2>3, RunKept DEF Kept
<1>. QED
  BY <1>2, <1>3

(* An answer that comes late: what it adds was pending. *)
LEMMA LateKept ==
  ASSUME CrewTypeOK, [Next]_crewVars, TrailInv, NEW p \in Runs, NEW o \in orphans, EndLate(o)
  PROVE  Kept(p)
<1>i. PlaceInv(p) /\ ResultInv(p) /\ ReportInv(p)
  BY DEF TrailInv
<1>t. thread[p].n \in Nat /\ o.chain \in Runs /\ o.event \in Events
      /\ o = [chain |-> o.chain, event |-> o.event]
  BY DEF CrewTypeOK
<1>u. UNCHANGED <<shape, hooks, phase, thread, ran, done>> /\ orphans' = orphans \ {o}
  BY DEF EndLate, ThreadUnchanged
<1>p. \A m \in Nat : Pending(p, m)' => Pending(p, m)
  BY <1>u DEF Pending, Result
<1>o. \A m \in Nat : o.chain = p /\ o.event = Result(p, m) => Pending(p, m)
  BY <1>t DEF Pending
<1>s. \A m : Succeeded(p, m)' <=> Succeeded(p, m)
  BY <1>u DEF Succeeded
<1>b. \A m \in Nat : Began(p, m) => Began(p, m)'
  BY BeganStays
<1>d. \A d \in done : d.n \in Nat
  BY DEF CrewTypeOK
<1>1. CASE ledger' = ledger
  <2>1. ResultInv(p)'
    BY <1>i, <1>t, <1>u, <1>p, <1>s, <1>1, ResultKept
  <2>2. \A m \in Nat : Tally(p, m)' = Tally(p, m)
    BY <1>1 DEF Tally, Result
  <2>3. ASSUME NEW m \in Nat
        PROVE  /\ Unreported(p, m) => Unreported(p, m)'
               /\ ReportedOnce(p, m) => ReportedOnce(p, m)'
    BY <1>p, <2>2 DEF Unreported, ReportedOnce
  <2>. QED
    BY <1>i, <1>t, <1>u, <1>b, <1>d, <2>1, <2>3, RunKept DEF Kept
<1>2. CASE ledger' = [ledger EXCEPT ![o.chain] = Append(@, o.event)]
  <2>1. \A m \in Nat : o.chain = p /\ o.event = Result(p, m) =>
          Began(p, m) /\ Succeeded(p, m) /\ m <= thread[p].n
    BY <1>i, <1>o DEF ResultInv
  <2>2. ResultInv(p)'
    BY <1>i, <1>t, <1>u, <1>p, <1>2, <2>1, ResultAppended
  <2>3. \A m \in Nat : Tally(p, m)' = IF o.chain = p /\ o.event = Result(p, m)
                                      THEN Tally(p, m) + 1 ELSE Tally(p, m)
    <3>1. PICK q \in Runs, v \in Events : q = o.chain /\ v = o.event
      BY <1>t
    <3>2. ledger' = [ledger EXCEPT ![q] = Append(@, v)]
      BY <1>2, <3>1
    <3>3. \A w \in Runs, m \in Nat :
            Tally(w, m)' = IF q = w /\ v = Result(w, m) THEN Tally(w, m) + 1 ELSE Tally(w, m)
      BY <3>1, <3>2, TallyAppend
    <3>. QED
      BY <3>1, <3>3
  <2>4. ASSUME NEW m \in Nat
        PROVE  /\ Unreported(p, m) => Unreported(p, m)'
               /\ ReportedOnce(p, m) => ReportedOnce(p, m)'
    BY <1>p, <1>o, <2>3 DEF Unreported, ReportedOnce
  <2>. QED
    BY <1>i, <1>t, <1>u, <1>b, <1>d, <2>2, <2>4, RunKept DEF Kept
<1>. QED
  BY <1>1, <1>2 DEF EndLate

(* The steps of a thread put its own run's tasks in the trails of others,  *)
(* and nothing that is said of the others.                                 *)
LEMMA OthersKept ==
  ASSUME CrewTypeOK, [Next]_crewVars, TrailInv, NEW p \in Runs, NEW r \in Runs, p # r,
         ThreadStep(r) \/ Permit(r) \/ Refuse(r)
  PROVE  Kept(p)
<1>. DEFINE t == thread[r]
<1>i. PlaceInv(p) /\ ResultInv(p) /\ ReportInv(p)
  BY DEF TrailInv
<1>t. thread \in [Runs -> Thread] /\ thread[p].n \in Nat /\ t \in Thread /\ (t.waiting => Firing(t))
  BY DEF CrewTypeOK, Thread
<1>u. shape' = shape /\ phase' = phase
  BY DEF ThreadStep, Call, Enter, Execute, Returned, Done, Leave, Fire, TimeOut, Permit, Refuse,
         ThreadUnchanged
<1>1. thread'[p] = thread[p]
  BY <1>t DEF ThreadStep, Call, Enter, Execute, Returned, Done, Leave, Fire, TimeOut, Permit,
         Refuse, Goto
<1>2. \A e : e.run = p => (e \in ran' <=> e \in ran)
  <2>1. CASE Call(r)
    BY <2>1 DEF Call
  <2>2. CASE Execute(r)
    <3>1. PICK o \in {"ok", "raised"} : ran' = Executed(r, o)
      BY <2>2 DEF Execute
    <3>2. \A e \in ran : e.run = r => [e EXCEPT !.outcome = o].run = r
      BY DEF CrewTypeOK
    <3>. QED
      BY <3>1, <3>2 DEF Executed
  <2>3. CASE ran' = ran
    BY <2>3
  <2>. QED
    BY <2>1, <2>2, <2>3 DEF ThreadStep, Enter, Returned, Done, Leave, Fire, TimeOut, Permit, Refuse
<1>3. \A d : d.run = p => (d \in done' <=> d \in done)
  BY DEF ThreadStep, Call, Enter, Execute, Returned, Done, Leave, Fire, TimeOut, Permit, Refuse
<1>d. \A d \in done : d.n \in Nat
  BY DEF CrewTypeOK
<1>e. Event(r).run # p
  BY DEF Event
<1>p. \A m \in Nat : Pending(p, m)' => Pending(p, m)
  <2>1. orphans' = orphans \/ orphans' = orphans \cup {[chain |-> Target(t), event |-> Event(r)]}
    BY DEF ThreadStep, Call, Enter, Execute, Returned, Done, Leave, Fire, TimeOut, Permit, Refuse
  <2>. QED
    BY <1>e, <2>1 DEF Pending, Result
<1>s. \A m : Succeeded(p, m)' <=> Succeeded(p, m)
  BY <1>2 DEF Succeeded
<1>b. \A m \in Nat : Began(p, m) => Began(p, m)'
  BY BeganStays
<1>4. CASE ledger' = ledger
  <2>1. ResultInv(p)'
    BY <1>i, <1>t, <1>p, <1>s, <1>1, <1>4, ResultKept
  <2>2. ASSUME NEW m \in Nat
        PROVE  /\ Unreported(p, m) => Unreported(p, m)'
               /\ ReportedOnce(p, m) => ReportedOnce(p, m)'
    BY <1>p, <1>4 DEF Unreported, ReportedOnce, Tally, Result
  <2>. QED
    BY <1>i, <1>t, <1>u, <1>b, <1>d, <1>1, <1>2, <1>3, <2>1, <2>2, RunKept DEF Kept
<1>5. CASE Permit(r)
  <2>1. PICK q \in Runs, v \in Events : q = Target(t) /\ v = Event(r)
    BY <1>t, <1>5, FiringTarget, EventType DEF Permit
  <2>2. ledger' = [ledger EXCEPT ![q] = Append(@, v)] /\ ran' = ran
    BY <1>5, <2>1 DEF Permit
  <2>3. \A m : v # Result(p, m)
    BY <1>e, <2>1 DEF Result
  <2>4. ResultInv(p)'
    <3>1. \A m \in Nat : q = p /\ v = Result(p, m) =>
            Began(p, m) /\ Succeeded(p, m) /\ m <= thread[p].n
      BY <2>3
    <3>. QED
      BY <1>i, <1>p, <1>1, <2>1, <2>2, <3>1, ResultAppended
  <2>5. \A w \in Runs, m \in Nat :
          Tally(w, m)' = IF q = w /\ v = Result(w, m) THEN Tally(w, m) + 1 ELSE Tally(w, m)
    BY <2>1, <2>2, TallyAppend
  <2>6. ASSUME NEW m \in Nat
        PROVE  /\ Unreported(p, m) => Unreported(p, m)'
               /\ ReportedOnce(p, m) => ReportedOnce(p, m)'
    BY <1>p, <2>3, <2>5 DEF Unreported, ReportedOnce
  <2>. QED
    BY <1>i, <1>t, <1>u, <1>b, <1>d, <1>1, <1>2, <1>3, <2>4, <2>6, RunKept DEF Kept
<1>. QED
  BY <1>4, <1>5 DEF ThreadStep, Call, Enter, Execute, Returned, Done, Leave, Fire, TimeOut, Refuse

(* The crew calls a task. *)
LEMMA CallKept ==
  ASSUME CrewTypeOK, SerialInv, GateInv, TrailInv, NEW r \in Runs, Call(r)
  PROVE  Kept(r)
<1>. DEFINE t == thread[r]
            u == thread'[r]
<1>i. PlaceInv(r) /\ ResultInv(r) /\ ReportInv(r)
  BY DEF TrailInv
<1>t. thread \in [Runs -> Thread] /\ t \in Thread /\ t.n \in Nat /\ t.stage # "none"
  BY DEF CrewTypeOK, Thread, Call, Ready
<1>u. UNCHANGED <<shape, hooks, phase, ledger, orphans, done>>
  BY DEF Call, ThreadUnchanged
<1>m. /\ \A m : Tally(r, m)' = Tally(r, m) /\ (Pending(r, m)' <=> Pending(r, m))
      /\ \A m : Began(r, m)' <=> Began(r, m)
  BY <1>u DEF Tally, Pending, Began, Result, Start
<1>1. u = [stage   |-> IF shape.before THEN "before" ELSE "start",
           frames  |-> IF shape.before THEN hooks.before ELSE hooks.execute,
           passed  |-> << >>,
           waiting |-> FALSE,
           n       |-> t.n + 1]
  BY <1>t DEF Call, Goto
<1>2. u.stage \in {"before", "start"} /\ Short(u.frames) /\ u.passed = << >> /\ u.n = t.n + 1
  BY <1>1, OneWrapper
<1>3. PICK new : /\ ran' = ran \cup {new} /\ new.run = r /\ new.n = t.n + 1 /\ new.outcome = "none"
                 /\ phase[r] = "running" => new.governed
  <2>1. PICK g \in BOOLEAN :
          /\ ran' = ran \cup {[run |-> r, n |-> t.n + 1, governed |-> g, outcome |-> "none"]}
          /\ phase[r] = "running" => g
    <3>1. (phase[r] = "running") \in BOOLEAN
      OBVIOUS
    <3>. QED
      BY <3>1, Zenon DEF Call
  <2>2. PICK new : new = [run |-> r, n |-> t.n + 1, governed |-> g, outcome |-> "none"]
    OBVIOUS
  <2>3. new.run = r /\ new.n = t.n + 1 /\ new.outcome = "none" /\ new.governed = g
    BY <2>2
  <2>. QED
    BY <2>1, <2>2, <2>3
<1>4. \A e \in ran : e.run = r => e.n \in Nat /\ e.n <= t.n
  BY DEF GateInv, EntryOK, CrewTypeOK
<1>5. phase[r] # "idle"
  BY <1>t DEF CrewTypeOK
<1>6. \A d \in done : d.run = r => d.n \in Nat /\ d.n <= t.n
  <2>1. \A d \in done : d.n \in Nat
    BY DEF CrewTypeOK
  <2>2. \A d \in done : d.run = r => d.n < t.n \/ d.n = t.n
    BY <1>i DEF PlaceInv
  <2>. QED
    BY <1>t, <2>1, <2>2
<1>. HIDE DEF t, u
<1>7. PlaceInv(r)'
  <2>1. \A e \in ran' : e.run = r /\ e.n = u.n => e.outcome = "none"
    BY <1>t, <1>2, <1>3, <1>4
  <2>2. phase[r] = "running" => \A e \in ran' : e.run = r => e.governed
    BY <1>i, <1>3 DEF PlaceInv
  <2>3. \A d \in done' : d.run = r => d.n < u.n
    BY <1>t, <1>u, <1>2, <1>6
  <2>4. ShortThread(u)
    BY <1>2 DEF ShortThread, Short
  <2>5. \E e \in ran' : e.run = r /\ e.n = u.n
    BY <1>2, <1>3
  <2>. QED
    BY <1>u, <1>2, <1>5, <2>1, <2>2, <2>3, <2>4, <2>5 DEF PlaceInv, ShortThread, Short, u
<1>8. ResultInv(r)'
  <2>1. \A m \in Nat : Pending(r, m)' => Pending(r, m)
    BY <1>m
  <2>2. \A m : Succeeded(r, m) => Succeeded(r, m)'
    BY <1>3 DEF Succeeded
  <2>3. thread[r].n \in Nat /\ thread'[r].n \in Nat /\ thread[r].n <= thread'[r].n
    BY <1>t, <1>2 DEF t, u
  <2>. QED
    BY <1>i, <1>u, <2>1, <2>2, <2>3, ResultKept
<1>9. ReportInv(r)'
  <2>1. Unreported(r, u.n)
    BY <1>i, <1>t, <1>2 DEF ResultInv, Unreported, t
  <2>2. phase[r] = "running" /\ u.stage = "start" /\ EmitEnd => u.frames = <<r>>
    BY <1>1, OneWrapper DEF EmitEnd, PatchesAgents
  <2>3. \A m : /\ Unreported(r, m) <=> Tally(r, m)' = 0 /\ ~Pending(r, m)'
               /\ ReportedOnce(r, m) <=> Tally(r, m)' = 1 /\ ~Pending(r, m)'
    BY <1>m DEF Unreported, ReportedOnce
  <2>. QED
    BY <1>i, <1>u, <1>2, <2>1, <2>2, <2>3
       DEF ReportInv, Reporting, Reports, EmitEnd, PatchesAgents, Unreported, ReportedOnce, u
<1>. QED
  BY <1>7, <1>8, <1>9 DEF Kept

(* A thread moves on with the task it has, and no trail or task changes.   *)
LEMMA QuietMove ==
  ASSUME CrewTypeOK, TrailInv, NEW r \in Runs, NEW u, thread'[r] = u, u.n = thread[r].n,
         u.stage # "none", ShortThread(u), UNCHANGED <<shape, phase, ledger, orphans, ran, done>>,
         u.stage \in {"before", "start"} => thread[r].stage \in {"before", "start"},
         u.stage \in {"end", "after"} => thread[r].stage \in {"end", "after"},
         thread[r].stage \in {"free", "over"} => u.stage \in {"free", "over"},
         u.passed = <<r>> \/ (u.stage = "after" /\ u.frames = <<r>>) => Began(r, u.n),
         phase[r] = "running" /\ Reports => Reporting(r, u)
  PROVE  Kept(r)
<1>i. PlaceInv(r) /\ ResultInv(r) /\ ReportInv(r)
  BY DEF TrailInv
<1>n. thread[r].n \in Nat
  BY DEF CrewTypeOK
<1>m. /\ \A m : Tally(r, m)' = Tally(r, m) /\ (Pending(r, m)' <=> Pending(r, m))
      /\ \A m : (Began(r, m)' <=> Began(r, m)) /\ (Succeeded(r, m)' <=> Succeeded(r, m))
  BY DEF Tally, Pending, Began, Succeeded, Result, Start
<1>1. PlaceInv(r)'
  <2>1. u.passed = <<r>> \/ (u.stage = "after" /\ u.frames = <<r>>) => Began(r, u.n)'
    BY DEF Began, Start
  <2>. QED
    BY <1>i, <2>1, OwnMove
<1>2. ResultInv(r)'
  <2>1. \A m \in Nat : Pending(r, m)' => Pending(r, m)
    BY <1>m
  <2>2. \A m : Succeeded(r, m) => Succeeded(r, m)'
    BY <1>m
  <2>. QED
    BY <1>i, <1>n, <2>1, <2>2, ResultKept
<1>3. ReportInv(r)'
  <2>1. \A m : /\ Unreported(r, m) <=> Tally(r, m)' = 0 /\ ~Pending(r, m)'
               /\ ReportedOnce(r, m) <=> Tally(r, m)' = 1 /\ ~Pending(r, m)'
    BY <1>m DEF Unreported, ReportedOnce
  <2>2. ReportedOnce(r, u.n) <=> ReportedOnce(r, u.n)'
    BY <2>1 DEF ReportedOnce
  <2>3. Unreported(r, u.n) <=> Unreported(r, u.n)'
    BY <2>1 DEF Unreported
  <2>4. ASSUME NEW d \in done, d.run = r, ReportedOnce(r, d.n) PROVE ReportedOnce(r, d.n)'
    BY <2>1, <2>4 DEF ReportedOnce
  <2>5. (Reports' <=> Reports) /\ (EmitEnd' <=> EmitEnd)
    BY DEF Reports, EmitEnd, PatchesAgents
  <2>6. phase[r] = "running" /\ Reports => Reporting(r, u)'
    BY <2>2, <2>3, <2>5 DEF Reporting
  <2>. QED
    BY <1>i, <2>4, <2>5, <2>6 DEF ReportInv, Reporting
<1>. QED
  BY <1>1, <1>2, <1>3 DEF Kept

LEMMA QuietKept ==
  ASSUME CrewTypeOK, SerialInv, GateInv, TrailInv, NEW r \in Runs,
         Enter(r) \/ Returned(r) \/ (Done(r) /\ done' = done) \/ Leave(r) \/ Fire(r) \/ Refuse(r)
  PROVE  Kept(r)
<1>. DEFINE t == thread[r]
<1>i. PlaceInv(r) /\ ReportInv(r)
  BY DEF TrailInv
<1>t. /\ thread \in [Runs -> Thread] /\ t \in Thread /\ (t.waiting => Firing(t))
      /\ ShortThread(t)
  BY <1>i DEF CrewTypeOK, Thread, PlaceInv
<1>u. UNCHANGED <<shape, hooks, phase, ledger, orphans, ran, done>>
  BY DEF Enter, Returned, Done, Leave, Fire, Refuse, ThreadUnchanged
<1>b. t.passed = <<r>> => Began(r, t.n)
  BY <1>i DEF PlaceInv
<1>h. /\ Short(hooks.before) /\ Short(hooks.execute) /\ Short(hooks.after)
      /\ phase[r] = "running" /\ PatchesAgents => hooks.execute = <<r>>
      /\ phase[r] = "running" => hooks.after = IF shape.after THEN <<r>> ELSE << >>
      /\ hooks.after = <<r>> => phase[r] = "running"
  BY OneWrapper
<1>1. CASE Enter(r)
  <2>1. t.stage = "before" /\ t.frames = << >> /\ t.passed = << >>
    BY <1>1, <1>t DEF Enter, ShortThread
  <2>2. PICK u : /\ thread'[r] = u
                 /\ u \in {[t EXCEPT !.stage = "start", !.frames = hooks.execute],
                            [t EXCEPT !.stage = "error"]}
    BY <1>1, <1>t DEF Enter, Goto
  <2>3. /\ u.n = t.n /\ u.passed = << >>
        /\ \/ u.stage = "start" /\ u.frames = hooks.execute
           \/ u.stage = "error" /\ u.frames = << >>
    BY <1>t, <2>1, <2>2 DEF Thread
  <2>. HIDE DEF t
  <2>4. phase[r] = "running" /\ Reports => Reporting(r, u)
    <3>. SUFFICES ASSUME phase[r] = "running", Reports PROVE Reporting(r, u)
      OBVIOUS
    <3>1. Unreported(r, u.n)
      BY <1>i, <2>1, <2>3 DEF ReportInv, Reporting, t
    <3>2. u.stage = "start" /\ EmitEnd => u.frames = <<r>>
      BY <1>h, <2>3 DEF EmitEnd
    <3>. QED
      BY <2>3, <3>1, <3>2 DEF Reporting
  <2>5. ShortThread(u) /\ u.stage # "none"
    BY <1>h, <2>3 DEF ShortThread, Short
  <2>6. /\ ~(u.passed = <<r>> \/ (u.stage = "after" /\ u.frames = <<r>>))
        /\ u.stage \notin {"end", "after"} /\ t.stage \notin {"free", "over"}
    BY <2>1, <2>3
  <2>. QED
    BY <1>u, <2>1, <2>2, <2>3, <2>4, <2>5, <2>6, QuietMove DEF t
<1>2. CASE Returned(r)
  <2>. DEFINE u == [t EXCEPT !.stage = "after", !.frames = hooks.after]
  <2>1. t.stage = "end" /\ t.passed = << >> /\ thread'[r] = u
    BY <1>2, <1>t DEF Returned, Goto
  <2>2. u.stage = "after" /\ u.frames = hooks.after /\ u.passed = << >> /\ u.n = t.n
    BY <1>t, <2>1 DEF Thread
  <2>3. hooks.after = <<r>> => Began(r, t.n)
    <3>. SUFFICES ASSUME hooks.after = <<r>> PROVE Began(r, t.n)
      OBVIOUS
    <3>1. PICK e \in ran : e.run = r /\ e.n = t.n /\ e.outcome = "ok"
      BY <1>i, <2>1 DEF PlaceInv, Succeeded
    <3>2. e.governed
      BY <1>i, <1>h, <3>1 DEF PlaceInv
    <3>3. Started(e)
      BY <3>1, <3>2 DEF GateInv, EntryOK
    <3>. QED
      BY <3>1, <3>3 DEF Started, Began, Start
  <2>. HIDE DEF u, t
  <2>4. phase[r] = "running" /\ Reports => Reporting(r, u)
    <3>1. Reports /\ ~EmitEnd => shape.after
      BY DEF Reports, EmitEnd, PatchesAgents
    <3>2. EmitEnd => ~shape.after
      BY DEF EmitEnd
    <3>. QED
      BY <1>i, <1>h, <2>1, <2>2, <3>1, <3>2 DEF ReportInv, Reporting, t
  <2>5. ShortThread(u)
    BY <1>h, <2>2 DEF ShortThread, Short
  <2>6. u.passed = <<r>> \/ (u.stage = "after" /\ u.frames = <<r>>) => Began(r, u.n)
    BY <2>2, <2>3
  <2>7. /\ u.stage \notin {"none", "before", "start"} /\ t.stage \notin {"free", "over"}
        /\ t.stage = "end"
    BY <2>1, <2>2
  <2>. QED
    BY <1>u, <2>1, <2>2, <2>4, <2>5, <2>6, <2>7, QuietMove DEF t
<1>3. CASE (Done(r) /\ done' = done) \/ Leave(r) \/ Fire(r)
  <2>1. PICK u : /\ thread'[r] = u
                 /\ \/ /\ t.stage = "after" /\ t.frames = << >>
                       /\ u \in {[t EXCEPT !.stage = "free"], [t EXCEPT !.stage = "error"]}
                    \/ /\ t.stage \in {"free", "error"}
                       /\ u = [t EXCEPT !.stage = "over"]
                    \/ /\ t.stage \in Inwards \cup Outwards
                       /\ u = [t EXCEPT !.waiting = TRUE]
    BY <1>3, <1>t DEF Done, Leave, Ready, Fire, Firing, Goto
  <2>2. /\ u.frames = t.frames /\ u.passed = t.passed /\ u.n = t.n
        /\ \/ u.stage \in {"free", "error"} /\ t.stage = "after" /\ t.frames = << >>
           \/ u.stage = "over" /\ t.stage \in {"free", "error"}
           \/ u.stage = t.stage /\ t.stage \in Inwards \cup Outwards
    BY <1>t, <2>1 DEF Thread
  <2>. HIDE DEF t
  <2>3. ShortThread(u) /\ u.stage # "none"
    BY <1>t, <2>2 DEF ShortThread, Short, Inwards, Outwards
  <2>4. phase[r] = "running" /\ Reports => Reporting(r, u)
    BY <1>i, <2>2 DEF ReportInv, Reporting, t
  <2>5. u.passed = <<r>> \/ (u.stage = "after" /\ u.frames = <<r>>) => Began(r, u.n)
    BY <1>i, <2>2 DEF PlaceInv, t
  <2>6. /\ u.stage \in {"before", "start"} => t.stage \in {"before", "start"}
        /\ u.stage \in {"end", "after"} => t.stage \in {"end", "after"}
        /\ t.stage \in {"free", "over"} => u.stage \in {"free", "over"}
    BY <2>2 DEF Inwards, Outwards
  <2>. QED
    BY <1>u, <2>1, <2>2, <2>3, <2>4, <2>5, <2>6, QuietMove DEF t
<1>4. CASE Refuse(r)
  <2>. DEFINE u == Thrown(t)
  <2>1. thread'[r] = u /\ Firing(t)
    BY <1>4, <1>t DEF Refuse, Goto
  <2>2. /\ ShortThread(u) /\ u.stage = "error" /\ u.n = t.n
        /\ u.passed = t.passed \/ u.passed = << >>
        /\ t.stage \notin {"none", "free", "over"}
    BY <1>t, <2>1, ThrownPlace
  <2>. HIDE DEF u, t
  <2>3. Reporting(r, u)
    BY <2>2 DEF Reporting
  <2>. QED
    BY <1>u, <1>b, <2>1, <2>2, <2>3, QuietMove DEF t
<1>. QED
  BY <1>1, <1>2, <1>3, <1>4

(* The callbacks of a task have returned. *)
LEMMA DoneKept ==
  ASSUME CrewTypeOK, SerialInv, GateInv, TrailInv, NEW r \in Runs, Done(r)
  PROVE  Kept(r)
<1>. DEFINE t == thread[r]
            u == [t EXCEPT !.stage = "free"]
            d == [run |-> r, n |-> t.n]
<1>i. PlaceInv(r) /\ ResultInv(r) /\ ReportInv(r)
  BY DEF TrailInv
<1>t. thread \in [Runs -> Thread] /\ t \in Thread /\ t.n \in Nat
  BY DEF CrewTypeOK, Thread
<1>1. CASE done' = done
  BY <1>1, QuietKept
<1>2. CASE done' = done \cup {d} /\ thread' = [thread EXCEPT ![r] = u]
  <2>1. t.stage = "after" /\ t.frames = << >> /\ thread'[r] = u
    BY <1>2, <1>t DEF Done
  <2>2. UNCHANGED <<shape, phase, ledger, orphans, ran>>
    BY DEF Done, ThreadUnchanged
  <2>3. u.stage = "free" /\ u.n = t.n /\ u.frames = t.frames /\ u.passed = t.passed
    BY <1>t DEF Thread
  <2>4. d.run = r /\ d.n = t.n
    OBVIOUS
  <2>m. /\ \A m : Tally(r, m)' = Tally(r, m) /\ (Pending(r, m)' <=> Pending(r, m))
        /\ \A m : (Began(r, m)' <=> Began(r, m)) /\ (Succeeded(r, m)' <=> Succeeded(r, m))
    BY <2>2 DEF Tally, Pending, Began, Succeeded, Result, Start
  <2>. HIDE DEF t, u, d
  <2>5. PlaceInv(r)'
    <3>1. t.passed # <<r>>
      BY <1>i, <2>1 DEF PlaceInv, ShortThread, t
    <3>2. ShortThread(u)
      BY <1>i, <2>3 DEF PlaceInv, ShortThread, Short, t
    <3>3. \A e \in done' : e.run = r => e.n < u.n \/ e.n = u.n
      BY <1>i, <1>2, <2>3, <2>4 DEF PlaceInv, t
    <3>. QED
      BY <1>i, <2>1, <2>2, <2>3, <3>1, <3>2, <3>3 DEF PlaceInv, ShortThread, Short
  <2>6. ResultInv(r)'
    <3>1. \A m \in Nat : Pending(r, m)' => Pending(r, m)
      BY <2>m
    <3>2. \A m : Succeeded(r, m) => Succeeded(r, m)'
      BY <2>m
    <3>3. thread[r].n \in Nat /\ thread'[r].n \in Nat /\ thread[r].n <= thread'[r].n
      BY <1>t, <2>1, <2>3 DEF t
    <3>. QED
      BY <1>i, <2>2, <3>1, <3>2, <3>3, ResultKept
  <2>7. ReportInv(r)'
    <3>1. phase[r] = "running" /\ Reports => ReportedOnce(r, t.n)
      BY <1>i, <2>1 DEF ReportInv, Reporting, t
    <3>2. \A m : ReportedOnce(r, m) <=> Tally(r, m)' = 1 /\ ~Pending(r, m)'
      BY <2>m DEF ReportedOnce
    <3>3. Reports' <=> Reports
      BY <2>2 DEF Reports
    <3>4. phase[r] = "running" /\ Reports => \A e \in done' : e.run = r => ReportedOnce(r, e.n)
      BY <1>i, <1>2, <2>4, <3>1 DEF ReportInv
    <3>. QED
      BY <2>1, <2>2, <2>3, <3>2, <3>3, <3>4 DEF ReportInv, Reporting, ReportedOnce
  <2>. QED
    BY <2>5, <2>6, <2>7 DEF Kept
<1>. QED
  BY <1>1, <1>2 DEF Done, Goto

(* The task executes, and returns or raises. *)
LEMMA ExecuteKept ==
  ASSUME CrewTypeOK, TrailInv, NEW r \in Runs, Execute(r)
  PROVE  Kept(r)
<1>. DEFINE t == thread[r]
            good == [t EXCEPT !.stage = "end", !.passed = IF EmitEnd THEN @ ELSE << >>]
            bad == [t EXCEPT !.stage = "error"]
<1>i. PlaceInv(r) /\ ResultInv(r) /\ ReportInv(r)
  BY DEF TrailInv
<1>t. thread \in [Runs -> Thread] /\ t \in Thread /\ t.n \in Nat
  BY DEF CrewTypeOK, Thread
<1>s. t.stage = "start" /\ t.frames = << >>
  BY DEF Execute
<1>u. UNCHANGED <<shape, phase, ledger, orphans, done>>
  BY DEF Execute, ThreadUnchanged
<1>1. PICK o \in {"ok", "raised"}, u \in {good, bad} :
        /\ thread' = [thread EXCEPT ![r] = u] /\ ran' = Executed(r, o)
        /\ (o = "ok" /\ u = good) \/ (o = "raised" /\ u = bad)
  <2>1. \/ thread' = [thread EXCEPT ![r] = good] /\ ran' = Executed(r, "ok")
        \/ thread' = [thread EXCEPT ![r] = bad] /\ ran' = Executed(r, "raised")
    BY DEF Execute, Goto
  <2>. HIDE DEF good, bad
  <2>. QED
    BY <2>1
<1>2. /\ thread'[r] = u /\ u.n = t.n /\ u.frames = << >>
      /\ \/ o = "ok" /\ u.stage = "end" /\ u.passed = IF EmitEnd THEN t.passed ELSE << >>
         \/ o = "raised" /\ u.stage = "error" /\ u.passed = t.passed
  BY <1>t, <1>s, <1>1 DEF Thread
<1>3. ASSUME NEW e \in ran
      PROVE  \E f \in ran' : /\ f.run = e.run /\ f.n = e.n /\ f.governed = e.governed
                             /\ f.outcome = IF e.run = r /\ e.n = t.n THEN o ELSE e.outcome
  <2>1. PICK f : f = IF e.run = r /\ e.n = t.n THEN [e EXCEPT !.outcome = o] ELSE e
    OBVIOUS
  <2>2. f \in ran'
    BY <1>1, <2>1 DEF Executed
  <2>3. /\ f.run = e.run /\ f.n = e.n /\ f.governed = e.governed
        /\ f.outcome = IF e.run = r /\ e.n = t.n THEN o ELSE e.outcome
    BY <2>1 DEF CrewTypeOK
  <2>. QED
    BY <2>2, <2>3
<1>4. \A f \in ran' : \E e \in ran : f.run = e.run /\ f.governed = e.governed
  BY <1>1 DEF Executed, CrewTypeOK
<1>5. PICK e \in ran : e.run = r /\ e.n = t.n
  BY <1>i, <1>s DEF PlaceInv
<1>m. \A m : /\ Tally(r, m)' = Tally(r, m) /\ (Pending(r, m)' <=> Pending(r, m))
             /\ Began(r, m)' <=> Began(r, m)
  BY <1>u DEF Tally, Pending, Began, Result, Start
<1>6. \A m : Succeeded(r, m) => Succeeded(r, m)'
  <2>1. \A f \in ran : f.run = r /\ f.n = t.n => f.outcome = "none"
    BY <1>i, <1>s DEF PlaceInv
  <2>. QED
    BY <1>3, <2>1 DEF Succeeded
<1>. HIDE DEF t
<1>7. PlaceInv(r)'
  <2>1. u.stage = "end" => Succeeded(r, u.n)'
    BY <1>2, <1>3, <1>5 DEF Succeeded
  <2>2. ShortThread(u)
    BY <1>i, <1>2 DEF PlaceInv, ShortThread, Short, t
  <2>3. u.passed = <<r>> => Began(r, u.n)'
    BY <1>i, <1>2, <1>m DEF PlaceInv, t, Began
  <2>4. \A d \in done : d.run = r => d.n < u.n
    BY <1>i, <1>s, <1>2 DEF PlaceInv, t
  <2>5. phase[r] \in {"idle", "running"} => \A f \in ran' : f.run = r => f.governed
    BY <1>i, <1>4 DEF PlaceInv
  <2>. QED
    BY <1>u, <1>2, <2>1, <2>2, <2>3, <2>4, <2>5 DEF PlaceInv, ShortThread, Short
<1>8. ResultInv(r)'
  <2>1. \A m \in Nat : Pending(r, m)' => Pending(r, m)
    BY <1>m
  <2>2. thread[r].n \in Nat /\ thread'[r].n \in Nat /\ thread[r].n <= thread'[r].n
    BY <1>t, <1>2 DEF t
  <2>. QED
    BY <1>i, <1>u, <1>6, <2>1, <2>2, ResultKept
<1>9. ReportInv(r)'
  <2>. SUFFICES ASSUME phase'[r] = "running", Reports'
                PROVE  Reporting(r, u)' /\ \A d \in done' : d.run = r => ReportedOnce(r, d.n)'
    BY <1>2 DEF ReportInv, Reporting
  <2>1. phase[r] = "running" /\ Reports /\ (EmitEnd' <=> EmitEnd)
    BY <1>u DEF Reports, EmitEnd, PatchesAgents
  <2>2. Unreported(r, t.n) /\ (EmitEnd => t.passed = <<r>>)
    BY <1>i, <1>s, <2>1 DEF ReportInv, Reporting, t
  <2>3. Unreported(r, u.n)'
    BY <1>2, <1>m, <2>2 DEF Unreported
  <2>4. Reporting(r, u)'
    BY <1>2, <2>1, <2>2, <2>3 DEF Reporting
  <2>5. \A d \in done : d.run = r => ReportedOnce(r, d.n)'
    BY <1>i, <1>m, <2>1 DEF ReportInv, ReportedOnce
  <2>. QED
    BY <1>u, <2>4, <2>5
<1>. QED
  BY <1>7, <1>8, <1>9 DEF Kept

(* A wrapper's answer arrives while its thread waits. *)
LEMMA PermitKept ==
  ASSUME CrewTypeOK, [Next]_crewVars, TrailInv, NEW r \in Runs, Permit(r)
  PROVE  Kept(r)
<1>r. PICK t, u : t = thread[r] /\ u = Answered(t)
  OBVIOUS
<1>i. PlaceInv(r) /\ ResultInv(r) /\ ReportInv(r) /\ ShortThread(t)
  BY <1>r DEF TrailInv, PlaceInv
<1>t. thread \in [Runs -> Thread] /\ t \in Thread /\ t.n \in Nat /\ Firing(t)
  BY <1>r DEF CrewTypeOK, Thread, Permit
<1>u. UNCHANGED <<shape, phase, orphans, ran, done>> /\ thread'[r] = u
  BY <1>r, <1>t DEF Permit, ThreadUnchanged, Goto
<1>1. PICK q \in Runs, v \in Events : q = Target(t) /\ v = Event(r)
  BY <1>r, <1>t, FiringTarget, EventType
<1>2. ledger' = [ledger EXCEPT ![q] = Append(@, v)]
  BY <1>r, <1>1 DEF Permit
<1>3. \A w \in Runs, m \in Nat :
        Tally(w, m)' = IF q = w /\ v = Result(w, m) THEN Tally(w, m) + 1 ELSE Tally(w, m)
  BY <1>1, <1>2, TallyAppend
<1>4. /\ ShortThread(u) /\ u.stage = t.stage /\ u.n = t.n
      /\ t.stage \in Inwards => t.frames = <<q>> /\ u.frames = << >>
      /\ t.stage \in {"before", "after"} => u.passed = << >>
      /\ t.stage = "start" => t.passed = << >> /\ u.passed = <<q>>
      /\ t.stage \in Outwards => t.passed = <<q>> /\ u.passed = << >>
  BY <1>r, <1>i, <1>t, <1>1, AnsweredPlace
<1>5. /\ v.n = t.n /\ v.run = r
      /\ v.kind = "result" <=> t.stage \in {"end", "after"}
      /\ v.kind = "start" <=> t.stage \in {"before", "start"}
      /\ t.stage \in Inwards \cup Outwards
  BY <1>r, <1>t, <1>1 DEF Event, Kind, Firing, Inwards, Outwards
<1>p. \A m \in Nat : Pending(r, m)' <=> Pending(r, m)
  BY <1>u DEF Pending, Result
<1>6. ASSUME NEW m \in Nat, q = r, v = Result(r, m)
      PROVE  m = t.n /\ Began(r, m) /\ Succeeded(r, m)
  BY <1>r, <1>i, <1>t, <1>1, <1>6, ReportBegun
<1>7. PlaceInv(r)'
  <2>1. u.passed = <<r>> => Began(r, u.n)'
    <3>. SUFFICES ASSUME u.passed = <<r>> PROVE Began(r, u.n)'
      OBVIOUS
    <3>1. t.stage = "start" /\ q = r
      BY <1>4, <1>5 DEF Inwards, Outwards
    <3>2. v = Start(r, u.n)
      BY <1>4, <1>5, <3>1, <1>1 DEF Start, Events
    <3>3. ledger'[r] = Append(ledger[r], v) /\ ledger[r] \in Seq(Events)
      BY <1>1, <1>2, <3>1 DEF CrewTypeOK
    <3>4. \E i \in DOMAIN ledger'[r] : ledger'[r][i] = v
      BY <3>3
    <3>. QED
      BY <3>2, <3>4 DEF Began, In, Start
  <2>2. ~(u.stage = "after" /\ u.frames = <<r>>)
    <3>1. u.stage = "after" => u.frames = << >>
      <4>1. t.stage = "after" => t.stage \in Inwards
        BY DEF Inwards
      <4>. QED
        BY <1>4, <4>1
    <3>2. << >> # <<r>>
      OBVIOUS
    <3>. QED
      BY <3>1, <3>2
  <2>3. u.stage \notin {"none", "free", "over"} /\ t.stage \notin {"none", "free", "over"}
    BY <1>4, <1>5 DEF Inwards, Outwards
  <2>. QED
    BY <1>i, <1>u, <1>4, <2>1, <2>2, <2>3, <1>r, OwnMove
<1>8. ResultInv(r)'
  <2>1. \A m \in Nat : q = r /\ v = Result(r, m) =>
          Began(r, m) /\ Succeeded(r, m) /\ m <= thread[r].n
    BY <1>r, <1>6, <1>t
  <2>2. \A m \in Nat : Pending(r, m)' => Pending(r, m)
    BY <1>p
  <2>3. thread'[r].n = thread[r].n
    BY <1>r, <1>u, <1>4
  <2>. QED
    BY <1>i, <1>u, <1>1, <1>2, <2>1, <2>2, <2>3, ResultAppended
<1>9. ReportInv(r)'
  <2>. SUFFICES ASSUME phase'[r] = "running", Reports'
                PROVE  Reporting(r, u)' /\ \A d \in done' : d.run = r => ReportedOnce(r, d.n)'
    BY <1>u DEF ReportInv
  <2>1. phase[r] = "running" /\ Reports /\ (EmitEnd' <=> EmitEnd)
    BY <1>u DEF Reports, EmitEnd, PatchesAgents
  <2>2. Reporting(r, t) /\ \A d \in done : d.run = r => ReportedOnce(r, d.n)
    BY <1>r, <1>i, <2>1 DEF ReportInv
  <2>3. ASSUME NEW d \in done, d.run = r PROVE ReportedOnce(r, d.n)'
    <3>1. d.n \in Nat /\ d.n # t.n
      <4>1. d.n \in Nat
        BY DEF CrewTypeOK
      <4>2. d.n < t.n
        BY <1>r, <1>i, <1>5, <2>3 DEF PlaceInv, Inwards, Outwards
      <4>. QED
        BY <1>t, <4>1, <4>2
    <3>2. v # Result(r, d.n)
      BY <1>5, <3>1 DEF Result
    <3>. QED
      BY <1>3, <1>p, <2>2, <2>3, <3>1, <3>2 DEF ReportedOnce
  <2>4. CASE t.stage \in {"before", "start"}
    <3>1. \A m : v # Result(r, m)
      BY <1>5, <2>4 DEF Result
    <3>2. Unreported(r, t.n) => Unreported(r, u.n)'
      BY <1>3, <1>4, <1>t, <1>p, <3>1 DEF Unreported
    <3>3. Unreported(r, u.n)'
      BY <2>2, <2>4, <3>2 DEF Reporting
    <3>4. t.stage = "start" /\ EmitEnd => q = r
      BY <2>2, <1>4 DEF Reporting, Inwards
    <3>5. Reporting(r, u)'
      BY <1>4, <2>1, <2>4, <3>3, <3>4 DEF Reporting, Inwards
    <3>. QED
      BY <1>u, <2>3, <3>5
  <2>5. CASE t.stage \in {"end", "after"}
    <3>1. q = r /\ Unreported(r, t.n) /\ (t.stage = "end" => EmitEnd)
      <4>1. <<q>> # << >> /\ (<<q>> = <<r>> => q = r)
        OBVIOUS
      <4>2. CASE t.stage = "end"
        <5>1. t.passed = <<q>>
          BY <1>4, <4>2 DEF Outwards
        <5>. QED
          BY <2>2, <4>1, <4>2, <5>1 DEF Reporting
      <4>3. CASE t.stage = "after"
        <5>1. t.frames = <<q>>
          BY <1>4, <4>3 DEF Inwards
        <5>. QED
          BY <2>2, <4>1, <4>3, <5>1 DEF Reporting
      <4>. QED
        BY <2>5, <4>2, <4>3
    <3>2. v = Result(r, t.n)
      BY <1>1, <1>5, <2>5 DEF Result, Events
    <3>3. ReportedOnce(r, u.n)'
      BY <1>3, <1>4, <1>t, <1>p, <3>1, <3>2 DEF Unreported, ReportedOnce
    <3>4. Reporting(r, u)'
      BY <1>4, <2>1, <2>5, <3>1, <3>3 DEF Reporting, Inwards, Outwards
    <3>. QED
      BY <1>u, <2>3, <3>4
  <2>6. CASE t.stage = "error"
    <3>1. Reporting(r, u)'
      BY <1>4, <2>6 DEF Reporting
    <3>. QED
      BY <1>u, <2>3, <3>1
  <2>. QED
    BY <1>5, <2>4, <2>5, <2>6 DEF Inwards, Outwards
<1>. QED
  BY <1>7, <1>8, <1>9 DEF Kept

(* A wrapper stops waiting; what it asked for may still come. *)
LEMMA TimeOutKept ==
  ASSUME CrewTypeOK, TrailInv, NEW r \in Runs, TimeOut(r)
  PROVE  Kept(r)
<1>r. PICK t, u : t = thread[r] /\ u = Thrown(t)
  OBVIOUS
<1>i. PlaceInv(r) /\ ResultInv(r) /\ ReportInv(r) /\ ShortThread(t)
  BY <1>r DEF TrailInv, PlaceInv
<1>t. thread \in [Runs -> Thread] /\ t \in Thread /\ t.n \in Nat /\ Firing(t)
  BY <1>r DEF CrewTypeOK, Thread, TimeOut
<1>u. UNCHANGED <<shape, phase, ledger, ran, done>> /\ thread'[r] = u
  BY <1>r, <1>t DEF TimeOut, ThreadUnchanged, Goto
<1>1. orphans' = orphans \cup {[chain |-> Target(t), event |-> Event(r)]}
  BY <1>r DEF TimeOut
<1>2. /\ ShortThread(u) /\ u.stage = "error" /\ u.n = t.n
      /\ u.passed = t.passed \/ u.passed = << >>
      /\ t.stage \notin {"none", "free", "over"}
  BY <1>r, <1>i, <1>t, ThrownPlace
<1>3. /\ \A m : Tally(r, m)' = Tally(r, m)
      /\ \A m : (Began(r, m)' <=> Began(r, m)) /\ (Succeeded(r, m)' <=> Succeeded(r, m))
  BY <1>u DEF Tally, Began, Succeeded, Result, Start
<1>4. ASSUME NEW m, Pending(r, m)', ~Pending(r, m)
      PROVE  m = t.n /\ Began(r, m) /\ Succeeded(r, m)
  <2>1. Target(t) = r /\ Event(r) = Result(r, m)
    BY <1>1, <1>4 DEF Pending, Result
  <2>. QED
    BY <1>r, <1>i, <1>t, <2>1, ReportBegun
<1>5. \A m : Pending(r, m) => Pending(r, m)'
  BY <1>1 DEF Pending, Result
<1>6. PlaceInv(r)'
  <2>1. u.passed = <<r>> => Began(r, u.n)'
    BY <1>r, <1>i, <1>2, <1>3 DEF PlaceInv, Began
  <2>. QED
    BY <1>r, <1>i, <1>u, <1>2, <2>1, OwnMove
<1>7. ResultInv(r)'
  <2>1. \A m \in Nat : (Tally(r, m) # 0 \/ Pending(r, m))' =>
          Began(r, m)' /\ Succeeded(r, m)' /\ m <= thread'[r].n
    BY <1>r, <1>i, <1>t, <1>u, <1>2, <1>3, <1>4 DEF ResultInv
  <2>. QED
    BY <1>i, <1>u, <2>1 DEF ResultInv, Start, Result
<1>8. ReportInv(r)'
  <2>. SUFFICES ASSUME phase'[r] = "running", Reports'
                PROVE  Reporting(r, u)' /\ \A d \in done' : d.run = r => ReportedOnce(r, d.n)'
    BY <1>u DEF ReportInv
  <2>1. Reporting(r, u)'
    BY <1>2 DEF Reporting
  <2>2. phase[r] = "running" /\ Reports
    BY <1>u DEF Reports
  <2>3. ASSUME NEW d \in done, d.run = r PROVE ReportedOnce(r, d.n)'
    <3>1. d.n \in Nat
      BY DEF CrewTypeOK
    <3>2. d.n < t.n
      BY <1>r, <1>i, <1>2, <2>3 DEF PlaceInv
    <3>3. d.n # t.n
      BY <1>t, <3>1, <3>2
    <3>4. ReportedOnce(r, d.n)
      BY <1>i, <2>2, <2>3 DEF ReportInv
    <3>. QED
      BY <1>3, <1>4, <3>3, <3>4 DEF ReportedOnce
  <2>. QED
    BY <1>u, <2>1, <2>3
<1>. QED
  BY <1>6, <1>7, <1>8 DEF Kept

LEMMA TrailStep ==
  ASSUME CrewTypeOK, SerialInv, GateInv, TrailInv, [Next]_crewVars
  PROVE  TrailInv'
<1>1. ASSUME NEW p \in Runs PROVE Kept(p)
  <2>1. ASSUME NEW r \in Runs, ThreadStep(r) \/ Permit(r) \/ Refuse(r) PROVE Kept(p)
    <3>1. CASE p # r
      BY <2>1, <3>1, OthersKept
    <3>2. CASE p = r
      <4>1. Kept(r)
        BY <2>1, CallKept, QuietKept, DoneKept, ExecuteKept, PermitKept, TimeOutKept DEF ThreadStep
      <4>. QED
        BY <3>2, <4>1
    <3>. QED
      BY <3>1, <3>2
  <2>2. ASSUME NEW r \in Runs, LoopStep(r) \/ Begin(r) \/ InstallBreaks(r) \/ BeginFails(r) \/ Cancel(r) PROVE Kept(p)
    BY <2>2, LoopKept
  <2>3. ASSUME NEW o \in orphans, EndLate(o) PROVE Kept(p)
    BY <2>3, LateKept
  <2>4. CASE UNCHANGED crewVars
    <3>1. PlaceInv(p) /\ ResultInv(p) /\ ReportInv(p)
      BY DEF TrailInv
    <3>2. PlaceInv(p)'
      BY <2>4, <3>1 DEF PlaceInv, ShortThread, Short, Succeeded, Began, Start, crewVars
    <3>3. ResultInv(p)'
      BY <2>4, <3>1
         DEF ResultInv, Tally, Pending, Began, Succeeded, Start, Result, crewVars
    <3>4. ReportInv(p)'
      BY <2>4, <3>1
         DEF ReportInv, Reporting, Reports, EmitEnd, PatchesAgents, Unreported, ReportedOnce, Tally,
             Pending, Result, crewVars
    <3>. QED
      BY <3>2, <3>3, <3>4 DEF Kept
  <2>. QED
    BY <2>1, <2>2, <2>3, <2>4 DEF Next
<1>. QED
  BY <1>1 DEF TrailInv, Kept

-----------------------------------------------------------------------------
(***************************************************************************)
(* What holds of overlapping runs too.                                     *)
(***************************************************************************)

(* A task is executed at most once under its number, and before that has   *)
(* no outcome.                                                             *)
Executing(r) ==
  LET t == thread[r]
  IN  /\ t.stage \in {"before", "start"} =>
           /\ \E e \in ran : e.run = r /\ e.n = t.n
           /\ \A e \in ran : e.run = r /\ e.n = t.n => e.outcome = "none"
      /\ t.stage \in {"end", "after"} => Succeeded(r, t.n)
      /\ \A e \in ran : e.run = r => e.n <= t.n

Real(v) == v.kind = "result" => Succeeded(v.run, v.n)

(* A result is of a task that succeeded, whichever chain's trail it is in  *)
(* or may still get into.                                                  *)
TrailsReal == \A r \in Runs : \A i \in DOMAIN ledger[r] : Real(ledger[r][i])
OrphansReal == \A o \in orphans : Real(o.event)

RealInv == TrailsReal /\ OrphansReal /\ \A r \in Runs : Executing(r)

(* A step of one thread that executes nothing. *)
LEMMA RealKept ==
  ASSUME CrewTypeOK, RealInv, NEW r \in Runs, ran' = ran,
         \A q \in Runs \ {r} : thread'[q] = thread[q],
         thread'[r].n = thread[r].n,
         thread'[r].stage \in {"before", "start"} => thread[r].stage \in {"before", "start"},
         thread'[r].stage \in {"end", "after"} => thread[r].stage \in {"end", "after"}
  PROVE  /\ \A q \in Runs : Executing(q)'
         /\ \A v : Real(v) => Real(v)'
<1>1. \A q, m : Succeeded(q, m)' <=> Succeeded(q, m)
  BY DEF Succeeded
<1>2. ASSUME NEW q \in Runs PROVE Executing(q)'
  <2>1. CASE q = r
    BY <1>1, <2>1 DEF RealInv, Executing
  <2>2. CASE q # r
    BY <1>1, <2>2 DEF RealInv, Executing
  <2>. QED
    BY <2>1, <2>2
<1>3. \A v : Real(v) => Real(v)'
  BY <1>1 DEF Real
<1>. QED
  BY <1>2, <1>3

(* A thread that fires tells of its own task. *)
LEMMA EventReal ==
  ASSUME CrewTypeOK, RealInv, NEW r \in Runs, thread[r].waiting
  PROVE  Real(Event(r)) /\ Event(r) \in Events /\ Target(thread[r]) \in Runs
<1>1. thread[r] \in Thread /\ Firing(thread[r])
  BY DEF CrewTypeOK, Thread
<1>2. Target(thread[r]) \in Runs
  BY <1>1, FiringTarget
<1>3. Event(r) \in Events
  BY <1>1 DEF Event, Events, Kind, Kinds, Thread
<1>4. Real(Event(r))
  BY <1>1 DEF Event, Real, Kind, RealInv, Executing, Thread
<1>. QED
  BY <1>2, <1>3, <1>4

(* What stays true of the trails while one of them gets a true event. *)
LEMMA TrailReal ==
  ASSUME CrewTypeOK, TrailsReal, \A w : Real(w) => Real(w)',
         ledger' = ledger \/ \E p \in Runs, v \in Events :
                               Real(v) /\ ledger' = [ledger EXCEPT ![p] = Append(@, v)]
  PROVE  TrailsReal'
<1>. SUFFICES ASSUME NEW q \in Runs, NEW w, \E i \in DOMAIN ledger'[q] : w = ledger'[q][i]
              PROVE  Real(w)'
  BY DEF TrailsReal, Real, Succeeded
<1>1. ledger[q] \in Seq(Events)
  BY DEF CrewTypeOK
<1>2. CASE ledger'[q] = ledger[q]
  BY <1>2 DEF TrailsReal
<1>3. ASSUME NEW v \in Events, Real(v), ledger'[q] = Append(ledger[q], v)
      PROVE  Real(w)'
  <2>1. (\E i \in DOMAIN ledger[q] : w = ledger[q][i]) \/ w = v
    BY <1>1, <1>3
  <2>. QED
    BY <1>3, <2>1 DEF TrailsReal
<1>4. ledger'[q] = ledger[q] \/ \E v \in Events : Real(v) /\ ledger'[q] = Append(ledger[q], v)
  BY DEF CrewTypeOK
<1>. QED
  BY <1>2, <1>3, <1>4

LEMMA RealThread ==
  ASSUME CrewTypeOK, RealInv, NEW r \in Runs,
         Enter(r) \/ Returned(r) \/ Done(r) \/ Leave(r) \/ Fire(r) \/ Refuse(r) \/ Permit(r) \/ TimeOut(r)
  PROVE  RealInv'
<1>1. thread[r] \in Thread
  BY DEF CrewTypeOK, Thread
<1>2. /\ \A q \in Runs \ {r} : thread'[q] = thread[q]
      /\ thread'[r].n = thread[r].n
      /\ thread'[r].stage \in {"before", "start"} => thread[r].stage \in {"before", "start"}
      /\ thread'[r].stage \in {"end", "after"} => thread[r].stage \in {"end", "after"}
  <2>1. PICK u : /\ thread' = [thread EXCEPT ![r] = u]
                 /\ u.n = thread[r].n
                 /\ u.stage \in {"before", "start"} => thread[r].stage \in {"before", "start"}
                 /\ u.stage \in {"end", "after"} => thread[r].stage \in {"end", "after"}
    <3>1. CASE Enter(r)
      <4>. DEFINE w == [thread[r] EXCEPT !.stage = "start", !.frames = hooks.execute]
                  x == [thread[r] EXCEPT !.stage = "error"]
      <4>1. /\ thread' = [thread EXCEPT ![r] = w] \/ thread' = [thread EXCEPT ![r] = x]
            /\ thread[r].stage = "before"
        BY <3>1 DEF Enter, Goto
      <4>2. w.n = thread[r].n /\ w.stage = "start" /\ x.n = thread[r].n /\ x.stage = "error"
        BY <1>1 DEF Thread
      <4>. HIDE DEF w, x
      <4>. QED
        BY <4>1, <4>2
    <3>2. CASE Returned(r)
      <4>. DEFINE w == [thread[r] EXCEPT !.stage = "after", !.frames = hooks.after]
      <4>1. thread' = [thread EXCEPT ![r] = w] /\ thread[r].stage = "end"
        BY <3>2 DEF Returned, Goto
      <4>2. w.n = thread[r].n /\ w.stage = "after"
        BY <1>1 DEF Thread
      <4>. HIDE DEF w
      <4>. QED
        BY <4>1, <4>2
    <3>3. CASE Done(r) \/ Leave(r)
      <4>1. PICK s \in {"free", "error", "over"} :
              thread' = [thread EXCEPT ![r] = [thread[r] EXCEPT !.stage = s]]
        BY <3>3 DEF Done, Leave, Goto
      <4>. DEFINE w == [thread[r] EXCEPT !.stage = s]
      <4>2. thread' = [thread EXCEPT ![r] = w] /\ w.n = thread[r].n /\ w.stage = s
        BY <1>1, <4>1 DEF Thread
      <4>. HIDE DEF w
      <4>. QED
        BY <4>1, <4>2
    <3>4. CASE Fire(r)
      <4>. DEFINE w == [thread[r] EXCEPT !.waiting = TRUE]
      <4>1. thread' = [thread EXCEPT ![r] = w]
        BY <3>4 DEF Fire, Goto
      <4>2. w.n = thread[r].n /\ w.stage = thread[r].stage
        BY <1>1 DEF Thread
      <4>. HIDE DEF w
      <4>. QED
        BY <4>1, <4>2
    <3>5. CASE Permit(r)
      <4>1. thread' = [thread EXCEPT ![r] = Answered(thread[r])]
        BY <3>5 DEF Permit, Goto
      <4>2. Answered(thread[r]).n = thread[r].n /\ Answered(thread[r]).stage = thread[r].stage
        BY <1>1 DEF Answered, Thread
      <4>. QED
        BY <4>1, <4>2
    <3>6. CASE Refuse(r) \/ TimeOut(r)
      <4>1. thread' = [thread EXCEPT ![r] = Thrown(thread[r])]
        BY <3>6 DEF Refuse, TimeOut, Goto
      <4>2. Thrown(thread[r]).n = thread[r].n /\ Thrown(thread[r]).stage = "error"
        BY DEF Thrown
      <4>. QED
        BY <4>1, <4>2
    <3>. QED
      BY <3>1, <3>2, <3>3, <3>4, <3>5, <3>6
  <2>. QED
    BY <2>1 DEF CrewTypeOK
<1>3. ran' = ran
  BY DEF Enter, Returned, Done, Leave, Fire, Refuse, Permit, TimeOut
<1>5. /\ \A q \in Runs : Executing(q)'
      /\ \A v : Real(v) => Real(v)'
  BY <1>2, <1>3, RealKept
<1>6. ledger' = ledger \/ \E p \in Runs, v \in Events :
                            Real(v) /\ ledger' = [ledger EXCEPT ![p] = Append(@, v)]
  BY EventReal DEF Enter, Returned, Done, Leave, Fire, Refuse, Permit, TimeOut
<1>7. TrailsReal'
  BY <1>5, <1>6, TrailReal DEF RealInv
<1>8. \A o \in orphans' : o \in orphans \/ Real(o.event)
  BY EventReal DEF Enter, Returned, Done, Leave, Fire, Refuse, Permit, TimeOut
<1>9. OrphansReal'
  <2>1. \A o \in orphans' : Real(o.event)
    BY <1>8 DEF RealInv, OrphansReal
  <2>. QED
    BY <1>3, <2>1 DEF OrphansReal, Real, Succeeded
<1>. QED
  BY <1>5, <1>7, <1>9 DEF RealInv

(* A call begins a task under a new number; an execution ends one that has *)
(* no outcome yet.                                                         *)
LEMMA RealTask ==
  ASSUME CrewTypeOK, RealInv, NEW r \in Runs, Call(r) \/ Execute(r)
  PROVE  RealInv'
<1>1. /\ thread[r] \in Thread /\ thread[r].n \in Nat
      /\ \A e \in ran : e.n \in Nat
      /\ UNCHANGED <<ledger, orphans>>
  BY DEF CrewTypeOK, Thread, Call, Execute
<1>2. CASE Call(r)
  <2>. DEFINE n == thread[r].n + 1
              new == [run |-> r, n |-> n, governed |-> phase[r] = "running", outcome |-> "none"]
  <2>1. ran' = ran \cup {new}
    BY <1>2 DEF Call
  <2>2. /\ thread'[r].n = n /\ thread'[r].stage \in {"before", "start"}
        /\ \A q \in Runs \ {r} : thread'[q] = thread[q]
    BY <1>2 DEF Call, Goto, CrewTypeOK
  <2>3. new.run = r /\ new.n = n /\ new.outcome = "none"
    OBVIOUS
  <2>. HIDE DEF new
  <2>4. \A q, m : Succeeded(q, m)' <=> Succeeded(q, m)
    BY <2>1, <2>3 DEF Succeeded
  <2>5. \A e \in ran : e.run = r => e.n < n
    BY <1>1 DEF RealInv, Executing
  <2>6. Executing(r)'
    <3>1. \A e \in ran' : e.run = r => e = new \/ e.n < n
      BY <2>1, <2>5
    <3>2. n \in Nat /\ \A e \in ran' : e.n \in Nat
      BY <1>1, <2>1, <2>3
    <3>. HIDE DEF n
    <3>. QED
      BY <2>1, <2>2, <2>3, <3>1, <3>2 DEF Executing
  <2>7. ASSUME NEW q \in Runs \ {r} PROVE Executing(q)'
    BY <2>1, <2>2, <2>3, <2>4 DEF RealInv, Executing
  <2>8. TrailsReal' /\ OrphansReal'
    BY <1>1, <2>4 DEF RealInv, TrailsReal, OrphansReal, Real
  <2>. QED
    BY <2>6, <2>7, <2>8 DEF RealInv
<1>3. CASE Execute(r)
  <2>. PICK n \in Nat : n = thread[r].n
    BY <1>1
  <2>1. PICK x, u :
          /\ x \in {"ok", "raised"} /\ ran' = Executed(r, x)
          /\ thread' = [thread EXCEPT ![r] = u]
          /\ u.n = n /\ u.stage = IF x = "ok" THEN "end" ELSE "error"
    <3>1. CASE /\ ran' = Executed(r, "ok")
               /\ Goto(r, [thread[r] EXCEPT !.stage = "end", !.passed = IF EmitEnd THEN @ ELSE << >>])
      <4>. DEFINE u == [thread[r] EXCEPT !.stage = "end", !.passed = IF EmitEnd THEN @ ELSE << >>]
      <4>1. u.n = n /\ u.stage = "end"
        BY <1>1 DEF Thread
      <4>. QED
        BY <3>1, <4>1 DEF Goto
    <3>2. CASE ran' = Executed(r, "raised") /\ Goto(r, [thread[r] EXCEPT !.stage = "error"])
      <4>1. LET u == [thread[r] EXCEPT !.stage = "error"] IN u.n = n /\ u.stage = "error"
        BY <1>1 DEF Thread
      <4>. QED
        BY <3>2, <4>1 DEF Goto
    <3>. QED
      BY <1>3, <3>1, <3>2 DEF Execute
  <2>2. /\ thread'[r].n = n /\ thread[r].stage = "start"
        /\ thread'[r].stage = IF x = "ok" THEN "end" ELSE "error"
        /\ \A q \in Runs \ {r} : thread'[q] = thread[q]
    BY <1>3, <2>1 DEF Execute, CrewTypeOK
  <2>3. /\ \E e \in ran : e.run = r /\ e.n = n
        /\ \A e \in ran : e.run = r /\ e.n = n => e.outcome = "none"
        /\ \A e \in ran : e.run = r => e.n <= n
    BY <2>2 DEF RealInv, Executing
  <2>. DEFINE after(e) == IF e.run = r /\ e.n = n THEN [e EXCEPT !.outcome = x] ELSE e
  <2>4. ran' = {after(e) : e \in ran}
    BY <2>1 DEF Executed
  <2>5. \A e \in ran : /\ after(e).run = e.run /\ after(e).n = e.n
                       /\ e.run = r /\ e.n = n => after(e).outcome = x
                       /\ ~(e.run = r /\ e.n = n) => after(e) = e
    BY DEF CrewTypeOK
  <2>. HIDE DEF after
  <2>6. \A q, m : Succeeded(q, m) => Succeeded(q, m)'
    <3>. SUFFICES ASSUME NEW q, NEW m, Succeeded(q, m) PROVE Succeeded(q, m)'
      OBVIOUS
    <3>1. PICK e \in ran : e.run = q /\ e.n = m /\ e.outcome = "ok"
      BY DEF Succeeded
    <3>2. after(e) = e
      BY <2>3, <2>5, <3>1
    <3>. QED
      BY <2>4, <3>1, <3>2 DEF Succeeded
  <2>7. Executing(r)'
    <3>1. x = "ok" => Succeeded(r, n)'
      <4>1. PICK e \in ran : e.run = r /\ e.n = n
        BY <2>3
      <4>2. after(e) \in ran' /\ after(e).run = r /\ after(e).n = n /\ after(e).outcome = x
        BY <2>4, <2>5, <4>1
      <4>. QED
        BY <4>2 DEF Succeeded
    <3>2. \A e \in ran' : e.run = r => e.n <= n
      BY <2>3, <2>4, <2>5
    <3>3. Succeeded(r, thread[r].n)' <=> Succeeded(r, n)'
      BY <2>2 DEF Succeeded
    <3>. QED
      BY <2>1, <2>2, <3>1, <3>2, <3>3 DEF Executing
  <2>8. ASSUME NEW q \in Runs \ {r} PROVE Executing(q)'
    <3>1. \A e : e.run = q => (e \in ran' <=> e \in ran)
      BY <2>4, <2>5
    <3>2. thread[q].stage \in {"end", "after"} => Succeeded(q, thread[q].n)
      BY DEF RealInv, Executing
    <3>. QED
      BY <2>2, <2>6, <3>1, <3>2 DEF RealInv, Executing, Succeeded
  <2>9. \A w : Real(w) => Real(w)'
    BY <2>6 DEF Real
  <2>10. TrailsReal'
    BY <1>1, <2>9, TrailReal DEF RealInv
  <2>11. OrphansReal'
    BY <1>1, <2>6 DEF RealInv, OrphansReal, Real
  <2>. QED
    BY <2>7, <2>8, <2>10, <2>11 DEF RealInv
<1>. QED
  BY <1>2, <1>3

LEMMA RealLoop ==
  ASSUME CrewTypeOK, RealInv, NEW r \in Runs,
         LoopStep(r) \/ Begin(r) \/ InstallBreaks(r) \/ BeginFails(r) \/ Cancel(r)
  PROVE  RealInv'
<1>1. ran' = ran /\ UNCHANGED <<ledger, orphans>>
  BY DEF LoopStep, Return, Close, Begin, InstallBreaks, BeginFails, Cancel
<1>2. /\ \A q \in Runs \ {r} : thread'[q] = thread[q]
      /\ thread'[r].n = thread[r].n
      /\ thread'[r].stage = thread[r].stage \/ thread'[r].stage = "free"
  BY DEF LoopStep, Return, Close, Begin, InstallBreaks, BeginFails, Cancel, CrewTypeOK
<1>3. /\ \A q \in Runs : Executing(q)'
      /\ \A v : Real(v) => Real(v)'
  BY <1>1, <1>2, RealKept
<1>4. TrailsReal' /\ OrphansReal'
  BY <1>1 DEF RealInv, TrailsReal, OrphansReal, Real, Succeeded
<1>. QED
  BY <1>3, <1>4 DEF RealInv

LEMMA RealStep ==
  ASSUME CrewTypeOK, RealInv, [Next]_crewVars
  PROVE  RealInv'
<1>1. ASSUME NEW r \in Runs, ThreadStep(r) \/ Permit(r) \/ Refuse(r) PROVE RealInv'
  BY <1>1, RealThread, RealTask DEF ThreadStep
<1>2. ASSUME NEW r \in Runs, LoopStep(r) \/ Begin(r) \/ InstallBreaks(r) \/ BeginFails(r) \/ Cancel(r) PROVE RealInv'
  BY <1>2, RealLoop
<1>3. ASSUME NEW o \in orphans, EndLate(o) PROVE RealInv'
  <2>1. UNCHANGED <<thread, ran>> /\ orphans' \subseteq orphans
    BY <1>3 DEF EndLate
  <2>2. /\ \A q \in Runs : Executing(q)'
        /\ \A v : Real(v) => Real(v)'
    BY <2>1 DEF RealInv, Executing, Real, Succeeded
  <2>3. o.chain \in Runs /\ o.event \in Events /\ Real(o.event)
    BY DEF CrewTypeOK, RealInv, OrphansReal
  <2>4. TrailsReal'
    BY <1>3, <2>2, <2>3, TrailReal DEF EndLate, RealInv
  <2>5. OrphansReal'
    BY <2>1 DEF RealInv, OrphansReal, Real, Succeeded
  <2>. QED
    BY <2>2, <2>4, <2>5 DEF RealInv
<1>4. CASE UNCHANGED crewVars
  BY <1>4 DEF crewVars, RealInv, TrailsReal, OrphansReal, Executing, Real, Succeeded
<1>. QED
  BY <1>1, <1>2, <1>3, <1>4 DEF Next

(* Whether runs overlap or not, no trail tells of the result of a task     *)
(* that has not returned: neither a timeout, nor an answer that comes      *)
(* late, nor a wrapper that another run left on the crew reports one.      *)
THEOREM ResultsAreReal == Spec => []TrailsReal
<1>1. Init => RealInv
  BY DEF Init, RealInv, TrailsReal, OrphansReal, Executing
<1>2. CrewTypeOK /\ RealInv /\ [Next]_crewVars => RealInv'
  BY RealStep
<1>3. RealInv => TrailsReal
  BY DEF RealInv
<1>. QED
  BY <1>1, <1>2, <1>3, CrewTypeCorrect, PTL DEF Spec

-----------------------------------------------------------------------------
(***************************************************************************)
(* Whose wrappers a thread meets where runs do not overlap.                *)
(***************************************************************************)

(* Its own run's only, while that run is not over. *)
Own(t, r) == t.frames \in {<< >>, <<r>>} /\ t.passed \in {<< >>, <<r>>}

ThreadsOwn == \A r \in Runs : Own(thread[r], r) \/ phase[r] = "ended"
OrphansOwn == \A o \in orphans : o.event.run = o.chain \/ phase[o.event.run] = "ended"
TrailsOwn ==
  \A r \in Runs : \A i \in DOMAIN ledger[r] :
    ledger[r][i].run = r \/ phase[ledger[r][i].run] = "ended"

OwnInv == ThreadsOwn /\ OrphansOwn /\ TrailsOwn

LEMMA EndedStays ==
  ASSUME CrewTypeOK, [Next]_crewVars
  PROVE  \A r \in Runs : phase[r] = "ended" => phase'[r] = "ended"
<1>1. ASSUME NEW r \in Runs, NEW v, phase[r] # "ended", phase' = [phase EXCEPT ![r] = v]
      PROVE  \A q \in Runs : phase[q] = "ended" => phase'[q] = "ended"
  BY <1>1 DEF CrewTypeOK
<1>2. CASE phase' = phase
  BY <1>2
<1>3. ASSUME NEW r \in Runs,
             LoopStep(r) \/ Begin(r) \/ InstallBreaks(r) \/ BeginFails(r) \/ Cancel(r)
      PROVE  \E v : phase[r] # "ended" /\ phase' = [phase EXCEPT ![r] = v]
  BY <1>3 DEF LoopStep, Return, Close, Begin, InstallBreaks, BeginFails, Cancel, Restore
<1>. QED
  BY <1>1, <1>2, <1>3
     DEF Next, ThreadStep, Call, Enter, Execute, Returned, Done, Leave, Fire, TimeOut, Permit,
         Refuse, EndLate, ThreadUnchanged, crewVars

(* What a thread whose run is not over finds on the crew. *)
LEMMA OwnHooks ==
  ASSUME CrewTypeOK, SerialInv, NEW r \in Runs, phase[r] # "ended", thread[r].stage # "none"
  PROVE  \A s \in {hooks.before, hooks.execute, hooks.after} : s \in {<< >>, <<r>>}
<1>1. phase[r] \in {"running", "closing"}
  BY DEF CrewTypeOK, Phases
<1>2. CASE phase[r] = "running"
  BY <1>2, OneWrapper
<1>3. CASE phase[r] = "closing"
  <2>1. \A q \in Runs : phase[q] # "running"
    BY <1>3 DEF SerialInv, ChainOpen
  <2>. QED
    BY <2>1 DEF SerialInv, Unwrapped
<1>. QED
  BY <1>1, <1>2, <1>3

(* A step of a thread whose run is not over. *)
LEMMA OwnThread ==
  ASSUME CrewTypeOK, SerialInv, TrailInv, NEW r \in Runs, Own(thread[r], r), phase[r] # "ended",
         ThreadStep(r) \/ Permit(r) \/ Refuse(r)
  PROVE  /\ Own(thread'[r], r)
         /\ thread[r].waiting => Target(thread[r]) = r
<1>. DEFINE t == thread[r]
<1>t. /\ t \in Thread /\ (t.waiting => Firing(t)) /\ ShortThread(t)
      /\ thread \in [Runs -> Thread]
  BY DEF CrewTypeOK, Thread, TrailInv, PlaceInv
<1>s. t.stage # "none"
  BY <1>t DEF ThreadStep, Call, Enter, Execute, Returned, Done, Leave, Fire, TimeOut, Permit, Refuse,
              Ready, Firing, Inwards, Outwards
<1>h. \A s \in {hooks.before, hooks.execute, hooks.after} : s \in {<< >>, <<r>>}
  BY <1>s, OwnHooks
<1>o. t.frames \in {<< >>, <<r>>} /\ t.passed \in {<< >>, <<r>>}
  BY DEF Own
<1>w. Firing(t) => Target(t) = r
  BY <1>o DEF Firing, Target, Inwards, Outwards
<1>g. ASSUME NEW u, Goto(r, u) PROVE thread'[r] = u
  BY <1>g, <1>t DEF Goto
<1>. HIDE DEF t
<1>1. CASE Call(r)
  <2>1. PICK u : Goto(r, u) /\ u.frames \in {hooks.before, hooks.execute} /\ u.passed = << >>
    BY <1>1 DEF Call, t
  <2>. QED
    BY <1>t, <1>w, <1>h, <1>g, <2>1 DEF Own, t
<1>2. CASE Enter(r) \/ Returned(r)
  <2>1. PICK u : /\ Goto(r, u) /\ u.passed = t.passed
                 /\ u.frames \in {hooks.execute, hooks.after, t.frames}
    <3>. DEFINE v == [t EXCEPT !.stage = "start", !.frames = hooks.execute]
                w == [t EXCEPT !.stage = "error"]
                x == [t EXCEPT !.stage = "after", !.frames = hooks.after]
    <3>1. Goto(r, v) \/ Goto(r, w) \/ Goto(r, x)
      BY <1>2 DEF Enter, Returned, t
    <3>2. /\ v.passed = t.passed /\ v.frames = hooks.execute
          /\ w.passed = t.passed /\ w.frames = t.frames
          /\ x.passed = t.passed /\ x.frames = hooks.after
      BY <1>t DEF Thread
    <3>. HIDE DEF v, w, x
    <3>. QED
      BY <3>1, <3>2
  <2>. QED
    BY <1>t, <1>w, <1>o, <1>h, <1>g, <2>1 DEF Own, t
<1>3. CASE Execute(r) \/ Done(r) \/ Leave(r) \/ Fire(r)
  <2>1. PICK u : Goto(r, u) /\ u.frames = t.frames /\ u.passed \in {t.passed, << >>}
    <3>. DEFINE v == [t EXCEPT !.stage = "end", !.passed = IF EmitEnd THEN @ ELSE << >>]
                w == [t EXCEPT !.waiting = TRUE]
    <3>1. Goto(r, v) \/ Goto(r, w) \/ \E s : Goto(r, [t EXCEPT !.stage = s])
      BY <1>3 DEF Execute, Done, Leave, Fire, t
    <3>2. /\ v.passed \in {t.passed, << >>} /\ v.frames = t.frames
          /\ w.passed = t.passed /\ w.frames = t.frames
      BY <1>t DEF Thread
    <3>3. \A s : [t EXCEPT !.stage = s].passed = t.passed /\ [t EXCEPT !.stage = s].frames = t.frames
      BY <1>t DEF Thread
    <3>. HIDE DEF v, w
    <3>. QED
      BY <3>1, <3>2, <3>3
  <2>. QED
    BY <1>t, <1>w, <1>o, <1>g, <2>1 DEF Own, t
<1>4. CASE Permit(r)
  <2>1. Goto(r, Answered(t)) /\ Firing(t)
    BY <1>4, <1>t DEF Permit, t
  <2>2. Answered(t).frames \in {<< >>, <<r>>} /\ Answered(t).passed \in {<< >>, <<r>>}
    <3>1. CASE t.stage \in Inwards
      BY <1>t, <1>w, <2>1, <3>1, AnsweredPlace DEF Inwards
    <3>2. CASE t.stage \in Outwards
      <4>1. Answered(t).frames = t.frames
        BY <3>2 DEF Answered, Inwards, Outwards, Thread
      <4>. QED
        BY <1>t, <1>o, <2>1, <3>2, <4>1, AnsweredPlace
    <3>. QED
      BY <2>1, <3>1, <3>2 DEF Firing
  <2>. QED
    BY <1>w, <1>g, <2>1, <2>2 DEF Own, t
<1>5. CASE Refuse(r) \/ TimeOut(r)
  <2>1. Goto(r, Thrown(t)) /\ Firing(t)
    BY <1>5, <1>t DEF Refuse, TimeOut, t
  <2>2. Thrown(t).frames = << >> /\ Thrown(t).passed \in {t.passed, << >>}
    <3>1. Thrown(t).frames = << >>
      BY DEF Thrown
    <3>. QED
      BY <1>t, <2>1, <3>1, ThrownPlace
  <2>. QED
    BY <1>w, <1>o, <1>g, <2>1, <2>2 DEF Own, t
<1>. QED
  BY <1>1, <1>2, <1>3, <1>4, <1>5 DEF ThreadStep

(* One event more in one trail. *)
LEMMA OwnTrail ==
  ASSUME CrewTypeOK, TrailsOwn, \A r \in Runs : phase[r] = "ended" => phase'[r] = "ended",
         ledger' = ledger \/ \E q \in Runs, v \in Events :
                               /\ v.run = q \/ phase[v.run] = "ended"
                               /\ ledger' = [ledger EXCEPT ![q] = Append(@, v)]
  PROVE  TrailsOwn'
<1>. SUFFICES ASSUME NEW p \in Runs, NEW w, \E i \in DOMAIN ledger'[p] : w = ledger'[p][i]
              PROVE  w.run = p \/ phase'[w.run] = "ended"
  BY DEF TrailsOwn
<1>0. ledger[p] \in Seq(Events) /\ ledger \in [Runs -> Seq(Events)]
  BY DEF CrewTypeOK
<1>1. (\E i \in DOMAIN ledger[p] : w = ledger[p][i])
        \/ (w \in Events /\ (w.run = p \/ phase[w.run] = "ended"))
  <2>1. CASE ledger'[p] = ledger[p]
    BY <2>1
  <2>2. ASSUME NEW v \in Events, v.run = p \/ phase[v.run] = "ended",
               ledger'[p] = Append(ledger[p], v)
        PROVE  (\E i \in DOMAIN ledger[p] : w = ledger[p][i]) \/ w = v
    BY <1>0, <2>2
  <2>3. ledger'[p] = ledger[p] \/ \E v \in Events : /\ v.run = p \/ phase[v.run] = "ended"
                                                   /\ ledger'[p] = Append(ledger[p], v)
    BY <1>0
  <2>. QED
    BY <2>1, <2>2, <2>3
<1>2. \A i \in DOMAIN ledger[p] : ledger[p][i] \in Events
  BY <1>0
<1>3. w \in Events /\ (w.run = p \/ phase[w.run] = "ended")
  BY <1>1, <1>2 DEF TrailsOwn
<1>. QED
  BY <1>3 DEF Events

LEMMA OwnStep ==
  ASSUME CrewTypeOK, SerialInv, TrailInv, OwnInv, [Next]_crewVars
  PROVE  OwnInv'
<1>e. \A r \in Runs : phase[r] = "ended" => phase'[r] = "ended"
  BY EndedStays
<1>o. \A o \in orphans : o.chain \in Runs /\ o.event \in Events /\ o.event.run \in Runs
  BY DEF CrewTypeOK, Events
<1>t. thread \in [Runs -> Thread]
  BY DEF CrewTypeOK, Thread
<1>1. ASSUME NEW r \in Runs, ThreadStep(r) \/ Permit(r) \/ Refuse(r)
      PROVE  OwnInv'
  <2>1. \A q \in Runs \ {r} : thread'[q] = thread[q]
    BY <1>1, <1>t DEF ThreadStep, Call, Enter, Execute, Returned, Done, Leave, Fire, TimeOut, Permit,
                      Refuse, Goto
  <2>2. phase[r] # "ended" => Own(thread'[r], r) /\ (thread[r].waiting => Target(thread[r]) = r)
    BY <1>1, OwnThread DEF OwnInv, ThreadsOwn
  <2>3. ThreadsOwn'
    <3>1. ASSUME NEW q \in Runs PROVE Own(thread'[q], q) \/ phase'[q] = "ended"
      <4>1. CASE q = r
        BY <1>e, <2>2, <4>1
      <4>2. CASE q # r
        BY <1>e, <2>1, <4>2 DEF OwnInv, ThreadsOwn, Own
      <4>. QED
        BY <4>1, <4>2
    <3>. QED
      BY <3>1 DEF ThreadsOwn, Own
  <2>4. ASSUME thread[r].waiting
        PROVE  /\ Target(thread[r]) \in Runs
               /\ Event(r) \in Events
               /\ Event(r).run = Target(thread[r]) \/ phase[Event(r).run] = "ended"
    <3>1. Target(thread[r]) \in Runs /\ Event(r) \in Events
      <4>1. thread[r] \in Thread /\ Firing(thread[r])
        BY <2>4 DEF CrewTypeOK, Thread
      <4>. QED
        BY <4>1, FiringTarget, EventType
    <3>2. Event(r).run = r
      BY DEF Event
    <3>. QED
      BY <2>2, <2>4, <3>1, <3>2
  <2>5. ledger' = ledger \/ \E q \in Runs, v \in Events :
                              /\ v.run = q \/ phase[v.run] = "ended"
                              /\ ledger' = [ledger EXCEPT ![q] = Append(@, v)]
    <3>1. CASE Permit(r)
      <4>1. /\ thread[r].waiting
            /\ ledger' = [ledger EXCEPT ![Target(thread[r])] = Append(@, Event(r))]
        BY <3>1 DEF Permit
      <4>0. Target(thread[r]) \in Runs /\ Event(r) \in Events
        BY <2>4, <4>1
      <4>2. PICK q \in Runs, v \in Events : q = Target(thread[r]) /\ v = Event(r)
        BY <4>0
      <4>3. v.run = q \/ phase[v.run] = "ended"
        BY <2>4, <4>1, <4>2
      <4>4. ledger' = [ledger EXCEPT ![q] = Append(@, v)]
        BY <4>1, <4>2
      <4>. QED
        BY <4>3, <4>4
    <3>2. CASE ~Permit(r)
      BY <1>1, <3>2 DEF ThreadStep, Call, Enter, Execute, Returned, Done, Leave, Fire, TimeOut, Refuse
    <3>. QED
      BY <3>1, <3>2
  <2>6. \A o \in orphans' : o \in orphans
          \/ (thread[r].waiting /\ o = [chain |-> Target(thread[r]), event |-> Event(r)])
    BY <1>1 DEF ThreadStep, Call, Enter, Execute, Returned, Done, Leave, Fire, TimeOut, Permit, Refuse
  <2>7. OrphansOwn'
    <3>1. ASSUME NEW o \in orphans' PROVE o.event.run = o.chain \/ phase'[o.event.run] = "ended"
      <4>1. CASE o \in orphans
        BY <1>e, <1>o, <4>1 DEF OwnInv, OrphansOwn
      <4>2. CASE thread[r].waiting /\ o = [chain |-> Target(thread[r]), event |-> Event(r)]
        <5>1. o.event = Event(r) /\ o.chain = Target(thread[r]) /\ Event(r).run = r
          BY <4>2 DEF Event
        <5>. QED
          BY <1>e, <2>4, <4>2, <5>1
      <4>. QED
        BY <2>6, <4>1, <4>2
    <3>. QED
      BY <3>1 DEF OrphansOwn
  <2>. QED
    BY <1>e, <2>3, <2>5, <2>7, OwnTrail DEF OwnInv
<1>2. ASSUME NEW r \in Runs,
             LoopStep(r) \/ Begin(r) \/ InstallBreaks(r) \/ BeginFails(r) \/ Cancel(r)
      PROVE  OwnInv'
  <2>1. UNCHANGED <<ledger, orphans>>
    BY <1>2 DEF LoopStep, Return, Close, Begin, InstallBreaks, BeginFails, Cancel
  <2>2. \A q \in Runs : thread'[q].frames = thread[q].frames /\ thread'[q].passed = thread[q].passed
    <3>1. thread' = thread \/ thread' = [thread EXCEPT ![r] = [thread[r] EXCEPT !.stage = "free"]]
      BY <1>2 DEF LoopStep, Return, Close, Begin, InstallBreaks, BeginFails, Cancel
    <3>2. /\ [thread[r] EXCEPT !.stage = "free"].frames = thread[r].frames
          /\ [thread[r] EXCEPT !.stage = "free"].passed = thread[r].passed
      BY <1>t DEF Thread
    <3>. QED
      BY <1>t, <3>1, <3>2
  <2>3. ThreadsOwn'
    BY <1>e, <2>2 DEF OwnInv, ThreadsOwn, Own
  <2>4. OrphansOwn'
    BY <1>e, <1>o, <2>1 DEF OwnInv, OrphansOwn
  <2>. QED
    BY <1>e, <2>1, <2>3, <2>4, OwnTrail DEF OwnInv
<1>3. ASSUME NEW o \in orphans, EndLate(o) PROVE OwnInv'
  <2>1. thread' = thread /\ orphans' \subseteq orphans
    BY <1>3 DEF EndLate
  <2>2. ThreadsOwn'
    BY <1>e, <2>1 DEF OwnInv, ThreadsOwn, Own
  <2>3. OrphansOwn'
    BY <1>e, <1>o, <2>1 DEF OwnInv, OrphansOwn
  <2>4. o.event.run = o.chain \/ phase[o.event.run] = "ended"
    BY DEF OwnInv, OrphansOwn
  <2>5. TrailsOwn'
    BY <1>3, <1>e, <1>o, <2>4, OwnTrail DEF EndLate, OwnInv
  <2>. QED
    BY <2>2, <2>3, <2>5 DEF OwnInv
<1>4. CASE UNCHANGED crewVars
  BY <1>4 DEF crewVars, OwnInv, ThreadsOwn, OrphansOwn, TrailsOwn, Own
<1>. QED
  BY <1>1, <1>2, <1>3, <1>4 DEF Next

(* Where runs do not overlap and the crew can be patched, every result on  *)
(* any trail is of a task that returned: one of the chain's own run, after *)
(* the task's start, or one of a run that is over, whose thread met the    *)
(* next run's wrapper.  Every task of a run under way whose callbacks have *)
(* returned is reported exactly once.  All this in every interleaving of   *)
(* timeouts, late answers and cancellations.                               *)
THEOREM TrailsAreTrue ==
  ASSUME ~Overlapping, ~Breakable
  PROVE  Spec => []TrailIsTrue
<1>1. Init => SerialInv /\ GateInv
  BY DEF Init, SerialInv, ChainOpen, GateInv
<1>2. Init => TrailInv
  <2>. SUFFICES ASSUME Init, NEW r \in Runs PROVE PlaceInv(r) /\ ResultInv(r) /\ ReportInv(r)
    BY DEF TrailInv
  <2>1. thread[r].stage = "none" /\ thread[r].frames = << >> /\ thread[r].passed = << >>
    BY DEF Init
  <2>2. PlaceInv(r)
    BY <2>1 DEF Init, PlaceInv, ShortThread, Short
  <2>3. ResultInv(r)
    <3>1. ledger[r] = << >> /\ orphans = {}
      BY DEF Init
    <3>2. \A m : Tally(r, m) = 0
      BY <3>1, FS_EmptySet DEF Tally, Count
    <3>. QED
      BY <3>1, <3>2 DEF ResultInv, Pending
  <2>4. ReportInv(r)
    BY DEF Init, ReportInv
  <2>. QED
    BY <2>2, <2>3, <2>4
<1>r. Init => RealInv /\ OwnInv
  BY DEF Init, RealInv, TrailsReal, OrphansReal, Executing, OwnInv, ThreadsOwn, OrphansOwn, TrailsOwn, Own
<1>3. CrewTypeOK /\ SerialInv /\ GateInv /\ TrailInv /\ RealInv /\ OwnInv /\ [Next]_crewVars =>
        SerialInv' /\ GateInv' /\ TrailInv' /\ RealInv' /\ OwnInv'
  BY SerialStep, GateStep, TrailStep, RealStep, OwnStep
<1>4. CrewTypeOK /\ TrailInv /\ RealInv /\ OwnInv => TrailIsTrue
  <2>. SUFFICES ASSUME CrewTypeOK, TrailInv, RealInv, OwnInv PROVE TrailIsTrue
    OBVIOUS
  <2>3. ASSUME NEW r \in Runs, NEW i \in DOMAIN ledger[r], ledger[r][i].kind = "result"
        PROVE  /\ \E e \in ran : e.run = ledger[r][i].run /\ e.n = ledger[r][i].n /\ e.outcome = "ok"
               /\ ledger[r][i].run = r \/ phase[ledger[r][i].run] = "ended"
    BY <2>3 DEF RealInv, TrailsReal, Real, Succeeded, OwnInv, TrailsOwn
  <2>1. ASSUME NEW r \in Runs, NEW i \in DOMAIN ledger[r],
               ledger[r][i].run = r, ledger[r][i].kind = "result"
        PROVE  /\ \E j \in 1 .. i - 1 : ledger[r][j] = [ledger[r][i] EXCEPT !.kind = "start"]
               /\ \E e \in ran : e.run = r /\ e.n = ledger[r][i].n /\ e.outcome = "ok"
    <3>1. ledger[r] \in Seq(Events) /\ ledger[r][i] \in Events
      BY DEF CrewTypeOK
    <3>2. PICK m \in Nat : m = ledger[r][i].n
      BY <3>1 DEF Events
    <3>3. ledger[r][i] = Result(r, m) /\ [ledger[r][i] EXCEPT !.kind = "start"] = Start(r, m)
      BY <2>1, <3>1, <3>2 DEF Events, Result, Start
    <3>4. Result(r, m) \in Events
      BY <3>1, <3>3
    <3>5. In(ledger[r], Result(r, m)) => Tally(r, m) # 0
      BY <3>1, <3>4, CountAppend DEF Tally
    <3>6. Tally(r, m) # 0
      BY <3>3, <3>5 DEF In
    <3>7. Succeeded(r, m) /\ \E j \in 1 .. i - 1 : ledger[r][j] = Start(r, m)
      BY <3>3, <3>6 DEF TrailInv, ResultInv
    <3>. QED
      BY <3>2, <3>3, <3>7 DEF Succeeded
  <2>2. ASSUME NEW d \in done, phase[d.run] = "running", shape.after \/ ~shape.before
        PROVE  Count(ledger[d.run], [kind |-> "result", run |-> d.run, n |-> d.n]) = 1
    <3>1. d.run \in Runs
      BY DEF CrewTypeOK
    <3>2. ReportedOnce(d.run, d.n)
      BY <2>2, <3>1 DEF TrailInv, ReportInv, Reports
    <3>. QED
      BY <3>2 DEF ReportedOnce, Tally, Result
  <2>. QED
    BY <2>1, <2>2, <2>3 DEF TrailIsTrue
<1>. QED
  BY <1>1, <1>2, <1>r, <1>3, <1>4, CrewTypeCorrect, PTL DEF Spec

=============================================================================
