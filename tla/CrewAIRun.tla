----------------------------- MODULE CrewAIRun -----------------------------
(***************************************************************************)
(* Governed runs of one CrewAI crew: arclasp/crewai/adapter.py and         *)
(* callbacks.py.  A run opens a chain on the event loop, wraps the hooks   *)
(* of the shared crew object, and awaits the crew, which executes its      *)
(* tasks on a thread of its own.  The wrappers post each governance event  *)
(* to the loop and block their thread for the answer, at most 30 seconds.  *)
(*                                                                         *)
(* A wrapper is named by the run that installed it, since all it holds is  *)
(* that run's callback and chain.  All agents of a crew are patched and    *)
(* restored together, so one hook stands for their execute_task methods.   *)
(***************************************************************************)
EXTENDS Naturals, Sequences, FiniteSets

CONSTANTS
  Runs,         \* the governed kickoffs of the crew
  Shapes,       \* which native hooks the crew object may have
  Overlapping,  \* kickoffs may overlap
  Breakable,    \* an object of the crew may refuse to be patched
  MaxCalls      \* bound: calls of execute_task, for each run

(* hasattr(crew, "before_task_callback"), hasattr(crew, "task_callback").  *)
Shape == [before : BOOLEAN, after : BOOLEAN]

ASSUME CrewAssumption ==
  /\ Shapes \subseteq Shape
  /\ Overlapping \in BOOLEAN
  /\ Breakable \in BOOLEAN
  /\ MaxCalls \in [Runs -> Nat]

VARIABLES
  shape,    \* the crew object's native hooks
  hooks,    \* the wrappers around each hook, outermost first
  saved,    \* per run: the originals in its patch records
  phase,    \* per run: where kickoff_async is
  thread,   \* per run: where the crew's thread is
  ledger,   \* per run: the events its chain has permitted, in order
  orphans,  \* coroutines whose thread has stopped waiting
  ran,      \* ghost: task executions and how they ended
  done      \* ghost: tasks whose callbacks have returned

crewVars == <<shape, hooks, saved, phase, thread, ledger, orphans, ran, done>>

Hooks == [before : Seq(Runs), execute : Seq(Runs), after : Seq(Runs)]

Unwrapped == [before |-> << >>, execute |-> << >>, after |-> << >>]

(* A thread between two tasks is "free"; in "before", "start" and "after"  *)
(* it goes inwards through frames, the wrappers still to fire; in "end"    *)
(* and "error" it goes outwards through passed, innermost first.           *)
Stages == {"none", "free", "before", "start", "end", "error", "after", "over"}

Phases == {"idle", "running", "closing", "ended"}

Kinds == {"start", "result", "error"}

Init ==
  /\ shape \in Shapes
  /\ hooks = Unwrapped
  /\ saved = [r \in Runs |-> Unwrapped]
  /\ phase = [r \in Runs |-> "idle"]
  /\ thread = [r \in Runs |-> [stage |-> "none", frames |-> << >>, passed |-> << >>,
                               waiting |-> FALSE, n |-> 0]]
  /\ ledger = [r \in Runs |-> << >>]
  /\ orphans = {}
  /\ ran = {}
  /\ done = {}

ChainOpen(r) == phase[r] \in {"running", "closing"}

-----------------------------------------------------------------------------
(* kickoff_async, on the event loop. *)

(* execute_task is patched if there is no before_task_callback. *)
PatchesAgents == ~shape.before

EmitEnd == PatchesAgents /\ ~shape.after

Wrapped(r) ==
  [before  |-> IF shape.before THEN <<r>> \o hooks.before ELSE hooks.before,
   execute |-> IF PatchesAgents THEN <<r>> \o hooks.execute ELSE hooks.execute,
   after   |-> IF shape.after THEN <<r>> \o hooks.after ELSE hooks.after]

(* The chain is open: the hooks are wrapped and the crew is started.       *)
Begin(r) ==
  /\ phase[r] = "idle"
  /\ Overlapping \/ \A q \in Runs : ~ChainOpen(q)
  /\ saved' = [saved EXCEPT ![r] = hooks]
  /\ hooks' = Wrapped(r)
  /\ phase' = [phase EXCEPT ![r] = "running"]
  /\ thread' = [thread EXCEPT ![r] = [@ EXCEPT !.stage = "free"]]
  /\ UNCHANGED <<shape, ledger, orphans, ran, done>>

(* The installation comes before the try: what it has wrapped when an      *)
(* assignment raises stays wrapped.                                        *)
InstallBreaks(r) ==
  /\ Breakable
  /\ phase[r] = "idle"
  /\ Overlapping \/ \A q \in Runs : ~ChainOpen(q)
  /\ \/ hooks' = hooks
     \/ shape.after /\ hooks' = [hooks EXCEPT !.before = Wrapped(r).before]
     \/ PatchesAgents /\ hooks' \in {[Wrapped(r) EXCEPT !.execute = hooks.execute], Wrapped(r)}
  /\ phase' = [phase EXCEPT ![r] = "closing"]
  /\ UNCHANGED <<shape, saved, thread, ledger, orphans, ran, done>>

(* The chain cannot be opened: the crew is not started. *)
BeginFails(r) ==
  /\ phase[r] = "idle"
  /\ phase' = [phase EXCEPT ![r] = "ended"]
  /\ UNCHANGED <<shape, hooks, saved, thread, ledger, orphans, ran, done>>

(* The finally clause. *)
Restore(r) ==
  /\ hooks' = saved[r]
  /\ phase' = [phase EXCEPT ![r] = "closing"]

(* The crew's thread has returned or raised. *)
Return(r) ==
  /\ phase[r] = "running"
  /\ thread[r].stage = "over"
  /\ Restore(r)
  /\ UNCHANGED <<shape, saved, thread, ledger, orphans, ran, done>>

(* Mutant: the hooks are restored only after a normal return. *)
CancelKeepsHooks(r) ==
  /\ phase[r] = "running"
  /\ phase' = [phase EXCEPT ![r] = "closing"]
  /\ UNCHANGED <<shape, hooks, saved, thread, ledger, orphans, ran, done>>

(* kickoff_async is cancelled while it awaits the crew.  Its thread is     *)
(* not.                                                                    *)
Cancel(r) ==
  /\ phase[r] = "running"
  /\ Restore(r)
  /\ UNCHANGED <<shape, saved, thread, ledger, orphans, ran, done>>

(* The chain's exit. *)
Close(r) ==
  /\ phase[r] = "closing"
  /\ phase' = [phase EXCEPT ![r] = "ended"]
  /\ UNCHANGED <<shape, hooks, saved, thread, ledger, orphans, ran, done>>

-----------------------------------------------------------------------------
(* The crew's thread. *)

ThreadUnchanged == UNCHANGED <<shape, hooks, saved, phase>>

Goto(r, t) == thread' = [thread EXCEPT ![r] = t]

(* An exception that has passed every wrapper reaches the crew. *)
Ready(t) == t.stage = "free" \/ (t.stage = "error" /\ t.passed = << >> /\ ~t.waiting)

(* The crew begins a task, or tries one again.  It looks its hook up now.  *)
Call(r) ==
  /\ Ready(thread[r])
  /\ thread[r].n < MaxCalls[r]
  /\ Goto(r, [stage   |-> IF shape.before THEN "before" ELSE "start",
              frames  |-> IF shape.before THEN hooks.before ELSE hooks.execute,
              passed  |-> << >>,
              waiting |-> FALSE,
              n       |-> thread[r].n + 1])
  /\ ran' = ran \cup {[run |-> r, n |-> thread[r].n + 1, governed |-> phase[r] = "running",
                       outcome |-> "none"]}
  /\ UNCHANGED <<ledger, orphans, done>> /\ ThreadUnchanged

(* The wrapped before_task_callback returns, or the application's own hook *)
(* under it raises.                                                        *)
Enter(r) ==
  LET t == thread[r]
  IN  /\ t.stage = "before" /\ t.frames = << >>
      /\ \/ Goto(r, [t EXCEPT !.stage = "start", !.frames = hooks.execute])
         \/ Goto(r, [t EXCEPT !.stage = "error"])
      /\ UNCHANGED <<ledger, orphans, ran, done>> /\ ThreadUnchanged

Executed(r, outcome) ==
  {IF e.run = r /\ e.n = thread[r].n THEN [e EXCEPT !.outcome = outcome] ELSE e : e \in ran}

(* Mutant: an exception of the task is taken for its result. *)
ExecuteSwallows(r) ==
  LET t == thread[r]
  IN  /\ t.stage = "start" /\ t.frames = << >>
      /\ \E outcome \in {"ok", "raised"} : ran' = Executed(r, outcome)
      /\ Goto(r, [t EXCEPT !.stage = "end", !.passed = IF EmitEnd THEN @ ELSE << >>])
      /\ UNCHANGED <<ledger, orphans, done>> /\ ThreadUnchanged

(* The original execute_task: the task's side effects happen here. *)
Execute(r) ==
  LET t == thread[r]
  IN  /\ t.stage = "start" /\ t.frames = << >>
      /\ \/ /\ ran' = Executed(r, "ok")
            /\ Goto(r, [t EXCEPT !.stage = "end", !.passed = IF EmitEnd THEN @ ELSE << >>])
         \/ /\ ran' = Executed(r, "raised")
            /\ Goto(r, [t EXCEPT !.stage = "error"])
      /\ UNCHANGED <<ledger, orphans, done>> /\ ThreadUnchanged

(* execute_task has returned: the crew looks task_callback up and calls it.*)
Returned(r) ==
  LET t == thread[r]
  IN  /\ t.stage = "end" /\ t.passed = << >>
      /\ Goto(r, [t EXCEPT !.stage = "after", !.frames = hooks.after])
      /\ UNCHANGED <<ledger, orphans, ran, done>> /\ ThreadUnchanged

(* The callback returns, or the application's own callback raises. *)
Done(r) ==
  LET t == thread[r]
  IN  /\ t.stage = "after" /\ t.frames = << >>
      /\ \/ /\ Goto(r, [t EXCEPT !.stage = "free"])
            /\ done' = done \cup {[run |-> r, n |-> t.n]}
         \/ /\ Goto(r, [t EXCEPT !.stage = "error"])
            /\ done' = done
      /\ UNCHANGED <<ledger, orphans, ran>> /\ ThreadUnchanged

(* The crew has no more tasks, or gives up after an exception. *)
Leave(r) ==
  /\ Ready(thread[r])
  /\ Goto(r, [thread[r] EXCEPT !.stage = "over"])
  /\ UNCHANGED <<ledger, orphans, ran, done>> /\ ThreadUnchanged

-----------------------------------------------------------------------------
(* _fire: a wrapper's event goes to the loop and its thread blocks.        *)

Inwards == {"before", "start", "after"}
Outwards == {"end", "error"}

Firing(t) ==
  \/ t.stage \in Inwards /\ t.frames # << >>
  \/ t.stage \in Outwards /\ t.passed # << >>

Target(t) == IF t.stage \in Inwards THEN Head(t.frames) ELSE Head(t.passed)

Kind(t) ==
  CASE t.stage \in {"before", "start"} -> "start"
    [] t.stage \in {"end", "after"} -> "result"
    [] OTHER -> "error"

Event(r) == [kind |-> Kind(thread[r]), run |-> r, n |-> thread[r].n]

(* Mutant: the thread goes on as if it were still blocked. *)
AnsweredStillWaiting(t) ==
  [t EXCEPT !.frames = IF t.stage \in Inwards THEN Tail(@) ELSE @,
            !.passed = CASE t.stage = "start" -> <<Head(t.frames)>> \o @
                         [] t.stage \in Outwards -> Tail(@)
                         [] OTHER -> @]

(* on_task_start is outside the try of its wrapper, and so are on_task_end *)
(* and on_task_error: a wrapper handles what is raised inside it only.     *)
Answered(t) ==
  [t EXCEPT !.waiting = FALSE,
            !.frames = IF t.stage \in Inwards THEN Tail(@) ELSE @,
            !.passed = CASE t.stage = "start" -> <<Head(t.frames)>> \o @
                         [] t.stage \in Outwards -> Tail(@)
                         [] OTHER -> @]

Thrown(t) ==
  [stage |-> "error", frames |-> << >>,
   passed |-> IF t.stage \in Outwards THEN Tail(t.passed) ELSE t.passed,
   waiting |-> FALSE, n |-> t.n]

(* run_coroutine_threadsafe, and future.result(30). *)
Fire(r) ==
  /\ Firing(thread[r]) /\ ~thread[r].waiting
  /\ Goto(r, [thread[r] EXCEPT !.waiting = TRUE])
  /\ UNCHANGED <<ledger, orphans, ran, done>> /\ ThreadUnchanged

(* record_agent_action returns.  A chain whose completion failed may       *)
(* permit events even after its exit.                                      *)
Permit(r) ==
  LET t == thread[r]
  IN  /\ t.waiting
      /\ ledger' = [ledger EXCEPT ![Target(t)] = Append(@, Event(r))]
      /\ Goto(r, Answered(t))
      /\ UNCHANGED <<orphans, ran, done>> /\ ThreadUnchanged

(* It raises: the exception is the wrapper's. *)
Refuse(r) ==
  /\ thread[r].waiting
  /\ Goto(r, Thrown(thread[r]))
  /\ UNCHANGED <<ledger, orphans, ran, done>> /\ ThreadUnchanged

(* Mutants: a timeout is logged only, or there is none. *)
TimeOutSwallowed(r) ==
  LET t == thread[r]
  IN  /\ t.waiting
      /\ orphans' = orphans \cup {[chain |-> Target(t), event |-> Event(r)]}
      /\ Goto(r, Answered(t))
      /\ UNCHANGED <<ledger, ran, done>> /\ ThreadUnchanged

TimeOutNever(r) == FALSE /\ thread' = thread /\ UNCHANGED <<ledger, orphans, ran, done>> /\ ThreadUnchanged

(* BackendUnavailableError after 30 seconds; the coroutine goes on. *)
TimeOut(r) ==
  LET t == thread[r]
  IN  /\ t.waiting
      /\ orphans' = orphans \cup {[chain |-> Target(t), event |-> Event(r)]}
      /\ Goto(r, Thrown(t))
      /\ UNCHANGED <<ledger, ran, done>> /\ ThreadUnchanged

(* A coroutine ends that nobody waits for. *)
EndLate(o) ==
  /\ o \in orphans
  /\ orphans' = orphans \ {o}
  /\ \/ ledger' = [ledger EXCEPT ![o.chain] = Append(@, o.event)]
     \/ ledger' = ledger
  /\ UNCHANGED <<thread, ran, done>> /\ ThreadUnchanged

-----------------------------------------------------------------------------
ThreadStep(r) ==
  Call(r) \/ Enter(r) \/ Execute(r) \/ Returned(r) \/ Done(r) \/ Leave(r) \/ Fire(r) \/ TimeOut(r)

LoopStep(r) == Return(r) \/ Close(r)

Next ==
  \/ \E r \in Runs : ThreadStep(r) \/ LoopStep(r)
  \/ \E r \in Runs : Begin(r) \/ InstallBreaks(r) \/ BeginFails(r) \/ Cancel(r)
  \/ \E r \in Runs : Permit(r) \/ Refuse(r)
  \/ \E o \in orphans : EndLate(o)

Spec == Init /\ [][Next]_crewVars

(* Tasks and callbacks end, the 30 seconds pass, and the loop resumes what *)
(* is ready.  Nothing is assumed of the chain's answers.                   *)
Fairness == \A r \in Runs : WF_crewVars(ThreadStep(r)) /\ WF_crewVars(LoopStep(r))

FairSpec == Spec /\ Fairness

-----------------------------------------------------------------------------
(* Properties. *)

Events == [kind : Kinds, run : Runs, n : Nat]

CrewTypeOK ==
  /\ shape \in Shapes
  /\ hooks \in Hooks
  /\ saved \in [Runs -> Hooks]
  /\ phase \in [Runs -> Phases]
  /\ thread \in [Runs -> [stage : Stages, frames : Seq(Runs), passed : Seq(Runs),
                          waiting : BOOLEAN, n : Nat]]
  /\ ledger \in [Runs -> Seq(Events)]
  /\ orphans \subseteq [chain : Runs, event : Events]
  /\ ran \subseteq [run : Runs, n : Nat, governed : BOOLEAN,
                    outcome : {"none", "ok", "raised"}]
  /\ done \subseteq [run : Runs, n : Nat]
  /\ \A r \in Runs : thread[r].waiting => Firing(thread[r])
  /\ \A r \in Runs : phase[r] = "idle" => thread[r].stage = "none"

(* The runs whose wrappers the crew carries. *)
Wrappers == UNION {{h[i] : i \in DOMAIN h} : h \in {hooks.before, hooks.execute, hooks.after}}

(* "every agent and crew object is restored to its original state"         *)
(* (adapter.py:54): when no run is under way, the crew carries no wrapper  *)
(* of a run that has executed it.  Those of an installation that raised    *)
(* stay, since nothing removes them.                                       *)
HooksRestored ==
  (\A r \in Runs : phase[r] # "running") => \A r \in Wrappers : thread[r].stage = "none"

Count(s, e) == Cardinality({i \in DOMAIN s : s[i] = e})

In(s, e) == \E i \in DOMAIN s : s[i] = e

Started(e) == In(ledger[e.run], [kind |-> "start", run |-> e.run, n |-> e.n])

(* A task that the crew calls while its governed run is under way has been *)
(* permitted by that run's chain before it executes, whatever times out or *)
(* is cancelled later.                                                     *)
GatedWhileGoverned == \A e \in ran : e.governed /\ e.outcome # "none" => Started(e)

(* A result on a chain's trail is of a task that returned.  It comes after *)
(* that task's start if the chain is the task's own run's.  On another     *)
(* run's trail, where nothing tells of its start, it gets only through a   *)
(* wrapper met by the thread of a run that is over (its kickoff was        *)
(* cancelled), or through one that a broken installation left behind.      *)
(* "Each task emits exactly one task_result event" (adapter.py:41): in a   *)
(* run under way, when its callbacks have returned.  A crew whose only     *)
(* native hook is before_task_callback has nothing that reports ends.      *)
TrailIsTrue ==
  /\ \A r \in Runs : \A i \in DOMAIN ledger[r] :
       LET v == ledger[r][i]
       IN  v.kind = "result" =>
             /\ \E e \in ran : e.run = v.run /\ e.n = v.n /\ e.outcome = "ok"
             /\ IF v.run = r THEN \E j \in 1 .. i - 1 : ledger[r][j] = [v EXCEPT !.kind = "start"]
                ELSE phase[v.run] = "ended" \/ thread[r].stage = "none"
  /\ \A d \in done :
       phase[d.run] = "running" /\ (shape.after \/ ~shape.before) =>
         Count(ledger[d.run], [kind |-> "result", run |-> d.run, n |-> d.n]) = 1

(* Every run that begins ends, even if the chain never answers: no thread  *)
(* and no kickoff waits for ever.                                          *)
RunsEnd ==
  \A r \in Runs : phase[r] = "running" ~> phase[r] = "ended" /\ thread[r].stage = "over"

=============================================================================
