---------------------------- MODULE LangChainRun ----------------------------
(***************************************************************************)
(* Governed invocations of one LangChain object: arclasp/langchain/        *)
(* adapter.py and callbacks.py.                                            *)
(*                                                                         *)
(* Each ainvoke opens a chain and hands LangChain a callback of its own.   *)
(* LangChain awaits the callback before the body of every tool and LLM run *)
(* and again when the body has returned or raised.  Its callback manager   *)
(* logs and drops an Exception that a callback raises; a BaseException     *)
(* passes it, and every `except Exception` on its way to ainvoke.          *)
(*                                                                         *)
(* Tools and LLMs have the same three callbacks, but for the maps their    *)
(* names are kept in: here both are runs.                                  *)
(***************************************************************************)
EXTENDS FiniteSets

CONSTANTS
  Invocations,  \* calls of ainvoke, each in a task of its own
  Runs,         \* the tool and LLM runs, by run_id
  Parent,       \* run -> the run whose body starts it, or its invocation
  Invoked,      \* run -> the invocation it belongs to
  Awaited,      \* the runs that whoever starts them awaits
  Name,         \* run -> the name of its tool or model
  Agent,        \* agent_name, the type of the governed object
  None          \* no name

Names == {Name[x] : x \in Runs}

ASSUME LangChainAssumption ==
  /\ Invocations \cap Runs = {}
  /\ Invoked \in [Runs -> Invocations]
  /\ Parent \in [Runs -> Runs \cup Invocations]
  /\ \A x \in Runs : \/ Parent[x] \in Runs /\ Invoked[Parent[x]] = Invoked[x]
                     \/ Parent[x] = Invoked[x]
  /\ Awaited \subseteq Runs
  /\ None \notin Names \cup {Agent}

VARIABLES
  phase,      \* per invocation: where ainvoke is
  config,     \* the callbacks in the config that the callers share
  handlers,   \* per invocation: the callbacks it hands to LangChain
  place,      \* per run: where it is
  activeRuns, \* _active_tools and _active_llms, None where there is no entry
  allRuns,    \* _all_runs
  runParents, \* _run_parents
  held,       \* per run: the name and parent that its callback has in hand
  trail,      \* per invocation: the events its chain has permitted
  broken,     \* runs and invocations whose body a policy break has reached
  ran,        \* ghost: the runs whose body has executed
  refused,    \* ghost: the runs with a report that a policy exception ended
  lost        \* ghost: the reports that another exception ended

callbackVars == <<activeRuns, allRuns, runParents, held>>
langChainVars == <<phase, config, handlers, place, callbackVars, trail, broken,
                   ran, refused, lost>>

Phases == {"idle", "running", "returning", "raising", "returned", "raised"}

(* starting, ending and erroring: in a callback. *)
Places == {"idle", "starting", "entered", "ending", "erroring", "done", "errored", "failed"}

Reports == {"call", "result", "error"}

Init ==
  /\ phase = [i \in Invocations |-> "idle"]
  /\ config = {}
  /\ handlers = [i \in Invocations |-> {}]
  /\ place = [x \in Runs |-> "idle"]
  /\ activeRuns = [x \in Runs |-> None]
  /\ allRuns = [x \in Runs |-> None]
  /\ runParents = [x \in Runs |-> None]
  /\ held = [x \in Runs |-> [name |-> None, parent |-> None]]
  /\ trail = [i \in Invocations |-> {}]
  /\ broken = {}
  /\ ran = {}
  /\ refused = {}
  /\ lost = {}

-----------------------------------------------------------------------------
(* ainvoke *)

(* _merge_config concatenates into a list of its own. *)
Merge(i) ==
  /\ handlers' = [handlers EXCEPT ![i] = config \cup {i}]
  /\ config' = config

(* The chain is open and the governed object runs. *)
Begin(i) ==
  /\ phase[i] = "idle"
  /\ Merge(i)
  /\ phase' = [phase EXCEPT ![i] = "running"]
  /\ UNCHANGED <<place, callbackVars, trail, broken, ran, refused, lost>>

(* The SDK is not initialised or the chain cannot be opened. *)
BeginFails(i) ==
  /\ phase[i] = "idle"
  /\ phase' = [phase EXCEPT ![i] = "raised"]
  /\ UNCHANGED <<config, handlers, place, callbackVars, trail, broken, ran, refused, lost>>

Began(i) == handlers[i] # {}

(* The runs that b, a run or an invocation, awaits.  It goes on, with a    *)
(* value or an ordinary exception, once they have ended.                   *)
AwaitedBy(b) == {x \in Awaited : Parent[x] = b}

Collected(b) ==
  /\ b \notin broken
  /\ \A x \in AwaitedBy(b) : place[x] \in {"idle", "done", "errored"}

Returns(i) ==
  /\ phase[i] = "running"
  /\ Collected(i)
  /\ phase' = [phase EXCEPT ![i] = "returning"]
  /\ UNCHANGED <<config, handlers, place, callbackVars, trail, broken, ran, refused, lost>>

(* The break has reached ainvoke, which raises its original. *)
Breaks(i) ==
  /\ phase[i] = "running"
  /\ i \in broken
  /\ phase' = [phase EXCEPT ![i] = "raising"]
  /\ UNCHANGED <<config, handlers, place, callbackVars, trail, broken, ran, refused, lost>>

(* The governed object raises of itself or is cancelled. *)
Raises(i) ==
  /\ phase[i] = "running"
  /\ phase' = [phase EXCEPT ![i] = "raising"]
  /\ UNCHANGED <<config, handlers, place, callbackVars, trail, broken, ran, refused, lost>>

(* The chain's exit, which may itself raise. *)
Leave(i) ==
  /\ \/ phase[i] = "returning" /\ phase' = [phase EXCEPT ![i] = "returned"]
     \/ phase[i] \in {"returning", "raising"} /\ phase' = [phase EXCEPT ![i] = "raised"]
  /\ UNCHANGED <<config, handlers, place, callbackVars, trail, broken, ran, refused, lost>>

-----------------------------------------------------------------------------
(* A run, in LangChain and in the application. *)

To(x, p) == place' = [place EXCEPT ![x] = p]

(* The break reaches whoever awaits x. *)
Break(x) == broken' = IF x \in Awaited THEN broken \cup {Parent[x]} ELSE broken

(* The body that starts x has begun.  If x is awaited it has not returned; *)
(* but it may have raised: other runs awaited with x go on.                *)
MayStart(x) ==
  LET p == Parent[x] IN
  IF p \in Runs
    THEN p \in ran /\ (x \in Awaited => place[p] \notin {"ending", "done"})
    ELSE Began(p) /\ (x \in Awaited => phase[p] \notin {"returning", "returned"})

(* Mutant: a parent that has ended is not found. *)
ResolveActive(x) ==
  IF Parent[x] \in Runs /\ activeRuns[Parent[x]] # None THEN activeRuns[Parent[x]] ELSE Agent

(* _resolve_parent.  The invocation, and a LangChain chain within it, have *)
(* no entry.                                                               *)
ResolveParent(x) ==
  IF Parent[x] \in Runs /\ allRuns[Parent[x]] # None THEN allRuns[Parent[x]] ELSE Agent

Hold(x, n, p) == held' = [held EXCEPT ![x] = [name |-> n, parent |-> p]]

(* Mutant: the parent is left to the end event to find. *)
StartOrphaned(x) ==
  /\ place[x] = "idle"
  /\ MayStart(x)
  /\ To(x, "starting")
  /\ activeRuns' = [activeRuns EXCEPT ![x] = Name[x]]
  /\ allRuns' = [allRuns EXCEPT ![x] = Name[x]]
  /\ Hold(x, Name[x], ResolveParent(x))
  /\ UNCHANGED <<phase, config, handlers, runParents, trail, broken, ran, refused, lost>>

(* on_tool_start, on_llm_start: until the record. *)
Start(x) ==
  /\ place[x] = "idle"
  /\ MayStart(x)
  /\ To(x, "starting")
  /\ activeRuns' = [activeRuns EXCEPT ![x] = Name[x]]
  /\ allRuns' = [allRuns EXCEPT ![x] = Name[x]]
  /\ runParents' = [runParents EXCEPT ![x] = ResolveParent(x)]
  /\ Hold(x, Name[x], ResolveParent(x))
  /\ UNCHANGED <<phase, config, handlers, trail, broken, ran, refused, lost>>

Event(x, r) == [run |-> x, report |-> r, name |-> held[x].name, parent |-> held[x].parent]

(* Each callback that LangChain was handed records the event on its chain. *)
Record(x, r) ==
  trail' = [i \in Invocations |->
              IF i \in handlers[Invoked[x]] THEN trail[i] \cup {Event(x, r)} ELSE trail[i]]

(* pop(run_id), before the record is awaited: nothing puts it back.        *)
Pop(x) ==
  /\ Hold(x, activeRuns[x], runParents[x])
  /\ activeRuns' = [activeRuns EXCEPT ![x] = None]
  /\ runParents' = [runParents EXCEPT ![x] = None]
  /\ UNCHANGED allRuns

Enter(x) == To(x, "entered") /\ ran' = ran \cup {x}

StartPermitted(x) ==
  /\ place[x] = "starting"
  /\ Record(x, "call")
  /\ Enter(x)
  /\ UNCHANGED <<phase, config, handlers, callbackVars, broken, refused, lost>>

(* Mutant: the policy break is an ordinary exception. *)
StartSwallowed(x) ==
  /\ place[x] = "starting"
  /\ Enter(x)
  /\ refused' = refused \cup {x}
  /\ UNCHANGED <<phase, config, handlers, callbackVars, trail, broken, lost>>

(* _StrategyBPolicyBreak *)
StartRefused(x) ==
  /\ place[x] = "starting"
  /\ To(x, "failed")
  /\ Break(x)
  /\ refused' = refused \cup {x}
  /\ UNCHANGED <<phase, config, handlers, callbackVars, trail, ran, lost>>

(* Any other exception is dropped by the callback manager. *)
StartLost(x) ==
  /\ place[x] = "starting"
  /\ Enter(x)
  /\ lost' = lost \cup {<<x, "call">>}
  /\ UNCHANGED <<phase, config, handlers, callbackVars, trail, broken, refused>>

(* The body executes, with its side effects, and returns: on_tool_end and  *)
(* on_llm_end, until the record.                                           *)
BodyReturns(x) ==
  /\ place[x] = "entered"
  /\ Collected(x)
  /\ Pop(x)
  /\ To(x, "ending")
  /\ UNCHANGED <<phase, config, handlers, trail, broken, ran, refused, lost>>

(* It raises of itself; some bodies are reported when a break passes too:  *)
(* on_tool_error and on_llm_error, until the record.                       *)
BodyRaises(x) ==
  /\ place[x] = "entered"
  /\ Pop(x)
  /\ To(x, "erroring")
  /\ UNCHANGED <<phase, config, handlers, trail, broken, ran, refused, lost>>

BodyBreaks(x) ==
  /\ place[x] = "entered"
  /\ x \in broken
  /\ To(x, "failed")
  /\ Break(x)
  /\ UNCHANGED <<phase, config, handlers, callbackVars, trail, ran, refused, lost>>

-----------------------------------------------------------------------------
(* What the record of the end comes to. *)

EndPermitted(x) ==
  /\ place[x] = "ending"
  /\ Record(x, "result")
  /\ To(x, "done")
  /\ UNCHANGED <<phase, config, handlers, callbackVars, broken, ran, refused, lost>>

EndLost(x) ==
  /\ place[x] = "ending"
  /\ lost' = lost \cup {<<x, "result">>}
  /\ To(x, "done")
  /\ UNCHANGED <<phase, config, handlers, callbackVars, trail, broken, ran, refused>>

(* Mutant: the end callbacks do not wrap the policy exceptions. *)
EndSwallowed(x) ==
  /\ place[x] = "ending"
  /\ To(x, "done")
  /\ refused' = refused \cup {x}
  /\ UNCHANGED <<phase, config, handlers, callbackVars, trail, broken, ran, lost>>

(* The run has executed, and is reported as refused all the same. *)
EndRefused(x) ==
  /\ place[x] = "ending"
  /\ To(x, "failed")
  /\ Break(x)
  /\ refused' = refused \cup {x}
  /\ UNCHANGED <<phase, config, handlers, callbackVars, trail, ran, lost>>

(* The run's exception goes on, or the break that was passing. *)
Errored(x) ==
  IF x \in broken THEN To(x, "failed") /\ Break(x) ELSE To(x, "errored") /\ UNCHANGED broken

(* Mutant: an error is not reported. *)
ErrorUnreported(x) ==
  /\ place[x] = "erroring"
  /\ Errored(x)
  /\ UNCHANGED <<phase, config, handlers, callbackVars, trail, ran, refused, lost>>

ErrorPermitted(x) ==
  /\ place[x] = "erroring"
  /\ Record(x, "error")
  /\ Errored(x)
  /\ UNCHANGED <<phase, config, handlers, callbackVars, ran, refused, lost>>

ErrorLost(x) ==
  /\ place[x] = "erroring"
  /\ lost' = lost \cup {<<x, "error">>}
  /\ Errored(x)
  /\ UNCHANGED <<phase, config, handlers, callbackVars, trail, ran, refused>>

(* The break takes the place of the run's exception. *)
ErrorRefused(x) ==
  /\ place[x] = "erroring"
  /\ To(x, "failed")
  /\ Break(x)
  /\ refused' = refused \cup {x}
  /\ UNCHANGED <<phase, config, handlers, callbackVars, trail, ran, lost>>

(* A run of an invocation that is cancelled, or over, is cancelled. *)
Abandon(x) ==
  /\ phase[Invoked[x]] \in {"raising", "returned", "raised"}
  /\ place[x] \in {"starting", "entered", "ending", "erroring"}
  /\ To(x, "failed")
  /\ UNCHANGED <<phase, config, handlers, callbackVars, trail, broken, ran, refused, lost>>

-----------------------------------------------------------------------------
CallbackStep(x) ==
  \/ StartPermitted(x) \/ StartRefused(x) \/ StartLost(x)
  \/ EndPermitted(x) \/ EndRefused(x) \/ EndLost(x)
  \/ ErrorPermitted(x) \/ ErrorRefused(x) \/ ErrorLost(x)

Next ==
  \/ \E i \in Invocations : \/ Begin(i) \/ BeginFails(i) \/ Raises(i)
                            \/ Returns(i) \/ Breaks(i) \/ Leave(i)
  \/ \E x \in Runs : \/ Start(x) \/ BodyReturns(x) \/ BodyRaises(x) \/ BodyBreaks(x)
                     \/ CallbackStep(x) \/ Abandon(x)

Spec == Init /\ [][Next]_langChainVars

-----------------------------------------------------------------------------
(* Properties. *)

LangChainTypeOK ==
  /\ phase \in [Invocations -> Phases]
  /\ config \subseteq Invocations
  /\ handlers \in [Invocations -> SUBSET Invocations]
  /\ place \in [Runs -> Places]
  /\ activeRuns \in [Runs -> Names \cup {None}]
  /\ allRuns \in [Runs -> Names \cup {None}]
  /\ runParents \in [Runs -> Names \cup {Agent, None}]
  /\ held \in [Runs -> [name : Names \cup {None}, parent : Names \cup {Agent, None}]]
  /\ trail \in [Invocations -> SUBSET [run : Runs, report : Reports,
                                       name : Names, parent : Names \cup {Agent}]]
  /\ broken \subseteq Runs \cup Invocations
  /\ ran \subseteq Runs
  /\ refused \subseteq Runs
  /\ lost \subseteq Runs \X Reports

Recorded(x, r) == \E e \in trail[Invoked[x]] : e.run = x /\ e.report = r

Accounted(x, r) == Recorded(x, r) \/ <<x, r>> \in lost

(* No body executes before its own record was permitted, also after other  *)
(* runs were refused and the invocation is over; only a report lost to an  *)
(* exception that is not a policy's lets one through ("before every tool   *)
(* execution", adapter.py:25).                                             *)
BodiesAreGated == \A x \in ran : Accounted(x, "call")

(* A chain records what happened in its own invocation, also when others   *)
(* share its config.  Events carry the name of their run and of the run    *)
(* that started it, also where that one has ended first and its name is    *)
(* popped (callbacks.py:168).                                              *)
TrailIsTrue ==
  \A i \in Invocations : \A e \in trail[i] :
    /\ Invoked[e.run] = i
    /\ e.name = Name[e.run]
    /\ e.parent = IF Parent[e.run] \in Runs THEN Name[Parent[e.run]] ELSE Agent

(* x and every run it is nested in. *)
Nested(S) == \A y \in S : Parent[y] \in Runs => Parent[y] \in S

Ancestry ==
  [x \in Runs |-> {y \in Runs : \A S \in SUBSET Runs : x \in S /\ Nested(S) => y \in S}]

(* Everyone up to the invocation awaits x, and none of them has left it    *)
(* behind by raising an exception of its own.                              *)
Attended(x) ==
  /\ Ancestry[x] \subseteq Awaited
  /\ \A y \in Ancestry[x] \ {x} : place[y] # "errored"

(* A refusal, of a call before it or of a result after it, at whatever     *)
(* depth, ends in an exception of ainvoke and never in a normal return     *)
(* (test_langchain_workflow.py:523).                                       *)
RefusalSurfaces ==
  \A x \in refused : Attended(x) => phase[Invoked[x]] # "returned"

(* An invocation that returns has reported how every run ended.            *)
EndsAreReported ==
  \A x \in ran :
    phase[Invoked[x]] = "returned" /\ Attended(x) =>
      \/ place[x] = "done" /\ Accounted(x, "result")
      \/ place[x] = "errored" /\ Accounted(x, "error")

=============================================================================
