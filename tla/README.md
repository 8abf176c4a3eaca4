# Arclasp, in TLA+

Models, model-checking instances and machine-checked proofs of the Arclasp
Python SDK (`arclasp/`): the client side of a governance service. An application
opens a *chain*, submits each agent action to the backend before it executes it,
and goes on only if the action is permitted.

## 1. The system

### Components

| component | state | operations | interacts with |
|---|---|---|---|
| **Chain** (`arclasp/chain.py`) | `_chain_id`, `_sequence_number`, `_backend_terminal_noncompletable`, the drain helpers' buffer and flag | enter and exit of the (async) context manager, `record_agent_action`, `_poll_for_approval`, `_complete` | transport (awaited calls); any number of tasks record on one chain concurrently |
| **Transport** (`arclasp/client.py`: `_retry_with_backoff`, `_post`, `_get`, `_handle_backend_failure`) | none beyond the call | up to `max_retries + 1` attempts; classifies failures | the backend, over HTTP |
| **Configuration and client cache** (`arclasp/client.py`) | a context-local config, the process-wide default, one HTTP client per event loop | `init`, `get_config`, `_get_client` | every call |
| **Local policy engine** (`arclasp/policies.py`) | none (running totals are passed in and out) | `classify_risk`, `update_chain_metrics_local`, `evaluate_policy`, `process_action_local` | a reference implementation of the backend's evaluation |
| **Sanitization** (`arclasp/sanitization.py`) | none | recursive redaction of payloads | called before an event is sent |
| **Offline buffer and drain** (`arclasp/chain.py`) | `_offline`, `_offline_buffer`, `_drain_task` | `_buffer_event`, `_drain_buffer_to_backend`, `_drain_offline_buffer` | legacy helpers, kept beside the chain |
| **MCP, LangGraph, LangChain, CrewAI adapters** | run trees, a current chain, patched agents | map framework events to `record_agent_action` | a chain each; CrewAI calls back from other threads |
| **Backend** (not in the repository) | the chain's status, its events, its approvals | create, record, approval status, complete, resume | reviewers and operators |

### What is hard here

Tasks of one event loop interleave at every `await`; requests are lost, delayed,
answered after the client has given up, and sent again; the approval a task polls
for belongs to the chain and not to the action; the chain is halted by the
backend, resumed by an operator, decided by reviewers while tasks wait; the task
that leaves the block is cancelled while the completion is under way. The
hazards in `PROJECT.json` name each of these at the line where it bites.

### What makes each component correct

* **Chain**: an action is permitted only by the backend or a reviewer; refusals
  are reported as what they are; completion is reported only when it happened,
  and given up only when the backend halted the chain; a cancellation neither
  orphans the completion nor is lost.
* **Transport**: bounded attempts; no failure becomes a response; an event that
  is sent again is recorded once.
* **Policy engine**: the gates apply in their order; kill switch and hard denies
  cannot be bypassed by an exception; the totals count what was evaluated; a
  riskier action is not treated more leniently.
* **Drain**: no event lost except by the documented eviction and discard.
* **Client cache**: a call is made with the settings of its chain, on an open client
  of its own event loop; a chain is not reconfigured, and a context only by threads
  that meet inside `init`.
* **Adapters**: every action is gated exactly once, before its side effect; what
  they patch is restored; no thread waits for ever for the event loop.

## 2. The modules

| module | what it is |
|---|---|
| `GovernanceGate` | abstract specification: an authority decides about actions, decided actions are released, the chain is closed and then reported closed |
| `Transport` | the retrying transport, one outstanding call per caller, as operators on `net`, `call` and `reply` |
| `GovernedChain` | the Chain, its recording tasks, its owner task, the transport (`INSTANCE Transport`) and the backend, composed; the properties |
| `MCGovernedChain` and its `.cfg` files | the instances TLC checks |
| `GovernedChainProofs` | type correctness, the inductive invariant and the safety theorems |
| `GovernedChainRefinement` | `GovernedChain` implements `GovernanceGate` |
| `PolicyEngine` | the four stages of the local engine as operators, and a caller that submits a chain's actions and keeps its totals |
| `MCPolicyEngine` and its `.cfg` file | the instance TLC checks |
| `PolicyEngineProofs` | all safety properties: types, the order of the gates, the totals, the hard limit, monotone decisions |
| `CrewAIRun` | governed kickoffs of one CrewAI crew: the patched hooks, the crew's thread, `_fire` between the thread and the loop |
| `MCCrewAIRun` and its `.cfg` files | the instances TLC checks |
| `CrewAIRunProofs` | type correctness; restoration, gating and true trails of runs that do not overlap; what the trails of any runs tell |
| `LangGraphRun` | concurrent governed invocations of one LangGraph graph: nodes that govern themselves, the stream the adapter reads, the callback |
| `MCLangGraphRun` and its `.cfg` files | the instances TLC checks |
| `LangGraphRunProofs` | type correctness and all safety properties |
| `LangChainRun` | concurrent governed invocations of one LangChain object: the merged config, the callback and its maps, trees of tool and LLM runs |
| `MCLangChainRun` and its `.cfg` file | the instance TLC checks |
| `LangChainRunProofs` | type correctness and all safety properties |
| `ClientCache` | configurations, contexts, event loops, the clients cached for them, and the chains bound to a configuration |
| `MCClientCache` and its `.cfg` file | the instance TLC checks |
| `ClientCacheProofs` | type correctness and all safety properties |
| `OfflineDrain` | the offline buffer, the two drain coroutines and the completion that waits for them |
| `MCOfflineDrain` and its `.cfg` file | the instance TLC checks |
| `OfflineDrainProofs` | type correctness and all safety and action properties |

### How `GovernedChain` corresponds to the code

A task of asyncio runs alone from one `await` to the next, so an action of the
module is the code between two awaits.

* `pc[a]` is where one call of `record_agent_action` is: `posting` is the await
  of `_post` (chain.py:336), `polling` the loop of `_poll_for_approval`; the other
  values are how it ended: `allowed` is a normal return, each other value an
  exception (`Outcomes`).
* `Record`, `RecordReply`, `RecordConflict`, `RecordFails` are the call up to the
  await, the code after it, a 409, and a call that fails. `RecordReply` covers
  everything from the decoding on: the sequence number, the terminal mark, and
  what is raised, in the code's order (`AfterDecision`).
* `Poll`, `PollReply`, `PollFails`, `PollBreaks`, `PollExpires` are the loop: the sleep
  and the count come before the GET, every exception of the GET is swallowed, the
  window is `MaxPolls` polls. What reads the answer comes after the `try`
  (chain.py:717-721): an answer it cannot read raises out of the loop (`PollBreaks`).
* `owner` is where the `async with` block is. `Start`, `StartReply`, `StartFails`
  are `__aenter__`; `Exit`, `Complete`, `CompleteReply`, `CompleteFails`,
  `CancelExit`, `CancelCompletion` are `__aexit__`, `_complete_for_async_exit`
  and `_complete`. `ExitOutcome` is the order in which a cancellation, the body's
  exception and a failed completion prevail.
* `net`, `call`, `reply` are the transport. An attempt the client has given up on
  stays in `net` and may be handled at any later moment, also after the next
  attempt was answered or the call ended. A request that is never handled is a
  lost one. The delay between attempts is not modelled: `net` delays any request
  by any amount already. A read that nobody waits for any more is dropped.
* `status`, `events`, `approval`, `granted` are the backend. It is not in the
  repository; what the SDK and its documentation say of it is modelled: an event
  whose idempotency key is known is answered with the recorded decision
  (chain.py:314); creation is idempotent by its key (chain.py:534); an event on a
  chain that is paused or closed is a 409, on one under review it may be;
  a decision that needs a reviewer creates or reuses the chain's pending approval
  (README.md, "Human approval"); approval-status answers for the chain; a denied
  or timed-out approval ends the chain; completion is refused while the chain is
  not active (tests/integration/test_langgraph_workflow.py); an operator can
  resume an auto-paused chain. Which decision an event gets is free: the policy,
  exceptions and the organisation's kill switch change under the chain.

What is abstracted: payloads, names, notes and messages; the clock (a poll and an
attempt may always fail or succeed in time); which retryable failure happened.

### How `PolicyEngine` corresponds to the code

The engine is a pure function; the chain's state is the dictionary of totals its
caller passes in and keeps (`metrics`). An action is the set of *traits* the
keyword searches of `classify_risk` can find in it, an amount and a domain: the
strings themselves are left out, so a trait set stands for every payload with
those matches. `delete_name` and `delete_type`, and `iam` and `access`, are
different traits because the hard denies look at the name only. An amount is a whole
number or NaN, which `_extract_numeric` lets through (`Numbers`): a sum with it is NaN
(`Plus`), and no comparison with a limit holds of it (`Above`).

* `InCategory`, `Points`, `Score`, `RiskScore` are `classify_risk`; `Update` is
  `update_chain_metrics_local`; `HardDeny`, `NeedsReview`, `Evaluate` are the
  ordered rules of `evaluate_policy`, on the updated totals.
* `Process` is `process_action_local`: kill switch, then the disabled mode, then
  the pipeline, then `AfterBudget` and `AfterException`, which apply in enforce
  mode only. `Mode` looks at the keyword argument alone.
* `Submit` is one call and the caller's saving of the returned totals.

### How `CrewAIRun` corresponds to the code

A governed run is a kickoff of one shared crew object. The coroutine runs on the
event loop; the crew executes its tasks on a thread of its own; the two meet in
`_fire`, where a wrapper hands its coroutine to the loop and blocks.

* `shape` says which native hooks the crew has and thereby which of the
  instrumentation strategies is used; `hooks` is the stack of wrappers on each
  hook, and `saved[r]` the originals in run `r`'s patch records. A wrapper is
  named by its run, because its callback and chain are all it holds.
* `Begin` is the entry of the chain, `_install_instrumentation` and the start of
  the crew. The installation comes before the `try` (crewai/adapter.py:192): what it has
  wrapped when one of its assignments raises stays wrapped (`InstallBreaks`, possible
  where `Breakable`). `Return` and `Cancel` are the `finally` clause
  (`_restore_instrumentation`) after the crew's end or a cancellation of the await;
  `Close` is the chain's exit. Installation and restoration have no `await` in
  them, but the crew's thread can run between two of their assignments: they
  are taken as one step.
* `thread[r]` is the crew's thread: its place in the task (`stage`), the wrappers
  still ahead of it (`frames`) and those it is inside of (`passed`). A hook is
  looked up when the crew calls it, and not before: a thread may meet hooks that
  were restored or wrapped again under it. `Call`, `Enter`, `Execute`, `Returned`,
  `Done`, `Leave` are the crew and the task; a task may be retried.
* `Fire`, `Permit`, `Refuse`, `TimeOut`, `EndLate` are `_fire`: after a timeout the
  coroutine stays in `orphans` and may still be permitted.

The chain is abstracted to what a wrapper sees of it: it permits, it raises, or
does not answer in time. `_fire` is never called from the loop's own thread, as its
docstring demands.

### How `LangGraphRun` corresponds to the code

Invocations are concurrent calls of `ainvoke` on one graph. The graph runs in tasks
of its own, ahead of the adapter, which reads its events one by one.

* `strategy` is which of the adapter's three ways applies: the event stream, the
  callback, or neither. `marker[n]` is the name given to `governed_node` for the
  callable of node `n`, which need not be `n`; `found` is what
  `_discover_pre_governed_nodes` returns. It looks for markers through a graph's
  attributes, to a depth, and may miss some: any subset is an initial state.
* `phase[i]` is where `ainvoke` is: `reading` is the await of the next event (or of
  `graph.ainvoke`), `observing` the await of `on_node_start`, `returning` and
  `raising` the chain's exit. `Observe` leaves the event at the queue's head until
  its record is decided.
* `Skip`, `Observe`, `ObservePermitted`, `ObserveRefused`, `StreamEnds` are the loop of
  `_ainvoke_via_streaming`. After a refusal the loop is left and `raising` follows
  at once. Neither `break` nor an exception closes an asynchronous generator in
  Python, so the graph goes on until it ends or the generator is collected
  (`Collect`).
* `place[x]` is a run of a node: `reporting` is `on_chain_start`, which the graph
  awaits, `gating` is `_record_before_call`, `entered` is before the body. `Start`
  is the graph's scheduling; it appends the start event.
* `context[i]` is `_CURRENT_CHAIN` in the tasks of invocation `i`'s graph: a task
  copies the context in which it is created. `executed[i]` is the one set object
  that the copies share.
* `trail[i]` holds the events the chain of `i` permitted, `refused` the invocations in
  which a record raised a policy exception, `lost` the runs whose report raised
  something that the graph's callback manager swallows.

A record is permitted or raises; the chain behind it is `GovernedChain`. A node that
fails, or whose record is refused, fails its graph, and with it every sibling that
has not gone on yet.

### How `LangChainRun` corresponds to the code

Invocations are concurrent calls of `ainvoke` with one config. Tools and LLMs have the
same three callbacks (start, end, error), which differ in the map that keeps the name;
both are *runs*, and `activeRuns` is the two maps together.

* `phase[i]` is where `ainvoke` is: `running` is its await of the governed object,
  `returning` and `raising` the chain's exit. `config` is the list of callbacks in the
  callers' config and `handlers[i]` what `_merge_config` makes of it.
* `place[x]` is a run: `starting`, `ending` and `erroring` are the awaits of a record in
  its callbacks, `entered` is the body. `Start` is the callback up to the await, with
  `_resolve_parent`; `StartPermitted`, `StartRefused`, `StartLost` are what follows: the
  body is entered, the policy break goes up, or the callback manager drops another
  exception and the body is entered all the same. The end callbacks likewise: they pop
  the run's entries before they await the record (`Pop`, in `BodyReturns` and
  `BodyRaises`), and nothing puts them back, whatever the record comes to. `held[x]` is
  what the callback has in its local variables, and what the event is made of.
* `broken` is how far a policy break has come: to the body or the invocation that
  awaits the run. A body it has reached goes on to raise (`BodyBreaks`); some report it
  as an error first (`BodyRaises`).
* `Parent`, `Awaited`: which body starts a run, and whether it awaits it. A body that
  awaits several runs at once may raise while the others go on; a run in the
  background may outlive its parent and its invocation, until it is cancelled
  (`Abandon`). LangChain is external: what is assumed of it is in the module's comments.

### How `ClientCache` corresponds to the code

* `heap` is the memory: which settings the `ChainConfig` at an address has. An object is
  gone as soon as nothing refers to it (`CollectConfig`, `Referred`), and its address is
  free for the next one: this is what the key of the cache is about, because it holds
  `id(config)` beside the settings (`Key`).
* `ctx[t]` is `_config_ctx` in the context of a task or thread; a task copies the
  context it is created in (`StartTask`), a thread starts with an empty one
  (`StartThread`). `default` is the module's mirror.
* `init` is `AssignMirror` (client.py:204), which makes the new object the mirror, and
  `ReadBack` (client.py:205), which puts what the mirror has by then into the context.
  The tasks in between are in `inInit`. Another thread may run there; the tasks of the
  same loop share the thread and may not (`Active`).
* `bound[ch]` is `_bound_config`: set by the constructor or by the first use
  (`Binding`). `clients[l]` is the cache of a loop; `GetClient` is `_get_client`, which
  a request calls on the loop it runs on.
* `first`, `asked` and `met` are ghosts: the settings that a chain was first made or used
  under, those that a context's last `init` asked for, and those that other threads
  assigned during it.

### How `OfflineDrain` corresponds to the code

Nothing public starts these helpers in this version. Who does is taken from their
comments and tests: tasks of an open chain buffer events, take it offline and start a
drain, one at a time.

* `drain` is the coroutine: `fast` is `_drain_buffer_to_backend`, `offline` and `asleep`
  are `_drain_offline_buffer` in its `_post` and in its 30 seconds of sleep. The code
  between two awaits is one step: `Sent` and `Discard` are the answer, `pop(0)` and the
  next `_post`; `Failed` the end of the one coroutine and the sleep of the other.
* `owner` is `_complete`: `Complete` leaves an offline chain alone and cancels its drain, or
  waits for the drain of an online one (`DrainEnded`, `WaitTimesOut`).
* `inFlight` and `ledger` are the backend and the attempts under way, late ones among
  them; it records an event once, by its key.
* `pop(0)` takes off whatever is first then, which need not be the event that was sent;
  `instead` remembers which one was taken off for which.

## 3. The runs

All runs switch the deadlock check off. In `GovernedChain`, once the tasks have
ended and the requests are handled, nothing has to happen; the caller of
`PolicyEngine` stops at `MaxActions`; the runs of a crew and the invocations of a
graph end. Actions are
interchangeable in `GovernedChain`, so its safety runs use their permutations as
symmetry (`exit`, which checks liveness, does not); so are the tasks, loops, settings
and addresses of `ClientCache`, whose run is a safety run too.

| run | instance | what it shows |
|---|---|---|
| `decisions` | 2 actions; all decisions; no retry; 2 polls | `TypeOK`, `FailClosed`, `RefusalsAreTrue`, `ImplementsGate` |
| `exit` | 1 action; all decisions; 1 retry; 2 polls; fair | `OneEventPerAction`, `SequenceBehindLedger`, `ExitIsConfirmed`, `CancellationIsPrimary`, `CallsSettle` |
| `resumed` | 2 actions; `allow`, `auto_paused` | `SkipsOnlyHalted` violated: finding 1 |
| `approvals` | 2 actions; `require_approval`, `deny`; 1 poll | violated: finding 2 |
| `policy_chain` | 3 of 9 actions under 8 settings; every set of traits with amounts on both sides of every limit and NaN, with and without a domain, at each state | `PolicyTypeOK`, `GateOrder`, `MetricsAreTotals`, `LimitIsFinal`, `RiskIsMonotone` |
| `crew_serial` | 2 runs that do not overlap, 2 calls in the first; every shape; hooks that cannot be assigned; fair | `CrewTypeOK`, `HooksRestored`, `GatedWhileGoverned`, `TrailIsTrue`, `RunsEnd` |
| `crew_overlapping` | 2 runs that may overlap | violated: finding 3 |
| `langgraph_concurrent` | 2 invocations, 2 nodes in the first; every strategy, marking and discovery; fair | `LangGraphTypeOK`, `BodiesAreGated`, `GovernedOnce`, `AllAccountedFor`, `RefusalSurfaces`, `OwnTrail`, `InvocationEnds` |
| `langgraph_callbacks` | 1 invocation, 1 node | violated: finding 4 |
| `langchain_nested` | 2 invocations, 3 runs in the first: a tool, an LLM run it awaits, a tool in the background | `LangChainTypeOK`, `BodiesAreGated`, `TrailIsTrue`, `RefusalSurfaces`, `EndsAreReported` |
| `cache_contexts` | 2 tasks or threads, 2 loops, 2 settings, 2 addresses, 1 chain, at most 2 clients for a loop | `CacheTypeOK`, `ClientFits`, `SettingsAreKept` |
| `drain_eviction` | 4 events through a buffer of 2; fair | `DrainTypeOK`, `LossIsPaidFor`, `OrderKept`, `QuietCompletion`, `OnlineWhenDrained`, `DrainRecovers` |

The bounds. In `GovernedChain` two actions are enough for two tasks to meet at the
chain's approval, its terminal flag and its status. One retry gives a late first
attempt that races a second one. One poll is enough for an answer to arrive late or
never; two let a failed poll be followed by a successful one. A late first attempt
needs a retry and no second action (`exit`), and so does a conflict, or a late answer,
that must not be counted; what two actions do to each other needs no
retry (`decisions`). The decisions the runs of the findings leave out are explored by these
two. In `PolicyEngine` the amounts lie on both
sides of every limit the rules name, and no rule tells two amounts between the same
limits apart, except through the total; three actions let a total pass the
cumulative threshold, then the hard limit, and then be asked again. The actions and
settings of `policy_chain` are those whose order matters: a denied and a plain
communication, amounts that pass the limits alone or together, each gate with and
without an exception. In `CrewAIRun` two calls give a task and its retry, or two
tasks; the second run needs no calls of its own, because what can go wrong is that
the first run's thread, after a cancellation, meets the second run's hooks (and so it
does: section 5), or a broken installation's. In
`LangGraphRun` two nodes are enough for one to go on while the other is refused, to
run while its event is unread, and to have the other's name; the second invocation
needs no nodes, because what it could disturb is the first one's context. In
`LangChainRun` three runs give a refusal below an awaited run, a run that outlives its
parent, and two that go on beside each other; the second invocation needs no runs,
because what it could disturb is who gets the first one's events. In `ClientCache` two
addresses and two settings let an address be used again for the same or for other
settings while another configuration lives; two contexts and one chain let the chain
be made in one and used from the other, and two threads meet inside `init`. Two clients
for a loop (`MaxClients`) are one that was built for an address and another that must
not be confused with it. In `OfflineDrain` a buffer of two is the least
that keeps an order; four events let two be evicted, one of them in flight, and others
come after. The
theorems hold for every number of actions, retries, polls, runs, calls, invocations,
nodes, contexts, loops and chains.

Fairness. In `exit`: a socket operation is bounded by `backend_timeout_seconds` and
a sleep by its length, and the event loop resumes a task whose future is done, so
each task that waits moves on (weak fairness of `ActionStep(a)` and `OwnerStep`).
Nothing is assumed of the backend, of reviewers or operators, or of when the
application records, leaves or cancels. In `crew_serial`: tasks and hooks of the
application end, the 30 seconds of `_fire` pass, and the loop resumes what is ready
(`ThreadStep(r)`, `LoopStep(r)`). Nothing is assumed of the chain's answers: a chain
that never answers is the case of interest. In `langgraph_concurrent`: a record is
answered or given up (that is `CallsSettle` of `GovernedChain`), bodies end, a
graph without work ends, and the loop resumes what is ready (`InvocationStep(i)`,
`NodeStep(x)`, `Finish(i)`). Nothing is assumed of when the graph schedules nodes or
is collected. In
`drain_eviction`: a coroutine whose answer, sleep or timeout is due is resumed (`Wake`,
`OwnerStep`). That the backend takes events again (`Recovery`) is no assumption of the
specification but the premise of `DrainRecovers`: if it does, the chain gets through its
buffer.

## 4. Proofs

All theorems are about a module's `Spec`, for every value of its constants that
satisfies the module's named assumption.

**`GovernedChain`** (`ChainAssumption`: the owner is not one of the actions; the
bounds are naturals; "no reply" and "conflict" are not decisions). `NothingReleasedUndecided`
and `ChainImplementsGate` assume in addition `Decisions \subseteq KnownDecisions`: the
backend answers only decisions the SDK knows. Without it they are false: section 5,
unrecognised decisions. The others hold of a backend that may answer anything.

* `TypeCorrect`: `TypeOK` is not inductive by itself: that a new event belongs to
  an action needs to know who sends event requests. `CallsMatchTasks` says so: a
  task's outstanding call is the one its `pc` makes.
* `InductiveInvariant`: `IInv` adds what is on its way and what the backend
  holds. `RepliesAreTrue`: a reply that has arrived for a recording task is what
  the audit trail holds, one that has arrived for a polling task is the truth
  about the approval. `ApprovalStanding`: an approved chain has granted every
  action that needed a reviewer, a denied one is terminated, one under review is
  not closed. `KeysIdentify`: an event's key is its action's.
  It is preserved by the steps of a task
  (`ActionSafe`), of the owner (`OwnerSafe`) and of the backend (`BackendSafe`,
  from `BackendMonotone`: what the backend has decided stands).
* `RefusedIsNeverReleased`: in `IInv`, `FailClosed` is weakened to what any backend leaves of
  it (`NamedOrPermitted`): an action is let through without a permission only by a decision
  that has no name in the code. Since an action has one event, an action that was denied, or
  whose approval was, is never let through (`BarredIsNotReleased`).
* `NothingReleasedUndecided`, `NoDuplicateEvents`, `RefusalsJustified`, `ExitConfirmed`:
  the safety properties, from `IInv`. The last combines `ExitStanding` and
  `TerminalIsJustified`: the flag by which the exit skips its completion may be set by
  any task, and only for a reason.
* `SequenceNeverAhead` compares a number with the size of a set: `LedgerInv` bounds the
  sequence number by the events whose task no longer waits for its decision (`Heard`).
  A task is heard at most once (`HearingStep`) and events are only added
  (`EventsGrow`), so the number never overtakes the trail (`LedgerStep`).
* `CancellationWins`: the action property about cancelled exits.
* `ChainImplementsGate`: under the mapping `Standing`, `ChainStanding`, each step
  of a task releases an authorized action or leaves the gate alone
  (`ActionGate`), each step of the owner reports a completed chain or leaves it
  alone (`OwnerGate`), each step of the backend decides about undecided actions
  of an open chain, closes it, or leaves it alone (`BackendGate`).

**`PolicyEngine`** (`PolicyAssumption`: actions and settings are well formed, amounts
and limits are integers).

* `PolicyTypeCorrect`: `RecordsOK`, and `ScoreType` for the score of any action.
* `GatesInOrder`: `GateOrder` speaks of the calls made so far, so the invariant says
  how each came about (`Explained`: a result is `Process` of what was submitted and
  of the totals at that moment) and what was recorded (`RecordsOK`).
  `EnforcedProcess` and `BypassedProcess` are the two halves of `Process`.
* `HardLimitIsFinal`: the recorded exposures grow from call to call (`Growing`) for as
  long as no amount counted is negative or NaN (`AmountsCount`, the premise of
  `LimitIsFinal`). Without it the property is false: a negative amount takes a chain back
  under the limit, and a NaN makes a total that no limit exceeds.
* `RiskNeverLenient`: `NoRiskier` says in which ways one action is at most as risky as
  another; `Milder` stays within it (`MilderIsNoRiskier`), the score respects it
  (`ScoreIsMonotone`: an amount may leave the tier of 50 points for the one of 30, and
  the two tiers never count together), and so does each rule of `evaluate_policy`. The
  theorem holds after any number of calls, where the run compares after at most one.
* `TotalsAreTrue`: a step extends the calls counted and their amounts by one
  (`SubmitExtends`). `TotalAppend`, that a total grows by what is appended, is a fact
  about a recursive function: in place of induction, `SumsAgree` and `SumExists`
  take the least number at which two sums differ, or up to which none exists
  (`LeastNatural`), and refute it.

**`CrewAIRun`** (`CrewAssumption`: shapes and bounds are well formed).

* `CrewTypeCorrect`: the threads and the rest apart (`TypeParts`), since a step
  disturbs only one of them at a time.
* `SerialRunsRestore` assumes `~Overlapping` and `~Breakable`. `SerialInv`: one chain is open at a
  time, and while its run is under way the hooks hold its wrappers and nothing else
  and its records hold the unwrapped hooks. Finding 3 shows what happens to runs that
  overlap; the run `crew_serial` checks the same properties where `Breakable`.
* `GovernedTasksAreGated` assumes the same. `GateInv` follows each call
  of a task from the moment the crew looks the hook up: until it executes, either
  the run's wrapper is still ahead of the thread or its chain has permitted the
  start. A cancellation in between takes the wrapper off the crew but not out of
  the thread's way.
* `TrailsAreTrue` assumes the same, and rests on the two before and on `ResultsAreReal`: a
  result on any trail is of a task that returned. `OwnInv` says whose: a thread, a late
  report and an event are of the run they are found in, or of one that is over, whose
  thread met the wrapper of a later run. For a run's own tasks `TrailInv`
  has three parts. `PlaceInv`: what a thread's place says of its task; wrappers do not
  nest, a task whose end is being reported has succeeded, and whoever reports it was
  permitted to start it. `ResultInv`: a result in the trail, or one that a late
  coroutine may still add, is of a task that was begun and succeeded. `ReportInv`: while
  a run is under way each task is reported by the last of its callbacks that reports
  ends and by no other (`Reporting`), in each of the combinations of native hooks. The
  second part is what makes "exactly once" inductive: a timed-out report that is
  permitted later must not meet a second one.
* `ResultsAreReal` needs no such assumption: of runs that overlap, too, no trail tells of
  the result of a task that has not returned. `Executing` says that a task executes at
  most once under its number and is reported only then, and `OrphansReal` covers the
  reports that come late. It is all that is left: with runs that overlap, gating, the
  order of start and result, and "exactly once" fail as restoration does (finding 3).

**`LangGraphRun`** (`LangGraphAssumption`: each run has an invocation and a node).

* `LangGraphTypeCorrect`: with the types go that what is being observed is in the
  stream, that a graph which has started has a chain, and that only wrapped nodes gate.
* `TrailsAreOwn`: `Apart` adds that a started graph's context is its own invocation's and
  that a stream tells of its own runs. From it `RecordsAreOwn`: every record lands on
  the trail of its run's invocation; and `RecordAdds`: it adds one event and takes back
  no permission. Both carry the proofs below.
* `WrappedBodiesAreGated`: `BehindGate` is the property for every run at its body, not
  only those that have executed.
* `SelfGovernedOnce`: `RecordedOnce` says when the one event comes: none before the gate,
  and the adapter never holds the event of such a node under observation. Only
  discovery makes this true: the set of executed names may grow too late.
* `ReturnsAccounted`: `Accounted` follows the report of an ordinary node from the stream
  to the trail; a run that is skipped is wrapped or has a wrapped node's name, and the
  adapter does not return before the stream is empty and the graph finished.
* `RefusalsSurface`: `Surfacing` ties an invocation's phase to its graph: a refusal in a
  node fails a graph that is running, and a return needs a graph that has finished.

**`LangChainRun`** (`LangChainAssumption`: each run has an invocation, and a parent in
the same one). `LangChainInv` carries all five theorems.

* `LangChainTypeCorrect`, `GatedBodies`: `RunFacts` says what is known of a run by its
  place: from its start on its invocation has its own handler, and while a callback or
  the body is under way its entries in the maps are true.
* `TrueTrail`: `RecordAdds` shows that a record adds one true event to the trail of the
  run's own invocation.
* `SurfacingRefusals`, `ReportedEnds`: `Waits` says that a body or an invocation which has
  returned has no pending run that it awaited. To carry this up a tree of any depth
  without induction over it, `PendingHolds` uses that the pending runs above an attended
  one are closed under taking parents, and `Rooted` that a run which has started has one
  above it that the invocation started.

**`ClientCache`** (`CacheAssumption`: "no configuration" is none of the values).

* `CacheTypeCorrect`, `RequestsFit`, `SettingsKept` from `CacheInv`: to the properties it
  adds what the mirror can hold while a task is inside `init` (`InitsMeet`: what this
  `init` assigned, or what another one has assigned since),
  that an entry's key holds the entry's settings and its loop is the cache's
  (`CacheFits`), that what refers to a configuration refers to one that exists
  (`HeapInv`), and that a dropped chain leaves nothing behind (`DroppedChains`).
  `GetClientFits` is the lemma about `_get_client`: on a cache that fits it returns
  exactly one open client and leaves a cache that fits.

**`OfflineDrain`** (`DrainAssumption`: the buffer holds at least one event, and "no
event" is none of them). `DrainInv` carries all six theorems but `CompletionIsQuiet`,
which is inductive by itself.

* `LossesArePaidFor`: `BufferInOrder` and `OnlyTheHeadIsSent` say that the buffer is the
  end of what arrived and that at most its first event has been sent; `SendingHead`, that
  the drain is sending this one, or one that was dropped under it. So when `pop(0)` takes
  off another event than the one sent, the one sent was dropped. `AnsweredOnce` says
  that this happens once for each, and `LossIsNamed` that nothing else is missing.
* `LossIsBounded`: hence the lost events are mapped one-to-one to dropped ones, and are
  not more.
* `OrderIsKept`: an event is recorded while the buffer holds nothing that arrived before
  it, or after it was dropped; a late attempt is of an event that is settled, dropped or
  still the first.
* `OnlineOnlyWhenDrained`: the action property. After the step that goes online the buffer is
  empty, and by `LossIsNamed`, where nothing was dropped, nothing else is missing.

Every invariant and every action property that a run checks is a theorem. Only
model-checked are the liveness properties `CallsSettle`, `RunsEnd`, `InvocationEnds` and
`DrainRecovers`: they need fairness, and with it `ENABLED`, which is beyond the prover.

## 5. Findings

1. `resumed`: the terminal flag is set by an auto-pause and never cleared. After
   the resume that `ChainAutoPausedError` recommends, the chain is active; an exit that
   comes after it does not complete it, returns normally, and the chain stays open. The
   documentation takes the pause to hold only "until an operator resumes or explicitly
   terminates the chain" (exceptions.py:227), and a completion that could not be confirmed
   to be raised (exceptions.py:152). `SkipsOnlyHalted` is about the step of the exit: an exit
   that skips a paused chain which is resumed later does not violate it.
2. `approvals`: approval-status is the chain's. A task whose approval was granted
   raises `ActionDeniedError` if another action of the chain was sent to review
   and denied before the task's next poll; README.md:226 promises an allow.
3. `crew_overlapping`: two kickoffs of one crew that overlap save each other's
   wrappers as originals (crewai/adapter.py:290) and restore them in their own time,
   so a wrapper of an ended run stays on the crew. crewai/adapter.py:53 guarantees the
   original state.
4. `langgraph_callbacks`: where the graph has no event stream, only five exceptions of
   a node's record are turned into the `BaseException` that passes the graph's
   callback manager (langgraph/callbacks.py:282). Any other, such as the
   `HTTPStatusError` of a 4xx, is swallowed there, the node executes and `ainvoke`
   returns. README.md:336: "Backend uncertainty becomes an explicit error rather than
   implicit permission." The LangChain callback wraps the same five
   (langchain/callbacks.py:245): these are the `lost` reports that `BodiesAreGated` of
   `LangChainRun` excepts.

Read, and not stated as properties of a run:

* `record_agent_action` returns any `policy_decision` that is neither `deny` nor
  `require_approval` (chain.py:413), and the field is a plain string (models.py:67).
  README.md:113 promises an exception when the backend does not provide the required
  decision. The runs take the backend to answer `KnownDecisions`; `RefusedIsNeverReleased`
  says what holds without that.
* `process_action_local` says that its mode comes from the organisation's configuration
  when the argument is left out (policies.py:537), and never looks there; the
  decision it reports in shadow mode leaves out the budget gate.
* The rule for first communications asks whether the running count is 1
  (policies.py:461), and denied communications count: after a first one that was
  hard-denied, the second is allowed and none of the chain has been reviewed.
* A negative amount lowers the exposure (policies.py:320). An amount of NaN
  (`float("nan")` passes `_extract_numeric`, policies.py:80-89) makes the running total NaN
  (policies.py:322), for which the hard limit (policies.py:421) and the cumulative
  threshold are never exceeded: both are silent for the rest of the chain. An infinite
  amount, not in the model, is beyond every limit, a negative infinite one below them.
* Cancelling `kickoff_async` takes the wrappers off and closes the chain
  (crewai/adapter.py:205) while the crew's thread goes on; its next tasks execute
  ungated. If the crew is kicked off again meanwhile, that thread meets the new run's
  wrappers. The shortest way there: a run is cancelled before its thread calls a task;
  the task executes ungated; a second run installs its wrappers; the first run's thread
  looks up `task_callback`, and its task's result is recorded on the second run's chain,
  which has no start of it. The runs are serial. crewai/adapter.py:18 says "On every
  invocation, a Arclasp ``Chain`` context manager is opened so the full crew run appears
  as a single governed chain in the dashboard". `TrailIsTrue` says what is left: such a
  result is real, and of a run that is over.
* `_install_instrumentation` is called outside the `try` (crewai/adapter.py:192). If one of
  its assignments raises, the wrappers that it has installed stay on the crew, where
  later runs fire them onto a chain that has ended. crewai/adapter.py:53 guarantees the
  original state. `HooksRestored` therefore says nothing of a run whose installation broke.
* `init` assigns the process-wide `_config` (client.py:204) and reads it back into the
  context (client.py:205). A thread that assigns in between gives the first one its own
  settings: backend, key and timeouts. The comment at client.py:60 says "Runtime lookups
  use `_config_ctx`, not this process-global value", and
  `test_threads_keep_independent_configs` (tests/test_config_isolation.py:210) expects each
  thread's requests under its own key (lines 231-232); its two threads call `init` side by
  side, so it can fail. `ContextsAreApart` names this meeting as the only way in.
* A node that is not wrapped but has the name another was wrapped with is passed over by
  the adapter, and a node wrapped under another name may be recorded by its wrapper and
  again by the adapter: discovery collects names (langgraph/nodes.py:144).
* When a wait for the drain times out, the drain is cancelled before the completion is
  sent (chain.py:580), but an event it was sending may still be recorded beside the
  completion; `QuietCompletion` is about the drain.
* The comment that a `break` makes `async for` close the stream
  (langgraph/adapter.py:283) is not so in Python; the graph goes on after a refusal,
  and only the gates of the nodes themselves still hold. Where the callback is used,
  nodes that govern themselves are recorded by it as well (langgraph/callbacks.py:259).
* When the offline buffer is full, eviction can drop the event that a drain has in
  flight; the `pop(0)` that follows its answer then takes off another one, unsent
  (chain.py:843). `LossIsPaidFor` says that this is the only loss.
* `init` says that it resets the HTTP client (client.py:178); the comment at client.py:207
  says that it does not close it, and the code does not: clients of configurations that
  are gone stay in the cache, open, as long as their loop lives.
* Neither `max_retries` nor `offline_buffer_max_events` is validated: a negative
  `max_retries` makes no attempt (client.py:354), and a buffer of 0 evicts from an empty
  list (chain.py:75). `_merge_config` fails on `callbacks: None` (_utils.py:18).

## 6. Not modelled

The MCP adapter: `handle_tool_call` is an awaited `record_agent_action` and then the
handler, and the decorator calls it; what can go wrong is in the record. Sanitization, a
pure recursion on one payload. The per-chain policy override, sent with the creation and
evaluated by the backend. The read and verification APIs, which return what one request
answered. Data models, exceptions, the demos.

Of the modelled parts: entering one `Chain` object twice; a negative `max_retries`; the
synchronous `with` (the same completion without cancellation); HTTP, JSON, logging and
benchmark samples. Of the policy engine: the keyword searches in strings, cents, the
wording of reasons. Of the CrewAI adapter: labels and payloads, agents without
`execute_task`, a crew whose hooks the application replaces during a run. Of the
LangGraph adapter: payloads, labels and parents; the ends and errors of nodes, which are
logged only; nodes that catch the exceptions of their own gate, and graphs that try nodes
again. Of the LangChain adapter: payloads, the extraction of a model's output, the
loading of LangChain; bodies that catch the policy break themselves. Of the client cache:
what `init` returns, which reads the mirror once more (client.py:225), and two threads that
bind one chain at once. Of the
drain: tasks that buffer an event twice, and a second drain next to the first one, which
no comment or test of the repository starts.

## 7. Plan

1. Done: `GovernanceGate`, `Transport`, `GovernedChain`; `PolicyEngine`; `CrewAIRun`;
   `LangGraphRun`; `LangChainRun`; `ClientCache`; `OfflineDrain`; their runs, and proofs of
   every invariant and action property of them.
2. Proofs: what the adapters need of the chain, namely that a record which raises leaves no
   permission behind, as a refinement of the part of `GovernedChain` they abstract.
3. Sanitization, as a function over small payload trees, if a reference definition is
   found that is not the same recursion.
