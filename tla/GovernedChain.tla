---------------------------- MODULE GovernedChain ----------------------------
(***************************************************************************)
(* One arclasp Chain: the tasks that record agent actions on it, the task  *)
(* that runs the `async with` block, the retrying transport between them   *)
(* and the backend, and the backend itself with its reviewers and          *)
(* operators.  arclasp/chain.py is the program; the backend is not in the  *)
(* repository and is modelled from what the SDK sends it, expects of it    *)
(* and documents about it.                                                 *)
(*                                                                         *)
(* The SDK runs on one asyncio loop: between two awaits a task runs        *)
(* alone, so an action below is the code from one await to the next.       *)
(***************************************************************************)
EXTENDS Integers, FiniteSets

CONSTANTS
  Actions,      \* calls of record_agent_action, each made by a task of its own
  Owner,        \* the task that runs the async with block
  Decisions,    \* the decisions the backend may answer
  MaxRetries,   \* ChainConfig.max_retries
  MaxPolls      \* polls that fit in default_approval_timeout_hours

ASSUME ChainAssumption ==
  /\ Owner \notin Actions
  /\ MaxRetries \in Nat
  /\ MaxPolls \in Nat
  /\ {"no_reply", "conflict"} \cap Decisions = {}

(* What PolicyDecision tells apart: policy_decision, and a deny whose      *)
(* kill_switch_active is set, and any decision whose auto_paused is set.   *)
KnownDecisions == {"allow", "allow_with_flag", "require_approval", "deny",
                   "kill_switch", "auto_paused"}

ApprovalStatus == {"none", "pending", "approved", "denied", "timed_out"}

Callers == Actions \cup {Owner}
Ops == {"create", "event", "status", "complete"}
ReadOnly == {"status"}
NoReply == "no_reply"
Replies == Decisions \cup ApprovalStatus \cup {"created", "completed", "conflict"}

VARIABLES
  \* the SDK: the Chain object and the tasks that use it
  pc,         \* where each record_agent_action call is, and how it ended
  elapsed,    \* polls each _poll_for_approval has made
  seq,        \* Chain._sequence_number
  terminal,   \* Chain._backend_terminal_noncompletable
  owner,      \* where the async with block is, and how it ended
  bodyFailed, \* the block's body raised (exc_type is not None)
  cancelled,  \* a CancelledError held back by _complete_for_async_exit
  \* the transport
  net, call, reply,
  \* the backend
  status,     \* of the chain
  events,     \* ChainEvents persisted: the action, its key and the decision
  approval,   \* what approval-status answers: the chain's latest approval
  granted     \* actions a reviewer's approval has covered

INSTANCE Transport

sdkVars == <<pc, elapsed, seq, terminal, owner, bodyFailed, cancelled>>
transportVars == <<net, call, reply>>
backendVars == <<status, events, approval, granted>>
vars == <<sdkVars, transportVars, backendVars>>

(* Mutant: the key is drawn inside the retry loop. *)
KeyPerAttempt(a, n) == <<a, n>>

(* Keys: the idempotency_key of an event.  Drawn from uuid4 once per call, *)
(* it is the same for every attempt n of that call.                        *)
EventKey(a, n) == <<a, 0>>
Keys == Actions \X (0 .. MaxRetries + 1)

(* How record_agent_action can end: it returns ("allowed"), or raises      *)
(*   denied            ActionDeniedError, a policy decision                *)
(*   kill_switch       ArclaspKillSwitchError                              *)
(*   auto_paused       ChainAutoPausedError                                *)
(*   approval_denied   ActionDeniedError, the approval denied or timed out *)
(*   approval_timeout  ChainTimeoutError, the local polling window is over *)
(*   unavailable       BackendUnavailableError                             *)
(*   error             HTTPStatusError, ValidationError, protocol errors   *)
(*   refused           RuntimeError, the chain was never started           *)
(*   cancelled         CancelledError                                      *)
Outcomes == {"allowed", "denied", "kill_switch", "auto_paused",
             "approval_denied", "approval_timeout", "unavailable", "error",
             "refused", "cancelled"}
ActionStates == {"idle", "posting", "polling"} \cup Outcomes

(* completed: __aexit__ returned after the backend confirmed; skipped: it  *)
(* returned without asking, the chain being terminal; raised: the body's   *)
(* exception propagates.                                                   *)
OwnerOutcomes == {"start_failed", "completed", "skipped", "raised",
                  "completion_failed", "cancelled"}
OwnerStates == {"new", "starting", "open", "closing", "completing"}
                 \cup OwnerOutcomes

ChainStatus == {"absent", "active", "pending_approval", "auto_paused",
                "completed", "terminated"}

TypeOK ==
  /\ pc \in [Actions -> ActionStates]
  /\ elapsed \in [Actions -> 0 .. MaxPolls]
  /\ seq \in Nat
  /\ terminal \in BOOLEAN
  /\ owner \in OwnerStates
  /\ bodyFailed \in BOOLEAN
  /\ cancelled \in BOOLEAN
  /\ TransportTypeOK
  /\ status \in ChainStatus
  /\ events \subseteq [act : Actions, key : Keys, decision : Decisions]
  /\ approval \in ApprovalStatus
  /\ granted \subseteq Actions

Init ==
  /\ pc = [a \in Actions |-> "idle"]
  /\ elapsed = [a \in Actions |-> 0]
  /\ seq = 1
  /\ terminal = FALSE
  /\ owner = "new"
  /\ bodyFailed = FALSE
  /\ cancelled = FALSE
  /\ TransportInit
  /\ status = "absent"
  /\ events = {}
  /\ approval = "none"
  /\ granted = {}

-----------------------------------------------------------------------------
(* __aenter__ and _start.  The creation carries one idempotency key for    *)
(* all its attempts.                                                       *)

Started == owner \notin {"new", "starting", "start_failed"}

Start ==
  /\ owner = "new"
  /\ owner' = "starting"
  /\ BeginCall(Owner, "create")
  /\ UNCHANGED <<pc, elapsed, seq, terminal, bodyFailed, cancelled, backendVars>>

StartReply ==
  /\ owner = "starting"
  /\ HasReply(Owner)
  /\ owner' = "open"
  /\ EndCall(Owner)
  /\ UNCHANGED <<pc, elapsed, seq, terminal, bodyFailed, cancelled, backendVars>>

(* Any failure leaves __aenter__ as an exception: the body and __aexit__   *)
(* never run.  A cancellation does the same.                               *)
StartFails ==
  /\ owner = "starting"
  /\ owner' = "start_failed"
  /\ EndCall(Owner)
  /\ UNCHANGED <<pc, elapsed, seq, terminal, bodyFailed, cancelled, backendVars>>

(* An attempt of an outstanding call failed and the next one is sent.      *)
RetryCall(c) ==
  /\ Waiting(c)
  /\ \E f \in Failures : CanRetry(c, f)
  /\ Resend(c)
  /\ UNCHANGED <<sdkVars, backendVars>>

(* The failures that end c's call. *)
FinalFailures(c) == {f \in Failures : ~CanRetry(c, f)}

-----------------------------------------------------------------------------
(* record_agent_action. *)

RecordRefused(a) ==
  /\ pc[a] = "idle"
  /\ ~Started
  /\ pc' = [pc EXCEPT ![a] = "refused"]
  /\ UNCHANGED <<elapsed, seq, terminal, owner, bodyFailed, cancelled,
                 transportVars, backendVars>>

Record(a) ==
  /\ pc[a] = "idle"
  /\ Started
  /\ pc' = [pc EXCEPT ![a] = "posting"]
  /\ BeginCall(a, "event")
  /\ UNCHANGED <<elapsed, seq, terminal, owner, bodyFailed, cancelled, backendVars>>

(* Mutants: kill_switch_active is not looked at; require_approval returns  *)
(* without waiting for the reviewer.                                       *)
AfterDecisionNoKillSwitch(d) ==
  CASE d = "auto_paused"            -> "auto_paused"
    [] d \in {"kill_switch", "deny"} -> "denied"
    [] d = "require_approval"       -> "polling"
    [] OTHER                        -> "allowed"

AfterDecisionNoWait(d) ==
  CASE d = "auto_paused" -> "auto_paused"
    [] d = "kill_switch" -> "kill_switch"
    [] d = "deny"        -> "denied"
    [] OTHER             -> "allowed"

(* What the code does with a decision, in the order it looks: auto_paused, *)
(* a deny (the kill switch's or not), require_approval; any other string   *)
(* is returned to the caller.                                              *)
AfterDecision(d) ==
  CASE d = "auto_paused"      -> "auto_paused"
    [] d = "kill_switch"      -> "kill_switch"
    [] d = "deny"             -> "denied"
    [] d = "require_approval" -> "polling"
    [] OTHER                  -> "allowed"

Halting == {"auto_paused", "kill_switch"}

(* The event's response is decoded: the sequence number moves before the   *)
(* decision is looked at.                                                  *)
RecordReply(a) ==
  /\ pc[a] = "posting"
  /\ reply[a] \in Decisions
  /\ seq' = seq + 1
  /\ terminal' = (terminal \/ reply[a] \in Halting)
  /\ pc' = [pc EXCEPT ![a] = AfterDecision(reply[a])]
  /\ EndCall(a)
  /\ UNCHANGED <<elapsed, owner, bodyFailed, cancelled, backendVars>>

(* Mutant: the sequence number moves before the status code is looked at.  *)
RecordConflictCounted(a) ==
  /\ pc[a] = "posting"
  /\ reply[a] = "conflict"
  /\ seq' = seq + 1
  /\ pc' = [pc EXCEPT ![a] = "error"]
  /\ EndCall(a)
  /\ UNCHANGED <<elapsed, terminal, owner, bodyFailed, cancelled, backendVars>>

(* A 409: raise_for_status raises, nothing else happens. *)
RecordConflict(a) ==
  /\ pc[a] = "posting"
  /\ reply[a] = "conflict"
  /\ pc' = [pc EXCEPT ![a] = "error"]
  /\ EndCall(a)
  /\ UNCHANGED <<elapsed, seq, terminal, owner, bodyFailed, cancelled, backendVars>>

RecordFails(a) ==
  /\ pc[a] = "posting"
  /\ \E f \in FinalFailures(a) : pc' = [pc EXCEPT ![a] = CallError(f)]
  /\ EndCall(a)
  /\ UNCHANGED <<elapsed, seq, terminal, owner, bodyFailed, cancelled, backendVars>>

(* CancelledError at one of the awaits: nothing in record_agent_action or  *)
(* _poll_for_approval catches it.                                          *)
CancelAction(a) ==
  /\ pc[a] \in {"posting", "polling"}
  /\ pc' = [pc EXCEPT ![a] = "cancelled"]
  /\ EndCall(a)
  /\ UNCHANGED <<elapsed, seq, terminal, owner, bodyFailed, cancelled, backendVars>>

-----------------------------------------------------------------------------
(* _poll_for_approval. *)

(* Mutant: only a poll that gets an answer is counted. *)
PollUncounted(a) ==
  /\ pc[a] = "polling"
  /\ ~Waiting(a)
  /\ elapsed[a] < MaxPolls
  /\ BeginCall(a, "status")
  /\ UNCHANGED <<sdkVars, backendVars>>

(* The sleep is over and the window is not: elapsed moves before the GET.  *)
Poll(a) ==
  /\ pc[a] = "polling"
  /\ ~Waiting(a)
  /\ elapsed[a] < MaxPolls
  /\ elapsed' = [elapsed EXCEPT ![a] = @ + 1]
  /\ BeginCall(a, "status")
  /\ UNCHANGED <<pc, seq, terminal, owner, bodyFailed, cancelled, backendVars>>

(* Mutant: every status but pending and denied is taken for an approval.   *)
AfterPollNotDenied(s) ==
  CASE s \in {"none", "pending"} -> "polling"
    [] s = "denied"             -> "approval_denied"
    [] OTHER                    -> "allowed"

AfterPoll(s) ==
  CASE s = "approved"               -> "allowed"
    [] s \in {"denied", "timed_out"} -> "approval_denied"
    [] OTHER                        -> "polling"

PollReply(a) ==
  /\ pc[a] = "polling"
  /\ HasReply(a)
  /\ pc' = [pc EXCEPT ![a] = AfterPoll(reply[a])]
  /\ terminal' = (terminal \/ AfterPoll(reply[a]) = "approval_denied")
  /\ EndCall(a)
  /\ UNCHANGED <<elapsed, seq, owner, bodyFailed, cancelled, backendVars>>

(* Every exception of the GET is swallowed: the loop goes on. *)
PollFails(a) ==
  /\ pc[a] = "polling"
  /\ Waiting(a)
  /\ FinalFailures(a) # {}
  /\ EndCall(a)
  /\ UNCHANGED <<sdkVars, backendVars>>

(* An answer that is no JSON object: what reads it comes after the try, so *)
(* this one is not swallowed.                                              *)
PollBreaks(a) ==
  /\ pc[a] = "polling"
  /\ Waiting(a)
  /\ pc' = [pc EXCEPT ![a] = "error"]
  /\ EndCall(a)
  /\ UNCHANGED <<elapsed, seq, terminal, owner, bodyFailed, cancelled, backendVars>>

(* The local window closes: ChainTimeoutError, and the chain is not marked *)
(* terminal.                                                               *)
PollExpires(a) ==
  /\ pc[a] = "polling"
  /\ ~Waiting(a)
  /\ elapsed[a] = MaxPolls
  /\ pc' = [pc EXCEPT ![a] = "approval_timeout"]
  /\ UNCHANGED <<elapsed, seq, terminal, owner, bodyFailed, cancelled,
                 transportVars, backendVars>>

-----------------------------------------------------------------------------
Exiting == owner \in {"closing", "completing"}

(* __aexit__ and _complete_for_async_exit.  The body ends, by itself or    *)
(* with an exception, while other tasks may still be recording.            *)

Exit ==
  /\ owner = "open"
  /\ bodyFailed' \in BOOLEAN
  /\ owner' = IF ~terminal THEN "closing"
              ELSE IF bodyFailed' THEN "raised" ELSE "skipped"
  /\ UNCHANGED <<pc, elapsed, seq, terminal, cancelled, transportVars, backendVars>>

(* The completion task runs _complete: the terminal flag is not looked at  *)
(* again.                                                                  *)
Complete ==
  /\ owner = "closing"
  /\ owner' = "completing"
  /\ BeginCall(Owner, "complete")
  /\ UNCHANGED <<pc, elapsed, seq, terminal, bodyFailed, cancelled, backendVars>>

(* Mutants: a failed completion is always swallowed; the cancellation      *)
(* does not wait for the completion.                                       *)
ExitOutcomeSwallow(confirmed) ==
  IF cancelled THEN "cancelled"
  ELSE IF bodyFailed THEN "raised" ELSE "completed"

CancelExitAtOnce ==
  /\ Exiting
  /\ ~cancelled
  /\ cancelled' = TRUE
  /\ owner' = "cancelled"
  /\ UNCHANGED <<pc, elapsed, seq, terminal, bodyFailed, transportVars, backendVars>>

(* The outcome of the exit once the completion task has settled.  A held   *)
(* back cancellation comes first, then the body's exception, which also    *)
(* silences a failed completion.                                           *)
ExitOutcome(confirmed) ==
  IF cancelled THEN "cancelled"
  ELSE IF bodyFailed THEN "raised"
  ELSE IF confirmed THEN "completed" ELSE "completion_failed"

CompleteReply ==
  /\ owner = "completing"
  /\ HasReply(Owner)
  /\ owner' = ExitOutcome(reply[Owner] = "completed")
  /\ EndCall(Owner)
  /\ UNCHANGED <<pc, elapsed, seq, terminal, bodyFailed, cancelled, backendVars>>

CompleteFails ==
  /\ owner = "completing"
  /\ FinalFailures(Owner) # {}
  /\ owner' = ExitOutcome(FALSE)
  /\ EndCall(Owner)
  /\ UNCHANGED <<pc, elapsed, seq, terminal, bodyFailed, cancelled, backendVars>>

(* The exiting task is cancelled, once or repeatedly: the shielded task    *)
(* goes on and the cancellation waits for it.                              *)
CancelExit ==
  /\ Exiting
  /\ ~cancelled
  /\ cancelled' = TRUE
  /\ UNCHANGED <<pc, elapsed, seq, terminal, owner, bodyFailed, transportVars, backendVars>>

(* The completion task itself is cancelled (the loop shuts down). *)
CancelCompletion ==
  /\ Exiting
  /\ owner' = "cancelled"
  /\ cancelled' = TRUE
  /\ EndCall(Owner)
  /\ UNCHANGED <<pc, elapsed, seq, terminal, bodyFailed, backendVars>>

-----------------------------------------------------------------------------
(* The backend (external). *)

HandleCreate(m) ==
  /\ m.op = "create"
  /\ status' = IF status = "absent" THEN "active" ELSE status
  /\ Answer(m, "created")
  /\ UNCHANGED <<sdkVars, events, approval, granted>>

Recorded(k) == {e \in events : e.key = k}

(* An event whose key is known is not evaluated again. *)
ReplayEvent(m) ==
  /\ m.op = "event"
  /\ \E e \in Recorded(EventKey(m.from, m.n)) : Answer(m, e.decision)
  /\ UNCHANGED <<sdkVars, backendVars>>

(* A new event is evaluated and persisted with its decision: any of them,  *)
(* as the policy, the exceptions granted and the organisation kill switch  *)
(* change under the chain.  A decision that needs a reviewer creates the   *)
(* pending approval, or joins the one that is pending.                     *)
EvaluateEvent(m, d) ==
  /\ m.op = "event"
  /\ Recorded(EventKey(m.from, m.n)) = {}
  /\ status \in {"active", "pending_approval"}
  /\ events' = events \cup {[act |-> m.from, key |-> EventKey(m.from, m.n), decision |-> d]}
  /\ approval' = IF d = "require_approval" THEN "pending" ELSE approval
  /\ status' = CASE d = "auto_paused"      -> "auto_paused"
                 [] d = "require_approval" -> "pending_approval"
                 [] OTHER                  -> status
  /\ Answer(m, d)
  /\ UNCHANGED <<sdkVars, granted>>

(* A chain that is paused, closed or (at the backend's choice) waiting for *)
(* a reviewer answers 409.                                                 *)
RefuseEvent(m) ==
  /\ m.op = "event"
  /\ Recorded(EventKey(m.from, m.n)) = {}
  /\ status # "active"
  /\ Answer(m, "conflict")
  /\ UNCHANGED <<sdkVars, backendVars>>

HandleStatus(m) ==
  /\ m.op = "status"
  /\ Answer(m, approval)
  /\ UNCHANGED <<sdkVars, backendVars>>

(* Completion is idempotent, and refused while the chain is not active. *)
HandleComplete(m) ==
  /\ m.op = "complete"
  /\ LET done == status \in {"active", "completed"}
     IN  /\ status' = IF done THEN "completed" ELSE status
         /\ Answer(m, IF done THEN "completed" ELSE "conflict")
  /\ UNCHANGED <<sdkVars, events, approval, granted>>

Handle(m) ==
  \/ HandleCreate(m)
  \/ ReplayEvent(m)
  \/ \E d \in Decisions : EvaluateEvent(m, d)
  \/ RefuseEvent(m)
  \/ HandleStatus(m)
  \/ HandleComplete(m)

Decided(a, d) == \E e \in events : e.act = a /\ e.decision = d

(* The actions that have needed a reviewer. *)
NeedApproval == {a \in Actions : Decided(a, "require_approval")}

Approve ==
  /\ approval = "pending"
  /\ approval' = "approved"
  /\ granted' = granted \cup NeedApproval
  /\ status' = IF status = "pending_approval" THEN "active" ELSE status
  /\ UNCHANGED <<sdkVars, transportVars, events>>

(* A reviewer denies, or the backend's own approval window closes. *)
Disapprove ==
  /\ approval = "pending"
  /\ approval' \in {"denied", "timed_out"}
  /\ status' = "terminated"
  /\ UNCHANGED <<sdkVars, transportVars, events, granted>>

(* POST /v1/chains/{chain_id}/resume by an operator. *)
Resume ==
  /\ status = "auto_paused"
  /\ status' = IF approval = "pending" THEN "pending_approval" ELSE "active"
  /\ UNCHANGED <<sdkVars, transportVars, events, approval, granted>>

-----------------------------------------------------------------------------
(* The specification. *)

(* The steps the event loop, the sockets' timeouts and the sleeps bring    *)
(* about by themselves.                                                    *)
ActionStep(a) ==
  \/ RetryCall(a) \/ RecordReply(a) \/ RecordConflict(a) \/ RecordFails(a)
  \/ Poll(a) \/ PollReply(a) \/ PollFails(a) \/ PollBreaks(a) \/ PollExpires(a)

OwnerStep ==
  \/ StartReply \/ StartFails \/ RetryCall(Owner)
  \/ Complete \/ CompleteReply \/ CompleteFails

(* What the application decides: when to start, record, leave and cancel.  *)
ApplicationStep ==
  \/ Start \/ Exit \/ CancelExit \/ CancelCompletion
  \/ \E a \in Actions : RecordRefused(a) \/ Record(a) \/ CancelAction(a)

BackendStep ==
  \/ \E m \in net : Handle(m)
  \/ Approve \/ Disapprove \/ Resume

Next ==
  \/ \E a \in Actions : ActionStep(a)
  \/ OwnerStep
  \/ ApplicationStep
  \/ BackendStep

Spec == Init /\ [][Next]_vars

(* A socket operation is over after backend_timeout_seconds and a sleep    *)
(* after its time, so a task that waits on either moves on.  Nothing is    *)
(* assumed of the backend, the reviewers or the application.               *)
Fairness ==
  /\ \A a \in Actions : WF_vars(ActionStep(a))
  /\ WF_vars(OwnerStep)

FairSpec == Spec /\ Fairness

-----------------------------------------------------------------------------
(* Properties. *)

(* What the backend, or a reviewer, has decided for an action.             *)
Permitted(a) ==
  \/ Decided(a, "allow") \/ Decided(a, "allow_with_flag")
  \/ Decided(a, "require_approval") /\ a \in granted

Disapproved == approval \in {"denied", "timed_out"}

Barred(a) ==
  \/ Decided(a, "deny") \/ Decided(a, "kill_switch") \/ Decided(a, "auto_paused")
  \/ Decided(a, "require_approval") /\ a \notin granted /\ Disapproved

(* record_agent_action returns only for an action the backend has recorded *)
(* and allowed, or whose approval a reviewer has granted: whatever is      *)
(* lost, retried, answered late or answered for another task, a missing    *)
(* decision never becomes a permission.                                    *)
FailClosed == \A a \in Actions : pc[a] = "allowed" => Permitted(a)

(* The decision on an action is a string the code does not name.           *)
Unnamed(a) == \E e \in events : e.act = a /\ e.decision \notin KnownDecisions

(* What is left of it if the backend may answer any string: only such a    *)
(* one lets an action through that is not permitted.                       *)
NamedOrPermitted == \A a \in Actions : pc[a] = "allowed" => Permitted(a) \/ Unnamed(a)

(* And an action that was refused, or whose approval was, is not released. *)
BarredIsNotReleased == \A a \in Actions : pc[a] = "allowed" => ~Barred(a)

(* One call leaves at most one event in the backend's audit trail, however *)
(* many of its attempts arrive and in whatever order: the idempotency key  *)
(* is drawn outside the retry loop.                                        *)
OneEventPerAction == \A e1, e2 \in events : e1.act = e2.act => e1 = e2

(* The exceptions tell the truth: each kind of refusal is raised only for  *)
(* an action the backend decided that way, and an approval that expired on *)
(* the client's side only for one that needed a reviewer.                  *)
RefusalsAreTrue ==
  \A a \in Actions :
    /\ pc[a] = "denied" => Decided(a, "deny")
    /\ pc[a] = "kill_switch" => Decided(a, "kill_switch")
    /\ pc[a] = "auto_paused" => Decided(a, "auto_paused")
    /\ pc[a] \in {"approval_denied", "approval_timeout"} => Decided(a, "require_approval")
    /\ pc[a] = "approval_denied" => Disapproved

(* The sequence number counts decisions received, each for an event of its *)
(* own: it never runs ahead of the audit trail.                            *)
SequenceBehindLedger == seq - 1 <= Cardinality(events)

(* The backend has halted the chain, or an action on it, for good or until *)
(* an operator steps in.                                                   *)
Halted == Disapproved \/ \E e \in events : e.decision \in {"auto_paused", "kill_switch"}

(* Leaving the block without an exception means that the backend has       *)
(* completed the chain or has halted it, whatever was cancelled, lost or   *)
(* learnt by another task on the way.                                      *)
ExitIsConfirmed ==
  /\ owner = "completed" => status = "completed"
  /\ owner = "skipped" => Halted

ExitEnds == Exiting /\ ~Exiting'

(* A cancellation that arrives while the chain is being completed waits    *)
(* for the completion and then wins: the exit never ends another way, and  *)
(* never while the completion request is outstanding.                      *)
CancellationIsPrimary ==
  [][ExitEnds => (cancelled => owner' = "cancelled") /\ call'[Owner] = Idle]_vars

(* Every call of record_agent_action ends, and so does every entry and     *)
(* every exit of the block: retries and polls are bounded, whatever the    *)
(* backend does and however often the exit is cancelled.                   *)
CallsSettle ==
  /\ \A a \in Actions : pc[a] \in {"posting", "polling"} ~> pc[a] \in Outcomes
  /\ owner \in {"starting", "closing", "completing"} ~> owner \in OwnerOutcomes \cup {"open"}

-----------------------------------------------------------------------------
(* What makes NamedOrPermitted and the others inductive.                   *)

(* A task's call is the one its place in the code makes.                   *)
CallsMatchTasks ==
  /\ \A a \in Actions :
       /\ call[a].op \in {"event", "status", NoOp}
       /\ call[a].op = "event" => pc[a] = "posting"
       /\ call[a].op = "status" => pc[a] = "polling"
  /\ call[Owner].op \in {"create", "complete", NoOp}
  /\ call[Owner].op = "create" => owner = "starting"
  /\ call[Owner].op = "complete" => owner = "completing"
  /\ \A c \in Callers : call[c].op = NoOp => reply[c] = NoReply
  /\ \A m \in net : m.op \in {"event", "status"} => m.from \in Actions

(* What has arrived for a task is what the backend has recorded, and only  *)
(* a task whose event needs a reviewer polls.                              *)
RepliesAreTrue ==
  /\ \A a \in Actions :
       /\ pc[a] = "posting" /\ reply[a] \in Decisions => Decided(a, reply[a])
       /\ pc[a] = "polling" => Decided(a, "require_approval")
       /\ pc[a] = "polling" /\ reply[a] = "approved" => a \in granted
       /\ pc[a] = "polling" /\ reply[a] \in {"denied", "timed_out"} => Disapproved
  /\ owner = "completing" /\ reply[Owner] = "completed" => status = "completed"

(* The reviewer's answer covers every event that was waiting for it, a     *)
(* denial is the end of the chain, and a chain under review is not closed. *)
ApprovalStanding ==
  /\ approval = "approved" => NeedApproval \subseteq granted
  /\ Disapproved => status = "terminated"
  /\ approval = "pending" => status \in {"pending_approval", "auto_paused"}

KeysIdentify ==
  /\ \A e \in events : e.key = EventKey(e.act, 0)
  /\ OneEventPerAction

(* The terminal flag is set only when the backend has halted something,    *)
(* and only with it is the completion skipped.                             *)
TerminalIsJustified == terminal => Halted

ExitStanding ==
  /\ owner = "completed" => status = "completed"
  /\ owner = "skipped" => terminal

(* The inductive invariant. *)
IInv ==
  /\ TypeOK
  /\ CallsMatchTasks
  /\ RepliesAreTrue
  /\ ApprovalStanding
  /\ KeysIdentify
  /\ NamedOrPermitted
  /\ RefusalsAreTrue
  /\ TerminalIsJustified
  /\ ExitStanding

-----------------------------------------------------------------------------
(* Two claims of the repository that the code does not keep.               *)

(* "No further events can be recorded until an operator resumes or         *)
(* explicitly terminates the chain" (exceptions.py:227): a resumed chain   *)
(* is a live one, so the exit closes it or says that it could not          *)
(* (ChainCompletionError).  At no exit is the completion skipped while the *)
(* chain is active: a skip before the resume is none of these steps.       *)
SkipsOnlyHalted == [][owner = "open" /\ owner' = "skipped" => status # "active"]_vars

(* "After approval, the SDK returns an allow-style outcome" (README.md,    *)
(* human approval): an action whose approval was granted is not reported   *)
(* as denied.  The polled status is the chain's and not the action's.      *)
ApprovedIsNotDenied ==
  \A a \in Actions : pc[a] = "approval_denied" => a \notin granted

(* The chain implements the gate. *)
Standing(a) ==
  IF pc[a] = "allowed" THEN "released"
  ELSE IF Permitted(a) THEN "authorized"
  ELSE IF Barred(a) THEN "barred" ELSE "undecided"

ChainStanding ==
  IF owner = "completed" THEN "reported"
  ELSE IF status = "completed" THEN "completed" ELSE "open"

Gate == INSTANCE GovernanceGate WITH
  gate <- [a \in Actions |-> Standing(a)],
  chain <- ChainStanding

(* Every behaviour of the chain, its transport and its backend is one of   *)
(* the gate's.                                                             *)
ImplementsGate == Gate!Spec

=============================================================================
