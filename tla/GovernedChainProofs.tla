------------------------- MODULE GovernedChainProofs -------------------------
(* Theorems about GovernedChain, for any number of actions, retries and    *)
(* polls; the safety theorems, for a backend that answers no decision but  *)
(* those the SDK knows.  The inductive invariant is IInv.                  *)
EXTENDS GovernedChain, FiniteSetTheorems, TLAPS

(***************************************************************************)
(* The transport keeps its types.                                          *)
(***************************************************************************)

LEMMA BeginCallType ==
  ASSUME TransportTypeOK, NEW c \in Callers, NEW o \in Ops, BeginCall(c, o)
  PROVE  TransportTypeOK'
BY ChainAssumption DEF TransportTypeOK, BeginCall, Requests, Attempts, Idle

LEMMA ResendType ==
  ASSUME TransportTypeOK, NEW c \in Callers, Waiting(c),
         NEW f \in Failures, CanRetry(c, f), Resend(c)
  PROVE  TransportTypeOK'
<1>1. call[c] \in [op : Ops, n : Attempts] /\ call[c].n + 1 \in Attempts
  BY ChainAssumption DEF TransportTypeOK, Waiting, CanRetry, Attempts, Idle
<1>2. net' \subseteq Requests
  BY <1>1 DEF TransportTypeOK, Resend, LeftBehind, Requests
<1>3. call' \in [Callers -> [op : Ops, n : Attempts] \cup {Idle}]
  BY <1>1 DEF TransportTypeOK, Resend, NextAttempt
<1>4. reply' \in [Callers -> Replies \cup {NoReply}]
  BY DEF TransportTypeOK, Resend
<1> QED BY <1>2, <1>3, <1>4 DEF TransportTypeOK

LEMMA EndCallType ==
  ASSUME TransportTypeOK, NEW c \in Callers, EndCall(c)
  PROVE  TransportTypeOK'
BY DEF TransportTypeOK, EndCall, LeftBehind

LEMMA AnswerType ==
  ASSUME TransportTypeOK, NEW m \in net, NEW r \in Replies, Answer(m, r)
  PROVE  TransportTypeOK'
BY DEF TransportTypeOK, Answer, Requests

-----------------------------------------------------------------------------
(***************************************************************************)
(* Type correctness.                                                       *)
(***************************************************************************)

LEMMA ConstantTypes ==
  /\ Owner \in Callers
  /\ Actions \subseteq Callers
  /\ {"create", "event", "status", "complete"} = Ops
  /\ Decisions \subseteq Replies
  /\ ApprovalStatus \subseteq Replies
  /\ {"created", "completed", "conflict"} \subseteq Replies
  /\ NoReply \notin Replies
BY ChainAssumption DEF Callers, Ops, Replies, ApprovalStatus, NoReply

LEMMA InitType == Init => TypeOK
<1> SUFFICES ASSUME Init PROVE TypeOK
  OBVIOUS
<1>1. TransportTypeOK
  BY DEF Init, TransportInit, TransportTypeOK
<1>2. elapsed \in [Actions -> 0 .. MaxPolls]
  BY ChainAssumption DEF Init
<1>3. pc \in [Actions -> ActionStates]
  BY DEF Init, ActionStates
<1> QED BY <1>1, <1>2, <1>3 DEF Init, TypeOK, OwnerStates, ChainStatus, ApprovalStatus

(* Steps of a task that records. *)
LEMMA ActionType ==
  ASSUME TypeOK, NEW a \in Actions,
         ActionStep(a) \/ RecordRefused(a) \/ Record(a) \/ CancelAction(a)
  PROVE  TypeOK'
<1> USE ConstantTypes
<1> USE DEF ActionStates, Outcomes
<1>1. CASE RetryCall(a)
  BY <1>1, ResendType DEF RetryCall, TypeOK, sdkVars, backendVars
<1>2. CASE RecordReply(a)
  BY <1>2, EndCallType DEF RecordReply, TypeOK, AfterDecision, backendVars
<1>3. CASE RecordConflict(a)
  BY <1>3, EndCallType DEF RecordConflict, TypeOK, backendVars
<1>4. CASE RecordFails(a)
  BY <1>4, EndCallType DEF RecordFails, CallError, TypeOK, backendVars
<1>5. CASE Poll(a)
  <2>1. elapsed[a] + 1 \in 0 .. MaxPolls
    BY <1>5, ChainAssumption DEF Poll, TypeOK
  <2> QED BY <2>1, <1>5, BeginCallType DEF Poll, TypeOK, backendVars
<1>6. CASE PollReply(a)
  BY <1>6, EndCallType DEF PollReply, AfterPoll, TypeOK, backendVars
<1>7. CASE PollFails(a)
  BY <1>7, EndCallType DEF PollFails, TypeOK, sdkVars, backendVars
<1>8. CASE PollExpires(a)
  BY <1>8 DEF PollExpires, TypeOK, TransportTypeOK, transportVars, backendVars
<1>9. CASE RecordRefused(a)
  BY <1>9 DEF RecordRefused, TypeOK, TransportTypeOK, transportVars, backendVars
<1>10. CASE Record(a)
  BY <1>10, BeginCallType DEF Record, TypeOK, backendVars
<1>11. CASE CancelAction(a)
  BY <1>11, EndCallType DEF CancelAction, TypeOK, backendVars
<1>12. CASE PollBreaks(a)
  BY <1>12, EndCallType DEF PollBreaks, TypeOK, backendVars
<1> QED BY <1>1, <1>2, <1>3, <1>4, <1>5, <1>6, <1>7, <1>8, <1>9, <1>10, <1>11, <1>12
        DEF ActionStep

(* Steps of the task that runs the block. *)
LEMMA OwnerType ==
  ASSUME TypeOK,
         OwnerStep \/ Start \/ Exit \/ CancelExit \/ CancelCompletion
  PROVE  TypeOK'
<1> USE ConstantTypes
<1> USE DEF OwnerStates, OwnerOutcomes
<1>1. CASE StartReply
  BY <1>1, EndCallType DEF StartReply, TypeOK, backendVars
<1>2. CASE StartFails
  BY <1>2, EndCallType DEF StartFails, TypeOK, backendVars
<1>3. CASE RetryCall(Owner)
  BY <1>3, ResendType DEF RetryCall, TypeOK, sdkVars, backendVars
<1>4. CASE Complete
  BY <1>4, BeginCallType DEF Complete, TypeOK, backendVars
<1>5. CASE CompleteReply
  BY <1>5, EndCallType DEF CompleteReply, ExitOutcome, TypeOK, backendVars
<1>6. CASE CompleteFails
  BY <1>6, EndCallType DEF CompleteFails, ExitOutcome, TypeOK, backendVars
<1>7. CASE Start
  BY <1>7, BeginCallType DEF Start, TypeOK, backendVars
<1>8. CASE Exit
  BY <1>8 DEF Exit, TypeOK, TransportTypeOK, transportVars, backendVars
<1>9. CASE CancelExit
  BY <1>9 DEF CancelExit, TypeOK, TransportTypeOK, transportVars, backendVars
<1>10. CASE CancelCompletion
  BY <1>10, EndCallType DEF CancelCompletion, TypeOK, backendVars
<1> QED BY <1>1, <1>2, <1>3, <1>4, <1>5, <1>6, <1>7, <1>8, <1>9, <1>10 DEF OwnerStep

(* Steps of the backend and the people behind it. *)
LEMMA BackendType ==
  ASSUME TypeOK, CallsMatchTasks, BackendStep
  PROVE  TypeOK'
<1> USE ConstantTypes
<1> USE DEF ChainStatus, ApprovalStatus
<1>1. ASSUME NEW m \in net, Handle(m) PROVE TypeOK'
  <2> m \in Requests
    BY DEF TypeOK, TransportTypeOK
  <2>1. CASE HandleCreate(m)
    BY <2>1, AnswerType DEF HandleCreate, TypeOK, sdkVars
  <2>2. CASE ReplayEvent(m)
    <3>1. PICK e \in events : Answer(m, e.decision)
      BY <2>2 DEF ReplayEvent, Recorded
    <3>2. e.decision \in Replies
      BY DEF TypeOK
    <3> QED BY <2>2, <3>1, <3>2, AnswerType DEF ReplayEvent, TypeOK, sdkVars, backendVars
  <2>3. ASSUME NEW d \in Decisions, EvaluateEvent(m, d) PROVE TypeOK'
    <3>1. TransportTypeOK'
      BY <2>3, AnswerType DEF EvaluateEvent, TypeOK
    <3>2. m.from \in Actions /\ EventKey(m.from, m.n) \in Keys
      BY <2>3, ChainAssumption DEF EvaluateEvent, CallsMatchTasks, EventKey, Keys
    <3>3. events' \subseteq [act : Actions, key : Keys, decision : Decisions]
      BY <2>3, <3>2 DEF EvaluateEvent, TypeOK
    <3> QED BY <2>3, <3>1, <3>3 DEF EvaluateEvent, TypeOK, sdkVars
  <2>4. CASE RefuseEvent(m)
    BY <2>4, AnswerType DEF RefuseEvent, TypeOK, sdkVars, backendVars
  <2>5. CASE HandleStatus(m)
    BY <2>5, AnswerType DEF HandleStatus, TypeOK, sdkVars, backendVars
  <2>6. CASE HandleComplete(m)
    BY <2>6, AnswerType DEF HandleComplete, TypeOK, sdkVars
  <2> QED BY <1>1, <2>1, <2>2, <2>3, <2>4, <2>5, <2>6 DEF Handle
<1>2. CASE Approve
  BY <1>2 DEF Approve, TypeOK, TransportTypeOK, sdkVars, transportVars, NeedApproval
<1>3. CASE Disapprove
  BY <1>3 DEF Disapprove, TypeOK, TransportTypeOK, sdkVars, transportVars
<1>4. CASE Resume
  BY <1>4 DEF Resume, TypeOK, TransportTypeOK, sdkVars, transportVars
<1> QED BY <1>1, <1>2, <1>3, <1>4 DEF BackendStep

LEMMA TypeStep == TypeOK /\ CallsMatchTasks /\ [Next]_vars => TypeOK'
<1> SUFFICES ASSUME TypeOK, CallsMatchTasks, [Next]_vars PROVE TypeOK'
  OBVIOUS
<1>1. CASE UNCHANGED vars
  BY <1>1 DEF vars, sdkVars, transportVars, backendVars, TypeOK, TransportTypeOK
<1>2. CASE Next
  BY <1>2, ActionType, OwnerType, BackendType DEF Next, ApplicationStep
<1> QED BY <1>1, <1>2

-----------------------------------------------------------------------------
(***************************************************************************)
(* A task's call is the one its place in the code makes.                   *)
(***************************************************************************)

LEMMA InitCalls == Init => CallsMatchTasks
BY ConstantTypes DEF Init, CallsMatchTasks, TransportInit, Idle, NoOp

LEMMA ActionCalls ==
  ASSUME TypeOK, CallsMatchTasks, NEW a \in Actions,
         ActionStep(a) \/ RecordRefused(a) \/ Record(a) \/ CancelAction(a)
  PROVE  CallsMatchTasks'
<1> USE ConstantTypes, ChainAssumption DEF CallsMatchTasks, TypeOK, TransportTypeOK, Idle, NoOp
<1>1. CASE RetryCall(a)
  BY <1>1 DEF RetryCall, Resend, NextAttempt, LeftBehind, Waiting, sdkVars
<1>2. CASE RecordReply(a)
  BY <1>2 DEF RecordReply, EndCall, LeftBehind
<1>3. CASE RecordConflict(a)
  BY <1>3 DEF RecordConflict, EndCall, LeftBehind
<1>4. CASE RecordFails(a)
  BY <1>4 DEF RecordFails, EndCall, LeftBehind
<1>5. CASE Poll(a)
  BY <1>5 DEF Poll, BeginCall, Waiting, Attempts
<1>6. CASE PollReply(a)
  BY <1>6 DEF PollReply, EndCall, LeftBehind
<1>7. CASE PollFails(a)
  BY <1>7 DEF PollFails, EndCall, LeftBehind, sdkVars
<1>8. CASE PollExpires(a)
  BY <1>8 DEF PollExpires, transportVars, Waiting, Attempts
<1>9. CASE RecordRefused(a)
  BY <1>9 DEF RecordRefused, transportVars
<1>10. CASE Record(a)
  BY <1>10 DEF Record, BeginCall
<1>11. CASE CancelAction(a)
  BY <1>11 DEF CancelAction, EndCall, LeftBehind
<1>12. CASE PollBreaks(a)
  BY <1>12 DEF PollBreaks, EndCall, LeftBehind
<1> QED BY <1>1, <1>2, <1>3, <1>4, <1>5, <1>6, <1>7, <1>8, <1>9, <1>10, <1>11, <1>12
        DEF ActionStep

LEMMA OwnerCalls ==
  ASSUME TypeOK, CallsMatchTasks,
         OwnerStep \/ Start \/ Exit \/ CancelExit \/ CancelCompletion
  PROVE  CallsMatchTasks'
<1> USE ConstantTypes, ChainAssumption DEF CallsMatchTasks, Callers, TypeOK, TransportTypeOK, Idle, NoOp
<1>1. CASE StartReply \/ StartFails \/ CompleteReply \/ CompleteFails \/ CancelCompletion
  <2>1. EndCall(Owner) /\ pc' = pc
    BY <1>1 DEF StartReply, StartFails, CompleteReply, CompleteFails, CancelCompletion
  <2> QED BY <2>1 DEF EndCall, LeftBehind
<1>2. CASE RetryCall(Owner)
  BY <1>2 DEF RetryCall, Resend, NextAttempt, LeftBehind, Waiting, Attempts, sdkVars
<1>3. CASE Start \/ Complete
  BY <1>3 DEF Start, Complete, BeginCall
<1>4. CASE Exit \/ CancelExit
  BY <1>4 DEF Exit, CancelExit, transportVars
<1> QED BY <1>1, <1>2, <1>3, <1>4 DEF OwnerStep

LEMMA BackendCalls ==
  ASSUME TypeOK, CallsMatchTasks, BackendStep
  PROVE  CallsMatchTasks'
<1> USE ConstantTypes DEF CallsMatchTasks, TypeOK, TransportTypeOK
<1>1. ASSUME NEW m \in net, Handle(m) PROVE CallsMatchTasks'
  <2>1. PICK r : Answer(m, r)
    BY <1>1 DEF Handle, HandleCreate, ReplayEvent, EvaluateEvent, RefuseEvent,
                HandleStatus, HandleComplete
  <2>2. pc' = pc /\ owner' = owner
    BY <1>1 DEF Handle, HandleCreate, ReplayEvent, EvaluateEvent, RefuseEvent,
                HandleStatus, HandleComplete, sdkVars
  <2>3. m.op # NoOp
    BY DEF Requests, NoOp
  <2> QED BY <2>1, <2>2, <2>3 DEF Answer, Request
<1>2. CASE Approve \/ Disapprove \/ Resume
  BY <1>2 DEF Approve, Disapprove, Resume, sdkVars, transportVars
<1> QED BY <1>1, <1>2 DEF BackendStep

LEMMA CallsStep == TypeOK /\ CallsMatchTasks /\ [Next]_vars => CallsMatchTasks'
<1> SUFFICES ASSUME TypeOK, CallsMatchTasks, [Next]_vars PROVE CallsMatchTasks'
  OBVIOUS
<1>1. CASE UNCHANGED vars
  BY <1>1 DEF vars, sdkVars, transportVars, CallsMatchTasks
<1>2. CASE Next
  BY <1>2, ActionCalls, OwnerCalls, BackendCalls DEF Next, ApplicationStep
<1> QED BY <1>1, <1>2

(* Type correctness of the Chain object, its tasks, the transport and the  *)
(* backend, for every number of actions, retries and polls: attempt        *)
(* counters stay within max_retries + 1, elapsed polls within the window,  *)
(* and every event belongs to an action.                                   *)
THEOREM TypeCorrect == Spec => [](TypeOK /\ CallsMatchTasks)
<1>1. Init => TypeOK /\ CallsMatchTasks
  BY InitType, InitCalls
<1>2. TypeOK /\ CallsMatchTasks /\ [Next]_vars => (TypeOK /\ CallsMatchTasks)'
  BY TypeStep, CallsStep
<1> QED BY <1>1, <1>2, PTL DEF Spec

-----------------------------------------------------------------------------
(***************************************************************************)
(* Safety.                                                                 *)
(***************************************************************************)

(* What IInv says of one task. *)
TaskInv(a) ==
  /\ pc[a] = "posting" /\ reply[a] \in Decisions => Decided(a, reply[a])
  /\ pc[a] = "polling" =>
       /\ Decided(a, "require_approval")
       /\ reply[a] = "approved" => a \in granted
       /\ reply[a] \in {"denied", "timed_out"} => Disapproved
  /\ pc[a] = "allowed" => Permitted(a) \/ Unnamed(a)
  /\ pc[a] = "denied" => Decided(a, "deny")
  /\ pc[a] = "kill_switch" => Decided(a, "kill_switch")
  /\ pc[a] = "auto_paused" => Decided(a, "auto_paused")
  /\ pc[a] \in {"approval_denied", "approval_timeout"} => Decided(a, "require_approval")
  /\ pc[a] = "approval_denied" => Disapproved

(* What it says of the exit. *)
ExitInv ==
  /\ owner = "completing" /\ reply[Owner] = "completed" => status = "completed"
  /\ ExitStanding

LEMMA IInvParts ==
  IInv <=> /\ TypeOK
           /\ CallsMatchTasks
           /\ \A a \in Actions : TaskInv(a)
           /\ ExitInv
           /\ ApprovalStanding
           /\ KeysIdentify
           /\ TerminalIsJustified
BY DEF IInv, TaskInv, ExitInv, RepliesAreTrue, NamedOrPermitted, RefusalsAreTrue

LEMMA InitSafe == Init => IInv
<1> SUFFICES ASSUME Init PROVE IInv
  OBVIOUS
<1>1. TypeOK /\ CallsMatchTasks
  BY InitType, InitCalls
<1>2. \A a \in Actions : TaskInv(a)
  BY DEF Init, TaskInv
<1>3. ExitInv /\ ApprovalStanding /\ KeysIdentify /\ TerminalIsJustified
  BY DEF Init, ExitInv, ExitStanding, ApprovalStanding, Disapproved, KeysIdentify,
         OneEventPerAction, TerminalIsJustified
<1> QED BY <1>1, <1>2, <1>3, IInvParts

-----------------------------------------------------------------------------
(***************************************************************************)
(* Steps of a task: the backend does not move, nor do the other tasks.     *)
(***************************************************************************)

LEMMA OtherTasks ==
  ASSUME NEW b \in Actions, TaskInv(b), UNCHANGED backendVars,
         pc'[b] = pc[b], reply'[b] = reply[b]
  PROVE  TaskInv(b)'
BY DEF TaskInv, Decided, Permitted, Unnamed, Disapproved, backendVars

LEMMA ActionSafe ==
  ASSUME IInv, NEW a \in Actions,
         ActionStep(a) \/ RecordRefused(a) \/ Record(a) \/ CancelAction(a)
  PROVE  /\ \A b \in Actions : TaskInv(b)'
         /\ ExitInv' /\ ApprovalStanding' /\ KeysIdentify' /\ TerminalIsJustified'
<1> USE IInvParts, ConstantTypes
<1>1. UNCHANGED backendVars /\ owner' = owner
  BY DEF ActionStep, RecordRefused, Record, CancelAction, RetryCall, RecordReply,
         RecordConflict, RecordFails, Poll, PollReply, PollFails, PollBreaks, PollExpires, sdkVars
<1>2. \A c \in Callers \ {a} : reply'[c] = reply[c]
  BY DEF ActionStep, RecordRefused, Record, CancelAction, RetryCall, RecordReply,
         RecordConflict, RecordFails, Poll, PollReply, PollFails, PollBreaks, PollExpires,
         BeginCall, EndCall, Resend, transportVars, TypeOK, TransportTypeOK
<1>3. \A b \in Actions \ {a} : pc'[b] = pc[b]
  BY DEF ActionStep, RecordRefused, Record, CancelAction, RetryCall, RecordReply,
         RecordConflict, RecordFails, Poll, PollReply, PollFails, PollBreaks, PollExpires,
         sdkVars, TypeOK
<1>4. ASSUME NEW b \in Actions \ {a} PROVE TaskInv(b)'
  BY <1>1, <1>2, <1>3, <1>4, OtherTasks
<1>5. /\ \A d : Decided(a, d)' <=> Decided(a, d)
      /\ Permitted(a)' <=> Permitted(a)
      /\ Unnamed(a)' <=> Unnamed(a)
      /\ Disapproved' <=> Disapproved
  BY <1>1 DEF Decided, Permitted, Unnamed, Disapproved, backendVars
<1>6. TaskInv(a)'
  <2>1. CASE RecordReply(a)
    <3>1. Decided(a, reply[a]) /\ (reply[a] \notin KnownDecisions => Unnamed(a))
      BY <2>1 DEF RecordReply, TaskInv, Decided, Unnamed
    <3>2. pc'[a] = AfterDecision(reply[a]) /\ reply'[a] = NoReply
      BY <2>1 DEF RecordReply, EndCall, TypeOK, TransportTypeOK
    <3> QED BY <3>1, <3>2, <1>5 DEF AfterDecision, KnownDecisions, TaskInv, Permitted, NoReply
  <2>2. CASE PollReply(a)
    <3>1. pc[a] = "polling" /\ pc'[a] = AfterPoll(reply[a]) /\ reply'[a] = NoReply
      BY <2>2 DEF PollReply, EndCall, TypeOK, TransportTypeOK
    <3> QED BY <3>1, <1>5 DEF AfterPoll, TaskInv, Permitted, NoReply
  <2>3. CASE \/ RecordConflict(a) \/ RecordFails(a) \/ PollBreaks(a)
            \/ CancelAction(a) \/ RecordRefused(a)
    <3>1. pc'[a] \in {"error", "unavailable", "cancelled", "refused"}
      BY <2>3 DEF RecordConflict, RecordFails, CallError, PollBreaks, CancelAction,
                  RecordRefused, TypeOK
    <3> QED BY <3>1 DEF TaskInv
  <2>4. CASE RetryCall(a) \/ PollFails(a)
    <3>1. pc'[a] = pc[a] /\ reply'[a] = NoReply
      BY <2>4 DEF RetryCall, PollFails, Resend, EndCall, sdkVars, TypeOK, TransportTypeOK
    <3> QED BY <3>1, <1>5 DEF TaskInv, NoReply
  <2>5. CASE Poll(a)
    <3>1. pc'[a] = pc[a] /\ reply'[a] = reply[a]
      BY <2>5 DEF Poll, BeginCall
    <3> QED BY <3>1, <1>1, OtherTasks
  <2>6. CASE PollExpires(a)
    <3>1. pc[a] = "polling" /\ pc'[a] = "approval_timeout"
      BY <2>6 DEF PollExpires, TypeOK
    <3> QED BY <3>1, <1>5 DEF TaskInv
  <2>7. CASE Record(a)
    <3>1. pc'[a] = "posting" /\ reply'[a] = NoReply
      <4>1. pc[a] = "idle" /\ pc' = [pc EXCEPT ![a] = "posting"] /\ reply' = reply
        BY <2>7 DEF Record, BeginCall
      <4>2. call[a].op = NoOp
        BY <4>1 DEF CallsMatchTasks
      <4>3. reply[a] = NoReply
        BY <4>2 DEF CallsMatchTasks
      <4> QED BY <4>1, <4>3 DEF TypeOK
    <3> QED BY <3>1 DEF TaskInv
  <2> QED BY <2>1, <2>2, <2>3, <2>4, <2>5, <2>6, <2>7 DEF ActionStep
<1>7. ApprovalStanding' /\ KeysIdentify'
  BY <1>1 DEF ApprovalStanding, Disapproved, NeedApproval, Decided, KeysIdentify,
              OneEventPerAction, backendVars
<1>8. TerminalIsJustified'
  <2>1. CASE RecordReply(a)
    <3>1. terminal' => terminal \/ reply[a] \in Halting
      BY <2>1, Zenon DEF RecordReply
    <3>2. Decided(a, reply[a])
      BY <2>1 DEF RecordReply, TaskInv
    <3> QED BY <3>1, <3>2, <1>1 DEF Halting, TerminalIsJustified, Halted, Decided, Disapproved, backendVars
  <2>2. CASE PollReply(a)
    <3>1. terminal' => terminal \/ AfterPoll(reply[a]) = "approval_denied"
      BY <2>2, Zenon DEF PollReply
    <3>2. AfterPoll(reply[a]) = "approval_denied" => Disapproved
      BY <2>2 DEF PollReply, TaskInv, AfterPoll
    <3> QED BY <3>1, <3>2, <1>1 DEF TerminalIsJustified, Halted, Disapproved, backendVars
  <2>3. CASE ~RecordReply(a) /\ ~PollReply(a)
    <3>1. terminal' = terminal
      BY <2>3 DEF ActionStep, RecordRefused, Record, CancelAction, RetryCall, RecordConflict,
                  RecordFails, Poll, PollFails, PollBreaks, PollExpires, sdkVars
    <3> QED BY <3>1, <1>1 DEF TerminalIsJustified, Halted, Disapproved, backendVars
  <2> QED BY <2>1, <2>2, <2>3
<1>9. ExitInv'
  <2>1. Owner \in Callers \ {a}
    BY ChainAssumption
  <2>2. terminal => terminal'
    BY DEF ActionStep, RecordRefused, Record, CancelAction, RetryCall, RecordReply,
           RecordConflict, RecordFails, Poll, PollReply, PollFails, PollBreaks, PollExpires, sdkVars
  <2> QED BY <2>1, <2>2, <1>1, <1>2 DEF ExitInv, ExitStanding, backendVars
<1> QED BY <1>4, <1>6, <1>7, <1>8, <1>9

-----------------------------------------------------------------------------
(***************************************************************************)
(* Steps of the task that runs the block.                                  *)
(***************************************************************************)

LEMMA OwnerSafe ==
  ASSUME IInv, OwnerStep \/ Start \/ Exit \/ CancelExit \/ CancelCompletion
  PROVE  /\ \A b \in Actions : TaskInv(b)'
         /\ ExitInv' /\ ApprovalStanding' /\ KeysIdentify' /\ TerminalIsJustified'
<1> USE IInvParts, ConstantTypes
<1>1. UNCHANGED backendVars /\ pc' = pc /\ terminal' = terminal
  BY DEF OwnerStep, Start, Exit, CancelExit, CancelCompletion, StartReply, StartFails,
         RetryCall, Complete, CompleteReply, CompleteFails, sdkVars
<1>2. \A b \in Actions : reply'[b] = reply[b]
  BY ChainAssumption
     DEF OwnerStep, Start, Exit, CancelExit, CancelCompletion, StartReply, StartFails,
         RetryCall, Complete, CompleteReply, CompleteFails, BeginCall, EndCall, Resend,
         transportVars, TypeOK, TransportTypeOK
<1>3. \A b \in Actions : TaskInv(b)'
  BY <1>1, <1>2, OtherTasks
<1>4. ApprovalStanding' /\ KeysIdentify' /\ TerminalIsJustified'
  BY <1>1 DEF ApprovalStanding, Disapproved, NeedApproval, Decided, KeysIdentify,
              OneEventPerAction, TerminalIsJustified, Halted, backendVars
<1>5. ExitInv'
  <2> USE DEF ExitInv, ExitStanding
  <2>1. CASE StartReply \/ StartFails \/ Start
    <3>1. owner' \in {"open", "start_failed", "starting"}
      BY <2>1 DEF StartReply, StartFails, Start
    <3> QED BY <3>1
  <2>2. CASE RetryCall(Owner)
    <3>1. owner' = owner /\ reply'[Owner] = NoReply
      BY <2>2 DEF RetryCall, Resend, sdkVars, TypeOK, TransportTypeOK
    <3> QED BY <3>1, <1>1 DEF NoReply, backendVars
  <2>3. CASE Complete
    <3>1. owner = "closing" /\ owner' = "completing" /\ reply' = reply
      BY <2>3 DEF Complete, BeginCall
    <3>2. reply[Owner] = NoReply
      BY <3>1 DEF CallsMatchTasks
    <3> QED BY <3>1, <3>2 DEF NoReply
  <2>4. CASE CompleteReply
    <3>1. owner = "completing" /\ owner' = ExitOutcome(reply[Owner] = "completed")
      BY <2>4 DEF CompleteReply
    <3> QED BY <3>1, <1>1 DEF ExitOutcome, backendVars
  <2>5. CASE CompleteFails
    <3>1. owner' = ExitOutcome(FALSE)
      BY <2>5 DEF CompleteFails
    <3> QED BY <3>1 DEF ExitOutcome
  <2>6. CASE Exit
    <3>1. owner' \in {"closing", "raised", "skipped"} /\ (owner' = "skipped" => terminal)
      BY <2>6 DEF Exit
    <3> QED BY <3>1, <1>1
  <2>7. CASE CancelExit
    BY <2>7, <1>1 DEF CancelExit, transportVars, backendVars
  <2>8. CASE CancelCompletion
    <3>1. owner' = "cancelled"
      BY <2>8 DEF CancelCompletion
    <3> QED BY <3>1
  <2> QED BY <2>1, <2>2, <2>3, <2>4, <2>5, <2>6, <2>7, <2>8 DEF OwnerStep
<1> QED BY <1>3, <1>4, <1>5

-----------------------------------------------------------------------------
(***************************************************************************)
(* Steps of the backend, the reviewers and the operators.                  *)
(***************************************************************************)

(* What the backend has recorded or decided stands. *)
LEMMA BackendMonotone ==
  ASSUME IInv, BackendStep
  PROVE  /\ UNCHANGED sdkVars
         /\ events \subseteq events' /\ granted \subseteq granted'
         /\ Disapproved => Disapproved'
         /\ status = "completed" => status' = "completed"
<1> USE IInvParts DEF Disapproved
<1>1. ASSUME NEW m \in net, Handle(m)
      PROVE  /\ UNCHANGED sdkVars
             /\ events \subseteq events' /\ granted \subseteq granted'
             /\ Disapproved => Disapproved'
             /\ status = "completed" => status' = "completed"
  <2>1. CASE HandleCreate(m) \/ HandleComplete(m)
    BY <2>1 DEF HandleCreate, HandleComplete
  <2>2. CASE ReplayEvent(m) \/ RefuseEvent(m) \/ HandleStatus(m)
    BY <2>2 DEF ReplayEvent, RefuseEvent, HandleStatus, backendVars
  <2>3. ASSUME NEW d \in Decisions, EvaluateEvent(m, d)
        PROVE  /\ UNCHANGED sdkVars
               /\ events \subseteq events' /\ granted \subseteq granted'
               /\ Disapproved => Disapproved'
               /\ status = "completed" => status' = "completed"
    BY <2>3 DEF EvaluateEvent, ApprovalStanding
  <2> QED BY <1>1, <2>1, <2>2, <2>3 DEF Handle
<1>2. CASE Approve
  BY <1>2 DEF Approve
<1>3. CASE Disapprove
  BY <1>3 DEF Disapprove, ApprovalStanding
<1>4. CASE Resume
  BY <1>4 DEF Resume
<1> QED BY <1>1, <1>2, <1>3, <1>4 DEF BackendStep

(* A reply reaches the task whose latest attempt is the request answered.  *)
LEMMA ReplyOfRequest ==
  ASSUME TypeOK, NEW m \in net, NEW r, Answer(m, r), NEW c \in Callers, reply'[c] # reply[c]
  PROVE  m.from = c /\ call[c].op = m.op /\ reply'[c] = r
<1>1. m = Request(m.from) /\ reply' = [reply EXCEPT ![m.from] = r]
  BY DEF Answer
<1>2. m.from = c /\ reply'[c] = r
  BY <1>1 DEF TypeOK, TransportTypeOK
<1> QED BY <1>1, <1>2 DEF Request

LEMMA BackendTasks ==
  ASSUME IInv, BackendStep, NEW a \in Actions
  PROVE  TaskInv(a)'
<1> USE IInvParts, ConstantTypes
<1>1. /\ pc' = pc
      /\ events \subseteq events' /\ granted \subseteq granted'
      /\ Disapproved => Disapproved'
  BY BackendMonotone DEF sdkVars
<1>2. /\ \A d : Decided(a, d) => Decided(a, d)'
      /\ Permitted(a) => Permitted(a)'
      /\ Unnamed(a) => Unnamed(a)'
  BY <1>1 DEF Decided, Permitted, Unnamed
<1>3. CASE reply'[a] = reply[a]
  BY <1>1, <1>2, <1>3 DEF TaskInv
<1>4. CASE reply'[a] # reply[a]
  <2>1. PICK m \in net : Handle(m)
    BY <1>4 DEF BackendStep, Approve, Disapprove, Resume, transportVars
  <2>2. CASE HandleCreate(m) \/ HandleComplete(m)
    <3>1. PICK r : Answer(m, r)
      BY <2>2 DEF HandleCreate, HandleComplete
    <3>2. call[a].op = m.op
      BY <3>1, <1>4, ReplyOfRequest
    <3> QED BY <3>2, <2>2 DEF HandleCreate, HandleComplete, CallsMatchTasks, NoOp
  <2>3. CASE m.op = "event"
    <3>1. PICK r : /\ Answer(m, r)
                   /\ r = "conflict" \/ Decided(m.from, r)'
      <4>1. CASE ReplayEvent(m)
        <5>1. PICK e \in Recorded(EventKey(m.from, m.n)) : Answer(m, e.decision)
          BY <4>1 DEF ReplayEvent
        <5>2. e \in events' /\ e.act = m.from
          BY <5>1, <1>1 DEF Recorded, KeysIdentify, EventKey
        <5> QED BY <5>1, <5>2 DEF Decided
      <4>2. ASSUME NEW d \in Decisions, EvaluateEvent(m, d)
            PROVE  Answer(m, d) /\ Decided(m.from, d)'
        <5>1. [act |-> m.from, key |-> EventKey(m.from, m.n), decision |-> d] \in events'
          BY <4>2 DEF EvaluateEvent
        <5> QED BY <4>2, <5>1 DEF EvaluateEvent, Decided
      <4>3. CASE RefuseEvent(m)
        BY <4>3 DEF RefuseEvent
      <4> QED BY <2>1, <2>3, <4>1, <4>2, <4>3
              DEF Handle, HandleCreate, HandleStatus, HandleComplete
    <3>2. m.from = a /\ call[a].op = "event" /\ reply'[a] = r
      BY <3>1, <1>4, <2>3, ReplyOfRequest
    <3>3. pc[a] = "posting"
      BY <3>2 DEF CallsMatchTasks
    <3>4. "conflict" \notin Decisions
      BY ChainAssumption
    <3> QED BY <1>1, <3>1, <3>2, <3>3, <3>4 DEF TaskInv
  <2>4. CASE HandleStatus(m)
    <3>1. Answer(m, approval) /\ UNCHANGED backendVars /\ m.op = "status"
      BY <2>4 DEF HandleStatus
    <3>2. call[a].op = "status" /\ reply'[a] = approval
      BY <3>1, <1>4, ReplyOfRequest
    <3>3. pc[a] = "polling" /\ Decided(a, "require_approval")
      BY <3>2 DEF CallsMatchTasks, TaskInv
    <3>4. approval = "approved" => a \in granted
      BY <3>3 DEF ApprovalStanding, NeedApproval
    <3>5. a \in granted => a \in granted'
      BY <1>1
    <3> QED BY <1>1, <1>2, <3>2, <3>3, <3>4, <3>5 DEF TaskInv, Disapproved
  <2> QED BY <2>1, <2>2, <2>3, <2>4 DEF Handle, ReplayEvent, EvaluateEvent, RefuseEvent
<1> QED BY <1>3, <1>4

LEMMA BackendSafe ==
  ASSUME IInv, BackendStep
  PROVE  /\ \A b \in Actions : TaskInv(b)'
         /\ ExitInv' /\ ApprovalStanding' /\ KeysIdentify' /\ TerminalIsJustified'
<1> USE IInvParts, ConstantTypes
<1>1. \A b \in Actions : TaskInv(b)'
  BY BackendTasks
<1>2. TerminalIsJustified'
  BY BackendMonotone DEF TerminalIsJustified, Halted, sdkVars
<1>3. ExitInv'
  <2>1. /\ owner' = owner /\ terminal' = terminal
        /\ status = "completed" => status' = "completed"
    BY BackendMonotone DEF sdkVars
  <2>2. CASE reply'[Owner] = reply[Owner]
    BY <2>1, <2>2 DEF ExitInv, ExitStanding
  <2>3. ASSUME owner = "completing", reply'[Owner] # reply[Owner], reply'[Owner] = "completed"
        PROVE  status' = "completed"
    <3>1. PICK m \in net : Handle(m)
      BY <2>3 DEF BackendStep, Approve, Disapprove, Resume, transportVars
    <3>2. PICK r : Answer(m, r)
      BY <3>1 DEF Handle, HandleCreate, ReplayEvent, EvaluateEvent, RefuseEvent,
                  HandleStatus, HandleComplete
    <3>3. m.op \in {"create", "complete"}
      BY <3>2, <2>3, ReplyOfRequest DEF CallsMatchTasks, TypeOK, TransportTypeOK, Requests, NoOp, Ops
    <3>4. CASE m.op = "complete"
      <4>1. HandleComplete(m)
        BY <3>1, <3>4 DEF Handle, HandleCreate, ReplayEvent, EvaluateEvent, RefuseEvent, HandleStatus
      <4>2. CASE status \in {"active", "completed"}
        BY <4>1, <4>2 DEF HandleComplete
      <4>3. CASE status \notin {"active", "completed"}
        <5>1. Answer(m, "conflict")
          BY <4>1, <4>3 DEF HandleComplete
        <5> QED BY <5>1, <2>3, ReplyOfRequest
      <4> QED BY <4>2, <4>3
    <3>5. CASE m.op = "create"
      <4>1. Answer(m, "created")
        BY <3>1, <3>5 DEF Handle, HandleCreate, ReplayEvent, EvaluateEvent, RefuseEvent,
                          HandleStatus, HandleComplete
      <4> QED BY <4>1, <2>3, ReplyOfRequest
    <3> QED BY <3>3, <3>4, <3>5
  <2> QED BY <2>1, <2>2, <2>3 DEF ExitInv, ExitStanding
<1>4. ApprovalStanding'
  <2> USE DEF ApprovalStanding, Disapproved, NeedApproval, Decided
  <2>1. ASSUME NEW m \in net, Handle(m) PROVE ApprovalStanding'
    <3>1. CASE HandleCreate(m) \/ HandleComplete(m)
      BY <3>1 DEF HandleCreate, HandleComplete
    <3>2. CASE ReplayEvent(m) \/ RefuseEvent(m) \/ HandleStatus(m)
      BY <3>2 DEF ReplayEvent, RefuseEvent, HandleStatus, backendVars
    <3>3. ASSUME NEW d \in Decisions, EvaluateEvent(m, d) PROVE ApprovalStanding'
      BY <3>3 DEF EvaluateEvent
    <3> QED BY <2>1, <3>1, <3>2, <3>3 DEF Handle
  <2>2. CASE Approve
    BY <2>2 DEF Approve
  <2>3. CASE Disapprove
    BY <2>3 DEF Disapprove
  <2>4. CASE Resume
    BY <2>4 DEF Resume
  <2> QED BY <2>1, <2>2, <2>3, <2>4 DEF BackendStep
<1>5. KeysIdentify'
  <2> USE DEF KeysIdentify, OneEventPerAction, EventKey
  <2>1. ASSUME NEW m \in net, NEW d \in Decisions, EvaluateEvent(m, d) PROVE KeysIdentify'
    <3>1. \A e \in events : e.act # m.from
      BY <2>1 DEF EvaluateEvent, Recorded
    <3> DEFINE new == [act |-> m.from, key |-> EventKey(m.from, m.n), decision |-> d]
    <3>2. events' = events \cup {new} /\ new.act = m.from /\ new.key = EventKey(new.act, 0)
      BY <2>1 DEF EvaluateEvent
    <3> HIDE DEF new
    <3> QED BY <3>1, <3>2
  <2>2. CASE events' = events
    BY <2>2
  <2> QED BY <2>1, <2>2 DEF BackendStep, Handle, HandleCreate, ReplayEvent, RefuseEvent,
          HandleStatus, HandleComplete, Approve, Disapprove, Resume, backendVars
<1> QED BY <1>1, <1>2, <1>3, <1>4, <1>5

-----------------------------------------------------------------------------
LEMMA SafeStep ==
  ASSUME IInv, [Next]_vars
  PROVE  IInv'
<1>1. TypeOK' /\ CallsMatchTasks'
  BY IInvParts, TypeStep, CallsStep
<1>2. CASE UNCHANGED vars
  BY <1>2, <1>1 DEF vars, sdkVars, transportVars, backendVars, IInv, RepliesAreTrue, NamedOrPermitted,
     RefusalsAreTrue, ApprovalStanding, KeysIdentify, OneEventPerAction, TerminalIsJustified, Halted,
     ExitStanding, Decided, Permitted, Unnamed, Disapproved, NeedApproval
<1>3. CASE Next
  <2>1. /\ \A b \in Actions : TaskInv(b)'
        /\ ExitInv' /\ ApprovalStanding' /\ KeysIdentify' /\ TerminalIsJustified'
    BY <1>3, ActionSafe, OwnerSafe, BackendSafe DEF Next, ApplicationStep
  <2> QED BY <1>1, <2>1 DEF TaskInv, ExitInv, IInv, RepliesAreTrue, NamedOrPermitted, RefusalsAreTrue
<1> QED BY <1>2, <1>3

(* IInv holds of every reachable state: the replies that are on their way  *)
(* to a task agree with what the backend has recorded, and the approval    *)
(* and the chain's status agree with each other.                           *)
THEOREM InductiveInvariant == Spec => []IInv
<1>1. IInv /\ [Next]_vars => IInv'
  BY SafeStep
<1> QED BY <1>1, InitSafe, PTL DEF Spec

(* If the backend answers only decisions that the code names, every        *)
(* decision is one of them.                                                *)
LEMMA AllAreNamed ==
  ASSUME Decisions \subseteq KnownDecisions, TypeOK, NEW a
  PROVE  ~Unnamed(a)
BY DEF TypeOK, Unnamed

(* record_agent_action returns only for an action the backend has recorded *)
(* and allowed, or that a reviewer has approved, for any number of         *)
(* concurrent calls, lost or late attempts, and polls.                     *)
THEOREM NothingReleasedUndecided ==
  ASSUME Decisions \subseteq KnownDecisions
  PROVE  Spec => []FailClosed
<1>1. IInv => FailClosed
  BY AllAreNamed DEF IInv, NamedOrPermitted, FailClosed
<1> QED BY <1>1, InductiveInvariant, PTL

(* Whatever the backend answers, an action that it or a reviewer refused   *)
(* is not released, and one that nobody permitted only by a decision that  *)
(* the code does not name.                                                 *)
THEOREM RefusedIsNeverReleased == Spec => [](NamedOrPermitted /\ BarredIsNotReleased)
<1>1. IInv => BarredIsNotReleased
  <2>. SUFFICES ASSUME IInv, NEW a \in Actions, pc[a] = "allowed" PROVE ~Barred(a)
    BY DEF BarredIsNotReleased
  <2>1. \A e, f \in events : e.act = a /\ f.act = a => e = f
    BY DEF IInv, KeysIdentify, OneEventPerAction
  <2>2. CASE Permitted(a)
    BY <2>1, <2>2 DEF Permitted, Barred, Decided
  <2>3. CASE Unnamed(a)
    BY <2>1, <2>3 DEF Unnamed, Barred, Decided, KnownDecisions
  <2>. QED
    BY <2>2, <2>3 DEF IInv, NamedOrPermitted
<1>2. IInv => NamedOrPermitted /\ BarredIsNotReleased
  BY <1>1 DEF IInv
<1>. QED
  BY <1>2, InductiveInvariant, PTL

(* Whatever is retried, one call leaves at most one event in the audit     *)
(* trail.                                                                  *)
THEOREM NoDuplicateEvents == Spec => []OneEventPerAction
<1>1. IInv => OneEventPerAction
  BY DEF IInv, KeysIdentify
<1> QED BY <1>1, InductiveInvariant, PTL

(* Each kind of refusal is raised only for an action the backend, or the   *)
(* chain's reviewer, refused that way.                                     *)
THEOREM RefusalsJustified == Spec => []RefusalsAreTrue
<1>1. IInv => RefusalsAreTrue
  BY DEF IInv
<1> QED BY <1>1, InductiveInvariant, PTL

(* The block ends without an exception only for a chain the backend has    *)
(* completed or halted.                                                    *)
THEOREM ExitConfirmed == Spec => []ExitIsConfirmed
<1>1. IInv => ExitIsConfirmed
  BY DEF IInv, ExitStanding, TerminalIsJustified, ExitIsConfirmed
<1> QED BY <1>1, InductiveInvariant, PTL

-----------------------------------------------------------------------------
(***************************************************************************)
(* The sequence number.  It counts each event at most once, when the task  *)
(* that sent it hears the decision; so it is compared with the events      *)
(* whose task does not wait for a decision any more.                       *)
(***************************************************************************)

Heard == {e \in events : pc[e.act] \notin {"idle", "posting"}}

LedgerInv == IsFiniteSet(events) /\ seq - 1 <= Cardinality(Heard)

LEMMA EventsGrow ==
  ASSUME IInv, [Next]_vars
  PROVE  \/ events' = events
         \/ \E e : events' = events \cup {e}
<1>1. ASSUME NEW m \in net, Handle(m)
      PROVE  events' = events \/ \E e : events' = events \cup {e}
  <2>1. ASSUME NEW d \in Decisions, EvaluateEvent(m, d)
        PROVE  \E e : events' = events \cup {e}
    BY <2>1 DEF EvaluateEvent
  <2>2. CASE \/ HandleCreate(m) \/ ReplayEvent(m) \/ RefuseEvent(m)
             \/ HandleStatus(m) \/ HandleComplete(m)
    BY <2>2 DEF HandleCreate, ReplayEvent, RefuseEvent, HandleStatus, HandleComplete, backendVars
  <2> QED BY <1>1, <2>1, <2>2 DEF Handle
<1>2. CASE Approve \/ Disapprove \/ Resume
  BY <1>2 DEF Approve, Disapprove, Resume
<1>3. CASE OwnerStep \/ Start \/ Exit \/ CancelExit \/ CancelCompletion
  BY <1>3 DEF OwnerStep, Start, Exit, CancelExit, CancelCompletion, StartReply, StartFails,
     RetryCall, Complete, CompleteReply, CompleteFails, backendVars
<1>4. ASSUME NEW a \in Actions, ActionStep(a) \/ RecordRefused(a) \/ Record(a) \/ CancelAction(a)
      PROVE  events' = events
  BY <1>4 DEF ActionStep, RecordRefused, Record, CancelAction, RetryCall, RecordReply,
     RecordConflict, RecordFails, Poll, PollReply, PollFails, PollBreaks, PollExpires, backendVars
<1>5. CASE UNCHANGED vars
  BY <1>5 DEF vars, backendVars
<1> QED BY <1>1, <1>2, <1>3, <1>4, <1>5 DEF Next, ApplicationStep, BackendStep

(* A task that has stopped waiting for a decision does not wait again, and *)
(* the number moves only when one stops.                                   *)
LEMMA HearingStep ==
  ASSUME IInv, [Next]_vars
  PROVE  /\ \A b \in Actions : pc[b] \notin {"idle", "posting"} => pc'[b] \notin {"idle", "posting"}
         /\ \/ seq' = seq
            \/ /\ seq' = seq + 1
               /\ \E a \in Actions : /\ pc[a] = "posting" /\ reply[a] \in Decisions
                                      /\ pc'[a] \notin {"idle", "posting"}
<1> USE IInvParts
<1>1. ASSUME NEW a \in Actions, RecordReply(a)
      PROVE  /\ seq' = seq + 1
             /\ pc[a] = "posting" /\ reply[a] \in Decisions
             /\ pc'[a] \notin {"idle", "posting"}
             /\ \A b \in Actions : pc[b] \notin {"idle", "posting"} => pc'[b] \notin {"idle", "posting"}
  <2>1. pc' = [pc EXCEPT ![a] = AfterDecision(reply[a])]
    BY <1>1 DEF RecordReply
  <2>2. AfterDecision(reply[a]) \notin {"idle", "posting"}
    BY DEF AfterDecision
  <2> QED BY <1>1, <2>1, <2>2 DEF RecordReply, TypeOK
<1>2. ASSUME NEW a \in Actions,
             \/ RetryCall(a) \/ RecordConflict(a) \/ RecordFails(a) \/ Poll(a)
             \/ PollReply(a) \/ PollFails(a) \/ PollBreaks(a) \/ PollExpires(a)
             \/ RecordRefused(a) \/ Record(a) \/ CancelAction(a)
      PROVE  /\ seq' = seq
             /\ \A b \in Actions : pc[b] \notin {"idle", "posting"} => pc'[b] \notin {"idle", "posting"}
  <2>1. seq' = seq
    BY <1>2 DEF RetryCall, RecordConflict, RecordFails, Poll, PollReply, PollFails, PollBreaks, PollExpires,
       RecordRefused, Record, CancelAction, sdkVars
  <2>2. CASE RetryCall(a) \/ Poll(a) \/ PollFails(a)
    <3>1. pc' = pc
      BY <2>2 DEF RetryCall, Poll, PollFails, sdkVars
    <3> QED BY <2>1, <3>1
  <2>3. CASE PollReply(a)
    <3>1. pc' = [pc EXCEPT ![a] = AfterPoll(reply[a])]
      BY <2>3 DEF PollReply
    <3>2. AfterPoll(reply[a]) \notin {"idle", "posting"}
      BY DEF AfterPoll
    <3> QED BY <2>1, <3>1, <3>2 DEF TypeOK
  <2>4. CASE RecordFails(a)
    <3>1. PICK f \in FinalFailures(a) : pc' = [pc EXCEPT ![a] = CallError(f)]
      BY <2>4 DEF RecordFails
    <3>2. CallError(f) \notin {"idle", "posting"}
      BY DEF CallError
    <3> QED BY <2>1, <3>1, <3>2 DEF TypeOK
  <2>5. CASE \/ RecordConflict(a) \/ PollBreaks(a) \/ PollExpires(a)
            \/ RecordRefused(a) \/ CancelAction(a) \/ Record(a)
    <3>1. \E p \in {"error", "approval_timeout", "refused", "cancelled", "posting"} :
            /\ pc' = [pc EXCEPT ![a] = p]
            /\ p = "posting" => pc[a] = "idle"
      BY <2>5 DEF RecordConflict, PollBreaks, PollExpires, RecordRefused, CancelAction, Record
    <3> QED BY <2>1, <3>1 DEF TypeOK
  <2> QED BY <1>2, <2>2, <2>3, <2>4, <2>5
<1>3. CASE OwnerStep \/ Start \/ Exit \/ CancelExit \/ CancelCompletion
  BY <1>3 DEF OwnerStep, Start, Exit, CancelExit, CancelCompletion, StartReply, StartFails,
     RetryCall, Complete, CompleteReply, CompleteFails, sdkVars
<1>4. CASE BackendStep
  BY <1>4, BackendMonotone DEF sdkVars
<1>5. CASE UNCHANGED vars
  BY <1>5 DEF vars, sdkVars
<1> QED BY <1>1, <1>2, <1>3, <1>4, <1>5 DEF Next, ApplicationStep, ActionStep

LEMMA LedgerStep ==
  ASSUME IInv, LedgerInv, [Next]_vars
  PROVE  LedgerInv'
<1>1. IsFiniteSet(events') /\ events \subseteq events'
  <2>1. CASE events' = events
    BY <2>1 DEF LedgerInv
  <2>2. ASSUME NEW e, events' = events \cup {e} PROVE IsFiniteSet(events') /\ events \subseteq events'
    BY <2>2, FS_AddElement DEF LedgerInv
  <2> QED BY <2>1, <2>2, EventsGrow
<1>2. Heard \subseteq Heard'
  <2>1. \A e \in events : e.act \in Actions
    BY DEF IInv, TypeOK
  <2> QED BY <1>1, <2>1, HearingStep DEF Heard
<1>3. /\ IsFiniteSet(Heard) /\ IsFiniteSet(Heard')
      /\ Cardinality(Heard) \in Nat /\ Cardinality(Heard') \in Nat
  <2>1. Heard \in SUBSET events /\ Heard' \in SUBSET events'
    BY DEF Heard
  <2>2. IsFiniteSet(Heard) /\ IsFiniteSet(Heard')
    BY <1>1, <2>1, FS_Subset DEF LedgerInv
  <2> QED BY <2>2, FS_CardinalityType
<1>4. seq \in Nat
  BY DEF IInv, TypeOK
<1>5. CASE seq' = seq
  <2>1. Cardinality(Heard) <= Cardinality(Heard')
    BY <1>2, <1>3, FS_Subset
  <2> QED BY <1>1, <1>3, <1>4, <1>5, <2>1 DEF LedgerInv
<1>6. ASSUME NEW a \in Actions, seq' = seq + 1, pc[a] = "posting", reply[a] \in Decisions,
             pc'[a] \notin {"idle", "posting"}
      PROVE  LedgerInv'
  <2>1. PICK e \in events : e.act = a
    BY <1>6 DEF IInv, RepliesAreTrue, Decided
  <2>2. e \notin Heard /\ e \in Heard'
    BY <1>1, <1>6, <2>1 DEF Heard
  <2>3. IsFiniteSet(Heard \cup {e}) /\ Cardinality(Heard \cup {e}) = Cardinality(Heard) + 1
    BY <1>3, <2>2, FS_AddElement
  <2>4. Heard \cup {e} \in SUBSET Heard'
    BY <1>2, <2>2
  <2>5. Cardinality(Heard \cup {e}) <= Cardinality(Heard')
    BY <1>3, <2>4, FS_Subset
  <2> QED BY <1>1, <1>3, <1>4, <1>6, <2>3, <2>5 DEF LedgerInv
<1> QED BY <1>5, <1>6, HearingStep

(* The sequence number never runs ahead of the audit trail, although calls *)
(* are cancelled, lost and answered late while it moves.                   *)
THEOREM SequenceNeverAhead == Spec => []SequenceBehindLedger
<1>1. Init => LedgerInv
  <2> SUFFICES ASSUME Init PROVE LedgerInv
    OBVIOUS
  <2>1. events = {} /\ seq = 1 /\ Heard = {}
    BY DEF Init, Heard
  <2> QED BY <2>1, FS_EmptySet DEF LedgerInv
<1>2. IInv /\ LedgerInv /\ [Next]_vars => LedgerInv'
  BY LedgerStep
<1>3. IInv /\ LedgerInv => SequenceBehindLedger
  <2> SUFFICES ASSUME IInv, LedgerInv PROVE SequenceBehindLedger
    OBVIOUS
  <2>1. Heard \in SUBSET events
    BY DEF Heard
  <2>2. /\ Cardinality(Heard) <= Cardinality(events)
        /\ Cardinality(Heard) \in Nat /\ Cardinality(events) \in Nat
    BY <2>1, FS_Subset, FS_CardinalityType DEF LedgerInv
  <2> QED BY <2>2 DEF LedgerInv, SequenceBehindLedger, IInv, TypeOK
<1> QED BY <1>1, <1>2, <1>3, InductiveInvariant, PTL DEF Spec

-----------------------------------------------------------------------------
LEMMA CancellationStep ==
  ASSUME IInv, [Next]_vars, ExitEnds
  PROVE  (cancelled => owner' = "cancelled") /\ call'[Owner] = Idle
<1> USE IInvParts, ConstantTypes DEF ExitEnds, Exiting
<1>1. CASE CompleteReply \/ CompleteFails \/ CancelCompletion
  <2>1. EndCall(Owner)
    BY <1>1 DEF CompleteReply, CompleteFails, CancelCompletion
  <2>2. call'[Owner] = Idle
    BY <2>1 DEF EndCall, TypeOK, TransportTypeOK
  <2>3. cancelled => owner' = "cancelled"
    BY <1>1, Zenon DEF CompleteReply, CompleteFails, CancelCompletion, ExitOutcome
  <2> QED BY <2>2, <2>3
<1>2. ASSUME ~(CompleteReply \/ CompleteFails \/ CancelCompletion) PROVE FALSE
  <2>1. CASE UNCHANGED vars
    BY <2>1 DEF vars, sdkVars
  <2>2. ASSUME NEW a \in Actions,
               ActionStep(a) \/ RecordRefused(a) \/ Record(a) \/ CancelAction(a)
        PROVE  FALSE
    <3>1. owner' = owner
      BY <2>2 DEF ActionStep, RecordRefused, Record, CancelAction, RetryCall, RecordReply,
             RecordConflict, RecordFails, Poll, PollReply, PollFails, PollBreaks, PollExpires, sdkVars
    <3> QED BY <3>1
  <2>3. CASE OwnerStep \/ Start \/ Exit \/ CancelExit
    BY <2>3, <1>2 DEF OwnerStep, Start, Exit, CancelExit, StartReply, StartFails, RetryCall,
                      Complete, sdkVars
  <2>4. CASE BackendStep
    BY <2>4, BackendMonotone DEF sdkVars
  <2> QED BY <2>1, <2>2, <2>3, <2>4, <1>2 DEF Next, ApplicationStep
<1> QED BY <1>1, <1>2

(* A cancellation during the exit waits for the completion, and then it is *)
(* what the exit ends with.                                                *)
THEOREM CancellationWins == Spec => CancellationIsPrimary
<1>1. IInv /\ [Next]_vars
        => [ExitEnds => (cancelled => owner' = "cancelled") /\ call'[Owner] = Idle]_vars
  BY CancellationStep
<1> QED BY <1>1, InductiveInvariant, PTL DEF Spec, CancellationIsPrimary

=============================================================================
