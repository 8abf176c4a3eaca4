----------------------- MODULE GovernedChainRefinement -----------------------
(* GovernedChain implements GovernanceGate: every step of a task, of the   *)
(* transport or of the backend decides, releases, closes, reports or is    *)
(* none of the gate's business.                                            *)
EXTENDS GovernedChainProofs

standings == [a \in Actions |-> Standing(a)]

LEMMA InitGate == Init => Gate!Init
BY DEF Init, Gate!Init, Standing, ChainStanding, Permitted, Barred, Decided, Disapproved

(* A step that gives the undecided actions of S their standing is a        *)
(* decision.                                                               *)
LEMMA DecideStep ==
  ASSUME NEW S \in SUBSET Actions, NEW s \in {"authorized", "barred"},
         ChainStanding = "open", ChainStanding' = "open",
         \A a \in S : Standing(a) = "undecided" /\ Standing(a)' = s,
         \A a \in Actions \ S : Standing(a)' = Standing(a)
  PROVE  Gate!Next
<1>1. standings' = [a \in Actions |-> IF a \in S THEN s ELSE standings[a]]
  BY DEF standings
<1>2. S \subseteq {a \in Actions : standings[a] = "undecided"}
  BY DEF standings
<1>3. Gate!Decide(S, s)
  BY <1>1, <1>2 DEF Gate!Decide, Gate!Undecided, standings
<1> QED BY <1>3 DEF Gate!Next

LEMMA SameGate ==
  ASSUME \A a \in Actions : Standing(a)' = Standing(a), ChainStanding' = ChainStanding
  PROVE  UNCHANGED Gate!gateVars
BY DEF Gate!gateVars

(* A task that records: if it is released, it was authorized. *)
LEMMA ActionGate ==
  ASSUME Decisions \subseteq KnownDecisions, IInv, NEW a \in Actions,
         ActionStep(a) \/ RecordRefused(a) \/ Record(a) \/ CancelAction(a)
  PROVE  Gate!Next \/ UNCHANGED Gate!gateVars
<1> USE IInvParts
<1>1. UNCHANGED backendVars /\ owner' = owner
  BY DEF ActionStep, RecordRefused, Record, CancelAction, RetryCall, RecordReply,
         RecordConflict, RecordFails, Poll, PollReply, PollFails, PollBreaks, PollExpires, sdkVars
<1>2. \A b \in Actions \ {a} : pc'[b] = pc[b]
  BY DEF ActionStep, RecordRefused, Record, CancelAction, RetryCall, RecordReply,
         RecordConflict, RecordFails, Poll, PollReply, PollFails, PollBreaks, PollExpires,
         sdkVars, TypeOK
<1>3. pc[a] = "allowed" => pc'[a] = "allowed"
  BY DEF ActionStep, RecordRefused, Record, CancelAction, RetryCall, RecordReply,
         RecordConflict, RecordFails, Poll, PollReply, PollFails, PollBreaks, PollExpires, sdkVars
<1>4. \A b \in Actions : (Permitted(b)' <=> Permitted(b)) /\ (Barred(b)' <=> Barred(b))
  BY <1>1 DEF Permitted, Barred, Decided, Disapproved, backendVars
<1>5. \A b \in Actions \ {a} : Standing(b)' = Standing(b)
  BY <1>2, <1>4 DEF Standing
<1>6. ChainStanding' = ChainStanding
  BY <1>1 DEF ChainStanding, backendVars
<1>7. CASE pc[a] # "allowed" /\ pc'[a] = "allowed"
  <2>1. Permitted(a)
    <3>1. TaskInv(a)' /\ TypeOK'
      BY ActionSafe, TypeStep DEF Next, ApplicationStep
    <3>2. ~Unnamed(a)'
      BY <3>1 DEF TypeOK, Unnamed
    <3>. QED
      BY <1>4, <1>7, <3>1, <3>2 DEF TaskInv
  <2>2. Standing(a) = "authorized" /\ Standing(a)' = "released"
    BY <2>1, <1>7 DEF Standing
  <2>3. standings[a] = "authorized" /\ standings' = [standings EXCEPT ![a] = "released"]
    BY <2>2, <1>5 DEF standings
  <2>4. Gate!Release(a)
    BY <2>3, <1>6 DEF Gate!Release, standings
  <2> QED BY <2>4 DEF Gate!Next
<1>8. CASE pc[a] = "allowed" \/ pc'[a] # "allowed"
  <2>1. Standing(a)' = Standing(a)
    BY <1>3, <1>4, <1>8 DEF Standing
  <2> QED BY <2>1, <1>5, <1>6, SameGate
<1> QED BY <1>7, <1>8

(* The block: it reports only a chain that is completed. *)
LEMMA OwnerGate ==
  ASSUME IInv, OwnerStep \/ Start \/ Exit \/ CancelExit \/ CancelCompletion
  PROVE  Gate!Next \/ UNCHANGED Gate!gateVars
<1> USE IInvParts
<1>1. UNCHANGED backendVars /\ pc' = pc
  BY DEF OwnerStep, Start, Exit, CancelExit, CancelCompletion, StartReply, StartFails,
         RetryCall, Complete, CompleteReply, CompleteFails, sdkVars
<1>2. \A a \in Actions : Standing(a)' = Standing(a)
  BY <1>1 DEF Standing, Permitted, Barred, Decided, Disapproved, backendVars
<1>3. owner = "completed" => owner' = "completed"
  BY DEF OwnerStep, Start, Exit, CancelExit, CancelCompletion, StartReply, StartFails,
         RetryCall, Complete, CompleteReply, CompleteFails, Exiting, sdkVars
<1>4. CASE owner # "completed" /\ owner' = "completed"
  <2>1. status = "completed"
    BY <1>1, <1>4, OwnerSafe DEF ExitInv, ExitStanding, backendVars
  <2>2. ChainStanding = "completed" /\ ChainStanding' = "reported"
    BY <2>1, <1>4 DEF ChainStanding
  <2>3. Gate!Report
    BY <2>2, <1>2 DEF Gate!Report
  <2> QED BY <2>3 DEF Gate!Next
<1>5. CASE owner = "completed" \/ owner' # "completed"
  <2>1. ChainStanding' = ChainStanding
    BY <1>1, <1>3, <1>5 DEF ChainStanding, backendVars
  <2> QED BY <2>1, <1>2, SameGate
<1> QED BY <1>4, <1>5

(* The backend and its people: they decide while the chain is open, and    *)
(* close it.                                                               *)
LEMMA BackendGate ==
  ASSUME Decisions \subseteq KnownDecisions, IInv, BackendStep
  PROVE  Gate!Next \/ UNCHANGED Gate!gateVars
<1> USE IInvParts
<1>1. pc' = pc /\ owner' = owner
  BY BackendMonotone DEF sdkVars
<1>2. status # "completed" => owner # "completed"
  BY DEF ExitInv, ExitStanding
<1>3. \A a \in Actions : pc[a] = "allowed" => Permitted(a)
  BY AllAreNamed DEF TaskInv
<1>4. ASSUME NEW m \in net, Handle(m) PROVE Gate!Next \/ UNCHANGED Gate!gateVars
  <2>1. CASE HandleComplete(m)
    <3>1. \A a \in Actions : Standing(a)' = Standing(a)
      BY <2>1, <1>1 DEF HandleComplete, Standing, Permitted, Barred, Decided, Disapproved
    <3>2. CASE status = "active"
      <4>1. ChainStanding = "open" /\ ChainStanding' = "completed"
        BY <2>1, <3>2, <1>1, <1>2 DEF HandleComplete, ChainStanding
      <4>2. Gate!Close
        BY <4>1, <3>1 DEF Gate!Close
      <4> QED BY <4>2 DEF Gate!Next
    <3>3. CASE status # "active"
      <4>1. status' = status
        BY <2>1, <3>3 DEF HandleComplete
      <4>2. ChainStanding' = ChainStanding
        BY <4>1, <1>1 DEF ChainStanding
      <4> QED BY <4>2, <3>1, SameGate
    <3> QED BY <3>2, <3>3
  <2>2. CASE HandleCreate(m) \/ ReplayEvent(m) \/ RefuseEvent(m) \/ HandleStatus(m)
    <3>1. events' = events /\ approval' = approval /\ granted' = granted
      BY <2>2 DEF HandleCreate, ReplayEvent, RefuseEvent, HandleStatus, backendVars
    <3>2. \A a \in Actions : Standing(a)' = Standing(a)
      BY <3>1, <1>1 DEF Standing, Permitted, Barred, Decided, Disapproved
    <3>3. status' = "completed" <=> status = "completed"
      BY <2>2 DEF HandleCreate, ReplayEvent, RefuseEvent, HandleStatus, backendVars
    <3>4. ChainStanding' = ChainStanding
      BY <3>3, <1>1 DEF ChainStanding
    <3> QED BY <3>2, <3>4, SameGate
  <2>3. ASSUME NEW d \in Decisions, EvaluateEvent(m, d)
        PROVE  Gate!Next \/ UNCHANGED Gate!gateVars
    <3> DEFINE new == [act |-> m.from, key |-> EventKey(m.from, m.n), decision |-> d]
    <3>1. \A e \in events : e.act # m.from
      BY <2>3 DEF EvaluateEvent, Recorded, KeysIdentify, EventKey
    <3>2. events' = events \cup {new} /\ new.act = m.from /\ new.decision = d
      BY <2>3 DEF EvaluateEvent
    <3> HIDE DEF new
    <3>3. granted' = granted /\ ~Disapproved /\ ~Disapproved'
      BY <2>3 DEF EvaluateEvent, ApprovalStanding, Disapproved
    <3>4. m.from \in Actions
      BY <2>3 DEF EvaluateEvent, CallsMatchTasks
    <3>5. \A b \in Actions \ {m.from} : \A x : Decided(b, x)' <=> Decided(b, x)
      BY <3>2 DEF Decided
    <3>6. \A b \in Actions \ {m.from} : Standing(b)' = Standing(b)
      BY <3>3, <3>5, <1>1 DEF Standing, Permitted, Barred
    <3>7. Standing(m.from) = "undecided"
      BY <3>1, <3>4, <1>3 DEF Standing, Permitted, Barred, Decided
    <3>8. Standing(m.from)' \in {"undecided", "authorized", "barred"}
      BY <3>4, <3>7, <1>1, <1>3 DEF Standing, Permitted, Barred
    <3>9. ChainStanding = "open" /\ ChainStanding' = "open"
      BY <2>3, <1>1, <1>2 DEF EvaluateEvent, ChainStanding
    <3>10. CASE Standing(m.from)' = "undecided"
      BY <3>10, <3>6, <3>7, <3>9, SameGate
    <3>11. CASE Standing(m.from)' # "undecided"
      BY <3>11, <3>4, <3>6, <3>7, <3>8, <3>9, DecideStep
    <3> QED BY <3>10, <3>11
  <2> QED BY <1>4, <2>1, <2>2, <2>3 DEF Handle
<1>5. CASE Approve
  <2> DEFINE S == {a \in NeedApproval : Standing(a) = "undecided"}
  <2>1. /\ events' = events /\ granted' = granted \cup NeedApproval
        /\ ~Disapproved /\ ~Disapproved'
    BY <1>5 DEF Approve, Disapproved
  <2>2. \A a \in Actions : \A x : Decided(a, x)' <=> Decided(a, x)
    BY <2>1 DEF Decided
  <2>3. \A a \in S : a \in Actions /\ Standing(a)' = "authorized"
    BY <2>1, <2>2, <1>1 DEF NeedApproval, Standing, Permitted
  <2>4. \A a \in Actions \ S : Standing(a)' = Standing(a)
    <3> SUFFICES ASSUME NEW a \in Actions \ S PROVE Standing(a)' = Standing(a)
      OBVIOUS
    <3>1. CASE a \in NeedApproval
      <4>1. Decided(a, "require_approval")
        BY <3>1 DEF NeedApproval
      <4>2. \A x : Decided(a, x) => x = "require_approval"
        BY <4>1 DEF Decided, KeysIdentify, OneEventPerAction
      <4>3. ~Barred(a)
        BY <4>2, <2>1 DEF Barred
      <4>4. Permitted(a)
        BY <4>3, <3>1, <1>3 DEF Standing
      <4>5. Permitted(a)'
        BY <4>4, <2>1, <2>2 DEF Permitted
      <4> QED BY <4>4, <4>5, <1>1 DEF Standing
    <3>2. CASE a \notin NeedApproval
      <4>1. ~Decided(a, "require_approval")
        BY <3>2 DEF NeedApproval
      <4> QED BY <4>1, <2>2, <1>1 DEF Standing, Permitted, Barred
    <3> QED BY <3>1, <3>2
  <2>5. ChainStanding = "open" /\ ChainStanding' = "open"
    BY <1>5, <1>1, <1>2 DEF Approve, ApprovalStanding, ChainStanding
  <2>6. \A a \in S : Standing(a) = "undecided"
    OBVIOUS
  <2>7. S \in SUBSET Actions
    BY <2>3
  <2> HIDE DEF S
  <2> QED BY <2>3, <2>4, <2>5, <2>6, <2>7, DecideStep
<1>6. CASE Disapprove
  <2> DEFINE S == {a \in NeedApproval : Standing(a) = "undecided"}
  <2>1. /\ events' = events /\ granted' = granted
        /\ ~Disapproved /\ Disapproved'
    BY <1>6 DEF Disapprove, Disapproved
  <2>2. \A a \in Actions : \A x : Decided(a, x)' <=> Decided(a, x)
    BY <2>1 DEF Decided
  <2>3. \A a \in Actions : Permitted(a)' <=> Permitted(a)
    BY <2>1, <2>2 DEF Permitted
  <2>4. \A a \in S : a \in Actions /\ Standing(a)' = "barred"
    <3> SUFFICES ASSUME NEW a \in S PROVE a \in Actions /\ Standing(a)' = "barred"
      OBVIOUS
    <3>1. a \in Actions /\ Decided(a, "require_approval") /\ pc[a] # "allowed" /\ ~Permitted(a)
      BY DEF NeedApproval, Standing
    <3>2. Barred(a)'
      BY <3>1, <2>1, <2>2 DEF Barred, Permitted
    <3> QED BY <3>1, <3>2, <2>3, <1>1 DEF Standing
  <2>5. \A a \in Actions \ S : Standing(a)' = Standing(a)
    <3> SUFFICES ASSUME NEW a \in Actions \ S PROVE Standing(a)' = Standing(a)
      OBVIOUS
    <3>1. CASE a \in NeedApproval
      <4>1. pc[a] = "allowed" \/ Permitted(a) \/ Barred(a)
        BY <3>1 DEF Standing
      <4>2. Barred(a) => Barred(a)'
        BY <2>1, <2>2 DEF Barred
      <4> QED BY <4>1, <4>2, <2>3, <1>1 DEF Standing
    <3>2. CASE a \notin NeedApproval
      <4>1. ~Decided(a, "require_approval")
        BY <3>2 DEF NeedApproval
      <4> QED BY <4>1, <2>2, <2>3, <1>1 DEF Standing, Barred
    <3> QED BY <3>1, <3>2
  <2>6. ChainStanding = "open" /\ ChainStanding' = "open"
    BY <1>6, <1>1, <1>2 DEF Disapprove, ApprovalStanding, ChainStanding
  <2>7. \A a \in S : Standing(a) = "undecided"
    OBVIOUS
  <2>8. S \in SUBSET Actions
    BY <2>4
  <2> HIDE DEF S
  <2> QED BY <2>4, <2>5, <2>6, <2>7, <2>8, DecideStep
<1>7. CASE Resume
  <2>1. \A a \in Actions : Standing(a)' = Standing(a)
    BY <1>7, <1>1 DEF Resume, Standing, Permitted, Barred, Decided, Disapproved
  <2>2. ChainStanding' = ChainStanding
    BY <1>7, <1>1 DEF Resume, ChainStanding
  <2> QED BY <2>1, <2>2, SameGate
<1> QED BY <1>4, <1>5, <1>6, <1>7 DEF BackendStep

LEMMA GateStep ==
  ASSUME Decisions \subseteq KnownDecisions, IInv, [Next]_vars
  PROVE  [Gate!Next]_Gate!gateVars
<1>1. CASE UNCHANGED vars
  BY <1>1 DEF vars, sdkVars, backendVars, Gate!gateVars, Standing, ChainStanding,
              Permitted, Barred, Decided, Disapproved
<1>2. CASE Next
  BY <1>2, ActionGate, OwnerGate, BackendGate DEF Next, ApplicationStep
<1> QED BY <1>1, <1>2

(* The chain keeps the promise of the gate: no interleaving of tasks,      *)
(* retries, late requests, reviewers and operators releases an action that *)
(* is not authorized, releases one that is barred, authorizes anything     *)
(* after the chain is completed, or reports a completion that did not      *)
(* happen.                                                                 *)
THEOREM ChainImplementsGate ==
  ASSUME Decisions \subseteq KnownDecisions
  PROVE  Spec => ImplementsGate
<1>1. IInv /\ [Next]_vars => [Gate!Next]_Gate!gateVars
  BY GateStep
<1> QED BY <1>1, InitGate, InductiveInvariant, PTL DEF Spec, ImplementsGate, Gate!Spec

=============================================================================
