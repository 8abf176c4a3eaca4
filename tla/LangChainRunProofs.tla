------------------------- MODULE LangChainRunProofs -------------------------
(* Theorems about LangChainRun, for any number of invocations and any tree *)
(* of runs.                                                                *)
EXTENDS LangChainRun, TLAPS

(* Not over for whoever awaits it. *)
Pending == {"starting", "entered", "ending", "erroring", "failed"}

InCallbackOrBody == {"starting", "entered", "ending", "erroring"}

(* Where a run can be that may still have pending runs which it awaits. *)
Awaiting == {"entered", "erroring", "errored", "failed"}

TrueParent(x) == IF Parent[x] \in Runs THEN Name[Parent[x]] ELSE Agent

(* Someone above x was started by the invocation itself. *)
Rooted(x) == \E y \in Ancestry[x] : Parent[y] \notin Runs

(* What is known of a run by its place. *)
RunFacts(x) ==
  /\ x \in ran => place[x] \in Places \ {"idle", "starting"}
  /\ place[x] \in {"entered", "ending", "erroring", "done", "errored"} => x \in ran
  /\ place[x] # "idle" => /\ allRuns[x] = Name[x]
                          /\ handlers[Invoked[x]] = {Invoked[x]}
                          /\ Rooted(x)
  /\ place[x] \in {"starting", "entered"} => /\ activeRuns[x] = Name[x]
                                             /\ runParents[x] = TrueParent(x)
  /\ place[x] \in InCallbackOrBody => held[x] = [name |-> Name[x], parent |-> TrueParent(x)]
  /\ x \in refused => place[x] = "failed"
  /\ x \in ran => Accounted(x, "call")
  /\ place[x] = "done" => Accounted(x, "result")
  /\ place[x] = "errored" => Accounted(x, "error")

(* Nobody returns past a pending run. *)
Waits ==
  \A x \in Awaited : place[x] \in Pending =>
    IF Parent[x] \in Runs THEN place[Parent[x]] \in Awaiting
                          ELSE phase[Parent[x]] \notin {"returning", "returned"}

OwnHandler ==
  /\ config = {}
  /\ \A i \in Invocations : handlers[i] \in {{}, {i}}

LangChainInv ==
  /\ LangChainTypeOK
  /\ OwnHandler
  /\ \A x \in Runs : RunFacts(x)
  /\ Waits
  /\ TrailIsTrue

LEMMA InitLangChain == Init => LangChainInv
<1> SUFFICES ASSUME Init PROVE LangChainInv
  OBVIOUS
<1> USE DEF Init
<1>1. LangChainTypeOK
  BY DEF LangChainTypeOK, Phases, Places
<1>2. OwnHandler /\ TrailIsTrue
  BY DEF OwnHandler, TrailIsTrue
<1>3. \A x \in Runs : RunFacts(x)
  BY DEF RunFacts, InCallbackOrBody
<1>4. Waits
  BY LangChainAssumption DEF Waits, Pending
<1> QED BY <1>1, <1>2, <1>3, <1>4 DEF LangChainInv

-----------------------------------------------------------------------------
(* The runs above a run. *)

LEMMA AncestryNested ==
  ASSUME NEW x \in Runs
  PROVE  /\ x \in Ancestry[x]
         /\ Ancestry[x] \subseteq Runs
         /\ Nested(Ancestry[x])
         /\ \A S \in SUBSET Runs : x \in S /\ Nested(S) => Ancestry[x] \subseteq S
BY DEF Ancestry, Nested

LEMMA AncestryInvoked ==
  ASSUME NEW x \in Runs, NEW y \in Ancestry[x]
  PROVE  y \in Runs /\ Invoked[y] = Invoked[x]
<1> DEFINE S == {z \in Runs : Invoked[z] = Invoked[x]}
<1>1. Nested(S)
  BY LangChainAssumption DEF Nested
<1> QED BY <1>1, AncestryNested

LEMMA RootInherited ==
  ASSUME NEW x \in Runs, Parent[x] \in Runs => Rooted(Parent[x])
  PROVE  Rooted(x)
<1>1. CASE Parent[x] \in Runs
  <2> DEFINE p == Parent[x]
  <2>1. p \in Ancestry[x]
    BY <1>1, AncestryNested DEF Nested
  <2>2. Ancestry[p] \subseteq Ancestry[x]
    BY <1>1, <2>1, AncestryNested
  <2> QED BY <1>1, <2>2 DEF Rooted
<1>2. CASE Parent[x] \notin Runs
  BY <1>2, AncestryNested DEF Rooted
<1> QED BY <1>1, <1>2

(* An attended run that is pending keeps its invocation from returning.    *)
LEMMA PendingHolds ==
  ASSUME LangChainInv, NEW x \in Runs, place[x] \in Pending, Attended(x)
  PROVE  phase[Invoked[x]] # "returned"
<1> DEFINE S == {y \in Ancestry[x] : place[y] \in Pending}
<1>1. \A y \in Ancestry[x] : y \in Awaited
  BY DEF Attended
<1>2. Nested(S)
  <2> SUFFICES ASSUME NEW y \in S, Parent[y] \in Runs PROVE Parent[y] \in S
    BY DEF Nested
  <2>1. Parent[y] \in Ancestry[x]
    BY AncestryNested DEF Nested
  <2>2. place[Parent[y]] \in Awaiting
    BY <1>1 DEF LangChainInv, Waits
  <2>3. Parent[y] # x => place[Parent[y]] # "errored"
    BY <2>1 DEF Attended
  <2> QED BY <2>1, <2>2, <2>3 DEF Awaiting, Pending
<1>3. \A y \in Ancestry[x] : place[y] \in Pending
  BY <1>2, AncestryNested
<1>4. PICK y \in Ancestry[x] : Parent[y] \notin Runs
  BY DEF LangChainInv, RunFacts, Rooted, Pending
<1>5. Parent[y] = Invoked[x]
  BY <1>4, AncestryInvoked, LangChainAssumption
<1> QED BY <1>1, <1>3, <1>4, <1>5 DEF LangChainInv, Waits

-----------------------------------------------------------------------------
(* What a step of run x leaves alone. *)
StepOf(x) ==
  /\ UNCHANGED <<phase, config, handlers>>
  /\ \A y \in Runs \ {x} : /\ place'[y] = place[y]
                           /\ activeRuns'[y] = activeRuns[y]
                           /\ allRuns'[y] = allRuns[y]
                           /\ runParents'[y] = runParents[y]
                           /\ held'[y] = held[y]
                           /\ y \in ran' <=> y \in ran
                           /\ y \in refused' <=> y \in refused
  /\ \A y \in Runs, r \in Reports : Accounted(y, r) => Accounted(y, r)'

LEMMA OthersKeep ==
  ASSUME NEW x \in Runs, NEW y \in Runs \ {x}, StepOf(x), RunFacts(y)
  PROVE  RunFacts(y)'
<1>1. \A r \in Reports : Accounted(y, r) => Accounted(y, r)'
  BY DEF StepOf
<1>2. Rooted(y)' <=> Rooted(y)
  BY DEF Rooted, Ancestry, Nested
<1>3. TrueParent(y)' = TrueParent(y)
  BY DEF TrueParent
<1> QED BY <1>1, <1>2, <1>3 DEF StepOf, RunFacts, Reports

LEMMA MoveWaits ==
  ASSUME LangChainInv, NEW x \in Runs, StepOf(x),
         place'[x] \in Pending => place[x] \in Pending,
         place'[x] \in Awaiting \/ \A y \in AwaitedBy(x) : place[y] \notin Pending
  PROVE  Waits'
<1> SUFFICES ASSUME NEW z \in Awaited, place'[z] \in Pending
             PROVE  IF Parent[z] \in Runs THEN place'[Parent[z]] \in Awaiting
                                          ELSE phase'[Parent[z]] \notin {"returning", "returned"}
  BY DEF Waits
<1>1. z \in Runs /\ place[z] \in Pending
  BY LangChainAssumption DEF StepOf
<1>2. phase' = phase
  BY DEF StepOf
<1>3. CASE Parent[z] = x
  BY <1>1, <1>3 DEF AwaitedBy
<1>4. CASE Parent[z] # x
  BY <1>1, <1>2, <1>4 DEF StepOf, LangChainInv, Waits
<1> QED BY <1>3, <1>4

LEMMA Assembled ==
  ASSUME LangChainInv, NEW x \in Runs, StepOf(x), LangChainTypeOK', RunFacts(x)', Waits',
         TrailIsTrue'
  PROVE  LangChainInv'
<1>1. OwnHandler'
  BY DEF LangChainInv, OwnHandler, StepOf
<1>2. \A y \in Runs : RunFacts(y)'
  BY OthersKeep DEF LangChainInv
<1> QED BY <1>1, <1>2 DEF LangChainInv

(* A record adds an event that is true, on the chain of its invocation.    *)
LEMMA RecordAdds ==
  ASSUME LangChainInv, NEW x \in Runs, NEW r \in Reports, Record(x, r),
         place[x] \in InCallbackOrBody
  PROVE  /\ trail' \in [Invocations -> SUBSET [run : Runs, report : Reports,
                                               name : Names, parent : Names \cup {Agent}]]
         /\ TrailIsTrue'
         /\ Recorded(x, r)'
         /\ \A y \in Runs, q \in Reports : Recorded(y, q) => Recorded(y, q)'
<1> DEFINE i == Invoked[x]
           ev == [run |-> x, report |-> r, name |-> Name[x], parent |-> TrueParent(x)]
<1>1. i \in Invocations /\ handlers[i] = {i} /\ Event(x, r) = ev
  <2>1. RunFacts(x) /\ i \in Invocations
    BY LangChainAssumption DEF LangChainInv
  <2>2. held[x] = [name |-> Name[x], parent |-> TrueParent(x)] /\ handlers[i] = {i}
    BY <2>1 DEF RunFacts, InCallbackOrBody
  <2> QED BY <2>1, <2>2 DEF Event
<1>2. \A j \in Invocations : trail'[j] = IF j = i THEN trail[j] \cup {ev} ELSE trail[j]
  BY <1>1 DEF Record
<1>3. ev \in [run : Runs, report : Reports, name : Names, parent : Names \cup {Agent}]
  BY DEF TrueParent, Names
<1>4. trail' \in [Invocations -> SUBSET [run : Runs, report : Reports,
                                         name : Names, parent : Names \cup {Agent}]]
  BY <1>1, <1>3 DEF LangChainInv, LangChainTypeOK, Record
<1>5. ev.run = x /\ ev.report = r /\ ev.name = Name[x] /\ ev.parent = TrueParent(x)
  OBVIOUS
<1> HIDE DEF ev
<1>6. TrailIsTrue'
  <2> SUFFICES ASSUME NEW j \in Invocations, NEW f \in trail'[j]
               PROVE  Invoked[f.run] = j /\ f.name = Name[f.run] /\ f.parent = TrueParent(f.run)
    BY DEF TrailIsTrue, TrueParent
  <2>1. CASE f \in trail[j]
    BY <2>1 DEF LangChainInv, TrailIsTrue, TrueParent
  <2>2. CASE f \notin trail[j]
    BY <2>2, <1>2, <1>5
  <2> QED BY <2>1, <2>2
<1>7. Recorded(x, r)'
  BY <1>1, <1>2, <1>5 DEF Recorded
<1>8. \A y \in Runs, q \in Reports : Recorded(y, q) => Recorded(y, q)'
  BY <1>2, LangChainAssumption DEF Recorded
<1> QED BY <1>4, <1>6, <1>7, <1>8

LEMMA NothingRecorded ==
  ASSUME LangChainInv, UNCHANGED trail
  PROVE  /\ trail' \in [Invocations -> SUBSET [run : Runs, report : Reports,
                                               name : Names, parent : Names \cup {Agent}]]
         /\ TrailIsTrue'
         /\ \A y \in Runs, q \in Reports : Recorded(y, q) => Recorded(y, q)'
BY DEF LangChainInv, LangChainTypeOK, TrailIsTrue, Recorded

-----------------------------------------------------------------------------
(* The steps of a run. *)

LEMMA StartKeeps ==
  ASSUME LangChainInv, NEW x \in Runs, Start(x)
  PROVE  LangChainInv'
<1> USE DEF Start, To, Hold
<1>1. /\ place' = [place EXCEPT ![x] = "starting"]
      /\ activeRuns' = [activeRuns EXCEPT ![x] = Name[x]]
      /\ allRuns' = [allRuns EXCEPT ![x] = Name[x]]
      /\ runParents' = [runParents EXCEPT ![x] = ResolveParent(x)]
      /\ held' = [held EXCEPT ![x] = [name |-> Name[x], parent |-> ResolveParent(x)]]
      /\ place[x] = "idle"
  OBVIOUS
<1>2. Parent[x] \in Runs => /\ Parent[x] \in ran /\ Parent[x] # x
                            /\ place[Parent[x]] \notin {"idle", "starting"}
                            /\ place[Parent[x]] \in Places
                            /\ x \in Awaited => place[Parent[x]] \notin {"ending", "done"}
  BY DEF MayStart, LangChainInv, RunFacts
<1>3. ResolveParent(x) = TrueParent(x)
  <2>1. \A p \in Runs : Name[p] # None
    BY LangChainAssumption DEF Names
  <2> QED BY <1>2, <2>1 DEF ResolveParent, TrueParent, LangChainInv, RunFacts
<1>4. TrueParent(x) \in Names \cup {Agent}
  BY DEF TrueParent, Names
<1>5. LangChainTypeOK'
  BY <1>3, <1>4 DEF LangChainInv, LangChainTypeOK, Places, Names
<1>6. StepOf(x)
  <2>1. \A y \in Runs, r \in Reports : Accounted(y, r)' = Accounted(y, r)
    BY DEF Accounted, Recorded
  <2> QED BY <2>1 DEF StepOf, LangChainInv, LangChainTypeOK
<1>7. handlers[Invoked[x]] = {Invoked[x]} /\ Rooted(x)
  <2>1. Parent[x] \in Runs => Rooted(Parent[x])
    BY <1>2 DEF LangChainInv, RunFacts
  <2>2. Parent[x] \in Runs => handlers[Invoked[x]] = {Invoked[x]}
    BY <1>2, LangChainAssumption DEF LangChainInv, RunFacts
  <2>3. Parent[x] \notin Runs => handlers[Invoked[x]] = {Invoked[x]}
    BY LangChainAssumption DEF MayStart, Began, LangChainInv, OwnHandler
  <2> QED BY <2>1, <2>2, <2>3, RootInherited
<1>8. RunFacts(x)'
  <2>1. x \notin ran' /\ x \notin refused'
    BY DEF LangChainInv, RunFacts
  <2>2. place'[x] = "starting" /\ activeRuns'[x] = Name[x] /\ allRuns'[x] = Name[x]
        /\ runParents'[x] = TrueParent(x)
        /\ held'[x] = [name |-> Name[x], parent |-> TrueParent(x)]
    BY <1>1, <1>3 DEF LangChainInv, LangChainTypeOK
  <2>3. Rooted(x)' /\ handlers'[Invoked[x]] = {Invoked[x]} /\ TrueParent(x)' = TrueParent(x)
    BY <1>7 DEF Rooted, Ancestry, Nested, TrueParent
  <2> QED BY <2>1, <2>2, <2>3 DEF RunFacts
<1>9. Waits'
  <2> SUFFICES ASSUME NEW z \in Awaited, place'[z] \in Pending
               PROVE  IF Parent[z] \in Runs THEN place'[Parent[z]] \in Awaiting
                                            ELSE phase'[Parent[z]] \notin {"returning", "returned"}
    BY DEF Waits
  <2>1. z \in Runs
    BY LangChainAssumption
  <2>2. CASE z = x
    <3>1. CASE Parent[x] \in Runs
      BY <1>1, <1>2, <2>2, <3>1 DEF Awaiting, Places, LangChainInv, LangChainTypeOK
    <3>2. CASE Parent[x] \notin Runs
      BY <2>2, <3>2 DEF MayStart
    <3> QED BY <2>2, <3>1, <3>2
  <2>3. CASE z # x
    <3>1. place[z] \in Pending
      BY <1>1, <2>1, <2>3 DEF LangChainInv, LangChainTypeOK
    <3>2. Parent[z] # x
      BY <1>1, <3>1 DEF LangChainInv, Waits, Awaiting
    <3> QED BY <1>1, <3>1, <3>2 DEF LangChainInv, Waits, LangChainTypeOK
  <2> QED BY <2>2, <2>3
<1>10. TrailIsTrue'
  BY NothingRecorded
<1> QED BY <1>5, <1>6, <1>8, <1>9, <1>10, Assembled

(* A step by which run x goes from a place to the next, with the entries   *)
(* that it pops, the report it is about and what comes of it.                   *)
Move(x, p) ==
  /\ To(x, p) /\ place[x] \in InCallbackOrBody /\ p \in Places \ {"idle", "starting"}
  /\ UNCHANGED <<phase, config, handlers>>
  /\ UNCHANGED callbackVars \/ (Pop(x) /\ place[x] = "entered")
  /\ p = "entered" => UNCHANGED callbackVars /\ place[x] = "starting"
  /\ p \in {"ending", "done"} =>
       \/ place[x] = "entered" /\ Collected(x)
       \/ place[x] = "ending"
  /\ UNCHANGED trail \/ \E r \in Reports : Record(x, r)
  /\ UNCHANGED lost \/ \E r \in Reports : lost' = lost \cup {<<x, r>>}
  /\ broken' \subseteq broken \cup Runs \cup Invocations
  /\ UNCHANGED ran \/ (ran' = ran \cup {x} /\ Accounted(x, "call")')
  /\ UNCHANGED refused \/ (refused' = refused \cup {x} /\ p = "failed")
  /\ p # "failed" => x \in ran'
  /\ p = "done" => Accounted(x, "result")'
  /\ p = "errored" => Accounted(x, "error")'

LEMMA MoveKeeps ==
  ASSUME LangChainInv, NEW x \in Runs, NEW p \in Places, Move(x, p)
  PROVE  LangChainInv'
<1> USE DEF To, Move
<1>0. /\ UNCHANGED allRuns
      /\ \/ UNCHANGED <<activeRuns, runParents, held>>
         \/ /\ place[x] = "entered"
            /\ activeRuns' = [activeRuns EXCEPT ![x] = None]
            /\ runParents' = [runParents EXCEPT ![x] = None]
            /\ held' = [held EXCEPT ![x] = [name |-> activeRuns[x], parent |-> runParents[x]]]
      /\ p = "entered" => UNCHANGED <<activeRuns, runParents>>
  BY DEF Pop, Hold, callbackVars
<1>1. /\ trail' \in [Invocations -> SUBSET [run : Runs, report : Reports,
                                            name : Names, parent : Names \cup {Agent}]]
      /\ TrailIsTrue'
      /\ \A y \in Runs, q \in Reports : Recorded(y, q) => Recorded(y, q)'
  BY RecordAdds, NothingRecorded
<1>2. \A y \in Runs, q \in Reports : Accounted(y, q) => Accounted(y, q)'
  BY <1>1 DEF Accounted
<1>3. LangChainTypeOK'
  <2> HIDE DEF Move
  <2>1. /\ activeRuns' \in [Runs -> Names \cup {None}]
        /\ runParents' \in [Runs -> Names \cup {Agent, None}]
        /\ held' \in [Runs -> [name : Names \cup {None}, parent : Names \cup {Agent, None}]]
    <3>1. /\ activeRuns \in [Runs -> Names \cup {None}]
          /\ runParents \in [Runs -> Names \cup {Agent, None}]
          /\ held \in [Runs -> [name : Names \cup {None}, parent : Names \cup {Agent, None}]]
      BY DEF LangChainInv, LangChainTypeOK
    <3>2. activeRuns[x] \in Names \cup {None} /\ runParents[x] \in Names \cup {Agent, None}
      BY <3>1
    <3> DEFINE popped == [name |-> activeRuns[x], parent |-> runParents[x]]
    <3>3. popped \in [name : Names \cup {None}, parent : Names \cup {Agent, None}]
      BY <3>2
    <3>4. held' = held \/ held' = [held EXCEPT ![x] = popped]
      BY <1>0
    <3> HIDE DEF popped
    <3>5. held' \in [Runs -> [name : Names \cup {None}, parent : Names \cup {Agent, None}]]
      BY <3>1, <3>3, <3>4
    <3> QED BY <1>0, <3>1, <3>5
  <2>2. /\ UNCHANGED <<phase, config, handlers, allRuns>>
        /\ place' \in [Runs -> Places]
        /\ ran' \subseteq Runs /\ refused' \subseteq Runs
        /\ broken' \subseteq Runs \cup Invocations
    BY <1>0 DEF Move, LangChainInv, LangChainTypeOK
  <2>3. lost' \subseteq Runs \X Reports
    <3>1. lost \subseteq Runs \X Reports
      BY DEF LangChainInv, LangChainTypeOK
    <3>2. UNCHANGED lost \/ \E r \in Reports : lost' = lost \cup {<<x, r>>}
      BY DEF Move
    <3> QED BY <3>1, <3>2
  <2> QED BY <1>1, <2>1, <2>2, <2>3 DEF LangChainInv, LangChainTypeOK
<1>4. StepOf(x)
  BY <1>0, <1>2 DEF StepOf, LangChainInv, LangChainTypeOK
<1>5. place'[x] = p
  BY DEF LangChainInv, LangChainTypeOK
<1>6. RunFacts(x)'
  <2>1. Rooted(x)' /\ handlers'[Invoked[x]] = {Invoked[x]} /\ allRuns'[x] = Name[x]
    <3>1. Rooted(x) /\ handlers[Invoked[x]] = {Invoked[x]} /\ allRuns[x] = Name[x]
      BY DEF LangChainInv, RunFacts, InCallbackOrBody
    <3> QED BY <1>0, <3>1 DEF Rooted, Ancestry, Nested
  <2>2. /\ p = "entered" => activeRuns'[x] = Name[x] /\ runParents'[x] = TrueParent(x)
        /\ held'[x] = [name |-> Name[x], parent |-> TrueParent(x)]
        /\ TrueParent(x)' = TrueParent(x)
    <3>1. /\ place[x] \in {"starting", "entered"} =>
               activeRuns[x] = Name[x] /\ runParents[x] = TrueParent(x)
          /\ held[x] = [name |-> Name[x], parent |-> TrueParent(x)]
      BY DEF LangChainInv, RunFacts
    <3>2. TrueParent(x)' = TrueParent(x)
      BY DEF TrueParent
    <3> QED BY <1>0, <3>1, <3>2 DEF LangChainInv, LangChainTypeOK
  <2>3. x \in refused' => p = "failed"
    BY DEF LangChainInv, RunFacts, InCallbackOrBody
  <2>4. x \in ran' => Accounted(x, "call")'
    BY <1>2 DEF LangChainInv, RunFacts, Reports
  <2> QED BY <1>5, <2>1, <2>2, <2>3, <2>4 DEF RunFacts
<1>7. Waits'
  <2>1. p \in Awaiting \/ \A y \in AwaitedBy(x) : place[y] \notin Pending
    <3>1. CASE p \in {"ending", "done"} /\ place[x] = "entered"
      BY <3>1 DEF Collected, Pending
    <3>2. CASE p \in {"ending", "done"} /\ place[x] # "entered"
      <4>1. place[x] \notin Awaiting
        BY <3>2 DEF Awaiting
      <4> QED BY <4>1 DEF LangChainInv, Waits, AwaitedBy
    <3>3. CASE p \notin {"ending", "done"}
      BY <3>3 DEF Awaiting, Places
    <3> QED BY <3>1, <3>2, <3>3
  <2>2. place[x] \in Pending
    BY DEF Pending, InCallbackOrBody
  <2> QED BY <1>4, <1>5, <2>1, <2>2, MoveWaits
<1> QED BY <1>1, <1>3, <1>4, <1>6, <1>7, Assembled

LEMMA BreakKnown ==
  ASSUME NEW x \in Runs, Break(x) \/ UNCHANGED broken
  PROVE  broken' \subseteq broken \cup Runs \cup Invocations
BY LangChainAssumption DEF Break

LEMMA EnterKeeps ==
  ASSUME LangChainInv, NEW x \in Runs, StartPermitted(x) \/ StartLost(x)
  PROVE  LangChainInv'
<1>1. place[x] = "starting" /\ To(x, "entered") /\ ran' = ran \cup {x}
  BY DEF StartPermitted, StartLost, Enter
<1>2. Accounted(x, "call")'
  <2>1. CASE StartPermitted(x)
    BY <1>1, <2>1, RecordAdds DEF StartPermitted, Accounted, InCallbackOrBody, Reports
  <2>2. CASE StartLost(x)
    BY <2>2 DEF StartLost, Accounted
  <2> QED BY <2>1, <2>2
<1>3. UNCHANGED <<phase, config, handlers, callbackVars, broken, refused>>
  BY DEF StartPermitted, StartLost
<1>4. /\ UNCHANGED trail \/ \E r \in Reports : Record(x, r)
      /\ UNCHANGED lost \/ \E r \in Reports : lost' = lost \cup {<<x, r>>}
  BY DEF StartPermitted, StartLost, Reports
<1>5. broken' \subseteq broken \cup Runs \cup Invocations /\ x \in ran'
  BY <1>1, <1>3
<1>6. "entered" \in Places /\ place[x] \in InCallbackOrBody
  BY <1>1 DEF Places, InCallbackOrBody
<1>7. Move(x, "entered")
  BY <1>1, <1>2, <1>3, <1>4, <1>5, <1>6 DEF Move
<1> QED BY <1>6, <1>7, MoveKeeps

(* Every way to fail. *)
LEMMA FailKeeps ==
  ASSUME LangChainInv, NEW x \in Runs,
         \/ StartRefused(x) \/ BodyBreaks(x) \/ EndRefused(x) \/ ErrorRefused(x) \/ Abandon(x)
  PROVE  LangChainInv'
<1>1. place[x] \in InCallbackOrBody /\ To(x, "failed")
  BY DEF StartRefused, BodyBreaks, EndRefused, ErrorRefused, Abandon, InCallbackOrBody
<1>2. Break(x) \/ UNCHANGED broken
  BY DEF StartRefused, BodyBreaks, EndRefused, ErrorRefused, Abandon
<1>3. /\ UNCHANGED <<phase, config, handlers, callbackVars, trail, lost, ran>>
      /\ UNCHANGED refused \/ refused' = refused \cup {x}
  BY DEF StartRefused, BodyBreaks, EndRefused, ErrorRefused, Abandon
<1>4. Move(x, "failed")
  BY <1>1, <1>2, <1>3, BreakKnown DEF Move, Places, InCallbackOrBody
<1>5. "failed" \in Places
  BY DEF Places
<1> QED BY <1>4, <1>5, MoveKeeps

LEMMA BodyKeeps ==
  ASSUME LangChainInv, NEW x \in Runs, BodyReturns(x) \/ BodyRaises(x)
  PROVE  LangChainInv'
<1>1. PICK p \in {"ending", "erroring"} : To(x, p) /\ (p = "ending" => Collected(x))
  BY DEF BodyReturns, BodyRaises
<1>2. /\ place[x] = "entered" /\ Pop(x)
      /\ UNCHANGED <<phase, config, handlers, trail, broken, ran, refused, lost>>
  BY DEF BodyReturns, BodyRaises
<1>3. x \in ran
  BY <1>2 DEF LangChainInv, RunFacts
<1>4. p \in Places /\ place[x] \in InCallbackOrBody
  BY <1>2 DEF Places, InCallbackOrBody
<1>5. broken' \subseteq broken \cup Runs \cup Invocations /\ x \in ran'
  BY <1>2, <1>3
<1>6. Move(x, p)
  BY <1>1, <1>2, <1>4, <1>5 DEF Move
<1> QED BY <1>4, <1>6, MoveKeeps

(* The report of r is made or lost, at the end of run x. *)
LEMMA Reported ==
  ASSUME LangChainInv, NEW x \in Runs, NEW r \in Reports, place[x] \in InCallbackOrBody,
         \/ Record(x, r) /\ UNCHANGED lost
         \/ lost' = lost \cup {<<x, r>>} /\ UNCHANGED trail
  PROVE  Accounted(x, r)'
BY RecordAdds DEF Accounted

LEMMA EndKeeps ==
  ASSUME LangChainInv, NEW x \in Runs, EndPermitted(x) \/ EndLost(x)
  PROVE  LangChainInv'
<1>1. place[x] = "ending" /\ To(x, "done")
  BY DEF EndPermitted, EndLost
<1>2. \/ Record(x, "result") /\ UNCHANGED lost
      \/ lost' = lost \cup {<<x, "result">>} /\ UNCHANGED trail
  BY DEF EndPermitted, EndLost
<1>3. UNCHANGED <<phase, config, handlers, callbackVars, broken, ran, refused>>
  BY DEF EndPermitted, EndLost
<1>4. x \in ran /\ Accounted(x, "result")'
  BY <1>1, <1>2, Reported DEF LangChainInv, RunFacts, InCallbackOrBody, Reports
<1>5. "done" \in Places /\ place[x] \in InCallbackOrBody
  BY <1>1 DEF Places, InCallbackOrBody
<1>6. /\ UNCHANGED trail \/ \E r \in Reports : Record(x, r)
      /\ UNCHANGED lost \/ \E r \in Reports : lost' = lost \cup {<<x, r>>}
  BY <1>2 DEF Reports
<1>7. broken' \subseteq broken \cup Runs \cup Invocations /\ x \in ran'
  BY <1>3, <1>4
<1>8. Move(x, "done")
  BY <1>1, <1>3, <1>4, <1>5, <1>6, <1>7 DEF Move
<1> QED BY <1>5, <1>8, MoveKeeps

LEMMA ErrorKeeps ==
  ASSUME LangChainInv, NEW x \in Runs, ErrorPermitted(x) \/ ErrorLost(x)
  PROVE  LangChainInv'
<1>1. place[x] = "erroring" /\ Errored(x)
  BY DEF ErrorPermitted, ErrorLost
<1>2. \/ Record(x, "error") /\ UNCHANGED lost
      \/ lost' = lost \cup {<<x, "error">>} /\ UNCHANGED trail
  BY DEF ErrorPermitted, ErrorLost
<1>3. UNCHANGED <<phase, config, handlers, callbackVars, ran, refused>>
  BY DEF ErrorPermitted, ErrorLost
<1>4. x \in ran /\ Accounted(x, "error")'
  BY <1>1, <1>2, Reported DEF LangChainInv, RunFacts, InCallbackOrBody, Reports
<1>5. PICK p \in {"failed", "errored"} : To(x, p)
  BY <1>1 DEF Errored
<1>6. broken' \subseteq broken \cup Runs \cup Invocations
  BY <1>1, BreakKnown DEF Errored
<1>7. p \in Places /\ place[x] \in InCallbackOrBody
  BY <1>1 DEF Places, InCallbackOrBody
<1>8. /\ UNCHANGED trail \/ \E r \in Reports : Record(x, r)
      /\ UNCHANGED lost \/ \E r \in Reports : lost' = lost \cup {<<x, r>>}
  BY <1>2 DEF Reports
<1>9. x \in ran'
  BY <1>3, <1>4
<1>10. Move(x, p)
  BY <1>1, <1>3, <1>4, <1>5, <1>6, <1>7, <1>8, <1>9 DEF Move
<1> QED BY <1>7, <1>10, MoveKeeps

-----------------------------------------------------------------------------
(* The steps of an invocation leave its runs alone. *)
LEMMA InvocationKeeps ==
  ASSUME LangChainInv, NEW i \in Invocations,
         Begin(i) \/ BeginFails(i) \/ Raises(i) \/ Returns(i) \/ Breaks(i) \/ Leave(i)
  PROVE  LangChainInv'
<1> DEFINE old == <<place, callbackVars, trail, broken, ran, refused, lost>>
<1>1. UNCHANGED old
  BY DEF Begin, BeginFails, Raises, Returns, Breaks, Leave
<1>2. /\ handlers' = handlers \/ handlers' = [handlers EXCEPT ![i] = {i}]
      /\ config' = config
  BY DEF Begin, Merge, BeginFails, Raises, Returns, Breaks, Leave, LangChainInv, OwnHandler
<1>3. OwnHandler' /\ handlers' \in [Invocations -> SUBSET Invocations]
  <2>1. handlers \in [Invocations -> SUBSET Invocations] /\ OwnHandler
    BY DEF LangChainInv, LangChainTypeOK
  <2> QED BY <1>2, <2>1 DEF OwnHandler
<1>4. PICK q \in Phases : phase' = [phase EXCEPT ![i] = q]
  BY DEF Begin, BeginFails, Raises, Returns, Breaks, Leave, Phases
<1>5. LangChainTypeOK'
  BY <1>1, <1>2, <1>3, <1>4 DEF LangChainInv, LangChainTypeOK, callbackVars
<1>6. ASSUME NEW x \in Runs PROVE RunFacts(x)'
  <2>1. handlers[Invoked[x]] = {Invoked[x]} => handlers'[Invoked[x]] = {Invoked[x]}
    BY <1>2, LangChainAssumption DEF LangChainInv, LangChainTypeOK
  <2>2. \A r \in Reports : Accounted(x, r)' = Accounted(x, r)
    BY <1>1 DEF Accounted, Recorded
  <2>3. Rooted(x)' = Rooted(x) /\ TrueParent(x)' = TrueParent(x)
    BY DEF Rooted, Ancestry, Nested, TrueParent
  <2> QED BY <1>1, <2>1, <2>2, <2>3 DEF LangChainInv, RunFacts, callbackVars, Reports
<1>7. Waits'
  <2> SUFFICES ASSUME NEW z \in Awaited, place[z] \in Pending, Parent[z] \notin Runs
               PROVE  phase'[Parent[z]] \notin {"returning", "returned"}
    BY <1>1 DEF Waits, LangChainInv
  <2>1. Parent[z] \in Invocations /\ z \in Runs
    BY LangChainAssumption
  <2>2. phase[Parent[z]] \notin {"returning", "returned"}
    BY DEF LangChainInv, Waits
  <2>3. Parent[z] = i => ~Returns(i)
    BY <2>1 DEF Returns, Collected, AwaitedBy, Pending
  <2> QED BY <2>1, <2>2, <2>3 DEF Begin, BeginFails, Raises, Breaks, Leave, Returns, LangChainInv,
                                  LangChainTypeOK
<1>8. TrailIsTrue'
  BY <1>1, NothingRecorded
<1> QED BY <1>3, <1>5, <1>6, <1>7, <1>8 DEF LangChainInv

LEMMA LangChainStep == LangChainInv /\ [Next]_langChainVars => LangChainInv'
<1> SUFFICES ASSUME LangChainInv, [Next]_langChainVars PROVE LangChainInv'
  OBVIOUS
<1>1. ASSUME NEW i \in Invocations,
             Begin(i) \/ BeginFails(i) \/ Raises(i) \/ Returns(i) \/ Breaks(i) \/ Leave(i)
      PROVE  LangChainInv'
  BY <1>1, InvocationKeeps
<1>2. ASSUME NEW x \in Runs, Start(x) PROVE LangChainInv'
  BY <1>2, StartKeeps
<1>3. ASSUME NEW x \in Runs, BodyReturns(x) \/ BodyRaises(x) PROVE LangChainInv'
  BY <1>3, BodyKeeps
<1>4. ASSUME NEW x \in Runs, BodyBreaks(x) \/ Abandon(x) PROVE LangChainInv'
  BY <1>4, FailKeeps
<1>5. ASSUME NEW x \in Runs, CallbackStep(x) PROVE LangChainInv'
  BY <1>5, EnterKeeps, EndKeeps, ErrorKeeps, FailKeeps DEF CallbackStep
<1>6. CASE UNCHANGED langChainVars
  <2>1. \A x \in Runs : RunFacts(x)' = RunFacts(x)
    BY <1>6 DEF RunFacts, Accounted, Recorded, Rooted, Ancestry, Nested, TrueParent,
                langChainVars, callbackVars
  <2> QED BY <1>6, <2>1 DEF LangChainInv, LangChainTypeOK, OwnHandler, Waits, TrailIsTrue, langChainVars, callbackVars
<1> QED BY <1>1, <1>2, <1>3, <1>4, <1>5, <1>6 DEF Next

LEMMA LangChainInvariant == Spec => []LangChainInv
BY InitLangChain, LangChainStep, PTL DEF Spec

-----------------------------------------------------------------------------
(* Every variable keeps its type; what a chain records is a run's event.   *)
THEOREM LangChainTypeCorrect == Spec => []LangChainTypeOK
<1>1. LangChainInv => LangChainTypeOK
  BY DEF LangChainInv
<1> QED BY <1>1, LangChainInvariant, PTL

(* No body executes before its own record was permitted or lost.           *)
THEOREM GatedBodies == Spec => []BodiesAreGated
<1>1. LangChainInv => BodiesAreGated
  BY DEF LangChainInv, LangChainTypeOK, RunFacts, BodiesAreGated
<1> QED BY <1>1, LangChainInvariant, PTL

(* A chain's trail tells of its own invocation, and events name their run  *)
(* and the run that started it, which may be over.                         *)
THEOREM TrueTrail == Spec => []TrailIsTrue
<1>1. LangChainInv => TrailIsTrue
  BY DEF LangChainInv
<1> QED BY <1>1, LangChainInvariant, PTL

(* A refusal at whatever depth never ends in a normal return of ainvoke.   *)
THEOREM SurfacingRefusals == Spec => []RefusalSurfaces
<1>1. LangChainInv => RefusalSurfaces
  <2> SUFFICES ASSUME LangChainInv, NEW x \in refused, Attended(x)
               PROVE  phase[Invoked[x]] # "returned"
    BY DEF RefusalSurfaces
  <2>1. x \in Runs /\ place[x] = "failed"
    BY DEF LangChainInv, LangChainTypeOK, RunFacts
  <2> QED BY <2>1, PendingHolds DEF Pending
<1> QED BY <1>1, LangChainInvariant, PTL

(* An invocation that returns has reported how every attended run ended.   *)
THEOREM ReportedEnds == Spec => []EndsAreReported
<1>1. LangChainInv => EndsAreReported
  <2> SUFFICES ASSUME LangChainInv, NEW x \in ran, phase[Invoked[x]] = "returned", Attended(x)
               PROVE  \/ place[x] = "done" /\ Accounted(x, "result")
                      \/ place[x] = "errored" /\ Accounted(x, "error")
    BY DEF EndsAreReported
  <2>1. x \in Runs /\ place[x] \notin Pending
    BY PendingHolds DEF LangChainInv, LangChainTypeOK
  <2>2. place[x] \in {"done", "errored"}
    BY <2>1 DEF LangChainInv, RunFacts, Places, Pending
  <2> QED BY <2>1, <2>2 DEF LangChainInv, RunFacts
<1> QED BY <1>1, LangChainInvariant, PTL

=============================================================================
