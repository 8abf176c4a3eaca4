------------------------- MODULE PolicyEngineProofs -------------------------
(* Theorems about PolicyEngine, for any actions, settings and limits.      *)
EXTENDS PolicyEngine, FiniteSetTheorems, WellFoundedInduction, TLAPS

(***************************************************************************)
(* The pipeline, for one call.                                             *)
(***************************************************************************)

LEMMA PlusType ==
  /\ \A n, k \in Numbers : Plus(n, k) \in Numbers
  /\ \A n, k \in Int : Plus(n, k) = n + k
  /\ \A n \in Numbers : Plus(n, 0) = n
BY PolicyAssumption DEF Plus, Numbers

LEMMA AmountType ==
  ASSUME NEW x, IsAction(x)
  PROVE  Amount(x) \in Numbers
BY DEF Amount, IsAction, Numbers

LEMMA EvaluateType == \A x, m : Evaluate(x, m) \in Decision
BY DEF Evaluate, Decision

LEMMA ProcessType ==
  ASSUME NEW x, NEW m, NEW s \in Settings
  PROVE  Process(m, x, s) \in Results
<1>1. Evaluate(x, Update(m, x)) \in Decision
  BY EvaluateType
<1>2. AfterException(AfterBudget(Evaluate(x, Update(m, x)), s), s) \in Decision
  BY <1>1 DEF AfterBudget, AfterException, Decision
<1> QED BY <1>1, <1>2 DEF Process, Result, Results, Modes, Decision

(* An enforced call is denied exactly when a hard deny applies, and sent   *)
(* to a reviewer exactly when a review or the budget asks for it and no    *)
(* exception lifts it.                                                     *)
LEMMA EnforcedProcess ==
  ASSUME NEW x, NEW m, NEW s, ~s.kill, Mode(s) = "enforce"
  PROVE  LET d == Process(m, x, s).decision
             after == Update(m, x)
         IN  /\ d = "deny" <=> HardDeny(x, after)
             /\ ~HardDeny(x, after) /\ ~s.exception =>
                  (d = "require_approval" <=> s.budget \/ NeedsReview(x, after))
<1> DEFINE after == Update(m, x)
           raw == Evaluate(x, after)
<1>1. Process(m, x, s).decision = AfterException(AfterBudget(raw, s), s)
  BY DEF Process, Result
<1>2. /\ raw = "deny" <=> HardDeny(x, after)
      /\ ~HardDeny(x, after) => (raw = "require_approval" <=> NeedsReview(x, after))
      /\ raw \in Decision
  BY EvaluateType DEF Evaluate
<1> HIDE DEF raw
<1> QED BY <1>1, <1>2 DEF AfterBudget, AfterException, Decision

LEMMA BypassedProcess ==
  ASSUME NEW x, NEW m, NEW s \in SettingType
  PROVE  /\ s.kill => Process(m, x, s).decision = "deny" /\ Process(m, x, s).kill
         /\ ~s.kill /\ Mode(s) # "enforce" => Process(m, x, s).decision = "allow"
BY DEF Process, Result, Mode, SettingType, Modes

-----------------------------------------------------------------------------
(***************************************************************************)
(* The chain of calls.                                                     *)
(***************************************************************************)

RecordsOK == metrics \in Metrics /\ history \in Seq(CallRecords)

(* Every call was decided by the pipeline. *)
Explained ==
  \A i \in Calls :
    history[i].result = Process(history[i].before, history[i].action, history[i].setting)

LEMMA CallTypes ==
  ASSUME RecordsOK, NEW i \in Calls
  PROVE  /\ i \in 1 .. Len(history)
         /\ history[i].action \in Submissions
         /\ history[i].setting \in SettingType
         /\ history[i].before \in Metrics
         /\ history[i].before.exposure \in Numbers
<1>1. i \in 1 .. Len(history) /\ history[i] \in CallRecords
  BY DEF RecordsOK, Calls
<1>2. /\ history[i].action \in Submissions
      /\ history[i].setting \in Settings
      /\ history[i].before \in Metrics
  BY <1>1 DEF CallRecords
<1>3. history[i].before.exposure \in Numbers
  BY <1>2 DEF Metrics
<1> QED BY <1>1, <1>2, <1>3, PolicyAssumption

LEMMA UpdateType ==
  ASSUME NEW m \in Metrics, NEW x \in Submissions
  PROVE  /\ Update(m, x) \in Metrics
         /\ Update(m, x).exposure = Plus(m.exposure, Amount(x))
<1>1. Amount(x) \in Numbers
  <2>1. IsAction(x)
    BY PolicyAssumption
  <2> QED BY <2>1, AmountType
<1>2. \A c : One(x, c) \in Nat
  BY DEF One
<1>3. m.exposure \in Numbers
  BY DEF Metrics
<1>4. Plus(m.exposure, Amount(x)) \in Numbers
  BY <1>1, <1>3, PlusType
<1>5. m.domains \cup ({x.domain} \ {NoDomain}) \in SUBSET {y.domain : y \in Submissions}
  BY DEF Metrics
<1> HIDE DEF Metrics
<1>6. /\ m.communications + One(x, "communication") \in Nat
      /\ m.modified + One(x, "write") \in Nat
      /\ m.privileged + One(x, "privilege_escalation") \in Nat
  BY <1>2 DEF Metrics
<1> QED BY <1>4, <1>5, <1>6 DEF Update, Metrics

LEMMA RecordsStep == RecordsOK /\ [Next]_policyVars => RecordsOK'
<1> SUFFICES ASSUME RecordsOK, [Next]_policyVars PROVE RecordsOK'
  OBVIOUS
<1>1. CASE UNCHANGED policyVars
  BY <1>1 DEF policyVars, RecordsOK
<1>2. ASSUME NEW x \in Submissions, NEW s \in Settings, Submit(x, s) PROVE RecordsOK'
  <2>1. metrics' \in Metrics
    BY <1>2, UpdateType DEF Submit, NewMetrics, RecordsOK
  <2>2. Process(metrics, x, s) \in Results
    BY ProcessType
  <2>3. [action |-> x, setting |-> s, before |-> metrics, result |-> Process(metrics, x, s)]
          \in CallRecords
    BY <2>2 DEF CallRecords, RecordsOK
  <2> QED BY <1>2, <2>1, <2>3 DEF Submit, RecordsOK
<1> QED BY <1>1, <1>2 DEF Next

(* A step leaves the earlier calls as they are. *)
LEMMA SubmitAppends ==
  ASSUME RecordsOK, NEW x \in Submissions, NEW s \in Settings, Submit(x, s)
  PROVE  /\ Calls' = Calls \cup {Len(history) + 1}
         /\ \A i \in Calls : history'[i] = history[i]
         /\ history'[Len(history) + 1] =
              [action |-> x, setting |-> s, before |-> metrics, result |-> Process(metrics, x, s)]
BY DEF Submit, RecordsOK, Calls

LEMMA ExplainedStep == RecordsOK /\ Explained /\ [Next]_policyVars => Explained'
<1> SUFFICES ASSUME RecordsOK, Explained, [Next]_policyVars PROVE Explained'
  OBVIOUS
<1>1. CASE UNCHANGED policyVars
  BY <1>1 DEF policyVars, Explained, Calls
<1>2. ASSUME NEW x \in Submissions, NEW s \in Settings, Submit(x, s) PROVE Explained'
  <2>1. /\ Calls' = Calls \cup {Len(history) + 1}
        /\ \A i \in Calls : history'[i] = history[i]
        /\ history'[Len(history) + 1] =
             [action |-> x, setting |-> s, before |-> metrics, result |-> Process(metrics, x, s)]
    BY <1>2, SubmitAppends
  <2>2. \A i \in Calls : history'[i].result =
          Process(history'[i].before, history'[i].action, history'[i].setting)
    BY <2>1 DEF Explained
  <2> DEFINE n == Len(history) + 1
  <2>3. history'[n].result = Process(history'[n].before, history'[n].action, history'[n].setting)
    BY <2>1
  <2> QED BY <2>1, <2>2, <2>3 DEF Explained
<1> QED BY <1>1, <1>2 DEF Next

LEMMA InitRecords == Init => RecordsOK /\ Explained
BY DEF Init, RecordsOK, Explained, Calls, EmptyMetrics, Metrics, Numbers

(* The gates apply in their order, for every payload, every history and    *)
(* every configuration: kill switch, mode, hard denies, budget, exception. *)
THEOREM GatesInOrder == Spec => []GateOrder
<1>1. RecordsOK /\ Explained => GateOrder
  <2> SUFFICES ASSUME RecordsOK, Explained, NEW i \in Calls
               PROVE  LET h == history[i]
                          after == Update(h.before, h.action)
                      IN  /\ h.setting.kill => Verdict(i) = "deny" /\ h.result.kill
                          /\ ~h.setting.kill /\ ~Enforced(i) => Verdict(i) = "allow"
                          /\ Enforced(i) /\ HardDeny(h.action, after) => Verdict(i) = "deny"
                          /\ Enforced(i) /\ Verdict(i) = "deny" => HardDeny(h.action, after)
                          /\ Enforced(i) /\ ~h.setting.exception /\ ~HardDeny(h.action, after) =>
                               (Verdict(i) = "require_approval"
                                  <=> h.setting.budget \/ NeedsReview(h.action, after))
    BY DEF GateOrder
  <2>1. history[i].setting \in SettingType
    BY CallTypes
  <2>2. history[i].result = Process(history[i].before, history[i].action, history[i].setting)
    BY DEF Explained
  <2> QED BY <2>1, <2>2, EnforcedProcess, BypassedProcess DEF Verdict, Enforced
<1> QED BY <1>1, InitRecords, RecordsStep, ExplainedStep, PTL DEF Spec

-----------------------------------------------------------------------------
(* Where no amount so far was negative or NaN, the exposure is a number    *)
(* and has not decreased.                                                  *)
Growing ==
  /\ metrics.exposure \in Int
  /\ \A i \in Calls : history[i].before.exposure \in Int
  /\ \A i \in Calls : history[i].before.exposure <= metrics.exposure
  /\ \A i, j \in Calls : j <= i => history[j].before.exposure <= history[i].before.exposure

LEMMA GrowingStep ==
  ASSUME RecordsOK, AmountsCount => Growing, [Next]_policyVars
  PROVE  AmountsCount' => Growing'
<1>1. CASE UNCHANGED policyVars
  BY <1>1 DEF policyVars, Growing, AmountsCount, Counted, Calls
<1>2. ASSUME NEW x \in Submissions, NEW s \in Settings, Submit(x, s), AmountsCount'
      PROVE  Growing'
  <2>1. /\ Calls' = Calls \cup {Len(history) + 1}
        /\ \A i \in Calls : history'[i] = history[i]
        /\ history'[Len(history) + 1] =
             [action |-> x, setting |-> s, before |-> metrics, result |-> Process(metrics, x, s)]
    BY <1>2, SubmitAppends
  <2>2. AmountsCount
    BY <1>2, <2>1 DEF AmountsCount, Counted
  <2>3. Growing
    BY <2>2
  <2>4. Bypassed(s) \/ Amount(x) \in Nat
    <3> DEFINE n == Len(history) + 1
    <3>1. n \in Calls' /\ history'[n].action = x /\ history'[n].setting = s
      BY <2>1
    <3> HIDE DEF n
    <3> QED BY <1>2, <3>1 DEF AmountsCount, Counted
  <2>5. metrics'.exposure \in Int /\ metrics.exposure <= metrics'.exposure
    <3>1. CASE Bypassed(s)
      BY <1>2, <2>3, <3>1 DEF Submit, NewMetrics, Growing
    <3>2. CASE ~Bypassed(s)
      <4>1. metrics'.exposure = Plus(metrics.exposure, Amount(x))
        BY <1>2, <3>2, UpdateType DEF Submit, NewMetrics, RecordsOK
      <4>2. metrics.exposure \in Int /\ Amount(x) \in Nat
        BY <2>3, <2>4, <3>2 DEF Growing
      <4>3. Plus(metrics.exposure, Amount(x)) = metrics.exposure + Amount(x)
        BY <4>2, PlusType
      <4> QED BY <4>1, <4>2, <4>3
    <3> QED BY <3>1, <3>2
  <2>6. /\ \A i \in Calls : history'[i].before.exposure = history[i].before.exposure
        /\ history'[Len(history) + 1].before.exposure = metrics.exposure
    BY <2>1
  <2>7. Len(history) \in Nat /\ \A i \in Calls : i \in 1 .. Len(history)
    BY CallTypes DEF RecordsOK
  <2>8. metrics.exposure \in Int /\ \A i \in Calls : history[i].before.exposure \in Int
    BY <2>3 DEF Growing
  <2>9. /\ \A i \in Calls' : history'[i].before.exposure \in Int
        /\ \A i \in Calls' : history'[i].before.exposure <= metrics'.exposure
    BY <2>1, <2>3, <2>5, <2>6, <2>8 DEF Growing
  <2>10. \A i, j \in Calls' : j <= i => history'[j].before.exposure <= history'[i].before.exposure
    <3> SUFFICES ASSUME NEW i \in Calls', NEW j \in Calls', j <= i
                 PROVE  history'[j].before.exposure <= history'[i].before.exposure
      OBVIOUS
    <3>1. CASE i \in Calls
      BY <2>1, <2>3, <2>6, <2>7, <3>1 DEF Growing
    <3>2. CASE i = Len(history) + 1
      <4>1. history'[i].before.exposure = metrics.exposure
        BY <3>2, <2>6
      <4>2. CASE j \in Calls
        BY <4>1, <4>2, <2>3, <2>6 DEF Growing
      <4>3. CASE j = Len(history) + 1
        BY <4>1, <4>3, <2>6, <2>8
      <4> QED BY <4>2, <4>3, <2>1
    <3> QED BY <3>1, <3>2, <2>1
  <2> QED BY <2>5, <2>9, <2>10 DEF Growing
<1> QED BY <1>1, <1>2 DEF Next

(* Once a chain's exposure has passed the hard limit, every later enforced *)
(* action is denied, whatever it is and whatever exception it carries,     *)
(* for as long as no amount was negative or NaN.                           *)
THEOREM HardLimitIsFinal == Spec => []LimitIsFinal
<1>1. Init => Growing
  BY DEF Init, Growing, Calls, EmptyMetrics
<1>2. RecordsOK /\ (AmountsCount => Growing) /\ [Next]_policyVars => (AmountsCount' => Growing')
  BY GrowingStep
<1>3. RecordsOK /\ Explained /\ (AmountsCount => Growing) => LimitIsFinal
  <2> SUFFICES ASSUME RecordsOK, Explained, Growing, AmountsCount,
                      NEW i \in Calls, NEW j \in Calls, j <= i,
                      Above(history[j].before.exposure, HardLimit), Enforced(i)
               PROVE  Verdict(i) = "deny"
    BY DEF LimitIsFinal
  <2> DEFINE h == history[i]
  <2>1. /\ h.before \in Metrics /\ h.action \in Submissions /\ h.setting \in SettingType
        /\ history[j].before.exposure \in Int /\ h.before.exposure \in Int
    BY CallTypes DEF Growing
  <2>2. h.before.exposure > HardLimit
    BY <2>1 DEF Growing, HardLimit, Above
  <2>3. Amount(h.action) \in Nat
    BY <2>1 DEF AmountsCount, Counted, Enforced, Bypassed, Mode
  <2>4. Above(Update(h.before, h.action).exposure, HardLimit)
    <3>1. Update(h.before, h.action).exposure = Plus(h.before.exposure, Amount(h.action))
      BY <2>1, UpdateType
    <3>2. Plus(h.before.exposure, Amount(h.action)) = h.before.exposure + Amount(h.action)
      <4>1. Amount(h.action) \in Int
        BY <2>3
      <4> QED BY <2>1, <4>1, PlusType
    <3>3. NaN \notin Int
      BY PolicyAssumption
    <3> HIDE DEF h
    <3> QED BY <2>1, <2>2, <2>3, <3>1, <3>2, <3>3 DEF HardLimit, Above
  <2>5. HardDeny(h.action, Update(h.before, h.action))
    BY <2>4 DEF HardDeny
  <2>6. h.result = Process(h.before, h.action, h.setting)
    BY DEF Explained
  <2> QED BY <2>1, <2>5, <2>6, EnforcedProcess DEF Verdict, Enforced
<1> QED BY <1>1, <1>2, <1>3, InitRecords, RecordsStep, ExplainedStep, PTL DEF Spec

-----------------------------------------------------------------------------
(***************************************************************************)
(* The risk score.                                                         *)
(***************************************************************************)

LEMMA PointsType ==
  ASSUME NEW x
  PROVE  \A c \in DOMAIN Weight : Points(x, c) \in Nat
BY DEF Points, Weight

LEMMA ScoreType == \A x : Score(x) \in Nat /\ RiskScore(x) \in 0 .. 100
<1>. TAKE x
<1>1. Score(x) \in Nat
  BY PointsType DEF Score, Weight
<1>2. ASSUME NEW n \in Nat PROVE Min({100, n}) = IF n < 100 THEN n ELSE 100
  BY DEF Min
<1>. QED
  BY <1>1, <1>2 DEF RiskScore

(* Every variable keeps its type, the recorded calls and their results     *)
(* too, and the score of every action lies between 0 and 100.              *)
THEOREM PolicyTypeCorrect == Spec => []PolicyTypeOK
<1>1. RecordsOK => PolicyTypeOK
  BY ScoreType DEF RecordsOK, PolicyTypeOK
<1>. QED
  BY <1>1, InitRecords, RecordsStep, PTL DEF Spec

(* What makes one action at most as risky as another. *)
NoRiskier(y, x) ==
  /\ y.traits \subseteq x.traits
  /\ y.domain = x.domain \/ y.domain = NoDomain
  /\ Amount(y) \in Numbers /\ Amount(x) \in Numbers
  /\ Amount(y) = Amount(x) \/ (Amount(y) \in Int /\ Amount(x) \in Int /\ Amount(y) <= Amount(x))
  /\ \A n \in Nat : Exceeds(y, n) => Exceeds(x, n)

LEMMA MilderIsNoRiskier ==
  ASSUME NEW x \in Probes, NEW y \in Milder(x)
  PROVE  NoRiskier(y, x)
<1>1. /\ x = [traits |-> x.traits, amount |-> x.amount, domain |-> x.domain]
      /\ x.amount \in Int \/ x.amount = NaN \/ x.amount = NoAmount
      /\ NoAmount \notin Int /\ NaN \notin Int /\ NoAmount # NaN /\ FinancialThreshold \in Int /\ CumulativeThreshold \in Int
  BY PolicyAssumption DEF IsAction, Numbers
<1>2. PICK T, a, d : x = [traits |-> T, amount |-> a, domain |-> d]
  BY <1>1
<1>3. x.traits = T /\ x.amount = a /\ x.domain = d
  BY <1>2
<1>4. CASE \E t \in x.traits : y = [x EXCEPT !.traits = @ \ {t}]
  <2>1. y.traits \subseteq T /\ y.amount = a /\ y.domain = d
    BY <1>2, <1>3, <1>4
  <2>. QED
    BY <1>1, <1>3, <2>1 DEF NoRiskier, Amount, Exceeds, Above, Numbers
<1>5. CASE y = [x EXCEPT !.domain = NoDomain]
  <2>1. y.traits = T /\ y.amount = a /\ y.domain = NoDomain
    BY <1>2, <1>3, <1>5
  <2>. QED
    BY <1>1, <1>3, <2>1 DEF NoRiskier, Amount, Exceeds, Above, Numbers
<1>6. CASE y = [x EXCEPT !.amount = NoAmount] /\ Above(Amount(x), -1)
  <2>1. y.traits = T /\ y.amount = NoAmount /\ y.domain = d
    BY <1>2, <1>3, <1>6
  <2>. QED
    BY <1>1, <1>3, <1>6, <2>1 DEF NoRiskier, Amount, Exceeds, Above, Numbers
<1>7. ASSUME NEW n \in Int, y = [x EXCEPT !.amount = n], Exceeds(x, n)
      PROVE  NoRiskier(y, x)
  <2>1. y.traits = T /\ y.amount = n /\ y.domain = d
    BY <1>2, <1>3, <1>7
  <2>. QED
    BY <1>1, <1>3, <1>7, <2>1 DEF NoRiskier, Amount, Exceeds, Above, Numbers
<1>. QED
  BY <1>1, <1>4, <1>5, <1>6, <1>7 DEF Milder

LEMMA ScoreIsMonotone ==
  ASSUME NEW x, NEW y, NoRiskier(y, x)
  PROVE  RiskScore(y) <= RiskScore(x)
<1>1. \A c \in DOMAIN Weight \ {"financial"} : InCategory(y, c) => InCategory(x, c)
  BY DEF NoRiskier, InCategory
<1>2. InCategory(y, "financial") => InCategory(x, "financial") \/ InCategory(x, "financial_high")
  BY DEF NoRiskier, InCategory
<1>3. \A c \in DOMAIN Weight \ {"financial"} : Points(y, c) <= Points(x, c)
  BY <1>1 DEF Points, Weight
<1>4. Points(y, "financial_high") + Points(y, "financial")
        <= Points(x, "financial_high") + Points(x, "financial")
  <2>1. ~(InCategory(y, "financial") /\ InCategory(y, "financial_high"))
    BY DEF InCategory
  <2>. QED
    BY <1>1, <1>2, <2>1 DEF Points, Weight
<1>5. \A c \in DOMAIN Weight : Points(x, c) \in Nat /\ Points(y, c) \in Nat
  BY PointsType
<1>6. Score(y) <= Score(x)
  BY <1>3, <1>4, <1>5 DEF Score, Weight
<1>7. ASSUME NEW m \in Nat, NEW n \in Nat, m <= n PROVE Min({100, m}) <= Min({100, n})
  <2>1. \A k \in Nat : Min({100, k}) = IF k < 100 THEN k ELSE 100
    BY DEF Min
  <2>. QED
    BY <1>7, <2>1
<1>. QED
  BY <1>6, <1>7, ScoreType DEF RiskScore

(* A riskier action is never decided more leniently, for any thresholds,   *)
(* any action the engine can be given and after any number of calls;       *)
(* RiskIsMonotone is the case of at most one.                              *)
THEOREM RiskNeverLenient == Spec => [](RiskierIsNotMilder /\ RiskIsMonotone)
<1>1. RecordsOK => RiskierIsNotMilder
  <2>. SUFFICES ASSUME RecordsOK, NEW x \in Probes, NEW y \in Milder(x)
                PROVE  Severity[Evaluate(y, Update(metrics, y))] <= Severity[Evaluate(x, Update(metrics, x))]
    BY DEF RiskierIsNotMilder
  <2>1. NoRiskier(y, x)
    BY MilderIsNoRiskier
  <2>2. PICK p, q : p = Update(metrics, y) /\ q = Update(metrics, x)
    OBVIOUS
  <2>3. /\ metrics.exposure \in Numbers
        /\ p.exposure = Plus(metrics.exposure, Amount(y))
        /\ q.exposure = Plus(metrics.exposure, Amount(x))
        /\ p.communications = metrics.communications + One(y, "communication")
        /\ q.communications = metrics.communications + One(x, "communication")
    BY <2>2 DEF Update, RecordsOK, Metrics
  <2>4. \A n \in Int : Above(p.exposure, n) => Above(q.exposure, n)
    BY <2>1, <2>3, PolicyAssumption DEF NoRiskier, Plus, Above, Numbers
  <2>5. \A c \in {"communication", "credential_exposure", "write"} : InCategory(y, c) => InCategory(x, c)
    BY <2>1 DEF NoRiskier, InCategory
  <2>6. RiskScore(y) <= RiskScore(x) /\ RiskScore(y) \in Nat /\ RiskScore(x) \in Nat
    BY <2>1, ScoreIsMonotone, ScoreType
  <2>7. HardDeny(y, p) => HardDeny(x, q)
    BY <2>1, <2>4, <2>5 DEF HardDeny, HardLimit, NoRiskier
  <2>8. NeedsReview(y, p) => NeedsReview(x, q)
    <3>1. Above(Amount(y), FinancialThreshold) => Above(Amount(x), FinancialThreshold)
      BY <2>1, PolicyAssumption DEF NoRiskier, Above
    <3>2. Above(p.exposure, CumulativeThreshold) => Above(q.exposure, CumulativeThreshold)
      BY <2>4, PolicyAssumption
    <3>3. InCategory(y, "communication") => InCategory(x, "communication") /\ p.communications = q.communications
      BY <2>3, <2>5 DEF One
    <3>4. RiskScore(y) >= 70 => RiskScore(x) >= 70
      BY <2>6
    <3>. QED
      BY <3>1, <3>2, <3>3, <3>4 DEF NeedsReview
  <2>9. InCategory(y, "write") \/ RiskScore(y) >= 40 => InCategory(x, "write") \/ RiskScore(x) >= 40
    BY <2>5, <2>6
  <2>. QED
    BY <2>2, <2>7, <2>8, <2>9 DEF Evaluate, Severity
<1>2. RecordsOK => RiskierIsNotMilder /\ RiskIsMonotone
  BY <1>1 DEF RiskIsMonotone
<1>. QED
  BY <1>2, InitRecords, RecordsStep, PTL DEF Spec

-----------------------------------------------------------------------------
(***************************************************************************)
(* Totals of a sequence.  The library's theorems on recursive functions    *)
(* are about an operator; these rest on a least counterexample instead.    *)
(***************************************************************************)

LEMMA LeastNatural ==
  ASSUME NEW T, T \subseteq Nat, T # {}
  PROVE  \E n \in T : \A m \in T : n <= m
<1>1. PICK n \in T : \A m \in T : ~(<<m, n>> \in OpToRel(<, Nat))
  BY NatLessThanWellFounded, WFMin
<1>2. \A m \in T : ~(m < n)
  BY <1>1 DEF OpToRel
<1>. QED
  BY <1>2

(* A function that adds up the first N numbers of s. *)
AddsUp(g, s, N) == g[0] = 0 /\ \A n \in 1 .. N : g[n] = Plus(g[n - 1], s[n])

LEMMA SumsAgree ==
  ASSUME NEW s, NEW N \in Nat, NEW g, NEW h, AddsUp(g, s, N), AddsUp(h, s, N)
  PROVE  \A n \in 0 .. N : g[n] = h[n]
<1>. DEFINE T == {n \in 0 .. N : g[n] # h[n]}
<1>. SUFFICES ASSUME T # {} PROVE FALSE
  OBVIOUS
<1>1. PICK n \in T : \A m \in T : n <= m
  <2>1. T \subseteq Nat
    OBVIOUS
  <2>. HIDE DEF T
  <2>. QED
    BY <2>1, LeastNatural
<1>2. n \in 0 .. N /\ g[n] # h[n]
  BY <1>1
<1>3. n # 0
  BY <1>2 DEF AddsUp
<1>4. n - 1 \in 0 .. N /\ n - 1 \notin T /\ n \in 1 .. N
  BY <1>1, <1>2, <1>3
<1>5. g[n - 1] = h[n - 1]
  BY <1>4
<1>. QED
  BY <1>2, <1>4, <1>5 DEF AddsUp

LEMMA SumExists ==
  ASSUME NEW s \in Seq(Numbers)
  PROVE  \E g \in [0 .. Len(s) -> Numbers] : AddsUp(g, s, Len(s))
<1>. DEFINE T == {N \in 0 .. Len(s) : ~\E g \in [0 .. N -> Numbers] : AddsUp(g, s, N)}
<1>0. Len(s) \in Nat /\ \A n \in 1 .. Len(s) : s[n] \in Numbers
  OBVIOUS
<1>. SUFFICES ASSUME T # {} PROVE FALSE
  BY <1>0
<1>1. PICK N \in T : \A m \in T : N <= m
  <2>1. T \subseteq Nat
    BY <1>0
  <2>. HIDE DEF T
  <2>. QED
    BY <2>1, LeastNatural
<1>2. N \in 0 .. Len(s) /\ ~\E g \in [0 .. N -> Numbers] : AddsUp(g, s, N)
  BY <1>1
<1>3. CASE N = 0
  <2>. DEFINE g == [n \in 0 .. 0 |-> 0]
  <2>1. g \in [0 .. N -> Numbers] /\ AddsUp(g, s, N)
    BY <1>3 DEF AddsUp, Numbers
  <2>. QED
    BY <1>2, <2>1
<1>4. CASE N # 0
  <2>1. N - 1 \in 0 .. Len(s) /\ N - 1 \notin T /\ N \in 1 .. Len(s)
    <3>1. N \in Nat /\ N - 1 \in 0 .. Len(s) /\ N \in 1 .. Len(s) /\ ~(N <= N - 1)
      BY <1>0, <1>2, <1>4
    <3>. HIDE DEF T
    <3>. QED
      BY <1>1, <3>1
  <2>2. PICK h \in [0 .. N - 1 -> Numbers] : AddsUp(h, s, N - 1)
    BY <2>1
  <2>. DEFINE g == [n \in 0 .. N |-> IF n = N THEN Plus(h[N - 1], s[N]) ELSE h[n]]
  <2>3. h[N - 1] \in Numbers /\ s[N] \in Numbers
    BY <1>0, <2>1
  <2>4. g \in [0 .. N -> Numbers]
    <3>1. Plus(h[N - 1], s[N]) \in Numbers
      BY <2>3, PlusType
    <3>2. \A n \in 0 .. N : n # N => n \in 0 .. N - 1
      BY <2>1
    <3>. QED
      BY <3>1, <3>2
  <2>5. /\ g[0] = h[0] /\ g[N] = Plus(h[N - 1], s[N]) /\ g[N - 1] = h[N - 1]
        /\ \A n \in 1 .. N - 1 : g[n] = h[n] /\ g[n - 1] = h[n - 1]
    BY <1>4, <2>1
  <2>6. AddsUp(g, s, N)
    <3>1. \A n \in 1 .. N : n = N \/ n \in 1 .. N - 1
      BY <2>1
    <3>. HIDE DEF g
    <3>. QED
      BY <2>2, <2>5, <3>1 DEF AddsUp
  <2>. QED
    BY <1>2, <2>4, <2>6
<1>. QED
  BY <1>3, <1>4

LEMMA TotalsAddUp ==
  ASSUME NEW s \in Seq(Numbers)
  PROVE  /\ AddsUp(Totals(s), s, Len(s))
         /\ \A n \in 0 .. Len(s) : Totals(s)[n] \in Numbers
<1>. DEFINE P(t) == t = [n \in 0 .. Len(s) |-> IF n = 0 THEN 0 ELSE Plus(t[n - 1], s[n])]
<1>0. Len(s) \in Nat
  OBVIOUS
<1>1. PICK g \in [0 .. Len(s) -> Numbers] : AddsUp(g, s, Len(s))
  BY SumExists
<1>2. P(g)
  <2>1. \A n \in 0 .. Len(s) : g[n] = IF n = 0 THEN 0 ELSE Plus(g[n - 1], s[n])
    BY <1>0, <1>1 DEF AddsUp
  <2>. QED
    BY <1>1, <2>1
<1>3. Totals(s) = CHOOSE t : P(t)
  BY DEF Totals
<1>4. P(Totals(s))
  <2>. HIDE DEF P
  <2>. QED
    BY <1>2, <1>3
<1>5. AddsUp(Totals(s), s, Len(s))
  <2>1. \A n \in 0 .. Len(s) : Totals(s)[n] = IF n = 0 THEN 0 ELSE Plus(Totals(s)[n - 1], s[n])
    BY <1>4
  <2>. QED
    BY <1>0, <2>1 DEF AddsUp
<1>. QED
  BY <1>0, <1>1, <1>5, SumsAgree

(* The total of nothing is 0, and every number counts once. *)
LEMMA TotalAppend ==
  /\ Total(<< >>) = 0
  /\ \A s \in Seq(Numbers), x \in Numbers : Total(Append(s, x)) = Plus(Total(s), x)
<1>1. Total(<< >>) = 0
  <2>1. << >> \in Seq(Numbers) /\ Len(<< >>) = 0
    OBVIOUS
  <2>. QED
    BY <2>1, TotalsAddUp DEF Total, AddsUp
<1>2. ASSUME NEW s \in Seq(Numbers), NEW x \in Numbers
      PROVE  Total(Append(s, x)) = Plus(Total(s), x)
  <2>. DEFINE N == Len(s)
              a == Append(s, x)
  <2>1. N \in Nat /\ a \in Seq(Numbers) /\ Len(a) = N + 1 /\ a[N + 1] = x /\ \A n \in 1 .. N : a[n] = s[n]
    OBVIOUS
  <2>2. AddsUp(Totals(s), s, N) /\ AddsUp(Totals(a), a, N + 1)
    BY <2>1, TotalsAddUp
  <2>. HIDE DEF N, a
  <2>3. AddsUp(Totals(a), s, N)
    BY <2>1, <2>2 DEF AddsUp
  <2>4. Totals(a)[N] = Totals(s)[N]
    BY <2>1, <2>2, <2>3, SumsAgree
  <2>5. Totals(a)[N + 1] = Plus(Totals(a)[N], x)
    BY <2>1, <2>2 DEF AddsUp
  <2>. QED
    BY <2>1, <2>4, <2>5 DEF Total, N, a
<1>. QED
  BY <1>1, <1>2

-----------------------------------------------------------------------------
(* The calls counted, and their amounts, as a step extends them. *)
LEMMA SubmitExtends ==
  ASSUME RecordsOK, NEW x \in Submissions, NEW s \in Settings, Submit(x, s)
  PROVE  /\ Counted' = Counted \cup (IF Bypassed(s) THEN {} ELSE {Len(history) + 1})
         /\ Exposures' = Append(Exposures, IF Bypassed(s) THEN 0 ELSE Amount(x))
         /\ Exposures \in Seq(Numbers)
<1>. DEFINE n == Len(history) + 1
            v == IF Bypassed(s) THEN 0 ELSE Amount(x)
<1>1. /\ Calls' = Calls \cup {n}
      /\ \A i \in Calls : history'[i] = history[i]
      /\ history'[n].action = x /\ history'[n].setting = s
  <2>1. /\ Calls' = Calls \cup {Len(history) + 1}
        /\ \A i \in Calls : history'[i] = history[i]
        /\ history'[Len(history) + 1] =
             [action |-> x, setting |-> s, before |-> metrics, result |-> Process(metrics, x, s)]
    BY SubmitAppends
  <2>. QED
    BY <2>1
<1>2. Calls = 1 .. Len(history) /\ Len(history) \in Nat /\ n \notin Calls
  BY DEF RecordsOK, Calls
<1>3. Counted' = Counted \cup (IF Bypassed(s) THEN {} ELSE {n})
  <2>1. n \in Counted' <=> ~Bypassed(s)
    BY <1>1 DEF Counted
  <2>2. \A i \in Calls : i \in Counted' <=> i \in Counted
    BY <1>1 DEF Counted
  <2>3. Counted \subseteq Calls /\ Counted' \subseteq Calls \cup {n}
    BY <1>1 DEF Counted
  <2>. HIDE DEF n
  <2>. QED
    BY <1>2, <2>1, <2>2, <2>3
<1>4. Amount(x) \in Numbers /\ v \in Numbers
  BY AmountType, PolicyAssumption DEF Numbers
<1>5. \A i \in Calls : Amount(history[i].action) \in Numbers
  BY CallTypes, AmountType, PolicyAssumption
<1>6. /\ Exposures \in [1 .. Len(history) -> Numbers]
      /\ \A i \in 1 .. Len(history) :
           Exposures[i] = IF i \in Counted THEN Amount(history[i].action) ELSE 0
  <2>1. 0 \in Numbers
    BY DEF Numbers
  <2>. QED
    BY <1>2, <1>5, <2>1 DEF Exposures
<1>7. /\ Exposures' = [i \in 1 .. n |-> IF i \in Counted' THEN Amount(history'[i].action) ELSE 0]
  <2>1. Calls' = 1 .. n
    BY <1>1, <1>2
  <2>. QED
    BY <2>1 DEF Exposures
<1>8. Exposures \in Seq(Numbers) /\ Len(Exposures) = Len(history)
  BY <1>2, <1>6
<1>9. \A i \in 1 .. n : Exposures'[i] = Append(Exposures, v)[i]
  <2>1. ASSUME NEW i \in Calls PROVE Exposures'[i] = Exposures[i]
    <3>1. i \in 1 .. Len(history) /\ i \in 1 .. n /\ i # n
      BY <1>2
    <3>2. (i \in Counted' <=> i \in Counted) /\ history'[i] = history[i]
      BY <1>1, <1>3, <3>1
    <3>. HIDE DEF n
    <3>. QED
      BY <1>6, <1>7, <3>1, <3>2
  <2>2. Exposures'[n] = v
    <3>1. n \in 1 .. n
      BY <1>2
    <3>2. n \in Counted' <=> ~Bypassed(s)
      BY <1>1 DEF Counted
    <3>. QED
      BY <1>1, <1>7, <3>1, <3>2
  <2>3. /\ \A i \in Calls : Append(Exposures, v)[i] = Exposures[i]
        /\ Append(Exposures, v)[n] = v
    BY <1>2, <1>4, <1>8
  <2>4. \A i \in 1 .. n : i \in Calls \/ i = n
    BY <1>2
  <2>. QED
    BY <2>1, <2>2, <2>3, <2>4
<1>10. Exposures' = Append(Exposures, v)
  <2>1. Append(Exposures, v) \in Seq(Numbers) /\ Len(Append(Exposures, v)) = n
    BY <1>4, <1>8
  <2>2. Append(Exposures, v) = [i \in 1 .. n |-> Append(Exposures, v)[i]]
    BY <2>1
  <2>3. Exposures' = [i \in 1 .. n |-> Exposures'[i]]
    BY <1>7
  <2>. HIDE DEF n, v
  <2>. QED
    BY <1>9, <2>2, <2>3
<1>. QED
  BY <1>3, <1>8, <1>10

(* The communications among the calls counted. *)
Sends == {i \in Counted : "send" \in history[i].action.traits}

LEMMA SendsFinite ==
  ASSUME RecordsOK
  PROVE  IsFiniteSet(Sends) /\ Len(history) + 1 \notin Sends
<1>1. Len(history) \in Nat /\ Sends \subseteq 1 .. Len(history)
  BY DEF RecordsOK, Sends, Counted, Calls
<1>2. IsFiniteSet(1 .. Len(history))
  BY <1>1, FS_Interval
<1>3. IsFiniteSet(Sends)
  BY <1>1, <1>2, FS_Subset
<1>. QED
  BY <1>1, <1>3

LEMMA TotalsStep ==
  ASSUME RecordsOK, MetricsAreTotals, [Next]_policyVars
  PROVE  MetricsAreTotals'
<1>1. CASE UNCHANGED policyVars
  BY <1>1 DEF policyVars, MetricsAreTotals, Exposures, Counted, Calls
<1>2. ASSUME NEW x \in Submissions, NEW s \in Settings, Submit(x, s)
      PROVE  MetricsAreTotals'
  <2>. DEFINE n == Len(history) + 1
              v == IF Bypassed(s) THEN 0 ELSE Amount(x)
  <2>1. /\ Counted' = Counted \cup (IF Bypassed(s) THEN {} ELSE {n})
        /\ Exposures' = Append(Exposures, v)
        /\ Exposures \in Seq(Numbers)
    BY <1>2, SubmitExtends
  <2>2. (\A i \in Counted : history'[i].action = history[i].action) /\ history'[n].action = x
    <3>1. /\ \A i \in Calls : history'[i] = history[i]
          /\ history'[n] =
               [action |-> x, setting |-> s, before |-> metrics, result |-> Process(metrics, x, s)]
      BY <1>2, SubmitAppends
    <3>. QED
      BY <3>1 DEF Counted
  <2>3. /\ metrics.exposure \in Numbers /\ metrics.communications \in Nat /\ Amount(x) \in Numbers
    BY AmountType, PolicyAssumption DEF RecordsOK, Metrics
  <2>4. /\ metrics'.exposure = Plus(metrics.exposure, v)
        /\ metrics'.communications = metrics.communications
              + (IF ~Bypassed(s) /\ "send" \in x.traits THEN 1 ELSE 0)
        /\ metrics'.domains = metrics.domains
              \cup (IF Bypassed(s) THEN {} ELSE {x.domain} \ {NoDomain})
    <3>1. metrics' = IF Bypassed(s) THEN metrics ELSE Update(metrics, x)
      BY <1>2 DEF Submit, NewMetrics
    <3>2. One(x, "communication") = IF "send" \in x.traits THEN 1 ELSE 0
      BY DEF One, InCategory
    <3>3. Plus(metrics.exposure, 0) = metrics.exposure
      BY <2>3, PlusType
    <3>4. CASE Bypassed(s)
      BY <2>3, <3>1, <3>3, <3>4
    <3>5. CASE ~Bypassed(s)
      <4>1. metrics' = Update(metrics, x)
        BY <3>1, <3>5
      <4>. QED
        BY <3>2, <3>5, <4>1 DEF Update
    <3>. QED
      BY <3>4, <3>5
  <2>5. metrics'.exposure = Total(Exposures')
    <3>1. v \in Numbers
      BY <2>3 DEF Numbers
    <3>2. Total(Append(Exposures, v)) = Plus(Total(Exposures), v)
      BY <2>1, <3>1, TotalAppend
    <3>. QED
      BY <2>1, <2>4, <3>2 DEF MetricsAreTotals
  <2>6. metrics'.communications = Cardinality(Sends')
    <3>1. Sends' = Sends \cup (IF ~Bypassed(s) /\ "send" \in x.traits THEN {n} ELSE {})
      <4>. HIDE DEF n
      <4>. QED
        BY <2>1, <2>2 DEF Sends
    <3>2. IsFiniteSet(Sends) /\ n \notin Sends
      BY SendsFinite
    <3>3. Cardinality(Sends \cup {n}) = Cardinality(Sends) + 1
      BY <3>2, FS_AddElement
    <3>4. metrics.communications = Cardinality(Sends)
      BY DEF MetricsAreTotals, Sends
    <3>5. CASE ~Bypassed(s) /\ "send" \in x.traits
      BY <2>4, <3>1, <3>3, <3>4, <3>5
    <3>6. CASE ~(~Bypassed(s) /\ "send" \in x.traits)
      <4>1. Sends' = Sends
        BY <3>1, <3>6
      <4>2. metrics'.communications = metrics.communications
        BY <2>3, <2>4, <3>6
      <4>. QED
        BY <3>4, <4>1, <4>2
    <3>. QED
      BY <3>5, <3>6
  <2>7. metrics'.domains = {history'[i].action.domain : i \in Counted'} \ {NoDomain}
    <3>1. metrics.domains = {history[i].action.domain : i \in Counted} \ {NoDomain}
      BY DEF MetricsAreTotals
    <3>2. {history'[i].action.domain : i \in Counted} = {history[i].action.domain : i \in Counted}
      BY <2>2
    <3>3. {history'[i].action.domain : i \in Counted'}
            = {history'[i].action.domain : i \in Counted} \cup (IF Bypassed(s) THEN {} ELSE {x.domain})
      <4>. HIDE DEF n
      <4>. QED
        BY <2>1, <2>2
    <3>. QED
      BY <2>4, <3>1, <3>2, <3>3
  <2>. QED
    BY <2>5, <2>6, <2>7 DEF MetricsAreTotals, Sends
<1>. QED
  BY <1>1, <1>2 DEF Next

(* The totals an evaluation sees are those of every action evaluated so    *)
(* far, for any number of actions of any amounts, and of no other.         *)
THEOREM TotalsAreTrue == Spec => []MetricsAreTotals
<1>1. Init => MetricsAreTotals
  <2>. SUFFICES ASSUME Init PROVE MetricsAreTotals
    OBVIOUS
  <2>1. history = << >> /\ metrics = EmptyMetrics
    BY DEF Init
  <2>2. Calls = {} /\ Counted = {}
    BY <2>1 DEF Calls, Counted
  <2>3. Exposures = << >>
    BY <2>2 DEF Exposures
  <2>4. Cardinality({i \in Counted : "send" \in history[i].action.traits}) = 0
    BY <2>2, FS_EmptySet
  <2>5. {history[i].action.domain : i \in Counted} = {}
    BY <2>2
  <2>. QED
    BY <2>1, <2>3, <2>4, <2>5, TotalAppend DEF MetricsAreTotals, EmptyMetrics
<1>2. RecordsOK /\ MetricsAreTotals /\ [Next]_policyVars => MetricsAreTotals'
  BY TotalsStep
<1>. QED
  BY <1>1, <1>2, InitRecords, RecordsStep, PTL DEF Spec

=============================================================================
