---------------------------- MODULE PolicyEngine ----------------------------
(***************************************************************************)
(* The local policy engine, arclasp/policies.py, and a caller that submits *)
(* the actions of one chain to it and keeps the running totals, as         *)
(* process_action_local asks.                                              *)
(*                                                                         *)
(* An action is what the engine can tell of it: the traits found in its    *)
(* type, name and payload keys, its amount and its domain.  Amounts are    *)
(* whole dollars, or the NaN that float() makes of "nan"; an infinity      *)
(* decides as an amount beyond every limit does.                           *)
(***************************************************************************)
EXTENDS Integers, Sequences, FiniteSetsExt

CONSTANTS
  Submissions,         \* the actions that may be submitted
  Settings,            \* the keyword arguments they may be submitted with
  NoAmount,            \* no numeric amount in the payload
  NaN,                 \* not a number, as an amount or a total
  NoDomain,            \* no domain and no url in the payload
  Production,          \* org_config.environment is "production"
  FinancialThreshold,  \* org_config.financial_approval_threshold_usd
  CumulativeThreshold, \* org_config.cumulative_threshold_usd
  Probes,              \* the actions RiskIsMonotone compares
  MaxActions           \* bound: actions of the chain

Modes == {"enforce", "shadow", "disabled"}

(* keyword: the policy_mode argument, "default" if it is left out. *)
SettingType == [kill : BOOLEAN, budget : BOOLEAN, exception : BOOLEAN,
                keyword : Modes \cup {"default"}]

(* delete_name: "delete" in the name; delete_type: only in the type.  iam: *)
(* "iam" or "permission" in the name; access: "role" or "access".          *)
Traits == {"delete_type", "delete_name", "write", "send", "external", "iam",
           "access", "schema", "credential", "unregistered"}

(* Floating-point numbers: a sum with NaN is NaN, no comparison with it    *)
(* holds.                                                                  *)
Numbers == Int \cup {NaN}
Plus(n, k) == IF NaN \in {n, k} THEN NaN ELSE n + k
Above(n, limit) == n # NaN /\ n > limit

IsAction(x) ==
  /\ x = [traits |-> x.traits, amount |-> x.amount, domain |-> x.domain]
  /\ x.traits \subseteq Traits
  /\ x.amount \in Numbers \cup {NoAmount}

ASSUME PolicyAssumption ==
  /\ NoAmount \notin Numbers /\ NaN \notin Int
  /\ Production \in BOOLEAN
  /\ FinancialThreshold \in Int
  /\ CumulativeThreshold \in Int
  /\ MaxActions \in Nat
  /\ \A x \in Submissions \cup Probes : IsAction(x)
  /\ Settings \subseteq SettingType

VARIABLES
  metrics,   \* cumulative_metrics, persisted by the caller
  history    \* ghost: the calls made and their results

policyVars == <<metrics, history>>

Decision == {"allow", "allow_with_flag", "require_approval", "deny"}

EmptyMetrics == [exposure |-> 0, communications |-> 0, modified |-> 0,
                 privileged |-> 0, domains |-> {}]

-----------------------------------------------------------------------------
(* Stage 1: classify_risk. *)

Weight == [destructive |-> 40, write |-> 20, financial_high |-> 50, financial |-> 30,
           communication |-> 25, exfiltration |-> 20, privilege_escalation |-> 40,
           schema_change |-> 35, credential_exposure |-> 50, unregistered_agent |-> 10]

Exceeds(x, limit) == x.amount # NoAmount /\ Above(x.amount, limit)

InCategory(x, c) ==
  \/ c = "destructive" /\ x.traits \cap {"delete_type", "delete_name"} # {}
  \/ c = "write" /\ "write" \in x.traits
  \/ c = "financial_high" /\ Exceeds(x, 10000)
  \/ c = "financial" /\ Exceeds(x, 1000) /\ ~Exceeds(x, 10000)
  \/ c = "communication" /\ "send" \in x.traits
  \/ c = "exfiltration" /\ ("external" \in x.traits \/ x.domain # NoDomain)
  \/ c = "privilege_escalation" /\ x.traits \cap {"iam", "access"} # {}
  \/ c = "schema_change" /\ "schema" \in x.traits
  \/ c = "credential_exposure" /\ "credential" \in x.traits
  \/ c = "unregistered_agent" /\ "unregistered" \in x.traits

Points(x, c) == IF InCategory(x, c) THEN Weight[c] ELSE 0

Score(x) ==
  Points(x, "destructive") + Points(x, "write") + Points(x, "financial_high") +
  Points(x, "financial") + Points(x, "communication") + Points(x, "exfiltration") +
  Points(x, "privilege_escalation") + Points(x, "schema_change") +
  Points(x, "credential_exposure") + Points(x, "unregistered_agent")

(* Mutant: the score is not capped. *)
RiskScoreUncapped(x) == Score(x)

RiskScore(x) == Min({100, Score(x)})

-----------------------------------------------------------------------------
(* Stage 2: update_chain_metrics_local. *)

Amount(x) == IF x.amount = NoAmount THEN 0 ELSE x.amount

One(x, c) == IF InCategory(x, c) THEN 1 ELSE 0

(* Mutant: the exposure is replaced and not added to. *)
UpdateOverwrites(m, x) ==
  [exposure       |-> IF x.amount = NoAmount THEN m.exposure ELSE x.amount,
   communications |-> m.communications + One(x, "communication"),
   modified       |-> m.modified + One(x, "write"),
   privileged     |-> m.privileged + One(x, "privilege_escalation"),
   domains        |-> m.domains \cup ({x.domain} \ {NoDomain})]

Update(m, x) ==
  [exposure       |-> Plus(m.exposure, Amount(x)),
   communications |-> m.communications + One(x, "communication"),
   modified       |-> m.modified + One(x, "write"),
   privileged     |-> m.privileged + One(x, "privilege_escalation"),
   domains        |-> m.domains \cup ({x.domain} \ {NoDomain})]

-----------------------------------------------------------------------------
(* Stage 3: evaluate_policy, on the updated totals.  The first rule that   *)
(* matches decides.                                                        *)

HardLimit == 50000

HardDeny(x, m) ==
  \/ "delete_name" \in x.traits /\ Production
  \/ Above(m.exposure, HardLimit)
  \/ InCategory(x, "credential_exposure")
  \/ "iam" \in x.traits

NeedsReview(x, m) ==
  \/ Above(Amount(x), FinancialThreshold)
  \/ Above(m.exposure, CumulativeThreshold)
  \/ InCategory(x, "communication") /\ m.communications = 1
  \/ RiskScore(x) >= 70

(* Mutant: the audit flags come before the approval triggers. *)
EvaluateFlagsFirst(x, m) ==
  IF HardDeny(x, m) THEN "deny"
  ELSE IF InCategory(x, "write") \/ RiskScore(x) >= 40 THEN "allow_with_flag"
  ELSE IF NeedsReview(x, m) THEN "require_approval"
  ELSE "allow"

Evaluate(x, m) ==
  IF HardDeny(x, m) THEN "deny"
  ELSE IF NeedsReview(x, m) THEN "require_approval"
  ELSE IF InCategory(x, "write") \/ RiskScore(x) >= 40 THEN "allow_with_flag"
  ELSE "allow"

-----------------------------------------------------------------------------
(* process_action_local. *)

(* The mode is the keyword argument or its default; org_config is not      *)
(* looked at.                                                              *)
Mode(s) == IF s.keyword = "default" THEN "enforce" ELSE s.keyword

(* The monthly budget gate: enforce mode only. *)
AfterBudget(d, s) ==
  IF Mode(s) = "enforce" /\ s.budget /\ d \in {"allow", "allow_with_flag"}
    THEN "require_approval" ELSE d

(* Mutant: an exception bypasses a denial as well. *)
AfterExceptionBypass(d, s) ==
  IF Mode(s) = "enforce" /\ s.exception /\ d \in {"require_approval", "deny"}
    THEN "allow" ELSE d

(* The time-boxed exception gate: enforce mode, approvals only. *)
AfterException(d, s) ==
  IF Mode(s) = "enforce" /\ s.exception /\ d = "require_approval" THEN "allow" ELSE d

(* Calls that are decided before the pipeline and leave the totals alone.  *)
Bypassed(s) == s.kill \/ Mode(s) = "disabled"

(* Mutant: the totals move before the kill switch is looked at. *)
NewMetricsAlways(m, x, s) == Update(m, x)

NewMetrics(m, x, s) == IF Bypassed(s) THEN m ELSE Update(m, x)

Result(d, mode, shadow, kill) ==
  [decision |-> d, mode |-> mode, shadow |-> shadow, kill |-> kill]

Process(m, x, s) ==
  LET raw  == Evaluate(x, Update(m, x))
      gate == AfterException(AfterBudget(raw, s), s)
  IN  IF s.kill THEN Result("deny", "enforce", "none", TRUE)
      ELSE IF Mode(s) = "disabled" THEN Result("allow", "disabled", "none", FALSE)
      ELSE IF Mode(s) = "shadow" THEN Result("allow", "shadow", raw, FALSE)
      ELSE Result(gate, "enforce", "none", FALSE)

Init ==
  /\ metrics = EmptyMetrics
  /\ history = << >>

Submit(x, s) ==
  /\ Len(history) < MaxActions
  /\ metrics' = NewMetrics(metrics, x, s)
  /\ history' = Append(history, [action |-> x, setting |-> s, before |-> metrics,
                                 result |-> Process(metrics, x, s)])

Next == \E x \in Submissions, s \in Settings : Submit(x, s)

Spec == Init /\ [][Next]_policyVars

-----------------------------------------------------------------------------
(* Properties. *)

Calls == DOMAIN history
Enforced(i) == ~history[i].setting.kill /\ Mode(history[i].setting) = "enforce"
Verdict(i) == history[i].result.decision

Metrics == [exposure : Numbers, communications : Nat, modified : Nat, privileged : Nat,
            domains : SUBSET {x.domain : x \in Submissions}]

Results == [decision : Decision, mode : Modes, shadow : Decision \cup {"none"}, kill : BOOLEAN]

CallRecords == [action : Submissions, setting : Settings, before : Metrics, result : Results]

PolicyTypeOK ==
  /\ metrics \in Metrics
  /\ history \in Seq(CallRecords)
  /\ \A i \in Calls : RiskScore(history[i].action) \in 0 .. 100

(* The gates apply in the documented order (the pipeline of the module's   *)
(* docstring, and README.md on exceptions): nothing overrides the kill     *)
(* switch; outside enforce mode nothing else blocks; a hard deny cannot be *)
(* lifted by an exception nor turned into a review by the budget; only an  *)
(* exception lifts a review.                                               *)
GateOrder ==
  \A i \in Calls :
    LET h == history[i]
        after == Update(h.before, h.action)
    IN  /\ h.setting.kill => Verdict(i) = "deny" /\ h.result.kill
        /\ ~h.setting.kill /\ ~Enforced(i) => Verdict(i) = "allow"
        /\ Enforced(i) /\ HardDeny(h.action, after) => Verdict(i) = "deny"
        /\ Enforced(i) /\ Verdict(i) = "deny" => HardDeny(h.action, after)
        /\ Enforced(i) /\ ~h.setting.exception /\ ~HardDeny(h.action, after) =>
             (Verdict(i) = "require_approval"
                <=> h.setting.budget \/ NeedsReview(h.action, after))

Severity == [allow |-> 0, allow_with_flag |-> 1, require_approval |-> 2, deny |-> 3]

(* The same action without one of its traits, its domain or its amount, or *)
(* with an amount on the other side of a limit.                            *)
Milder(x) ==
  {[x EXCEPT !.traits = @ \ {t}] : t \in x.traits}
    \cup {[x EXCEPT !.domain = NoDomain]}
    \cup (IF Above(Amount(x), -1) THEN {[x EXCEPT !.amount = NoAmount]} ELSE {})
    \cup {[x EXCEPT !.amount = n] :
             n \in {n \in {1000, 10000, FinancialThreshold, CumulativeThreshold} : Exceeds(x, n)}}

(* A riskier action is never decided more leniently, whatever the chain    *)
(* did before: leaving a trait out, or lowering the amount, never makes    *)
(* the raw decision stricter.                                              *)
RiskierIsNotMilder ==
  \A x \in Probes :
    LET Raw(y) == Severity[Evaluate(y, Update(metrics, y))]
        raw    == Raw(x)
    IN  \A y \in Milder(x) : Raw(y) <= raw

(* The same, before and after the first call: what TLC compares.           *)
RiskIsMonotone == Len(history) <= 1 => RiskierIsNotMilder

(* The running totals of a sequence of numbers, and the last of them.      *)
Totals(s) ==
  LET total[n \in 0 .. Len(s)] == IF n = 0 THEN 0 ELSE Plus(total[n - 1], s[n])
  IN  total

Total(s) == Totals(s)[Len(s)]

(* The totals the next evaluation sees are those of every action that was  *)
(* evaluated, denied and shadowed ones included, and of no action that the *)
(* kill switch or the disabled mode decided.                               *)
Counted == {i \in Calls : ~Bypassed(history[i].setting)}

Exposures == [i \in Calls |-> IF i \in Counted THEN Amount(history[i].action) ELSE 0]

MetricsAreTotals ==
  /\ metrics.exposure = Total(Exposures)
  /\ metrics.communications = Cardinality({i \in Counted : "send" \in history[i].action.traits})
  /\ metrics.domains = {history[i].action.domain : i \in Counted} \ {NoDomain}

(* The hard limit is final: where no amount is negative or NaN, a chain    *)
(* whose exposure has passed it has every later enforced action denied,    *)
(* whatever exception it carries.                                          *)
AmountsCount == \A i \in Counted : Amount(history[i].action) \in Nat

LimitIsFinal ==
  AmountsCount =>
    \A i, j \in Calls :
      j <= i /\ Above(history[j].before.exposure, HardLimit) /\ Enforced(i) => Verdict(i) = "deny"

=============================================================================
