--------------------------- MODULE MCPolicyEngine ---------------------------
(* The instances of PolicyEngine that TLC checks. *)
EXTENDS PolicyEngine

CONSTANTS d1

Action(traits, amount, domain) == [traits |-> traits, amount |-> amount, domain |-> domain]

Setting(kill, budget, exception, keyword) ==
  [kill |-> kill, budget |-> budget, exception |-> exception, keyword |-> keyword]

(* Every set of traits, with amounts on both sides of every limit.         *)
AllProbes ==
  {Action(T, n, d) : T \in SUBSET Traits, d \in {NoDomain, d1},
                     n \in {NoAmount, NaN, 1000, 5000, 5001, 10001, 50001}}

(* Actions whose order matters. *)
ChainSubmissions ==
  { Action({"send"}, NoAmount, d1),
    Action({"send", "credential"}, NoAmount, NoDomain),
    Action({"write"}, 5000, NoDomain),
    Action({"delete_name"}, 1001, NoDomain),
    Action({"delete_type", "access"}, 1001, NoDomain),
    Action({}, 45001, NoDomain),
    Action({}, 50001, NoDomain),
    Action({}, NaN, NoDomain),
    Action({}, 10000, d1) }

(* The kill switch over an exception, every mode with and without an       *)
(* exception, and the two gates of enforce mode together.                  *)
ChainSettings ==
  {Setting(TRUE, FALSE, TRUE, "shadow"), Setting(FALSE, FALSE, FALSE, "disabled")}
    \cup {Setting(FALSE, TRUE, e, "shadow") : e \in BOOLEAN}
    \cup {Setting(FALSE, b, e, "default") : b \in BOOLEAN, e \in BOOLEAN}

=============================================================================
