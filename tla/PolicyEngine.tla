---------------------------- MODULE PolicyEngine ----------------------------
(***************************************************************************)
(* The governance controls at one decision point: the policy rows and SoD  *)
(* rules in force, the access one identity holds, and the access being     *)
(* proposed for it.  The rows change under the engine (their `enabled`     *)
(* flags, the identity's holdings, the proposal); the engine's answer is a *)
(* pure function of them, so a step of this module moves from one          *)
(* configuration to a neighbouring one and the properties relate the two   *)
(* answers.                                                                *)
(*                                                                         *)
(* Sources: app/services/policy_service.py, app/domain/rules/policy_rules, *)
(* app/services/{sod,decision}_service.py, app/db/models/governance.py.    *)
(***************************************************************************)
EXTENDS GovernanceKernel

CONSTANTS Entitlements,  \* entitlement ids that may be proposed
          RiskScore,     \* the catalogue: catalogued entitlement -> risk_score
          Policies,      \* the rows of the policies table
          SodRules,      \* the rows of the sod_rules table, each a pair
          Profiles,      \* the employee profiles considered
          MaxEnabled     \* bound: policy rows switched on at one time

\* A job level that does not read as L<n>; and a min_risk_score left out.
Unreadable == -1
NoScore == -1

PolicyTypes == {"MUTUALLY_EXCLUSIVE_ENTITLEMENTS", "RISK_THRESHOLD_APPROVAL",
                "EMPLOYMENT_TYPE_RESTRICTION", "LOCATION_RESTRICTION",
                "JOB_LEVEL_RESTRICTION", "DEPARTMENT_RESTRICTION"}
Effects == {"BLOCK", "DENY", "REQUIRES_APPROVAL"}

\* `rule_definition` is free JSON parameters: `ents`, `score`, `names` (the
\* employment types, locations or departments named), `level`, `tier`, `effect`.
\* The list of entitlements has `length` members, and `ents` are those it names: the
\* same one may be listed twice.
PolicyRows ==
  [type : PolicyTypes \union {"UNREGISTERED"}, ents : SUBSET Entitlements, length : Nat,
   score : Int, names : SUBSET STRING, level : Int,
   tier : ApprovalTiers, effect : Effects]

ProfileRows ==
  [type : STRING, location : STRING, department : STRING, level : Int]

ASSUME EngineConstants ==
  /\ DOMAIN RiskScore \subseteq Entitlements
  /\ \A e \in DOMAIN RiskScore : RiskScore[e] \in 0..100
  /\ Policies \subseteq PolicyRows
  /\ \A p \in Policies :
       Cardinality(p.ents) <= p.length /\ (p.ents = {} <=> p.length = 0)
  /\ SodRules \subseteq SUBSET Entitlements
  /\ Profiles \subseteq ProfileRows
  /\ MaxEnabled \in Nat

VARIABLES profile,    \* the identity the request is for
          enabled,    \* the policy rows whose `enabled` flag is set
          rulesOn,    \* the SoD rows whose `enabled` flag is set
          held,       \* employee_entitlements of the identity
          requested   \* the entitlements proposed (above the affinity threshold)

vars == <<profile, enabled, rulesOn, held, requested>>

-----------------------------------------------------------------------------
(* The evaluators *)

JobLevelRank(level) == IF level = Unreadable THEN 0 ELSE level

\* get_evaluator and the parameter models: which rows can be evaluated at all.
Parses(p) ==
  CASE p.type = "MUTUALLY_EXCLUSIVE_ENTITLEMENTS" ->
         p.length >= 2 /\ p.effect \in {"BLOCK", "DENY"}
    [] p.type = "RISK_THRESHOLD_APPROVAL" ->
         p.score \in 0..100 /\ p.tier \in {"MANAGER", "HUMAN_REVIEW"}
    [] p.type = "EMPLOYMENT_TYPE_RESTRICTION" ->
         /\ p.names # {} /\ p.names \subseteq {"EMPLOYEE", "CONTRACTOR"}
         /\ p.score \in 0..100 \/ (p.score = NoScore /\ p.ents # {})
         /\ p.effect \in {"BLOCK", "DENY"}
    [] p.type \in {"LOCATION_RESTRICTION", "DEPARTMENT_RESTRICTION"} ->
         p.ents # {} /\ p.names # {} /\ p.effect \in {"BLOCK", "DENY"}
    [] p.type = "JOB_LEVEL_RESTRICTION" -> p.ents # {}
    [] OTHER -> FALSE

\* PolicyContext.effective_access
EffectiveAccess(asked, has) == asked \union has

ScoreAtLeast(e, bound) == e \in DOMAIN RiskScore /\ RiskScore[e] >= bound

\* Evaluator.evaluate returns an outcome, rather than None, for entitlement e.
Applies(p, e, who, access) ==
  CASE p.type = "MUTUALLY_EXCLUSIVE_ENTITLEMENTS" ->
         e \in p.ents /\ (p.ents \intersect access) \ {e} # {}
    [] p.type = "RISK_THRESHOLD_APPROVAL" -> ScoreAtLeast(e, p.score)
    [] p.type = "EMPLOYMENT_TYPE_RESTRICTION" ->
         /\ who.type \in p.names
         /\ e \in p.ents \/ (p.score # NoScore /\ ScoreAtLeast(e, p.score))
    [] p.type = "LOCATION_RESTRICTION" -> e \in p.ents /\ who.location \notin p.names
    [] p.type = "DEPARTMENT_RESTRICTION" -> e \in p.ents /\ who.department \notin p.names
    [] p.type = "JOB_LEVEL_RESTRICTION" ->
         e \in p.ents /\ JobLevelRank(who.level) < JobLevelRank(p.level)
    [] OTHER -> FALSE

RuleOutcome(p) ==
  IF p.type = "RISK_THRESHOLD_APPROVAL"
    THEN [status |-> "REQUIRES_APPROVAL", tier |-> p.tier]
    ELSE [status |-> p.effect, tier |-> "HUMAN_REVIEW"]

FailedClosed == [status |-> "ERROR", tier |-> "HUMAN_REVIEW"]

\* Mutant of Matches: a row that does not parse is skipped, not failed closed.
MatchesSkippingBroken(policies, e, who, access) ==
  {RuleOutcome(p) : p \in {q \in policies : Parses(q) /\ Applies(q, e, who, access)}}

\* The PolicyMatch entries _validate_one collects.  A row is parsed before it
\* is asked whether it applies, so a broken one matches every entitlement.
Matches(policies, e, who, access) ==
  {RuleOutcome(p) : p \in {q \in policies : Parses(q) /\ Applies(q, e, who, access)}}
  \union {FailedClosed : p \in {q \in policies : ~Parses(q)}}

\* Mutant of Validate: mutual exclusion looks at the proposal alone.
ValidateProposalOnly(policies, e, who, asked, has) ==
  Aggregate(Matches(policies, e, who, EffectiveAccess(asked, {})))

\* PolicyService.validate, for one of the entitlements asked about.
Validate(policies, e, who, asked, has) ==
  Aggregate(Matches(policies, e, who, EffectiveAccess(asked, has)))

-----------------------------------------------------------------------------
(* The engine's answer in the current configuration *)

Verdict(e) == Validate(enabled, e, profile, requested, held)
Conflicts == SodConflicts(rulesOn, requested, held)

\* The decision for a proposed entitlement.  One that is not catalogued has no
\* risk assessment and so no decision.
Answer(e) ==
  IF e \in requested /\ e \in DOMAIN RiskScore
    THEN Decide(TRUE, ClassifyRisk(RiskScore[e]), Verdict(e),
                ConflictsFor(Conflicts, e) # {})
    ELSE Undecided

Granted == {e \in requested : Requestable(Answer(e))}

-----------------------------------------------------------------------------
(* Changes of configuration *)

Init ==
  /\ profile \in Profiles
  /\ enabled = {} /\ rulesOn = {} /\ held = {} /\ requested = {}

EnablePolicy(p) ==
  /\ p \notin enabled
  /\ Cardinality(enabled) < MaxEnabled
  /\ enabled' = enabled \union {p}
  /\ UNCHANGED <<profile, rulesOn, held, requested>>

DisablePolicy(p) ==
  /\ p \in enabled
  /\ enabled' = enabled \ {p}
  /\ UNCHANGED <<profile, rulesOn, held, requested>>

ToggleRule(rule) ==
  /\ rulesOn' = IF rule \in rulesOn THEN rulesOn \ {rule} ELSE rulesOn \union {rule}
  /\ UNCHANGED <<profile, enabled, held, requested>>

\* Access granted, or removed, outside this system.
ToggleHolding(e) ==
  /\ held' = IF e \in held THEN held \ {e} ELSE held \union {e}
  /\ UNCHANGED <<profile, enabled, rulesOn, requested>>

\* The next call proposes one entitlement more, or one less.
TogglePropose(e) ==
  /\ requested' = IF e \in requested THEN requested \ {e} ELSE requested \union {e}
  /\ UNCHANGED <<profile, enabled, rulesOn, held>>

Next ==
  \/ \E p \in Policies : EnablePolicy(p) \/ DisablePolicy(p)
  \/ \E rule \in SodRules : ToggleRule(rule)
  \/ \E e \in Entitlements : ToggleHolding(e) \/ TogglePropose(e)

Spec == Init /\ [][Next]_vars

-----------------------------------------------------------------------------
(* Properties *)

\* Each variable keeps its type, and every verdict the engine can give is one
\* that decide() knows how to read.
TypeOK ==
  /\ profile \in Profiles
  /\ enabled \subseteq Policies
  /\ rulesOn \subseteq SodRules
  /\ held \subseteq Entitlements
  /\ requested \subseteq Entitlements
  /\ \A e \in Entitlements : Verdict(e) \in Verdicts

\* How much of the road to the access an outcome opens: granted at once, after
\* the manager, after a review, or not at all.
Openness(decision) ==
  CASE decision.status = "AUTO_APPROVED"    -> 3
    [] decision.status = "MANAGER_APPROVAL" -> 2
    [] decision.status = "HUMAN_REVIEW"     -> 1
    [] OTHER                                -> 0

\* A step that only adds controls or access (a policy or SoD rule switched on,
\* access gained, one more entitlement proposed) never opens the road to an
\* entitlement that was already proposed: no policy match can mask a worse one
\* (policy_service.worst_status, decide's precedence).
TighteningNeverOpens ==
  [][(/\ enabled \subseteq enabled' /\ rulesOn \subseteq rulesOn'
      /\ held \subseteq held' /\ requested \subseteq requested')
     => \A e \in requested : Openness(Answer(e)') <= Openness(Answer(e))]_vars

\* "A broken control must never look like a satisfied control": while a policy
\* row that cannot be parsed is switched on, nothing at all is granted, whatever
\* the other controls say.
BrokenPolicyWithholdsAll ==
  (\E p \in enabled : ~Parses(p)) => Granted = {}

\* Mutual exclusion takes both sides: of two exclusive entitlements the identity
\* would end up with, neither one that is proposed is granted.
ExclusivesNotGranted ==
  \A p \in enabled :
    p.type = "MUTUALLY_EXCLUSIVE_ENTITLEMENTS" /\ Parses(p) =>
      \A e \in p.ents \intersect Granted :
        p.ents \intersect (Granted \union held) = {e}

\* Whatever is granted, together with what is held, completes no enabled toxic
\* combination (SodService.check, decide rule 2).
NoToxicGrant ==
  \A rule \in rulesOn :
    rule \subseteq Granted \union held => rule \intersect Granted = {}

\* What AUTO_APPROVED means, from the raw rows and not through the aggregation:
\* no policy is broken, none applies, no toxic pair is touched, and the score
\* is in the two lowest bands.
AutoApprovedIffClean ==
  \A e \in requested \intersect DOMAIN RiskScore :
    Answer(e).status = "AUTO_APPROVED" <=>
      /\ RiskScore[e] <= RiskMediumMax
      /\ \A p \in enabled :
           Parses(p) /\ ~Applies(p, e, profile, requested \union held)
      /\ \A rule \in rulesOn : e \in rule => ~(rule \subseteq requested \union held)

\* enums.py: DENY is a "hard denial, not overridable by an approver".
DenialIsFinal ==
  \A e \in requested \intersect DOMAIN RiskScore :
    Verdict(e).status = "DENY" => Answer(e).tier = "NONE"

\* policy_rules.job_level_rank: "an identity whose level cannot be read fails a
\* minimum-seniority check rather than passing it".
UnreadableLevelFails ==
  \A p \in enabled, e \in requested :
    (p.type = "JOB_LEVEL_RESTRICTION" /\ e \in p.ents /\ profile.level = Unreadable)
      => Verdict(e).status # "PASS"
=============================================================================
