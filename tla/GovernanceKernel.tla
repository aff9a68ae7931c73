-------------------------- MODULE GovernanceKernel --------------------------
(***************************************************************************)
(* The deterministic governance kernel: risk bands, the aggregation of     *)
(* policy matches, the segregation-of-duties check, the decision table and *)
(* the SailPoint filter.  No state: other modules extend this one.         *)
(*                                                                         *)
(* Sources: app/services/{risk,policy,sod,decision,sailpoint}_service.py   *)
(* and app/domain/enums.py.                                                *)
(***************************************************************************)
EXTENDS Integers, FiniteSets

CONSTANTS RiskLowMax,       \* settings.risk_low_max
          RiskMediumMax,    \* settings.risk_medium_max
          RiskHighMax,      \* settings.risk_high_max
          IncludedStatuses  \* settings.sailpoint_included_statuses, parsed

RiskLevels == {"LOW", "MEDIUM", "HIGH", "CRITICAL"}
ApprovalTiers == {"AUTO", "MANAGER", "HUMAN_REVIEW", "NONE"}
PolicyStatuses ==
  {"PASS", "REQUIRES_APPROVAL", "BLOCK", "DENY", "ERROR", "NOT_EVALUATED"}
SodStatuses == {"PASS", "CONFLICT", "NOT_EVALUATED"}
RecommendationStatuses ==
  {"AUTO_APPROVED", "MANAGER_APPROVAL", "HUMAN_REVIEW", "BLOCKED", "REJECTED",
   "NOT_RECOMMENDED"}

\* The statuses under which access may be requested for the joiner.
RequestableStatuses == {"AUTO_APPROVED", "MANAGER_APPROVAL"}

\* Settings._validate_risk_bands, and the bounds on each field.
ASSUME RiskBandsOrdered ==
  /\ RiskLowMax \in 0..100 /\ RiskMediumMax \in 0..100 /\ RiskHighMax \in 0..100
  /\ RiskLowMax < RiskMediumMax
  /\ RiskMediumMax < RiskHighMax

\* The shipped setting.  The code accepts any recommendation status here; a
\* deployment that lists a withheld one asks for withheld access.
ASSUME OnlyRequestableIncluded == IncludedStatuses \subseteq RequestableStatuses

-----------------------------------------------------------------------------
(* Risk *)

ClassifyRisk(score) ==
  IF score <= RiskLowMax THEN "LOW"
  ELSE IF score <= RiskMediumMax THEN "MEDIUM"
  ELSE IF score <= RiskHighMax THEN "HIGH"
  ELSE "CRITICAL"

-----------------------------------------------------------------------------
(* Policy aggregation *)

\* What the policy engine says of one entitlement.
Verdicts == [status : PolicyStatuses, tier : ApprovalTiers]

\* `policy is None` in decide(): no verdict for this entitlement.
NotEvaluated == [status |-> "NOT_EVALUATED", tier |-> "AUTO"]

StatusPrecedence ==
  <<"DENY", "BLOCK", "ERROR", "REQUIRES_APPROVAL", "PASS", "NOT_EVALUATED">>
TierPrecedence == <<"HUMAN_REVIEW", "MANAGER", "AUTO", "NONE">>

\* The first member of a precedence list that is in S.
FirstPresent(precedence, S) ==
  precedence[CHOOSE i \in DOMAIN precedence :
               /\ precedence[i] \in S
               /\ \A j \in 1..i - 1 : precedence[j] \notin S]

WorstStatus(S) == IF S = {} THEN "PASS" ELSE FirstPresent(StatusPrecedence, S)
HighestTier(S) == IF S = {} THEN "AUTO" ELSE FirstPresent(TierPrecedence, S)

\* Mutant of Aggregate: status and tier are handed over in the wrong order.
AggregateSwapped(matches) ==
  [status |-> HighestTier({m.tier : m \in {n \in matches : n.status # "PASS"}}),
   tier   |-> WorstStatus({m.status : m \in matches})]

\* Mutant of Aggregate: the approval demand of the first row that failed is
\* kept, not the worst one.
AggregateFirstFailed(matches) ==
  IF matches = {} THEN [status |-> "PASS", tier |-> "AUTO"]
  ELSE CHOOSE m \in matches : TRUE

\* Folding the outcomes of the policies that spoke about one entitlement: the
\* worst status of all, and the highest tier among those that did not pass.
Aggregate(matches) ==
  [status |-> WorstStatus({m.status : m \in matches}),
   tier   |-> HighestTier({m.tier : m \in {n \in matches : n.status # "PASS"}})]

-----------------------------------------------------------------------------
(* Segregation of duties.  A rule is the set of its two entitlements. *)

\* Mutant of SodConflicts: existing access is left out of the effective set.
SodConflictsRequestedOnly(rules, requested, held) ==
  {rule \in rules : rule \subseteq requested}

SodConflicts(rules, requested, held) ==
  {rule \in rules : /\ rule \subseteq requested \union held
                    /\ rule \intersect requested # {}}

\* SodValidationResult.conflicts_for
ConflictsFor(conflicts, e) == {rule \in conflicts : e \in rule}

-----------------------------------------------------------------------------
(* The decision table *)

\* The part of an AccessDecision the properties tell apart.
Decisions == [status : RecommendationStatuses \union {"ABSENT"},
              tier : ApprovalTiers, policy : PolicyStatuses, sod : SodStatuses]

\* No decision was made for this entitlement.
Undecided == [status |-> "ABSENT", tier |-> "NONE",
              policy |-> "NOT_EVALUATED", sod |-> "NOT_EVALUATED"]

\* Steps 1 to 9 of decide(): the first rule that applies gives the status and
\* the approval tier.
Outcome(meets, level, verdict, conflicted) ==
  IF ~meets
    THEN [status |-> "NOT_RECOMMENDED", tier |-> "NONE"]
  ELSE IF conflicted
    THEN [status |-> "BLOCKED", tier |-> "HUMAN_REVIEW"]
  ELSE IF verdict.status = "DENY"
    THEN [status |-> "REJECTED", tier |-> "NONE"]
  ELSE IF verdict.status = "BLOCK"
    THEN [status |-> "BLOCKED", tier |-> "HUMAN_REVIEW"]
  ELSE IF \/ verdict.status = "ERROR"
          \/ level = "CRITICAL"
          \/ verdict = [status |-> "REQUIRES_APPROVAL", tier |-> "HUMAN_REVIEW"]
    THEN [status |-> "HUMAN_REVIEW", tier |-> "HUMAN_REVIEW"]
  ELSE IF \/ level = "HIGH"
          \/ verdict = [status |-> "REQUIRES_APPROVAL", tier |-> "MANAGER"]
    THEN [status |-> "MANAGER_APPROVAL", tier |-> "MANAGER"]
  ELSE [status |-> "AUTO_APPROVED", tier |-> "AUTO"]

\* Mutant of Decide: the policy ERROR rule is lost (an error reads as a pass).
DecideErrorPasses(meets, level, verdict, conflicted) ==
  LET seen == IF verdict.status = "ERROR"
                THEN [status |-> "PASS", tier |-> "AUTO"] ELSE verdict
      out == Outcome(meets, level, seen, conflicted)
  IN [status |-> out.status, tier |-> out.tier, policy |-> verdict.status,
      sod |-> IF conflicted THEN "CONFLICT"
              ELSE IF meets THEN "PASS" ELSE "NOT_EVALUATED"]

\* The statuses recorded beside the outcome: sod_status is CONFLICT, else PASS
\* when the entitlement was proposed at all.
Decide(meets, level, verdict, conflicted) ==
  LET out == Outcome(meets, level, verdict, conflicted)
  IN [status |-> out.status, tier |-> out.tier, policy |-> verdict.status,
      sod |-> IF conflicted THEN "CONFLICT"
              ELSE IF meets THEN "PASS" ELSE "NOT_EVALUATED"]

\* SailPointService.generate_request_payload: what is asked for.
Included(decisions) ==
  {e \in DOMAIN decisions : decisions[e].status \in IncludedStatuses}

\* AccessDecision.is_requestable
Requestable(decision) == decision.status \in RequestableStatuses
=============================================================================
