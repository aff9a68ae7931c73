------------------------- MODULE PolicyEngine_proofs -------------------------
(***************************************************************************)
(* What the policy engine grants, for any policy rows, SoD rules, holdings *)
(* and proposals.  The engine keeps no state, so the properties follow     *)
(* from what the tables hold at a moment; the work is to read off the raw  *)
(* matches what the fold over precedences and the decision table make of   *)
(* them (OpennessIs).  That reading grows less open with every match and   *)
(* every conflict, which is TighteningNeverOpens.                          *)
(***************************************************************************)
EXTENDS PolicyEngine, TLAPS

\* The configurations of the tables: all there is to the invariant.
Configured ==
  /\ profile \in Profiles
  /\ enabled \subseteq Policies
  /\ rulesOn \subseteq SodRules
  /\ held \subseteq Entitlements
  /\ requested \subseteq Entitlements

-----------------------------------------------------------------------------
(* The fold *)

\* What a policy that speaks at all says: it never passes, and wants a person.
Objections ==
  [status : {"DENY", "BLOCK", "ERROR", "REQUIRES_APPROVAL"}, tier : {"HUMAN_REVIEW", "MANAGER"}]

\* The first member of a list that is in a set is the one all before which are not.
LEMMA FirstPresentIs ==
  ASSUME NEW list, NEW S, NEW n \in DOMAIN list, DOMAIN list \subseteq Nat,
         list[n] \in S, \A j \in 1..(n - 1) : list[j] \notin S,
         \A i \in DOMAIN list : 1..i \subseteq DOMAIN list /\ 1 <= i
  PROVE  FirstPresent(list, S) = list[n]
<1>1. \A i \in DOMAIN list :
        list[i] \in S /\ (\A j \in 1..(i - 1) : list[j] \notin S) => i = n
  <2> SUFFICES ASSUME NEW i \in DOMAIN list, list[i] \in S,
                      \A j \in 1..(i - 1) : list[j] \notin S, i # n
               PROVE  FALSE
    OBVIOUS
  <2>1. i \in 1..(n - 1) \/ n \in 1..(i - 1)
    OBVIOUS
  <2> QED BY <2>1
<1>2. (CHOOSE i \in DOMAIN list : list[i] \in S /\ \A j \in 1..(i - 1) : list[j] \notin S) = n
  BY <1>1
<1> QED BY <1>2 DEF FirstPresent

\* Objections are folded to the worst status and the highest tier.
LEMMA AggregateIs ==
  ASSUME NEW M \in SUBSET Objections, M # {},
         NEW statuses, statuses = {m.status : m \in M},
         NEW tiers, tiers = {m.tier : m \in M}
  PROVE  /\ Aggregate(M).status = IF "DENY" \in statuses THEN "DENY"
                                  ELSE IF "BLOCK" \in statuses THEN "BLOCK"
                                  ELSE IF "ERROR" \in statuses THEN "ERROR"
                                  ELSE "REQUIRES_APPROVAL"
         /\ Aggregate(M).tier = IF "HUMAN_REVIEW" \in tiers THEN "HUMAN_REVIEW" ELSE "MANAGER"
<1>1. statuses \subseteq {"DENY", "BLOCK", "ERROR", "REQUIRES_APPROVAL"} /\ statuses # {}
  BY DEF Objections
<1>2. tiers \subseteq {"HUMAN_REVIEW", "MANAGER"} /\ tiers # {}
  BY DEF Objections
<1>3. {n \in M : n.status # "PASS"} = M
  BY DEF Objections
<1>4. /\ DOMAIN StatusPrecedence = 1..6 /\ DOMAIN TierPrecedence = 1..4
      /\ StatusPrecedence[1] = "DENY" /\ StatusPrecedence[2] = "BLOCK"
      /\ StatusPrecedence[3] = "ERROR" /\ StatusPrecedence[4] = "REQUIRES_APPROVAL"
      /\ TierPrecedence[1] = "HUMAN_REVIEW" /\ TierPrecedence[2] = "MANAGER"
  BY DEF StatusPrecedence, TierPrecedence
<1>5. WorstStatus(statuses) = IF "DENY" \in statuses THEN "DENY"
                              ELSE IF "BLOCK" \in statuses THEN "BLOCK"
                              ELSE IF "ERROR" \in statuses THEN "ERROR"
                              ELSE "REQUIRES_APPROVAL"
  <2>1. ASSUME NEW n \in 1..4, StatusPrecedence[n] \in statuses,
               \A j \in 1..(n - 1) : StatusPrecedence[j] \notin statuses
        PROVE  WorstStatus(statuses) = StatusPrecedence[n]
    <3>1. FirstPresent(StatusPrecedence, statuses) = StatusPrecedence[n]
      BY <1>4, <2>1, FirstPresentIs
    <3> QED BY <1>1, <3>1 DEF WorstStatus
  <2>2. CASE "DENY" \in statuses
    BY <1>4, <2>1, <2>2
  <2>3. CASE "DENY" \notin statuses /\ "BLOCK" \in statuses
    <3>1. \A j \in 1..(2 - 1) : j = 1
      OBVIOUS
    <3> QED BY <1>4, <2>1, <2>3, <3>1
  <2>4. CASE statuses \intersect {"DENY", "BLOCK"} = {} /\ "ERROR" \in statuses
    <3>1. \A j \in 1..(3 - 1) : j = 1 \/ j = 2
      OBVIOUS
    <3> QED BY <1>4, <2>1, <2>4, <3>1
  <2>5. CASE statuses = {"REQUIRES_APPROVAL"}
    <3>1. \A j \in 1..(4 - 1) : j = 1 \/ j = 2 \/ j = 3
      OBVIOUS
    <3> QED BY <1>4, <2>1, <2>5, <3>1
  <2> QED BY <1>1, <2>2, <2>3, <2>4, <2>5
<1>6. HighestTier(tiers) = IF "HUMAN_REVIEW" \in tiers THEN "HUMAN_REVIEW" ELSE "MANAGER"
  <2>1. CASE "HUMAN_REVIEW" \in tiers
    <3>1. FirstPresent(TierPrecedence, tiers) = TierPrecedence[1]
      BY <1>4, <2>1, FirstPresentIs
    <3> QED BY <1>2, <1>4, <2>1, <3>1 DEF HighestTier
  <2>2. CASE tiers = {"MANAGER"}
    <3>1. \A j \in 1..(2 - 1) : j = 1
      OBVIOUS
    <3>2. FirstPresent(TierPrecedence, tiers) = TierPrecedence[2]
      BY <1>4, <2>2, <3>1, FirstPresentIs
    <3> QED BY <1>2, <1>4, <2>2, <3>2 DEF HighestTier
  <2> QED BY <1>2, <2>1, <2>2
<1> QED BY <1>3, <1>5, <1>6 DEF Aggregate

\* Nothing to say is a pass.
LEMMA NothingToSay == Aggregate({}) = [status |-> "PASS", tier |-> "AUTO"]
BY DEF Aggregate, WorstStatus, HighestTier

-----------------------------------------------------------------------------
(* The engine's answer *)

MatchesOf(e) == Matches(enabled, e, profile, requested \union held)
Conflicted(e) == ConflictsFor(Conflicts, e) # {}

\* A row that parses speaks of approval or refusal; a broken one of an error.
LEMMA MatchesAreObjections ==
  ASSUME Configured, NEW e PROVE MatchesOf(e) \subseteq Objections
<1>1. ASSUME NEW p \in Policies, Parses(p) PROVE RuleOutcome(p) \in Objections
  <2>1. p \in PolicyRows
    BY EngineConstants
  <2> QED BY <1>1, <2>1 DEF PolicyRows, Parses, RuleOutcome, Objections, Effects, PolicyTypes
<1>2. FailedClosed \in Objections
  BY DEF FailedClosed, Objections
<1> QED BY <1>1, <1>2 DEF MatchesOf, Matches, Configured

\* What an answer is, read off the raw matches.
LEMMA OpennessIs ==
  ASSUME Configured, NEW e \in requested, e \in DOMAIN RiskScore
  PROVE  /\ Openness(Answer(e)) =
              IF Conflicted(e) \/ (\E m \in MatchesOf(e) : m.status \in {"DENY", "BLOCK"}) THEN 0
              ELSE IF \/ ClassifyRisk(RiskScore[e]) = "CRITICAL"
                      \/ \E m \in MatchesOf(e) : m.status = "ERROR" \/ m.tier = "HUMAN_REVIEW"
                   THEN 1
              ELSE IF ClassifyRisk(RiskScore[e]) = "HIGH" \/ MatchesOf(e) # {} THEN 2 ELSE 3
         /\ Requestable(Answer(e)) <=> Openness(Answer(e)) \in {2, 3}
         /\ Answer(e).status = "AUTO_APPROVED" <=> Openness(Answer(e)) = 3
<1> DEFINE M == MatchesOf(e)
           v == Verdict(e)
           level == ClassifyRisk(RiskScore[e])
           statuses == {m.status : m \in M}
           tiers == {m.tier : m \in M}
           out == Outcome(TRUE, level, v, Conflicted(e))
<1>1. M \subseteq Objections
  BY MatchesAreObjections
<1>2. v = Aggregate(M)
  BY DEF Verdict, Validate, EffectiveAccess, MatchesOf
<1>3. Answer(e).status = out.status
  BY DEF Answer, Decide, Conflicted
<1>4. /\ \A x : x \in statuses <=> \E m \in M : m.status = x
      /\ \A x : x \in tiers <=> \E m \in M : m.tier = x
  OBVIOUS
<1>5. M # {} => /\ v.status = IF "DENY" \in statuses THEN "DENY"
                              ELSE IF "BLOCK" \in statuses THEN "BLOCK"
                              ELSE IF "ERROR" \in statuses THEN "ERROR"
                              ELSE "REQUIRES_APPROVAL"
                /\ v.tier = IF "HUMAN_REVIEW" \in tiers THEN "HUMAN_REVIEW" ELSE "MANAGER"
  <2> HIDE DEF M
  <2> QED BY <1>1, <1>2, AggregateIs
<1>6. M = {} => v.status = "PASS" /\ v.tier = "AUTO"
  <2> HIDE DEF M
  <2> QED BY <1>2, NothingToSay
<1>7. /\ (v = [status |-> "REQUIRES_APPROVAL", tier |-> "HUMAN_REVIEW"]
           <=> v.status = "REQUIRES_APPROVAL" /\ v.tier = "HUMAN_REVIEW")
      /\ (v = [status |-> "REQUIRES_APPROVAL", tier |-> "MANAGER"]
           <=> v.status = "REQUIRES_APPROVAL" /\ v.tier = "MANAGER")
  <2> HIDE DEF M
  <2> QED BY <1>2 DEF Aggregate
<1> HIDE DEF v, level, statuses, tiers, M
<1>8. out.status =
        IF Conflicted(e) THEN "BLOCKED"
        ELSE IF v.status = "DENY" THEN "REJECTED"
        ELSE IF v.status = "BLOCK" THEN "BLOCKED"
        ELSE IF v.status = "ERROR" \/ level = "CRITICAL"
                \/ (v.status = "REQUIRES_APPROVAL" /\ v.tier = "HUMAN_REVIEW") THEN "HUMAN_REVIEW"
        ELSE IF level = "HIGH" \/ (v.status = "REQUIRES_APPROVAL" /\ v.tier = "MANAGER")
             THEN "MANAGER_APPROVAL"
        ELSE "AUTO_APPROVED"
  BY <1>7 DEF Outcome
<1> HIDE DEF out
<1>9. Openness(Answer(e)) =
        IF out.status = "AUTO_APPROVED" THEN 3
        ELSE IF out.status = "MANAGER_APPROVAL" THEN 2
        ELSE IF out.status = "HUMAN_REVIEW" THEN 1 ELSE 0
  BY <1>3 DEF Openness
<1>10. Openness(Answer(e)) =
         IF Conflicted(e) \/ "DENY" \in statuses \/ "BLOCK" \in statuses THEN 0
         ELSE IF level = "CRITICAL" \/ "ERROR" \in statuses \/ "HUMAN_REVIEW" \in tiers THEN 1
         ELSE IF level = "HIGH" \/ M # {} THEN 2 ELSE 3
  <2>1. M = {} => statuses = {} /\ tiers = {}
    BY <1>4
  <2>2. M # {} /\ "ERROR" \notin statuses /\ "DENY" \notin statuses /\ "BLOCK" \notin statuses
          => v.status = "REQUIRES_APPROVAL"
    BY <1>5
  <2>3. CASE M = {}
    BY <1>6, <1>8, <1>9, <2>1, <2>3
  <2>4. CASE M # {}
    BY <1>5, <1>8, <1>9, <2>4
  <2> QED BY <2>3, <2>4
<1>11. Requestable(Answer(e)) <=> Openness(Answer(e)) \in {2, 3}
  BY <1>3, <1>8, <1>9 DEF Requestable, RequestableStatuses
<1>12. Answer(e).status = "AUTO_APPROVED" <=> Openness(Answer(e)) = 3
  BY <1>3, <1>8, <1>9
<1> QED BY <1>4, <1>10, <1>11, <1>12 DEF M, level

-----------------------------------------------------------------------------
(* The properties *)

LEMMA AlwaysConfigured == Spec => []Configured
<1>1. Init => Configured
  BY DEF Init, Configured
<1>2. Configured /\ [Next]_vars => Configured'
  BY DEF Configured, Next, vars, EnablePolicy, DisablePolicy, ToggleRule, ToggleHolding, TogglePropose
<1> QED BY <1>1, <1>2, PTL DEF Spec

\* Whoever is granted something is free of conflicts, and so is what is granted.
LEMMA GrantedMeans ==
  ASSUME Configured, NEW e \in Granted
  PROVE  /\ e \in requested /\ ~Conflicted(e)
         /\ \A m \in MatchesOf(e) : m.status \notin {"DENY", "BLOCK", "ERROR"}
<1>1. e \in requested /\ Requestable(Answer(e))
  BY DEF Granted
<1>2. e \in DOMAIN RiskScore
  BY <1>1 DEF Answer, Undecided, Requestable, RequestableStatuses
<1> QED BY <1>1, <1>2, OpennessIs

\* Every variable keeps its type, and the engine always has a verdict that decide()
\* can read (PolicyService._aggregate).
THEOREM EngineTyped == Spec => []TypeOK
<1>1. ASSUME Configured, NEW e \in Entitlements PROVE Verdict(e) \in Verdicts
  <2>1. Verdict(e) = Aggregate(MatchesOf(e))
    BY DEF Verdict, Validate, EffectiveAccess, MatchesOf
  <2>2. CASE MatchesOf(e) = {}
    BY <2>1, <2>2, NothingToSay DEF Verdicts, PolicyStatuses, ApprovalTiers
  <2>3. CASE MatchesOf(e) # {}
    <3>1. /\ Aggregate(MatchesOf(e)).status \in {"DENY", "BLOCK", "ERROR", "REQUIRES_APPROVAL"}
          /\ Aggregate(MatchesOf(e)).tier \in {"HUMAN_REVIEW", "MANAGER"}
      BY <1>1, <2>3, MatchesAreObjections, AggregateIs
    <3>2. Aggregate(MatchesOf(e)) = [status |-> Aggregate(MatchesOf(e)).status,
                                     tier |-> Aggregate(MatchesOf(e)).tier]
      BY DEF Aggregate
    <3> QED BY <2>1, <3>1, <3>2 DEF Verdicts, PolicyStatuses, ApprovalTiers
  <2> QED BY <2>2, <2>3
<1>2. Configured => TypeOK
  BY <1>1 DEF Configured, TypeOK
<1> QED BY <1>2, AlwaysConfigured, PTL

\* While a policy row that cannot be parsed is switched on, nothing is granted
\* (PolicyService._validate_one, _fail_closed).
THEOREM BrokenPolicyGrantsNothing == Spec => []BrokenPolicyWithholdsAll
<1>1. Configured => BrokenPolicyWithholdsAll
  <2> SUFFICES ASSUME Configured, NEW p \in enabled, ~Parses(p), NEW e \in Granted PROVE FALSE
    BY DEF BrokenPolicyWithholdsAll
  <2>1. FailedClosed \in MatchesOf(e) /\ FailedClosed.status = "ERROR"
    BY DEF MatchesOf, Matches, FailedClosed
  <2> QED BY <2>1, GrantedMeans
<1> QED BY <1>1, AlwaysConfigured, PTL

\* Of mutually exclusive entitlements that would come together neither is granted
\* (MutuallyExclusiveEvaluator, PolicyContext.effective_access).
THEOREM ExclusivesAreKeptApart == Spec => []ExclusivesNotGranted
<1>1. Configured => ExclusivesNotGranted
  <2> SUFFICES ASSUME Configured, NEW p \in enabled, Parses(p),
                      p.type = "MUTUALLY_EXCLUSIVE_ENTITLEMENTS",
                      NEW e \in p.ents \intersect Granted
               PROVE  p.ents \intersect (Granted \union held) = {e}
    BY DEF ExclusivesNotGranted
  <2>1. ~Applies(p, e, profile, requested \union held)
    <3> SUFFICES ASSUME Applies(p, e, profile, requested \union held) PROVE FALSE
      OBVIOUS
    <3>1. RuleOutcome(p) \in MatchesOf(e)
      BY DEF MatchesOf, Matches
    <3>2. RuleOutcome(p).status \in {"BLOCK", "DENY"}
      BY DEF RuleOutcome, Parses
    <3> QED BY <3>1, <3>2, GrantedMeans
  <2>2. (p.ents \intersect (requested \union held)) \ {e} = {}
    BY <2>1 DEF Applies
  <2>3. Granted \subseteq requested
    BY DEF Granted
  <2> QED BY <2>2, <2>3
<1> QED BY <1>1, AlwaysConfigured, PTL

\* What is granted completes no toxic pair that is switched on (SodService.check,
\* decide rule 2).
THEOREM EngineGrantsNoToxicPair == Spec => []NoToxicGrant
<1>1. Configured => NoToxicGrant
  <2> SUFFICES ASSUME Configured, NEW rule \in rulesOn, rule \subseteq Granted \union held,
                      NEW e \in rule \intersect Granted
               PROVE  FALSE
    BY DEF NoToxicGrant
  <2>1. Granted \subseteq requested /\ e \in requested
    BY DEF Granted
  <2>2. rule \in ConflictsFor(Conflicts, e)
    BY <2>1 DEF ConflictsFor, Conflicts, SodConflicts
  <2> QED BY <2>2, GrantedMeans DEF Conflicted
<1> QED BY <1>1, AlwaysConfigured, PTL

\* AUTO_APPROVED means that no control has anything to say (decide rule 9).
THEOREM AutoApprovedMeansClean == Spec => []AutoApprovedIffClean
<1>1. Configured => AutoApprovedIffClean
  <2> SUFFICES ASSUME Configured, NEW e \in requested, e \in DOMAIN RiskScore
               PROVE  Answer(e).status = "AUTO_APPROVED" <=>
                        /\ RiskScore[e] <= RiskMediumMax
                        /\ \A p \in enabled :
                             Parses(p) /\ ~Applies(p, e, profile, requested \union held)
                        /\ \A rule \in rulesOn :
                             e \in rule => ~(rule \subseteq requested \union held)
    BY DEF AutoApprovedIffClean
  <2>1. MatchesOf(e) = {} <=>
          \A p \in enabled : Parses(p) /\ ~Applies(p, e, profile, requested \union held)
    BY DEF MatchesOf, Matches
  <2>2. ~Conflicted(e) <=>
          \A rule \in rulesOn : e \in rule => ~(rule \subseteq requested \union held)
    BY DEF Conflicted, ConflictsFor, Conflicts, SodConflicts
  <2>3. RiskScore[e] \in 0..100
    BY EngineConstants
  <2>4. ClassifyRisk(RiskScore[e]) \notin {"HIGH", "CRITICAL"} <=> RiskScore[e] <= RiskMediumMax
    BY <2>3, RiskBandsOrdered DEF ClassifyRisk
  <2>5. Answer(e).status = "AUTO_APPROVED" <=>
          /\ ~Conflicted(e) /\ MatchesOf(e) = {}
          /\ ClassifyRisk(RiskScore[e]) \notin {"HIGH", "CRITICAL"}
    <3>1. Answer(e).status = "AUTO_APPROVED" <=> Openness(Answer(e)) = 3
      BY OpennessIs
    <3>2. Openness(Answer(e)) = 3 <=>
            /\ ~Conflicted(e) /\ MatchesOf(e) = {}
            /\ ClassifyRisk(RiskScore[e]) \notin {"HIGH", "CRITICAL"}
      BY OpennessIs
    <3> QED BY <3>1, <3>2
  <2> QED BY <2>1, <2>2, <2>4, <2>5
<1> QED BY <1>1, AlwaysConfigured, PTL

\* OpennessIs of everything proposed.
Reading ==
  \A e \in requested \intersect DOMAIN RiskScore :
    Openness(Answer(e)) =
      IF Conflicted(e) \/ (\E m \in MatchesOf(e) : m.status \in {"DENY", "BLOCK"}) THEN 0
      ELSE IF \/ ClassifyRisk(RiskScore[e]) = "CRITICAL"
              \/ \E m \in MatchesOf(e) : m.status = "ERROR" \/ m.tier = "HUMAN_REVIEW"
           THEN 1
      ELSE IF ClassifyRisk(RiskScore[e]) = "HIGH" \/ MatchesOf(e) # {} THEN 2 ELSE 3

\* A control switched on, access gained or a further proposal never opens the road
\* to what was proposed before (worst_status, highest_tier, decide's precedence).
THEOREM TighteningOnlyNarrows == Spec => TighteningNeverOpens
<1>1. ASSUME Reading, Reading', UNCHANGED profile,
             enabled \subseteq enabled', rulesOn \subseteq rulesOn',
             held \subseteq held', requested \subseteq requested',
             NEW e \in requested
      PROVE  Openness(Answer(e)') <= Openness(Answer(e))
  <2>1. MatchesOf(e) \subseteq MatchesOf(e)'
    <3>1. \A p : Applies(p, e, profile, requested \union held)
                   => Applies(p, e, profile, requested' \union held')
      BY <1>1 DEF Applies
    <3> QED BY <1>1, <3>1 DEF MatchesOf, Matches
  <2>2. Conflicted(e) => Conflicted(e)'
    BY <1>1 DEF Conflicted, ConflictsFor, Conflicts, SodConflicts
  <2>3. CASE e \notin DOMAIN RiskScore
    <3>1. Answer(e) = Undecided /\ Answer(e)' = Undecided
      BY <2>3 DEF Answer
    <3>2. Openness(Undecided) = 0
      BY DEF Openness, Undecided
    <3> QED BY <3>1, <3>2
  <2>4. CASE e \in DOMAIN RiskScore
    <3>1. e \in requested' \intersect DOMAIN RiskScore
      BY <1>1, <2>4
    <3>2. Openness(Answer(e)') = Openness(Answer(e))'
      BY DEF Openness
    <3> QED BY <1>1, <2>1, <2>2, <3>1, <3>2 DEF Reading
  <2> QED BY <2>3, <2>4
<1>2. Configured => Reading
  BY OpennessIs DEF Reading
<1>3. Reading /\ Reading' /\ [Next]_vars =>
        [(/\ enabled \subseteq enabled' /\ rulesOn \subseteq rulesOn'
          /\ held \subseteq held' /\ requested \subseteq requested')
         => \A e \in requested : Openness(Answer(e)') <= Openness(Answer(e))]_vars
  BY <1>1 DEF Next, EnablePolicy, DisablePolicy, ToggleRule, ToggleHolding, TogglePropose
<1> QED BY <1>2, <1>3, AlwaysConfigured, PTL DEF Spec, TighteningNeverOpens

=============================================================================
