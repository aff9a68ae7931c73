------------------------ MODULE MCAnalysisWorkflow ------------------------
(* A joiner with three colleagues in the department: two share the job    *)
(* role, the third the job level, nobody both, so the search falls back   *)
(* one strategy, and two when both role peers leave.  The entitlements    *)
(* sit in three risk bands; the joiner already holds one side of a toxic  *)
(* pair.                                                                  *)
EXTENDS AnalysisWorkflow

MCPeers == {"role", "level", "other"}
MCSameRole == {"role", "other"}
MCSameLevel == {"level"}

MCEntitlements == {"pay", "vendor", "wiki"}
MCRiskScore ==
  [e \in MCEntitlements |-> CASE e = "pay" -> 90 [] e = "vendor" -> 70 [] e = "wiki" -> 30]
MCSodRules == {{"pay", "vendor"}, {"vendor", "wiki"}}
MCPeerHoldings ==
  [p \in MCPeers |-> CASE p = "role" -> {"vendor", "wiki"}
                       [] p = "other" -> {"wiki"}
                       [] p = "level" -> {"pay", "vendor"}]
MCJoinerHoldings == {"pay"}

Verdict(status, tier) == [status |-> status, tier |-> tier]
MCPolicyOutcomes ==
  {Verdict("PASS", "AUTO"), Verdict("REQUIRES_APPROVAL", "MANAGER"),
   Verdict("ERROR", "HUMAN_REVIEW")}
MCIncluded == {"AUTO_APPROVED", "MANAGER_APPROVAL"}

(* The pair instance: one entitlement short, so that two runs fit. *)
PairEntitlements == {"vendor", "wiki"}
PairRiskScore == [e \in PairEntitlements |-> IF e = "vendor" THEN 70 ELSE 30]
PairPeers == {"role"}
PairPeerHoldings == [p \in PairPeers |-> {"vendor", "wiki"}]
PairSodRules == {{"vendor", "wiki"}}
PairOutcomes == {Verdict("PASS", "AUTO")}
=============================================================================
