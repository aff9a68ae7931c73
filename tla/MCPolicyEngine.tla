--------------------------- MODULE MCPolicyEngine ---------------------------
(* A small governance store for TLC: three catalogued entitlements, one per *)
(* risk band that matters, one policy row of each type, and one more that    *)
(* lists the same entitlement twice.                                         *)
EXTENDS PolicyEngine

MCEntitlements == {"pay", "vendor", "wiki"}
MCRiskScore ==
  [e \in {"pay", "vendor", "wiki"} |->
     CASE e = "pay" -> 90 [] e = "vendor" -> 70 [] e = "wiki" -> 30]

Row(type, ents, score, names, level, tier, effect) ==
  [type |-> type, ents |-> ents, length |-> Cardinality(ents), score |-> score, names |-> names,
   level |-> level, tier |-> tier, effect |-> effect]

Exclusive == Row("MUTUALLY_EXCLUSIVE_ENTITLEMENTS", {"vendor", "wiki"}, NoScore, {}, 0, "NONE", "BLOCK")
Doubled == [Row("MUTUALLY_EXCLUSIVE_ENTITLEMENTS", {"wiki"}, NoScore, {}, 0, "NONE", "BLOCK")
              EXCEPT !.length = 2]
Elevated == Row("RISK_THRESHOLD_APPROVAL", {}, 70, {}, 0, "HUMAN_REVIEW", "BLOCK")
Watched == Row("RISK_THRESHOLD_APPROVAL", {}, 30, {}, 0, "MANAGER", "BLOCK")
Contract == Row("EMPLOYMENT_TYPE_RESTRICTION", {}, 70, {"CONTRACTOR"}, 0, "NONE", "DENY")
Senior == Row("JOB_LEVEL_RESTRICTION", {"vendor"}, NoScore, {}, 3, "NONE", "REQUIRES_APPROVAL")
Inland == Row("LOCATION_RESTRICTION", {"wiki"}, NoScore, {"DE"}, 0, "NONE", "DENY")
Desk == Row("DEPARTMENT_RESTRICTION", {"pay", "wiki"}, NoScore, {"AP"}, 0, "NONE", "BLOCK")
NoSelector == Row("EMPLOYMENT_TYPE_RESTRICTION", {}, NoScore, {"CONTRACTOR"}, 0, "NONE", "DENY")
VagueLevel == Row("JOB_LEVEL_RESTRICTION", {"wiki"}, NoScore, {}, Unreadable, "NONE", "BLOCK")

MCPolicies == {Exclusive, Doubled, Elevated, Watched, Contract, Senior, Inland, Desk, NoSelector}
VaguePolicies == {Watched, Senior, VagueLevel}
MCSodRules == {{"pay", "vendor"}, {"vendor", "wiki"}}

Person(type, location, department, level) ==
  [type |-> type, location |-> location, department |-> department, level |-> level]
MCProfiles == {Person("CONTRACTOR", "US", "AP", Unreadable),
               Person("EMPLOYEE", "DE", "IT", 3)}
MCIncluded == {"AUTO_APPROVED", "MANAGER_APPROVAL"}
=============================================================================
