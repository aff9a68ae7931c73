------------------------- MODULE MCGovernanceStore -------------------------
(* One analysis with a conflict and a grant, two access requests for it,   *)
(* one reset.  The chat may produce a query whose limit is over the cap,   *)
(* which counts as none, one whose limit is below it, and one that is      *)
(* refused.                                                                *)
EXTENDS GovernanceStore, TLC

MCAnalyses == {"a1"}
MCEntitlements == {"pay", "vendor", "wiki"}
MCVerdict ==
  [a \in MCAnalyses |->
     [e \in MCEntitlements |->
        CASE e = "pay" -> "BLOCKED" [] e = "vendor" -> "ABSENT" [] e = "wiki" -> "AUTO_APPROVED"]]
MCConflicted == {<<"a1", "pay">>}

Query(from, limit) ==
  [statements |-> 1, select |-> TRUE, forbidden |-> FALSE, tables |-> from, limit |-> limit]
MCQueries ==
  {Query({"recommendations"}, 2), Query({"recommendations"}, 0), Query({"alembic_version"}, 1)}

Swaps == Permutations(Posters)
=============================================================================
