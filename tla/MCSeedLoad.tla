----------------------------- MODULE MCSeedLoad -----------------------------
(***************************************************************************)
(* Three small extracts.  In "second" an identity of "first" has become a  *)
(* joiner, a score and a holding are gone, a held name is described        *)
(* nowhere, a manager is known and a policy is another; "third" has a risk *)
(* row without a score and holds one name twice.                           *)
(***************************************************************************)
EXTENDS SeedLoad

MCVersions == {"first", "second", "third"}
MCNames == {"a", "b", "c"}
MCIds == {"p", "q", "m"}
MCPolicyIds == {"P1", "P2"}
MCSodIds == {"S1"}

MCExtract ==
  [first  |-> [catalog    |-> <<"a", "b">>,
               risks      |-> <<[name |-> "a", score |-> 10], [name |-> "b", score |-> 20]>>,
               identities |-> <<[id |-> "p", holds |-> <<"a", "b">>]>>,
               joiners    |-> <<[id |-> "q", manager |-> "m"]>>,
               policies   |-> <<[id |-> "P1", form |-> "risk_score", value |-> 70],
                                [id |-> "P2", form |-> "birthright", value |-> 0]>>,
               sod        |-> <<[id |-> "S1", first |-> "a", second |-> "b"]>>],
   second |-> [catalog    |-> <<"a">>,
               risks      |-> <<[name |-> "a", score |-> 30], [name |-> "a", score |-> 40]>>,
               identities |-> <<[id |-> "q", holds |-> <<"c">>], [id |-> "m", holds |-> <<>>]>>,
               joiners    |-> <<[id |-> "p", manager |-> "m"]>>,
               policies   |-> <<[id |-> "P1", form |-> "other", value |-> 0],
                                [id |-> "P2", form |-> "risk_score", value |-> 90]>>,
               sod        |-> <<[id |-> "S1", first |-> "b", second |-> "c"]>>],
   third  |-> [catalog    |-> <<>>,
               risks      |-> <<[name |-> "a", score |-> Blank]>>,
               identities |-> <<[id |-> "m", holds |-> <<"a", "a">>]>>,
               joiners    |-> <<>>,
               policies   |-> <<[id |-> "P1", form |-> "affinity_score", value |-> 70]>>,
               sod        |-> <<>>]]
=============================================================================
