---------------------------- MODULE PeerAffinity ----------------------------
(***************************************************************************)
(* Peer selection and entitlement affinity: which colleagues count as peers *)
(* of a joiner, and which of their entitlements clear the threshold.  No    *)
(* state.                                                                  *)
(*                                                                         *)
(* Sources: app/services/{peer,affinity}_service.py,                       *)
(* app/db/repositories/employee_repo.py.                                   *)
(***************************************************************************)
EXTENDS Integers, FiniteSets

CONSTANTS Peers,          \* the other employees of the joiner's department
          SameRole,       \* those with the joiner's job role
          SameLevel,      \* those with the joiner's job level
          MinPeerCount,   \* settings.min_peer_count
          Threshold       \* settings.affinity_threshold, in hundredths of a percent

ASSUME PeerConstants ==
  /\ SameRole \subseteq Peers /\ SameLevel \subseteq Peers
  /\ MinPeerCount \in Nat \ {0}
  /\ Threshold \in 0..10000

\* STRATEGY_ORDER with _criteria_for: what each strategy leaves of the active
\* colleagues, from the most to the least precise.
Strategies(active) ==
  <<active \intersect SameRole \intersect SameLevel, active \intersect SameRole,
    active \intersect SameLevel, active>>

\* PeerAnalysisService.find_peers: the group of the first strategy that finds
\* anybody; nobody at all when the department has no other active identity.
PeerGroup(active) ==
  LET found == {i \in 1..4 : Strategies(active)[i] # {}}
  IN IF found = {} THEN {}
     ELSE Strategies(active)[CHOOSE i \in found : \A j \in found : i <= j]

\* calculate_affinity_score, in hundredths of a percent: round(h/n * 100, 2),
\* ties to even as Python rounds them.
AffinityScore(h, n) ==
  LET q == (10000 * h) \div n
      twice == 2 * ((10000 * h) % n)
  IN IF n <= 0 THEN 0
     ELSE IF twice > n \/ (twice = n /\ q % 2 = 1) THEN q + 1 ELSE q

\* The peers of a group that hold e.
Holders(group, holds, e) == {p \in group : e \in holds[p]}

\* EntitlementAffinity.meets_threshold: the bound is inclusive.
MeetsThreshold(group, holds, e) ==
  AffinityScore(Cardinality(Holders(group, holds, e)), Cardinality(group)) >= Threshold

\* AffinityService.calculate: what any peer holds and the catalogue knows.
Candidates(group, holds, catalog) ==
  {e \in catalog : Holders(group, holds, e) # {}}

\* AffinityAnalysisResult.above_threshold
AboveThreshold(group, holds, catalog) ==
  {e \in Candidates(group, holds, catalog) : MeetsThreshold(group, holds, e)}
=============================================================================
