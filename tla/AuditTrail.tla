----------------------------- MODULE AuditTrail -----------------------------
(***************************************************************************)
(* What the audit trail promises those who look into it, without saying in *)
(* which tables and by how many statements it is written: an analysis is   *)
(* entered once, with everything that belongs to it; what is added later   *)
(* are requests, one a call, for what it granted; nothing is altered; and  *)
(* what goes goes with its analysis, for good.  GovernanceStore implements *)
(* it.                                                                     *)
(*                                                                         *)
(* Sources: app/db/models/analysis.py, app/db/repositories/                *)
(* analysis_repo.py, app/api/routes/access_requests.py,                    *)
(* scripts/seed_database.py purge_analyses.                                *)
(***************************************************************************)
CONSTANTS Analyses,  \* analysis ids
          Callers,   \* calls of POST /access-requests
          Decided,   \* Decided[a]: the decisions of analysis a
          Granted    \* Granted[a]: the entitlements they grant

VARIABLE trail       \* trail[a]: what is to be found of analysis a

Nothing(status) ==
  [status |-> status, decisions |-> {}, findings |-> {}, explanations |-> {}, asked |-> {}]

Request(a, by) == [by |-> by, items |-> Granted[a]]

Init == trail = [a \in Analyses |-> Nothing("unwritten")]

\* What a run asks for with its analysis: nothing if it decided nothing, and perhaps
\* nothing although it did, as a run may do without explanations.
OwnRequests(a) == IF Decided[a] = {} THEN {{}} ELSE {{}, {Request(a, "run")}}

\* A run enters its analysis, explained or not, asking for access or not.
Enter(a) ==
  /\ trail[a].status = "unwritten"
  /\ \E told \in {{}, Decided[a]}, own \in OwnRequests(a) :
       trail' = [trail EXCEPT ![a] =
                   [status |-> "stored", decisions |-> Decided[a], findings |-> Decided[a],
                    explanations |-> told, asked |-> own]]

\* A call adds a request, once, to an analysis that is there.
AskAgain(a, p) ==
  /\ trail[a].status = "stored"
  /\ \A b \in Analyses : \A r \in trail[b].asked : r.by # p
  /\ trail' = [trail EXCEPT ![a].asked = @ \union {Request(a, p)}]

\* A reset takes analyses out, with everything that belongs to them.
Delete(A) ==
  /\ \A a \in A : trail[a].status = "stored"
  /\ trail' = [a \in Analyses |-> IF a \in A THEN Nothing("deleted") ELSE trail[a]]

Next ==
  \/ \E A \in SUBSET Analyses : Delete(A)
  \/ \E a \in Analyses : Enter(a) \/ \E p \in Callers : AskAgain(a, p)

Spec == Init /\ [][Next]_trail
=============================================================================
