----------------------------- MODULE AuditReads -----------------------------
(***************************************************************************)
(* Reading the audit trail back while it is written: GET /analyses/{id},   *)
(* which rebuilds an analysis from one statement per table, and GET        *)
(* /dashboard, which counts with one statement per number.  Neither is a   *)
(* snapshot.                                                               *)
(*                                                                         *)
(* Sources: app/db/repositories/analysis_repo.py get, _to_domain and       *)
(* dashboard_metrics, app/services/analysis_service.py,                    *)
(* app/api/routes/{analyses,dashboard}.py.                                 *)
(***************************************************************************)
EXTENDS AuditStore, Sequences

VARIABLES get,    \* a call of GET /analyses/{id}: what its statements returned
          board   \* a call of GET /dashboard: the numbers counted so far

readVars == <<get, board>>

\* Mutant of GetSteps: the requests are loaded before the recommendations.
GetStepsRequestsFirst ==
  <<"idle", "row", "requests", "recommendations", "findings", "explanations", "done">>

\* The statements of get(), in the order in which the relationships load.
GetSteps == <<"idle", "row", "recommendations", "findings", "explanations", "requests", "done">>
GetPcs == {GetSteps[i] : i \in 1..7} \union {"missing"}

\* The numbers of dashboard_metrics, in the order of its arguments.  The two
\* risk counts are counts of recommendations like the six before them.
Counts ==
  <<"total_analyses", "total_recommendations", "AUTO_APPROVED", "MANAGER_APPROVAL",
    "HUMAN_REVIEW", "BLOCKED", "REJECTED", "NOT_RECOMMENDED", "sailpoint_requests">>

ReadInit ==
  /\ get = [pc |-> "idle", analysis |-> "none", recommendations |-> {}, findings |-> {},
            explanations |-> {}, requests |-> {}, wiped |-> FALSE]
  /\ board = [counted |-> <<>>, started |-> FALSE, wiped |-> FALSE]

-----------------------------------------------------------------------------
(* GET /analyses/{id} *)

NextGet(pc) == GetSteps[CHOOSE i \in 2..7 : GetSteps[i - 1] = pc]

\* One reader at a time is enough (bound): readers do not see each other.
GetBegins(a) ==
  /\ get.pc = "idle" /\ ~board.started
  /\ run[a].pc = "answered"
  /\ get' = [get EXCEPT !.pc = "row", !.analysis = a, !.wiped = (wipe.pc = "done")]
  /\ UNCHANGED <<storeVars, board>>

GetFindsRow ==
  /\ get.pc = "row"
  /\ get' = [get EXCEPT !.pc = IF get.analysis \in analyses THEN NextGet("row") ELSE "missing"]
  /\ UNCHANGED <<storeVars, board>>

Load(table, rows) ==
  /\ get.pc = table
  /\ get' = [get EXCEPT ![table] = rows, !.pc = NextGet(table)]
  /\ UNCHANGED <<storeVars, board>>

\* The four tables below a recommendation are asked for the recommendations just
\* seen; the requests come last.
GetLoads ==
  \/ Load("recommendations", {row \in recommendations : row[1] = get.analysis})
  \/ Load("findings", findings \intersect get.recommendations)
  \/ Load("explanations", explanations \intersect get.recommendations)
  \/ Load("requests", {r \in requests : r.analysis = get.analysis})

\* Mutant of Latest: the oldest one, the list sorted the other way.
LatestReversed(rs) == {r \in rs : \A q \in rs : r.stamp <= q.stamp}

\* The request shown: the one with the latest created_at, if there is any.
Latest(rs) == {r \in rs : \A q \in rs : q.stamp <= r.stamp}

\* What _to_domain makes of it.  The overall SoD status is read off the rows of
\* conflicts, not off the decisions.
ShownPayload == UNION {r.items : r \in Latest(get.requests)}
ShownSod == IF get.findings \intersect Conflicted # {} THEN "CONFLICT" ELSE "PASS"

-----------------------------------------------------------------------------
(* GET /dashboard *)

CountOf(metric) ==
  CASE metric = "total_analyses" -> Cardinality(analyses)
    [] metric = "total_recommendations" -> Cardinality(recommendations)
    [] metric = "sailpoint_requests" -> Cardinality(requests)
    [] OTHER -> Cardinality({row \in recommendations : Verdict[row[1]][row[2]] = metric})

BoardBegins ==
  /\ ~board.started /\ get.pc = "idle"
  /\ board' = [counted |-> <<>>, started |-> TRUE, wiped |-> (wipe.pc = "done")]
  /\ UNCHANGED <<storeVars, get>>

\* Mutant of BoardCounts: the numbers are asked for in the opposite order.
BoardCountsBackwards ==
  /\ board.started /\ Len(board.counted) < Len(Counts)
  /\ LET n == Len(Counts) - Len(board.counted)
     IN board' = [board EXCEPT !.counted = <<CountOf(Counts[n])>> \o @]
  /\ UNCHANGED <<storeVars, get>>

BoardCounts ==
  /\ board.started /\ Len(board.counted) < Len(Counts)
  /\ board' = [board EXCEPT !.counted = Append(@, CountOf(Counts[Len(@) + 1]))]
  /\ UNCHANGED <<storeVars, get>>

ReadNext ==
  \/ \E a \in Analyses : GetBegins(a)
  \/ GetFindsRow \/ GetLoads \/ BoardBegins \/ BoardCounts

-----------------------------------------------------------------------------
(* Properties *)

\* No table of the store has more rows.
MostRows == Cardinality(Analyses \X Entitlements) + Cardinality(Analyses) + Cardinality(Posters)

\* Every variable keeps its type.
ReadTypeOK ==
  /\ get.pc \in GetPcs /\ get.analysis \in Analyses \union {"none"}
  /\ get.recommendations \subseteq Analyses \X Entitlements
  /\ get.findings \subseteq get.recommendations
  /\ get.explanations \subseteq get.recommendations
  /\ get.requests \subseteq RequestRows
  /\ board.counted \in Seq(0..MostRows)
  /\ Len(board.counted) <= Len(Counts)

\* No reset was committed while the reader was at it.
Undisturbed(reader) == reader.wiped = (wipe.pc = "done")

\* An analysis that is read back while runs and access requests go on is the one
\* that was written: every decision with its findings, SoD conflicts where the
\* decisions have them, and a payload for what was granted, unless the run's payload
\* step failed and no request was found that had been made since.  Only a reset that
\* is committed in between can tear it.
ReadBackIsWhole ==
  get.pc = "done" /\ Undisturbed(get) =>
    /\ get.recommendations = RowsOf(get.analysis)
    /\ get.findings = get.recommendations
    /\ get.explanations = Explained(get.analysis)
    /\ ShownSod = IF RowsOf(get.analysis) \intersect Conflicted # {} THEN "CONFLICT" ELSE "PASS"
    /\ run[get.analysis].payload => get.requests # {}
    /\ get.requests # {} => ShownPayload = Requestable(RowsOf(get.analysis))

\* Even a torn read never shows a request for access that it does not show as
\* granted (the requests are loaded after the decisions).
NothingAskedForUnseen ==
  get.pc = "done" => ShownPayload \subseteq Requestable(get.recommendations)

\* The request shown for an analysis was not superseded: no other request that was
\* seen had been made by a client that knew of it.  created_at is the time the
\* transaction began, and transactions do not end in the order they begin.
ShownRequestNotSuperseded ==
  get.pc = "done" =>
    \A r \in Latest(get.requests), q \in get.requests :
      /\ q.by \in Posters /\ r.by \in Posters => r.by \notin post[q.by].after
      /\ r.by = "run" => q.by = "run"

\* The outcomes on the dashboard add up to at least the total, whatever is stored
\* while it counts, unless a reset is committed meanwhile.
DashboardAddsUp ==
  Len(board.counted) = Len(Counts) /\ Undisturbed(board) =>
    board.counted[2] <= board.counted[3] + board.counted[4] + board.counted[5]
                        + board.counted[6] + board.counted[7] + board.counted[8]
=============================================================================
