----------------------------- MODULE AuditStore -----------------------------
(***************************************************************************)
(* The tables that hold the audit trail and those who write them: runs that *)
(* persist their analysis in one transaction, POST /access-requests, and   *)
(* the seed script's --reset.  The database is at READ COMMITTED: a        *)
(* statement sees what was committed when it began, so a transaction of    *)
(* several statements may see several states of the store.                 *)
(*                                                                         *)
(* Sources: app/db/repositories/analysis_repo.py, app/db/models/           *)
(* analysis.py, app/db/session.py, app/api/routes/access_requests.py,      *)
(* app/api/dependencies.py, scripts/seed_database.py purge_analyses.       *)
(***************************************************************************)
EXTENDS Explanations, Naturals, FiniteSets

CONSTANTS Analyses,     \* analysis ids
          Entitlements, \* entitlement ids
          Verdict,      \* what each analysis decided: a status or "ABSENT"
          Conflicted,   \* the pairs <<analysis, entitlement>> with SoD conflicts
          Posters       \* calls of POST /access-requests

RecommendationStatuses ==
  {"AUTO_APPROVED", "MANAGER_APPROVAL", "HUMAN_REVIEW", "BLOCKED", "REJECTED",
   "NOT_RECOMMENDED"}

ASSUME StoreConstants ==
  /\ Verdict \in [Analyses -> [Entitlements -> RecommendationStatuses \union {"ABSENT"}]]
  /\ Conflicted \subseteq Analyses \X Entitlements
  /\ "run" \notin Posters
  /\ IsFiniteSet(Analyses) /\ IsFiniteSet(Entitlements) /\ IsFiniteSet(Posters)

VARIABLES run,        \* run[a]: the run that produces analysis a
          post,       \* post[p]: a call of POST /access-requests
          wipe,       \* the transaction of --reset
          analyses,   \* rows of joiner_analyses
          recommendations, \* rows of recommendations
          findings,   \* recommendations that have their evidence, policy and SoD rows
          explanations,    \* recommendations that have their explanation row
          requests,   \* rows of sailpoint_requests
          clock,      \* the database's clock: ticks when a transaction begins
          llm,        \* llm_enabled
          lateCommit  \* the framework ends a dependency after the response is sent

tables == <<analyses, recommendations, findings, explanations, requests>>
config == <<llm, lateCommit>>
storeVars == <<run, post, wipe, tables, clock, config>>

\* The rows of each analysis, as pairs.
Decided ==
  [a \in Analyses |-> {<<a, e>> : e \in {x \in Entitlements : Verdict[a][x] # "ABSENT"}}]
RowsOf(a) == Decided[a]

\* What SailPointService asks for, given the recommendation rows it is shown.
Requestable(rows) ==
  {row[2] : row \in {x \in rows : Verdict[x[1]][x[2]] \in {"AUTO_APPROVED", "MANAGER_APPROVAL"}}}

\* What each analysis grants.
Granted == [a \in Analyses |-> Requestable(Decided[a])]

RunPcs == {"deciding", "explained", "packed", "writing", "answered", "failed"}
PostPcs ==
  {"idle", "begun", "found", "read", "inserted", "acknowledged", "committed",
   "created", "missing", "failed", "lost"}
WipePcs ==
  {"idle", "details", "requests", "recommendations", "analyses", "commit", "done", "failed"}

NothingGone == [details |-> {}, requests |-> {}, recommendations |-> {}, analyses |-> {}]

RequestRows ==
  [analysis : Analyses, by : Posters \union {"run"}, stamp : Nat,
   items : SUBSET Entitlements]

Init ==
  /\ run = [a \in Analyses |-> [pc |-> "deciding", narrators |-> {}, generator |-> "none",
                                payload |-> FALSE, stamp |-> 0]]
  /\ post = [p \in Posters |-> [pc |-> "idle", analysis |-> "none", stamp |-> 0,
                                items |-> {}, after |-> {}]]
  /\ wipe = [pc |-> "idle", gone |-> NothingGone]
  /\ analyses = {} /\ recommendations = {} /\ findings = {} /\ explanations = {}
  /\ requests = {}
  /\ clock = 0
  /\ llm \in BOOLEAN /\ lateCommit \in BOOLEAN

-----------------------------------------------------------------------------
(* A run *)

RunTo(a, r) == run' = [run EXCEPT ![a] = r]

\* ExplanationService.explain: one narrative per decision, each by whoever can
\* write it; the answer names one generator for all.
Explain(a) ==
  /\ run[a].pc = "deciding"
  /\ \E reply \in [RowsOf(a) -> LlmReplies] :
       LET by == {Narrator(llm, reply[row]) : row \in RowsOf(a)}
       IN RunTo(a, [run[a] EXCEPT !.pc = "explained", !.narrators = by,
                                  !.generator = WholeGenerator(by)])
  /\ UNCHANGED <<post, wipe, tables, clock, config>>

\* The step failed, or the model was so slow for so many decisions that the tool
\* call ran out of time: then not even the template's narratives are left.
ExplainAbandoned(a) ==
  /\ run[a].pc = "deciding"
  /\ RunTo(a, [run[a] EXCEPT !.pc = "explained"])
  /\ UNCHANGED <<post, wipe, tables, clock, config>>

\* generate_sailpoint_payload: no decisions, no payload.
GeneratePayload(a) ==
  /\ run[a].pc = "explained"
  /\ RunTo(a, [run[a] EXCEPT !.pc = "packed", !.payload = (RowsOf(a) # {})])
  /\ UNCHANGED <<post, wipe, tables, clock, config>>

\* The step failed like any other that is not the first: the decisions stay, and the
\* run goes on without a payload.
PayloadFails(a) ==
  /\ run[a].pc = "explained"
  /\ RunTo(a, [run[a] EXCEPT !.pc = "packed"])
  /\ UNCHANGED <<post, wipe, tables, clock, config>>

BeginPersist(a) ==
  /\ run[a].pc = "packed"
  /\ clock' = clock + 1
  /\ RunTo(a, [run[a] EXCEPT !.pc = "writing", !.stamp = clock'])
  /\ UNCHANGED <<post, wipe, tables, config>>

\* The request rows of a run: one, if it has a payload.
OwnRequest(a) ==
  IF run[a].payload
    THEN {[analysis |-> a, by |-> "run", stamp |-> run[a].stamp, items |-> Requestable(RowsOf(a))]}
    ELSE {}

Explained(a) == IF run[a].generator = "none" THEN {} ELSE RowsOf(a)

\* Mutant of CommitPersist: every decision is committed by itself.
CommitPersistPiecemeal(a) ==
  /\ run[a].pc = "writing"
  /\ analyses' = analyses \union {a}
  /\ \E row \in RowsOf(a) : recommendations' = recommendations \union {row}
  /\ findings' = recommendations' /\ explanations' = Explained(a) \intersect recommendations'
  /\ requests' = requests \union OwnRequest(a)
  /\ RunTo(a, [run[a] EXCEPT !.pc = IF RowsOf(a) \subseteq recommendations' THEN "answered"
                                    ELSE "writing"])
  /\ UNCHANGED <<post, wipe, clock, config>>

\* AnalysisRepository.persist and the commit.
CommitPersist(a) ==
  /\ run[a].pc = "writing"
  /\ analyses' = analyses \union {a}
  /\ recommendations' = recommendations \union RowsOf(a)
  /\ findings' = findings \union RowsOf(a)
  /\ explanations' = explanations \union Explained(a)
  /\ requests' = requests \union OwnRequest(a)
  /\ RunTo(a, [run[a] EXCEPT !.pc = "answered"])
  /\ UNCHANGED <<post, wipe, clock, config>>

PersistRollsBack(a) ==
  /\ run[a].pc = "writing"
  /\ RunTo(a, [run[a] EXCEPT !.pc = "failed"])
  /\ UNCHANGED <<post, wipe, tables, clock, config>>

-----------------------------------------------------------------------------
(* POST /access-requests: reads the analysis, generates, inserts, all in the *)
(* one transaction of the request                                            *)

PostTo(p, r) == post' = [post EXCEPT ![p] = r]

Acknowledged == {p \in Posters : post[p].pc \in {"acknowledged", "created", "lost"}}

\* The client has the id from an answer, or from a list of what was stored.
\* `after` are the calls the client knows to have succeeded; no code reads it.
PostBegins(p, a) ==
  /\ post[p].pc = "idle"
  /\ run[a].pc = "answered"
  /\ clock' = clock + 1
  /\ PostTo(p, [post[p] EXCEPT !.pc = "begun", !.analysis = a, !.stamp = clock',
                               !.after = Acknowledged \ {p}])
  /\ UNCHANGED <<run, wipe, tables, config>>

PostFindsRow(p) ==
  /\ post[p].pc = "begun"
  /\ PostTo(p, [post[p] EXCEPT !.pc = IF post[p].analysis \in analyses THEN "found"
                                      ELSE "missing"])
  /\ UNCHANGED <<run, wipe, tables, clock, config>>

\* The recommendation rows come with a statement of their own.
PostReadsRows(p) ==
  /\ post[p].pc = "found"
  /\ LET rows == {row \in recommendations : row[1] = post[p].analysis}
     IN PostTo(p, [post[p] EXCEPT !.pc = "read", !.items = Requestable(rows)])
  /\ UNCHANGED <<run, wipe, tables, clock, config>>

\* Mutant of PostInserts: the request row does not refer to its analysis.
PostInsertsUnchecked(p) ==
  /\ post[p].pc = "read"
  /\ PostTo(p, [post[p] EXCEPT !.pc = "inserted"])
  /\ UNCHANGED <<run, wipe, tables, clock, config>>

\* The foreign key locks the analysis row; if --reset has just deleted it, this
\* waits for that transaction, and fails once the row is gone.
PostInserts(p) ==
  /\ post[p].pc = "read"
  /\ post[p].analysis \notin wipe.gone.analyses
  /\ PostTo(p, [post[p] EXCEPT !.pc = IF post[p].analysis \in analyses THEN "inserted"
                                      ELSE "failed"])
  /\ UNCHANGED <<run, wipe, tables, clock, config>>

\* Mutant of PostAcknowledges: whatever the framework, 201 comes first.
PostAcknowledgesEarly(p) ==
  /\ post[p].pc = "inserted"
  /\ PostTo(p, [post[p] EXCEPT !.pc = "acknowledged"])
  /\ UNCHANGED <<run, wipe, tables, clock, config>>

\* 201 before the commit: what newer frameworks do.
PostAcknowledges(p) ==
  /\ post[p].pc = "inserted" /\ lateCommit
  /\ PostTo(p, [post[p] EXCEPT !.pc = "acknowledged"])
  /\ UNCHANGED <<run, wipe, tables, clock, config>>

RequestRow(p) ==
  [analysis |-> post[p].analysis, by |-> p, stamp |-> post[p].stamp, items |-> post[p].items]

\* Mutant of PostCommits: an analysis keeps one request, the new one.
PostCommitsInstead(p) ==
  /\ post[p].pc = IF lateCommit THEN "acknowledged" ELSE "inserted"
  /\ requests' = {r \in requests : r.analysis # post[p].analysis} \union {RequestRow(p)}
  /\ PostTo(p, [post[p] EXCEPT !.pc = IF lateCommit THEN "created" ELSE "committed"])
  /\ UNCHANGED <<run, wipe, analyses, recommendations, findings, explanations, clock, config>>

PostCommits(p) ==
  /\ post[p].pc = IF lateCommit THEN "acknowledged" ELSE "inserted"
  /\ requests' = requests \union {RequestRow(p)}
  /\ PostTo(p, [post[p] EXCEPT !.pc = IF lateCommit THEN "created" ELSE "committed"])
  /\ UNCHANGED <<run, wipe, analyses, recommendations, findings, explanations, clock, config>>

PostAnswers(p) ==
  /\ post[p].pc = "committed"
  /\ PostTo(p, [post[p] EXCEPT !.pc = "created"])
  /\ UNCHANGED <<run, wipe, tables, clock, config>>

\* The commit fails, or the process dies before it: the row is not there, and with
\* a late commit the client has been told it is.
PostIsLost(p) ==
  /\ post[p].pc \in {"inserted", "acknowledged"}
  /\ PostTo(p, [post[p] EXCEPT !.pc = IF post[p].pc = "acknowledged" THEN "lost" ELSE "failed"])
  /\ UNCHANGED <<run, wipe, tables, clock, config>>

-----------------------------------------------------------------------------
(* seed_database.py --reset: one transaction, table by table, children first. *)
(* `gone` are the rows each statement deleted, seen by nobody else until the  *)
(* commit.                                                                    *)

Wipe(pc, table, rows) ==
  wipe' = [wipe EXCEPT !.pc = pc, !.gone[table] = rows]

WipeBegins ==
  /\ wipe.pc = "idle"
  /\ wipe' = [wipe EXCEPT !.pc = "details"]
  /\ UNCHANGED <<run, post, tables, clock, config>>

\* Explanations, evidence, policy results and SoD results: four statements, which
\* delete what hangs on a recommendation.
WipeDetails ==
  /\ wipe.pc = "details"
  /\ Wipe("requests", "details", findings \union explanations)
  /\ UNCHANGED <<run, post, tables, clock, config>>

WipeRequests ==
  /\ wipe.pc = "requests"
  /\ Wipe("recommendations", "requests", requests)
  /\ UNCHANGED <<run, post, tables, clock, config>>

\* Mutant of WipeRecommendations: the statement is a transaction of its own.
WipeRecommendationsAlone ==
  /\ wipe.pc = "recommendations"
  /\ Wipe("analyses", "recommendations", recommendations)
  /\ recommendations' = {} /\ findings' = {} /\ explanations' = {}
  /\ UNCHANGED <<run, post, analyses, requests, clock, config>>

WipeRecommendations ==
  /\ wipe.pc = "recommendations"
  /\ Wipe("analyses", "recommendations", recommendations)
  /\ UNCHANGED <<run, post, tables, clock, config>>

\* Deletes the analyses it sees now, also those stored since the reset began; it
\* waits for a request row that is being inserted for one of them.
WipeAnalyses ==
  /\ wipe.pc = "analyses"
  /\ \A p \in Posters : post[p].pc \notin {"inserted", "acknowledged"}
  /\ Wipe("commit", "analyses", analyses)
  /\ UNCHANGED <<run, post, tables, clock, config>>

\* Mutant of WipeCommits: the schema does not cascade.
WipeCommitsPlainly ==
  /\ wipe.pc = "commit"
  /\ analyses' = analyses \ wipe.gone.analyses
  /\ recommendations' = recommendations \ wipe.gone.recommendations
  /\ findings' = findings \ wipe.gone.details
  /\ explanations' = explanations \ wipe.gone.details
  /\ requests' = requests \ wipe.gone.requests
  /\ wipe' = [pc |-> "done", gone |-> NothingGone]
  /\ UNCHANGED <<run, post, clock, config>>

\* ON DELETE CASCADE takes along what refers to a deleted row, whether or not a
\* statement of the reset had seen it.
WipeCommits ==
  /\ wipe.pc = "commit"
  /\ analyses' = analyses \ wipe.gone.analyses
  /\ LET left == {row \in recommendations \ wipe.gone.recommendations : row[1] \in analyses'}
     IN /\ recommendations' = left
        /\ findings' = (findings \ wipe.gone.details) \intersect left
        /\ explanations' = (explanations \ wipe.gone.details) \intersect left
  /\ requests' = {r \in requests \ wipe.gone.requests : r.analysis \in analyses'}
  /\ wipe' = [pc |-> "done", gone |-> NothingGone]
  /\ UNCHANGED <<run, post, clock, config>>

\* The seeding that follows in the same transaction fails.
WipeRollsBack ==
  /\ wipe.pc \notin {"idle", "done", "failed"}
  /\ wipe' = [pc |-> "failed", gone |-> NothingGone]
  /\ UNCHANGED <<run, post, tables, clock, config>>

-----------------------------------------------------------------------------
PostStep(p) ==
  \/ PostFindsRow(p) \/ PostReadsRows(p) \/ PostInserts(p) \/ PostAcknowledges(p)
  \/ PostCommits(p) \/ PostAnswers(p) \/ PostIsLost(p)

WipeStep ==
  \/ WipeDetails \/ WipeRequests \/ WipeRecommendations \/ WipeAnalyses
  \/ WipeCommits \/ WipeRollsBack

RunStep(a) ==
  \/ Explain(a) \/ ExplainAbandoned(a) \/ GeneratePayload(a) \/ PayloadFails(a)
  \/ BeginPersist(a) \/ CommitPersist(a) \/ PersistRollsBack(a)

StoreNext ==
  \/ \E a \in Analyses : RunStep(a) \/ \E p \in Posters : PostBegins(p, a)
  \/ \E p \in Posters : PostStep(p)
  \/ WipeBegins \/ WipeStep

-----------------------------------------------------------------------------
(* Properties *)

\* Every variable keeps its type.
StoreTypeOK ==
  /\ run \in [Analyses -> [pc : RunPcs, generator : Generators \union {"none"},
                           narrators : SUBSET Generators, payload : BOOLEAN, stamp : Nat]]
  /\ post \in [Posters -> [pc : PostPcs, analysis : Analyses \union {"none"}, stamp : Nat,
                           items : SUBSET Entitlements, after : SUBSET Posters]]
  /\ wipe.pc \in WipePcs
  /\ analyses \subseteq Analyses
  /\ recommendations \subseteq Analyses \X Entitlements
  /\ findings \subseteq Analyses \X Entitlements
  /\ explanations \subseteq Analyses \X Entitlements
  /\ requests \subseteq RequestRows
  /\ clock \in 0..Cardinality(Analyses) + Cardinality(Posters)
  /\ llm \in BOOLEAN /\ lateCommit \in BOOLEAN

\* However a reset, runs and access requests interleave, an analysis is in the
\* store with everything its run had to write, or nothing of it is ("There is no
\* partially-persisted analysis for an auditor to misread").  A run whose explanation
\* or payload step failed has no explanations or no request to write.
WholeOrGone ==
  \A a \in Analyses :
    /\ {row \in recommendations : row[1] = a} = IF a \in analyses THEN RowsOf(a) ELSE {}
    /\ {row \in findings : row[1] = a} = IF a \in analyses THEN RowsOf(a) ELSE {}
    /\ {row \in explanations : row[1] = a}
         = IF a \in analyses THEN Explained(a) ELSE {}
    /\ {r \in requests : r.analysis = a /\ r.by = "run"}
         = IF a \in analyses THEN OwnRequest(a) ELSE {}

\* A stored request asks for exactly what its analysis granted, although the
\* transaction that generates it reads the analysis in several statements and may
\* have seen half of it go (create_access_request).
RequestsAskWhatWasGranted ==
  \A r \in requests : r.analysis \in analyses /\ r.items = Requestable(RowsOf(r.analysis))

\* A request the client was told of is in the store, unless a reset has taken the
\* analysis away, or the framework answers before it commits and the commit is
\* still to come or did not succeed.
AcknowledgedIsStored ==
  \A p \in Acknowledged :
    \/ RequestRow(p) \in requests
    \/ wipe.pc = "done" /\ post[p].pc = "created"
    \/ lateCommit /\ post[p].pc \in {"acknowledged", "lost"}

\* An analysis that reports the model as its narrator has no narrative of the
\* template's, and one whose model failed for some decision says so (explain).
FallbackIsVisible ==
  \A a \in Analyses : run[a].generator # "none" =>
    /\ run[a].generator = "LLM" => run[a].narrators = {"LLM"}
    /\ "DETERMINISTIC_FALLBACK" \in run[a].narrators
         => run[a].generator = "DETERMINISTIC_FALLBACK"

\* What is to be found of an analysis, all tables together: see AuditTrail.
Asked(a) ==
  {[by |-> r.by, items |-> r.items] : r \in {q \in requests : q.analysis = a}}
Fate(a) ==
  IF a \in analyses THEN "stored" ELSE IF run[a].pc = "answered" THEN "deleted" ELSE "unwritten"
Found(a) ==
  [status       |-> Fate(a),
   decisions    |-> {row \in recommendations : row[1] = a},
   findings     |-> {row \in findings : row[1] = a},
   explanations |-> {row \in explanations : row[1] = a},
   asked        |-> Asked(a)]

Trail == INSTANCE AuditTrail
           WITH Callers <- Posters, trail <- [a \in Analyses |-> Found(a)]

\* The five tables together keep the promise of the audit trail, whatever runs, calls
\* and a reset do to them statement by statement: entered once and whole, a request a
\* call, nothing altered, and what goes goes with its analysis.
ImplementsTrail == Trail!Spec
=============================================================================
