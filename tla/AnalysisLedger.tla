--------------------------- MODULE AnalysisLedger ---------------------------
(***************************************************************************)
(* What an analysis promises its caller, without saying how: each request  *)
(* gets at most one answer, the audit store gets at most one entry for it, *)
(* the entry is never rewritten, and an answer other than FAILED is the    *)
(* status of the entry.  AnalysisWorkflow implements it.                   *)
(*                                                                         *)
(* Sources: app/agents/graph.py run_analysis, app/services/                *)
(* analysis_service.py, app/db/models/analysis.py JoinerAnalysis.          *)
(***************************************************************************)
CONSTANT Runs                  \* analysis ids

AnalysisStatuses == {"COMPLETED", "COMPLETED_WITH_WARNINGS", "FAILED"}

VARIABLES entry,    \* entry[r]: joiner_analyses.status of the row, or "NONE"
          answer    \* answer[r]: what the caller of run_analysis has seen

TypeOK ==
  /\ entry \in [Runs -> AnalysisStatuses \union {"NONE"}]
  /\ answer \in [Runs -> AnalysisStatuses \union {"none", "waiting", "error", "lost"}]

Init ==
  /\ entry = [r \in Runs |-> "NONE"]
  /\ answer = [r \in Runs |-> "none"]

Reply(r, a) == answer[r] = "waiting" /\ answer' = [answer EXCEPT ![r] = a]

Request(r) ==
  /\ answer[r] = "none"
  /\ answer' = [answer EXCEPT ![r] = "waiting"]
  /\ UNCHANGED entry

\* The one transaction that writes the analysis.
Record(r, status) ==
  /\ answer[r] = "waiting" /\ entry[r] = "NONE"
  /\ entry' = [entry EXCEPT ![r] = status]
  /\ UNCHANGED answer

AnswerRecorded(r) ==
  /\ entry[r] # "NONE"
  /\ Reply(r, entry[r])
  /\ UNCHANGED entry

\* The caller is told the analysis could not be written.  It may have been: the
\* commit can succeed and its acknowledgement be lost.
AnswerUnrecorded(r) == Reply(r, "FAILED") /\ UNCHANGED entry

\* An exception.  It says nothing of the entry: most often there is none, but the
\* tool session can also fail to close after the entry was written.
AnswerError(r) == Reply(r, "error") /\ UNCHANGED entry

\* The process died with the requests in Z unanswered.
Lose(Z) ==
  /\ \A r \in Z : answer[r] = "waiting"
  /\ answer' = [r \in Runs |-> IF r \in Z THEN "lost" ELSE answer[r]]
  /\ UNCHANGED entry

Next ==
  \/ \E r \in Runs : \/ Request(r) \/ AnswerRecorded(r)
                     \/ AnswerUnrecorded(r) \/ AnswerError(r)
                     \/ \E status \in AnalysisStatuses : Record(r, status)
  \/ \E Z \in SUBSET Runs : Lose(Z)

Spec == Init /\ [][Next]_<<entry, answer>>
=============================================================================
