-------------------------- MODULE AnalysisWorkflow --------------------------
(***************************************************************************)
(* run_analysis: the eleven-step LangGraph workflow that takes one joiner  *)
(* from an id to a persisted set of access decisions.  Several runs for    *)
(* the same joiner may be in flight.  Each step reads the reference data   *)
(* in a database session of its own, so the data may change between the    *)
(* steps of one run; a step may fail, the commit may be lost, the process  *)
(* may die.                                                                *)
(*                                                                         *)
(* Sources: app/agents/{graph,state}.py, app/agents/nodes/, app/mcp/tools/, *)
(* app/services/, app/db/repositories/, app/db/session.py.                 *)
(***************************************************************************)
EXTENDS GovernanceKernel, PeerAffinity, Sequences

CONSTANTS Runs,            \* analysis ids
          Entitlements,    \* entitlement ids
          RiskScore,       \* entitlements.risk_score of each
          SodRules,        \* the sod_rules rows, each the set of its two sides
          PeerHoldings,    \* what each peer holds at first
          JoinerHoldings,  \* what the joiner holds at first
          PolicyOutcomes,  \* verdicts the policy engine may give here
          MaxFaults,       \* bound: failed calls, lost commits and crashes
          MaxEdits         \* bound: changes of the reference data

ASSUME WorkflowConstants ==
  /\ RiskScore \in [Entitlements -> 0..100]
  /\ SodRules \subseteq SUBSET Entitlements
  /\ PeerHoldings \in [Peers -> SUBSET Entitlements]
  /\ JoinerHoldings \subseteq Entitlements
  /\ PolicyOutcomes \subseteq {v \in Verdicts : v.status # "NOT_EVALUATED"}
  /\ MaxFaults \in Nat /\ MaxEdits \in Nat

VARIABLES state,    \* state[r]: the AccessRecommendationState of run r
          book,     \* book[r]: the audit rows of run r (joiner_analyses, ...)
          catalog,  \* entitlements table: the ids in it
          active,   \* peers whose employment_status is ACTIVE
          holds,    \* employee_entitlements of the peers
          held,     \* employee_entitlements of the joiner
          rules,    \* SoD rules in force (the rows with `enabled` set)
          faults,   \* faults so far
          edits     \* edits of the reference data so far

world == <<catalog, active, holds, held, rules, edits>>
vars == <<state, book, world, faults>>

-----------------------------------------------------------------------------
(* The state threaded through the graph *)

WORKFLOW_STEPS ==
  <<"load_joiner", "profile_joiner", "find_peers", "calculate_affinity",
    "evaluate_risk", "validate_policies", "check_sod", "make_decision",
    "generate_explanation", "generate_sailpoint_payload", "persist_analysis">>

Steps == {WORKFLOW_STEPS[i] : i \in 1..11}
Ended == {"returned", "raised", "dead"}
Running == Steps \union {"connect", "END"}
Pcs == Running \union Ended \union {"idle"}

\* The edge out of a node.
Following(step) ==
  LET i == CHOOSE j \in 1..11 : WORKFLOW_STEPS[j] = step
  IN IF i = 11 THEN "END" ELSE WORKFLOW_STEPS[i + 1]

AnalysisStatuses == {"COMPLETED", "COMPLETED_WITH_WARNINGS", "FAILED"}

\* `errors` and `failed` keep the step an entry names, not its wording.
\* `payload` is {} for None and {items} for a payload asking for `items`.
\* `rulesSeen` and `heldSeen` are what check_sod read; no code reads them.
RunStates ==
  [pc : Pcs, peers : SUBSET Peers, candidates : SUBSET Entitlements,
   requested : SUBSET Entitlements,
   risk : [Entitlements -> RiskLevels \union {"UNASSESSED"}],
   policy : [Entitlements -> Verdicts], conflicts : SUBSET SodRules,
   decisions : [Entitlements -> Decisions], explained : BOOLEAN,
   payload : SUBSET SUBSET Entitlements, errors : SUBSET Steps,
   failed : SUBSET Steps, persisted : BOOLEAN,
   answer : AnalysisStatuses \union {"none"},
   rulesSeen : SUBSET SodRules, heldSeen : SUBSET Entitlements]

NoDecisions == [e \in Entitlements |-> Undecided]

initial_state ==
  [pc |-> "idle", peers |-> {}, candidates |-> {}, requested |-> {},
   risk |-> [e \in Entitlements |-> "UNASSESSED"],
   policy |-> [e \in Entitlements |-> NotEvaluated], conflicts |-> {},
   decisions |-> NoDecisions, explained |-> FALSE, payload |-> {},
   errors |-> {}, failed |-> {}, persisted |-> FALSE, answer |-> "none",
   rulesSeen |-> {}, heldSeen |-> {}]

Decided(decisions) == {e \in Entitlements : decisions[e] # Undecided}
Granted(decisions) == {e \in Entitlements : Requestable(decisions[e])}

\* Mutant of BuildStatus: a run with decisions is complete, errors or not.
BuildStatusOptimistic(s) ==
  IF Decided(s.decisions) # {} THEN "COMPLETED"
  ELSE IF s.errors # {} THEN "FAILED" ELSE "COMPLETED"

\* The status rule of build_result.
BuildStatus(s) ==
  IF s.errors = {} THEN "COMPLETED"
  ELSE IF Decided(s.decisions) = {} THEN "FAILED"
  ELSE "COMPLETED_WITH_WARNINGS"

\* What AnalysisRepository.persist writes: the header row with its errors, the
\* recommendation rows and the SailPoint request row.
Rows == [present : BOOLEAN, status : AnalysisStatuses,
         decisions : [Entitlements -> Decisions],
         payload : SUBSET SUBSET Entitlements, errors : SUBSET Steps,
         explained : BOOLEAN]

NoRow == [present |-> FALSE, status |-> "FAILED", decisions |-> NoDecisions,
          payload |-> {}, errors |-> {}, explained |-> FALSE]

\* Mutant of RowOf: the status is taken from the answer, which is not known yet.
RowOfAnswer(s) ==
  [present |-> TRUE, status |-> s.answer, decisions |-> s.decisions,
   payload |-> s.payload, errors |-> s.errors, explained |-> s.explained]

RowOf(s) ==
  [present |-> TRUE, status |-> BuildStatus(s), decisions |-> s.decisions,
   payload |-> s.payload, errors |-> s.errors, explained |-> s.explained]

Init ==
  /\ state = [r \in Runs |-> initial_state]
  /\ book = [r \in Runs |-> NoRow]
  /\ catalog = Entitlements
  /\ active = Peers
  /\ holds = PeerHoldings
  /\ held = JoinerHoldings
  /\ rules = SodRules
  /\ faults = 0
  /\ edits = 0

-----------------------------------------------------------------------------
(* Building blocks of the steps *)

At(r, step) == state[r].pc = step

Become(r, s) == state' = [state EXCEPT ![r] = s]

\* The node returns its update and the graph follows its one edge.
Continue(r, s) == Become(r, [s EXCEPT !.pc = Following(s.pc)])

\* Mutant of FailStep: the error list is replaced, not appended to.
FailStepOverwrites(r) ==
  Continue(r, [state[r] EXCEPT !.errors = {state[r].pc},
                               !.failed = @ \union {state[r].pc}])

\* Mutant of FailStep: the failed node is tried again, and again.
FailStepRetries(r) ==
  Become(r, [state[r] EXCEPT !.errors = @ \union {state[r].pc},
                             !.failed = @ \union {state[r].pc}])

\* The wrapper of a node that is not fatal: note the failure and go on.
FailStep(r) ==
  Continue(r, [state[r] EXCEPT !.errors = @ \union {state[r].pc},
                               !.failed = @ \union {state[r].pc}])

Quiet == UNCHANGED <<book, world, faults>>

Fault == faults < MaxFaults /\ faults' = faults + 1

-----------------------------------------------------------------------------
(* The run *)

\* run_analysis is called: POST /joiners/{id}/analyze, the MCP tool, a script.
Start(r) ==
  /\ At(r, "idle")
  /\ Become(r, [state[r] EXCEPT !.pc = "connect"])
  /\ Quiet

Connect(r) ==
  /\ At(r, "connect")
  /\ Become(r, [state[r] EXCEPT !.pc = WORKFLOW_STEPS[1]])
  /\ Quiet

LoadJoiner(r) ==
  /\ At(r, "load_joiner")
  /\ Continue(r, state[r])
  /\ Quiet

\* No MCP session can be opened, or the fatal node fails (there is no such
\* employee, or the call does not come back): run_analysis raises.
Raise(r) ==
  /\ At(r, "connect") \/ At(r, "load_joiner")
  /\ Fault
  /\ Become(r, [state[r] EXCEPT !.pc = "raised"])
  /\ UNCHANGED <<book, world>>

\* Past load_joiner there is a profile, so this step finds nothing to report.
ProfileJoiner(r) ==
  /\ At(r, "profile_joiner")
  /\ Continue(r, state[r])
  /\ Quiet

FindPeers(r) ==
  /\ At(r, "find_peers")
  /\ LET group == PeerGroup(active)
         warned == IF Cardinality(group) < MinPeerCount THEN {"find_peers"} ELSE {}
     IN Continue(r, [state[r] EXCEPT !.peers = group, !.errors = @ \union warned])
  /\ Quiet

\* The tool looks the peer ids up again and keeps those that still exist,
\* whatever their employment status has become.
CalculateAffinity(r) ==
  /\ At(r, "calculate_affinity")
  /\ LET group == state[r].peers
     IN Continue(r, [state[r] EXCEPT
                       !.candidates = Candidates(group, holds, catalog),
                       !.requested = AboveThreshold(group, holds, catalog)])
  /\ Quiet

\* All or nothing: one unknown entitlement fails the whole batch.
EvaluateRisk(r) ==
  /\ At(r, "evaluate_risk")
  /\ IF state[r].candidates \subseteq catalog
       THEN Continue(r, [state[r] EXCEPT !.risk =
              [e \in Entitlements |->
                 IF e \in state[r].candidates THEN ClassifyRisk(RiskScore[e])
                 ELSE "UNASSESSED"]])
       ELSE FailStep(r)
  /\ Quiet

ValidatePolicies(r) ==
  /\ At(r, "validate_policies")
  /\ \E verdict \in [state[r].requested -> PolicyOutcomes] :
       Continue(r, [state[r] EXCEPT !.policy =
         [e \in Entitlements |->
            IF e \in state[r].requested THEN verdict[e] ELSE NotEvaluated]])
  /\ Quiet

\* Nothing requested, nothing checked; else the rules and the joiner's own
\* holdings are read now, not when the run began.
CheckSod(r) ==
  /\ At(r, "check_sod")
  /\ Continue(r, [state[r] EXCEPT
                    !.conflicts = SodConflicts(rules, state[r].requested, held),
                    !.rulesSeen = rules, !.heldSeen = held])
  /\ Quiet

\* Mutant of DecideAll: a candidate without a risk level gets the lowest one.
DecideAllAssumingLow(s) ==
  [e \in Entitlements |->
     IF e \notin s.candidates THEN Undecided
     ELSE Decide(e \in s.requested,
                 IF s.risk[e] = "UNASSESSED" THEN "LOW" ELSE s.risk[e],
                 s.policy[e],
                 e \in s.requested /\ ConflictsFor(s.conflicts, e) # {})]

\* DecisionService.decide_all.  A candidate without a risk assessment gets no
\* decision: it is dropped, with a log line and nothing else.
DecideAll(s) ==
  [e \in Entitlements |->
     IF e \notin s.candidates \/ s.risk[e] = "UNASSESSED" THEN Undecided
     ELSE Decide(e \in s.requested, s.risk[e], s.policy[e],
                 e \in s.requested /\ ConflictsFor(s.conflicts, e) # {})]

MakeDecision(r) ==
  /\ At(r, "make_decision")
  /\ Continue(r, [state[r] EXCEPT !.decisions = DecideAll(state[r])])
  /\ Quiet

GenerateExplanation(r) ==
  /\ At(r, "generate_explanation")
  /\ Continue(r, [state[r] EXCEPT !.explained = Decided(state[r].decisions) # {}])
  /\ Quiet

GeneratePayload(r) ==
  /\ At(r, "generate_sailpoint_payload")
  /\ Continue(r, [state[r] EXCEPT !.payload =
       IF Decided(state[r].decisions) = {} THEN {} ELSE {Included(state[r].decisions)}])
  /\ Quiet

\* The step makes a tool call only when it has something to ask about.
Calls(r) ==
  \/ At(r, "find_peers")
  \/ At(r, "calculate_affinity") /\ state[r].peers # {}
  \/ At(r, "evaluate_risk") /\ state[r].candidates # {}
  \/ (At(r, "validate_policies") \/ At(r, "check_sod")) /\ state[r].requested # {}
  \/ /\ At(r, "generate_explanation") \/ At(r, "generate_sailpoint_payload")
     /\ Decided(state[r].decisions) # {}

\* The tool raises, the client times out, the answer does not parse.
NodeFails(r) ==
  /\ Calls(r)
  /\ Fault
  /\ FailStep(r)
  /\ UNCHANGED <<book, world>>

-----------------------------------------------------------------------------
(* Persisting, in one transaction *)

\* Each recommendation row refers to its entitlement.
Insertable(s) == Decided(s.decisions) \subseteq catalog

PersistCommits(r) ==
  /\ At(r, "persist_analysis")
  /\ Insertable(state[r])
  /\ book' = [book EXCEPT ![r] = RowOf(state[r])]
  /\ Continue(r, [state[r] EXCEPT !.persisted = TRUE])
  /\ UNCHANGED <<world, faults>>

\* A foreign key is violated: session_scope rolls back, the node reports.
PersistRejected(r) ==
  /\ At(r, "persist_analysis")
  /\ ~Insertable(state[r])
  /\ FailStep(r)
  /\ Quiet

PersistFails(r) ==
  /\ At(r, "persist_analysis")
  /\ Fault
  /\ FailStep(r)
  /\ UNCHANGED <<book, world>>

\* The server commits and the connection is lost before it says so: to the
\* node this is a failure like any other.
PersistAckLost(r) ==
  /\ At(r, "persist_analysis")
  /\ Insertable(state[r])
  /\ Fault
  /\ book' = [book EXCEPT ![r] = RowOf(state[r])]
  /\ FailStep(r)
  /\ UNCHANGED world

\* Mutant of Return: the caller gets the status of the state, written or not.
ReturnUnchecked(r) ==
  /\ At(r, "END")
  /\ Become(r, [state[r] EXCEPT !.pc = "returned", !.answer = BuildStatus(state[r])])
  /\ Quiet

\* The end of run_analysis: what was not written is reported as FAILED.
Return(r) ==
  /\ At(r, "END")
  /\ LET s == state[r]
     IN Become(r, [s EXCEPT !.pc = "returned",
                            !.answer = IF s.persisted THEN BuildStatus(s) ELSE "FAILED",
                            !.errors = IF s.persisted THEN @
                                       ELSE @ \union {"persist_analysis"}])
  /\ Quiet

\* The session is closed before the answer is built.  A tool call that timed out
\* may still occupy the loop thread; then the thread does not stop in time and
\* closing its loop raises, whatever was written.
CloseRaises(r) ==
  /\ At(r, "END")
  /\ state[r].failed \ {"persist_analysis"} # {}
  /\ Become(r, [state[r] EXCEPT !.pc = "raised"])
  /\ Quiet

\* The process dies, and every run in it.
Crash ==
  /\ \E r \in Runs : state[r].pc \in Running
  /\ Fault
  /\ state' = [r \in Runs |-> IF state[r].pc \in Running
                                THEN [state[r] EXCEPT !.pc = "dead"] ELSE state[r]]
  /\ UNCHANGED <<book, world>>

\* Mutant of RegenerateRequest: whatever was decided about is asked for.
RegenerateUnfiltered(r) ==
  /\ book[r].present
  /\ book' = [book EXCEPT ![r].payload = {Decided(book[r].decisions)}]
  /\ UNCHANGED <<state, world, faults>>

\* POST /access-requests: the payload is generated again, from the decisions as
\* they are recorded, and becomes the analysis' latest request.
RegenerateRequest(r) ==
  /\ book[r].present
  /\ book' = [book EXCEPT ![r].payload = {Included(book[r].decisions)}]
  /\ UNCHANGED <<state, world, faults>>

-----------------------------------------------------------------------------
(* Changes of the reference data, by other writers of the database *)

Edit == edits < MaxEdits /\ edits' = edits + 1

ToggleRule(rule) ==
  /\ Edit
  /\ \A e \in rule : e \in catalog
  /\ rules' = IF rule \in rules THEN rules \ {rule} ELSE rules \union {rule}
  /\ UNCHANGED <<state, book, catalog, active, holds, held, faults>>

Offboard(p) ==
  /\ Edit
  /\ p \in active
  /\ active' = active \ {p}
  /\ UNCHANGED <<state, book, catalog, holds, held, rules, faults>>

TogglePeerHolding(p, e) ==
  /\ Edit
  /\ e \in catalog
  /\ holds' = [holds EXCEPT ![p] = IF e \in @ THEN @ \ {e} ELSE @ \union {e}]
  /\ UNCHANGED <<state, book, catalog, active, held, rules, faults>>

ToggleJoinerHolding(e) ==
  /\ Edit
  /\ e \in catalog
  /\ held' = IF e \in held THEN held \ {e} ELSE held \union {e}
  /\ UNCHANGED <<state, book, catalog, active, holds, rules, faults>>

\* A catalogue row is deleted, and with it (ON DELETE CASCADE) the holdings, the
\* SoD rules and the recommendation rows that refer to it.
RetireEntitlement(e) ==
  /\ Edit
  /\ e \in catalog
  /\ catalog' = catalog \ {e}
  /\ holds' = [p \in Peers |-> holds[p] \ {e}]
  /\ held' = held \ {e}
  /\ rules' = {rule \in rules : e \notin rule}
  /\ book' = [r \in Runs |-> [book[r] EXCEPT !.decisions[e] = Undecided]]
  /\ UNCHANGED <<state, active, faults>>

-----------------------------------------------------------------------------
RunStep(r) ==
  \/ Connect(r) \/ LoadJoiner(r) \/ Raise(r) \/ ProfileJoiner(r) \/ FindPeers(r)
  \/ CalculateAffinity(r) \/ EvaluateRisk(r) \/ ValidatePolicies(r) \/ CheckSod(r)
  \/ MakeDecision(r) \/ GenerateExplanation(r) \/ GeneratePayload(r) \/ NodeFails(r)
  \/ PersistCommits(r) \/ PersistRejected(r) \/ PersistFails(r) \/ PersistAckLost(r)
  \/ Return(r) \/ CloseRaises(r)

Environment ==
  \/ Crash
  \/ \E rule \in SodRules : ToggleRule(rule)
  \/ \E p \in Peers : Offboard(p) \/ \E e \in Entitlements : TogglePeerHolding(p, e)
  \/ \E e \in Entitlements : ToggleJoinerHolding(e) \/ RetireEntitlement(e)

Next ==
  \/ \E r \in Runs : Start(r) \/ RunStep(r) \/ RegenerateRequest(r)
  \/ Environment

\* A run that was started is carried on: the thread serving the request runs the
\* graph to its end, and no call outlives the client's timeout.
Fairness == \A r \in Runs : WF_vars(RunStep(r))

Spec == Init /\ [][Next]_vars
FairSpec == Spec /\ Fairness

-----------------------------------------------------------------------------
(* Properties *)

\* Every variable keeps its type; the bounds hold.
TypeOK ==
  /\ state \in [Runs -> RunStates]
  /\ book \in [Runs -> Rows]
  /\ catalog \subseteq Entitlements
  /\ active \subseteq Peers
  /\ holds \in [Peers -> SUBSET Entitlements]
  /\ held \subseteq Entitlements
  /\ rules \subseteq SodRules
  /\ faults \in 0..MaxFaults
  /\ edits \in 0..MaxEdits

\* All that run r has asked, or is going to ask, an approver or SailPoint for.
AskedFor(r) ==
  Granted(state[r].decisions) \union (UNION state[r].payload) \union (UNION book[r].payload)

\* Nothing a run asks for, in its decisions, in its payload or in a payload
\* generated later from its rows, completes a toxic pair, with itself or with
\* what the joiner held, under the rules the SoD step read; it read none if it
\* failed (SodService.check, decide rule 2, SailPointService, access_requests.py).
GrantsFreeOfToxicPairs ==
  \A r \in Runs : \A rule \in state[r].rulesSeen :
    rule \subseteq AskedFor(r) \union state[r].heldSeen => rule \intersect AskedFor(r) = {}

\* Access granted while one of the two controls did not run.
Uncontrolled(s) ==
  \E e \in Granted(s.decisions) :
    s.decisions[e].policy = "NOT_EVALUATED" \/ "check_sod" \in s.failed

\* A run that grants access past a control that did not run never passes for a
\* complete one, neither to its caller nor in the audit store (build_result).
UncheckedGrantIsFlagged ==
  \A r \in Runs : Uncontrolled(state[r]) =>
    /\ state[r].answer # "COMPLETED"
    /\ book[r].present => book[r].status # "COMPLETED"

\* The store names every step that failed before it was written, whatever
\* failed after (the append reducer of state.py): "a late failure never erases
\* the record of an earlier one".
FailuresOnRecord ==
  \A r \in Runs :
    /\ state[r].failed \subseteq state[r].errors
    /\ book[r].present => state[r].failed \ {"persist_analysis"} \subseteq book[r].errors

\* The store accounts for every candidate the catalogue still has, or, when the
\* risk step failed, for none and then says FAILED; never for some of them
\* (decide_all's missing-risk branch against the all-or-nothing risk batch).
CandidatesAccounted ==
  \A r \in Runs : book[r].present =>
    IF "evaluate_risk" \in state[r].failed
      THEN Decided(book[r].decisions) = {} /\ book[r].status = "FAILED"
      ELSE Decided(book[r].decisions) = state[r].candidates \intersect catalog

\* The service never rewrites the rows of an analysis (only the seed script's
\* --reset deletes them): header and decisions do not change, a decision
\* disappears only with its catalogue entry, and a later access request asks for
\* nothing that is not recorded as granted.
AuditRowsStable ==
  [][\A r \in Runs : book[r].present =>
       /\ book'[r].present /\ book'[r].status = book[r].status
       /\ book'[r].errors = book[r].errors
       /\ \A e \in Entitlements :
            \/ book'[r].decisions[e] = book[r].decisions[e]
            \/ book'[r].decisions[e] = Undecided /\ e \notin catalog'
       /\ book'[r].payload = book[r].payload
          \/ UNION book'[r].payload \subseteq Granted(book[r].decisions)]_vars

\* Every run that was started ends: with an answer, an exception or the process.
EveryRunEnds ==
  \A r \in Runs : state[r].pc \in Running ~> state[r].pc \in Ended

\* What the caller and the store see of a run: see AnalysisLedger.
EntryOf(r) == IF book[r].present THEN book[r].status ELSE "NONE"
AnswerOf(r) ==
  CASE state[r].pc = "idle"     -> "none"
    [] state[r].pc \in Running  -> "waiting"
    [] state[r].pc = "returned" -> state[r].answer
    [] state[r].pc = "raised"   -> "error"
    [] state[r].pc = "dead"     -> "lost"

Ledger == INSTANCE AnalysisLedger
            WITH entry <- [r \in Runs |-> EntryOf(r)],
                 answer <- [r \in Runs |-> AnswerOf(r)]

\* The workflow keeps the promise of the ledger: one entry, written once, one
\* answer, and an answer other than FAILED is the status of the entry.
ImplementsLedger == Ledger!Spec

\* docs/architecture.md: "A control that could not be evaluated becomes
\* HUMAN_REVIEW, never a silent pass."
UnevaluatedControlNeverGrants ==
  \A r \in Runs :
    state[r].failed \intersect {"validate_policies", "check_sod"} # {} =>
      Granted(state[r].decisions) = {}

\* README: SoD is recorded NOT_EVALUATED when it was not checked; "recording PASS
\* would misrepresent the audit trail".
SodPassWasChecked ==
  \A r \in Runs, e \in Entitlements :
    book[r].decisions[e].sod = "PASS" => "check_sod" \notin state[r].failed

\* employee_repo.find_peers: "Only ACTIVE identities are ever considered: leavers
\* ... must not shape somebody else's access".  Whenever a run settles what to
\* request, the peers it goes by are all active.
LeaversShapeNothing ==
  [][\A r \in Runs :
       At(r, "calculate_affinity") /\ state'[r].requested # {} =>
         state[r].peers \subseteq active]_vars

\* decide_all: a candidate without risk "should not happen: risk is evaluated for
\* every candidate".
RiskForEveryCandidate ==
  \A r \in Runs :
    At(r, "make_decision") => \A e \in state[r].candidates : state[r].risk[e] # "UNASSESSED"
=============================================================================
