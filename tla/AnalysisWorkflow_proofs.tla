----------------------- MODULE AnalysisWorkflow_proofs -----------------------
(***************************************************************************)
(* Type correctness of the analysis workflow.  TypeOK is inductive as it   *)
(* stands; there is one lemma per action.  At the end, what is true of the *)
(* affinity's arithmetic for every peer group.                             *)
(***************************************************************************)
EXTENDS AnalysisWorkflow, FiniteSetTheorems, TLAPS

\* The edge out of a node leads to a node or to END.
LEMMA FollowingType == ASSUME NEW s \in Steps PROVE Following(s) \in Pcs
<1> DEFINE i == CHOOSE j \in 1..11 : WORKFLOW_STEPS[j] = s
<1>1. PICK j \in 1..11 : WORKFLOW_STEPS[j] = s
  BY DEF Steps
<1>2. i \in 1..11 /\ WORKFLOW_STEPS[i] = s
  BY <1>1
<1>3. CASE i = 11
  BY <1>3 DEF Following, Pcs, Running
<1>4. CASE i # 11
  <2>1. i + 1 \in 1..11
    BY <1>2, <1>4
  <2>2. WORKFLOW_STEPS[i + 1] \in Steps
    BY <2>1 DEF Steps
  <2> QED BY <2>2, <1>4 DEF Following, Pcs, Running
<1> QED BY <1>3, <1>4

\* The kernel gives values of the declared types, for every risk score in range.
LEMMA KernelTypes ==
  /\ NotEvaluated \in Verdicts
  /\ Undecided \in Decisions
  /\ \A score \in 0..100 : ClassifyRisk(score) \in RiskLevels
  /\ \A meets, conflicted \in BOOLEAN, level \in RiskLevels, verdict \in Verdicts :
       Decide(meets, level, verdict, conflicted) \in Decisions
<1>1. NotEvaluated \in Verdicts /\ Undecided \in Decisions
  BY DEF NotEvaluated, Undecided, Verdicts, Decisions, PolicyStatuses, ApprovalTiers, SodStatuses
<1>2. ASSUME NEW score \in 0..100 PROVE ClassifyRisk(score) \in RiskLevels
  BY DEF ClassifyRisk, RiskLevels
<1>3. ASSUME NEW meets \in BOOLEAN, NEW conflicted \in BOOLEAN, NEW level \in RiskLevels,
             NEW verdict \in Verdicts
      PROVE Decide(meets, level, verdict, conflicted) \in Decisions
  BY DEF Decide, Outcome, Decisions, Verdicts, RecommendationStatuses, ApprovalTiers,
         PolicyStatuses, SodStatuses
<1> QED BY <1>1, <1>2, <1>3

\* Replacing the state of one run by a typed one keeps the states typed.
LEMMA UpdateTyped ==
  ASSUME TypeOK, NEW r \in Runs, NEW s \in RunStates, Become(r, s)
  PROVE  state' \in [Runs -> RunStates]
BY DEF TypeOK, Become

\* Moving a run along the edge out of its node keeps its state typed.
LEMMA AdvanceTyped ==
  ASSUME NEW s \in RunStates, s.pc \in Steps
  PROVE  [s EXCEPT !.pc = Following(s.pc)] \in RunStates
<1>1. Following(s.pc) \in Pcs
  BY FollowingType
<1> QED BY <1>1 DEF RunStates

\* A node that returns a typed state and goes on keeps the states typed.
LEMMA ContinueTyped ==
  ASSUME TypeOK, NEW r \in Runs, NEW s \in RunStates, s.pc \in Steps, Continue(r, s)
  PROVE  state' \in [Runs -> RunStates]
BY AdvanceTyped, UpdateTyped DEF Continue

\* A node that notes its failure and goes on keeps the states typed.
LEMMA FailStepTyped ==
  ASSUME TypeOK, NEW r \in Runs, state[r].pc \in Steps, FailStep(r)
  PROVE  state' \in [Runs -> RunStates]
<1> DEFINE s == [state[r] EXCEPT !.errors = @ \union {state[r].pc},
                                !.failed = @ \union {state[r].pc}]
<1>1. state[r] \in RunStates
  BY DEF TypeOK
<1>2. s \in RunStates /\ s.pc = state[r].pc
  BY <1>1 DEF RunStates
<1>3. Continue(r, s)
  BY DEF FailStep
<1> QED BY <1>2, <1>3, ContinueTyped

\* The initial state is typed.
LEMMA InitTyped == Init => TypeOK
<1> SUFFICES ASSUME Init PROVE TypeOK
  OBVIOUS
<1>1. NoDecisions \in [Entitlements -> Decisions]
  BY KernelTypes DEF NoDecisions
<1>2. initial_state \in RunStates
  BY <1>1, KernelTypes DEF initial_state, RunStates, Pcs
<1>3. NoRow \in Rows
  BY <1>1 DEF NoRow, Rows, AnalysisStatuses
<1> QED BY <1>2, <1>3, WorkflowConstants DEF Init, TypeOK

\* Moving a run to any control point, and nothing else, keeps the states typed.
LEMMA EndTyped ==
  ASSUME TypeOK, NEW r \in Runs, NEW pc \in Pcs, Become(r, [state[r] EXCEPT !.pc = pc])
  PROVE  state' \in [Runs -> RunStates]
<1>1. state[r] \in RunStates
  BY DEF TypeOK
<1>2. [state[r] EXCEPT !.pc = pc] \in RunStates
  BY <1>1 DEF RunStates
<1> QED BY <1>2, UpdateTyped

\* The world part of TypeOK is kept by a step that leaves the world alone.
LEMMA QuietTyped ==
  ASSUME TypeOK, Quiet, state' \in [Runs -> RunStates]
  PROVE  TypeOK'
BY DEF TypeOK, Quiet, world

\* A counted fault that leaves the rows and the world alone stays within its bound.
LEMMA FaultTyped ==
  ASSUME TypeOK, Fault, UNCHANGED <<book, world>>, state' \in [Runs -> RunStates]
  PROVE  TypeOK'
BY WorkflowConstants DEF TypeOK, Fault, world

\* run_analysis being called keeps the type.
LEMMA StartTyped == ASSUME TypeOK, NEW r \in Runs, Start(r) PROVE TypeOK'
<1>1. "connect" \in Pcs
  BY DEF Pcs, Running
<1> QED BY <1>1, EndTyped, QuietTyped DEF Start

\* Opening the tool session keeps the type.
LEMMA ConnectTyped == ASSUME TypeOK, NEW r \in Runs, Connect(r) PROVE TypeOK'
<1>1. WORKFLOW_STEPS[1] \in Pcs
  BY DEF Pcs, Running, Steps
<1> QED BY <1>1, EndTyped, QuietTyped DEF Connect

\* A node that only passes its state on keeps the type.
LEMMA IdleStepTyped ==
  ASSUME TypeOK, NEW r \in Runs, state[r].pc \in Steps, Continue(r, state[r]), Quiet
  PROVE  TypeOK'
<1>1. state[r] \in RunStates
  BY DEF TypeOK
<1> QED BY <1>1, ContinueTyped, QuietTyped

\* A run that raises keeps the type.
LEMMA RaiseTyped == ASSUME TypeOK, NEW r \in Runs, Raise(r) PROVE TypeOK'
<1>1. "raised" \in Pcs
  BY DEF Pcs, Ended
<1> QED BY <1>1, EndTyped, FaultTyped DEF Raise

\* Peers are taken from the active colleagues, under every strategy.
LEMMA PeerGroupTyped == ASSUME TypeOK PROVE PeerGroup(active) \in SUBSET Peers
<1> DEFINE found == {i \in 1..4 : Strategies(active)[i] # {}}
<1>1. \A i \in 1..4 : Strategies(active)[i] \in SUBSET Peers
  BY PeerConstants DEF TypeOK, Strategies
<1>2. CASE found = {}
  BY <1>2 DEF PeerGroup
<1>3. CASE found # {}
  <2> DEFINE first == CHOOSE i \in found : \A j \in found : i <= j
  <2>1. \E i \in found : \A j \in found : i <= j
    <3>1. PICK k \in 1..4 : k \in found
      BY <1>3
    <3> HIDE DEF found
    <3>2. 1 \in found \/ 2 \in found \/ 3 \in found \/ 4 \in found
      BY <3>1
    <3>3. found \subseteq 1..4
      BY DEF found
    <3> QED BY <3>2, <3>3
  <2>2. first \in found
    BY <2>1
  <2> QED BY <2>2, <1>1, <1>3 DEF PeerGroup
<1> QED BY <1>2, <1>3

\* find_peers keeps the type: the group is of peers, the warning names a step.
LEMMA FindPeersTyped == ASSUME TypeOK, NEW r \in Runs, FindPeers(r) PROVE TypeOK'
<1> DEFINE group == PeerGroup(active)
           warned == IF Cardinality(group) < MinPeerCount THEN {"find_peers"} ELSE {}
           s == [state[r] EXCEPT !.peers = group, !.errors = @ \union warned]
<1>1. group \in SUBSET Peers
  BY PeerGroupTyped
<1>2. "find_peers" \in Steps
  BY DEF Steps, WORKFLOW_STEPS
<1>3. state[r] \in RunStates
  BY DEF TypeOK
<1> HIDE DEF group
<1>4. s \in RunStates /\ s.pc \in Steps
  BY <1>1, <1>2, <1>3 DEF RunStates, FindPeers, At
<1>5. Continue(r, s)
  BY DEF FindPeers, group
<1>6. Quiet
  BY DEF FindPeers
<1> QED BY <1>4, <1>5, <1>6, ContinueTyped, QuietTyped

\* calculate_affinity keeps the type: candidates and requests are entitlements.
LEMMA CalculateAffinityTyped ==
  ASSUME TypeOK, NEW r \in Runs, CalculateAffinity(r) PROVE TypeOK'
<1> DEFINE group == state[r].peers
           s == [state[r] EXCEPT !.candidates = Candidates(group, holds, catalog),
                                 !.requested = AboveThreshold(group, holds, catalog)]
<1>1. /\ Candidates(group, holds, catalog) \in SUBSET Entitlements
      /\ AboveThreshold(group, holds, catalog) \in SUBSET Entitlements
  BY DEF TypeOK, Candidates, AboveThreshold
<1>2. state[r] \in RunStates /\ state[r].pc \in Steps
  BY DEF TypeOK, CalculateAffinity, At, Steps, WORKFLOW_STEPS
<1>3. s \in RunStates /\ s.pc \in Steps
  <2>1. ASSUME NEW a \in SUBSET Entitlements, NEW b \in SUBSET Entitlements
        PROVE  LET t == [state[r] EXCEPT !.candidates = a, !.requested = b]
               IN t \in RunStates /\ t.pc \in Steps
    BY <1>2 DEF RunStates
  <2> QED BY <1>1, <2>1
<1>4. Continue(r, s) /\ Quiet
  BY DEF CalculateAffinity
<1> QED BY <1>3, <1>4, ContinueTyped, QuietTyped

\* evaluate_risk keeps the type, whether the batch is assessed or fails.
LEMMA EvaluateRiskTyped ==
  ASSUME TypeOK, NEW r \in Runs, EvaluateRisk(r) PROVE TypeOK'
<1> DEFINE risk == [e \in Entitlements |->
                      IF e \in state[r].candidates THEN ClassifyRisk(RiskScore[e])
                      ELSE "UNASSESSED"]
           s == [state[r] EXCEPT !.risk = risk]
<1>1. risk \in [Entitlements -> RiskLevels \union {"UNASSESSED"}]
  BY KernelTypes, WorkflowConstants
<1>2. state[r] \in RunStates /\ state[r].pc \in Steps
  BY DEF TypeOK, EvaluateRisk, At, Steps, WORKFLOW_STEPS
<1>3. Quiet
  BY DEF EvaluateRisk
<1>4. CASE state[r].candidates \subseteq catalog
  <2> HIDE DEF risk
  <2>1. s \in RunStates /\ s.pc \in Steps
    BY <1>1, <1>2 DEF RunStates
  <2>2. Continue(r, s)
    BY <1>4 DEF EvaluateRisk, risk
  <2> QED BY <2>1, <2>2, <1>3, ContinueTyped, QuietTyped
<1>5. CASE ~(state[r].candidates \subseteq catalog)
  BY <1>2, <1>3, <1>5, FailStepTyped, QuietTyped DEF EvaluateRisk
<1> QED BY <1>4, <1>5

\* validate_policies keeps the type: an entitlement not asked about has no verdict.
LEMMA ValidatePoliciesTyped ==
  ASSUME TypeOK, NEW r \in Runs, ValidatePolicies(r) PROVE TypeOK'
<1>1. PICK verdict \in [state[r].requested -> PolicyOutcomes] :
        Continue(r, [state[r] EXCEPT !.policy =
          [e \in Entitlements |->
             IF e \in state[r].requested THEN verdict[e] ELSE NotEvaluated]])
  BY DEF ValidatePolicies
<1> DEFINE policy == [e \in Entitlements |->
                        IF e \in state[r].requested THEN verdict[e] ELSE NotEvaluated]
           s == [state[r] EXCEPT !.policy = policy]
<1>2. policy \in [Entitlements -> Verdicts]
  BY KernelTypes, WorkflowConstants
<1>3. state[r] \in RunStates /\ state[r].pc \in Steps /\ Quiet
  BY DEF TypeOK, ValidatePolicies, At, Steps, WORKFLOW_STEPS
<1>4. Continue(r, s)
  BY <1>1
<1> HIDE DEF policy
<1>5. s \in RunStates /\ s.pc \in Steps
  BY <1>2, <1>3 DEF RunStates
<1> QED BY <1>3, <1>4, <1>5, ContinueTyped, QuietTyped

\* check_sod keeps the type: conflicts are rules, and what was read is remembered.
LEMMA CheckSodTyped == ASSUME TypeOK, NEW r \in Runs, CheckSod(r) PROVE TypeOK'
<1> DEFINE found == SodConflicts(rules, state[r].requested, held)
           s == [state[r] EXCEPT !.conflicts = found, !.rulesSeen = rules,
                                 !.heldSeen = held]
<1>1. found \in SUBSET SodRules
  BY DEF SodConflicts, TypeOK
<1>2. state[r] \in RunStates /\ state[r].pc \in Steps
  BY DEF TypeOK, CheckSod, At, Steps, WORKFLOW_STEPS
<1>3. Continue(r, s) /\ Quiet
  BY DEF CheckSod
<1>4. rules \in SUBSET SodRules /\ held \in SUBSET Entitlements
  BY DEF TypeOK
<1> HIDE DEF found
<1>5. s \in RunStates /\ s.pc \in Steps
  BY <1>1, <1>2, <1>4 DEF RunStates
<1> QED BY <1>3, <1>5, ContinueTyped, QuietTyped

\* decide_all decides about entitlements, and every decision is typed.
LEMMA DecideAllTyped ==
  ASSUME NEW s \in RunStates PROVE DecideAll(s) \in [Entitlements -> Decisions]
<1>1. ASSUME NEW e \in Entitlements, e \in s.candidates, s.risk[e] # "UNASSESSED"
      PROVE  Decide(e \in s.requested, s.risk[e], s.policy[e],
                    e \in s.requested /\ ConflictsFor(s.conflicts, e) # {}) \in Decisions
  <2>1. s.risk[e] \in RiskLevels /\ s.policy[e] \in Verdicts
    BY <1>1 DEF RunStates
  <2>2. /\ (e \in s.requested) \in BOOLEAN
        /\ (e \in s.requested /\ ConflictsFor(s.conflicts, e) # {}) \in BOOLEAN
    OBVIOUS
  <2>3. \A m, c \in BOOLEAN : Decide(m, s.risk[e], s.policy[e], c) \in Decisions
    BY <2>1, KernelTypes
  <2> QED BY <2>2, <2>3
<1> QED BY <1>1, KernelTypes DEF DecideAll

\* make_decision keeps the type.
LEMMA MakeDecisionTyped ==
  ASSUME TypeOK, NEW r \in Runs, MakeDecision(r) PROVE TypeOK'
<1> DEFINE decisions == DecideAll(state[r])
           s == [state[r] EXCEPT !.decisions = decisions]
<1>1. state[r] \in RunStates /\ state[r].pc \in Steps
  BY DEF TypeOK, MakeDecision, At, Steps, WORKFLOW_STEPS
<1>2. decisions \in [Entitlements -> Decisions]
  BY <1>1, DecideAllTyped
<1>3. Continue(r, s) /\ Quiet
  BY DEF MakeDecision
<1> HIDE DEF decisions
<1>4. s \in RunStates /\ s.pc \in Steps
  BY <1>1, <1>2 DEF RunStates
<1> QED BY <1>3, <1>4, ContinueTyped, QuietTyped

\* generate_explanation keeps the type.
LEMMA GenerateExplanationTyped ==
  ASSUME TypeOK, NEW r \in Runs, GenerateExplanation(r) PROVE TypeOK'
<1> DEFINE made == Decided(state[r].decisions) # {}
           s == [state[r] EXCEPT !.explained = made]
<1>1. state[r] \in RunStates /\ state[r].pc \in Steps /\ made \in BOOLEAN
  BY DEF TypeOK, GenerateExplanation, At, Steps, WORKFLOW_STEPS
<1>2. Continue(r, s) /\ Quiet
  BY DEF GenerateExplanation
<1> HIDE DEF made
<1>3. s \in RunStates /\ s.pc \in Steps
  BY <1>1 DEF RunStates
<1> QED BY <1>2, <1>3, ContinueTyped, QuietTyped

\* A SailPoint payload asks for entitlements.
LEMMA IncludedTyped ==
  ASSUME NEW d \in [Entitlements -> Decisions] PROVE Included(d) \in SUBSET Entitlements
BY DEF Included

\* generate_sailpoint_payload keeps the type.
LEMMA GeneratePayloadTyped ==
  ASSUME TypeOK, NEW r \in Runs, GeneratePayload(r) PROVE TypeOK'
<1> DEFINE payload == IF Decided(state[r].decisions) = {} THEN {}
                      ELSE {Included(state[r].decisions)}
           s == [state[r] EXCEPT !.payload = payload]
<1>1. state[r] \in RunStates /\ state[r].pc \in Steps
  BY DEF TypeOK, GeneratePayload, At, Steps, WORKFLOW_STEPS
<1>2. payload \in SUBSET SUBSET Entitlements
  <2>1. state[r].decisions \in [Entitlements -> Decisions]
    BY <1>1 DEF RunStates
  <2> QED BY <2>1, IncludedTyped
<1>3. Continue(r, s) /\ Quiet
  BY DEF GeneratePayload
<1> HIDE DEF payload
<1>4. s \in RunStates /\ s.pc \in Steps
  BY <1>1, <1>2 DEF RunStates
<1> QED BY <1>3, <1>4, ContinueTyped, QuietTyped

\* A failed tool call keeps the type.
LEMMA NodeFailsTyped == ASSUME TypeOK, NEW r \in Runs, NodeFails(r) PROVE TypeOK'
<1>1. state[r].pc \in Steps
  BY DEF NodeFails, Calls, At, Steps, WORKFLOW_STEPS
<1> QED BY <1>1, FailStepTyped, FaultTyped DEF NodeFails

\* The rows made from a typed state are typed: the status is one the column accepts.
LEMMA RowTyped == ASSUME NEW s \in RunStates PROVE RowOf(s) \in Rows
<1>1. BuildStatus(s) \in AnalysisStatuses
  BY DEF BuildStatus, AnalysisStatuses
<1> QED BY <1>1 DEF RowOf, Rows, RunStates

\* Writing the rows of a typed run keeps the audit store typed.
LEMMA WrittenTyped ==
  ASSUME TypeOK, NEW r \in Runs, book' = [book EXCEPT ![r] = RowOf(state[r])]
  PROVE  book' \in [Runs -> Rows]
<1>1. RowOf(state[r]) \in Rows
  BY RowTyped DEF TypeOK
<1> QED BY <1>1 DEF TypeOK

\* Every outcome of the persist transaction keeps the type.
LEMMA PersistTyped ==
  ASSUME TypeOK, NEW r \in Runs,
         PersistCommits(r) \/ PersistRejected(r) \/ PersistFails(r) \/ PersistAckLost(r)
  PROVE  TypeOK'
<1>1. state[r] \in RunStates /\ state[r].pc \in Steps
  BY DEF TypeOK, PersistCommits, PersistRejected, PersistFails, PersistAckLost,
         At, Steps, WORKFLOW_STEPS
<1>2. CASE PersistCommits(r)
  <2> DEFINE s == [state[r] EXCEPT !.persisted = TRUE]
  <2>1. s \in RunStates /\ s.pc \in Steps
    BY <1>1 DEF RunStates
  <2>2. Continue(r, s) /\ UNCHANGED <<world, faults>>
    BY <1>2 DEF PersistCommits
  <2>3. state' \in [Runs -> RunStates]
    BY <2>1, <2>2, ContinueTyped
  <2>4. book' \in [Runs -> Rows]
    BY <1>2, WrittenTyped DEF PersistCommits
  <2> QED BY <2>2, <2>3, <2>4 DEF TypeOK, world
<1>3. CASE PersistRejected(r)
  BY <1>1, <1>3, FailStepTyped, QuietTyped DEF PersistRejected
<1>4. CASE PersistFails(r)
  BY <1>1, <1>4, FailStepTyped, FaultTyped DEF PersistFails
<1>5. CASE PersistAckLost(r)
  <2>1. state' \in [Runs -> RunStates]
    BY <1>1, <1>5, FailStepTyped DEF PersistAckLost
  <2>2. book' \in [Runs -> Rows]
    BY <1>5, WrittenTyped DEF PersistAckLost
  <2>3. Fault /\ UNCHANGED world
    BY <1>5 DEF PersistAckLost
  <2> QED BY <2>1, <2>2, <2>3, WorkflowConstants DEF TypeOK, world, Fault
<1> QED BY <1>2, <1>3, <1>4, <1>5

\* The answer of run_analysis keeps the type.
LEMMA ReturnTyped == ASSUME TypeOK, NEW r \in Runs, Return(r) PROVE TypeOK'
<1> DEFINE given == IF state[r].persisted THEN BuildStatus(state[r]) ELSE "FAILED"
           noted == IF state[r].persisted THEN state[r].errors
                    ELSE state[r].errors \union {"persist_analysis"}
           s == [state[r] EXCEPT !.pc = "returned", !.answer = given, !.errors = noted]
<1>1. state[r] \in RunStates
  BY DEF TypeOK
<1>2. given \in AnalysisStatuses
  BY DEF BuildStatus, AnalysisStatuses
<1>3. noted \in SUBSET Steps
  BY <1>1 DEF RunStates, Steps, WORKFLOW_STEPS
<1>4. Become(r, s) /\ Quiet
  BY DEF Return
<1> HIDE DEF given, noted
<1>5. s \in RunStates
  BY <1>1, <1>2, <1>3 DEF RunStates, Pcs, Ended
<1> QED BY <1>4, <1>5, UpdateTyped, QuietTyped

\* A session that does not close keeps the type.
LEMMA CloseRaisesTyped == ASSUME TypeOK, NEW r \in Runs, CloseRaises(r) PROVE TypeOK'
<1>1. "raised" \in Pcs
  BY DEF Pcs, Ended
<1> QED BY <1>1, EndTyped, QuietTyped DEF CloseRaises

\* The death of the process keeps the type.
LEMMA CrashTyped == ASSUME TypeOK, Crash PROVE TypeOK'
<1>1. ASSUME NEW r \in Runs PROVE [state[r] EXCEPT !.pc = "dead"] \in RunStates
  <2>1. state[r] \in RunStates /\ "dead" \in Pcs
    BY DEF TypeOK, Pcs, Ended
  <2> QED BY <2>1 DEF RunStates
<1>2. state' \in [Runs -> RunStates]
  BY <1>1 DEF Crash, TypeOK
<1> QED BY <1>2, FaultTyped DEF Crash

\* Generating an access request again keeps the type.
LEMMA RegenerateTyped ==
  ASSUME TypeOK, NEW r \in Runs, RegenerateRequest(r) PROVE TypeOK'
<1> DEFINE payload == {Included(book[r].decisions)}
<1>1. book[r] \in Rows
  BY DEF TypeOK
<1>2. payload \in SUBSET SUBSET Entitlements
  <2>1. book[r].decisions \in [Entitlements -> Decisions]
    BY <1>1 DEF Rows
  <2> QED BY <2>1, IncludedTyped
<1>3. book' = [book EXCEPT ![r] = [book[r] EXCEPT !.payload = payload]]
  BY DEF RegenerateRequest
<1>4. UNCHANGED <<state, world, faults>>
  BY DEF RegenerateRequest
<1> HIDE DEF payload
<1>5. [book[r] EXCEPT !.payload = payload] \in Rows
  BY <1>1, <1>2 DEF Rows
<1> QED BY <1>3, <1>4, <1>5 DEF TypeOK, world

\* A counted edit of the reference data stays within its bound.
LEMMA EditTyped ==
  ASSUME TypeOK, Edit
  PROVE  edits' \in 0..MaxEdits
BY WorkflowConstants DEF TypeOK, Edit

\* Deleting a catalogue row, with its cascades, keeps the type.
LEMMA RetireTyped ==
  ASSUME TypeOK, NEW e \in Entitlements, RetireEntitlement(e) PROVE TypeOK'
<1>1. ASSUME NEW r \in Runs
      PROVE  [book[r] EXCEPT !.decisions[e] = Undecided] \in Rows
  <2>1. book[r] \in Rows
    BY DEF TypeOK
  <2>2. [book[r].decisions EXCEPT ![e] = Undecided] \in [Entitlements -> Decisions]
    BY <2>1, KernelTypes DEF Rows
  <2> QED BY <2>1, <2>2 DEF Rows
<1>2. book' \in [Runs -> Rows]
  BY <1>1 DEF RetireEntitlement
<1>3. holds' \in [Peers -> SUBSET Entitlements]
  BY DEF TypeOK, RetireEntitlement
<1> QED BY <1>2, <1>3, EditTyped DEF TypeOK, RetireEntitlement

\* Crashes and edits of the reference data keep the type.
LEMMA EnvironmentTyped == ASSUME TypeOK, Environment PROVE TypeOK'
<1>1. CASE Crash
  BY <1>1, CrashTyped
<1>2. ASSUME NEW rule \in SodRules, ToggleRule(rule) PROVE TypeOK'
  BY <1>2, EditTyped DEF TypeOK, ToggleRule
<1>3. ASSUME NEW p \in Peers, Offboard(p) PROVE TypeOK'
  BY <1>3, EditTyped DEF TypeOK, Offboard
<1>4. ASSUME NEW p \in Peers, NEW e \in Entitlements, TogglePeerHolding(p, e) PROVE TypeOK'
  <2>1. holds' \in [Peers -> SUBSET Entitlements]
    BY <1>4 DEF TypeOK, TogglePeerHolding
  <2> QED BY <1>4, <2>1, EditTyped DEF TypeOK, TogglePeerHolding
<1>5. ASSUME NEW e \in Entitlements, ToggleJoinerHolding(e) PROVE TypeOK'
  BY <1>5, EditTyped DEF TypeOK, ToggleJoinerHolding
<1>6. ASSUME NEW e \in Entitlements, RetireEntitlement(e) PROVE TypeOK'
  BY <1>6, RetireTyped
<1> QED BY <1>1, <1>2, <1>3, <1>4, <1>5, <1>6 DEF Environment

\* Every step of a run keeps the type.
LEMMA RunStepTyped == ASSUME TypeOK, NEW r \in Runs, RunStep(r) PROVE TypeOK'
<1>1. CASE LoadJoiner(r)
  BY <1>1, IdleStepTyped DEF LoadJoiner, At, Steps, WORKFLOW_STEPS
<1>2. CASE ProfileJoiner(r)
  BY <1>2, IdleStepTyped DEF ProfileJoiner, At, Steps, WORKFLOW_STEPS
<1> QED
  BY <1>1, <1>2, ConnectTyped, RaiseTyped, FindPeersTyped, CalculateAffinityTyped,
     EvaluateRiskTyped, ValidatePoliciesTyped, CheckSodTyped, MakeDecisionTyped,
     GenerateExplanationTyped, GeneratePayloadTyped, NodeFailsTyped, PersistTyped,
     ReturnTyped, CloseRaisesTyped DEF RunStep

\* Every step of the workflow keeps the type: TypeOK is inductive.
LEMMA NextTyped == ASSUME TypeOK, [Next]_vars PROVE TypeOK'
<1>1. CASE Next
  BY <1>1, StartTyped, RunStepTyped, RegenerateTyped, EnvironmentTyped DEF Next
<1>2. CASE UNCHANGED vars
  BY <1>2 DEF TypeOK, vars, world
<1> QED BY <1>1, <1>2

\* Every state of the workflow is well typed, however many runs, peers,
\* entitlements, faults and edits there are: in particular each status the store
\* is given is one the column accepts.
THEOREM TypeCorrect == Spec => []TypeOK
<1>1. Init => TypeOK
  BY InitTyped
<1>2. TypeOK /\ [Next]_vars => TypeOK'
  BY NextTyped
<1> QED BY <1>1, <1>2, PTL DEF Spec

-----------------------------------------------------------------------------
(* When the rounding of the affinity score decides about a request *)

\* Division with remainder, as the score uses it.
LEMMA Division ==
  ASSUME NEW a \in Nat, NEW n \in Nat \ {0}
  PROVE  /\ a \div n \in Nat /\ a % n \in 0..(n - 1)
         /\ a = (n * (a \div n)) + (a % n)
OBVIOUS

\* A threshold of k whole percents and at most 200 peers: the rounded score of h
\* holders reaches it exactly if their share does, without rounding.
LEMMA RoundedAtWholePercents ==
  ASSUME NEW n \in 1..200, NEW h \in 0..n, NEW k \in 0..100
  PROVE  AffinityScore(h, n) >= 100 * k <=> 100 * h >= k * n
<1> DEFINE a == 10000 * h
           q == a \div n
           r == a % n
           kn == k * n
           nq == n * q
<1>1. a \in Nat /\ n \in Nat \ {0}
  OBVIOUS
<1>2. q \in Nat /\ r \in 0..(n - 1) /\ a = nq + r
  <2> HIDE DEF a
  <2> QED BY <1>1, Division
<1>3. AffinityScore(h, n) = IF 2 * r > n \/ (2 * r = n /\ q % 2 = 1) THEN q + 1 ELSE q
  BY DEF AffinityScore
<1>4. kn \in Nat /\ nq \in Nat
  BY <1>2
<1>5. CASE q >= 100 * k
  <2>1. nq >= 100 * kn
    <3>1. \A x, y, z \in Nat : x >= y => z * x >= z * y
      OBVIOUS
    <3>2. n * q >= n * (100 * k)
      BY <1>2, <1>5, <3>1
    <3> QED BY <3>2
  <2>2. 100 * h >= kn
    BY <1>2, <1>4, <2>1
  <2> QED BY <1>2, <1>3, <1>5, <2>2
<1>6. CASE q <= 100 * k - 2
  <2>1. nq + 2 * n <= 100 * kn
    <3>1. n * q <= n * (100 * k - 2)
      BY <1>2, <1>6
    <3> QED BY <3>1
  <2>2. ~(100 * h >= kn)
    BY <1>2, <1>4, <2>1
  <2> QED BY <1>2, <1>3, <1>6, <2>2
<1>7. CASE q = 100 * k - 1
  <2>1. nq = 100 * kn - n
    BY <1>7
  <2>2. 10000 * h = 100 * kn - n + r
    BY <1>2, <2>1
  <2>3. n - r = 100 * (kn - 100 * h)
    BY <1>2, <1>4, <2>2
  <2>4. kn - 100 * h >= 1
    BY <1>2, <1>4, <2>3
  <2>5. r <= n - 100
    BY <1>2, <1>4, <2>3, <2>4
  <2>6. 2 * r < n
    <3>1. CASE n = 200
      <4>1. r # 100
        BY <1>2, <1>4, <2>3, <3>1
      <4> QED BY <1>2, <2>5, <3>1, <4>1
    <3>2. CASE n # 200
      BY <1>2, <2>5, <3>2
    <3> QED BY <3>1, <3>2
  <2> QED BY <1>2, <1>3, <1>7, <2>4, <2>6
<1> QED BY <1>2, <1>5, <1>6, <1>7

\* With a threshold in whole percents, as the settings' default and the client's
\* rules have it, and a group of at most 200 peers, rounding to two decimals never
\* moves an entitlement over the threshold or under it: what meets the threshold
\* is held by at least that share of the group (calculate_affinity_score,
\* meets_threshold).
THEOREM RoundingKeepsTheSide ==
  ASSUME NEW group, IsFiniteSet(group), Cardinality(group) \in 1..200,
         NEW k \in 0..100, Threshold = 100 * k,
         NEW has, NEW e
  PROVE  MeetsThreshold(group, has, e) <=>
           100 * Cardinality(Holders(group, has, e)) >= k * Cardinality(group)
<1> DEFINE h == Cardinality(Holders(group, has, e))
           n == Cardinality(group)
<1>1. Holders(group, has, e) \subseteq group
  BY DEF Holders
<1>2. h \in Nat /\ h <= n
  BY <1>1, FS_Subset, FS_CardinalityType
<1>3. h \in 0..n
  BY <1>2
<1> HIDE DEF h, n
<1>4. AffinityScore(h, n) >= 100 * k <=> 100 * h >= k * n
  BY <1>3, RoundedAtWholePercents DEF n
<1> QED BY <1>4 DEF MeetsThreshold, h, n
=============================================================================
