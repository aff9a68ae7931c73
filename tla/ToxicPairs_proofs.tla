-------------------------- MODULE ToxicPairs_proofs --------------------------
(***************************************************************************)
(* No run asks for a toxic pair.  The property is not inductive: it says   *)
(* nothing of the conflicts a run carries from the SoD step to the         *)
(* decision, nor of which decisions a payload was made from.  IInv adds    *)
(* both.                                                                   *)
(***************************************************************************)
EXTENDS AnalysisWorkflow_proofs

BeforeSod ==
  {"idle", "connect", "load_joiner", "profile_joiner", "find_peers",
   "calculate_affinity", "evaluate_risk", "validate_policies", "check_sod"}
BeforeDecision == BeforeSod \union {"make_decision"}

\* What holds of a run in state s whose audit rows are b: until the SoD step no
\* rule was read and until the decision nothing is granted; the conflicts are
\* those of what was read; what is granted was requested and is in no conflict;
\* and whatever is asked for or recorded as granted was granted.
Sound(s, b) ==
  /\ s.pc \in BeforeSod => s.rulesSeen = {}
  /\ s.pc \in BeforeDecision => Granted(s.decisions) = {}
  /\ s.conflicts = SodConflicts(s.rulesSeen, s.requested, s.heldSeen)
  /\ \A e \in Granted(s.decisions) :
       e \in s.requested /\ ConflictsFor(s.conflicts, e) = {}
  /\ UNION s.payload \subseteq Granted(s.decisions)
  /\ UNION b.payload \subseteq Granted(s.decisions)
  /\ Granted(b.decisions) \subseteq Granted(s.decisions)

IInv == \A r \in Runs : Sound(state[r], book[r])

-----------------------------------------------------------------------------
(* The order of the steps *)

\* Each node is followed by the next of WORKFLOW_STEPS.
LEMMA FollowingNext ==
  ASSUME NEW i \in 1..10
  PROVE  Following(WORKFLOW_STEPS[i]) = WORKFLOW_STEPS[i + 1]
<1> DEFINE k == CHOOSE j \in 1..11 : WORKFLOW_STEPS[j] = WORKFLOW_STEPS[i]
<1>1. k \in 1..11 /\ WORKFLOW_STEPS[k] = WORKFLOW_STEPS[i]
  OBVIOUS
<1>2. k = i
  <2> HIDE DEF k
  <2> QED BY <1>1 DEF WORKFLOW_STEPS
<1>3. Following(WORKFLOW_STEPS[i]) = IF k = 11 THEN "END" ELSE WORKFLOW_STEPS[k + 1]
  BY DEF Following
<1> HIDE DEF k
<1> QED BY <1>2, <1>3

\* The last node is followed by END.
LEMMA FollowingLast == Following("persist_analysis") = "END"
<1> DEFINE k == CHOOSE j \in 1..11 : WORKFLOW_STEPS[j] = "persist_analysis"
<1>1. WORKFLOW_STEPS[11] = "persist_analysis"
  BY DEF WORKFLOW_STEPS
<1>2. k \in 1..11 /\ WORKFLOW_STEPS[k] = "persist_analysis"
  BY <1>1
<1>3. k = 11
  <2> HIDE DEF k
  <2> QED BY <1>2 DEF WORKFLOW_STEPS
<1> QED BY <1>3 DEF Following

\* The edges of the graph, one by one.
LEMMA Order ==
  /\ Following("load_joiner") = "profile_joiner"
  /\ Following("profile_joiner") = "find_peers"
  /\ Following("find_peers") = "calculate_affinity"
  /\ Following("calculate_affinity") = "evaluate_risk"
  /\ Following("evaluate_risk") = "validate_policies"
  /\ Following("validate_policies") = "check_sod"
  /\ Following("check_sod") = "make_decision"
  /\ Following("make_decision") = "generate_explanation"
  /\ Following("generate_explanation") = "generate_sailpoint_payload"
  /\ Following("generate_sailpoint_payload") = "persist_analysis"
<1>1. \A i \in 1..10 : Following(WORKFLOW_STEPS[i]) = WORKFLOW_STEPS[i + 1]
  BY FollowingNext
<1> QED BY <1>1 DEF WORKFLOW_STEPS

\* A step never leads back to before the SoD step, or before the decision.
LEMMA NoReturn ==
  ASSUME NEW step \in Steps
  PROVE  /\ Following(step) \in BeforeSod => step \in BeforeSod \ {"check_sod"}
         /\ Following(step) \in BeforeDecision => step \in BeforeSod
BY Order, FollowingLast DEF Steps, WORKFLOW_STEPS, BeforeSod, BeforeDecision

-----------------------------------------------------------------------------
(* The kernel *)

\* A decision that grants access was about a requested entitlement without
\* conflict.
LEMMA GrantNeedsBoth ==
  ASSUME NEW meets \in BOOLEAN, NEW conflicted \in BOOLEAN, NEW level, NEW verdict,
         Requestable(Decide(meets, level, verdict, conflicted))
  PROVE  meets /\ ~conflicted
BY DEF Requestable, RequestableStatuses, Decide, Outcome

\* Where nothing was decided, nothing is granted.
LEMMA NothingGranted ==
  /\ ~Requestable(Undecided)
  /\ Granted(NoDecisions) = {}
BY DEF Requestable, RequestableStatuses, Undecided, Granted, NoDecisions

\* What SailPoint is asked for was granted.
LEMMA IncludedGranted ==
  ASSUME NEW d \in [Entitlements -> Decisions] PROVE Included(d) \subseteq Granted(d)
BY OnlyRequestableIncluded DEF Included, Granted, Requestable

\* A run in a sound state asks for no toxic pair.
LEMMA SoundIsSafe ==
  ASSUME NEW s, NEW b, Sound(s, b), NEW asked,
         asked = Granted(s.decisions) \union (UNION s.payload) \union (UNION b.payload),
         NEW rule \in s.rulesSeen, rule \subseteq asked \union s.heldSeen
  PROVE  rule \intersect asked = {}
<1>1. asked = Granted(s.decisions)
  <2> DEFINE g == Granted(s.decisions)
  <2>1. UNION s.payload \subseteq g /\ UNION b.payload \subseteq g
    BY DEF Sound
  <2> HIDE DEF g
  <2>2. g \union (UNION s.payload) \union (UNION b.payload) = g
    BY <2>1
  <2> QED BY <2>2 DEF g
<1>2. SUFFICES ASSUME NEW e \in rule, e \in asked PROVE FALSE
  OBVIOUS
<1>3. asked \subseteq s.requested
  BY <1>1 DEF Sound
<1>4. rule \in s.conflicts
  BY <1>2, <1>3 DEF Sound, SodConflicts
<1>5. rule \in ConflictsFor(s.conflicts, e)
  BY <1>2, <1>4 DEF ConflictsFor
<1> QED BY <1>1, <1>2, <1>5 DEF Sound

-----------------------------------------------------------------------------
(* Steps that touch one run *)

SameEvidence(s, t) ==
  /\ t.rulesSeen = s.rulesSeen /\ t.heldSeen = s.heldSeen
  /\ t.conflicts = s.conflicts /\ t.requested = s.requested
  /\ t.decisions = s.decisions /\ t.payload = s.payload

\* Soundness carries over to a state with the same evidence whose control point is
\* before the SoD step, or the decision, only if the old one was.
LEMMA SoundMoved ==
  ASSUME NEW s, NEW t, NEW b, Sound(s, b), SameEvidence(s, t),
         t.pc \in BeforeSod => s.pc \in BeforeSod,
         t.pc \in BeforeDecision => s.pc \in BeforeDecision
  PROVE  Sound(t, b)
BY DEF Sound, SameEvidence

\* A step that gives one run a sound state and leaves the rows alone keeps IInv.
LEMMA OneRun ==
  ASSUME TypeOK, IInv, NEW r \in Runs, NEW s \in RunStates, Become(r, s),
         book' = book, Sound(s, book[r])
  PROVE  IInv'
<1> SUFFICES ASSUME NEW q \in Runs PROVE Sound(state'[q], book'[q])
  BY DEF IInv
<1>1. CASE q = r
  BY <1>1 DEF Become, TypeOK
<1>2. CASE q # r
  BY <1>2 DEF Become, TypeOK, IInv
<1> QED BY <1>1, <1>2

\* A step that keeps the evidence of a run and moves it on keeps IInv.
LEMMA OneRunForward ==
  ASSUME TypeOK, IInv, NEW r \in Runs, NEW s \in RunStates, s.pc = state[r].pc,
         s.pc \in Steps, Continue(r, s), book' = book, SameEvidence(state[r], s)
  PROVE  IInv'
<1> DEFINE t == [s EXCEPT !.pc = Following(s.pc)]
<1>1. t \in RunStates /\ t.pc = Following(s.pc) /\ SameEvidence(s, t)
  <2>1. t \in RunStates
    BY AdvanceTyped
  <2> QED BY <2>1 DEF RunStates, SameEvidence
<1>2. SameEvidence(state[r], t)
  BY <1>1 DEF SameEvidence
<1>3. /\ t.pc \in BeforeSod => state[r].pc \in BeforeSod
      /\ t.pc \in BeforeDecision => state[r].pc \in BeforeDecision
  BY <1>1, NoReturn DEF BeforeDecision
<1>4. Sound(state[r], book[r])
  BY DEF IInv
<1>5. Sound(t, book[r])
  BY <1>2, <1>3, <1>4, SoundMoved
<1>6. Become(r, t)
  BY DEF Continue
<1> HIDE DEF t
<1> QED BY <1>1, <1>5, <1>6, OneRun

\* A step that fails, whichever it is, keeps IInv.
LEMMA FailForward ==
  ASSUME TypeOK, IInv, NEW r \in Runs, state[r].pc \in Steps, FailStep(r), book' = book
  PROVE  IInv'
<1> DEFINE s == [state[r] EXCEPT !.errors = @ \union {state[r].pc},
                                !.failed = @ \union {state[r].pc}]
<1>1. state[r] \in RunStates
  BY DEF TypeOK
<1>2. s \in RunStates /\ s.pc = state[r].pc /\ SameEvidence(state[r], s)
  BY <1>1 DEF RunStates, SameEvidence
<1>3. Continue(r, s)
  BY DEF FailStep
<1> HIDE DEF s
<1> QED BY <1>2, <1>3, OneRunForward

\* A step before the SoD check that only moves the control point keeps IInv.
LEMMA PcOnly ==
  ASSUME TypeOK, IInv, NEW r \in Runs, NEW pc \in Pcs,
         Become(r, [state[r] EXCEPT !.pc = pc]), book' = book,
         pc \in BeforeDecision => state[r].pc \in BeforeSod
  PROVE  IInv'
<1> DEFINE t == [state[r] EXCEPT !.pc = pc]
<1>1. state[r] \in RunStates
  BY DEF TypeOK
<1>2. t \in RunStates /\ t.pc = pc /\ SameEvidence(state[r], t)
  BY <1>1 DEF RunStates, SameEvidence
<1>3. Sound(t, book[r])
  BY <1>2, SoundMoved DEF IInv, BeforeDecision
<1> QED BY <1>2, <1>3, OneRun

-----------------------------------------------------------------------------
(* The steps that gather or use evidence *)

\* find_peers keeps IInv: nothing was read or granted yet.
LEMMA FindPeersSound ==
  ASSUME TypeOK, IInv, NEW r \in Runs, FindPeers(r) PROVE IInv'
<1> DEFINE group == PeerGroup(active)
           warned == IF Cardinality(group) < MinPeerCount THEN {"find_peers"} ELSE {}
           s == [state[r] EXCEPT !.peers = group, !.errors = @ \union warned]
<1>1. state[r] \in RunStates /\ state[r].pc \in Steps /\ "find_peers" \in Steps
  BY DEF TypeOK, FindPeers, At, Steps, WORKFLOW_STEPS
<1>2. group \in SUBSET Peers
  BY PeerGroupTyped
<1> HIDE DEF group
<1>3. s \in RunStates /\ s.pc = state[r].pc /\ SameEvidence(state[r], s)
  BY <1>1, <1>2 DEF RunStates, SameEvidence
<1>4. Continue(r, s) /\ book' = book
  BY DEF FindPeers, Quiet, group
<1> QED BY <1>1, <1>3, <1>4, OneRunForward

\* calculate_affinity keeps IInv: what it requests, no rule was read against yet.
LEMMA CalculateAffinitySound ==
  ASSUME TypeOK, IInv, NEW r \in Runs, CalculateAffinity(r) PROVE IInv'
<1> DEFINE some == Candidates(state[r].peers, holds, catalog)
           above == AboveThreshold(state[r].peers, holds, catalog)
           t == [state[r] EXCEPT !.candidates = some, !.requested = above,
                                 !.pc = "evaluate_risk"]
<1>1. some \in SUBSET Entitlements /\ above \in SUBSET Entitlements
  BY DEF TypeOK, Candidates, AboveThreshold
<1>2. state[r] \in RunStates /\ state[r].pc = "calculate_affinity" /\ book' = book
  BY DEF TypeOK, CalculateAffinity, At, Quiet
<1>3. Become(r, t)
  <2>1. [state[r] EXCEPT !.candidates = some, !.requested = above].pc = "calculate_affinity"
    BY <1>2 DEF RunStates
  <2> QED BY <2>1, Order DEF CalculateAffinity, Continue, Become
<1> HIDE DEF some, above
<1>4. /\ t \in RunStates /\ t.pc = "evaluate_risk" /\ t.requested = above
      /\ t.rulesSeen = state[r].rulesSeen /\ t.heldSeen = state[r].heldSeen
      /\ t.conflicts = state[r].conflicts
      /\ t.decisions = state[r].decisions /\ t.payload = state[r].payload
  <2>1. "evaluate_risk" \in Pcs
    BY DEF Pcs, Running, Steps, WORKFLOW_STEPS
  <2>2. t \in RunStates
    BY <2>1, <1>1, <1>2 DEF RunStates
  <2> QED BY <2>2, <1>1, <1>2 DEF RunStates
<1>5. Sound(state[r], book[r])
  BY DEF IInv
<1>6. state[r].rulesSeen = {} /\ Granted(state[r].decisions) = {}
  BY <1>2, <1>5 DEF Sound, BeforeSod, BeforeDecision
<1>7. state[r].conflicts = {}
  BY <1>5, <1>6 DEF Sound, SodConflicts
<1> HIDE DEF t
<1>8. Sound(t, book[r])
  BY <1>4, <1>5, <1>6, <1>7 DEF Sound, SodConflicts
<1> QED BY <1>2, <1>3, <1>4, <1>8, OneRun

\* evaluate_risk keeps IInv: it touches no evidence.
LEMMA EvaluateRiskSound ==
  ASSUME TypeOK, IInv, NEW r \in Runs, EvaluateRisk(r) PROVE IInv'
<1> DEFINE risk == [e \in Entitlements |->
                      IF e \in state[r].candidates THEN ClassifyRisk(RiskScore[e])
                      ELSE "UNASSESSED"]
           s == [state[r] EXCEPT !.risk = risk]
<1>1. risk \in [Entitlements -> RiskLevels \union {"UNASSESSED"}]
  BY KernelTypes, WorkflowConstants
<1>2. state[r] \in RunStates /\ state[r].pc \in Steps /\ book' = book
  BY DEF TypeOK, EvaluateRisk, At, Steps, WORKFLOW_STEPS, Quiet
<1>3. CASE state[r].candidates \subseteq catalog
  <2>1. Continue(r, s)
    BY <1>3 DEF EvaluateRisk
  <2> HIDE DEF risk
  <2>2. s \in RunStates /\ s.pc = state[r].pc /\ SameEvidence(state[r], s)
    BY <1>1, <1>2 DEF RunStates, SameEvidence
  <2> QED BY <2>1, <2>2, <1>2, OneRunForward
<1>4. CASE ~(state[r].candidates \subseteq catalog)
  BY <1>2, <1>4, FailForward DEF EvaluateRisk
<1> QED BY <1>3, <1>4

\* validate_policies keeps IInv: it touches no evidence.
LEMMA ValidatePoliciesSound ==
  ASSUME TypeOK, IInv, NEW r \in Runs, ValidatePolicies(r) PROVE IInv'
<1>1. PICK verdict \in [state[r].requested -> PolicyOutcomes] :
        Continue(r, [state[r] EXCEPT !.policy =
          [e \in Entitlements |->
             IF e \in state[r].requested THEN verdict[e] ELSE NotEvaluated]])
  BY DEF ValidatePolicies
<1> DEFINE policy == [e \in Entitlements |->
                        IF e \in state[r].requested THEN verdict[e] ELSE NotEvaluated]
           s == [state[r] EXCEPT !.policy = policy]
<1>2. policy \in [Entitlements -> Verdicts]
  BY KernelTypes, WorkflowConstants
<1>3. state[r] \in RunStates /\ state[r].pc \in Steps /\ book' = book
  BY DEF TypeOK, ValidatePolicies, At, Steps, WORKFLOW_STEPS, Quiet
<1>4. Continue(r, s)
  BY <1>1
<1> HIDE DEF policy
<1>5. s \in RunStates /\ s.pc = state[r].pc /\ SameEvidence(state[r], s)
  BY <1>2, <1>3 DEF RunStates, SameEvidence
<1> QED BY <1>3, <1>4, <1>5, OneRunForward

\* check_sod establishes that the conflicts are those of what it read.
LEMMA CheckSodSound ==
  ASSUME TypeOK, IInv, NEW r \in Runs, CheckSod(r) PROVE IInv'
<1> DEFINE found == SodConflicts(rules, state[r].requested, held)
           t == [state[r] EXCEPT !.conflicts = found, !.rulesSeen = rules,
                                 !.heldSeen = held, !.pc = "make_decision"]
<1>1. /\ found \in SUBSET SodRules /\ rules \in SUBSET SodRules
      /\ held \in SUBSET Entitlements
  BY DEF SodConflicts, TypeOK
<1>2. state[r] \in RunStates /\ state[r].pc = "check_sod" /\ book' = book
  BY DEF TypeOK, CheckSod, At, Quiet
<1>3. Become(r, t)
  <2>1. [state[r] EXCEPT !.conflicts = found, !.rulesSeen = rules,
                         !.heldSeen = held].pc = "check_sod"
    BY <1>2 DEF RunStates
  <2> QED BY <2>1, Order DEF CheckSod, Continue, Become
<1>4. found = SodConflicts(rules, state[r].requested, held)
  OBVIOUS
<1> HIDE DEF found
<1>5. /\ t \in RunStates /\ t.pc = "make_decision" /\ t.requested = state[r].requested
      /\ t.rulesSeen = rules /\ t.heldSeen = held /\ t.conflicts = found
      /\ t.decisions = state[r].decisions /\ t.payload = state[r].payload
  <2>1. "make_decision" \in Pcs
    BY DEF Pcs, Running, Steps, WORKFLOW_STEPS
  <2>2. t \in RunStates
    BY <2>1, <1>1, <1>2 DEF RunStates
  <2> QED BY <2>2, <1>1, <1>2 DEF RunStates
<1>6. Sound(state[r], book[r])
  BY DEF IInv
<1>7. Granted(state[r].decisions) = {}
  BY <1>2, <1>6 DEF Sound, BeforeSod, BeforeDecision
<1> HIDE DEF t
<1>8. Sound(t, book[r])
  BY <1>4, <1>5, <1>6, <1>7 DEF Sound, BeforeSod
<1> QED BY <1>2, <1>3, <1>5, <1>8, OneRun

\* decide_all grants what was requested and is in no conflict, and nothing else.
LEMMA DecideAllGrants ==
  ASSUME NEW s \in RunStates, NEW e \in Granted(DecideAll(s))
  PROVE  e \in s.requested /\ ConflictsFor(s.conflicts, e) = {}
<1>1. e \in Entitlements /\ Requestable(DecideAll(s)[e])
  BY DEF Granted
<1>2. DecideAll(s)[e] # Undecided
  BY <1>1, NothingGranted
<1>3. DecideAll(s)[e] =
        Decide(e \in s.requested, s.risk[e], s.policy[e],
               e \in s.requested /\ ConflictsFor(s.conflicts, e) # {})
  BY <1>1, <1>2 DEF DecideAll
<1>4. /\ (e \in s.requested) \in BOOLEAN
      /\ (e \in s.requested /\ ConflictsFor(s.conflicts, e) # {}) \in BOOLEAN
  OBVIOUS
<1>5. Requestable(Decide(e \in s.requested, s.risk[e], s.policy[e],
                         e \in s.requested /\ ConflictsFor(s.conflicts, e) # {}))
  BY <1>1, <1>3
<1> QED BY <1>4, <1>5, GrantNeedsBoth

\* make_decision keeps IInv: this is where grants come from.
LEMMA MakeDecisionSound ==
  ASSUME TypeOK, IInv, NEW r \in Runs, MakeDecision(r) PROVE IInv'
<1> DEFINE decisions == DecideAll(state[r])
           t == [state[r] EXCEPT !.decisions = decisions, !.pc = "generate_explanation"]
<1>1. state[r] \in RunStates /\ state[r].pc = "make_decision" /\ book' = book
  BY DEF TypeOK, MakeDecision, At, Quiet
<1>2. decisions \in [Entitlements -> Decisions]
  BY <1>1, DecideAllTyped
<1>3. Become(r, t)
  <2>1. [state[r] EXCEPT !.decisions = decisions].pc = "make_decision"
    BY <1>1 DEF RunStates
  <2> QED BY <2>1, Order DEF MakeDecision, Continue, Become
<1>4. \A e \in Granted(decisions) :
        e \in state[r].requested /\ ConflictsFor(state[r].conflicts, e) = {}
  BY <1>1, DecideAllGrants
<1> HIDE DEF decisions
<1>5. /\ t \in RunStates /\ t.pc = "generate_explanation" /\ t.decisions = decisions
      /\ t.rulesSeen = state[r].rulesSeen /\ t.heldSeen = state[r].heldSeen
      /\ t.requested = state[r].requested /\ t.conflicts = state[r].conflicts
      /\ t.payload = state[r].payload
  <2>1. "generate_explanation" \in Pcs
    BY DEF Pcs, Running, Steps, WORKFLOW_STEPS
  <2>2. t \in RunStates
    BY <2>1, <1>1, <1>2 DEF RunStates
  <2> QED BY <2>2, <1>1, <1>2 DEF RunStates
<1>6. Sound(state[r], book[r])
  BY DEF IInv
<1>7. Granted(state[r].decisions) = {}
  BY <1>1, <1>6 DEF Sound, BeforeDecision
<1> HIDE DEF t
<1>8. /\ UNION t.payload \subseteq Granted(t.decisions)
      /\ UNION book[r].payload \subseteq Granted(t.decisions)
      /\ Granted(book[r].decisions) \subseteq Granted(t.decisions)
  BY <1>5, <1>6, <1>7 DEF Sound
<1>9. Sound(t, book[r])
  BY <1>4, <1>5, <1>6, <1>8 DEF Sound, BeforeSod, BeforeDecision
<1> QED BY <1>1, <1>3, <1>5, <1>9, OneRun

\* generate_explanation keeps IInv: it touches no evidence.
LEMMA GenerateExplanationSound ==
  ASSUME TypeOK, IInv, NEW r \in Runs, GenerateExplanation(r) PROVE IInv'
<1> DEFINE made == Decided(state[r].decisions) # {}
           s == [state[r] EXCEPT !.explained = made]
<1>1. state[r] \in RunStates /\ state[r].pc \in Steps /\ made \in BOOLEAN
  BY DEF TypeOK, GenerateExplanation, At, Steps, WORKFLOW_STEPS
<1>2. Continue(r, s) /\ book' = book
  BY DEF GenerateExplanation, Quiet
<1> HIDE DEF made
<1>3. s \in RunStates /\ s.pc = state[r].pc /\ SameEvidence(state[r], s)
  BY <1>1 DEF RunStates, SameEvidence
<1> QED BY <1>1, <1>2, <1>3, OneRunForward

\* generate_sailpoint_payload keeps IInv: it asks for granted access.
LEMMA GeneratePayloadSound ==
  ASSUME TypeOK, IInv, NEW r \in Runs, GeneratePayload(r) PROVE IInv'
<1> DEFINE granted == Granted(state[r].decisions)
           payload == IF Decided(state[r].decisions) = {} THEN {}
                      ELSE {Included(state[r].decisions)}
           t == [state[r] EXCEPT !.payload = payload, !.pc = "persist_analysis"]
<1>1. /\ state[r] \in RunStates /\ state[r].pc = "generate_sailpoint_payload"
      /\ state[r].decisions \in [Entitlements -> Decisions] /\ book' = book
  BY DEF TypeOK, RunStates, GeneratePayload, At, Quiet
<1>2. payload \in SUBSET SUBSET Entitlements
  BY <1>1, IncludedTyped
<1>3. UNION payload \subseteq granted
  BY <1>1, IncludedGranted
<1>4. Become(r, t)
  <2>1. [state[r] EXCEPT !.payload = payload].pc = "generate_sailpoint_payload"
    BY <1>1 DEF RunStates
  <2> QED BY <2>1, Order DEF GeneratePayload, Continue, Become
<1> HIDE DEF payload
<1>5. /\ t \in RunStates /\ t.pc = "persist_analysis" /\ t.payload = payload
      /\ t.rulesSeen = state[r].rulesSeen /\ t.heldSeen = state[r].heldSeen
      /\ t.requested = state[r].requested /\ t.conflicts = state[r].conflicts
      /\ t.decisions = state[r].decisions
  <2>1. "persist_analysis" \in Pcs
    BY DEF Pcs, Running, Steps, WORKFLOW_STEPS
  <2>2. t \in RunStates
    BY <2>1, <1>1, <1>2 DEF RunStates
  <2> QED BY <2>2, <1>1, <1>2 DEF RunStates
<1> HIDE DEF t
<1>6. Sound(t, book[r])
  BY <1>3, <1>5 DEF IInv, Sound, BeforeSod, BeforeDecision
<1> QED BY <1>1, <1>4, <1>5, <1>6, OneRun

-----------------------------------------------------------------------------
(* Writing the rows *)

\* The rows of a sound run, written as they are, are sound.
LEMMA WrittenSound ==
  ASSUME NEW s \in RunStates, NEW b, Sound(s, b) PROVE Sound(s, RowOf(s))
<1>1. RowOf(s).payload = s.payload /\ RowOf(s).decisions = s.decisions
  BY DEF RowOf
<1> QED BY <1>1 DEF Sound

\* Persisting changes the rows of one run, then moves it on.
LEMMA WriteForward ==
  ASSUME TypeOK, IInv, NEW r \in Runs, NEW s \in RunStates, s.pc = state[r].pc,
         s.pc \in Steps, Continue(r, s), SameEvidence(state[r], s),
         book' = [book EXCEPT ![r] = RowOf(state[r])]
  PROVE  IInv'
<1> DEFINE t == [s EXCEPT !.pc = Following(s.pc)]
           b == RowOf(state[r])
<1>1. t \in RunStates
  BY AdvanceTyped
<1>2. t.pc = Following(s.pc) /\ SameEvidence(state[r], t)
  BY <1>1 DEF RunStates, SameEvidence
<1>3. /\ t.pc \in BeforeSod => state[r].pc \in BeforeSod
      /\ t.pc \in BeforeDecision => state[r].pc \in BeforeDecision
  BY <1>2, NoReturn DEF BeforeDecision
<1>4. Sound(state[r], b)
  BY WrittenSound DEF IInv, TypeOK
<1>5. Become(r, t)
  BY DEF Continue
<1> HIDE DEF t, b
<1>6. Sound(t, b)
  BY <1>2, <1>3, <1>4, SoundMoved
<1>7. book' = [book EXCEPT ![r] = b]
  BY DEF b
<1> SUFFICES ASSUME NEW q \in Runs PROVE Sound(state'[q], book'[q])
  BY DEF IInv
<1>8. CASE q = r
  BY <1>5, <1>6, <1>7, <1>8 DEF Become, TypeOK
<1>9. CASE q # r
  BY <1>5, <1>7, <1>9 DEF Become, TypeOK, IInv
<1> QED BY <1>8, <1>9

\* Every outcome of the persist transaction keeps IInv, the lost acknowledgement too.
LEMMA PersistSound ==
  ASSUME TypeOK, IInv, NEW r \in Runs,
         PersistCommits(r) \/ PersistRejected(r) \/ PersistFails(r) \/ PersistAckLost(r)
  PROVE  IInv'
<1>1. state[r] \in RunStates /\ state[r].pc \in Steps
  BY DEF TypeOK, PersistCommits, PersistRejected, PersistFails, PersistAckLost,
         At, Steps, WORKFLOW_STEPS
<1>2. CASE PersistCommits(r)
  <2> DEFINE s == [state[r] EXCEPT !.persisted = TRUE]
  <2>1. s \in RunStates /\ s.pc = state[r].pc /\ SameEvidence(state[r], s)
    BY <1>1 DEF RunStates, SameEvidence
  <2>2. Continue(r, s) /\ book' = [book EXCEPT ![r] = RowOf(state[r])]
    BY <1>2 DEF PersistCommits
  <2> HIDE DEF s
  <2> QED BY <1>1, <2>1, <2>2, WriteForward
<1>3. CASE PersistRejected(r) \/ PersistFails(r)
  BY <1>1, <1>3, FailForward DEF PersistRejected, PersistFails, Quiet
<1>4. CASE PersistAckLost(r)
  <2> DEFINE s == [state[r] EXCEPT !.errors = @ \union {state[r].pc},
                                  !.failed = @ \union {state[r].pc}]
  <2>1. s \in RunStates /\ s.pc = state[r].pc /\ SameEvidence(state[r], s)
    BY <1>1 DEF RunStates, SameEvidence
  <2>2. Continue(r, s) /\ book' = [book EXCEPT ![r] = RowOf(state[r])]
    BY <1>4 DEF PersistAckLost, FailStep
  <2> HIDE DEF s
  <2> QED BY <1>1, <2>1, <2>2, WriteForward
<1> QED BY <1>2, <1>3, <1>4

\* The answer of run_analysis keeps IInv.
LEMMA ReturnSound == ASSUME TypeOK, IInv, NEW r \in Runs, Return(r) PROVE IInv'
<1> DEFINE given == IF state[r].persisted THEN BuildStatus(state[r]) ELSE "FAILED"
           noted == IF state[r].persisted THEN state[r].errors
                    ELSE state[r].errors \union {"persist_analysis"}
           t == [state[r] EXCEPT !.pc = "returned", !.answer = given, !.errors = noted]
<1>1. state[r] \in RunStates /\ "returned" \in Pcs
  BY DEF TypeOK, Pcs, Ended
<1>2. given \in AnalysisStatuses
  BY DEF BuildStatus, AnalysisStatuses
<1>3. noted \in SUBSET Steps
  BY <1>1 DEF RunStates, Steps, WORKFLOW_STEPS
<1>4. Become(r, t) /\ book' = book
  BY DEF Return, Quiet
<1> HIDE DEF given, noted
<1>5. t \in RunStates
  BY <1>1, <1>2, <1>3 DEF RunStates
<1>6. t.pc = "returned" /\ SameEvidence(state[r], t)
  BY <1>1, <1>5 DEF RunStates, SameEvidence
<1> HIDE DEF t
<1>7. Sound(t, book[r])
  BY <1>6, SoundMoved DEF IInv, BeforeDecision, BeforeSod
<1> QED BY <1>4, <1>5, <1>7, OneRun

\* A session that does not close keeps IInv: only the control point moves.
LEMMA CloseRaisesSound ==
  ASSUME TypeOK, IInv, NEW r \in Runs, CloseRaises(r) PROVE IInv'
<1>1. "raised" \in Pcs /\ "raised" \notin BeforeDecision /\ book' = book
  BY DEF Pcs, Ended, BeforeDecision, BeforeSod, CloseRaises, Quiet
<1> QED BY <1>1, PcOnly DEF CloseRaises

\* A request generated from the rows keeps IInv: the rows grant no more than the run.
LEMMA RegenerateSound ==
  ASSUME TypeOK, IInv, NEW r \in Runs, RegenerateRequest(r) PROVE IInv'
<1> DEFINE payload == {Included(book[r].decisions)}
           b == [book[r] EXCEPT !.payload = payload]
<1>1. book[r] \in Rows /\ book[r].decisions \in [Entitlements -> Decisions]
  BY DEF TypeOK, Rows
<1>2. UNION payload \subseteq Granted(book[r].decisions)
  BY <1>1, IncludedGranted
<1>3. book' = [book EXCEPT ![r] = b] /\ state' = state
  BY DEF RegenerateRequest
<1> HIDE DEF payload
<1>4. b.payload = payload /\ b.decisions = book[r].decisions
  BY <1>1 DEF Rows
<1> HIDE DEF b
<1>5. Sound(state[r], b)
  BY <1>2, <1>4 DEF IInv, Sound
<1> SUFFICES ASSUME NEW q \in Runs PROVE Sound(state'[q], book'[q])
  BY DEF IInv
<1>6. CASE q = r
  BY <1>3, <1>5, <1>6 DEF TypeOK
<1>7. CASE q # r
  BY <1>3, <1>7 DEF TypeOK, IInv
<1> QED BY <1>6, <1>7

\* Deleting a catalogue row keeps IInv: the rows grant less, and never more.
LEMMA RetireSound ==
  ASSUME TypeOK, IInv, NEW e \in Entitlements, RetireEntitlement(e) PROVE IInv'
<1> SUFFICES ASSUME NEW q \in Runs PROVE Sound(state'[q], book'[q])
  BY DEF IInv
<1> DEFINE b == [book[q] EXCEPT !.decisions = [@ EXCEPT ![e] = Undecided]]
<1>1. book[q] \in Rows /\ book[q].decisions \in [Entitlements -> Decisions]
  BY DEF TypeOK, Rows
<1>2. state'[q] = state[q] /\ book'[q] = b
  BY DEF RetireEntitlement
<1>3. b.payload = book[q].payload
  BY <1>1 DEF Rows
<1>4. b.decisions = [book[q].decisions EXCEPT ![e] = Undecided]
  BY <1>1 DEF Rows
<1> HIDE DEF b
<1>5. Granted(b.decisions) \subseteq Granted(book[q].decisions)
  BY <1>1, <1>4, NothingGranted DEF Granted
<1> QED BY <1>2, <1>3, <1>5 DEF IInv, Sound

\* The death of the process keeps IInv.
LEMMA CrashSound == ASSUME TypeOK, IInv, Crash PROVE IInv'
<1> SUFFICES ASSUME NEW q \in Runs PROVE Sound(state'[q], book'[q])
  BY DEF IInv
<1>1. book' = book /\ Sound(state[q], book[q])
  BY DEF Crash, IInv
<1>2. CASE state[q].pc \in Running
  <2> DEFINE t == [state[q] EXCEPT !.pc = "dead"]
  <2>1. state[q] \in RunStates
    BY DEF TypeOK
  <2>2. t.pc = "dead" /\ SameEvidence(state[q], t)
    BY <2>1 DEF RunStates, SameEvidence
  <2>3. state'[q] = t
    BY <1>2 DEF Crash
  <2> HIDE DEF t
  <2>4. Sound(t, book[q])
    BY <1>1, <2>2, SoundMoved DEF BeforeDecision, BeforeSod
  <2> QED BY <1>1, <2>3, <2>4
<1>3. CASE state[q].pc \notin Running
  BY <1>1, <1>3 DEF Crash
<1> QED BY <1>2, <1>3

-----------------------------------------------------------------------------
(* The theorem *)

\* IInv holds initially.
LEMMA InitSound == Init => IInv
<1>1. SodConflicts({}, {}, {}) = {}
  BY DEF SodConflicts
<1>2. /\ initial_state.rulesSeen = {} /\ initial_state.requested = {}
      /\ initial_state.heldSeen = {} /\ initial_state.conflicts = {}
      /\ initial_state.payload = {} /\ initial_state.decisions = NoDecisions
  BY DEF initial_state
<1>3. NoRow.payload = {} /\ NoRow.decisions = NoDecisions
  BY DEF NoRow
<1>4. Sound(initial_state, NoRow)
  BY <1>1, <1>2, <1>3, NothingGranted DEF Sound
<1> QED BY <1>4 DEF Init, IInv

\* A step that leaves runs and rows alone keeps IInv.
LEMMA UnchangedSound ==
  ASSUME IInv, state' = state, book' = book PROVE IInv'
BY DEF IInv

\* Starting, connecting and raising keep IInv.
LEMMA StartSound ==
  ASSUME TypeOK, IInv, NEW r \in Runs, Start(r) \/ Connect(r) \/ Raise(r) PROVE IInv'
<1>1. {"connect", WORKFLOW_STEPS[1], "raised"} \subseteq Pcs
  BY DEF Pcs, Running, Ended, Steps
<1>2. state[r].pc \in BeforeSod /\ book' = book
  BY DEF Start, Connect, Raise, At, BeforeSod, Quiet
<1> QED BY <1>1, <1>2, PcOnly DEF Start, Connect, Raise

\* Every step of a run keeps IInv.
LEMMA RunStepSound == ASSUME TypeOK, IInv, NEW r \in Runs, RunStep(r) PROVE IInv'
<1>1. CASE Connect(r) \/ Raise(r)
  BY <1>1, StartSound
<1>2. CASE LoadJoiner(r) \/ ProfileJoiner(r)
  <2>1. state[r] \in RunStates /\ state[r].pc \in Steps /\ SameEvidence(state[r], state[r])
    BY <1>2 DEF LoadJoiner, ProfileJoiner, At, TypeOK, SameEvidence, Steps, WORKFLOW_STEPS
  <2> QED BY <1>2, <2>1, OneRunForward DEF LoadJoiner, ProfileJoiner, Quiet
<1>3. CASE NodeFails(r)
  <2>1. state[r].pc \in Steps
    BY <1>3 DEF NodeFails, Calls, At, Steps, WORKFLOW_STEPS
  <2> QED BY <1>3, <2>1, FailForward DEF NodeFails
<1> QED
  BY <1>1, <1>2, <1>3, FindPeersSound, CalculateAffinitySound, EvaluateRiskSound,
     ValidatePoliciesSound, CheckSodSound, MakeDecisionSound, GenerateExplanationSound,
     GeneratePayloadSound, PersistSound, ReturnSound, CloseRaisesSound DEF RunStep

\* Crashes and edits of the reference data keep IInv.
LEMMA EnvironmentSound == ASSUME TypeOK, IInv, Environment PROVE IInv'
<1>1. CASE Crash
  BY <1>1, CrashSound
<1>2. ASSUME NEW rule \in SodRules, ToggleRule(rule) PROVE IInv'
  BY <1>2, UnchangedSound DEF ToggleRule
<1>3. ASSUME NEW p \in Peers, Offboard(p) PROVE IInv'
  BY <1>3, UnchangedSound DEF Offboard
<1>4. ASSUME NEW p \in Peers, NEW e \in Entitlements, TogglePeerHolding(p, e) PROVE IInv'
  BY <1>4, UnchangedSound DEF TogglePeerHolding
<1>5. ASSUME NEW e \in Entitlements, ToggleJoinerHolding(e) PROVE IInv'
  BY <1>5, UnchangedSound DEF ToggleJoinerHolding
<1>6. ASSUME NEW e \in Entitlements, RetireEntitlement(e) PROVE IInv'
  BY <1>6, RetireSound
<1> QED BY <1>1, <1>2, <1>3, <1>4, <1>5, <1>6 DEF Environment

\* Every step of the workflow keeps IInv, given the type.
LEMMA NextSound == ASSUME TypeOK, IInv, [Next]_vars PROVE IInv'
<1>1. CASE Next
  BY <1>1, StartSound, RunStepSound, RegenerateSound, EnvironmentSound DEF Next
<1>2. CASE UNCHANGED vars
  BY <1>2, UnchangedSound DEF vars
<1> QED BY <1>1, <1>2

\* For any number of runs, peers, entitlements and rules, and whatever fails or
\* is edited meanwhile: no run asks, in its decisions or in any payload made
\* from them, for access that completes a toxic pair among the rules it read
\* (SodService.check, decide, SailPointService.generate_request_payload).
THEOREM NoToxicPairAskedFor == Spec => []GrantsFreeOfToxicPairs
<1>1. IInv => GrantsFreeOfToxicPairs
  <2> SUFFICES ASSUME IInv, NEW r \in Runs, NEW rule \in state[r].rulesSeen,
                      rule \subseteq AskedFor(r) \union state[r].heldSeen
               PROVE  rule \intersect AskedFor(r) = {}
    BY DEF GrantsFreeOfToxicPairs
  <2>1. Sound(state[r], book[r])
    BY DEF IInv
  <2>2. AskedFor(r) = Granted(state[r].decisions) \union (UNION state[r].payload)
                        \union (UNION book[r].payload)
    BY DEF AskedFor
  <2> QED BY <2>1, <2>2, SoundIsSafe
<1>2. Init => IInv
  BY InitSound
<1>3. TypeOK /\ IInv /\ [Next]_vars => IInv'
  BY NextSound
<1> QED BY <1>1, <1>2, <1>3, TypeCorrect, PTL DEF Spec
=============================================================================
