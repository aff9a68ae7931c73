-------------------------- MODULE AuditRecords_proofs --------------------------
(***************************************************************************)
(* What the audit store says of failures and of candidates.  The three     *)
(* properties compare a row with the run that wrote it, and a run changes  *)
(* after its row is written; RInv says from which step on each of them     *)
(* holds and what makes it hold before.                                    *)
(***************************************************************************)
EXTENDS ToxicPairs_proofs

AfterWrite == {"END"} \union Ended
UpToRisk == BeforeSod \ {"validate_policies", "check_sod"}

\* Failures: a row is written by the last step; every failure is an error, and the
\* row has those of its time; only a run without errors is complete.
Recorded(s, b) ==
  /\ b.present => s.pc \in AfterWrite
  /\ s.failed \subseteq s.errors
  /\ b.present => s.failed \ {"persist_analysis"} \subseteq b.errors
  /\ b.present /\ b.status = "COMPLETED" => b.errors = {}
  /\ s.answer # "none" => s.pc = "returned"
  /\ s.answer = "COMPLETED" => s.errors = {}

\* Policies: whoever was requested has a verdict, unless the step failed.
Judged(s) ==
  /\ s.pc \in {"check_sod", "make_decision"} =>
       \/ "validate_policies" \in s.failed
       \/ \A e \in s.requested : s.policy[e].status # "NOT_EVALUATED"
  /\ \A e \in Granted(s.decisions) :
       s.decisions[e].policy = "NOT_EVALUATED" => "validate_policies" \in s.failed

\* Risks: all candidates are assessed, or the step failed and none is; and so for
\* the decisions, in the state and in the rows.
Accounted(s, b, known) ==
  /\ s.pc \in UpToRisk =>
       /\ "evaluate_risk" \notin s.failed
       /\ \A e \in Entitlements : s.risk[e] = "UNASSESSED"
  /\ s.pc \in {"validate_policies", "check_sod", "make_decision"} =>
       IF "evaluate_risk" \in s.failed
         THEN \A e \in Entitlements : s.risk[e] = "UNASSESSED"
         ELSE \A e \in s.candidates : s.risk[e] # "UNASSESSED"
  /\ s.pc \in {"generate_explanation", "generate_sailpoint_payload", "persist_analysis"} =>
       Decided(s.decisions) = IF "evaluate_risk" \in s.failed THEN {} ELSE s.candidates
  /\ b.present =>
       IF "evaluate_risk" \in s.failed
         THEN Decided(b.decisions) = {} /\ b.status = "FAILED"
         ELSE Decided(b.decisions) = s.candidates \intersect known

Kept(s, b, known) == Recorded(s, b) /\ Judged(s) /\ Accounted(s, b, known)

RInv == \A r \in Runs : Kept(state[r], book[r], catalog)

-----------------------------------------------------------------------------
(* Frames *)

\* A step that gives one run a kept state and leaves rows and catalogue alone
\* keeps RInv.
LEMMA OneRunKept ==
  ASSUME TypeOK, RInv, NEW r \in Runs, NEW s \in RunStates, Become(r, s),
         book' = book, catalog' = catalog, Kept(s, book[r], catalog)
  PROVE  RInv'
<1> SUFFICES ASSUME NEW q \in Runs PROVE Kept(state'[q], book'[q], catalog')
  BY DEF RInv
<1>1. CASE q = r
  BY <1>1 DEF Become, TypeOK
<1>2. CASE q # r
  BY <1>2 DEF Become, TypeOK, RInv
<1> QED BY <1>1, <1>2

SameFindings(s, t) ==
  /\ t.candidates = s.candidates /\ t.requested = s.requested
  /\ t.risk = s.risk /\ t.policy = s.policy /\ t.decisions = s.decisions
  /\ t.answer = s.answer

\* Going on from a step that found out nothing keeps a run's record, if the step
\* whose finding is missing is noted as failed.
LEMMA KeptForward ==
  ASSUME NEW s \in RunStates, NEW t \in RunStates, NEW b, NEW known,
         Kept(s, b, known), SameFindings(s, t),
         s.pc \in Steps \ {"make_decision"}, t.pc = Following(s.pc),
         s.failed \subseteq t.failed, t.failed \subseteq s.failed \union {s.pc},
         t.failed \subseteq t.errors,
         s.pc \in {"evaluate_risk", "validate_policies"} => s.pc \in t.failed
  PROVE  Kept(t, b, known)
<1>1. ~b.present /\ s.answer = "none"
  <2>1. s.pc \notin AfterWrite /\ s.pc # "returned"
    BY DEF Steps, WORKFLOW_STEPS, AfterWrite, Ended
  <2> QED BY <2>1 DEF Kept, Recorded
<1>2. Recorded(t, b)
  BY <1>1 DEF Recorded, SameFindings
<1>3. Judged(t)
  <2>1. t.pc \in {"check_sod", "make_decision"} =>
          s.pc \in {"validate_policies", "check_sod"}
    BY Order, FollowingLast DEF Steps, WORKFLOW_STEPS
  <2>2. ASSUME t.pc \in {"check_sod", "make_decision"}
        PROVE  \/ "validate_policies" \in t.failed
               \/ \A e \in t.requested : t.policy[e].status # "NOT_EVALUATED"
    <3>1. CASE s.pc = "validate_policies"
      BY <3>1
    <3>2. CASE s.pc = "check_sod"
      BY <3>2 DEF Kept, Judged, SameFindings
    <3> QED BY <2>1, <2>2, <3>1, <3>2
  <2>3. \A e \in Granted(t.decisions) :
          t.decisions[e].policy = "NOT_EVALUATED" => "validate_policies" \in t.failed
    <3>1. t.decisions = s.decisions /\ Judged(s)
      BY DEF SameFindings, Kept
    <3> QED BY <3>1 DEF Judged
  <2> QED BY <2>2, <2>3 DEF Judged
<1>4. Accounted(t, b, known)
  <2>1. CASE s.pc \in {"load_joiner", "profile_joiner", "find_peers", "calculate_affinity"}
    <3>1. s.pc \in UpToRisk /\ "evaluate_risk" \notin t.failed
      BY <2>1 DEF UpToRisk, BeforeSod, Kept, Accounted
    <3>2. t.pc \notin {"validate_policies", "check_sod", "make_decision",
             "generate_explanation", "generate_sailpoint_payload", "persist_analysis"}
      BY <2>1, Order
    <3> QED BY <1>1, <3>1, <3>2 DEF Kept, Accounted, SameFindings
  <2>2. CASE s.pc = "evaluate_risk"
    <3>1. s.pc \in UpToRisk /\ t.pc = "validate_policies" /\ t.pc \notin UpToRisk
      BY <2>2, Order DEF UpToRisk, BeforeSod
    <3> QED BY <1>1, <2>2, <3>1 DEF Kept, Accounted, SameFindings
  <2>3. CASE s.pc \in {"validate_policies", "check_sod"}
    <3>1. /\ t.pc \notin UpToRisk
          /\ t.pc \notin {"generate_explanation", "generate_sailpoint_payload",
                          "persist_analysis"}
          /\ "evaluate_risk" \in t.failed <=> "evaluate_risk" \in s.failed
      BY <2>3, Order DEF UpToRisk, BeforeSod
    <3> QED BY <1>1, <2>3, <3>1 DEF Kept, Accounted, SameFindings
  <2>4. CASE s.pc \in {"generate_explanation", "generate_sailpoint_payload",
                       "persist_analysis"}
    <3>1. /\ t.pc \notin UpToRisk
          /\ t.pc \notin {"validate_policies", "check_sod", "make_decision"}
          /\ "evaluate_risk" \in t.failed <=> "evaluate_risk" \in s.failed
      BY <2>4, Order, FollowingLast DEF UpToRisk, BeforeSod
    <3> QED BY <1>1, <2>4, <3>1 DEF Kept, Accounted, SameFindings
  <2> QED BY <2>1, <2>2, <2>3, <2>4 DEF Steps, WORKFLOW_STEPS
<1> QED BY <1>2, <1>3, <1>4 DEF Kept

\* The same for a node that returns s, which may have noted more errors.
LEMMA ContinueKept ==
  ASSUME TypeOK, RInv, NEW r \in Runs, NEW s \in RunStates, s.pc = state[r].pc,
         s.pc \in Steps \ {"make_decision", "evaluate_risk", "validate_policies"},
         Continue(r, s), book' = book, catalog' = catalog, SameFindings(state[r], s),
         s.failed = state[r].failed, state[r].errors \subseteq s.errors
  PROVE  RInv'
<1> DEFINE t == [s EXCEPT !.pc = Following(s.pc)]
<1>1. state[r] \in RunStates /\ t \in RunStates
  BY AdvanceTyped DEF TypeOK
<1>2. /\ t.pc = Following(s.pc) /\ t.failed = s.failed /\ t.errors = s.errors
      /\ SameFindings(state[r], t)
  BY <1>1 DEF RunStates, SameFindings
<1>3. Become(r, t)
  BY DEF Continue
<1>4. Kept(state[r], book[r], catalog)
  BY DEF RInv
<1> HIDE DEF t
<1>5. t.failed \subseteq t.errors
  BY <1>2, <1>4 DEF Kept, Recorded
<1>6. Kept(t, book[r], catalog)
  BY <1>1, <1>2, <1>4, <1>5, KeptForward
<1> QED BY <1>1, <1>3, <1>6, OneRunKept

\* A failure that is noted, whichever step it is of.
LEMMA FailedState ==
  ASSUME TypeOK, NEW r \in Runs, state[r].pc \in Steps, FailStep(r)
  PROVE  \E t \in RunStates :
           /\ Become(r, t) /\ t.pc = Following(state[r].pc) /\ SameFindings(state[r], t)
           /\ t.errors = state[r].errors \union {state[r].pc}
           /\ t.failed = state[r].failed \union {state[r].pc}
<1> DEFINE s == [state[r] EXCEPT !.errors = @ \union {state[r].pc},
                                !.failed = @ \union {state[r].pc}]
           t == [s EXCEPT !.pc = Following(s.pc)]
<1>1. state[r] \in RunStates
  BY DEF TypeOK
<1>2. /\ s \in RunStates /\ s.pc = state[r].pc /\ SameFindings(state[r], s)
      /\ s.errors = state[r].errors \union {state[r].pc}
      /\ s.failed = state[r].failed \union {state[r].pc}
  BY <1>1 DEF RunStates, SameFindings
<1>3. Become(r, t)
  BY DEF FailStep, Continue
<1> HIDE DEF s
<1>4. t \in RunStates
  BY <1>2, AdvanceTyped
<1>5. /\ t.pc = Following(s.pc) /\ SameFindings(s, t)
      /\ t.errors = s.errors /\ t.failed = s.failed
  BY <1>2 DEF RunStates, SameFindings
<1>6. SameFindings(state[r], t)
  BY <1>2, <1>5 DEF SameFindings
<1> HIDE DEF t
<1> QED BY <1>2, <1>3, <1>4, <1>5, <1>6

\* A step that fails keeps RInv.
LEMMA FailKept ==
  ASSUME TypeOK, RInv, NEW r \in Runs, state[r].pc \in Steps \ {"make_decision"},
         FailStep(r), book' = book, catalog' = catalog
  PROVE  RInv'
<1>1. PICK t \in RunStates :
        /\ Become(r, t) /\ t.pc = Following(state[r].pc) /\ SameFindings(state[r], t)
        /\ t.errors = state[r].errors \union {state[r].pc}
        /\ t.failed = state[r].failed \union {state[r].pc}
  BY FailedState
<1>2. state[r] \in RunStates /\ Kept(state[r], book[r], catalog)
  BY DEF TypeOK, RInv
<1>3. t.failed \subseteq t.errors
  BY <1>1, <1>2 DEF Kept, Recorded
<1>4. Kept(t, book[r], catalog)
  BY <1>1, <1>2, <1>3, KeptForward
<1> QED BY <1>1, <1>4, OneRunKept
-----------------------------------------------------------------------------
(* The steps that find something out *)

\* Going on from a step that finds something: what the lemmas below share.
LEMMA FoundKept ==
  ASSUME NEW s \in RunStates, NEW t \in RunStates, NEW b, NEW known,
         Kept(s, b, known), s.pc \in Steps, t.pc = Following(s.pc),
         t.failed = s.failed, t.errors = s.errors, t.answer = s.answer
  PROVE  ~b.present /\ Recorded(t, b)
<1>1. s.pc \notin AfterWrite /\ s.pc # "returned"
  BY DEF Steps, WORKFLOW_STEPS, AfterWrite, Ended
<1> QED BY <1>1 DEF Kept, Recorded

\* calculate_affinity keeps RInv: no candidate is assessed yet, none has a verdict.
LEMMA CalculateAffinityKept ==
  ASSUME TypeOK, RInv, NEW r \in Runs, CalculateAffinity(r) PROVE RInv'
<1> DEFINE some == Candidates(state[r].peers, holds, catalog)
           above == AboveThreshold(state[r].peers, holds, catalog)
           t == [state[r] EXCEPT !.candidates = some, !.requested = above,
                                 !.pc = "evaluate_risk"]
<1>1. some \in SUBSET Entitlements /\ above \in SUBSET Entitlements
  BY DEF TypeOK, Candidates, AboveThreshold
<1>2. /\ state[r] \in RunStates /\ state[r].pc = "calculate_affinity"
      /\ book' = book /\ catalog' = catalog
  BY DEF TypeOK, CalculateAffinity, At, Quiet, world
<1>3. Become(r, t)
  <2>1. [state[r] EXCEPT !.candidates = some, !.requested = above].pc = "calculate_affinity"
    BY <1>2 DEF RunStates
  <2> QED BY <2>1, Order DEF CalculateAffinity, Continue, Become
<1> HIDE DEF some, above
<1>4. /\ t \in RunStates /\ t.pc = "evaluate_risk" /\ t.risk = state[r].risk
      /\ t.decisions = state[r].decisions /\ t.failed = state[r].failed
      /\ t.errors = state[r].errors /\ t.answer = state[r].answer
  <2>1. "evaluate_risk" \in Pcs
    BY DEF Pcs, Running, Steps, WORKFLOW_STEPS
  <2>2. t \in RunStates
    BY <2>1, <1>1, <1>2 DEF RunStates
  <2> QED BY <2>2, <1>1, <1>2 DEF RunStates
<1> HIDE DEF t
<1>5. Kept(state[r], book[r], catalog)
  BY DEF RInv
<1>6. ~book[r].present /\ Recorded(t, book[r])
  <2>1. state[r].pc \in Steps /\ t.pc = Following(state[r].pc)
    BY <1>2, <1>4, Order DEF Steps, WORKFLOW_STEPS
  <2> QED BY <2>1, <1>2, <1>4, <1>5, FoundKept
<1>7. Judged(t)
  <2>1. t.decisions = state[r].decisions /\ Judged(state[r])
    BY <1>4, <1>5 DEF Kept
  <2> QED BY <2>1, <1>4 DEF Judged
<1>8. Accounted(t, book[r], catalog)
  BY <1>2, <1>4, <1>5, <1>6 DEF Kept, Accounted, UpToRisk, BeforeSod
<1> QED BY <1>2, <1>3, <1>4, <1>6, <1>7, <1>8, OneRunKept DEF Kept

\* Every score has a level: a candidate that went through the risk step is assessed.
LEMMA Assessed == \A score : ClassifyRisk(score) # "UNASSESSED"
BY DEF ClassifyRisk

\* evaluate_risk keeps RInv: it assesses all the candidates, or fails and none.
LEMMA EvaluateRiskKept ==
  ASSUME TypeOK, RInv, NEW r \in Runs, EvaluateRisk(r) PROVE RInv'
<1> DEFINE risk == [e \in Entitlements |->
                      IF e \in state[r].candidates THEN ClassifyRisk(RiskScore[e])
                      ELSE "UNASSESSED"]
           t == [state[r] EXCEPT !.risk = risk, !.pc = "validate_policies"]
<1>1. risk \in [Entitlements -> RiskLevels \union {"UNASSESSED"}]
  BY KernelTypes, WorkflowConstants
<1>2. /\ state[r] \in RunStates /\ state[r].pc = "evaluate_risk"
      /\ book' = book /\ catalog' = catalog
  BY DEF TypeOK, EvaluateRisk, At, Quiet, world
<1>3. CASE ~(state[r].candidates \subseteq catalog)
  <2>1. FailStep(r) /\ state[r].pc \in Steps \ {"make_decision"}
    BY <1>2, <1>3 DEF EvaluateRisk, Steps, WORKFLOW_STEPS
  <2> QED BY <2>1, <1>2, FailKept
<1>4. CASE state[r].candidates \subseteq catalog
  <2>1. Become(r, t)
    <3> DEFINE s == [state[r] EXCEPT !.risk = risk]
    <3>1. Continue(r, s)
      BY <1>4 DEF EvaluateRisk
    <3> HIDE DEF risk
    <3>2. s.pc = "evaluate_risk"
      BY <1>2 DEF RunStates
    <3> QED BY <3>1, <3>2, Order DEF Continue, Become
  <2>2. \A e \in state[r].candidates : risk[e] # "UNASSESSED"
    BY <1>2, Assessed DEF RunStates
  <2> HIDE DEF risk
  <2>3. /\ t \in RunStates /\ t.pc = "validate_policies" /\ t.risk = risk
        /\ t.candidates = state[r].candidates
        /\ t.decisions = state[r].decisions /\ t.failed = state[r].failed
        /\ t.errors = state[r].errors /\ t.answer = state[r].answer
    <3>1. "validate_policies" \in Pcs
      BY DEF Pcs, Running, Steps, WORKFLOW_STEPS
    <3>2. t \in RunStates
      BY <3>1, <1>1, <1>2 DEF RunStates
    <3> QED BY <3>2, <1>1, <1>2 DEF RunStates
  <2> HIDE DEF t
  <2>4. Kept(state[r], book[r], catalog)
    BY DEF RInv
  <2>5. ~book[r].present /\ Recorded(t, book[r])
    <3>1. state[r].pc \in Steps /\ t.pc = Following(state[r].pc)
      BY <1>2, <2>3, Order DEF Steps, WORKFLOW_STEPS
    <3> QED BY <3>1, <1>2, <2>3, <2>4, FoundKept
  <2>6. Judged(t)
    <3>1. t.decisions = state[r].decisions /\ Judged(state[r])
      BY <2>3, <2>4 DEF Kept
    <3> QED BY <3>1, <2>3 DEF Judged
  <2>7. "evaluate_risk" \notin t.failed
    BY <1>2, <2>3, <2>4 DEF Kept, Accounted, UpToRisk, BeforeSod
  <2>8. Accounted(t, book[r], catalog)
    BY <2>2, <2>3, <2>5, <2>7 DEF Accounted, UpToRisk
  <2> QED BY <1>2, <2>1, <2>3, <2>5, <2>6, <2>8, OneRunKept DEF Kept
<1> QED BY <1>3, <1>4

\* validate_policies keeps RInv: it gives every requested entitlement a verdict.
LEMMA ValidatePoliciesKept ==
  ASSUME TypeOK, RInv, NEW r \in Runs, ValidatePolicies(r) PROVE RInv'
<1>1. PICK verdict \in [state[r].requested -> PolicyOutcomes] :
        Continue(r, [state[r] EXCEPT !.policy =
          [e \in Entitlements |->
             IF e \in state[r].requested THEN verdict[e] ELSE NotEvaluated]])
  BY DEF ValidatePolicies
<1> DEFINE policy == [e \in Entitlements |->
                        IF e \in state[r].requested THEN verdict[e] ELSE NotEvaluated]
           t == [state[r] EXCEPT !.policy = policy, !.pc = "check_sod"]
<1>2. policy \in [Entitlements -> Verdicts]
  BY KernelTypes, WorkflowConstants
<1>3. /\ state[r] \in RunStates /\ state[r].pc = "validate_policies"
      /\ book' = book /\ catalog' = catalog
  BY DEF TypeOK, ValidatePolicies, At, Quiet, world
<1>4. \A e \in state[r].requested : policy[e].status # "NOT_EVALUATED"
  BY <1>3, WorkflowConstants DEF RunStates
<1>5. Become(r, t)
  <2>1. [state[r] EXCEPT !.policy = policy].pc = "validate_policies"
    BY <1>3 DEF RunStates
  <2> QED BY <1>1, <2>1, Order DEF Continue, Become
<1> HIDE DEF policy
<1>6. /\ t \in RunStates /\ t.pc = "check_sod" /\ t.policy = policy
      /\ t.requested = state[r].requested /\ t.candidates = state[r].candidates
      /\ t.risk = state[r].risk
      /\ t.decisions = state[r].decisions /\ t.failed = state[r].failed
      /\ t.errors = state[r].errors /\ t.answer = state[r].answer
  <2>1. "check_sod" \in Pcs
    BY DEF Pcs, Running, Steps, WORKFLOW_STEPS
  <2>2. t \in RunStates
    BY <2>1, <1>2, <1>3 DEF RunStates
  <2> QED BY <2>2, <1>2, <1>3 DEF RunStates
<1> HIDE DEF t
<1>7. Kept(state[r], book[r], catalog)
  BY DEF RInv
<1>8. ~book[r].present /\ Recorded(t, book[r])
  <2>1. state[r].pc \in Steps /\ t.pc = Following(state[r].pc)
    BY <1>3, <1>6, Order DEF Steps, WORKFLOW_STEPS
  <2> QED BY <2>1, <1>3, <1>6, <1>7, FoundKept
<1>9. Judged(t)
  <2>1. t.decisions = state[r].decisions /\ Judged(state[r])
    BY <1>6, <1>7 DEF Kept
  <2> QED BY <2>1, <1>4, <1>6 DEF Judged
<1>10. Accounted(t, book[r], catalog)
  BY <1>3, <1>6, <1>7, <1>8 DEF Kept, Accounted, UpToRisk
<1> QED BY <1>3, <1>5, <1>6, <1>8, <1>9, <1>10, OneRunKept DEF Kept

\* decide_all: who is granted has the verdict the decision records.
LEMMA GrantRecordsVerdict ==
  ASSUME NEW s \in RunStates, NEW e \in Granted(DecideAll(s))
  PROVE  e \in s.requested /\ DecideAll(s)[e].policy = s.policy[e].status
<1>1. e \in Entitlements /\ Requestable(DecideAll(s)[e])
  BY DEF Granted
<1>2. DecideAll(s)[e] # Undecided
  BY <1>1, NothingGranted
<1>3. DecideAll(s)[e] =
        Decide(e \in s.requested, s.risk[e], s.policy[e],
               e \in s.requested /\ ConflictsFor(s.conflicts, e) # {})
  BY <1>1, <1>2 DEF DecideAll
<1>4. DecideAll(s)[e].policy = s.policy[e].status
  BY <1>3 DEF Decide
<1> QED BY <1>4, DecideAllGrants

\* A decision is never the mark of a missing one.
LEMMA DecideDecides ==
  ASSUME NEW meets, NEW level, NEW verdict, NEW conflicted
  PROVE  Decide(meets, level, verdict, conflicted) # Undecided
<1>1. Outcome(meets, level, verdict, conflicted).status # "ABSENT"
  BY DEF Outcome
<1>2. Decide(meets, level, verdict, conflicted).status # "ABSENT"
  BY <1>1 DEF Decide
<1> QED BY <1>2 DEF Undecided

\* decide_all decides about the candidates that were assessed, and no others.
LEMMA DecidedAreAssessed ==
  ASSUME NEW s \in RunStates
  PROVE  Decided(DecideAll(s)) = {e \in s.candidates : s.risk[e] # "UNASSESSED"}
<1>1. \A e \in Entitlements :
        DecideAll(s)[e] # Undecided <=> e \in s.candidates /\ s.risk[e] # "UNASSESSED"
  BY DecideDecides DEF DecideAll
<1>2. s.candidates \subseteq Entitlements
  BY DEF RunStates
<1> QED BY <1>1, <1>2 DEF Decided

\* make_decision keeps RInv: it decides about all candidates, or about none.
LEMMA MakeDecisionKept ==
  ASSUME TypeOK, RInv, NEW r \in Runs, MakeDecision(r) PROVE RInv'
<1> DEFINE decisions == DecideAll(state[r])
           t == [state[r] EXCEPT !.decisions = decisions, !.pc = "generate_explanation"]
<1>1. /\ state[r] \in RunStates /\ state[r].pc = "make_decision"
      /\ book' = book /\ catalog' = catalog
  BY DEF TypeOK, MakeDecision, At, Quiet, world
<1>2. decisions \in [Entitlements -> Decisions]
  BY <1>1, DecideAllTyped
<1>3. Become(r, t)
  <2>1. [state[r] EXCEPT !.decisions = decisions].pc = "make_decision"
    BY <1>1 DEF RunStates
  <2> QED BY <2>1, Order DEF MakeDecision, Continue, Become
<1>4. \A e \in Granted(decisions) :
        e \in state[r].requested /\ decisions[e].policy = state[r].policy[e].status
  BY <1>1, GrantRecordsVerdict
<1>5. Decided(decisions) =
        {e \in state[r].candidates : state[r].risk[e] # "UNASSESSED"}
  BY <1>1, DecidedAreAssessed
<1> HIDE DEF decisions
<1>6. /\ t \in RunStates /\ t.pc = "generate_explanation" /\ t.decisions = decisions
      /\ t.candidates = state[r].candidates /\ t.failed = state[r].failed
      /\ t.errors = state[r].errors /\ t.answer = state[r].answer
  <2>1. "generate_explanation" \in Pcs
    BY DEF Pcs, Running, Steps, WORKFLOW_STEPS
  <2>2. t \in RunStates
    BY <2>1, <1>1, <1>2 DEF RunStates
  <2> QED BY <2>2, <1>1, <1>2 DEF RunStates
<1> HIDE DEF t
<1>7. Kept(state[r], book[r], catalog)
  BY DEF RInv
<1>8. ~book[r].present /\ Recorded(t, book[r])
  <2>1. state[r].pc \in Steps /\ t.pc = Following(state[r].pc)
    BY <1>1, <1>6, Order DEF Steps, WORKFLOW_STEPS
  <2> QED BY <2>1, <1>1, <1>6, <1>7, FoundKept
<1>9. Judged(t)
  <2>1. \/ "validate_policies" \in t.failed
        \/ \A e \in state[r].requested : state[r].policy[e].status # "NOT_EVALUATED"
    BY <1>1, <1>6, <1>7 DEF Kept, Judged
  <2>2. \A e \in Granted(t.decisions) :
          t.decisions[e].policy = "NOT_EVALUATED" => "validate_policies" \in t.failed
    BY <2>1, <1>4, <1>6
  <2> QED BY <2>2, <1>6 DEF Judged
<1>10. Accounted(t, book[r], catalog)
  <2>1. Decided(decisions) =
          IF "evaluate_risk" \in state[r].failed THEN {} ELSE state[r].candidates
    <3>1. state[r].candidates \subseteq Entitlements
      BY <1>1 DEF RunStates
    <3> QED BY <3>1, <1>1, <1>5, <1>7 DEF Kept, Accounted
  <2> QED BY <2>1, <1>6, <1>8 DEF Accounted, UpToRisk, BeforeSod
<1> QED BY <1>1, <1>3, <1>6, <1>8, <1>9, <1>10, OneRunKept DEF Kept
-----------------------------------------------------------------------------
(* The steps that find nothing out *)

\* Loading, profiling, searching peers, checking SoD, explaining and building the
\* payload keep RInv: they touch neither findings nor failures.
LEMMA OtherStepsKept ==
  ASSUME TypeOK, RInv, NEW r \in Runs,
         \/ LoadJoiner(r) \/ ProfileJoiner(r) \/ FindPeers(r) \/ CheckSod(r)
         \/ GenerateExplanation(r) \/ GeneratePayload(r)
  PROVE  RInv'
<1>1. /\ state[r] \in RunStates /\ book' = book /\ catalog' = catalog
      /\ state[r].pc \in Steps \ {"make_decision", "evaluate_risk", "validate_policies"}
  BY DEF TypeOK, LoadJoiner, ProfileJoiner, FindPeers, CheckSod, GenerateExplanation,
     GeneratePayload, At, Quiet, world, Steps, WORKFLOW_STEPS
<1>2. CASE LoadJoiner(r) \/ ProfileJoiner(r)
  <2>1. Continue(r, state[r]) /\ SameFindings(state[r], state[r])
    BY <1>2 DEF LoadJoiner, ProfileJoiner, SameFindings
  <2> QED BY <1>1, <2>1, ContinueKept
<1>3. CASE FindPeers(r)
  <2> DEFINE group == PeerGroup(active)
             warned == IF Cardinality(group) < MinPeerCount THEN {"find_peers"} ELSE {}
             s == [state[r] EXCEPT !.peers = group, !.errors = @ \union warned]
  <2>1. group \in SUBSET Peers /\ "find_peers" \in Steps
    BY PeerGroupTyped DEF Steps, WORKFLOW_STEPS
  <2>2. Continue(r, s)
    BY <1>3 DEF FindPeers
  <2> HIDE DEF group
  <2>3. /\ s \in RunStates /\ s.pc = state[r].pc /\ SameFindings(state[r], s)
        /\ s.failed = state[r].failed /\ state[r].errors \subseteq s.errors
    BY <1>1, <2>1 DEF RunStates, SameFindings
  <2> HIDE DEF s
  <2> QED BY <1>1, <2>2, <2>3, ContinueKept
<1>4. CASE CheckSod(r)
  <2> DEFINE found == SodConflicts(rules, state[r].requested, held)
             s == [state[r] EXCEPT !.conflicts = found, !.rulesSeen = rules,
                                   !.heldSeen = held]
  <2>1. /\ found \in SUBSET SodRules /\ rules \in SUBSET SodRules
        /\ held \in SUBSET Entitlements
    BY DEF SodConflicts, TypeOK
  <2>2. Continue(r, s)
    BY <1>4 DEF CheckSod
  <2> HIDE DEF found
  <2>3. /\ s \in RunStates /\ s.pc = state[r].pc /\ SameFindings(state[r], s)
        /\ s.failed = state[r].failed /\ state[r].errors \subseteq s.errors
    BY <1>1, <2>1 DEF RunStates, SameFindings
  <2> HIDE DEF s
  <2> QED BY <1>1, <2>2, <2>3, ContinueKept
<1>5. CASE GenerateExplanation(r)
  <2> DEFINE made == Decided(state[r].decisions) # {}
             s == [state[r] EXCEPT !.explained = made]
  <2>1. Continue(r, s) /\ made \in BOOLEAN
    BY <1>5 DEF GenerateExplanation
  <2> HIDE DEF made
  <2>2. /\ s \in RunStates /\ s.pc = state[r].pc /\ SameFindings(state[r], s)
        /\ s.failed = state[r].failed /\ state[r].errors \subseteq s.errors
    BY <1>1, <2>1 DEF RunStates, SameFindings
  <2> HIDE DEF s
  <2> QED BY <1>1, <2>1, <2>2, ContinueKept
<1>6. CASE GeneratePayload(r)
  <2> DEFINE payload == IF Decided(state[r].decisions) = {} THEN {}
                        ELSE {Included(state[r].decisions)}
             s == [state[r] EXCEPT !.payload = payload]
  <2>1. state[r].decisions \in [Entitlements -> Decisions]
    BY <1>1 DEF RunStates
  <2>2. Continue(r, s) /\ payload \in SUBSET SUBSET Entitlements
    BY <1>6, <2>1, IncludedTyped DEF GeneratePayload
  <2> HIDE DEF payload
  <2>3. /\ s \in RunStates /\ s.pc = state[r].pc /\ SameFindings(state[r], s)
        /\ s.failed = state[r].failed /\ state[r].errors \subseteq s.errors
    BY <1>1, <2>2 DEF RunStates, SameFindings
  <2> HIDE DEF s
  <2> QED BY <1>1, <2>2, <2>3, ContinueKept
<1> QED BY <1>2, <1>3, <1>4, <1>5, <1>6

\* A call that fails keeps RInv; make_decision makes none.
LEMMA NodeFailsKept ==
  ASSUME TypeOK, RInv, NEW r \in Runs, NodeFails(r) PROVE RInv'
<1>1. state[r].pc \in Steps \ {"make_decision"} /\ book' = book /\ catalog' = catalog
  BY DEF NodeFails, Calls, At, Steps, WORKFLOW_STEPS, world
<1> QED BY <1>1, FailKept DEF NodeFails

\* A state that differs in the control point only, and does not go back to a step
\* something is said of.
LEMMA PcOnlyKept ==
  ASSUME TypeOK, RInv, NEW r \in Runs,
         NEW pc \in {"connect", "load_joiner", "raised"},
         Become(r, [state[r] EXCEPT !.pc = pc]), book' = book, catalog' = catalog,
         state[r].answer = "none",
         pc = "raised" \/ state[r].pc \in {"idle", "connect"}
  PROVE  RInv'
<1> DEFINE t == [state[r] EXCEPT !.pc = pc]
<1>1. state[r] \in RunStates /\ pc \in Pcs
  BY DEF TypeOK, Pcs, Running, Ended, Steps, WORKFLOW_STEPS
<1>2. /\ t \in RunStates /\ t.pc = pc /\ SameFindings(state[r], t) /\ Become(r, t)
      /\ t.failed = state[r].failed /\ t.errors = state[r].errors
  BY <1>1 DEF RunStates, SameFindings
<1>3. Kept(state[r], book[r], catalog)
  BY DEF RInv
<1> HIDE DEF t
<1>4. Recorded(t, book[r])
  BY <1>2, <1>3 DEF Kept, Recorded, SameFindings, AfterWrite, Ended
<1>5. Judged(t)
  <2>1. t.decisions = state[r].decisions /\ Judged(state[r])
    BY <1>2, <1>3 DEF SameFindings, Kept
  <2> QED BY <2>1, <1>2 DEF Judged
<1>6. Accounted(t, book[r], catalog)
  BY <1>2, <1>3 DEF Kept, Accounted, SameFindings, UpToRisk, BeforeSod
<1> QED BY <1>2, <1>4, <1>5, <1>6, OneRunKept DEF Kept

\* Starting, connecting, raising and a session that does not close keep RInv.
LEMMA StartKept ==
  ASSUME TypeOK, RInv, NEW r \in Runs,
         Start(r) \/ Connect(r) \/ Raise(r) \/ CloseRaises(r)
  PROVE  RInv'
<1>1. WORKFLOW_STEPS[1] = "load_joiner"
  BY DEF WORKFLOW_STEPS
<1>2. book' = book /\ catalog' = catalog
  BY DEF Start, Connect, Raise, CloseRaises, Quiet, world
<1>3. state[r].answer = "none"
  <2>1. state[r].pc \in {"idle", "connect", "load_joiner", "END"}
    BY DEF Start, Connect, Raise, CloseRaises, At
  <2>2. Recorded(state[r], book[r])
    BY DEF RInv, Kept
  <2> QED BY <2>1, <2>2 DEF Recorded
<1> QED BY <1>1, <1>2, <1>3, PcOnlyKept DEF Start, Connect, Raise, CloseRaises, At

-----------------------------------------------------------------------------
(* Writing and after *)

\* The rows written at the last step keep the record, whichever way the step ends.
LEMMA WriteKept ==
  ASSUME TypeOK, RInv, NEW r \in Runs, state[r].pc = "persist_analysis",
         Insertable(state[r]), NEW s \in RunStates, s.pc = state[r].pc, Continue(r, s),
         SameFindings(state[r], s), s.failed \subseteq s.errors,
         s.failed \ {"persist_analysis"} \subseteq state[r].failed,
         state[r].failed \subseteq s.failed,
         book' = [book EXCEPT ![r] = RowOf(state[r])], catalog' = catalog
  PROVE  RInv'
<1> DEFINE t == [s EXCEPT !.pc = "END"]
           b == RowOf(state[r])
<1>1. state[r] \in RunStates
  BY DEF TypeOK
<1>2. Become(r, t)
  BY FollowingLast DEF Continue
<1>3. /\ t.pc = "END" /\ t.failed = s.failed /\ t.errors = s.errors
      /\ SameFindings(state[r], t)
  BY DEF RunStates, SameFindings
<1>4. /\ b.present /\ b.status = BuildStatus(state[r])
      /\ b.errors = state[r].errors /\ b.decisions = state[r].decisions
  BY DEF RowOf
<1>5. Kept(state[r], book[r], catalog) /\ book' = [book EXCEPT ![r] = b]
  BY DEF RInv
<1> HIDE DEF t, b
<1>6. state[r].answer = "none"
  BY <1>5 DEF Kept, Recorded
<1>7. Recorded(t, b)
  <2>1. b.status = "COMPLETED" => b.errors = {}
    BY <1>4 DEF BuildStatus
  <2> QED BY <1>3, <1>4, <1>5, <1>6, <2>1 DEF Kept, Recorded, SameFindings, AfterWrite
<1>8. Judged(t)
  <2>1. t.decisions = state[r].decisions /\ Judged(state[r])
    BY <1>3, <1>5 DEF SameFindings, Kept
  <2> QED BY <2>1, <1>3 DEF Judged
<1>9. Accounted(t, b, catalog)
  <2>1. Decided(state[r].decisions) =
          IF "evaluate_risk" \in state[r].failed THEN {} ELSE state[r].candidates
    BY <1>5 DEF Kept, Accounted
  <2>2. "evaluate_risk" \in t.failed <=> "evaluate_risk" \in state[r].failed
    BY <1>3
  <2>3. CASE "evaluate_risk" \in state[r].failed
    <3>1. state[r].errors # {}
      BY <2>3, <1>5 DEF Kept, Recorded
    <3>2. b.status = "FAILED" /\ Decided(b.decisions) = {}
      BY <2>1, <2>3, <3>1, <1>4 DEF BuildStatus
    <3> QED BY <2>2, <2>3, <3>2, <1>3 DEF Accounted, UpToRisk, BeforeSod
  <2>4. CASE "evaluate_risk" \notin state[r].failed
    <3>1. Decided(b.decisions) = t.candidates \intersect catalog
      BY <2>1, <2>4, <1>3, <1>4 DEF SameFindings, Insertable
    <3> QED BY <2>2, <2>4, <3>1, <1>3 DEF Accounted, UpToRisk, BeforeSod
  <2> QED BY <2>3, <2>4
<1>10. t \in RunStates
  <2>1. "END" \in Pcs
    BY DEF Pcs, Running
  <2> QED BY <2>1 DEF t, RunStates
<1> SUFFICES ASSUME NEW q \in Runs PROVE Kept(state'[q], book'[q], catalog')
  BY DEF RInv
<1>11. CASE q = r
  BY <1>2, <1>5, <1>7, <1>8, <1>9, <1>11 DEF Become, TypeOK, Kept
<1>12. CASE q # r
  BY <1>2, <1>5, <1>12 DEF Become, TypeOK, RInv
<1> QED BY <1>11, <1>12

\* Every outcome of the persist transaction keeps RInv, the lost acknowledgement too.
LEMMA PersistKept ==
  ASSUME TypeOK, RInv, NEW r \in Runs,
         PersistCommits(r) \/ PersistRejected(r) \/ PersistFails(r) \/ PersistAckLost(r)
  PROVE  RInv'
<1>1. /\ state[r] \in RunStates /\ state[r].pc = "persist_analysis"
      /\ state[r].pc \in Steps \ {"make_decision"} /\ catalog' = catalog
      /\ state[r].failed \subseteq state[r].errors
  BY DEF TypeOK, PersistCommits, PersistRejected, PersistFails, PersistAckLost,
     At, Steps, WORKFLOW_STEPS, Quiet, world, RInv, Kept, Recorded
<1>2. CASE PersistCommits(r)
  <2> DEFINE s == [state[r] EXCEPT !.persisted = TRUE]
  <2>1. /\ s \in RunStates /\ s.pc = state[r].pc /\ SameFindings(state[r], s)
        /\ s.failed = state[r].failed /\ s.errors = state[r].errors
    BY <1>1 DEF RunStates, SameFindings
  <2>2. /\ Continue(r, s) /\ book' = [book EXCEPT ![r] = RowOf(state[r])]
        /\ Insertable(state[r])
    BY <1>2 DEF PersistCommits
  <2> HIDE DEF s
  <2> QED BY <1>1, <2>1, <2>2, WriteKept
<1>3. CASE PersistRejected(r) \/ PersistFails(r)
  BY <1>1, <1>3, FailKept DEF PersistRejected, PersistFails, Quiet
<1>4. CASE PersistAckLost(r)
  <2> DEFINE s == [state[r] EXCEPT !.errors = @ \union {state[r].pc},
                                  !.failed = @ \union {state[r].pc}]
  <2>1. /\ s \in RunStates /\ s.pc = state[r].pc /\ SameFindings(state[r], s)
        /\ s.failed = state[r].failed \union {"persist_analysis"}
        /\ s.errors = state[r].errors \union {"persist_analysis"}
    BY <1>1 DEF RunStates, SameFindings
  <2>2. /\ Continue(r, s) /\ book' = [book EXCEPT ![r] = RowOf(state[r])]
        /\ Insertable(state[r])
    BY <1>4 DEF PersistAckLost, FailStep
  <2> HIDE DEF s
  <2> QED BY <1>1, <2>1, <2>2, WriteKept
<1> QED BY <1>2, <1>3, <1>4
\* The answer of run_analysis keeps RInv: only what was written without an error is
\* reported complete.
LEMMA ReturnKept == ASSUME TypeOK, RInv, NEW r \in Runs, Return(r) PROVE RInv'
<1> DEFINE given == IF state[r].persisted THEN BuildStatus(state[r]) ELSE "FAILED"
           noted == IF state[r].persisted THEN state[r].errors
                    ELSE state[r].errors \union {"persist_analysis"}
           t == [state[r] EXCEPT !.pc = "returned", !.answer = given, !.errors = noted]
<1>1. /\ state[r] \in RunStates /\ "returned" \in Pcs /\ state[r].pc = "END"
      /\ book' = book /\ catalog' = catalog
  BY DEF TypeOK, Pcs, Ended, Return, At, Quiet, world
<1>2. given \in AnalysisStatuses /\ (given = "COMPLETED" => noted = {})
  BY DEF BuildStatus, AnalysisStatuses
<1>3. noted \in SUBSET Steps /\ state[r].errors \subseteq noted
  BY <1>1 DEF RunStates, Steps, WORKFLOW_STEPS
<1>4. Become(r, t)
  BY DEF Return
<1> HIDE DEF given, noted
<1>5. t \in RunStates
  BY <1>1, <1>2, <1>3 DEF RunStates
<1>6. /\ t.pc = "returned" /\ t.answer = given /\ t.errors = noted
      /\ t.failed = state[r].failed /\ t.decisions = state[r].decisions
      /\ t.candidates = state[r].candidates
  BY <1>1, <1>5 DEF RunStates
<1> HIDE DEF t
<1>7. Kept(state[r], book[r], catalog)
  BY DEF RInv
<1>8. Recorded(t, book[r])
  BY <1>2, <1>3, <1>6, <1>7 DEF Kept, Recorded, AfterWrite, Ended
<1>9. Judged(t)
  <2>1. t.decisions = state[r].decisions /\ Judged(state[r])
    BY <1>6, <1>7 DEF Kept
  <2> QED BY <2>1, <1>6 DEF Judged
<1>10. Accounted(t, book[r], catalog)
  BY <1>6, <1>7 DEF Kept, Accounted, UpToRisk, BeforeSod
<1> QED BY <1>1, <1>4, <1>5, <1>8, <1>9, <1>10, OneRunKept DEF Kept

\* A request generated from the rows keeps RInv: it changes the payload only.
LEMMA RegenerateKept ==
  ASSUME TypeOK, RInv, NEW r \in Runs, RegenerateRequest(r) PROVE RInv'
<1> DEFINE payload == {Included(book[r].decisions)}
           b == [book[r] EXCEPT !.payload = payload]
<1>1. book[r] \in Rows /\ state' = state /\ catalog' = catalog
      /\ book' = [book EXCEPT ![r] = b]
  BY DEF TypeOK, RegenerateRequest, world
<1> HIDE DEF payload
<1>2. /\ b.present = book[r].present /\ b.status = book[r].status
      /\ b.errors = book[r].errors /\ b.decisions = book[r].decisions
  BY <1>1 DEF Rows
<1> HIDE DEF b
<1>3. Kept(state[r], book[r], catalog)
  BY DEF RInv
<1>4. Kept(state[r], b, catalog)
  BY <1>2, <1>3 DEF Kept, Recorded, Accounted
<1> SUFFICES ASSUME NEW q \in Runs PROVE Kept(state'[q], book'[q], catalog')
  BY DEF RInv
<1>5. CASE q = r
  BY <1>1, <1>4, <1>5 DEF TypeOK
<1>6. CASE q # r
  BY <1>1, <1>6 DEF TypeOK, RInv
<1> QED BY <1>5, <1>6

\* Deleting a catalogue row keeps RInv: the rows lose that decision and no other.
LEMMA RetireKept ==
  ASSUME TypeOK, RInv, NEW e \in Entitlements, RetireEntitlement(e) PROVE RInv'
<1> SUFFICES ASSUME NEW q \in Runs PROVE Kept(state'[q], book'[q], catalog')
  BY DEF RInv
<1> DEFINE b == [book[q] EXCEPT !.decisions = [@ EXCEPT ![e] = Undecided]]
<1>1. book[q] \in Rows /\ book[q].decisions \in [Entitlements -> Decisions]
  BY DEF TypeOK, Rows
<1>2. state'[q] = state[q] /\ book'[q] = b /\ catalog' = catalog \ {e}
  BY DEF RetireEntitlement
<1>3. /\ b.present = book[q].present /\ b.status = book[q].status
      /\ b.errors = book[q].errors
      /\ b.decisions = [book[q].decisions EXCEPT ![e] = Undecided]
  BY <1>1 DEF Rows
<1> HIDE DEF b
<1>4. Decided(b.decisions) = Decided(book[q].decisions) \ {e}
  BY <1>1, <1>3 DEF Decided
<1>5. Kept(state[q], book[q], catalog)
  BY DEF RInv
<1>6. Recorded(state[q], b) /\ Judged(state[q])
  BY <1>3, <1>5 DEF Kept, Recorded
<1>7. Accounted(state[q], b, catalog \ {e})
  <2>1. CASE b.present
    BY <2>1, <1>3, <1>4, <1>5 DEF Kept, Accounted
  <2>2. CASE ~b.present
    BY <2>2, <1>5 DEF Kept, Accounted
  <2> QED BY <2>1, <2>2
<1> QED BY <1>2, <1>6, <1>7 DEF Kept

\* The death of the process keeps RInv.
LEMMA CrashKept == ASSUME TypeOK, RInv, Crash PROVE RInv'
<1> SUFFICES ASSUME NEW q \in Runs PROVE Kept(state'[q], book'[q], catalog')
  BY DEF RInv
<1>1. book' = book /\ catalog' = catalog /\ Kept(state[q], book[q], catalog)
  BY DEF Crash, RInv, world
<1>2. CASE state[q].pc \in Running
  <2> DEFINE t == [state[q] EXCEPT !.pc = "dead"]
  <2>1. state[q] \in RunStates
    BY DEF TypeOK
  <2>2. /\ t.pc = "dead" /\ SameFindings(state[q], t)
        /\ t.failed = state[q].failed /\ t.errors = state[q].errors
    BY <2>1 DEF RunStates, SameFindings
  <2>3. state'[q] = t
    BY <1>2 DEF Crash
  <2> HIDE DEF t
  <2>4. state[q].answer = "none"
    <3>1. state[q].pc # "returned"
      BY <1>2 DEF Running, Steps, WORKFLOW_STEPS
    <3> QED BY <3>1, <1>1 DEF Kept, Recorded
  <2>5. Recorded(t, book[q])
    BY <1>1, <2>2, <2>4 DEF Kept, Recorded, SameFindings, AfterWrite, Ended
  <2>6. Judged(t)
    <3>1. t.decisions = state[q].decisions /\ Judged(state[q])
      BY <1>1, <2>2 DEF SameFindings, Kept
    <3> QED BY <3>1, <2>2 DEF Judged
  <2>7. Accounted(t, book[q], catalog)
    BY <1>1, <2>2 DEF Kept, Accounted, SameFindings, UpToRisk, BeforeSod
  <2> QED BY <1>1, <2>3, <2>5, <2>6, <2>7 DEF Kept
<1>3. CASE state[q].pc \notin Running
  BY <1>1, <1>3 DEF Crash
<1> QED BY <1>2, <1>3

-----------------------------------------------------------------------------
(* The theorems *)

\* RInv holds initially.
LEMMA InitKept == Init => RInv
<1>1. /\ initial_state.pc = "idle" /\ initial_state.failed = {}
      /\ initial_state.errors = {} /\ initial_state.answer = "none"
      /\ initial_state.risk = [e \in Entitlements |-> "UNASSESSED"]
      /\ initial_state.decisions = NoDecisions
  BY DEF initial_state
<1>2. ~NoRow.present
  BY DEF NoRow
<1>3. Recorded(initial_state, NoRow) /\ Judged(initial_state)
  BY <1>1, <1>2, NothingGranted DEF Recorded, Judged
<1>4. Accounted(initial_state, NoRow, Entitlements)
  BY <1>1, <1>2 DEF Accounted
<1> QED BY <1>3, <1>4 DEF Init, RInv, Kept

\* A step that leaves runs, rows and catalogue alone keeps RInv.
LEMMA UnchangedKept ==
  ASSUME RInv, state' = state, book' = book, catalog' = catalog PROVE RInv'
BY DEF RInv

\* Every step of a run keeps RInv.
LEMMA RunStepKept == ASSUME TypeOK, RInv, NEW r \in Runs, RunStep(r) PROVE RInv'
BY StartKept, OtherStepsKept, CalculateAffinityKept, EvaluateRiskKept,
   ValidatePoliciesKept, MakeDecisionKept, NodeFailsKept, PersistKept, ReturnKept
   DEF RunStep

\* Crashes and edits of the reference data keep RInv.
LEMMA EnvironmentKept == ASSUME TypeOK, RInv, Environment PROVE RInv'
<1>1. CASE Crash
  BY <1>1, CrashKept
<1>2. ASSUME NEW rule \in SodRules, ToggleRule(rule) PROVE RInv'
  BY <1>2, UnchangedKept DEF ToggleRule
<1>3. ASSUME NEW p \in Peers, Offboard(p) PROVE RInv'
  BY <1>3, UnchangedKept DEF Offboard
<1>4. ASSUME NEW p \in Peers, NEW e \in Entitlements, TogglePeerHolding(p, e) PROVE RInv'
  BY <1>4, UnchangedKept DEF TogglePeerHolding
<1>5. ASSUME NEW e \in Entitlements, ToggleJoinerHolding(e) PROVE RInv'
  BY <1>5, UnchangedKept DEF ToggleJoinerHolding
<1>6. ASSUME NEW e \in Entitlements, RetireEntitlement(e) PROVE RInv'
  BY <1>6, RetireKept
<1> QED BY <1>1, <1>2, <1>3, <1>4, <1>5, <1>6 DEF Environment

\* Every step of the workflow keeps RInv, given the type.
LEMMA NextKept == ASSUME TypeOK, RInv, [Next]_vars PROVE RInv'
<1>1. CASE Next
  BY <1>1, StartKept, RunStepKept, RegenerateKept, EnvironmentKept DEF Next
<1>2. CASE UNCHANGED vars
  BY <1>2, UnchangedKept DEF vars, world
<1> QED BY <1>1, <1>2

\* RInv holds of every run at all times.
LEMMA AlwaysKept == Spec => []RInv
<1>1. Init => RInv
  BY InitKept
<1>2. TypeOK /\ RInv /\ [Next]_vars => RInv'
  BY NextKept
<1> QED BY <1>1, <1>2, TypeCorrect, PTL DEF Spec

\* For any number of runs and whatever fails, is edited or dies meanwhile: the
\* store names every step that failed before it was written (the append reducer
\* of state.py, the wrapper of nodes/common.py).
THEOREM EveryFailureOnRecord == Spec => []FailuresOnRecord
<1>1. RInv => FailuresOnRecord
  BY DEF RInv, Kept, Recorded, FailuresOnRecord
<1> QED BY <1>1, AlwaysKept, PTL

\* A run that grants access past a policy or SoD step that did not run is
\* COMPLETED neither to its caller nor in the store (build_result).
THEOREM UncheckedGrantNeverPasses == Spec => []UncheckedGrantIsFlagged
<1>1. RInv => UncheckedGrantIsFlagged
  <2> SUFFICES ASSUME RInv, NEW r \in Runs, Uncontrolled(state[r])
               PROVE  /\ state[r].answer # "COMPLETED"
                      /\ book[r].present => book[r].status # "COMPLETED"
    BY DEF UncheckedGrantIsFlagged
  <2>1. Kept(state[r], book[r], catalog)
    BY DEF RInv
  <2>2. state[r].failed \intersect {"validate_policies", "check_sod"} # {}
    BY <2>1 DEF Kept, Judged, Uncontrolled
  <2> QED BY <2>1, <2>2 DEF Kept, Recorded
<1> QED BY <1>1, AlwaysKept, PTL

\* The store accounts for every candidate the catalogue still has or, where the
\* risk step failed, for none and says FAILED (decide_all, evaluate_risk).
THEOREM EveryCandidateAccounted == Spec => []CandidatesAccounted
<1>1. RInv => CandidatesAccounted
  BY DEF RInv, Kept, Accounted, CandidatesAccounted
<1> QED BY <1>1, AlwaysKept, PTL

\* What a step may do to the rows of run r that are there already.
RowStable(r) ==
  book[r].present =>
    /\ book'[r].present /\ book'[r].status = book[r].status
    /\ book'[r].errors = book[r].errors
    /\ \A e \in Entitlements :
         \/ book'[r].decisions[e] = book[r].decisions[e]
         \/ book'[r].decisions[e] = Undecided /\ e \notin catalog'
    /\ book'[r].payload = book[r].payload
       \/ UNION book'[r].payload \subseteq Granted(book[r].decisions)

\* No step rewrites rows: the one that writes finds none, a regenerated request asks
\* for what is granted in them, a retired entitlement takes its decision along.
LEMMA RowsKept ==
  ASSUME TypeOK, RInv, [Next]_vars, NEW r \in Runs PROVE RowStable(r)
<1>1. book[r] \in Rows /\ book[r].decisions \in [Entitlements -> Decisions]
  BY DEF TypeOK, Rows
<1>2. CASE book' = book
  BY <1>2 DEF RowStable
<1>3. ASSUME NEW q \in Runs, PersistCommits(q) \/ PersistAckLost(q) PROVE RowStable(r)
  <2>1. ~book[q].present
    BY <1>3 DEF PersistCommits, PersistAckLost, At, RInv, Kept, Recorded, AfterWrite, Ended
  <2>2. q # r => book'[r] = book[r]
    BY <1>3 DEF PersistCommits, PersistAckLost, TypeOK
  <2> QED BY <2>1, <2>2 DEF RowStable
<1>4. ASSUME NEW q \in Runs, RegenerateRequest(q) PROVE RowStable(r)
  <2>1. CASE q # r
    BY <1>4, <2>1 DEF RegenerateRequest, TypeOK, RowStable
  <2>2. CASE q = r
    <3> DEFINE payload == {Included(book[r].decisions)}
    <3>1. book'[r] = [book[r] EXCEPT !.payload = payload]
      BY <1>4, <2>2 DEF RegenerateRequest, TypeOK
    <3>2. UNION payload \subseteq Granted(book[r].decisions)
      BY <1>1, IncludedGranted
    <3> HIDE DEF payload
    <3> QED BY <1>1, <3>1, <3>2 DEF Rows, RowStable
  <2> QED BY <2>1, <2>2
<1>5. ASSUME NEW e \in Entitlements, RetireEntitlement(e) PROVE RowStable(r)
  <2> DEFINE b == [book[r] EXCEPT !.decisions = [@ EXCEPT ![e] = Undecided]]
  <2>1. book'[r] = b /\ e \notin catalog'
    BY <1>5 DEF RetireEntitlement
  <2>2. /\ b.present = book[r].present /\ b.status = book[r].status
        /\ b.errors = book[r].errors /\ b.payload = book[r].payload
        /\ b.decisions = [book[r].decisions EXCEPT ![e] = Undecided]
    BY <1>1 DEF Rows
  <2> HIDE DEF b
  <2> QED BY <1>1, <2>1, <2>2 DEF RowStable
<1> QED
  BY <1>2, <1>3, <1>4, <1>5
     DEF Next, Environment, RunStep, Start, Connect, LoadJoiner, Raise, ProfileJoiner,
     FindPeers, CalculateAffinity, EvaluateRisk, ValidatePolicies, CheckSod,
     MakeDecision, GenerateExplanation, GeneratePayload, NodeFails, PersistRejected,
     PersistFails, Return, CloseRaises, Crash, ToggleRule, Offboard, TogglePeerHolding,
     ToggleJoinerHolding, Quiet, vars

\* The service never rewrites the rows of an analysis, whatever else happens
\* (AnalysisRepository.persist, access_requests.py; ON DELETE CASCADE).
THEOREM RowsAreStable == Spec => AuditRowsStable
<1>1. TypeOK /\ RInv /\ [Next]_vars
        => [\A r \in Runs : RowStable(r)]_vars
  BY RowsKept
<1> QED BY <1>1, AlwaysKept, TypeCorrect, PTL DEF Spec, AuditRowsStable, RowStable
=============================================================================
