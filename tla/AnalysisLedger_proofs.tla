------------------------ MODULE AnalysisLedger_proofs ------------------------
(***************************************************************************)
(* The workflow keeps the promise of AnalysisLedger, for any number of     *)
(* runs.  RInv says that nothing is written before the last step; what is  *)
(* missing is that a run which knows that its rows are written answers     *)
(* with their status.                                                      *)
(***************************************************************************)
EXTENDS AuditRecords_proofs

\* A run that was told its rows are written has the status they have.
Confirmed(s, b) ==
  /\ s.persisted => s.pc \in AfterWrite
  /\ s.persisted /\ s.pc = "END" => b.present /\ b.status = BuildStatus(s)

LInv == \A r \in Runs : Confirmed(state[r], book[r])

-----------------------------------------------------------------------------
(* The invariant *)

\* A step that gives one run a confirmed state and leaves the rows alone keeps LInv.
LEMMA OneRunConfirmed ==
  ASSUME TypeOK, LInv, NEW r \in Runs, NEW s, Become(r, s), book' = book,
         Confirmed(s, book[r])
  PROVE  LInv'
<1> SUFFICES ASSUME NEW q \in Runs PROVE Confirmed(state'[q], book'[q])
  BY DEF LInv
<1>1. CASE q = r
  BY <1>1 DEF Become, TypeOK
<1>2. CASE q # r
  BY <1>2 DEF Become, TypeOK, LInv
<1> QED BY <1>1, <1>2

\* A run that is not yet told anything does not know of its rows.
LEMMA OpenConfirmed ==
  ASSUME NEW s, NEW b, ~s.persisted PROVE Confirmed(s, b)
BY DEF Confirmed

\* Where a run is that has not written: it was told nothing.
LEMMA NotPersistedYet ==
  ASSUME LInv, NEW r \in Runs, state[r].pc \in Steps \union {"idle", "connect"}
  PROVE  ~state[r].persisted
<1>1. state[r].pc \notin AfterWrite
  BY DEF Steps, WORKFLOW_STEPS, AfterWrite, Ended
<1> QED BY <1>1 DEF LInv, Confirmed

-----------------------------------------------------------------------------
(* The steps of a run, as the ledger sees them *)

\* All the steps of a run that write nothing and answer nothing.
GraphStep(r) ==
  \/ LoadJoiner(r) \/ ProfileJoiner(r) \/ FindPeers(r) \/ CalculateAffinity(r)
  \/ EvaluateRisk(r) \/ ValidatePolicies(r) \/ CheckSod(r) \/ MakeDecision(r)
  \/ GenerateExplanation(r) \/ GeneratePayload(r) \/ NodeFails(r)
  \/ PersistRejected(r) \/ PersistFails(r)

\* The run that takes a step of the graph is running before and after it.
LEMMA GraphStepRuns ==
  ASSUME TypeOK, NEW r \in Runs, GraphStep(r)
  PROVE  /\ state[r].pc \in Steps /\ book' = book
         /\ \E s : /\ Become(r, s) /\ s.pc \in Running
                   /\ s.persisted = state[r].persisted
<1>1. state[r] \in RunStates
  BY DEF TypeOK
<1>2. state[r].pc \in Steps /\ book' = book
  BY DEF GraphStep, LoadJoiner, ProfileJoiner, FindPeers, CalculateAffinity,
     EvaluateRisk, ValidatePolicies, CheckSod, MakeDecision, GenerateExplanation,
     GeneratePayload, NodeFails, Calls, PersistRejected, PersistFails, At, Quiet,
     Steps, WORKFLOW_STEPS
<1>3. Following(state[r].pc) \in Running
  BY <1>2, Order, FollowingLast DEF Running, Steps, WORKFLOW_STEPS
<1>4. \E s : /\ Continue(r, s) /\ s.pc = state[r].pc /\ "persisted" \in DOMAIN s
             /\ "pc" \in DOMAIN s /\ s.persisted = state[r].persisted
  <2>1. CASE FailStep(r)
    <3> DEFINE s == [state[r] EXCEPT !.errors = @ \union {state[r].pc},
                                    !.failed = @ \union {state[r].pc}]
    <3>1. Continue(r, s)
      BY <2>1 DEF FailStep
    <3>2. /\ s.pc = state[r].pc /\ {"persisted", "pc"} \subseteq DOMAIN s
          /\ s.persisted = state[r].persisted
      BY <1>1 DEF RunStates
    <3> HIDE DEF s
    <3> QED BY <3>1, <3>2
  <2>2. CASE LoadJoiner(r) \/ ProfileJoiner(r)
    BY <1>1, <2>2 DEF LoadJoiner, ProfileJoiner, RunStates
  <2>3. CASE FindPeers(r)
    <3> DEFINE group == PeerGroup(active)
               warned == IF Cardinality(group) < MinPeerCount THEN {"find_peers"} ELSE {}
               s == [state[r] EXCEPT !.peers = group, !.errors = @ \union warned]
    <3>1. Continue(r, s)
      BY <2>3 DEF FindPeers
    <3> HIDE DEF group, warned
    <3>2. /\ s.pc = state[r].pc /\ {"persisted", "pc"} \subseteq DOMAIN s
          /\ s.persisted = state[r].persisted
      BY <1>1 DEF RunStates
    <3> HIDE DEF s
    <3> QED BY <3>1, <3>2
  <2>4. CASE CalculateAffinity(r)
    <3> DEFINE some == Candidates(state[r].peers, holds, catalog)
               above == AboveThreshold(state[r].peers, holds, catalog)
               s == [state[r] EXCEPT !.candidates = some, !.requested = above]
    <3>1. Continue(r, s)
      BY <2>4 DEF CalculateAffinity
    <3> HIDE DEF some, above
    <3>2. /\ s.pc = state[r].pc /\ {"persisted", "pc"} \subseteq DOMAIN s
          /\ s.persisted = state[r].persisted
      BY <1>1 DEF RunStates
    <3> HIDE DEF s
    <3> QED BY <3>1, <3>2
  <2>5. CASE EvaluateRisk(r)
    BY <1>1, <2>1, <2>5 DEF EvaluateRisk, RunStates
  <2>6. CASE ValidatePolicies(r)
    BY <1>1, <2>6 DEF ValidatePolicies, RunStates
  <2>7. CASE CheckSod(r)
    <3> DEFINE found == SodConflicts(rules, state[r].requested, held)
               s == [state[r] EXCEPT !.conflicts = found, !.rulesSeen = rules,
                                     !.heldSeen = held]
    <3>1. Continue(r, s)
      BY <2>7 DEF CheckSod
    <3> HIDE DEF found
    <3>2. /\ s.pc = state[r].pc /\ {"persisted", "pc"} \subseteq DOMAIN s
          /\ s.persisted = state[r].persisted
      BY <1>1 DEF RunStates
    <3> HIDE DEF s
    <3> QED BY <3>1, <3>2
  <2>8. CASE MakeDecision(r)
    BY <1>1, <2>8 DEF MakeDecision, RunStates
  <2>9. CASE GenerateExplanation(r) \/ GeneratePayload(r)
    BY <1>1, <2>9 DEF GenerateExplanation, GeneratePayload, RunStates
  <2>10. CASE NodeFails(r) \/ PersistRejected(r) \/ PersistFails(r)
    BY <2>1, <2>10 DEF NodeFails, PersistRejected, PersistFails
  <2> QED BY <2>2, <2>3, <2>4, <2>5, <2>6, <2>7, <2>8, <2>9, <2>10 DEF GraphStep
<1>5. PICK s : /\ Continue(r, s) /\ s.pc = state[r].pc /\ "persisted" \in DOMAIN s
               /\ "pc" \in DOMAIN s /\ s.persisted = state[r].persisted
  BY <1>4
<1> DEFINE t == [s EXCEPT !.pc = Following(s.pc)]
<1>6. Become(r, t) /\ t.pc \in Running /\ t.persisted = state[r].persisted
  BY <1>3, <1>5 DEF Continue
<1> HIDE DEF t
<1> QED BY <1>2, <1>6

\* The step that writes a run's rows, and what the run knows of it.
LEMMA WriteRuns ==
  ASSUME TypeOK, RInv, LInv, NEW r \in Runs, PersistCommits(r) \/ PersistAckLost(r)
  PROVE  /\ state[r].pc \in Steps /\ ~book[r].present
         /\ book' = [book EXCEPT ![r] = RowOf(state[r])]
         /\ \E s : /\ Become(r, s) /\ s.pc = "END"
                   /\ s.persisted => BuildStatus(s) = BuildStatus(state[r])
<1>1. /\ state[r] \in RunStates /\ state[r].pc = "persist_analysis" /\ state[r].pc \in Steps
      /\ book' = [book EXCEPT ![r] = RowOf(state[r])]
  BY DEF TypeOK, PersistCommits, PersistAckLost, At, Steps, WORKFLOW_STEPS
<1>2. ~book[r].present /\ ~state[r].persisted
  BY <1>1, NotPersistedYet DEF RInv, Kept, Recorded, AfterWrite, Ended
<1>3. CASE PersistCommits(r)
  <2> DEFINE t == [state[r] EXCEPT !.persisted = TRUE, !.pc = "END"]
  <2>1. Become(r, t)
    BY <1>1, <1>3, FollowingLast DEF PersistCommits, Continue, Become, RunStates
  <2>2. /\ t.pc = "END" /\ t.errors = state[r].errors
        /\ t.decisions = state[r].decisions
    BY <1>1 DEF RunStates
  <2> HIDE DEF t
  <2>3. BuildStatus(t) = BuildStatus(state[r])
    BY <2>2 DEF BuildStatus
  <2> QED BY <1>1, <1>2, <2>1, <2>2, <2>3
<1>4. CASE PersistAckLost(r)
  <2> DEFINE s == [state[r] EXCEPT !.errors = @ \union {state[r].pc},
                                  !.failed = @ \union {state[r].pc}]
             t == [s EXCEPT !.pc = Following(s.pc)]
  <2>1. Become(r, t)
    BY <1>4 DEF PersistAckLost, FailStep, Continue
  <2>2. t.pc = "END" /\ ~t.persisted
    BY <1>1, <1>2, FollowingLast DEF RunStates
  <2> HIDE DEF t
  <2> QED BY <1>1, <1>2, <2>1, <2>2
<1> QED BY <1>3, <1>4

\* The answer that Return gives.
LEMMA ReturnAnswers ==
  ASSUME NEW r \in Runs, state[r] \in RunStates, Return(r)
  PROVE  \E t : /\ Become(r, t) /\ t.pc = "returned"
                /\ t.answer = IF state[r].persisted THEN BuildStatus(state[r]) ELSE "FAILED"
<1> DEFINE given == IF state[r].persisted THEN BuildStatus(state[r]) ELSE "FAILED"
           noted == IF state[r].persisted THEN state[r].errors
                    ELSE state[r].errors \union {"persist_analysis"}
           t == [state[r] EXCEPT !.pc = "returned", !.answer = given, !.errors = noted]
<1>1. Become(r, t)
  BY DEF Return
<1> HIDE DEF given, noted
<1>2. t.pc = "returned" /\ t.answer = given
  BY DEF RunStates
<1> HIDE DEF t
<1> QED BY <1>1, <1>2 DEF given

-----------------------------------------------------------------------------
(* LInv is an invariant *)

\* Writing the rows keeps LInv: what was written is the status of the state.
LEMMA WriteConfirmed ==
  ASSUME TypeOK, RInv, LInv, NEW r \in Runs, PersistCommits(r) \/ PersistAckLost(r)
  PROVE  LInv'
<1>1. book' = [book EXCEPT ![r] = RowOf(state[r])]
  BY WriteRuns
<1>2. PICK s : /\ Become(r, s) /\ s.pc = "END"
               /\ s.persisted => BuildStatus(s) = BuildStatus(state[r])
  BY WriteRuns
<1>3. Confirmed(s, RowOf(state[r]))
  BY <1>2 DEF Confirmed, RowOf, AfterWrite
<1> SUFFICES ASSUME NEW q \in Runs PROVE Confirmed(state'[q], book'[q])
  BY DEF LInv
<1>4. CASE q = r
  BY <1>1, <1>2, <1>3, <1>4 DEF Become, TypeOK
<1>5. CASE q # r
  BY <1>1, <1>2, <1>5 DEF Become, TypeOK, LInv
<1> QED BY <1>4, <1>5

\* Starting and raising keep LInv: nothing was written yet.  Answering, and a session
\* that does not close, end the run.
LEMMA OtherRunStepsConfirmed ==
  ASSUME TypeOK, LInv, NEW r \in Runs,
         Start(r) \/ Connect(r) \/ Raise(r) \/ Return(r) \/ CloseRaises(r)
  PROVE  LInv'
<1>1. state[r] \in RunStates /\ book' = book
  BY DEF TypeOK, Start, Connect, Raise, Return, CloseRaises, Quiet
<1>2. CASE Start(r) \/ Connect(r) \/ Raise(r)
  <2>1. ~state[r].persisted
    BY <1>2, NotPersistedYet DEF Start, Connect, Raise, At, Steps, WORKFLOW_STEPS
  <2>2. \E t : Become(r, t) /\ ~t.persisted
    BY <1>1, <1>2, <2>1 DEF Start, Connect, Raise, RunStates
  <2> QED BY <1>1, <2>2, OpenConfirmed, OneRunConfirmed
<1>3. CASE Return(r) \/ CloseRaises(r)
  <2>1. Return(r) => \E t : Become(r, t) /\ t.pc = "returned"
    BY <1>1, ReturnAnswers
  <2>2. PICK t : Become(r, t) /\ t.pc \in {"returned", "raised"}
    BY <1>1, <1>3, <2>1 DEF CloseRaises, RunStates
  <2>3. Confirmed(t, book[r])
    BY <2>2 DEF Confirmed, AfterWrite, Ended
  <2> QED BY <1>1, <2>2, <2>3, OneRunConfirmed
<1> QED BY <1>2, <1>3

\* Crashes, edits and regenerated requests keep LInv: they change no status.
LEMMA EnvironmentConfirmed ==
  ASSUME TypeOK, LInv, Environment \/ \E r \in Runs : RegenerateRequest(r)
  PROVE  LInv'
<1> SUFFICES ASSUME NEW q \in Runs PROVE Confirmed(state'[q], book'[q])
  BY DEF LInv
<1>1. state[q] \in RunStates /\ book[q] \in Rows /\ Confirmed(state[q], book[q])
  BY DEF TypeOK, LInv
<1>2. CASE Crash
  <2>1. book' = book /\ (state'[q] = state[q] \/ state'[q] = [state[q] EXCEPT !.pc = "dead"])
    BY <1>2 DEF Crash
  <2>2. Confirmed([state[q] EXCEPT !.pc = "dead"], book[q])
    BY <1>1 DEF RunStates, Confirmed, AfterWrite, Ended
  <2> QED BY <1>1, <2>1, <2>2
<1>3. ASSUME NEW r \in Runs, RegenerateRequest(r) PROVE Confirmed(state'[q], book'[q])
  <2>1. /\ state'[q] = state[q] /\ book'[q].present = book[q].present
        /\ book'[q].status = book[q].status
    BY <1>1, <1>3 DEF RegenerateRequest, TypeOK, Rows
  <2> QED BY <1>1, <2>1 DEF Confirmed
<1>4. ASSUME NEW e \in Entitlements, RetireEntitlement(e)
      PROVE  Confirmed(state'[q], book'[q])
  <2>1. /\ state'[q] = state[q] /\ book'[q].present = book[q].present
        /\ book'[q].status = book[q].status
    BY <1>1, <1>4 DEF RetireEntitlement, Rows
  <2> QED BY <1>1, <2>1 DEF Confirmed
<1>5. CASE state' = state /\ book' = book
  BY <1>1, <1>5
<1>6. \/ Crash \/ \E e \in Entitlements : RetireEntitlement(e)
      \/ \E r \in Runs : RegenerateRequest(r)
      \/ state' = state /\ book' = book
  BY DEF Environment, ToggleRule, Offboard, TogglePeerHolding, ToggleJoinerHolding
<1> QED BY <1>2, <1>3, <1>4, <1>5, <1>6

\* The actions of the workflow, grouped as above.
LEMMA NextSplit ==
  ASSUME [Next]_vars
  PROVE  \/ \E r \in Runs :
              \/ Start(r) \/ Connect(r) \/ Raise(r) \/ Return(r) \/ CloseRaises(r)
              \/ GraphStep(r) \/ PersistCommits(r) \/ PersistAckLost(r)
         \/ Environment \/ \E r \in Runs : RegenerateRequest(r)
         \/ UNCHANGED vars
BY DEF Next, RunStep, GraphStep

\* Every step keeps LInv.
LEMMA NextConfirmed == ASSUME TypeOK, RInv, LInv, [Next]_vars PROVE LInv'
<1>1. ASSUME NEW r \in Runs, GraphStep(r) PROVE LInv'
  <2>1. ~state[r].persisted
    BY <1>1, GraphStepRuns, NotPersistedYet
  <2>2. \E t : Become(r, t) /\ ~t.persisted
    BY <1>1, <2>1, GraphStepRuns
  <2> QED BY <1>1, <2>2, GraphStepRuns, OpenConfirmed, OneRunConfirmed
<1>2. CASE UNCHANGED vars
  BY <1>2 DEF vars, LInv
<1> QED BY <1>1, <1>2, NextSplit, WriteConfirmed, OtherRunStepsConfirmed,
           EnvironmentConfirmed

-----------------------------------------------------------------------------
(* The refinement *)

Entries == [r \in Runs |-> EntryOf(r)]
Answers == [r \in Runs |-> AnswerOf(r)]

\* What the ledger shows of a run in state s.
AnswerIn(s) ==
  CASE s.pc = "idle"     -> "none"
    [] s.pc \in Running  -> "waiting"
    [] s.pc = "returned" -> s.answer
    [] s.pc = "raised"   -> "error"
    [] s.pc = "dead"     -> "lost"

\* The cases of AnswerIn, one by one.
LEMMA AnswerCases ==
  ASSUME NEW s
  PROVE  /\ s.pc = "idle" => AnswerIn(s) = "none"
         /\ s.pc \in Running => AnswerIn(s) = "waiting"
         /\ s.pc = "returned" => AnswerIn(s) = s.answer
         /\ s.pc = "raised" => AnswerIn(s) = "error"
         /\ s.pc = "dead" => AnswerIn(s) = "lost"
BY DEF AnswerIn, Running, Steps, WORKFLOW_STEPS

\* A step of one run changes what the ledger shows of that run only.
LEMMA AnswerMoves ==
  ASSUME TypeOK, NEW r \in Runs, NEW s, Become(r, s)
  PROVE  /\ Answers[r] = AnswerIn(state[r])
         /\ Answers' = [Answers EXCEPT ![r] = AnswerIn(s)]
<1>1. \A q \in Runs : AnswerOf(q) = AnswerIn(state[q])
  BY DEF AnswerOf, AnswerIn
<1>2. \A q \in Runs : AnswerOf(q)' = AnswerIn(state'[q])
  BY DEF AnswerOf, AnswerIn
<1>3. \A q \in Runs : state'[q] = IF q = r THEN s ELSE state[q]
  BY DEF Become, TypeOK
<1> HIDE DEF AnswerOf
<1> QED BY <1>1, <1>2, <1>3 DEF Answers

\* Rows that stay, or change in decisions and payload only, show the same entries.
LEMMA EntriesStay ==
  ASSUME \A r \in Runs : book'[r].present = book[r].present /\ book'[r].status = book[r].status
  PROVE  Entries' = Entries
BY DEF Entries, EntryOf

\* A run's step is one of the ledger, or one it does not see.
LEMMA RunRefines ==
  ASSUME TypeOK, RInv, LInv, NEW r \in Runs,
         \/ Start(r) \/ Connect(r) \/ Raise(r) \/ Return(r) \/ CloseRaises(r)
         \/ GraphStep(r) \/ PersistCommits(r) \/ PersistAckLost(r)
  PROVE  Ledger!Next \/ (Entries' = Entries /\ Answers' = Answers)
<1>1. state[r] \in RunStates /\ Answers[r] = AnswerIn(state[r])
  BY DEF TypeOK, Answers, AnswerOf, AnswerIn
<1>2. Steps \subseteq Running /\ {"connect", "END"} \subseteq Running
  BY DEF Running
<1>3. CASE GraphStep(r) \/ Connect(r)
  <2>1. Entries' = Entries /\ state[r].pc \in Running
    BY <1>2, <1>3, GraphStepRuns, EntriesStay DEF Connect, At, Quiet
  <2>2. \E s : Become(r, s) /\ s.pc \in Running
    BY <1>1, <1>2, <1>3, GraphStepRuns DEF Connect, RunStates, Steps
  <2>3. Answers' = [Answers EXCEPT ![r] = "waiting"] /\ Answers[r] = "waiting"
    BY <1>1, <2>1, <2>2, AnswerMoves, AnswerCases
  <2> QED BY <2>1, <2>3 DEF Answers
<1>4. CASE Start(r)
  <2>1. Entries' = Entries /\ state[r].pc = "idle"
    BY <1>4, EntriesStay DEF Start, At, Quiet
  <2>2. \E s : Become(r, s) /\ s.pc \in Running
    BY <1>1, <1>2, <1>4 DEF Start, RunStates
  <2>3. Answers' = [Answers EXCEPT ![r] = "waiting"] /\ Answers[r] = "none"
    BY <1>1, <2>1, <2>2, AnswerMoves, AnswerCases
  <2> QED BY <2>1, <2>3 DEF Ledger!Next, Ledger!Request, Entries, Answers
<1>5. CASE Raise(r) \/ CloseRaises(r)
  <2>1. Entries' = Entries /\ state[r].pc \in Running
    BY <1>2, <1>5, EntriesStay DEF Raise, CloseRaises, At, Quiet, Steps, WORKFLOW_STEPS
  <2>2. \E s : Become(r, s) /\ s.pc = "raised"
    BY <1>1, <1>5 DEF Raise, CloseRaises, RunStates
  <2>3. Answers' = [Answers EXCEPT ![r] = "error"] /\ Answers[r] = "waiting"
    BY <1>1, <2>1, <2>2, AnswerMoves, AnswerCases
  <2> QED BY <2>1, <2>3
          DEF Ledger!Next, Ledger!AnswerError, Ledger!Reply, Entries, Answers
<1>6. CASE Return(r)
  <2>1. Entries' = Entries /\ state[r].pc = "END" /\ state[r].pc \in Running
    BY <1>2, <1>6, EntriesStay DEF Return, At, Quiet
  <2>2. PICK s : /\ Become(r, s) /\ s.pc = "returned"
                 /\ s.answer = IF state[r].persisted THEN BuildStatus(state[r])
                               ELSE "FAILED"
    BY <1>1, <1>6, ReturnAnswers
  <2>3. Answers' = [Answers EXCEPT ![r] = s.answer] /\ Answers[r] = "waiting"
    BY <1>1, <2>1, <2>2, AnswerMoves, AnswerCases
  <2>4. CASE ~state[r].persisted
    BY <2>1, <2>2, <2>3, <2>4
       DEF Ledger!Next, Ledger!AnswerUnrecorded, Ledger!Reply, Entries, Answers
  <2>5. CASE state[r].persisted
    <3>1. book[r].present /\ book[r].status = BuildStatus(state[r])
      BY <2>1, <2>5 DEF LInv, Confirmed
    <3>2. Entries[r] = s.answer /\ Entries[r] # "NONE"
      BY <2>2, <2>5, <3>1 DEF Entries, EntryOf, BuildStatus
    <3> QED BY <2>1, <2>3, <3>2
            DEF Ledger!Next, Ledger!AnswerRecorded, Ledger!Reply, Entries, Answers
  <2> QED BY <2>4, <2>5
<1>7. CASE PersistCommits(r) \/ PersistAckLost(r)
  <2>1. /\ state[r].pc \in Running /\ ~book[r].present
        /\ book' = [book EXCEPT ![r] = RowOf(state[r])]
    BY <1>2, <1>7, WriteRuns
  <2>2. \E s : Become(r, s) /\ s.pc \in Running
    BY <1>2, <1>7, WriteRuns
  <2>3. Answers' = Answers /\ Answers[r] = "waiting"
    <3>1. Answers' = [Answers EXCEPT ![r] = "waiting"] /\ Answers[r] = "waiting"
      BY <1>1, <2>1, <2>2, AnswerMoves, AnswerCases
    <3> QED BY <3>1 DEF Answers
  <2>4. RowOf(state[r]).present /\ RowOf(state[r]).status = BuildStatus(state[r])
    BY DEF RowOf
  <2>5. Entries[r] = "NONE" /\ Entries' = [Entries EXCEPT ![r] = BuildStatus(state[r])]
    BY <2>1, <2>4 DEF Entries, EntryOf, TypeOK
  <2>6. BuildStatus(state[r]) \in Ledger!AnalysisStatuses
    BY DEF BuildStatus, Ledger!AnalysisStatuses
  <2> QED BY <2>3, <2>5, <2>6 DEF Ledger!Next, Ledger!Record, Entries, Answers
<1> QED BY <1>3, <1>4, <1>5, <1>6, <1>7

\* The death of the process loses the requests in it; edits of the reference data and
\* regenerated requests are not seen.
LEMMA EnvironmentRefines ==
  ASSUME TypeOK, Environment \/ \E r \in Runs : RegenerateRequest(r)
  PROVE  Ledger!Next \/ (Entries' = Entries /\ Answers' = Answers)
<1>1. CASE Crash
  <2> DEFINE Z == {r \in Runs : state[r].pc \in Running}
  <2>1. Entries' = Entries
    BY <1>1, EntriesStay DEF Crash
  <2>2. \A r \in Runs : AnswerOf(r) = AnswerIn(state[r]) /\ AnswerOf(r)' = AnswerIn(state'[r])
    BY DEF AnswerOf, AnswerIn
  <2>3. ASSUME NEW r \in Z PROVE AnswerOf(r) = "waiting" /\ AnswerOf(r)' = "lost"
    <3>1. state[r] \in RunStates /\ state'[r] = [state[r] EXCEPT !.pc = "dead"]
      BY <1>1 DEF Crash, TypeOK
    <3>2. state'[r].pc = "dead"
      BY <3>1 DEF RunStates
    <3> QED BY <2>2, <3>2, AnswerCases
  <2>4. ASSUME NEW r \in Runs \ Z PROVE AnswerOf(r)' = AnswerOf(r)
    BY <1>1, <2>2 DEF Crash
  <2>5. Z \in SUBSET Runs
    OBVIOUS
  <2> HIDE DEF Z
  <2>6. Ledger!Lose(Z)
    BY <2>1, <2>3, <2>4, <2>5 DEF Ledger!Lose, Entries, Answers
  <2> QED BY <2>5, <2>6 DEF Ledger!Next
<1>2. ASSUME NEW r \in Runs, RegenerateRequest(r) PROVE Entries' = Entries /\ Answers' = Answers
  <2>1. \A q \in Runs : book'[q].present = book[q].present /\ book'[q].status = book[q].status
    BY <1>2 DEF RegenerateRequest, TypeOK, Rows
  <2> QED BY <1>2, <2>1, EntriesStay DEF RegenerateRequest, Answers, AnswerOf
<1>3. ASSUME NEW e \in Entitlements, RetireEntitlement(e)
      PROVE  Entries' = Entries /\ Answers' = Answers
  <2>1. \A q \in Runs : book'[q].present = book[q].present /\ book'[q].status = book[q].status
    BY <1>3 DEF RetireEntitlement, TypeOK, Rows
  <2> QED BY <1>3, <2>1, EntriesStay DEF RetireEntitlement, Answers, AnswerOf
<1>4. CASE state' = state /\ book' = book
  BY <1>4, EntriesStay DEF Answers, AnswerOf
<1>5. \/ Crash \/ \E e \in Entitlements : RetireEntitlement(e)
      \/ \E r \in Runs : RegenerateRequest(r)
      \/ state' = state /\ book' = book
  BY DEF Environment, ToggleRule, Offboard, TogglePeerHolding, ToggleJoinerHolding
<1> QED BY <1>1, <1>2, <1>3, <1>4, <1>5

\* For any number of runs, whatever fails, is edited or dies meanwhile: a request gets
\* one answer, the store one entry for it that is never rewritten, and an answer other
\* than FAILED is the status of that entry (run_analysis, AnalysisRepository.persist).
THEOREM WorkflowImplementsLedger == Spec => ImplementsLedger
<1>1. Init => Ledger!Init /\ LInv
  <2>1. initial_state.pc = "idle" /\ ~initial_state.persisted /\ ~NoRow.present
    BY DEF initial_state, NoRow
  <2>2. ASSUME Init, NEW r \in Runs
        PROVE  EntryOf(r) = "NONE" /\ AnswerOf(r) = "none" /\ Confirmed(state[r], book[r])
    <3>1. state[r] = initial_state /\ book[r] = NoRow
      BY <2>2 DEF Init
    <3>2. AnswerOf(r) = AnswerIn(state[r])
      BY DEF AnswerOf, AnswerIn
    <3>3. EntryOf(r) = "NONE" /\ Confirmed(state[r], book[r])
      BY <2>1, <3>1 DEF EntryOf, Confirmed
    <3> QED BY <2>1, <3>1, <3>2, <3>3, AnswerCases
  <2> QED BY <2>2 DEF Ledger!Init, LInv
<1>2. TypeOK /\ RInv /\ LInv /\ [Next]_vars => LInv'
  BY NextConfirmed
<1>3. TypeOK /\ RInv /\ LInv /\ [Next]_vars
        => [Ledger!Next]_<<[r \in Runs |-> EntryOf(r)], [r \in Runs |-> AnswerOf(r)]>>
  <2> SUFFICES ASSUME TypeOK, RInv, LInv, [Next]_vars
               PROVE  Ledger!Next \/ (Entries' = Entries /\ Answers' = Answers)
    BY DEF Entries, Answers
  <2>1. CASE UNCHANGED vars
    BY <2>1, EntriesStay DEF vars, Answers, AnswerOf
  <2> QED BY <2>1, NextSplit, RunRefines, EnvironmentRefines
<1> QED BY <1>1, <1>2, <1>3, TypeCorrect, AlwaysKept, PTL
        DEF Spec, ImplementsLedger, Ledger!Spec
=============================================================================
