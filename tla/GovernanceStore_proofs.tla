----------------------- MODULE GovernanceStore_proofs -----------------------
(***************************************************************************)
(* What the audit store promises while runs, access requests, a reset,     *)
(* readers and the chat use it, for any number of runs and requests.  The  *)
(* reset is what makes it hard: SInv relates the rows its statements have  *)
(* deleted so far, which nobody else sees, to the analyses it deletes      *)
(* last, and each request in the making to what it has seen of its         *)
(* analysis.  ReadWhole does the same for a reader, Untorn says what it    *)
(* finds, Stamped relates the order of the transactions to what their      *)
(* clients knew, AddingUp what is counted to what is still to be counted.  *)
(***************************************************************************)
EXTENDS GovernanceStore, FiniteSetTheorems, SequenceTheorems, TLAPS

\* A recommendation row, as far as the store tells them apart.
Pairs == Analyses \X Entitlements

\* The records of runs and of requests.
RunRecords ==
  [pc : RunPcs, generator : Generators \union {"none"}, narrators : SUBSET Generators,
   payload : BOOLEAN, stamp : Nat]
PostRecords ==
  [pc : PostPcs, analysis : Analyses \union {"none"}, stamp : Nat,
   items : SUBSET Entitlements, after : SUBSET Posters]

\* The types SInv needs.
Shapes ==
  /\ run \in [Analyses -> RunRecords]
  /\ post \in [Posters -> PostRecords]
  /\ wipe \in [pc : WipePcs,
               gone : [details : SUBSET Pairs, requests : SUBSET RequestRows,
                       recommendations : SUBSET Pairs, analyses : SUBSET Analyses]]
  /\ analyses \subseteq Analyses
  /\ recommendations \subseteq Pairs /\ findings \subseteq Pairs /\ explanations \subseteq Pairs
  /\ requests \subseteq RequestRows
  /\ clock \in Nat /\ lateCommit \in BOOLEAN

\* An analysis is stored once, by a run that is through.
StoredByRun == \A a \in analyses : run[a].pc = "answered"

\* What the reset has deleted belongs to analyses that are there, and in the end to
\* analyses that it deletes too.
GoneTogether ==
  /\ wipe.gone.analyses \subseteq analyses
  /\ wipe.pc # "commit" => wipe.gone.analyses = {}
  /\ \A row \in wipe.gone.details \union wipe.gone.recommendations :
       row[1] \in IF wipe.pc = "commit" THEN wipe.gone.analyses ELSE analyses
  /\ \A r \in wipe.gone.requests :
       r.analysis \in IF wipe.pc = "commit" THEN wipe.gone.analyses ELSE analyses

\* A request in the making: what it has seen of its analysis, and whether it is told.
Made(p) ==
  /\ post[p].pc # "idle" => post[p].analysis \in Analyses /\ run[post[p].analysis].pc = "answered"
  /\ post[p].pc = "read" =>
       \/ post[p].items = Requestable(RowsOf(post[p].analysis))
       \/ post[p].analysis \notin analyses
  /\ post[p].pc \in {"inserted", "acknowledged"} =>
       /\ post[p].analysis \in analyses \ wipe.gone.analyses
       /\ post[p].items = Requestable(RowsOf(post[p].analysis))
  /\ post[p].pc \in {"committed", "created"} => RequestRow(p) \in requests \/ wipe.pc = "done"
  /\ post[p].pc \in {"acknowledged", "lost"} => lateCommit

InMaking == \A p \in Posters : Made(p)

\* What the reader of one analysis and the chat hold: whole decisions, and requests
\* for what they show.
ReadWhole ==
  /\ get = [x \in {"pc", "analysis", "recommendations", "findings", "explanations", "requests",
                   "wiped"} |-> get[x]]
  /\ get.pc \notin {"idle", "missing"} =>
       get.analysis \in Analyses /\ run[get.analysis].pc = "answered"
  /\ get.pc \in {"findings", "explanations", "requests", "done"} =>
       \/ get.recommendations = RowsOf(get.analysis)
       \/ get.analysis \notin analyses
  /\ \A r \in get.requests : r.items \subseteq Requestable(get.recommendations)
  /\ get.pc # "done" => get.requests = {}

\* The conversation's record.
ChatShape ==
  chat = [x \in {"pc", "query", "matched", "rows", "truncated", "generator",
    "error"} |-> chat[x]]

\* A run has a payload only for what it decided.
PayloadHasRows == \A a \in Analyses : run[a].payload => RowsOf(a) # {}

\* The inductive invariant of the store.
SInv ==
  /\ Shapes /\ StoredByRun /\ WholeOrGone /\ RequestsAskWhatWasGranted
  /\ GoneTogether /\ InMaking /\ PayloadHasRows

\* The rows of an analysis are its own.
LEMMA OwnRows ==
  ASSUME NEW a \in Analyses
  PROVE  /\ RowsOf(a) \subseteq Pairs /\ \A row \in RowsOf(a) : row[1] = a
         /\ Explained(a) \subseteq RowsOf(a)
         /\ \A row \in RowsOf(a) : Verdict[row[1]][row[2]] # "ABSENT"
BY DEF RowsOf, Decided, Pairs, Explained

\* What is asked for are entitlements.
LEMMA RequestableTyped ==
  ASSUME NEW rows \in SUBSET Pairs PROVE Requestable(rows) \subseteq Entitlements
BY DEF Requestable, Pairs

\* Every action of a run writes a well-formed record, and what it adds to the tables
\* are rows of the analysis.
LEMMA RunKeepsShapes ==
  ASSUME SInv, NEW a \in Analyses, RunStep(a) PROVE Shapes'
<1> USE DEF SInv, storeVars, tables, config
<1>t. run[a] \in RunRecords /\ clock \in Nat
  BY DEF Shapes
<1>w. ASSUME NEW r \in RunRecords, RunTo(a, r) PROVE run' \in [Analyses -> RunRecords]
  BY <1>w DEF Shapes, RunTo
<1>1. CASE Explain(a)
  <2>1. PICK reply \in [RowsOf(a) -> LlmReplies] :
          LET by == {Narrator(llm, reply[row]) : row \in RowsOf(a)}
          IN RunTo(a, [run[a] EXCEPT !.pc = "explained", !.narrators = by,
                                     !.generator = WholeGenerator(by)])
    BY <1>1 DEF Explain
  <2> DEFINE by == {Narrator(llm, reply[row]) : row \in RowsOf(a)}
             r == [run[a] EXCEPT !.pc = "explained", !.narrators = by,
                                 !.generator = WholeGenerator(by)]
  <2>2. by \subseteq Generators
    BY DEF Narrator, Generators
  <2>3. WholeGenerator(by) \in Generators
    BY <2>2 DEF WholeGenerator, Generators
  <2>4. RunTo(a, r)
    BY <2>1
  <2>5. r \in RunRecords
    <3> HIDE DEF by
    <3> QED BY <1>t, <2>2, <2>3 DEF RunRecords, RunPcs
  <2> HIDE DEF r
  <2> QED BY <1>1, <1>w, <2>4, <2>5 DEF Explain, Shapes
<1>2. CASE ExplainAbandoned(a) \/ PayloadFails(a) \/ PersistRollsBack(a)
  <2>1. PICK pc \in {"explained", "packed", "failed"} : RunTo(a, [run[a] EXCEPT !.pc = pc])
    BY <1>2 DEF ExplainAbandoned, PayloadFails, PersistRollsBack
  <2>2. [run[a] EXCEPT !.pc = pc] \in RunRecords
    BY <1>t DEF RunRecords, RunPcs
  <2> QED BY <1>2, <1>w, <2>1, <2>2 DEF ExplainAbandoned, PayloadFails, PersistRollsBack, Shapes
<1>5. CASE GeneratePayload(a)
  <2>1. PICK payload \in BOOLEAN : RunTo(a, [run[a] EXCEPT !.pc = "packed", !.payload = payload])
    BY <1>5 DEF GeneratePayload
  <2>2. [run[a] EXCEPT !.pc = "packed", !.payload = payload] \in RunRecords
    BY <1>t DEF RunRecords, RunPcs
  <2> QED BY <1>5, <1>w, <2>1, <2>2 DEF GeneratePayload, Shapes
<1>3. CASE BeginPersist(a)
  <2>1. clock' \in Nat /\ RunTo(a, [run[a] EXCEPT !.pc = "writing", !.stamp = clock'])
    BY <1>3, <1>t DEF BeginPersist
  <2>2. [run[a] EXCEPT !.pc = "writing", !.stamp = clock'] \in RunRecords
    BY <1>t, <2>1 DEF RunRecords, RunPcs
  <2> QED BY <1>3, <1>w, <2>1, <2>2 DEF BeginPersist, Shapes
<1>4. CASE CommitPersist(a)
  <2>1. [run[a] EXCEPT !.pc = "answered"] \in RunRecords
    BY <1>t DEF RunRecords, RunPcs
  <2>2. OwnRequest(a) \subseteq RequestRows
    BY <1>t, OwnRows, RequestableTyped DEF OwnRequest, RequestRows, RunRecords
  <2>3. run' \in [Analyses -> RunRecords]
    BY <1>4, <1>w, <2>1 DEF CommitPersist
  <2> QED BY <1>4, <2>2, <2>3, OwnRows DEF CommitPersist, Shapes
<1> QED BY <1>1, <1>2, <1>3, <1>4, <1>5 DEF RunStep

\* So does every action of a request.
LEMMA PostKeepsShapes ==
  ASSUME SInv, NEW p \in Posters, PostStep(p) \/ \E a \in Analyses : PostBegins(p, a)
  PROVE  Shapes'
<1> USE DEF SInv, storeVars, tables, config
<1>t. post[p] \in PostRecords /\ clock \in Nat
  BY DEF Shapes
<1>w. ASSUME NEW r \in PostRecords, PostTo(p, r) PROVE post' \in [Posters -> PostRecords]
  BY <1>w DEF Shapes, PostTo
<1>1. CASE \E a \in Analyses : PostBegins(p, a)
  <2>1. PICK a \in Analyses : PostBegins(p, a)
    BY <1>1
  <2> DEFINE r == [post[p] EXCEPT !.pc = "begun", !.analysis = a, !.stamp = clock',
                                  !.after = Acknowledged \ {p}]
  <2>6. clock' = clock + 1
    BY <2>1, Zenon DEF PostBegins
  <2>2. clock' \in Nat
    BY <2>6, <1>t
  <2>5. PostTo(p, r)
    BY <2>1, Zenon DEF PostBegins
  <2>3. Acknowledged \ {p} \subseteq Posters
    BY DEF Acknowledged
  <2>4. r \in PostRecords
    BY <1>t, <2>2, <2>3 DEF PostRecords, PostPcs
  <2> HIDE DEF r
  <2> QED BY <2>1, <1>w, <2>2, <2>4, <2>5 DEF PostBegins, Shapes
<1>2. CASE PostReadsRows(p)
  <2> DEFINE rows == {row \in recommendations : row[1] = post[p].analysis}
  <2>1. PostTo(p, [post[p] EXCEPT !.pc = "read", !.items = Requestable(rows)])
    BY <1>2 DEF PostReadsRows
  <2>2. Requestable(rows) \subseteq Entitlements
    BY RequestableTyped DEF Shapes
  <2>3. [post[p] EXCEPT !.pc = "read", !.items = Requestable(rows)] \in PostRecords
    <3> HIDE DEF rows
    <3> QED BY <1>t, <2>2 DEF PostRecords, PostPcs
  <2> HIDE DEF rows
  <2> QED BY <1>2, <1>w, <2>1, <2>3 DEF PostReadsRows, Shapes
<1>3. CASE PostCommits(p)
  <2>1. PICK pc \in {"created", "committed"} : PostTo(p, [post[p] EXCEPT !.pc = pc])
    BY <1>3 DEF PostCommits
  <2>2. [post[p] EXCEPT !.pc = pc] \in PostRecords
    BY <1>t DEF PostRecords, PostPcs
  <2>3. post[p].analysis \in Analyses
    BY <1>3 DEF PostCommits, InMaking, Made
  <2>4. RequestRow(p) \in RequestRows
    BY <1>t, <2>3 DEF RequestRow, RequestRows, PostRecords
  <2> QED BY <1>3, <1>w, <2>1, <2>2, <2>4 DEF PostCommits, Shapes
<1>4. CASE \/ PostFindsRow(p) \/ PostInserts(p) \/ PostAcknowledges(p)
           \/ PostAnswers(p) \/ PostIsLost(p)
  <2> USE DEF PostFindsRow, PostInserts, PostAcknowledges, PostAnswers, PostIsLost
  <2>1. PICK pc \in {"found", "missing", "inserted", "failed", "acknowledged", "created", "lost"} :
          PostTo(p, [post[p] EXCEPT !.pc = pc])
    BY <1>4
  <2>2. [post[p] EXCEPT !.pc = pc] \in PostRecords
    BY <1>t DEF PostRecords, PostPcs
  <2> QED BY <1>4, <1>w, <2>1, <2>2 DEF Shapes
<1> QED BY <1>1, <1>2, <1>3, <1>4 DEF PostStep

\* And the reset only marks and takes away.
LEMMA WipeKeepsShapes ==
  ASSUME SInv, WipeBegins \/ WipeStep PROVE Shapes'
<1> USE DEF SInv, Shapes, storeVars, tables, config, WipePcs
<1>1. CASE WipeBegins
  BY <1>1 DEF WipeBegins
<1>2. CASE WipeDetails
  BY <1>2 DEF WipeDetails, Wipe
<1>3. CASE WipeRequests
  BY <1>3 DEF WipeRequests, Wipe
<1>4. CASE WipeRecommendations
  BY <1>4 DEF WipeRecommendations, Wipe
<1>5. CASE WipeAnalyses
  BY <1>5 DEF WipeAnalyses, Wipe
<1>6. CASE WipeCommits
  BY <1>6 DEF WipeCommits, NothingGone
<1>7. CASE WipeRollsBack
  BY <1>7 DEF WipeRollsBack, NothingGone
<1> QED BY <1>1, <1>2, <1>3, <1>4, <1>5, <1>6, <1>7 DEF WipeStep

\* The tables' rows in an analysis that is gone are gone too.
LEMMA RowsAreOfAnalyses ==
  ASSUME Shapes, WholeOrGone
  PROVE  /\ \A row \in recommendations \union findings \union explanations : row[1] \in analyses
         /\ \A a \in analyses : {row \in recommendations : row[1] = a} = RowsOf(a)
BY DEF Shapes, WholeOrGone, Pairs

\* What a step of a run leaves alone.
LEMMA RunStepEffect ==
  ASSUME SInv, NEW a \in Analyses, RunStep(a)
  PROVE  /\ \A b \in Analyses \ {a} : run'[b] = run[b]
         /\ run[a].pc \notin {"answered", "failed"} /\ a \notin analyses
         /\ UNCHANGED <<post, wipe, config>>
         /\ \/ CommitPersist(a) /\ run'[a].pc = "answered" /\ run'[a].generator = run[a].generator
               /\ run'[a].stamp = run[a].stamp /\ run'[a].payload = run[a].payload
            \/ UNCHANGED tables
<1> USE DEF SInv, Shapes, StoredByRun
<1>1. ASSUME NEW r, RunTo(a, r) PROVE run'[a] = r /\ \A b \in Analyses \ {a} : run'[b] = run[b]
  BY <1>1 DEF RunTo
<1>2. CASE Explain(a)
  <2>1. PICK r : RunTo(a, r)
    BY <1>2 DEF Explain
  <2>2. run[a].pc = "deciding" /\ UNCHANGED <<post, wipe, tables, clock, config>>
    BY <1>2 DEF Explain
  <2> QED BY <1>1, <2>1, <2>2
<1>3. CASE ExplainAbandoned(a)
  BY <1>1, <1>3 DEF ExplainAbandoned
<1>4. CASE BeginPersist(a)
  BY <1>1, <1>4 DEF BeginPersist
<1>5. CASE PersistRollsBack(a)
  BY <1>1, <1>5 DEF PersistRollsBack
<1>7. CASE GeneratePayload(a)
  <2>1. PICK r : RunTo(a, r)
    BY <1>7 DEF GeneratePayload
  <2>2. run[a].pc = "explained" /\ UNCHANGED <<post, wipe, tables, clock, config>>
    BY <1>7 DEF GeneratePayload
  <2> QED BY <1>1, <2>1, <2>2
<1>8. CASE PayloadFails(a)
  BY <1>1, <1>8 DEF PayloadFails
<1>6. CASE CommitPersist(a)
  <2>1. run'[a] = [run[a] EXCEPT !.pc = "answered"] /\ \A b \in Analyses \ {a} : run'[b] = run[b]
    BY <1>1, <1>6 DEF CommitPersist
  <2>2. run[a].pc = "writing" /\ UNCHANGED <<post, wipe, config>>
    BY <1>6 DEF CommitPersist, config
  <2> QED BY <1>6, <2>1, <2>2 DEF RunRecords
<1> QED BY <1>2, <1>3, <1>4, <1>5, <1>6, <1>7, <1>8 DEF RunStep

\* What a step of a request leaves alone, and where it leads.
LEMMA PostStepEffect ==
  ASSUME SInv, NEW p \in Posters, PostStep(p) \/ \E a \in Analyses : PostBegins(p, a)
  PROVE  /\ \A q \in Posters \ {p} : post'[q] = post[q]
         /\ UNCHANGED <<run, wipe, analyses, recommendations, findings, explanations, config>>
         /\ requests' = requests \/ PostCommits(p)
BY DEF SInv, Shapes, PostStep, PostTo, PostBegins, PostFindsRow, PostReadsRows, PostInserts,
  PostAcknowledges, PostCommits, PostAnswers, PostIsLost, tables, config

-----------------------------------------------------------------------------
(* Each part of the invariant is kept by every step *)

\* Only the commit of a run adds an analysis, and it ends the run.
LEMMA StoredByRunStays == ASSUME SInv, StoreNext PROVE StoredByRun'
<1> USE DEF SInv, Shapes, StoredByRun
<1>1. ASSUME NEW a \in Analyses, RunStep(a) PROVE StoredByRun'
  <2>1. /\ run[a].pc # "answered" /\ \A b \in Analyses \ {a} : run'[b] = run[b]
        /\ a \notin analyses
    BY <1>1, RunStepEffect
  <2>2. analyses' = analyses \/ (analyses' = analyses \union {a} /\ run'[a].pc = "answered")
    BY <1>1, RunStepEffect DEF CommitPersist, tables
  <2> QED BY <2>1, <2>2
<1>2. ASSUME NEW p \in Posters, PostStep(p) \/ \E a \in Analyses : PostBegins(p, a)
      PROVE  StoredByRun'
  BY <1>2, PostStepEffect
<1>3. CASE WipeBegins \/ WipeStep
  BY <1>3 DEF WipeBegins, WipeStep, WipeDetails, WipeRequests, WipeRecommendations,
    WipeAnalyses,
    WipeCommits, WipeRollsBack, tables
<1> QED BY <1>1, <1>2, <1>3 DEF StoreNext

\* A commit writes an analysis whole; the commit of a reset cascades to whatever its
\* statements have not deleted.
LEMMA WholeOrGoneStays == ASSUME SInv, StoreNext PROVE WholeOrGone'
<1> USE DEF SInv, Shapes, StoredByRun, WholeOrGone
<1>w. ASSUME NEW b \in Analyses, run'[b] = run[b]
      PROVE  Explained(b)' = Explained(b) /\ OwnRequest(b)' = OwnRequest(b)
  BY <1>w DEF Explained, OwnRequest
<1>1. ASSUME NEW a \in Analyses, RunStep(a), UNCHANGED tables PROVE WholeOrGone'
  <2>1. a \notin analyses /\ \A b \in Analyses \ {a} : run'[b] = run[b]
    BY <1>1, RunStepEffect
  <2> QED BY <1>1, <1>w, <2>1 DEF tables
<1>2. ASSUME NEW a \in Analyses, CommitPersist(a) PROVE WholeOrGone'
  <2>1. RunStep(a)
    BY <1>2 DEF RunStep
  <2>2. /\ \A b \in Analyses \ {a} : Explained(b)' = Explained(b) /\ OwnRequest(b)' = OwnRequest(b)
        /\ a \notin analyses
    BY <1>w, <2>1, RunStepEffect
  <2>3. Explained(a)' = Explained(a) /\ OwnRequest(a)' = OwnRequest(a)
    BY <1>2, <2>1, RunStepEffect DEF Explained, OwnRequest, CommitPersist, RunTo, RunRecords
  <2>4. \A r \in OwnRequest(a) : r.analysis = a /\ r.by = "run"
    BY DEF OwnRequest
  <2> QED BY <1>2, <2>2, <2>3, <2>4, OwnRows DEF CommitPersist
<1>3. ASSUME NEW p \in Posters, PostStep(p) \/ \E a \in Analyses : PostBegins(p, a)
      PROVE  WholeOrGone'
  <2>1. /\ UNCHANGED <<analyses, recommendations, findings, explanations>>
        /\ \A b \in Analyses : Explained(b)' = Explained(b) /\ OwnRequest(b)' = OwnRequest(b)
    BY <1>3, <1>w, PostStepEffect
  <2>2. requests' = requests \/ requests' = requests \union {RequestRow(p)}
    BY <1>3, PostStepEffect DEF PostCommits
  <2>3. RequestRow(p).by # "run"
    BY StoreConstants DEF RequestRow
  <2>4. \A b \in Analyses : {r \in requests' : r.analysis = b /\ r.by = "run"}
                              = {r \in requests : r.analysis = b /\ r.by = "run"}
    BY <2>2, <2>3
  <2> QED BY <2>1, <2>4
<1>4. CASE WipeCommits
  <2>1. ASSUME NEW b \in Analyses
        PROVE  {r \in requests' : r.analysis = b /\ r.by = "run"}
                 = IF b \in analyses' THEN OwnRequest(b) ELSE {}
    BY <1>4 DEF WipeCommits, GoneTogether
  <2>2. \A b \in Analyses : Explained(b)' = Explained(b) /\ OwnRequest(b)' = OwnRequest(b)
    BY <1>4, <1>w DEF WipeCommits
  <2>3. ASSUME NEW b \in Analyses
        PROVE  /\ {row \in recommendations' : row[1] = b} = IF b \in analyses' THEN RowsOf(b) ELSE {}
               /\ {row \in findings' : row[1] = b} = IF b \in analyses' THEN RowsOf(b) ELSE {}
               /\ {row \in explanations' : row[1] = b}
                    = IF b \in analyses' THEN Explained(b) ELSE {}
    BY <1>4, OwnRows DEF WipeCommits, GoneTogether
  <2> QED BY <2>1, <2>2, <2>3
<1>5. CASE \/ WipeBegins \/ WipeDetails \/ WipeRequests \/ WipeRecommendations
           \/ WipeAnalyses \/ WipeRollsBack
  BY <1>5 DEF WipeBegins, WipeDetails, WipeRequests, WipeRecommendations, WipeAnalyses,
    WipeRollsBack, tables, Explained, OwnRequest
<1>6. ASSUME NEW a \in Analyses, RunStep(a) PROVE WholeOrGone'
  BY <1>1, <1>2, <1>6, RunStepEffect
<1> QED BY <1>3, <1>4, <1>5, <1>6 DEF StoreNext, WipeStep

\* A request is inserted for an analysis that is locked, with what it granted.
LEMMA RequestsStay == ASSUME SInv, StoreNext PROVE RequestsAskWhatWasGranted'
<1> USE DEF SInv, Shapes, RequestsAskWhatWasGranted
<1>1. ASSUME NEW a \in Analyses, RunStep(a) PROVE RequestsAskWhatWasGranted'
  <2>1. CASE UNCHANGED tables
    BY <2>1 DEF tables
  <2>2. CASE CommitPersist(a)
    <3>1. \A r \in OwnRequest(a) : r.analysis = a /\ r.items = Requestable(RowsOf(a))
      BY DEF OwnRequest
    <3>2. analyses' = analyses \union {a} /\ requests' = requests \union OwnRequest(a)
      BY <2>2 DEF CommitPersist
    <3> QED BY <3>1, <3>2
  <2> QED BY <1>1, <2>1, <2>2, RunStepEffect
<1>2. ASSUME NEW p \in Posters, PostStep(p) \/ \E a \in Analyses : PostBegins(p, a)
      PROVE  RequestsAskWhatWasGranted'
  <2>1. CASE requests' = requests
    BY <1>2, <2>1, PostStepEffect
  <2>2. CASE PostCommits(p)
    <3>1. RequestRow(p).analysis = post[p].analysis /\ RequestRow(p).items = post[p].items
      BY DEF RequestRow
    <3>2. post[p].analysis \in analyses /\ post[p].items = Requestable(RowsOf(post[p].analysis))
      BY <2>2 DEF PostCommits, InMaking, Made
    <3>3. requests' = requests \union {RequestRow(p)} /\ analyses' = analyses
      BY <2>2 DEF PostCommits
    <3> QED BY <3>1, <3>2, <3>3
  <2> QED BY <1>2, <2>1, <2>2, PostStepEffect
<1>4. CASE WipeBegins \/ WipeStep
  BY <1>4 DEF WipeBegins, WipeStep, WipeDetails, WipeRequests, WipeRecommendations,
    WipeAnalyses,
    WipeCommits, WipeRollsBack, tables
<1> QED BY <1>1, <1>2, <1>4 DEF StoreNext

\* Rows that are marked are of stored analyses, and nothing leaves the store before
\* the reset commits.
LEMMA GoneTogetherStays == ASSUME SInv, StoreNext PROVE GoneTogether'
<1> USE DEF SInv, Shapes, GoneTogether
<1>1. ASSUME NEW a \in Analyses, RunStep(a) PROVE GoneTogether'
  BY <1>1, RunStepEffect DEF CommitPersist, tables
<1>2. ASSUME NEW p \in Posters, PostStep(p) \/ \E a \in Analyses : PostBegins(p, a)
      PROVE  GoneTogether'
  BY <1>2, PostStepEffect
<1>3. CASE WipeBegins
  BY <1>3 DEF WipeBegins, tables
<1>4. CASE WipeDetails
  BY <1>4, RowsAreOfAnalyses DEF WipeDetails, Wipe, tables
<1>5. CASE WipeRequests
  BY <1>5 DEF WipeRequests, Wipe, RequestsAskWhatWasGranted, tables
<1>6. CASE WipeRecommendations
  BY <1>6, RowsAreOfAnalyses DEF WipeRecommendations, Wipe, tables
<1>7. CASE WipeAnalyses
  BY <1>7 DEF WipeAnalyses, Wipe, tables
<1>8. CASE WipeCommits
  BY <1>8 DEF WipeCommits, NothingGone
<1>9. CASE WipeRollsBack
  BY <1>9 DEF WipeRollsBack, NothingGone, tables
<1> QED BY <1>1, <1>2, <1>3, <1>4, <1>5, <1>6, <1>7, <1>8, <1>9 DEF StoreNext, WipeStep

\* The lock on the analysis keeps the reset from taking it while a request for it is
\* inserted, so only requests made before the reset's commit are taken with it.
LEMMA InMakingStays == ASSUME SInv, StoreNext PROVE InMaking'
<1> USE DEF SInv, Shapes, InMaking, Made, RequestRow
<1>1. ASSUME NEW a \in Analyses, RunStep(a) PROVE InMaking'
  <2>1. /\ UNCHANGED <<post, wipe, lateCommit>> /\ requests \subseteq requests'
        /\ analyses \subseteq analyses' /\ analyses' \subseteq analyses \union {a}
        /\ run[a].pc # "answered" /\ \A b \in Analyses \ {a} : run'[b] = run[b]
    BY <1>1, RunStepEffect DEF CommitPersist, tables, config
  <2>2. \A p \in Posters : post[p].pc # "idle" => post[p].analysis # a
    BY <2>1
  <2> QED BY <2>1, <2>2
<1>2. ASSUME NEW p \in Posters, NEW a \in Analyses, PostBegins(p, a) PROVE InMaking'
  BY <1>2 DEF PostBegins, PostTo, PostRecords, tables, config
<1>3. ASSUME NEW p \in Posters, PostReadsRows(p) PROVE InMaking'
  <2> DEFINE items == Requestable({row \in recommendations : row[1] = post[p].analysis})
  <2>2. items = Requestable(RowsOf(post[p].analysis)) \/ post[p].analysis \notin analyses
    BY RowsAreOfAnalyses
  <2>3. PostTo(p, [post[p] EXCEPT !.pc = "read", !.items = items])
    BY <1>3 DEF PostReadsRows
  <2>4. post'[p].pc = "read" /\ post'[p].items = items /\ post'[p].analysis = post[p].analysis
    <3> HIDE DEF items
    <3> QED BY <2>3 DEF PostTo, PostRecords
  <2>5. post[p].pc = "found" /\ UNCHANGED <<run, wipe, tables, config>>
    BY <1>3 DEF PostReadsRows, tables, config
  <2>6. \A q \in Posters \ {p} : post'[q] = post[q]
    BY <1>3, PostStepEffect DEF PostStep
  <2> HIDE DEF items
  <2>7. UNCHANGED <<run, wipe, analyses, requests, lateCommit>>
    BY <2>5 DEF tables, config
  <2>8. Made(p)'
    BY <2>2, <2>4, <2>5, <2>7
  <2>9. \A q \in Posters \ {p} : Made(q)'
    BY <2>6, <2>7
  <2> QED BY <2>8, <2>9
<1>4. ASSUME NEW p \in Posters, PostFindsRow(p) \/ PostAnswers(p) \/ PostIsLost(p) PROVE InMaking'
  BY <1>4 DEF PostFindsRow, PostAnswers, PostIsLost, PostTo, PostRecords, tables, config
<1>5. ASSUME NEW p \in Posters, PostInserts(p) \/ PostAcknowledges(p) PROVE InMaking'
  BY <1>5 DEF PostInserts, PostAcknowledges, PostTo, PostRecords, tables, config
<1>6. ASSUME NEW p \in Posters, PostCommits(p) PROVE InMaking'
  BY <1>6 DEF PostCommits, PostTo, PostRecords, tables, config
<1>7. CASE WipeCommits
  BY <1>7, OwnRows DEF WipeCommits, NothingGone, GoneTogether, config
<1>8. CASE WipeBegins \/ WipeDetails \/ WipeRequests \/ WipeRecommendations
  <2>1. wipe'.gone.analyses = wipe.gone.analyses /\ wipe.pc # "done"
    <3>1. wipe.pc \in {"idle", "details", "requests", "recommendations"}
      BY <1>8 DEF WipeBegins, WipeDetails, WipeRequests, WipeRecommendations
    <3>2. ASSUME NEW pc, NEW rows, NEW t \in {"details", "requests", "recommendations"}, Wipe(pc, t, rows)
          PROVE  wipe'.gone.analyses = wipe.gone.analyses
      BY <3>2 DEF Wipe
    <3>3. CASE WipeBegins
      BY <3>3 DEF WipeBegins
    <3> QED BY <1>8, <3>1, <3>2, <3>3 DEF WipeDetails, WipeRequests, WipeRecommendations
  <2>2. UNCHANGED <<run, post, analyses, requests, lateCommit>>
    BY <1>8 DEF WipeBegins, WipeDetails, WipeRequests, WipeRecommendations, tables, config
  <2> QED BY <2>1, <2>2
<1>9. CASE WipeAnalyses
  BY <1>9 DEF Wipe, WipeAnalyses, tables, config
<1>10. CASE WipeRollsBack
  BY <1>10 DEF WipeRollsBack, NothingGone, tables, config
<1> QED BY <1>1, <1>2, <1>3, <1>4, <1>5, <1>6, <1>7, <1>8, <1>9, <1>10 DEF StoreNext, PostStep,
  WipeStep

\* Only the payload step gives a run a payload, and only for its decisions.
LEMMA PayloadHasRowsStays == ASSUME SInv, StoreNext PROVE PayloadHasRows'
<1> USE DEF SInv, Shapes, PayloadHasRows
<1>1. ASSUME NEW a \in Analyses, RunStep(a) PROVE PayloadHasRows'
  <2>1. \A b \in Analyses \ {a} : run'[b] = run[b]
    BY <1>1, RunStepEffect
  <2>2. run'[a].payload => run[a].payload \/ RowsOf(a) # {}
    <3>1. ASSUME NEW r, RunTo(a, r) PROVE run'[a] = r
      BY <3>1 DEF RunTo
    <3>2. CASE Explain(a)
      <4>1. PICK by : RunTo(a, [run[a] EXCEPT !.pc = "explained", !.narrators = by,
                                               !.generator = WholeGenerator(by)])
        BY <3>2 DEF Explain
      <4>2. run'[a].payload = run[a].payload
        BY <3>1, <4>1 DEF RunRecords
      <4> QED BY <4>2
    <3>3. CASE GeneratePayload(a)
      <4>1. run'[a] = [run[a] EXCEPT !.pc = "packed", !.payload = (RowsOf(a) # {})]
        BY <3>1, <3>3 DEF GeneratePayload
      <4> QED BY <4>1 DEF RunRecords
    <3>4. CASE BeginPersist(a)
      BY <3>1, <3>4 DEF BeginPersist, RunRecords
    <3>5. CASE ExplainAbandoned(a) \/ PayloadFails(a) \/ CommitPersist(a) \/ PersistRollsBack(a)
      BY <3>1, <3>5 DEF ExplainAbandoned, PayloadFails, CommitPersist, PersistRollsBack,
        RunRecords
    <3> QED BY <1>1, <3>2, <3>3, <3>4, <3>5 DEF RunStep
  <2> QED BY <2>1, <2>2
<1>2. ASSUME NEW p \in Posters, PostStep(p) \/ \E a \in Analyses : PostBegins(p, a)
      PROVE  PayloadHasRows'
  BY <1>2, PostStepEffect
<1>3. CASE WipeBegins \/ WipeStep
  BY <1>3 DEF WipeBegins, WipeStep, WipeDetails, WipeRequests, WipeRecommendations,
    WipeAnalyses, WipeCommits, WipeRollsBack
<1> QED BY <1>1, <1>2, <1>3 DEF StoreNext

\* The readers and the chat change nothing in the store.
LEMMA OthersLeaveTheStore ==
  ASSUME ReadNext \/ ChatNext \/ UNCHANGED vars PROVE UNCHANGED storeVars
BY DEF ReadNext, ChatNext, vars, GetBegins, GetFindsRow, GetLoads, Load, BoardBegins,
  BoardCounts

\* And what reads only the store holds as long as it is left alone.
LEMMA UnchangedStore == ASSUME SInv, UNCHANGED storeVars PROVE SInv'
<1>1. UNCHANGED <<run, post, wipe, clock, lateCommit>>
  BY DEF storeVars, config
<1>2. UNCHANGED <<analyses, recommendations, findings, explanations, requests>>
  BY DEF storeVars, tables
<1> QED BY <1>1, <1>2 DEF SInv, Shapes, StoredByRun, WholeOrGone, RequestsAskWhatWasGranted,
  GoneTogether, InMaking, Made, RequestRow, Explained, OwnRequest, PayloadHasRows

\* The invariant of the store.
LEMMA SInvHolds == Spec => []SInv
<1>1. Init => SInv
  <2> SUFFICES ASSUME Init PROVE SInv
    OBVIOUS
  <2> USE DEF Init
  <2>1. Shapes
    BY DEF Shapes, RunRecords, PostRecords, RunPcs, PostPcs, WipePcs, NothingGone
  <2>2. StoredByRun /\ WholeOrGone /\ RequestsAskWhatWasGranted /\ GoneTogether /\ InMaking
        /\ PayloadHasRows
    BY DEF StoredByRun, WholeOrGone, RequestsAskWhatWasGranted, GoneTogether, InMaking, Made,
      NothingGone, PayloadHasRows
  <2> QED BY <2>1, <2>2 DEF SInv
<1>2. ASSUME SInv, StoreNext PROVE SInv'
  <2>1. Shapes'
    BY <1>2, RunKeepsShapes, PostKeepsShapes, WipeKeepsShapes DEF StoreNext
  <2> QED BY <1>2, <2>1, StoredByRunStays, WholeOrGoneStays, RequestsStay, GoneTogetherStays,
    InMakingStays, PayloadHasRowsStays DEF SInv
<1>3. SInv /\ [Next]_vars => SInv'
  BY <1>2, OthersLeaveTheStore, UnchangedStore DEF Next
<1> QED BY <1>1, <1>3, PTL DEF Spec, StoreSpecInit

\* However runs, requests and a reset interleave, an analysis is stored with all that
\* was written with it, or nothing of it is (AnalysisRepository.persist, --reset).
THEOREM StoredWholeOrGone == Spec => []WholeOrGone
BY SInvHolds, PTL DEF SInv

\* Every stored request belongs to a stored analysis and asks for exactly what that
\* analysis granted (create_access_request).
THEOREM RequestsMatchTheirAnalysis == Spec => []RequestsAskWhatWasGranted
BY SInvHolds, PTL DEF SInv

\* What a client was told is stored, unless a reset took it or the framework answers
\* before it commits (get_session, create_access_request).
THEOREM ToldIsStored == Spec => []AcknowledgedIsStored
<1>1. SInv => AcknowledgedIsStored
  BY DEF SInv, InMaking, Made, AcknowledgedIsStored, Acknowledged
<1> QED BY <1>1, SInvHolds, PTL

\* The statements of a read, one after the other.
LEMMA NextGetIs ==
  /\ NextGet("row") = "recommendations" /\ NextGet("recommendations") = "findings"
  /\ NextGet("findings") = "explanations" /\ NextGet("explanations") = "requests"
  /\ NextGet("requests") = "done"
<1>1. ASSUME NEW pc, NEW n \in 2..7, GetSteps[n - 1] = pc,
             \A i \in 2..7 : GetSteps[i - 1] = pc => i = n
      PROVE  NextGet(pc) = GetSteps[n]
  BY <1>1 DEF NextGet
<1>2. /\ \A i \in 2..7 : GetSteps[i - 1] = "row" => i = 3
      /\ \A i \in 2..7 : GetSteps[i - 1] = "recommendations" => i = 4
      /\ \A i \in 2..7 : GetSteps[i - 1] = "findings" => i = 5
      /\ \A i \in 2..7 : GetSteps[i - 1] = "explanations" => i = 6
      /\ \A i \in 2..7 : GetSteps[i - 1] = "requests" => i = 7
  BY DEF GetSteps
<1>3. /\ GetSteps[2] = "row" /\ GetSteps[3] = "recommendations" /\ GetSteps[4] = "findings"
      /\ GetSteps[5] = "explanations" /\ GetSteps[6] = "requests" /\ GetSteps[7] = "done"
  BY DEF GetSteps
<1> QED BY <1>1, <1>2, <1>3

\* An analysis that is through is not stored again, and the store leaves the
\* readers alone.
LEMMA StoreKeepsReads == ASSUME SInv, ReadWhole, StoreNext, UNCHANGED get PROVE ReadWhole'
<1>1. ASSUME NEW b \in Analyses, run[b].pc = "answered"
      PROVE  run'[b].pc = "answered" /\ (b \in analyses' => b \in analyses)
  <2>1. ASSUME NEW a \in Analyses, RunStep(a)
        PROVE  run'[b] = run[b] /\ (b \in analyses' => b \in analyses)
    BY <1>1, <2>1, RunStepEffect DEF CommitPersist, tables
  <2>2. ASSUME NEW p \in Posters, PostStep(p) \/ \E a \in Analyses : PostBegins(p, a)
        PROVE  run' = run /\ analyses' = analyses
    BY <2>2, PostStepEffect
  <2>3. CASE WipeBegins \/ WipeStep
    BY <1>1, <2>3 DEF WipeBegins, WipeStep, WipeDetails, WipeRequests, WipeRecommendations,
      WipeAnalyses, WipeCommits, WipeRollsBack, tables
  <2> QED BY <1>1, <2>1, <2>2, <2>3 DEF StoreNext
<1> QED BY <1>1 DEF ReadWhole

\* Whatever is loaded after the decisions is loaded for them.
LEMMA ReadsKeepReads == ASSUME SInv, ReadWhole, ReadNext PROVE ReadWhole'
<1> USE DEF ReadWhole
<1>0. UNCHANGED <<run, analyses, recommendations, findings, explanations, requests>>
  BY OthersLeaveTheStore DEF storeVars, tables
<1>1. ASSUME NEW a \in Analyses, GetBegins(a) PROVE ReadWhole'
  BY <1>0, <1>1 DEF GetBegins
<1>2. CASE GetFindsRow
  BY <1>0, <1>2, NextGetIs DEF GetFindsRow
<1>3. CASE Load("recommendations", {row \in recommendations : row[1] = get.analysis})
  <2> DEFINE rows == {row \in recommendations : row[1] = get.analysis}
  <2>1. get.analysis \in analyses => rows = RowsOf(get.analysis)
    BY RowsAreOfAnalyses DEF SInv
  <2>2. get.pc = "recommendations" /\ get' = [get EXCEPT !.recommendations = rows, !.pc = "findings"]
    BY <1>3, NextGetIs DEF Load
  <2> HIDE DEF rows
  <2> QED BY <1>0, <2>1, <2>2
<1>4. CASE \/ Load("findings", findings \intersect get.recommendations)
           \/ Load("explanations", explanations \intersect get.recommendations)
  <2>1. ASSUME NEW t \in {"findings", "explanations"}, NEW rows, NEW pc \in {"explanations", "requests"},
               get' = [get EXCEPT ![t] = rows, !.pc = pc], get.pc \in {"findings",
                 "explanations"}
        PROVE  ReadWhole'
    BY <1>0, <2>1
  <2>2. CASE Load("findings", findings \intersect get.recommendations)
    <3>1. get.pc = "findings"
          /\ get' = [get EXCEPT !["findings"] = findings \intersect get.recommendations,
                                !.pc = "explanations"]
      BY <2>2, NextGetIs DEF Load
    <3> QED BY <2>1, <3>1
  <2>3. CASE Load("explanations", explanations \intersect get.recommendations)
    <3>1. get.pc = "explanations"
          /\ get' = [get EXCEPT !["explanations"] = explanations \intersect get.recommendations,
                                !.pc = "requests"]
      BY <2>3, NextGetIs DEF Load
    <3> QED BY <2>1, <3>1
  <2> QED BY <1>4, <2>2, <2>3
<1>6. CASE Load("requests", {r \in requests : r.analysis = get.analysis})
  <2> DEFINE rows == {r \in requests : r.analysis = get.analysis}
  <2>2. ASSUME NEW r \in rows PROVE r.items \subseteq Requestable(get.recommendations)
    BY <1>6 DEF SInv, RequestsAskWhatWasGranted, Load
  <2>3. get.pc = "requests" /\ get' = [get EXCEPT !.requests = rows, !.pc = "done"]
    BY <1>6, NextGetIs DEF Load
  <2> HIDE DEF rows
  <2> QED BY <1>0, <2>2, <2>3
<1>7. CASE BoardBegins \/ BoardCounts
  BY <1>0, <1>7 DEF BoardBegins, BoardCounts
<1> QED BY <1>1, <1>2, <1>3, <1>4, <1>6, <1>7 DEF ReadNext, GetLoads

\* A statement sees all decisions of an analysis or none.
LEMMA QueriesSeeWhole ==
  ASSUME SInv, NEW a \in Analyses
  PROVE  RowsOf(a) \intersect recommendations \in {{}, RowsOf(a)}
<1>1. RowsOf(a) \intersect recommendations = RowsOf(a) \intersect {row \in recommendations : row[1] = a}
  BY OwnRows
<1> QED BY <1>1 DEF SInv, WholeOrGone

\* The query is the only step of the chat that looks at the store.
LEMMA ChatKeeps ==
  ASSUME SInv, ChatShape, ChatSeesWholeAnalyses, ChatNext PROVE (ChatShape
    /\ ChatSeesWholeAnalyses)'
<1> USE DEF ChatShape, ChatSeesWholeAnalyses
<1>1. ASSUME ChatShape', chat'.matched \in {chat.matched, recommendations} PROVE ChatSeesWholeAnalyses'
  BY <1>1, QueriesSeeWhole DEF RowsOf
<1>2. CASE Execute(recommendations)
  BY <1>1, <1>2 DEF Execute
<1>3. CASE Ask(llm) \/ GenerateSql \/ Validate \/ ExecuteFails \/ Phrase
  BY <1>1, <1>3 DEF Ask, GenerateSql, Validate, ExecuteFails, Phrase, Answer
<1> QED BY <1>2, <1>3 DEF ChatNext

\* What the readers hold.
LEMMA ReadersHold == Spec => [](ReadWhole /\ ChatShape /\ ChatSeesWholeAnalyses)
<1> DEFINE Held == ReadWhole /\ ChatShape /\ ChatSeesWholeAnalyses
<1>1. StoreSpecInit => Held
  <2> SUFFICES ASSUME ReadInit, ChatInit PROVE Held
    BY DEF StoreSpecInit
  <2>1. ReadWhole
    BY DEF ReadInit, ReadWhole
  <2>2. ChatShape /\ chat.matched = {}
    BY DEF ChatInit, ChatShape
  <2> QED BY <2>1, <2>2 DEF ChatSeesWholeAnalyses
<1>2. ASSUME SInv, Held, [Next]_vars PROVE Held'
  <2>1. CASE StoreNext /\ UNCHANGED <<readVars, chat>>
    BY <1>2, <2>1, StoreKeepsReads DEF readVars, ChatShape, ChatSeesWholeAnalyses, RowsOf
  <2>2. CASE ReadNext /\ UNCHANGED chat
    BY <1>2, <2>2, ReadsKeepReads DEF ChatShape, ChatSeesWholeAnalyses, RowsOf
  <2>3. CASE ChatNext
    <3>1. UNCHANGED <<run, analyses, get>>
      BY <2>3 DEF ChatNext, storeVars, tables, readVars
    <3> QED BY <1>2, <2>3, <3>1, ChatKeeps DEF ReadWhole
  <2>4. CASE UNCHANGED vars
    BY <1>2, <2>4 DEF vars, storeVars, tables, readVars, ReadWhole, ChatShape,
      ChatSeesWholeAnalyses, RowsOf
  <2> QED BY <1>2, <2>1, <2>2, <2>3, <2>4 DEF Next
<1> QED BY <1>1, <1>2, SInvHolds, PTL DEF Spec

\* No chat answer rests on part of an analysis (ReadOnlyQueryRunner.run).
THEOREM ChatSeesWhole == Spec => []ChatSeesWholeAnalyses
BY ReadersHold, PTL

\* No read, torn or not, shows a request for access it does not show as granted
\* (AnalysisRepository.get).
THEOREM ReadsAskForNothingUnseen == Spec => []NothingAskedForUnseen
<1>1. ReadWhole => NothingAskedForUnseen
  BY DEF ReadWhole, NothingAskedForUnseen, ShownPayload, Latest
<1> QED BY <1>1, ReadersHold, PTL

-----------------------------------------------------------------------------
(* Calls, and how the store grows *)

\* What a call keeps once it has begun.
LEMMA PostKeeps ==
  ASSUME SInv, NEW p \in Posters, PostStep(p)
  PROVE  /\ post[p].pc # "idle" /\ post'[p].pc # "idle" /\ UNCHANGED clock
         /\ post'[p].stamp = post[p].stamp /\ post'[p].analysis = post[p].analysis
         /\ post'[p].after = post[p].after
<1> USE DEF SInv, Shapes, PostTo, PostRecords
<1>1. CASE PostReadsRows(p)
  <2>1. PICK items : PostTo(p, [post[p] EXCEPT !.pc = "read", !.items = items])
    BY <1>1 DEF PostReadsRows
  <2>2. post[p].pc = "found" /\ UNCHANGED clock
    BY <1>1 DEF PostReadsRows
  <2>3. post'[p] = [post[p] EXCEPT !.pc = "read", !.items = items]
    BY <2>1
  <2>4. /\ post'[p].pc = "read" /\ post'[p].stamp = post[p].stamp
        /\ post'[p].analysis = post[p].analysis /\ post'[p].after = post[p].after
    BY <2>3
  <2> QED BY <2>2, <2>4
<1>2. CASE PostStep(p) /\ ~PostReadsRows(p)
  BY <1>2 DEF PostStep, PostFindsRow, PostInserts, PostAcknowledges, PostCommits, PostAnswers,
              PostIsLost
<1> QED BY <1>1, <1>2

\* How a call begins.
LEMMA PostBeginning ==
  ASSUME SInv, NEW p \in Posters, NEW a \in Analyses, PostBegins(p, a)
  PROVE  /\ post[p].pc = "idle" /\ post'[p].pc = "begun" /\ run[a].pc = "answered"
         /\ clock' = clock + 1 /\ post'[p].stamp = clock + 1 /\ post'[p].analysis = a
         /\ post'[p].after = Acknowledged \ {p}
<1> DEFINE others == Acknowledged \ {p}
<1>1. /\ clock' = clock + 1 /\ post[p].pc = "idle" /\ run[a].pc = "answered"
      /\ PostTo(p, [post[p] EXCEPT !.pc = "begun", !.analysis = a, !.stamp = clock',
                                   !.after = others])
  BY Zenon DEF PostBegins
<1> HIDE DEF others
<1>2. /\ post'[p].pc = "begun" /\ post'[p].stamp = clock' /\ post'[p].analysis = a
      /\ post'[p].after = others
  BY <1>1 DEF SInv, Shapes, PostTo, PostRecords
<1> QED BY <1>1, <1>2 DEF others

\* A step of a run: its stamp is the time at which it begins to write.
LEMMA RunKeeps ==
  ASSUME SInv, NEW a \in Analyses, RunStep(a)
  PROVE  \/ run'[a].stamp = run[a].stamp /\ UNCHANGED clock
         \/ clock' = clock + 1 /\ run'[a].stamp = clock + 1
<1> USE DEF SInv, Shapes, RunTo, RunRecords
<1>1. CASE Explain(a)
  <2>1. PICK by : RunTo(a, [run[a] EXCEPT !.pc = "explained", !.narrators = by,
                                           !.generator = WholeGenerator(by)])
    BY <1>1 DEF Explain
  <2>2. UNCHANGED clock
    BY <1>1 DEF Explain
  <2>3. run'[a].stamp = run[a].stamp
    BY <2>1
  <2> QED BY <2>2, <2>3
<1>2. CASE ExplainAbandoned(a)
  BY <1>2 DEF ExplainAbandoned
<1>3. CASE BeginPersist(a)
  BY <1>3 DEF BeginPersist
<1>4. CASE CommitPersist(a)
  BY <1>4 DEF CommitPersist
<1>5. CASE PersistRollsBack(a)
  BY <1>5 DEF PersistRollsBack
<1>6. CASE GeneratePayload(a)
  <2>1. PICK payload : RunTo(a, [run[a] EXCEPT !.pc = "packed", !.payload = payload])
    BY <1>6 DEF GeneratePayload
  <2>2. UNCHANGED clock
    BY <1>6 DEF GeneratePayload
  <2>3. run'[a].stamp = run[a].stamp
    BY <2>1
  <2> QED BY <2>2, <2>3
<1>7. CASE PayloadFails(a)
  BY <1>7 DEF PayloadFails
<1> QED BY <1>1, <1>2, <1>3, <1>4, <1>5, <1>6, <1>7 DEF RunStep

\* Only the commit of the reset takes anything away, and only it ends a reset.
LEMMA StoreGrows ==
  ASSUME SInv, StoreNext
  PROVE  /\ \A a \in Analyses : run[a].pc = "answered" => run'[a] = run[a]
         /\ \/ WipeCommits /\ wipe.pc # "done" /\ wipe'.pc = "done"
               /\ UNCHANGED <<run, post, clock, config>>
            \/ /\ wipe'.pc = "done" <=> wipe.pc = "done"
               /\ analyses \subseteq analyses' /\ recommendations \subseteq recommendations'
               /\ findings \subseteq findings' /\ explanations \subseteq explanations'
               /\ requests \subseteq requests'
<1>1. ASSUME NEW a \in Analyses, RunStep(a)
      PROVE  /\ \A b \in Analyses : run[b].pc = "answered" => run'[b] = run[b]
             /\ wipe' = wipe
             /\ analyses \subseteq analyses' /\ recommendations \subseteq recommendations'
             /\ findings \subseteq findings' /\ explanations \subseteq explanations'
             /\ requests \subseteq requests'
  BY <1>1, RunStepEffect DEF CommitPersist, tables
<1>2. ASSUME NEW p \in Posters, PostStep(p) \/ \E a \in Analyses : PostBegins(p, a)
      PROVE  /\ UNCHANGED <<run, wipe, analyses, recommendations, findings, explanations>>
             /\ requests \subseteq requests'
  BY <1>2, PostStepEffect DEF PostCommits
<1>3. CASE WipeCommits
  BY <1>3 DEF WipeCommits
<1>4. CASE WipeBegins \/ (WipeStep /\ ~WipeCommits)
  <2>1. UNCHANGED <<run, analyses, recommendations, findings, explanations, requests>>
    BY <1>4 DEF WipeBegins, WipeStep, WipeDetails, WipeRequests, WipeRecommendations,
                WipeAnalyses, WipeRollsBack, tables
  <2>2. wipe.pc # "done" /\ wipe'.pc # "done"
    <3>1. ASSUME NEW pc, NEW t, NEW rows, Wipe(pc, t, rows) PROVE wipe'.pc = pc
      BY <3>1 DEF SInv, Shapes, Wipe
    <3>2. CASE WipeDetails \/ WipeRequests \/ WipeRecommendations \/ WipeAnalyses
      BY <3>1, <3>2 DEF WipeDetails, WipeRequests, WipeRecommendations, WipeAnalyses
    <3>3. CASE WipeBegins \/ WipeRollsBack
      BY <3>3 DEF SInv, Shapes, WipeBegins, WipeRollsBack
    <3> QED BY <1>4, <3>2, <3>3 DEF WipeStep
  <2> QED BY <2>1, <2>2
<1> QED BY <1>1, <1>2, <1>3, <1>4 DEF StoreNext

-----------------------------------------------------------------------------
(* Narratives *)

\* The generator an analysis reports is that of its narratives.
Narrated == \A a \in Analyses : run[a].generator # "none" =>
              run[a].generator = WholeGenerator(run[a].narrators)

LEMMA NarratedStays == ASSUME SInv, Narrated, StoreNext PROVE Narrated'
<1> USE DEF SInv, Shapes, RunRecords
<1>1. ASSUME NEW a \in Analyses, RunStep(a) PROVE Narrated'
  <2>1. \A b \in Analyses \ {a} : run'[b] = run[b]
    BY <1>1, RunStepEffect
  <2>2. CASE Explain(a)
    <3>1. PICK by : RunTo(a, [run[a] EXCEPT !.pc = "explained", !.narrators = by,
                                             !.generator = WholeGenerator(by)])
      BY <2>2 DEF Explain
    <3>2. run'[a].generator = WholeGenerator(by) /\ run'[a].narrators = by
      BY <3>1 DEF RunTo
    <3> QED BY <2>1, <3>2 DEF Narrated
  <2>3. ASSUME ~Explain(a)
        PROVE  run'[a].generator = run[a].generator /\ run'[a].narrators = run[a].narrators
    <3>1. ASSUME NEW r, RunTo(a, r) PROVE run'[a] = r
      BY <3>1 DEF RunTo
    <3>2. CASE GeneratePayload(a)
      <4>1. PICK payload : RunTo(a, [run[a] EXCEPT !.pc = "packed", !.payload = payload])
        BY <3>2 DEF GeneratePayload
      <4> QED BY <3>1, <4>1
    <3>4. CASE BeginPersist(a)
      BY <3>1, <3>4 DEF BeginPersist
    <3>5. CASE ExplainAbandoned(a) \/ PayloadFails(a) \/ CommitPersist(a) \/ PersistRollsBack(a)
      BY <3>1, <3>5 DEF ExplainAbandoned, PayloadFails, CommitPersist, PersistRollsBack
    <3> QED BY <1>1, <2>3, <3>2, <3>4, <3>5 DEF RunStep
  <2> QED BY <2>1, <2>2, <2>3 DEF Narrated
<1>2. CASE UNCHANGED run
  BY <1>2 DEF Narrated
<1>3. ASSUME NEW p \in Posters, PostStep(p) \/ \E a \in Analyses : PostBegins(p, a)
      PROVE  UNCHANGED run
  BY <1>3, PostStepEffect
<1>4. CASE WipeBegins \/ WipeStep
  BY <1>2, <1>4 DEF WipeBegins, WipeStep, WipeDetails, WipeRequests, WipeRecommendations,
                    WipeAnalyses, WipeCommits, WipeRollsBack
<1> QED BY <1>1, <1>2, <1>3, <1>4 DEF StoreNext

\* An analysis that says the model narrated it has no narrative of the template's, and
\* one with a single fallback says so, whatever runs, calls and the reset do meanwhile
\* (ExplanationService.explain, whose result AnalysisService stores).
THEOREM FallbacksShow == Spec => []FallbackIsVisible
<1>1. StoreSpecInit => Narrated
  BY DEF StoreSpecInit, Init, Narrated
<1>2. ASSUME SInv, Narrated, [Next]_vars PROVE Narrated'
  <2>1. CASE UNCHANGED storeVars
    BY <1>2, <2>1 DEF storeVars, Narrated
  <2> QED BY <1>2, <2>1, NarratedStays, OthersLeaveTheStore DEF Next
<1>3. Narrated => FallbackIsVisible
  BY DEF Narrated, FallbackIsVisible, WholeGenerator
<1> QED BY <1>1, <1>2, <1>3, SInvHolds, PTL DEF Spec

-----------------------------------------------------------------------------
(* The order of the transactions *)

\* A request row is its maker's: of the run that stored the analysis, or of a call.
IsOfItsMaker(r) ==
  /\ r.by = "run" => run[r.analysis].pc = "answered" /\ r.stamp = run[r.analysis].stamp
  /\ r.by \in Posters =>
       /\ post[r.by].pc # "idle"
       /\ r.stamp = post[r.by].stamp /\ r.analysis = post[r.by].analysis

\* A call is younger than the run whose analysis it is for, and than the calls its
\* client knew to have succeeded.
IsInOrder(p) ==
  post[p].pc # "idle" =>
    /\ run[post[p].analysis].stamp < post[p].stamp /\ post[p].stamp <= clock
    /\ \A q \in post[p].after : post[q].pc # "idle" /\ post[q].stamp < post[p].stamp

\* What begins, begins after what has begun.
Stamped ==
  /\ \A a \in Analyses : run[a].stamp <= clock
  /\ \A p \in Posters : IsInOrder(p)
  /\ \A r \in requests : IsOfItsMaker(r)

\* What a reader has seen of the requests are rows the store had.
SeenStamped ==
  \A r \in get.requests : r \in RequestRows /\ r.analysis = get.analysis /\ IsOfItsMaker(r)

\* The steps of a reader.
LEMMA GetGoesOn ==
  ASSUME ReadWhole, ReadNext
  PROVE  \/ UNCHANGED get
         \/ \E a \in Analyses :
              /\ run[a].pc = "answered" /\ get.pc = "idle" /\ get'.pc = "row" /\ get'.analysis = a
              /\ get'.wiped = (wipe.pc = "done")
              /\ get'.recommendations = get.recommendations /\ get'.findings = get.findings
              /\ get'.explanations = get.explanations /\ get'.requests = get.requests
         \/ /\ get'.analysis = get.analysis /\ get'.wiped = get.wiped
            /\ \/ /\ get.pc = "row"
                  /\ get'.pc = IF get.analysis \in analyses THEN "recommendations" ELSE "missing"
                  /\ get'.recommendations = get.recommendations /\ get'.findings = get.findings
                  /\ get'.explanations = get.explanations /\ get'.requests = get.requests
               \/ /\ get.pc = "recommendations" /\ get'.pc = "findings"
                  /\ get'.recommendations = {row \in recommendations : row[1] = get.analysis}
                  /\ get'.findings = get.findings
                  /\ get'.explanations = get.explanations /\ get'.requests = get.requests
               \/ /\ get.pc = "findings" /\ get'.pc = "explanations"
                  /\ get'.recommendations = get.recommendations
                  /\ get'.findings = findings \intersect get.recommendations
                  /\ get'.explanations = get.explanations /\ get'.requests = get.requests
               \/ /\ get.pc = "explanations" /\ get'.pc = "requests"
                  /\ get'.recommendations = get.recommendations /\ get'.findings = get.findings
                  /\ get'.explanations = explanations \intersect get.recommendations
                  /\ get'.requests = get.requests
               \/ /\ get.pc = "requests" /\ get'.pc = "done"
                  /\ get'.recommendations = get.recommendations /\ get'.findings = get.findings
                  /\ get'.explanations = get.explanations
                  /\ get'.requests = {r \in requests : r.analysis = get.analysis}
<1> USE DEF ReadWhole
<1>1. CASE \E a \in Analyses : GetBegins(a)
  BY <1>1 DEF GetBegins
<1>2. CASE GetFindsRow
  BY <1>2, NextGetIs DEF GetFindsRow
<1>3. CASE Load("recommendations", {row \in recommendations : row[1] = get.analysis})
  BY <1>3, NextGetIs DEF Load
<1>4. CASE Load("findings", findings \intersect get.recommendations)
  BY <1>4, NextGetIs DEF Load
<1>5. CASE Load("explanations", explanations \intersect get.recommendations)
  BY <1>5, NextGetIs DEF Load
<1>6. CASE Load("requests", {r \in requests : r.analysis = get.analysis})
  BY <1>6, NextGetIs DEF Load
<1>7. CASE BoardBegins \/ BoardCounts
  BY <1>7 DEF BoardBegins, BoardCounts
<1> QED BY <1>1, <1>2, <1>3, <1>4, <1>5, <1>6, <1>7 DEF ReadNext, GetLoads

\* Nothing takes an order back.
LEMMA MakersStay ==
  ASSUME SInv, StoreNext, NEW r \in RequestRows, IsOfItsMaker(r) PROVE IsOfItsMaker(r)'
<1>1. \A a \in Analyses : run[a].pc = "answered" => run'[a] = run[a]
  BY StoreGrows
<1>2. \A p \in Posters :
        post[p].pc # "idle" =>
          /\ post'[p].pc # "idle" /\ post'[p].stamp = post[p].stamp
          /\ post'[p].analysis = post[p].analysis
  <2>1. ASSUME NEW p \in Posters, PostStep(p) \/ \E a \in Analyses : PostBegins(p, a)
        PROVE  \A q \in Posters :
                 post[q].pc # "idle" =>
                   /\ post'[q].pc # "idle" /\ post'[q].stamp = post[q].stamp
                   /\ post'[q].analysis = post[q].analysis
    BY <2>1, PostKeeps, PostBeginning, PostStepEffect
  <2>2. ASSUME NEW a \in Analyses, RunStep(a) PROVE UNCHANGED post
    BY <2>2, RunStepEffect
  <2>3. CASE WipeBegins \/ WipeStep
    BY <2>3 DEF WipeBegins, WipeStep, WipeDetails, WipeRequests, WipeRecommendations,
                WipeAnalyses, WipeCommits, WipeRollsBack
  <2> QED BY <2>1, <2>2, <2>3 DEF StoreNext
<1>3. r.analysis \in Analyses
  BY DEF RequestRows
<1> QED BY <1>1, <1>2, <1>3 DEF IsOfItsMaker

LEMMA StampedStays == ASSUME SInv, Stamped, StoreNext PROVE Stamped'
<1> USE DEF SInv, Shapes, RunRecords, PostRecords
<1>r. \A a \in Analyses : run[a].pc = "answered" => run'[a] = run[a]
  BY StoreGrows
<1>k. \A r \in requests : IsOfItsMaker(r)'
  BY MakersStay DEF Stamped
<1>a. ASSUME NEW p \in Posters, post[p].pc # "idle"
      PROVE  post[p].analysis \in Analyses /\ run[post[p].analysis].pc = "answered"
  BY <1>a DEF InMaking, Made
<1>1. ASSUME NEW a \in Analyses, RunStep(a) PROVE Stamped'
  <2>1. /\ \A b \in Analyses \ {a} : run'[b] = run[b]
        /\ UNCHANGED post
        /\ \/ run'[a].stamp = run[a].stamp /\ UNCHANGED clock
           \/ clock' = clock + 1 /\ run'[a].stamp = clock + 1
    BY <1>1, RunStepEffect, RunKeeps
  <2>2. \A b \in Analyses : run'[b].stamp <= clock'
    BY <2>1 DEF Stamped
  <2>3. ASSUME NEW p \in Posters PROVE IsInOrder(p)'
    BY <1>a, <1>r, <2>1 DEF Stamped, IsInOrder
  <2>4. ASSUME NEW r \in requests', r \notin requests PROVE IsOfItsMaker(r)'
    <3>1. CommitPersist(a) /\ run'[a].pc = "answered" /\ run'[a].stamp = run[a].stamp
      BY <1>1, <2>4, RunStepEffect DEF tables
    <3>2. r.analysis = a /\ r.by = "run" /\ r.stamp = run[a].stamp
      BY <2>4, <3>1 DEF CommitPersist, OwnRequest
    <3> QED BY <3>1, <3>2, StoreConstants DEF IsOfItsMaker
  <2> QED BY <1>k, <2>2, <2>3, <2>4 DEF Stamped
<1>2. ASSUME NEW p \in Posters, PostStep(p) PROVE Stamped'
  <2>1. /\ UNCHANGED <<run, clock>> /\ \A q \in Posters \ {p} : post'[q] = post[q]
        /\ post[p].pc # "idle" /\ post'[p].pc # "idle" /\ post'[p].stamp = post[p].stamp
        /\ post'[p].analysis = post[p].analysis /\ post'[p].after = post[p].after
    BY <1>2, PostStepEffect, PostKeeps DEF Stamped
  <2>2. \A q \in Posters : IsInOrder(q)'
    BY <2>1 DEF Stamped, IsInOrder
  <2>3. ASSUME NEW r \in requests', r \notin requests PROVE IsOfItsMaker(r)'
    <3>1. PostCommits(p)
      BY <1>2, <2>3, PostStepEffect
    <3>2. r = RequestRow(p)
      BY <2>3, <3>1 DEF PostCommits
    <3> QED BY <2>1, <3>2, StoreConstants DEF IsOfItsMaker, RequestRow
  <2> QED BY <1>k, <2>1, <2>2, <2>3 DEF Stamped
<1>3. ASSUME NEW p \in Posters, NEW a \in Analyses, PostBegins(p, a) PROVE Stamped'
  <2>1. /\ UNCHANGED <<run, requests>> /\ \A q \in Posters \ {p} : post'[q] = post[q]
    BY <1>3, PostStepEffect DEF PostBegins, tables
  <2>2. /\ post[p].pc = "idle" /\ run[a].pc = "answered" /\ clock' = clock + 1
        /\ post'[p].stamp = clock + 1 /\ post'[p].analysis = a
        /\ post'[p].after = Acknowledged \ {p}
    BY <1>3, PostBeginning
  <2>3. \A q \in Acknowledged \ {p} : q \in Posters /\ post[q].pc # "idle" /\ post'[q] = post[q]
    BY <2>1 DEF Acknowledged
  <2>4. IsInOrder(p)'
    BY <2>1, <2>2, <2>3 DEF Stamped, IsInOrder
  <2>5. ASSUME NEW q \in Posters \ {p} PROVE IsInOrder(q)'
    <3>1. ASSUME NEW x \in post[q].after, post[q].pc # "idle"
          PROVE  post[x].pc # "idle" /\ post[x].stamp < post[q].stamp /\ post'[x] = post[x]
      <4>1. post[x].pc # "idle" /\ post[x].stamp < post[q].stamp /\ x \in Posters
        BY <3>1 DEF Stamped, IsInOrder
      <4> QED BY <2>1, <2>2, <4>1
    <3> QED BY <2>1, <2>2, <3>1 DEF Stamped, IsInOrder
  <2> QED BY <1>k, <2>1, <2>2, <2>4, <2>5 DEF Stamped
<1>4. CASE WipeBegins \/ WipeStep
  <2>1. UNCHANGED <<run, post, clock>> /\ requests' \subseteq requests
    BY <1>4 DEF WipeBegins, WipeStep, WipeDetails, WipeRequests, WipeRecommendations,
                WipeAnalyses, WipeCommits, WipeRollsBack, tables
  <2> QED BY <1>k, <2>1 DEF Stamped, IsInOrder
<1> QED BY <1>1, <1>2, <1>3, <1>4 DEF StoreNext

LEMMA StampsHold == Spec => [](Stamped /\ SeenStamped)
<1> DEFINE Held == Stamped /\ SeenStamped
<1>1. StoreSpecInit => Held
  <2> SUFFICES ASSUME Init, ReadInit PROVE Held
    BY DEF StoreSpecInit
  <2> QED BY DEF Init, ReadInit, Stamped, SeenStamped, IsInOrder
<1>2. ASSUME SInv, ReadWhole, Held, [Next]_vars PROVE Held'
  <2>1. CASE StoreNext /\ UNCHANGED <<readVars, chat>>
    <3>1. UNCHANGED get
      BY <2>1 DEF readVars
    <3> QED BY <1>2, <2>1, <3>1, StampedStays, MakersStay DEF SeenStamped
  <2>2. CASE UNCHANGED storeVars
    <3>1. UNCHANGED <<run, post, clock, requests>>
      BY <2>2 DEF storeVars, tables
    <3>2. Stamped'
      BY <1>2, <3>1 DEF Stamped, IsInOrder, IsOfItsMaker
    <3>3. \/ get'.requests = get.requests /\ get'.analysis = get.analysis
          \/ get'.requests = {}
          \/ \A r \in get'.requests : r \in requests /\ r.analysis = get'.analysis
      <4>1. CASE ReadNext
        BY <1>2, <4>1, GetGoesOn DEF ReadWhole
      <4>2. CASE (StoreNext /\ UNCHANGED <<readVars, chat>>) \/ ChatNext \/ UNCHANGED vars
        BY <4>2 DEF ChatNext, vars, readVars
      <4> QED BY <1>2, <4>1, <4>2 DEF Next
    <3>4. requests \subseteq RequestRows
      BY <1>2 DEF SInv, Shapes
    <3>5. \A r \in requests \union get.requests : IsOfItsMaker(r) => IsOfItsMaker(r)'
      BY <3>1 DEF IsOfItsMaker
    <3>6. SeenStamped'
      BY <1>2, <3>3, <3>4, <3>5 DEF Stamped, SeenStamped
    <3> QED BY <3>2, <3>6
  <2> QED BY <1>2, <2>1, <2>2, OthersLeaveTheStore DEF Next
<1> QED BY <1>1, <1>2, SInvHolds, ReadersHold, PTL DEF Spec

\* The request that GET /analyses/{id} shows is not one that the client of another
\* request it saw knew of when it asked: created_at orders the transactions as they
\* begin, and that agrees with what clients can know (_to_domain's sort).
THEOREM ShownIsLatest == Spec => []ShownRequestNotSuperseded
<1>1. ASSUME SInv, Stamped, SeenStamped PROVE ShownRequestNotSuperseded
  <2> SUFFICES ASSUME NEW r \in Latest(get.requests), NEW q \in get.requests
               PROVE  /\ q.by \in Posters /\ r.by \in Posters => r.by \notin post[q.by].after
                      /\ r.by = "run" => q.by = "run"
    BY DEF ShownRequestNotSuperseded
  <2>1. /\ r \in get.requests /\ q.stamp <= r.stamp
        /\ q \in RequestRows /\ r \in RequestRows
        /\ r.analysis = q.analysis /\ IsOfItsMaker(q) /\ IsOfItsMaker(r)
    BY <1>1 DEF Latest, SeenStamped
  <2>2. q.by \in Posters \union {"run"} /\ q.stamp \in Nat /\ r.stamp \in Nat
        /\ r.analysis \in Analyses
    BY <2>1 DEF RequestRows
  <2>3. CASE q.by \in Posters
    <3>1. post[q.by].pc # "idle" /\ q.stamp = post[q.by].stamp /\ q.analysis = post[q.by].analysis
      BY <2>1, <2>3 DEF IsOfItsMaker
    <3>2. /\ run[q.analysis].stamp < q.stamp
          /\ \A x \in post[q.by].after : post[x].stamp < q.stamp
      BY <1>1, <2>3, <3>1 DEF Stamped, IsInOrder
    <3>3. r.by = "run" => r.stamp = run[q.analysis].stamp
      BY <2>1 DEF IsOfItsMaker
    <3>4. r.by \in Posters => r.stamp = post[r.by].stamp
      BY <2>1 DEF IsOfItsMaker
    <3> QED BY <2>1, <2>2, <3>2, <3>3, <3>4
  <2>4. CASE q.by = "run"
    BY <2>4, StoreConstants
  <2> QED BY <2>2, <2>3, <2>4
<1> QED BY <1>1, SInvHolds, StampsHold, PTL

-----------------------------------------------------------------------------
(* What a reader finds *)

\* The types of what a reader has seen, and what it has not seen yet.
GetTyped ==
  /\ get.pc \in {"idle", "row", "recommendations", "findings", "explanations", "requests", "done",
                 "missing"}
  /\ get.analysis \in Analyses \union {"none"} /\ get.wiped \in BOOLEAN
  /\ get.recommendations \subseteq Pairs
  /\ get.findings \subseteq get.recommendations
  /\ get.explanations \subseteq get.recommendations
  /\ get.pc \in {"idle", "row", "recommendations", "missing"} =>
       get.findings = {} /\ get.explanations = {}

\* As long as no reset is committed, each statement returns what was written.
SeenWhole ==
  /\ get.analysis \in analyses
  /\ get.pc \in {"findings", "explanations", "requests", "done"} =>
       get.recommendations = RowsOf(get.analysis)
  /\ get.pc \in {"explanations", "requests", "done"} => get.findings = RowsOf(get.analysis)
  /\ get.pc \in {"requests", "done"} => get.explanations = Explained(get.analysis)
  /\ get.pc = "done" =>
       /\ OwnRequest(get.analysis) \subseteq get.requests
       /\ \A r \in get.requests : r.items = Requestable(RowsOf(get.analysis))

Untorn ==
  /\ get.wiped => wipe.pc = "done"
  /\ Undisturbed(get) /\ get.pc \notin {"idle", "row", "missing"} => SeenWhole

LEMMA GetTypedStays == ASSUME SInv, ReadWhole, GetTyped, ReadNext PROVE GetTyped'
<1>1. ASSUME NEW a \in Analyses, get'.wiped = (wipe.pc = "done") PROVE get'.wiped \in BOOLEAN
  BY <1>1
<1>2. recommendations \subseteq Pairs /\ findings \subseteq Pairs /\ explanations \subseteq Pairs
  BY DEF SInv, Shapes
<1> QED BY <1>1, <1>2, GetGoesOn DEF GetTyped

\* What a run has stored is found by whoever asks for it.
LEMMA StoredIsFound ==
  ASSUME SInv, NEW a \in analyses
  PROVE  /\ a \in Analyses
         /\ {row \in recommendations : row[1] = a} = RowsOf(a)
         /\ findings \intersect RowsOf(a) = RowsOf(a)
         /\ explanations \intersect RowsOf(a) = Explained(a)
         /\ OwnRequest(a) \subseteq {r \in requests : r.analysis = a}
         /\ \A r \in {x \in requests : x.analysis = a} : r.items = Requestable(RowsOf(a))
<1>1. a \in Analyses
  BY DEF SInv, Shapes
<1>2. /\ {row \in recommendations : row[1] = a} = RowsOf(a)
      /\ {row \in findings : row[1] = a} = RowsOf(a)
      /\ {row \in explanations : row[1] = a} = Explained(a)
      /\ OwnRequest(a) \subseteq requests
  BY <1>1 DEF SInv, WholeOrGone
<1>3. findings \intersect RowsOf(a) = RowsOf(a) /\ explanations \intersect RowsOf(a) = Explained(a)
  BY <1>1, <1>2, OwnRows
<1>4. \A r \in OwnRequest(a) : r.analysis = a
  BY DEF OwnRequest
<1> QED BY <1>1, <1>2, <1>3, <1>4 DEF SInv, RequestsAskWhatWasGranted

\* A step of the reader.
LEMMA ReadsStayUntorn == ASSUME SInv, ReadWhole, GetTyped, Untorn, ReadNext PROVE Untorn'
<1>0. UNCHANGED <<run, wipe, analyses, recommendations, findings, explanations, requests>>
  BY OthersLeaveTheStore DEF storeVars, tables
<1>1. \A a : Explained(a)' = Explained(a) /\ OwnRequest(a)' = OwnRequest(a)
  BY <1>0 DEF Explained, OwnRequest
<1>2. CASE UNCHANGED get
  BY <1>0, <1>1, <1>2 DEF Untorn, Undisturbed, SeenWhole
<1>3. CASE get'.pc = "row" /\ get'.wiped = (wipe.pc = "done")
  BY <1>0, <1>3 DEF Untorn
<1>4. CASE get'.analysis = get.analysis /\ get'.wiped = get.wiped
  <2>1. get'.wiped => wipe'.pc = "done"
    BY <1>0, <1>4 DEF Untorn
  <2> SUFFICES ASSUME Undisturbed(get)', get'.pc \notin {"idle", "row", "missing"}
               PROVE  SeenWhole'
    BY <2>1 DEF Untorn
  <2>2. Undisturbed(get)
    BY <1>0, <1>4 DEF Undisturbed
  <2>3. CASE UNCHANGED get
    BY <1>2, <2>3 DEF Untorn
  <2>4. CASE ~UNCHANGED get
    <3>1. get.pc # "idle" /\ get.pc # "missing"
      BY <1>4, <2>4, GetGoesOn DEF GetTyped
    <3>2. CASE get.pc = "row"
      BY <1>0, <1>4, <2>4, <3>2, GetGoesOn DEF SeenWhole
    <3>3. CASE get.pc # "row"
      <4>1. SeenWhole
        BY <2>2, <3>1, <3>3 DEF Untorn
      <4>2. /\ get.analysis \in analyses
            /\ {row \in recommendations : row[1] = get.analysis} = RowsOf(get.analysis)
            /\ findings \intersect RowsOf(get.analysis) = RowsOf(get.analysis)
            /\ explanations \intersect RowsOf(get.analysis) = Explained(get.analysis)
            /\ OwnRequest(get.analysis) \subseteq {r \in requests : r.analysis = get.analysis}
            /\ \A r \in {x \in requests : x.analysis = get.analysis} :
                 r.items = Requestable(RowsOf(get.analysis))
        BY <4>1, StoredIsFound DEF SeenWhole
      <4>3. CASE get.pc = "recommendations"
        BY <1>0, <1>4, <2>4, <4>2, <4>3, GetGoesOn DEF SeenWhole
      <4>4. CASE get.pc = "findings"
        <5>1. get.recommendations = RowsOf(get.analysis)
          BY <4>1, <4>4 DEF SeenWhole
        <5> QED BY <1>0, <1>4, <2>4, <4>2, <4>4, <5>1, GetGoesOn DEF SeenWhole
      <4>5. CASE get.pc = "explanations"
        <5>1. get.recommendations = RowsOf(get.analysis) /\ get.findings = RowsOf(get.analysis)
          BY <4>1, <4>5 DEF SeenWhole
        <5> QED BY <1>0, <1>1, <1>4, <2>4, <4>2, <4>5, <5>1, GetGoesOn DEF SeenWhole
      <4>6. CASE get.pc = "requests"
        <5>1. /\ get.recommendations = RowsOf(get.analysis) /\ get.findings = RowsOf(get.analysis)
              /\ get.explanations = Explained(get.analysis)
          BY <4>1, <4>6 DEF SeenWhole
        <5> QED BY <1>0, <1>1, <1>4, <2>4, <4>2, <4>6, <5>1, GetGoesOn DEF SeenWhole
      <4> QED BY <1>4, <2>4, <3>1, <3>3, <4>3, <4>4, <4>5, <4>6, GetGoesOn DEF GetTyped
    <3> QED BY <3>2, <3>3
  <2> QED BY <2>3, <2>4
<1> QED BY <1>2, <1>3, <1>4, GetGoesOn

\* A step of the store.
LEMMA StoreLeavesUntorn ==
  ASSUME SInv, ReadWhole, GetTyped, Untorn, StoreNext, UNCHANGED get PROVE Untorn'
<1>1. CASE WipeCommits /\ wipe.pc # "done" /\ wipe'.pc = "done"
  <2>1. get'.wiped = FALSE
    BY <1>1 DEF Untorn, GetTyped
  <2> QED BY <1>1, <2>1 DEF Untorn, Undisturbed
<1>2. CASE (wipe'.pc = "done" <=> wipe.pc = "done") /\ analyses \subseteq analyses'
  <2>1. (get.wiped => wipe'.pc = "done") /\ (Undisturbed(get)' => Undisturbed(get))
    BY <1>2 DEF Untorn, Undisturbed
  <2>2. ASSUME get.pc \notin {"idle", "missing"}
        PROVE  /\ Explained(get.analysis)' = Explained(get.analysis)
               /\ OwnRequest(get.analysis)' = OwnRequest(get.analysis)
    <3>1. run'[get.analysis] = run[get.analysis]
      BY <2>2, StoreGrows DEF ReadWhole
    <3> QED BY <3>1 DEF Explained, OwnRequest
  <2> QED BY <1>2, <2>1, <2>2 DEF Untorn, SeenWhole
<1> QED BY <1>1, <1>2, StoreGrows

LEMMA UntornHolds == Spec => [](GetTyped /\ Untorn)
<1> DEFINE Held == GetTyped /\ Untorn
<1>1. StoreSpecInit => Held
  BY DEF StoreSpecInit, Init, ReadInit, GetTyped, Untorn
<1>2. ASSUME SInv, ReadWhole, Held, [Next]_vars PROVE Held'
  <2>1. CASE StoreNext /\ UNCHANGED <<readVars, chat>>
    <3>1. UNCHANGED get
      BY <2>1 DEF readVars
    <3> QED BY <1>2, <2>1, <3>1, StoreLeavesUntorn DEF GetTyped
  <2>2. CASE ReadNext
    BY <1>2, <2>2, GetTypedStays, ReadsStayUntorn
  <2>3. CASE ChatNext \/ UNCHANGED vars
    <3>1. UNCHANGED <<run, wipe, analyses, get>>
      BY <2>3 DEF ChatNext, vars, storeVars, tables, readVars
    <3> QED BY <1>2, <3>1 DEF GetTyped, Untorn, Undisturbed, SeenWhole, Explained, OwnRequest
  <2> QED BY <1>2, <2>1, <2>2, <2>3 DEF Next
<1> QED BY <1>1, <1>2, SInvHolds, ReadersHold, PTL DEF Spec

\* A nonempty set of bounded numbers has a last one.
LEMMA LastOfBounded ==
  ASSUME NEW n \in Nat, NEW S \in SUBSET (0..n), S # {}
  PROVE  \E i \in S : \A j \in S : j <= i
<1> DEFINE F == {1..(n - i) : i \in S}
           R == StrictSubsetOrdering(Nat)
<1>1. F \subseteq FiniteSubsetsOf(Nat)
  <2> SUFFICES ASSUME NEW i \in S PROVE 1..(n - i) \in FiniteSubsetsOf(Nat)
    OBVIOUS
  <2>1. IsFiniteSet(1..(n - i))
    BY FS_Interval
  <2> QED BY <2>1 DEF FiniteSubsetsOf
<1>2. IsWellFoundedOn(R, FiniteSubsetsOf(Nat))
  BY FS_StrictSubsetOrderingWellFounded
<1>3. F # {}
  OBVIOUS
<1>4. \E U \in F : \A V \in F : <<V, U>> \notin R
  <2> HIDE DEF F, R
  <2> QED BY <1>1, <1>2, <1>3, WFMin
<1>5. PICK i \in S : \A j \in S : <<1..(n - j), 1..(n - i)>> \notin R
  BY <1>4
<1>6. ASSUME NEW j \in S, ~(j <= i) PROVE FALSE
  <2>1. 1..(n - j) \subseteq 1..(n - i) /\ n - i \in 1..(n - i) /\ n - i \notin 1..(n - j)
    BY <1>6
  <2>2. 1..(n - j) # 1..(n - i) /\ 1..(n - j) \in SUBSET Nat /\ 1..(n - i) \in SUBSET Nat
    BY <2>1
  <2>3. <<1..(n - j), 1..(n - i)>> \in R
    BY <2>1, <2>2 DEF StrictSubsetOrdering
  <2> QED BY <1>5, <2>3
<1> QED BY <1>6

\* Some request is the latest.
LEMMA SomeIsLatest ==
  ASSUME SInv, Stamped, SeenStamped, get.requests # {}
  PROVE  Latest(get.requests) # {}
<1> DEFINE S == {r.stamp : r \in get.requests}
<1>1. ASSUME NEW r \in get.requests PROVE r.stamp \in 0..clock
  <2>1. r \in RequestRows /\ IsOfItsMaker(r)
    BY DEF SeenStamped
  <2>2. /\ r.by \in Posters \union {"run"} /\ r.stamp \in Nat /\ r.analysis \in Analyses
        /\ clock \in Nat
    BY <2>1 DEF RequestRows, SInv, Shapes
  <2>3. CASE r.by \in Posters
    BY <2>1, <2>2, <2>3 DEF IsOfItsMaker, Stamped, IsInOrder
  <2>4. CASE r.by = "run"
    BY <2>1, <2>2, <2>4 DEF IsOfItsMaker, Stamped
  <2> QED BY <2>2, <2>3, <2>4
<1>2. \E i \in S : \A j \in S : j <= i
  <2>1. S \in SUBSET (0..clock) /\ S # {} /\ clock \in Nat
    BY <1>1 DEF SInv, Shapes
  <2> HIDE DEF S
  <2> QED BY <2>1, LastOfBounded
<1> QED BY <1>2 DEF Latest

\* An analysis read back in five statements, none of them a snapshot, is the one that
\* was written, unless a reset commits while it is read; a payload that the run had is
\* among it (analysis_repo.get, _to_domain).
THEOREM ReadBackWhole == Spec => []ReadBackIsWhole
<1>1. ASSUME SInv, ReadWhole, Stamped, SeenStamped, Untorn PROVE ReadBackIsWhole
  <2> SUFFICES ASSUME get.pc = "done", Undisturbed(get)
               PROVE  /\ get.recommendations = RowsOf(get.analysis)
                      /\ get.findings = get.recommendations
                      /\ get.explanations = Explained(get.analysis)
                      /\ get.findings = RowsOf(get.analysis)
                      /\ run[get.analysis].payload => get.requests # {}
                      /\ get.requests # {} => ShownPayload = Requestable(RowsOf(get.analysis))
    BY DEF ReadBackIsWhole, ShownSod
  <2> DEFINE a == get.analysis
  <2>1. /\ get.recommendations = RowsOf(a) /\ get.findings = RowsOf(a)
        /\ get.explanations = Explained(a) /\ OwnRequest(a) \subseteq get.requests
        /\ \A r \in get.requests : r.items = Requestable(RowsOf(a))
    BY <1>1 DEF Untorn, SeenWhole
  <2>2. run[a].payload => get.requests # {}
    BY <2>1 DEF OwnRequest
  <2>3. ASSUME get.requests # {} PROVE ShownPayload = Requestable(RowsOf(a))
    <3>1. ShownPayload \subseteq Requestable(RowsOf(a))
      BY <2>1 DEF ShownPayload, Latest
    <3>2. PICK r \in Latest(get.requests) : TRUE
      BY <1>1, <2>3, SomeIsLatest
    <3>3. r.items = Requestable(RowsOf(a))
      BY <2>1, <3>2 DEF Latest
    <3> QED BY <3>1, <3>2, <3>3 DEF ShownPayload
  <2> QED BY <2>1, <2>2, <2>3
<1> QED BY <1>1, SInvHolds, ReadersHold, StampsHold, UntornHolds, PTL

-----------------------------------------------------------------------------
(* The dashboard *)

\* The rows of one status.
OfStatus(rows, s) == {row \in rows : Verdict[row[1]][row[2]] = s}

BoardShape ==
  /\ board = [x \in {"counted", "started", "wiped"} |-> board[x]]
  /\ board.counted \in Seq(Nat) /\ Len(board.counted) <= Len(Counts)
  /\ \A i \in 1..Len(board.counted) : board.counted[i] <= MostRows
  /\ board.wiped \in BOOLEAN /\ (board.wiped => wipe.pc = "done")

\* A number of the dashboard, as it is or, when it is not counted yet, as it would be.
Number(i) == IF i <= Len(board.counted) THEN board.counted[i] ELSE CountOf(Counts[i])

\* What is still to be counted can only have grown.
AddingUp ==
  Undisturbed(board) /\ Len(board.counted) >= 2 =>
    board.counted[2] <= Number(3) + Number(4) + Number(5) + Number(6) + Number(7) + Number(8)

LEMMA CountsAre ==
  /\ Len(Counts) = 9 /\ Counts[1] = "total_analyses" /\ Counts[2] = "total_recommendations"
  /\ Counts[3] = "AUTO_APPROVED" /\ Counts[4] = "MANAGER_APPROVAL" /\ Counts[5] = "HUMAN_REVIEW"
  /\ Counts[6] = "BLOCKED" /\ Counts[7] = "REJECTED" /\ Counts[8] = "NOT_RECOMMENDED"
  /\ Counts[9] = "sailpoint_requests"
BY DEF Counts

\* The tables are finite.
LEMMA TablesFinite ==
  ASSUME SInv
  PROVE  /\ IsFiniteSet(Pairs) /\ IsFiniteSet(analyses) /\ IsFiniteSet(recommendations)
         /\ \A s : IsFiniteSet(OfStatus(recommendations, s))
<1>1. IsFiniteSet(Pairs)
  BY StoreConstants, FS_Product DEF Pairs
<1>2. IsFiniteSet(recommendations)
  BY <1>1, FS_Subset DEF SInv, Shapes
<1>3. IsFiniteSet(analyses)
  BY StoreConstants, FS_Subset DEF SInv, Shapes
<1>4. ASSUME NEW s PROVE IsFiniteSet(OfStatus(recommendations, s))
  <2>1. OfStatus(recommendations, s) \in SUBSET recommendations
    BY DEF OfStatus
  <2> QED BY <1>2, <2>1, FS_Subset
<1> QED BY <1>1, <1>2, <1>3, <1>4

\* What each number counts.
LEMMA CountsOf ==
  /\ CountOf(Counts[1]) = Cardinality(analyses)
  /\ CountOf(Counts[2]) = Cardinality(recommendations)
  /\ CountOf(Counts[9]) = Cardinality(requests)
  /\ \A i \in 3..8 : Counts[i] \in RecommendationStatuses
                     /\ CountOf(Counts[i]) = Cardinality(OfStatus(recommendations, Counts[i]))
<1>1. ASSUME NEW s \in RecommendationStatuses
      PROVE  CountOf(s) = Cardinality(OfStatus(recommendations, s))
  BY DEF CountOf, OfStatus, RecommendationStatuses
<1>2. \A i \in 3..8 : Counts[i] \in RecommendationStatuses
  <2>1. \A i \in 3..8 : i = 3 \/ i = 4 \/ i = 5 \/ i = 6 \/ i = 7 \/ i = 8
    OBVIOUS
  <2> QED BY <2>1, CountsAre DEF RecommendationStatuses
<1> QED BY <1>1, <1>2, CountsAre DEF CountOf

\* The statuses between them count every recommendation.
LEMMA StatusesCover ==
  ASSUME SInv
  PROVE  Cardinality(recommendations)
           <= Cardinality(OfStatus(recommendations, Counts[3]))
              + Cardinality(OfStatus(recommendations, Counts[4]))
              + Cardinality(OfStatus(recommendations, Counts[5]))
              + Cardinality(OfStatus(recommendations, Counts[6]))
              + Cardinality(OfStatus(recommendations, Counts[7]))
              + Cardinality(OfStatus(recommendations, Counts[8]))
<1> DEFINE S(i) == OfStatus(recommendations, Counts[i])
           U4 == S(3) \union S(4)
           U5 == U4 \union S(5)
           U6 == U5 \union S(6)
           U7 == U6 \union S(7)
           U8 == U7 \union S(8)
<1>1. ASSUME NEW T, NEW V, IsFiniteSet(T), IsFiniteSet(V)
      PROVE  IsFiniteSet(T \union V) /\ Cardinality(T \union V) <= Cardinality(T) + Cardinality(V)
             /\ Cardinality(T) \in Nat
  <2>1. IsFiniteSet(T \intersect V)
    BY <1>1, FS_Intersection
  <2>2. /\ Cardinality(T) \in Nat /\ Cardinality(V) \in Nat
        /\ Cardinality(T \intersect V) \in Nat
    BY <1>1, <2>1, FS_CardinalityType
  <2>3. /\ IsFiniteSet(T \union V)
        /\ Cardinality(T \union V)
             = Cardinality(T) + Cardinality(V) - Cardinality(T \intersect V)
    BY <1>1, FS_Union
  <2> QED BY <2>2, <2>3
<1>2. \A i : IsFiniteSet(S(i)) /\ Cardinality(S(i)) \in Nat
  BY TablesFinite, FS_CardinalityType
<1>3. recommendations = U8
  <2>1. ASSUME NEW row \in recommendations
        PROVE  Verdict[row[1]][row[2]] \in RecommendationStatuses
    <3>1. /\ row[1] \in Analyses /\ row[2] \in Entitlements
          /\ row \in RowsOf(row[1])
      BY RowsAreOfAnalyses DEF SInv, Shapes, Pairs
    <3>2. Verdict[row[1]][row[2]] # "ABSENT"
      BY <3>1, OwnRows
    <3> QED BY <3>1, <3>2, StoreConstants
  <2>2. \A row \in recommendations :
          \E i \in 3..8 : Verdict[row[1]][row[2]] = Counts[i]
    <3>1. 3 \in 3..8 /\ 4 \in 3..8 /\ 5 \in 3..8 /\ 6 \in 3..8 /\ 7 \in 3..8 /\ 8 \in 3..8
      OBVIOUS
    <3> QED BY <2>1, <3>1, CountsAre DEF RecommendationStatuses
  <2>3. \A i \in 3..8 : i = 3 \/ i = 4 \/ i = 5 \/ i = 6 \/ i = 7 \/ i = 8
    OBVIOUS
  <2> QED BY <2>2, <2>3 DEF OfStatus
<1> HIDE DEF S
<1>4. IsFiniteSet(U4) /\ Cardinality(U4) <= Cardinality(S(3)) + Cardinality(S(4))
  BY <1>1, <1>2
<1> HIDE DEF U4
<1>5. IsFiniteSet(U5) /\ Cardinality(U5) <= Cardinality(U4) + Cardinality(S(5))
  BY <1>1, <1>2, <1>4
<1> HIDE DEF U5
<1>6. IsFiniteSet(U6) /\ Cardinality(U6) <= Cardinality(U5) + Cardinality(S(6))
  BY <1>1, <1>2, <1>5
<1> HIDE DEF U6
<1>7. IsFiniteSet(U7) /\ Cardinality(U7) <= Cardinality(U6) + Cardinality(S(7))
  BY <1>1, <1>2, <1>6
<1> HIDE DEF U7
<1>8. Cardinality(U8) <= Cardinality(U7) + Cardinality(S(8)) /\ IsFiniteSet(U8)
  BY <1>1, <1>2, <1>7
<1> HIDE DEF U8
<1>9. /\ Cardinality(U4) \in Nat /\ Cardinality(U5) \in Nat /\ Cardinality(U6) \in Nat
      /\ Cardinality(U7) \in Nat /\ Cardinality(U8) \in Nat
  BY <1>4, <1>5, <1>6, <1>7, <1>8, FS_CardinalityType
<1> QED BY <1>2, <1>3, <1>4, <1>5, <1>6, <1>7, <1>8, <1>9 DEF S

\* There is at most one request of a run for its analysis, and one of a call.
LEMMA RequestsCounted ==
  ASSUME SInv, Stamped
  PROVE  IsFiniteSet(requests)
         /\ Cardinality(requests) <= Cardinality(Analyses) + Cardinality(Posters)
<1> DEFINE ByRun == {r \in requests : r.by = "run"}
           ByCall == {r \in requests : r.by \in Posters}
           f == [r \in ByRun |-> r.analysis]
           g == [r \in ByCall |-> r.by]
<1>1. ASSUME NEW r \in requests
      PROVE  /\ r.analysis \in Analyses /\ r.by \in Posters \union {"run"}
             /\ r = [analysis |-> r.analysis, by |-> r.by, stamp |-> r.stamp, items |-> r.items]
             /\ r.items = Requestable(RowsOf(r.analysis)) /\ IsOfItsMaker(r)
  <2>1. r \in RequestRows
    BY DEF SInv, Shapes
  <2> QED BY <2>1 DEF RequestRows, SInv, RequestsAskWhatWasGranted, Stamped
<1>2. f \in Injection(ByRun, Analyses)
  <2>1. f \in [ByRun -> Analyses]
    BY <1>1
  <2>2. ASSUME NEW r \in ByRun, NEW q \in ByRun, r.analysis = q.analysis PROVE r = q
    BY <1>1, <2>2 DEF IsOfItsMaker
  <2>3. IsInjective(f)
    BY <2>2 DEF IsInjective
  <2> QED BY <2>1, <2>3 DEF Injection
<1>3. g \in Injection(ByCall, Posters)
  <2>1. g \in [ByCall -> Posters]
    OBVIOUS
  <2>2. ASSUME NEW r \in ByCall, NEW q \in ByCall, r.by = q.by PROVE r = q
    BY <1>1, <2>2 DEF IsOfItsMaker
  <2>3. IsInjective(g)
    BY <2>2 DEF IsInjective
  <2> QED BY <2>1, <2>3 DEF Injection
<1>4. IsFiniteSet(Analyses) /\ IsFiniteSet(Posters)
  BY StoreConstants
<1>5. /\ IsFiniteSet(ByRun) /\ Cardinality(ByRun) <= Cardinality(Analyses)
      /\ IsFiniteSet(ByCall) /\ Cardinality(ByCall) <= Cardinality(Posters)
  <2> HIDE DEF ByRun, ByCall, f, g
  <2> QED BY <1>2, <1>3, <1>4, FS_Injection
<1>6. requests = ByRun \union ByCall
  BY <1>1
<1> HIDE DEF ByRun, ByCall
<1>7. IsFiniteSet(ByRun \intersect ByCall)
  BY <1>5, FS_Intersection
<1>8. /\ Cardinality(ByRun) \in Nat /\ Cardinality(ByCall) \in Nat
      /\ Cardinality(ByRun \intersect ByCall) \in Nat
      /\ Cardinality(Analyses) \in Nat /\ Cardinality(Posters) \in Nat
  BY <1>4, <1>5, <1>7, FS_CardinalityType
<1>9. /\ IsFiniteSet(requests)
      /\ Cardinality(requests)
           = Cardinality(ByRun) + Cardinality(ByCall) - Cardinality(ByRun \intersect ByCall)
  BY <1>5, <1>6, FS_Union
<1> QED BY <1>5, <1>8, <1>9

\* No number exceeds what the store can hold.
LEMMA CountsBounded ==
  ASSUME SInv, Stamped, NEW i \in 1..9
  PROVE  CountOf(Counts[i]) \in 0..MostRows /\ MostRows \in Nat
<1> DEFINE A == Cardinality(Analyses)
           P == Cardinality(Posters)
           E == Cardinality(Pairs)
<1>1. A \in Nat /\ P \in Nat /\ E \in Nat
  BY StoreConstants, TablesFinite, FS_CardinalityType
<1>2. Cardinality(analyses) \in Nat /\ Cardinality(analyses) <= A
  BY StoreConstants, TablesFinite, FS_CardinalityType, FS_Subset DEF SInv, Shapes
<1>3. ASSUME NEW S \in SUBSET recommendations
      PROVE  Cardinality(S) \in Nat /\ Cardinality(S) <= E
  <2>1. S \in SUBSET Pairs /\ IsFiniteSet(Pairs)
    BY TablesFinite DEF SInv, Shapes
  <2> QED BY <2>1, FS_Subset, FS_CardinalityType
<1>4. Cardinality(requests) \in Nat /\ Cardinality(requests) <= A + P
  BY RequestsCounted, FS_CardinalityType
<1>5. \A s : OfStatus(recommendations, s) \in SUBSET recommendations
  BY DEF OfStatus
<1>6. MostRows = E + A + P
  BY DEF MostRows, Pairs
<1> HIDE DEF A, P, E
<1>7. i \in 3..8 => CountOf(Counts[i]) \in Nat /\ CountOf(Counts[i]) <= E
  BY <1>3, <1>5, CountsOf
<1>8. i = 2 => CountOf(Counts[i]) \in Nat /\ CountOf(Counts[i]) <= E
  BY <1>3, CountsOf
<1>9. i = 1 => CountOf(Counts[i]) \in Nat /\ CountOf(Counts[i]) <= A
  BY <1>2, CountsOf
<1>10. i = 9 => CountOf(Counts[i]) \in Nat /\ CountOf(Counts[i]) <= A + P
  BY <1>4, CountsOf
<1>11. i \in 3..8 \/ i = 2 \/ i = 1 \/ i = 9
  OBVIOUS
<1> QED BY <1>1, <1>6, <1>7, <1>8, <1>9, <1>10, <1>11

\* A number is counted as it is at that moment.
LEMMA BoardKeeps ==
  ASSUME SInv, Stamped, BoardShape, AddingUp, ReadNext PROVE BoardShape' /\ AddingUp'
<1>0. UNCHANGED <<wipe, analyses, recommendations, requests>>
  BY OthersLeaveTheStore DEF storeVars, tables
<1>1. \A i : CountOf(i)' = CountOf(i)
  BY <1>0 DEF CountOf
<1>2. CASE UNCHANGED board
  BY <1>0, <1>1, <1>2 DEF BoardShape, AddingUp, Number, Undisturbed, MostRows
<1>3. CASE BoardBegins
  <2>1. board' = [counted |-> <<>>, started |-> TRUE, wiped |-> (wipe.pc = "done")]
    BY <1>3 DEF BoardBegins
  <2>2. board'.counted = <<>> /\ board'.wiped = (wipe.pc = "done")
        /\ board' = [x \in {"counted", "started", "wiped"} |-> board'[x]]
    BY <2>1
  <2>3. Len(board'.counted) = 0 /\ board'.counted \in Seq(Nat) /\ board'.wiped \in BOOLEAN
    BY <2>2
  <2> QED BY <1>0, <2>2, <2>3, CountsAre DEF BoardShape, AddingUp
<1>4. CASE BoardCounts
  <2>n. PICK n : n = Len(board.counted)
    OBVIOUS
  <2>1. n \in Nat /\ n <= 8
    <3>1. n \in Nat
      BY <2>n DEF BoardShape
    <3>2. n < 9
      BY <1>4, <2>n, CountsAre DEF BoardCounts
    <3> QED BY <3>1, <3>2
  <2> DEFINE next == CountOf(Counts[n + 1])
  <2>2. board' = [board EXCEPT !.counted = Append(@, next)]
    BY <1>4, <2>n DEF BoardCounts, BoardShape
  <2>3. next \in Nat /\ next <= MostRows
    <3>1. n + 1 \in 1..9
      BY <2>1
    <3>2. next \in 0..MostRows /\ MostRows \in Nat
      BY <3>1, CountsBounded
    <3> QED BY <3>2
  <2> HIDE DEF next
  <2>4. /\ board'.counted = Append(board.counted, next) /\ board'.wiped = board.wiped
        /\ board' = [x \in {"counted", "started", "wiped"} |-> board'[x]]
    BY <2>2 DEF BoardShape
  <2>5. /\ board'.counted \in Seq(Nat) /\ Len(board'.counted) = n + 1
        /\ board'.counted[n + 1] = next /\ \A i \in 1..n : board'.counted[i] = board.counted[i]
    BY <2>n, <2>3, <2>4 DEF BoardShape
  <2>6. BoardShape'
    <3>1. board'.wiped \in BOOLEAN /\ (board'.wiped => wipe'.pc = "done")
      BY <1>0, <2>4 DEF BoardShape
    <3>2. Len(board'.counted) <= Len(Counts)
      BY <2>1, <2>5, CountsAre
    <3>3. \A i \in 1..n + 1 : board'.counted[i] <= MostRows
      <4>1. ASSUME NEW i \in 1..n PROVE board'.counted[i] <= MostRows
        <5>1. board'.counted[i] = board.counted[i] /\ board.counted[i] <= MostRows
          BY <2>n, <2>5 DEF BoardShape
        <5> QED BY <5>1
      <4>2. board'.counted[n + 1] <= MostRows
        BY <2>3, <2>5
      <4>3. \A i \in 1..n + 1 : i \in 1..n \/ i = n + 1
        BY <2>1
      <4> QED BY <4>1, <4>2, <4>3
    <3>4. Len(board'.counted) = n + 1 /\ MostRows' = MostRows
      BY <2>5 DEF MostRows
    <3> QED BY <2>4, <2>5, <3>1, <3>2, <3>3, <3>4 DEF BoardShape
  <2>7. ASSUME Undisturbed(board)', n + 1 >= 2
        PROVE  board'.counted[2] <= Number(3)' + Number(4)' + Number(5)' + Number(6)' + Number(7)'
                                    + Number(8)'
    <3>1. ASSUME NEW i \in 3..8 PROVE Number(i)' = Number(i)
      <4>1. CASE i <= n
        BY <2>n, <2>1, <2>5, <4>1 DEF Number
      <4>2. CASE i = n + 1
        BY <2>n, <2>1, <2>5, <4>2 DEF Number, next
      <4>3. CASE i > n + 1
        BY <1>1, <2>n, <2>1, <2>5, <4>3 DEF Number
      <4> QED BY <2>1, <4>1, <4>2, <4>3
    <3>2. CASE n >= 2
      BY <1>0, <2>n, <2>1, <2>4, <2>5, <2>7, <3>1, <3>2 DEF AddingUp, Undisturbed
    <3>3. CASE n = 1
      <4>1. board'.counted[2] = Cardinality(recommendations)
        BY <2>5, <3>3, CountsOf DEF next
      <4>2. \A i \in 3..8 : Number(i) = Cardinality(OfStatus(recommendations, Counts[i]))
        BY <2>n, <3>3, CountsOf DEF Number
      <4> QED BY <3>1, <4>1, <4>2, StatusesCover
    <3> QED BY <2>1, <2>7, <3>2, <3>3
  <2> QED BY <2>5, <2>6, <2>7 DEF AddingUp
<1>5. CASE GetLoads \/ GetFindsRow \/ \E a \in Analyses : GetBegins(a)
  BY <1>2, <1>5 DEF GetLoads, GetFindsRow, GetBegins, Load
<1> QED BY <1>3, <1>4, <1>5 DEF ReadNext

\* A store that only grows can only add to what is still to be counted.
LEMMA StoreAddsUp ==
  ASSUME SInv, SInv', BoardShape, AddingUp, StoreNext, UNCHANGED board
  PROVE  BoardShape' /\ AddingUp'
<1>1. CASE WipeCommits /\ wipe.pc # "done" /\ wipe'.pc = "done"
  <2>1. board'.wiped = FALSE
    BY <1>1 DEF BoardShape
  <2> QED BY <1>1, <2>1 DEF BoardShape, AddingUp, Undisturbed, MostRows
<1>2. CASE (wipe'.pc = "done" <=> wipe.pc = "done") /\ recommendations \subseteq recommendations'
  <2>1. BoardShape' /\ (Undisturbed(board)' => Undisturbed(board))
    BY <1>2 DEF BoardShape, Undisturbed, MostRows
  <2>2. ASSUME NEW i \in 3..8
        PROVE  Number(i) \in Nat /\ Number(i)' \in Nat /\ Number(i) <= Number(i)'
    <3>1. CASE i <= Len(board.counted)
      BY <3>1 DEF Number, BoardShape
    <3>2. CASE ~(i <= Len(board.counted))
      <4> DEFINE s == Counts[i]
      <4>1. Number(i) = Cardinality(OfStatus(recommendations, s))
        BY <3>2, CountsOf DEF Number
      <4>2. Number(i)' = Cardinality(OfStatus(recommendations', s))
        <5>1. Number(i)' = CountOf(s)' /\ s \in RecommendationStatuses
          BY <3>2, CountsOf DEF Number
        <5>2. CountOf(s)' = Cardinality(OfStatus(recommendations', s))
          BY <5>1 DEF CountOf, OfStatus, RecommendationStatuses
        <5> QED BY <5>1, <5>2
      <4>3. /\ OfStatus(recommendations, s) \in SUBSET OfStatus(recommendations', s)
            /\ OfStatus(recommendations', s) \in SUBSET Pairs
        BY <1>2 DEF OfStatus, SInv, Shapes
      <4>4. IsFiniteSet(OfStatus(recommendations', s))
        BY <4>3, TablesFinite, FS_Subset
      <4> QED BY <4>1, <4>2, <4>3, <4>4, FS_Subset, FS_CardinalityType
    <3> QED BY <3>1, <3>2
  <2>3. Len(board.counted) >= 2 => board.counted[2] \in Nat
    BY DEF BoardShape
  <2>4. ASSUME Undisturbed(board)', Len(board.counted) >= 2
        PROVE  board.counted[2] <= Number(3)' + Number(4)' + Number(5)' + Number(6)' + Number(7)'
                                   + Number(8)'
    <3>1. board.counted[2] <= Number(3) + Number(4) + Number(5) + Number(6) + Number(7) + Number(8)
      BY <2>1, <2>4 DEF AddingUp
    <3>2. /\ Number(3) \in Nat /\ Number(3)' \in Nat /\ Number(3) <= Number(3)'
          /\ Number(4) \in Nat /\ Number(4)' \in Nat /\ Number(4) <= Number(4)'
          /\ Number(5) \in Nat /\ Number(5)' \in Nat /\ Number(5) <= Number(5)'
          /\ Number(6) \in Nat /\ Number(6)' \in Nat /\ Number(6) <= Number(6)'
          /\ Number(7) \in Nat /\ Number(7)' \in Nat /\ Number(7) <= Number(7)'
          /\ Number(8) \in Nat /\ Number(8)' \in Nat /\ Number(8) <= Number(8)'
      BY <2>2
    <3>3. board.counted[2] \in Nat
      BY <2>3, <2>4
    <3> QED BY <3>1, <3>2, <3>3
  <2> QED BY <2>1, <2>4 DEF AddingUp
<1> QED BY <1>1, <1>2, StoreGrows

LEMMA BoardHolds == Spec => [](BoardShape /\ AddingUp)
<1> DEFINE Held == BoardShape /\ AddingUp
<1>1. StoreSpecInit => Held
  <2> SUFFICES ASSUME ReadInit PROVE Held
    BY DEF StoreSpecInit
  <2>1. board = [counted |-> <<>>, started |-> FALSE, wiped |-> FALSE]
    BY DEF ReadInit
  <2>2. board.counted = <<>> /\ board.wiped = FALSE
        /\ board = [x \in {"counted", "started", "wiped"} |-> board[x]]
    BY <2>1
  <2>3. Len(board.counted) = 0 /\ board.counted \in Seq(Nat)
    BY <2>2
  <2>4. BoardShape
    <3>1. Len(board.counted) <= Len(Counts)
      BY <2>3, CountsAre
    <3>2. \A i \in 1..Len(board.counted) : board.counted[i] <= MostRows
      <4>1. 1..0 = {}
        OBVIOUS
      <4> QED BY <2>3, <4>1
    <3> QED BY <2>2, <2>3, <3>1, <3>2 DEF BoardShape
  <2>5. AddingUp
    BY <2>3 DEF AddingUp
  <2> QED BY <2>4, <2>5
<1>2. ASSUME SInv, SInv', Stamped, Held, [Next]_vars PROVE Held'
  <2>1. CASE StoreNext /\ UNCHANGED <<readVars, chat>>
    <3>1. UNCHANGED board
      BY <2>1 DEF readVars
    <3> QED BY <1>2, <2>1, <3>1, StoreAddsUp
  <2>2. CASE ReadNext
    BY <1>2, <2>2, BoardKeeps
  <2>3. CASE ChatNext \/ UNCHANGED vars
    <3>1. UNCHANGED <<wipe, analyses, recommendations, requests, board>>
      BY <2>3 DEF ChatNext, vars, storeVars, tables, readVars
    <3>2. BoardShape'
      BY <1>2, <3>1 DEF BoardShape, MostRows
    <3>3. \A i : Number(i)' = Number(i)
      BY <3>1 DEF Number, CountOf
    <3> QED BY <1>2, <3>1, <3>2, <3>3 DEF AddingUp, Undisturbed
  <2> QED BY <1>2, <2>1, <2>2, <2>3 DEF Next
<1> QED BY <1>1, <1>2, SInvHolds, StampsHold, PTL DEF Spec

\* The outcomes on the dashboard add up to at least the total, although each is counted
\* by a statement of its own, unless a reset commits meanwhile: the total is counted
\* before the outcomes, and the table only grows (dashboard_metrics).
THEOREM OutcomesAddUp == Spec => []DashboardAddsUp
<1>1. ASSUME BoardShape, AddingUp PROVE DashboardAddsUp
  BY <1>1, CountsAre DEF DashboardAddsUp, AddingUp, Number
<1> QED BY <1>1, BoardHolds, PTL

-----------------------------------------------------------------------------
(* The chat's answer *)

\* Fewer rows than there are come with the flag.
CutIsTold ==
  /\ ChatTypeOK /\ IsFiniteSet(chat.matched)
  /\ chat.rows < Cardinality(chat.matched) => chat.truncated

LEMMA ExecuteTells ==
  ASSUME SInv, ChatShape, CutIsTold, Execute(recommendations) PROVE CutIsTold'
<1> DEFINE limit == Limit(chat.query)
           n == Smaller(Cardinality(recommendations), limit)
           cut == Truncated(n, limit)
<1>1. /\ chat' = [chat EXCEPT !.pc = "executed", !.matched = recommendations, !.rows = n,
                              !.truncated = cut]
  BY DEF Execute
<1>2. limit \in 0..MaxRows
  <2>1. chat.query \in Queries \union {NoQuery}
    BY DEF CutIsTold, ChatTypeOK
  <2>2. chat.query.limit \in Nat \union {NoLimit}
    <3>1. CASE chat.query = NoQuery
      BY <3>1 DEF NoQuery
    <3>2. CASE chat.query \in Queries
      BY <3>2, ChatConstants DEF QueryShapes
    <3> QED BY <2>1, <3>1, <3>2
  <2> QED BY <2>2, ChatConstants DEF Limit, NoLimit
<1>3. IsFiniteSet(recommendations) /\ Cardinality(recommendations) \in Nat
  BY TablesFinite, FS_CardinalityType
<1> HIDE DEF limit
<1>4. /\ n \in 0..MaxRows /\ (n < Cardinality(recommendations) => n = limit)
  BY <1>2, <1>3, ChatConstants DEF Smaller
<1> HIDE DEF n
<1>5. cut \in BOOLEAN /\ (n = limit => cut)
  BY <1>2 DEF Truncated
<1> HIDE DEF cut
<1>6. /\ chat'.pc = "executed" /\ chat'.matched = recommendations /\ chat'.rows = n
      /\ chat'.truncated = cut /\ chat'.query = chat.query /\ chat'.error = chat.error
      /\ chat'.generator = chat.generator
  BY <1>1 DEF ChatShape
<1> QED BY <1>3, <1>4, <1>5, <1>6 DEF CutIsTold, ChatTypeOK, ChatPcs

LEMMA ChatTells == ASSUME SInv, ChatShape, CutIsTold, ChatNext PROVE CutIsTold'
<1> USE DEF CutIsTold, ChatTypeOK, ChatPcs, ChatShape
<1>1. ASSUME NEW fields, Answer(fields), fields[1] \in {"LLM", "REFUSED", "ROWS_ONLY"},
             fields[2] \in BOOLEAN
      PROVE  CutIsTold'
  BY <1>1 DEF Answer
<1>2. CASE Ask(llm)
  BY <1>2 DEF Ask
<1>3. CASE GenerateSql
  <2>1. ASSUME NEW q \in Queries, chat' = [chat EXCEPT !.pc = "generated", !.query = q]
        PROVE  CutIsTold'
    BY <2>1
  <2> QED BY <1>1, <1>3, <2>1 DEF GenerateSql
<1>4. CASE Validate
  BY <1>1, <1>4 DEF Validate
<1>5. CASE ExecuteFails \/ Phrase
  BY <1>1, <1>5 DEF ExecuteFails, Phrase
<1> QED BY <1>2, <1>3, <1>4, <1>5, ExecuteTells DEF ChatNext

LEMMA CutHolds == Spec => []CutIsTold
<1>1. StoreSpecInit => CutIsTold
  <2> SUFFICES ASSUME ChatInit PROVE CutIsTold
    BY DEF StoreSpecInit
  <2>1. /\ chat.pc = "idle" /\ chat.query = NoQuery /\ chat.matched = {} /\ chat.rows = 0
        /\ chat.truncated = FALSE /\ chat.generator = "LLM" /\ chat.error = FALSE
    BY DEF ChatInit
  <2>2. IsFiniteSet(chat.matched) /\ Cardinality(chat.matched) = 0 /\ ~(0 < 0)
    BY <2>1, FS_EmptySet
  <2>3. ChatTypeOK
    <3>1. chat.pc \in ChatPcs /\ chat.query \in Queries \union {NoQuery}
      BY <2>1 DEF ChatPcs
    <3>2. chat.rows \in 0..MaxRows
      BY <2>1, ChatConstants
    <3>3. /\ chat.truncated \in BOOLEAN /\ chat.error \in BOOLEAN
          /\ chat.generator \in {"LLM", "REFUSED", "ROWS_ONLY"}
      BY <2>1
    <3> QED BY <3>1, <3>2, <3>3 DEF ChatTypeOK
  <2> QED BY <2>1, <2>2, <2>3 DEF CutIsTold
<1>2. ASSUME SInv, ChatShape, CutIsTold, [Next]_vars PROVE CutIsTold'
  <2>1. CASE UNCHANGED chat
    BY <1>2, <2>1 DEF CutIsTold, ChatTypeOK
  <2> QED BY <1>2, <2>1, ChatTells DEF Next, vars
<1> QED BY <1>1, <1>2, SInvHolds, ReadersHold, PTL DEF Spec

\* A chat answer with fewer rows than the query matches says that it is truncated
\* (ChatService.ask and the read-only executor's row cap).
THEOREM CutAnswersSaySo == Spec => []TruncationIsTold
<1>1. CutIsTold => TruncationIsTold
  BY DEF CutIsTold, TruncationIsTold
<1> QED BY <1>1, CutHolds, PTL

-----------------------------------------------------------------------------
(* Types *)

\* The clock counts the transactions that have begun: one a run, one a call.
RunsBegun == {a \in Analyses : run[a].pc \notin {"deciding", "explained", "packed"}}
CallsBegun == {p \in Posters : post[p].pc # "idle"}
ClockCounts == clock = Cardinality(RunsBegun) + Cardinality(CallsBegun)
ConfigTyped == llm \in BOOLEAN /\ lateCommit \in BOOLEAN

LEMMA BegunFinite ==
  /\ IsFiniteSet(RunsBegun) /\ Cardinality(RunsBegun) \in Nat
  /\ Cardinality(RunsBegun) <= Cardinality(Analyses)
  /\ IsFiniteSet(CallsBegun) /\ Cardinality(CallsBegun) \in Nat
  /\ Cardinality(CallsBegun) <= Cardinality(Posters)
  /\ Cardinality(Analyses) \in Nat /\ Cardinality(Posters) \in Nat
<1>1. RunsBegun \in SUBSET Analyses /\ CallsBegun \in SUBSET Posters
  BY DEF RunsBegun, CallsBegun
<1> QED BY <1>1, StoreConstants, FS_Subset, FS_CardinalityType

LEMMA ClockStays == ASSUME SInv, ClockCounts, StoreNext PROVE ClockCounts'
<1> USE DEF SInv, Shapes, RunRecords, PostRecords
<1>1. ASSUME NEW a \in Analyses, RunStep(a) PROVE ClockCounts'
  <2>1. /\ \A b \in Analyses \ {a} : run'[b] = run[b]
        /\ UNCHANGED post
    BY <1>1, RunStepEffect
  <2>2. CallsBegun' = CallsBegun
    BY <2>1 DEF CallsBegun
  <2>3. CASE BeginPersist(a)
    <3>1. run[a].pc = "packed" /\ run'[a].pc = "writing" /\ clock' = clock + 1
      BY <2>3 DEF BeginPersist, RunTo
    <3>2. RunsBegun' = RunsBegun \union {a} /\ a \notin RunsBegun
      BY <2>1, <3>1 DEF RunsBegun
    <3>3. Cardinality(RunsBegun \union {a}) = Cardinality(RunsBegun) + 1
      BY <3>2, BegunFinite, FS_AddElement
    <3> QED BY <2>2, <3>1, <3>2, <3>3, BegunFinite DEF ClockCounts
  <2>4. CASE ~BeginPersist(a)
    <3>1. clock' = clock /\ (run'[a].pc \in {"deciding", "explained", "packed"}
                             <=> run[a].pc \in {"deciding", "explained", "packed"})
      <4>1. CASE Explain(a)
        <5>1. PICK by : RunTo(a, [run[a] EXCEPT !.pc = "explained", !.narrators = by,
                                                 !.generator = WholeGenerator(by)])
          BY <4>1 DEF Explain
        <5>2. run'[a].pc = "explained"
          BY <5>1 DEF RunTo
        <5> QED BY <4>1, <5>2 DEF Explain
      <4>2. CASE ExplainAbandoned(a)
        BY <4>2 DEF ExplainAbandoned, RunTo
      <4>3. CASE CommitPersist(a)
        BY <4>3 DEF CommitPersist, RunTo
      <4>4. CASE PersistRollsBack(a)
        BY <4>4 DEF PersistRollsBack, RunTo
      <4>5. CASE GeneratePayload(a)
        <5>1. PICK payload : RunTo(a, [run[a] EXCEPT !.pc = "packed", !.payload = payload])
          BY <4>5 DEF GeneratePayload
        <5>2. run'[a].pc = "packed"
          BY <5>1 DEF RunTo
        <5> QED BY <4>5, <5>2 DEF GeneratePayload
      <4>6. CASE PayloadFails(a)
        BY <4>6 DEF PayloadFails, RunTo
      <4> QED BY <1>1, <2>4, <4>1, <4>2, <4>3, <4>4, <4>5, <4>6 DEF RunStep
    <3>2. RunsBegun' = RunsBegun
      BY <2>1, <3>1 DEF RunsBegun
    <3> QED BY <2>2, <3>1, <3>2 DEF ClockCounts
  <2> QED BY <2>3, <2>4
<1>2. ASSUME NEW p \in Posters, PostStep(p) PROVE ClockCounts'
  <2>1. /\ UNCHANGED <<run, clock>> /\ \A q \in Posters \ {p} : post'[q] = post[q]
        /\ post[p].pc # "idle" /\ post'[p].pc # "idle"
    BY <1>2, PostStepEffect, PostKeeps
  <2>2. RunsBegun' = RunsBegun /\ CallsBegun' = CallsBegun
    BY <2>1 DEF RunsBegun, CallsBegun
  <2> QED BY <2>1, <2>2 DEF ClockCounts
<1>3. ASSUME NEW p \in Posters, NEW a \in Analyses, PostBegins(p, a) PROVE ClockCounts'
  <2>1. /\ UNCHANGED run /\ \A q \in Posters \ {p} : post'[q] = post[q]
    BY <1>3, PostStepEffect
  <2>2. post[p].pc = "idle" /\ post'[p].pc = "begun" /\ clock' = clock + 1
    BY <1>3, PostBeginning
  <2>3. RunsBegun' = RunsBegun /\ CallsBegun' = CallsBegun \union {p} /\ p \notin CallsBegun
    BY <2>1, <2>2 DEF RunsBegun, CallsBegun
  <2>4. Cardinality(CallsBegun \union {p}) = Cardinality(CallsBegun) + 1
    BY <2>3, BegunFinite, FS_AddElement
  <2> QED BY <2>2, <2>3, <2>4, BegunFinite DEF ClockCounts
<1>4. CASE WipeBegins \/ WipeStep
  <2>1. UNCHANGED <<run, post, clock>>
    BY <1>4 DEF WipeBegins, WipeStep, WipeDetails, WipeRequests, WipeRecommendations,
                WipeAnalyses, WipeCommits, WipeRollsBack
  <2> QED BY <2>1 DEF ClockCounts, RunsBegun, CallsBegun
<1> QED BY <1>1, <1>2, <1>3, <1>4 DEF StoreNext

LEMMA ClockHolds == Spec => [](ClockCounts /\ ConfigTyped)
<1> DEFINE Held == ClockCounts /\ ConfigTyped
<1>1. StoreSpecInit => Held
  <2> SUFFICES ASSUME Init PROVE Held
    BY DEF StoreSpecInit
  <2>1. RunsBegun = {} /\ CallsBegun = {} /\ clock = 0
    BY DEF Init, RunsBegun, CallsBegun
  <2> QED BY <2>1, FS_EmptySet DEF Init, ClockCounts, ConfigTyped
<1>2. ASSUME SInv, Held, [Next]_vars PROVE Held'
  <2>1. UNCHANGED config
    <3>1. ASSUME StoreNext PROVE UNCHANGED config
      BY <1>2, <3>1, RunStepEffect, PostStepEffect
      DEF StoreNext, WipeBegins, WipeStep, WipeDetails, WipeRequests, WipeRecommendations,
          WipeAnalyses, WipeCommits, WipeRollsBack
    <3>2. UNCHANGED storeVars => UNCHANGED config
      BY DEF storeVars
    <3> QED BY <1>2, <3>1, <3>2, OthersLeaveTheStore DEF Next
  <2>2. ConfigTyped'
    BY <1>2, <2>1 DEF config, ConfigTyped
  <2>3. CASE UNCHANGED storeVars
    <3>1. RunsBegun' = RunsBegun /\ CallsBegun' = CallsBegun /\ clock' = clock
      BY <2>3 DEF storeVars, RunsBegun, CallsBegun
    <3>2. Cardinality(RunsBegun') = Cardinality(RunsBegun)
          /\ Cardinality(CallsBegun') = Cardinality(CallsBegun)
      BY <3>1
    <3> QED BY <1>2, <2>2, <3>1, <3>2 DEF ClockCounts
  <2> QED BY <1>2, <2>2, <2>3, ClockStays, OthersLeaveTheStore DEF Next
<1> QED BY <1>1, <1>2, SInvHolds, PTL DEF Spec

\* Every variable keeps its type.  The clock, which the runs and the calls share, never
\* passes the number of transactions that can begin, and no number on the dashboard
\* the number of rows there can be.
THEOREM StoreTyped == Spec => []TypeOK
<1>1. ASSUME SInv, ClockCounts, ConfigTyped PROVE StoreTypeOK
  <2>1. clock \in 0..Cardinality(Analyses) + Cardinality(Posters)
    BY <1>1, BegunFinite DEF ClockCounts
  <2> QED BY <1>1, <2>1 DEF SInv, Shapes, StoreTypeOK, RunRecords, PostRecords, Pairs, ConfigTyped
<1>2. ASSUME SInv, Stamped, SeenStamped, GetTyped, BoardShape PROVE ReadTypeOK
  <2>1. {"idle", "row", "recommendations", "findings", "explanations", "requests", "done"}
          \subseteq {GetSteps[i] : i \in 1..7}
    <3>1. /\ GetSteps[1] = "idle" /\ GetSteps[2] = "row" /\ GetSteps[3] = "recommendations"
          /\ GetSteps[4] = "findings" /\ GetSteps[5] = "explanations"
          /\ GetSteps[6] = "requests" /\ GetSteps[7] = "done"
      BY DEF GetSteps
    <3> QED BY <3>1
  <2>2. get.pc \in GetPcs
    BY <1>2, <2>1 DEF GetTyped, GetPcs
  <2>3. board.counted \in Seq(0..MostRows)
    <3>1. \A i \in 1..Len(board.counted) : board.counted[i] \in 0..MostRows
      <4>1. MostRows \in Nat
        BY <1>2, CountsBounded
      <4> QED BY <1>2, <4>1 DEF BoardShape
    <3>2. board.counted \in Seq(Nat)
      BY <1>2 DEF BoardShape
    <3> DEFINE S == board.counted
    <3>3. S \in Seq(0..MostRows)
      <4> HIDE DEF S
      <4>1. S \in Seq(Nat) /\ \A i \in 1..Len(S) : S[i] \in 0..MostRows
        BY <3>1, <3>2 DEF S
      <4>2. S = [i \in 1..Len(S) |-> S[i]] /\ Len(S) \in Nat
        BY <4>1
      <4>3. S \in [1..Len(S) -> 0..MostRows]
        BY <4>1, <4>2
      <4> QED BY <4>2, <4>3, SeqDef
    <3> QED BY <3>3
  <2> QED BY <1>2, <2>2, <2>3 DEF ReadTypeOK, GetTyped, SeenStamped, BoardShape, Pairs
<1>3. CutIsTold => ChatTypeOK
  BY DEF CutIsTold
<1> QED BY <1>1, <1>2, <1>3, SInvHolds, StampsHold, UntornHolds, BoardHolds, ClockHolds, CutHolds,
           PTL DEF TypeOK

-----------------------------------------------------------------------------
(* The store implements the audit trail *)

\* A call's request is in the store only when its transaction has been committed.
OncePerCall ==
  \A r \in requests : r.by \in Posters => post[r.by].pc \in {"committed", "created"}

LEMMA OncePerCallStays == ASSUME SInv, OncePerCall, StoreNext PROVE OncePerCall'
<1>1. ASSUME NEW a \in Analyses, RunStep(a) PROVE OncePerCall'
  <2>1. UNCHANGED post /\ \A r \in requests' : r \in requests \/ r.by = "run"
    <3>1. \A r \in OwnRequest(a) : r.by = "run"
      BY DEF OwnRequest
    <3> QED BY <1>1, <3>1, RunStepEffect DEF CommitPersist, tables
  <2> QED BY <2>1, StoreConstants DEF OncePerCall
<1>2. ASSUME NEW p \in Posters, NEW a \in Analyses, PostBegins(p, a) PROVE OncePerCall'
  <2>1. /\ post[p].pc = "idle" /\ \A q \in Posters \ {p} : post'[q] = post[q]
        /\ requests' = requests
    BY <1>2, PostStepEffect DEF PostBegins, tables
  <2> QED BY <2>1 DEF OncePerCall
<1>3. ASSUME NEW p \in Posters, PostStep(p) PROVE OncePerCall'
  <2>1. \A q \in Posters \ {p} : post'[q] = post[q]
    BY <1>3, PostStepEffect
  <2>2. CASE PostCommits(p)
    <3>1. post'[p].pc \in {"committed", "created"} /\ RequestRow(p).by = p
      BY <2>2 DEF PostCommits, PostTo, RequestRow, SInv, Shapes, PostRecords
    <3>2. requests' = requests \union {RequestRow(p)}
      BY <2>2 DEF PostCommits
    <3> QED BY <2>1, <3>1, <3>2 DEF OncePerCall
  <2>3. CASE ~PostCommits(p)
    <3>1. requests' = requests
      BY <1>3, <2>3, PostStepEffect
    <3>2. post[p].pc \in {"committed", "created"} => post'[p].pc = "created"
      BY <1>3, <2>3 DEF PostStep, PostTo, PostFindsRow, PostReadsRows, PostInserts,
        PostAcknowledges, PostAnswers, PostIsLost, SInv, Shapes, PostRecords
    <3> QED BY <2>1, <3>1, <3>2 DEF OncePerCall
  <2> QED BY <2>2, <2>3
<1>4. CASE WipeBegins \/ WipeStep
  <2>1. UNCHANGED post /\ requests' \subseteq requests
    BY <1>4 DEF WipeBegins, WipeStep, WipeDetails, WipeRequests, WipeRecommendations,
                WipeAnalyses, WipeCommits, WipeRollsBack, tables
  <2> QED BY <2>1 DEF OncePerCall
<1> QED BY <1>1, <1>2, <1>3, <1>4 DEF StoreNext

\* The trail's view of what an analysis grants.
LEMMA GrantedIs == ASSUME NEW a \in Analyses PROVE Granted[a] = Requestable(RowsOf(a))
BY DEF Granted, RowsOf

\* What is to be found, analysis by analysis.
Entries == [a \in Analyses |-> Found(a)]

LEMMA FoundIs ==
  ASSUME SInv, NEW a \in Analyses
  PROVE  Found(a) = IF a \in analyses
                    THEN [status |-> "stored", decisions |-> RowsOf(a), findings |-> RowsOf(a),
                          explanations |-> Explained(a), asked |-> Asked(a)]
                    ELSE Trail!Nothing(Fate(a))
<1>1. a \notin analyses => Asked(a) = {}
  BY DEF SInv, RequestsAskWhatWasGranted, Asked
<1>2. a \in analyses => Fate(a) = "stored"
  BY DEF Fate
<1> QED BY <1>1, <1>2 DEF Found, SInv, WholeOrGone, Trail!Nothing

\* What a step that leaves an analysis and its run alone does not change.
LEMMA FoundStays ==
  ASSUME SInv, SInv', NEW a \in Analyses, a \in analyses' <=> a \in analyses,
         run'[a].pc = "answered" <=> run[a].pc = "answered",
         a \in analyses => run'[a].generator = run[a].generator, Asked(a)' = Asked(a)
  PROVE  Found(a)' = Found(a)
<1>1. Fate(a)' = Fate(a)
  BY DEF Fate
<1>2. a \in analyses => Explained(a)' = Explained(a)
  BY DEF Explained
<1> QED BY <1>1, <1>2 DEF Found, SInv, WholeOrGone

\* A run enters its analysis.
LEMMA CommitEnters ==
  ASSUME SInv, SInv', NEW a \in Analyses, CommitPersist(a),
         \A b \in Analyses \ {a} : run'[b] = run[b]
  PROVE  Found(a).status = "unwritten" /\ Entries' = [Entries EXCEPT ![a] = Found(a)']
         /\ \E told \in {{}, RowsOf(a)}, own \in Trail!OwnRequests(a) :
              Found(a)' = [status |-> "stored", decisions |-> RowsOf(a), findings |-> RowsOf(a),
                           explanations |-> told,
                           asked |-> own]
<1>1. /\ run[a].pc = "writing" /\ a \notin analyses
      /\ analyses' = analyses \union {a} /\ requests' = requests \union OwnRequest(a)
  BY DEF CommitPersist, SInv, StoredByRun
<1>2. Found(a).status = "unwritten"
  BY <1>1 DEF Found, Fate
<1>3. Asked(a)' \in Trail!OwnRequests(a)
  <2>1. \A r \in requests : r.analysis # a
    BY <1>1 DEF SInv, RequestsAskWhatWasGranted
  <2>2. {r \in requests' : r.analysis = a} = OwnRequest(a)
    BY <1>1, <2>1 DEF OwnRequest
  <2>3. Asked(a)' = {[by |-> r.by, items |-> r.items] : r \in OwnRequest(a)}
    BY <2>2 DEF Asked
  <2>4. CASE run[a].payload
    <3>1. Asked(a)' = {[by |-> "run", items |-> Requestable(RowsOf(a))]}
      BY <2>3, <2>4 DEF OwnRequest
    <3>2. RowsOf(a) # {}
      BY <2>4 DEF SInv, PayloadHasRows
    <3> QED BY <3>1, <3>2, GrantedIs DEF Trail!OwnRequests, Trail!Request, RowsOf
  <2>5. CASE ~run[a].payload
    BY <2>3, <2>5 DEF OwnRequest, Trail!OwnRequests
  <2> QED BY <2>4, <2>5
<1>4. Explained(a)' \in {{}, RowsOf(a)}
  BY DEF Explained
<1>5. Found(a)' = [status |-> "stored", decisions |-> RowsOf(a), findings |-> RowsOf(a),
                   explanations |-> Explained(a)', asked |-> Asked(a)']
  BY <1>1 DEF Found, Fate, SInv, WholeOrGone
<1>6. ASSUME NEW b \in Analyses \ {a} PROVE Found(b)' = Found(b)
  <2>1. \A r \in OwnRequest(a) : r.analysis # b
    BY DEF OwnRequest
  <2>2. Asked(b)' = Asked(b)
    BY <1>1, <2>1 DEF Asked
  <2> QED BY <1>1, <2>2, FoundStays
<1> QED BY <1>2, <1>3, <1>4, <1>5, <1>6 DEF Entries

\* A call's commit adds its request.
LEMMA CommitAsks ==
  ASSUME SInv, SInv', OncePerCall, NEW p \in Posters, PostCommits(p)
  PROVE  \E a \in Analyses :
           /\ Found(a).status = "stored"
           /\ \A b \in Analyses : \A r \in Found(b).asked : r.by # p
           /\ Entries' = [Entries EXCEPT ![a].asked =
                            @ \union {[by |-> p, items |-> Requestable(RowsOf(a))]}]
<1>0. PICK a \in Analyses : a = post[p].analysis
  BY DEF PostCommits, SInv, InMaking, Made
<1> DEFINE row == [by |-> p, items |-> Requestable(RowsOf(a))]
<1>1. /\ post[p].pc \in {"inserted", "acknowledged"} /\ requests' = requests \union {RequestRow(p)}
      /\ UNCHANGED <<run, analyses>>
  BY DEF PostCommits
<1>2. a \in analyses /\ post[p].items = Requestable(RowsOf(a))
  BY <1>0, <1>1 DEF SInv, InMaking, Made
<1>3. Found(a).status = "stored"
  BY <1>2 DEF Found, Fate
<1>4. ASSUME NEW b \in Analyses, NEW r \in Found(b).asked PROVE r.by # p
  <2>1. PICK q \in requests : r = [by |-> q.by, items |-> q.items]
    BY DEF Found, Asked
  <2> QED BY <1>1, <2>1 DEF OncePerCall
<1>5. Asked(a)' = Asked(a) \union {row}
  <2>1. {r \in requests' : r.analysis = a} = {r \in requests : r.analysis = a} \union {RequestRow(p)}
    BY <1>0, <1>1 DEF RequestRow
  <2>2. [by |-> RequestRow(p).by, items |-> RequestRow(p).items] = row
    BY <1>2 DEF RequestRow
  <2> QED BY <2>1, <2>2 DEF Asked
<1>6. ASSUME NEW b \in Analyses \ {a} PROVE Found(b)' = Found(b)
  <2>1. RequestRow(p).analysis # b
    BY <1>0 DEF RequestRow
  <2>2. {r \in requests' : r.analysis = b} = {r \in requests : r.analysis = b}
    BY <1>1, <2>1
  <2>3. Asked(b)' = Asked(b)
    BY <2>2 DEF Asked
  <2> QED BY <1>1, <2>3, FoundStays
<1>7. Found(a)' = [Found(a) EXCEPT !.asked = @ \union {row}]
  <2>1. Explained(a)' = Explained(a)
    BY <1>1 DEF Explained
  <2>2. Found(a)' = [status |-> "stored", decisions |-> RowsOf(a), findings |-> RowsOf(a),
                     explanations |-> Explained(a), asked |-> Asked(a) \union {row}]
    BY <1>1, <1>2, <1>5, <2>1 DEF Found, Fate, SInv, WholeOrGone
  <2>3. Found(a) = [status |-> "stored", decisions |-> RowsOf(a), findings |-> RowsOf(a),
                    explanations |-> Explained(a), asked |-> Asked(a)]
    BY <1>2, FoundIs
  <2> HIDE DEF row
  <2> QED BY <2>2, <2>3
<1> HIDE DEF row
<1>8. Entries' = [Entries EXCEPT ![a].asked = @ \union {row}]
  BY <1>6, <1>7 DEF Entries
<1> QED BY <1>2, <1>3, <1>4, <1>8 DEF row

\* A reset that commits takes out the analyses it has marked.
LEMMA CommitDeletes ==
  ASSUME SInv, SInv', WipeCommits
  PROVE  LET A == wipe.gone.analyses
         IN /\ A \in SUBSET Analyses /\ \A a \in A : Found(a).status = "stored"
            /\ Entries' = [a \in Analyses |-> IF a \in A THEN Trail!Nothing("deleted")
                                              ELSE Entries[a]]
<1> DEFINE A == wipe.gone.analyses
<1>1. /\ wipe.pc = "commit" /\ analyses' = analyses \ A /\ UNCHANGED run
      /\ requests' = {r \in requests \ wipe.gone.requests : r.analysis \in analyses'}
  BY DEF WipeCommits
<1>2. A \subseteq analyses /\ analyses \subseteq Analyses
  BY DEF SInv, GoneTogether, Shapes
<1>3. \A a \in A : Found(a).status = "stored"
  BY <1>2 DEF Found, Fate
<1>4. ASSUME NEW a \in A PROVE Found(a)' = Trail!Nothing("deleted")
  <2>1. a \in Analyses /\ a \notin analyses' /\ run'[a].pc = "answered"
    BY <1>1, <1>2 DEF SInv, StoredByRun
  <2>2. Asked(a)' = {} /\ Fate(a)' = "deleted"
    BY <2>1 DEF Asked, Fate, SInv, RequestsAskWhatWasGranted
  <2> QED BY <2>1, <2>2 DEF Found, SInv, WholeOrGone, Trail!Nothing
<1>5. ASSUME NEW a \in Analyses \ A PROVE Found(a)' = Found(a)
  <2>1. \A r \in requests : r.analysis = a => r \in requests'
    BY <1>1 DEF SInv, GoneTogether, RequestsAskWhatWasGranted
  <2>2. {r \in requests' : r.analysis = a} = {r \in requests : r.analysis = a}
    BY <1>1, <2>1
  <2>3. Asked(a)' = Asked(a)
    BY <2>2 DEF Asked
  <2> QED BY <1>1, <2>3, FoundStays
<1> QED BY <1>2, <1>3, <1>4, <1>5 DEF Entries

\* Every step of a writer is a step of the trail, or does not show.
LEMMA StoreRefines ==
  ASSUME SInv, SInv', OncePerCall, StoreNext
  PROVE  Trail!Next \/ Entries' = Entries
<1> USE DEF Trail!Next, Trail!Request, Entries
<1>s. ASSUME UNCHANGED tables,
             \A a \in Analyses : /\ run'[a].pc = "answered" <=> run[a].pc = "answered"
                                 /\ a \in analyses => run'[a] = run[a]
      PROVE  Entries' = Entries
  <2>1. \A a \in Analyses : Asked(a)' = Asked(a)
    BY <1>s DEF tables, Asked
  <2> QED BY <1>s, <2>1, FoundStays DEF tables
<1>1. ASSUME NEW a \in Analyses, RunStep(a) PROVE Trail!Next \/ Entries' = Entries
  <2>1. /\ \A b \in Analyses \ {a} : run'[b] = run[b]
        /\ run[a].pc # "answered" /\ a \notin analyses
    BY <1>1, RunStepEffect
  <2>2. CASE CommitPersist(a)
    <3>1. Trail!Enter(a)
      <4>1. PICK told \in {{}, RowsOf(a)}, own \in Trail!OwnRequests(a) :
              Found(a)' = [status |-> "stored", decisions |-> RowsOf(a), findings |-> RowsOf(a),
                           explanations |-> told, asked |-> own]
        BY <2>1, <2>2, CommitEnters
      <4>2. Found(a).status = "unwritten" /\ Entries' = [Entries EXCEPT ![a] = Found(a)']
        BY <2>1, <2>2, CommitEnters
      <4> QED BY <4>1, <4>2, Zenon DEF Trail!Enter, RowsOf, Entries
    <3> QED BY <3>1
  <2>3. CASE ~CommitPersist(a)
    <3>1. UNCHANGED tables
      BY <1>1, <2>3, RunStepEffect
    <3>2. run'[a].pc # "answered"
      <4>1. run \in [Analyses -> RunRecords]
        BY DEF SInv, Shapes
      <4>2. CASE Explain(a)
        <5>1. PICK by : RunTo(a, [run[a] EXCEPT !.pc = "explained", !.narrators = by,
                                                !.generator = WholeGenerator(by)])
          BY <4>2 DEF Explain
        <5> QED BY <4>1, <5>1 DEF RunTo, RunRecords
      <4>3. CASE ExplainAbandoned(a) \/ PayloadFails(a) \/ BeginPersist(a) \/ PersistRollsBack(a)
        BY <4>1, <4>3 DEF ExplainAbandoned, PayloadFails, BeginPersist, PersistRollsBack, RunTo,
          RunRecords
      <4>4. CASE GeneratePayload(a)
        <5>1. PICK payload : RunTo(a, [run[a] EXCEPT !.pc = "packed", !.payload = payload])
          BY <4>4 DEF GeneratePayload
        <5> QED BY <4>1, <5>1 DEF RunTo, RunRecords
      <4> QED BY <1>1, <2>3, <4>2, <4>3, <4>4 DEF RunStep
    <3> QED BY <1>s, <2>1, <3>1, <3>2
  <2> QED BY <2>2, <2>3
<1>2. ASSUME NEW p \in Posters, PostStep(p) \/ \E a \in Analyses : PostBegins(p, a)
      PROVE  Trail!Next \/ Entries' = Entries
  <2>1. CASE PostCommits(p)
    <3>1. PICK a \in Analyses :
            /\ Found(a).status = "stored"
            /\ \A b \in Analyses : \A r \in Found(b).asked : r.by # p
            /\ Entries' = [Entries EXCEPT ![a].asked =
                             @ \union {[by |-> p, items |-> Requestable(RowsOf(a))]}]
      BY <2>1, CommitAsks
    <3>2. Trail!AskAgain(a, p)
      BY <3>1, GrantedIs DEF Trail!AskAgain
    <3> QED BY <3>2
  <2>2. CASE ~PostCommits(p)
    <3>1. UNCHANGED <<run, tables>>
      BY <1>2, <2>2, PostStepEffect DEF tables
    <3> QED BY <1>s, <3>1
  <2> QED BY <2>1, <2>2
<1>3. CASE WipeCommits
  <2> DEFINE A == wipe.gone.analyses
  <2>1. A \in SUBSET Analyses /\ Trail!Delete(A)
    BY <1>3, CommitDeletes DEF Trail!Delete
  <2> QED BY <2>1
<1>4. CASE (WipeBegins \/ WipeStep) /\ ~WipeCommits
  <2>1. UNCHANGED <<run, tables>>
    BY <1>4 DEF WipeBegins, WipeStep, WipeDetails, WipeRequests, WipeRecommendations,
                WipeAnalyses, WipeRollsBack
  <2> QED BY <1>s, <2>1
<1> QED BY <1>1, <1>2, <1>3, <1>4 DEF StoreNext

\* For any number of runs, calls and readers: what is to be found of an analysis is
\* nothing, then all of it at once, then the same with requests added, one a call, and
\* after a reset nothing, for good (persist, create_access_request, purge_analyses).
THEOREM StoreImplementsTrail == Spec => ImplementsTrail
<1>1. StoreSpecInit => Trail!Init /\ OncePerCall
  <2> SUFFICES ASSUME Init PROVE Trail!Init /\ OncePerCall
    BY DEF StoreSpecInit
  <2>1. ASSUME NEW a \in Analyses PROVE Found(a) = Trail!Nothing("unwritten")
    <3>1. a \notin analyses /\ run[a].pc # "answered" /\ Asked(a) = {}
      BY DEF Init, Asked
    <3> QED BY <3>1 DEF Init, Found, Fate, Trail!Nothing
  <2> QED BY <2>1 DEF Trail!Init, OncePerCall, Init
<1>2. SInv /\ OncePerCall /\ [Next]_vars => OncePerCall'
  <2>1. UNCHANGED storeVars /\ OncePerCall => OncePerCall'
    BY DEF storeVars, tables, OncePerCall
  <2> QED BY <2>1, OncePerCallStays, OthersLeaveTheStore DEF Next
<1>3. SInv /\ SInv' /\ OncePerCall /\ [Next]_vars => [Trail!Next]_[a \in Analyses |-> Found(a)]
  <2> SUFFICES ASSUME SInv, SInv', OncePerCall, [Next]_vars PROVE Trail!Next \/ Entries' = Entries
    BY DEF Entries
  <2>1. CASE UNCHANGED storeVars
    <3>1. \A a \in Analyses : Found(a)' = Found(a)
      BY <2>1 DEF storeVars, tables, Found, Fate, Asked
    <3> QED BY <3>1 DEF Entries
  <2> QED BY <2>1, StoreRefines, OthersLeaveTheStore DEF Next
<1> QED BY <1>1, <1>2, <1>3, SInvHolds, PTL DEF Spec, ImplementsTrail, Trail!Spec
=============================================================================
