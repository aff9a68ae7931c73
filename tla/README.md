# Formal model of the access recommendation engine

TLA+ modules, TLC configurations and TLAPS proofs for the engine in `app/` and
the scripts that feed it: what it promises about the access it recommends for a
joiner and about the audit trail it keeps, and how the code keeps (or does not
keep) that promise when steps fail, data change and processes die.

`PROJECT.json` maps every definition to the lines it models, and lists runs,
mutants, findings, hazards and theorems.

## The system

A *joiner* is a new employee. `run_analysis(employee_id)` walks eleven steps in
a fixed order and stores one *analysis*: which entitlements comparable
colleagues hold, how risky each is, what the policies and the
segregation-of-duties (SoD) rules say, and one decision per candidate. Granted
entitlements go into a (simulated) SailPoint request.

| Component | State it keeps | Operations | Talks to | Hard behaviour |
|---|---|---|---|---|
| Governance kernel: `services/{risk,policy,sod,decision,sailpoint}_service.py`, `domain/` | none | classify a score, aggregate matches, find conflicts, decide, filter | called by the tools and by the decision node | precedence; missing inputs |
| Policy engine: `domain/rules/policy_rules.py`, `policy_service.py` | `policies` rows | parse, evaluate, fail closed, aggregate | database | free JSON parameters, rows that do not parse |
| Peers and affinity: `peer_service.py`, `affinity_service.py`, `employee_repo.py` | none | relax strategies, count holders, compare with the threshold | database | rounding, an inclusive bound, stale peer ids |
| Analysis workflow: `agents/graph.py`, `agents/state.py`, `agents/nodes/` | one `AccessRecommendationState` per run | eleven nodes, the fatal and the forgiving failure policy | MCP bridge, persistence | partial failure, interleaving, crash |
| MCP bridge: `agents/mcp_bridge.py` | loop thread, client session, call log | connect, call, time out, close | MCP server | abandoned calls, teardown that raises |
| MCP server and tools: `mcp/` | none | eleven tools, each in a database session of its own | services | data that change between two tools |
| Audit store: `db/models/analysis.py`, `analysis_repo.py`, `db/session.py` | analyses, recommendations, findings, explanations, SailPoint requests | one write transaction; `get`; `dashboard_metrics`; `--reset` | database | lost acknowledgement, foreign keys, several statements under READ COMMITTED |
| Access requests: `api/routes/access_requests.py` | SailPoint request rows | generate again from stored decisions | audit store | decisions that go meanwhile; answer before or after the commit |
| Explanations, LLM: `explanation_service.py`, `llm_service.py` | none | template or model text | LLM endpoint | a model that fails for some decisions only |
| Chat: `chat_service.py`, `sql_guard.py`, `readonly_query.py` | none | question to SQL, guard, read-only query, prose | LLM, database | refusals, row cap |
| Seed loader: `scripts/convert_client_csv.py`, `scripts/seed_database.py`, `docker/entrypoint.sh` | `seed/*.json`, reference tables | convert, upsert, purge | files, database | a conversion that dies half way, re-seeding, dependency order |
| REST API, configuration, logging, migrations, deployment | settings | mapping and packaging | all | - |

Concurrency comes from API requests served by different threads (several runs
may be in flight, also for the same joiner), from the event loop thread that
each run has of its own, and from other writers of the same database: the
scripts, and whoever maintains the reference tables. The steps of one run share
nothing but the state record, and each tool call opens a database session of
its own, so no run sees a snapshot of the reference data. The database works
at READ COMMITTED, so a reader of several tables sees no snapshot either.

What makes each component correct:

- *kernel, policy engine*: what is granted meets every control; a control that
  cannot be evaluated withholds; no match masks a worse one; adding a control
  never opens anything.
- *workflow*: nothing asked for completes a toxic pair; every failure is on
  record; a run with an unevaluated control never passes for complete; every
  run ends.
- *peers and affinity*: only active colleagues shape a request; the threshold
  decides as the unrounded ratio would.
- *bridge*: every call gets the answer to that call or an error; a failure keeps
  its status; closing frees thread and session; a session ends whatever the
  tools do.
- *audit store*: one entry per run, all or nothing, never rewritten, and an
  answer other than FAILED is the status of an entry that exists; what is read
  back is what was written.
- *access requests*: what is stored asks for what the analysis granted; what
  the client was told of is stored.
- *explanations, chat*: who wrote a text is told truthfully; no row is dropped
  silently.
- *seed loader*: a load is complete, closed under its references and fails
  safe where an extract says nothing.

## Modules

| Module | Models | State |
|---|---|---|
| `GovernanceKernel` | the stateless decision functions | - |
| `PolicyEngine` | the engine's answer over rows, holdings and proposals that change | `profile`, `enabled`, `rulesOn`, `held`, `requested` |
| `PeerAffinity` | peer selection, affinity, threshold | - |
| `AnalysisLedger` | abstract: what callers of `run_analysis` and readers of the store may rely on | `entry`, `answer` |
| `AnalysisWorkflow` | `run_analysis`, all eleven nodes, persistence, access requests, crashes, edits of the reference data; extends `GovernanceKernel` and `PeerAffinity`, instantiates `AnalysisLedger` | `state` (one record per run), `book` (the rows), `catalog`, `active`, `holds`, `held`, `rules`, and two counters that bound faults and edits |
| `ToolSession` | abstract: what a node may rely on when it calls a tool | `asked`, `served`, `answer`, `over` |
| `McpBridge` | one tool session: the run's thread, the loop thread, the coroutines submitted to it, the handlers; instantiates `ToolSession` | `pc`, `mode`, `inline`, `loop`, `session`, `task`, `calls`, `served`, `answer`, `raised` |
| `Explanations` | who writes a narrative and what is reported of it | - |
| `AuditStore` | the writers of the audit tables, statement by statement: runs, `POST /access-requests`, `--reset`; extends `Explanations`, instantiates `AuditTrail` | `run`, `post`, `wipe`, five tables, `clock`, two settings |
| `AuditTrail` | abstract: what whoever looks into the audit trail may rely on | `trail` |
| `AuditReads` | `GET /analyses/{id}` and `GET /dashboard`, statement by statement; extends `AuditStore` | `get`, `board` |
| `ChatQuery` | the stages of `POST /chat` | `chat` |
| `GovernanceStore` | composes `AuditReads` and `ChatQuery` over the same tables | - |
| `ReferenceData` | abstract: what readers of the reference tables may rely on | `tables`, `last` |
| `SeedLoad` | the conversion of the extracts and the load into the reference tables; instantiates `ReferenceData` | `files`, `converter`, `seeder`, `db`, `work`, `loaded`, and three counters that bound conversions, loads and switches |
| `AnalysisWorkflow_proofs`, `ToxicPairs_proofs`, `AuditRecords_proofs`, `AnalysisLedger_proofs` | theorems about the workflow, each module on top of the one before it | - |
| `PolicyEngine_proofs`, `McpBridge_proofs`, `GovernanceStore_proofs`, `SeedLoad_proofs` | theorems about these modules | - |
| `MCPolicyEngine`, `MCAnalysisWorkflow`, `MCGovernanceStore`, `MCSeedLoad` | values of the constants for TLC (`McpBridge` needs none) | - |

### The workflow

A run's `pc` is the node it is about to execute (`connect` is the opening of
the tool session, `END` the end of the graph). A node is one action: it makes
at most one tool call, which reads the database in one session, and what it
writes is only the run's own state, so nothing can come between the parts of a
node that another actor could see. `Continue` is a node that returns its
update, `FailStep` the wrapper in `_common.py` that notes a failure and goes
on, `Raise` the fatal first node (or no session). `NodeFails` covers every way
a tool call fails: the tool raises, the client times out, the answer does not
parse. `EvaluateRisk` also fails on its own when a candidate has left the
catalogue, and `PersistRejected` when the foreign key does. The two remaining
outcomes of the transaction are `PersistFails` (nothing written) and
`PersistAckLost` (written, but the node sees an exception). `CloseRaises` is
the teardown of the session that fails after the graph has ended; it is allowed
whenever a step of the run has failed, which is wider than what `McpBridge`
shows: there it takes a call that timed out *and* still occupies the loop
thread (`JoinTimesOut`).

`rulesSeen` and `heldSeen` in a run's record remember what `check_sod` read; no
action reads them, they are there to state the property.

`PolicyEngine` has no process of its own in the code: the engine answers, and
keeps nothing. Its actions move from one configuration of the tables to a
neighbouring one, so that an action property can relate two answers of the
engine. `AnalysisWorkflow` does not compose with it directly: a policy answer
there is any verdict from `PolicyOutcomes`, which contains all that matter to
what follows and does not depend on which row produced it. `PolicyEngine`'s
`TypeOK` shows that the engine's verdicts are of that type.

### The bridge

`task[t]` is a coroutine handed to the loop: 0 is the handshake, the last one
leaves the client's session, the others are calls. The run's thread only waits,
with a time limit; `GiveUp` is both the limit and a coroutine that failed, and
it leaves `task` alone, because nothing cancels what was submitted. `served` is
the handler on the other side, which finishes or not on its own; where the
library runs handlers on the loop thread (`inline`, which it may only when the
server is in the same process) a handler that works keeps the loop from
everything else. Whether it does so depends on the version of the library, so
both are possible. `stdio` behaves as `http` in this model. In `direct` mode
there is no loop and no time limit. The nodes are reduced to the two things the
bridge can tell apart: the first call, whose failure ends the run, and the
others. Opening the session (`Connect`) starts the loop's thread first and builds
the client next, outside the `try` that would stop the thread again:
`TransportFails` is every way in which that can fail, a mode the bridge does not
know as well as an import or an address that a known mode cannot use.

### The store

`AuditStore` takes the rows of `AnalysisWorkflow`'s `book` apart into tables,
and the one action that writes them into statements where somebody else could
come in between. A run's transaction is one step (`CommitPersist`): nobody sees
its rows before the commit and it reads nothing. A request's transaction is one
step per statement, since each sees what is committed at that moment. The
foreign key from a request to its analysis is what orders a request against a
reset: `PostInserts` waits for, or fails after, a reset that has deleted the
row, and `WipeAnalyses` waits for a request that holds it. `gone` is what the
statements of the reset have deleted so far, unseen until `WipeCommits`, which
also cascades to rows stored since. What a run decided is a constant here
(`Verdict`); that a run decides well is `AnalysisWorkflow`'s question. Of the
run's steps the two that shape its rows are kept, each with its failure, since
neither ends the run: `Explain` and `ExplainAbandoned`, after which there are no
explanations to write, and `GeneratePayload` and `PayloadFails`, after which the
decisions are stored with no request row. `WholeOrGone` says that the tables hold
what the run had to write, whichever of these it was, or nothing;
`ReadBackIsWhole` that a payload the run had is found again, and that a payload
shown, the run's or a later call's, asks for exactly what was granted.
`lateCommit` is the framework's choice, made by its version, to end a
dependency after the response: then 201 is sent before the commit.
`post[p].after` remembers what the client knew when it made the call and is
there to state a property only.

`AuditTrail` knows no tables: `trail[a]` is all that is to be found of an
analysis, nothing, the entry, or nothing again after a reset. An analysis may be
entered without explanations and without a request of its own (`OwnRequests`). `Found` is the
mapping: the rows of all five tables that belong to `a`. The time stamps are
left out of it (they say which request is shown, which is the reader's
question), and so is what the client is told (`AcknowledgedIsStored`).

A reader is a record of what its statements have returned so far. `wiped` says
whether a reset had been committed when it began; `Undisturbed` readers are
those that no reset was committed beneath.

`ChatQuery` reduces SQL to what `validate` tells apart (number of statements,
SELECT or not, forbidden words, tables, limit); the query itself is one
statement, hence one state of the store.

### The seed loader

`files[f]` is the extract that `seed/f.json` was written from, or `torn` while
`write_text` is between truncating and filling it. `convert_client_csv.py`
writes one file after the other, so a death leaves a mixture. A load reads the
six files in one step, builds its batches from them and writes five tables in a
transaction, one statement per step; `work` is what the transaction sees and
`db` what was committed. `ReferenceData` sees `db` and `loaded` only, and knows a
load as one function from tables to tables (`LoadedInto`). `Trouble` is what makes a statement fail: a key twice
in one batch, a reference to nowhere; a row that cannot be built fails before.

### Abstractions

Entitlement ids, peers and runs are model values; names, reasons, traces,
wording of narratives, severities and wall-clock time are left out; a list
whose order nothing depends on is a set. The entitlements a policy row lists are
their set and the length of the list, which is what the engine's schema checks: a
list that names one entitlement twice is long enough. `Aggregate` folds a set of
matches because `worst_status` asks of its list only which statuses occur in it;
that the order does not matter is therefore by construction, and not claimed. In `AnalysisWorkflow` risk scores do
not change (`SeedLoad` changes them, between loads), the loss of a peer's or
the joiner's own employee row is not modelled, and a SailPoint request row
replaces the one before it in `book`, since only the latest is read back
(`AuditStore` keeps them all). The affinity threshold is a multiple of 0.01, as
is the score it is compared with. Settings are assumptions: the bands ordered
as `Settings._validate_risk_bands` demands, and `sailpoint_included_statuses`
within the requestable statuses. The code accepts other statuses there: a
deployment could list a withheld one, and asks for withheld access then.

Deletion of a catalogue row (`RetireEntitlement`) and of other reference data
is not in the service; it is what an administrator can do to the database, with
the cascades the schema declares. `--purge-all` deletes the audit trail as
`--reset` does; `SeedLoad` models what it does to the reference tables.

## What TLC checks

| Run | Instance and bounds | Shows |
|---|---|---|
| `policy_engine` | 3 entitlements (LOW, HIGH, CRITICAL), 9 policy rows (one of each of the six types, a second threshold, an exclusion that lists one entitlement twice, one row that does not parse), at most 2 enabled (`MaxEnabled`), 2 SoD rules, 2 identities | types; a broken row withholds everything; exclusives and toxic pairs are not granted against proposed *and* held access; what AUTO_APPROVED means in terms of the raw rows; tightening never opens |
| `workflow_single` | 1 run, 3 peers (the strategy search falls back once, or twice as peers leave), 3 entitlements, 2 SoD rules, `MaxFaults` 2, `MaxEdits` 2 | types; no toxic pair asked for; an unchecked grant is flagged; failures on record; candidates accounted for; stored rows stay |
| `workflow_pair` | 2 runs, 1 peer, 2 entitlements, `MaxFaults` 1, `MaxEdits` 1, under fairness | implements `AnalysisLedger`; every run ends |
| `bridge` | 3 calls, modes inmemory, http, direct and an unknown one, a tool that answers, fails with a code or crashes, under fairness | implements `ToolSession`; nothing is left behind but for three named exceptions; the first failure keeps its status; every session ends |
| `audit_store` | 1 analysis with a grant, a conflict and an absent entitlement, 2 access requests (symmetric), 1 reset, 1 reader at a time (analysis, dashboard or chat), explanation and payload steps that may fail, `MaxRows` 1 and queries with a limit above and below it | whole or gone; requests ask for what was granted; acknowledged is stored; what readers may rely on; the chat's truncation; narrators; implements `AuditTrail` |
| `seed_load` | 3 extracts made to disagree, 1 conversion that may die anywhere, 3 loads, 2 switches of controls | implements `ReferenceData`; no dangling reference; a load that succeeded is there entirely; missing scores fail closed; joiners are no peers; what a plain load and `--purge-all` leave |
| `denial_is_final`, `unreadable_level`, `unevaluated_control`, `unchecked_sod_pass`, `missing_risk`, `leavers` | as above, smaller | a statement of the documents or comments that the code does not keep (below) |

Why the bounds are enough.

- *Policy engine.* A verdict is folded from single matches and decided by the
  worst one, so two rows already show every masking one row can do to another;
  the pairs of statuses and tiers the six types can produce all occur. A toxic
  rule has two sides, and each of the cases both proposed, one held, both held
  occurs.
- *Workflow.* Runs share only the reference data, which no run writes, so one
  run with edits meets every interference there is; two faults show a failure
  on top of a failure (say a failed control and a lost acknowledgement). Two
  runs are needed where the question is about crashes taking several runs with
  them and about answers and entries not being mixed up.
- *Bridge.* Three calls are the fatal first one, an abandoned one, and one that
  is made while the abandoned one is still being served. Calls are made one at
  a time, so a fourth meets nothing new; the proofs cover any number.
- *Store.* Analyses do not refer to each other, so one meets every interference
  with the reset; a second request is needed because the latest one is shown.
  Readers do not see each other, so one at a time is enough. That entries of
  several analyses are not mixed up is left to the proofs.
- *Seed loader.* The second load meets what the first one left, and a third one
  meets a mixture; the extracts contain a joiner who was an identity, a manager
  known to one of them, a vanished score, a name described nowhere, a blank
  score and a holding listed twice.

Edits, faults, conversions, loads and switches are counted only to keep the
state spaces finite. `CHECK_DEADLOCK FALSE` is set where the system stops when
all runs, sessions, requests or scripts have ended and the bounds are used up:
the workflow runs, `bridge`, `audit_store`, `seed_load`. `policy_engine` checks
deadlock. Each property of a passing run has a mutant of the code model that
breaks it (`PROJECT.json`, "mutants"), each a slip the code could plausibly
contain. `audit_store` is the largest run (2.6 million states, about three
minutes).

### Fairness

Workflow: weak fairness of each started run's next step, and nothing else:
edits, crashes and faults need not happen, and no run has to be started. The
code justifies it: the graph is executed by the thread serving the request,
each node goes on whatever happens in it, and a tool call ends at the latest
when the bridge's `future.result(timeout=...)` gives up. In direct mode there
is no such timeout and the database is assumed to answer; so it is for the
persist transaction in every mode.

Bridge: weak fairness of the run's own thread (`CallerStep`), which waits
nowhere without a limit, and of `LoopStops`, an event loop that was told to
stop and is not kept from it. No handler has to finish and no response has to
arrive. `SessionEnds` leaves `direct` mode out, where a handler that hangs
hangs the run. No liveness is claimed for the store, where a transaction may
wait for another one's locks as long as that takes, nor for the scripts.

### Where the code and its documents disagree

- `denial_is_final`: an SoD conflict outranks a policy DENY, so what policy
  denies "not overridable by an approver" goes to a reviewer.
- `unreadable_level`: a minimum level that cannot be read ranks 0, and so does
  an identity's; the identity passes the check it should fail.
- `unevaluated_control`: a policy or SoD *step* that fails does not lead to
  HUMAN_REVIEW but to a grant. `UncheckedGrantIsFlagged` is what does hold: the
  analysis is then COMPLETED_WITH_WARNINGS or FAILED.
- `unchecked_sod_pass`: after a failed SoD step the stored decisions still say
  `sod_status = PASS`.
- `missing_risk`: "should not happen" happens when the risk step fails;
  `CandidatesAccounted` shows that the damage is all or nothing.
- `leavers`: peer ids are not checked again for ACTIVE when affinity is
  computed.

Others are visible in the models as named exceptions of a property that holds,
and have no run of their own:

- `run_analysis` may report an error for an analysis that was stored, when
  closing the tool session raises (`CloseRaises`); `AnalysisLedger.AnswerError`
  therefore promises nothing of the entry. In `McpBridge` it takes an abandoned
  handler on the loop thread, and the caller sees 500 where the timeout alone
  would have been 502 (`FailureKeepsItsStatus`).
- A client that cannot be built (a mode the bridge does not know, a package that
  cannot be imported, an address that is none) is refused after its loop thread
  has been started, and the thread stays (`TransportFails`,
  `NothingLeftBehind`).
- An analysis is stored with grants and without a request for them when the
  payload step failed; reading it back shows no payload until somebody posts an
  access request (`WholeOrGone`, `ReadBackIsWhole`).
- `truncated` is documented as "the row cap was reached and rows were dropped"
  (`schemas/api.py:209`) and is also set when exactly that many rows exist.
- The generator of an analysis read back is that of its first narrative, the
  answer to the run names the weakest of all; `FallbackIsVisible` is about the
  latter.
- On framework versions that end dependencies late, a request is acknowledged
  before it is committed (`AcknowledgedIsStored`).
- A read that a reset is committed into may come back torn (`ReadBackIsWhole`,
  `DashboardAddsUp`); `NothingAskedForUnseen` holds even then.
- A plain re-load keeps access that the new extract no longer lists and
  switches controls on that an operator had switched off
  (`OnlyPurgeAllForgets`, `LoadSwitchesControlsOn`).

## What is proved

For every value of the constants that satisfies the named assumptions
(`RiskBandsOrdered`, `OnlyRequestableIncluded`, `EngineConstants`,
`PeerConstants`, `WorkflowConstants`, `BridgeConstants`, `StoreConstants`, `ChatConstants`,
`SeedConstants`): any number of runs, calls, requests, faults and edits.

**Policy engine.** `PolicyEngine_proofs` proves all six properties of the
`policy_engine` run: `EngineTyped`, `BrokenPolicyGrantsNothing`,
`ExclusivesAreKeptApart`, `EngineGrantsNoToxicPair`, `AutoApprovedMeansClean`
and, an action property, `TighteningOnlyNarrows`, for any rows, rules, holdings,
proposals and risk bands. The engine keeps no state, so the invariant
(`Configured`) is only what the tables may hold. The argument is `OpennessIs`,
which reads an answer off the raw matches, past the fold over the two
precedence lists (`AggregateIs`) and the decision table: conflicts, refusals,
errors, review, risk band, in this order. Each of these can only appear, never
vanish, when something is added.

**Workflow.** `AnalysisWorkflow_proofs!TypeCorrect`: `Spec => []TypeOK`.
`TypeOK` is inductive as it stands; one lemma per action, and lemmas that the
kernel and peer operators return values of their types.

`ToxicPairs_proofs!NoToxicPairAskedFor`: `Spec => []GrantsFreeOfToxicPairs`.
The property is not inductive: it does not say where conflicts and payloads
come from. `IInv` adds, per run: before `check_sod` no rule has been read and
before `make_decision` nothing is granted; `conflicts` are exactly the
conflicts of what was read with what is requested; whatever is granted was
requested and touches no conflict; the payload in the state, the payload in the
rows and the grants in the rows are within the grants of the run. The argument:
a toxic pair within `AskedFor \union heldSeen` with a side in `AskedFor` is
among `conflicts`, so neither side can be granted. Retiring an entitlement
shrinks the stored grants, regenerating a request uses them, and neither can
grow what is asked for.

`AuditRecords_proofs` proves the four remaining safety properties of
`workflow_single`: `EveryFailureOnRecord`, `UncheckedGrantNeverPasses`,
`EveryCandidateAccounted` and, an action property, `RowsAreStable`. The
invariant `RInv` says per run that every failed step is among the errors, and
among the row's once there is one (`Recorded`); that after the policy step
either everything requested has a verdict or the step has failed (`Judged`);
and that after the risk step all candidates are assessed or the step has failed
and none is, and so for decisions and rows (`Accounted`). It is needed because
the properties speak of the stored row only, while the reason they hold lies in
what the nodes before had left in the state.

`AnalysisLedger_proofs!WorkflowImplementsLedger`: `Spec => ImplementsLedger`.
Initial states map to initial states and each step to a step of the ledger or a
stutter. The one addition the mapping needs is `LInv`: a run that takes its
analysis for persisted has a row, and its status is the one the run is about to
answer (`Confirmed`).

**Bridge.** `McpBridge_proofs`: `BridgeTyped`, `NothingIsLeftBehind`,
`FirstFailureKeepsItsStatus`, and `BridgeImplementsSession`, which is
`Spec => ImplementsSession`. `BInv` relates a call's coroutine, handler and
answer (`Numbered`, `Carried`, `Translated`), says where what was raised came
from (`Blamed`), and what loop and session look like at each place of the
run's thread (`LoopKept`, `SessionKept`). The point of the argument: a call that
is waited for is the last one, so no coroutine given up before can answer it.
`NothingIsLeftBehind` makes the three exceptions exhaustive: a client that could
not be built, in which case nothing had been submitted to the loop; a handler
that holds the loop thread; a handshake or a farewell that did not come back.

**Store.** `GovernanceStore_proofs` proves all eleven invariants of
`audit_store`, and that the store implements `AuditTrail`.

`StoredWholeOrGone`, `RequestsMatchTheirAnalysis`, `ToldIsStored`,
`ChatSeesWhole` and `ReadsAskForNothingUnseen` rest on `SInv`. It adds what the
reset has marked (`GoneTogether`: marked rows are of stored analyses and, at its
commit, of analyses that it deletes as well) and what a request in the making
has seen of its analysis (`InMaking`: all of it, or the analysis has gone and
the insert will fail; from the insert on the lock keeps the analysis). It also
says that a run has a payload only for what it decided (`PayloadHasRows`), which
the refinement needs: `AuditTrail` allows no request for an analysis that decided
nothing.
`ReadWhole` is the same for a reader: its decisions are whole or the analysis
has gone, and never comes back.

`ReadBackWhole` needs to know what each statement of the reader has found:
`Untorn` says, for each place it can be at, that as long as no reset has been
committed beneath it, the analysis is still stored and what was loaded is what
was written; the request of a run that had a payload is among it. That a payload
shown is what the analysis granted takes a latest request to exist: a finite set of bounded numbers has a greatest element
(`LastOfBounded`, from the well-foundedness of strict inclusion between finite
sets, which the library states without a parameter).

`ShownIsLatest` needs the order of the transactions (`Stamped`): a call is
younger than the run whose analysis it asks for and than every call its client
knew to have succeeded, and a row in `requests` carries the stamp of its maker
(`IsOfItsMaker`). The stamps are never compared with wall-clock time.

`OutcomesAddUp`: the dashboard counts the total before the six outcomes.
`AddingUp` compares the total with what has been counted plus what would be
counted now, and the latter only grows as long as no reset is committed; when
the total is counted the statuses cover the table (`StatusesCover`).

`CutAnswersSaySo`, `FallbacksShow` and `StoreTyped` complete the list. For the
last one `ClockCounts` says that the clock is the number of runs and calls that
have begun, and `RequestsCounted` that there is at most one request of each run
and each call. Proving it corrected the model: `ReadTypeOK` bounded the numbers
of the dashboard by the number of decisions, which is wrong when nothing is
decided; the bound is now `MostRows`. It also made `StoreConstants` say that
runs, calls and the catalogue are finite, as they are in a database.

`StoreImplementsTrail`: `Spec => ImplementsTrail`. A run's commit is
`Enter`, a call's commit `AskAgain`, the commit of the reset `Delete` of the
analyses it had marked, and every other step, of readers too, does not show.
The one fact the mapping needs beyond `SInv` is `OncePerCall`: a call's request is
in the store only after its commit, so that it cannot be added twice.

**Seed loader.** `SeedLoad_proofs` proves all seven properties of `seed_load`, for
any set of extracts and any mixture of their files, and that the loader
implements `ReferenceData`.

`ReferencesNeverDangle`, `UnscoredIsHighestRisk` and `JoinersAreNoPeers` rest on
`IInv`: the open transaction holds the entitlements and the employees of its
corpus once their statements are through (`InWork`), and the tables hold those
of the last load that succeeded (`InDb`).

`LoaderTyped`, `ReloadIsNoChange`, `LoadsSwitchOn`, `OnlyPurgesForget` and
`LoaderImplementsReference` rest on `PInv`. Its core is `InProgress`: what the
transaction sees is, table by table, the batch of its corpus written into what
the load began with (nothing after a purge), or still what it began with. So
only a commit ends a load, and it makes exactly `LoadInto` of the whole corpus
visible (`CommitsTheLoad`); the refinement and the two action properties read
it off. That a load repeated changes nothing needs each upsert to be
idempotent, and the last one of several scores to exist (`LastIndex`, as
`LastOfBounded` above).

**Affinity.** `AnalysisWorkflow_proofs!RoundingKeepsTheSide`: with a threshold in
whole percent and at most 200 peers, the rounded score meets the threshold
exactly if the unrounded share does. With 201 peers it no longer does (2
holders, 1 %: 0.995... rounds to 1.00); with a threshold of finer grain it
fails earlier. No run states it: it is arithmetic, without states.

Only model-checked: liveness (`EveryRunEnds`, `SessionEnds`), which is out of
the prover's reach like everything under fairness. Every invariant, action
property and refinement of a passing run is stated by a theorem.

## What is left

1. The composition of `AnalysisWorkflow` with `ReferenceData`: runs while the
   reference data are re-seeded. Today's `MaxEdits` actions are single rows of
   it; a load commits many at once.
2. The workflow over `ToolSession` instead of its own `NodeFails`, with a run's
   time limits.
3. A proof that `AnalysisWorkflow`'s `book` and `AuditStore`'s tables agree:
   both are shown to implement an abstract trail, but two different ones.

## Not modelled

- `list_tools` of the bridge is called by the demo and tests only,
  `latest_for_employee` of the repository by nobody; submitting a request to
  SailPoint is not implemented in the code.
- The peer selection's confidence figure, the wording of explanations, prompts,
  traces and reasons, and the schema text given to the model decide nothing.
- The list endpoints, request validation and health checks of the REST API: one
  read each, without state.
- Configuration loading, logging, migrations, container and deployment files
  have no behaviour of their own beyond the settings that are constants here.
- `run_demo.py` calls what is modelled, and prints.

## Running

    tlc -workers 2 -config workflow_single.cfg MCAnalysisWorkflow
    tlapm ToxicPairs_proofs.tla
