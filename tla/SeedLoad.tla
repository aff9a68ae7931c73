------------------------------ MODULE SeedLoad ------------------------------
(***************************************************************************)
(* How the client's extracts become reference data.  One script rewrites   *)
(* seed/*.json from the CSV files, a file at a time and in place; another  *)
(* reads the files and upserts them in one transaction.  The first can die *)
(* between two files, so that the second loads files of several extracts;  *)
(* an upsert never deletes, so that what one extract said lasts until the  *)
(* next one says otherwise.                                                *)
(*                                                                         *)
(* --reset deletes the audit trail only (AuditStore) and is a plain load   *)
(* here.  Texts, owners, applications and warnings are left out.           *)
(*                                                                         *)
(* Sources: scripts/convert_client_csv.py, scripts/seed_database.py,       *)
(* app/db/models/identity.py, app/db/models/governance.py,                 *)
(* app/db/session.py session_scope, docker/entrypoint.sh.                  *)
(***************************************************************************)
EXTENDS Integers, Sequences, Functions

CONSTANTS Versions,      \* the extracts the client may send
          Extract,       \* Extract[v]: the rows of extract v, file by file
          Names,         \* entitlement names
          Ids,           \* employee ids, of identities, joiners and managers
          PolicyIds, SodIds,
          RiskHighMax,   \* risk_high_max
          MaxConversions,\* bound: conversions started
          MaxLoads,      \* bound: loads started
          MaxSwitches    \* bound: controls an operator switches

Blank == -1              \* a risk row without a score
UnscoredRisk == 100
NoOne == "no one"

\* The forms of a rule the loader tells apart.
RuleForms == {"risk_score", "affinity_score", "birthright", "other"}

Files == {"catalog", "risks", "identities", "joiners", "policies", "sod"}

\* The order of EXTRACTS, without peer_affinity_scores: nothing loads it.
WriteOrder == <<"catalog", "risks", "identities", "joiners", "policies", "sod">>

Corpora ==
  [catalog    : Seq(Names),
   risks      : Seq([name : Names, score : 0..100 \union {Blank}]),
   identities : Seq([id : Ids, holds : Seq(Names)]),
   joiners    : Seq([id : Ids, manager : Ids \union {NoOne}]),
   policies   : Seq([id : PolicyIds, form : RuleForms, value : Nat]),
   sod        : Seq([id : SodIds, first : Names, second : Names])]

ASSUME SeedConstants ==
  /\ Extract \in [Versions -> Corpora]
  /\ "torn" \notin Versions /\ NoOne \notin Ids
  /\ RiskHighMax \in 0..100
  /\ MaxConversions \in Nat /\ MaxLoads \in Nat /\ MaxSwitches \in Nat

VARIABLES files,       \* files[f]: the extract seed/f.json was written from, or "torn"
          converter,   \* convert_client_csv.py
          seeder,      \* seed_database.py
          db,          \* the reference tables, as committed
          work,        \* the reference tables, as the open transaction sees them
          loaded,      \* what the last load that succeeded read: none or one
          conversions, loads, switches   \* bounds only

vars == <<files, converter, seeder, db, work, loaded, conversions, loads, switches>>

-----------------------------------------------------------------------------
(* Builders: what one corpus makes of each table *)

Pair(rule) == {rule.first, rule.second}

\* Every name the corpus holds or forbids, whether it describes it or not.
Referenced(c) ==
  (UNION {Range(row.holds) : row \in Range(c.identities)})
    \union (UNION {Pair(rule) : rule \in Range(c.sod)})

Scored(c) == {row.name : row \in Range(c.risks)}

Entitlements(c) == Range(c.catalog) \union Scored(c) \union Referenced(c)

\* The last row about a name counts.
ScoreOf(c, name) ==
  LET about == {i \in DOMAIN c.risks : c.risks[i].name = name}
  IN c.risks[CHOOSE i \in about : \A j \in about : j <= i].score

\* Mutant of BuildEntitlements: the pass over the unscored comes before the
\* names that are only referenced are added, which get the column's default.
BuildEntitlementsEarly(c) ==
  [name \in Entitlements(c) |->
     IF name \in Scored(c) THEN ScoreOf(c, name)
     ELSE IF name \in Range(c.catalog) THEN UnscoredRisk ELSE 0]

\* build_entitlements: risk_score of every entitlement.
BuildEntitlements(c) ==
  [name \in Entitlements(c) |->
     IF name \in Scored(c) THEN ScoreOf(c, name) ELSE UnscoredRisk]

\* Mutant of Unbuildable: a blank score is given a number of its own.
UnbuildableNever(c) == FALSE

\* int(row["risk_score"]) raises.
Unbuildable(c) == \E row \in Range(c.risks) : row.score = Blank

EmployeeIds(c) == {row.id : row \in Range(c.identities) \union Range(c.joiners)}

\* Mutant of Resolved: the name is taken for a key.
ResolvedBlindly(c, manager) == manager

\* A manager who is not in the corpus is kept by name only.
Resolved(c, manager) == IF manager \in EmployeeIds(c) THEN manager ELSE NoOne

IdentityRows(c) ==
  {[id |-> row.id, status |-> "ACTIVE", manager |-> NoOne, named |-> NoOne] :
     row \in Range(c.identities)}

JoinerRows(c) ==
  {[id |-> row.id, status |-> "PENDING_START", manager |-> Resolved(c, row.manager),
    named |-> row.manager] : row \in Range(c.joiners)}

Keyed(rows) == [id \in {row.id : row \in rows} |-> CHOOSE row \in rows : row.id = id]

BuildEmployees(c) == Keyed(IdentityRows(c) \union JoinerRows(c))

BuildHoldings(c) ==
  UNION {{row.id} \X Range(row.holds) : row \in Range(c.identities)}

\* Only thresholds on the risk have an evaluator; other rules are reported.
BuildPolicies(c) ==
  Keyed({[id |-> row.id, min |-> row.value,
          tier |-> IF row.value > RiskHighMax THEN "HUMAN_REVIEW" ELSE "MANAGER",
          enabled |-> TRUE] :
           row \in {r \in Range(c.policies) : r.form = "risk_score"}})

BuildSodRules(c) ==
  Keyed({[id |-> row.id, first |-> row.first, second |-> row.second, enabled |-> TRUE] :
           row \in Range(c.sod)})

-----------------------------------------------------------------------------
(* Upserts *)

\* Mutant of Upsert: ON CONFLICT DO NOTHING.
UpsertNothing(old, batch) ==
  [key \in DOMAIN old \union DOMAIN batch |->
     IF key \in DOMAIN old THEN old[key] ELSE batch[key]]

\* ON CONFLICT DO UPDATE of every column: the batch wins, nothing is deleted.
Upsert(old, batch) ==
  [key \in DOMAIN old \union DOMAIN batch |->
     IF key \in DOMAIN batch THEN batch[key] ELSE old[key]]

\* One statement may not touch a row twice: two rows of a batch with one key.
RepeatsKey(rows) == \E i, j \in DOMAIN rows : i # j /\ rows[i].id = rows[j].id

RepeatsEmployee(c) ==
  \/ RepeatsKey(c.identities)
  \/ RepeatsKey(c.joiners)
  \/ \E i \in DOMAIN c.identities, j \in DOMAIN c.joiners :
       c.identities[i].id = c.joiners[j].id

RepeatsHolding(c) ==
  \E i \in DOMAIN c.identities :
    LET held == c.identities[i].holds
    IN \E m, n \in DOMAIN held : m # n /\ held[m] = held[n]

RepeatsPolicy(c) ==
  \E i, j \in DOMAIN c.policies :
    /\ i # j /\ c.policies[i].id = c.policies[j].id
    /\ c.policies[i].form = "risk_score" /\ c.policies[j].form = "risk_score"

\* The foreign keys of each batch, when it is written to tables t.
ManagersExist(c, t) ==
  LET rows == BuildEmployees(c)
  IN \A id \in DOMAIN rows :
       rows[id].manager \in DOMAIN t.employees \union DOMAIN rows \union {NoOne}

HoldingsResolve(c, t) ==
  \A h \in BuildHoldings(c) : h[1] \in DOMAIN t.employees /\ h[2] \in DOMAIN t.entitlements

SodRulesResolve(c, t) == \A rule \in Range(c.sod) : Pair(rule) \subseteq DOMAIN t.entitlements

NoRows == [key \in {} |-> key]

EmptyTables ==
  [entitlements |-> NoRows, employees |-> NoRows, holdings |-> {}, policies |-> NoRows,
   sod |-> NoRows]

-----------------------------------------------------------------------------
Init ==
  /\ \E v \in Versions : files = [f \in Files |-> v]
  /\ converter = [pc |-> "idle", source |-> "none", next |-> 1]
  /\ seeder = [pc |-> "idle", purge |-> FALSE, read |-> files, error |-> "none"]
  /\ db = EmptyTables /\ work = EmptyTables
  /\ loaded = {}
  /\ conversions = 0 /\ loads = 0 /\ switches = 0

(* convert_client_csv.py *)

seedVars == <<seeder, db, work, loaded, loads, switches>>

\* Every CSV file is read and converted before the first file is written.
StartConversion(v) ==
  /\ converter.pc = "idle" /\ conversions < MaxConversions
  /\ converter' = [pc |-> "opening", source |-> v, next |-> 1]
  /\ conversions' = conversions + 1
  /\ UNCHANGED <<files, seedVars>>

\* write_text empties the file and then fills it.
OpenFile ==
  /\ converter.pc = "opening"
  /\ files' = [files EXCEPT ![WriteOrder[converter.next]] = "torn"]
  /\ converter' = [converter EXCEPT !.pc = "filling"]
  /\ UNCHANGED <<conversions, seedVars>>

FillFile ==
  /\ converter.pc = "filling"
  /\ files' = [files EXCEPT ![WriteOrder[converter.next]] = converter.source]
  /\ converter' = IF converter.next = Len(WriteOrder)
                  THEN [pc |-> "idle", source |-> "none", next |-> 1]
                  ELSE [converter EXCEPT !.pc = "opening", !.next = @ + 1]
  /\ UNCHANGED <<conversions, seedVars>>

ConverterDies ==
  /\ converter.pc # "idle"
  /\ converter' = [pc |-> "idle", source |-> "none", next |-> 1]
  /\ UNCHANGED <<files, conversions, seedVars>>

(* seed_database.py *)

Idle == {"idle", "done", "failed"}
Corpus(read) == [f \in Files |-> Extract[read[f]][f]]
convVars == <<files, converter, conversions>>

SeederTo(pc) == seeder' = [seeder EXCEPT !.pc = pc]

\* main begins a transaction and, with --purge-all, empties every table.
StartLoad(purge) ==
  /\ seeder.pc \in Idle /\ loads < MaxLoads
  /\ seeder' = [seeder EXCEPT !.pc = IF purge THEN "purging" ELSE "loading",
                              !.purge = purge, !.error = "none"]
  /\ work' = db
  /\ loads' = loads + 1
  /\ UNCHANGED <<convVars, db, loaded, switches>>

\* Mutant of Purge: the deletion is committed before the load begins.
PurgeAtOnce ==
  /\ seeder.pc = "purging"
  /\ work' = EmptyTables /\ db' = EmptyTables
  /\ SeederTo("loading")
  /\ UNCHANGED <<convVars, loaded, loads, switches>>

\* Mutant of Purge: the policies are forgotten.
PurgePartly ==
  /\ seeder.pc = "purging"
  /\ work' = [EmptyTables EXCEPT !.policies = work.policies]
  /\ SeederTo("loading")
  /\ UNCHANGED <<convVars, db, loaded, loads, switches>>

Purge ==
  /\ seeder.pc = "purging"
  /\ work' = EmptyTables
  /\ SeederTo("loading")
  /\ UNCHANGED <<convVars, db, loaded, loads, switches>>

\* Anything that raises leaves the `with session_scope()` block and rolls back.
Fail(error) ==
  /\ seeder' = [seeder EXCEPT !.pc = "failed", !.error = error]
  /\ work' = db

\* All six files are read before anything is built from them.
ReadFiles ==
  /\ seeder.pc = "loading"
  /\ IF \E f \in Files : files[f] = "torn"
     THEN Fail("unreadable")
     ELSE seeder' = [seeder EXCEPT !.pc = "entitlements", !.read = files] /\ UNCHANGED work
  /\ UNCHANGED <<convVars, db, loaded, loads, switches>>

\* Builds one batch and writes it to one table, or fails.
Statement(pc, table, next, error, rows) ==
  /\ seeder.pc = pc
  /\ IF error = "none"
     THEN SeederTo(next) /\ work' = [work EXCEPT ![table] = rows]
     ELSE Fail(error)
  /\ UNCHANGED <<convVars, db, loaded, loads, switches>>

Trouble(repeats, resolves) ==
  IF repeats THEN "duplicate" ELSE IF resolves THEN "none" ELSE "foreign_key"

LoadEntitlements ==
  LET c == Corpus(seeder.read)
  IN Statement("entitlements", "entitlements", "employees",
               IF Unbuildable(c) THEN "bad_row" ELSE "none",
               Upsert(work.entitlements, BuildEntitlements(c)))

LoadEmployees ==
  LET c == Corpus(seeder.read)
  IN Statement("employees", "employees", "holdings",
               Trouble(RepeatsEmployee(c), ManagersExist(c, work)),
               Upsert(work.employees, BuildEmployees(c)))

LoadHoldings ==
  LET c == Corpus(seeder.read)
  IN Statement("holdings", "holdings", "policies",
               Trouble(RepeatsHolding(c), HoldingsResolve(c, work)),
               work.holdings \union BuildHoldings(c))

LoadPolicies ==
  LET c == Corpus(seeder.read)
  IN Statement("policies", "policies", "sod",
               Trouble(RepeatsPolicy(c), TRUE), Upsert(work.policies, BuildPolicies(c)))

LoadSodRules ==
  LET c == Corpus(seeder.read)
  IN Statement("sod", "sod", "committing",
               Trouble(RepeatsKey(c.sod), SodRulesResolve(c, work)),
               Upsert(work.sod, BuildSodRules(c)))

Commit ==
  /\ seeder.pc = "committing"
  /\ db' = work
  /\ loaded' = {seeder.read}
  /\ SeederTo("done")
  /\ UNCHANGED <<convVars, work, loads, switches>>

\* Mutant of SeederDies: what was written so far is committed.
SeederDiesCommitted ==
  /\ seeder.pc \notin Idle
  /\ seeder' = [seeder EXCEPT !.pc = "failed", !.error = "database"]
  /\ db' = work
  /\ UNCHANGED <<convVars, work, loaded, loads, switches>>

\* The database refuses a statement or goes away, or the script is killed.
SeederDies ==
  /\ seeder.pc \notin Idle
  /\ Fail("database")
  /\ UNCHANGED <<convVars, db, loaded, loads, switches>>

\* An operator switches a control, as the runbook tells them to.  An update that
\* meets an open load comes before it or waits for its end: a load reads nothing.
Switch(table, id) ==
  /\ seeder.pc \in Idle /\ switches < MaxSwitches
  /\ id \in DOMAIN db[table]
  /\ db' = [db EXCEPT ![table][id].enabled = ~@]
  /\ work' = db'
  /\ switches' = switches + 1
  /\ UNCHANGED <<convVars, seeder, loaded, loads>>

Next ==
  \/ \E v \in Versions : StartConversion(v)
  \/ OpenFile \/ FillFile \/ ConverterDies
  \/ \E purge \in BOOLEAN : StartLoad(purge)
  \/ Purge \/ ReadFiles
  \/ LoadEntitlements \/ LoadEmployees \/ LoadHoldings \/ LoadPolicies \/ LoadSodRules
  \/ Commit \/ SeederDies
  \/ \E id \in PolicyIds : Switch("policies", id)
  \/ \E id \in SodIds : Switch("sod", id)

Spec == Init /\ [][Next]_vars

-----------------------------------------------------------------------------
(* Properties *)

SeederPcs ==
  Idle \union {"purging", "loading", "entitlements", "employees", "holdings", "policies",
               "sod", "committing"}
Errors == {"none", "unreadable", "bad_row", "duplicate", "foreign_key", "database"}

EmployeeRecords ==
  [id : Ids, status : {"ACTIVE", "PENDING_START"}, manager : Ids \union {NoOne},
   named : Ids \union {NoOne}]

\* A table t whose keys are in K and whose rows are in R.
IsTable(t, K, R) == DOMAIN t \subseteq K /\ \A key \in DOMAIN t : t[key] \in R

TablesOK(t) ==
  /\ DOMAIN t = {"entitlements", "employees", "holdings", "policies", "sod"}
  /\ IsTable(t.entitlements, Names, 0..100)
  /\ IsTable(t.employees, Ids, EmployeeRecords)
  /\ t.holdings \subseteq Ids \X Names
  /\ IsTable(t.policies, PolicyIds,
             [id : PolicyIds, min : Nat, tier : {"MANAGER", "HUMAN_REVIEW"},
              enabled : BOOLEAN])
  /\ IsTable(t.sod, SodIds, [id : SodIds, first : Names, second : Names, enabled : BOOLEAN])

\* Every script, file and table has a value the code can give it; no risk score
\* without a number reaches a table.
TypeOK ==
  /\ files \in [Files -> Versions \union {"torn"}]
  /\ converter \in [pc : {"idle", "opening", "filling"}, source : Versions \union {"none"},
                    next : 1..Len(WriteOrder)]
  /\ seeder \in [pc : SeederPcs, purge : BOOLEAN, read : [Files -> Versions], error : Errors]
  /\ TablesOK(db) /\ TablesOK(work)
  /\ loaded \subseteq [Files -> Versions] /\ \A r, s \in loaded : r = s
  /\ conversions \in 0..MaxConversions /\ loads \in 0..MaxLoads /\ switches \in 0..MaxSwitches

\* A load may fail for many reasons, a dangling reference is never one: whatever
\* mixture of extracts the files hold, what a batch refers to was written before
\* it by the same load (build_entitlements adds every referenced name, and
\* build_employees forgets a manager it does not know).
NoLoadBreaksReferences == seeder.error # "foreign_key"

\* The tables a load of corpus c makes of tables t.
LoadInto(t, c) ==
  [entitlements |-> Upsert(t.entitlements, BuildEntitlements(c)),
   employees    |-> Upsert(t.employees, BuildEmployees(c)),
   holdings     |-> t.holdings \union BuildHoldings(c),
   policies     |-> Upsert(t.policies, BuildPolicies(c)),
   sod          |-> Upsert(t.sod, BuildSodRules(c))]

\* Two states of the tables that differ at most in what is switched on.
AllOn(table) == [id \in DOMAIN table |-> [table[id] EXCEPT !.enabled = TRUE]]
SameButSwitches(t, u) ==
  /\ t.entitlements = u.entitlements /\ t.employees = u.employees /\ t.holdings = u.holdings
  /\ AllOn(t.policies) = AllOn(u.policies) /\ AllOn(t.sod) = AllOn(u.sod)

\* Whatever runs, fails or dies afterwards, the visible tables hold all of the
\* last load that succeeded: loading it once more would change nothing.
ReloadChangesNothing ==
  \A read \in loaded : SameButSwitches(LoadInto(db, Corpus(read)), db)

\* An entitlement the last load knew of and had no score for has risk 100 in the
\* tables, whatever score an earlier extract gave it.
UnscoredFailsClosed ==
  \A read \in loaded :
    LET c == Corpus(read)
    IN \A name \in Entitlements(c) \ Scored(c) : db.entitlements[name] = UnscoredRisk

\* Who is a joiner in the last load is not ACTIVE, and so nobody's peer, even if
\* the id is an identity in a file of another extract.
JoinersStayPending ==
  \A read \in loaded :
    \A row \in Range(Corpus(read).joiners) : db.employees[row.id].status = "PENDING_START"

Loading == seeder.pc = "committing" /\ seeder'.pc = "done"

\* Every load, plain or not, switches the controls of its corpus on again, also
\* those an operator had switched off.
LoadSwitchesControlsOn ==
  [][Loading =>
       LET c == Corpus(seeder.read)
       IN /\ \A id \in DOMAIN BuildPolicies(c) : db'.policies[id].enabled
          /\ \A id \in DOMAIN BuildSodRules(c) : db'.sod[id].enabled]_vars

\* A load with --purge-all leaves exactly its corpus; any other load forgets
\* nothing, so that access and people the new extract no longer has stay.
OnlyPurgeAllForgets ==
  [][Loading =>
       IF seeder.purge THEN db' = LoadInto(EmptyTables, Corpus(seeder.read))
       ELSE /\ db.holdings \subseteq db'.holdings
            /\ \A table \in {"entitlements", "employees", "policies", "sod"} :
                 DOMAIN db[table] \subseteq DOMAIN db'[table]]_vars

\* What the tables show of the scripts: see ReferenceData.
LoadedInto(t, read) == LoadInto(t, Corpus(read))
Reference == INSTANCE ReferenceData
               WITH Mixtures <- [Files -> Versions], NoTables <- EmptyTables,
                    tables <- db, last <- loaded

\* Six files read and five tables written, statement by statement, by scripts that can
\* fail or die at each: to a reader of the tables a load is one change, the whole of
\* what its files held, on top of what was there or, with --purge-all, of nothing.
ImplementsReference == Reference!Spec
=============================================================================
