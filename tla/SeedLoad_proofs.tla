--------------------------- MODULE SeedLoad_proofs ---------------------------
(***************************************************************************)
(* Whatever extracts the client sends, and whichever files of them are     *)
(* loaded together: no load breaks a reference, what has no score fails    *)
(* closed, and no joiner becomes a peer.  And a load is one change of the  *)
(* tables, all of it or nothing, that loading again would not repeat.      *)
(*                                                                         *)
(* A load writes its tables one after the other, and what a later batch    *)
(* refers to is in a table written before: InWork says, for each place the *)
(* seeder can be at, what its transaction has already written of that, and *)
(* InProgress what the open transaction is, table by table.                *)
(***************************************************************************)
EXTENDS SeedLoad, FiniteSetTheorems, TLAPS

TableNames == {"entitlements", "employees", "holdings", "policies", "sod"}

\* The records have the fields the actions update.
Shapes ==
  /\ DOMAIN seeder = {"pc", "purge", "read", "error"}
  /\ DOMAIN db = TableNames /\ DOMAIN work = TableNames

\* What table t of entitlements, or of employees, holds of corpus c.
HasEntitlements(t, c) ==
  /\ Entitlements(c) \subseteq DOMAIN t.entitlements
  /\ \A name \in Entitlements(c) \ Scored(c) : t.entitlements[name] = UnscoredRisk

HasEmployees(t, c) ==
  /\ EmployeeIds(c) \subseteq DOMAIN t.employees
  /\ \A row \in Range(c.joiners) : t.employees[row.id].status = "PENDING_START"

AfterEntitlements == {"employees", "holdings", "policies", "sod", "committing"}
AfterEmployees == AfterEntitlements \ {"employees"}

InWork ==
  /\ seeder.pc \in AfterEntitlements => HasEntitlements(work, Corpus(seeder.read))
  /\ seeder.pc \in AfterEmployees => HasEmployees(work, Corpus(seeder.read))

InDb == \A read \in loaded : HasEntitlements(db, Corpus(read)) /\ HasEmployees(db, Corpus(read))

IInv == Shapes /\ InWork /\ InDb /\ NoLoadBreaksReferences

-----------------------------------------------------------------------------
(* The builders *)

LEMMA KeyedRows ==
  ASSUME NEW rows
  PROVE /\ DOMAIN Keyed(rows) = {row.id : row \in rows}
        /\ \A id \in DOMAIN Keyed(rows) : Keyed(rows)[id] \in rows /\ Keyed(rows)[id].id = id
<1>1. DOMAIN Keyed(rows) = {row.id : row \in rows}
  BY DEF Keyed
<1>2. ASSUME NEW id \in DOMAIN Keyed(rows)
      PROVE Keyed(rows)[id] \in rows /\ Keyed(rows)[id].id = id
  <2>1. \E row \in rows : row.id = id
    BY <1>1, <1>2
  <2>2. Keyed(rows)[id] = CHOOSE row \in rows : row.id = id
    BY <1>1, <1>2 DEF Keyed
  <2> QED BY <2>1, <2>2
<1> QED BY <1>1, <1>2

LEMMA EmployeesBuilt ==
  ASSUME NEW c
  PROVE DOMAIN BuildEmployees(c) = EmployeeIds(c)
<1> DEFINE rows == IdentityRows(c) \union JoinerRows(c)
<1>1. ASSUME NEW row \in rows PROVE row.id \in EmployeeIds(c)
  BY <1>1 DEF IdentityRows, JoinerRows, EmployeeIds
<1>2. ASSUME NEW id \in EmployeeIds(c) PROVE \E row \in rows : row.id = id
  <2>1. CASE \E row \in Range(c.identities) : row.id = id
    <3>1. PICK row \in Range(c.identities) : row.id = id
      BY <2>1
    <3> DEFINE built == [id |-> row.id, status |-> "ACTIVE", manager |-> NoOne,
                         named |-> NoOne]
    <3>2. built \in IdentityRows(c) /\ built.id = id
      BY <3>1 DEF IdentityRows
    <3> QED BY <3>2
  <2>2. CASE \E row \in Range(c.joiners) : row.id = id
    <3>1. PICK row \in Range(c.joiners) : row.id = id
      BY <2>2
    <3> DEFINE built == [id |-> row.id, status |-> "PENDING_START",
                         manager |-> Resolved(c, row.manager), named |-> row.manager]
    <3>2. built \in JoinerRows(c) /\ built.id = id
      BY <3>1 DEF JoinerRows
    <3> QED BY <3>2
  <2> QED BY <1>2, <2>1, <2>2 DEF EmployeeIds
<1>3. DOMAIN BuildEmployees(c) = {row.id : row \in rows}
  BY KeyedRows DEF BuildEmployees
<1> HIDE DEF rows
<1> QED BY <1>1, <1>2, <1>3

LEMMA ManagersKnown ==
  ASSUME NEW c, NEW t
  PROVE ManagersExist(c, t)
<1> DEFINE rows == BuildEmployees(c)
<1> SUFFICES ASSUME NEW id \in DOMAIN rows
             PROVE rows[id].manager \in DOMAIN rows \union {NoOne}
  BY DEF ManagersExist
<1>1. rows[id] \in IdentityRows(c) \union JoinerRows(c)
  BY KeyedRows DEF BuildEmployees
<1>2. CASE rows[id] \in IdentityRows(c)
  BY <1>2 DEF IdentityRows
<1>3. CASE rows[id] \in JoinerRows(c)
  BY <1>3, EmployeesBuilt DEF JoinerRows, Resolved
<1> QED BY <1>1, <1>2, <1>3

\* A batch the database accepts has one row for each joiner, and no identity of
\* the same id.
LEMMA JoinersBuilt ==
  ASSUME NEW c, ~RepeatsEmployee(c), NEW row \in Range(c.joiners)
  PROVE row.id \in DOMAIN BuildEmployees(c)
        /\ BuildEmployees(c)[row.id].status = "PENDING_START"
<1>1. row.id \in DOMAIN BuildEmployees(c)
  BY EmployeesBuilt DEF EmployeeIds
<1> DEFINE built == BuildEmployees(c)[row.id]
<1>2. built \in IdentityRows(c) \union JoinerRows(c) /\ built.id = row.id
  BY <1>1, KeyedRows DEF BuildEmployees
<1> HIDE DEF built
<1>3. built \notin IdentityRows(c)
  <2> SUFFICES ASSUME built \in IdentityRows(c) PROVE FALSE
    OBVIOUS
  <2>1. PICK other \in Range(c.identities) : other.id = row.id
    BY <1>2 DEF IdentityRows
  <2>2. PICK i \in DOMAIN c.identities : c.identities[i] = other
    BY DEF Range
  <2>3. PICK j \in DOMAIN c.joiners : c.joiners[j] = row
    BY DEF Range
  <2> QED BY <2>1, <2>2, <2>3 DEF RepeatsEmployee
<1>4. built \in JoinerRows(c)
  BY <1>2, <1>3
<1>5. built.status = "PENDING_START"
  BY <1>4 DEF JoinerRows
<1> QED BY <1>1, <1>5 DEF built

LEMMA EntitlementsWritten ==
  ASSUME NEW t, NEW old, NEW c, t.entitlements = Upsert(old, BuildEntitlements(c))
  PROVE HasEntitlements(t, c)
BY DEF HasEntitlements, Upsert, BuildEntitlements

LEMMA EmployeesWritten ==
  ASSUME NEW t, NEW old, NEW c, t.employees = Upsert(old, BuildEmployees(c)),
         ~RepeatsEmployee(c)
  PROVE HasEmployees(t, c)
<1>1. EmployeeIds(c) \subseteq DOMAIN t.employees
  BY EmployeesBuilt DEF Upsert
<1>2. ASSUME NEW row \in Range(c.joiners)
      PROVE t.employees[row.id].status = "PENDING_START"
  BY JoinersBuilt DEF Upsert
<1> QED BY <1>1, <1>2 DEF HasEmployees

\* With both tables written, what the other batches refer to is there.
LEMMA ReferencesWritten ==
  ASSUME NEW t, NEW c, HasEntitlements(t, c), HasEmployees(t, c)
  PROVE HoldingsResolve(c, t) /\ SodRulesResolve(c, t)
<1>1. HoldingsResolve(c, t)
  <2> SUFFICES ASSUME NEW row \in Range(c.identities), NEW name \in Range(row.holds)
               PROVE row.id \in DOMAIN t.employees /\ name \in DOMAIN t.entitlements
    BY DEF HoldingsResolve, BuildHoldings
  <2>1. row.id \in EmployeeIds(c)
    BY DEF EmployeeIds
  <2>2. name \in Entitlements(c)
    BY DEF Entitlements, Referenced
  <2> QED BY <2>1, <2>2 DEF HasEntitlements, HasEmployees
<1>2. SodRulesResolve(c, t)
  <2> SUFFICES ASSUME NEW ban \in Range(c.sod), NEW name \in Pair(ban)
               PROVE name \in DOMAIN t.entitlements
    BY DEF SodRulesResolve
  <2>1. name \in Referenced(c)
    BY DEF Referenced
  <2> QED BY <2>1 DEF HasEntitlements, Entitlements
<1> QED BY <1>1, <1>2

-----------------------------------------------------------------------------
(* The invariant *)

LEMMA InitIInv == Init => IInv
BY DEF Init, IInv, Shapes, InWork, InDb, NoLoadBreaksReferences, EmptyTables, TableNames,
       AfterEntitlements, AfterEmployees

\* Leaving the tables alone, or rolling back, keeps it.
LEMMA FailIInv ==
  ASSUME IInv, NEW error, error # "foreign_key", Fail(error), UNCHANGED <<db, loaded>>
  PROVE IInv'
BY DEF IInv, Shapes, InWork, InDb, NoLoadBreaksReferences, Fail, AfterEntitlements,
       AfterEmployees

\* A statement that writes its rows, or fails without breaking a reference.
LEMMA StatementIInv ==
  ASSUME IInv, NEW pc, NEW table \in TableNames, NEW next, NEW error, NEW rows,
         Statement(pc, table, next, error, rows), error # "foreign_key"
  PROVE /\ Shapes' /\ InDb' /\ NoLoadBreaksReferences'
        /\ \/ seeder'.pc = "failed"
           \/ /\ error = "none" /\ seeder'.pc = next /\ seeder'.read = seeder.read
              /\ work' = [work EXCEPT ![table] = rows]
<1>1. CASE error = "none"
  BY <1>1 DEF IInv, Shapes, InDb, NoLoadBreaksReferences, Statement, SeederTo
<1>2. CASE error # "none"
  BY <1>2, FailIInv DEF Statement, Fail, IInv, Shapes
<1> QED BY <1>1, <1>2

LEMMA NextIInv == IInv /\ [Next]_vars => IInv'
<1> SUFFICES ASSUME IInv, [Next]_vars PROVE IInv'
  OBVIOUS
<1> DEFINE c == Corpus(seeder.read)
<1>1. CASE \/ \E v \in Versions : StartConversion(v)
           \/ OpenFile \/ FillFile \/ ConverterDies
  <2>1. UNCHANGED seedVars
    BY <1>1 DEF StartConversion, OpenFile, FillFile, ConverterDies
  <2> QED BY <2>1 DEF IInv, Shapes, InWork, InDb, NoLoadBreaksReferences, seedVars
<1>2. CASE \E purge \in BOOLEAN : StartLoad(purge)
  BY <1>2 DEF IInv, Shapes, InWork, InDb, NoLoadBreaksReferences, StartLoad,
              AfterEntitlements, AfterEmployees
<1>3. CASE Purge
  BY <1>3 DEF IInv, Shapes, InWork, InDb, NoLoadBreaksReferences, Purge, SeederTo,
              AfterEntitlements, AfterEmployees, EmptyTables, TableNames
<1>4. CASE ReadFiles
  <2>1. CASE \E f \in Files : files[f] = "torn"
    BY <1>4, <2>1, FailIInv DEF ReadFiles
  <2>2. CASE ~\E f \in Files : files[f] = "torn"
    BY <1>4, <2>2 DEF ReadFiles, IInv, Shapes, InWork, InDb, NoLoadBreaksReferences,
                      AfterEntitlements, AfterEmployees
  <2> QED BY <2>1, <2>2
<1>5. CASE LoadEntitlements
  <2> DEFINE error == IF Unbuildable(c) THEN "bad_row" ELSE "none"
             rows == Upsert(work.entitlements, BuildEntitlements(c))
  <2>1. Statement("entitlements", "entitlements", "employees", error, rows)
    BY <1>5 DEF LoadEntitlements
  <2>2. "entitlements" \in TableNames /\ error # "foreign_key"
    BY DEF TableNames
  <2> HIDE DEF error, rows
  <2>3. /\ Shapes' /\ InDb' /\ NoLoadBreaksReferences'
        /\ \/ seeder'.pc = "failed"
           \/ /\ seeder'.pc = "employees" /\ seeder'.read = seeder.read
              /\ work' = [work EXCEPT !["entitlements"] = rows]
    BY <2>1, <2>2, StatementIInv
  <2>4. CASE seeder'.pc = "failed"
    BY <2>3, <2>4 DEF IInv, InWork, AfterEntitlements, AfterEmployees
  <2>5. CASE seeder'.pc # "failed"
    <3>1. work'.entitlements = rows
      BY <2>3, <2>5 DEF IInv, Shapes, TableNames
    <3>2. HasEntitlements(work', c)
      BY <3>1, EntitlementsWritten DEF rows
    <3>3. Corpus(seeder'.read) = c
      BY <2>3, <2>5
    <3> QED BY <2>3, <2>5, <3>2, <3>3 DEF IInv, InWork, AfterEmployees
  <2> QED BY <2>4, <2>5
<1>6. CASE LoadEmployees
  <2> DEFINE error == Trouble(RepeatsEmployee(c), ManagersExist(c, work))
             rows == Upsert(work.employees, BuildEmployees(c))
  <2>1. Statement("employees", "employees", "holdings", error, rows)
    BY <1>6 DEF LoadEmployees
  <2>2. /\ "employees" \in TableNames /\ error # "foreign_key"
        /\ error = "none" => ~RepeatsEmployee(c)
    BY ManagersKnown DEF TableNames, Trouble
  <2> HIDE DEF error, rows
  <2>3. /\ Shapes' /\ InDb' /\ NoLoadBreaksReferences'
        /\ \/ seeder'.pc = "failed"
           \/ /\ error = "none" /\ seeder'.pc = "holdings" /\ seeder'.read = seeder.read
              /\ work' = [work EXCEPT !["employees"] = rows]
    BY <2>1, <2>2, StatementIInv
  <2>4. CASE seeder'.pc = "failed"
    BY <2>3, <2>4 DEF IInv, InWork, AfterEntitlements, AfterEmployees
  <2>5. CASE seeder'.pc # "failed"
    <3>1. work'.employees = rows /\ work'.entitlements = work.entitlements
      BY <2>3, <2>5 DEF IInv, Shapes, TableNames
    <3>2. HasEmployees(work', c)
      BY <2>2, <2>3, <2>5, <3>1, EmployeesWritten DEF rows
    <3>3. HasEntitlements(work', c)
      <4>1. seeder.pc = "employees"
        BY <2>1 DEF Statement
      <4> QED BY <3>1, <4>1 DEF IInv, InWork, HasEntitlements, AfterEntitlements
    <3>4. Corpus(seeder'.read) = c
      BY <2>3, <2>5
    <3> QED BY <2>3, <2>5, <3>2, <3>3, <3>4 DEF IInv, InWork
  <2> QED BY <2>4, <2>5
<1>7. ASSUME NEW pc \in AfterEmployees, NEW table \in {"holdings", "policies", "sod"},
             NEW next \in AfterEmployees, NEW error, NEW rows,
             Statement(pc, table, next, error, rows), error # "foreign_key"
      PROVE IInv'
  <2>1. /\ Shapes' /\ InDb' /\ NoLoadBreaksReferences'
        /\ \/ seeder'.pc = "failed"
           \/ /\ seeder'.pc = next /\ seeder'.read = seeder.read
              /\ work' = [work EXCEPT ![table] = rows]
    <3>1. table \in TableNames
      BY DEF TableNames
    <3> QED BY <1>7, <3>1, StatementIInv
  <2>2. CASE seeder'.pc = "failed"
    BY <2>1, <2>2 DEF IInv, InWork, AfterEntitlements, AfterEmployees
  <2>3. CASE seeder'.pc # "failed"
    <3>1. work'.entitlements = work.entitlements /\ work'.employees = work.employees
      BY <2>1, <2>3 DEF IInv, Shapes, TableNames
    <3>2. seeder.pc = pc
      BY <1>7 DEF Statement
    <3>3. HasEntitlements(work, c) /\ HasEmployees(work, c)
      BY <3>2 DEF IInv, InWork, AfterEmployees
    <3>4. HasEntitlements(work', c) /\ HasEmployees(work', c)
      BY <3>1, <3>3 DEF HasEntitlements, HasEmployees
    <3>5. Corpus(seeder'.read) = c
      BY <2>1, <2>3
    <3> QED BY <2>1, <3>4, <3>5 DEF IInv, InWork
  <2> QED BY <2>2, <2>3
<1>8. ASSUME seeder.pc \in AfterEmployees
      PROVE HoldingsResolve(c, work) /\ SodRulesResolve(c, work)
  BY <1>8, ReferencesWritten DEF IInv, InWork, AfterEmployees
<1>9. CASE LoadHoldings
  <2> DEFINE error == Trouble(RepeatsHolding(c), HoldingsResolve(c, work))
             rows == work.holdings \union BuildHoldings(c)
  <2>1. Statement("holdings", "holdings", "policies", error, rows)
    BY <1>9 DEF LoadHoldings
  <2>2. error # "foreign_key"
    BY <1>8, <2>1 DEF Trouble, Statement, AfterEmployees, AfterEntitlements
  <2> HIDE DEF error, rows
  <2> QED BY <1>7, <2>1, <2>2 DEF AfterEmployees, AfterEntitlements
<1>10. CASE LoadPolicies
  <2> DEFINE error == Trouble(RepeatsPolicy(c), TRUE)
             rows == Upsert(work.policies, BuildPolicies(c))
  <2>1. Statement("policies", "policies", "sod", error, rows)
    BY <1>10 DEF LoadPolicies
  <2>2. error # "foreign_key"
    BY DEF Trouble
  <2> HIDE DEF error, rows
  <2> QED BY <1>7, <2>1, <2>2 DEF AfterEmployees, AfterEntitlements
<1>11. CASE LoadSodRules
  <2> DEFINE error == Trouble(RepeatsKey(c.sod), SodRulesResolve(c, work))
             rows == Upsert(work.sod, BuildSodRules(c))
  <2>1. Statement("sod", "sod", "committing", error, rows)
    BY <1>11 DEF LoadSodRules
  <2>2. error # "foreign_key"
    BY <1>8, <2>1 DEF Trouble, Statement, AfterEmployees, AfterEntitlements
  <2> HIDE DEF error, rows
  <2> QED BY <1>7, <2>1, <2>2 DEF AfterEmployees, AfterEntitlements
<1>12. CASE Commit
  <2>1. HasEntitlements(work, c) /\ HasEmployees(work, c)
    BY <1>12 DEF Commit, IInv, InWork, AfterEmployees, AfterEntitlements
  <2>2. InDb'
    BY <1>12, <2>1 DEF Commit, InDb
  <2> QED BY <1>12, <2>2 DEF Commit, SeederTo, IInv, Shapes, InWork, NoLoadBreaksReferences,
                             AfterEmployees, AfterEntitlements
<1>13. CASE SeederDies
  BY <1>13, FailIInv DEF SeederDies
<1>14. ASSUME NEW table \in {"policies", "sod"}, NEW id, Switch(table, id)
       PROVE IInv'
  <2>1. DOMAIN db' = TableNames /\ work' = db'
    BY <1>14 DEF Switch, IInv, Shapes
  <2>2. db'.entitlements = db.entitlements /\ db'.employees = db.employees
    BY <1>14 DEF Switch, IInv, Shapes, TableNames
  <2>3. InDb'
    BY <1>14, <2>2 DEF Switch, IInv, InDb, HasEntitlements, HasEmployees
  <2> QED BY <1>14, <2>1, <2>3 DEF Switch, Idle, IInv, Shapes, InWork,
                                   NoLoadBreaksReferences, AfterEntitlements, AfterEmployees
<1>15. CASE UNCHANGED vars
  BY <1>15 DEF vars, IInv, Shapes, InWork, InDb, NoLoadBreaksReferences
<1> QED BY <1>1, <1>2, <1>3, <1>4, <1>5, <1>6, <1>9, <1>10, <1>11, <1>12, <1>13, <1>14,
           <1>15 DEF Next

LEMMA SpecIInv == Spec => []IInv
BY InitIInv, NextIInv, PTL DEF Spec

\* No load of any mixture of extracts fails on a dangling reference: what a batch
\* refers to is written before it (the order of `seed` and the closure of
\* build_entitlements and build_employees).
THEOREM ReferencesNeverDangle == Spec => []NoLoadBreaksReferences
<1>1. IInv => NoLoadBreaksReferences
  BY DEF IInv
<1> QED BY <1>1, SpecIInv, PTL

\* Whatever an entitlement scored in an earlier extract, without a score in the
\* last one it has risk 100, and every earlier step of the load keeps it so
\* (build_entitlements and the upsert of risk_score).
THEOREM UnscoredIsHighestRisk == Spec => []UnscoredFailsClosed
<1>1. IInv => UnscoredFailsClosed
  BY DEF IInv, InDb, HasEntitlements, UnscoredFailsClosed
<1> QED BY <1>1, SpecIInv, PTL

\* A joiner of the last load is PENDING_START in the tables, whatever the files
\* of other extracts made of the same id (build_employees, the upsert of
\* employment_status, and the one statement that refuses a repeated id).
THEOREM JoinersAreNoPeers == Spec => []JoinersStayPending
<1>1. IInv => JoinersStayPending
  BY DEF IInv, InDb, HasEmployees, JoinersStayPending
<1> QED BY <1>1, SpecIInv, PTL

-----------------------------------------------------------------------------
(* Types: what the builders make of typed extracts *)

\* A nonempty set of indices has a last one.
LEMMA LastIndex ==
  ASSUME NEW n \in Nat, NEW S \in SUBSET (1..n), S # {}
  PROVE  \E i \in S : \A j \in S : j <= i
<1> DEFINE F == {1..(n - i) : i \in S}
           R == StrictSubsetOrdering(Nat)
<1>1. F \subseteq FiniteSubsetsOf(Nat)
  <2> SUFFICES ASSUME NEW i \in S PROVE 1..(n - i) \in FiniteSubsetsOf(Nat)
    OBVIOUS
  <2>1. IsFiniteSet(1..(n - i))
    BY FS_Interval
  <2> QED BY <2>1 DEF FiniteSubsetsOf
<1>2. IsWellFoundedOn(R, FiniteSubsetsOf(Nat))
  BY FS_StrictSubsetOrderingWellFounded
<1>3. F # {}
  OBVIOUS
<1>4. \E U \in F : \A V \in F : <<V, U>> \notin R
  <2> HIDE DEF F, R
  <2> QED BY <1>1, <1>2, <1>3, WFMin
<1>5. PICK i \in S : \A j \in S : <<1..(n - j), 1..(n - i)>> \notin R
  BY <1>4
<1>6. ASSUME NEW j \in S, ~(j <= i) PROVE FALSE
  <2>1. 1..(n - j) \subseteq 1..(n - i) /\ n - i \in 1..(n - i) /\ n - i \notin 1..(n - j)
    BY <1>6
  <2>2. 1..(n - j) # 1..(n - i)
    BY <2>1
  <2>3. 1..(n - j) \in SUBSET Nat /\ 1..(n - i) \in SUBSET Nat
    OBVIOUS
  <2>4. <<1..(n - j), 1..(n - i)>> \in R
    BY <2>1, <2>2, <2>3 DEF StrictSubsetOrdering
  <2> QED BY <1>5, <2>4
<1> QED BY <1>6

CorpusTyped(c) ==
  /\ c.catalog \in Seq(Names)
  /\ c.risks \in Seq([name : Names, score : 0..100 \union {Blank}])
  /\ c.identities \in Seq([id : Ids, holds : Seq(Names)])
  /\ c.joiners \in Seq([id : Ids, manager : Ids \union {NoOne}])
  /\ c.policies \in Seq([id : PolicyIds, form : RuleForms, value : Nat])
  /\ c.sod \in Seq([id : SodIds, first : Names, second : Names])

LEMMA RangeTyped ==
  ASSUME NEW T, NEW s \in Seq(T) PROVE Range(s) \subseteq T
BY DEF Range

\* Every mixture of extracts has rows of the types of the extracts.
LEMMA CorpusIsTyped ==
  ASSUME NEW read \in [Files -> Versions] PROVE CorpusTyped(Corpus(read))
<1>1. ASSUME NEW f \in Files
      PROVE  Corpus(read)[f] = Extract[read[f]][f] /\ Extract[read[f]] \in Corpora
  BY SeedConstants DEF Corpus
<1>2. /\ "catalog" \in Files /\ "risks" \in Files /\ "identities" \in Files
      /\ "joiners" \in Files /\ "policies" \in Files /\ "sod" \in Files
  BY DEF Files
<1> QED BY <1>1, <1>2 DEF Corpora, CorpusTyped

LEMMA ScoreIsARow ==
  ASSUME NEW c, CorpusTyped(c), NEW name \in Scored(c)
  PROVE  \E row \in Range(c.risks) : ScoreOf(c, name) = row.score
<1> DEFINE about == {i \in DOMAIN c.risks : c.risks[i].name = name}
<1>1. about # {} /\ about \in SUBSET (1..Len(c.risks)) /\ Len(c.risks) \in Nat
  BY DEF CorpusTyped, Scored, Range
<1>2. \E i \in about : \A j \in about : j <= i
  <2> HIDE DEF about
  <2> QED BY <1>1, LastIndex
<1> DEFINE last == CHOOSE i \in about : \A j \in about : j <= i
<1>3. last \in about
  <2> HIDE DEF about
  <2> QED BY <1>2
<1>4. ScoreOf(c, name) = c.risks[last].score
  BY DEF ScoreOf
<1>5. c.risks[last] \in Range(c.risks)
  <2> HIDE DEF last
  <2> QED BY <1>3 DEF Range
<1> HIDE DEF last
<1> QED BY <1>4, <1>5

\* The rows of a typed corpus, file by file.
LEMMA RowsTyped ==
  ASSUME NEW c, CorpusTyped(c)
  PROVE  /\ Range(c.catalog) \subseteq Names
         /\ \A row \in Range(c.risks) : row.name \in Names /\ row.score \in 0..100 \union {Blank}
         /\ \A row \in Range(c.identities) : row.id \in Ids /\ Range(row.holds) \subseteq Names
         /\ \A row \in Range(c.joiners) : row.id \in Ids /\ row.manager \in Ids \union {NoOne}
         /\ \A row \in Range(c.policies) : row.id \in PolicyIds /\ row.value \in Nat
         /\ \A row \in Range(c.sod) :
              row.id \in SodIds /\ row.first \in Names /\ row.second \in Names
<1>1. Range(c.catalog) \subseteq Names
  BY RangeTyped DEF CorpusTyped
<1>2. Range(c.risks) \subseteq [name : Names, score : 0..100 \union {Blank}]
  BY RangeTyped DEF CorpusTyped
<1>3. Range(c.identities) \subseteq [id : Ids, holds : Seq(Names)]
  BY RangeTyped DEF CorpusTyped
<1>4. Range(c.joiners) \subseteq [id : Ids, manager : Ids \union {NoOne}]
  BY RangeTyped DEF CorpusTyped
<1>5. Range(c.policies) \subseteq [id : PolicyIds, form : RuleForms, value : Nat]
  BY RangeTyped DEF CorpusTyped
<1>6. Range(c.sod) \subseteq [id : SodIds, first : Names, second : Names]
  BY RangeTyped DEF CorpusTyped
<1>7. ASSUME NEW row \in Range(c.identities)
      PROVE  row.id \in Ids /\ Range(row.holds) \subseteq Names
  <2>1. row.id \in Ids /\ row.holds \in Seq(Names)
    BY <1>3
  <2> QED BY <2>1, RangeTyped
<1> QED BY <1>1, <1>2, <1>4, <1>5, <1>6, <1>7

LEMMA EntitlementsTyped ==
  ASSUME NEW c, CorpusTyped(c), ~Unbuildable(c)
  PROVE  IsTable(BuildEntitlements(c), Names, 0..100)
<1>1. Entitlements(c) \subseteq Names
  BY RowsTyped DEF Entitlements, Referenced, Scored, Pair
<1>2. ASSUME NEW name \in Scored(c) PROVE ScoreOf(c, name) \in 0..100
  BY ScoreIsARow, RowsTyped DEF Unbuildable
<1> QED BY <1>1, <1>2 DEF IsTable, BuildEntitlements, UnscoredRisk

LEMMA KeyedTyped ==
  ASSUME NEW rows, NEW K, NEW R, \A row \in rows : row.id \in K /\ row \in R
  PROVE  IsTable(Keyed(rows), K, R)
BY KeyedRows DEF IsTable

LEMMA EmployeesTyped ==
  ASSUME NEW c, CorpusTyped(c) PROVE IsTable(BuildEmployees(c), Ids, EmployeeRecords)
<1>1. ASSUME NEW row \in IdentityRows(c) PROVE row.id \in Ids /\ row \in EmployeeRecords
  BY RowsTyped DEF IdentityRows, EmployeeRecords
<1>2. ASSUME NEW row \in JoinerRows(c) PROVE row.id \in Ids /\ row \in EmployeeRecords
  BY RowsTyped DEF JoinerRows, EmployeeRecords, Resolved
<1> QED BY <1>1, <1>2, KeyedTyped DEF BuildEmployees

LEMMA HoldingsTyped ==
  ASSUME NEW c, CorpusTyped(c) PROVE BuildHoldings(c) \subseteq Ids \X Names
BY RowsTyped DEF BuildHoldings

PolicyRecords ==
  [id : PolicyIds, min : Nat, tier : {"MANAGER", "HUMAN_REVIEW"}, enabled : BOOLEAN]
SodRecords == [id : SodIds, first : Names, second : Names, enabled : BOOLEAN]

\* What is built is switched on.
LEMMA PoliciesTyped ==
  ASSUME NEW c, CorpusTyped(c)
  PROVE  /\ IsTable(BuildPolicies(c), PolicyIds, PolicyRecords)
         /\ \A id \in DOMAIN BuildPolicies(c) : BuildPolicies(c)[id].enabled = TRUE
<1> DEFINE scored == {r \in Range(c.policies) : r.form = "risk_score"}
           Built(row) == [id |-> row.id, min |-> row.value,
                          tier |-> IF row.value > RiskHighMax THEN "HUMAN_REVIEW" ELSE "MANAGER",
                          enabled |-> TRUE]
           rows == {Built(row) : row \in scored}
<1>1. \A row \in rows : row.id \in PolicyIds /\ row \in PolicyRecords /\ row.enabled = TRUE
  <2> SUFFICES ASSUME NEW row \in scored
               PROVE  Built(row).id \in PolicyIds /\ Built(row) \in PolicyRecords
                      /\ Built(row).enabled = TRUE
    OBVIOUS
  <2>1. row.id \in PolicyIds /\ row.value \in Nat
    BY RowsTyped
  <2> QED BY <2>1 DEF PolicyRecords
<1>2. BuildPolicies(c) = Keyed(rows)
  BY DEF BuildPolicies
<1> HIDE DEF rows
<1>3. IsTable(Keyed(rows), PolicyIds, PolicyRecords)
  BY <1>1, KeyedTyped
<1>4. \A id \in DOMAIN Keyed(rows) : Keyed(rows)[id].enabled = TRUE
  BY <1>1, KeyedRows
<1> QED BY <1>2, <1>3, <1>4

LEMMA SodRulesTyped ==
  ASSUME NEW c, CorpusTyped(c)
  PROVE  /\ IsTable(BuildSodRules(c), SodIds, SodRecords)
         /\ \A id \in DOMAIN BuildSodRules(c) : BuildSodRules(c)[id].enabled = TRUE
<1> DEFINE Built(row) == [id |-> row.id, first |-> row.first, second |-> row.second,
                          enabled |-> TRUE]
           rows == {Built(row) : row \in Range(c.sod)}
<1>1. \A row \in rows : row.id \in SodIds /\ row \in SodRecords /\ row.enabled = TRUE
  <2> SUFFICES ASSUME NEW row \in Range(c.sod)
               PROVE  Built(row).id \in SodIds /\ Built(row) \in SodRecords
                      /\ Built(row).enabled = TRUE
    OBVIOUS
  <2>1. row.id \in SodIds /\ row.first \in Names /\ row.second \in Names
    BY RowsTyped
  <2> QED BY <2>1 DEF SodRecords
<1>2. BuildSodRules(c) = Keyed(rows)
  BY DEF BuildSodRules
<1> HIDE DEF rows
<1>3. IsTable(Keyed(rows), SodIds, SodRecords)
  BY <1>1, KeyedTyped
<1>4. \A id \in DOMAIN Keyed(rows) : Keyed(rows)[id].enabled = TRUE
  BY <1>1, KeyedRows
<1> QED BY <1>2, <1>3, <1>4

LEMMA UpsertTyped ==
  ASSUME NEW old, NEW batch, NEW K, NEW R, IsTable(old, K, R), IsTable(batch, K, R)
  PROVE  IsTable(Upsert(old, batch), K, R)
BY DEF IsTable, Upsert

-----------------------------------------------------------------------------
(* Types: every step keeps the tables typed *)


IsFcn(f) == f = [x \in DOMAIN f |-> f[x]]

AreTables(t) ==
  /\ t = [name \in TableNames |-> t[name]] /\ TablesOK(t)
  /\ IsFcn(t.entitlements) /\ IsFcn(t.employees) /\ IsFcn(t.policies) /\ IsFcn(t.sod)

TInv ==
  /\ TypeOK /\ AreTables(db) /\ AreTables(work)
  /\ converter.pc # "idle" => converter.source \in Versions

RowsOK(table, rows) ==
  /\ table = "entitlements" => IsTable(rows, Names, 0..100) /\ IsFcn(rows)
  /\ table = "employees" => IsTable(rows, Ids, EmployeeRecords) /\ IsFcn(rows)
  /\ table = "holdings" => rows \subseteq Ids \X Names
  /\ table = "policies" => IsTable(rows, PolicyIds, PolicyRecords) /\ IsFcn(rows)
  /\ table = "sod" => IsTable(rows, SodIds, SodRecords) /\ IsFcn(rows)

LEMMA WrittenTables ==
  ASSUME NEW t, AreTables(t), NEW table \in TableNames, NEW rows, RowsOK(table, rows)
  PROVE  AreTables([t EXCEPT ![table] = rows])
<1> DEFINE u == [t EXCEPT ![table] = rows]
<1>1. /\ u = [name \in TableNames |-> IF name = table THEN rows ELSE t[name]]
  BY DEF AreTables
<1>2. \A name \in TableNames : RowsOK(name, t[name])
  BY DEF AreTables, TablesOK, RowsOK, TableNames, PolicyRecords, SodRecords
<1> HIDE DEF u
<1>3. \A name \in TableNames : RowsOK(name, u[name])
  BY <1>1, <1>2
<1>4. DOMAIN u = TableNames /\ u = [name \in TableNames |-> u[name]]
  BY <1>1
<1>5. AreTables(u)
  BY <1>3, <1>4 DEF AreTables, TablesOK, RowsOK, TableNames, PolicyRecords, SodRecords
<1> QED BY <1>5 DEF u

LEMMA EmptyTablesTyped == AreTables(EmptyTables)
BY DEF AreTables, TablesOK, EmptyTables, NoRows, IsTable, IsFcn, TableNames

LEMMA StatementTyped ==
  ASSUME TInv, NEW pc, NEW table \in TableNames, NEW next \in SeederPcs, NEW error \in Errors,
         NEW rows, error = "none" => RowsOK(table, rows), Statement(pc, table, next, error, rows)
  PROVE  TInv'
<1>1. CASE error = "none"
  <2>1. AreTables(work')
    BY <1>1, WrittenTables DEF Statement, TInv
  <2> QED BY <1>1, <2>1 DEF Statement, TInv, TypeOK, AreTables, SeederTo, convVars
<1>2. CASE error # "none"
  BY <1>2 DEF Statement, TInv, TypeOK, Fail, SeederPcs, Idle, convVars
<1> QED BY <1>1, <1>2

LEMMA InitTInv == Init => TInv
<1> SUFFICES ASSUME Init PROVE TInv
  OBVIOUS
<1>1. AreTables(db) /\ AreTables(work)
  BY EmptyTablesTyped DEF Init
<1>2. Len(WriteOrder) = 6
  BY DEF WriteOrder
<1> QED BY <1>1, <1>2, SeedConstants DEF Init, TInv, TypeOK, AreTables, SeederPcs, Idle, Errors

\* Whatever is written, typed rows are.
LEMMA BatchesTyped ==
  ASSUME NEW c, CorpusTyped(c), NEW t, AreTables(t)
  PROVE  /\ ~Unbuildable(c) => RowsOK("entitlements", LoadInto(t, c).entitlements)
         /\ RowsOK("employees", LoadInto(t, c).employees)
         /\ RowsOK("holdings", LoadInto(t, c).holdings)
         /\ RowsOK("policies", LoadInto(t, c).policies)
         /\ RowsOK("sod", LoadInto(t, c).sod)
<1>1. \A old, batch : IsFcn(Upsert(old, batch))
  BY DEF IsFcn, Upsert
<1>2. /\ IsTable(t.entitlements, Names, 0..100) /\ IsTable(t.employees, Ids, EmployeeRecords)
      /\ t.holdings \subseteq Ids \X Names
      /\ IsTable(t.policies, PolicyIds, PolicyRecords) /\ IsTable(t.sod, SodIds, SodRecords)
  BY DEF AreTables, TablesOK, PolicyRecords, SodRecords
<1> QED BY <1>1, <1>2, EntitlementsTyped, EmployeesTyped, HoldingsTyped, PoliciesTyped,
           SodRulesTyped, UpsertTyped DEF RowsOK, LoadInto

LEMMA NextTInv == TInv /\ [Next]_vars => TInv'
<1> SUFFICES ASSUME TInv, [Next]_vars PROVE TInv'
  OBVIOUS
<1> DEFINE c == Corpus(seeder.read)
<1>0. /\ Len(WriteOrder) = 6 /\ \A i \in 1..6 : WriteOrder[i] \in Files
      /\ MaxConversions \in Nat /\ MaxLoads \in Nat /\ MaxSwitches \in Nat
  BY SeedConstants DEF WriteOrder, Files
<1>c. CorpusTyped(c) /\ AreTables(work)
  BY CorpusIsTyped DEF TInv, TypeOK
<1>e. TableNames = {"entitlements", "employees", "holdings", "policies", "sod"}
  BY DEF TableNames
<1>1. ASSUME NEW v \in Versions, StartConversion(v) PROVE TInv'
  BY <1>0, <1>1 DEF StartConversion, seedVars, TInv, TypeOK
<1>2. CASE OpenFile
  BY <1>0, <1>2 DEF OpenFile, seedVars, TInv, TypeOK
<1>3. CASE FillFile
  <2>1. converter \in [pc : {"idle", "opening", "filling"}, source : Versions \union {"none"},
                       next : 1..6] /\ converter.source \in Versions /\ converter.pc = "filling"
    BY <1>0, <1>3 DEF FillFile, TInv, TypeOK
  <2>2. files' \in [Files -> Versions \union {"torn"}]
    BY <1>3, <2>1 DEF FillFile, TInv, TypeOK
  <2>3. converter' \in [pc : {"idle", "opening", "filling"}, source : Versions \union {"none"},
                        next : 1..6]
        /\ (converter'.pc # "idle" => converter'.source \in Versions)
    <3>1. CASE converter.next = 6
      BY <1>0, <1>3, <3>1 DEF FillFile
    <3>2. CASE converter.next # 6
      <4>1. converter' = [converter EXCEPT !.pc = "opening", !.next = @ + 1]
        BY <1>0, <1>3, <3>2 DEF FillFile
      <4>2. converter.next + 1 \in 1..6
        BY <2>1, <3>2
      <4>3. converter' = [pc |-> "opening", source |-> converter.source, next |-> converter.next + 1]
        BY <2>1, <4>1
      <4> QED BY <2>1, <4>2, <4>3
    <3> QED BY <3>1, <3>2
  <2> QED BY <1>0, <1>3, <2>2, <2>3 DEF FillFile, seedVars, TInv, TypeOK
<1>4. CASE ConverterDies
  BY <1>0, <1>4 DEF ConverterDies, seedVars, TInv, TypeOK
<1>5. ASSUME NEW purge \in BOOLEAN, StartLoad(purge) PROVE TInv'
  <2>1. seeder' \in [pc : SeederPcs, purge : BOOLEAN, read : [Files -> Versions], error : Errors]
    <3>1. PICK pc \in {"purging", "loading"} :
            seeder' = [seeder EXCEPT !.pc = pc, !.purge = purge, !.error = "none"]
      BY <1>5 DEF StartLoad
    <3>2. pc \in SeederPcs /\ "none" \in Errors
      BY DEF SeederPcs, Errors
    <3> QED BY <3>1, <3>2 DEF TInv, TypeOK
  <2> QED BY <1>0, <1>5, <2>1 DEF StartLoad, convVars, TInv, TypeOK
<1>6. CASE Purge
  BY <1>6, EmptyTablesTyped DEF Purge, SeederTo, convVars, TInv, TypeOK, SeederPcs, AreTables
<1>7. CASE ReadFiles
  <2>1. CASE \E f \in Files : files[f] = "torn"
    BY <1>7, <2>1 DEF ReadFiles, Fail, convVars, TInv, TypeOK, SeederPcs, Idle, Errors
  <2>2. CASE ~\E f \in Files : files[f] = "torn"
    <3>1. files \in [Files -> Versions]
      BY <2>2 DEF TInv, TypeOK
    <3>2. seeder' = [seeder EXCEPT !.pc = "entitlements", !.read = files] /\ UNCHANGED work
      BY <1>7, <2>2 DEF ReadFiles
    <3> QED BY <1>7, <3>1, <3>2 DEF ReadFiles, convVars, TInv, TypeOK, SeederPcs
  <2> QED BY <2>1, <2>2
<1>8. CASE LoadEntitlements
  <2> DEFINE error == IF Unbuildable(c) THEN "bad_row" ELSE "none"
             rows == Upsert(work.entitlements, BuildEntitlements(c))
  <2>1. Statement("entitlements", "entitlements", "employees", error, rows)
    BY <1>8 DEF LoadEntitlements
  <2>2. error \in Errors /\ (error = "none" => ~Unbuildable(c)) /\ "employees" \in SeederPcs
    BY DEF Errors, SeederPcs
  <2>3. error = "none" => RowsOK("entitlements", rows)
    BY <1>c, <2>2, BatchesTyped DEF LoadInto
  <2> HIDE DEF error, rows
  <2> QED BY <1>e, <2>1, <2>2, <2>3, StatementTyped
<1>t. ASSUME NEW repeats \in BOOLEAN, NEW resolves \in BOOLEAN
      PROVE  Trouble(repeats, resolves) \in Errors
  BY DEF Trouble, Errors
<1>9. CASE LoadEmployees
  <2> DEFINE error == Trouble(RepeatsEmployee(c), ManagersExist(c, work))
             rows == Upsert(work.employees, BuildEmployees(c))
  <2>1. Statement("employees", "employees", "holdings", error, rows)
    BY <1>9 DEF LoadEmployees
  <2>2. error \in Errors /\ "holdings" \in SeederPcs
    BY DEF Trouble, Errors, SeederPcs
  <2>3. RowsOK("employees", rows)
    BY <1>c, BatchesTyped DEF LoadInto
  <2> HIDE DEF error, rows
  <2> QED BY <1>e, <2>1, <2>2, <2>3, StatementTyped
<1>10. CASE LoadHoldings
  <2> DEFINE error == Trouble(RepeatsHolding(c), HoldingsResolve(c, work))
             rows == work.holdings \union BuildHoldings(c)
  <2>1. Statement("holdings", "holdings", "policies", error, rows)
    BY <1>10 DEF LoadHoldings
  <2>2. error \in Errors /\ "policies" \in SeederPcs
    BY DEF Trouble, Errors, SeederPcs
  <2>3. RowsOK("holdings", rows)
    BY <1>c, BatchesTyped DEF LoadInto
  <2> HIDE DEF error, rows
  <2> QED BY <1>e, <2>1, <2>2, <2>3, StatementTyped
<1>11. CASE LoadPolicies
  <2> DEFINE error == Trouble(RepeatsPolicy(c), TRUE)
             rows == Upsert(work.policies, BuildPolicies(c))
  <2>1. Statement("policies", "policies", "sod", error, rows)
    BY <1>11 DEF LoadPolicies
  <2>2. error \in Errors /\ "sod" \in SeederPcs
    BY DEF Trouble, Errors, SeederPcs
  <2>3. RowsOK("policies", rows)
    BY <1>c, BatchesTyped DEF LoadInto
  <2> HIDE DEF error, rows
  <2> QED BY <1>e, <2>1, <2>2, <2>3, StatementTyped
<1>12. CASE LoadSodRules
  <2> DEFINE error == Trouble(RepeatsKey(c.sod), SodRulesResolve(c, work))
             rows == Upsert(work.sod, BuildSodRules(c))
  <2>1. Statement("sod", "sod", "committing", error, rows)
    BY <1>12 DEF LoadSodRules
  <2>2. error \in Errors /\ "committing" \in SeederPcs
    BY DEF Trouble, Errors, SeederPcs
  <2>3. RowsOK("sod", rows)
    BY <1>c, BatchesTyped DEF LoadInto
  <2> HIDE DEF error, rows
  <2> QED BY <1>e, <2>1, <2>2, <2>3, StatementTyped
<1>13. CASE Commit
  BY <1>13 DEF Commit, SeederTo, convVars, TInv, TypeOK, SeederPcs, Idle
<1>14. CASE SeederDies
  BY <1>14 DEF SeederDies, Fail, convVars, TInv, TypeOK, SeederPcs, Idle, Errors
<1>15. ASSUME NEW id, Switch("policies", id) PROVE TInv'
  <2> DEFINE rows == [db.policies EXCEPT ![id].enabled = ~@]
  <2>1. RowsOK("policies", rows)
    <3>1. IsTable(db.policies, PolicyIds, PolicyRecords) /\ IsFcn(db.policies)
      BY DEF TInv, AreTables, TablesOK, PolicyRecords
    <3>2. rows = [key \in DOMAIN db.policies |->
                    IF key = id THEN [db.policies[id] EXCEPT !.enabled = ~@] ELSE db.policies[key]]
      BY <3>1 DEF IsFcn
    <3>3. id \in DOMAIN db.policies => [db.policies[id] EXCEPT !.enabled = ~@] \in PolicyRecords
      BY <3>1 DEF IsTable, PolicyRecords
    <3> HIDE DEF rows
    <3>4. IsTable(rows, PolicyIds, PolicyRecords) /\ IsFcn(rows)
      BY <3>1, <3>2, <3>3 DEF IsTable, IsFcn
    <3> QED BY <3>4 DEF RowsOK
  <2>2. db' = [db EXCEPT !["policies"] = rows] /\ work' = db'
    BY <1>15 DEF Switch, TInv, AreTables
  <2> HIDE DEF rows
  <2>3. AreTables(db')
    BY <1>e, <2>1, <2>2, WrittenTables DEF TInv
  <2> QED BY <1>0, <1>15, <2>2, <2>3 DEF Switch, convVars, TInv, TypeOK, AreTables
<1>16. ASSUME NEW id, Switch("sod", id) PROVE TInv'
  <2> DEFINE rows == [db.sod EXCEPT ![id].enabled = ~@]
  <2>1. RowsOK("sod", rows)
    <3>1. IsTable(db.sod, SodIds, SodRecords) /\ IsFcn(db.sod)
      BY DEF TInv, AreTables, TablesOK, SodRecords
    <3>2. rows = [key \in DOMAIN db.sod |->
                    IF key = id THEN [db.sod[id] EXCEPT !.enabled = ~@] ELSE db.sod[key]]
      BY <3>1 DEF IsFcn
    <3>3. id \in DOMAIN db.sod => [db.sod[id] EXCEPT !.enabled = ~@] \in SodRecords
      BY <3>1 DEF IsTable, SodRecords
    <3> HIDE DEF rows
    <3>4. IsTable(rows, SodIds, SodRecords) /\ IsFcn(rows)
      BY <3>1, <3>2, <3>3 DEF IsTable, IsFcn
    <3> QED BY <3>4 DEF RowsOK
  <2>2. db' = [db EXCEPT !["sod"] = rows] /\ work' = db'
    BY <1>16 DEF Switch, TInv, AreTables
  <2> HIDE DEF rows
  <2>3. AreTables(db')
    BY <1>e, <2>1, <2>2, WrittenTables DEF TInv
  <2> QED BY <1>0, <1>16, <2>2, <2>3 DEF Switch, convVars, TInv, TypeOK, AreTables
<1>17. CASE UNCHANGED vars
  BY <1>17 DEF vars, TInv, TypeOK
<1> QED BY <1>1, <1>2, <1>3, <1>4, <1>5, <1>6, <1>7, <1>8, <1>9, <1>10, <1>11, <1>12, <1>13,
           <1>14, <1>15, <1>16, <1>17 DEF Next

-----------------------------------------------------------------------------
(* A load is the sum of its statements, and doing it twice is doing it once *)

\* What the open load started from.
Base == IF seeder.purge THEN EmptyTables ELSE db

\* Where the seeder is once the statement for a table is through.
After ==
  [entitlements |-> AfterEntitlements, employees |-> AfterEmployees,
   holdings |-> {"policies", "sod", "committing"}, policies |-> {"sod", "committing"},
   sod |-> {"committing"}]

\* Tables t with as much of corpus c as a load at pc has written.
Written(t, c, pc) ==
  [name \in TableNames |-> IF pc \in After[name] THEN LoadInto(t, c)[name] ELSE t[name]]

Writing == {"loading", "entitlements"} \union AfterEntitlements

\* The open transaction is what it started from and the statements made so far.
InProgress ==
  /\ seeder.pc = "purging" => seeder.purge
  /\ seeder.pc \in Writing => work = Written(Base, Corpus(seeder.read), seeder.pc)

PInv == TInv /\ InProgress /\ ReloadChangesNothing

LEMMA WrittenAtEnds ==
  ASSUME NEW t, NEW c, t = [name \in TableNames |-> t[name]]
  PROVE  /\ \A pc \in {"loading", "entitlements"} : Written(t, c, pc) = t
         /\ Written(t, c, "committing") = LoadInto(t, c)
<1>1. \A pc \in {"loading", "entitlements"}, name \in TableNames : pc \notin After[name]
  BY DEF After, TableNames, AfterEntitlements, AfterEmployees
<1>2. \A name \in TableNames : "committing" \in After[name]
  BY DEF After, TableNames, AfterEntitlements, AfterEmployees
<1>3. LoadInto(t, c) = [name \in TableNames |-> LoadInto(t, c)[name]]
  BY DEF LoadInto, TableNames
<1> QED BY <1>1, <1>2, <1>3 DEF Written

\* One statement takes the transaction from one place to the next.
LEMMA StatementProgress ==
  ASSUME NEW pc \in Writing, NEW table \in TableNames, NEW next \in Writing, NEW error, NEW rows,
         TInv, InProgress, Statement(pc, table, next, error, rows),
         pc \notin After[table], rows = LoadInto(work, Corpus(seeder.read))[table],
         \A name \in TableNames : next \in After[name] <=> pc \in After[name] \/ name = table
  PROVE  InProgress'
<1> DEFINE c == Corpus(seeder.read)
<1>1. CASE error = "none"
  <2>1. /\ seeder' = [seeder EXCEPT !.pc = next] /\ work' = [work EXCEPT ![table] = rows]
        /\ db' = db /\ seeder.pc = pc
    BY <1>1 DEF Statement, SeederTo
  <2>2. seeder'.pc = next /\ seeder'.read = seeder.read /\ seeder'.purge = seeder.purge
    BY <2>1 DEF TInv, TypeOK
  <2>3. Base' = Base /\ Corpus(seeder'.read) = c
    BY <2>1, <2>2 DEF Base
  <2>4. work = Written(Base, c, pc)
    BY <2>1 DEF InProgress
  <2>5. work[table] = Base[table]
    BY <2>4 DEF Written
  <2>6. rows = LoadInto(Base, c)[table]
    BY <2>5 DEF LoadInto, TableNames
  <2>7. work' = [name \in TableNames |-> IF name = table THEN rows ELSE work[name]]
    BY <2>1, <2>4 DEF Written
  <2>8. work' = Written(Base, c, next)
    BY <2>4, <2>6, <2>7 DEF Written
  <2> QED BY <2>2, <2>3, <2>8 DEF InProgress, Writing, AfterEntitlements
<1>2. CASE error # "none"
  BY <1>2 DEF Statement, Fail, InProgress, Writing, AfterEntitlements, TInv, TypeOK
<1> QED BY <1>1, <1>2

\* Loading twice is loading once.
LEMMA UpsertTwice ==
  ASSUME NEW old, NEW batch
  PROVE  Upsert(Upsert(old, batch), batch) = Upsert(old, batch)
BY DEF Upsert

LEMMA LoadTwice ==
  ASSUME NEW t, NEW c PROVE SameButSwitches(LoadInto(LoadInto(t, c), c), LoadInto(t, c))
BY UpsertTwice DEF LoadInto, SameButSwitches

\* What is switched on or off plays no part in a reload.
LEMMA AllOnUpsert ==
  ASSUME NEW t, NEW u, NEW batch, AllOn(t) = AllOn(u)
  PROVE  AllOn(Upsert(t, batch)) = AllOn(Upsert(u, batch))
<1>1. DOMAIN t = DOMAIN u
  BY DEF AllOn
<1>2. \A key \in DOMAIN t : [t[key] EXCEPT !.enabled = TRUE] = [u[key] EXCEPT !.enabled = TRUE]
  BY DEF AllOn
<1>3. /\ DOMAIN Upsert(t, batch) = DOMAIN t \union DOMAIN batch
      /\ DOMAIN Upsert(u, batch) = DOMAIN t \union DOMAIN batch
  BY <1>1 DEF Upsert
<1>4. ASSUME NEW key \in DOMAIN t \union DOMAIN batch
      PROVE  [Upsert(t, batch)[key] EXCEPT !.enabled = TRUE]
               = [Upsert(u, batch)[key] EXCEPT !.enabled = TRUE]
  <2>1. CASE key \in DOMAIN batch
    <3>1. Upsert(t, batch)[key] = batch[key] /\ Upsert(u, batch)[key] = batch[key]
      BY <1>1, <2>1 DEF Upsert
    <3> QED BY <3>1
  <2>2. CASE key \notin DOMAIN batch
    <3>1. Upsert(t, batch)[key] = t[key] /\ Upsert(u, batch)[key] = u[key] /\ key \in DOMAIN t
      BY <1>1, <1>4, <2>2 DEF Upsert
    <3> QED BY <1>2, <3>1
  <2> QED BY <2>1, <2>2
<1> QED BY <1>3, <1>4 DEF AllOn

LEMMA SwitchedIsSame ==
  ASSUME NEW t, NEW id \in DOMAIN t, t = [key \in DOMAIN t |-> t[key]],
         NEW on \in BOOLEAN
  PROVE  AllOn([t EXCEPT ![id].enabled = on]) = AllOn(t)
<1> DEFINE u == [t EXCEPT ![id].enabled = on]
<1>1. DOMAIN u = DOMAIN t /\ u[id] = [t[id] EXCEPT !.enabled = on]
      /\ \A key \in DOMAIN t \ {id} : u[key] = t[key]
  OBVIOUS
<1>2. [u[id] EXCEPT !.enabled = TRUE] = [t[id] EXCEPT !.enabled = TRUE]
  BY <1>1
<1> HIDE DEF u
<1>3. \A key \in DOMAIN t : [u[key] EXCEPT !.enabled = TRUE] = [t[key] EXCEPT !.enabled = TRUE]
  BY <1>1, <1>2
<1>4. AllOn(u) = AllOn(t)
  BY <1>1, <1>3 DEF AllOn
<1> QED BY <1>4 DEF u

\* No switch changes what a reload would change.
LEMMA SwitchKeepsReload ==
  ASSUME TInv, ReloadChangesNothing, NEW table \in {"policies", "sod"}, NEW id, Switch(table, id)
  PROVE  ReloadChangesNothing'
<1> SUFFICES ASSUME NEW read \in loaded
             PROVE  SameButSwitches(LoadInto(db', Corpus(read)), db')
  BY DEF Switch, ReloadChangesNothing
<1> DEFINE c == Corpus(read)
           on == ~db[table][id].enabled
           rows == [db[table] EXCEPT ![id].enabled = on]
<1>1. db' = [db EXCEPT ![table] = rows]
  BY DEF Switch, TInv, AreTables
<1>2. SameButSwitches(LoadInto(db, c), db)
  BY DEF ReloadChangesNothing
<1>3. AllOn(rows) = AllOn(db[table])
  <2>1. id \in DOMAIN db[table] /\ IsFcn(db[table])
    BY DEF Switch, TInv, AreTables
  <2>2. on \in BOOLEAN
    OBVIOUS
  <2> HIDE DEF on
  <2> QED BY <2>1, <2>2, SwitchedIsSame DEF IsFcn
<1> HIDE DEF rows
<1>4. DOMAIN db = TableNames
  BY DEF TInv, TypeOK, TablesOK, TableNames
<1>5. /\ db'.entitlements = db.entitlements /\ db'.employees = db.employees
      /\ db'.holdings = db.holdings
      /\ AllOn(db'.policies) = AllOn(db.policies) /\ AllOn(db'.sod) = AllOn(db.sod)
  BY <1>1, <1>3, <1>4 DEF TableNames
<1> HIDE DEF c
<1>6. /\ AllOn(Upsert(db'.policies, BuildPolicies(c)))
           = AllOn(Upsert(db.policies, BuildPolicies(c)))
      /\ AllOn(Upsert(db'.sod, BuildSodRules(c))) = AllOn(Upsert(db.sod, BuildSodRules(c)))
  BY <1>5, AllOnUpsert
<1> QED BY <1>2, <1>5, <1>6 DEF SameButSwitches, LoadInto, c

LEMMA InitPInv == Init => PInv
<1> SUFFICES ASSUME Init PROVE PInv
  OBVIOUS
<1>1. TInv
  BY InitTInv
<1>2. InProgress /\ ReloadChangesNothing
  BY DEF Init, InProgress, ReloadChangesNothing, Writing, AfterEntitlements
<1> QED BY <1>1, <1>2 DEF PInv

LEMMA NextPInv == PInv /\ [Next]_vars => PInv'
<1> SUFFICES ASSUME PInv, [Next]_vars PROVE PInv'
  OBVIOUS
<1>0. TInv /\ TInv'
  BY NextTInv DEF PInv
<1> DEFINE c == Corpus(seeder.read)
<1>w. /\ {"loading", "entitlements", "employees", "holdings", "policies", "sod",
          "committing"} \subseteq Writing
      /\ TableNames = {"entitlements", "employees", "holdings", "policies", "sod"}
      /\ Writing \intersect (Idle \union {"purging"}) = {}
  BY DEF Writing, AfterEntitlements, TableNames, Idle
<1>f. \A table \in TableNames :
        After[table] = CASE table = "entitlements" -> AfterEntitlements
                         [] table = "employees" -> AfterEmployees
                         [] table = "holdings" -> {"policies", "sod", "committing"}
                         [] table = "policies" -> {"sod", "committing"}
                         [] table = "sod" -> {"committing"}
  BY DEF After, TableNames
<1>k. /\ LoadInto(work, c)["entitlements"] = Upsert(work.entitlements, BuildEntitlements(c))
      /\ LoadInto(work, c)["employees"] = Upsert(work.employees, BuildEmployees(c))
      /\ LoadInto(work, c)["holdings"] = work.holdings \union BuildHoldings(c)
      /\ LoadInto(work, c)["policies"] = Upsert(work.policies, BuildPolicies(c))
      /\ LoadInto(work, c)["sod"] = Upsert(work.sod, BuildSodRules(c))
  BY DEF LoadInto
<1>r. ASSUME UNCHANGED <<db, loaded>> PROVE ReloadChangesNothing'
  BY <1>r DEF PInv, ReloadChangesNothing
<1>b. /\ EmptyTables = [name \in TableNames |-> EmptyTables[name]]
      /\ db = [name \in TableNames |-> db[name]]
  BY <1>0, EmptyTablesTyped DEF TInv, AreTables
<1>1. CASE UNCHANGED seedVars
  BY <1>0, <1>1, <1>r DEF PInv, InProgress, Base, seedVars
<1>2. ASSUME NEW purge \in BOOLEAN, StartLoad(purge) PROVE PInv'
  <2>1. UNCHANGED <<db, loaded>> /\ work' = db
    BY <1>2 DEF StartLoad
  <2>2. seeder'.pc = (IF purge THEN "purging" ELSE "loading") /\ seeder'.purge = purge
    BY <1>0, <1>2 DEF StartLoad, TInv, TypeOK
  <2>3. CASE purge
    BY <1>0, <1>r, <1>w, <2>1, <2>2, <2>3 DEF PInv, InProgress
  <2>4. CASE ~purge
    <3>1. Written(db, Corpus(seeder'.read), "loading") = db
      BY <1>b, WrittenAtEnds
    <3> QED BY <1>0, <1>r, <2>1, <2>2, <2>4, <3>1 DEF PInv, InProgress, Base
  <2> QED BY <2>3, <2>4
<1>3. CASE Purge
  <2>1. UNCHANGED <<db, loaded>> /\ work' = EmptyTables /\ seeder'.pc = "loading"
        /\ seeder'.purge = seeder.purge
    BY <1>0, <1>3 DEF Purge, SeederTo, TInv, TypeOK
  <2>2. seeder.pc = "purging" /\ seeder.purge
    BY <1>3 DEF Purge, PInv, InProgress
  <2> QED BY <1>0, <1>r, <1>b, <2>1, <2>2, WrittenAtEnds DEF PInv, InProgress, Base
<1>4. CASE ReadFiles
  <2>1. CASE \E f \in Files : files[f] = "torn"
    BY <1>0, <1>r, <1>4, <2>1 DEF ReadFiles, Fail, PInv, InProgress, Writing, AfterEntitlements,
                                 TInv, TypeOK
  <2>2. CASE ~\E f \in Files : files[f] = "torn"
    <3>1. /\ UNCHANGED <<db, loaded, work>> /\ seeder.pc = "loading"
          /\ seeder'.pc = "entitlements" /\ seeder'.purge = seeder.purge
      BY <1>0, <1>4, <2>2 DEF ReadFiles, TInv, TypeOK
    <3>2. Base' = Base /\ Base = [name \in TableNames |-> Base[name]]
      BY <1>b, <3>1 DEF Base
    <3>3. work = Base
      BY <1>w, <3>1, <3>2, WrittenAtEnds DEF PInv, InProgress
    <3>4. Written(Base, Corpus(seeder'.read), "entitlements") = Base
      BY <3>2, WrittenAtEnds
    <3> QED BY <1>0, <1>r, <3>1, <3>2, <3>3, <3>4 DEF PInv, InProgress
  <2> QED BY <2>1, <2>2
<1>5. CASE LoadEntitlements
  <2>1. InProgress'
    BY <1>5, <1>0, <1>w, <1>f, <1>k, StatementProgress
    DEF LoadEntitlements, PInv, AfterEntitlements, AfterEmployees
  <2> QED BY <1>0, <1>5, <1>r, <2>1 DEF LoadEntitlements, Statement, PInv
<1>6. CASE LoadEmployees
  <2>1. InProgress'
    BY <1>6, <1>0, <1>w, <1>f, <1>k, StatementProgress
    DEF LoadEmployees, PInv, AfterEntitlements, AfterEmployees
  <2> QED BY <1>0, <1>6, <1>r, <2>1 DEF LoadEmployees, Statement, PInv
<1>7. CASE LoadHoldings
  <2>1. InProgress'
    <3>1. /\ "holdings" \notin After["holdings"]
          /\ \A name \in TableNames :
               "policies" \in After[name] <=> "holdings" \in After[name] \/ name = "holdings"
      BY <1>w, <1>f DEF AfterEntitlements, AfterEmployees
    <3> QED BY <1>7, <1>0, <1>w, <1>k, <3>1, StatementProgress DEF LoadHoldings, PInv
  <2> QED BY <1>0, <1>7, <1>r, <2>1 DEF LoadHoldings, Statement, PInv
<1>8. CASE LoadPolicies
  <2>1. InProgress'
    <3>1. /\ "policies" \notin After["policies"]
          /\ \A name \in TableNames :
               "sod" \in After[name] <=> "policies" \in After[name] \/ name = "policies"
      BY <1>w, <1>f DEF AfterEntitlements, AfterEmployees
    <3> QED BY <1>8, <1>0, <1>w, <1>k, <3>1, StatementProgress DEF LoadPolicies, PInv
  <2> QED BY <1>0, <1>8, <1>r, <2>1 DEF LoadPolicies, Statement, PInv
<1>9. CASE LoadSodRules
  <2>1. InProgress'
    BY <1>9, <1>0, <1>w, <1>f, <1>k, StatementProgress
    DEF LoadSodRules, PInv, AfterEntitlements, AfterEmployees
  <2> QED BY <1>0, <1>9, <1>r, <2>1 DEF LoadSodRules, Statement, PInv
<1>10. CASE Commit
  <2>1. /\ db' = work /\ loaded' = {seeder.read} /\ seeder'.pc = "done"
    BY <1>0, <1>10 DEF Commit, SeederTo, TInv, TypeOK
  <2>2. work = LoadInto(Base, c)
    <3>1. Base = [name \in TableNames |-> Base[name]]
      BY <1>b DEF Base
    <3> QED BY <1>10, <1>w, <3>1, WrittenAtEnds DEF Commit, PInv, InProgress
  <2>3. SameButSwitches(LoadInto(db', c), db')
    BY <2>1, <2>2, LoadTwice
  <2>4. ReloadChangesNothing'
    BY <2>1, <2>3 DEF ReloadChangesNothing
  <2> QED BY <1>0, <1>w, <2>1, <2>4 DEF PInv, InProgress, Idle
<1>11. CASE SeederDies
  BY <1>0, <1>11, <1>r, <1>w DEF SeederDies, Fail, PInv, InProgress, TInv, TypeOK, Idle
<1>12. ASSUME NEW table \in {"policies", "sod"}, NEW id, Switch(table, id) PROVE PInv'
  <2>1. ReloadChangesNothing'
    BY <1>0, <1>12, SwitchKeepsReload DEF PInv
  <2>2. seeder' = seeder /\ seeder.pc \in Idle
    BY <1>12 DEF Switch
  <2> QED BY <1>0, <1>w, <2>1, <2>2 DEF PInv, InProgress, Idle
<1>13. CASE UNCHANGED vars
  <2>1. UNCHANGED seedVars
    BY <1>13 DEF vars, seedVars
  <2> QED BY <1>1, <2>1
<1>14. ASSUME \/ \E v \in Versions : StartConversion(v)
              \/ OpenFile \/ FillFile \/ ConverterDies
       PROVE PInv'
  <2>1. UNCHANGED seedVars
    BY <1>14 DEF StartConversion, OpenFile, FillFile, ConverterDies
  <2> QED BY <1>1, <2>1
<1> QED BY <1>2, <1>3, <1>4, <1>5, <1>6, <1>7, <1>8, <1>9, <1>10, <1>11, <1>12, <1>13, <1>14
        DEF Next

LEMMA SpecPInv == Spec => []PInv
BY InitPInv, NextPInv, PTL DEF Spec

\* Only a commit ends a load, and it makes the whole load visible.
LEMMA CommitsTheLoad ==
  ASSUME PInv, [Next]_vars, Loading
  PROVE  db' = LoadInto(Base, Corpus(seeder.read))
<1>1. TInv
  BY DEF PInv
<1>2. Commit
  <2>1. ASSUME NEW pc, NEW table, NEW next, NEW error, NEW rows,
               Statement(pc, table, next, error, rows), next # "done"
        PROVE FALSE
    BY <1>1, <2>1 DEF Statement, SeederTo, Fail, Loading, TInv, TypeOK
  <2>2. ~(LoadEntitlements \/ LoadEmployees \/ LoadHoldings \/ LoadPolicies \/ LoadSodRules)
    BY <2>1 DEF LoadEntitlements, LoadEmployees, LoadHoldings, LoadPolicies, LoadSodRules
  <2>3. ~UNCHANGED seeder
    BY DEF Loading
  <2>4. ~(\E v \in Versions : StartConversion(v)) /\ ~OpenFile /\ ~FillFile /\ ~ConverterDies
    BY <2>3 DEF StartConversion, OpenFile, FillFile, ConverterDies, seedVars
  <2>5. ~(\E purge \in BOOLEAN : StartLoad(purge)) /\ ~Purge /\ ~ReadFiles
    BY DEF StartLoad, Purge, ReadFiles, Loading, Idle
  <2>6. ~SeederDies
    BY <1>1 DEF SeederDies, Fail, Loading, TInv, TypeOK
  <2>7. ~(\E id \in PolicyIds : Switch("policies", id)) /\ ~(\E id \in SodIds : Switch("sod", id))
    BY <2>3 DEF Switch
  <2> QED BY <2>2, <2>3, <2>4, <2>5, <2>6, <2>7 DEF Next, vars
<1>3. Base = [name \in TableNames |-> Base[name]]
  BY <1>1, EmptyTablesTyped DEF Base, TInv, AreTables
<1>4. work = Written(Base, Corpus(seeder.read), "committing")
  BY <1>2 DEF Commit, PInv, InProgress, Writing, AfterEntitlements
<1> QED BY <1>2, <1>3, <1>4, WrittenAtEnds DEF Commit

\* Whatever the extracts hold, the scripts, the files and the tables have values
\* the code can give them: every row of every table, committed or not, has the
\* columns and ranges of its table, and no risk score that is not a number gets
\* into one (seed_database.py, the models of app/db/models/).
THEOREM LoaderTyped == Spec => []TypeOK
<1>1. PInv => TypeOK
  BY DEF PInv, TInv
<1> QED BY <1>1, SpecPInv, PTL

\* Loading again what the last successful load read changes nothing but what an
\* operator switched: whatever was converted, failed or died meanwhile, all of
\* that load is in the tables (session_scope commits all of `seed` or nothing,
\* and every upsert lets its batch win).
THEOREM ReloadIsNoChange == Spec => []ReloadChangesNothing
<1>1. PInv => ReloadChangesNothing
  BY DEF PInv
<1> QED BY <1>1, SpecPInv, PTL

\* The commit of a load switches on every control its corpus describes, also the
\* ones an operator had switched off (`enabled` is a column of the upserts).
THEOREM LoadsSwitchOn == Spec => LoadSwitchesControlsOn
<1> DEFINE c == Corpus(seeder.read)
<1>1. ASSUME PInv, [Next]_vars, Loading
      PROVE  /\ \A id \in DOMAIN BuildPolicies(c) : db'.policies[id].enabled
             /\ \A id \in DOMAIN BuildSodRules(c) : db'.sod[id].enabled
  <2>1. CorpusTyped(c)
    BY <1>1, CorpusIsTyped DEF PInv, TInv, TypeOK
  <2> HIDE DEF c
  <2>2. db' = LoadInto(Base, c)
    BY <1>1, CommitsTheLoad DEF c
  <2>3. /\ db'.policies = Upsert(Base.policies, BuildPolicies(c))
        /\ db'.sod = Upsert(Base.sod, BuildSodRules(c))
    BY <2>2 DEF LoadInto
  <2>4. /\ \A id \in DOMAIN BuildPolicies(c) : db'.policies[id] = BuildPolicies(c)[id]
        /\ \A id \in DOMAIN BuildSodRules(c) : db'.sod[id] = BuildSodRules(c)[id]
    BY <2>3 DEF Upsert
  <2> QED BY <2>1, <2>4, PoliciesTyped, SodRulesTyped
<1> QED BY <1>1, SpecPInv, PTL DEF Spec, LoadSwitchesControlsOn

\* A load with --purge-all leaves exactly its corpus, and any other one forgets
\* no row of any table (upserts never delete; the purge and the load are one
\* transaction).
THEOREM OnlyPurgesForget == Spec => OnlyPurgeAllForgets
<1> DEFINE c == Corpus(seeder.read)
           Forgets ==
             IF seeder.purge THEN db' = LoadInto(EmptyTables, c)
             ELSE /\ db.holdings \subseteq db'.holdings
                  /\ \A table \in {"entitlements", "employees", "policies", "sod"} :
                       DOMAIN db[table] \subseteq DOMAIN db'[table]
<1>1. ASSUME PInv, [Next]_vars, Loading PROVE Forgets
  <2>1. db' = LoadInto(Base, c)
    BY <1>1, CommitsTheLoad
  <2>2. CASE seeder.purge
    BY <2>1, <2>2 DEF Base
  <2>3. CASE ~seeder.purge
    <3>1. db' = LoadInto(db, c)
      BY <2>1, <2>3 DEF Base
    <3>2. \A old, batch : DOMAIN old \subseteq DOMAIN Upsert(old, batch)
      BY DEF Upsert
    <3> QED BY <2>3, <3>1, <3>2 DEF LoadInto
  <2> QED BY <2>2, <2>3
<1> QED BY <1>1, SpecPInv, PTL DEF Spec, OnlyPurgeAllForgets

\* A load is one change of the tables, whatever fails, dies or is converted while its
\* statements are executed; nothing else but a switch changes them (seed_database.py
\* main, session_scope).
THEOREM LoaderImplementsReference == Spec => ImplementsReference
<1>1. Init => Reference!Init
  BY DEF Init, Reference!Init
<1>2. ASSUME PInv, [Next]_vars PROVE Reference!Next \/ UNCHANGED <<db, loaded>>
  <2>1. CASE Commit
    <3>1. Loading /\ seeder.read \in [Files -> Versions] /\ seeder.purge \in BOOLEAN
      BY <1>2, <2>1 DEF Commit, SeederTo, Loading, PInv, TInv, TypeOK
    <3>2. db' = LoadedInto(IF seeder.purge THEN EmptyTables ELSE db, seeder.read)
      BY <1>2, <3>1, CommitsTheLoad DEF Base, LoadedInto
    <3>3. Reference!Load(seeder.read, seeder.purge)
      BY <2>1, <3>2 DEF Commit, Reference!Load
    <3>4. seeder.read \in loaded'
      BY <2>1 DEF Commit
    <3> QED BY <3>1, <3>3, <3>4 DEF Reference!Next
  <2>2. ASSUME NEW table \in {"policies", "sod"}, NEW id, Switch(table, id) PROVE Reference!Next
    <3>1. Reference!Switch(table, id) /\ id \in DOMAIN db[table]
      BY <2>2 DEF Switch, Reference!Switch
    <3> QED BY <3>1 DEF Reference!Next
  <2>3. CASE \/ \E v \in Versions : StartConversion(v)
             \/ OpenFile \/ FillFile \/ ConverterDies
             \/ \E purge \in BOOLEAN : StartLoad(purge)
             \/ Purge \/ ReadFiles \/ LoadEntitlements \/ LoadEmployees \/ LoadHoldings
             \/ LoadPolicies \/ LoadSodRules \/ SeederDies \/ UNCHANGED vars
    BY <2>3 DEF StartConversion, OpenFile, FillFile, ConverterDies, StartLoad, Purge, ReadFiles,
      LoadEntitlements, LoadEmployees, LoadHoldings, LoadPolicies, LoadSodRules, Statement,
      SeederDies, seedVars, vars
  <2> QED BY <1>2, <2>1, <2>2, <2>3 DEF Next
<1> QED BY <1>1, <1>2, SpecPInv, PTL DEF Spec, ImplementsReference, Reference!Spec
=============================================================================
