----------------------------- MODULE ChatQuery ------------------------------
(***************************************************************************)
(* POST /chat: a question becomes a query, the query is checked and capped, *)
(* executed once and rolled back, and its rows are put into words.  Each   *)
(* stage may fail and says so in the answer.                               *)
(*                                                                         *)
(* Sources: app/services/chat_service.py, sql_guard.py, readonly_query.py, *)
(* app/api/routes/chat.py.                                                 *)
(***************************************************************************)
EXTENDS Integers, FiniteSets

CONSTANTS Queries,   \* the SQL a model may come up with, as far as validate looks
          MaxRows    \* ask()'s max_rows

\* The LIMIT of a query that has none, or none that is a number.
NoLimit == -1

\* `limit` is the query's own LIMIT;
\* `tables` are those it reads, its CTEs' names left out.
QueryShapes ==
  [statements : 0..2, select : BOOLEAN, forbidden : BOOLEAN,
   tables : SUBSET {"recommendations", "alembic_version"}, limit : Nat \union {NoLimit}]

ASSUME ChatConstants == Queries \subseteq QueryShapes /\ MaxRows \in Nat

VARIABLE chat    \* the conversation: stage, query, and the ChatAnswer so far

ReadableTables == {"recommendations"}    \* those of READABLE_TABLES in play

NoQuery == [statements |-> 0, select |-> FALSE, forbidden |-> FALSE, tables |-> {},
            limit |-> NoLimit]

ChatPcs == {"idle", "asked", "generated", "validated", "executed", "answered", "unavailable"}

ChatInit ==
  chat = [pc |-> "idle", query |-> NoQuery, matched |-> {}, rows |-> 0, truncated |-> FALSE,
          generator |-> "LLM", error |-> FALSE]

Stage(pc) == chat.pc = pc

Answer(fields) == chat' = [chat EXCEPT !.pc = "answered", !.generator = fields[1],
                                       !.error = fields[2]]

\* Without a model there is no chat: 503.
Ask(available) ==
  /\ Stage("idle")
  /\ chat' = [chat EXCEPT !.pc = IF available THEN "asked" ELSE "unavailable"]

GenerateSql ==
  /\ Stage("asked")
  /\ \/ Answer(<<"LLM", TRUE>>)            \* LlmError
     \/ Answer(<<"REFUSED", FALSE>>)       \* CANNOT_ANSWER
     \/ \E q \in Queries : chat' = [chat EXCEPT !.pc = "generated", !.query = q]

Safe(q) ==
  /\ q.statements = 1 /\ q.select /\ ~q.forbidden
  /\ q.tables # {} /\ q.tables \subseteq ReadableTables

Validate ==
  /\ Stage("generated")
  /\ IF Safe(chat.query) THEN chat' = [chat EXCEPT !.pc = "validated"]
     ELSE Answer(<<"LLM", TRUE>>)          \* UnsafeSqlError

\* Mutant of Limit: the query's own limit is trusted.
LimitTrusted(q) == IF q.limit # NoLimit THEN q.limit ELSE MaxRows

\* The cap: the query's own limit when it is the smaller one.
Limit(q) == IF q.limit # NoLimit /\ q.limit < MaxRows THEN q.limit ELSE MaxRows

Smaller(m, n) == IF m < n THEN m ELSE n

\* Mutant of Truncated: the cap has to be passed, not reached.
TruncatedBeyond(rows, limit) == rows > limit

Truncated(rows, limit) == rows >= limit

\* One statement, so one state of the store; the transaction is read-only and
\* always rolled back.  `matched` is what the query would return without a cap.
Execute(rows) ==
  /\ Stage("validated")
  /\ LET n == Smaller(Cardinality(rows), Limit(chat.query))
     IN chat' = [chat EXCEPT !.pc = "executed", !.matched = rows, !.rows = n,
                             !.truncated = Truncated(n, Limit(chat.query))]

\* Timed out, or refused by the database.
ExecuteFails ==
  /\ Stage("validated")
  /\ Answer(<<"LLM", TRUE>>)               \* QueryExecutionError

\* The rows are there: when the model cannot phrase them they are the answer.
Phrase ==
  /\ Stage("executed")
  /\ Answer(<<"LLM", FALSE>>) \/ Answer(<<"ROWS_ONLY", TRUE>>)

-----------------------------------------------------------------------------
(* Properties *)

\* The variable keeps its type.
ChatTypeOK ==
  /\ chat.pc \in ChatPcs /\ chat.query \in Queries \union {NoQuery}
  /\ chat.rows \in 0..MaxRows /\ chat.truncated \in BOOLEAN /\ chat.error \in BOOLEAN
  /\ chat.generator \in {"LLM", "REFUSED", "ROWS_ONLY"}

\* No row is dropped silently: an answer that shows fewer rows than there are says
\* that it is truncated, whether the cap or the query's own limit took them
\* (ChatService.ask; it also says so when exactly as many rows as allowed exist).
TruncationIsTold ==
  Stage("answered") /\ chat.rows < Cardinality(chat.matched) => chat.truncated
=============================================================================
