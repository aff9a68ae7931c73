--------------------------- MODULE GovernanceStore ---------------------------
(***************************************************************************)
(* The audit store with all its users: the writers of AuditStore, the      *)
(* readers of AuditReads and the chat of ChatQuery, which asks the same    *)
(* tables by SQL.                                                          *)
(***************************************************************************)
EXTENDS AuditReads, ChatQuery

vars == <<storeVars, readVars, chat>>

StoreSpecInit == Init /\ ReadInit /\ ChatInit

\* One reader at a time (bound), the chat included.
ChatNext ==
  /\ \/ get.pc = "idle" /\ ~board.started /\ Ask(llm)
     \/ GenerateSql \/ Validate \/ Execute(recommendations) \/ ExecuteFails \/ Phrase
  /\ UNCHANGED <<storeVars, readVars>>

Next ==
  \/ StoreNext /\ UNCHANGED <<readVars, chat>>
  \/ (chat.pc = "idle" /\ ReadNext) /\ UNCHANGED chat
  \/ ChatNext

Spec == StoreSpecInit /\ [][Next]_vars

\* Every variable keeps its type.
TypeOK == StoreTypeOK /\ ReadTypeOK /\ ChatTypeOK

\* A chat answer never rests on part of an analysis: the query sees all decisions
\* of an analysis or none, also while it is being written or wiped.
ChatSeesWholeAnalyses ==
  \A a \in Analyses : RowsOf(a) \intersect chat.matched \in {{}, RowsOf(a)}
=============================================================================
