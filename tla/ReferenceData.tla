---------------------------- MODULE ReferenceData ----------------------------
(***************************************************************************)
(* What a seed load promises those who read the reference tables, without  *)
(* saying how: a load is one change of all the tables, made from whatever  *)
(* mixture of extracts its files held; a load that fails or dies is no     *)
(* change; and nothing else changes the tables but an operator's switches. *)
(* SeedLoad implements it.                                                 *)
(*                                                                         *)
(* Sources: scripts/seed_database.py main and seed, app/db/session.py      *)
(* session_scope, docker/entrypoint.sh.                                    *)
(***************************************************************************)
CONSTANTS Mixtures,        \* what a load may find in its files
          NoTables,        \* the tables of an empty database
          LoadedInto(_, _) \* LoadedInto(t, m): what all of mixture m makes of tables t

VARIABLES tables, \* the reference tables
          last    \* the mixture loaded last: none or one

Init == tables = NoTables /\ last = {}

Load(m, purge) ==
  /\ last' = {m}
  /\ tables' = LoadedInto(IF purge THEN NoTables ELSE tables, m)

\* An operator switches a policy or an SoD rule.
Switch(table, id) ==
  /\ tables' = [tables EXCEPT ![table][id].enabled = ~@]
  /\ UNCHANGED last

\* `last` tells which mixture it was: TLC need not try them all.
Next ==
  \/ \E m \in last' \intersect Mixtures, purge \in BOOLEAN : Load(m, purge)
  \/ \E table \in {"policies", "sod"} : \E id \in DOMAIN tables[table] : Switch(table, id)

Spec == Init /\ [][Next]_<<tables, last>>
=============================================================================
