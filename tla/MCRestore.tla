----------------------------- MODULE MCRestore -----------------------------
(* Restore with one name to restore into and three backups. *)
EXTENDS Restore

MCTargets == {<<"restored", 1>>}
MCInstallations == {
  [clickhouse |-> TRUE, docker |-> FALSE],
  [clickhouse |-> FALSE, docker |-> TRUE]}

CONSTANTS k0, k1, k2
(* An older backup of this installation; one of another installation with  *)
(* its key file; one of a newer SENTIENT, without it.                      *)
MCBackups == {
  [schema |-> "older", key |-> k0, beside |-> [now |-> k0, before |-> {}], sameType |-> TRUE],
  [schema |-> "same", key |-> k1, beside |-> [now |-> k1, before |-> {}], sameType |-> FALSE],
  [schema |-> "newer", key |-> k1, beside |-> None, sameType |-> TRUE]}

(* Every call but the exchange of a table, which fails here only when      *)
(* ClickHouse refuses that table and refuses it again.                     *)
MCNoTransient == Steps \ {"exchange"}
=============================================================================
