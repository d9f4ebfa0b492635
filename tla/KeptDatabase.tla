---------------------------- MODULE KeptDatabase ----------------------------
(***************************************************************************)
(* The databases an earlier installation left, and what a new one does     *)
(* with them (installer-core/kept_db): SENTIENT's database, under name 0,  *)
(* is used again when its history fits the new installation's type, or is  *)
(* set aside under a name of its own.  dbs gives the database under each   *)
(* name: the installation that made it (of), the shape of its history      *)
(* table, and who its administrator is.                                    *)
(***************************************************************************)
EXTENDS Naturals

CONSTANT None      \* no database under a name; nothing there

Flavors == {"stock", "timescaledb", "clickhouse"}
(* A plain history table without a row, and one with rows.                 *)
Unpartitioned == {"plain", "filled"}
(* The databases installations numbered by names make.                     *)
Databases(names) ==
  [of : names, shape : {"missing", "plain", "filled", "partitioned", "hypertable"},
   admin : {"none", "default", "chosen"}]

(* CREATE DATABASE: nothing is in it yet.                                  *)
Created(n) == [of |-> n, shape |-> "missing", admin |-> "none"]
(* A database an installation finished.                                    *)
Finished(shape) == [of |-> 0, shape |-> shape, admin |-> "chosen"]

(* Variant with a fault: a partitioned history is not refused.             *)
VerdictLenient(shape, flavor) ==
  IF shape = "hypertable" /\ flavor = "stock" THEN "refused"
  ELSE IF shape \in Unpartitioned /\ flavor = "timescaledb" THEN "convert"
  ELSE "fine"
(* verdict: what keeping a history of this shape under a type takes.       *)
Verdict(shape, flavor) ==
  IF <<shape, flavor>> \in {<<"hypertable", "stock">>, <<"partitioned", "timescaledb">>} THEN "refused"
  ELSE IF shape \in Unpartitioned /\ flavor = "timescaledb" THEN "convert"
  ELSE "fine"

SetAside(dbs, n) == [dbs EXCEPT ![0] = None, ![n] = dbs[0]]
Converted(dbs) == [dbs EXCEPT ![0].shape = "hypertable"]

(* prepare_existing, of installation n.                                    *)
Refuses(dbs, existing, flavor) ==
  dbs[0] # None /\ existing = "keep" /\ Verdict(dbs[0].shape, flavor) = "refused"
Prepared(dbs, existing, flavor, n) ==
  IF dbs[0] = None THEN dbs
  ELSE IF existing = "fresh" THEN SetAside(dbs, n)
  ELSE IF Verdict(dbs[0].shape, flavor) = "convert" THEN Converted(dbs)
  ELSE dbs

(* What SENTIENT's schema installer (external) makes of a database, and    *)
(* set_admin_account of the administrator it makes.                        *)
WithSchema(db, shape) ==
  IF db # None /\ db.shape = "missing" THEN [db EXCEPT !.shape = shape, !.admin = "default"] ELSE db
WithAdministrator(db) == IF db.admin = "default" THEN [db EXCEPT !.admin = "chosen"] ELSE db
(* The shapes a type is served from.                                       *)
Shapes(flavor) ==
  CASE flavor = "stock" -> {"partitioned"}
    [] flavor = "timescaledb" -> {"hypertable"}
    [] flavor = "clickhouse" -> Unpartitioned \union {"partitioned", "hypertable"}

Holds(dbs, n) == \E k \in DOMAIN dbs : dbs[k] # None /\ dbs[k].of = n
=============================================================================
