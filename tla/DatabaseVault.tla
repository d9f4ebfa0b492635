---------------------------- MODULE DatabaseVault ----------------------------
(***************************************************************************)
(* What an update or a rollback may do to the databases of the PostgreSQL  *)
(* server, seen without their names: the vault is the set of databases     *)
(* there are, so a rename is no step at all.  Databases are copied, filled *)
(* and migrated, and dropped only when nothing is lost by it.              *)
(***************************************************************************)
EXTENDS Naturals

CONSTANT Schemas

VARIABLES
  vault,   \* the databases: identity, schema and content
  acked,   \* the writes that are to be kept
  disturbed   \* others have acted on the databases in the course of the job

Content == [id : Nat, schema : Schemas, writes : SUBSET Nat]
Held(databases) == UNION {d.writes : d \in databases}

Init ==
  /\ \E s \in Schemas : vault = {[id |-> 0, schema |-> s, writes |-> {}]}
  /\ acked = {}

(* A new database with the schema and content of another. *)
Copy ==
  /\ \E d \in vault, c \in vault' :
       /\ vault' = vault \union {c}
       /\ \A other \in vault : c.id # other.id
       /\ c.schema = d.schema /\ c.writes = d.writes
  /\ UNCHANGED acked

(* One database holds one write more; it need not be one that is kept. *)
Store ==
  \E d \in vault, e \in vault' :
    /\ e.id = d.id /\ e.schema = d.schema
    /\ vault' = (vault \ {d}) \union {e}
    /\ \E w \in e.writes \ d.writes :
         /\ e.writes = d.writes \union {w}
         /\ acked' \in {acked, acked \union {w}}

(* A schema changes only while an exact copy of the database exists, unless *)
(* others act on the databases in the course of the job.                    *)
HasExactCopy(d) ==
  \E c \in vault : c.id # d.id /\ c.schema = d.schema /\ c.writes = d.writes
Migrate ==
  /\ \E d \in vault, s \in Schemas :
       /\ disturbed' \/ HasExactCopy(d)
       /\ vault' = (vault \ {d}) \union {[d EXCEPT !.schema = s]}
  /\ UNCHANGED acked

(* Databases go whose writes, as far as they are to be kept, are in others. *)
Prune ==
  /\ vault' \subseteq vault
  /\ acked \subseteq Held(vault')
  /\ UNCHANGED acked

(* The operator removes one, and with it what only it kept. *)
Discard ==
  /\ \E d \in vault : vault' = vault \ {d}
  /\ acked' \subseteq acked
  /\ acked' \subseteq Held(vault')

Next == Copy \/ Store \/ Migrate \/ Prune \/ Discard
Spec == Init /\ [][Next]_<<vault, acked>>

=============================================================================
