---------------------------- MODULE MCLinuxSetup ----------------------------
(* LinuxSetup with two passwords and the default port. *)
EXTENDS LinuxSetup

(* The passwords of SENTIENT's users in PostgreSQL and in ClickHouse are   *)
(* the first again, or one or both are not.                                *)
Filled == {<<1, 1>>, <<2, 1>>, <<2, 2>>}
MCPlans ==
  {[flavor |-> f, existing |-> e, pw |-> v[1], chpw |-> v[2], port |-> 5432] :
    f \in {"stock", "clickhouse"}, e \in {"none", "keep", "fresh"}, v \in Filled}

(* SENTIENT's setting 2 is one it does not start with.                     *)
MCValues == {[app |-> 0, pg |-> 0], [app |-> 1, pg |-> 0], [app |-> 2, pg |-> 1]}
(* A parameter PostgreSQL does not start with.                             *)
MCTooLarge == {[app |-> 0, pg |-> 0], [app |-> 0, pg |-> 1]}

(* Every step but putting settings back and saving the record of new ones. *)
MCMayFail == Steps \ ({"settings"} \X {"record", "back"})
MCMayTear == Steps \intersect (Kinds \X {"reissue", "unit", "remove"})
(* ... or the death of a job between PostgreSQL's parameters and the record *)
(* of them, which nothing sets back.                                       *)
MCMayDie == MCMayFail \ ({"settings"} \X {"launch", "answer"})
=============================================================================
