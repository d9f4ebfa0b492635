---------------------------- MODULE MCMigration ----------------------------
(* Migration with two months of two times each. *)
EXTENDS Migration

MCMonthOf == [t \in Time |-> IF t <= 2 THEN 1 ELSE 2]
(* History in both months. *)
MCHistories == {{<<1, 1>>, <<1, 3>>}}
(* ... or none yet. *)
MCOrNone == MCHistories \union {{}}

MCAnywhere == Steps \ {"idle"}
(* Every step but those whose failure the code does not recover from: the   *)
(* new table, the latest values, the record and the state file.             *)
MCRecoverable == MCAnywhere \ {"create", "latest", "record", "save", "image_back",
                               "u_stop", "u_stores", "u_deploy"}
(* Every step but those at which the job needs SENTIENT stopped.           *)
MCServing == {"prepare", "stop", "record", "save", "copy", "copy_latest", "finish"}
=============================================================================
