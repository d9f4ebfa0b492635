---------------------------- MODULE MCSafeUpdate ----------------------------
(* SafeUpdate on two or three versions and two or three items. *)
EXTENDS SafeUpdate

(* Every version ships every item. *)
MCShipsAll == [v \in Versions |-> Items]

CONSTANT Newer
(* Versions of the set Newer ship one item more than the installed one. *)
MCShipsMore == [v \in Versions |-> IF v \in Newer THEN Items ELSE Items \ {NItems}]

(* Every call of the two jobs. *)
MCAnywhere == Steps \ {"idle"}

(* Every call but the two whose failure the code does not recover from:    *)
(* removing the earlier previous-version, and moving the current version's *)
(* items to rolled-back-version.                                           *)
MCRecoverable == MCAnywhere \ {"clear", "r_aside"}

(* Of these, the calls after whose failure SENTIENT is started again: not   *)
(* stopping it (it may stop later than the update waits), not letting      *)
(* connections in, not the last start of a refused update itself.          *)
MCRestartable == MCRecoverable \ {"stop", "r_stop", "open", "aborting"}
=============================================================================
