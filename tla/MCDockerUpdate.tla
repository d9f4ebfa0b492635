--------------------------- MODULE MCDockerUpdate ---------------------------
(* DockerUpdate on two versions and one or two image references. *)
EXTENDS DockerUpdate

(* Every call of the two jobs. *)
MCAnywhere == Steps \ {"idle"}

(* Every call but the ones whose failure the code does not recover from:   *)
(* stopping SENTIENT when the pull has moved the tag, and moving it back   *)
(* when the update is refused.                                             *)
MCRecoverable == MCAnywhere \ {"stop", "abort"}
=============================================================================
