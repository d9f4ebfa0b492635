---------------------------- MODULE MCDockerSetup ----------------------------
(* DockerSetup with two passwords. *)
EXTENDS DockerSetup

MCPlans ==
  {[flavor |-> f, existing |-> e, pw |-> pw] :
    f \in Flavors, e \in {"none", "keep", "fresh"}, pw \in {1, 2}}

(* Every step but the ones after whose failure the code leaves things      *)
(* apart: no database when one was set aside, the record behind what it    *)
(* records, putting back itself.                                           *)
MCMayFail ==
  Steps \ ({<<"install", "create">>} \union ({"settings", "takeover"} \X {"record", "back"}))
MCMayTear == Steps \intersect (Kinds \X {"up", "schema"})
(* ... or the manager's death, which nothing puts back.                    *)
MCMayDie == MCMayFail \ ({"settings", "takeover"} \X {"write", "up", "serve"})
=============================================================================
