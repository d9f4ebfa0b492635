------------------------------ MODULE MCSetup ------------------------------
(* Setup with two passwords and two ports. *)
EXTENDS Setup

(* Every type, over a kept cluster both ways; the password of SENTIENT's   *)
(* role, PostgreSQL's admin password and its port are the first again, or  *)
(* others.                                                                 *)
Filled == {<<1, 1, 1>>, <<2, 1, 2>>, <<1, 2, 1>>}
MCPlans ==
  {[flavor |-> f, existing |-> e, pw |-> v[1], super |-> v[2], port |-> v[3]] :
    f \in Flavors, e \in {"none", "keep", "fresh"}, v \in Filled}

(* Everywhere but where setup run again does not finish: TimescaleDB's     *)
(* files without the line that loads it, and the new port in the file      *)
(* while PostgreSQL runs on the old one.  Starting, restarting and deleting *)
(* may get stuck half way.                                                 *)
MCMayFail == Steps \ {"timescale", "preload", "service", "start"}
MCTearAt == {"start", "tune", "clean"}
(* And a download, or unpacking the package, may be interrupted.           *)
MCTearFiles == MCTearAt \union {"postgres", "timescale", "stage"}
=============================================================================
