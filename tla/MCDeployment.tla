--------------------------- MODULE MCDeployment ---------------------------
(* Two replicas and one visit beside a seed job that is run twice. *)
EXTENDS Deployment
CONSTANTS r1, r2, v1
MCReplicas == {r1, r2}
MCVisits == {v1}
MCLeavers == {r1}
===========================================================================
