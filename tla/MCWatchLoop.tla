---------------------------- MODULE MCWatchLoop ----------------------------
(***************************************************************************)
(* Two deployments that /v1/detect takes for one service.                  *)
(***************************************************************************)
EXTENDS WatchLoop, TLC

CONSTANTS d1, d2, svc

MCDeployments == {d1, d2}
MCServices == {svc}
MCServiceOf == [d \in MCDeployments |-> svc]

DeploymentSymmetry == Permutations(MCDeployments)
=============================================================================
