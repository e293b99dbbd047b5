---------------------------- MODULE MCServeFleet ----------------------------
(***************************************************************************)
(* Small fleets for TLC: checkouts of one repo on one machine, all running *)
(* the same agent, so that they compete for every issue.                   *)
(***************************************************************************)
EXTENDS ServeFleet, TLC

MCKeyOf == [w \in Workers |-> [name |-> w, repo |-> "repo", machine |-> "host"]]

MCAgentOf == [w \in Workers |-> "codex"]

WorkerSymmetry == Permutations(Workers)
=============================================================================
