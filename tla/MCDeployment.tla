----------------------------- MODULE MCDeployment -----------------------------
(* Two workers share the slots of the workload, two processes a limit, and the     *)
(* target restarts or is replaced.                                            *)
EXTENDS Deployment, TLC

CONSTANTS w1, w2, p1, p2
Interchangeable == Permutations({w1, w2}) \cup Permutations({p1, p2})
=============================================================================
