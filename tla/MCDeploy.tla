------------------------------ MODULE MCDeploy ------------------------------
(* Constants and symmetry for the model checker. *)
EXTENDS DeploySystem, TLC
\* A row once mislaid, the next deploy is of that service.
RepairNext == mislaid = {} \/ \A p \in Procs : wsvc[p] \in mislaid \cup {NoService}
OwnTree == [s \in Services |-> s]
Sym == Permutations(Sessions) \cup Permutations(Services)
=============================================================================
