------------------------------ MODULE MCTunnel ------------------------------
(* Symmetry for the model checker. *)
EXTENDS TunnelShare, TLC
Sym == Permutations(Sups)
=============================================================================
