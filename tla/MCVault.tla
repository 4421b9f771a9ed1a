------------------------------- MODULE MCVault -------------------------------
(***************************************************************************)
(* Vault on small instances: two processes, model values for keys, ids,    *)
(* scopes, kinds and values, a clock of a few seconds.                     *)
(***************************************************************************)
EXTENDS Vault, TLC

\* Nothing in Vault tells these apart; used in the run without liveness.
Symmetry ==
    Permutations(Proc) \cup Permutations(Id) \cup Permutations(Scope) \cup Permutations(Kind)

=============================================================================
