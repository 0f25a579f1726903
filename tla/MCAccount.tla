------------------------------ MODULE MCAccount -------------------------------
(* Two plans, one of them without a limit, and small allowances, so that a   *)
(* downgrade leaves the usage above the new limit.                           *)
EXTENDS Account
Limits == [free |-> 0, pro |-> 1, team |-> None]
Symmetric == Permutations(Replicas) \cup Permutations(Adders)
=============================================================================
