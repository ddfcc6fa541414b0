--------------------------- MODULE MCProvisioning ---------------------------
(* Small instances of Provisioning for TLC. *)
EXTENDS Provisioning, TLC

Interchangeable == Permutations(Call) \union Permutations(Ref)
=============================================================================
