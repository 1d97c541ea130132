---------------------------- MODULE MCSecretStore ----------------------------
(* SecretStore with interchangeable callers, for TLC.                          *)
EXTENDS SecretStore, TLC

Symmetry == Permutations(Client)
==============================================================================
