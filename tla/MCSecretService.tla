-------------------------- MODULE MCSecretService --------------------------
(* Small instances of SecretService for TLC. *)
EXTENDS SecretService
=============================================================================
