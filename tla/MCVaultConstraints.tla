-------------------------- MODULE MCVaultConstraints --------------------------
(* The two accounts of the vault phase.                                    *)
EXTENDS VaultConstraints

ServerThenAgent == <<"vault", "vault-agent-injector">>
=============================================================================
