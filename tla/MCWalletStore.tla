---------------------------- MODULE MCWalletStore ----------------------------
(* One wallet with a seed, one without, two processes.                       *)
EXTENDS WalletStore
==============================================================================
