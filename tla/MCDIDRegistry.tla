--------------------------- MODULE MCDIDRegistry ---------------------------
(* Small instance: two accounts, one of the two DIDs derived from alice. *)
EXTENDS DIDRegistry

CONSTANT alice
MCAccountOf == [d \in SorobanDids |-> alice]
=============================================================================
