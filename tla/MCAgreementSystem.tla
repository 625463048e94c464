------------------------- MODULE MCAgreementSystem -------------------------
(* Small instance: one account that is owner, initiator, controller and    *)
(* issuer; one did:soroban DID.                                            *)
EXTENDS AgreementSystem

MCAccountOf == [d \in SorobanDids |-> CHOOSE a \in Accounts : TRUE]
MCAmounts == {1}
MCNone == {}
=============================================================================
