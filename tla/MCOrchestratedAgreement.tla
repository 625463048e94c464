---------------------- MODULE MCOrchestratedAgreement ----------------------
(* Small instance: TLC's values for the contract's integer inputs.  No     *)
(* account and no hash (but the zero hash) is special to the contract.     *)
EXTENDS OrchestratedAgreement, TLC

MCAmounts == {-1, 1}
MCCredits == {-1, 2}
MCScores == {-1}
MCSymmetry == Permutations(Accounts) \cup Permutations(Hashes)
=============================================================================
