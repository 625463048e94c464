----------------------------- MODULE MCPayments -----------------------------
(* A claim of an issued asset, one of an issued asset that is called XLM, and *)
(* one of lumens.                                                             *)
EXTENDS Payments
MCAssetOf == <<CHOOSE a \in Issued \ Namesakes : TRUE, CHOOSE a \in Namesakes : TRUE, Native>>
=============================================================================
