--------------------------- MODULE MCChatSession ---------------------------
(* Two networks; every pair of the word classes that change a session.       *)
EXTENDS ChatSession

CONSTANTS testnet, mainnet

MCWords == {"hello", "cancel", "confirm", "number", "balance", "wallet", "trust", "pay", "swap", "set", "bye", "arbitrage"}
============================================================================
