------------------------------ MODULE MCSwaps ------------------------------
(* Prices that move within and beyond the tolerance; the routes of one of    *)
(* the counter assets are too long for a round trip in one transaction.      *)
EXTENDS Swaps
CONSTANTS Near, Far
MCCounters == {Near, Far}
MCPremiums == {0, 2, 8}
MCDetours == {0, 10}
MCHops == [leg \in Legs |-> IF Far \in {leg[1], leg[2]} THEN 4 ELSE 0]
=============================================================================
