---------------------------- MODULE MCOfferReconciliation ----------------------------
EXTENDS OfferReconciliation

\* A ladder of two sells one price apart; the second is a passive offer.
CONSTANTS s0, s1

Sells == [i \in {s0, s1} |-> "sell"]
Ranks == [i \in {s0, s1} |-> IF i = s0 THEN 0 ELSE 1]
Spaced == [i \in {s0, s1} |-> IF i = s0 THEN 0 ELSE 1]
Tight == [s \in Sides |-> 2]
Ample == [s \in Sides |-> 12]
Funds == {Ample}
Modes == {{}, {"refused"}, {"taken"}, {"crash"}, {"lost"}, {"cancel"}, {"edit"}, {"hand"}, {"lost", "taken"}}
NoFaults == {{}}
Losses == {{"lost"}}
Scarce == {Tight}
====
