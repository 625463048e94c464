---------------------------- MODULE MCTradeDesk ----------------------------
(* Two requests, or a request and a terminal, with nobody watching; or two  *)
(* browsers and one request.                                                *)
EXTENDS TradeDesk

CONSTANTS q1, q2, c1, t1, t2

MCModes == {[who |-> {q1, q2}, jobs |-> 3],
            [who |-> {q1, c1}, jobs |-> 2],
            [who |-> {q1, t1, t2}, jobs |-> 1]}
==========================================================================
