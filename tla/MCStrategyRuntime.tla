------------------------- MODULE MCStrategyRuntime -------------------------
(* The runtime of one strategy, run either by one runner, whose bot always *)
(* wants orders, or by one scheduler, whose bot may want none.             *)
EXTENDS StrategyRuntime

MCSetups == {[launched |-> Runners, mayWantNothing |-> FALSE],
             [launched |-> Schedulers, mayWantNothing |-> TRUE]}
=============================================================================
