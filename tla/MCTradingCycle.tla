---------------------------- MODULE MCTradingCycle ----------------------------
(* Limits small enough to be reached, for TLC. *)
EXTENDS TradingCycle

SmallLimits == [dailyOrders |-> 2, symbolTrades |-> 2, losses |-> 4]
TightLimits == [dailyOrders |-> 1, symbolTrades |-> 1, losses |-> 4]

=============================================================================
