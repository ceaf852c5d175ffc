----------------------------- MODULE RiskPolicy -----------------------------
(***************************************************************************)
(* The pure rules of the risk engine.  Money is counted in cents and       *)
(* percentages in tenths of a percent, so each comparison of the code is   *)
(* an exact comparison of products here and no quotient is rounded.        *)
(***************************************************************************)
EXTENDS Integers, FiniteSets

RiskVerdicts == {"normal", "degraded", "no_new_positions", "global_pause", "emergency_stop"}

Profile(lo, hi, caution, noNew, pause, risk, hardCap, symbol, total) ==
  [minEquity |-> lo, maxEquity |-> hi,
   caution |-> caution, noNewPositions |-> noNew, globalPause |-> pause,
   maxTradeRisk |-> risk, hardCap |-> hardCap,
   maxSymbolPosition |-> symbol, maxTotalPosition |-> total]

\* maxEquity 0 stands for the open end of the last tier.
DefaultRiskProfiles ==
  << Profile(      0,  100000, 50, 70, 100, 15, 20, 300, 700),
     Profile( 100000, 1000000, 30, 50,  70, 10, 15, 250, 600),
     Profile(1000000,       0, 20, 40,  50,  5, 10, 200, 500) >>

Covers(p, equity) ==
  /\ p.minEquity <= equity
  /\ p.maxEquity = 0 \/ equity < p.maxEquity

\* The first tier that covers the equity, the last one when none does.
SelectRiskProfile(equity) ==
  LET tiers == {i \in DOMAIN DefaultRiskProfiles : Covers(DefaultRiskProfiles[i], equity)}
  IN  IF tiers = {}
        THEN DefaultRiskProfiles[3]
        ELSE DefaultRiskProfiles[CHOOSE i \in tiers : \A j \in tiers : i <= j]

\* loss_pct >= tenths/10, for a baseline above zero.
LossReaches(dayStart, equity, tenths) ==
  (dayStart - equity) * 1000 >= tenths * dayStart

\* Fault for mutation: the mildest threshold is tried first.
ClassifyCautionFirst(dayStart, equity, p) ==
  IF LossReaches(dayStart, equity, p.caution) THEN "degraded"
  ELSE IF LossReaches(dayStart, equity, p.noNewPositions) THEN "no_new_positions"
  ELSE IF LossReaches(dayStart, equity, p.globalPause) THEN "global_pause"
  ELSE "normal"

ClassifyDailyLoss(dayStart, equity, p) ==
  IF LossReaches(dayStart, equity, p.globalPause) THEN "global_pause"
  ELSE IF LossReaches(dayStart, equity, p.noNewPositions) THEN "no_new_positions"
  ELSE IF LossReaches(dayStart, equity, p.caution) THEN "degraded"
  ELSE "normal"

-----------------------------------------------------------------------------
(* Pre-trade risk.  A snapshot s says whether the kill switch is on, the   *)
(* data is fresh, the daily loss class, whether the total and the symbol   *)
(* position have reached the profile's limit, and the three counters.      *)

\* Fault for mutation: the counters may pass their limits by one.
LimitPassed(s, limits) ==
  s.totalFull \/ s.symbolFull \/ s.dailyOrders > limits.dailyOrders
    \/ s.symbolTrades > limits.symbolTrades \/ s.losses > limits.losses

LimitReached(s, limits) ==
  \/ s.totalFull
  \/ s.symbolFull
  \/ s.dailyOrders >= limits.dailyOrders
  \/ s.symbolTrades >= limits.symbolTrades
  \/ s.losses >= limits.losses

PreTradeState(s, limits) ==
  IF s.killSwitch THEN "emergency_stop"
  ELSE IF ~s.fresh THEN "no_new_positions"
  ELSE IF s.loss \in {"no_new_positions", "global_pause"} THEN s.loss
  ELSE IF LimitReached(s, limits) THEN "no_new_positions"
  ELSE IF s.loss = "degraded" THEN "degraded"
  ELSE "normal"

PreTradeApproved(s, limits) == PreTradeState(s, limits) \in {"normal", "degraded"}
=============================================================================
