--------------------------- MODULE ExecutionPolicy ---------------------------
(***************************************************************************)
(* The pure decision tables of the control plane: which mode transition is *)
(* legal, where the execution gate routes a candidate, what pre-flight     *)
(* requires before live_small_auto, and what the release gate tells the    *)
(* operator.  Nothing here has state; ControlPlane and TradingCycle call   *)
(* these operators where the code calls the functions.                     *)
(***************************************************************************)

Modes == {"paused", "paper_auto", "live_shadow", "live_small_auto"}

\* Modes whose routing the live trading lock blocks.
LiveModes == {"live_shadow", "live_small_auto"}

DefaultMode == "paper_auto"

RiskStates ==
  {"normal", "degraded", "no_new_positions", "global_pause", "emergency_stop"}

\* What resolving the risk state may return to a handler.
ResolvedRiskStates == RiskStates \union {"unavailable"}

BreakerTripped(risk) == risk \in {"global_pause", "emergency_stop"}

-----------------------------------------------------------------------------
(* The execution gate. *)

\* The route of a mode alone, with no lock and no risk verdict.
ComputeExecutionRoute(mode) ==
  IF mode = "paper_auto" THEN "paper"
  ELSE IF mode = "live_shadow" THEN "shadow"
  ELSE "blocked"

\* The route the gate lets a candidate take.
Decide(mode, locked, riskApproved, killSwitch) ==
  IF \/ killSwitch
     \/ locked /\ mode \in LiveModes
     \/ mode = "paper_auto" /\ ~riskApproved
    THEN "blocked"
    ELSE ComputeExecutionRoute(mode)

-----------------------------------------------------------------------------
(* Mode transitions and the pre-flight suite. *)

\* Fault for mutation: live_small_auto needs no lock.
TransitionWithoutLock(from, to, locked, unlock) ==
  from = to \/ to # "live_small_auto" \/ (from \notin {"paused", "paper_auto"} /\ unlock)

TransitionAllowed(from, to, locked, unlock) ==
  \/ from = to
  \/ to # "live_small_auto"
  \/ /\ from \notin {"paused", "paper_auto"}
     /\ unlock
     /\ locked

\* Fault for mutation: the lock is not checked.
PreFlightIgnoresLock(keys, whitelisted, locked, risk) ==
  keys /\ whitelisted /\ ~BreakerTripped(risk)

\* keys: both Binance variables are set; whitelisted: the symbol is allowed.
PreFlightPasses(keys, whitelisted, locked, risk) ==
  /\ keys
  /\ whitelisted
  /\ ~locked
  /\ ~BreakerTripped(risk)

\* A dry run of the change to live_small_auto, as set_mode answers it when no
\* other request interferes.  same_mode answers success before any check.
DryRunSucceeds(mode, locked, keys, yaml, whitelisted, risk) ==
  \/ mode = "live_small_auto"
  \/ /\ TransitionAllowed(mode, "live_small_auto", locked, TRUE)
     /\ yaml
     /\ risk # "unavailable"
     /\ PreFlightPasses(keys, whitelisted, locked, risk)

-----------------------------------------------------------------------------
(* The release gate's verdict on a dry run of live_small_auto.             *)

GateAllowsDryRun(mode, locked, keys, yaml, risk, staleAlert) ==
  /\ keys
  /\ yaml
  /\ risk # "unavailable"
  /\ ~BreakerTripped(risk)
  /\ ~staleAlert
  /\ TransitionAllowed(mode, "live_small_auto", locked, TRUE)
=============================================================================
