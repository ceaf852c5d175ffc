---------------------------- MODULE MCControlPlane ----------------------------
(* Request sets that TLC checks ControlPlane on. *)
EXTENDS ControlPlane

ModeRequest(n, to, unlock, dry) ==
  [id |-> n, key |-> "trade_mode", to |-> to, unlock |-> unlock, dryRun |-> dry]

LockRequest(n, to) ==
  [id |-> n, key |-> "live_trading_lock", to |-> to, unlock |-> FALSE, dryRun |-> FALSE]

\* Two operators race for the mode while a third person works the lock and
\* somebody tries live_small_auto with every flag set.
RacingRequests ==
  { ModeRequest(1, "paused", FALSE, FALSE),
    ModeRequest(2, "live_shadow", FALSE, FALSE),
    ModeRequest(3, "live_small_auto", TRUE, FALSE),
    LockRequest(4, "engaged") }

\* Changes to and fro, one of them rehearsed, one at a time.
SerialRequests ==
  { ModeRequest(1, "paused", FALSE, FALSE),
    ModeRequest(2, "live_shadow", FALSE, FALSE),
    ModeRequest(3, "live_small_auto", TRUE, FALSE),
    ModeRequest(4, "paused", FALSE, TRUE) }

\* One pause, posted once.
PauseRequest == { ModeRequest(1, "paused", FALSE, FALSE) }

\* What it takes to enter live_shadow with the lock on.
ShadowRequests ==
  { ModeRequest(1, "live_shadow", FALSE, FALSE), LockRequest(2, "engaged") }
=============================================================================
