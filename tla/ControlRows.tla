----------------------------- MODULE ControlRows -----------------------------
(***************************************************************************)
(* What the control plane promises to the processes that read it: the two  *)
(* rows of runtime_control are registers, each change is one atomic write  *)
(* of a legal value, a row once created is never deleted, and the mode row *)
(* never holds live_small_auto.  TradingCycle runs against this contract;  *)
(* ControlPlane, the request handlers, implements it.                      *)
(***************************************************************************)
EXTENDS ExecutionPolicy

CONSTANT Absent   \* a row that has not been inserted yet

VARIABLE rows

RowKeys == {"trade_mode", "live_trading_lock"}

LockValues == {"engaged", "released"}

ReachableModes == Modes \ {"live_small_auto"}

ContractValues(k) == IF k = "trade_mode" THEN ReachableModes ELSE LockValues

RowsInit ==
  /\ rows \in [RowKeys -> ReachableModes \union LockValues \union {Absent}]
  /\ \A k \in RowKeys : rows[k] \in ContractValues(k) \union {Absent}

WriteRow(k, v) == rows' = [rows EXCEPT ![k] = v]

RowsNext == \E k \in RowKeys : \E v \in ContractValues(k) : WriteRow(k, v)

RowsSpec == RowsInit /\ [][RowsNext]_rows

\* Fault for mutation: the default of an absent row is forgotten.
TradeModeNoDefault(rs) == rs["trade_mode"]

\* The readers' view: an absent row reads as its default.
TradeMode(rs) ==
  IF rs["trade_mode"] = Absent THEN DefaultMode ELSE rs["trade_mode"]

LockEngaged(rs) == rs["live_trading_lock"] = "engaged"

-----------------------------------------------------------------------------
\* Each row is absent or holds a value of its own kind, and the mode row never
\* holds live_small_auto: what the loops that read the rows may rely on.
RowsInContract == \A k \in RowKeys : rows[k] \in ContractValues(k) \union {Absent}
=============================================================================
