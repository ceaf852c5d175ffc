---------------------------- MODULE TradingCycle ----------------------------
(***************************************************************************)
(* The trading thread: run_once builds one snapshot of the account for all *)
(* symbols and then runs run_paper_cycle for each of them, while operators *)
(* change the mode and the lock through the control plane and the process  *)
(* may fail between any two commits.                                       *)
(*                                                                         *)
(* A cycle reads the mode once, at its start, scans the open position for  *)
(* an exit, screens a candidate (strategy, AI, pre-trade risk, sizing)     *)
(* against the snapshot, reads the lock only at the gate, and commits an   *)
(* order and its fill together, the order_executed event after them.       *)
(*                                                                         *)
(* A position is counted in lots: a BUY adds one, a SELL names how many it *)
(* removes.  The account is rebuilt from all fills on every iteration;     *)
(* held is what that rebuild gives, and poisoned says that it raises       *)
(* because some SELL exceeds what its predecessors had bought.             *)
(***************************************************************************)
EXTENDS ControlRows, RiskPolicy, Naturals, FiniteSets, Sequences

CONSTANTS
  Symbols,          \* the symbols run_once is called for
  Limits,           \* [dailyOrders, symbolTrades, losses]: 15, 4, 4 in the code
  MaxDay,           \* bound: days simulated
  MaxTroubles,      \* bound: midnights, exceptions and crashes together
  Backends          \* of {TRUE, FALSE}: whether the database keeps time zones; SQLite does not

ASSUME TradingAssumption ==
  /\ IsFiniteSet(Symbols)
  /\ Limits \in [dailyOrders : Nat, symbolTrades : Nat, losses : Nat]
  /\ MaxDay \in Nat \ {0}
  /\ MaxTroubles \in Nat
  /\ Backends \subseteq BOOLEAN
  /\ Absent \notin Modes \union LockValues

Days == 1..MaxDay

VARIABLES
  day,        \* the current UTC day
  held,       \* lots of each symbol the rebuilt account holds
  poisoned,   \* the rebuild raises
  aware,      \* the time stamps of the database are aware
  orders,     \* the orders table, in the order of its ids
  announced,  \* history: order_executed events
  pc,         \* where the trading thread stands
  iter,       \* the snapshot of this iteration and the symbols still to run
  cyc,        \* the symbol and the mode of this cycle
  rebuilds,   \* history: outcome of the last attempt to build the inputs
  buysOff,    \* history: BUYs committed since the mode left paper_auto
  shadowsOff, \* history: shadow records since the mode left live_shadow
  shadowsLocked, \* history: shadow records since the lock was engaged
  faults      \* exceptions and crashes so far

ledger == <<held, poisoned, aware, orders>>
thread == <<pc, iter, cyc>>
vars == <<rows, day, ledger, announced, thread, rebuilds,
          buysOff, shadowsOff, shadowsLocked, faults>>

Sides == {"BUY", "SELL"}

OrderRecords == [day : Days, sym : Symbols, side : Sides]

\* The ids of the orders created on day d, of those for symbol s, of the BUYs.
OrdersOn(d) == {i \in DOMAIN orders : orders[i].day = d}

OrdersFor(d, s) == {i \in OrdersOn(d) : orders[i].sym = s}

BuysOn(d) == {i \in OrdersOn(d) : orders[i].side = "BUY"}

NoSnapshot ==
  [day |-> 1, todo |-> {}, pos |-> [s \in Symbols |-> 0],
   dailyOrders |-> 0, symbolTrades |-> [s \in Symbols |-> 0]]

Init ==
  /\ RowsInit
  /\ day = 1
  /\ held = [s \in Symbols |-> 0]
  /\ poisoned = FALSE
  /\ aware \in Backends
  /\ orders = << >>
  /\ announced = 0
  /\ pc = "idle"
  /\ iter = NoSnapshot
  /\ cyc \in [sym : Symbols, mode : {DefaultMode}]
  /\ rebuilds = "ok"
  /\ buysOff = 0
  /\ shadowsOff = 0
  /\ shadowsLocked = 0
  /\ faults = 0

-----------------------------------------------------------------------------
(* One iteration: run_once. *)

\* Rebuilding the account raises on an oversold symbol; counting today's orders
\* compares a naive created_at with an aware midnight as soon as SQLite returns
\* one order.
BuildRaises ==
  \/ poisoned
  \/ ~aware /\ orders # << >>

BeginIteration ==
  /\ pc = "idle"
  /\ ~BuildRaises
  /\ iter' = [day |-> day, todo |-> Symbols, pos |-> held,
              dailyOrders |-> Cardinality(OrdersOn(day)),
              symbolTrades |-> [s \in Symbols |-> Cardinality(OrdersFor(day, s))]]
  /\ pc' = "next"
  /\ rebuilds' = "ok"
  /\ UNCHANGED <<rows, day, ledger, announced, cyc, buysOff, shadowsOff, shadowsLocked, faults>>

\* run_loop records cycle_error and sleeps until the next iteration.
FailIteration ==
  /\ pc = "idle"
  /\ BuildRaises
  /\ rebuilds' = "raised"
  /\ UNCHANGED <<rows, day, ledger, announced, thread,
                 buysOff, shadowsOff, shadowsLocked, faults>>

\* Snapshot and mode are locals of run_once and run_paper_cycle: neither outlives
\* the iteration.
LeaveIteration ==
  /\ pc' = "idle"
  /\ iter' = NoSnapshot
  /\ cyc' = [cyc EXCEPT !.mode = DefaultMode]

EndIteration ==
  /\ pc = "next"
  /\ iter.todo = {}
  /\ LeaveIteration
  /\ UNCHANGED <<rows, day, ledger, announced, rebuilds,
                 buysOff, shadowsOff, shadowsLocked, faults>>

-----------------------------------------------------------------------------
(* One cycle: run_paper_cycle. *)

OnlyThread == UNCHANGED <<rows, day, ledger, announced, rebuilds,
                          buysOff, shadowsOff, shadowsLocked, faults>>

\* Fault for mutation: a symbol that is listed twice has two cycles.
StartAgain(s) ==
  /\ pc = "next"
  /\ s \in iter.todo
  /\ iter' \in {iter, [iter EXCEPT !.todo = @ \ {s}]}
  /\ cyc' = [sym |-> s, mode |-> TradeMode(rows)]
  /\ pc' = IF iter.pos[s] > 0 THEN "exit" ELSE "screen"
  /\ OnlyThread

\* Fault for mutation: the mode read by the first cycle serves the whole iteration.
StartWithOldMode(s) ==
  /\ pc = "next"
  /\ s \in iter.todo
  /\ iter' = [iter EXCEPT !.todo = @ \ {s}]
  /\ cyc' = [sym |-> s, mode |-> IF iter.todo = Symbols THEN TradeMode(rows) ELSE cyc.mode]
  /\ pc' = IF iter.pos[s] > 0 THEN "exit" ELSE "screen"
  /\ OnlyThread

\* Fault for mutation: positions are not scanned for an exit.
StartWithoutExitScan(s) ==
  /\ pc = "next"
  /\ s \in iter.todo
  /\ iter' = [iter EXCEPT !.todo = @ \ {s}]
  /\ cyc' = [sym |-> s, mode |-> TradeMode(rows)]
  /\ pc' = "screen"
  /\ OnlyThread

StartCycle(s) ==
  /\ pc = "next"
  /\ s \in iter.todo
  /\ iter' = [iter EXCEPT !.todo = @ \ {s}]
  /\ cyc' = [sym |-> s, mode |-> TradeMode(rows)]
  /\ pc' = IF iter.pos[s] > 0 THEN "exit" ELSE "screen"
  /\ OnlyThread

\* No market price, no rule that triggers, a price the executor refuses: the
\* cycle goes on to its entry scan.
ExitScan ==
  /\ pc = "exit"
  /\ pc' \in {"screen", "sell"}
  /\ UNCHANGED <<iter, cyc>>
  /\ OnlyThread

\* created_at is the instant at which the iteration began.
InsertOrder(side) ==
  orders' = Append(orders, [day |-> iter.day, sym |-> cyc.sym, side |-> side])

\* Fault for mutation: the cycle of an executed exit ends without its event.
SellSilently ==
  /\ pc = "sell"
  /\ held' = [held EXCEPT ![cyc.sym] = 0]
  /\ InsertOrder("SELL")
  /\ pc' = "next"
  /\ UNCHANGED <<rows, day, poisoned, aware, announced, iter, cyc, rebuilds,
                 buysOff, shadowsOff, shadowsLocked, faults>>

\* Mode, lock and gate are not consulted for an exit.
Sell ==
  LET s == cyc.sym
      qty == iter.pos[s]
  IN  /\ pc = "sell"
      /\ IF qty > held[s]
           THEN poisoned' = TRUE /\ UNCHANGED held
           ELSE held' = [held EXCEPT ![s] = @ - qty] /\ UNCHANGED poisoned
      /\ InsertOrder("SELL")
      /\ pc' = "sold"
      /\ UNCHANGED <<rows, day, aware, announced, iter, cyc, rebuilds,
                     buysOff, shadowsOff, shadowsLocked, faults>>

\* What the candidate is judged on: the snapshot's counters; the rest of the
\* snapshot depends on prices and is unconstrained.
Snapshot(fresh, loss, totalFull, symbolFull, losses) ==
  [killSwitch |-> FALSE, fresh |-> fresh, loss |-> loss,
   totalFull |-> totalFull, symbolFull |-> symbolFull,
   dailyOrders |-> iter.dailyOrders, symbolTrades |-> iter.symbolTrades[cyc.sym],
   losses |-> losses]

\* No candidate, an AI rejection and a size below the minimum end the cycle as
\* a risk rejection does.
Screen ==
  /\ pc = "screen"
  /\ \/ pc' = "next"
     \/ /\ \E fresh, totalFull, symbolFull \in BOOLEAN,
              loss \in RiskVerdicts \ {"emergency_stop"}, losses \in {0, Limits.losses} :
             PreTradeApproved(Snapshot(fresh, loss, totalFull, symbolFull, losses), Limits)
        /\ pc' = "gate"
  /\ UNCHANGED <<iter, cyc>>
  /\ OnlyThread

Gate ==
  /\ pc = "gate"
  /\ pc' = CASE Decide(cyc.mode, LockEngaged(rows), TRUE, FALSE) = "paper" -> "buy"
             [] Decide(cyc.mode, LockEngaged(rows), TRUE, FALSE) = "shadow" -> "shadow"
             [] OTHER -> "next"
  /\ UNCHANGED <<iter, cyc>>
  /\ OnlyThread

\* The executor refuses a price that is not positive.
RefuseBuy ==
  /\ pc = "buy"
  /\ pc' = "next"
  /\ UNCHANGED <<iter, cyc>>
  /\ OnlyThread

Buy ==
  /\ pc = "buy"
  /\ held' = [held EXCEPT ![cyc.sym] = @ + 1]
  /\ InsertOrder("BUY")
  /\ buysOff' = IF TradeMode(rows) = "paper_auto" THEN 0 ELSE buysOff + 1
  /\ pc' = "bought"
  /\ UNCHANGED <<rows, day, poisoned, aware, announced, iter, cyc, rebuilds,
                 shadowsOff, shadowsLocked, faults>>

RecordShadow ==
  /\ pc = "shadow"
  /\ shadowsOff' = IF TradeMode(rows) = "live_shadow" THEN 0 ELSE shadowsOff + 1
  /\ shadowsLocked' = IF LockEngaged(rows) THEN shadowsLocked + 1 ELSE 0
  /\ pc' = "next"
  /\ UNCHANGED <<rows, day, ledger, announced, iter, cyc, rebuilds, buysOff, faults>>

\* order_executed and cycle_finished.
Announce ==
  /\ pc \in {"sold", "bought"}
  /\ announced' = announced + 1
  /\ pc' = "next"
  /\ UNCHANGED <<rows, day, ledger, iter, cyc, rebuilds,
                 buysOff, shadowsOff, shadowsLocked, faults>>

-----------------------------------------------------------------------------
(* Faults, the clock and the operators. *)

Troubles == day - 1 + faults

Fault ==
  /\ Troubles < MaxTroubles
  /\ faults' = faults + 1
  /\ UNCHANGED <<rows, day, ledger, announced, rebuilds,
                 buysOff, shadowsOff, shadowsLocked>>

\* A read in another session, the scorer or a calculation raises before the
\* cycle has committed an order: run_once records cycle_error and goes on.
CycleRaises ==
  /\ pc \in {"exit", "screen", "gate", "shadow"}
  /\ pc' = "next"
  /\ UNCHANGED <<iter, cyc>>
  /\ Fault

\* The process dies, or a failed flush leaves the session of run_once unusable:
\* the rest of the iteration is lost, whatever was committed stays.
Abort ==
  /\ pc # "idle"
  /\ LeaveIteration
  /\ Fault

Midnight ==
  /\ day < MaxDay
  /\ Troubles < MaxTroubles
  /\ day' = day + 1
  /\ UNCHANGED <<rows, ledger, announced, thread, rebuilds,
                 buysOff, shadowsOff, shadowsLocked, faults>>

Operator ==
  /\ RowsNext
  /\ buysOff' = IF TradeMode(rows') = "paper_auto" THEN 0 ELSE buysOff
  /\ shadowsOff' = IF TradeMode(rows') = "live_shadow" THEN 0 ELSE shadowsOff
  /\ shadowsLocked' = IF LockEngaged(rows') THEN shadowsLocked ELSE 0
  /\ UNCHANGED <<day, ledger, announced, thread, rebuilds, faults>>

Trade ==
  \/ BeginIteration \/ FailIteration \/ EndIteration
  \/ \E s \in Symbols : StartCycle(s)
  \/ ExitScan \/ Sell \/ Screen \/ Gate \/ RefuseBuy \/ Buy \/ RecordShadow \/ Announce

Next == Trade \/ CycleRaises \/ Abort \/ Midnight \/ Operator

Spec == Init /\ [][Next]_vars

\* The trading thread keeps running; operators, faults and midnight need not come.
FairSpec == Spec /\ WF_vars(Trade)

-----------------------------------------------------------------------------
(* Properties. *)

Stages == {"idle", "next", "exit", "sell", "sold", "screen", "gate", "buy", "bought", "shadow"}

TypeOK ==
  /\ rows \in [RowKeys -> Modes \union LockValues \union {Absent}]
  /\ day \in Days
  /\ held \in [Symbols -> Nat]
  /\ poisoned \in BOOLEAN /\ aware \in BOOLEAN
  /\ orders \in Seq(OrderRecords)
  /\ announced \in Nat
  /\ pc \in Stages
  /\ iter \in [day : Days, todo : SUBSET Symbols, pos : [Symbols -> Nat],
               dailyOrders : Nat, symbolTrades : [Symbols -> Nat]]
  /\ cyc \in [sym : Symbols, mode : Modes]
  /\ rebuilds \in {"ok", "raised"}
  /\ buysOff \in Nat /\ shadowsOff \in Nat /\ shadowsLocked \in Nat
  /\ faults \in Nat

\* A SELL sells the position of the snapshot, not of the moment: no crash,
\* exception or order of symbols lets that exceed what the fills add up to, which
\* would make every later rebuild of the account raise.
NeverOversold == ~poisoned

\* An operator who leaves paper_auto, leaves live_shadow or engages the lock
\* stops entries: one cycle that had already read the old value may still commit
\* its entry, and no second one does.
StopsAreEffective ==
  /\ buysOff <= 1
  /\ shadowsOff <= 1
  /\ shadowsLocked <= 1

\* The daily limits as the code keeps them.  The count of a symbol is exact; the
\* count over all symbols is of the snapshot, so the symbols of one iteration may
\* pass the check together.
DailyLimitsHold ==
  \A d \in Days :
    /\ \A s \in Symbols :
         Cardinality(BuysOn(d) \intersect OrdersFor(d, s)) <= Limits.symbolTrades
    /\ Cardinality(BuysOn(d)) < Limits.dailyOrders + Cardinality(Symbols)

\* Each order is announced by one order_executed event, except for one order
\* per fault: the event follows the order in a commit of its own.
OrdersAnnounced ==
  LET pending == IF pc \in {"sold", "bought"} THEN 1 ELSE 0
  IN  /\ announced + pending <= Len(orders)
      /\ Len(orders) <= announced + pending + faults

\* The inputs cannot be built any more: SQLite has returned an order.
AccountFrozen == ~aware /\ rebuilds = "raised"

\* On a database that keeps time zones an open position is looked at again: until it
\* is closed it is scanned for an exit in ever new iterations, whatever the operators
\* do with mode and lock, over midnight, faults and the entries and exits of other
\* symbols.  On SQLite, the default and the only backend installed, that ends with the
\* first order: unless the iteration that made it is still to scan the position, every
\* later one raises at runner.py:145 before its first cycle, and no position is
\* scanned again.
PositionsScanned ==
  \A s \in Symbols :
    []<>(held[s] = 0 \/ (pc = "exit" /\ cyc.sym = s) \/ AccountFrozen)

\* What the comment at runner.py:142 says: "Preserve UTC timezone so comparison with
\* timezone-aware created_at is valid", so building the inputs does not raise.
BuildSucceeds == rebuilds = "ok"

\* "paused: No new orders" (design spec, section 8): a cycle that read paused
\* commits no order.
PausedPlacesNoOrders == cyc.mode = "paused" => pc \notin {"sold", "bought"}

-----------------------------------------------------------------------------
(* The strengthening that makes the safety properties inductive. *)

\* The stages of a cycle that has not committed anything yet.
Undecided == {"exit", "sell", "screen", "gate", "buy", "shadow"}

\* The symbols that may still be ordered in this iteration.
Remaining == iter.todo \union (IF pc \in Undecided THEN {cyc.sym} ELSE {})

\* One cycle per symbol: the one that runs is no longer to do.
CyclesDistinct == pc \notin {"idle", "next"} => cyc.sym \notin iter.todo

\* The snapshot is exact for every symbol this iteration may still order.
SnapshotExact ==
  pc # "idle" =>
    \A s \in Remaining :
      /\ iter.pos[s] = held[s]
      /\ iter.symbolTrades[s] = Cardinality(OrdersFor(iter.day, s))

\* Over all symbols it lags behind by at most one order per finished symbol.
SnapshotLag ==
  pc # "idle" =>
    Cardinality(OrdersOn(iter.day))
      <= iter.dailyOrders + Cardinality(Symbols \ Remaining)

\* What a cycle past its screening was found to satisfy.
Screened ==
  pc \in {"gate", "buy", "shadow"} =>
    /\ iter.dailyOrders < Limits.dailyOrders
    /\ iter.symbolTrades[cyc.sym] < Limits.symbolTrades

\* The one entry that may follow a stop is spent, or is the running cycle's.
Pending(mode) == pc \in Undecided /\ cyc.mode = mode

StopsPending ==
  /\ pc = "buy" => cyc.mode = "paper_auto"
  /\ pc = "shadow" => cyc.mode = "live_shadow"
  /\ buysOff > 0 => TradeMode(rows) # "paper_auto" /\ ~Pending("paper_auto")
  /\ shadowsOff > 0 => TradeMode(rows) # "live_shadow" /\ ~Pending("live_shadow")
  /\ shadowsLocked > 0 => LockEngaged(rows) /\ pc # "shadow"

IInv ==
  /\ TypeOK
  /\ RowsInContract
  /\ CyclesDistinct
  /\ SnapshotExact
  /\ SnapshotLag
  /\ Screened
  /\ StopsPending
  /\ NeverOversold
  /\ StopsAreEffective
  /\ DailyLimitsHold
  /\ OrdersAnnounced
=============================================================================
