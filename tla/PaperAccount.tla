----------------------------- MODULE PaperAccount -----------------------------
(***************************************************************************)
(* Paper trading in money: the iterations of the loop buy and sell, the    *)
(* committed fills are all that is kept, and three readers rebuild the     *)
(* account from them, each with arithmetic of its own: the loop            *)
(* (_build_cycle_inputs with PortfolioAccount), /runtime/status and        *)
(* /analytics/summary.  The status also reconciles what it rebuilt with    *)
(* the exchange, which is a mock for now.                                  *)
(*                                                                         *)
(* Money is counted in cents and quantities in whole units of the coin.    *)
(* The strategy, the AI and the counters of the risk engine decide whether *)
(* there is an entry and how large it is: here any entry is possible that  *)
(* the position limits and the sizing admit.                               *)
(***************************************************************************)
EXTENDS RiskPolicy, SequencesExt

CONSTANTS
  Symbols,      \* the traded symbols, in the order of the cycles
  Prices,       \* the market prices of one unit
  Quantities,   \* the quantities an entry may ask for
  InitialCash,  \* initial_cash_usdt
  FeeBps,       \* fee_bps of the executor
  MinNotional,  \* min_notional
  TakeProfit,   \* take_profit_pct of the exit engine
  MaxHold,      \* max_hours of the exit engine, in ticks
  Precise,      \* quantities up to which the qty column is exact
  MaxTick,      \* bound: the clock
  MaxFills      \* bound: committed fills

ASSUME SymbolsAssumption == Symbols \in Seq(STRING) /\ IsInjective(Symbols) /\ Symbols # <<>>
ASSUME MoneyAssumption ==
  /\ Prices \subseteq Nat \ {0} /\ Quantities \subseteq Nat \ {0}
  /\ InitialCash \in Nat \ {0} /\ MinNotional \in Nat /\ FeeBps \in 0..9999
ASSUME ExitAssumption == TakeProfit \in Nat \ {0} /\ MaxHold \in Nat \ {0}
ASSUME PrecisionAssumption == Precise \in Nat
ASSUME BoundAssumption == MaxTick \in Nat /\ MaxFills \in Nat

SymbolSet == ToSet(Symbols)

VARIABLES
  fills,     \* the committed fills, in commit order, which is filled_at order
  clock,
  iteration  \* the iteration that is running: its snapshot and how far it is

vars == <<fills, clock, iteration>>

-----------------------------------------------------------------------------
(* The account of the loop.  A position keeps its cost, quantity times      *)
(* average entry price; quantity 0 is no position.                          *)

NoPosition == [qty |-> 0, cost |-> 0, fees |-> 0, opened |-> 0]

\* The part of x that belongs to q of the p.qty units.
Share(p, q, x) == IF q >= p.qty THEN x ELSE (x * q) \div p.qty

\* Fault for mutation: each addition renews the time of opening.
ApplyBuyRenewing(a, f) ==
  [a EXCEPT !.cash = @ - (f.qty * f.price + f.fee),
            !.positions[f.symbol] =
               [qty |-> @.qty + f.qty, cost |-> @.cost + f.qty * f.price,
                fees |-> @.fees + f.fee, opened |-> f.at]]

ApplyBuy(a, f) ==
  [a EXCEPT !.cash = @ - (f.qty * f.price + f.fee),
            !.positions[f.symbol] =
               [qty |-> @.qty + f.qty, cost |-> @.cost + f.qty * f.price,
                fees |-> @.fees + f.fee,
                opened |-> IF @.qty = 0 THEN f.at ELSE @.opened]]

\* To sell more than is held raises, here it would leave a negative quantity.
ApplySell(a, f) ==
  LET p     == a.positions[f.symbol]
      cost  == Share(p, f.qty, p.cost)
      fees  == Share(p, f.qty, p.fees)
  IN  [cash |-> a.cash + f.qty * f.price - f.fee,
       realized |-> a.realized + f.qty * f.price - cost - fees - f.fee,
       positions |-> [a.positions EXCEPT ![f.symbol] =
          IF p.qty = f.qty THEN NoPosition
          ELSE [@ EXCEPT !.qty = @ - f.qty, !.cost = @ - cost, !.fees = @ - fees]]]

ApplyFill(a, f) == IF f.side = "BUY" THEN ApplyBuy(a, f) ELSE ApplySell(a, f)

Opening == [cash |-> InitialCash, realized |-> 0, positions |-> [s \in SymbolSet |-> NoPosition]]

\* The sum of a function on the symbols.
Total(value) ==
  LET upTo[n \in 0..Len(Symbols)] == IF n = 0 THEN 0 ELSE upTo[n - 1] + value[Symbols[n]]
  IN  upTo[Len(Symbols)]

Worth(p, price) == p.qty * price

-----------------------------------------------------------------------------
(* The two other rebuilds.  The status keeps quantity and average price.    *)
(* The analytics keep the average of the last purchase, as the cost basis   *)
(* and the quantity of that moment, and sell from the quantity alone.       *)

\* A position sold out, or one that is not held, is not held afterwards.
LeftAfter(held, f) == IF f.qty >= held THEN 0 ELSE held - f.qty

StatusFill(v, f) ==
  IF f.side = "BUY"
    THEN [v EXCEPT !.cash = @ - (f.qty * f.price + f.fee),
                   !.qty[f.symbol] = @ + f.qty,
                   !.cost[f.symbol] = @ + f.qty * f.price]
    ELSE LET held == v.qty[f.symbol]
             left == LeftAfter(held, f)
         IN  [cash |-> v.cash + f.qty * f.price - f.fee,
              qty  |-> [v.qty EXCEPT ![f.symbol] = left],
              cost |-> [v.cost EXCEPT ![f.symbol] =
                          IF left = 0 THEN 0 ELSE (@ * left) \div held]]

AnalyticsFill(v, f) ==
  LET qty == v.qty[f.symbol]
  IN  IF f.side = "BUY"
        THEN [cash |-> v.cash - (f.qty * f.price + f.fee),
              qty  |-> [v.qty EXCEPT ![f.symbol] = @ + f.qty],
              cost |-> [v.cost EXCEPT ![f.symbol] =
                          (IF qty = 0 THEN 0 ELSE @) + f.qty * f.price],
              lot  |-> [v.lot EXCEPT ![f.symbol] = qty + f.qty]]
        ELSE [v EXCEPT !.cash = @ + f.qty * f.price - f.fee,
                       !.qty[f.symbol] = LeftAfter(@, f)]

Nothing == [s \in SymbolSet |-> 0]

\* Each reader goes through the rows in filled_at order; here they do it side by side.
Unread ==
  [loop      |-> Opening,
   status    |-> [cash |-> InitialCash, qty |-> Nothing, cost |-> Nothing],
   analytics |-> [cash |-> InitialCash, qty |-> Nothing, cost |-> Nothing, lot |-> Nothing]]

ReadFill(r, f) ==
  [loop      |-> ApplyFill(r.loop, f),
   status    |-> StatusFill(r.status, f),
   analytics |-> AnalyticsFill(r.analytics, f)]

Rebuilt(rows) ==
  LET upTo[n \in 0..Len(rows)] == IF n = 0 THEN Unread ELSE ReadFill(upTo[n - 1], rows[n])
  IN  upTo[Len(rows)]

Account == Rebuilt(fills).loop

StatusAccount == Rebuilt(fills).status

AnalyticsAccount == Rebuilt(fills).analytics

\* The profit the analytics attribute to a symbol that was sold, times the
\* quantity it bought: all proceeds against the average price of all purchases,
\* less every fee, the sales' fees once with the proceeds and once again.
ScaledProfit(s) ==
  LET Of(side)   == SelectSeq(fills, LAMBDA f : f.symbol = s /\ f.side = side)
      Sum(g(_), fs) == FoldLeft(LAMBDA n, f : n + g(f), 0, fs)
      Qty(f)     == f.qty
      Gross(f)   == f.qty * f.price
      Fee(f)     == f.fee
      bought     == Sum(Qty, Of("BUY"))
  IN  bought * ( Sum(Gross, Of("SELL")) - 2 * Sum(Fee, Of("SELL")) - Sum(Fee, Of("BUY")) )
        - Sum(Qty, Of("SELL")) * Sum(Gross, Of("BUY"))

-----------------------------------------------------------------------------
(* Reconciliation of the status' account with the mock of the exchange,     *)
(* which holds the initial cash and nothing else.                           *)

Distance(x, y) == IF x < y THEN y - x ELSE x - y

Reconciliation ==
  LET cash    == Distance(StatusAccount.cash, InitialCash)
      differ  == Cardinality({s \in SymbolSet : StatusAccount.qty[s] # 0})
  IN  IF cash > 1000 \/ differ >= 3 THEN "global_pause_recommended"
      ELSE IF cash > 100 THEN "balance_mismatch"
      ELSE IF differ > 0 THEN "position_mismatch"
      ELSE "ok"

-----------------------------------------------------------------------------
(* One iteration: run_once.                                                 *)

Idle == [on |-> FALSE]

Init ==
  /\ fills = <<>>
  /\ clock = 0
  /\ iteration = Idle

\* total_equity, floored at the initial cash.
Equity(a, prices) ==
  LET total == a.cash + Total([s \in SymbolSet |-> Worth(a.positions[s], prices[s])])
  IN  IF total > InitialCash THEN total ELSE InitialCash

\* _build_cycle_inputs: all that the cycles of the iteration look at, among it
\* the market prices of this moment.
Begin ==
  /\ ~iteration.on
  /\ LET a == Account
     IN  \E prices \in [SymbolSet -> Prices] :
           iteration' = [on |-> TRUE, next |-> 1, now |-> clock, prices |-> prices,
                         positions |-> a.positions, equity |-> Equity(a, prices),
                         entered |-> {}, raised |-> {}]
  /\ UNCHANGED <<fills, clock>>

Cycling == iteration.on /\ iteration.next <= Len(Symbols)

Symbol == Symbols[iteration.next]

Held == iteration.positions[Symbol]

Price == iteration.prices[Symbol]

\* The rules of ExitEngine that can trigger: no position carries a stop.
TakesProfit == Price * Held.qty * 100 >= Held.cost * (100 + TakeProfit)

TimedOut == iteration.now - Held.opened >= MaxHold

ExitDue == Held.qty > 0 /\ (TakesProfit \/ TimedOut)

\* Fault for mutation: the cycle stays with its symbol.
StayOnSymbol(entered) == [iteration EXCEPT !.entered = @ \union entered]

NextSymbol(entered) ==
  [iteration EXCEPT !.next = @ + 1, !.entered = @ \union entered]

\* Fault for mutation: an exit closes a third of the position.
OneThird(p) == (p.qty + 2) \div 3

\* qty_to_exit of every rule.
QtyToExit(p) == p.qty

\* What the qty column gives back: SQLite keeps a double, whose precision is
\* relative; beyond Precise it holds even quantities, and rounds ties to even.
Stored(q) ==
  IF q <= Precise \/ q % 2 = 0 THEN q
  ELSE IF q % 4 = 1 THEN q - 1 ELSE q + 1

\* record_paper_execution
Commit(side, q, fee, entered) ==
  /\ Len(fills) < MaxFills
  /\ fills' = Append(fills, [symbol |-> Symbol, side |-> side, qty |-> Stored(q),
                             price |-> Price, fee |-> fee, at |-> iteration.now])
  /\ iteration' = NextSymbol(entered)
  /\ UNCHANGED clock

\* _run_exit_scan with a signal; there is no entry in the same cycle.
Exit ==
  /\ Cycling
  /\ ExitDue
  /\ LET q == QtyToExit(Held)
     IN  Commit("SELL", q, (q * Price * FeeBps) \div 10000, {})

SymbolCap == SelectRiskProfile(iteration.equity).maxSymbolPosition

TotalCap == SelectRiskProfile(iteration.equity).maxTotalPosition

AtLeast(value, cap) == value * 1000 >= cap * iteration.equity

SnapshotWorth == [s \in SymbolSet |-> Worth(iteration.positions[s], iteration.prices[s])]

\* Fault for mutation: the position of the symbol itself is not limited.
TotalBelowCap == ~AtLeast(Total(SnapshotWorth), TotalCap)

\* The position limits of evaluate_pre_trade_risk, on the iteration's snapshot.
BelowCaps ==
  /\ ~AtLeast(Total(SnapshotWorth), TotalCap)
  /\ ~AtLeast(SnapshotWorth[Symbol], SymbolCap)

\* The fee is taken out of the notional before the quantity is computed.
Enter(q) ==
  LET gross    == q * Price
      fee      == (gross * FeeBps) \div (10000 - FeeBps)
  IN  /\ Cycling
      /\ ~ExitDue
      /\ BelowCaps
      /\ gross + fee >= MinNotional
      /\ (gross + fee) * 1000 <= SymbolCap * iteration.equity
      /\ Commit("BUY", q, fee, {Symbol})

\* The exit is due but the cycle raises before its commit, as when the mode cannot
\* be read: run_once goes on with the next symbol.
ExitRaises ==
  /\ Cycling
  /\ ExitDue
  /\ iteration' = [NextSymbol({}) EXCEPT !.raised = @ \union {Symbol}]
  /\ UNCHANGED <<fills, clock>>

\* No candidate, a rejection, or an entry that raises before its commit.
Skip ==
  /\ Cycling
  /\ ~ExitDue
  /\ iteration' = NextSymbol({})
  /\ UNCHANGED <<fills, clock>>

\* The last cycle is over, or an exception or a kill ends the iteration early.
End ==
  /\ iteration.on
  /\ iteration' = Idle
  /\ UNCHANGED <<fills, clock>>

\* An iteration reads the clock once, so it may as well stand still meanwhile.
Tick ==
  /\ ~iteration.on
  /\ clock < MaxTick
  /\ clock' = clock + 1
  /\ UNCHANGED <<fills, iteration>>

Next ==
  \/ Begin \/ Exit \/ ExitRaises \/ Skip \/ End \/ Tick
  \/ \E q \in Quantities : Enter(q)

Spec == Init /\ [][Next]_vars

-----------------------------------------------------------------------------
(* Properties. *)

\* The account that is rebuilt is one that PortfolioAccount can hold.
TypeOK ==
  /\ Len(fills) <= MaxFills
  /\ clock \in 0..MaxTick
  /\ LET positions == Account.positions
     IN  \A s \in SymbolSet :
           /\ positions[s].qty \in Nat /\ positions[s].cost \in Nat
           /\ positions[s].fees \in Nat /\ positions[s].opened \in 0..clock
  /\ iteration.on => iteration.next \in 1..(Len(Symbols) + 1)

\* One history, one account: the loop, the status and the analytics agree on the
\* cash, on every quantity and on every average price, although they average
\* differently when a position is sold; and the realised profit, the open costs
\* and the fees explain where the cash went.
AccountsAgree ==
  LET r == Rebuilt(fills)  a == r.loop  st == r.status  an == r.analytics
  IN  /\ st.cash = a.cash /\ an.cash = a.cash
      /\ \A s \in SymbolSet : LET p == a.positions[s] IN
           /\ st.qty[s] = p.qty /\ an.qty[s] = p.qty
           /\ p.qty > 0 => st.cost[s] = p.cost /\ an.cost[s] * p.qty = p.cost * an.lot[s]
      /\ a.cash + Total([s \in SymbolSet |-> a.positions[s].cost + a.positions[s].fees]) - a.realized
           = InitialCash

\* When the position of s was opened: its first purchase since it was last sold.
FirstPurchase(s) ==
  LET open == {i \in DOMAIN fills :
                 \A j \in i..Len(fills) : fills[j].symbol = s => fills[j].side = "BUY"}
  IN  fills[CHOOSE i \in open : /\ fills[i].symbol = s
                                /\ \A j \in open : fills[j].symbol = s => i <= j].at

\* Behind an iteration no exit is left over: a symbol whose cycle is done and did
\* not raise holds nothing that was first bought too long ago or that stands at
\* its target, whatever was added to the position since.
ExitsAreTaken ==
  iteration.on =>
    LET positions == Account.positions
    IN  \A i \in 1..(iteration.next - 1) :
      LET s == Symbols[i]  p == positions[s]
      IN  p.qty > 0 /\ s \notin iteration.raised =>
            /\ iteration.now - FirstPurchase(s) < MaxHold
            /\ iteration.prices[s] * p.qty * 100 < p.cost * (100 + TakeProfit)

\* What the positions are worth now, at the prices of the iteration.
WorthNow ==
  LET positions == Account.positions
  IN  [s \in SymbolSet |-> Worth(positions[s], iteration.prices[s])]

\* The limits are checked on a snapshot that the entries of the same iteration
\* do not change: an iteration that enters leaves a symbol below twice its limit,
\* and the account below the total limit plus a full symbol for each entry.
ExposureBounded ==
  (iteration.on /\ iteration.entered # {}) =>
    /\ \A s \in iteration.entered : ~AtLeast(WorthNow[s], 2 * SymbolCap)
    /\ ~AtLeast(Total(WorthNow), TotalCap + Cardinality(iteration.entered) * SymbolCap)

\* Spot trading on 500 USDT: the account never spends cash it does not have.
CashCovers == Account.cash >= 0

\* max_total_position_pct: an iteration that enters leaves the account within it.
TotalCapKept ==
  (iteration.on /\ iteration.entered # {}) =>
    ~AtLeast(Total(WorthNow), TotalCap + 1)

\* accounting.py:73 refuses to sell more than is held: what an exit sold is covered
\* by the purchases before it, or no later iteration can rebuild the account.
SalesCovered == \A s \in SymbolSet : Account.positions[s].qty >= 0

\* The runbook's status table: an account that nobody tampers with reconciles.
ReconciliationIsQuiet == Reconciliation # "global_pause_recommended"

\* A symbol that was traded once and closed at a profit is not counted as a
\* losing trade by the analytics.
ProfitIsNoLoss ==
  (Len(fills) = 2 /\ fills[2].side = "SELL" /\ Account.realized > 0)
     => ScaledProfit(fills[2].symbol) >= 0
=============================================================================
