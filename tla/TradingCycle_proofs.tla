------------------------- MODULE TradingCycle_proofs -------------------------
(***************************************************************************)
(* For any set of symbols, any limits and any faults: the types, that no   *)
(* symbol is oversold, that a stop lets at most one entry through, that    *)
(* the daily limits hold, that every order is announced but for faults,    *)
(* and that naive time stamps freeze the account.                          *)
(***************************************************************************)
EXTENDS TradingCycle, FiniteSetTheorems, TLAPS

USE TradingAssumption

-----------------------------------------------------------------------------
(* The rows the cycle reads keep the contract of ControlRows.               *)

RowsTyped == rows \in [RowKeys -> Modes \union LockValues \union {Absent}]

\* The database may start with any rows the contract allows.
LEMMA RowsInitially == RowsInit => RowsTyped /\ RowsInContract
BY DEF RowsInit, RowsTyped, RowsInContract, ReachableModes

\* A contract write keeps each row in its own range.
LEMMA ContractStep ==
  ASSUME RowsTyped, RowsInContract, [RowsNext]_rows
  PROVE  RowsTyped' /\ RowsInContract'
BY DEF RowsInContract, RowsNext, WriteRow, RowsTyped, RowKeys, ContractValues, ReachableModes

\* The readers see a mode that can be reached, and a Boolean.
LEMMA ReadersTyped ==
  ASSUME RowsInContract
  PROVE  TradeMode(rows) \in ReachableModes /\ LockEngaged(rows) \in BOOLEAN
BY DEF RowsInContract, RowKeys, ContractValues, ReachableModes, Modes, TradeMode, LockEngaged,
       DefaultMode

-----------------------------------------------------------------------------
(* Counting rows of the orders table. *)

\* Every selection of orders is a finite set of ids.
LEMMA SelectionsFinite ==
  ASSUME TypeOK, NEW T \in SUBSET DOMAIN orders
  PROVE  IsFiniteSet(T) /\ Cardinality(T) \in Nat
<1>1. orders \in Seq(OrderRecords)
  BY DEF TypeOK
<1>2. DOMAIN orders = 1..Len(orders) /\ Len(orders) \in Nat
  BY <1>1
<1>3. IsFiniteSet(DOMAIN orders)
  BY <1>2, FS_Interval
<1> QED
  BY <1>3, FS_Subset, FS_CardinalityType

\* An insert adds its id to the selections it belongs to, and to no other.
LEMMA InsertSelects ==
  ASSUME TypeOK, NEW side \in Sides, InsertOrder(side), NEW d \in Days, NEW s \in Symbols
  PROVE  LET n == Len(orders) + 1
             mine == d = iter.day
         IN  /\ orders' \in Seq(OrderRecords)
             /\ Len(orders') = n
             /\ n \notin DOMAIN orders
             /\ OrdersOn(d)' = IF mine THEN OrdersOn(d) \union {n} ELSE OrdersOn(d)
             /\ OrdersFor(d, s)' = IF mine /\ s = cyc.sym THEN OrdersFor(d, s) \union {n}
                                   ELSE OrdersFor(d, s)
             /\ BuysOn(d)' = IF mine /\ side = "BUY" THEN BuysOn(d) \union {n}
                             ELSE BuysOn(d)
<1> DEFINE o == [day |-> iter.day, sym |-> cyc.sym, side |-> side]
           n == Len(orders) + 1
<1>1. orders \in Seq(OrderRecords) /\ o \in OrderRecords
  BY DEF TypeOK, OrderRecords
<1>2. orders' = Append(orders, o)
  BY DEF InsertOrder
<1> HIDE DEF o
<1>3. /\ Len(orders) \in Nat /\ DOMAIN orders = 1..Len(orders)
      /\ orders' \in Seq(OrderRecords) /\ Len(orders') = n
      /\ DOMAIN orders' = (DOMAIN orders) \union {n} /\ n \notin DOMAIN orders
      /\ \A i \in DOMAIN orders : orders'[i] = orders[i]
      /\ orders'[n] = o
  BY <1>1, <1>2
<1>4. o.day = iter.day /\ o.sym = cyc.sym /\ o.side = side
  BY DEF o
<1>5. OrdersOn(d)' = IF d = iter.day THEN OrdersOn(d) \union {n} ELSE OrdersOn(d)
  BY <1>3, <1>4 DEF OrdersOn
<1>6. OrdersFor(d, s)' = {i \in OrdersOn(d)' : orders'[i].sym = s}
  BY DEF OrdersFor
<1>7. BuysOn(d)' = {i \in OrdersOn(d)' : orders'[i].side = "BUY"}
  BY DEF BuysOn
<1>8. OrdersOn(d) \subseteq DOMAIN orders
  BY DEF OrdersOn
<1>9. OrdersFor(d, s)' = IF d = iter.day /\ s = cyc.sym THEN OrdersFor(d, s) \union {n}
                         ELSE OrdersFor(d, s)
  BY <1>3, <1>4, <1>5, <1>6, <1>8 DEF OrdersFor
<1>10. BuysOn(d)' = IF d = iter.day /\ side = "BUY" THEN BuysOn(d) \union {n}
                    ELSE BuysOn(d)
  BY <1>3, <1>4, <1>5, <1>7, <1>8 DEF BuysOn
<1> QED
  BY <1>3, <1>5, <1>9, <1>10

\* Each selection is a set of order ids.
LEMMA Selections ==
  ASSUME NEW d, NEW s
  PROVE  /\ OrdersOn(d) \subseteq DOMAIN orders
         /\ OrdersFor(d, s) \subseteq OrdersOn(d)
         /\ BuysOn(d) \subseteq OrdersOn(d)
BY DEF OrdersOn, OrdersFor, BuysOn

\* One more element.
LEMMA CountInsert ==
  ASSUME TypeOK, NEW T \in SUBSET DOMAIN orders, NEW n, n \notin DOMAIN orders
  PROVE  Cardinality(T \union {n}) = Cardinality(T) + 1
BY SelectionsFinite, FS_AddElement

-----------------------------------------------------------------------------
(* The inductive invariant. *)

\* What is left between two iterations has its type.
LEMMA NothingTyped ==
  /\ NoSnapshot \in [day : Days, todo : SUBSET Symbols, pos : [Symbols -> Nat],
                     dailyOrders : Nat, symbolTrades : [Symbols -> Nat]]
  /\ DefaultMode \in Modes
<1>1. 1 \in Days
  BY DEF Days
<1> QED
  BY <1>1 DEF NoSnapshot, DefaultMode, Modes

\* The initial states: no order, no iteration, any rows.
LEMMA InitIInv == Init => IInv
<1> SUFFICES ASSUME Init PROVE IInv
  OBVIOUS
<1>1. RowsTyped /\ RowsInContract
  BY RowsInitially DEF Init
<1>2. orders = << >> /\ Len(orders) = 0 /\ DOMAIN orders = {}
  BY DEF Init
<1>3. TypeOK
  <2>1. orders \in Seq(OrderRecords)
    BY <1>2
  <2>2. 1 \in Days
    BY DEF Days
  <2>4. cyc \in [sym : Symbols, mode : Modes]
    BY NothingTyped DEF Init
  <2>5. iter \in [day : Days, todo : SUBSET Symbols, pos : [Symbols -> Nat],
                  dailyOrders : Nat, symbolTrades : [Symbols -> Nat]]
    BY NothingTyped DEF Init
  <2> QED
    BY <1>1, <2>1, <2>2, <2>4, <2>5 DEF Init, TypeOK, RowsTyped, Stages
<1>4. DailyLimitsHold
  <2>1. ASSUME NEW d \in Days, NEW s \in Symbols
        PROVE  BuysOn(d) = {} /\ BuysOn(d) \intersect OrdersFor(d, s) = {}
    BY <1>2 DEF BuysOn, OrdersOn, OrdersFor
  <2>2. Cardinality({}) = 0
    BY FS_EmptySet
  <2>3. Cardinality(Symbols) \in Nat /\ Cardinality(Symbols) > 0
    <3>1. Symbols # {}
      BY DEF Init
    <3> QED
      BY <3>1, FS_EmptySet, FS_CardinalityType
  <2>4. \A d \in Days : BuysOn(d) = {}
    BY <1>2 DEF BuysOn, OrdersOn
  <2>5. Limits.dailyOrders \in Nat /\ Limits.symbolTrades \in Nat
    OBVIOUS
  <2>6. \A d \in Days : Cardinality(BuysOn(d)) < Limits.dailyOrders + Cardinality(Symbols)
    BY <2>2, <2>3, <2>4, <2>5
  <2>7. \A d \in Days, s \in Symbols :
          Cardinality(BuysOn(d) \intersect OrdersFor(d, s)) <= Limits.symbolTrades
    BY <2>1, <2>2, <2>5
  <2> QED
    BY <2>6, <2>7 DEF DailyLimitsHold
<1>5. /\ CyclesDistinct /\ SnapshotExact /\ SnapshotLag /\ Screened /\ StopsPending
      /\ NeverOversold /\ StopsAreEffective /\ OrdersAnnounced
  BY <1>2 DEF Init, CyclesDistinct, SnapshotExact, SnapshotLag, Screened, StopsPending,
       NeverOversold, StopsAreEffective, OrdersAnnounced
<1> QED
  BY <1>1, <1>3, <1>4, <1>5 DEF IInv

\* The types; only the iteration's counters need arithmetic.
LEMMA TypeStep ==
  ASSUME TypeOK, RowsInContract, SnapshotExact, [Next]_vars
  PROVE  TypeOK'
<1> USE DEF Stages, ledger, thread, OnlyThread
<1>1. CASE UNCHANGED vars
  BY <1>1 DEF vars, TypeOK
<1>2. CASE BeginIteration
  <2>1. /\ Cardinality(OrdersOn(day)) \in Nat
        /\ \A s \in Symbols : Cardinality(OrdersFor(day, s)) \in Nat
    <3>1. \A s : OrdersFor(day, s) \in SUBSET DOMAIN orders
      BY Selections
    <3>2. OrdersOn(day) \in SUBSET DOMAIN orders
      BY Selections
    <3> QED
      BY <3>1, <3>2, SelectionsFinite
  <2> QED
    BY <1>2, <2>1 DEF BeginIteration, TypeOK
<1>3. CASE FailIteration
  BY <1>3 DEF FailIteration, TypeOK
<1>4. CASE EndIteration
  BY <1>4, NothingTyped DEF EndIteration, LeaveIteration, TypeOK
<1>5. ASSUME NEW s \in Symbols, StartCycle(s) PROVE TypeOK'
  BY <1>5, ReadersTyped DEF StartCycle, TypeOK, ReachableModes
<1>6. CASE ExitScan
  BY <1>6 DEF ExitScan, TypeOK
<1>7. CASE Sell
  <2>1. orders' \in Seq(OrderRecords)
    BY <1>7, InsertSelects DEF Sell, Sides, TypeOK
  <2>2. pc = "sell" => cyc.sym \in Remaining
    BY DEF Remaining, Undecided
  <2>3. cyc.sym \in Symbols /\ held[cyc.sym] \in Nat /\ iter.pos[cyc.sym] \in Nat
    BY DEF TypeOK
  <2>4. iter.pos[cyc.sym] = held[cyc.sym]
    BY <1>7, <2>2 DEF Sell, SnapshotExact
  <2>5. held' \in [Symbols -> Nat]
    BY <1>7, <2>3, <2>4 DEF Sell, TypeOK
  <2> QED
    BY <1>7, <2>1, <2>5 DEF Sell, TypeOK
<1>8. CASE Screen
  BY <1>8 DEF Screen, TypeOK
<1>9. CASE Gate
  BY <1>9 DEF Gate, TypeOK
<1>10. CASE RefuseBuy
  BY <1>10 DEF RefuseBuy, TypeOK
<1>11. CASE Buy
  <2>1. orders' \in Seq(OrderRecords)
    BY <1>11, InsertSelects DEF Buy, Sides, TypeOK
  <2> QED
    BY <1>11, <2>1 DEF Buy, TypeOK
<1>12. CASE RecordShadow
  BY <1>12 DEF RecordShadow, TypeOK
<1>13. CASE Announce
  BY <1>13 DEF Announce, TypeOK
<1>14. CASE CycleRaises
  BY <1>14 DEF CycleRaises, Fault, TypeOK
<1>15. CASE Abort
  <2>1. /\ iter' \in [day : Days, todo : SUBSET Symbols, pos : [Symbols -> Nat],
                       dailyOrders : Nat, symbolTrades : [Symbols -> Nat]]
        /\ cyc' \in [sym : Symbols, mode : Modes]
    BY <1>15, NothingTyped DEF Abort, LeaveIteration, TypeOK
  <2>2. /\ pc' = "idle" /\ faults' = faults + 1
        /\ UNCHANGED <<rows, day, ledger, announced, rebuilds, buysOff, shadowsOff, shadowsLocked>>
    BY <1>15 DEF Abort, LeaveIteration, Fault
  <2> QED
    BY <2>1, <2>2 DEF TypeOK
<1>16. CASE Midnight
  BY <1>16 DEF Midnight, TypeOK, Days
<1>17. CASE Operator
  <2>1. RowsTyped'
    BY <1>17, ContractStep DEF Operator, RowsTyped, TypeOK
  <2> QED
    BY <1>17, <2>1 DEF Operator, TypeOK, RowsTyped
<1> QED
  BY <1>1, <1>2, <1>3, <1>4, <1>5, <1>6, <1>7, <1>8, <1>9, <1>10, <1>11, <1>12, <1>13,
     <1>14, <1>15, <1>16, <1>17 DEF Next, Trade

\* The stages a step may lead to keep one cycle per symbol, and entries past the
\* gate in the mode the gate let through.
LEMMA StopsStep ==
  ASSUME TypeOK, RowsInContract, StopsPending, StopsAreEffective, [Next]_vars
  PROVE  StopsPending' /\ StopsAreEffective'
<1> USE DEF StopsPending, StopsAreEffective, Pending, Undecided, ledger, thread, OnlyThread,
            TypeOK, Stages
<1>1. CASE UNCHANGED vars
  BY <1>1 DEF vars
<1>2. CASE BeginIteration \/ FailIteration \/ EndIteration \/ Announce
  BY <1>2 DEF BeginIteration, FailIteration, EndIteration, LeaveIteration, Announce
<1>3. ASSUME NEW s \in Symbols, StartCycle(s)
      PROVE  StopsPending' /\ StopsAreEffective'
  BY <1>3 DEF StartCycle
<1>4. CASE ExitScan
  BY <1>4 DEF ExitScan
<1>5. CASE Sell
  BY <1>5 DEF Sell
<1>6. CASE Screen \/ RefuseBuy
  BY <1>6 DEF Screen, RefuseBuy
<1>7. CASE Gate
  <2>1. /\ Decide(cyc.mode, LockEngaged(rows), TRUE, FALSE) = "paper" => cyc.mode = "paper_auto"
        /\ Decide(cyc.mode, LockEngaged(rows), TRUE, FALSE) = "shadow"
             => cyc.mode = "live_shadow" /\ ~LockEngaged(rows)
    BY DEF Decide, ComputeExecutionRoute, LiveModes
  <2>2. pc' \in {"buy", "shadow", "next"}
    BY <1>7 DEF Gate
  <2> QED
    BY <1>7, <2>1, <2>2 DEF Gate
<1>8. CASE Buy
  BY <1>8 DEF Buy
<1>9. CASE RecordShadow
  BY <1>9 DEF RecordShadow
<1>10. CASE CycleRaises
  BY <1>10 DEF CycleRaises, Fault
<1>11. CASE Abort
  BY <1>11 DEF Abort, LeaveIteration, Fault
<1>12. CASE Midnight
  BY <1>12 DEF Midnight
<1>13. CASE Operator
  BY <1>13 DEF Operator
<1> QED
  BY <1>1, <1>2, <1>3, <1>4, <1>5, <1>6, <1>7, <1>8, <1>9, <1>10, <1>11, <1>12, <1>13
     DEF Next, Trade

\* Orders and their announcements move together, but for a fault between them.
LEMMA AnnouncedStep ==
  ASSUME TypeOK, OrdersAnnounced, [Next]_vars
  PROVE  OrdersAnnounced'
<1> USE DEF OrdersAnnounced, ledger, thread, OnlyThread
<1>0. Len(orders) \in Nat /\ announced \in Nat /\ faults \in Nat
  BY DEF TypeOK
<1>1. CASE UNCHANGED vars
  BY <1>1 DEF vars
<1>2. CASE BeginIteration \/ FailIteration \/ EndIteration
  BY <1>2, <1>0 DEF BeginIteration, FailIteration, EndIteration, LeaveIteration
<1>3. ASSUME NEW s \in Symbols, StartCycle(s)
      PROVE  OrdersAnnounced'
  BY <1>3, <1>0 DEF StartCycle
<1>4. CASE ExitScan \/ Screen \/ Gate \/ RefuseBuy \/ RecordShadow
  <2>1. /\ pc \notin {"sold", "bought"} /\ pc' \notin {"sold", "bought"}
        /\ UNCHANGED <<orders, announced, faults>>
    BY <1>4 DEF ExitScan, Screen, Gate, RefuseBuy, RecordShadow
  <2> QED
    BY <2>1
<1>5. CASE Sell \/ Buy
  <2>1. /\ pc \notin {"sold", "bought"} /\ pc' \in {"sold", "bought"}
        /\ UNCHANGED <<announced, faults>>
    BY <1>5 DEF Sell, Buy
  <2>2. \E side \in Sides : InsertOrder(side)
    BY <1>5 DEF Sell, Buy, Sides
  <2>3. Len(orders') = Len(orders) + 1
    BY <2>2, InsertSelects DEF TypeOK
  <2> QED
    BY <2>1, <2>3, <1>0
<1>6. CASE Announce
  BY <1>6, <1>0 DEF Announce
<1>7. CASE CycleRaises \/ Abort
  BY <1>7, <1>0 DEF CycleRaises, Abort, LeaveIteration, Fault
<1>8. CASE Midnight \/ Operator
  BY <1>8, <1>0 DEF Midnight, Operator
<1> QED
  BY <1>1, <1>2, <1>3, <1>4, <1>5, <1>6, <1>7, <1>8 DEF Next, Trade

\* A step that leaves account, orders and snapshot alone and lets no new symbol
\* be ordered keeps the snapshot as good as it was.
LEMMA SnapshotKept ==
  ASSUME TypeOK, CyclesDistinct, SnapshotExact, SnapshotLag,
         UNCHANGED <<held, orders>>,
         iter'.day = iter.day, iter'.pos = iter.pos,
         iter'.dailyOrders = iter.dailyOrders, iter'.symbolTrades = iter.symbolTrades,
         Remaining' \subseteq Remaining, pc # "idle"
  PROVE  SnapshotExact' /\ SnapshotLag'
<1>1. SnapshotExact'
  BY DEF SnapshotExact, OrdersFor, OrdersOn
<1>2. IsFiniteSet(Symbols \ Remaining) /\ IsFiniteSet(Symbols \ Remaining')
  BY FS_Subset
<1>3. Cardinality(Symbols \ Remaining) <= Cardinality(Symbols \ Remaining')
  BY <1>2, FS_Subset
<1>4. Cardinality(Symbols \ Remaining) \in Nat /\ Cardinality(Symbols \ Remaining') \in Nat
  BY <1>2, FS_CardinalityType
<1>5. Cardinality(OrdersOn(iter.day)) \in Nat
  <2>1. OrdersOn(iter.day) \in SUBSET DOMAIN orders
    BY Selections
  <2> QED
    BY <2>1, SelectionsFinite
<1>6. iter.dailyOrders \in Nat
  BY DEF TypeOK
<1>7. OrdersOn(iter.day)' = OrdersOn(iter.day)
  BY DEF OrdersOn
<1> QED
  BY <1>1, <1>3, <1>4, <1>5, <1>6, <1>7 DEF SnapshotLag

\* An order of the running cycle's symbol uses up that symbol.
LEMMA SnapshotOrdered ==
  ASSUME TypeOK, CyclesDistinct, SnapshotExact, SnapshotLag,
         NEW side \in Sides, InsertOrder(side),
         pc \in Undecided, pc' \in {"sold", "bought"}, iter' = iter, cyc' = cyc,
         \A s \in Symbols : s # cyc.sym => held'[s] = held[s]
  PROVE  SnapshotExact' /\ SnapshotLag'
<1>1. /\ Remaining = iter.todo \union {cyc.sym} /\ Remaining' = iter.todo
      /\ cyc.sym \notin iter.todo /\ cyc.sym \in Symbols /\ iter.todo \subseteq Symbols
      /\ iter.day \in Days /\ pc # "idle"
  BY DEF Remaining, Undecided, CyclesDistinct, TypeOK
<1>2. ASSUME NEW s \in iter.todo
      PROVE  OrdersFor(iter.day, s)' = OrdersFor(iter.day, s)
  <2>1. s # cyc.sym /\ s \in Symbols
    BY <1>1
  <2>2. OrdersFor(iter.day, s)' = IF iter.day = iter.day /\ s = cyc.sym
                                    THEN OrdersFor(iter.day, s) \union {Len(orders) + 1}
                                    ELSE OrdersFor(iter.day, s)
    BY <1>1, <2>1, InsertSelects
  <2> QED
    BY <2>1, <2>2
<1>3. SnapshotExact'
  BY <1>1, <1>2 DEF SnapshotExact
<1>4. Cardinality(OrdersOn(iter.day)') = Cardinality(OrdersOn(iter.day)) + 1
  <2>1. OrdersOn(iter.day) \in SUBSET DOMAIN orders
    BY Selections
  <2>2. /\ OrdersOn(iter.day)' = OrdersOn(iter.day) \union {Len(orders) + 1}
        /\ Len(orders) + 1 \notin DOMAIN orders
    BY <1>1, InsertSelects
  <2> QED
    BY <2>1, <2>2, CountInsert
<1>5. Cardinality(Symbols \ iter.todo) = Cardinality(Symbols \ Remaining) + 1
  <2>1. Symbols \ iter.todo = (Symbols \ Remaining) \union {cyc.sym}
    BY <1>1
  <2>2. IsFiniteSet(Symbols \ Remaining) /\ cyc.sym \notin Symbols \ Remaining
    BY <1>1, FS_Subset
  <2> QED
    BY <2>1, <2>2, FS_AddElement
<1>6. /\ Cardinality(OrdersOn(iter.day)) \in Nat /\ iter.dailyOrders \in Nat
      /\ Cardinality(Symbols \ Remaining) \in Nat
  <2>1. OrdersOn(iter.day) \in SUBSET DOMAIN orders
    BY Selections
  <2>2. IsFiniteSet(Symbols \ Remaining)
    BY FS_Subset
  <2> QED
    BY <2>1, <2>2, SelectionsFinite, FS_CardinalityType DEF TypeOK
<1>7. SnapshotLag'
  <2>1. Cardinality(OrdersOn(iter.day)) <= iter.dailyOrders + Cardinality(Symbols \ Remaining)
    BY <1>1 DEF SnapshotLag
  <2>2. Cardinality(OrdersOn(iter.day)')
          <= iter.dailyOrders + Cardinality(Symbols \ iter.todo)
    BY <2>1, <1>4, <1>5, <1>6
  <2> QED
    BY <1>1, <2>2 DEF SnapshotLag, OrdersOn
<1> QED
  BY <1>3, <1>7

\* The snapshot starts exact.
LEMMA SnapshotTaken ==
  ASSUME TypeOK, BeginIteration
  PROVE  SnapshotExact' /\ SnapshotLag'
<1>1. /\ iter'.day = day /\ iter'.pos = held /\ held' = held /\ orders' = orders
      /\ iter'.dailyOrders = Cardinality(OrdersOn(day))
      /\ \A s \in Symbols : iter'.symbolTrades[s] = Cardinality(OrdersFor(day, s))
      /\ Remaining' = Symbols
  BY DEF BeginIteration, ledger, Remaining, Undecided
<1>2. /\ OrdersOn(day)' = {i \in DOMAIN orders : orders[i].day = day'}
      /\ day' = day
  BY <1>1 DEF OrdersOn, BeginIteration
<1>3. OrdersOn(iter.day)' = OrdersOn(day)
  BY <1>1 DEF OrdersOn
<1>4. \A s : OrdersFor(iter.day, s)' = OrdersFor(day, s)
  BY <1>1 DEF OrdersFor, OrdersOn
<1>5. Cardinality(OrdersOn(day)) \in Nat
  <2>1. OrdersOn(day) \in SUBSET DOMAIN orders
    BY Selections
  <2> QED
    BY <2>1, SelectionsFinite
<1>6. Cardinality(Symbols \ Remaining') = 0
  BY <1>1, FS_EmptySet
<1>7. SnapshotExact'
  BY <1>1, <1>4 DEF SnapshotExact
<1>8. Cardinality(OrdersOn(iter.day)') <= iter'.dailyOrders + Cardinality(Symbols \ Remaining')
  BY <1>1, <1>3, <1>5, <1>6
<1> QED
  BY <1>7, <1>8 DEF SnapshotLag

\* Each step either takes the snapshot, drops it, keeps it or orders from it.
LEMMA SnapshotStep ==
  ASSUME TypeOK, CyclesDistinct, SnapshotExact, SnapshotLag, [Next]_vars
  PROVE  CyclesDistinct' /\ SnapshotExact' /\ SnapshotLag'
<1> USE DEF ledger, thread, OnlyThread
<1>a. cyc.sym \in Symbols /\ iter.todo \subseteq Symbols
  BY DEF TypeOK
<1>1. CASE UNCHANGED vars
  BY <1>1 DEF vars, CyclesDistinct, SnapshotExact, SnapshotLag, Remaining, OrdersOn, OrdersFor
<1>2. CASE BeginIteration
  BY <1>2, SnapshotTaken DEF BeginIteration, CyclesDistinct
<1>3. CASE FailIteration
  BY <1>3 DEF FailIteration, CyclesDistinct, SnapshotExact, SnapshotLag
<1>4. CASE EndIteration
  BY <1>4 DEF EndIteration, LeaveIteration, CyclesDistinct, SnapshotExact, SnapshotLag
<1>5. ASSUME NEW s \in Symbols, StartCycle(s)
      PROVE  CyclesDistinct' /\ SnapshotExact' /\ SnapshotLag'
  <2>a. /\ pc = "next" /\ pc' \in {"exit", "screen"}
        /\ iter'.todo = iter.todo \ {s} /\ s \in iter.todo /\ cyc'.sym = s
    BY <1>5 DEF StartCycle, TypeOK
  <2>1. Remaining = iter.todo /\ Remaining' = iter.todo
    BY <2>a DEF Remaining, Undecided
  <2>2. /\ UNCHANGED <<held, orders>> /\ pc # "idle" /\ s \notin iter'.todo /\ cyc'.sym = s
        /\ iter'.day = iter.day /\ iter'.pos = iter.pos
        /\ iter'.dailyOrders = iter.dailyOrders /\ iter'.symbolTrades = iter.symbolTrades
    BY <1>5 DEF StartCycle, TypeOK
  <2> QED
    BY <2>1, <2>2, SnapshotKept DEF CyclesDistinct
<1>6. CASE ExitScan \/ Screen \/ Gate \/ RefuseBuy \/ RecordShadow \/ Announce \/ CycleRaises
  <2>1. /\ UNCHANGED <<held, orders, iter, cyc>>
        /\ pc \notin {"idle", "next"}
        /\ pc' \in Undecided => pc \in Undecided
    BY <1>6 DEF ExitScan, Screen, Gate, RefuseBuy, RecordShadow, Announce, CycleRaises, Fault,
                Undecided
  <2>2. Remaining' \subseteq Remaining
    BY <2>1 DEF Remaining
  <2>3. CyclesDistinct'
    BY <2>1 DEF CyclesDistinct
  <2> QED
    BY <2>1, <2>2, <2>3, SnapshotKept
<1>7. CASE Sell \/ Buy
  <2>1. \E side \in Sides : InsertOrder(side)
    BY <1>7 DEF Sell, Buy, Sides
  <2>2. /\ pc \in Undecided /\ pc' \in {"sold", "bought"} /\ iter' = iter /\ cyc' = cyc
    BY <1>7 DEF Sell, Buy, Undecided
  <2>3. \A s \in Symbols : s # cyc.sym => held'[s] = held[s]
    BY <1>7 DEF Sell, Buy, TypeOK
  <2>4. CyclesDistinct'
    BY <2>2 DEF CyclesDistinct, Undecided
  <2> QED
    BY <2>1, <2>2, <2>3, <2>4, SnapshotOrdered
<1>8. CASE Abort
  BY <1>8 DEF Abort, LeaveIteration, Fault, CyclesDistinct, SnapshotExact, SnapshotLag
<1>9. CASE Midnight \/ Operator
  <2>1. UNCHANGED <<held, orders, pc, iter, cyc>>
    BY <1>9 DEF Midnight, Operator
  <2> QED
    BY <2>1 DEF CyclesDistinct, SnapshotExact, SnapshotLag, Remaining, OrdersOn, OrdersFor
<1> QED
  BY <1>1, <1>2, <1>3, <1>4, <1>5, <1>6, <1>7, <1>8, <1>9 DEF Next, Trade

\* Pre-trade approval is below both limits; the cycle keeps its snapshot.
LEMMA ScreenedStep ==
  ASSUME TypeOK, Screened, [Next]_vars
  PROVE  Screened'
<1> USE DEF ledger, thread, OnlyThread, Screened
<1>1. CASE Screen
  <2>1. ASSUME NEW fresh, NEW loss, NEW totalFull, NEW symbolFull, NEW losses,
               PreTradeApproved(Snapshot(fresh, loss, totalFull, symbolFull, losses), Limits)
        PROVE  /\ iter.dailyOrders < Limits.dailyOrders
               /\ iter.symbolTrades[cyc.sym] < Limits.symbolTrades
    <3>1. iter.dailyOrders \in Nat /\ iter.symbolTrades[cyc.sym] \in Nat
      BY DEF TypeOK
    <3>2. Limits.dailyOrders \in Nat /\ Limits.symbolTrades \in Nat
      OBVIOUS
    <3>3. ~LimitReached(Snapshot(fresh, loss, totalFull, symbolFull, losses), Limits)
      BY <2>1 DEF PreTradeApproved, PreTradeState, Snapshot
    <3>4. /\ ~(iter.dailyOrders >= Limits.dailyOrders)
          /\ ~(iter.symbolTrades[cyc.sym] >= Limits.symbolTrades)
      BY <3>3 DEF LimitReached, Snapshot
    <3> QED
      BY <3>1, <3>2, <3>4
  <2>2. pc' = "gate" => /\ iter.dailyOrders < Limits.dailyOrders
                        /\ iter.symbolTrades[cyc.sym] < Limits.symbolTrades
    BY <1>1, <2>1 DEF Screen
  <2>3. pc' \in {"gate", "next"} /\ iter' = iter /\ cyc' = cyc
    BY <1>1 DEF Screen
  <2> QED
    BY <2>2, <2>3
<1>2. CASE ~Screen /\ ~UNCHANGED vars
  <2>1. CASE Gate
    BY <2>1 DEF Gate
  <2>2. CASE Midnight \/ Operator \/ FailIteration
    BY <2>2 DEF Midnight, Operator, FailIteration
  <2>3. CASE ~Gate /\ ~(Midnight \/ Operator \/ FailIteration)
    <3>1. pc' \notin {"gate", "buy", "shadow"}
      BY <1>2, <2>3 DEF Next, Trade, BeginIteration, EndIteration, StartCycle, ExitScan, Sell,
         RefuseBuy, Buy, RecordShadow, Announce, CycleRaises, Abort, LeaveIteration
    <3> QED
      BY <3>1
  <2> QED
    BY <2>1, <2>2, <2>3
<1>3. CASE UNCHANGED vars
  BY <1>3 DEF vars
<1> QED
  BY <1>1, <1>2, <1>3

\* A SELL names the position of an exact snapshot.
LEMMA OversoldStep ==
  ASSUME TypeOK, SnapshotExact, NeverOversold, [Next]_vars
  PROVE  NeverOversold'
<1> USE DEF ledger, thread, OnlyThread, NeverOversold
<1>1. CASE Sell
  <2>1. cyc.sym \in Remaining /\ pc # "idle"
    BY <1>1 DEF Sell, Remaining, Undecided
  <2>2. iter.pos[cyc.sym] = held[cyc.sym] /\ held[cyc.sym] \in Nat
    BY <2>1 DEF SnapshotExact, TypeOK
  <2>3. ~(iter.pos[cyc.sym] > held[cyc.sym])
    BY <2>2
  <2> QED
    BY <1>1, <2>3 DEF Sell
<1>2. CASE ~Sell
  BY <1>2 DEF Next, Trade, BeginIteration, FailIteration, EndIteration, StartCycle, ExitScan,
     Screen, Gate, RefuseBuy, Buy, RecordShadow, Announce, CycleRaises, Abort, LeaveIteration,
     Fault, Midnight, Operator, vars
<1> QED
  BY <1>1, <1>2

\* A SELL leaves the BUYs alone; a BUY was screened against a snapshot that is
\* exact for its symbol and lags by at most one order per finished symbol.
LEMMA LimitsStep ==
  ASSUME TypeOK, SnapshotExact, SnapshotLag, Screened, DailyLimitsHold, [Next]_vars
  PROVE  DailyLimitsHold'
<1> USE DEF ledger, thread, OnlyThread
<1>0. /\ Limits.dailyOrders \in Nat /\ Limits.symbolTrades \in Nat
      /\ cyc.sym \in Symbols /\ iter.day \in Days
      /\ iter.dailyOrders \in Nat /\ iter.symbolTrades[cyc.sym] \in Nat
  BY DEF TypeOK
<1>1. CASE Sell
  <2>1. \A d \in Days, s \in Symbols :
           /\ BuysOn(d)' = BuysOn(d)
           /\ Len(orders) + 1 \notin BuysOn(d)
           /\ \/ OrdersFor(d, s)' = OrdersFor(d, s)
              \/ OrdersFor(d, s)' = OrdersFor(d, s) \union {Len(orders) + 1}
    BY <1>1, InsertSelects, Selections DEF Sell, Sides
  <2>2. \A d \in Days, s \in Symbols :
           BuysOn(d)' \intersect OrdersFor(d, s)' = BuysOn(d) \intersect OrdersFor(d, s)
    BY <2>1
  <2> QED
    BY <2>1, <2>2, <1>0 DEF DailyLimitsHold
<1>2. CASE Buy
  <2> DEFINE n == Len(orders) + 1
             day0 == iter.day
             sym0 == cyc.sym
  <2>1. /\ pc = "buy" /\ InsertOrder("BUY") /\ "BUY" \in Sides
        /\ sym0 \in Remaining
    BY <1>2 DEF Buy, Sides, Remaining, Undecided
  <2>2. /\ n \notin DOMAIN orders
        /\ \A d \in Days : BuysOn(d)' = IF d = day0 THEN BuysOn(d) \union {n} ELSE BuysOn(d)
        /\ \A d \in Days, s \in Symbols :
             OrdersFor(d, s)' = IF d = day0 /\ s = sym0 THEN OrdersFor(d, s) \union {n}
                                ELSE OrdersFor(d, s)
    BY <2>1, <1>0, InsertSelects
  <2>3. /\ iter.dailyOrders < Limits.dailyOrders
        /\ iter.symbolTrades[sym0] < Limits.symbolTrades
        /\ iter.symbolTrades[sym0] = Cardinality(OrdersFor(day0, sym0))
        /\ Cardinality(OrdersOn(day0))
             <= iter.dailyOrders + Cardinality(Symbols \ Remaining)
    BY <2>1, <1>0 DEF Screened, SnapshotExact, SnapshotLag
  <2>4. \A d \in Days, s \in Symbols :
          /\ n \notin BuysOn(d) /\ n \notin OrdersFor(d, s)
          /\ BuysOn(d) \in SUBSET DOMAIN orders
          /\ BuysOn(d) \intersect OrdersFor(d, s) \in SUBSET DOMAIN orders
    BY <2>2, Selections
  <2>5. ASSUME NEW s \in Symbols, NEW d \in Days
        PROVE  Cardinality(BuysOn(d)' \intersect OrdersFor(d, s)') <= Limits.symbolTrades
    <3>1. CASE d = day0 /\ s = sym0
      <4>1. BuysOn(d)' \intersect OrdersFor(d, s)'
              = (BuysOn(d) \intersect OrdersFor(d, s)) \union {n}
        BY <2>2, <3>1
      <4>2. Cardinality(BuysOn(d)' \intersect OrdersFor(d, s)')
              = Cardinality(BuysOn(d) \intersect OrdersFor(d, s)) + 1
        BY <4>1, <2>2, <2>4, CountInsert
      <4>3. OrdersFor(d, s) \in SUBSET DOMAIN orders
        BY Selections
      <4>4. /\ Cardinality(BuysOn(d) \intersect OrdersFor(d, s)) \in Nat
            /\ Cardinality(BuysOn(d) \intersect OrdersFor(d, s)) <= Cardinality(OrdersFor(d, s))
        <5>1. IsFiniteSet(OrdersFor(d, s))
          BY <4>3, SelectionsFinite
        <5>2. BuysOn(d) \intersect OrdersFor(d, s) \in SUBSET OrdersFor(d, s)
          OBVIOUS
        <5> QED
          BY <5>1, <5>2, <2>4, SelectionsFinite, FS_Subset
      <4> QED
        BY <4>2, <4>4, <2>3, <3>1, <1>0
    <3>2. CASE ~(d = day0 /\ s = sym0)
      <4>1. OrdersFor(d, s)' = OrdersFor(d, s)
        BY <2>2, <3>2
      <4>2. BuysOn(d)' \intersect OrdersFor(d, s)' = BuysOn(d) \intersect OrdersFor(d, s)
        BY <2>2, <2>4, <4>1
      <4> QED
        BY <4>2 DEF DailyLimitsHold
    <3> QED
      BY <3>1, <3>2
  <2>6. ASSUME NEW d \in Days
        PROVE  Cardinality(BuysOn(d)') < Limits.dailyOrders + Cardinality(Symbols)
    <3>1. CASE d = day0
      <4>1. Cardinality(BuysOn(d)') = Cardinality(BuysOn(d)) + 1
        <5>1. BuysOn(d)' = BuysOn(d) \union {n}
          BY <2>2, <3>1
        <5>2. BuysOn(d) \in SUBSET DOMAIN orders
          BY Selections
        <5> QED
          BY <5>1, <5>2, <2>2, CountInsert
      <4>2. /\ Cardinality(BuysOn(d)) \in Nat /\ Cardinality(OrdersOn(d)) \in Nat
            /\ Cardinality(BuysOn(d)) <= Cardinality(OrdersOn(d))
        <5>1. OrdersOn(d) \in SUBSET DOMAIN orders /\ BuysOn(d) \in SUBSET OrdersOn(d)
          BY Selections
        <5>2. IsFiniteSet(OrdersOn(d))
          BY <5>1, SelectionsFinite
        <5> QED
          BY <5>1, <5>2, FS_Subset, FS_CardinalityType
      <4>3. /\ Cardinality(Symbols \ Remaining) \in Nat /\ Cardinality(Symbols) \in Nat
            /\ Cardinality(Symbols \ Remaining) < Cardinality(Symbols)
        <5>1. Symbols \ Remaining \in SUBSET (Symbols \ {sym0})
          BY <2>1
        <5>2. /\ IsFiniteSet(Symbols \ {sym0})
              /\ Cardinality(Symbols \ {sym0}) = Cardinality(Symbols) - 1
          BY <1>0, FS_RemoveElement
        <5>3. /\ IsFiniteSet(Symbols \ Remaining)
              /\ Cardinality(Symbols \ Remaining) <= Cardinality(Symbols \ {sym0})
          BY <5>1, <5>2, FS_Subset
        <5>4. Cardinality(Symbols \ Remaining) \in Nat /\ Cardinality(Symbols) \in Nat
          BY <5>3, FS_CardinalityType
        <5> QED
          BY <5>2, <5>3, <5>4
      <4> QED
        BY <4>1, <4>2, <4>3, <2>3, <3>1, <1>0
    <3>2. CASE d # day0
      <4>1. BuysOn(d)' = BuysOn(d)
        BY <2>2, <3>2
      <4> QED
        BY <4>1 DEF DailyLimitsHold
    <3> QED
      BY <3>1, <3>2
  <2> QED
    BY <2>5, <2>6 DEF DailyLimitsHold
<1>3. CASE ~Sell /\ ~Buy
  <2>1. orders' = orders
    BY <1>3 DEF Next, Trade, BeginIteration, FailIteration, EndIteration, StartCycle, ExitScan,
       Screen, Gate, RefuseBuy, RecordShadow, Announce, CycleRaises, Abort, LeaveIteration,
       Fault, Midnight, Operator, vars
  <2> QED
    BY <2>1 DEF DailyLimitsHold, BuysOn, OrdersFor, OrdersOn
<1> QED
  BY <1>1, <1>2, <1>3

\* Rows move only by contract writes.
LEMMA RowsStep ==
  ASSUME TypeOK, RowsInContract, [Next]_vars
  PROVE  RowsInContract'
<1>1. [RowsNext]_rows
  BY DEF Next, Trade, BeginIteration, FailIteration, EndIteration, StartCycle, ExitScan, Sell,
     Screen, Gate, RefuseBuy, Buy, RecordShadow, Announce, CycleRaises, Abort, LeaveIteration,
     Fault, Midnight, Operator, OnlyThread, vars
<1> QED
  BY <1>1, ContractStep DEF TypeOK, RowsTyped

\* The inductive invariant holds of every behaviour.
LEMMA Inductive == Spec => []IInv
<1>1. IInv /\ [Next]_vars => IInv'
  BY TypeStep, RowsStep, SnapshotStep, ScreenedStep, StopsStep, OversoldStep, LimitsStep,
     AnnouncedStep DEF IInv
<1> QED
  BY InitIInv, <1>1, PTL DEF Spec

-----------------------------------------------------------------------------
(* The theorems. *)

\* The type invariant.
THEOREM TypeCorrect == Spec => []TypeOK
<1>1. IInv => TypeOK
  BY DEF IInv
<1> QED
  BY Inductive, <1>1, PTL

\* No crash, exception or order of symbols makes a SELL exceed the fills.
THEOREM AccountRebuilds == Spec => []NeverOversold
<1>1. IInv => NeverOversold
  BY DEF IInv
<1> QED
  BY Inductive, <1>1, PTL

\* After a stop at most one entry, that of the cycle already running.
THEOREM OneEntryAfterStop == Spec => []StopsAreEffective
<1>1. IInv => StopsAreEffective
  BY DEF IInv
<1> QED
  BY Inductive, <1>1, PTL

\* The daily limits, for any limits and any number of symbols.
THEOREM LimitsKept == Spec => []DailyLimitsHold
<1>1. IInv => DailyLimitsHold
  BY DEF IInv
<1> QED
  BY Inductive, <1>1, PTL

\* One order_executed event per order, but for one order per fault.
THEOREM OrdersAccounted == Spec => []OrdersAnnounced
<1>1. IInv => OrdersAnnounced
  BY DEF IInv
<1> QED
  BY Inductive, <1>1, PTL
=============================================================================
