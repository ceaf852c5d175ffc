-------------------------- MODULE PaperAccount_proofs --------------------------
(***************************************************************************)
(* For any symbols, prices, quantities and fees and any number of fills    *)
(* that the column holds exactly: the three readers of the fills agree,    *)
(* the account adds up, no exit is left over and the position limits are   *)
(* passed by the entries of one iteration at most.                         *)
(***************************************************************************)
EXTENDS PaperAccount, WellFoundedInduction, FiniteSetTheorems, TLAPS

-----------------------------------------------------------------------------
(* Induction over the natural numbers, on a set instead of a predicate: what *)
(* is outside of it would have a least element.                              *)

LEMMA SetInduction ==
  ASSUME NEW S, 0 \in S, \A n \in Nat : n \in S => n + 1 \in S
  PROVE  Nat \subseteq S
<1> SUFFICES ASSUME Nat \ S # {} PROVE FALSE
  OBVIOUS
<1> DEFINE R == OpToRel(<, Nat)
<1>1. IsWellFoundedOn(R, Nat)
  BY NatLessThanWellFounded, Zenon
<1>2. \A j, k \in Nat : j < k => <<j, k>> \in R
  BY DEF OpToRel
<1> HIDE DEF R
<1>3. PICK m \in Nat \ S : \A k \in Nat \ S : ~(<<k, m>> \in R)
  BY <1>1, WFMin
<1>4. m - 1 \in Nat \ S
  BY <1>3
<1>5. <<m - 1, m>> \in R
  BY <1>2, <1>3, <1>4
<1> QED
  BY <1>3, <1>4, <1>5

-----------------------------------------------------------------------------
(* The sum along the symbols. *)

LEMMA SymbolsNamed ==
  /\ Len(Symbols) \in Nat \ {0}
  /\ \A i \in 1..Len(Symbols) : Symbols[i] \in SymbolSet
  /\ \A s \in SymbolSet : \E i \in 1..Len(Symbols) : s = Symbols[i]
  /\ \A i, j \in 1..Len(Symbols) : Symbols[i] = Symbols[j] => i = j
BY SymbolsAssumption DEF SymbolSet, ToSet, IsInjective

\* g[i] is the sum of the first i symbols' values.
Sums(g, v, n) ==
  g = [i \in 0..n |-> IF i = 0 THEN 0 ELSE g[i - 1] + v[Symbols[i]]]

LEMMA SumsExist ==
  ASSUME NEW v, NEW n \in Nat
  PROVE  \E g : Sums(g, v, n)
<1> DEFINE S == {k \in Nat : \E g : Sums(g, v, k)}
<1>1. 0 \in S
  <2>1. Sums([i \in 0..0 |-> 0], v, 0)
    BY DEF Sums
  <2> QED BY <2>1
<1>2. ASSUME NEW k \in Nat, k \in S PROVE k + 1 \in S
  <2>1. PICK g : Sums(g, v, k)
    BY <1>2
  <2> DEFINE h == [i \in 0..(k + 1) |-> IF i = k + 1 THEN g[k] + v[Symbols[k + 1]] ELSE g[i]]
  <2>2. h = [i \in 0..(k + 1) |-> h[i]]
    OBVIOUS
  <2>3. \A i \in 0..(k + 1) : h[i] = IF i = 0 THEN 0 ELSE h[i - 1] + v[Symbols[i]]
    BY <2>1 DEF Sums
  <2> HIDE DEF h
  <2>4. Sums(h, v, k + 1)
    BY <2>2, <2>3 DEF Sums
  <2> QED BY <2>4
<1> HIDE DEF S
<1>3. n \in S
  BY <1>1, <1>2, SetInduction
<1> QED BY <1>3 DEF S

LEMMA TotalSums ==
  ASSUME NEW v
  PROVE  \E g : Sums(g, v, Len(Symbols)) /\ Total(v) = g[Len(Symbols)]
<1>1. Len(Symbols) \in Nat
  BY SymbolsNamed
<1>2. \E g : Sums(g, v, Len(Symbols))
  BY <1>1, SumsExist
<1>3. Total(v) = (CHOOSE g : Sums(g, v, Len(Symbols)))[Len(Symbols)]
  BY Zenon DEF Total, Sums
<1> QED
  BY <1>2, <1>3

\* The total of integers is one, and a total of noughts is nought.
LEMMA TotalTyped ==
  ASSUME NEW v \in [SymbolSet -> Int]
  PROVE  /\ Total(v) \in Int
         /\ (\A s \in SymbolSet : v[s] = 0) => Total(v) = 0
<1>1. PICK g : Sums(g, v, Len(Symbols)) /\ Total(v) = g[Len(Symbols)]
  BY TotalSums
<1> DEFINE Good(i) == g[i] \in Int /\ ((\A s \in SymbolSet : v[s] = 0) => g[i] = 0)
           S == {i \in Nat : i <= Len(Symbols) => Good(i)}
<1>2. 0 \in S
  BY <1>1, SymbolsNamed DEF Sums
<1>3. ASSUME NEW i \in Nat, i \in S PROVE i + 1 \in S
  BY <1>1, <1>3, SymbolsNamed DEF Sums
<1>4. Len(Symbols) \in S
  <2> HIDE DEF S
  <2>1. Nat \subseteq S
    BY <1>2, <1>3, SetInduction
  <2> QED BY <2>1, SymbolsNamed
<1> QED BY <1>1, <1>4, SymbolsNamed

\* A change of one value changes the total by as much.
LEMMA TotalMoves ==
  ASSUME NEW v \in [SymbolSet -> Int], NEW w \in [SymbolSet -> Int], NEW s \in SymbolSet,
         \A t \in SymbolSet \ {s} : w[t] = v[t]
  PROVE  Total(w) = Total(v) + w[s] - v[s]
<1>1. PICK g : Sums(g, v, Len(Symbols)) /\ Total(v) = g[Len(Symbols)]
  BY TotalSums
<1>2. PICK h : Sums(h, w, Len(Symbols)) /\ Total(w) = h[Len(Symbols)]
  BY TotalSums
<1>3. PICK k \in 1..Len(Symbols) : s = Symbols[k]
  BY SymbolsNamed
<1> DEFINE Moved(i) == /\ g[i] \in Int
                       /\ h[i] = IF i < k THEN g[i] ELSE g[i] + w[s] - v[s]
           S == {i \in Nat : i <= Len(Symbols) => Moved(i)}
<1>4. 0 \in S
  BY <1>1, <1>2, <1>3, SymbolsNamed DEF Sums
<1>5. ASSUME NEW i \in Nat, i \in S PROVE i + 1 \in S
  <2> SUFFICES ASSUME i + 1 <= Len(Symbols) PROVE Moved(i + 1)
    OBVIOUS
  <2>1. g[i + 1] = g[i] + v[Symbols[i + 1]] /\ h[i + 1] = h[i] + w[Symbols[i + 1]]
    BY <1>1, <1>2, SymbolsNamed DEF Sums
  <2>2. Moved(i)
    BY <1>5, SymbolsNamed
  <2>3. Symbols[i + 1] \in SymbolSet /\ (i + 1 = k <=> Symbols[i + 1] = s)
    BY <1>3, SymbolsNamed
  <2>4. CASE i + 1 = k
    BY <1>3, <2>1, <2>2, <2>3, <2>4
  <2>5. CASE i + 1 # k
    <3>1. w[Symbols[i + 1]] = v[Symbols[i + 1]]
      BY <2>3, <2>5
    <3> QED BY <1>3, <2>1, <2>2, <2>3, <2>5, <3>1
  <2> QED BY <2>4, <2>5
<1>6. Len(Symbols) \in S
  <2> HIDE DEF S
  <2>1. Nat \subseteq S
    BY <1>4, <1>5, SetInduction
  <2> QED BY <2>1, SymbolsNamed
<1> QED BY <1>1, <1>2, <1>3, <1>6, SymbolsNamed

-----------------------------------------------------------------------------
(* What the readers make of one row more. *)

Reads(g, rows, n) ==
  g = [i \in 0..n |-> IF i = 0 THEN Unread ELSE ReadFill(g[i - 1], rows[i])]

LEMMA ReadsExist ==
  ASSUME NEW rows, NEW n \in Nat
  PROVE  \E g : Reads(g, rows, n)
<1> DEFINE S == {k \in Nat : \E g : Reads(g, rows, k)}
<1>1. 0 \in S
  <2>1. Reads([i \in 0..0 |-> Unread], rows, 0)
    BY DEF Reads
  <2> QED BY <2>1
<1>2. ASSUME NEW k \in Nat, k \in S PROVE k + 1 \in S
  <2>1. PICK g : Reads(g, rows, k)
    BY <1>2
  <2> DEFINE h == [i \in 0..(k + 1) |-> IF i = k + 1 THEN ReadFill(g[k], rows[k + 1]) ELSE g[i]]
  <2>2. h = [i \in 0..(k + 1) |-> h[i]]
    OBVIOUS
  <2>3. \A i \in 0..(k + 1) : h[i] = IF i = 0 THEN Unread ELSE ReadFill(h[i - 1], rows[i])
    BY <2>1 DEF Reads
  <2> HIDE DEF h
  <2>4. Reads(h, rows, k + 1)
    BY <2>2, <2>3 DEF Reads
  <2> QED BY <2>4
<1> HIDE DEF S
<1>3. n \in S
  BY <1>1, <1>2, SetInduction
<1> QED BY <1>3 DEF S

LEMMA RebuiltReads ==
  ASSUME NEW rows, Len(rows) \in Nat
  PROVE  \E g : Reads(g, rows, Len(rows)) /\ Rebuilt(rows) = g[Len(rows)]
<1>1. \E g : Reads(g, rows, Len(rows))
  BY ReadsExist
<1>2. Rebuilt(rows) = (CHOOSE g : Reads(g, rows, Len(rows)))[Len(rows)]
  BY Zenon DEF Rebuilt, Reads
<1> QED
  BY <1>1, <1>2

LEMMA RebuiltEmpty == Rebuilt(<<>>) = Unread
<1>1. PICK g : Reads(g, <<>>, Len(<<>>)) /\ Rebuilt(<<>>) = g[Len(<<>>)]
  BY RebuiltReads
<1> QED BY <1>1 DEF Reads

\* A reader that finds one row more makes of it what it does with that row.
LEMMA RebuiltAppend ==
  ASSUME NEW Rows, NEW rows \in Seq(Rows), NEW f \in Rows
  PROVE  Rebuilt(Append(rows, f)) = ReadFill(Rebuilt(rows), f)
<1> DEFINE n == Len(rows)
           more == Append(rows, f)
<1>0. /\ n \in Nat /\ Len(more) = n + 1 /\ more[n + 1] = f
      /\ \A i \in 1..n : more[i] = rows[i]
  OBVIOUS
<1> HIDE DEF n, more
<1>1. PICK g : Reads(g, rows, n) /\ Rebuilt(rows) = g[n]
  BY <1>0, RebuiltReads DEF n
<1>2. PICK h : Reads(h, more, n + 1) /\ Rebuilt(more) = h[n + 1]
  BY <1>0, RebuiltReads
<1> DEFINE S == {i \in Nat : i <= n => h[i] = g[i]}
<1>3. 0 \in S
  BY <1>0, <1>1, <1>2 DEF Reads
<1>4. ASSUME NEW i \in Nat, i \in S PROVE i + 1 \in S
  BY <1>0, <1>1, <1>2, <1>4 DEF Reads
<1>5. n \in S
  <2> HIDE DEF S
  <2> QED BY <1>0, <1>3, <1>4, SetInduction
<1>6. h[n + 1] = ReadFill(h[n], f)
  BY <1>0, <1>2 DEF Reads
<1> QED BY <1>0, <1>1, <1>2, <1>5, <1>6 DEF more

-----------------------------------------------------------------------------
(* The inductive invariant. *)

FillRecords ==
  [symbol : SymbolSet, side : {"BUY", "SELL"}, qty : Nat \ {0}, price : Nat, fee : Nat, at : Nat]

Positions == [SymbolSet -> [qty : Nat, cost : Nat, fees : Nat, opened : Nat]]

Amounts == [SymbolSet -> Int]

Readings ==
  [loop      : [cash : Int, realized : Int, positions : Positions],
   status    : [cash : Int, qty : Amounts, cost : Amounts],
   analytics : [cash : Int, qty : Amounts, cost : Amounts, lot : Amounts]]

Spent(positions) == [s \in SymbolSet |-> positions[s].cost + positions[s].fees]

\* A symbol that is not held has left nothing behind but in the analytics, which
\* start anew with the next purchase.
SymbolAgrees(r, s) ==
  LET p == r.loop.positions[s]
  IN  /\ r.status.qty[s] = p.qty /\ r.analytics.qty[s] = p.qty
      /\ r.status.cost[s] = p.cost
      /\ p.qty = 0 => p.cost = 0 /\ p.fees = 0
      /\ p.qty > 0 => r.analytics.cost[s] = p.cost /\ r.analytics.lot[s] = p.qty

Agreement(r) ==
  /\ r \in Readings
  /\ r.status.cash = r.loop.cash /\ r.analytics.cash = r.loop.cash
  /\ \A s \in SymbolSet : SymbolAgrees(r, s)
  /\ r.loop.cash + Total(Spent(r.loop.positions)) - r.loop.realized = InitialCash

\* The rows behind the last sale of s: the ones after which s was only bought.
OpenRows(rows, s) ==
  {i \in DOMAIN rows : \A j \in i..Len(rows) : rows[j].symbol = s => rows[j].side = "BUY"}

IsFirst(rows, s, i) ==
  /\ i \in OpenRows(rows, s) /\ rows[i].symbol = s
  /\ \A j \in OpenRows(rows, s) : rows[j].symbol = s => i <= j

OpenedAt(rows, s, p) ==
  /\ p.qty = 0 => \A i \in OpenRows(rows, s) : rows[i].symbol # s
  /\ p.qty > 0 => \E i \in DOMAIN rows : IsFirst(rows, s, i) /\ rows[i].at = p.opened

Iterations ==
  [on : {TRUE}, next : 1..(Len(Symbols) + 1), now : Nat, prices : [SymbolSet -> Prices],
   positions : Positions, equity : Nat, entered : SUBSET SymbolSet, raised : SUBSET SymbolSet]

\* An exit of s that neither the target nor the time asks for.
NotDue(p, price, now) ==
  p.qty > 0 =>
    now - p.opened < MaxHold /\ price * p.qty * 100 < p.cost * (100 + TakeProfit)

\* An iteration whose symbols from next on still are as in its snapshot.
SnapshotHolds(it, positions) ==
  \A i \in it.next..Len(Symbols) :
    positions[Symbols[i]] = it.positions[Symbols[i]] /\ Symbols[i] \notin it.entered

Finished(it, positions) ==
  \A i \in 1..(it.next - 1) :
    Symbols[i] \notin it.raised =>
      NotDue(positions[Symbols[i]], it.prices[Symbols[i]], it.now)

Values(positions, prices) == [s \in SymbolSet |-> positions[s].qty * prices[s]]

\* c is what the symbol limit, and t what the total limit is worth, per mille.
Exposure(it, positions, c, t) ==
  LET now    == Values(positions, it.prices)
      before == Values(it.positions, it.prices)
  IN  /\ \A s \in it.entered : before[s] * 1000 < c /\ now[s] * 1000 <= before[s] * 1000 + c
      /\ it.entered # {} => Total(before) * 1000 < t
      /\ Total(now) * 1000 <= Total(before) * 1000 + Cardinality(it.entered) * c

Limit(cap) == cap * iteration.equity

Running ==
  iteration.on =>
    /\ iteration.now = clock
    /\ SnapshotHolds(iteration, Account.positions)
    /\ Finished(iteration, Account.positions)
    /\ Exposure(iteration, Account.positions, Limit(SymbolCap), Limit(TotalCap))

\* most is the largest quantity of an entry.
IInv(most) ==
  /\ fills \in Seq(FillRecords) /\ Len(fills) <= MaxFills
  /\ clock \in 0..MaxTick
  /\ iteration \in Iterations \union {Idle}
  /\ Agreement(Rebuilt(fills))
  /\ \A s \in SymbolSet :
       /\ Account.positions[s].opened <= clock
       /\ Account.positions[s].qty <= most * Len(fills)
       /\ OpenedAt(fills, s, Account.positions[s])
  /\ Running

-----------------------------------------------------------------------------
(* The arithmetic of one row. *)

LEMMA Products ==
  /\ \A a, b \in Nat : a * b \in Nat
  /\ \A a \in Nat, b \in Nat \ {0} : a \div b \in Nat
OBVIOUS

\* The cost and the fees of the positions, after those of s have changed.
LEMMA SpentMoves ==
  ASSUME NEW old \in Positions, NEW new \in Positions, NEW s \in SymbolSet,
         \A t \in SymbolSet \ {s} : new[t] = old[t]
  PROVE  Total(Spent(new))
           = Total(Spent(old)) + (new[s].cost + new[s].fees) - (old[s].cost + old[s].fees)
<1>1. /\ Spent(old) \in [SymbolSet -> Int] /\ Spent(new) \in [SymbolSet -> Int]
      /\ \A t \in SymbolSet \ {s} : Spent(new)[t] = Spent(old)[t]
      /\ Spent(new)[s] = new[s].cost + new[s].fees
      /\ Spent(old)[s] = old[s].cost + old[s].fees
  BY DEF Spent, Positions
<1> HIDE DEF Spent
<1>2. Total(Spent(new)) = Total(Spent(old)) + Spent(new)[s] - Spent(old)[s]
  BY <1>1, TotalMoves
<1> QED BY <1>1, <1>2

Bought(p, f) ==
  [qty |-> p.qty + f.qty, cost |-> p.cost + f.qty * f.price, fees |-> p.fees + f.fee,
   opened |-> IF p.qty = 0 THEN f.at ELSE p.opened]

\* Whatever is bought, the readers go on to agree.
LEMMA BuyAgrees ==
  ASSUME NEW r, Agreement(r), NEW f \in FillRecords, f.side = "BUY"
  PROVE  /\ Agreement(ReadFill(r, f))
         /\ ReadFill(r, f).loop.positions
              = [r.loop.positions EXCEPT ![f.symbol] = Bought(r.loop.positions[f.symbol], f)]
<1> DEFINE s == f.symbol
           p == r.loop.positions[s]
           gross == f.qty * f.price
           q == [qty |-> p.qty + f.qty, cost |-> p.cost + gross, fees |-> p.fees + f.fee,
                 opened |-> IF p.qty = 0 THEN f.at ELSE p.opened]
           new == [r.loop.positions EXCEPT ![s] = q]
           n == ReadFill(r, f)
<1>0. /\ s \in SymbolSet /\ gross \in Nat /\ f.qty \in Nat \ {0} /\ f.fee \in Nat /\ f.at \in Nat
      /\ r \in Readings /\ p.qty \in Nat /\ p.cost \in Nat /\ p.fees \in Nat /\ p.opened \in Nat
  BY Products DEF FillRecords, Agreement, Readings, Positions
<1>1. /\ n.loop.cash = r.loop.cash - (gross + f.fee)
      /\ n.loop.realized = r.loop.realized
      /\ n.loop.positions = new
      /\ n.loop = [cash |-> n.loop.cash, realized |-> n.loop.realized, positions |-> new]
  BY <1>0 DEF ReadFill, ApplyFill, ApplyBuy, Readings
<1>2. /\ n.status.cash = r.status.cash - (gross + f.fee)
      /\ n.status.qty = [r.status.qty EXCEPT ![s] = @ + f.qty]
      /\ n.status.cost = [r.status.cost EXCEPT ![s] = @ + gross]
      /\ n.status = [cash |-> n.status.cash, qty |-> n.status.qty, cost |-> n.status.cost]
  BY <1>0 DEF ReadFill, StatusFill, Readings
<1>3. /\ n.analytics.cash = r.analytics.cash - (gross + f.fee)
      /\ n.analytics.qty = [r.analytics.qty EXCEPT ![s] = @ + f.qty]
      /\ n.analytics.cost = [r.analytics.cost EXCEPT
                               ![s] = (IF r.analytics.qty[s] = 0 THEN 0 ELSE @) + gross]
      /\ n.analytics.lot = [r.analytics.lot EXCEPT ![s] = r.analytics.qty[s] + f.qty]
      /\ n.analytics = [cash |-> n.analytics.cash, qty |-> n.analytics.qty,
                        cost |-> n.analytics.cost, lot |-> n.analytics.lot]
  BY <1>0 DEF ReadFill, AnalyticsFill, Readings
<1>4. n = [loop |-> n.loop, status |-> n.status, analytics |-> n.analytics]
  BY DEF ReadFill
<1>5. q \in [qty : Nat, cost : Nat, fees : Nat, opened : Nat] /\ q = Bought(p, f)
  BY <1>0 DEF Bought
<1> HIDE DEF n, gross, q
<1>6. new \in Positions
  BY <1>0, <1>5 DEF Readings, Positions
<1>7. n \in Readings
  BY <1>0, <1>1, <1>2, <1>3, <1>4, <1>6 DEF Readings, Amounts
<1>8. ASSUME NEW t \in SymbolSet PROVE SymbolAgrees(n, t)
  <2>1. SymbolAgrees(r, t)
    BY DEF Agreement
  <2>2. CASE t # s
    BY <1>0, <1>1, <1>2, <1>3, <2>1, <2>2 DEF SymbolAgrees, Readings, Positions, Amounts
  <2>3. CASE t = s
    <3>1. n.loop.positions[t] = q
      BY <1>0, <1>1, <2>3 DEF Readings, Positions
    <3>2. /\ n.status.qty[t] = r.status.qty[t] + f.qty
          /\ n.status.cost[t] = r.status.cost[t] + gross
          /\ n.analytics.qty[t] = r.analytics.qty[t] + f.qty
          /\ n.analytics.cost[t] = (IF r.analytics.qty[t] = 0 THEN 0 ELSE r.analytics.cost[t]) + gross
          /\ n.analytics.lot[t] = r.analytics.qty[t] + f.qty
      BY <1>0, <1>2, <1>3, <2>3 DEF Readings, Amounts
    <3>3. q.qty > 0
      BY <1>0 DEF q
    <3> QED BY <1>0, <2>1, <2>3, <3>1, <3>2, <3>3 DEF SymbolAgrees, q
  <2> QED BY <2>2, <2>3
<1>9. n.loop.cash + Total(Spent(n.loop.positions)) - n.loop.realized = InitialCash
  <2>1. Total(Spent(new)) = Total(Spent(r.loop.positions))
                              + (new[s].cost + new[s].fees) - (p.cost + p.fees)
    <3>1. \A t \in SymbolSet \ {s} : new[t] = r.loop.positions[t]
      BY <1>0 DEF Readings, Positions
    <3>2. r.loop.positions \in Positions
      BY <1>0 DEF Readings
    <3> QED BY <1>0, <1>6, <3>1, <3>2, SpentMoves
  <2>2. new[s] = q
    BY <1>0 DEF Readings, Positions
  <2>3. Total(Spent(r.loop.positions)) \in Int
    <3>1. Spent(r.loop.positions) \in [SymbolSet -> Int]
      BY <1>0 DEF Spent, Readings, Positions
    <3> QED BY <3>1, TotalTyped
  <2>4. r.loop.cash + Total(Spent(r.loop.positions)) - r.loop.realized = InitialCash
    BY DEF Agreement
  <2> QED BY <1>0, <1>1, <2>1, <2>2, <2>3, <2>4 DEF q, Readings
<1>10. n.status.cash = n.loop.cash /\ n.analytics.cash = n.loop.cash
  BY <1>1, <1>2, <1>3 DEF Agreement
<1> QED BY <1>1, <1>5, <1>7, <1>8, <1>9, <1>10 DEF Agreement, n

\* Whenever all of a position is sold, the readers go on to agree.
LEMMA SaleAgrees ==
  ASSUME NEW r, Agreement(r), NEW f \in FillRecords, f.side = "SELL",
         f.qty = r.loop.positions[f.symbol].qty
  PROVE  /\ Agreement(ReadFill(r, f))
         /\ ReadFill(r, f).loop.positions = [r.loop.positions EXCEPT ![f.symbol] = NoPosition]
<1> DEFINE s == f.symbol
           p == r.loop.positions[s]
           gross == f.qty * f.price
           new == [r.loop.positions EXCEPT ![s] = NoPosition]
           n == ReadFill(r, f)
<1>0. /\ s \in SymbolSet /\ gross \in Nat /\ f.qty \in Nat \ {0} /\ f.fee \in Nat
      /\ r \in Readings /\ p.qty = f.qty /\ p.cost \in Nat /\ p.fees \in Nat
      /\ r.status.qty[s] = p.qty /\ r.analytics.qty[s] = p.qty
  BY Products DEF FillRecords, Agreement, Readings, Positions, SymbolAgrees
<1>1. /\ n.loop.cash = r.loop.cash + gross - f.fee
      /\ n.loop.realized = r.loop.realized + gross - p.cost - p.fees - f.fee
      /\ n.loop.positions = new
      /\ n.loop = [cash |-> n.loop.cash, realized |-> n.loop.realized, positions |-> new]
  <2>1. Share(p, f.qty, p.cost) = p.cost /\ Share(p, f.qty, p.fees) = p.fees
    BY <1>0 DEF Share
  <2>2. n.loop = ApplySell(r.loop, f)
    BY DEF ReadFill, ApplyFill
  <2> HIDE DEF n
  <2> QED BY <1>0, <2>1, <2>2 DEF ApplySell
<1>2. /\ n.status.cash = r.status.cash + gross - f.fee
      /\ n.status.qty = [r.status.qty EXCEPT ![s] = 0]
      /\ n.status.cost = [r.status.cost EXCEPT ![s] = 0]
      /\ n.status = [cash |-> n.status.cash, qty |-> n.status.qty, cost |-> n.status.cost]
  <2>1. f.qty >= r.status.qty[s]
    BY <1>0
  <2> QED BY <1>0, <2>1 DEF ReadFill, StatusFill, LeftAfter, Readings
<1>3. /\ n.analytics.cash = r.analytics.cash + gross - f.fee
      /\ n.analytics.qty = [r.analytics.qty EXCEPT ![s] = 0]
      /\ n.analytics.cost = r.analytics.cost
      /\ n.analytics.lot = r.analytics.lot
      /\ n.analytics = [cash |-> n.analytics.cash, qty |-> n.analytics.qty,
                        cost |-> n.analytics.cost, lot |-> n.analytics.lot]
  <2>1. n.analytics = AnalyticsFill(r.analytics, f)
    BY DEF ReadFill
  <2>2. r.analytics \in [cash : Int, qty : Amounts, cost : Amounts, lot : Amounts]
    BY <1>0 DEF Readings
  <2> HIDE DEF n
  <2>3. n.analytics = [r.analytics EXCEPT !.cash = @ + gross - f.fee, !.qty[s] = LeftAfter(@, f)]
    BY <2>1 DEF AnalyticsFill
  <2>4. LeftAfter(r.analytics.qty[s], f) = 0
    BY <1>0 DEF LeftAfter
  <2> QED BY <1>0, <2>2, <2>3, <2>4
<1>4. n = [loop |-> n.loop, status |-> n.status, analytics |-> n.analytics]
  BY DEF ReadFill
<1> HIDE DEF n, gross
<1>5. new \in Positions
  BY <1>0 DEF Readings, Positions, NoPosition
<1>6. n \in Readings
  BY <1>0, <1>1, <1>2, <1>3, <1>4, <1>5 DEF Readings, Amounts
<1>7. ASSUME NEW t \in SymbolSet PROVE SymbolAgrees(n, t)
  <2>1. SymbolAgrees(r, t)
    BY DEF Agreement
  <2>2. CASE t # s
    BY <1>0, <1>1, <1>2, <1>3, <2>1, <2>2 DEF SymbolAgrees, Readings, Positions, Amounts
  <2>3. CASE t = s
    BY <1>0, <1>1, <1>2, <1>3, <2>3
    DEF SymbolAgrees, Readings, Positions, Amounts, NoPosition
  <2> QED BY <2>2, <2>3
<1>8. n.loop.cash + Total(Spent(n.loop.positions)) - n.loop.realized = InitialCash
  <2>1. Total(Spent(new)) = Total(Spent(r.loop.positions))
                              + (new[s].cost + new[s].fees) - (p.cost + p.fees)
    <3>1. \A t \in SymbolSet \ {s} : new[t] = r.loop.positions[t]
      BY <1>0 DEF Readings, Positions
    <3>2. r.loop.positions \in Positions
      BY <1>0 DEF Readings
    <3> QED BY <1>0, <1>5, <3>1, <3>2, SpentMoves
  <2>2. new[s] = NoPosition
    BY <1>0 DEF Readings, Positions
  <2>3. Total(Spent(r.loop.positions)) \in Int
    <3>1. Spent(r.loop.positions) \in [SymbolSet -> Int]
      BY <1>0 DEF Spent, Readings, Positions
    <3> QED BY <3>1, TotalTyped
  <2>4. r.loop.cash + Total(Spent(r.loop.positions)) - r.loop.realized = InitialCash
    BY DEF Agreement
  <2> QED BY <1>0, <1>1, <2>1, <2>2, <2>3, <2>4 DEF NoPosition, Readings
<1>9. n.status.cash = n.loop.cash /\ n.analytics.cash = n.loop.cash
  BY <1>1, <1>2, <1>3 DEF Agreement
<1> QED BY <1>1, <1>6, <1>7, <1>8, <1>9 DEF Agreement, n

-----------------------------------------------------------------------------
(* When a position was opened. *)

LEMMA OpenRowsAppend ==
  ASSUME NEW rows \in Seq(FillRecords), NEW f \in FillRecords, NEW s
  PROVE  OpenRows(Append(rows, f), s) =
           IF f.symbol = s /\ f.side = "SELL" THEN {}
           ELSE OpenRows(rows, s) \union {Len(rows) + 1}
<1> DEFINE n == Len(rows)
           more == Append(rows, f)
<1>0. /\ n \in Nat /\ Len(more) = n + 1 /\ more[n + 1] = f
      /\ \A i \in 1..n : more[i] = rows[i]
      /\ DOMAIN rows = 1..n /\ DOMAIN more = 1..(n + 1)
      /\ f.side \in {"BUY", "SELL"}
  BY DEF FillRecords
<1> HIDE DEF n, more
<1>1. OpenRows(more, s)
        = {i \in 1..(n + 1) : \A j \in i..(n + 1) : more[j].symbol = s => more[j].side = "BUY"}
  BY <1>0 DEF OpenRows
<1>2. OpenRows(rows, s)
        = {i \in 1..n : \A j \in i..n : rows[j].symbol = s => rows[j].side = "BUY"}
  BY <1>0 DEF OpenRows, n
<1>3. CASE f.symbol = s /\ f.side = "SELL"
  BY <1>0, <1>1, <1>3 DEF more
<1>4. CASE ~(f.symbol = s /\ f.side = "SELL")
  <2>1. ASSUME NEW i \in 1..n
        PROVE  i \in OpenRows(more, s) <=> i \in OpenRows(rows, s)
    BY <1>0, <1>1, <1>2, <1>4
  <2>2. n + 1 \in OpenRows(more, s)
    BY <1>0, <1>1, <1>4
  <2>3. OpenRows(more, s) \subseteq 1..(n + 1) /\ OpenRows(rows, s) \subseteq 1..n
    BY <1>1, <1>2
  <2>4. \A i \in 1..(n + 1) : i = n + 1 \/ i \in 1..n
    BY <1>0
  <2>5. OpenRows(more, s) = OpenRows(rows, s) \union {n + 1}
    BY <1>0, <2>1, <2>2, <2>3, <2>4
  <2> QED BY <1>4, <2>5 DEF n, more
<1> QED BY <1>3, <1>4

\* A row of s keeps the time of opening, sets it or ends the position; a row of
\* another symbol leaves it alone.
LEMMA OpeningStep ==
  ASSUME NEW rows \in Seq(FillRecords), NEW f \in FillRecords, NEW s, NEW p, NEW q,
         OpenedAt(rows, s, p), p.qty \in Nat, q.qty \in Nat,
         f.symbol # s => q = p,
         f.symbol = s /\ f.side = "SELL" => q.qty = 0,
         f.symbol = s /\ f.side = "BUY"
           => q.qty > 0 /\ q.opened = IF p.qty = 0 THEN f.at ELSE p.opened
  PROVE  OpenedAt(Append(rows, f), s, q)
<1> DEFINE n == Len(rows)
           more == Append(rows, f)
<1>0. /\ n \in Nat /\ Len(more) = n + 1 /\ more[n + 1] = f
      /\ \A i \in 1..n : more[i] = rows[i]
      /\ DOMAIN rows = 1..n /\ DOMAIN more = 1..(n + 1)
      /\ f.side \in {"BUY", "SELL"}
  BY DEF FillRecords
<1>1. OpenRows(more, s) = IF f.symbol = s /\ f.side = "SELL" THEN {}
                          ELSE OpenRows(rows, s) \union {n + 1}
  BY OpenRowsAppend
<1>2. OpenRows(rows, s) \subseteq 1..n
  BY <1>0 DEF OpenRows
<1> HIDE DEF n, more
<1>3. CASE f.symbol = s /\ f.side = "SELL"
  BY <1>1, <1>3 DEF OpenedAt, more
<1>4. CASE f.symbol # s
  <2>1. \A i \in 1..n : IsFirst(rows, s, i) => IsFirst(more, s, i)
    BY <1>0, <1>1, <1>2, <1>4 DEF IsFirst
  <2>2. p.qty = 0 => \A i \in OpenRows(more, s) : more[i].symbol # s
    BY <1>0, <1>1, <1>2, <1>4 DEF OpenedAt
  <2>3. p.qty > 0 => \E i \in 1..(n + 1) : IsFirst(more, s, i) /\ more[i].at = p.opened
    BY <1>0, <2>1 DEF OpenedAt
  <2> QED BY <1>0, <1>4, <2>2, <2>3 DEF OpenedAt, more
<1>5. CASE f.symbol = s /\ f.side = "BUY"
  <2>1. CASE p.qty = 0
    <3>1. \A i \in OpenRows(rows, s) : rows[i].symbol # s
      BY <2>1 DEF OpenedAt
    <3>2. IsFirst(more, s, n + 1) /\ more[n + 1].at = q.opened
      BY <1>0, <1>1, <1>2, <1>5, <2>1, <3>1 DEF IsFirst
    <3>3. n + 1 \in DOMAIN more
      BY <1>0
    <3> QED BY <1>5, <3>2, <3>3 DEF OpenedAt, more
  <2>2. CASE p.qty > 0
    <3>1. PICK i \in 1..n : IsFirst(rows, s, i) /\ rows[i].at = p.opened
      BY <1>0, <2>2 DEF OpenedAt
    <3>2. IsFirst(more, s, i) /\ more[i].at = q.opened
      BY <1>0, <1>1, <1>2, <1>5, <2>2, <3>1 DEF IsFirst
    <3>3. i \in DOMAIN more
      BY <1>0
    <3> QED BY <1>5, <3>2, <3>3 DEF OpenedAt, more
  <2> QED BY <2>1, <2>2
<1> QED BY <1>0, <1>3, <1>4, <1>5

\* The opening time that the account keeps is the one the rows tell.
LEMMA OpenedFirst ==
  ASSUME NEW s, NEW p, fills \in Seq(FillRecords), OpenedAt(fills, s, p), p.qty > 0
  PROVE  FirstPurchase(s) = p.opened
<1> DEFINE open == OpenRows(fills, s)
           Is(i) == /\ fills[i].symbol = s
                    /\ \A j \in open : fills[j].symbol = s => i <= j
<1>1. PICK i \in open : Is(i) /\ fills[i].at = p.opened
  BY DEF OpenedAt, IsFirst
<1>2. open \subseteq Int
  BY DEF OpenRows
<1>3. FirstPurchase(s) = fills[CHOOSE j \in open : Is(j)].at
  BY DEF FirstPurchase, OpenRows
<1> HIDE DEF open
<1>4. \A j \in open : Is(j) => j = i
  BY <1>1, <1>2
<1>5. (CHOOSE j \in open : Is(j)) = i
  BY <1>1, <1>4
<1> QED BY <1>1, <1>3, <1>5

-----------------------------------------------------------------------------
(* The position limits. *)

\* Every equity has a profile, with limits per mille.
LEMMA CapsTyped ==
  ASSUME NEW equity
  PROVE  /\ SelectRiskProfile(equity).maxSymbolPosition \in Nat
         /\ SelectRiskProfile(equity).maxTotalPosition \in Nat
<1> DEFINE tiers == {i \in 1..3 : Covers(DefaultRiskProfiles[i], equity)}
<1>1. DOMAIN DefaultRiskProfiles = 1..3
  BY DEF DefaultRiskProfiles
<1>2. \A i \in 1..3 : /\ DefaultRiskProfiles[i].maxSymbolPosition \in Nat
                      /\ DefaultRiskProfiles[i].maxTotalPosition \in Nat
  BY DEF DefaultRiskProfiles, Profile
<1>3. tiers # {} => (CHOOSE i \in tiers : \A j \in tiers : i <= j) \in 1..3
  <2>1. ASSUME NEW T \in SUBSET (1..3), T # {} PROVE \E i \in T : \A j \in T : i <= j
    <3>1. PICK i \in T : TRUE
      BY <2>1
    <3>2. i = 1 \/ i = 2 \/ i = 3
      OBVIOUS
    <3>3. \A j \in T : j = 1 \/ j = 2 \/ j = 3
      OBVIOUS
    <3> QED BY <3>1, <3>2, <3>3
  <2> QED BY <2>1
<1>4. \E i \in 1..3 : SelectRiskProfile(equity) = DefaultRiskProfiles[i]
  <2>1. CASE tiers = {}
    BY <1>1, <2>1 DEF SelectRiskProfile
  <2>2. CASE tiers # {}
    BY <1>1, <1>3, <2>2 DEF SelectRiskProfile
  <2> QED BY <2>1, <2>2
<1> QED BY <1>2, <1>4

LEMMA PricesTyped == \A x \in Prices : x \in Nat \ {0}
BY MoneyAssumption

LEMMA ValuesTyped ==
  ASSUME NEW positions \in Positions, NEW prices \in [SymbolSet -> Prices]
  PROVE  /\ Values(positions, prices) \in [SymbolSet -> Nat]
         /\ Values(positions, prices) \in [SymbolSet -> Int]
         /\ \A s \in SymbolSet : Values(positions, prices)[s] = positions[s].qty * prices[s]
         /\ Total(Values(positions, prices)) \in Int
<1>1. \A s \in SymbolSet : positions[s].qty * prices[s] \in Nat
  <2>1. \A s \in SymbolSet : positions[s].qty \in Nat /\ prices[s] \in Nat
    BY PricesTyped DEF Positions
  <2> QED BY <2>1, Products
<1>2. Values(positions, prices) \in [SymbolSet -> Nat]
  BY <1>1 DEF Values
<1>3. Values(positions, prices) \in [SymbolSet -> Int]
  BY <1>2
<1> QED BY <1>2, <1>3, TotalTyped DEF Values

\* There are as many symbols as the configuration lists.
LEMMA SymbolsFinite == \A S \in SUBSET SymbolSet : IsFiniteSet(S)
<1> DEFINE N == 1..Len(Symbols)
<1>1. IsFiniteSet(N) /\ N = DOMAIN Symbols
  BY FS_Interval, SymbolsNamed, SymbolsAssumption
<1>2. SymbolSet = {Symbols[i] : i \in N}
  BY <1>1 DEF SymbolSet, ToSet
<1>3. Symbols \in Surjection(N, SymbolSet)
  BY <1>1, <1>2, SymbolsAssumption DEF Surjection
<1> HIDE DEF N
<1>4. IsFiniteSet(SymbolSet)
  BY <1>1, <1>3, FS_Surjection
<1> QED BY <1>4, FS_Subset

\* An iteration starts with what its snapshot holds.
LEMMA ExposureStarts ==
  ASSUME NEW it \in Iterations, it.entered = {}, NEW c \in Nat, NEW t \in Nat
  PROVE  Exposure(it, it.positions, c, t)
<1>1. Total(Values(it.positions, it.prices)) \in Int
  BY ValuesTyped DEF Iterations
<1>2. Cardinality(it.entered) = 0
  BY FS_EmptySet
<1> QED BY <1>1, <1>2 DEF Exposure

\* A symbol without an entry can only be sold.
LEMMA ExposureFalls ==
  ASSUME NEW it \in Iterations, NEW old \in Positions, NEW new \in Positions,
         NEW s \in SymbolSet, s \notin it.entered,
         \A u \in SymbolSet \ {s} : new[u] = old[u],
         new[s].qty \in {0, old[s].qty},
         NEW c \in Nat, NEW t \in Nat, Exposure(it, old, c, t)
  PROVE  Exposure(it, new, c, t)
<1> DEFINE v == Values(old, it.prices)
           w == Values(new, it.prices)
           b == Values(it.positions, it.prices)
<1>1. /\ v \in [SymbolSet -> Nat] /\ w \in [SymbolSet -> Nat] /\ b \in [SymbolSet -> Nat]
      /\ v \in [SymbolSet -> Int] /\ w \in [SymbolSet -> Int]
      /\ Total(v) \in Int /\ Total(b) \in Int
  BY ValuesTyped DEF Iterations
<1>2. \A u \in SymbolSet \ {s} : w[u] = v[u]
  BY DEF Values
<1>3. w[s] <= v[s]
  <2>1. v[s] = old[s].qty * it.prices[s] /\ w[s] = new[s].qty * it.prices[s]
    BY DEF Values
  <2>2. it.prices[s] \in Nat
    BY PricesTyped DEF Iterations
  <2>3. CASE new[s].qty = 0
    BY <1>1, <2>1, <2>2, <2>3
  <2>4. CASE new[s].qty = old[s].qty
    BY <1>1, <2>1, <2>4
  <2> QED BY <2>3, <2>4
<1> HIDE DEF v, w, b
<1>4. Total(w) = Total(v) + w[s] - v[s]
  BY <1>1, <1>2, TotalMoves
<1>5. \A u \in it.entered : w[u] = v[u]
  BY <1>2 DEF Iterations
<1>6. Total(w) <= Total(v)
  BY <1>1, <1>3, <1>4
<1>7. Total(v) * 1000 <= Total(b) * 1000 + Cardinality(it.entered) * c
  BY DEF Exposure, v, b
<1>8. Total(w) * 1000 <= Total(b) * 1000 + Cardinality(it.entered) * c
  <2>1. Cardinality(it.entered) * c \in Int
    <3>1. IsFiniteSet(it.entered)
      BY SymbolsFinite DEF Iterations
    <3> QED BY <3>1, FS_CardinalityType
  <2>2. Total(w) \in Int
    BY <1>1, <1>4
  <2> HIDE DEF Iterations
  <2> QED BY <1>1, <1>6, <1>7, <2>1, <2>2
<1> QED BY <1>5, <1>8 DEF Exposure, v, w, b

\* An entry adds its own value to what its symbol was worth in the snapshot.
LEMMA ExposureGrows ==
  ASSUME NEW it \in Iterations, NEW old \in Positions, NEW new \in Positions,
         NEW s \in SymbolSet, s \notin it.entered, old[s] = it.positions[s],
         \A u \in SymbolSet \ {s} : new[u] = old[u],
         NEW q \in Nat, new[s].qty = old[s].qty + q,
         NEW c \in Nat, NEW t \in Nat, Exposure(it, old, c, t),
         q * it.prices[s] * 1000 <= c,
         Values(it.positions, it.prices)[s] * 1000 < c,
         Total(Values(it.positions, it.prices)) * 1000 < t,
         NEW after, after.prices = it.prices, after.positions = it.positions,
         after.entered = it.entered \union {s}
  PROVE  Exposure(after, new, c, t)
<1> DEFINE v == Values(old, it.prices)
           w == Values(new, it.prices)
           b == Values(it.positions, it.prices)
           k == Cardinality(it.entered)
           gross == q * it.prices[s]
<1>1. /\ v \in [SymbolSet -> Nat] /\ w \in [SymbolSet -> Nat] /\ b \in [SymbolSet -> Nat]
      /\ v \in [SymbolSet -> Int] /\ w \in [SymbolSet -> Int]
      /\ Total(v) \in Int /\ Total(b) \in Int
  BY ValuesTyped DEF Iterations
<1>2. \A u \in SymbolSet \ {s} : w[u] = v[u]
  BY DEF Values
<1>3. w[s] = v[s] + gross /\ v[s] = b[s] /\ gross \in Nat
  <2>1. /\ v[s] = old[s].qty * it.prices[s] /\ w[s] = new[s].qty * it.prices[s]
        /\ b[s] = it.positions[s].qty * it.prices[s]
    BY DEF Values
  <2>2. it.prices[s] \in Nat /\ old[s].qty \in Nat
    BY PricesTyped DEF Iterations, Positions
  <2>3. \A x, y, z \in Nat : (x + y) * z = x * z + y * z
    OBVIOUS
  <2>4. (old[s].qty + q) * it.prices[s] = old[s].qty * it.prices[s] + q * it.prices[s]
    BY <2>2, <2>3
  <2>5. q * it.prices[s] \in Nat
    BY <2>2, Products
  <2> QED BY <2>1, <2>4, <2>5
<1>4. Cardinality(it.entered \union {s}) = k + 1 /\ k \in Nat
  <2>1. IsFiniteSet(it.entered)
    BY SymbolsFinite DEF Iterations
  <2> QED BY <2>1, FS_AddElement, FS_CardinalityType
<1>5. /\ gross * 1000 <= c /\ b[s] * 1000 < c /\ Total(b) * 1000 < t
      /\ Total(v) * 1000 <= Total(b) * 1000 + k * c
      /\ \A u \in it.entered : b[u] * 1000 < c /\ v[u] * 1000 <= b[u] * 1000 + c
  BY DEF Exposure
<1>6. it.entered \subseteq SymbolSet
  BY DEF Iterations
<1> HIDE DEF v, w, b, k, gross
<1>7. Total(w) = Total(v) + gross
  <2>1. Total(w) = Total(v) + w[s] - v[s]
    BY <1>1, <1>2, TotalMoves
  <2> QED BY <1>1, <1>3, <2>1
<1>8. \A u \in it.entered \union {s} : b[u] * 1000 < c /\ w[u] * 1000 <= b[u] * 1000 + c
  <2>1. ASSUME NEW u \in it.entered PROVE w[u] = v[u]
    BY <1>2, <1>6
  <2>2. w[s] * 1000 <= b[s] * 1000 + c
    BY <1>1, <1>3, <1>5
  <2> QED BY <1>5, <2>1, <2>2
<1>9. Total(w) * 1000 <= Total(b) * 1000 + (k + 1) * c
  <2>1. k * c \in Nat /\ (k + 1) * c = k * c + c
    BY <1>4
  <2> QED BY <1>1, <1>3, <1>5, <1>7, <2>1
<1> QED BY <1>4, <1>5, <1>8, <1>9 DEF Exposure, v, w, b

\* The iteration moves on from s: the later symbols are as before, and of s it is
\* enough that it has raised or that no exit is due.
LEMMA MovesOn ==
  ASSUME NEW it \in Iterations, it.next <= Len(Symbols), NEW old, NEW new,
         SnapshotHolds(it, old), Finished(it, old),
         \A u \in SymbolSet \ {Symbols[it.next]} : new[u] = old[u],
         NEW after, after.next = it.next + 1, after.now = it.now, after.prices = it.prices,
         after.positions = it.positions,
         after.entered \in {it.entered, it.entered \union {Symbols[it.next]}},
         it.raised \subseteq after.raised,
         Symbols[it.next] \notin after.raised
           => NotDue(new[Symbols[it.next]], it.prices[Symbols[it.next]], it.now)
  PROVE  SnapshotHolds(after, new) /\ Finished(after, new)
<1>1. it.next \in 1..Len(Symbols) /\ it.next \in Nat
  BY SymbolsNamed DEF Iterations
<1>2. \A i \in 1..Len(Symbols) : i # it.next
        => Symbols[i] \in SymbolSet \ {Symbols[it.next]} /\ new[Symbols[i]] = old[Symbols[i]]
  BY <1>1, SymbolsNamed
<1>3. SnapshotHolds(after, new)
  <2> SUFFICES ASSUME NEW i \in (it.next + 1)..Len(Symbols)
               PROVE  /\ new[Symbols[i]] = it.positions[Symbols[i]]
                      /\ Symbols[i] \notin it.entered /\ Symbols[i] # Symbols[it.next]
    BY DEF SnapshotHolds
  <2>1. i \in it.next..Len(Symbols) /\ i # it.next /\ i \in 1..Len(Symbols)
    BY <1>1, SymbolsNamed
  <2> QED BY <1>2, <2>1 DEF SnapshotHolds
<1>4. Finished(after, new)
  <2> SUFFICES ASSUME NEW i \in 1..it.next, Symbols[i] \notin after.raised
               PROVE  NotDue(new[Symbols[i]], it.prices[Symbols[i]], it.now)
    BY <1>1 DEF Finished
  <2>1. CASE i = it.next
    BY <2>1
  <2>2. CASE i # it.next
    <3>1. i \in 1..(it.next - 1) /\ i \in 1..Len(Symbols)
      BY <1>1, <2>2, SymbolsNamed
    <3> QED BY <1>2, <2>2, <3>1 DEF Finished
  <2> QED BY <2>1, <2>2
<1> QED BY <1>3, <1>4

-----------------------------------------------------------------------------
(* The invariant holds initially and through every step. *)

\* The largest quantity of an entry, with which no sum of entries is rounded.
Fits(most) == most \in Nat /\ Quantities \subseteq 0..most /\ most * MaxFills <= Precise

LEMMA UnreadAgrees == Agreement(Unread)
<1>1. Spent(Opening.positions) \in [SymbolSet -> Int]
      /\ \A s \in SymbolSet : Spent(Opening.positions)[s] = 0
  BY DEF Spent, Opening, NoPosition
<1>2. Total(Spent(Opening.positions)) = 0
  <2> HIDE DEF Spent, Opening
  <2> QED BY <1>1, TotalTyped
<1>3. Unread \in Readings
  BY MoneyAssumption DEF Unread, Readings, Opening, NoPosition, Positions, Amounts, Nothing
<1>4. \A s \in SymbolSet : SymbolAgrees(Unread, s)
  BY DEF SymbolAgrees, Unread, Opening, NoPosition, Nothing
<1>5. Unread.loop = Opening /\ Opening.cash = InitialCash /\ Opening.realized = 0
      /\ Unread.status.cash = InitialCash /\ Unread.analytics.cash = InitialCash
  BY DEF Unread, Opening
<1> QED BY <1>2, <1>3, <1>4, <1>5, MoneyAssumption DEF Agreement

LEMMA InitInv ==
  ASSUME NEW most, Fits(most), Init
  PROVE  IInv(most)
<1>1. Rebuilt(fills) = Unread
  BY RebuiltEmpty DEF Init
<1>2. \A s \in SymbolSet : Account.positions[s] = NoPosition
  BY <1>1 DEF Account, Unread, Opening
<1>3. \A s \in SymbolSet : OpenedAt(fills, s, NoPosition)
  BY DEF OpenedAt, OpenRows, NoPosition, Init
<1>4. \A s \in SymbolSet :
        /\ Account.positions[s].opened <= clock
        /\ Account.positions[s].qty <= most * Len(fills)
        /\ OpenedAt(fills, s, Account.positions[s])
  BY <1>2, <1>3 DEF NoPosition, Init, Fits
<1>5. Running /\ iteration \in Iterations \union {Idle}
  BY DEF Running, Init, Idle
<1>6. fills \in Seq(FillRecords) /\ Len(fills) <= MaxFills /\ clock \in 0..MaxTick
  BY BoundAssumption DEF Init
<1> QED BY <1>1, <1>4, <1>5, <1>6, UnreadAgrees DEF IInv

LEMMA IterationTyped ==
  ASSUME iteration \in Iterations \union {Idle}
  PROVE  iteration.on \in BOOLEAN /\ (iteration.on <=> iteration \in Iterations)
<1>1. iteration \in Iterations => iteration.on = TRUE
  BY DEF Iterations
<1>2. iteration = Idle => iteration.on = FALSE
  BY DEF Idle
<1> QED BY <1>1, <1>2

\* A step that commits nothing leaves the account alone.
LEMMA NothingCommitted ==
  ASSUME NEW most, IInv(most), UNCHANGED fills
  PROVE  /\ Account' = Account /\ Account.positions \in Positions
         /\ (fills \in Seq(FillRecords) /\ Len(fills) <= MaxFills)'
         /\ Agreement(Rebuilt(fills))'
         /\ \A s \in SymbolSet :
              /\ Account'.positions[s].qty <= most * Len(fills')
              /\ OpenedAt(fills', s, Account'.positions[s])
BY DEF IInv, Account, Agreement, Readings

LEMMA TickStep ==
  ASSUME NEW most, Fits(most), IInv(most), Tick
  PROVE  IInv(most)'
<1>1. ~iteration'.on /\ iteration' = iteration /\ clock' = clock + 1 /\ clock' \in 0..MaxTick
  BY BoundAssumption DEF Tick, IInv
<1>2. Running'
  BY <1>1 DEF Running
<1>3. \A s \in SymbolSet : Account.positions[s].opened <= clock /\ Account.positions[s].opened \in Nat
  BY DEF IInv, Agreement, Readings, Positions, Account
<1>4. \A s \in SymbolSet : Account'.positions[s].opened <= clock'
  BY <1>1, <1>3, NothingCommitted DEF Tick, IInv
<1> QED BY <1>1, <1>2, <1>4, NothingCommitted DEF Tick, IInv

LEMMA EndStep ==
  ASSUME NEW most, Fits(most), IInv(most), End
  PROVE  IInv(most)'
<1>1. ~iteration'.on /\ iteration' \in {Idle} /\ clock' = clock
  BY DEF End, Idle
<1>2. Running'
  BY <1>1 DEF Running
<1> QED BY <1>1, <1>2, NothingCommitted DEF End, IInv

LEMMA BeginStep ==
  ASSUME NEW most, Fits(most), IInv(most), Begin
  PROVE  IInv(most)'
<1> DEFINE a == Account
<1>1. PICK prices \in [SymbolSet -> Prices] :
        iteration' = [on |-> TRUE, next |-> 1, now |-> clock, prices |-> prices,
                      positions |-> a.positions, equity |-> Equity(a, prices),
                      entered |-> {}, raised |-> {}]
  BY DEF Begin
<1>2. a.positions \in Positions /\ Account' = a /\ a.cash \in Int
  BY NothingCommitted DEF Begin, IInv, Account, Agreement, Readings
<1>3. Equity(a, prices) \in Nat
  <2>1. Total(Values(a.positions, prices)) \in Int
    BY <1>2, ValuesTyped
  <2>2. Values(a.positions, prices) = [s \in SymbolSet |-> Worth(a.positions[s], prices[s])]
    BY DEF Values, Worth
  <2> QED BY <1>2, <2>1, <2>2, MoneyAssumption DEF Equity
<1> HIDE DEF a
<1>4. iteration' \in Iterations
  BY <1>1, <1>2, <1>3, SymbolsNamed DEF Iterations, IInv
<1>5. SnapshotHolds(iteration', a.positions) /\ Finished(iteration', a.positions)
  BY <1>1, <1>2 DEF SnapshotHolds, Finished
<1>6. Exposure(iteration', a.positions, Limit(SymbolCap)', Limit(TotalCap)')
  <2>1. Limit(SymbolCap)' \in Nat /\ Limit(TotalCap)' \in Nat
    <3>1. iteration'.equity \in Nat
      BY <1>4 DEF Iterations
    <3> QED BY <3>1, CapsTyped, Products DEF Limit, SymbolCap, TotalCap
  <2> QED BY <1>1, <1>2, <1>4, <2>1, ExposureStarts
<1>7. iteration'.now = clock' /\ clock' = clock
  BY <1>1 DEF Begin
<1>8. Running'
  BY <1>2, <1>5, <1>6, <1>7 DEF Running
<1>9. UNCHANGED fills
  BY DEF Begin
<1> QED BY <1>2, <1>4, <1>7, <1>8, <1>9, NothingCommitted DEF IInv, a

\* What a cycle finds: its symbol is as in the snapshot, the account is typed.
LEMMA CycleFacts ==
  ASSUME NEW most, Fits(most), IInv(most), Cycling
  PROVE  /\ iteration \in Iterations /\ iteration.next \in 1..Len(Symbols)
         /\ Symbol \in SymbolSet /\ Symbol = Symbols[iteration.next]
         /\ Price \in Nat \ {0} /\ Price = iteration.prices[Symbol]
         /\ Account.positions \in Positions /\ Held = Account.positions[Symbol]
         /\ Symbol \notin iteration.entered
         /\ iteration.now = clock /\ iteration.equity \in Nat
         /\ SnapshotHolds(iteration, Account.positions) /\ Finished(iteration, Account.positions)
         /\ Limit(SymbolCap) \in Nat /\ Limit(TotalCap) \in Nat
         /\ Exposure(iteration, Account.positions, Limit(SymbolCap), Limit(TotalCap))
<1>1. iteration.on /\ iteration.next <= Len(Symbols)
  BY DEF Cycling
<1>2. iteration \in Iterations
  BY <1>1, IterationTyped DEF IInv
<1>3. iteration.next \in 1..Len(Symbols) /\ iteration.equity \in Nat
      /\ iteration.prices \in [SymbolSet -> Prices]
  BY <1>1, <1>2, SymbolsNamed DEF Iterations
<1>4. Symbol \in SymbolSet /\ Symbol = Symbols[iteration.next]
  BY <1>3, SymbolsNamed DEF Symbol
<1>5. Price \in Nat \ {0} /\ Price = iteration.prices[Symbol]
  BY <1>3, <1>4, PricesTyped DEF Price
<1>6. /\ SnapshotHolds(iteration, Account.positions) /\ Finished(iteration, Account.positions)
      /\ Exposure(iteration, Account.positions, Limit(SymbolCap), Limit(TotalCap))
      /\ iteration.now = clock
  BY <1>1 DEF IInv, Running
<1>7. iteration.next \in iteration.next..Len(Symbols)
  BY <1>3, SymbolsNamed
<1>8. Held = Account.positions[Symbol] /\ Symbol \notin iteration.entered
  BY <1>4, <1>6, <1>7 DEF SnapshotHolds, Held
<1>9. Account.positions \in Positions
  BY DEF IInv, Agreement, Readings, Account
<1>10. Limit(SymbolCap) \in Nat /\ Limit(TotalCap) \in Nat
  BY <1>3, CapsTyped, Products DEF Limit, SymbolCap, TotalCap
<1> QED BY <1>2, <1>3, <1>4, <1>5, <1>6, <1>8, <1>9, <1>10

LEMMA NoExitDue ==
  ASSUME NEW most, Fits(most), IInv(most), Cycling, ~ExitDue
  PROVE  NotDue(Account.positions[Symbol], iteration.prices[Symbol], iteration.now)
<1>1. Held \in [qty : Nat, cost : Nat, fees : Nat, opened : Nat]
  BY CycleFacts DEF Positions
<1>2. /\ iteration.now \in Nat /\ Price \in Nat /\ Price = iteration.prices[Symbol]
      /\ Held = Account.positions[Symbol]
  BY CycleFacts DEF Iterations
<1>3. Price * Held.qty * 100 \in Nat /\ Held.cost * (100 + TakeProfit) \in Nat
  BY <1>1, <1>2, Products, ExitAssumption
<1> QED BY <1>1, <1>2, <1>3, ExitAssumption DEF ExitDue, TakesProfit, TimedOut, NotDue

\* A cycle that commits nothing and does not enter moves the iteration on.
LEMMA PassStep ==
  ASSUME NEW most, Fits(most), IInv(most), Skip \/ ExitRaises
  PROVE  IInv(most)'
<1>0. Cycling /\ UNCHANGED <<fills, clock>>
  BY DEF Skip, ExitRaises
<1>1. /\ iteration'.on /\ iteration'.next = iteration.next + 1 /\ iteration'.now = iteration.now
      /\ iteration'.prices = iteration.prices /\ iteration'.positions = iteration.positions
      /\ iteration'.equity = iteration.equity /\ iteration'.entered = iteration.entered
      /\ iteration'.raised \in {iteration.raised, iteration.raised \union {Symbol}}
      /\ Skip => ~ExitDue
      /\ Symbol \notin iteration'.raised => Skip
      /\ iteration' \in Iterations
  <2>1. iteration \in Iterations /\ iteration.next \in 1..Len(Symbols) /\ Symbol \in SymbolSet
    BY <1>0, CycleFacts
  <2>2. iteration.next + 1 \in 1..(Len(Symbols) + 1)
    BY <2>1, SymbolsNamed
  <2>3. CASE Skip
    BY <2>1, <2>2, <2>3 DEF Skip, NextSymbol, Iterations
  <2>4. CASE ExitRaises
    <3> DEFINE it == NextSymbol({})
    <3>1. /\ it \in Iterations /\ it.on = TRUE /\ it.next = iteration.next + 1
          /\ it.now = iteration.now /\ it.prices = iteration.prices
          /\ it.positions = iteration.positions /\ it.equity = iteration.equity
          /\ it.entered = iteration.entered /\ it.raised = iteration.raised
      BY <2>1, <2>2 DEF NextSymbol, Iterations
    <3>2. iteration' = [it EXCEPT !.raised = @ \union {Symbol}]
      BY <2>4 DEF ExitRaises
    <3> HIDE DEF it
    <3>3. iteration' \in Iterations
      BY <2>1, <3>1, <3>2 DEF Iterations
    <3>4. /\ iteration'.on = it.on /\ iteration'.next = it.next /\ iteration'.now = it.now
          /\ iteration'.prices = it.prices /\ iteration'.positions = it.positions
          /\ iteration'.equity = it.equity /\ iteration'.entered = it.entered
          /\ iteration'.raised = it.raised \union {Symbol}
      BY <3>1, <3>2 DEF Iterations
    <3>5. Skip => ~ExitDue
      BY DEF Skip
    <3> QED BY <3>1, <3>3, <3>4, <3>5
  <2> QED BY <2>3, <2>4
<1>2. Account' = Account
  BY <1>0, NothingCommitted
<1>3. ~ExitDue => NotDue(Account.positions[Symbol], iteration.prices[Symbol], iteration.now)
  BY <1>0, NoExitDue
<1>4. SnapshotHolds(iteration', Account.positions) /\ Finished(iteration', Account.positions)
  <2>1. iteration.raised \subseteq iteration'.raised
    BY <1>1
  <2>2. Symbol \notin iteration'.raised
          => NotDue(Account.positions[Symbol], iteration.prices[Symbol], iteration.now)
    BY <1>1, <1>3
  <2>3. iteration \in Iterations /\ iteration.next <= Len(Symbols)
        /\ SnapshotHolds(iteration, Account.positions) /\ Finished(iteration, Account.positions)
    BY <1>0, CycleFacts DEF Cycling
  <2> QED BY <1>1, <2>1, <2>2, <2>3, MovesOn DEF Symbol
<1>5. Exposure(iteration', Account.positions, Limit(SymbolCap)', Limit(TotalCap)')
  BY <1>0, <1>1, CycleFacts DEF Exposure, Limit, SymbolCap, TotalCap
<1>6. iteration'.now = clock'
  BY <1>0, <1>1, CycleFacts
<1>7. Running'
  BY <1>2, <1>4, <1>5, <1>6 DEF Running
<1> QED BY <1>0, <1>1, <1>2, <1>7, NothingCommitted DEF IInv

LEMMA BoundsGrow ==
  ASSUME NEW most, Fits(most), NEW n \in Nat, n + 1 <= MaxFills
  PROVE  /\ most * (n + 1) = most * n + most
         /\ most * n <= Precise /\ most <= Precise
         /\ \A q \in 0..most : Stored(q) = q
         /\ \A q \in 0..(most * n) : Stored(q) = q
<1>1. \A a, b, c \in Nat : b <= c => a * b <= a * c
  OBVIOUS
<1>2. most * n <= most * MaxFills /\ most * 1 <= most * MaxFills
  BY <1>1, BoundAssumption DEF Fits
<1>3. most * 1 = most /\ most * (n + 1) = most * n + most /\ most * n \in Nat
  BY Products DEF Fits
<1>4. most * MaxFills \in Nat
  BY Products, BoundAssumption DEF Fits
<1>5. most * n <= Precise /\ most <= Precise
  BY <1>2, <1>3, <1>4, PrecisionAssumption DEF Fits
<1>6. \A q \in Nat : q <= Precise => Stored(q) = q
  BY DEF Stored
<1> QED BY <1>3, <1>5, <1>6, PrecisionAssumption DEF Fits

\* What a commit adds to the rows, and how the iteration moves on.
Records(f, entered) ==
  /\ f \in FillRecords /\ fills \in Seq(FillRecords) /\ fills' = Append(fills, f)
  /\ Len(fills) \in Nat /\ Len(fills') = Len(fills) + 1 /\ Len(fills') <= MaxFills
  /\ fills' \in Seq(FillRecords)
  /\ Rebuilt(fills)' = ReadFill(Rebuilt(fills), f)
  /\ clock' = clock /\ clock \in Nat
  /\ iteration' \in Iterations
  /\ iteration'.on /\ iteration'.next = iteration.next + 1
  /\ iteration'.now = iteration.now /\ iteration'.prices = iteration.prices
  /\ iteration'.positions = iteration.positions /\ iteration'.equity = iteration.equity
  /\ iteration'.entered = iteration.entered \union entered
  /\ iteration'.raised = iteration.raised
  /\ Limit(SymbolCap)' = Limit(SymbolCap) /\ Limit(TotalCap)' = Limit(TotalCap)

LEMMA CommitFacts ==
  ASSUME NEW most, Fits(most), IInv(most), Cycling,
         NEW side \in {"BUY", "SELL"}, NEW q \in Nat \ {0}, NEW fee \in Nat,
         NEW entered \in SUBSET {Symbol},
         Stored(q) = q, Commit(side, q, fee, entered)
  PROVE  Records([symbol |-> Symbol, side |-> side, qty |-> q, price |-> Price,
                  fee |-> fee, at |-> clock], entered)
<1> DEFINE f == [symbol |-> Symbol, side |-> side, qty |-> q, price |-> Price,
                 fee |-> fee, at |-> clock]
<1>1. Symbol \in SymbolSet /\ Price \in Nat /\ iteration.now = clock
      /\ iteration \in Iterations /\ iteration.next \in 1..Len(Symbols)
  BY CycleFacts
<1>2. clock \in Nat /\ fills \in Seq(FillRecords)
  BY BoundAssumption DEF IInv
<1>3. f \in FillRecords
  BY <1>1, <1>2 DEF FillRecords
<1>4. fills' = Append(fills, f) /\ Len(fills) < MaxFills /\ clock' = clock
  BY <1>1 DEF Commit
<1>5. iteration' = [iteration EXCEPT !.next = @ + 1, !.entered = @ \union entered]
  BY DEF Commit, NextSymbol
<1>6. iteration.next + 1 \in 1..(Len(Symbols) + 1)
  BY <1>1, SymbolsNamed
<1>7. /\ iteration' \in Iterations
      /\ iteration'.on /\ iteration'.next = iteration.next + 1
      /\ iteration'.now = iteration.now /\ iteration'.prices = iteration.prices
      /\ iteration'.positions = iteration.positions /\ iteration'.equity = iteration.equity
      /\ iteration'.entered = iteration.entered \union entered
      /\ iteration'.raised = iteration.raised
  BY <1>1, <1>5, <1>6 DEF Iterations
<1> HIDE DEF f
<1>8. Rebuilt(fills)' = ReadFill(Rebuilt(fills), f)
  BY <1>2, <1>3, <1>4, RebuiltAppend
<1>9. Len(fills) \in Nat /\ Len(fills') = Len(fills) + 1 /\ fills' \in Seq(FillRecords)
  BY <1>2, <1>3, <1>4
<1>10. Limit(SymbolCap)' = Limit(SymbolCap) /\ Limit(TotalCap)' = Limit(TotalCap)
  BY <1>7 DEF Limit, SymbolCap, TotalCap
<1>11. Len(fills') <= MaxFills
  BY <1>4, <1>9, BoundAssumption
<1> QED BY <1>2, <1>3, <1>4, <1>7, <1>8, <1>9, <1>10, <1>11 DEF Records, f

\* An exit sells what the account holds of the symbol.
LEMMA ExitStep ==
  ASSUME NEW most, Fits(most), IInv(most), Exit
  PROVE  IInv(most)'
<1> DEFINE q == Held.qty
           fee == (q * Price * FeeBps) \div 10000
           f == [symbol |-> Symbol, side |-> "SELL", qty |-> q, price |-> Price,
                 fee |-> fee, at |-> clock]
           old == Account.positions
           new == Account'.positions
<1>0. Cycling /\ q > 0 /\ Commit("SELL", q, fee, {})
  BY DEF Exit, ExitDue, QtyToExit
<1>1. /\ Symbol \in SymbolSet /\ Price \in Nat /\ old \in Positions /\ Held = old[Symbol]
      /\ iteration \in Iterations /\ Symbol \notin iteration.entered
  BY <1>0, CycleFacts
<1>2. q \in Nat \ {0}
  BY <1>0, <1>1 DEF Positions
<1>3. fee \in Nat
  <2>1. q * Price \in Nat /\ FeeBps \in Nat
    BY <1>1, <1>2, Products, MoneyAssumption
  <2>2. q * Price * FeeBps \in Nat
    BY <2>1, Products
  <2> QED BY <2>2, Products
<1> HIDE DEF fee
<1>4. Stored(q) = q
  <2>1. q <= most * Len(fills) /\ Len(fills) + 1 <= MaxFills /\ Len(fills) \in Nat
    BY <1>0, <1>1, BoundAssumption DEF IInv, Commit
  <2>2. q \in 0..(most * Len(fills))
    BY <1>2, <2>1, Products DEF Fits
  <2> QED BY <2>1, <2>2, BoundsGrow
<1> HIDE DEF q
<1>5. Records(f, {})
  BY <1>0, <1>2, <1>3, <1>4, CommitFacts
<1>6. f.symbol = Symbol /\ f.side = "SELL" /\ f.qty = q
  OBVIOUS
<1> HIDE DEF f
<1>7. Agreement(Rebuilt(fills))' /\ new = [old EXCEPT ![Symbol] = NoPosition]
  <2>1. Agreement(Rebuilt(fills)) /\ f.qty = Rebuilt(fills).loop.positions[f.symbol]
          .qty
    BY <1>1, <1>6 DEF IInv, Account, q
  <2>2. /\ Agreement(ReadFill(Rebuilt(fills), f))
        /\ ReadFill(Rebuilt(fills), f).loop.positions
             = [Rebuilt(fills).loop.positions EXCEPT ![f.symbol] = NoPosition]
    BY <1>5, <1>6, <2>1, SaleAgrees DEF Records
  <2> QED BY <1>5, <1>6, <2>2 DEF Records, Account
<1>8. /\ new \in Positions /\ new[Symbol] = NoPosition
      /\ \A s \in SymbolSet \ {Symbol} : new[s] = old[s]
  BY <1>1, <1>7 DEF Positions, NoPosition
<1> HIDE DEF old, new
<1>9. ASSUME NEW s \in SymbolSet
      PROVE  /\ new[s].opened <= clock' /\ new[s].qty <= most * Len(fills')
             /\ OpenedAt(fills', s, new[s])
  <2>1. /\ old[s].opened <= clock /\ old[s].qty <= most * Len(fills)
        /\ OpenedAt(fills, s, old[s]) /\ old[s].qty \in Nat
    BY <1>1 DEF IInv, old, Positions
  <2>2. most * Len(fills') = most * Len(fills) + most /\ most * Len(fills) \in Nat /\ most \in Nat
    <3>1. Len(fills) \in Nat /\ Len(fills') = Len(fills) + 1 /\ Len(fills) + 1 <= MaxFills
      BY <1>5 DEF Records
    <3>2. most * (Len(fills) + 1) = most * Len(fills) + most
      BY <3>1, BoundsGrow
    <3>3. most \in Nat /\ most * Len(fills) \in Nat
      BY <3>1, Products DEF Fits
    <3> QED BY <3>1, <3>2, <3>3
  <2>3. s # Symbol => new[s] = old[s]
    BY <1>8
  <2>4. s = Symbol => new[s].qty = 0 /\ new[s].opened = 0
    BY <1>8 DEF NoPosition
  <2>5. OpenedAt(fills', s, new[s])
    BY <1>5, <1>6, <2>1, <2>3, <2>4, OpeningStep DEF Records
  <2> QED BY <1>5, <2>1, <2>2, <2>3, <2>4, <2>5 DEF Records
<1>10. SnapshotHolds(iteration', new) /\ Finished(iteration', new)
  <2>1. NotDue(new[Symbol], iteration.prices[Symbol], iteration.now)
    BY <1>8 DEF NotDue, NoPosition
  <2>2. iteration.next <= Len(Symbols)
        /\ SnapshotHolds(iteration, old) /\ Finished(iteration, old)
    BY <1>0, CycleFacts DEF Cycling, old
  <2>3. iteration.raised \subseteq iteration'.raised
    BY <1>5 DEF Records
  <2> QED BY <1>1, <1>5, <1>8, <2>1, <2>2, <2>3, MovesOn DEF Records, Symbol
<1>11. Exposure(iteration', new, Limit(SymbolCap)', Limit(TotalCap)')
  <2>1. /\ Limit(SymbolCap) \in Nat /\ Limit(TotalCap) \in Nat
        /\ Exposure(iteration, old, Limit(SymbolCap), Limit(TotalCap))
    BY <1>0, CycleFacts DEF old
  <2>2. new[Symbol].qty \in {0, old[Symbol].qty}
    BY <1>8 DEF NoPosition
  <2>3. Exposure(iteration, new, Limit(SymbolCap), Limit(TotalCap))
    BY <1>1, <1>8, <2>1, <2>2, ExposureFalls DEF old
  <2> QED BY <1>5, <2>3 DEF Records, Exposure
<1>12. Running'
  <2>1. iteration'.now = clock'
    BY <1>0, <1>5, CycleFacts DEF Records
  <2> QED BY <1>10, <1>11, <2>1 DEF Running, new
<1> QED BY <1>5, <1>7, <1>9, <1>12 DEF Records, IInv, new

\* A purchase at the market price moves a position away from its target.
LEMMA BoughtNotDue ==
  ASSUME NEW p \in [qty : Nat, cost : Nat, fees : Nat, opened : Nat],
         NEW f \in FillRecords, NotDue(p, f.price, f.at), f.price > 0,
         p.qty = 0 => p.cost = 0
  PROVE  NotDue(Bought(p, f), f.price, f.at)
<1> DEFINE gross == f.qty * f.price
           target == 100 + TakeProfit
           b == Bought(p, f)
<1>0. f.qty \in Nat \ {0} /\ f.price \in Nat \ {0} /\ f.at \in Nat
  BY DEF FillRecords
<1>1. gross \in Nat \ {0} /\ target \in Nat /\ target > 100
  <2>1. \A x, y \in Nat \ {0} : x * y \in Nat \ {0}
    OBVIOUS
  <2> QED BY <1>0, <2>1, ExitAssumption
<1>2. f.price * (p.qty + f.qty) * 100 = f.price * p.qty * 100 + gross * 100
  <2>1. \A x, y, z \in Nat : x * (y + z) * 100 = x * y * 100 + z * x * 100
    OBVIOUS
  <2> QED BY <1>0, <2>1
<1> HIDE DEF target, gross
<1>3. (p.cost + gross) * target = p.cost * target + gross * target
  BY <1>1
<1>4. gross * 100 < gross * target
  <2>1. \A x \in Nat \ {0}, y, z \in Nat : y < z => x * y < x * z
    OBVIOUS
  <2> QED BY <1>1, <2>1
<1>5. f.price * p.qty * 100 <= p.cost * target
  <2>1. CASE p.qty > 0
    <3>1. f.price * p.qty * 100 \in Nat /\ p.cost * target \in Nat
      BY <1>0, <1>1, Products
    <3>2. f.price * p.qty * 100 < p.cost * target
      BY <2>1 DEF NotDue, target
    <3> QED BY <3>1, <3>2
  <2>2. CASE p.qty = 0
    BY <1>0, <1>1, <2>2
  <2> QED BY <2>1, <2>2
<1>6. f.price * b.qty * 100 < b.cost * target
  <2>1. b.qty = p.qty + f.qty /\ b.cost = p.cost + gross
    BY DEF Bought, gross
  <2>2. f.price * p.qty * 100 \in Nat /\ p.cost * target \in Nat /\ gross * target \in Nat
        /\ gross * 100 \in Nat
    BY <1>0, <1>1, Products
  <2> HIDE DEF b
  <2> QED BY <1>2, <1>3, <1>4, <1>5, <2>1, <2>2
<1>7. f.at - b.opened < MaxHold
  BY <1>0, ExitAssumption DEF Bought, NotDue
<1> QED BY <1>6, <1>7 DEF NotDue, target

\* An entry buys at most what the symbol limit is worth.
LEMMA EnterStep ==
  ASSUME NEW most, Fits(most), IInv(most), NEW q \in Quantities, Enter(q)
  PROVE  IInv(most)'
<1> DEFINE gross == q * Price
           fee == (gross * FeeBps) \div (10000 - FeeBps)
           f == [symbol |-> Symbol, side |-> "BUY", qty |-> q, price |-> Price,
                 fee |-> fee, at |-> clock]
           old == Account.positions
           new == Account'.positions
<1>0. /\ Cycling /\ ~ExitDue /\ BelowCaps /\ Commit("BUY", q, fee, {Symbol})
      /\ (gross + fee) * 1000 <= Limit(SymbolCap)
  BY DEF Enter, Limit
<1>1. /\ Symbol \in SymbolSet /\ Price \in Nat \ {0} /\ old \in Positions /\ Held = old[Symbol]
      /\ iteration \in Iterations /\ Symbol \notin iteration.entered
      /\ Price = iteration.prices[Symbol] /\ iteration.now = clock
  BY <1>0, CycleFacts
<1>2. q \in Nat \ {0}
  BY MoneyAssumption
<1>3. fee \in Nat /\ gross \in Nat
  <2>1. gross \in Nat /\ FeeBps \in Nat /\ 10000 - FeeBps \in Nat \ {0}
    <3>1. FeeBps \in 0..9999
      BY MoneyAssumption
    <3>2. gross \in Nat
      BY <1>1, <1>2, Products
    <3> QED BY <3>1, <3>2
  <2>2. gross * FeeBps \in Nat
    BY <2>1, Products
  <2> QED BY <2>1, <2>2, Products
<1> HIDE DEF fee
<1>4. Stored(q) = q
  <2>1. Len(fills) + 1 <= MaxFills /\ Len(fills) \in Nat
    BY <1>0, BoundAssumption DEF IInv, Commit
  <2>2. q \in 0..most
    BY DEF Fits
  <2> QED BY <2>1, <2>2, BoundsGrow
<1>5. Records(f, {Symbol})
  BY <1>0, <1>2, <1>3, <1>4, CommitFacts
<1>6. f.symbol = Symbol /\ f.side = "BUY" /\ f.qty = q /\ f.price = Price /\ f.at = clock
  OBVIOUS
<1> HIDE DEF f
<1>7. Agreement(Rebuilt(fills))' /\ new = [old EXCEPT ![Symbol] = Bought(old[Symbol], f)]
  <2>1. Agreement(Rebuilt(fills))
    BY DEF IInv
  <2>2. /\ Agreement(ReadFill(Rebuilt(fills), f))
        /\ ReadFill(Rebuilt(fills), f).loop.positions
             = [Rebuilt(fills).loop.positions EXCEPT
                  ![f.symbol] = Bought(Rebuilt(fills).loop.positions[f.symbol], f)]
    BY <1>5, <1>6, <2>1, BuyAgrees DEF Records
  <2> QED BY <1>5, <1>6, <2>2 DEF Records, Account
<1>8. /\ new \in Positions /\ new[Symbol] = Bought(old[Symbol], f)
      /\ \A s \in SymbolSet \ {Symbol} : new[s] = old[s]
  <2>1. new \in Positions
    BY <1>7 DEF Agreement, Readings, Account
  <2> QED BY <1>1, <1>7, <2>1 DEF Positions
<1> HIDE DEF old, new
<1>9. old[Symbol].qty \in Nat /\ old[Symbol] \in [qty : Nat, cost : Nat, fees : Nat, opened : Nat]
      /\ new[Symbol].qty = old[Symbol].qty + q
      /\ new[Symbol].opened = IF old[Symbol].qty = 0 THEN clock ELSE old[Symbol].opened
  BY <1>1, <1>6, <1>8 DEF Positions, Bought
<1>10. ASSUME NEW s \in SymbolSet
      PROVE  /\ new[s].opened <= clock' /\ new[s].qty <= most * Len(fills')
             /\ OpenedAt(fills', s, new[s])
  <2>1. /\ old[s].opened <= clock /\ old[s].qty <= most * Len(fills)
        /\ OpenedAt(fills, s, old[s]) /\ old[s].qty \in Nat /\ new[s].qty \in Nat
    BY <1>1, <1>8 DEF IInv, old, Positions
  <2>2. most * Len(fills') = most * Len(fills) + most /\ most * Len(fills) \in Nat /\ most \in Nat
    <3>1. Len(fills) \in Nat /\ Len(fills') = Len(fills) + 1 /\ Len(fills) + 1 <= MaxFills
      BY <1>5 DEF Records
    <3>2. most * (Len(fills) + 1) = most * Len(fills) + most
      BY <3>1, BoundsGrow
    <3>3. most \in Nat /\ most * Len(fills) \in Nat
      BY <3>1, Products DEF Fits
    <3> QED BY <3>1, <3>2, <3>3
  <2>3. s # Symbol => new[s] = old[s]
    BY <1>8
  <2>4. q <= most
    BY DEF Fits
  <2>5. OpenedAt(fills', s, new[s])
    BY <1>2, <1>5, <1>6, <1>9, <2>1, <2>3, OpeningStep DEF Records
  <2>6. new[s].qty <= most * Len(fills')
    <3> DEFINE bound == most * Len(fills)
    <3>1. bound \in Nat /\ most * Len(fills') = bound + most /\ old[s].qty <= bound
      BY <2>1, <2>2
    <3> HIDE DEF bound
    <3>2. CASE s = Symbol
      BY <1>2, <1>9, <2>1, <2>2, <2>4, <3>1, <3>2
    <3>3. CASE s # Symbol
      BY <2>1, <2>2, <2>3, <3>1, <3>3
    <3> QED BY <3>2, <3>3
  <2> QED BY <1>5, <1>9, <2>1, <2>3, <2>5, <2>6 DEF Records
<1>11. SnapshotHolds(iteration', new) /\ Finished(iteration', new)
  <2>1. NotDue(new[Symbol], iteration.prices[Symbol], iteration.now)
    <3>1. NotDue(old[Symbol], Price, clock)
      BY <1>0, <1>1, NoExitDue DEF old
    <3>2. old[Symbol].qty = 0 => old[Symbol].cost = 0
      BY <1>1 DEF IInv, Agreement, SymbolAgrees, old, Account
    <3>3. f \in FillRecords /\ f.price > 0
      BY <1>1, <1>5, <1>6 DEF Records
    <3>4. NotDue(old[Symbol], f.price, f.at)
      BY <1>1, <1>6, <3>1
    <3>5. NotDue(Bought(old[Symbol], f), f.price, f.at)
      BY <1>9, <3>2, <3>3, <3>4, BoughtNotDue
    <3> QED BY <1>1, <1>6, <1>8, <3>5
  <2>2. iteration.next <= Len(Symbols)
        /\ SnapshotHolds(iteration, old) /\ Finished(iteration, old)
    BY <1>0, CycleFacts DEF Cycling, old
  <2>3. iteration.raised \subseteq iteration'.raised
    BY <1>5 DEF Records
  <2> QED BY <1>1, <1>5, <1>8, <2>1, <2>2, <2>3, MovesOn DEF Records, Symbol
<1>12. Exposure(iteration', new, Limit(SymbolCap)', Limit(TotalCap)')
  <2> DEFINE b == Values(iteration.positions, iteration.prices)
  <2>1. /\ Limit(SymbolCap) \in Nat /\ Limit(TotalCap) \in Nat
        /\ Exposure(iteration, old, Limit(SymbolCap), Limit(TotalCap))
    BY <1>0, CycleFacts DEF old
  <2>2. b[Symbol] \in Nat /\ Total(b) \in Int /\ b = SnapshotWorth
    <3>1. b = SnapshotWorth
      BY DEF SnapshotWorth, Values, Worth
    <3> QED BY <1>1, <3>1, ValuesTyped DEF Iterations
  <2> HIDE DEF b
  <2>3. b[Symbol] * 1000 < Limit(SymbolCap) /\ Total(b) * 1000 < Limit(TotalCap)
    BY <1>0, <2>1, <2>2 DEF BelowCaps, AtLeast, Limit
  <2>4. q * iteration.prices[Symbol] * 1000 <= Limit(SymbolCap)
    <3>1. gross * 1000 <= (gross + fee) * 1000
      BY <1>3
    <3>2. (gross + fee) * 1000 \in Nat /\ gross * 1000 \in Nat
      BY <1>3
    <3> HIDE DEF gross
    <3>3. gross * 1000 <= Limit(SymbolCap)
      BY <1>0, <2>1, <3>1, <3>2
    <3> QED BY <1>1, <3>3 DEF gross
  <2>5. old[Symbol] = iteration.positions[Symbol] /\ old \in Positions
    BY <1>1 DEF Held, old
  <2>6. /\ iteration'.prices = iteration.prices /\ iteration'.positions = iteration.positions
        /\ iteration'.entered = iteration.entered \union {Symbol}
    BY <1>5 DEF Records
  <2>7. q \in Nat /\ new[Symbol].qty = old[Symbol].qty + q
    BY <1>2, <1>9
  <2>8. Exposure(iteration', new, Limit(SymbolCap), Limit(TotalCap))
    BY <1>1, <1>8, <2>1, <2>3, <2>4, <2>5, <2>6, <2>7, ExposureGrows DEF b
  <2> QED BY <1>5, <2>8 DEF Records
<1>13. Running'
  <2>1. iteration'.now = clock'
    BY <1>1, <1>5 DEF Records
  <2> QED BY <1>11, <1>12, <2>1 DEF Running, new
<1> QED BY <1>5, <1>7, <1>10, <1>13 DEF Records, IInv, new

LEMMA NextStep ==
  ASSUME NEW most, Fits(most), IInv(most), [Next]_vars
  PROVE  IInv(most)'
<1>1. CASE Next
  BY <1>1, BeginStep, ExitStep, PassStep, EndStep, TickStep, EnterStep DEF Next
<1>2. CASE UNCHANGED vars
  BY <1>2 DEF vars, IInv, Running, Limit, SymbolCap, TotalCap, Account
<1> QED BY <1>1, <1>2

LEMMA Inductive ==
  ASSUME NEW CONSTANT most, Fits(most)
  PROVE  Spec => []IInv(most)
<1>1. Init => IInv(most)
  BY InitInv
<1>2. IInv(most) /\ [Next]_vars => IInv(most)'
  BY NextStep
<1> QED BY <1>1, <1>2, PTL DEF Spec

-----------------------------------------------------------------------------
(* The properties, of accounts whose quantities the column gives back       *)
(* exactly.  paper_executor.py:80 does not round a quantity to any step, so *)
(* on SQLite this is an idealisation: PaperRounding.cfg shows what a sum    *)
(* that the column rounds leads to.                                         *)

ColumnExact == \E most \in Nat : Fits(most)

\* TypeOK: the fills rebuild an account that PortfolioAccount can hold, with no
\* negative quantity, cost or fee and no position of the future (accounting.py).
THEOREM AccountIsTyped == ColumnExact => (Spec => []TypeOK)
<1> SUFFICES ASSUME NEW CONSTANT most \in Nat, Fits(most) PROVE Spec => []TypeOK
  BY DEF ColumnExact
<1>1. ASSUME IInv(most) PROVE TypeOK
  <2>1. Account.positions \in Positions /\ \A s \in SymbolSet : Account.positions[s].opened <= clock
    BY <1>1 DEF IInv, Agreement, Readings, Account
  <2>2. \A s \in SymbolSet :
          /\ Account.positions[s].qty \in Nat /\ Account.positions[s].cost \in Nat
          /\ Account.positions[s].fees \in Nat /\ Account.positions[s].opened \in 0..clock
    <3>1. clock \in Nat
      BY <1>1, BoundAssumption DEF IInv
    <3> QED BY <2>1, <3>1 DEF Positions
  <2>3. iteration.on => iteration.next \in 1..(Len(Symbols) + 1)
    BY <1>1, IterationTyped DEF IInv, Iterations
  <2> QED BY <1>1, <2>2, <2>3 DEF IInv, TypeOK
<1> QED BY <1>1, Inductive, PTL

\* AccountsAgree: the loop, /runtime/status and /analytics/summary rebuild the same
\* cash, quantities and average prices, and the cash is accounted for to the cent.
THEOREM OneHistoryOneAccount == ColumnExact => (Spec => []AccountsAgree)
<1> SUFFICES ASSUME NEW CONSTANT most \in Nat, Fits(most) PROVE Spec => []AccountsAgree
  BY DEF ColumnExact
<1>1. ASSUME IInv(most) PROVE AccountsAgree
  <2> DEFINE r == Rebuilt(fills)
  <2>1. Agreement(r)
    BY <1>1 DEF IInv
  <2> HIDE DEF r
  <2>2. \A s \in SymbolSet : LET p == r.loop.positions[s] IN
          /\ r.status.qty[s] = p.qty /\ r.analytics.qty[s] = p.qty
          /\ p.qty > 0 => r.status.cost[s] = p.cost
                           /\ r.analytics.cost[s] * p.qty = p.cost * r.analytics.lot[s]
    BY <2>1 DEF Agreement, SymbolAgrees
  <2>3. Total(Spent(r.loop.positions))
          = Total([s \in SymbolSet |-> r.loop.positions[s].cost + r.loop.positions[s].fees])
    BY DEF Spent
  <2>4. r.status.cash = r.loop.cash /\ r.analytics.cash = r.loop.cash
        /\ r.loop.cash + Total(Spent(r.loop.positions)) - r.loop.realized = InitialCash
    BY <2>1 DEF Agreement
  <2> QED BY <2>2, <2>3, <2>4 DEF AccountsAgree, r
<1> QED BY <1>1, Inductive, PTL

\* ExitsAreTaken: behind a running iteration nothing is held past max_hours or at
\* its target, counted from the first purchase whatever was added later
\* (paper_cycle.py's exit scan on the account that accounting.py rebuilds).
THEOREM NoExitIsLeftOver == ColumnExact => (Spec => []ExitsAreTaken)
<1> SUFFICES ASSUME NEW CONSTANT most \in Nat, Fits(most) PROVE Spec => []ExitsAreTaken
  BY DEF ColumnExact
<1>1. ASSUME IInv(most) PROVE ExitsAreTaken
  <2> SUFFICES ASSUME iteration.on, NEW i \in 1..(iteration.next - 1),
                      Account.positions[Symbols[i]].qty > 0, Symbols[i] \notin iteration.raised
               PROVE  LET p == Account.positions[Symbols[i]]
                      IN  /\ iteration.now - FirstPurchase(Symbols[i]) < MaxHold
                          /\ iteration.prices[Symbols[i]] * p.qty * 100
                               < p.cost * (100 + TakeProfit)
    BY DEF ExitsAreTaken
  <2>1. Symbols[i] \in SymbolSet
    <3>1. iteration.next \in 1..(Len(Symbols) + 1)
      BY <1>1, IterationTyped DEF IInv, Iterations
    <3>2. i \in 1..Len(Symbols)
      BY <3>1, SymbolsNamed
    <3> QED BY <3>2, SymbolsNamed
  <2>2. NotDue(Account.positions[Symbols[i]], iteration.prices[Symbols[i]], iteration.now)
    BY <1>1 DEF IInv, Running, Finished
  <2>3. FirstPurchase(Symbols[i]) = Account.positions[Symbols[i]].opened
    BY <1>1, <2>1, OpenedFirst DEF IInv
  <2> QED BY <2>2, <2>3 DEF NotDue
<1> QED BY <1>1, Inductive, PTL

\* ExposureBounded: although every entry of an iteration is judged on the snapshot
\* before the first of them, they pass the limits by one order each at most
\* (evaluate_pre_trade_risk on the inputs of _build_cycle_inputs).
THEOREM ExposureIsBounded == ColumnExact => (Spec => []ExposureBounded)
<1> SUFFICES ASSUME NEW CONSTANT most \in Nat, Fits(most) PROVE Spec => []ExposureBounded
  BY DEF ColumnExact
<1>1. ASSUME IInv(most) PROVE ExposureBounded
  <2> SUFFICES ASSUME iteration.on, iteration.entered # {}
               PROVE  /\ \A s \in iteration.entered : ~AtLeast(WorthNow[s], 2 * SymbolCap)
                      /\ ~AtLeast(Total(WorthNow),
                                  TotalCap + Cardinality(iteration.entered) * SymbolCap)
    BY DEF ExposureBounded
  <2> DEFINE e == iteration.equity  k == Cardinality(iteration.entered)
             b == Values(iteration.positions, iteration.prices)
  <2>1. iteration \in Iterations /\ Account.positions \in Positions
    BY <1>1, IterationTyped DEF IInv, Agreement, Readings, Account
  <2>2. WorthNow = Values(Account.positions, iteration.prices)
    BY DEF WorthNow, Values, Worth
  <2>3. /\ WorthNow \in [SymbolSet -> Nat] /\ Total(WorthNow) \in Int
        /\ b \in [SymbolSet -> Nat] /\ Total(b) \in Int
    BY <2>1, <2>2, ValuesTyped DEF Iterations
  <2>4. e \in Nat /\ SymbolCap \in Nat /\ TotalCap \in Nat
    BY <2>1, CapsTyped DEF Iterations, SymbolCap, TotalCap
  <2>5. k \in Nat
    <3>1. IsFiniteSet(iteration.entered)
      BY <2>1, SymbolsFinite DEF Iterations
    <3> QED BY <3>1, FS_CardinalityType
  <2>6. Exposure(iteration, Account.positions, Limit(SymbolCap), Limit(TotalCap))
    BY <1>1 DEF IInv, Running
  <2>7. /\ \A s \in iteration.entered :
             b[s] * 1000 < Limit(SymbolCap)
             /\ WorthNow[s] * 1000 <= b[s] * 1000 + Limit(SymbolCap)
        /\ Total(b) * 1000 < Limit(TotalCap)
        /\ Total(WorthNow) * 1000 <= Total(b) * 1000 + k * Limit(SymbolCap)
    BY <2>2, <2>6 DEF Exposure
  <2>8. Limit(SymbolCap) = SymbolCap * e /\ Limit(TotalCap) = TotalCap * e
    BY DEF Limit
  <2> HIDE DEF e, k, b
  <2>9. /\ SymbolCap * e \in Nat /\ TotalCap * e \in Nat
        /\ (2 * SymbolCap) * e = SymbolCap * e + SymbolCap * e
        /\ (TotalCap + k * SymbolCap) * e = TotalCap * e + k * (SymbolCap * e)
        /\ k * (SymbolCap * e) \in Nat
    <3>1. \A x, y, z, u \in Nat :
            (2 * x) * y = x * y + x * y /\ (z + u * x) * y = z * y + u * (x * y)
      OBVIOUS
    <3> QED BY <2>4, <2>5, <3>1, Products
  <2>10. ASSUME NEW s \in iteration.entered
         PROVE  WorthNow[s] * 1000 < (2 * SymbolCap) * e
    <3>1. WorthNow[s] \in Nat /\ b[s] \in Nat
      BY <2>1, <2>3 DEF Iterations
    <3>2. /\ b[s] * 1000 < SymbolCap * e
          /\ WorthNow[s] * 1000 <= b[s] * 1000 + SymbolCap * e
      BY <2>7, <2>8
    <3> QED BY <2>9, <3>1, <3>2
  <2>11. Total(WorthNow) * 1000 < (TotalCap + k * SymbolCap) * e
    BY <2>3, <2>7, <2>8, <2>9
  <2>12. \A s \in iteration.entered : ~(WorthNow[s] * 1000 >= (2 * SymbolCap) * e)
    <3>1. \A s \in iteration.entered : WorthNow[s] * 1000 \in Nat
      BY <2>1, <2>3 DEF Iterations
    <3>2. (2 * SymbolCap) * e \in Nat
      BY <2>9
    <3> QED BY <2>10, <3>1, <3>2
  <2>13. ~(Total(WorthNow) * 1000 >= (TotalCap + k * SymbolCap) * e)
    <3>1. Total(WorthNow) * 1000 \in Int /\ (TotalCap + k * SymbolCap) * e \in Int
      BY <2>3, <2>9
    <3> QED BY <2>11, <3>1
  <2> QED BY <2>12, <2>13 DEF AtLeast, e, k
<1> QED BY <1>1, Inductive, PTL
=============================================================================
