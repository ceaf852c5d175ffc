-------------------------- MODULE MarketData_proofs --------------------------
(***************************************************************************)
(* For any symbols, any number of ingesters and any failures: the types,   *)
(* and that a data_ingested event tells the truth about the table.         *)
(***************************************************************************)
EXTENDS MarketData, TLAPS

USE SymbolsAssumption, LimitAssumption, ClockAssumption, FaultsAssumption

-----------------------------------------------------------------------------
(* The inductive invariant, on one table and one pass. *)

Has(tab, s) == {t \in Times : tab[s][t] # "absent"}

\* What holds of a pass wherever it stands: a broken session holds back nothing,
\* a fetch reaches back to period 0 at most, and what was counted is stored.
Core(tab, r) ==
  /\ r \in Passes
  /\ r.broken \/ r.at = "idle" => r.pending = {}
  /\ r.at \in {"select", "flush"} => r.asOf >= Limit - 1
  /\ \A c \in r.counted : Fetched(c[2]) \subseteq Has(tab, c[1])

\* Before the flush each fetched candle is stored or waits in the session.
Covered(tab, r) ==
  \A t \in Fetched(r.asOf) :
    \/ t \in Has(tab, Symbols[r.next])
    \/ \E w \in r.pending : w.symbol = Symbols[r.next] /\ w.time = t

Sound(tab, r) == Core(tab, r) /\ (r.at = "flush" => Covered(tab, r))

IInv ==
  /\ clock \in (Limit - 1)..MaxClock
  /\ table \in [Names -> [Times -> Values]]
  /\ DOMAIN pass = Ingesters /\ pass = [p \in Ingesters |-> pass[p]]
  /\ \A p \in Ingesters : Sound(table, pass[p])
  /\ reported \subseteq Names \X Times
  /\ \A r \in reported : Fetched(r[2]) \subseteq Has(table, r[1])
  /\ faults \in 0..MaxFaults

-----------------------------------------------------------------------------
(* Lemmas about one pass. *)

\* Every position of the configuration names a symbol.
LEMMA SymbolsNamed == \A i \in DOMAIN Symbols : Symbols[i] \in Names
BY DEF Names, ToSet

\* What a pass knows stays true of a table that has grown.
LEMMA GrownTable ==
  ASSUME NEW tab, NEW tab2, NEW r,
         \A s \in Names : Has(tab, s) \subseteq Has(tab2, s),
         Sound(tab, r)
  PROVE  Sound(tab2, r)
<1>1. Core(tab2, r)
  BY DEF Sound, Core, Passes
<1>2. r.at = "flush" => Covered(tab2, r)
  BY SymbolsNamed DEF Sound, Core, Passes, Covered
<1> QED
  BY <1>1, <1>2 DEF Sound

\* Going on to the next symbol, or to the event, wants nothing of the fetch.
LEMMA GoingOn ==
  ASSUME NEW tab, NEW r, Core(tab, r)
  PROVE  Sound(tab, GoOn(r))
<1>1. r.next \in DOMAIN Symbols /\ DOMAIN Symbols = 1..Len(Symbols) /\ Len(Symbols) \in Nat
  BY DEF Core, Passes
<1>2. CASE r.next < Len(Symbols)
  <2>1. GoOn(r) = [r EXCEPT !.next = @ + 1, !.at = "fetch"]
    BY <1>2 DEF GoOn
  <2>2. r.next + 1 \in DOMAIN Symbols
    BY <1>1, <1>2
  <2> QED
    BY <2>1, <2>2 DEF Sound, Core, Passes, Places
<1>3. CASE ~(r.next < Len(Symbols))
  <2>1. GoOn(r) = [r EXCEPT !.at = "record"]
    BY <1>3 DEF GoOn
  <2> QED
    BY <2>1 DEF Sound, Core, Passes, Places
<1> QED
  BY <1>2, <1>3

\* A pass that has ended.
LEMMA IdleIsSound == ASSUME NEW tab PROVE Sound(tab, Idle)
<1>1. 1 \in DOMAIN Symbols
  OBVIOUS
<1>2. 0 \in Times
  BY DEF Times
<1> QED
  BY <1>1, <1>2 DEF Idle, Sound, Core, Passes, Places

\* The candles of a fetch are periods of the model.
LEMMA FetchedInTimes ==
  ASSUME NEW a \in Times, a >= Limit - 1
  PROVE  Fetched(a) \subseteq Times
BY DEF Fetched, Times

\* Staging makes rows of the symbol, and misses only stored candles.
LEMMA StagedRows ==
  ASSUME table \in [Names -> [Times -> Values]],
         NEW s \in Names, NEW a \in Times, NEW times \in SUBSET Times
  PROVE  /\ Staged(s, a, times) \subseteq Rows
         /\ \A t \in times : \/ t \in Has(table, s)
                             \/ \E w \in Staged(s, a, times) : w.symbol = s /\ w.time = t
<1>1. Staged(s, a, times) \subseteq Rows
  <2> SUFFICES ASSUME NEW t \in times
               PROVE  [symbol |-> s, time |-> t, value |-> ValueAt(a, t),
                       new |-> table[s][t] = "absent"] \in Rows
    BY DEF Staged
  <2> DEFINE n == table[s][t] = "absent"
  <2>1. n \in BOOLEAN
    BY Zenon
  <2>2. ValueAt(a, t) \in Values \ {"absent"}
    BY DEF ValueAt, Values
  <2> HIDE DEF n
  <2>3. [symbol |-> s, time |-> t, value |-> ValueAt(a, t), new |-> n] \in Rows
    BY <2>1, <2>2 DEF Rows
  <2> QED
    BY <2>3 DEF n
<1>2. ASSUME NEW t \in times, t \notin Has(table, s)
      PROVE  \E w \in Staged(s, a, times) : w.symbol = s /\ w.time = t
  <2> DEFINE w == [symbol |-> s, time |-> t, value |-> ValueAt(a, t),
                   new |-> table[s][t] = "absent"]
  <2>1. table[s][t] # "final"
    BY <1>2 DEF Has
  <2>2. w \in Staged(s, a, times)
    BY <2>1 DEF Staged
  <2> QED
    BY <2>2
<1> QED
  BY <1>1, <1>2

\* A flush stores the rows of the session and forgets no candle.
LEMMA Flushed ==
  ASSUME IInv, NEW p \in Ingesters, Flush(p)
  PROVE  /\ table' \in [Names -> [Times -> Values]]
         /\ \A s \in Names : Has(table, s) \subseteq Has(table', s)
         /\ \A w \in pass[p].pending : w.time \in Has(table', w.symbol)
<1> DEFINE rows == pass[p].pending
           hit(s, t) == \E w \in rows : w.symbol = s /\ w.time = t
<1>1. rows \subseteq Rows
  BY DEF IInv, Sound, Core, Passes
<1>2. \A s \in Names, t \in Times :
        table'[s][t] = IF hit(s, t) THEN ValueOf(rows, s, t) ELSE table[s][t]
  BY DEF Flush
<1>3. ASSUME NEW s \in Names, NEW t \in Times, hit(s, t)
      PROVE  ValueOf(rows, s, t) \in Values \ {"absent"}
  <2> DEFINE w == CHOOSE x \in rows : x.symbol = s /\ x.time = t
  <2>1. w \in rows
    BY <1>3
  <2> QED
    BY <2>1, <1>1 DEF ValueOf, Rows
<1>4. \A s \in Names, t \in Times : table[s][t] \in Values
  BY DEF IInv
<1>5. table' = [s \in Names |-> [t \in Times |->
                  IF hit(s, t) THEN ValueOf(rows, s, t) ELSE table[s][t]]]
  BY DEF Flush
<1> HIDE DEF hit, rows
<1>6. \A s \in Names, t \in Times :
        (IF hit(s, t) THEN ValueOf(rows, s, t) ELSE table[s][t]) \in Values
  BY <1>3, <1>4
<1>7. table' \in [Names -> [Times -> Values]]
  BY <1>5, <1>6
<1>8. \A s \in Names : Has(table, s) \subseteq Has(table', s)
  BY <1>2, <1>3, <1>4 DEF Has
<1>9. \A w \in rows : w.time \in Has(table', w.symbol)
  <2> SUFFICES ASSUME NEW w \in rows PROVE w.time \in Has(table', w.symbol)
    OBVIOUS
  <2>1. w.symbol \in Names /\ w.time \in Times
    BY <1>1 DEF Rows
  <2>2. hit(w.symbol, w.time)
    BY DEF hit
  <2> QED
    BY <2>1, <2>2, <1>2, <1>3 DEF Has
<1> QED
  BY <1>7, <1>8, <1>9 DEF rows

-----------------------------------------------------------------------------
(* The steps. *)

\* It is enough to look at the pass that moved, and at the table it left.
LEMMA OnePass ==
  ASSUME IInv, NEW p \in Ingesters, NEW r,
         pass' = [pass EXCEPT ![p] = r],
         \A s \in Names : Has(table, s) \subseteq Has(table', s),
         Sound(table', r)
  PROVE  /\ DOMAIN pass' = Ingesters /\ pass' = [q \in Ingesters |-> pass'[q]]
         /\ \A q \in Ingesters : Sound(table', pass'[q])
<1>1. \A q \in Ingesters : Sound(table', pass[q])
  BY GrownTable DEF IInv
<1>2. \A q \in Ingesters : pass'[q] = IF q = p THEN r ELSE pass[q]
  BY DEF IInv
<1>3. DOMAIN pass' = Ingesters /\ pass' = [q \in Ingesters |-> pass'[q]]
  BY DEF IInv
<1> QED
  BY <1>1, <1>2, <1>3

\* A step of one pass that leaves the table alone.
LEMMA TableAlone ==
  ASSUME IInv, NEW p \in Ingesters, NEW r,
         pass' = [pass EXCEPT ![p] = r], Sound(table, r),
         UNCHANGED <<clock, table, reported>>, faults' \in 0..MaxFaults
  PROVE  IInv'
<1>1. /\ DOMAIN pass' = Ingesters /\ pass' = [q \in Ingesters |-> pass'[q]]
      /\ \A q \in Ingesters : Sound(table', pass'[q])
  BY OnePass
<1> QED
  BY <1>1 DEF IInv

\* A failure stays within their bound.
LEMMA FaultCounted == ASSUME IInv, Fault PROVE faults' \in 0..MaxFaults
BY DEF IInv, Fault

LEMMA StartStep == ASSUME IInv, NEW p \in Ingesters, Start(p) PROVE IInv'
<1>1. Sound(table, [Idle EXCEPT !.at = "fetch"])
  BY IdleIsSound DEF Idle, Sound, Core, Passes, Places
<1> QED
  BY <1>1, TableAlone DEF Start, IInv

LEMMA FetchStep == ASSUME IInv, NEW p \in Ingesters, Fetch(p) PROVE IInv'
<1> DEFINE r == [pass[p] EXCEPT !.at = "select", !.asOf = clock]
<1>1. Core(table, pass[p]) /\ pass[p].at = "fetch"
  BY DEF IInv, Sound, Fetch, At
<1>2. clock \in Times /\ clock >= Limit - 1
  BY DEF IInv, Times
<1>3. Sound(table, r)
  BY <1>1, <1>2 DEF Sound, Core, Passes, Places
<1>4. pass' = [pass EXCEPT ![p] = r]
  BY DEF Fetch
<1> QED
  BY <1>3, <1>4, TableAlone DEF Fetch, IInv

\* The failures and refusals that go on with the next symbol at once.
LEMMA SkipStep ==
  ASSUME IInv, NEW p \in Ingesters, FetchFails(p) \/ SelectInBroken(p)
  PROVE  IInv'
<1>1. Sound(table, GoOn(pass[p]))
  BY GoingOn DEF IInv, Sound
<1>2. pass' = [pass EXCEPT ![p] = GoOn(pass[p])]
  BY DEF FetchFails, SelectInBroken
<1>3. faults' \in 0..MaxFaults
  BY FaultCounted DEF FetchFails, SelectInBroken, IInv
<1> QED
  BY <1>1, <1>2, <1>3, TableAlone DEF FetchFails, SelectInBroken

LEMMA SelectStep == ASSUME IInv, NEW p \in Ingesters, Select(p) PROVE IInv'
<1> DEFINE a == pass[p].asOf
           new == Staged(Symbol(p), a, Fetched(a))
           r == [pass[p] EXCEPT !.at = "flush", !.pending = @ \union new]
<1>1. Core(table, pass[p]) /\ pass[p].at = "select" /\ ~pass[p].broken
  BY DEF IInv, Sound, Select, At
<1>2. a \in Times /\ Fetched(a) \in SUBSET Times /\ Symbol(p) \in Names
  BY <1>1, FetchedInTimes, SymbolsNamed DEF Core, Passes, Symbol
<1>3. /\ new \subseteq Rows
      /\ \A t \in Fetched(a) : \/ t \in Has(table, Symbol(p))
                               \/ \E w \in new : w.symbol = Symbol(p) /\ w.time = t
  BY <1>2, StagedRows DEF IInv
<1> HIDE DEF new
<1>4. Core(table, r)
  BY <1>1, <1>3 DEF Core, Passes, Places
<1>5. Covered(table, r)
  BY <1>1, <1>3 DEF Covered, Symbol, Core, Passes
<1>6. pass' = [pass EXCEPT ![p] = r]
  BY DEF Select, new
<1> QED
  BY <1>4, <1>5, <1>6, TableAlone DEF Select, IInv, Sound

LEMMA SelectFailsStep == ASSUME IInv, NEW p \in Ingesters, SelectFails(p) PROVE IInv'
<1>1. Core(table, pass[p]) /\ pass[p].at = "select" /\ ~pass[p].broken
  BY DEF IInv, Sound, SelectFails, At
<1> DEFINE a == pass[p].asOf
           new(t) == Staged(Symbol(p), a, (a - Limit + 1)..(t - 1))
           r(t) == [pass[p] EXCEPT !.pending = pass[p].pending \union new(t)]
<1>2. PICK t \in Fetched(a) : pass' = [pass EXCEPT ![p] = GoOn(r(t))]
  BY DEF SelectFails
<1>3. a \in Times /\ Symbol(p) \in Names /\ (a - Limit + 1)..(t - 1) \in SUBSET Times
  BY <1>1, SymbolsNamed DEF Core, Passes, Symbol, Fetched, Times
<1>4. new(t) \subseteq Rows
  BY <1>3, StagedRows DEF IInv
<1> HIDE DEF new
<1>5. Core(table, r(t))
  BY <1>1, <1>4 DEF Core, Passes
<1>6. Sound(table, GoOn(r(t)))
  BY <1>5, GoingOn
<1> QED
  BY <1>2, <1>6, TableAlone, FaultCounted DEF SelectFails

LEMMA CommitStep == ASSUME IInv, NEW p \in Ingesters, Commit(p) PROVE IInv'
<1> DEFINE c == <<Symbol(p), pass[p].asOf>>
           r == [pass[p] EXCEPT !.pending = {},
                                !.counted = pass[p].counted \union {c}]
<1>1. Core(table, pass[p]) /\ Covered(table, pass[p]) /\ pass[p].at = "flush"
  BY DEF IInv, Sound, Commit, At
<1>2. /\ table' \in [Names -> [Times -> Values]]
      /\ \A s \in Names : Has(table, s) \subseteq Has(table', s)
      /\ \A w \in pass[p].pending : w.time \in Has(table', w.symbol)
  BY Flushed DEF Commit
<1>3. Symbol(p) \in Names
  BY <1>1, SymbolsNamed DEF Core, Passes, Symbol
<1>4. Fetched(pass[p].asOf) \subseteq Has(table', Symbol(p))
  BY <1>1, <1>2, <1>3 DEF Covered, Symbol
<1>5. Core(table', pass[p])
  BY <1>1, <1>2 DEF Core, Passes
<1>6. Core(table', r)
  <2>1. c \in Names \X Times /\ Fetched(c[2]) \subseteq Has(table', c[1])
    BY <1>1, <1>3, <1>4 DEF Core, Passes
  <2> HIDE DEF c
  <2> QED
    BY <2>1, <1>5 DEF Core, Passes
<1>7. Sound(table', GoOn(r))
  BY <1>6, GoingOn
<1>8. pass' = [pass EXCEPT ![p] = GoOn(r)]
  BY DEF Commit
<1>9. /\ DOMAIN pass' = Ingesters /\ pass' = [q \in Ingesters |-> pass'[q]]
      /\ \A q \in Ingesters : Sound(table', pass'[q])
  BY <1>2, <1>7, <1>8, OnePass
<1> QED
  BY <1>2, <1>9 DEF IInv, Commit

\* A flush that fails breaks the session and drops what it held.
LEMMA BreakStep ==
  ASSUME IInv, NEW p \in Ingesters, Collide(p) \/ CommitFails(p)
  PROVE  IInv'
<1> DEFINE r == [pass[p] EXCEPT !.pending = {}, !.broken = TRUE]
<1>1. Core(table, pass[p])
  BY DEF IInv, Sound
<1>2. Core(table, r)
  BY <1>1 DEF Core, Passes
<1>3. Sound(table, GoOn(r))
  BY <1>2, GoingOn
<1>4. pass' = [pass EXCEPT ![p] = GoOn(r)]
  BY DEF Collide, CommitFails
<1>5. faults' \in 0..MaxFaults
  BY FaultCounted DEF Collide, CommitFails, IInv
<1> QED
  BY <1>3, <1>4, <1>5, TableAlone DEF Collide, CommitFails

LEMMA RecordStep == ASSUME IInv, NEW p \in Ingesters, Record(p) PROVE IInv'
<1>1. Core(table, pass[p])
  BY DEF IInv, Sound
<1>2. /\ table' \in [Names -> [Times -> Values]]
      /\ \A s \in Names : Has(table, s) \subseteq Has(table', s)
  BY Flushed DEF Record
<1>3. /\ DOMAIN pass' = Ingesters /\ pass' = [q \in Ingesters |-> pass'[q]]
      /\ \A q \in Ingesters : Sound(table', pass'[q])
  BY <1>2, OnePass, IdleIsSound DEF Record, Stop
<1>4. /\ reported' \subseteq Names \X Times
      /\ \A c \in reported' : Fetched(c[2]) \subseteq Has(table', c[1])
  <2>1. \A c \in reported \union pass[p].counted :
          c \in Names \X Times /\ Fetched(c[2]) \subseteq Has(table, c[1])
    BY <1>1 DEF IInv, Core, Passes
  <2>2. \A c \in Names \X Times : c[1] \in Names
    OBVIOUS
  <2> QED
    BY <2>1, <2>2, <1>2 DEF Record
<1> QED
  BY <1>2, <1>3, <1>4 DEF IInv, Record

\* The session ends with the pass, whether the event raised or the process died.
LEMMA StopStep ==
  ASSUME IInv, NEW p \in Ingesters, RecordRaises(p) \/ Killed(p)
  PROVE  IInv'
<1>1. faults' \in 0..MaxFaults
  BY FaultCounted DEF RecordRaises, Killed, IInv
<1> QED
  BY <1>1, TableAlone, IdleIsSound DEF RecordRaises, Killed, Stop

\* Every behaviour keeps the invariant.
LEMMA Inductive == Spec => []IInv
<1>1. Init => IInv
  <2> SUFFICES ASSUME Init PROVE IInv
    OBVIOUS
  <2>1. clock \in (Limit - 1)..MaxClock /\ faults \in 0..MaxFaults
    BY DEF Init
  <2>2. table \in [Names -> [Times -> Values]]
    BY DEF Init, Values
  <2>3. \A p \in Ingesters : Sound(table, pass[p])
    BY IdleIsSound DEF Init
  <2> QED
    BY <2>1, <2>2, <2>3 DEF Init, IInv
<1>2. IInv /\ [Next]_vars => IInv'
  <2> SUFFICES ASSUME IInv, [Next]_vars PROVE IInv'
    OBVIOUS
  <2>1. CASE UNCHANGED vars
    BY <2>1 DEF vars, IInv
  <2>2. CASE Tick
    <3>1. clock' \in (Limit - 1)..MaxClock
      BY <2>2 DEF Tick, IInv
    <3> QED
      BY <2>2, <3>1 DEF Tick, IInv
  <2>3. CASE \E p \in Ingesters : Ingest(p) \/ Fail(p)
    BY <2>3, StartStep, FetchStep, SkipStep, SelectStep, SelectFailsStep, CommitStep,
       BreakStep, RecordStep, StopStep DEF Ingest, Fail
  <2> QED
    BY <2>1, <2>2, <2>3 DEF Next
<1> QED
  BY <1>1, <1>2, PTL DEF Spec

-----------------------------------------------------------------------------
(* The theorems. *)

\* The type invariant: a broken session holds back nothing.
THEOREM TypeCorrect == Spec => []TypeOK
<1>1. IInv => TypeOK
  BY DEF IInv, TypeOK, Sound, Core, At
<1> QED
  BY Inductive, <1>1, PTL

\* No failure or race makes a data_ingested event claim a candle that is missing.
THEOREM ReportsAreTrue == Spec => []ReportedIsStored
<1>1. IInv => ReportedIsStored
  BY DEF IInv, ReportedIsStored, Has, Stored
<1> QED
  BY Inductive, <1>1, PTL
=============================================================================
