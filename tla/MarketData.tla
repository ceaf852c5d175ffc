------------------------------ MODULE MarketData ------------------------------
(***************************************************************************)
(* The candles table, the processes that fill it (ingest_loop of the       *)
(* supervisor, and the same module run by hand as a second process) and    *)
(* what the trading loop reads from it.  One timeframe: time is counted in *)
(* its periods, a candle is named by its open time, and the newest one is  *)
(* always unfinished.  An ingestion pass runs through the symbols in one   *)
(* session, which a failed flush leaves unusable.                          *)
(***************************************************************************)
EXTENDS Integers, FiniteSets, SequencesExt

CONSTANTS
  Symbols,      \* the symbols in their configured order, a sequence
  Ingesters,    \* processes that run ingest_once
  Resident,     \* those that run it again and again, as ingest_loop does
  Limit,        \* candles of one fetch, and of one list_recent
  MaxClock,     \* bound: periods
  MaxFaults     \* bound: failing calls and killed processes

ASSUME SymbolsAssumption == Symbols \in Seq(STRING) /\ Symbols # <<>>
ASSUME LimitAssumption == Limit \in Nat \ {0}
ASSUME ClockAssumption == MaxClock \in Nat /\ MaxClock >= Limit - 1
ASSUME IngestersAssumption == Resident \subseteq Ingesters
ASSUME FaultsAssumption == MaxFaults \in Nat

VARIABLES
  clock,     \* the present period
  table,     \* symbol -> open time -> "absent", "partial" or "final"
  pass,      \* ingester -> its ingest_once
  reported,  \* the symbols of data_ingested events, with the fetch they stand for
  faults     \* failures so far

vars == <<clock, table, pass, reported, faults>>

Names == ToSet(Symbols)
Times == 0..MaxClock
Values == {"absent", "partial", "final"}

\* A row the session holds back until the next flush: an INSERT or an UPDATE.
Rows == [symbol : Names, time : Times, value : Values \ {"absent"}, new : BOOLEAN]

Places == {"idle", "fetch", "select", "flush", "record"}

Passes ==
  [at : Places, next : DOMAIN Symbols, asOf : Times, pending : SUBSET Rows,
   broken : BOOLEAN, counted : SUBSET (Names \X Times)]

Idle == [at |-> "idle", next |-> 1, asOf |-> 0, pending |-> {}, broken |-> FALSE, counted |-> {}]

Init ==
  /\ clock = Limit - 1
  /\ table = [s \in Names |-> [t \in Times |-> "absent"]]
  /\ pass = [p \in Ingesters |-> Idle]
  /\ reported = {} /\ faults = 0

Stored(s) == {t \in Times : table[s][t] # "absent"}
Newest(S) == CHOOSE t \in S : \A u \in S : u <= t

\* What Binance returns at period a: the last Limit candles, the newest unfinished.
Fetched(a) == (a - Limit + 1)..a
ValueAt(a, t) == IF t < a THEN "final" ELSE "partial"

Symbol(p) == Symbols[pass[p].next]
At(p, place) == pass[p].at = place

Fault == faults < MaxFaults /\ faults' = faults + 1

-----------------------------------------------------------------------------
(* One pass of ingest_once. *)

\* A new session for every pass.
Start(p) ==
  /\ At(p, "idle")
  /\ pass' = [pass EXCEPT ![p] = [Idle EXCEPT !.at = "fetch"]]
  /\ UNCHANGED <<clock, table, reported, faults>>

\* The next symbol, or the data_ingested event after the last one.
GoOn(r) ==
  IF r.next < Len(Symbols) THEN [r EXCEPT !.next = @ + 1, !.at = "fetch"]
                           ELSE [r EXCEPT !.at = "record"]

Fetch(p) ==
  /\ At(p, "fetch")
  /\ pass' = [pass EXCEPT ![p].at = "select", ![p].asOf = clock]
  /\ UNCHANGED <<clock, table, reported, faults>>

FetchFails(p) ==
  /\ At(p, "fetch") /\ Fault
  /\ pass' = [pass EXCEPT ![p] = GoOn(@)]
  /\ UNCHANGED <<clock, table, reported>>

\* The rows one by one: absent ones are added, others assigned; a final candle
\* that is assigned its own values emits no UPDATE.
Staged(s, a, times) ==
  { [symbol |-> s, time |-> t, value |-> ValueAt(a, t), new |-> table[s][t] = "absent"] :
      t \in {u \in times : table[s][u] # "final" \/ ValueAt(a, u) # "final"} }

Select(p) ==
  /\ At(p, "select") /\ ~pass[p].broken
  /\ pass' = [pass EXCEPT ![p].at = "flush",
                          ![p].pending = @ \union Staged(Symbol(p), pass[p].asOf, Fetched(pass[p].asOf))]
  /\ UNCHANGED <<clock, table, reported, faults>>

\* A statement fails in the middle; the rows before it stay in the session.
SelectFails(p) ==
  /\ At(p, "select") /\ ~pass[p].broken /\ Fault
  /\ \E t \in Fetched(pass[p].asOf) :
       pass' = [pass EXCEPT ![p] = GoOn([@ EXCEPT !.pending =
                  pass[p].pending \union Staged(Symbol(p), pass[p].asOf, (pass[p].asOf - Limit + 1)..(t - 1))])]
  /\ UNCHANGED <<clock, table, reported>>

\* PendingRollbackError: nobody rolled the session back.
SelectInBroken(p) ==
  /\ At(p, "select") /\ pass[p].broken
  /\ pass' = [pass EXCEPT ![p] = GoOn(@)]
  /\ UNCHANGED <<clock, table, reported, faults>>

\* Another process has inserted one of the rows since.
Collides(p) == \E r \in pass[p].pending : r.new /\ table[r.symbol][r.time] # "absent"

ValueOf(rows, s, t) == (CHOOSE r \in rows : r.symbol = s /\ r.time = t).value

\* The flush of everything the session holds back, whichever symbol it is of.
Flush(p) ==
  /\ ~Collides(p)
  /\ table' = [s \in Names |-> [t \in Times |->
                 IF \E r \in pass[p].pending : r.symbol = s /\ r.time = t
                   THEN ValueOf(pass[p].pending, s, t) ELSE table[s][t]]]
Stop(p) == pass' = [pass EXCEPT ![p] = Idle]

\* upsert_many: commit and count.
Commit(p) ==
  /\ At(p, "flush") /\ Flush(p)
  /\ pass' = [pass EXCEPT ![p] = GoOn([@ EXCEPT !.pending = {},
                !.counted = pass[p].counted \union {<<Symbol(p), pass[p].asOf>>}])]
  /\ UNCHANGED <<clock, reported, faults>>

\* Fault for mutation: the rows that collided stay in the session.
CollideAndKeep(p) ==
  /\ At(p, "flush") /\ Collides(p)
  /\ pass' = [pass EXCEPT ![p] = GoOn([@ EXCEPT !.broken = TRUE])]
  /\ UNCHANGED <<clock, table, reported, faults>>

\* IntegrityError in the flush: the rows are gone, the session stays broken, the
\* symbol counts 0.
Collide(p) ==
  /\ At(p, "flush") /\ Collides(p)
  /\ pass' = [pass EXCEPT ![p] = GoOn([@ EXCEPT !.pending = {}, !.broken = TRUE])]
  /\ UNCHANGED <<clock, table, reported, faults>>

\* Fault for mutation: the failed commit is rolled back, the symbol counted.
CommitFailsUnnoticed(p) ==
  /\ At(p, "flush") /\ Fault
  /\ pass' = [pass EXCEPT ![p] = GoOn([@ EXCEPT !.pending = {},
                !.counted = pass[p].counted \union {<<Symbol(p), pass[p].asOf>>}])]
  /\ UNCHANGED <<clock, table, reported>>

\* The flush fails for another reason, as with a locked database.
CommitFails(p) ==
  /\ At(p, "flush") /\ Fault
  /\ pass' = [pass EXCEPT ![p] = GoOn([@ EXCEPT !.pending = {}, !.broken = TRUE])]
  /\ UNCHANGED <<clock, table, reported>>

\* record_event commits what failed statements left in the session, too.
Record(p) ==
  /\ At(p, "record") /\ ~pass[p].broken /\ Flush(p)
  /\ reported' = reported \union pass[p].counted
  /\ Stop(p)
  /\ UNCHANGED <<clock, faults>>

\* Fault for mutation: the event is tried again in the same session.
RecordAgain(p) ==
  /\ At(p, "record")
  /\ pass[p].broken \/ Collides(p)
  /\ UNCHANGED vars

\* In a broken session, or with a collision, it raises: the loop logs it and goes
\* on with its next pass, a single run ends.
RecordRaises(p) ==
  /\ At(p, "record")
  /\ pass[p].broken \/ Collides(p)
  /\ Stop(p)
  /\ UNCHANGED <<clock, table, reported, faults>>

\* The process is killed; nothing of the session remains.
Killed(p) ==
  /\ ~At(p, "idle") /\ Fault
  /\ Stop(p)
  /\ UNCHANGED <<clock, table, reported>>

Ingest(p) ==
  \/ Start(p) \/ Fetch(p)
  \/ Select(p) \/ SelectInBroken(p)
  \/ Commit(p) \/ Collide(p)
  \/ Record(p) \/ RecordRaises(p)

Fail(p) == FetchFails(p) \/ SelectFails(p) \/ CommitFails(p) \/ Killed(p)

\* A period passes.
Tick ==
  /\ clock < MaxClock
  /\ clock' = clock + 1
  /\ UNCHANGED <<table, pass, reported, faults>>

Next == Tick \/ \E p \in Ingesters : Ingest(p) \/ Fail(p)

\* ingest_loop sleeps for a finite interval and its calls have timeouts; a pass by
\* hand need not happen, and no period has to end while a pass runs.
Spec ==
  /\ Init /\ [][Next]_vars
  /\ \A p \in Resident : WF_vars(Ingest(p))

-----------------------------------------------------------------------------
(* What the trading loop reads. *)

\* list_recent: the first Limit rows in ascending order of open_time.
ListRecent(s) == {t \in Stored(s) : Cardinality({u \in Stored(s) : u < t}) < Limit}

\* features[-1]: the candle the strategy decides on.
StrategyCandle(s) == Newest(ListRecent(s))

\* market_prices: get_latest of every symbol that has a candle.
Priced == SelectSeq(Symbols, LAMBDA s : Stored(s) # {})

\* Younger than 1800 s: the present period or the one before.
IsFresh(s) == clock - Newest(Stored(s)) <= 1

\* data_is_fresh: of the first symbol that has a candle.
DataIsFresh == Priced # <<>> /\ IsFresh(Head(Priced))

-----------------------------------------------------------------------------
(* Properties. *)

\* Sessions hold back rows of the configured symbols only; a broken or idle
\* session holds back none.
TypeOK ==
  /\ clock \in (Limit - 1)..MaxClock
  /\ table \in [Names -> [Times -> Values]]
  /\ pass \in [Ingesters -> Passes]
  /\ \A p \in Ingesters : pass[p].broken \/ At(p, "idle") => pass[p].pending = {}
  /\ reported \subseteq Names \X Times
  /\ faults \in 0..MaxFaults

\* What a data_ingested event says of a symbol is true: every candle of the fetch
\* it stands for is stored, whatever failed in between, in whichever process.
ReportedIsStored ==
  \A r \in reported : Fetched(r[2]) \subseteq Stored(r[1])

\* A failing call, a killed process or a collision of two ingesters costs passes,
\* not data: when the failures end, the last Limit candles of every symbol are
\* stored, the closed ones with their final values.
CatchesUp ==
  clock = MaxClock ~>
    \A s \in Names : \A t \in Fetched(clock) : table[s][t] = ValueAt(clock, t)

\* "Return recent candles ordered oldest to newest." (docs/superpowers/plans/
\* 2026-04-19-milestone-1-market-data-plan.md:153): the strategy decides on the
\* newest candle.
StrategySeesLatest ==
  \A s \in Names : Stored(s) # {} => StrategyCandle(s) = Newest(Stored(s))

\* runner.py:110, "fresh if latest 15m candle is within 30 minutes": no symbol is
\* traded at the price of an older one.
FreshPrices == DataIsFresh => \A s \in ToSet(Priced) : IsFresh(s)
=============================================================================
