------------------------------ MODULE DailyRisk ------------------------------
(***************************************************************************)
(* The daily loss over a day: the baseline that the first iteration of a   *)
(* UTC day records, the verdict of each later iteration of the trading     *)
(* loop, and the verdict that /runtime/status and the pre-flight of        *)
(* set_mode derive from the same baseline.  The market moves the equity    *)
(* freely between them.                                                    *)
(***************************************************************************)
EXTENDS RiskPolicy

CONSTANTS
  Equities,     \* the values the total equity takes, in cents
  InitialCash,  \* initial_cash_usdt of run_loop, in cents
  MaxDay,       \* bound: days
  None          \* no baseline, no verdict

ASSUME EquitiesAssumption == Equities \subseteq Nat
\* The defaults are 500 USDT; the status and the loop are compared below the
\* second tier.
ASSUME CashAssumption == InitialCash \in Equities \ {0} /\ InitialCash < 100000
ASSUME DayAssumption == MaxDay \in Nat \ {0}
ASSUME NoneAssumption == None \notin [day : 1..MaxDay, value : Nat \ {0}]

LossVerdicts == RiskVerdicts \ {"emergency_stop"}

VARIABLES
  day,       \* the current UTC day
  equity,    \* total_equity at the market prices of the moment
  baseline,  \* the latest day_baseline_set event
  judged     \* history: the last iteration, its equity, baseline and verdict

vars == <<day, equity, baseline, judged>>

Days == 1..MaxDay

Baselines == [day : Days, value : Nat \ {0}]

Judgements == [day : Days, equity : Nat, start : Nat \ {0}, verdict : LossVerdicts]

Init ==
  /\ day = 1
  /\ equity = InitialCash
  /\ baseline = None
  /\ judged = None

\* Fault for mutation: the loop takes the equity as it is.
TrueEquity(e) == e

\* account_equity = max(total_equity, initial_cash_usdt)
AccountEquity(e) == IF e > InitialCash THEN e ELSE InitialCash

Judge(start, e) == ClassifyDailyLoss(start, e, SelectRiskProfile(e))

HasBaseline == IF baseline = None THEN FALSE ELSE baseline.day = day

\* Fault for mutation: the loss is measured from the iteration before.
RollingBaseline ==
  [day |-> day, value |-> AccountEquity(IF judged = None THEN equity ELSE judged.equity)]

\* _get_or_create_day_baseline
DayBaseline ==
  IF HasBaseline THEN baseline ELSE [day |-> day, value |-> AccountEquity(equity)]

\* One iteration: _build_cycle_inputs and the daily loss of the risk stage.
Iterate ==
  /\ baseline' = DayBaseline
  /\ judged' = [day |-> day, equity |-> equity, start |-> DayBaseline.value,
                verdict |-> Judge(DayBaseline.value, AccountEquity(equity))]
  /\ UNCHANGED <<day, equity>>

Market ==
  /\ equity' \in Equities
  /\ UNCHANGED <<day, baseline, judged>>

Midnight ==
  /\ day < MaxDay
  /\ day' = day + 1
  /\ UNCHANGED <<equity, baseline, judged>>

Next == Iterate \/ Market \/ Midnight

Spec == Init /\ [][Next]_vars

\* Fault for mutation: the day is measured from the initial cash.
StatusFromCash ==
  IF HasBaseline THEN Judge(InitialCash, equity) ELSE "unavailable"

\* _resolve_risk_state: today's baseline, the equity as it is.
StatusVerdict ==
  IF HasBaseline THEN Judge(baseline.value, equity) ELSE "unavailable"

-----------------------------------------------------------------------------
(* Properties. *)

TypeOK ==
  /\ day \in Days
  /\ equity \in Nat
  /\ baseline \in Baselines \union {None}
  /\ judged \in Judgements \union {None}

Severity(v) ==
  CASE v = "normal" -> 0
    [] v = "degraded" -> 1
    [] v = "no_new_positions" -> 2
    [] v = "global_pause" -> 3
    [] v = "unavailable" -> 4

Tier(e) == SelectRiskProfile(e).minEquity

\* Judgement k follows j on the same day with the same equity or less.
ShrunkSince(j, k) == j # None /\ k # None /\ k.day = j.day /\ k.equity <= j.equity

SameTier(j, k) == Tier(AccountEquity(k.equity)) = Tier(AccountEquity(j.equity))

NotMilder(j, k) == Severity(k.verdict) >= Severity(j.verdict)

\* Whatever tier the account has fallen into or climbed out of during the day,
\* 7 per cent of the day's opening equity stop new positions and 10 per cent
\* pause: no path through the tiers leaves a deep loss unanswered, as long as
\* the equity stays above the initial cash.
DeepLossStops ==
  (judged # None /\ judged.equity >= InitialCash) =>
    /\ LossReaches(judged.start, judged.equity, 70) => Severity(judged.verdict) >= 2
    /\ LossReaches(judged.start, judged.equity, 100) => judged.verdict = "global_pause"

\* Two readers of one baseline: what the status and the pre-flight of set_mode
\* derive is never milder than what the loop has judged of the same equity on
\* the same day, although they floor the equity differently.
StatusNotMilder ==
  (judged # None /\ judged.day = day /\ judged.equity = equity) =>
    Severity(StatusVerdict) >= Severity(judged.verdict)

\* The iterations of one day: less equity in the same tier is never judged
\* milder, because the baseline of the day stays.
SameTierNeverLoosens ==
  [][ShrunkSince(judged, judged') /\ SameTier(judged, judged') => NotMilder(judged, judged')]_vars

\* The design's circuit breaker: a daily loss of 7 per cent under the small
\* profile stops new positions, the loss being measured from an iteration of the
\* same day that found the equity at the baseline.
SmallLossStops ==
  [][( /\ ShrunkSince(judged, judged')
       /\ judged.equity = judged.start /\ judged.start < 100000
       /\ LossReaches(judged.equity, judged'.equity, 70) )
     => Severity(judged'.verdict) >= 2]_vars

\* The design's risk tightening policy: when capital shrinks during the day, the
\* verdict does not become milder.
ShrinkingNeverLoosens ==
  [][ShrunkSince(judged, judged') => NotMilder(judged, judged')]_vars

-----------------------------------------------------------------------------
(* The inductive strengthening. *)

\* The last judgement follows from its equity and its baseline, and a baseline of
\* the same day is the one it used.
JudgedFairly ==
  judged # None =>
    /\ judged.day <= day
    /\ judged.verdict = Judge(judged.start, AccountEquity(judged.equity))
    /\ baseline # None
    /\ baseline.day = judged.day /\ baseline.value = judged.start

IInv == TypeOK /\ JudgedFairly
=============================================================================
