------------------------ MODULE HeartbeatMonitor_proofs ------------------------
(***************************************************************************)
(* The heartbeat monitor is correct for every period, every bound on what  *)
(* its statements take and every threshold above one period and two such   *)
(* statements, and what it tells the operator follows its alerts for every *)
(* window of the deduplicator.                                             *)
(***************************************************************************)
EXTENDS AlertDelivery, TLAPS

USE PeriodAssumption, DelayAssumption, StaleAssumption, ConfirmAssumption, AgeAssumption,
    RecordsAssumption

\* A heartbeat that came in time is young enough when the next one is due.
LEMMA NextInTime ==
  \A a, w \in Nat : a <= Delay /\ w <= Period + Delay => a + w <= Period + 2 * Delay
  OBVIOUS

\* The invariant holds before any process runs.
LEMMA InitIInv == Init => IInv
<1> SUFFICES ASSUME Init PROVE IInv
  OBVIOUS
<1>1. /\ up \in BOOLEAN /\ beaten \in BOOLEAN /\ hung \in BOOLEAN /\ alerted \in BOOLEAN
      /\ missed \in BOOLEAN /\ ~up
  BY Zenon DEF Init
<1>2. /\ age = 0 /\ hbWait = 0 /\ moWait = 0 /\ lastAlert = "none"
      /\ stale = 0 /\ healthy = 0
  BY Zenon DEF Init
<1> QED
  BY <1>1, <1>2 DEF IInv, TypeOK, AgeBounded, SinceLastLook, Alerts

LEMMA ClockKeepsIInv == IInv /\ (StartProcess \/ EndProcess \/ Tick) => IInv'
<1> SUFFICES ASSUME IInv PROVE (StartProcess \/ EndProcess \/ Tick) => IInv'
  OBVIOUS
<1> USE DEF IInv, TypeOK, AgeBounded, SinceLastLook, Alerts, AtMost, threads, history
<1>1. ASSUME StartProcess PROVE IInv'
  <2>1. /\ up' \in BOOLEAN /\ beaten' \in BOOLEAN /\ hung' \in BOOLEAN /\ alerted' \in BOOLEAN
        /\ missed' \in BOOLEAN /\ up' /\ ~hung' /\ ~alerted' /\ ~missed'
    BY <1>1, Zenon DEF StartProcess
  <2>2. /\ age' = age /\ hbWait' \in 0..Delay /\ moWait' \in WaitAndWork
        /\ lastAlert' = lastAlert /\ stale' = 0 /\ healthy' = 0
    BY <1>1, Zenon DEF StartProcess
  <2>3. /\ hbWait' \in Nat /\ hbWait' <= Delay
        /\ moWait' \in Nat /\ Period <= moWait' /\ moWait' <= Period + Delay
    BY <2>2 DEF WaitAndWork
  <2>4. TypeOK'
    BY <2>1, <2>2, <2>3
  <2>5. AgeBounded'
    BY <2>1, <2>3
  <2>6. SinceLastLook'
    BY <2>1, <2>2
  <2> QED
    BY <2>4, <2>5, <2>6
<1>2. ASSUME EndProcess PROVE IInv'
  <2>1. /\ up' \in BOOLEAN /\ beaten' \in BOOLEAN /\ hung' \in BOOLEAN /\ alerted' \in BOOLEAN
        /\ missed' \in BOOLEAN /\ up /\ ~up' /\ (alerted' <=> alerted) /\ (beaten' <=> beaten)
    BY <1>2, Zenon DEF EndProcess
  <2>2. /\ age' = age /\ hbWait' = hbWait /\ moWait' = moWait /\ lastAlert' = lastAlert
        /\ stale' = stale /\ healthy' = healthy
    BY <1>2, Zenon DEF EndProcess
  <2> QED
    BY <2>1, <2>2
<1>3. Tick => IInv'
  BY DEF Tick
<1> QED
  BY <1>1, <1>2, <1>3

LEMMA HeartbeatKeepsIInv == IInv /\ (Beat \/ BeatFails \/ BeatHangs) => IInv'
<1> SUFFICES ASSUME IInv PROVE (Beat \/ BeatFails \/ BeatHangs) => IInv'
  OBVIOUS
<1> USE DEF IInv, TypeOK, AgeBounded, SinceLastLook, Alerts
<1>1. ASSUME Beat PROVE IInv'
  <2>1. /\ up' \in BOOLEAN /\ beaten' \in BOOLEAN /\ hung' \in BOOLEAN /\ alerted' \in BOOLEAN
        /\ up /\ up' /\ beaten' /\ ~hung' /\ (alerted' <=> alerted)
    BY <1>1, Zenon DEF Beat
  <2>2. /\ hbWait' \in WaitAndWork /\ moWait' = moWait /\ lastAlert' = lastAlert
        /\ healthy' = healthy
    BY <1>1, Zenon DEF Beat
  <2>3. /\ age' \in 0..MaxAge
        /\ beaten => age' <= age
        /\ missed' \in BOOLEAN
        /\ ~missed' => age' <= Delay
        /\ stale' = IF age' > StaleAfter THEN stale ELSE 0
    BY <1>1 DEF Beat
  <2>4. /\ hbWait' \in Nat /\ Period <= hbWait' /\ hbWait' <= Period + Delay
        /\ age' \in Nat /\ age' <= MaxAge
    BY <2>2, <2>3 DEF WaitAndWork
  <2>5. TypeOK'
    BY <2>1, <2>2, <2>3, <2>4
  <2>6. AgeBounded'
    <3>1. ~missed' => age' <= Delay
      BY <2>3, Zenon
    <3>2. age' <= Delay => age' + hbWait' <= Period + 2 * Delay
      BY <2>4, NextInTime, Zenon
    <3> QED
      BY <2>1, <3>1, <3>2, Zenon DEF AgeBounded
  <2>7. SinceLastLook'
    BY <2>1, <2>2, <2>3
  <2> QED
    BY <2>5, <2>6, <2>7
<1>2. ASSUME BeatFails PROVE IInv'
  <2>1. /\ up' \in BOOLEAN /\ beaten' \in BOOLEAN /\ hung' \in BOOLEAN /\ alerted' \in BOOLEAN
        /\ missed' \in BOOLEAN /\ missed'
        /\ up /\ up' /\ ~hung' /\ (beaten' <=> beaten) /\ (alerted' <=> alerted)
    BY <1>2, Zenon DEF BeatFails
  <2>2. /\ age' = age /\ hbWait' \in WaitAndWork /\ moWait' = moWait
        /\ lastAlert' = lastAlert /\ stale' = stale /\ healthy' = healthy
    BY <1>2, Zenon DEF BeatFails
  <2> QED
    BY <2>1, <2>2 DEF WaitAndWork
<1>3. BeatHangs => IInv'
  BY DEF BeatHangs
<1> QED
  BY <1>1, <1>2, <1>3

\* A look of the monitor leaves the heartbeat alone; at that moment the heartbeat
\* of an unfailing process is in the table.
LEMMA LookKeepsHeartbeat ==
  IInv /\ OnlyMonitor =>
    /\ AgeBounded'
    /\ up' \in BOOLEAN /\ beaten' \in BOOLEAN /\ hung' \in BOOLEAN /\ missed' \in BOOLEAN
    /\ age' \in 0..MaxAge /\ hbWait' \in 0..(Period + Delay)
    /\ moWait = 0 /\ moWait' \in Nat /\ Period <= moWait' /\ moWait' <= Period + Delay
<1> SUFFICES ASSUME IInv, OnlyMonitor
             PROVE  /\ AgeBounded'
                    /\ up' \in BOOLEAN /\ beaten' \in BOOLEAN /\ hung' \in BOOLEAN /\ missed' \in BOOLEAN
                    /\ age' \in 0..MaxAge /\ hbWait' \in 0..(Period + Delay)
                    /\ moWait = 0 /\ moWait' \in Nat /\ Period <= moWait' /\ moWait' <= Period + Delay
  OBVIOUS
<1>1. /\ up' = up /\ beaten' = beaten /\ age' = age /\ hbWait' = hbWait /\ hung' = hung
      /\ missed' = missed /\ up /\ moWait = 0 /\ moWait' \in WaitAndWork
  BY Zenon DEF OnlyMonitor
<1>2. moWait' \in Nat /\ Period <= moWait' /\ moWait' <= Period + Delay
  BY <1>1 DEF WaitAndWork
<1>3. /\ up' \in BOOLEAN /\ beaten' \in BOOLEAN /\ hung' \in BOOLEAN /\ missed' \in BOOLEAN
      /\ age' \in 0..MaxAge /\ hbWait' \in 0..(Period + Delay)
  BY <1>1, Zenon DEF IInv, TypeOK
<1>4. ~(hbWait < moWait)
  BY <1>1 DEF IInv, TypeOK
<1>5. ~missed => ~hung /\ beaten /\ age + hbWait <= Period + 2 * Delay
  BY <1>1, <1>4, Zenon DEF IInv, AgeBounded
<1>6. AgeBounded'
  BY <1>1, <1>5, Zenon DEF AgeBounded
<1> QED
  BY <1>1, <1>2, <1>3, <1>6

LEMMA MonitorKeepsIInv == IInv /\ (Check \/ CheckFails \/ ScrollOut) => IInv'
<1> SUFFICES ASSUME IInv PROVE (Check \/ CheckFails \/ ScrollOut) => IInv'
  OBVIOUS
<1>1. ASSUME Check PROVE IInv'
  <2>1. OnlyMonitor /\ stale' = stale /\ healthy' = healthy
    BY <1>1, Zenon DEF Check
  <2>2. /\ up /\ up' /\ age' = age /\ (beaten' <=> beaten)
    BY <2>1, Zenon DEF OnlyMonitor
  <2>3. /\ stale \in 0..(Period + Delay + 1) /\ healthy \in 0..(Period + Delay + 1)
        /\ age \in Nat /\ lastAlert \in Alerts /\ alerted \in BOOLEAN
        /\ stale > 0 => beaten /\ age > StaleAfter
        /\ healthy > 0 => beaten /\ age <= StaleAfter
    BY DEF IInv, TypeOK, SinceLastLook
  <2>4. ~alerted => stale + moWait <= Period + Delay
    BY <2>1, <2>2, <2>3, LookKeepsHeartbeat DEF IInv, TypeOK, SinceLastLook
  <2>5. alerted' \in BOOLEAN /\ lastAlert' \in Alerts
    BY <1>1, <2>3 DEF Check, SeeFresh, SeeStale, SeeNothing, RecordAlert, Alerts
  <2>6. /\ ~alerted' => stale = 0
        /\ alerted' => healthy = 0
    <3>1. CASE SeeFresh
      BY <2>3, <3>1 DEF SeeFresh, IsFresh
    <3>2. CASE SeeStale
      BY <2>3, <3>2 DEF SeeStale, IsFresh
    <3>3. CASE SeeNothing
      BY <2>3, <3>3 DEF SeeNothing
    <3> QED
      BY <1>1, <3>1, <3>2, <3>3 DEF Check
  <2>7. TypeOK'
    BY <2>1, <2>3, <2>5, LookKeepsHeartbeat DEF TypeOK
  <2>8. SinceLastLook'
    BY <2>1, <2>2, <2>3, <2>5, <2>6 DEF SinceLastLook
  <2> QED
    BY <2>1, <2>7, <2>8, LookKeepsHeartbeat DEF IInv
<1>2. ASSUME CheckFails PROVE IInv'
  <2>1. /\ OnlyMonitor /\ stale' = 0 /\ healthy' = 0 /\ alerted' = alerted
        /\ lastAlert' = lastAlert /\ up'
    BY <1>2, Zenon DEF CheckFails, OnlyMonitor
  <2>2. alerted' \in BOOLEAN /\ lastAlert' \in Alerts
    BY <2>1, Zenon DEF IInv, TypeOK
  <2>3. TypeOK'
    BY <2>1, <2>2, LookKeepsHeartbeat DEF TypeOK
  <2>4. SinceLastLook'
    BY <2>1 DEF SinceLastLook
  <2> QED
    BY <2>1, <2>3, <2>4, LookKeepsHeartbeat DEF IInv
<1>3. ScrollOut => IInv'
  BY DEF ScrollOut, threads, history, IInv, TypeOK, AgeBounded, SinceLastLook, Alerts
<1> QED
  BY <1>1, <1>2, <1>3

LEMMA StepKeepsIInv == IInv /\ [Next]_vars => IInv'
<1>1. IInv /\ UNCHANGED vars => IInv'
  BY DEF IInv, TypeOK, AgeBounded, SinceLastLook, vars, threads, history
<1> QED
  BY <1>1, ClockKeepsIInv, HeartbeatKeepsIInv, MonitorKeepsIInv DEF Next

THEOREM Invariance == Spec => []IInv
  BY InitIInv, StepKeepsIInv, PTL DEF Spec

\* The monitor is type-correct: no clock leaves its range.
THEOREM TypeCorrect == Spec => []TypeOK
<1>1. IInv => TypeOK
  BY DEF IInv
<1> QED
  BY <1>1, Invariance, PTL

\* Between heartbeats, hangs, restarts and samples, the flag is never more than
\* one round of the monitor behind the heartbeat.
THEOREM AlertIsCurrent == Spec => []AlertFollowsHeartbeat
<1>1. IInv => AlertFollowsHeartbeat
  BY DEF IInv, TypeOK, SinceLastLook, AlertFollowsHeartbeat
<1> QED
  BY <1>1, Invariance, PTL

\* No alert without a lost heartbeat of the process that raises it, for every
\* period, drift and threshold above one period and two statements.
THEOREM AlertsAreTrue == Spec => NoFalseAlert
<1>1. IInv /\ [Next]_vars => [~alerted /\ alerted' => missed]_vars
  <2> SUFFICES ASSUME IInv, Next, ~alerted, alerted' PROVE missed
    OBVIOUS
  <2>1. Check /\ SeeStale
    BY DEF Next, StartProcess, EndProcess, Tick, Beat, BeatFails, BeatHangs, Check, CheckFails,
           ScrollOut, SeeFresh, SeeNothing, threads, history
  <2>2. up /\ moWait = 0 /\ beaten /\ age > StaleAfter
    BY <2>1 DEF IInv, TypeOK, Check, SeeStale, OnlyMonitor, IsFresh
  <2> QED
    BY <2>2 DEF IInv, TypeOK, AgeBounded
<1> QED
  BY <1>1, Invariance, PTL DEF Spec, NoFalseAlert

-----------------------------------------------------------------------------
(* The notifications. *)

\* The deduplicator only looks on: every step of the composition is a step of
\* the monitor or a stutter, so what holds of the monitor holds here.
THEOREM DeliveryObserves == DeliverySpec => Spec
<1>1. DeliveryInit => Init
  BY DEF DeliveryInit
<1>2. [DeliveryNext]_deliveryVars => [Next]_vars
  BY Zenon DEF DeliveryNext, StartEmpty, TickWindows, CheckAndNotify, Next, deliveryVars
<1> QED
  BY <1>1, <1>2, PTL DEF DeliverySpec, Spec

\* The entry of heartbeat_lost ends no later than a window after it was sent.
EntryIsYoung ==
  /\ left \in [Keys -> Nat]
  /\ gap \in Nat
  /\ left["lost"] > 0 => left["lost"] + gap <= Window

LEMMA EntryStaysYoung == EntryIsYoung /\ [DeliveryNext]_deliveryVars => EntryIsYoung'
<1> USE WindowAssumption
<1> SUFFICES ASSUME EntryIsYoung, [DeliveryNext]_deliveryVars PROVE EntryIsYoung'
  OBVIOUS
<1>1. UNCHANGED <<left, gap>> => EntryIsYoung'
  BY DEF EntryIsYoung
<1>2. StartEmpty => EntryIsYoung'
  BY DEF StartEmpty, EntryIsYoung, Keys
<1>3. TickWindows => EntryIsYoung'
  BY DEF TickWindows, EntryIsYoung, Keys, AtMost
<1>4. ASSUME Lose PROVE EntryIsYoung'
  <2>1. CASE Suppressed("lost")
    BY <1>1, <1>4, <2>1 DEF Lose, Notify
  <2>2. CASE ~Suppressed("lost")
    <3>1. left' = [left EXCEPT !["lost"] = Window] /\ left' # left /\ gap' = 0
      BY <1>4, <2>2 DEF Lose, Notify, Suppressed, EntryIsYoung, Keys
    <3> QED
      BY <3>1 DEF EntryIsYoung, Keys
  <2> QED
    BY <2>1, <2>2
<1>5. ASSUME Recover PROVE EntryIsYoung'
  <2>1. gap' = gap /\ (left' = left \/ left' = [left EXCEPT !["recovered"] = Window])
    BY <1>5, Zenon DEF Recover, Notify
  <2> QED
    BY <1>1, <2>1 DEF EntryIsYoung, Keys
<1> QED
  BY <1>1, <1>2, <1>3, <1>4, <1>5 DEF DeliveryNext, CheckAndNotify, delivery, deliveryVars

\* For every period, threshold and window: an alert is raised only with an attempt
\* to send it, or within a window of one (supervisor.py:193-230).
THEOREM AlertsAreSent == DeliverySpec => RaisedAlertsAreSent
<1>1. DeliveryInit => EntryIsYoung
  BY WindowAssumption DEF DeliveryInit, EntryIsYoung, Keys
<1>2. ASSUME EntryIsYoung, DeliveryNext, ~alerted, alerted' PROVE gap' < Window
  <2>1. Lose
    BY <1>2, Zenon DEF DeliveryNext, StartEmpty, StartProcess, TickWindows, Tick, EndProcess, Beat,
       BeatFails, BeatHangs, CheckFails, ScrollOut, CheckAndNotify, Recover, threads, history
  <2>2. CASE Suppressed("lost")
    BY <1>2, <2>1, <2>2, WindowAssumption DEF Lose, Notify, Suppressed, EntryIsYoung, Keys
  <2>3. CASE ~Suppressed("lost")
    BY <1>2, <2>1, <2>3, WindowAssumption DEF Lose, Notify, Suppressed, EntryIsYoung, Keys
  <2> QED
    BY <2>2, <2>3
<1>3. EntryIsYoung /\ [DeliveryNext]_deliveryVars => [~alerted /\ alerted' => gap' < Window]_deliveryVars
  BY <1>2
<1> QED
  BY <1>1, <1>3, EntryStaysYoung, PTL DEF DeliverySpec, RaisedAlertsAreSent
=============================================================================
