--------------------------- MODULE HeartbeatMonitor ---------------------------
(***************************************************************************)
(* The heartbeat and the monitor thread of runtime/supervisor.py and what  *)
(* /runtime/status derives from the events they record.  The two threads   *)
(* share nothing but the events table and the clock: one writes            *)
(* heartbeats, the other looks at the age of the latest one.  Each waits   *)
(* Period ticks after its statement has ended, so its statements are       *)
(* further apart than Period, by what they themselves take.  A statement   *)
(* takes up to Delay ticks; that of a heartbeat may also hang on the       *)
(* database for any time.                                                  *)
(***************************************************************************)
EXTENDS Naturals

CONSTANTS
  Period,         \* ticks of stop.wait(timeout=60), of both threads
  Delay,          \* ticks a statement takes at most, unless it hangs
  StaleAfter,     \* HEARTBEAT_STALE_THRESHOLD_SECONDS in ticks
  ConfirmWithin,  \* HEARTBEAT_RECOVERY_CONFIRM_SECONDS in ticks
  MaxAge,         \* bound: ages from MaxAge on are not told apart
  RecordsFail     \* whether the commit of an alert may fail

ASSUME PeriodAssumption == Period \in Nat \ {0}
ASSUME DelayAssumption == Delay \in Nat /\ Delay < Period
ASSUME StaleAssumption == StaleAfter \in Nat /\ StaleAfter >= Period + 2 * Delay
ASSUME ConfirmAssumption == ConfirmWithin \in Nat
ASSUME AgeAssumption == MaxAge \in Nat /\ MaxAge > StaleAfter
ASSUME RecordsAssumption == RecordsFail \in BOOLEAN

VARIABLES
  up,         \* a supervisor process is running
  beaten,     \* the table holds a supervisor_heartbeat
  age,        \* ticks since created_at of the latest one, whoever wrote it
  hbWait,     \* ticks until the next statement of the heartbeat thread ends
  hung,       \* that statement hangs on the database
  moWait,     \* ticks until the next statement of the monitor thread ends
  alerted,    \* heartbeat_stale_alerted, in memory
  lastAlert,  \* the newer of heartbeat_lost and heartbeat_recovered in the status window
  missed,     \* history: the last heartbeat of this process failed, hangs or hung
  stale,      \* history: ticks this process has run with a stale heartbeat
  healthy     \* history: ticks this process has run with a fresh one

threads == <<hbWait, hung, moWait>>
history == <<missed, stale, healthy>>
vars == <<up, beaten, age, threads, alerted, lastAlert, history>>

Alerts == {"none", "lost", "recovered"}

AtMost(n, bound) == IF n > bound THEN bound ELSE n

\* Fault for mutation: the two thresholds of the check are mixed up.
IsFreshWhenConfirmed(a) == a <= ConfirmWithin

\* latest_heartbeat_time >= stale_threshold
IsFresh(a) == a <= StaleAfter

Init ==
  /\ up = FALSE
  /\ beaten = FALSE /\ age = 0
  /\ hbWait = 0 /\ hung = FALSE /\ moWait = 0
  /\ alerted = FALSE /\ lastAlert = "none"
  /\ missed = FALSE /\ stale = 0 /\ healthy = 0

\* stop.wait(timeout=60) and the statement after it.
WaitAndWork == Period..(Period + Delay)

-----------------------------------------------------------------------------
(* The process and the clock. *)

\* run_supervisor: the heartbeat thread writes at once, the monitor waits first;
\* the flag of the previous process is gone.
StartProcess ==
  /\ ~up
  /\ up' = TRUE
  /\ hbWait' \in 0..Delay /\ hung' = FALSE /\ moWait' \in WaitAndWork
  /\ alerted' = FALSE
  /\ missed' = FALSE /\ stale' = 0 /\ healthy' = 0
  /\ UNCHANGED <<beaten, age, lastAlert>>

EndProcess ==
  /\ up
  /\ up' = FALSE
  /\ UNCHANGED <<beaten, age, threads, alerted, lastAlert, history>>

\* Fault for mutation: the next wake is counted from the start of a statement
\* that hangs.
TickWhileHung ==
  /\ up => (hbWait > 0 \/ hung) /\ moWait > 0
  /\ age' = AtMost(age + 1, MaxAge)
  /\ hbWait' = IF up THEN hbWait - 1 ELSE hbWait
  /\ moWait' = IF up THEN moWait - 1 ELSE moWait
  /\ UNCHANGED <<up, beaten, hung, alerted, lastAlert, history>>

\* A tick passes when no thread is due.
Tick ==
  /\ up => (hbWait > 0 \/ hung) /\ moWait > 0
  /\ age' = AtMost(age + 1, MaxAge)
  /\ hbWait' = IF up /\ ~hung THEN hbWait - 1 ELSE hbWait
  /\ moWait' = IF up THEN moWait - 1 ELSE moWait
  /\ stale' = IF up /\ beaten /\ age' > StaleAfter THEN AtMost(stale + 1, Period + Delay + 1) ELSE 0
  /\ healthy' = IF up /\ beaten /\ age' <= StaleAfter THEN AtMost(healthy + 1, Period + Delay + 1) ELSE 0
  /\ UNCHANGED <<up, beaten, hung, alerted, lastAlert, missed>>

-----------------------------------------------------------------------------
(* The heartbeat thread. *)

\* The heartbeat bears the time of its flush and is seen from its commit on; when
\* it hung, it may be old by then.
Beat ==
  /\ up /\ hbWait = 0
  /\ beaten' = TRUE
  /\ age' \in 0..(IF hung THEN MaxAge ELSE Delay) /\ (beaten => age' <= age)
  /\ hbWait' \in WaitAndWork /\ hung' = FALSE
  /\ missed' = (age' > Delay)
  /\ stale' = IF age' > StaleAfter THEN stale ELSE 0
  /\ UNCHANGED <<up, moWait, alerted, lastAlert, healthy>>

\* The exception is swallowed, and so is the heartbeat.
BeatFails ==
  /\ up /\ hbWait = 0
  /\ hbWait' \in WaitAndWork /\ hung' = FALSE
  /\ missed' = TRUE
  /\ UNCHANGED <<up, beaten, age, moWait, alerted, lastAlert, stale, healthy>>

BeatHangs ==
  /\ up /\ hbWait = 0 /\ ~hung
  /\ hung' = TRUE
  /\ missed' = TRUE
  /\ UNCHANGED <<up, beaten, age, hbWait, moWait, alerted, lastAlert, stale, healthy>>

-----------------------------------------------------------------------------
(* The monitor thread. *)

\* record_event of an alert; a failing commit is swallowed.
RecordAlert(a) == lastAlert' \in {a} \union (IF RecordsFail THEN {lastAlert} ELSE {})

OnlyMonitor ==
  /\ up /\ moWait = 0
  /\ moWait' \in WaitAndWork
  /\ UNCHANGED <<up, beaten, age, hbWait, hung, missed>>

\* Fault for mutation: a recovery that is not recorded does not end the alert.
SeeFreshWhenConfirmed ==
  /\ beaten /\ IsFresh(age)
  /\ IF alerted /\ age <= ConfirmWithin
       THEN alerted' = FALSE /\ RecordAlert("recovered")
       ELSE UNCHANGED <<alerted, lastAlert>>

\* A heartbeat that is fresh again ends the alert in any case, and is recorded
\* as a recovery only while it is younger than ConfirmWithin.
SeeFresh ==
  /\ beaten /\ IsFresh(age)
  /\ alerted' = FALSE
  /\ IF alerted /\ age <= ConfirmWithin
       THEN RecordAlert("recovered")
       ELSE UNCHANGED lastAlert

SeeStale ==
  /\ beaten /\ ~IsFresh(age)
  /\ alerted' = TRUE
  /\ IF alerted THEN UNCHANGED lastAlert ELSE RecordAlert("lost")

\* No heartbeat ever recorded: nothing to compare with, nothing to alert.
SeeNothing == ~beaten /\ UNCHANGED <<alerted, lastAlert>>

\* _check_heartbeat_stale
Check ==
  /\ OnlyMonitor
  /\ SeeFresh \/ SeeStale \/ SeeNothing
  /\ UNCHANGED <<stale, healthy>>

\* The query fails and is swallowed; the histories start anew.
CheckFails ==
  /\ OnlyMonitor
  /\ stale' = 0 /\ healthy' = 0
  /\ UNCHANGED <<alerted, lastAlert>>

-----------------------------------------------------------------------------
(* The status. *)

\* /runtime/status reads the newest 500 events: older ones scroll out of it.
ScrollOut ==
  /\ lastAlert # "none"
  /\ lastAlert' = "none"
  /\ UNCHANGED <<up, beaten, age, threads, alerted, history>>

\* heartbeat_stale_alerting
StaleAlerting == lastAlert = "lost"

Next ==
  \/ StartProcess \/ EndProcess \/ Tick
  \/ Beat \/ BeatFails \/ BeatHangs
  \/ Check \/ CheckFails
  \/ ScrollOut

Spec == Init /\ [][Next]_vars

-----------------------------------------------------------------------------
(* Properties. *)

\* Types and ranges of the clocks; histories are capped.
TypeOK ==
  /\ up \in BOOLEAN /\ beaten \in BOOLEAN /\ hung \in BOOLEAN /\ alerted \in BOOLEAN
  /\ age \in 0..MaxAge
  /\ hbWait \in 0..(Period + Delay)
  /\ moWait \in 0..(Period + Delay)
  /\ lastAlert \in Alerts
  /\ missed \in BOOLEAN
  /\ stale \in 0..(Period + Delay + 1)
  /\ healthy \in 0..(Period + Delay + 1)

\* "there's no risk of false alerts at startup" (supervisor.py:128), nor later:
\* however the wakes of the two threads drift against each other, an alert is
\* raised only while the last heartbeat of this very process has failed or hung;
\* a heartbeat that an earlier process left in the table raises none.  That a single
\* lost heartbeat is forgiven is not so: two waits and their statements exceed 120
\* seconds.
NoFalseAlert == [][~alerted /\ alerted' => missed]_vars

\* The flag follows the heartbeat within one round of the monitor in both
\* directions: stale for longer than that it is set, fresh for longer than that it
\* is cleared, although it is lost with the process and its thread sees only samples.
AlertFollowsHeartbeat ==
  /\ stale > Period + Delay => alerted
  /\ healthy > Period + Delay => ~alerted

\* What docs/runbook-paper-ops.md says of clearing the alert, with a whole
\* round of grace for the monitor: a heartbeat that has been fresh for longer
\* than the monitor's round is not shown as lost.
StatusFollowsHeartbeat == healthy > Period + Delay => ~StaleAlerting

-----------------------------------------------------------------------------
(* The inductive strengthening. *)

\* As long as none is missed, the latest heartbeat is young enough at the next
\* one, and a process writes its first one before its monitor looks.
AgeBounded ==
  up /\ ~missed =>
    /\ ~hung
    /\ \/ beaten /\ age + hbWait <= Period + 2 * Delay
       \/ hbWait < moWait

\* Each history fits into the time since the monitor's last look.
SinceLastLook ==
  /\ up /\ ~alerted /\ stale > 0 => stale + moWait <= Period + Delay
  /\ up /\ alerted /\ healthy > 0 => healthy + moWait <= Period + Delay
  /\ ~up => stale <= Period + Delay \/ alerted
  /\ ~up => healthy <= Period + Delay \/ ~alerted
  /\ stale > 0 => beaten /\ age > StaleAfter
  /\ healthy > 0 => beaten /\ (age <= StaleAfter)

IInv == TypeOK /\ AgeBounded /\ SinceLastLook
=============================================================================
