---------------------------- MODULE AlertDelivery ----------------------------
(***************************************************************************)
(* What the operator is told of the heartbeat: the monitor of              *)
(* HeartbeatMonitor, whose alerts pass through the deduplicator before     *)
(* they are sent (runtime/supervisor.py:193-261).  Its thread alone uses   *)
(* the two keys heartbeat_lost and heartbeat_recovered, so the dictionary  *)
(* of AlertDedup is here the ticks left of the window of each of them.     *)
(***************************************************************************)
EXTENDS HeartbeatMonitor

CONSTANTS
  Window,       \* window_seconds in ticks
  SendsFail     \* whether the notifier may fail, which it swallows

ASSUME WindowAssumption == Window \in Nat \ {0}
ASSUME SendsAssumption == SendsFail \in BOOLEAN

VARIABLES
  left,      \* key -> ticks until its entry expires; 0: no entry
  told,      \* the last notification that reached the operator
  gap        \* history: ticks since heartbeat_lost was last sent, up to Window

delivery == <<left, told, gap>>
deliveryVars == <<vars, delivery>>

Keys == {"lost", "recovered"}

DeliveryInit ==
  /\ Init
  /\ left = [k \in Keys |-> 0]
  /\ told = "none" /\ gap = Window

\* Fault for mutation: the key is the component, whatever the event type.
BySameComponent(k) == \E j \in Keys : left[j] > 0

\* should_notify is False
Suppressed(k) == left[k] > 0

\* notify: best effort, a failure is logged and the entry stays.
Send(k) == told' \in {k} \union (IF SendsFail THEN {told} ELSE {})

Notify(k) ==
  IF Suppressed(k)
    THEN UNCHANGED <<left, told>>
    ELSE left' = [left EXCEPT ![k] = Window] /\ Send(k)

\* _send_heartbeat_lost_alert
Lose ==
  /\ ~alerted /\ alerted'
  /\ Notify("lost")
  /\ gap' = IF left' = left THEN gap ELSE 0

\* _send_recovered_notification, and a late recovery that sends nothing.
Recover ==
  /\ alerted /\ ~alerted'
  /\ IF age <= ConfirmWithin THEN Notify("recovered") ELSE UNCHANGED <<left, told>>
  /\ UNCHANGED gap

CheckAndNotify ==
  /\ Check
  /\ Lose \/ Recover \/ (alerted' = alerted /\ UNCHANGED delivery)

\* The dictionary belongs to the process.
StartEmpty ==
  /\ StartProcess
  /\ left' = [k \in Keys |-> 0]
  /\ UNCHANGED <<told, gap>>

TickWindows ==
  /\ Tick
  /\ left' = [k \in Keys |-> IF left[k] = 0 THEN 0 ELSE left[k] - 1]
  /\ gap' = AtMost(gap + 1, Window)
  /\ UNCHANGED told

DeliveryNext ==
  \/ StartEmpty \/ TickWindows \/ CheckAndNotify
  \/ (EndProcess \/ Beat \/ BeatFails \/ BeatHangs \/ CheckFails \/ ScrollOut) /\ UNCHANGED delivery

DeliverySpec == DeliveryInit /\ [][DeliveryNext]_deliveryVars

-----------------------------------------------------------------------------
(* Properties. *)

\* An alert is raised only together with an attempt to send it or within a
\* window of the last one, whether the event could be recorded or not, and
\* whatever other alerts and earlier processes sent: an outage after a quiet
\* window is always sent.
RaisedAlertsAreSent == [][~alerted /\ alerted' => gap' < Window]_deliveryVars

\* "Send a 'heartbeat lost' alert when the supervisor stops emitting heartbeats."
\* (supervisor.py:194): during an alert the last the operator heard is the loss.
OutageIsTold == up /\ alerted => told = "lost"
=============================================================================
