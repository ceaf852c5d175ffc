------------------------------ MODULE AlertDedup ------------------------------
(***************************************************************************)
(* The deduplicator of notifications/dedup.py with the threads of one      *)
(* supervisor process as its callers: both loops' error reports, the       *)
(* trading loop's cycle errors and the monitor's heartbeat alerts share    *)
(* one dictionary.  A caller reads the clock before it takes the lock, so  *)
(* its `now` may be older than that of a caller that took the lock first.  *)
(* Instants are kept relative to the present: an entry is the number of    *)
(* ticks until it expires, a caller the age of its `now`.                  *)
(***************************************************************************)
EXTENDS Integers

CONSTANTS
  Threads,      \* threads that notify
  EventTypes, Components, Symbols,   \* what alerts are made of; None is a symbol
  Window,       \* window_seconds in ticks
  MaxLag        \* bound: ticks between reading the clock and holding the lock

ASSUME WindowAssumption == Window \in Nat
ASSUME LagAssumption == MaxLag \in Nat /\ MaxLag < Window

VARIABLES
  entries,   \* _entries: key -> ticks until expire_at, for the keys it holds
  calls,     \* thread -> its call of should_notify
  since      \* history: key -> ticks since its last delivery, up to Ever

dedupVars == <<entries, calls, since>>

Keys == [event_type : EventTypes, component : Components, symbol : Symbols]
Ever == Window + MaxLag
NoCall == [state |-> "idle"]
Calls ==
  {NoCall} \union [state : {"asked"}, alert : Keys, lag : 0..MaxLag]
           \union [state : {"told"}, alert : Keys, lag : 0..MaxLag, notify : BOOLEAN]

AtLeast(n, bound) == IF n < bound THEN bound ELSE n
AtMost(n, bound) == IF n > bound THEN bound ELSE n

DedupInit ==
  /\ entries = [k \in {} |-> 0]
  /\ calls = [t \in Threads |-> NoCall]
  /\ since = [k \in Keys |-> Ever]

\* Fault for mutation: alerts of one type are one.
KeyOfType(alert) == [event_type |-> alert.event_type]

\* DedupKey
Key(alert) == alert

\* Entries whose expire_at is not after the caller's now go, whatever their key.
Evict(lag) == [k \in {j \in DOMAIN entries : entries[j] + lag > 0} |-> entries[k]]

Remember(table, k, left) ==
  [j \in DOMAIN table \union {k} |-> IF j = k THEN left ELSE table[j]]

-----------------------------------------------------------------------------
\* should_notify: the key is built and the clock read.
Ask(t, alert) ==
  /\ calls[t].state = "idle"
  /\ calls' = [calls EXCEPT ![t] = [state |-> "asked", alert |-> alert, lag |-> 0]]
  /\ UNCHANGED <<entries, since>>

Answer(t, told) ==
  calls' = [calls EXCEPT ![t] = [state |-> "told", alert |-> calls[t].alert,
                                 lag |-> calls[t].lag, notify |-> told]]

\* Fault for mutation: a suppressed alert prolongs the window.
SuppressAndProlong(t) ==
  LET k == Key(calls[t].alert) kept == Evict(calls[t].lag) IN
  /\ calls[t].state = "asked" /\ k \in DOMAIN kept
  /\ entries' = Remember(kept, k, Window - calls[t].lag)
  /\ Answer(t, FALSE)
  /\ UNCHANGED since

\* The body under the lock, of a key that has an entry.
Suppress(t) ==
  LET kept == Evict(calls[t].lag) IN
  /\ calls[t].state = "asked" /\ Key(calls[t].alert) \in DOMAIN kept
  /\ entries' = kept
  /\ Answer(t, FALSE)
  /\ UNCHANGED since

\* Fault for mutation: the check is not under the lock, so another caller's entry
\* may have come in since.
AdmitUnlocked(t) ==
  LET k == Key(calls[t].alert) IN
  /\ calls[t].state = "asked"
  /\ entries' = Remember(Evict(calls[t].lag), k, Window - calls[t].lag)
  /\ since' = [since EXCEPT ![calls[t].alert] = 0]
  /\ Answer(t, TRUE)

\* The body under the lock, of a key that has none.
Admit(t) ==
  LET k == Key(calls[t].alert) kept == Evict(calls[t].lag) IN
  /\ calls[t].state = "asked" /\ k \notin DOMAIN kept
  /\ entries' = Remember(kept, k, Window - calls[t].lag)
  /\ since' = [since EXCEPT ![calls[t].alert] = 0]
  /\ Answer(t, TRUE)

\* The caller notifies or leaves it, and goes on.
Return(t) ==
  /\ calls[t].state = "told"
  /\ calls' = [calls EXCEPT ![t] = NoCall]
  /\ UNCHANGED <<entries, since>>

\* A tick passes while no call has waited for its lock for MaxLag.
Tick ==
  /\ \A t \in Threads : calls[t].state = "asked" => calls[t].lag < MaxLag
  /\ entries' = [k \in DOMAIN entries |-> AtLeast(entries[k] - 1, -MaxLag)]
  /\ calls' = [t \in Threads |-> IF calls[t].state = "asked"
                                   THEN [calls[t] EXCEPT !.lag = @ + 1] ELSE calls[t]]
  /\ since' = [k \in Keys |-> AtMost(since[k] + 1, Ever)]

DedupNext ==
  \/ Tick
  \/ \E t \in Threads :
       \/ \E alert \in Keys : Ask(t, alert)
       \/ Suppress(t) \/ Admit(t) \/ Return(t)

DedupSpec == DedupInit /\ [][DedupNext]_dedupVars

-----------------------------------------------------------------------------
(* Properties. *)

\* No entry outlives the window or is kept longer than the callers' lag lets it.
DedupTypeOK ==
  /\ DOMAIN entries \subseteq Keys
  /\ \A k \in DOMAIN entries : entries[k] \in (-MaxLag)..Window
  /\ calls \in [Threads -> Calls]
  /\ since \in [Keys -> 0..Ever]

Answered(t, notify) ==
  /\ calls[t].state = "asked"
  /\ calls'[t].state = "told" /\ calls'[t].notify = notify

\* "throttles repeat notifications within a time window": whichever threads call
\* in whatever order, two notifications of one alert are a window apart, less
\* what the clock readings of the callers may be old.
SpacedDeliveries ==
  [][\A t \in Threads :
       Answered(t, TRUE) => since[calls[t].alert] >= Window - MaxLag]_dedupVars

\* An alert is kept back only when the very same alert (type, component and
\* symbol) was delivered within a window, plus that lag: a repetition does not
\* prolong the silence and no other alert causes it.
SilenceIsBounded ==
  [][\A t \in Threads :
       Answered(t, FALSE) => since[calls[t].alert] < Window + MaxLag]_dedupVars

-----------------------------------------------------------------------------
(* The inductive strengthening. *)

\* An entry ends a window after the clock reading of its delivery, which is at
\* most MaxLag older than the delivery; without one no delivery is that recent.
EntriesTellDeliveries ==
  \A k \in Keys :
    /\ k \in DOMAIN entries => entries[k] + since[k] <= Window
    /\ k \in DOMAIN entries => entries[k] + since[k] >= Window - MaxLag \/ since[k] >= Window
    /\ k \notin DOMAIN entries => since[k] >= Window - MaxLag

DedupIInv == DedupTypeOK /\ EntriesTellDeliveries
=============================================================================
