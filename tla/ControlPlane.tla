---------------------------- MODULE ControlPlane ----------------------------
(***************************************************************************)
(* The write side of the control plane: the FastAPI handlers set_mode and  *)
(* set_live_lock.  FastAPI runs each in a worker thread with its own       *)
(* database session, so two requests interleave at every statement that    *)
(* reaches the database, a statement may fail at any point, and the        *)
(* process may be killed between two of them.                              *)
(*                                                                         *)
(* A handler first reads the mode and the lock in two separate sessions    *)
(* and judges the request on that pair (set_live_lock judges nothing).     *)
(* It then opens a third session: it reads the value it will report as     *)
(* "before", loads the row again, writes and commits, reads the row back   *)
(* and records the audit event in a second commit.  The ORM identity map   *)
(* holds clean rows weakly, so each get is a new SELECT; a flush whose new *)
(* value equals the loaded one emits no UPDATE.                            *)
(***************************************************************************)
EXTENDS ControlRows, Naturals, FiniteSets, Sequences

CONSTANTS
  Requests,      \* the requests operators may post, each at most once
  MaxInFlight,   \* how many handlers run at a time
  Faults         \* TRUE: statements may fail and the API process may be killed

Values == Modes \union LockValues

RequestsAssumption ==
  \A r \in Requests :
    /\ r.key \in RowKeys
    /\ r.dryRun \in BOOLEAN
    /\ r.unlock \in BOOLEAN
    /\ r.key = "trade_mode" => r.to \in Modes
    /\ r.key = "live_trading_lock" => r.to \in LockValues /\ ~r.dryRun

ASSUME ControlPlaneAssumption ==
  /\ RequestsAssumption
  /\ MaxInFlight \in Nat \ {0}
  /\ Faults \in BOOLEAN
  /\ Absent \notin Values

VARIABLES
  events,   \* the audit events, in commit order
  pc,       \* where each handler stands
  seen,     \* the mode and lock the handler judged the request on
  sess,     \* what the persisting session read: before, loaded, after
  reply,    \* what the caller was answered
  held      \* history: since the handler began to persist, the row has held
            \* the requested value at some instant

vars == <<rows, events, pc, seen, sess, reply, held>>

Persisting == {"read_before", "locate", "commit", "reread", "record"}

Running == {"read_mode", "decide", "preflight", "block_event"} \union Persisting

Replies == {"none", "ok", "refused", "unavailable", "lost"}

EventTypes ==
  {"runtime_mode_changed", "runtime_live_lock_changed", "preflight_blocked"}

EventRecords ==
  [type : EventTypes, by : Requests,
   before : Values \union {Absent}, after : Values \union {Absent}]

ChangeEvent(k) ==
  IF k = "trade_mode" THEN "runtime_mode_changed" ELSE "runtime_live_lock_changed"

\* A row as the repository's getter reads it.
View(rs, k) ==
  IF k = "trade_mode" THEN TradeMode(rs)
  ELSE IF LockEngaged(rs) THEN "engaged" ELSE "released"

InFlight == {r \in Requests : pc[r] \in Running}

-----------------------------------------------------------------------------
Init ==
  /\ RowsInit          \* whatever earlier processes left in the database
  /\ events = << >>
  /\ pc = [r \in Requests |-> "idle"]
  /\ seen = [r \in Requests |-> [mode |-> DefaultMode, locked |-> FALSE]]
  /\ sess = [r \in Requests |-> [before |-> Absent, loaded |-> Absent, after |-> Absent]]
  /\ reply = [r \in Requests |-> "none"]
  /\ held = [r \in Requests |-> FALSE]

Goto(r, l) == pc' = [pc EXCEPT ![r] = l]

Answer(r, status) ==
  /\ Goto(r, "done")
  /\ reply' = [reply EXCEPT ![r] = status]

RecordEvent(r, type) ==
  events' = Append(events, [type |-> type, by |-> r,
                            before |-> sess[r].before, after |-> sess[r].after])

\* The request arrives and the engine and the session factory are made.
Start(r) ==
  /\ pc[r] = "idle"
  /\ Cardinality(InFlight) < MaxInFlight
  /\ Goto(r, IF r.key = "trade_mode" THEN "read_mode" ELSE "read_before")
  /\ UNCHANGED <<rows, events, seen, sess, reply>>

\* get_trade_mode in a session of its own.
ReadMode(r) ==
  /\ pc[r] = "read_mode"
  /\ seen' = [seen EXCEPT ![r].mode = TradeMode(rows)]
  /\ Goto(r, "decide")
  /\ UNCHANGED <<rows, events, sess, reply>>

Allowed(r, s) == TransitionAllowed(s.mode, r.to, s.locked, r.unlock)

\* Fault for mutation: a dry run of an ordinary mode goes on to persist.
DecideModePersistsDryRun(r) ==
  LET s == [seen[r] EXCEPT !.locked = LockEngaged(rows)]
  IN  /\ pc[r] = "decide"
      /\ seen' = [seen EXCEPT ![r] = s]
      /\ IF s.mode = r.to THEN Answer(r, "ok")
         ELSE IF ~Allowed(r, s) THEN Answer(r, "refused")
         ELSE /\ Goto(r, IF r.to = "live_small_auto" THEN "preflight" ELSE "read_before")
              /\ UNCHANGED reply
      /\ UNCHANGED <<rows, events, sess>>

\* get_live_trading_lock in another session, then everything the handler
\* decides on the pair it has: the same mode, the transition guard, pre-flight
\* for live_small_auto, the dry run of any other mode.
DecideMode(r) ==
  LET s == [seen[r] EXCEPT !.locked = LockEngaged(rows)]
  IN  /\ pc[r] = "decide"
      /\ seen' = [seen EXCEPT ![r] = s]
      /\ \/ /\ s.mode = r.to
            /\ Answer(r, "ok")
         \/ /\ s.mode # r.to
            /\ ~Allowed(r, s)
            /\ Answer(r, "refused")
         \/ /\ s.mode # r.to
            /\ Allowed(r, s)
            /\ IF r.to = "live_small_auto"
                 THEN Goto(r, "preflight") /\ UNCHANGED reply
                 ELSE IF r.dryRun
                        THEN Answer(r, "ok")
                        ELSE Goto(r, "read_before") /\ UNCHANGED reply
      /\ UNCHANGED <<rows, events, sess>>

\* exchanges.yaml, the symbol and the risk state, all outside this module:
\* any of them may be missing and any risk state may be resolved.
PreFlight(r) ==
  /\ pc[r] = "preflight"
  /\ \E yaml, symbol, keys, whitelisted \in BOOLEAN, risk \in ResolvedRiskStates :
       \/ /\ ~yaml \/ ~symbol \/ risk = "unavailable"
          /\ Answer(r, "refused")
       \/ /\ yaml /\ symbol /\ risk # "unavailable"
          /\ IF ~PreFlightPasses(keys, whitelisted, seen[r].locked, risk)
               THEN Goto(r, "block_event") /\ UNCHANGED reply
               ELSE IF r.dryRun
                      THEN Answer(r, "ok")
                      ELSE Goto(r, "read_before") /\ UNCHANGED reply
  /\ UNCHANGED <<rows, events, seen, sess>>

\* record_event commits and then refreshes; a failing refresh is answered
\* "unavailable" although the event is there.
Recorded(r, status) ==
  \/ Answer(r, status)
  \/ Faults /\ Answer(r, "unavailable")

RecordBlocked(r) ==
  /\ pc[r] = "block_event"
  /\ RecordEvent(r, "preflight_blocked")
  /\ Recorded(r, "refused")
  /\ UNCHANGED <<rows, seen, sess>>

ReadBefore(r) ==
  /\ pc[r] = "read_before"
  /\ sess' = [sess EXCEPT ![r].before = View(rows, r.key)]
  /\ Goto(r, "locate")
  /\ UNCHANGED <<rows, events, seen, reply>>

Locate(r) ==
  /\ pc[r] = "locate"
  /\ sess' = [sess EXCEPT ![r].loaded = rows[r.key]]
  /\ Goto(r, "commit")
  /\ UNCHANGED <<rows, events, seen, reply>>

\* INSERT for a row that was absent, UPDATE for one that was loaded with
\* another value.
Commit(r) ==
  /\ pc[r] = "commit"
  /\ sess[r].loaded = Absent => rows[r.key] = Absent
  /\ sess[r].loaded # r.to \/ r.key = "live_trading_lock"
  /\ WriteRow(r.key, r.to)
  /\ Goto(r, "reread")
  /\ UNCHANGED <<events, seen, sess, reply>>

\* Fault for mutation: the flush is elided whatever was loaded.
ElideAlways(r) ==
  /\ pc[r] = "commit"
  /\ Goto(r, "reread")
  /\ UNCHANGED <<rows, events, seen, sess, reply>>

\* The loaded value equals the new one: nothing is flushed.  (A lock row whose
\* reason differs is flushed all the same; that is Commit.)
ElideCommit(r) ==
  /\ pc[r] = "commit"
  /\ sess[r].loaded = r.to
  /\ Goto(r, "reread")
  /\ UNCHANGED <<rows, events, seen, sess, reply>>

\* Fault for mutation: the colliding insert is tried again and again.
CollideRetries(r) ==
  /\ pc[r] = "commit"
  /\ sess[r].loaded = Absent
  /\ rows[r.key] # Absent
  /\ UNCHANGED <<rows, events, pc, seen, sess, reply>>

\* Another request inserted the row first: IntegrityError.
CollideInsert(r) ==
  /\ pc[r] = "commit"
  /\ sess[r].loaded = Absent
  /\ rows[r.key] # Absent
  /\ Answer(r, "unavailable")
  /\ UNCHANGED <<rows, events, seen, sess>>

\* Fault for mutation: the value loaded before the write is reported as the new one.
RereadStale(r) ==
  /\ pc[r] = "reread"
  /\ sess' = [sess EXCEPT ![r].after = sess[r].before]
  /\ Goto(r, "record")
  /\ UNCHANGED <<rows, events, seen, reply>>

Reread(r) ==
  /\ pc[r] = "reread"
  /\ sess' = [sess EXCEPT ![r].after = View(rows, r.key)]
  /\ Goto(r, "record")
  /\ UNCHANGED <<rows, events, seen, reply>>

RecordChange(r) ==
  /\ pc[r] = "record"
  /\ RecordEvent(r, ChangeEvent(r.key))
  /\ Recorded(r, "ok")
  /\ UNCHANGED <<rows, seen, sess>>

\* A statement raises: the handler's except clause answers "unavailable".
Fail(r) ==
  /\ Faults
  /\ pc[r] \in Running
  /\ Answer(r, "unavailable")
  /\ UNCHANGED <<rows, events, seen, sess>>

\* The API process dies with its requests unanswered.
Crash ==
  /\ Faults
  /\ InFlight # {}
  /\ pc' = [r \in Requests |-> IF r \in InFlight THEN "done" ELSE pc[r]]
  /\ reply' = [r \in Requests |-> IF r \in InFlight THEN "lost" ELSE reply[r]]
  /\ UNCHANGED <<rows, events, seen, sess>>

Handler(r) ==
  \/ ReadMode(r) \/ DecideMode(r) \/ PreFlight(r) \/ RecordBlocked(r)
  \/ ReadBefore(r) \/ Locate(r) \/ Commit(r) \/ ElideCommit(r)
  \/ CollideInsert(r) \/ Reread(r) \/ RecordChange(r)

\* The history variable watches the row through every step, of any handler.
Observe ==
  held' = [r \in Requests |->
             \/ held[r]
             \/ pc[r] \in Persisting /\ r.to \in {View(rows, r.key), View(rows', r.key)}]

Next ==
  /\ \/ \E r \in Requests : Start(r) \/ Handler(r) \/ Fail(r)
     \/ Crash
  /\ Observe

Spec == Init /\ [][Next]_vars

\* Each handler has a thread: once called it keeps running.  Nobody has to
\* post a request, no statement has to fail.
Fairness == \A r \in Requests : WF_vars(Handler(r) /\ Observe)

FairSpec == Spec /\ Fairness
-----------------------------------------------------------------------------
(* Properties. *)

Committed(r) ==
  \E i \in DOMAIN events : events[i].by = r /\ events[i].type = ChangeEvent(r.key)

TypeOK ==
  /\ rows \in [RowKeys -> Values \union {Absent}]
  /\ events \in Seq(EventRecords)
  /\ pc \in [Requests -> Running \union {"idle", "done"}]
  /\ seen \in [Requests -> [mode : Modes, locked : BOOLEAN]]
  /\ sess \in [Requests -> [before : Values \union {Absent},
                            loaded : Values \union {Absent},
                            after : Values \union {Absent}]]
  /\ reply \in [Requests -> Replies]
  /\ held \in [Requests -> BOOLEAN]

\* No interleaving of mode and lock requests, however stale the pair a handler
\* judged, ever persists live_small_auto: validate_mode_transition wants the
\* lock on and pre-flight wants it off, of the same reading.
NeverLiveSmallAuto == TradeMode(rows) # "live_small_auto"

\* Why: a handler asked for live_small_auto reaches pre-flight only with the
\* lock engaged in the reading it judged, so pre-flight never lets it persist.
LiveRequestsStop ==
  \A r \in Requests :
    r.to = "live_small_auto" =>
      /\ pc[r] \notin Persisting
      /\ pc[r] = "preflight" => seen[r].locked

\* The strengthening that makes NeverLiveSmallAuto inductive.
IInv == TypeOK /\ LiveRequestsStop /\ RowsInContract

\* A request that was refused, or that only asked for a dry run, has changed no
\* row and recorded no change, whatever ran beside it.
NoTraceOfRefusals ==
  \A r \in Requests :
    r.dryRun \/ reply[r] = "refused" => pc[r] \notin Persisting /\ ~Committed(r)

\* A change answered with success and recorded was in force at some instant
\* while its handler ran, even when the flush was elided because another request
\* had already written the same value: an acknowledged pause or lock is never
\* one that was not applied at all.
AckedChangeWasInForce ==
  \A r \in Requests : reply[r] = "ok" /\ Committed(r) => held[r]

\* What set_mode and set_live_lock promise the loops that read the rows.
Contract == RowsSpec

Quiet ==
  /\ InFlight = {}
  /\ \A r \in Requests : reply[r] \notin {"unavailable", "lost"}

ChangesOf(k) ==
  {i \in DOMAIN events : events[i].type = ChangeEvent(k)}

\* Requests handled one at a time and without a fault leave an audit trail that
\* explains the row: the events chain (each starts from the value the previous
\* one ended with), each ends with what was asked, and the last one names the
\* value now persisted.
AuditTrailExplainsRows ==
  Quiet =>
    \A k \in RowKeys :
      LET C == ChangesOf(k)
      IN  \A i \in C :
            /\ events[i].after = events[i].by.to
            /\ \A j \in C :
                 /\ i < j
                 /\ \A m \in C : ~(i < m /\ m < j)
                 => events[j].before = events[i].after
            /\ (\A j \in C : j <= i) => events[i].after = View(rows, k)

\* Every request posted is answered, with an answer of some kind, unless the
\* process is killed: no path through the handler waits for ever.
EveryRequestAnswered ==
  \A r \in Requests : pc[r] \in Running ~> reply[r] # "none"

\* The reply "blocked: unavailable" (routes_runtime.py:790-795) says the change
\* was blocked, so a handler that has committed its change does not say so.
BlockedMeansNotCommitted ==
  [][\A r \in Requests :
       pc[r] \in {"reread", "record"} => reply'[r] # "unavailable"]_vars

\* The release gate's verdict on a dry run mirrors what an operator's dry-run
\* request would be answered (routes_runtime.py:1218-1219).
GateMirrorsDryRun ==
  \A risk \in ResolvedRiskStates :
    GateAllowsDryRun(TradeMode(rows), LockEngaged(rows), TRUE, TRUE, risk, FALSE)
      => DryRunSucceeds(TradeMode(rows), LockEngaged(rows), TRUE, TRUE, TRUE, risk)
=============================================================================
